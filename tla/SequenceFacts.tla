---------------------------- MODULE SequenceFacts ----------------------------
(***************************************************************************)
(* Where a thing is, when things are handed on in sequences: blocks of     *)
(* bytes, queues of messages, queues of blocks.  In(m, s) says that the    *)
(* sequence s has m, One(m, s) that it has it at one place at most;        *)
(* Among(m, f) and Single(m, f) say the same of a family f of sequences,   *)
(* a sequence for each thread, say, or a queue of blocks.                  *)
(*                                                                         *)
(* The lemmas tell what becomes of these when a sequence grows, is taken   *)
(* from, split or joined, and when a family gets another member.  The last *)
(* ones replace induction, which cannot be cited here: a set of naturals   *)
(* has a least element, and so one that is closed under successors goes on *)
(* (LeastNatural, Upwards).                                                *)
(***************************************************************************)
EXTENDS Naturals, Sequences, FiniteSets, FiniteSetTheorems,
        WellFoundedInduction, TLAPS

In(m, s) == \E i \in DOMAIN s : s[i] = m
One(m, s) == \A i, j \in DOMAIN s : s[i] = m /\ s[j] = m => i = j

Among(m, f) == \E a \in DOMAIN f : In(m, f[a])
Single(m, f) == /\ \A a, b \in DOMAIN f : In(m, f[a]) /\ In(m, f[b]) => a = b
                /\ \A a \in DOMAIN f : One(m, f[a])

-----------------------------------------------------------------------------
(* Sequences *)

LEMMA EmptyHas ==
    ASSUME NEW m
    PROVE  ~In(m, <<>>) /\ One(m, <<>>)
  BY DEF In, One

LEMMA AppendHas ==
    ASSUME NEW S, NEW s \in Seq(S), NEW e \in S, NEW m
    PROVE  /\ In(m, Append(s, e)) <=> In(m, s) \/ m = e
           /\ One(m, s) /\ ~(In(m, s) /\ m = e) => One(m, Append(s, e))
<1> DEFINE r == Append(s, e)
<1>1. /\ DOMAIN s = 1 .. Len(s) /\ Len(s) \in Nat
      /\ DOMAIN r = 1 .. Len(s) + 1
      /\ \A i \in 1 .. Len(s) : r[i] = s[i]
      /\ r[Len(s) + 1] = e
  OBVIOUS
<1> HIDE DEF r
<1>2. In(m, r) <=> In(m, s) \/ m = e
  <2>1. ASSUME In(m, r) PROVE In(m, s) \/ m = e
    BY <1>1, <2>1 DEF In
  <2>2. ASSUME In(m, s) PROVE In(m, r)
    BY <1>1, <2>2 DEF In
  <2>3. ASSUME m = e PROVE In(m, r)
    BY <1>1, <2>3 DEF In
  <2>4. QED
    BY <2>1, <2>2, <2>3
<1>3. ASSUME One(m, s), ~(In(m, s) /\ m = e)
      PROVE  One(m, r)
  BY <1>1, <1>3 DEF One, In
<1>4. QED
  BY <1>2, <1>3 DEF r

LEMMA HeadHas ==
    ASSUME NEW S, NEW s \in Seq(S), s # <<>>, NEW m
    PROVE  /\ In(m, s) <=> m = Head(s) \/ In(m, Tail(s))
           /\ One(m, s) => One(m, Tail(s)) /\ ~(m = Head(s) /\ In(m, Tail(s)))
<1> DEFINE r == Tail(s)
<1>1. /\ DOMAIN s = 1 .. Len(s) /\ Len(s) \in Nat \ {0}
      /\ DOMAIN r = 1 .. Len(s) - 1
      /\ \A i \in 1 .. Len(s) - 1 : r[i] = s[i + 1]
      /\ Head(s) = s[1]
  OBVIOUS
<1> HIDE DEF r
<1>2. In(m, s) <=> m = Head(s) \/ In(m, r)
  <2>1. ASSUME In(m, s) PROVE m = Head(s) \/ In(m, r)
    <3>1. PICK i \in 1 .. Len(s) : s[i] = m
      BY <1>1, <2>1 DEF In
    <3>2. CASE i = 1
      BY <1>1, <3>1, <3>2
    <3>3. CASE i # 1
      <4>1. i - 1 \in 1 .. Len(s) - 1 /\ r[i - 1] = m
        BY <1>1, <3>1, <3>3
      <4>2. QED
        BY <1>1, <4>1 DEF In
    <3>4. QED
      BY <3>2, <3>3
  <2>2. ASSUME m = Head(s) PROVE In(m, s)
    BY <1>1, <2>2 DEF In
  <2>3. ASSUME In(m, r) PROVE In(m, s)
    <3>1. PICK i \in 1 .. Len(s) - 1 : r[i] = m
      BY <1>1, <2>3 DEF In
    <3>2. i + 1 \in 1 .. Len(s) /\ s[i + 1] = m
      BY <1>1, <3>1
    <3>3. QED
      BY <1>1, <3>2 DEF In
  <2>4. QED
    BY <2>1, <2>2, <2>3
<1>3. ASSUME One(m, s)
      PROVE  One(m, r) /\ ~(m = Head(s) /\ In(m, r))
  <2>1. ASSUME NEW i \in DOMAIN r, NEW j \in DOMAIN r, r[i] = m, r[j] = m
        PROVE  i = j
    <3>1. /\ i + 1 \in DOMAIN s /\ j + 1 \in DOMAIN s
          /\ s[i + 1] = m /\ s[j + 1] = m
      BY <1>1, <2>1
    <3>2. i + 1 = j + 1
      BY <1>3, <3>1 DEF One
    <3>3. QED
      BY <1>1, <3>2
  <2>2. ASSUME m = Head(s), NEW i \in DOMAIN r, r[i] = m
        PROVE  FALSE
    <3>1. i + 1 \in DOMAIN s /\ s[i + 1] = m /\ s[1] = m /\ 1 \in DOMAIN s
      BY <1>1, <2>2
    <3>2. i + 1 = 1
      BY <1>3, <3>1 DEF One
    <3>3. QED
      BY <1>1, <3>2
  <2>3. QED
    BY <2>1, <2>2 DEF One, In
<1>4. QED
  BY <1>2, <1>3 DEF r

LEMMA ConcatHas ==
    ASSUME NEW S, NEW s \in Seq(S), NEW t \in Seq(S), NEW m
    PROVE  /\ In(m, s \o t) <=> In(m, s) \/ In(m, t)
           /\ One(m, s) /\ One(m, t) /\ ~(In(m, s) /\ In(m, t))
                 => One(m, s \o t)
<1> DEFINE r == s \o t
<1>1. /\ DOMAIN s = 1 .. Len(s) /\ Len(s) \in Nat
      /\ DOMAIN t = 1 .. Len(t) /\ Len(t) \in Nat
      /\ DOMAIN r = 1 .. Len(s) + Len(t)
      /\ \A i \in 1 .. Len(s) : r[i] = s[i]
      /\ \A i \in Len(s) + 1 .. Len(s) + Len(t) : r[i] = t[i - Len(s)]
  OBVIOUS
<1> HIDE DEF r
<1>2. ASSUME NEW i \in DOMAIN r, r[i] = m
      PROVE  \/ i \in DOMAIN s /\ s[i] = m
             \/ i - Len(s) \in DOMAIN t /\ t[i - Len(s)] = m
  BY <1>1, <1>2
<1>3. In(m, r) <=> In(m, s) \/ In(m, t)
  <2>1. ASSUME In(m, r) PROVE In(m, s) \/ In(m, t)
    BY <1>2, <2>1 DEF In
  <2>2. ASSUME In(m, s) PROVE In(m, r)
    BY <1>1, <2>2 DEF In
  <2>3. ASSUME In(m, t) PROVE In(m, r)
    <3>1. PICK i \in 1 .. Len(t) : t[i] = m
      BY <1>1, <2>3 DEF In
    <3>2. /\ Len(s) + i \in Len(s) + 1 .. Len(s) + Len(t)
          /\ (Len(s) + i) - Len(s) = i
      BY <1>1, <3>1
    <3>3. Len(s) + i \in DOMAIN r /\ r[Len(s) + i] = m
      BY <1>1, <3>1, <3>2
    <3>4. QED
      BY <3>3 DEF In
  <2>4. QED
    BY <2>1, <2>2, <2>3
<1>4. ASSUME One(m, s), One(m, t), ~(In(m, s) /\ In(m, t)),
             NEW i \in DOMAIN r, NEW j \in DOMAIN r, r[i] = m, r[j] = m
      PROVE  i = j
  <2>1. \/ i \in DOMAIN s /\ s[i] = m /\ j \in DOMAIN s /\ s[j] = m
        \/ /\ i - Len(s) \in DOMAIN t /\ t[i - Len(s)] = m
           /\ j - Len(s) \in DOMAIN t /\ t[j - Len(s)] = m
    BY <1>2, <1>4 DEF In
  <2>2. i = j \/ i - Len(s) = j - Len(s)
    BY <1>4, <2>1 DEF One
  <2>3. QED
    BY <1>1, <2>2
<1>5. QED
  BY <1>3, <1>4 DEF One, r

(* A block that is cut in two. *)
LEMMA SplitHas ==
    ASSUME NEW S, NEW s \in Seq(S), NEW k \in 0 .. Len(s), NEW m
    PROVE  LET front == SubSeq(s, 1, k)
               rest  == SubSeq(s, k + 1, Len(s))
           IN  /\ In(m, s) <=> In(m, front) \/ In(m, rest)
               /\ One(m, s) => /\ One(m, front) /\ One(m, rest)
                               /\ ~(In(m, front) /\ In(m, rest))
<1> DEFINE front == SubSeq(s, 1, k)
           rest == SubSeq(s, k + 1, Len(s))
<1>1. /\ DOMAIN s = 1 .. Len(s) /\ Len(s) \in Nat /\ k \in Nat
      /\ DOMAIN front = 1 .. k
      /\ DOMAIN rest = 1 .. Len(s) - k
      /\ \A i \in 1 .. k : front[i] = s[i]
      /\ \A i \in 1 .. Len(s) - k : rest[i] = s[k + i]
  OBVIOUS
<1> HIDE DEF front, rest
<1>2. ASSUME NEW i \in DOMAIN front, front[i] = m
      PROVE  i \in DOMAIN s /\ s[i] = m /\ i <= k
  BY <1>1, <1>2
<1>3. ASSUME NEW i \in DOMAIN rest, rest[i] = m
      PROVE  k + i \in DOMAIN s /\ s[k + i] = m /\ k + i > k
  BY <1>1, <1>3
<1>4. In(m, s) <=> In(m, front) \/ In(m, rest)
  <2>1. ASSUME In(m, s) PROVE In(m, front) \/ In(m, rest)
    <3>1. PICK i \in 1 .. Len(s) : s[i] = m
      BY <1>1, <2>1 DEF In
    <3>2. CASE i <= k
      <4>1. i \in DOMAIN front /\ front[i] = m
        BY <1>1, <3>1, <3>2
      <4>2. QED
        BY <4>1 DEF In
    <3>3. CASE i > k
      <4>1. i - k \in 1 .. Len(s) - k /\ k + (i - k) = i
        BY <1>1, <3>1, <3>3
      <4>2. i - k \in DOMAIN rest /\ rest[i - k] = m
        BY <1>1, <3>1, <4>1
      <4>3. QED
        BY <4>2 DEF In
    <3>4. QED
      BY <1>1, <3>2, <3>3
  <2>2. ASSUME In(m, front) \/ In(m, rest) PROVE In(m, s)
    BY <1>2, <1>3, <2>2 DEF In
  <2>3. QED
    BY <2>1, <2>2
<1>5. ASSUME One(m, s)
      PROVE  One(m, front) /\ One(m, rest) /\ ~(In(m, front) /\ In(m, rest))
  <2>1. One(m, front)
    BY <1>2, <1>5 DEF One
  <2>2. ASSUME NEW i \in DOMAIN rest, NEW j \in DOMAIN rest,
               rest[i] = m, rest[j] = m
        PROVE  i = j
    <3>1. k + i = k + j
      BY <1>3, <1>5, <2>2 DEF One
    <3>2. QED
      BY <1>1, <3>1
  <2>3. ASSUME NEW i \in DOMAIN front, NEW j \in DOMAIN rest,
               front[i] = m, rest[j] = m
        PROVE  FALSE
    <3>1. i = k + j /\ i <= k /\ k + j > k
      BY <1>2, <1>3, <1>5, <2>3 DEF One
    <3>2. QED
      BY <1>1, <3>1
  <2>4. QED
    BY <2>1, <2>2, <2>3 DEF One, In
<1>6. QED
  BY <1>4, <1>5 DEF front, rest

-----------------------------------------------------------------------------
(* Families *)

(* One member is replaced by another sequence. *)
LEMMA ReplaceHas ==
    ASSUME NEW I, NEW T, NEW f \in [I -> T], NEW a \in I, NEW s \in T, NEW m,
           Single(m, f), One(m, s),
           In(m, s) => In(m, f[a]) \/ ~Among(m, f)
    PROVE  LET g == [f EXCEPT ![a] = s]
           IN  /\ Single(m, g)
               /\ Among(m, g) <=> In(m, s) \/ (Among(m, f) /\ ~In(m, f[a]))
<1> DEFINE g == [f EXCEPT ![a] = s]
<1>1. /\ DOMAIN f = I /\ DOMAIN g = I /\ g[a] = s
      /\ \A b \in I : b # a => g[b] = f[b]
  OBVIOUS
<1> HIDE DEF g
<1>2. Among(m, g) <=> In(m, s) \/ (Among(m, f) /\ ~In(m, f[a]))
  <2>1. ASSUME Among(m, g)
        PROVE  In(m, s) \/ (Among(m, f) /\ ~In(m, f[a]))
    BY <1>1, <2>1 DEF Among, Single
  <2>2. ASSUME In(m, s) PROVE Among(m, g)
    BY <1>1, <2>2 DEF Among
  <2>3. ASSUME Among(m, f), ~In(m, f[a]) PROVE Among(m, g)
    BY <1>1, <2>3 DEF Among
  <2>4. QED
    BY <2>1, <2>2, <2>3
<1>3. ASSUME NEW b \in I, NEW c \in I, In(m, g[b]), In(m, g[c])
      PROVE  b = c
  <2>1. CASE b = a /\ c # a
    BY <1>1, <1>3, <2>1 DEF Single, Among
  <2>2. CASE b # a /\ c = a
    BY <1>1, <1>3, <2>2 DEF Single, Among
  <2>3. CASE b # a /\ c # a
    BY <1>1, <1>3, <2>3 DEF Single
  <2>4. QED
    BY <2>1, <2>2, <2>3
<1>4. \A b \in I : One(m, g[b])
  BY <1>1 DEF Single
<1>5. QED
  BY <1>1, <1>2, <1>3, <1>4 DEF Single, g

(* A queue of sequences that gets one more. *)
LEMMA AppendAmong ==
    ASSUME NEW T, NEW f \in Seq(T), NEW s \in T, NEW m
    PROVE  LET g == Append(f, s)
           IN  /\ Among(m, g) <=> Among(m, f) \/ In(m, s)
               /\ Single(m, f) /\ One(m, s) /\ ~(Among(m, f) /\ In(m, s))
                     => Single(m, g)
<1> DEFINE g == Append(f, s)
<1>1. /\ DOMAIN f = 1 .. Len(f) /\ Len(f) \in Nat
      /\ DOMAIN g = 1 .. Len(f) + 1
      /\ \A i \in 1 .. Len(f) : g[i] = f[i]
      /\ g[Len(f) + 1] = s
  OBVIOUS
<1> HIDE DEF g
<1>2. ASSUME NEW i \in DOMAIN g
      PROVE  \/ i \in DOMAIN f /\ g[i] = f[i]
             \/ i = Len(f) + 1 /\ g[i] = s
  <2>1. i \in 1 .. Len(f) \/ i = Len(f) + 1
    BY <1>1
  <2>2. QED
    BY <1>1, <2>1
<1>3. /\ \A i \in DOMAIN f : i \in DOMAIN g /\ g[i] = f[i]
      /\ Len(f) + 1 \in DOMAIN g
  BY <1>1
<1>4. Among(m, g) <=> Among(m, f) \/ In(m, s)
  <2>1. ASSUME Among(m, g) PROVE Among(m, f) \/ In(m, s)
    BY <1>2, <2>1 DEF Among
  <2>2. ASSUME Among(m, f) PROVE Among(m, g)
    BY <1>3, <2>2 DEF Among
  <2>3. ASSUME In(m, s) PROVE Among(m, g)
    BY <1>1, <1>3, <2>3 DEF Among
  <2>4. QED
    BY <2>1, <2>2, <2>3
<1>5. ASSUME Single(m, f), One(m, s), ~(Among(m, f) /\ In(m, s))
      PROVE  Single(m, g)
  <2>1. \A i, j \in DOMAIN g : In(m, g[i]) /\ In(m, g[j]) => i = j
    BY <1>2, <1>5 DEF Single, Among
  <2>2. \A i \in DOMAIN g : One(m, g[i])
    BY <1>2, <1>5 DEF Single
  <2>3. QED
    BY <2>1, <2>2 DEF Single
<1>6. QED
  BY <1>4, <1>5 DEF g

(* A queue of sequences whose first is taken. *)
LEMMA HeadAmong ==
    ASSUME NEW T, NEW f \in Seq(T), f # <<>>, NEW m
    PROVE  /\ Among(m, f) <=> In(m, Head(f)) \/ Among(m, Tail(f))
           /\ Single(m, f) => /\ Single(m, Tail(f)) /\ One(m, Head(f))
                              /\ ~(In(m, Head(f)) /\ Among(m, Tail(f)))
<1> DEFINE g == Tail(f)
<1>1. /\ DOMAIN f = 1 .. Len(f) /\ Len(f) \in Nat \ {0}
      /\ DOMAIN g = 1 .. Len(f) - 1
      /\ \A i \in 1 .. Len(f) - 1 : g[i] = f[i + 1]
      /\ Head(f) = f[1]
  OBVIOUS
<1> HIDE DEF g
<1>2. \A i \in DOMAIN g : i + 1 \in DOMAIN f /\ g[i] = f[i + 1] /\ i + 1 # 1
  BY <1>1
<1>3. \A i \in DOMAIN f : i = 1 \/ (i - 1 \in DOMAIN g /\ g[i - 1] = f[i])
  BY <1>1
<1>4. 1 \in DOMAIN f
  BY <1>1
<1>5. Among(m, f) <=> In(m, Head(f)) \/ Among(m, g)
  <2>1. ASSUME Among(m, f) PROVE In(m, Head(f)) \/ Among(m, g)
    BY <1>1, <1>3, <2>1 DEF Among
  <2>2. ASSUME In(m, Head(f)) PROVE Among(m, f)
    BY <1>1, <1>4, <2>2 DEF Among
  <2>3. ASSUME Among(m, g) PROVE Among(m, f)
    BY <1>2, <2>3 DEF Among
  <2>4. QED
    BY <2>1, <2>2, <2>3
<1>6. ASSUME Single(m, f)
      PROVE  /\ Single(m, g) /\ One(m, Head(f))
             /\ ~(In(m, Head(f)) /\ Among(m, g))
  <2>1. ASSUME NEW i \in DOMAIN g, NEW j \in DOMAIN g,
               In(m, g[i]), In(m, g[j])
        PROVE  i = j
    <3>1. i + 1 = j + 1
      BY <1>2, <1>6, <2>1 DEF Single
    <3>2. QED
      BY <1>1, <3>1
  <2>2. \A i \in DOMAIN g : One(m, g[i])
    BY <1>2, <1>6 DEF Single
  <2>3. One(m, Head(f))
    BY <1>1, <1>4, <1>6 DEF Single
  <2>4. ~(In(m, Head(f)) /\ Among(m, g))
    BY <1>1, <1>2, <1>4, <1>6 DEF Single, Among
  <2>5. QED
    BY <2>1, <2>2, <2>3, <2>4 DEF Single
<1>7. QED
  BY <1>5, <1>6 DEF g

-----------------------------------------------------------------------------
(* A set of which no two elements differ has one element at most. *)
LEMMA AtMostOne ==
    ASSUME NEW S, \A x, y \in S : x = y
    PROVE  Cardinality(S) = IF S = {} THEN 0 ELSE 1
<1>1. CASE S = {}
  BY <1>1, FS_EmptySet
<1>2. CASE S # {}
  <2>1. PICK x : x \in S
    BY <1>2
  <2>2. S = {x}
    BY <2>1
  <2>3. QED
    BY <1>2, <2>2, FS_Singleton
<1>3. QED
  BY <1>1, <1>2

-----------------------------------------------------------------------------
(* Bytes on their way from those who send them to the wire w: in the hands *)
(* h of a thread, in the queue q, in a write x that is outstanding, or in  *)
(* the set d of what was dropped, each with a reason.  Known says that a   *)
(* byte is somewhere, Once that it is nowhere else.                        *)

Gone(m, d) == \E e \in d : e[1] = m

Known(m, w, x, h, q, d) == \/ In(m, w) \/ In(m, x) \/ Among(m, h)
                           \/ Among(m, q) \/ Gone(m, d)

Once(m, w, x, h, q, d) ==
    /\ One(m, w) /\ One(m, x) /\ Single(m, h) /\ Single(m, q)
    /\ \A e, f \in d : e[1] = m /\ f[1] = m => e = f
    /\ ~(In(m, w) /\ (In(m, x) \/ Among(m, h) \/ Among(m, q) \/ Gone(m, d)))
    /\ ~(In(m, x) /\ (Among(m, h) \/ Among(m, q) \/ Gone(m, d)))
    /\ ~(Among(m, h) /\ (Among(m, q) \/ Gone(m, d)))
    /\ ~(Among(m, q) /\ Gone(m, d))

(* What is added to the dropped, if it was not among them. *)
LEMMA DropMore ==
    ASSUME NEW d, NEW A, NEW why, NEW m,
           \A e, f \in d : e[1] = m /\ f[1] = m => e = f,
           ~(Gone(m, d) /\ m \in A)
    PROVE  LET c == d \cup (A \X {why})
           IN  /\ Gone(m, c) <=> Gone(m, d) \/ m \in A
               /\ \A e, f \in c : e[1] = m /\ f[1] = m => e = f
<1> DEFINE c == d \cup (A \X {why})
<1>1. ASSUME NEW e \in c
      PROVE  e \in d \/ (e[1] \in A /\ e = <<e[1], why>>)
  OBVIOUS
<1>2. m \in A => <<m, why>> \in c /\ <<m, why>>[1] = m
  OBVIOUS
<1>3. d \subseteq c
  OBVIOUS
<1> HIDE DEF c
<1>4. Gone(m, c) <=> Gone(m, d) \/ m \in A
  BY <1>1, <1>2, <1>3 DEF Gone
<1>5. ASSUME NEW e \in c, NEW f \in c, e[1] = m, f[1] = m
      PROVE  e = f
  <2>1. CASE m \in A
    BY <1>1, <1>5, <2>1 DEF Gone
  <2>2. CASE m \notin A
    BY <1>1, <1>5, <2>2
  <2>3. QED
    BY <2>1, <2>2
<1>6. QED
  BY <1>4, <1>5 DEF c

(* A thread whose hands are empty gets a new block. *)
LEMMA TakeUp ==
    ASSUME NEW I, NEW T, NEW h \in [I -> T], NEW t \in I, NEW s \in T,
           NEW w, NEW x, NEW q, NEW d, NEW m,
           Once(m, w, x, h, q, d), h[t] = <<>>, One(m, s),
           ~(In(m, s) /\ Known(m, w, x, h, q, d))
    PROVE  LET g == [h EXCEPT ![t] = s]
           IN  /\ Once(m, w, x, g, q, d)
               /\ Known(m, w, x, g, q, d)
                     <=> Known(m, w, x, h, q, d) \/ In(m, s)
<1> DEFINE g == [h EXCEPT ![t] = s]
<1>1. ~In(m, h[t])
  BY EmptyHas
<1>2. Single(m, h) /\ (In(m, s) => ~Among(m, h))
  BY DEF Once, Known
<1>3. Single(m, g) /\ (Among(m, g) <=> In(m, s) \/ Among(m, h))
  BY <1>1, <1>2, ReplaceHas
<1> HIDE DEF g
<1>4. Once(m, w, x, g, q, d)
  BY <1>3 DEF Once, Known
<1>5. Known(m, w, x, g, q, d) <=> Known(m, w, x, h, q, d) \/ In(m, s)
  BY <1>3 DEF Known
<1>6. QED
  BY <1>4, <1>5 DEF g

(* A thread puts down what it has. *)
LEMMA PutDown ==
    ASSUME NEW I, NEW S, NEW h \in [I -> Seq(S)], NEW t \in I, NEW m,
           Single(m, h)
    PROVE  LET g == [h EXCEPT ![t] = <<>>]
           IN  /\ Single(m, g) /\ One(m, h[t])
               /\ Among(m, h) <=> Among(m, g) \/ In(m, h[t])
               /\ ~(Among(m, g) /\ In(m, h[t]))
<1> DEFINE g == [h EXCEPT ![t] = <<>>]
<1>1. <<>> \in Seq(S) /\ ~In(m, <<>>) /\ One(m, <<>>)
  BY EmptyHas
<1>2. Single(m, g) /\ (Among(m, g) <=> Among(m, h) /\ ~In(m, h[t]))
  BY <1>1, ReplaceHas
<1>3. t \in DOMAIN h
  OBVIOUS
<1> HIDE DEF g
<1>4. One(m, h[t]) /\ (In(m, h[t]) => Among(m, h))
  BY <1>3 DEF Single, Among
<1>5. QED
  BY <1>2, <1>4 DEF g

(* A thread drops what it has. *)
LEMMA DropHeld ==
    ASSUME NEW I, NEW S, NEW h \in [I -> Seq(S)], NEW t \in I,
           NEW w, NEW x, NEW q, NEW d, NEW why, NEW m,
           Once(m, w, x, h, q, d),
           NEW A, m \in A <=> In(m, h[t])
    PROVE  LET g == [h EXCEPT ![t] = <<>>]
               c == d \cup (A \X {why})
           IN  /\ Once(m, w, x, g, q, c)
               /\ Known(m, w, x, g, q, c) <=> Known(m, w, x, h, q, d)
<1> DEFINE g == [h EXCEPT ![t] = <<>>]
           c == d \cup (A \X {why})
<1>1. /\ Single(m, g) /\ (Among(m, h) <=> Among(m, g) \/ In(m, h[t]))
      /\ ~(Among(m, g) /\ In(m, h[t]))
  BY PutDown DEF Once
<1> HIDE DEF g
<1>2. /\ \A e, f \in d : e[1] = m /\ f[1] = m => e = f
      /\ ~(Gone(m, d) /\ m \in A)
  BY <1>1 DEF Once
<1>3. /\ Gone(m, c) <=> Gone(m, d) \/ In(m, h[t])
      /\ \A e, f \in c : e[1] = m /\ f[1] = m => e = f
  BY <1>2, DropMore
<1> HIDE DEF c
<1>4. Once(m, w, x, g, q, c)
  BY <1>1, <1>3 DEF Once
<1>5. Known(m, w, x, g, q, c) <=> Known(m, w, x, h, q, d)
  BY <1>1, <1>3 DEF Known
<1>6. QED
  BY <1>4, <1>5 DEF g, c

(* A thread puts what it has into the queue. *)
LEMMA QueueHeld ==
    ASSUME NEW I, NEW S, NEW h \in [I -> Seq(S)], NEW t \in I,
           NEW w, NEW x, NEW q \in Seq(Seq(S)), NEW d, NEW m,
           Once(m, w, x, h, q, d)
    PROVE  LET g == [h EXCEPT ![t] = <<>>]
               p == Append(q, h[t])
           IN  /\ Once(m, w, x, g, p, d)
               /\ Known(m, w, x, g, p, d) <=> Known(m, w, x, h, q, d)
<1> DEFINE g == [h EXCEPT ![t] = <<>>]
           p == Append(q, h[t])
<1>1. /\ Single(m, g) /\ One(m, h[t])
      /\ (Among(m, h) <=> Among(m, g) \/ In(m, h[t]))
      /\ ~(Among(m, g) /\ In(m, h[t]))
  BY PutDown DEF Once
<1>2. Single(m, q) /\ ~(Among(m, q) /\ In(m, h[t])) /\ h[t] \in Seq(S)
  BY <1>1 DEF Once
<1>3. Single(m, p) /\ (Among(m, p) <=> Among(m, q) \/ In(m, h[t]))
  BY <1>1, <1>2, AppendAmong
<1> HIDE DEF g, p
<1>4. Once(m, w, x, g, p, d)
  BY <1>1, <1>3 DEF Once
<1>5. Known(m, w, x, g, p, d) <=> Known(m, w, x, h, q, d)
  BY <1>1, <1>3 DEF Known
<1>6. QED
  BY <1>4, <1>5 DEF g, p

(* A thread adds the first block of the queue to what it has. *)
LEMMA Collect ==
    ASSUME NEW I, NEW S, NEW h \in [I -> Seq(S)], NEW t \in I,
           NEW w, NEW x, NEW q \in Seq(Seq(S)), NEW d, NEW m,
           Once(m, w, x, h, q, d), q # <<>>
    PROVE  LET g == [h EXCEPT ![t] = h[t] \o Head(q)]
               p == Tail(q)
           IN  /\ Once(m, w, x, g, p, d)
               /\ Known(m, w, x, g, p, d) <=> Known(m, w, x, h, q, d)
<1> DEFINE s == h[t] \o Head(q)
           g == [h EXCEPT ![t] = s]
           p == Tail(q)
<1>1. h[t] \in Seq(S) /\ Head(q) \in Seq(S) /\ s \in Seq(S) /\ t \in DOMAIN h
  OBVIOUS
<1>2. Single(m, h) /\ Single(m, q) /\ ~(Among(m, h) /\ Among(m, q))
  BY DEF Once
<1>3. /\ Among(m, q) <=> In(m, Head(q)) \/ Among(m, p)
      /\ Single(m, p) /\ One(m, Head(q))
      /\ ~(In(m, Head(q)) /\ Among(m, p))
  BY <1>2, HeadAmong
<1>4. One(m, h[t]) /\ (In(m, h[t]) => Among(m, h))
  BY <1>1, <1>2 DEF Single, Among
<1>5. One(m, s) /\ (In(m, s) <=> In(m, h[t]) \/ In(m, Head(q)))
  BY <1>1, <1>2, <1>3, <1>4, ConcatHas
<1> HIDE DEF s
<1>6. In(m, s) => In(m, h[t]) \/ ~Among(m, h)
  BY <1>2, <1>3, <1>5
<1>7. Single(m, g) /\ (Among(m, g) <=> In(m, s) \/ (Among(m, h) /\ ~In(m, h[t])))
  BY <1>1, <1>2, <1>5, <1>6, ReplaceHas
<1>8. Among(m, g) <=> Among(m, h) \/ In(m, Head(q))
  BY <1>4, <1>5, <1>7
<1> HIDE DEF g, p
<1>9. Once(m, w, x, g, p, d)
  BY <1>3, <1>7, <1>8 DEF Once
<1>10. Known(m, w, x, g, p, d) <=> Known(m, w, x, h, q, d)
  BY <1>3, <1>8 DEF Known
<1>11. QED
  BY <1>9, <1>10 DEF s, g, p

(* The queue is dropped. *)
LEMMA DropQueue ==
    ASSUME NEW w, NEW x, NEW h, NEW q, NEW d,
           NEW why, NEW m, Once(m, w, x, h, q, d),
           NEW A, m \in A <=> Among(m, q)
    PROVE  LET c == d \cup (A \X {why})
           IN  /\ Once(m, w, x, h, <<>>, c)
               /\ Known(m, w, x, h, <<>>, c) <=> Known(m, w, x, h, q, d)
<1> DEFINE c == d \cup (A \X {why})
<1>1. /\ \A e, f \in d : e[1] = m /\ f[1] = m => e = f
      /\ ~(Gone(m, d) /\ m \in A)
  BY DEF Once
<1>2. /\ Gone(m, c) <=> Gone(m, d) \/ Among(m, q)
      /\ \A e, f \in c : e[1] = m /\ f[1] = m => e = f
  BY <1>1, DropMore
<1>3. ~Among(m, <<>>) /\ Single(m, <<>>)
  BY DEF Among, Single
<1> HIDE DEF c
<1>4. Once(m, w, x, h, <<>>, c)
  BY <1>2, <1>3 DEF Once
<1>5. Known(m, w, x, h, <<>>, c) <=> Known(m, w, x, h, q, d)
  BY <1>2, <1>3 DEF Known
<1>6. QED
  BY <1>4, <1>5 DEF c

(* A prefix of what a thread has goes to the wire. *)
LEMMA SendPart ==
    ASSUME NEW I, NEW S, NEW h \in [I -> Seq(S)], NEW t \in I,
           NEW w \in Seq(S), NEW x, NEW q, NEW d, NEW m,
           Once(m, w, x, h, q, d), NEW k \in 0 .. Len(h[t])
    PROVE  LET v == w \o SubSeq(h[t], 1, k)
               g == [h EXCEPT ![t] = SubSeq(h[t], k + 1, Len(h[t]))]
           IN  /\ Once(m, v, x, g, q, d)
               /\ Known(m, v, x, g, q, d) <=> Known(m, w, x, h, q, d)
<1> DEFINE front == SubSeq(h[t], 1, k)
           rest == SubSeq(h[t], k + 1, Len(h[t]))
           v == w \o front
           g == [h EXCEPT ![t] = rest]
<1>1. /\ h[t] \in Seq(S) /\ t \in DOMAIN h
      /\ front \in Seq(S) /\ rest \in Seq(S)
  OBVIOUS
<1>2. One(m, h[t]) /\ (In(m, h[t]) => Among(m, h)) /\ Single(m, h)
  BY <1>1 DEF Once, Single, Among
<1>3. /\ In(m, h[t]) <=> In(m, front) \/ In(m, rest)
      /\ One(m, front) /\ One(m, rest) /\ ~(In(m, front) /\ In(m, rest))
  BY <1>1, <1>2, SplitHas
<1> HIDE DEF front, rest
<1>4. ~(In(m, w) /\ In(m, front)) /\ One(m, w)
  BY <1>2, <1>3 DEF Once
<1>5. One(m, v) /\ (In(m, v) <=> In(m, w) \/ In(m, front))
  BY <1>1, <1>3, <1>4, ConcatHas
<1>6. Single(m, g) /\ (Among(m, g) <=> In(m, rest) \/ (Among(m, h) /\ ~In(m, h[t])))
  BY <1>1, <1>2, <1>3, ReplaceHas
<1>7. /\ Among(m, h) <=> Among(m, g) \/ In(m, front)
      /\ ~(Among(m, g) /\ In(m, front))
  BY <1>2, <1>3, <1>6
<1> HIDE DEF v, g
<1>8. Once(m, v, x, g, q, d)
  BY <1>5, <1>6, <1>7 DEF Once
<1>9. Known(m, v, x, g, q, d) <=> Known(m, w, x, h, q, d)
  BY <1>5, <1>7 DEF Known
<1>10. QED
  BY <1>8, <1>9 DEF v, g, front, rest

(* A thread starts to write what it has. *)
LEMMA WriteHeld ==
    ASSUME NEW I, NEW S, NEW h \in [I -> Seq(S)], NEW t \in I,
           NEW w, NEW q, NEW d, NEW m, Once(m, w, <<>>, h, q, d)
    PROVE  LET g == [h EXCEPT ![t] = <<>>]
           IN  /\ Once(m, w, h[t], g, q, d)
               /\ Known(m, w, h[t], g, q, d) <=> Known(m, w, <<>>, h, q, d)
<1> DEFINE g == [h EXCEPT ![t] = <<>>]
<1>1. /\ Single(m, g) /\ One(m, h[t])
      /\ (Among(m, h) <=> Among(m, g) \/ In(m, h[t]))
      /\ ~(Among(m, g) /\ In(m, h[t]))
  BY PutDown DEF Once
<1>2. ~In(m, <<>>)
  BY EmptyHas
<1> HIDE DEF g
<1>3. Once(m, w, h[t], g, q, d)
  BY <1>1 DEF Once
<1>4. Known(m, w, h[t], g, q, d) <=> Known(m, w, <<>>, h, q, d)
  BY <1>1, <1>2 DEF Known
<1>5. QED
  BY <1>3, <1>4 DEF g

(* A prefix of what is being written went to the wire; a thread whose      *)
(* hands are empty has the rest.                                           *)
LEMMA TakeRest ==
    ASSUME NEW I, NEW S, NEW h \in [I -> Seq(S)], NEW t \in I,
           NEW w \in Seq(S), NEW x \in Seq(S), NEW q, NEW d, NEW m,
           Once(m, w, x, h, q, d), h[t] = <<>>, NEW k \in 0 .. Len(x)
    PROVE  LET v == w \o SubSeq(x, 1, k)
               g == [h EXCEPT ![t] = SubSeq(x, k + 1, Len(x))]
           IN  /\ Once(m, v, <<>>, g, q, d)
               /\ Known(m, v, <<>>, g, q, d) <=> Known(m, w, x, h, q, d)
<1> DEFINE front == SubSeq(x, 1, k)
           rest == SubSeq(x, k + 1, Len(x))
           v == w \o front
           g == [h EXCEPT ![t] = rest]
<1>1. front \in Seq(S) /\ rest \in Seq(S)
  OBVIOUS
<1>2. One(m, x) /\ One(m, w) /\ Single(m, h)
  BY DEF Once
<1>3. /\ In(m, x) <=> In(m, front) \/ In(m, rest)
      /\ One(m, front) /\ One(m, rest) /\ ~(In(m, front) /\ In(m, rest))
  BY <1>2, SplitHas
<1> HIDE DEF front, rest
<1>4. ~(In(m, w) /\ In(m, front)) /\ (In(m, rest) => ~Among(m, h))
  BY <1>3 DEF Once
<1>5. One(m, v) /\ (In(m, v) <=> In(m, w) \/ In(m, front))
  BY <1>1, <1>2, <1>3, <1>4, ConcatHas
<1>6. ~In(m, h[t])
  BY EmptyHas
<1>7. Single(m, g) /\ (Among(m, g) <=> In(m, rest) \/ Among(m, h))
  BY <1>1, <1>2, <1>3, <1>4, <1>6, ReplaceHas
<1>8. ~In(m, <<>>) /\ One(m, <<>>)
  BY EmptyHas
<1> HIDE DEF v, g
<1>9. Once(m, v, <<>>, g, q, d)
  BY <1>3, <1>5, <1>7, <1>8 DEF Once
<1>10. Known(m, v, <<>>, g, q, d) <=> Known(m, w, x, h, q, d)
  BY <1>3, <1>5, <1>7, <1>8 DEF Known
<1>11. QED
  BY <1>9, <1>10 DEF v, g, front, rest

(* What is being written is dropped. *)
LEMMA DropWrite ==
    ASSUME NEW w, NEW x, NEW h, NEW q, NEW d, NEW why,
           NEW m, Once(m, w, x, h, q, d),
           NEW A, m \in A <=> In(m, x)
    PROVE  LET c == d \cup (A \X {why})
           IN  /\ Once(m, w, <<>>, h, q, c)
               /\ Known(m, w, <<>>, h, q, c) <=> Known(m, w, x, h, q, d)
<1> DEFINE c == d \cup (A \X {why})
<1>1. /\ \A e, f \in d : e[1] = m /\ f[1] = m => e = f
      /\ ~(Gone(m, d) /\ m \in A)
  BY DEF Once
<1>2. /\ Gone(m, c) <=> Gone(m, d) \/ In(m, x)
      /\ \A e, f \in c : e[1] = m /\ f[1] = m => e = f
  BY <1>1, DropMore
<1>3. ~In(m, <<>>) /\ One(m, <<>>)
  BY EmptyHas
<1> HIDE DEF c
<1>4. Once(m, w, <<>>, h, q, c)
  BY <1>2, <1>3 DEF Once
<1>5. Known(m, w, <<>>, h, q, c) <=> Known(m, w, x, h, q, d)
  BY <1>2, <1>3 DEF Known
<1>6. QED
  BY <1>4, <1>5 DEF c

(* The places where a byte is. *)
Spots(m, w, x, h, q, d) ==
    {<<"wire", i>> : i \in {j \in DOMAIN w : w[j] = m}}
    \cup {<<"writing", i>> : i \in {j \in DOMAIN x : x[j] = m}}
    \cup (UNION {{<<"hand", t, i>> : i \in {j \in DOMAIN h[t] :
                                            h[t][j] = m}} : t \in DOMAIN h})
    \cup (UNION {{<<"queue", k, i>> : i \in {j \in DOMAIN q[k] :
                                             q[k][j] = m}} : k \in DOMAIN q})
    \cup {e \in d : e[1] = m}

LEMMA OneSpot ==
    ASSUME NEW m, NEW w, NEW x, NEW h, NEW q, NEW d, Once(m, w, x, h, q, d)
    PROVE  Cardinality(Spots(m, w, x, h, q, d)) =
              IF Known(m, w, x, h, q, d) THEN 1 ELSE 0
<1> DEFINE W == {<<"wire", i>> : i \in {j \in DOMAIN w : w[j] = m}}
           X == {<<"writing", i>> : i \in {j \in DOMAIN x : x[j] = m}}
           H == UNION {{<<"hand", t, i>> : i \in {j \in DOMAIN h[t] :
                                            h[t][j] = m}} : t \in DOMAIN h}
           Q == UNION {{<<"queue", k, i>> : i \in {j \in DOMAIN q[k] :
                                             q[k][j] = m}} : k \in DOMAIN q}
           D == {e \in d : e[1] = m}
<1>1. /\ W = {} <=> ~In(m, w)
      /\ One(m, w) => \A a, b \in W : a = b
  BY DEF In, One
<1>2. /\ X = {} <=> ~In(m, x)
      /\ One(m, x) => \A a, b \in X : a = b
  BY DEF In, One
<1>3. H = {} <=> ~Among(m, h)
  <2>1. ASSUME NEW a \in H PROVE Among(m, h)
    <3>1. PICK t \in DOMAIN h : \E i \in DOMAIN h[t] : h[t][i] = m
      OBVIOUS
    <3>2. QED
      BY <3>1 DEF In, Among
  <2>2. ASSUME Among(m, h) PROVE H # {}
    <3>1. PICK t \in DOMAIN h : In(m, h[t])
      BY <2>2 DEF Among
    <3>2. PICK i \in DOMAIN h[t] : h[t][i] = m
      BY <3>1 DEF In
    <3>3. <<"hand", t, i>> \in H
      BY <3>2
    <3>4. QED
      BY <3>3
  <2>3. QED
    BY <2>1, <2>2
<1>4. ASSUME Single(m, h), NEW a \in H, NEW b \in H PROVE a = b
  <2>1. PICK t \in DOMAIN h : \E i \in DOMAIN h[t] :
           h[t][i] = m /\ a = <<"hand", t, i>>
    OBVIOUS
  <2>2. PICK u \in DOMAIN h : \E j \in DOMAIN h[u] :
           h[u][j] = m /\ b = <<"hand", u, j>>
    OBVIOUS
  <2>3. t = u
    BY <1>4, <2>1, <2>2 DEF Single, In
  <2>4. QED
    BY <1>4, <2>1, <2>2, <2>3 DEF Single, One
<1>5. Q = {} <=> ~Among(m, q)
  <2>1. ASSUME NEW a \in Q PROVE Among(m, q)
    <3>1. PICK t \in DOMAIN q : \E i \in DOMAIN q[t] : q[t][i] = m
      OBVIOUS
    <3>2. QED
      BY <3>1 DEF In, Among
  <2>2. ASSUME Among(m, q) PROVE Q # {}
    <3>1. PICK t \in DOMAIN q : In(m, q[t])
      BY <2>2 DEF Among
    <3>2. PICK i \in DOMAIN q[t] : q[t][i] = m
      BY <3>1 DEF In
    <3>3. <<"queue", t, i>> \in Q
      BY <3>2
    <3>4. QED
      BY <3>3
  <2>3. QED
    BY <2>1, <2>2
<1>6. ASSUME Single(m, q), NEW a \in Q, NEW b \in Q PROVE a = b
  <2>1. PICK t \in DOMAIN q : \E i \in DOMAIN q[t] :
           q[t][i] = m /\ a = <<"queue", t, i>>
    OBVIOUS
  <2>2. PICK u \in DOMAIN q : \E j \in DOMAIN q[u] :
           q[u][j] = m /\ b = <<"queue", u, j>>
    OBVIOUS
  <2>3. t = u
    BY <1>6, <2>1, <2>2 DEF Single, In
  <2>4. QED
    BY <1>6, <2>1, <2>2, <2>3 DEF Single, One
<1>7. /\ D = {} <=> ~Gone(m, d)
      /\ \A a, b \in D : a = b
  BY DEF Gone, Once
<1>8. Spots(m, w, x, h, q, d) = W \cup X \cup H \cup Q \cup D
  BY DEF Spots
<1> HIDE DEF W, X, H, Q, D
<1>9. \A a, b \in W \cup X \cup H \cup Q \cup D : a = b
  BY <1>1, <1>2, <1>3, <1>4, <1>5, <1>6, <1>7 DEF Once
<1>10. W \cup X \cup H \cup Q \cup D # {} <=> Known(m, w, x, h, q, d)
  BY <1>1, <1>2, <1>3, <1>5, <1>7 DEF Known
<1>11. QED
  BY <1>8, <1>9, <1>10, AtMostOne

-----------------------------------------------------------------------------
(* The order of the bytes of a block.  A byte is named by its sender, its  *)
(* request and its place in the block; wherever it is, the byte before it  *)
(* is further ahead: in the same sequence, or on the wire already.         *)

Before(m) == <<m[1], m[2], m[3] - 1>>

Behind(s, w) == \A i \in DOMAIN s : s[i][3] > 1 =>
                   \/ In(Before(s[i]), w)
                   \/ \E j \in 1 .. i - 1 : s[j] = Before(s[i])

LEMMA EmptyBehind ==
    ASSUME NEW w
    PROVE  Behind(<<>>, w)
  BY DEF Behind

LEMMA BlockBehind ==
    ASSUME NEW n \in Nat, NEW a, NEW r, NEW w
    PROVE  Behind([i \in 1 .. n |-> <<a, r, i>>], w)
<1> DEFINE s == [i \in 1 .. n |-> <<a, r, i>>]
<1>1. ASSUME NEW i \in 1 .. n, s[i][3] > 1
      PROVE  i - 1 \in 1 .. i - 1 /\ s[i - 1] = Before(s[i])
  <2>1. i - 1 \in 1 .. n /\ i - 1 \in 1 .. i - 1 /\ s[i] = <<a, r, i>>
    BY <1>1
  <2>2. s[i - 1] = <<a, r, i - 1>>
    BY <2>1
  <2>3. QED
    BY <2>1, <2>2 DEF Before
<1>2. DOMAIN s = 1 .. n
  OBVIOUS
<1> HIDE DEF s
<1>3. QED
  BY <1>1, <1>2 DEF Behind, s

(* The wire only grows. *)
LEMMA StaysBehind ==
    ASSUME NEW S, NEW w \in Seq(S), NEW v \in Seq(S), NEW s, Behind(s, w)
    PROVE  Behind(s, w \o v)
<1>1. \A m : In(m, w) => In(m, w \o v)
  BY ConcatHas
<1>2. QED
  BY <1>1 DEF Behind

LEMMA ConcatBehind ==
    ASSUME NEW S, NEW s \in Seq(S), NEW t \in Seq(S), NEW w,
           Behind(s, w), Behind(t, w)
    PROVE  Behind(s \o t, w)
<1> DEFINE r == s \o t
<1>1. /\ DOMAIN s = 1 .. Len(s) /\ Len(s) \in Nat
      /\ DOMAIN t = 1 .. Len(t) /\ Len(t) \in Nat
      /\ DOMAIN r = 1 .. Len(s) + Len(t)
      /\ \A i \in 1 .. Len(s) : r[i] = s[i]
      /\ \A i \in 1 .. Len(t) : r[Len(s) + i] = t[i]
  OBVIOUS
<1> HIDE DEF r
<1>2. ASSUME NEW i \in DOMAIN r, r[i][3] > 1
      PROVE  In(Before(r[i]), w) \/ \E j \in 1 .. i - 1 : r[j] = Before(r[i])
  <2>1. CASE i \in 1 .. Len(s)
    <3>1. \A j \in 1 .. i - 1 : j \in 1 .. Len(s)
      BY <1>1, <2>1
    <3>2. QED
      BY <1>1, <1>2, <2>1, <3>1 DEF Behind
  <2>2. CASE i - Len(s) \in 1 .. Len(t)
    <3> DEFINE n == i - Len(s)
    <3>1. r[i] = t[n] /\ n \in DOMAIN t
      BY <1>1, <2>2
    <3>2. \A j \in 1 .. n - 1 : /\ Len(s) + j \in 1 .. i - 1
                                /\ r[Len(s) + j] = t[j]
      BY <1>1, <2>2
    <3> HIDE DEF n
    <3>3. In(Before(t[n]), w) \/ \E j \in 1 .. n - 1 : t[j] = Before(t[n])
      BY <1>2, <3>1 DEF Behind
    <3>4. QED
      BY <3>1, <3>2, <3>3
  <2>3. QED
    BY <1>1, <2>1, <2>2
<1>3. QED
  BY <1>2 DEF Behind, r

(* A block is cut, and its front goes to the wire. *)
LEMMA SplitBehind ==
    ASSUME NEW S, NEW s \in Seq(S), NEW w \in Seq(S), NEW k \in 0 .. Len(s),
           Behind(s, w), Behind(w, <<>>)
    PROVE  LET v == w \o SubSeq(s, 1, k)
           IN  /\ Behind(v, <<>>)
               /\ Behind(SubSeq(s, k + 1, Len(s)), v)
<1> DEFINE front == SubSeq(s, 1, k)
           rest == SubSeq(s, k + 1, Len(s))
           v == w \o front
<1>1. /\ DOMAIN s = 1 .. Len(s) /\ Len(s) \in Nat /\ k \in Nat
      /\ DOMAIN w = 1 .. Len(w) /\ Len(w) \in Nat
      /\ DOMAIN rest = 1 .. Len(s) - k
      /\ DOMAIN v = 1 .. Len(w) + k
  OBVIOUS
<1>2. /\ \A i \in 1 .. Len(s) - k : rest[i] = s[k + i]
      /\ \A i \in 1 .. Len(w) : v[i] = w[i]
      /\ \A i \in 1 .. k : v[Len(w) + i] = s[i]
  OBVIOUS
<1> HIDE DEF front, rest, v
<1>3. \A m : In(m, w) => \E j \in 1 .. Len(w) : v[j] = m
  BY <1>1, <1>2 DEF In
<1>4. ASSUME NEW i \in DOMAIN v, v[i][3] > 1
      PROVE  \E j \in 1 .. i - 1 : v[j] = Before(v[i])
  <2>1. CASE i \in 1 .. Len(w)
    <3>1. ~In(Before(w[i]), <<>>)
      BY EmptyHas
    <3>2. PICK j \in 1 .. i - 1 : w[j] = Before(w[i])
      BY <1>1, <1>2, <1>4, <2>1, <3>1 DEF Behind
    <3>3. j \in 1 .. Len(w)
      BY <1>1, <2>1
    <3>4. QED
      BY <1>2, <2>1, <3>2, <3>3
  <2>2. CASE i - Len(w) \in 1 .. k
    <3> DEFINE n == i - Len(w)
    <3>1. v[i] = s[n] /\ n \in DOMAIN s
      BY <1>1, <1>2, <2>2
    <3>2. /\ \A j \in 1 .. n - 1 : Len(w) + j \in 1 .. i - 1 /\ j \in 1 .. k
          /\ \A j \in 1 .. Len(w) : j \in 1 .. i - 1
      BY <1>1, <2>2
    <3>3. \A j \in 1 .. n - 1 : v[Len(w) + j] = s[j]
      BY <1>2, <3>2
    <3> HIDE DEF n
    <3>4. In(Before(s[n]), w) \/ \E j \in 1 .. n - 1 : s[j] = Before(s[n])
      BY <1>4, <3>1 DEF Behind
    <3>5. QED
      BY <1>3, <3>1, <3>2, <3>3, <3>4
  <2>3. QED
    BY <1>1, <2>1, <2>2
<1>5. ASSUME NEW i \in DOMAIN rest, rest[i][3] > 1
      PROVE  \/ In(Before(rest[i]), v)
             \/ \E j \in 1 .. i - 1 : rest[j] = Before(rest[i])
  <2>1. k + i \in DOMAIN s /\ rest[i] = s[k + i] /\ i \in Nat
    BY <1>1, <1>2
  <2>2. CASE In(Before(s[k + i]), w)
    <3>1. \A j \in 1 .. Len(w) : j \in DOMAIN v
      BY <1>1
    <3>2. QED
      BY <1>3, <2>1, <2>2, <3>1 DEF In
  <2>3. CASE \E j \in 1 .. (k + i) - 1 : s[j] = Before(s[k + i])
    <3>1. PICK j \in 1 .. (k + i) - 1 : s[j] = Before(s[k + i])
      BY <2>3
    <3>2. CASE j \in 1 .. k
      <4>1. Len(w) + j \in DOMAIN v /\ v[Len(w) + j] = s[j]
        BY <1>1, <1>2, <3>2
      <4>2. QED
        BY <2>1, <3>1, <4>1 DEF In
    <3>3. CASE j \notin 1 .. k
      <4>1. /\ j - k \in 1 .. i - 1 /\ j - k \in 1 .. Len(s) - k
            /\ k + (j - k) = j
        BY <1>1, <2>1, <3>3
      <4>2. rest[j - k] = s[j]
        BY <1>2, <4>1
      <4>3. QED
        BY <2>1, <3>1, <4>1, <4>2
    <3>4. QED
      BY <3>2, <3>3
  <2>4. QED
    BY <1>5, <2>1, <2>2, <2>3 DEF Behind
<1>6. Behind(v, <<>>) /\ Behind(rest, v)
  BY <1>4, <1>5 DEF Behind
<1>7. QED
  BY <1>6 DEF front, rest, v

(* So it is wherever bytes are on their way. *)
Chained(w, x, h, q) == /\ Behind(w, <<>>) /\ Behind(x, w)
                       /\ \A t \in DOMAIN h : Behind(h[t], w)
                       /\ \A k \in DOMAIN q : Behind(q[k], w)

(* A thread gets another block instead of the one it had. *)
LEMMA ChangeHand ==
    ASSUME NEW I, NEW T, NEW h \in [I -> T], NEW t \in I, NEW s \in T,
           NEW w, NEW x, NEW q, Chained(w, x, h, q), Behind(s, w)
    PROVE  Chained(w, x, [h EXCEPT ![t] = s], q)
BY DEF Chained

(* The queue gets what a thread has; the thread gets the first of it. *)
LEMMA ChangeQueue ==
    ASSUME NEW T, NEW q \in Seq(T), NEW s \in T, NEW w, NEW x, NEW h,
           Chained(w, x, h, q)
    PROVE  /\ Behind(s, w) => Chained(w, x, h, Append(q, s))
           /\ q # <<>> => Behind(Head(q), w) /\ Chained(w, x, h, Tail(q))
<1>1. ASSUME Behind(s, w) PROVE Chained(w, x, h, Append(q, s))
  <2>1. ASSUME NEW k \in DOMAIN Append(q, s)
        PROVE  Behind(Append(q, s)[k], w)
    <3>1. k \in DOMAIN q \/ k = Len(q) + 1
      OBVIOUS
    <3>2. CASE k \in DOMAIN q
      <4>1. Append(q, s)[k] = q[k]
        BY <3>2
      <4>2. QED
        BY <3>2, <4>1 DEF Chained
    <3>3. CASE k = Len(q) + 1
      <4>1. Append(q, s)[k] = s
        BY <3>3
      <4>2. QED
        BY <1>1, <4>1
    <3>4. QED
      BY <3>1, <3>2, <3>3
  <2>2. QED
    BY <2>1 DEF Chained
<1>2. ASSUME q # <<>>
      PROVE  Behind(Head(q), w) /\ Chained(w, x, h, Tail(q))
  <2>1. 1 \in DOMAIN q /\ Head(q) = q[1]
    BY <1>2
  <2>2. \A k \in DOMAIN Tail(q) : k + 1 \in DOMAIN q /\ Tail(q)[k] = q[k + 1]
    BY <1>2
  <2>3. QED
    BY <2>1, <2>2 DEF Chained
<1>3. QED
  BY <1>1, <1>2

(* The front of a block goes to the wire: the rest stays in order, and so  *)
(* does everything else.                                                   *)
LEMMA ChangeWire ==
    ASSUME NEW S, NEW w \in Seq(S), NEW s \in Seq(S), NEW k \in 0 .. Len(s),
           NEW x, NEW h, NEW q, Chained(w, x, h, q), Behind(s, w)
    PROVE  LET v == w \o SubSeq(s, 1, k)
           IN  /\ Chained(v, x, h, q)
               /\ Behind(SubSeq(s, k + 1, Len(s)), v)
<1> DEFINE front == SubSeq(s, 1, k)
<1>1. front \in Seq(S)
  OBVIOUS
<1>2. /\ Behind(w \o front, <<>>)
      /\ Behind(SubSeq(s, k + 1, Len(s)), w \o front)
  BY SplitBehind DEF Chained
<1> HIDE DEF front
<1>3. \A r : Behind(r, w) => Behind(r, w \o front)
  BY <1>1, StaysBehind
<1>4. Chained(w \o front, x, h, q)
  BY <1>2, <1>3 DEF Chained
<1>5. QED
  BY <1>2, <1>4 DEF front

-----------------------------------------------------------------------------
(* Numbers *)

(* A set of naturals has a least element. *)
LEMMA LeastNatural ==
    ASSUME NEW T, T \subseteq Nat, T # {}
    PROVE  \E x \in T : \A y \in T : x <= y
<1>1. IsWellFoundedOn(OpToRel(<, Nat), Nat)
  BY NatLessThanWellFounded
<1>2. PICK x \in T : \A y \in T : ~(<<y, x>> \in OpToRel(<, Nat))
  BY <1>1, WFMin
<1>3. \A y \in T : ~(y < x)
  BY <1>2 DEF OpToRel
<1>4. QED
  BY ONLY <1>3, x \in T, T \subseteq Nat

(* What holds of 0 and goes over to the next number holds up to N.        *)
LEMMA Upwards ==
    ASSUME NEW N \in Nat, NEW T, 0 \in T,
           \A m \in 1 .. N : m - 1 \in T => m \in T
    PROVE  0 .. N \subseteq T
<1> DEFINE U == (0 .. N) \ T
<1>1. SUFFICES ASSUME U # {} PROVE FALSE
  OBVIOUS
<1>2. U \subseteq Nat
  OBVIOUS
<1>3. PICK m \in U : \A k \in U : m <= k
  <2> HIDE DEF U
  <2>1. QED
    BY <1>1, <1>2, LeastNatural
<1>4. /\ m \in 1 .. N /\ m \notin T /\ m - 1 \in 0 .. N
      /\ ~(m <= m - 1)
  OBVIOUS
<1>5. m - 1 \in T
  BY <1>3, <1>4
<1>6. QED
  BY <1>4, <1>5
=============================================================================
