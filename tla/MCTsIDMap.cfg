SPECIFICATION Spec
CONSTANTS
  o1 = o1
  o2 = o2
  o3 = o3
  Objects <- MCObjects
  Max = 2
  Invalid_ID = Invalid_ID
  NoObject = NoObject
INVARIANTS
  TypeOK
  IdsConserved
  LookupExact
PROPERTIES
  ImplementsAllocator
