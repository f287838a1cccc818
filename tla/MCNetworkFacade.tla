--------------------------- MODULE MCNetworkFacade ---------------------------
(* One network thread, application threads a (which closes) and b. *)
EXTENDS NetworkFacade

CONSTANTS n, a, b, c1, events, timers

MCThreads == {n, a, b}
MCOthers == {b}
MCQueues == <<events, timers>>
OneConn == <<c1>>
=============================================================================
