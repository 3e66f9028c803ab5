----------------------------- MODULE MCMapLock -----------------------------
(* Values of the constants of MapLock for TLC.                               *)
EXTENDS MapLock

CONSTANTS t1, t2
TwoThreads == {t1, t2}
OneRecord  == {"r1"}

(* Every call in the program, and an open in its signal handlers.            *)
AnyThenSet == <<{"set", "get", "remove"}, {"set"}>>
=============================================================================
