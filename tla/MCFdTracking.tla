----------------------------- MODULE MCFdTracking -----------------------------
(* Values of the constants of FdTracking for TLC. *)
EXTENDS FdTracking, TLC

CONSTANTS t1, t2

OneThread  == {t1}
TwoThreads == {t1, t2}

(* Two tracked numbers and one beyond the table. *)
ThreeFds == 0 .. 2
TwoFds   == 0 .. 1

KnownNames     == Files
SomeOfEach     == {"nvidiactl", "gpus", "foreign_info", "elsewhere", "alias"}
CtlAndDirs     == {"nvidiactl", "gpus", "elsewhere"}
DirsOnly       == {"gpus", "elsewhere"}
InheritedGpus  == {"gpus", "elsewhere"}
InheritedPlain == {"elsewhere"}

AllUnseen    == {"closedir", "dup2", "close_error"}
ClosedirOnly == {"closedir"}
NoneUnseen   == {}

ThreadSymmetry == Permutations(Threads)
=============================================================================
