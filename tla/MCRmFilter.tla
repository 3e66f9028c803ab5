------------------------------ MODULE MCRmFilter ------------------------------
(* Values of the constants of RmFilter for TLC. *)
EXTENDS RmFilter

CONSTANTS t1, t2, g0, g1, g2, g3, foreign

TwoThreads == {t1, t2}

(* Four allowed GPUs with minors 0 to 3, one of another container.           *)
AllMinors  == 0 .. 4
OurMinors  == 0 .. 3
AllIds     == {g0, g1, g2, g3, foreign}

C(v, m, g) == [valid |-> v, minor |-> m, id |-> g]

(* Answers that show one allowed GPU, two, three, or one that has no id yet; *)
(* together they overflow a table of three. Unused entries are not valid,    *)
(* whatever they hold.                                                       *)
SomeCards == { <<C(TRUE, 4, foreign), C(FALSE, 1, g1), C(TRUE, 0, g0)>>,
               <<C(TRUE, 0, g0), C(TRUE, 4, foreign), C(TRUE, 1, g1)>>,
               <<C(TRUE, 1, g1), C(TRUE, 2, g2), C(TRUE, 3, g3)>>,
               <<C(TRUE, 1, Invalid), C(FALSE, 0, foreign)>> }

L(n, s) == [num |-> n, ids |-> s]

(* Lists with allowed and foreign GPUs, with the foreign one only, ending    *)
(* early, empty, and with an id that stands for two instances of one GPU; an *)
(* active array is longer than the table of learned ids.                     *)
AttachedLists == { L(0, <<foreign, g0, g1>>),
                   L(0, <<g3, foreign, g2>>),
                   L(0, <<foreign, Invalid, g0>>),
                   L(0, <<g1, foreign, Invalid>>),
                   L(0, <<Invalid, g0, foreign>>) }

ActiveLists   == { L(4, <<foreign, g0, g1, g3>>),
                   L(1, <<foreign, g1, g0, g2>>),
                   L(0, <<g1, foreign, g0, g0>>),
                   L(4, <<g0, foreign, g0, g2>>) }

SomeLists == [q \in Queries |-> IF q = "attached" THEN AttachedLists ELSE ActiveLists]
=============================================================================
