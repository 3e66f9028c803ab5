------------------------------- MODULE RmFilter -------------------------------
(***************************************************************************)
(* The Resource Manager filter: src/ioctl_filter.c and the ioctl hook of   *)
(* src/preload.c, for calls on descriptors tracked as /dev/nvidiactl.      *)
(*                                                                         *)
(* The driver names GPUs by opaque ids.  A CARD_INFO answer relates them   *)
(* to device minors, so the filter LEARNS the ids of allowed minors from   *)
(* those answers, hides the other cards, and keeps only learned ids in the *)
(* answers to the attached-ids and active-ids queries.                     *)
(*                                                                         *)
(* The learned table is shared by the threads under g_ioctl_filter_lock.   *)
(* A step of the model is a system call, an operation on the lock, one     *)
(* iteration of a loop inside a critical section, or the thread-local code *)
(* between them.                                                           *)
(***************************************************************************)
EXTENDS Integers, Sequences, Functions

CONSTANTS
  Threads,        (* threads of the wrapped process                         *)
  NoThread,       (* holder of a free lock                                  *)
  Minors,         (* device minors                                          *)
  AllowedMinors,  (* those of g_allowed_gpus                                *)
  GpuIds,         (* ids the driver gives to GPUs                           *)
  Invalid,        (* NV0000_CTRL_GPU_INVALID_ID                             *)
  MaxGpus,        (* NVFIX_MAX_GPUS: size of the table of learned ids       *)
  CardAnswers,    (* CARD_INFO answers of the driver, sequences of cards    *)
  ListAnswers     (* its id lists, [num |-> n, ids |-> sequence], per query *)

Queries == {"attached", "active"}

Card == [valid : BOOLEAN, minor : Minors, id : GpuIds \cup {Invalid}]
List == [num : Nat, ids : Seq(GpuIds \cup {Invalid})]

(* The ids of the allowed GPUs, as the driver reports them.                  *)
AllowedIn(a) ==
  {c.id : c \in {d \in Range(a) : d.valid /\ d.minor \in AllowedMinors}} \ {Invalid}

AllowedIds == UNION {AllowedIn(a) : a \in CardAnswers}

ASSUME RmFilterAssumption ==
  /\ NoThread \notin Threads
  /\ MaxGpus \in Nat
  /\ AllowedMinors \subseteq Minors
  /\ Invalid \notin GpuIds
  /\ CardAnswers \subseteq Seq(Card)
  /\ \A q \in Queries : ListAnswers[q] \subseteq List
  /\ \A a \in ListAnswers["attached"] : Len(a.ids) <= MaxGpus

VARIABLES
  ready,    (* g_proc_filter_ready: ioctl passes &g_allowed_gpus            *)
  enabled,  (* ioctl_filter_enabled                                         *)
  learned,  (* g_allowed_gpu_ids up to g_allowed_gpu_id_count               *)
  lock,     (* holder of g_ioctl_filter_lock                                *)
  pc,       (* where each thread is inside ioctl                            *)
  req,      (* its request                                                  *)
  cards,    (* its argument: the card array                                 *)
  list,     (* its argument: the id list                                    *)
  i,        (* its loop index                                               *)
  kept,     (* its array of entries to keep                                 *)
  settled,  (* ghost: the learned ids when a CARD_INFO call last unlocked   *)
  asked,    (* ghost: what the driver answered the query of each thread     *)
  seen,     (* ghost: the learned ids when the query took the lock          *)
  shown,    (* ghost: the ids shown by CARD_INFO calls that have returned   *)
  promised  (* ghost: shown, when the call of each thread began             *)

localVars == <<pc, req, cards, list, i, kept>>
ghostVars == <<settled, asked, seen, shown, promised>>
vars == <<ready, enabled, learned, lock, localVars, ghostVars>>

NoList == [num |-> 0, ids |-> <<>>]

(* Entry j of an array belongs to the list: an attached-ids answer ends at   *)
(* its first Invalid entry, an active-ids answer after num entries.          *)
Listed(q, l, j) == IF q = "attached" THEN l.ids[j] # Invalid ELSE j <= l.num

EndsAt(q, l, n) ==
  /\ \A j \in 1 .. n : Listed(q, l, j)
  /\ n < Len(l.ids) => ~Listed(q, l, n + 1)

(* The ids the process reads in a list.                                      *)
Visible(q, l) == SubSeq(l.ids, 1, CHOOSE n \in 0 .. Len(l.ids) : EndsAt(q, l, n))

Learned == Range(learned)
Idle(t) == pc[t] = "idle"
Goto(t, label) == pc' = [pc EXCEPT ![t] = label]

(* Calls whose answer is complete: untouched, cards masked, list filtered.   *)
Ends == {"passed", "masked", "listed"}

Init ==
  /\ ready = FALSE
  /\ enabled \in BOOLEAN
  /\ learned = <<>>
  /\ lock = NoThread
  /\ pc = [t \in Threads |-> "idle"]
  /\ req = [t \in Threads |-> "none"]
  /\ cards = [t \in Threads |-> <<>>]
  /\ list = [t \in Threads |-> NoList]
  /\ i = [t \in Threads |-> 1]
  /\ kept = [t \in Threads |-> <<>>]
  /\ settled = {}
  /\ asked = [t \in Threads |-> <<>>]
  /\ seen = [t \in Threads |-> {}]
  /\ shown = {}
  /\ promised = [t \in Threads |-> {}]

-----------------------------------------------------------------------------
(* nvfix_constructor switched the topology filter on.                        *)
Constructor ==
  /\ ~ready
  /\ ready' = TRUE
  /\ UNCHANGED <<enabled, learned, lock, localVars, ghostVars>>

(* ioctl(CARD_INFO): the real call, then nvfix_ioctl_filter_after.  With     *)
(* allowed NULL, or after an error, both card functions return at once.      *)
IoctlCards(t, a, succeeds) ==
  /\ Idle(t)
  /\ Goto(t, IF ready /\ succeeds THEN "learn_lock" ELSE "passed")
  /\ req' = [req EXCEPT ![t] = "card_info"]
  /\ cards' = [cards EXCEPT ![t] = a]
  /\ promised' = [promised EXCEPT ![t] = shown]
  /\ UNCHANGED <<ready, enabled, learned, lock, list, i, kept, settled, asked, seen, shown>>

(* ioctl(RM_CONTROL) with one of the two list commands.  usable: result and  *)
(* status are 0, params is set and paramsSize holds the whole array.  Other  *)
(* commands end in "passed" in the same way.                                 *)
IoctlList(t, q, a, usable) ==
  /\ Idle(t)
  /\ Goto(t, IF enabled /\ ready /\ usable THEN "scan_lock" ELSE "passed")
  /\ req' = [req EXCEPT ![t] = q]
  /\ list' = [list EXCEPT ![t] = a]
  /\ asked' = [asked EXCEPT ![t] = Visible(q, a)]
  /\ promised' = [promised EXCEPT ![t] = shown]
  /\ UNCHANGED <<ready, enabled, learned, lock, cards, i, kept, settled, seen, shown>>

-----------------------------------------------------------------------------
(* Mutant of Acquire: the loop does not start at the first entry.            *)
AcquireNoReset(t) ==
  /\ lock = NoThread
  /\ lock' = t
  /\ i' = [i EXCEPT ![t] = 0]

(* nvfix_record_card_info_gpu_ids.                                           *)
Acquire(t) ==
  /\ lock = NoThread
  /\ lock' = t
  /\ i' = [i EXCEPT ![t] = 1]

Release(t) == lock' = NoThread

LearnLock(t) ==
  /\ pc[t] = "learn_lock"
  /\ Acquire(t)
  /\ Goto(t, "learn")
  /\ UNCHANGED <<ready, enabled, learned, req, cards, list, kept, ghostVars>>

(* Mutant of Remember: an id is stored each time it is seen.                 *)
RememberAgain(id) ==
  learned' = IF id = Invalid \/ Len(learned) >= MaxGpus
               THEN learned
               ELSE Append(learned, id)

(* Mutant of Remember: the bound is off by one.                              *)
RememberPast(id) ==
  learned' = IF id = Invalid \/ id \in Learned \/ Len(learned) > MaxGpus
               THEN learned
               ELSE Append(learned, id)

(* nvfix_remember_allowed_gpu_id_locked.                                     *)
Remember(id) ==
  learned' = IF id = Invalid \/ id \in Learned \/ Len(learned) >= MaxGpus
               THEN learned
               ELSE Append(learned, id)

(* Mutant of LearnCard: the loop ends at the first card that is not allowed. *)
LearnCardBreak(t) ==
  /\ pc[t] = "learn"
  /\ i[t] <= Len(cards[t])
  /\ LET c == cards[t][i[t]]
     IN  IF c.valid /\ c.minor \in AllowedMinors
           THEN Remember(c.id) /\ i' = [i EXCEPT ![t] = @ + 1]
           ELSE UNCHANGED learned /\ i' = [i EXCEPT ![t] = Len(cards[t]) + 1]
  /\ UNCHANGED <<ready, enabled, lock, pc, req, cards, list, kept, ghostVars>>

LearnCard(t) ==
  /\ pc[t] = "learn"
  /\ i[t] <= Len(cards[t])
  /\ LET c == cards[t][i[t]]
     IN  IF c.valid /\ c.minor \in AllowedMinors
           THEN Remember(c.id)
           ELSE UNCHANGED learned
  /\ i' = [i EXCEPT ![t] = @ + 1]
  /\ UNCHANGED <<ready, enabled, lock, pc, req, cards, list, kept, ghostVars>>

LearnUnlock(t) ==
  /\ pc[t] = "learn"
  /\ i[t] > Len(cards[t])
  /\ Release(t)
  /\ settled' = Learned
  /\ Goto(t, "mask")
  /\ UNCHANGED <<ready, enabled, learned, req, cards, list, i, kept, asked, seen, shown, promised>>

(* nvfix_filter_card_info, when the filter is enabled.                       *)
Mask(c) == [c EXCEPT !.valid = @ /\ c.minor \in AllowedMinors]

MaskCards(t) ==
  /\ pc[t] = "mask"
  /\ cards' = IF enabled
                THEN [cards EXCEPT ![t] = [j \in DOMAIN cards[t] |-> Mask(cards[t][j])]]
                ELSE cards
  /\ Goto(t, "masked")
  /\ UNCHANGED <<ready, enabled, learned, lock, req, list, i, kept, ghostVars>>

-----------------------------------------------------------------------------
(* Mutant of ScanLock: the table is read without the lock.                   *)
ScanUnlocked(t) ==
  /\ pc[t] = "scan_lock"
  /\ i' = [i EXCEPT ![t] = 1]
  /\ seen' = [seen EXCEPT ![t] = Learned]
  /\ Goto(t, "scan")
  /\ UNCHANGED <<ready, enabled, learned, lock, req, cards, list, kept, settled, asked,
                 shown, promised>>

(* nvfix_filter_gpu_id_array and nvfix_filter_active_devices.                *)
ScanLock(t) ==
  /\ pc[t] = "scan_lock"
  /\ Acquire(t)
  /\ seen' = [seen EXCEPT ![t] = Learned]
  /\ Goto(t, "scan")
  /\ UNCHANGED <<ready, enabled, learned, req, cards, list, kept, settled, asked, shown, promised>>

(* Nothing was learned yet: unlock and leave the list alone.                 *)
ScanNothing(t) ==
  /\ pc[t] = "scan"
  /\ learned = <<>>
  /\ Release(t)
  /\ Goto(t, "listed")
  /\ UNCHANGED <<ready, enabled, learned, req, cards, list, i, kept, ghostVars>>

(* The loop condition: the array has Len(ids) entries, num is clamped to it. *)
More(t) == i[t] <= Len(list[t].ids) /\ Listed(req[t], list[t], i[t])

(* Only the attached array bounds its copy by NVFIX_MAX_GPUS.                *)
Keep(t, id) ==
  kept' = [kept EXCEPT ![t] =
             IF id \in Learned /\ (req[t] = "attached" => Len(@) < MaxGpus)
               THEN Append(@, id) ELSE @]

(* Mutant of ScanEntry: an entry that is not kept is looked at again.        *)
ScanEntryStuck(t) ==
  /\ pc[t] = "scan"
  /\ learned # <<>>
  /\ More(t)
  /\ Keep(t, list[t].ids[i[t]])
  /\ i' = IF kept' = kept THEN i ELSE [i EXCEPT ![t] = @ + 1]
  /\ UNCHANGED <<ready, enabled, learned, lock, pc, req, cards, list, ghostVars>>

ScanEntry(t) ==
  /\ pc[t] = "scan"
  /\ learned # <<>>
  /\ More(t)
  /\ Keep(t, list[t].ids[i[t]])
  /\ i' = [i EXCEPT ![t] = @ + 1]
  /\ UNCHANGED <<ready, enabled, learned, lock, pc, req, cards, list, ghostVars>>

ScanUnlock(t) ==
  /\ pc[t] = "scan"
  /\ learned # <<>>
  /\ ~More(t)
  /\ Release(t)
  /\ Goto(t, IF kept[t] = <<>> THEN "listed" ELSE "write")
  /\ UNCHANGED <<ready, enabled, learned, req, cards, list, i, kept, ghostVars>>

(* Mutant of Write: the rest of an attached array is not invalidated.        *)
WriteFront(t) ==
  /\ pc[t] = "write"
  /\ list' = [list EXCEPT ![t] =
                 [num |-> IF req[t] = "attached" THEN @.num ELSE Len(kept[t]),
                  ids |-> [j \in DOMAIN @.ids |->
                             IF j <= Len(kept[t]) THEN kept[t][j] ELSE @.ids[j]]]]
  /\ Goto(t, "listed")
  /\ UNCHANGED <<ready, enabled, learned, lock, req, cards, i, kept, ghostVars>>

(* The kept entries move to the front.  The rest of an attached array is     *)
(* invalidated; of an active array it keeps its content behind the new num.  *)
Write(t) ==
  /\ pc[t] = "write"
  /\ LET n == Len(kept[t])
         Rest(j) == IF req[t] = "attached" THEN Invalid ELSE list[t].ids[j]
     IN  list' = [list EXCEPT ![t] =
                    [num |-> IF req[t] = "attached" THEN @.num ELSE n,
                     ids |-> [j \in DOMAIN @.ids |->
                                IF j <= n THEN kept[t][j] ELSE Rest(j)]]]
  /\ Goto(t, "listed")
  /\ UNCHANGED <<ready, enabled, learned, lock, req, cards, i, kept, ghostVars>>

-----------------------------------------------------------------------------
(* ioctl returns; what CARD_INFO showed is now known to the process.         *)
ValidIds(a) == {c.id : c \in {d \in Range(a) : d.valid}} \ {Invalid}

Return(t) ==
  /\ pc[t] \in Ends
  /\ Goto(t, "idle")
  /\ req' = [req EXCEPT ![t] = "none"]
  /\ cards' = [cards EXCEPT ![t] = <<>>]
  /\ list' = [list EXCEPT ![t] = NoList]
  /\ i' = [i EXCEPT ![t] = 1]
  /\ kept' = [kept EXCEPT ![t] = <<>>]
  /\ asked' = [asked EXCEPT ![t] = <<>>]
  /\ seen' = [seen EXCEPT ![t] = {}]
  /\ promised' = [promised EXCEPT ![t] = {}]
  /\ shown' = IF pc[t] = "masked" /\ enabled THEN shown \cup ValidIds(cards[t]) ELSE shown
  /\ UNCHANGED <<ready, enabled, learned, lock, settled>>

(* The steps of a call that has begun.                                       *)
InCall(t) ==
  \/ LearnLock(t) \/ LearnCard(t) \/ LearnUnlock(t) \/ MaskCards(t)
  \/ ScanLock(t) \/ ScanNothing(t) \/ ScanEntry(t) \/ ScanUnlock(t) \/ Write(t)
  \/ Return(t)

Next ==
  \/ Constructor
  \/ \E t \in Threads :
       \/ \E a \in CardAnswers, succeeds \in BOOLEAN : IoctlCards(t, a, succeeds)
       \/ \E q \in Queries : \E a \in ListAnswers[q], usable \in BOOLEAN :
            IoctlList(t, q, a, usable)
       \/ InCall(t)

(* A thread inside ioctl is scheduled again.  Nothing is assumed about which *)
(* thread gets the lock, or about threads making further calls.              *)
Fairness == \A t \in Threads : WF_vars(InCall(t))

Spec     == Init /\ [][Next]_vars
FairSpec == Spec /\ Fairness

-----------------------------------------------------------------------------
(* Every variable stays in its domain.                                       *)
TypeOK ==
  /\ ready \in BOOLEAN /\ enabled \in BOOLEAN
  /\ learned \in Seq(GpuIds)
  /\ lock \in Threads \cup {NoThread}
  /\ pc \in [Threads -> {"idle", "learn_lock", "learn", "mask", "scan_lock", "scan",
                        "write"} \cup Ends]
  /\ req \in [Threads -> Queries \cup {"card_info", "none"}]
  /\ cards \in [Threads -> Seq(Card)]
  /\ list \in [Threads -> List]
  /\ i \in [Threads -> Nat \ {0}]
  /\ kept \in [Threads -> Seq(GpuIds)]
  /\ asked \in [Threads -> Seq(GpuIds \cup {Invalid})]
  /\ settled \subseteq GpuIds /\ shown \subseteq GpuIds
  /\ seen \in [Threads -> SUBSET GpuIds] /\ promised \in [Threads -> SUBSET GpuIds]

(* The learned table holds ids of allowed GPUs only, each once, within its   *)
(* NVFIX_MAX_GPUS entries, however the threads' CARD_INFO calls interleave;  *)
(* and a thread is inside a critical section exactly when it holds the lock. *)
LearnedSound ==
  /\ IsInjective(learned)
  /\ Learned \subseteq AllowedIds
  /\ Len(learned) <= MaxGpus
  /\ \A t \in Threads : pc[t] \in {"learn", "scan"} <=> lock = t

(* A card that CARD_INFO shows to the process is an allowed one, and its id  *)
(* is learned before the process can see it, unless the table is full.       *)
CardsTaught ==
  \A t \in Threads : pc[t] = "masked" /\ enabled =>
    \A c \in Range(cards[t]) : c.valid =>
      /\ c.minor \in AllowedMinors
      /\ c.id \in settled \cup {Invalid} \/ Len(learned) = MaxGpus

(* Why CardsTaught holds: the loop leaves a learned id behind every allowed  *)
(* card it has passed, and what was learned is never forgotten.              *)
Taught(c, S) ==
  c.valid /\ c.minor \in AllowedMinors =>
    c.id \in S \cup {Invalid} \/ Len(learned) = MaxGpus

ThreadTaught(t) ==
  /\ pc[t] \in {"learn_lock", "learn"} => cards[t] \in CardAnswers
  /\ pc[t] = "learn" =>
       \A j \in DOMAIN cards[t] : j < i[t] => Taught(cards[t][j], Learned)
  /\ pc[t] = "mask" =>
       \A j \in DOMAIN cards[t] : Taught(cards[t][j], settled)
  /\ pc[t] = "masked" /\ enabled =>
       \A j \in DOMAIN cards[t] : cards[t][j].valid =>
         cards[t][j].minor \in AllowedMinors /\ Taught(cards[t][j], settled)

CardsInv ==
  /\ settled \subseteq Learned
  /\ \A t \in Threads : ThreadTaught(t)

(* The two discovery paths agree: ids that CARD_INFO had shown before a list *)
(* query began are kept in its answer, and their presence hides every id     *)
(* that is not allowed.  (A full table forgets what it could not store.)     *)
ListsAgreeWithCards ==
  \A t \in Threads :
    LET common == promised[t] \cap Range(asked[t])
        answer == Range(Visible(req[t], list[t]))
    IN  /\ pc[t] = "listed"
        /\ common # {}
        /\ Len(learned) < MaxGpus
        => common \subseteq answer /\ answer \subseteq AllowedIds

(* Every path through the critical sections unlocks, the early return of an  *)
(* empty table included: a lock that is taken is released.                   *)
LockReleased == lock # NoThread ~> lock = NoThread

-----------------------------------------------------------------------------
(* Refinement: locks, loops and arrays implement the abstract allow list.    *)
Phase(t) ==
  CASE pc[t] = "scan_lock"         -> "asked"
    [] pc[t] \in {"scan", "write"} -> "looked"
    [] pc[t] = "listed"            -> "answered"
    [] OTHER                       -> "idle"

Driver(t) == IF Phase(t) = "idle" THEN <<>> ELSE asked[t]
Reply(t)  == IF pc[t] = "listed" THEN Visible(req[t], list[t]) ELSE <<>>

AllowList == INSTANCE GpuAllowList WITH
  Batches <- {AllowedIn(a) : a \in CardAnswers},
  Lists   <- UNION {{Visible(q, a) : a \in ListAnswers[q]} : q \in Queries},
  Room    <- MaxGpus,
  known   <- settled,
  phase   <- [t \in Threads |-> Phase(t)],
  driver  <- [t \in Threads |-> Driver(t)],
  seen    <- seen,
  reply   <- [t \in Threads |-> Reply(t)]

ImplementsAllowList == AllowList!Spec
=============================================================================
