------------------------------ MODULE MapLock ------------------------------
(***************************************************************************)
(* g_fd_map_lock and one entry of g_fd_map, at the level of single memory  *)
(* accesses: threads that call nvfix_fd_map_set, get and remove, signal    *)
(* handlers that interrupt them anywhere and call them again, and a fork,  *)
(* which copies the memory, lock included, but only the thread forking.    *)
(* It is what lets FdTracking take each of these calls as one step.        *)
(***************************************************************************)
EXTENDS Integers

CONSTANTS
  Threads,   \* threads of the process
  NoThread,  \* holder of a free lock
  Records,   \* what nvfix_fd_map_set may store
  NoRecord,  \* an entry after memset
  Calls,     \* bound of the model: the calls, "set", "get" and "remove", at each depth
  Depth      \* bound of the model: 1 for no signal handler, 2 for one, ...

VARIABLES
  threads,   \* threads of each process; none before the fork
  holder,    \* the thread that locked the mutex of each process
  entry,     \* the entry, in the memory of each process
  frame,     \* the call under way in a process, thread and depth of handlers
  committed  \* ghost: what the completed calls made of the entry
vars == <<threads, holder, entry, frame, committed>>

Procs  == {"parent", "child"}
Levels == 1 .. Depth
Entry  == [occupied : BOOLEAN, record : Records \cup {NoRecord}]
Blank  == [occupied |-> FALSE, record |-> NoRecord]
Frame  == [op : {"set", "get", "remove"}, value : Records \cup {NoRecord},
           step : {"none", "wait", "first", "second", "out"}, copy : Entry]
NoCall == [op |-> "get", value |-> NoRecord, step |-> "none", copy |-> Blank]

ASSUME LockAssumption ==
  /\ NoThread \notin Threads
  /\ NoRecord \notin Records
  /\ Calls \in [1 .. Depth -> SUBSET {"set", "get", "remove"}]
  /\ Depth \in Nat \ {0}
-----------------------------------------------------------------------------
(* The frame that runs: the innermost handler.                               *)
Runs(p, t, l) ==
  /\ t \in threads[p]
  /\ \A m \in Levels : m > l => frame[<<p, t, m>>].step = "none"

At(p, t, l, step) == Runs(p, t, l) /\ frame[<<p, t, l>>].step = step

Init ==
  /\ threads = [p \in Procs |-> IF p = "parent" THEN Threads ELSE {}]
  /\ holder = [p \in Procs |-> NoThread]
  /\ entry = [p \in Procs |-> Blank]
  /\ frame = [x \in Procs \X Threads \X Levels |-> NoCall]
  /\ committed = [p \in Procs |-> Blank]

(* A hooked call reaches the map, in the program or in a signal handler,     *)
(* which interrupts the frame below wherever it is.                          *)
Begin(p, t, l) ==
  /\ At(p, t, l, "none")
  /\ l > 1 => frame[<<p, t, l - 1>>].step # "none"
  /\ \E o \in Calls[l], v \in Records \cup {NoRecord} :
       /\ o = "set" <=> v # NoRecord
       /\ frame' = [frame EXCEPT ![<<p, t, l>>] = [NoCall EXCEPT !.op = o, !.value = v, !.step = "wait"]]
  /\ UNCHANGED <<threads, holder, entry, committed>>

(* pthread_mutex_lock: the mutex is not recursive.                           *)
Acquire(p, t, l) ==
  /\ At(p, t, l, "wait")
  /\ holder[p] = NoThread
  /\ holder' = [holder EXCEPT ![p] = t]
  /\ frame' = [frame EXCEPT ![<<p, t, l>>].step = "first"]
  /\ UNCHANGED <<threads, entry, committed>>

(* The two accesses of nvfix_fd_map_set, and those of the memset.            *)
Write(p, t, l) ==
  /\ frame[<<p, t, l>>].op \in {"set", "remove"}
  /\ \/ /\ At(p, t, l, "first")
        /\ entry' = [entry EXCEPT ![p].occupied = (frame[<<p, t, l>>].op = "set")]
        /\ frame' = [frame EXCEPT ![<<p, t, l>>].step = "second"]
     \/ /\ At(p, t, l, "second")
        /\ entry' = [entry EXCEPT ![p].record = frame[<<p, t, l>>].value]
        /\ frame' = [frame EXCEPT ![<<p, t, l>>].step = "out"]
  /\ UNCHANGED <<threads, holder, committed>>

(* Mutant of Read: returns at once when the entry is not occupied.           *)
ReadAndReturn(p, t, l) ==
  /\ frame[<<p, t, l>>].op = "get" /\ At(p, t, l, "first")
  /\ frame' = [frame EXCEPT ![<<p, t, l>>].step = IF entry[p].occupied THEN "second" ELSE "none",
                            ![<<p, t, l>>].copy.occupied = entry[p].occupied]
  /\ UNCHANGED <<threads, holder, entry, committed>>

(* The accesses of nvfix_fd_map_get: occupied, and the record if it is.      *)
Read(p, t, l) ==
  /\ frame[<<p, t, l>>].op = "get"
  /\ \/ /\ At(p, t, l, "first")
        /\ frame' = [frame EXCEPT
                       ![<<p, t, l>>].step = IF entry[p].occupied THEN "second" ELSE "out",
                       ![<<p, t, l>>].copy.occupied = entry[p].occupied]
     \/ /\ At(p, t, l, "second")
        /\ frame' = [frame EXCEPT ![<<p, t, l>>].step = "out",
                                  ![<<p, t, l>>].copy.record = entry[p].record]
  /\ UNCHANGED <<threads, holder, entry, committed>>

(* What the entry is after a call.                                           *)
Promised(f, before) ==
  CASE f.op = "set"    -> [occupied |-> TRUE, record |-> f.value]
    [] f.op = "remove" -> Blank
    [] OTHER           -> before

(* pthread_mutex_unlock, and the call returns.                               *)
Release(p, t, l) ==
  /\ At(p, t, l, "out")
  /\ holder' = [holder EXCEPT ![p] = NoThread]
  /\ committed' = [committed EXCEPT ![p] = Promised(frame[<<p, t, l>>], committed[p])]
  /\ frame' = [frame EXCEPT ![<<p, t, l>>] = NoCall]
  /\ UNCHANGED <<threads, entry>>

(* The child's copy of what belongs to a process.                            *)
Copied(f) == [f EXCEPT !["child"] = f["parent"]]

(* The calls the child goes on with.                                         *)
ForkedFrames(t) ==
  [x \in DOMAIN frame |->
     IF x[1] = "parent" THEN frame[x] ELSE IF x[2] = t THEN frame[<<"parent", t, x[3]>>] ELSE NoCall]

(* Mutant of Fork: the child makes the lock anew.                            *)
ForkUnlocked(t) ==
  /\ t \in threads["parent"] /\ threads["child"] = {}
  /\ threads' = [threads EXCEPT !["child"] = {t}]
  /\ holder' = [holder EXCEPT !["child"] = NoThread]
  /\ entry' = Copied(entry) /\ committed' = Copied(committed)
  /\ frame' = ForkedFrames(t)

(* fork in a thread, in its program or in a handler: nothing registers       *)
(* pthread_atfork, so that the child has the lock as it is.                  *)
Fork(t) ==
  /\ t \in threads["parent"] /\ threads["child"] = {}
  /\ threads' = [threads EXCEPT !["child"] = {t}]
  /\ holder' = Copied(holder) /\ entry' = Copied(entry) /\ committed' = Copied(committed)
  /\ frame' = ForkedFrames(t)

Step(p, t, l) ==
  Acquire(p, t, l) \/ Write(p, t, l) \/ Read(p, t, l) \/ Release(p, t, l)

Next ==
  \/ \E p \in Procs, t \in Threads, l \in Levels : Begin(p, t, l) \/ Step(p, t, l)
  \/ \E t \in Threads : Fork(t)

Spec == Init /\ [][Next]_vars

(* A thread that can run runs.                                               *)
FairSpec ==
  Spec /\ \A p \in Procs, t \in Threads : WF_vars(\E l \in Levels : Step(p, t, l))
-----------------------------------------------------------------------------
(* The variables stay in their types.                                        *)
TypeOK ==
  /\ threads \in [Procs -> SUBSET Threads]
  /\ holder \in [Procs -> Threads \cup {NoThread}]
  /\ entry \in [Procs -> Entry]
  /\ frame \in [Procs \X Threads \X Levels -> Frame]
  /\ committed \in [Procs -> Entry]

(* nvfix_fd_map_get gives what the last completed call made of the entry,    *)
(* never half of a call under way: of another thread, of the frame it        *)
(* interrupts, or of a thread that the fork cut off.                         *)
GetsWhole ==
  \A p \in Procs, t \in Threads, l \in Levels :
    LET f == frame[<<p, t, l>>]
    IN  t \in threads[p] /\ f.op = "get" /\ f.step = "out" =>
          /\ f.copy.occupied = committed[p].occupied
          /\ f.copy.occupied => f.copy.record = committed[p].record

(* Nobody will unlock: the holder is not in this process, or it is below a   *)
(* handler of its own that waits for the lock.                               *)
Abandoned(p) ==
  \/ holder[p] \notin threads[p]
  \/ \E l \in Levels : /\ At(p, holder[p], l, "wait")
                       /\ \E m \in 1 .. l - 1 : frame[<<p, holder[p], m>>].step \notin {"none", "wait"}

(* A locked mutex is unlocked, but for the two cases nothing in fd_map.c     *)
(* prevents: a fork while another thread holds it, and a handler that calls  *)
(* open or close over the thread that holds it.                              *)
SectionsEnd ==
  \A p \in Procs : holder[p] # NoThread ~> holder[p] = NoThread \/ Abandoned(p)
=============================================================================
