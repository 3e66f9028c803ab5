--------------------------- MODULE FdTrackingProofs ---------------------------
(***************************************************************************)
(* TrackingInv of FdTracking is an invariant for any number of threads,    *)
(* any set of descriptor numbers and any table size.                       *)
(***************************************************************************)
EXTENDS FdTracking, TLAPS

-----------------------------------------------------------------------------
(* The classification of a path and the treatment it leads to. *)

(* nvfix_classify_path returns a kind of the map or nothing.                 *)
LEMMA ClassifyType ==
  ASSUME NEW p
  PROVE  Classify(p) \in Kinds \cup {NoRecord}
  BY DEF Classify, Kinds, NoRecord

(* A number without a record, and a closed number, are served raw.           *)
LEMMA RawFacts ==
  /\ Treatment(NoRecord) = "raw"
  /\ Deserved(NoFile) = "raw"
  BY DEF Treatment, Deserved, Classify, NoRecord, NoFile

(* A path that is not classified, and is not an alias, names an ordinary     *)
(* file; a classified one is spelled like its file.                          *)
LEMMA ClassifyFile ==
  ASSUME NEW p \in PathClasses, NEW k \in Named(p)
  PROVE  /\ Classify(p) # NoRecord => Treatment(Classify(p)) = Deserved(k)
         /\ Classify(p) = NoRecord /\ p # "alias" => Deserved(k) = "raw"
         /\ k \in Files
         /\ k # NoFile
  BY DEF PathClasses, Files, Classify, Deserved, Treatment, Named, NoRecord, NoFile

(* What a relative name leads to is served raw, unless the name is an alias; *)
(* and so is what would be recorded for it.                                  *)
LEMMA ResolveFile ==
  ASSUME NEW d, NEW p \in RelativeNames, NEW k \in Resolve(d, p)
  PROVE  /\ k \in Files
         /\ k # NoFile
         /\ p # "alias" => Deserved(k) = "raw"
         /\ p = "alias" => Classify(p) = NoRecord
         /\ Treatment(Classify(p)) = "raw"
<1>1. k \in Files /\ k # NoFile /\ (p # "alias" => k \in {p, "elsewhere"})
  <2>1. CASE file[d] = "gpus"
    BY <2>1 DEF RelativeNames, Resolve, Named, Files, NoFile
  <2>2. CASE file[d] = "elsewhere"
    BY <2>2 DEF RelativeNames, Resolve, Named, Files, NoFile
  <2> QED
    BY <2>1, <2>2 DEF Resolve
<1> QED
  BY <1>1 DEF RelativeNames, Deserved, Classify, Treatment, NoRecord

-----------------------------------------------------------------------------
(* Typing. *)

(* The process starts with whatever descriptors it inherited and no record.  *)
LEMMA InitTyped == Init => TypeOK
<1> SUFFICES ASSUME Init
             PROVE  TypeOK
  OBVIOUS
<1>1. file \in [Fds -> Files \cup {NoFile}]
  BY FdTrackingAssumption DEF Init
<1>2. outcome \in Outcomes
  BY DEF Init, Outcomes, NoOutcome, Treatments
<1>3. /\ ready \in BOOLEAN
      /\ how \in [Fds -> {"hooked", "raced", "alias", "unhooked"}]
      /\ fdmap \in [Tracked -> Kinds \cup {NoRecord}]
      /\ leftover \subseteq Tracked
  BY DEF Init
<1>4. /\ pc \in [Threads -> {"idle", "track", "untrack", "openat", "openat_below", "decide"}]
      /\ fd \in [Threads -> Nat]
      /\ path \in [Threads -> PathClasses \cup {NoFile}]
      /\ \A t \in Threads : pc[t] = "idle"
  BY DEF Init
<1> QED
  BY <1>1, <1>2, <1>3, <1>4 DEF TypeOK, Idle

(* Every step of a thread keeps the variables in their domains.              *)
LEMMA TypeStep == TypeOK /\ [Next]_vars => TypeOK'
<1> SUFFICES ASSUME TypeOK, [Next]_vars
             PROVE  TypeOK'
  OBVIOUS
<1> USE FdTrackingAssumption DEF TypeOK, Silent, NoOutcome, Outcomes, Treatments,
        kernelVars, threadVars, Tracked
<1>1. ASSUME NEW t \in Threads, Constructor(t)
      PROVE  TypeOK'
  BY <1>1 DEF Constructor, Idle
<1>2. ASSUME NEW t \in Threads, NEW p \in Paths, OpenDenied(t, p)
      PROVE  TypeOK'
  BY <1>2 DEF OpenDenied, Idle, Denied, Files
<1>3. ASSUME NEW t \in Threads, NEW p \in Paths, NEW k \in Named(p), OpenReal(t, p, k)
      PROVE  TypeOK'
  <2>1. p \in PathClasses /\ k \in Files
    BY ClassifyFile
  <2> QED
    BY <1>3, <2>1 DEF OpenReal, Allocate, Goto, Idle
<1>4. ASSUME NEW t \in Threads, NEW p \in Paths, NEW k \in Named(p), Opendir(t, p, k)
      PROVE  TypeOK'
  BY <1>3, <1>4 DEF Opendir
<1>5. ASSUME NEW t \in Threads, Track(t)
      PROVE  TypeOK'
  <2>1. Classify(path[t]) \in Kinds \cup {NoRecord}
    BY ClassifyType
  <2> QED
    BY <1>5, <2>1 DEF Track, MapSet, Return, Goto, Idle
<1>6. ASSUME NEW t \in Threads, NEW d \in Fds, NEW p \in Paths \cap RelativeNames,
             OpenatLookup(t, d, p)
      PROVE  TypeOK'
  BY <1>6 DEF OpenatLookup, Goto, Idle, Denied, Files
<1>7. ASSUME NEW t \in Threads, OpenatReal(t)
      PROVE  TypeOK'
  <2>1. path[t] \in RelativeNames /\ path[t] \in PathClasses
    BY <1>7 DEF OpenatReal, RelativeNames, PathClasses, Files
  <2>2. \A k \in Resolve(fd[t], path[t]) : k \in Files
    BY <2>1, ResolveFile
  <2> QED
    BY <1>7, <2>1, <2>2 DEF OpenatReal, Allocate, Return, Goto, Idle
<1>8. ASSUME NEW t \in Threads, NEW f \in Fds, CloseReal(t, f)
      PROVE  TypeOK'
  BY <1>8 DEF CloseReal, Goto, Idle
<1>9. ASSUME NEW t \in Threads, Untrack(t)
      PROVE  TypeOK'
  BY <1>9 DEF Untrack, MapRemove, Return, Goto, Idle
<1>10. ASSUME NEW t \in Threads, NEW f \in Fds, CallReal(t, f)
       PROVE  TypeOK'
  BY <1>10 DEF CallReal, Returned, Goto, Idle, PathClasses
<1>11. ASSUME NEW t \in Threads, Decide(t)
       PROVE  TypeOK'
  BY <1>11 DEF Decide, Return, Goto, Idle, Treatment, Files
<1>12. ASSUME NEW t \in Threads, NEW f \in Fds, FreeUnseen(t, f)
       PROVE  TypeOK'
  BY <1>12 DEF FreeUnseen, Abandon, MapGet, Idle
<1>13. ASSUME NEW t \in Threads, NEW old \in Fds, NEW new \in Fds, Dup2(t, old, new)
       PROVE  TypeOK'
  BY <1>13 DEF Dup2, Abandon, MapGet, Idle
<1>14. CASE UNCHANGED vars
  BY <1>14 DEF vars, Idle
<1> QED
  BY <1>1, <1>2, <1>3, <1>4, <1>5, <1>6, <1>7, <1>8, <1>9, <1>10, <1>11, <1>12,
     <1>13, <1>14 DEF Next, ThreadStep, CloseFails, Closedir

-----------------------------------------------------------------------------
(* The tracking invariant, by the effect of a step on the two tables. *)

(* The other threads are where they were.                                    *)
OthersStay(t) ==
  \A u \in Threads \ {t} : pc'[u] = pc[u] /\ fd'[u] = fd[u] /\ path'[u] = path[u]

Correct == Discipline /\ StaleOnlyWhileClosing /\ HookedOpensTracked

(* A step that leaves both tables alone, of a thread that neither was nor    *)
(* becomes about to write the map, preserves the invariant: the denials, the *)
(* lookups and the calls on a descriptor.                                    *)
LEMMA ReadStep ==
  ASSUME TypeOK, Correct, NEW t \in Threads, OthersStay(t),
         pc[t] \notin {"track", "untrack"}, pc'[t] \notin {"track", "untrack"},
         UNCHANGED <<file, how, fdmap, leftover>>
  PROVE  Correct'
<1>1. \A f \in Fds : /\ PendingTrack(f)' <=> PendingTrack(f)
                     /\ PendingUntrack(f)' <=> PendingUntrack(f)
  BY DEF OthersStay, PendingTrack, PendingUntrack
<1>2. \A u \in Threads : pc'[u] = "track" <=> pc[u] = "track"
  BY DEF OthersStay
<1>3. Discipline'
  BY <1>1, <1>2 DEF Correct, Discipline, OthersStay
<1>4. StaleOnlyWhileClosing'
  BY <1>1 DEF Correct, StaleOnlyWhileClosing, Tracked
<1>5. HookedOpensTracked'
  BY <1>1 DEF Correct, HookedOpensTracked, Returned, Tracked
<1> QED
  BY <1>3, <1>4, <1>5 DEF Correct

(* A hooked open takes a free number and either will store the right record  *)
(* or has nothing to store for a file that is served raw.                    *)
LEMMA OpenStep ==
  ASSUME TypeOK, Correct, NEW t \in Threads, OthersStay(t),
         NEW f \in Fds, NEW p, NEW k, k # NoFile, Allocate(f, p, k),
         pc[t] \notin {"track", "untrack"}, pc'[t] # "untrack",
         pc'[t] = "track" =>
           fd'[t] = f /\ Treatment(Classify(path'[t])) = Deserved(k),
         pc'[t] # "track" => Deserved(k) = "raw" \/ p = "alias",
         UNCHANGED <<fdmap, leftover>>
  PROVE  Correct'
<1>1. /\ file[f] = NoFile
      /\ file'[f] = k
      /\ \A g \in Fds \ {f} : file'[g] = file[g] /\ how'[g] = how[g]
      /\ how'[f] = "hooked" => p # "alias" /\ ~PendingUntrack(f)
  BY DEF Allocate, LowestFree, TypeOK
<1>2. \A u \in Threads : pc[u] = "track" => fd[u] # f
  BY <1>1 DEF Correct, Discipline
<1>3. \A g \in Fds : PendingUntrack(g)' <=> PendingUntrack(g)
  BY DEF OthersStay, PendingUntrack
<1>4. \A g \in Fds \ {f} : PendingTrack(g)' <=> PendingTrack(g)
  BY DEF OthersStay, PendingTrack
<1>5. Discipline'
  <2>1. ASSUME NEW u \in Threads, pc'[u] = "track"
        PROVE  /\ file'[fd'[u]] # NoFile
               /\ Treatment(Classify(path'[u])) = Deserved(file'[fd'[u]])
               /\ \A v \in Threads : pc'[v] = "track" /\ fd'[v] = fd'[u] => v = u
    <3>1. CASE u = t
      BY <1>1, <1>2, <2>1, <3>1 DEF OthersStay
    <3>2. CASE u # t
      <4>1. pc[u] = "track" /\ fd'[u] = fd[u] /\ path'[u] = path[u] /\ fd[u] \in Fds
        BY <2>1, <3>2 DEF OthersStay, TypeOK, Idle
      <4> QED
        BY <1>1, <1>2, <3>2, <4>1 DEF Correct, Discipline, OthersStay
    <3> QED
      BY <3>1, <3>2
  <2>2. \A g \in Fds : file'[g] # NoFile /\ how'[g] = "hooked" => ~PendingUntrack(g)'
    BY <1>1, <1>3 DEF Correct, Discipline
  <2> QED
    BY <2>1, <2>2 DEF Discipline
<1>6. StaleOnlyWhileClosing'
  BY <1>1, <1>3, RawFacts DEF Correct, StaleOnlyWhileClosing, Tracked
<1>7. HookedOpensTracked'
  <2> SUFFICES ASSUME NEW g \in Tracked, Returned(g)', how'[g] = "hooked", g \notin leftover'
               PROVE  Treatment(fdmap'[g]) = Deserved(file'[g])
    BY DEF HookedOpensTracked, Tracked
  <2>1. CASE g # f
    BY <1>1, <1>4, <2>1 DEF Correct, HookedOpensTracked, Returned, Tracked
  <2>2. CASE g = f
    <3>1. pc'[t] # "track"
      BY <2>2 DEF Returned, PendingTrack
    <3>2. Deserved(k) = "raw" /\ ~PendingUntrack(f)
      BY <1>1, <2>2, <3>1
    <3>3. Treatment(fdmap[f]) = "raw"
      BY <1>1, <2>2, <3>2, RawFacts DEF Correct, StaleOnlyWhileClosing
    <3> QED
      BY <1>1, <2>2, <3>2, <3>3
  <2> QED
    BY <2>1, <2>2
<1> QED
  BY <1>5, <1>6, <1>7 DEF Correct

(* A descriptor that was returned to the process is freed or replaced; its   *)
(* record, if any, is left to a pending close() or counted in leftover.      *)
LEMMA FreeStep ==
  ASSUME TypeOK, Correct, NEW t \in Threads, OthersStay(t),
         NEW f \in Fds, ~PendingTrack(f), NEW k,
         file' = [file EXCEPT ![f] = k], how' = [how EXCEPT ![f] = "unhooked"],
         pc[t] \notin {"track", "untrack"}, pc'[t] # "track",
         pc'[t] = "untrack" => fd'[t] = f,
         leftover \subseteq leftover', leftover' \subseteq leftover \cup {f},
         pc'[t] = "untrack" \/ MapGet(f) = NoRecord \/ f \in leftover',
         UNCHANGED fdmap
  PROVE  Correct'
<1>1. /\ how'[f] = "unhooked"
      /\ \A g \in Fds \ {f} : file'[g] = file[g] /\ how'[g] = how[g]
  BY DEF TypeOK
<1>2. \A g \in Fds \ {f} : /\ PendingTrack(g)' <=> PendingTrack(g)
                           /\ PendingUntrack(g)' <=> PendingUntrack(g)
  BY DEF OthersStay, PendingTrack, PendingUntrack
<1>3. \A u \in Threads : pc'[u] = "track" =>
        /\ pc[u] = "track" /\ fd'[u] = fd[u] /\ path'[u] = path[u]
        /\ fd[u] \in Fds \ {f}
  BY DEF OthersStay, TypeOK, Idle, PendingTrack
<1>4. Discipline'
  <2>1. ASSUME NEW u \in Threads, pc'[u] = "track"
        PROVE  /\ file'[fd'[u]] # NoFile
               /\ Treatment(Classify(path'[u])) = Deserved(file'[fd'[u]])
               /\ \A v \in Threads : pc'[v] = "track" /\ fd'[v] = fd'[u] => v = u
    BY <1>1, <1>3, <2>1 DEF Correct, Discipline
  <2>2. \A g \in Fds : file'[g] # NoFile /\ how'[g] = "hooked" => ~PendingUntrack(g)'
    BY <1>1, <1>2 DEF Correct, Discipline
  <2> QED
    BY <2>1, <2>2 DEF Discipline
<1>5. StaleOnlyWhileClosing'
  <2> SUFFICES ASSUME NEW g \in Tracked,
                      Treatment(fdmap'[g]) \notin {"raw", Deserved(file'[g])}
               PROVE  PendingUntrack(g)' \/ g \in leftover'
    BY DEF StaleOnlyWhileClosing, Tracked
  <2>1. CASE g # f
    BY <1>1, <1>2, <2>1 DEF Correct, StaleOnlyWhileClosing, Tracked
  <2>2. CASE g = f
    BY <2>2, RawFacts DEF MapGet, PendingUntrack
  <2> QED
    BY <2>1, <2>2
<1>6. HookedOpensTracked'
  BY <1>1, <1>2 DEF Correct, HookedOpensTracked, Returned, Tracked
<1> QED
  BY <1>4, <1>5, <1>6 DEF Correct

(* nvfix_fd_map_set: the number becomes usable with the record of its file.  *)
LEMMA TrackStep ==
  ASSUME TypeOK, Correct, NEW t \in Threads, Track(t)
  PROVE  Correct'
<1> DEFINE f == fd[t]
<1> USE DEF Track, Return, Goto
<1>1. /\ OthersStay(t) /\ pc[t] = "track" /\ pc'[t] = "idle"
      /\ f \in Fds
      /\ leftover' = leftover \ {f}
      /\ \A g \in Tracked \ {f} : fdmap'[g] = fdmap[g]
      /\ f \in Tracked => fdmap'[f] = Classify(path[t])
      /\ file' = file /\ how' = how
  BY DEF OthersStay, TypeOK, Idle, MapSet, kernelVars
<1>2. \A g \in Fds : PendingUntrack(g)' <=> PendingUntrack(g)
  BY <1>1 DEF OthersStay, PendingUntrack
<1>3. \A g \in Fds \ {f} : PendingTrack(g)' <=> PendingTrack(g)
  BY <1>1 DEF OthersStay, PendingTrack
<1>4. Treatment(Classify(path[t])) = Deserved(file[f])
  BY <1>1 DEF Correct, Discipline
<1>5. Discipline'
  BY <1>1, <1>2 DEF Correct, Discipline, OthersStay
<1>6. StaleOnlyWhileClosing'
  BY <1>1, <1>2, <1>4 DEF Correct, StaleOnlyWhileClosing, Tracked
<1>7. HookedOpensTracked'
  BY <1>1, <1>3, <1>4 DEF Correct, HookedOpensTracked, Returned, Tracked
<1> QED
  BY <1>5, <1>6, <1>7 DEF Correct

(* nvfix_fd_map_remove: by Discipline the number is free, or was handed out  *)
(* while this close() was pending, so that no promise is made about it.      *)
LEMMA UntrackStep ==
  ASSUME TypeOK, Correct, NEW t \in Threads, Untrack(t)
  PROVE  Correct'
<1> DEFINE f == fd[t]
<1> USE DEF Untrack, Return, Goto
<1>1. /\ OthersStay(t) /\ pc[t] = "untrack" /\ pc'[t] = "idle"
      /\ f \in Fds
      /\ leftover' = leftover \ {f}
      /\ \A g \in Tracked \ {f} : fdmap'[g] = fdmap[g]
      /\ f \in Tracked => fdmap'[f] = NoRecord
      /\ file' = file /\ how' = how
  BY DEF OthersStay, TypeOK, Idle, MapRemove, kernelVars
<1>2. /\ PendingUntrack(f)
      /\ \A g \in Fds : PendingUntrack(g)' => PendingUntrack(g)
      /\ \A g \in Fds \ {f} : PendingUntrack(g)' <=> PendingUntrack(g)
  BY <1>1 DEF OthersStay, PendingUntrack
<1>3. \A g \in Fds : PendingTrack(g)' <=> PendingTrack(g)
  BY <1>1 DEF OthersStay, PendingTrack
<1>4. Discipline'
  BY <1>1, <1>2 DEF Correct, Discipline, OthersStay
<1>5. StaleOnlyWhileClosing'
  BY <1>1, <1>2, RawFacts DEF Correct, StaleOnlyWhileClosing, Tracked
<1>6. HookedOpensTracked'
  <2>1. file[f] # NoFile => how[f] # "hooked"
    BY <1>1, <1>2 DEF Correct, Discipline
  <2> QED
    BY <1>1, <1>3, <2>1 DEF Correct, HookedOpensTracked, Returned, Tracked
<1> QED
  BY <1>4, <1>5, <1>6 DEF Correct

-----------------------------------------------------------------------------
(* Every step of a thread, by the lemma for its kind. *)

LEMMA ThreadKeepsCorrect ==
  ASSUME TypeOK, TypeOK', Correct, NEW t \in Threads, ThreadStep(t)
  PROVE  Correct'
<1> USE DEF kernelVars, threadVars, Idle
<1>1. CASE Constructor(t)
  BY <1>1, ReadStep DEF Constructor, OthersStay
<1>2. ASSUME NEW p \in Paths, OpenDenied(t, p)
      PROVE  Correct'
  BY <1>2, ReadStep DEF OpenDenied, OthersStay
<1>3. ASSUME NEW p \in Paths, NEW k \in Named(p), OpenReal(t, p, k)
      PROVE  Correct'
  <2>1. p \in PathClasses
    BY FdTrackingAssumption
  <2>2. PICK f \in Fds :
          /\ Allocate(f, p, k)
          /\ IF Classify(p) = NoRecord
               THEN UNCHANGED threadVars
               ELSE Goto(t, "track", f, p)
    BY <1>3 DEF OpenReal
  <2>3. pc[t] = "idle" /\ UNCHANGED <<fdmap, leftover>>
    BY <1>3 DEF OpenReal
  <2>4. CASE Classify(p) = NoRecord
    <3>1. OthersStay(t) /\ pc'[t] = "idle"
      BY <2>2, <2>3, <2>4 DEF OthersStay
    <3>2. Deserved(k) = "raw" \/ p = "alias"
      BY <2>1, <2>4, ClassifyFile
    <3> QED
      BY <2>1, <2>2, <2>3, <3>1, <3>2, ClassifyFile, OpenStep
  <2>5. CASE Classify(p) # NoRecord
    <3>1. OthersStay(t) /\ pc'[t] = "track" /\ fd'[t] = f /\ path'[t] = p
      BY <2>2, <2>5 DEF OthersStay, Goto, TypeOK
    <3>2. Treatment(Classify(p)) = Deserved(k)
      BY <2>1, <2>5, ClassifyFile
    <3> QED
      BY <2>1, <2>2, <2>3, <3>1, <3>2, ClassifyFile, OpenStep
  <2> QED
    BY <2>4, <2>5
<1>4. CASE Track(t)
  BY <1>4, TrackStep
<1>5. ASSUME NEW d \in Fds, NEW p \in Paths \cap RelativeNames, OpenatLookup(t, d, p)
      PROVE  Correct'
  BY <1>5, ReadStep DEF OpenatLookup, OthersStay, Goto, TypeOK
<1>6. CASE OpenatReal(t)
  <2> DEFINE targets == Resolve(fd[t], path[t])
  <2>1. path[t] \in RelativeNames /\ pc[t] \in {"openat", "openat_below"}
    BY <1>6 DEF OpenatReal, TypeOK
  <2>2. UNCHANGED <<fdmap, leftover>>
    BY <1>6 DEF OpenatReal
  <2>3. CASE /\ targets = {} \/ \A f \in Fds : file[f] # NoFile
             /\ Return(t)
             /\ UNCHANGED kernelVars
    BY <2>1, <2>2, <2>3, ReadStep DEF OthersStay, Return, Goto, TypeOK
  <2>4. ASSUME NEW f \in Fds, NEW k \in targets, Allocate(f, path[t], k),
               IF pc[t] = "openat_below" /\ Classify(path[t]) # NoRecord
                 THEN Goto(t, "track", f, path[t])
                 ELSE Return(t)
        PROVE  Correct'
    <3>1. /\ k # NoFile
          /\ path[t] # "alias" => Deserved(k) = "raw"
          /\ path[t] = "alias" => Classify(path[t]) = NoRecord
          /\ Treatment(Classify(path[t])) = "raw"
      BY <2>1, <2>4, ResolveFile
    <3>2. /\ OthersStay(t) /\ pc'[t] # "untrack"
          /\ pc'[t] = "track" => /\ fd'[t] = f /\ path'[t] = path[t]
                                /\ Classify(path[t]) # NoRecord
      BY <2>4 DEF OthersStay, Return, Goto, TypeOK
    <3>3. pc'[t] = "track" => Treatment(Classify(path'[t])) = Deserved(k)
      BY <3>1, <3>2
    <3> HIDE DEF targets
    <3> QED
      BY <2>1, <2>2, <2>4, <3>1, <3>2, <3>3, OpenStep
  <2> QED
    BY <1>6, <2>3, <2>4 DEF OpenatReal
<1>7. ASSUME NEW f \in Fds, CloseReal(t, f)
      PROVE  Correct'
  <2>1. /\ file' = [file EXCEPT ![f] = NoFile]
        /\ how' = [how EXCEPT ![f] = "unhooked"]
        /\ UNCHANGED <<fdmap, leftover>>
        /\ ~PendingTrack(f) /\ pc[t] = "idle"
    BY <1>7 DEF CloseReal, Returned, Idle
  <2>2. OthersStay(t) /\ pc'[t] = "untrack" /\ fd'[t] = f
    BY <1>7 DEF CloseReal, OthersStay, Goto, TypeOK
  <2>3. leftover \subseteq leftover' /\ leftover' \subseteq leftover \cup {f}
    BY <2>1
  <2> QED
    BY <2>1, <2>2, <2>3, FreeStep
<1>8. ASSUME NEW f \in Fds, CallReal(t, f)
      PROVE  Correct'
  BY <1>8, ReadStep DEF CallReal, OthersStay, Goto, TypeOK
<1>9. ASSUME NEW f \in Fds, FreeUnseen(t, f)
      PROVE  Correct'
  BY <1>9, FreeStep DEF FreeUnseen, Returned, Abandon, OthersStay
<1>10. CASE Untrack(t)
  BY <1>10, UntrackStep
<1>11. CASE Decide(t)
  BY <1>11, ReadStep DEF Decide, OthersStay, Return, Goto, TypeOK
<1>12. ASSUME NEW old \in Fds, NEW new \in Fds, Dup2(t, old, new)
       PROVE  Correct'
  BY <1>12, FreeStep DEF Dup2, Abandon, OthersStay
<1> QED
  BY <1>1, <1>2, <1>3, <1>4, <1>5, <1>6, <1>7, <1>8, <1>9, <1>10, <1>11, <1>12
     DEF ThreadStep, Opendir, CloseFails, Closedir

-----------------------------------------------------------------------------
(* The theorems. *)

(* The variables of the descriptor bookkeeping keep their types.             *)
THEOREM TypeCorrect == Spec => []TypeOK
<1>1. Init => TypeOK
  BY InitTyped
<1> QED
  BY <1>1, TypeStep, PTL DEF Spec

(* Whatever the interleaving of opens, closes and calls that bypass the      *)
(* shim: no record outlives the close() of its descriptor, and a descriptor  *)
(* opened while no close() of its number is pending has the right record.    *)
THEOREM TrackingCorrect == Spec => []TrackingInv
<1>1. Init => TrackingInv
  <2>1. Init => TypeOK
    BY InitTyped
  <2>2. Init => Discipline
    BY DEF Init, Discipline
  <2>3. Init => StaleOnlyWhileClosing
    BY RawFacts DEF Init, StaleOnlyWhileClosing
  <2>4. Init => HookedOpensTracked
    BY DEF Init, HookedOpensTracked, Tracked
  <2> QED
    BY <2>1, <2>2, <2>3, <2>4 DEF TrackingInv
<1>2. TrackingInv /\ [Next]_vars => TrackingInv'
  <2> SUFFICES ASSUME TrackingInv, [Next]_vars
               PROVE  TrackingInv'
    OBVIOUS
  <2>1. TypeOK /\ TypeOK' /\ Correct
    BY TypeStep DEF TrackingInv, Correct
  <2>2. CASE Next
    <3>1. Correct'
      BY <2>1, <2>2, ThreadKeepsCorrect DEF Next
    <3> QED
      BY <2>1, <3>1 DEF TrackingInv, Correct
  <2>3. CASE UNCHANGED vars
    BY <2>3 DEF vars, TrackingInv, TypeOK, Idle, Discipline, StaleOnlyWhileClosing,
       HookedOpensTracked, Returned, PendingTrack, PendingUntrack
  <2> QED
    BY <2>2, <2>3
<1> QED
  BY <1>1, <1>2, PTL DEF Spec

(* A hooked open about to record a descriptor is alone with its number and   *)
(* stores what the file deserves, and no close() of an open descriptor is    *)
(* still to remove its record.                                               *)
THEOREM OpensUndisturbed == Spec => []Discipline
<1>1. TrackingInv => Discipline
  BY DEF TrackingInv
<1> QED
  BY <1>1, TrackingCorrect, PTL

(* No answer is filtered because of what a closed descriptor once was.       *)
THEOREM NoStaleRecords == Spec => []StaleOnlyWhileClosing
<1>1. TrackingInv => StaleOnlyWhileClosing
  BY DEF TrackingInv
<1> QED
  BY <1>1, TrackingCorrect, PTL

(* A descriptor opened without a pending close() of its number is tracked.   *)
THEOREM OpensAreTracked == Spec => []HookedOpensTracked
<1>1. TrackingInv => HookedOpensTracked
  BY DEF TrackingInv
<1> QED
  BY <1>1, TrackingCorrect, PTL

(* The treatment of an answer, decided after the call by the record of a     *)
(* number, fits the file the answer came from, unless the number changed     *)
(* hands in between or is being closed.                                      *)
THEOREM AnswersTreatedByFile == Spec => AnswersFit
<1>1. ASSUME TrackingInv, NEW t \in Threads
      PROVE  AnswerFits(t)
  <2> DEFINE f == fd[t]
  <2> SUFFICES ASSUME Decide(t), ready, f \in Tracked, f \notin leftover,
                      file[f] = path[t], ~PendingUntrack(f)
               PROVE  \/ outcome'.treat = Deserved(path[t])
                      \/ outcome'.treat = "raw" /\ (how[f] # "hooked" \/ PendingTrack(f))
    BY DEF AnswerFits
  <2>1. outcome'.treat = Treatment(fdmap[f])
    BY DEF Decide, MapGet
  <2>2. Treatment(fdmap[f]) \in {"raw", Deserved(path[t])}
    BY <1>1 DEF TrackingInv, StaleOnlyWhileClosing
  <2>3. path[t] # NoFile
    BY <1>1 DEF TrackingInv, TypeOK, Decide, Files, NoFile
  <2>4. how[f] = "hooked" /\ ~PendingTrack(f) => Treatment(fdmap[f]) = Deserved(path[t])
    BY <1>1, <2>3 DEF TrackingInv, HookedOpensTracked, Returned
  <2> QED
    BY <2>1, <2>2, <2>4
<1>2. TrackingInv /\ [Next]_vars => [\A t \in Threads : AnswerFits(t)]_vars
  BY <1>1
<1> QED
  BY <1>2, TrackingCorrect, PTL DEF Spec, AnswersFit

-----------------------------------------------------------------------------
(* Refinement: when one thread uses interposed calls and known names only,   *)
(* and inherited nothing the shim would have to filter, the table implements *)
(* treatment by file.                                                        *)

SoleUser ==
  /\ \A t, u \in Threads : t = u
  /\ Unseen = {}
  /\ "alias" \notin Paths
  /\ \A k \in Inherited : Deserved(k) = "raw"

(* What the thread knows between the steps of a call.  The lookup of openat  *)
(* is still the table's answer when the kernel resolves the name, a file     *)
(* that was refused cannot become one that is opened, and the record decides *)
(* about the file that the call was served from.                             *)
CallInv(t) ==
  /\ pc[t] = "untrack" => file[fd[t]] = NoFile
  /\ pc[t] \in {"openat", "openat_below"} => path[t] \in Paths
  /\ pc[t] \in {"openat", "openat_below"} =>
       (pc[t] = "openat_below" <=> MapGet(fd[t]) = "PROC_GPUS_DIR")
  /\ pc[t] = "openat_below" => ~Denied(path[t])
  /\ pc[t] = "decide" => file[fd[t]] = path[t]

(* Only a descriptor the process inherited came to its number without a      *)
(* hooked call.                                                              *)
SoleInv ==
  /\ leftover = {}
  /\ \A f \in Fds :
       how[f] = "hooked" \/ (how[f] = "unhooked" /\ Deserved(file[f]) = "raw")
  /\ \A t \in Threads : CallInv(t)

(* Between calls, and while openat resolves a name, the table tells the file *)
(* behind every number it has a slot for.                                    *)
LEMMA RecordTells ==
  ASSUME SoleUser, TypeOK, Correct, SoleInv, NEW t \in Threads,
         pc[t] \notin {"track", "untrack"}, NEW f \in Tracked
  PROVE  Treatment(fdmap[f]) = Deserved(file[f])
<1>1. f \in Fds /\ leftover = {}
  BY DEF Tracked, SoleInv
<1>2. ~PendingTrack(f) /\ ~PendingUntrack(f)
  BY DEF SoleUser, PendingTrack, PendingUntrack
<1>3. Treatment(fdmap[f]) \in {"raw", Deserved(file[f])}
  BY <1>1, <1>2 DEF Correct, StaleOnlyWhileClosing
<1>4. CASE file[f] # NoFile /\ how[f] = "hooked"
  BY <1>1, <1>2, <1>4 DEF Correct, HookedOpensTracked, Returned
<1>5. CASE Deserved(file[f]) = "raw"
  BY <1>3, <1>5
<1> QED
  BY <1>1, <1>4, <1>5, RawFacts DEF SoleInv

LEMMA LookupTells ==
  ASSUME SoleUser, TypeOK, Correct, SoleInv, NEW t \in Threads,
         pc[t] \notin {"track", "untrack"}, NEW f \in Fds
  PROVE  MapGet(f) = "PROC_GPUS_DIR" <=> f \in Tracked /\ file[f] = "gpus"
<1>1. CASE f \in Tracked
  <2>1. Treatment(fdmap[f]) = Deserved(file[f])
    BY <1>1, RecordTells
  <2> QED
    BY <1>1, <2>1 DEF MapGet, Treatment, Deserved
<1> QED
  BY <1>1 DEF MapGet, NoRecord

(* A number the sole thread opens a known name on counts as hooked.          *)
LEMMA SoleAllocate ==
  ASSUME SoleUser, TypeOK, SoleInv, NEW t \in Threads, pc[t] # "untrack",
         NEW f \in Fds, NEW p, p # "alias", NEW k, Allocate(f, p, k)
  PROVE  \A g \in Fds : how'[g] = "hooked" \/ (how'[g] = "unhooked" /\ Deserved(file'[g]) = "raw")
<1>1. ~PendingUntrack(f)
  BY DEF SoleUser, PendingUntrack
<1>2. how' = [how EXCEPT ![f] = "hooked"] /\ file' = [file EXCEPT ![f] = k]
  BY <1>1 DEF Allocate
<1> QED
  BY <1>2 DEF SoleInv, TypeOK

(* The steps of the sole thread keep what it knows.                          *)
LEMMA SoleStep ==
  ASSUME SoleUser, TypeOK, TypeOK', Correct, SoleInv, [Next]_vars
  PROVE  SoleInv'
<1> USE DEF kernelVars, threadVars, Idle
<1> SUFFICES ASSUME NEW t \in Threads, ThreadStep(t)
             PROVE  SoleInv'
  <2>1. CASE UNCHANGED vars
    BY <2>1 DEF vars, SoleInv, CallInv, MapGet, Denied
  <2> QED
    BY <2>1 DEF Next
<1>1. leftover = {} /\ CallInv(t)
  BY DEF SoleInv
<1>2. ASSUME leftover' = {}, CallInv(t)',
             \A f \in Fds : how'[f] = "hooked" \/ (how'[f] = "unhooked" /\ Deserved(file'[f]) = "raw")
      PROVE  SoleInv'
  BY <1>2 DEF SoleInv, SoleUser
<1>3. ASSUME UNCHANGED <<file, how>>, leftover' = {}, CallInv(t)'
      PROVE  SoleInv'
  BY <1>2, <1>3 DEF SoleInv
<1>4. ASSUME pc'[t] \in {"idle", "track"}
      PROVE  CallInv(t)'
  BY <1>4 DEF CallInv
<1>5. CASE Constructor(t)
  BY <1>1, <1>3, <1>4, <1>5 DEF Constructor
<1>6. ASSUME NEW p \in Paths, OpenDenied(t, p)
      PROVE  SoleInv'
  BY <1>1, <1>3, <1>4, <1>6 DEF OpenDenied
<1>7. ASSUME NEW p \in Paths, NEW k \in Named(p), OpenReal(t, p, k)
      PROVE  SoleInv'
  <2>1. PICK f \in Fds : Allocate(f, p, k)
    BY <1>7 DEF OpenReal
  <2>2. pc[t] = "idle" /\ pc'[t] \in {"idle", "track"} /\ leftover' = leftover
    BY <1>7 DEF OpenReal, Goto, TypeOK
  <2>3. p # "alias"
    BY DEF SoleUser
  <2> QED
    BY <1>1, <1>2, <1>4, <2>1, <2>2, <2>3, SoleAllocate
<1>8. CASE Track(t)
  BY <1>1, <1>3, <1>4, <1>8 DEF Track, Return, Goto, TypeOK
<1>9. ASSUME NEW d \in Fds, NEW p \in Paths \cap RelativeNames, OpenatLookup(t, d, p)
      PROVE  SoleInv'
  <2>1. UNCHANGED <<ready, file, how, fdmap, leftover>>
    BY <1>9 DEF OpenatLookup
  <2>2. CASE UNCHANGED threadVars
    BY <1>1, <1>3, <1>4, <1>9, <2>1, <2>2 DEF OpenatLookup
  <2>3. CASE Goto(t, IF MapGet(d) = "PROC_GPUS_DIR" THEN "openat_below" ELSE "openat", d, p)
    <3>1. fd'[t] = d /\ path'[t] = p
          /\ pc'[t] = IF MapGet(d) = "PROC_GPUS_DIR" THEN "openat_below" ELSE "openat"
      BY <2>3 DEF Goto, TypeOK
    <3>2. pc'[t] = "openat_below" => ~Denied(p)
      BY <1>9, <3>1 DEF OpenatLookup
    <3> QED
      BY <1>1, <1>3, <2>1, <3>1, <3>2 DEF CallInv, MapGet, Denied
  <2> QED
    BY <1>9, <2>2, <2>3 DEF OpenatLookup
<1>10. CASE OpenatReal(t)
  <2>1. pc[t] \in {"openat", "openat_below"} /\ pc'[t] \in {"idle", "track"} /\ leftover' = leftover
    BY <1>10 DEF OpenatReal, Return, Goto, TypeOK
  <2>2. path[t] # "alias"
    BY <1>1, <2>1 DEF CallInv, SoleUser
  <2>3. CASE UNCHANGED <<file, how>>
    BY <1>1, <1>3, <1>4, <2>1, <2>3
  <2>4. ASSUME NEW f \in Fds, NEW k, Allocate(f, path[t], k)
        PROVE  SoleInv'
    BY <1>1, <1>2, <1>4, <2>1, <2>2, <2>4, SoleAllocate
  <2> QED
    BY <1>10, <2>3, <2>4 DEF OpenatReal
<1>11. ASSUME NEW f \in Fds, CloseReal(t, f)
       PROVE  SoleInv'
  <2>1. /\ pc'[t] = "untrack" /\ fd'[t] = f /\ file' = [file EXCEPT ![f] = NoFile]
        /\ how' = [how EXCEPT ![f] = "unhooked"] /\ leftover' = leftover
    BY <1>11 DEF CloseReal, Goto, TypeOK
  <2>2. CallInv(t)'
    BY <2>1 DEF CallInv, TypeOK
  <2> QED
    BY <1>1, <1>2, <2>1, <2>2, RawFacts DEF SoleInv, TypeOK
<1>12. CASE Untrack(t)
  BY <1>1, <1>3, <1>4, <1>12 DEF Untrack, Return, Goto, TypeOK
<1>13. ASSUME NEW f \in Fds, CallReal(t, f)
       PROVE  SoleInv'
  <2>1. pc'[t] = "decide" /\ fd'[t] = f /\ path'[t] = file[f] /\ UNCHANGED <<file, how, leftover>>
    BY <1>13 DEF CallReal, Goto, TypeOK
  <2> QED
    BY <1>1, <1>3, <2>1 DEF CallInv
<1>14. CASE Decide(t)
  BY <1>1, <1>3, <1>4, <1>14 DEF Decide, Return, Goto, TypeOK
<1> QED
  BY <1>5, <1>6, <1>7, <1>8, <1>9, <1>10, <1>11, <1>12, <1>13, <1>14
     DEF ThreadStep, Opendir, CloseFails, Closedir, Dup2, SoleUser

(* A file that gets a number the kernel had free.                            *)
LEMMA GiveRefines ==
  ASSUME TypeOK, NEW f \in Fds, NEW p, NEW k, Allocate(f, p, k),
         outcome' = [file |-> k, treat |-> "opened"], UNCHANGED ready
  PROVE  View!Give(k)
  BY DEF Allocate, LowestFree, NoFile, View!Give, View!NoFile

(* Each step of the sole thread is one of the view, or decides nothing.      *)
LEMMA ViewStep ==
  ASSUME SoleUser, TypeOK, Correct, SoleInv, NEW t \in Threads, ThreadStep(t)
  PROVE  View!Next
<1> USE DEF Idle, NoFile, View!NoFile
<1>1. CallInv(t) /\ "alias" \notin Paths
  BY DEF SoleInv, SoleUser
<1>2. ASSUME Silent, UNCHANGED <<ready, file>>
      PROVE  View!Next
  BY <1>2 DEF Silent, NoOutcome, View!Next, View!Work, View!Quiet
<1>3. CASE Constructor(t)
  BY <1>3 DEF Constructor, kernelVars, Silent, NoOutcome, View!Next, View!Load, View!Quiet
<1>4. ASSUME NEW p \in Paths, OpenDenied(t, p)
      PROVE  View!Next
  <2>1. View!Open(p)
    BY <1>4 DEF OpenDenied, Denied, kernelVars, View!Open, View!Refuse
  <2> QED
    BY <2>1 DEF View!Next
<1>5. ASSUME NEW p \in Paths, NEW k \in Named(p), OpenReal(t, p, k)
      PROVE  View!Next
  <2>1. k = p
    BY <1>1 DEF Named
  <2>2. View!Give(p)
    BY <1>5, <2>1, GiveRefines DEF OpenReal
  <2>3. View!Open(p)
    BY <1>5, <2>2 DEF OpenReal, Denied, View!Open
  <2> QED
    BY <2>3 DEF View!Next
<1>6. CASE Track(t) \/ Untrack(t)
  BY <1>2, <1>6 DEF Track, Untrack, kernelVars
<1>7. ASSUME NEW d \in Fds, NEW p \in Paths \cap RelativeNames, OpenatLookup(t, d, p)
      PROVE  View!Next
  <2>1. CASE MapGet(d) = "PROC_GPUS_DIR" /\ Denied(p)
    <3>1. pc[t] = "idle" /\ outcome' = [file |-> p, treat |-> "denied"] /\ UNCHANGED <<ready, file>>
      BY <1>7, <2>1 DEF OpenatLookup, kernelVars
    <3>2. d \in Tracked /\ file[d] = "gpus"
      BY <2>1, <3>1, LookupTells
    <3>3. View!Openat(d, p)
      BY <2>1, <3>1, <3>2 DEF Denied, Tracked, View!Openat, View!Covered, View!Refuse
    <3> QED
      BY <3>3 DEF View!Next
  <2>2. CASE ~(MapGet(d) = "PROC_GPUS_DIR" /\ Denied(p))
    BY <1>2, <1>7, <2>2 DEF OpenatLookup, kernelVars
  <2> QED
    BY <2>1, <2>2
<1>8. CASE OpenatReal(t)
  <2> DEFINE d == fd[t]
             p == path[t]
             targets == Resolve(d, p)
  <2>1. /\ pc[t] \in {"openat", "openat_below"} /\ d \in Fds /\ p \in Paths
        /\ p # "alias" /\ UNCHANGED ready
    BY <1>1, <1>8 DEF OpenatReal, CallInv, TypeOK
  <2>2. CASE Silent /\ UNCHANGED kernelVars
    BY <1>2, <2>1, <2>2 DEF kernelVars
  <2>3. ASSUME NEW f \in Fds, NEW k \in targets, Allocate(f, p, k),
               outcome' = [file |-> k, treat |-> "opened"]
        PROVE  View!Next
    <3>1. View!Give(k)
      BY <2>1, <2>3, GiveRefines
    <3>2. CASE file[d] = "gpus"
      <4>1. k = p
        BY <2>1, <3>2 DEF Resolve, Named
      <4>2. ~(View!Covered(d) /\ p = "foreign_info")
        <5>1. MapGet(d) = "PROC_GPUS_DIR" <=> d \in Tracked
          BY <2>1, <3>2, LookupTells
        <5> QED
          BY <1>1, <2>1, <5>1 DEF CallInv, Denied, Tracked, View!Covered
      <4>3. View!Openat(d, p)
        BY <3>1, <3>2, <4>1, <4>2 DEF View!Openat
      <4> QED
        BY <2>1, <4>3 DEF View!Next
    <3>3. CASE file[d] # "gpus"
      <4>1. file[d] = "elsewhere" /\ k = "elsewhere"
        BY <2>1, <2>3, <3>3 DEF Resolve
      <4>2. View!Openat(d, p)
        BY <3>1, <4>1 DEF View!Openat
      <4> QED
        BY <2>1, <4>2 DEF View!Next
    <3> QED
      BY <3>2, <3>3
  <2> QED
    BY <1>8, <2>2, <2>3 DEF OpenatReal
<1>9. ASSUME NEW f \in Fds, CloseReal(t, f)
      PROVE  View!Next
  <2>1. View!Close(f)
    BY <1>9 DEF CloseReal, Returned, Silent, NoOutcome, View!Close, View!Quiet
  <2> QED
    BY <2>1 DEF View!Next
<1>10. ASSUME NEW f \in Fds, CallReal(t, f)
       PROVE  View!Next
  BY <1>2, <1>10 DEF CallReal, kernelVars
<1>11. CASE Decide(t)
  <2> DEFINE f == fd[t]
  <2>1. /\ pc[t] = "decide" /\ f \in Fds /\ file[f] = path[t] /\ path[t] # NoFile
        /\ UNCHANGED <<ready, file>>
        /\ outcome' = [file |-> file[f], treat |-> IF ready THEN Treatment(MapGet(f)) ELSE "raw"]
    BY <1>1, <1>11 DEF Decide, CallInv, TypeOK, Files, kernelVars
  <2>2. CASE f \in Tracked
    <3>1. Treatment(MapGet(f)) = Deserved(file[f])
      BY <2>1, <2>2, RecordTells DEF MapGet
    <3>2. View!Covered(f) <=> ready
      BY <2>2 DEF Tracked, View!Covered
    <3>3. Deserved(file[f]) = View!Deserved(file[f])
      BY DEF Deserved, View!Deserved
    <3>4. View!Answer(f)
      BY <2>1, <3>1, <3>2, <3>3 DEF View!Answer
    <3> QED
      BY <2>1, <3>4 DEF View!Next
  <2>3. CASE f \notin Tracked
    <3>1. Treatment(MapGet(f)) = "raw"
      BY <2>3, RawFacts DEF MapGet
    <3>2. ~View!Covered(f)
      BY <2>1, <2>3 DEF Tracked, View!Covered
    <3>3. View!Answer(f)
      BY <2>1, <3>1, <3>2 DEF View!Answer
    <3> QED
      BY <2>1, <3>3 DEF View!Next
  <2> QED
    BY <2>2, <2>3
<1> QED
  BY <1>3, <1>4, <1>5, <1>6, <1>7, <1>8, <1>9, <1>10, <1>11
     DEF ThreadStep, Opendir, CloseFails, Closedir, Dup2, SoleUser

(* For a program with one thread, known names and interposed calls, any      *)
(* number of descriptors and any table: each answer is treated as the file   *)
(* behind its descriptor deserves, and no step between the kernel's table    *)
(* and the shim's can be noticed.                                            *)
THEOREM TableIsView == SoleUser => (Spec => ImplementsView)
<1> SUFFICES ASSUME SoleUser
             PROVE  Spec => ImplementsView
  OBVIOUS
<1>1. Init => SoleInv
  BY RawFacts DEF Init, SoleInv, CallInv, SoleUser
<1>2. TrackingInv /\ TrackingInv' /\ SoleInv /\ [Next]_vars => SoleInv'
  BY SoleStep DEF TrackingInv, Correct
<1>3. Init => View!Init
  BY DEF Init, NoFile, NoOutcome, View!Init, View!NoFile, View!Quiet
<1>4. TrackingInv /\ SoleInv /\ [Next]_vars => [View!Next]_View!view
  <2>1. ASSUME UNCHANGED vars
        PROVE  UNCHANGED View!view
    BY <2>1 DEF vars, kernelVars, View!view
  <2> QED
    BY <2>1, ViewStep DEF Next, TrackingInv, Correct
<1> QED
  BY <1>1, <1>2, <1>3, <1>4, TrackingCorrect, PTL DEF Spec, ImplementsView, View!Spec
=============================================================================
