--------------------------- MODULE MapLockProofs ---------------------------
(***************************************************************************)
(* Theorems about MapLock: for any number of threads, of records and of    *)
(* handlers that interrupt each other, and a fork at any moment.           *)
(***************************************************************************)
EXTENDS MapLock, TLAPS

Frames == Procs \X Threads \X Levels

(* Between lock and unlock, in a thread that exists.                         *)
Inside(p, t, l) == t \in threads[p] /\ frame[<<p, t, l>>].step \in {"first", "second", "out"}

(* How far call f has brought entry e from its last completed value c.       *)
Consistent(f, e, c) ==
  /\ f.op = "get" \/ f.step = "first" => e = c
  /\ f.op = "get" /\ f.step = "second" => f.copy.occupied = c.occupied
  /\ f.op = "get" /\ f.step = "out" =>
       /\ f.copy.occupied = c.occupied
       /\ f.copy.occupied => f.copy.record = c.record
  /\ f.op = "set" /\ f.step = "second" => e.occupied = TRUE
  /\ f.op = "set" /\ f.step = "out" => e = [occupied |-> TRUE, record |-> f.value]
  /\ f.op = "remove" /\ f.step = "second" => e.occupied = FALSE
  /\ f.op = "remove" /\ f.step = "out" => e = Blank

(* One call at most is inside, its thread is the holder, and the entry is    *)
(* what that call has made of it, or whole when the lock is free. A lock     *)
(* that a fork left to no thread says nothing: no call can be inside.        *)
LockInv ==
  /\ \A p \in Procs, t \in Threads, l \in Levels :
       /\ Inside(p, t, l) => /\ holder[p] = t
                             /\ Consistent(frame[<<p, t, l>>], entry[p], committed[p])
       /\ frame[<<p, t, l>>].op = "remove" => frame[<<p, t, l>>].value = NoRecord
  /\ \A p \in Procs, t \in Threads, l, m \in Levels :
       Inside(p, t, l) /\ Inside(p, t, m) => l = m
  /\ \A p \in Procs : holder[p] = NoThread => entry[p] = committed[p]

Inv == TypeOK /\ LockInv

LEMMA InitInv == Init => Inv
<1> SUFFICES ASSUME Init PROVE Inv
  OBVIOUS
<1>1. NoCall \in Frame /\ Blank \in Entry
  BY DEF NoCall, Frame, Blank, Entry
<1>2. TypeOK
  BY <1>1 DEF Init, TypeOK
<1>3. \A p \in Procs, t \in Threads, l \in Levels : frame[<<p, t, l>>] = NoCall
  BY DEF Init
<1>4. \A p \in Procs, t \in Threads, l \in Levels :
        ~Inside(p, t, l) /\ frame[<<p, t, l>>].op # "remove"
  <2>1. NoCall.step = "none" /\ NoCall.op = "get"
    BY DEF NoCall
  <2> QED
    BY <1>3, <2>1 DEF Inside
<1>5. \A p \in Procs : entry[p] = committed[p]
  BY DEF Init
<1> QED
  BY <1>2, <1>4, <1>5 DEF Inv, LockInv

(* A step inside the section, of the call that is alone in it.               *)
LEMMA SectionStep ==
  ASSUME Inv, NEW p \in Procs, NEW t \in Threads, NEW l \in Levels, NEW f \in Frame,
         Inside(p, t, l),
         UNCHANGED <<threads, holder, committed>>,
         frame' = [frame EXCEPT ![<<p, t, l>>] = f],
         f.op = frame[<<p, t, l>>].op, f.value = frame[<<p, t, l>>].value,
         f.step \in {"first", "second", "out"},
         NEW e \in Entry, entry' = [entry EXCEPT ![p] = e],
         Consistent(f, e, committed[p])
  PROVE  Inv'
<1>1. /\ frame' \in [Frames -> Frame] /\ frame'[<<p, t, l>>] = f
      /\ \A q \in Procs, u \in Threads, k \in Levels :
           q # p \/ u # t \/ k # l => frame'[<<q, u, k>>] = frame[<<q, u, k>>]
  BY DEF Inv, TypeOK, Frames
<1>2. /\ entry' \in [Procs -> Entry] /\ entry'[p] = e
      /\ \A q \in Procs : q # p => entry'[q] = entry[q]
  BY DEF Inv, TypeOK
<1>3. TypeOK'
  BY <1>1, <1>2 DEF Inv, TypeOK, Frames
<1>4. holder[p] = t /\ t # NoThread
  BY LockAssumption DEF Inv, LockInv
<1>5. ASSUME NEW u \in Threads, NEW k \in Levels, Inside(p, u, k)
      PROVE  u = t /\ k = l
  <2>1. u = t
    BY <1>4, <1>5 DEF Inv, LockInv
  <2>2. Inside(p, t, k)
    BY <1>5, <2>1 DEF Inside
  <2> QED
    BY <2>1, <2>2 DEF Inv, LockInv
<1>6. \A q \in Procs, u \in Threads, k \in Levels : Inside(q, u, k)' => Inside(q, u, k)
  BY <1>1 DEF Inside
<1>7. ASSUME NEW q \in Procs, NEW u \in Threads, NEW k \in Levels
      PROVE  /\ Inside(q, u, k)' => /\ holder'[q] = u
                                    /\ Consistent(frame'[<<q, u, k>>], entry'[q], committed'[q])
             /\ frame'[<<q, u, k>>].op = "remove" => frame'[<<q, u, k>>].value = NoRecord
  <2>1. CASE q = p /\ u = t /\ k = l
    BY <1>1, <1>2, <1>4, <2>1 DEF Inv, LockInv
  <2>2. CASE q = p /\ ~(u = t /\ k = l)
    BY <1>1, <1>5, <1>6, <2>2 DEF Inv, LockInv
  <2>3. CASE q # p
    BY <1>1, <1>2, <1>6, <2>3 DEF Inv, LockInv
  <2> QED
    BY <2>1, <2>2, <2>3
<1>8. \A q \in Procs, u \in Threads, k, m \in Levels : Inside(q, u, k)' /\ Inside(q, u, m)' => k = m
  BY <1>6 DEF Inv, LockInv
<1>9. \A q \in Procs : holder'[q] = NoThread => entry'[q] = committed'[q]
  BY <1>2, <1>4 DEF Inv, LockInv
<1> QED
  BY <1>3, <1>7, <1>8, <1>9 DEF Inv, LockInv

(* A step that leaves a call outside of the section.                         *)
LEMMA BeginInv ==
  ASSUME Inv, NEW p \in Procs, NEW t \in Threads, NEW l \in Levels, Begin(p, t, l)
  PROVE  Inv'
<1>1. PICK o \in Calls[l], v \in Records \cup {NoRecord} :
        /\ o = "set" <=> v # NoRecord
        /\ frame' = [frame EXCEPT ![<<p, t, l>>] =
                       [NoCall EXCEPT !.op = o, !.value = v, !.step = "wait"]]
  BY DEF Begin
<1>ops. o \in {"set", "get", "remove"}
  BY LockAssumption DEF Levels
<1> DEFINE f == [NoCall EXCEPT !.op = o, !.value = v, !.step = "wait"]
<1>2. f \in Frame /\ f.step = "wait" /\ f.op = o /\ f.value = v
  BY <1>ops DEF NoCall, Frame, Entry, Blank
<1>call. frame' = [frame EXCEPT ![<<p, t, l>>] = f] /\ TypeOK
  BY <1>1 DEF Inv
<1> HIDE DEF f
<1>3. /\ frame' \in [Frames -> Frame] /\ frame'[<<p, t, l>>] = f
      /\ \A q \in Procs, u \in Threads, k \in Levels :
           q # p \/ u # t \/ k # l => frame'[<<q, u, k>>] = frame[<<q, u, k>>]
  BY <1>2, <1>call DEF TypeOK, Frames
<1>4. UNCHANGED <<threads, holder, entry, committed>>
  BY DEF Begin
<1>5. TypeOK'
  BY <1>3, <1>4 DEF Inv, TypeOK, Frames
<1>6. \A q \in Procs, u \in Threads, k \in Levels :
        Inside(q, u, k)' => Inside(q, u, k) /\ frame'[<<q, u, k>>] = frame[<<q, u, k>>]
  BY <1>2, <1>3, <1>4 DEF Inside
<1>7. \A q \in Procs, u \in Threads, k \in Levels :
        frame'[<<q, u, k>>].op = "remove" => frame'[<<q, u, k>>].value = NoRecord
  BY <1>1, <1>2, <1>3 DEF Inv, LockInv
<1>8. ASSUME NEW q \in Procs, NEW u \in Threads, NEW k \in Levels, NEW m \in Levels,
             Inside(q, u, k)', Inside(q, u, m)'
      PROVE  k = m
  <2>1. Inside(q, u, k) /\ Inside(q, u, m)
    BY <1>6, <1>8
  <2> QED
    BY <2>1 DEF Inv, LockInv
<1>9. \A q \in Procs : holder'[q] = NoThread => entry'[q] = committed'[q]
  BY <1>4 DEF Inv, LockInv
<1>10. \A q \in Procs, u \in Threads, k \in Levels :
         Inside(q, u, k)' => /\ holder'[q] = u
                             /\ Consistent(frame'[<<q, u, k>>], entry'[q], committed'[q])
  BY <1>4, <1>6 DEF Inv, LockInv
<1> QED
  BY <1>5, <1>7, <1>8, <1>9, <1>10 DEF Inv, LockInv

LEMMA AcquireInv ==
  ASSUME Inv, NEW p \in Procs, NEW t \in Threads, NEW l \in Levels, Acquire(p, t, l)
  PROVE  Inv'
<1> DEFINE f == [frame[<<p, t, l>>] EXCEPT !.step = "first"]
<1>0. frame[<<p, t, l>>] \in Frame
  BY DEF Inv, TypeOK
<1>1. f \in Frame /\ f.step = "first" /\ f.op = frame[<<p, t, l>>].op /\ f.value = frame[<<p, t, l>>].value
  BY <1>0 DEF Frame
<1>2. frame' = [frame EXCEPT ![<<p, t, l>>] = f] /\ TypeOK
  BY DEF Acquire, Inv
<1> HIDE DEF f
<1>3. /\ frame' \in [Frames -> Frame] /\ frame'[<<p, t, l>>] = f
      /\ \A q \in Procs, u \in Threads, k \in Levels :
           q # p \/ u # t \/ k # l => frame'[<<q, u, k>>] = frame[<<q, u, k>>]
  BY <1>1, <1>2 DEF TypeOK, Frames
<1>4. /\ UNCHANGED <<threads, entry, committed>> /\ holder[p] = NoThread
      /\ holder' \in [Procs -> Threads \cup {NoThread}] /\ holder'[p] = t
      /\ \A q \in Procs : q # p => holder'[q] = holder[q]
  BY DEF Acquire, Inv, TypeOK
<1>5. TypeOK'
  BY <1>3, <1>4 DEF Inv, TypeOK, Frames
<1>6. \A u \in Threads, k \in Levels : ~Inside(p, u, k)
  BY <1>4, LockAssumption DEF Inv, LockInv
<1>7. \A q \in Procs, u \in Threads, k \in Levels :
        Inside(q, u, k)' => \/ q = p /\ u = t /\ k = l
                            \/ q # p /\ Inside(q, u, k) /\ frame'[<<q, u, k>>] = frame[<<q, u, k>>]
  BY <1>3, <1>4, <1>6 DEF Inside
<1>8. Consistent(f, entry[p], committed[p])
  BY <1>1, <1>4 DEF Consistent, Inv, LockInv
<1>9. ASSUME NEW q \in Procs, NEW u \in Threads, NEW k \in Levels
      PROVE  /\ Inside(q, u, k)' => /\ holder'[q] = u
                                    /\ Consistent(frame'[<<q, u, k>>], entry'[q], committed'[q])
             /\ frame'[<<q, u, k>>].op = "remove" => frame'[<<q, u, k>>].value = NoRecord
  BY <1>1, <1>3, <1>4, <1>7, <1>8 DEF Inv, LockInv
<1>10. ASSUME NEW q \in Procs, NEW u \in Threads, NEW k \in Levels, NEW m \in Levels,
              Inside(q, u, k)', Inside(q, u, m)'
       PROVE  k = m
  <2>1. CASE q = p
    BY <1>7, <1>10, <2>1
  <2>2. CASE q # p
    BY <1>7, <1>10, <2>2 DEF Inv, LockInv
  <2> QED
    BY <2>1, <2>2
<1>call. \A q \in Procs : holder'[q] = NoThread => entry'[q] = committed'[q]
  BY <1>4, LockAssumption DEF Inv, LockInv
<1> QED
  BY <1>5, <1>9, <1>10, <1>call DEF Inv, LockInv

LEMMA WriteInv ==
  ASSUME Inv, NEW p \in Procs, NEW t \in Threads, NEW l \in Levels, Write(p, t, l)
  PROVE  Inv'
<1> DEFINE g == frame[<<p, t, l>>]
<1>1. /\ g \in Frame /\ entry[p] \in Entry /\ g.op \in {"set", "remove"}
      /\ UNCHANGED <<threads, holder, committed>> /\ entry \in [Procs -> Entry]
  BY DEF Inv, TypeOK, Write
<1>2. g.op = "remove" => g.value = NoRecord
  BY DEF Inv, LockInv
<1>3. ASSUME At(p, t, l, "first"),
             entry' = [entry EXCEPT ![p].occupied = (g.op = "set")],
             frame' = [frame EXCEPT ![<<p, t, l>>].step = "second"]
      PROVE  Inv'
  <2> DEFINE f == [g EXCEPT !.step = "second"]
  <2> DEFINE e == [entry[p] EXCEPT !.occupied = (g.op = "set")]
  <2>1. f \in Frame /\ f.op = g.op /\ f.value = g.value /\ f.step = "second"
    BY <1>1 DEF Frame
  <2>2. e \in Entry /\ e.occupied = (g.op = "set")
    BY <1>1 DEF Entry
  <2>3. frame' = [frame EXCEPT ![<<p, t, l>>] = f] /\ entry' = [entry EXCEPT ![p] = e]
    BY <1>3
  <2>4. Inside(p, t, l)
    BY <1>3 DEF At, Runs, Inside
  <2> HIDE DEF f, e
  <2>5. Consistent(f, e, committed[p])
    BY <1>1, <2>1, <2>2 DEF Consistent
  <2> QED
    BY <1>1, <2>1, <2>2, <2>3, <2>4, <2>5, SectionStep
<1>4. ASSUME At(p, t, l, "second"),
             entry' = [entry EXCEPT ![p].record = g.value],
             frame' = [frame EXCEPT ![<<p, t, l>>].step = "out"]
      PROVE  Inv'
  <2> DEFINE f == [g EXCEPT !.step = "out"]
  <2> DEFINE e == [entry[p] EXCEPT !.record = g.value]
  <2>1. f \in Frame /\ f.op = g.op /\ f.value = g.value /\ f.step = "out"
    BY <1>1 DEF Frame
  <2>2. g.value \in Records \cup {NoRecord}
    BY <1>1 DEF Frame
  <2>3. e \in Entry /\ e.occupied = entry[p].occupied /\ e.record = g.value
    BY <1>1, <2>2 DEF Entry
  <2>4. frame' = [frame EXCEPT ![<<p, t, l>>] = f] /\ entry' = [entry EXCEPT ![p] = e]
    BY <1>4
  <2>5. Inside(p, t, l) /\ g.step = "second"
    BY <1>4 DEF At, Runs, Inside
  <2>6. Consistent(g, entry[p], committed[p])
    BY <2>5 DEF Inv, LockInv
  <2>7. entry[p].occupied = (g.op = "set")
    BY <1>1, <2>5, <2>6 DEF Consistent
  <2>8. e = [occupied |-> (g.op = "set"), record |-> g.value]
    BY <1>1, <2>7 DEF Entry
  <2> HIDE DEF f, e
  <2>9. Consistent(f, e, committed[p])
    BY <1>1, <1>2, <2>1, <2>8 DEF Consistent, Blank
  <2> QED
    BY <1>1, <2>1, <2>3, <2>4, <2>5, <2>9, SectionStep
<1> QED
  BY <1>3, <1>4 DEF Write

LEMMA ReadInv ==
  ASSUME Inv, NEW p \in Procs, NEW t \in Threads, NEW l \in Levels, Read(p, t, l)
  PROVE  Inv'
<1> DEFINE g == frame[<<p, t, l>>]
<1>1. /\ g \in Frame /\ entry[p] \in Entry /\ g.op = "get" /\ g.copy \in Entry
      /\ UNCHANGED <<threads, holder, entry, committed>> /\ entry \in [Procs -> Entry]
  BY DEF Inv, TypeOK, Read, Frame
<1>2. entry' = [entry EXCEPT ![p] = entry[p]]
  BY <1>1
<1>3. ASSUME At(p, t, l, "first"),
             frame' = [frame EXCEPT
                         ![<<p, t, l>>].step = IF entry[p].occupied THEN "second" ELSE "out",
                         ![<<p, t, l>>].copy.occupied = entry[p].occupied]
      PROVE  Inv'
  <2> DEFINE f == [g EXCEPT !.step = IF entry[p].occupied THEN "second" ELSE "out",
                            !.copy.occupied = entry[p].occupied]
  <2>1. /\ f \in Frame /\ f.op = g.op /\ f.value = g.value
        /\ f.step = IF entry[p].occupied THEN "second" ELSE "out"
        /\ f.copy.occupied = entry[p].occupied
    BY <1>1 DEF Frame, Entry
  <2>2. frame' = [frame EXCEPT ![<<p, t, l>>] = f]
    BY <1>3
  <2>3. Inside(p, t, l) /\ g.step = "first"
    BY <1>3 DEF At, Runs, Inside
  <2>4. entry[p] = committed[p]
    BY <2>3 DEF Inv, LockInv, Consistent
  <2> HIDE DEF f
  <2>5. f.step \in {"second", "out"} /\ (f.step = "out" => ~f.copy.occupied)
    BY <2>1, <1>1 DEF Entry
  <2>6. Consistent(f, entry[p], committed[p])
    BY <1>1, <2>1, <2>4, <2>5 DEF Consistent
  <2> QED
    BY <1>1, <1>2, <2>1, <2>2, <2>3, <2>5, <2>6, SectionStep
<1>4. ASSUME At(p, t, l, "second"),
             frame' = [frame EXCEPT ![<<p, t, l>>].step = "out",
                                    ![<<p, t, l>>].copy.record = entry[p].record]
      PROVE  Inv'
  <2> DEFINE f == [g EXCEPT !.step = "out", !.copy.record = entry[p].record]
  <2>1. /\ f \in Frame /\ f.op = g.op /\ f.value = g.value /\ f.step = "out"
        /\ f.copy.occupied = g.copy.occupied /\ f.copy.record = entry[p].record
    BY <1>1 DEF Frame, Entry
  <2>2. frame' = [frame EXCEPT ![<<p, t, l>>] = f]
    BY <1>4
  <2>3. Inside(p, t, l) /\ g.step = "second"
    BY <1>4 DEF At, Runs, Inside
  <2>4. Consistent(g, entry[p], committed[p])
    BY <2>3 DEF Inv, LockInv
  <2> HIDE DEF f
  <2>5. Consistent(f, entry[p], committed[p])
    BY <1>1, <2>1, <2>3, <2>4 DEF Consistent
  <2> QED
    BY <1>1, <1>2, <2>1, <2>2, <2>3, <2>5, SectionStep
<1> QED
  BY <1>3, <1>4 DEF Read

LEMMA ReleaseInv ==
  ASSUME Inv, NEW p \in Procs, NEW t \in Threads, NEW l \in Levels, Release(p, t, l)
  PROVE  Inv'
<1> DEFINE g == frame[<<p, t, l>>]
<1>1. /\ g \in Frame /\ entry[p] \in Entry /\ NoCall \in Frame
      /\ UNCHANGED <<threads, entry>> /\ Blank \in Entry
  BY DEF Inv, TypeOK, Release, NoCall, Frame, Entry, Blank
<1>2. Inside(p, t, l) /\ g.step = "out"
  BY DEF Release, At, Runs, Inside
<1>3. holder[p] = t /\ t # NoThread /\ Consistent(g, entry[p], committed[p])
  BY <1>2, LockAssumption DEF Inv, LockInv
<1>4. entry[p] = Promised(g, committed[p])
  BY <1>1, <1>2, <1>3 DEF Promised, Consistent, Frame
<1>5. /\ committed' \in [Procs -> Entry] /\ committed'[p] = entry[p]
      /\ \A q \in Procs : q # p => committed'[q] = committed[q]
  BY <1>1, <1>4 DEF Release, Inv, TypeOK
<1>6. /\ holder' \in [Procs -> Threads \cup {NoThread}] /\ holder'[p] = NoThread
      /\ \A q \in Procs : q # p => holder'[q] = holder[q]
  BY DEF Release, Inv, TypeOK
<1>7. /\ frame' \in [Frames -> Frame] /\ frame'[<<p, t, l>>] = NoCall
      /\ \A q \in Procs, u \in Threads, k \in Levels :
           q # p \/ u # t \/ k # l => frame'[<<q, u, k>>] = frame[<<q, u, k>>]
  BY <1>1 DEF Release, Inv, TypeOK, Frames
<1>8. TypeOK'
  BY <1>1, <1>5, <1>6, <1>7 DEF Inv, TypeOK, Frames
<1>9. ASSUME NEW u \in Threads, NEW k \in Levels, Inside(p, u, k)
      PROVE  u = t /\ k = l
  <2>1. u = t
    BY <1>3, <1>9 DEF Inv, LockInv
  <2>2. Inside(p, t, k)
    BY <1>9, <2>1 DEF Inside
  <2> QED
    BY <1>2, <2>1, <2>2 DEF Inv, LockInv
<1>10. NoCall.step = "none" /\ NoCall.op = "get"
  BY DEF NoCall
<1>11. \A q \in Procs, u \in Threads, k \in Levels :
         Inside(q, u, k)' => q # p /\ Inside(q, u, k) /\ frame'[<<q, u, k>>] = frame[<<q, u, k>>]
  BY <1>1, <1>7, <1>9, <1>10 DEF Inside
<1>12. ASSUME NEW q \in Procs, NEW u \in Threads, NEW k \in Levels
       PROVE  /\ Inside(q, u, k)' => /\ holder'[q] = u
                                     /\ Consistent(frame'[<<q, u, k>>], entry'[q], committed'[q])
              /\ frame'[<<q, u, k>>].op = "remove" => frame'[<<q, u, k>>].value = NoRecord
  <2>1. ASSUME Inside(q, u, k)'
        PROVE  holder'[q] = u /\ Consistent(frame'[<<q, u, k>>], entry'[q], committed'[q])
    <3>1. q # p /\ Inside(q, u, k) /\ frame'[<<q, u, k>>] = frame[<<q, u, k>>]
      BY <1>11, <2>1
    <3>2. holder'[q] = holder[q] /\ entry'[q] = entry[q] /\ committed'[q] = committed[q]
      BY <1>1, <1>5, <1>6, <3>1
    <3>3. holder[q] = u /\ Consistent(frame[<<q, u, k>>], entry[q], committed[q])
      BY <3>1 DEF Inv, LockInv
    <3> QED
      BY <3>1, <3>2, <3>3
  <2>2. frame'[<<q, u, k>>].op = "remove" => frame'[<<q, u, k>>].value = NoRecord
    BY <1>7, <1>10 DEF Inv, LockInv
  <2> QED
    BY <2>1, <2>2
<1>13. ASSUME NEW q \in Procs, NEW u \in Threads, NEW k \in Levels, NEW m \in Levels,
              Inside(q, u, k)', Inside(q, u, m)'
       PROVE  k = m
  <2>1. Inside(q, u, k) /\ Inside(q, u, m)
    BY <1>11, <1>13
  <2> QED
    BY <2>1 DEF Inv, LockInv
<1>14. \A q \in Procs : holder'[q] = NoThread => entry'[q] = committed'[q]
  BY <1>1, <1>5, <1>6 DEF Inv, LockInv
<1> QED
  BY <1>8, <1>12, <1>13, <1>14 DEF Inv, LockInv

(* The child starts with the memory of the parent, and the calls of one of   *)
(* its threads: whatever was inside the section there is inside it here.     *)
LEMMA ForkInv ==
  ASSUME Inv, NEW t \in Threads, Fork(t)
  PROVE  Inv'
<1>1. \A q \in Procs : q = "parent" \/ q = "child"
  BY DEF Procs
<1>2. /\ threads' \in [Procs -> SUBSET Threads]
      /\ threads'["child"] = {t} /\ threads'["parent"] = threads["parent"]
      /\ t \in threads["parent"]
  BY DEF Fork, Inv, TypeOK, Procs
<1>3. /\ holder' \in [Procs -> Threads \cup {NoThread}]
      /\ holder'["child"] = holder["parent"] /\ holder'["parent"] = holder["parent"]
  BY DEF Fork, Copied, Inv, TypeOK, Procs
<1>4. /\ entry' \in [Procs -> Entry]
      /\ entry'["child"] = entry["parent"] /\ entry'["parent"] = entry["parent"]
  BY DEF Fork, Copied, Inv, TypeOK, Procs
<1>5. /\ committed' \in [Procs -> Entry]
      /\ committed'["child"] = committed["parent"] /\ committed'["parent"] = committed["parent"]
  BY DEF Fork, Copied, Inv, TypeOK, Procs
<1>6. NoCall \in Frame /\ NoCall.op = "get"
  BY DEF NoCall, Frame, Blank, Entry
<1>7. /\ frame' \in [Frames -> Frame]
      /\ \A u \in Threads, k \in Levels :
           /\ frame'[<<"parent", u, k>>] = frame[<<"parent", u, k>>]
           /\ frame'[<<"child", u, k>>]
                = IF u = t THEN frame[<<"parent", t, k>>] ELSE NoCall
  <2>1. frame' = [x \in Frames |->
                    IF x[1] = "parent" THEN frame[x]
                    ELSE IF x[2] = t THEN frame[<<"parent", t, x[3]>>] ELSE NoCall]
    BY DEF Fork, ForkedFrames, Inv, TypeOK, Frames
  <2>2. "parent" \in Procs /\ "child" \in Procs /\ frame \in [Frames -> Frame]
    BY DEF Procs, Inv, TypeOK, Frames
  <2> QED
    BY <1>6, <2>1, <2>2 DEF Frames
<1>8. TypeOK'
  BY <1>2, <1>3, <1>4, <1>5, <1>7 DEF TypeOK, Frames
<1>9. \A u \in Threads, k \in Levels :
        /\ Inside("parent", u, k)' => Inside("parent", u, k)
        /\ Inside("child", u, k)' =>
             /\ u = t /\ Inside("parent", t, k)
             /\ frame'[<<"child", u, k>>] = frame[<<"parent", t, k>>]
  BY <1>2, <1>7 DEF Inside
<1>10. ASSUME NEW q \in Procs, NEW u \in Threads, NEW k \in Levels
       PROVE  /\ Inside(q, u, k)' => /\ holder'[q] = u
                                     /\ Consistent(frame'[<<q, u, k>>], entry'[q], committed'[q])
              /\ frame'[<<q, u, k>>].op = "remove" => frame'[<<q, u, k>>].value = NoRecord
  <2>1. "parent" \in Procs
    BY DEF Procs
  <2>2. \A v \in Threads, j \in Levels :
          /\ Inside("parent", v, j) =>
               /\ holder["parent"] = v
               /\ Consistent(frame[<<"parent", v, j>>], entry["parent"], committed["parent"])
          /\ frame[<<"parent", v, j>>].op = "remove" => frame[<<"parent", v, j>>].value = NoRecord
    BY <2>1 DEF Inv, LockInv
  <2>3. CASE q = "parent"
    <3>1. Inside(q, u, k)' => /\ holder'[q] = u
                              /\ Consistent(frame'[<<q, u, k>>], entry'[q], committed'[q])
      BY <1>2, <1>3, <1>4, <1>5, <1>7, <2>2, <2>3 DEF Inside
    <3>2. frame'[<<q, u, k>>].op = "remove" => frame'[<<q, u, k>>].value = NoRecord
      <4>1. frame'[<<q, u, k>>] = frame[<<"parent", u, k>>]
        BY <1>7, <2>3
      <4>2. frame[<<"parent", u, k>>].op = "remove" => frame[<<"parent", u, k>>].value = NoRecord
        BY <2>2
      <4> QED
        BY <4>1, <4>2
    <3> QED
      BY <3>1, <3>2
  <2>4. CASE q = "child"
    <3>1. Inside(q, u, k)' => /\ holder'[q] = u
                              /\ Consistent(frame'[<<q, u, k>>], entry'[q], committed'[q])
      BY <1>2, <1>3, <1>4, <1>5, <1>7, <2>2, <2>4 DEF Inside
    <3>2. frame'[<<q, u, k>>].op = "remove" => frame'[<<q, u, k>>].value = NoRecord
      <4>1. frame'[<<q, u, k>>] = IF u = t THEN frame[<<"parent", t, k>>] ELSE NoCall
        BY <1>7, <2>4
      <4>2. frame[<<"parent", t, k>>].op = "remove" => frame[<<"parent", t, k>>].value = NoRecord
        BY <2>2
      <4> QED
        BY <1>6, <4>1, <4>2
    <3> QED
      BY <3>1, <3>2
  <2> QED
    BY <1>1, <2>3, <2>4
<1>11. ASSUME NEW q \in Procs, NEW u \in Threads, NEW k \in Levels, NEW m \in Levels,
              Inside(q, u, k)', Inside(q, u, m)'
       PROVE  k = m
  <2>1. "parent" \in Procs
    BY DEF Procs
  <2>2. Inside("parent", u, k) /\ Inside("parent", u, m)
    BY <1>1, <1>9, <1>11
  <2> QED
    BY <2>1, <2>2 DEF Inv, LockInv
<1>12. \A q \in Procs : holder'[q] = NoThread => entry'[q] = committed'[q]
  BY <1>1, <1>3, <1>4, <1>5 DEF Inv, LockInv, Procs
<1> QED
  BY <1>8, <1>10, <1>11, <1>12 DEF Inv, LockInv

LEMMA NextInv == Inv /\ [Next]_vars => Inv'
<1>1. Inv /\ UNCHANGED vars => Inv'
  BY DEF vars, Inv, TypeOK, LockInv, Inside
<1> QED
  BY <1>1, BeginInv, AcquireInv, WriteInv, ReadInv, ReleaseInv, ForkInv DEF Next, Step

LEMMA Always == Spec => []Inv
BY InitInv, NextInv, PTL DEF Spec

(* The variables stay in their types, in both processes.                     *)
THEOREM TypeCorrect == Spec => []TypeOK
BY Always, PTL DEF Inv

(* What nvfix_fd_map_get copies is what the last completed call made of the  *)
(* entry: no thread, no interrupted frame and no fork ever shows it half of  *)
(* a call. The price is the lock that nobody releases (SectionsEnd).         *)
THEOREM NoTornRecord == Spec => []GetsWhole
<1>1. Inv => GetsWhole
  <2> SUFFICES ASSUME Inv, NEW p \in Procs, NEW t \in Threads, NEW l \in Levels,
                      t \in threads[p], frame[<<p, t, l>>].op = "get",
                      frame[<<p, t, l>>].step = "out"
               PROVE  Consistent(frame[<<p, t, l>>], entry[p], committed[p])
    BY DEF Consistent, GetsWhole
  <2>1. Inside(p, t, l)
    BY DEF Inside
  <2> QED
    BY <2>1 DEF Inv, LockInv
<1> QED
  BY <1>1, Always, PTL
=============================================================================
