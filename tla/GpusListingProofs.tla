--------------------------- MODULE GpusListingProofs ---------------------------
(***************************************************************************)
(* A listing through the shim shows every entry to be shown once and ends  *)
(* where it should: for any directory, any allowed GPUs, any buffers and   *)
(* any number of threads.                                                  *)
(***************************************************************************)
EXTENDS GpusListing, TLAPS

(* A listing that has not begun satisfies the invariant.                     *)
LEMMA InitListing ==
  ASSUME Init
  PROVE  ListingInv
<1> USE GpusListingAssumption
<1>1. TypeOK
  <2>1. ready \in BOOLEAN /\ (ready => allowed # {})
    BY DEF Init
  <2>2. allowed \subseteq Positions \ Dots /\ api \in {"getdents64", "readdir"}
    BY DEF Init
  <2>3. offset \in 0 .. Entries
    BY DEF Init
  <2>4. /\ pc \in [Threads -> {"idle", "filter", "next", "check", "done"}]
        /\ held \in [Threads -> SUBSET Positions]
        /\ got \in [Threads -> SUBSET Positions]
    BY DEF Init
  <2> QED
    BY <2>1, <2>2, <2>3, <2>4 DEF TypeOK
<1>2. CallsInProgress
  BY DEF Init, CallsInProgress
<1>3. ShownOnce /\ EndsAtTheEnd
  BY DEF Init, ShownOnce, EndsAtTheEnd
<1> QED
  BY <1>1, <1>2, <1>3 DEF ListingInv

(* An entry is shown when it is to be shown.                                 *)
LEMMA ShownIsWanted ==
  ASSUME NEW i
  PROVE  Shown(i) <=> Wanted(i)
  BY DEF Shown, Wanted, Dots

-----------------------------------------------------------------------------
(* The system call hands out entries nobody has.                             *)
LEMMA GetdentsRealStep ==
  ASSUME ListingInv, NEW t \in Threads, NEW n \in Room, GetdentsReal(t, n)
  PROVE  ListingInv'
<1> DEFINE last == IF offset + n < Entries THEN offset + n ELSE Entries
           new  == offset + 1 .. last
<1> USE GpusListingAssumption
<1>1. /\ offset \in Nat /\ offset <= Entries /\ n \in Nat /\ n >= 1
      /\ last \in Nat /\ offset <= last /\ last <= Entries
      /\ new \subseteq Positions
  BY DEF ListingInv, TypeOK, Positions
<1>2. /\ offset' = last
      /\ api = "getdents64"
      /\ pc[t] = "idle" /\ held[t] = {}
      /\ held' = [held EXCEPT ![t] = new]
      /\ pc' = [pc EXCEPT ![t] = IF offset = Entries THEN "done" ELSE "filter"]
      /\ UNCHANGED <<fixedVars, got>>
  BY DEF GetdentsReal, Goto, ListingInv, CallsInProgress
<1>3. TypeOK'
  BY <1>1, <1>2 DEF ListingInv, TypeOK, fixedVars
<1>4. /\ held'[t] = new
      /\ \A u \in Threads \ {t} : held'[u] = held[u] /\ pc'[u] = pc[u]
      /\ pc'[t] = IF offset = Entries THEN "done" ELSE "filter"
  BY <1>2 DEF ListingInv, TypeOK
<1>5. CallsInProgress'
  <2> SUFFICES ASSUME NEW u \in Threads
               PROVE  CallsInProgress!(u)'
    BY DEF CallsInProgress
  <2>1. CASE u # t
    <3>1. pc'[u] = pc[u] /\ held'[u] = held[u] /\ api' = api
      BY <2>1, <1>4, <1>2 DEF fixedVars
    <3>2. offset = Entries => offset' = Entries
      BY <1>1, <1>2
    <3> QED
      BY <3>1, <3>2 DEF ListingInv, CallsInProgress
  <2>2. CASE u = t /\ offset = Entries
    <3>1. new = {}
      BY <2>2, <1>1
    <3> QED
      BY <2>2, <3>1, <1>4
  <2>3. CASE u = t /\ offset # Entries
    <3>1. CASE offset + n < Entries
      <4>1. offset + 1 \in Positions /\ offset + 1 + n - 1 = offset + n
        BY <1>1, <3>1 DEF Positions
      <4>2. offset + 1 .. offset + 1 + n - 1 \subseteq new
        BY <4>1, <3>1
      <4>3. offset + 1 + n - 1 <= Entries
        BY <1>1, <3>1
      <4> HIDE DEF new
      <4> QED
        BY <2>3, <4>1, <4>2, <4>3, <1>2, <1>4 DEF fixedVars
    <3>2. CASE ~(offset + n < Entries)
      BY <2>3, <3>2, <1>2, <1>4 DEF fixedVars
    <3> QED
      BY <3>1, <3>2
  <2> QED
    BY <2>1, <2>2, <2>3
<1>6. ShownOnce'
  <2>1. \A i : Wanted(i)' <=> Wanted(i)
    BY <1>2 DEF Wanted, fixedVars
  <2>2. \A i \in 1 .. offset' :
           \/ \E u \in Threads : i \in held'[u]
           \/ (\E u \in Threads : i \in got'[u]) <=> Wanted(i)
    <3> SUFFICES ASSUME NEW i \in 1 .. last
                 PROVE  \/ \E u \in Threads : i \in held'[u]
                        \/ (\E u \in Threads : i \in got'[u]) <=> Wanted(i)
      BY <1>2
    <3>1. CASE i > offset
      BY <3>1, <1>1, <1>4
    <3>2. CASE i <= offset
      <4>1. i \in 1 .. offset
        BY <3>2, <1>1
      <4> QED
        BY <4>1, <1>2, <1>4 DEF ListingInv, ShownOnce
    <3> QED
      BY <3>1, <3>2, <1>1
  <2>3. \A u \in Threads : held'[u] \cup got'[u] \subseteq 1 .. offset'
    BY <1>1, <1>2, <1>4 DEF ListingInv, ShownOnce
  <2>4. \A u \in Threads : (held[u] \cup got[u]) \cap new = {}
    BY <1>1 DEF ListingInv, ShownOnce
  <2>5. \A u \in Threads : held'[u] \cap got'[u] = {}
    BY <1>2, <1>4, <2>4 DEF ListingInv, ShownOnce
  <2>6. \A u \in Threads : \A i \in got'[u] : Wanted(i)
    BY <1>2 DEF ListingInv, ShownOnce
  <2>7. \A u \in Threads : \A v \in Threads \ {u} :
           (held'[u] \cup got'[u]) \cap (held'[v] \cup got'[v]) = {}
    BY <1>2, <1>4, <2>4 DEF ListingInv, ShownOnce
  <2> QED
    BY <2>1, <2>2, <2>3, <2>5, <2>6, <2>7 DEF ShownOnce
<1>7. EndsAtTheEnd'
  BY <1>1, <1>2, <1>4 DEF ListingInv, EndsAtTheEnd, NoHiddenChunk, Wanted, fixedVars
<1> QED
  BY <1>3, <1>5, <1>6, <1>7 DEF ListingInv

-----------------------------------------------------------------------------
(* A thread ends its call: it gives up the entries it held and has been      *)
(* shown those of them that are to be shown.  The rest of the invariant      *)
(* follows.                                                                  *)
LEMMA JudgeStep ==
  ASSUME ListingInv, NEW t \in Threads,
         NEW kept, kept = {i \in held[t] : Shown(i)},
         got' = [got EXCEPT ![t] = @ \cup kept],
         NEW label \in {"idle", "next", "done"}, Goto(t, label, {}),
         label = "next" => api = "readdir",
         UNCHANGED <<fixedVars, offset>>
  PROVE  TypeOK' /\ CallsInProgress' /\ ShownOnce'
<1> USE GpusListingAssumption
<1>1. /\ offset' = offset
      /\ kept \subseteq held[t] /\ held[t] \subseteq Positions
      /\ held' = [held EXCEPT ![t] = {}]
      /\ pc' = [pc EXCEPT ![t] = label]
      /\ UNCHANGED <<ready, allowed, api>>
  BY DEF Goto, ListingInv, TypeOK, fixedVars
<1>2. /\ got'[t] = got[t] \cup kept /\ held'[t] = {} /\ pc'[t] = label
      /\ \A u \in Threads \ {t} :
           got'[u] = got[u] /\ held'[u] = held[u] /\ pc'[u] = pc[u]
  BY <1>1 DEF ListingInv, TypeOK
<1>3. TypeOK'
  BY <1>1 DEF ListingInv, TypeOK
<1>4. CallsInProgress'
  <2> SUFFICES ASSUME NEW u \in Threads
               PROVE  CallsInProgress!(u)'
    BY DEF CallsInProgress
  <2>1. CASE u = t
    BY <2>1, <1>1, <1>2
  <2>2. CASE u # t
    BY <2>2, <1>1, <1>2 DEF ListingInv, CallsInProgress
  <2> QED
    BY <2>1, <2>2
<1>5. \A i : Wanted(i)' <=> Wanted(i)
  BY <1>1 DEF Wanted
<1>6. \A i \in held[t] : i \in kept <=> Wanted(i)
  BY ShownIsWanted
<1>7. \A i \in 1 .. offset :
         \/ \E u \in Threads : i \in held'[u]
         \/ (\E u \in Threads : i \in got'[u]) <=> Wanted(i)
  <2> SUFFICES ASSUME NEW i \in 1 .. offset,
                      \A u \in Threads : i \notin held'[u]
               PROVE  (\E u \in Threads : i \in got'[u]) <=> Wanted(i)
    OBVIOUS
  <2>1. CASE i \in held[t]
    <3>1. \A u \in Threads : i \notin got[u]
      BY <2>1 DEF ListingInv, ShownOnce
    <3> QED
      BY <2>1, <3>1, <1>2, <1>6
  <2>2. CASE i \notin held[t]
    <3>1. \A u \in Threads : i \notin held[u]
      BY <2>2, <1>2
    <3>2. (\E u \in Threads : i \in got[u]) <=> Wanted(i)
      BY <3>1 DEF ListingInv, ShownOnce
    <3>3. \A u \in Threads : i \in got'[u] <=> i \in got[u]
      BY <2>2, <1>1, <1>2
    <3> QED
      BY <3>2, <3>3
  <2> QED
    BY <2>1, <2>2
<1>8. ShownOnce'
  <2>1. \A u \in Threads :
           /\ held'[u] \cup got'[u] \subseteq held[u] \cup got[u]
           /\ held'[u] \cap got'[u] = {}
    BY <1>1, <1>2 DEF ListingInv, ShownOnce
  <2>2. \A u \in Threads : \A i \in got'[u] : Wanted(i)
    BY <1>1, <1>2, <1>6 DEF ListingInv, ShownOnce
  <2>3. \A u \in Threads : held'[u] \cup got'[u] \subseteq 1 .. offset'
    BY <2>1, <1>1 DEF ListingInv, ShownOnce
  <2>4. \A u \in Threads : \A v \in Threads \ {u} :
           (held'[u] \cup got'[u]) \cap (held'[v] \cup got'[v]) = {}
    BY <2>1 DEF ListingInv, ShownOnce
  <2> QED
    BY <2>1, <2>2, <2>3, <2>4, <1>1, <1>5, <1>7 DEF ShownOnce
<1> QED
  BY <1>3, <1>4, <1>8

(* The in-place filter of getdents64.  An answer without a kept entry ends   *)
(* the listing early only when a buffer can be filled with hidden entries.   *)
LEMMA GetdentsFilterStep ==
  ASSUME ListingInv, NEW t \in Threads, GetdentsFilter(t)
  PROVE  ListingInv'
<1> USE GpusListingAssumption
<1> DEFINE kept  == {i \in held[t] : Shown(i)}
           label == IF kept = {} THEN "done" ELSE "idle"
<1>1. /\ pc[t] = "filter"
      /\ got' = [got EXCEPT ![t] = @ \cup kept]
      /\ Goto(t, label, {})
      /\ UNCHANGED <<fixedVars, offset>>
      /\ label \in {"idle", "next", "done"} /\ label # "next"
  BY DEF GetdentsFilter
<1>2. TypeOK' /\ CallsInProgress' /\ ShownOnce'
  <2> HIDE DEF label
  <2> QED
    BY <1>1, JudgeStep
<1>3. EndsAtTheEnd'
  <2>1. /\ NoHiddenChunk' <=> NoHiddenChunk
        /\ api' = api /\ offset' = offset /\ api = "getdents64"
    BY <1>1 DEF NoHiddenChunk, Wanted, fixedVars, ListingInv, CallsInProgress
  <2>2. ASSUME NoHiddenChunk, kept = {}
        PROVE  offset = Entries
    <3>1. CASE offset = Entries
      BY <3>1
    <3>2. CASE \E n \in Room, i \in Positions :
                 i + n - 1 <= Entries /\ i .. i + n - 1 \subseteq held[t]
      BY <3>2, <2>2, ShownIsWanted DEF NoHiddenChunk
    <3> QED
      BY <3>1, <3>2, <1>1 DEF ListingInv, CallsInProgress
  <2>3. \A u \in Threads : pc'[u] = IF u = t THEN label ELSE pc[u]
    BY <1>1 DEF Goto, ListingInv, TypeOK
  <2> QED
    BY <2>1, <2>2, <2>3 DEF EndsAtTheEnd, ListingInv
<1> QED
  BY <1>2, <1>3 DEF ListingInv

-----------------------------------------------------------------------------
(* The real readdir hands out the next entry, or ends the listing.           *)
LEMMA ReaddirRealStep ==
  ASSUME ListingInv, NEW t \in Threads, ReaddirReal(t)
  PROVE  ListingInv'
<1> USE GpusListingAssumption
<1>1. /\ api = "readdir" /\ held[t] = {}
      /\ offset \in Nat /\ offset <= Entries
      /\ UNCHANGED <<ready, allowed, api, got>>
  BY DEF ReaddirReal, ListingInv, TypeOK, CallsInProgress, fixedVars
<1>2. CASE offset = Entries
  <2>1. /\ offset' = offset
        /\ pc' = [pc EXCEPT ![t] = "done"]
        /\ held' = [held EXCEPT ![t] = {}]
    BY <1>2 DEF ReaddirReal, Goto
  <2>2. held' = held
    BY <2>1, <1>1 DEF ListingInv, TypeOK
  <2>3. \A u \in Threads : pc'[u] = IF u = t THEN "done" ELSE pc[u]
    BY <2>1 DEF ListingInv, TypeOK
  <2>4. TypeOK'
    BY <2>1, <2>2, <1>1 DEF ListingInv, TypeOK
  <2>5. CallsInProgress'
    BY <2>1, <2>2, <2>3, <1>1 DEF ListingInv, CallsInProgress
  <2>6. ShownOnce'
    BY <2>1, <2>2, <1>1 DEF ListingInv, ShownOnce, Wanted
  <2>7. EndsAtTheEnd'
    BY <2>1, <1>2 DEF EndsAtTheEnd
  <2> QED
    BY <2>4, <2>5, <2>6, <2>7 DEF ListingInv
<1>3. CASE offset # Entries
  <2>1. /\ offset' = offset + 1
        /\ pc' = [pc EXCEPT ![t] = "check"]
        /\ held' = [held EXCEPT ![t] = {offset + 1}]
        /\ offset + 1 \in Positions
    BY <1>1, <1>3 DEF ReaddirReal, Goto, Positions
  <2>2. /\ held'[t] = {offset + 1} /\ pc'[t] = "check"
        /\ \A u \in Threads \ {t} : held'[u] = held[u] /\ pc'[u] = pc[u]
    BY <2>1 DEF ListingInv, TypeOK
  <2>3. TypeOK'
    BY <2>1, <1>1, <1>3 DEF ListingInv, TypeOK
  <2>4. CallsInProgress'
    <3> SUFFICES ASSUME NEW u \in Threads
                 PROVE  CallsInProgress!(u)'
      BY DEF CallsInProgress
    <3>1. CASE u = t
      BY <3>1, <2>1, <2>2, <1>1
    <3>2. CASE u # t
      BY <3>2, <2>2, <1>1 DEF ListingInv, CallsInProgress
    <3> QED
      BY <3>1, <3>2
  <2>5. ShownOnce'
    <3>1. \A i : Wanted(i)' <=> Wanted(i)
      BY <1>1 DEF Wanted
    <3>2. 1 .. offset' = (1 .. offset) \cup {offset + 1}
      BY <2>1, <1>1
    <3>3. \A i \in 1 .. offset' :
             \/ \E u \in Threads : i \in held'[u]
             \/ (\E u \in Threads : i \in got'[u]) <=> Wanted(i)
      BY <3>2, <2>2, <1>1 DEF ListingInv, ShownOnce
    <3>4. \A u \in Threads : /\ held'[u] \cup got'[u] \subseteq 1 .. offset'
                              /\ offset + 1 \notin held[u] \cup got[u]
      BY <3>2, <2>2, <1>1 DEF ListingInv, ShownOnce
    <3>5. \A u \in Threads : /\ held'[u] \cap got'[u] = {}
                              /\ \A i \in got'[u] : Wanted(i)
      BY <3>4, <2>2, <1>1 DEF ListingInv, ShownOnce
    <3>6. \A u \in Threads : \A v \in Threads \ {u} :
             (held'[u] \cup got'[u]) \cap (held'[v] \cup got'[v]) = {}
      BY <3>4, <2>2, <1>1 DEF ListingInv, ShownOnce
    <3> QED
      BY <3>1, <3>3, <3>4, <3>5, <3>6 DEF ShownOnce
  <2>6. EndsAtTheEnd'
    <3>1. \A u \in Threads : pc'[u] = "done" => pc[u] = "done"
      BY <2>2
    <3>2. \A u \in Threads : pc[u] # "done"
      BY <1>1, <1>3 DEF ListingInv, EndsAtTheEnd
    <3> QED
      BY <3>1, <3>2, <1>1 DEF EndsAtTheEnd
  <2> QED
    BY <2>3, <2>4, <2>5, <2>6 DEF ListingInv
<1> QED
  BY <1>2, <1>3

(* readdir returns the entry it holds, or hides it and goes on.              *)
LEMMA ReaddirCheckStep ==
  ASSUME ListingInv, NEW t \in Threads, ReaddirCheck(t)
  PROVE  ListingInv'
<1> DEFINE kept == {i \in held[t] : Shown(i)}
           label == IF \A i \in held[t] : Shown(i) THEN "idle" ELSE "next"
<1>1. PICK e \in Positions : held[t] = {e}
  BY DEF ReaddirCheck, ListingInv, CallsInProgress
<1>2. /\ api = "readdir"
      /\ Goto(t, label, {})
      /\ label \in {"idle", "next", "done"} /\ label # "done"
      /\ UNCHANGED <<fixedVars, offset>>
  BY DEF ReaddirCheck, ListingInv, CallsInProgress
<1>3. got' = [got EXCEPT ![t] = @ \cup kept]
  <2>1. CASE Shown(e)
    <3>1. kept = held[t]
      BY <2>1, <1>1
    <3> QED
      BY <2>1, <3>1, <1>1 DEF ReaddirCheck
  <2>2. CASE ~Shown(e)
    <3>1. kept = {} /\ got' = got
      BY <2>2, <1>1 DEF ReaddirCheck
    <3> QED
      BY <3>1 DEF ListingInv, TypeOK
  <2> QED
    BY <2>1, <2>2
<1>4. TypeOK' /\ CallsInProgress' /\ ShownOnce'
  <2> HIDE DEF label
  <2> QED
    BY <1>2, <1>3, JudgeStep
<1>5. EndsAtTheEnd'
  <2>1. \A u \in Threads : pc'[u] = IF u = t THEN label ELSE pc[u]
    BY <1>2 DEF Goto, ListingInv, TypeOK
  <2> QED
    BY <2>1, <1>2 DEF ListingInv, EndsAtTheEnd, Wanted, NoHiddenChunk, fixedVars
<1> QED
  BY <1>4, <1>5 DEF ListingInv

-----------------------------------------------------------------------------
(* Every step keeps the invariant.                                           *)
LEMMA NextStep ==
  ASSUME ListingInv, [Next]_vars
  PROVE  ListingInv'
<1>1. CASE \E t \in Threads : ListStep(t)
  BY <1>1, GetdentsRealStep, GetdentsFilterStep, ReaddirRealStep, ReaddirCheckStep
     DEF ListStep
<1>2. CASE UNCHANGED vars
  BY <1>2 DEF ListingInv, TypeOK, CallsInProgress, ShownOnce, EndsAtTheEnd, NoHiddenChunk,
              Wanted, vars, fixedVars, listVars
<1> QED
  BY <1>1, <1>2 DEF Next

(* The inductive invariant of listing the gpus directory.                    *)
THEOREM ListingCorrect == Spec => []ListingInv
<1>1. Init => ListingInv
  BY InitListing
<1>2. ListingInv /\ [Next]_vars => ListingInv'
  BY NextStep
<1> QED
  BY <1>1, <1>2, PTL DEF Spec

(* The variables keep their types: a directory position is never out of      *)
(* range, and everything held or shown is an entry.                          *)
THEOREM TypeCorrect == Spec => []TypeOK
<1>1. ListingInv => TypeOK
  BY DEF ListingInv
<1> QED
  BY <1>1, ListingCorrect, PTL

(* getdents64 and readdir show every entry that is to be shown, once, and no *)
(* other.                                                                    *)
THEOREM EntriesShownOnce == Spec => []ShownOnce
<1>1. ListingInv => ShownOnce
  BY DEF ListingInv
<1> QED
  BY <1>1, ListingCorrect, PTL

(* The shim ends no listing early, if no getdents64 buffer can be filled     *)
(* with hidden entries only.                                                 *)
THEOREM NoEarlyEnd == Spec => []EndsAtTheEnd
<1>1. ListingInv => EndsAtTheEnd
  BY DEF ListingInv
<1> QED
  BY <1>1, ListingCorrect, PTL
=============================================================================
