---------------------------- MODULE RmFilterProofs ----------------------------
(***************************************************************************)
(* The Resource Manager filter learns only ids of allowed GPUs, shows no   *)
(* card before it has learned it, and answers queries as the abstract      *)
(* allow list does: for any number of threads, any table size and any      *)
(* answers of the driver.                                                  *)
(***************************************************************************)
EXTENDS RmFilter, FiniteSetTheorems, TLAPS

-----------------------------------------------------------------------------
(* Remembering an id. *)

(* nvfix_remember_allowed_gpu_id_locked appends a new id of an allowed GPU   *)
(* or leaves the table alone; afterwards the id is there unless the table is *)
(* full.                                                                     *)
LEMMA RememberFacts ==
  ASSUME learned \in Seq(GpuIds), IsInjective(learned), Len(learned) <= MaxGpus,
         NEW id \in GpuIds \cup {Invalid}, Remember(id)
  PROVE  /\ learned' \in Seq(GpuIds)
         /\ IsInjective(learned')
         /\ Len(learned') <= MaxGpus
         /\ Learned \subseteq Learned'
         /\ Learned' \subseteq Learned \cup ({id} \ {Invalid})
         /\ id \in Learned' \cup {Invalid} \/ Len(learned') = MaxGpus
         /\ Len(learned) = MaxGpus => learned' = learned
<1> USE RmFilterAssumption
<1>1. CASE id = Invalid \/ id \in Learned \/ Len(learned) >= MaxGpus
  BY <1>1 DEF Remember, Learned
<1>2. CASE ~(id = Invalid \/ id \in Learned \/ Len(learned) >= MaxGpus)
  <2>1. learned' = Append(learned, id) /\ id \in GpuIds
    BY <1>2 DEF Remember
  <2>2. /\ learned' \in Seq(GpuIds)
        /\ Len(learned') = Len(learned) + 1
        /\ \A j \in 1 .. Len(learned) : learned'[j] = learned[j]
        /\ learned'[Len(learned) + 1] = id
        /\ DOMAIN learned = 1 .. Len(learned)
        /\ DOMAIN learned' = 1 .. Len(learned) + 1
        /\ Len(learned) \in Nat
    BY <2>1
  <2>3. \A j \in 1 .. Len(learned) : learned[j] # id
    BY <1>2, <2>2 DEF Learned, Range
  <2>4. IsInjective(learned')
    BY <2>2, <2>3 DEF IsInjective
  <2>5. Learned' = Learned \cup {id}
    BY <2>2 DEF Learned, Range
  <2>6. Len(learned') <= MaxGpus /\ Len(learned) # MaxGpus
    <3> DEFINE n == Len(learned)
    <3>1. n \in Nat /\ MaxGpus \in Nat /\ ~(n >= MaxGpus)
      BY <1>2, <2>2
    <3>2. Len(learned') = n + 1
      BY <2>2
    <3> HIDE DEF n
    <3>3. n + 1 <= MaxGpus /\ n # MaxGpus
      BY <3>1
    <3> QED
      BY <3>2, <3>3 DEF n
  <2>7. /\ Learned \subseteq Learned'
        /\ Learned' \subseteq Learned \cup ({id} \ {Invalid})
        /\ id \in Learned'
    BY <1>2, <2>5
  <2> QED
    BY <2>2, <2>4, <2>6, <2>7
<1> QED
  BY <1>1, <1>2

(* The ids of allowed GPUs are ids.                                          *)
LEMMA AllowedCard ==
  ASSUME NEW a \in CardAnswers, NEW j \in DOMAIN a, a[j].valid, a[j].minor \in AllowedMinors
  PROVE  a[j].id \in AllowedIds \cup {Invalid}
  BY DEF AllowedIds, AllowedIn, Range

-----------------------------------------------------------------------------
(* Where a list ends. *)

(* A set of numbers that is not empty has a least element.                   *)
LEMMA LeastNumber ==
  ASSUME NEW T, T \subseteq Nat, T # {}
  PROVE  \E n \in T : \A m \in T : n <= m
<1> DEFINE R == {ss \in Nat \X Nat : ss[1] < ss[2]}
<1>1. IsWellFoundedOn(R, Nat)
  BY NatLessThanWellFounded DEF OpToRel
<1>2. PICK n \in T : \A m \in T : ~(<<m, n>> \in R)
  <2> HIDE DEF R
  <2> QED
    BY <1>1, WFMin
<1>3. \A m \in T : <<m, n>> \in R <=> m < n
  OBVIOUS
<1> HIDE DEF R
<1>4. \A m \in T : ~(m < n)
  BY <1>2, <1>3
<1> QED
  BY <1>4

(* An array of ids has one end, and what the process reads stops there.      *)
LEMMA VisibleIs ==
  ASSUME NEW q, NEW l, Len(l.ids) \in Nat, NEW n \in 0 .. Len(l.ids), EndsAt(q, l, n)
  PROVE  Visible(q, l) = SubSeq(l.ids, 1, n)
<1>1. ASSUME NEW m \in 0 .. Len(l.ids), EndsAt(q, l, m)
      PROVE  m = n
  <2>1. ~(n < m)
    BY <1>1 DEF EndsAt
  <2>2. ~(m < n)
    BY <1>1 DEF EndsAt
  <2> QED
    BY <2>1, <2>2
<1> QED
  BY <1>1 DEF Visible

LEMMA VisibleEnds ==
  ASSUME NEW q \in Queries, NEW l \in List
  PROVE  \E n \in 0 .. Len(l.ids) : EndsAt(q, l, n) /\ Visible(q, l) = SubSeq(l.ids, 1, n)
<1> DEFINE N == Len(l.ids)
           T == {n \in 0 .. N : n < N => ~Listed(q, l, n + 1)}
<1>1. N \in Nat
  BY DEF List
<1>2. T \subseteq Nat /\ N \in T
  BY <1>1
<1>3. PICK n \in T : \A m \in T : n <= m
  <2> HIDE DEF T
  <2> QED
    BY <1>2, LeastNumber
<1>4. ASSUME NEW j \in 1 .. n
      PROVE  Listed(q, l, j)
  <2>1. j - 1 \in 0 .. N /\ j - 1 < N /\ (j - 1) + 1 = j
    BY <1>1
  <2>2. j - 1 \notin T
    <3> HIDE DEF T
    <3> QED
      BY <1>2, <1>3
  <2> QED
    BY <2>1, <2>2
<1>5. EndsAt(q, l, n)
  BY <1>3, <1>4 DEF EndsAt
<1> QED
  BY <1>1, <1>3, <1>5, VisibleIs

-----------------------------------------------------------------------------
(* Typing. *)

(* Nothing is learned and no call is in progress when the shim is loaded.    *)
LEMMA InitTyped == Init => TypeOK
<1> SUFFICES ASSUME Init
             PROVE  TypeOK
  OBVIOUS
<1>1. /\ <<>> \in Seq(GpuIds) /\ <<>> \in Seq(GpuIds \cup {Invalid})
      /\ <<>> \in Seq(Card) /\ NoList \in List
  BY DEF NoList, List
<1>2. /\ ready \in BOOLEAN /\ enabled \in BOOLEAN /\ learned \in Seq(GpuIds)
      /\ lock \in Threads \cup {NoThread}
      /\ settled \subseteq GpuIds /\ shown \subseteq GpuIds
  BY <1>1 DEF Init
<1>3. /\ pc \in [Threads -> {"idle", "learn_lock", "learn", "mask", "scan_lock", "scan",
                            "write"} \cup Ends]
      /\ req \in [Threads -> Queries \cup {"card_info", "none"}]
      /\ i \in [Threads -> Nat \ {0}]
      /\ seen \in [Threads -> SUBSET GpuIds] /\ promised \in [Threads -> SUBSET GpuIds]
  BY DEF Init
<1>4. /\ cards \in [Threads -> Seq(Card)]
      /\ list \in [Threads -> List]
      /\ kept \in [Threads -> Seq(GpuIds)]
      /\ asked \in [Threads -> Seq(GpuIds \cup {Invalid})]
  BY <1>1 DEF Init
<1> QED
  BY <1>2, <1>3, <1>4 DEF TypeOK

(* The compacted list is a list of ids, as long as the driver's.             *)
LEMMA WriteTyped ==
  ASSUME TypeOK, NEW t \in Threads, Write(t)
  PROVE  list' \in [Threads -> List]
<1> DEFINE l == list[t]
           n == Len(kept[t])
           w == [j \in DOMAIN l.ids |->
                   IF j <= n THEN kept[t][j]
                   ELSE IF req[t] = "attached" THEN Invalid ELSE l.ids[j]]
<1>1. l \in List /\ kept[t] \in Seq(GpuIds)
  BY DEF TypeOK
<1>2. l.ids \in Seq(GpuIds \cup {Invalid}) /\ n \in Nat
  BY <1>1 DEF List
<1>3. ASSUME NEW j \in DOMAIN l.ids
      PROVE  w[j] \in GpuIds \cup {Invalid}
  <2>1. j \in 1 .. Len(l.ids) /\ l.ids[j] \in GpuIds \cup {Invalid}
    BY <1>2
  <2>2. j <= n => kept[t][j] \in GpuIds
    BY <1>1, <2>1
  <2> QED
    BY <2>1, <2>2
<1>4. w \in Seq(GpuIds \cup {Invalid})
  <2>1. DOMAIN l.ids = 1 .. Len(l.ids) /\ Len(l.ids) \in Nat
    BY <1>2
  <2>2. w \in [1 .. Len(l.ids) -> GpuIds \cup {Invalid}]
    BY <1>3, <2>1
  <2> HIDE DEF w
  <2> QED
    BY <2>1, <2>2
<1>5. list' = [list EXCEPT ![t] = [num |-> IF req[t] = "attached" THEN l.num ELSE n, ids |-> w]]
  BY DEF Write, TypeOK
<1>6. (IF req[t] = "attached" THEN l.num ELSE n) \in Nat
  BY <1>1, <1>2 DEF List
<1> HIDE DEF w
<1> QED
  BY <1>4, <1>5, <1>6 DEF TypeOK, List

(* Masking changes the valid flags only, and only to hide cards whose minor  *)
(* is not allowed.                                                           *)
LEMMA MaskFacts ==
  ASSUME TypeOK, NEW t \in Threads, MaskCards(t)
  PROVE  /\ cards' \in [Threads -> Seq(Card)]
         /\ \A u \in Threads \ {t} : cards'[u] = cards[u]
         /\ enabled => /\ DOMAIN cards'[t] = DOMAIN cards[t]
                       /\ \A j \in DOMAIN cards[t] :
                            /\ cards'[t][j].id = cards[t][j].id
                            /\ cards'[t][j].minor = cards[t][j].minor
                            /\ cards'[t][j].valid =>
                                 cards[t][j].valid /\ cards[t][j].minor \in AllowedMinors
<1> DEFINE a == cards[t]
           m == [j \in DOMAIN a |-> Mask(a[j])]
<1>1. a \in Seq(Card) /\ DOMAIN a = 1 .. Len(a) /\ Len(a) \in Nat
  BY DEF TypeOK
<1>2. ASSUME NEW c \in Card
      PROVE  /\ Mask(c) \in Card
             /\ Mask(c).id = c.id /\ Mask(c).minor = c.minor
             /\ Mask(c).valid => c.valid /\ c.minor \in AllowedMinors
  BY DEF Card, Mask
<1>3. \A j \in DOMAIN a : a[j] \in Card
  BY <1>1
<1>4. m \in Seq(Card)
  <2>1. m \in [1 .. Len(a) -> Card]
    BY <1>1, <1>2, <1>3
  <2> HIDE DEF m
  <2> QED
    BY <1>1, <2>1
<1>5. cards' = IF enabled THEN [cards EXCEPT ![t] = m] ELSE cards
  BY DEF MaskCards
<1>6. enabled => cards'[t] = m
  BY <1>5 DEF TypeOK
<1>7. DOMAIN m = DOMAIN a /\ \A j \in DOMAIN a : m[j] = Mask(a[j])
  OBVIOUS
<1>8. cards' \in [Threads -> Seq(Card)] /\ \A u \in Threads \ {t} : cards'[u] = cards[u]
  <2> HIDE DEF m
  <2> QED
    BY <1>4, <1>5 DEF TypeOK
<1> HIDE DEF m
<1> QED
  BY <1>2, <1>3, <1>6, <1>7, <1>8

(* The ids the process reads in a list are ids.                              *)
LEMMA VisibleTyped ==
  ASSUME NEW q \in Queries, NEW l \in List
  PROVE  Visible(q, l) \in Seq(GpuIds \cup {Invalid})
<1>1. PICK n \in 0 .. Len(l.ids) : EndsAt(q, l, n) /\ Visible(q, l) = SubSeq(l.ids, 1, n)
  BY VisibleEnds
<1> DEFINE s == l.ids
<1>2. s \in Seq(GpuIds \cup {Invalid}) /\ n \in 0 .. Len(s)
  BY DEF List
<1> HIDE DEF s
<1>3. SubSeq(s, 1, n) \in Seq(GpuIds \cup {Invalid})
  BY <1>2
<1> QED
  BY <1>1, <1>3 DEF s

(* Every step of a thread keeps the variables in their domains.              *)
LEMMA TypeStep ==
  ASSUME TypeOK, LearnedSound, [Next]_vars
  PROVE  TypeOK'
<1> USE RmFilterAssumption DEF Goto, localVars, ghostVars
<1>1. CASE Constructor
  BY <1>1 DEF Constructor, TypeOK
<1>2. ASSUME NEW t \in Threads, NEW a \in CardAnswers, NEW b \in BOOLEAN, IoctlCards(t, a, b)
      PROVE  TypeOK'
  BY <1>2 DEF IoctlCards, TypeOK, Ends
<1>3. ASSUME NEW t \in Threads, NEW q \in Queries, NEW a \in ListAnswers[q], NEW b \in BOOLEAN,
             IoctlList(t, q, a, b)
      PROVE  TypeOK'
  <2>1. a \in List /\ Visible(q, a) \in Seq(GpuIds \cup {Invalid})
    BY VisibleTyped
  <2>2. asked' \in [Threads -> Seq(GpuIds \cup {Invalid})]
    BY <1>3, <2>1 DEF IoctlList, TypeOK
  <2>3. /\ UNCHANGED <<ready, enabled, learned, lock, cards, i, kept, settled, seen, shown>>
        /\ list' \in [Threads -> List] /\ req' \in [Threads -> Queries \cup {"card_info", "none"}]
        /\ promised' \in [Threads -> SUBSET GpuIds]
    BY <1>3, <2>1 DEF IoctlList, TypeOK
  <2>4. pc' \in [Threads -> {"idle", "learn_lock", "learn", "mask", "scan_lock", "scan",
                             "write"} \cup Ends]
    BY <1>3 DEF IoctlList, TypeOK, Ends
  <2> QED
    BY <2>2, <2>3, <2>4 DEF TypeOK
<1>4. ASSUME NEW t \in Threads, LearnLock(t)
      PROVE  TypeOK'
  BY <1>4 DEF LearnLock, Acquire, TypeOK
<1>5. ASSUME NEW t \in Threads, LearnCard(t)
      PROVE  TypeOK'
  <2> DEFINE c == cards[t][i[t]]
  <2>1. c \in Card /\ c.id \in GpuIds \cup {Invalid}
    <3>1. cards[t] \in Seq(Card) /\ i[t] \in 1 .. Len(cards[t])
      BY <1>5 DEF LearnCard, TypeOK
    <3>2. c \in Card
      BY <3>1
    <3> QED
      BY <3>2 DEF Card
  <2>2. learned' = learned \/ Remember(c.id)
    BY <1>5 DEF LearnCard
  <2> HIDE DEF c
  <2>3. learned' \in Seq(GpuIds)
    BY <2>1, <2>2, RememberFacts DEF TypeOK, LearnedSound
  <2>4. /\ i' = [i EXCEPT ![t] = @ + 1]
        /\ UNCHANGED <<ready, enabled, lock, pc, req, cards, list, kept, ghostVars>>
    BY <1>5 DEF LearnCard
  <2>5. i' \in [Threads -> Nat \ {0}]
    BY <2>4 DEF TypeOK
  <2> QED
    BY <2>3, <2>4, <2>5 DEF TypeOK, ghostVars
<1>6. ASSUME NEW t \in Threads, LearnUnlock(t)
      PROVE  TypeOK'
  BY <1>6 DEF LearnUnlock, Release, Learned, Range, TypeOK
<1>7. ASSUME NEW t \in Threads, MaskCards(t)
      PROVE  TypeOK'
  BY <1>7, MaskFacts DEF MaskCards, TypeOK, Ends
<1>8. ASSUME NEW t \in Threads, ScanLock(t)
      PROVE  TypeOK'
  BY <1>8 DEF ScanLock, Acquire, Learned, Range, TypeOK
<1>9. ASSUME NEW t \in Threads, ScanNothing(t)
      PROVE  TypeOK'
  BY <1>9 DEF ScanNothing, Release, TypeOK, Ends
<1>10. ASSUME NEW t \in Threads, ScanEntry(t)
       PROVE  TypeOK'
  <2>1. kept' \in [Threads -> Seq(GpuIds)]
    <3> DEFINE id == list[t].ids[i[t]]
    <3>1. id \in Learned => id \in GpuIds
      BY DEF TypeOK, Learned, Range
    <3>2. Keep(t, id)
      BY <1>10 DEF ScanEntry
    <3> HIDE DEF id
    <3> QED
      BY <3>1, <3>2 DEF Keep, TypeOK
  <2>2. /\ i' = [i EXCEPT ![t] = @ + 1]
        /\ UNCHANGED <<ready, enabled, learned, lock, pc, req, cards, list>>
        /\ UNCHANGED <<settled, asked, seen, shown, promised>>
    BY <1>10 DEF ScanEntry
  <2>3. i' \in [Threads -> Nat \ {0}]
    BY <2>2 DEF TypeOK
  <2> QED
    BY <2>1, <2>2, <2>3 DEF TypeOK
<1>11. ASSUME NEW t \in Threads, ScanUnlock(t)
       PROVE  TypeOK'
  BY <1>11 DEF ScanUnlock, Release, TypeOK, Ends
<1>12. ASSUME NEW t \in Threads, Write(t)
       PROVE  TypeOK'
  <2>1. list' \in [Threads -> List]
    BY <1>12, WriteTyped
  <2>2. /\ pc' = [pc EXCEPT ![t] = "listed"]
        /\ UNCHANGED <<ready, enabled, learned, lock>>
        /\ UNCHANGED <<req, cards, i, kept>>
        /\ UNCHANGED <<settled, asked, seen, shown, promised>>
    BY <1>12 DEF Write
  <2>3. pc' \in [Threads -> {"idle", "learn_lock", "learn", "mask", "scan_lock", "scan",
                             "write"} \cup Ends]
    BY <2>2 DEF TypeOK, Ends
  <2> QED
    BY <2>1, <2>2, <2>3 DEF TypeOK
<1>13. ASSUME NEW t \in Threads, Return(t)
       PROVE  TypeOK'
  <2>1. ValidIds(cards[t]) \subseteq GpuIds
    <3>1. cards[t] \in Seq(Card)
      BY DEF TypeOK
    <3>2. \A c \in Range(cards[t]) : c.id \in GpuIds \cup {Invalid}
      <4>1. ASSUME NEW j \in DOMAIN cards[t]
            PROVE  cards[t][j] \in Card
        BY <3>1
      <4>2. \A c \in Card : c.id \in GpuIds \cup {Invalid}
        BY DEF Card
      <4> QED
        BY <4>1, <4>2 DEF Range
    <3> QED
      BY <3>2 DEF ValidIds
  <2>2. NoList \in List /\ <<>> \in Seq(Card) /\ <<>> \in Seq(GpuIds)
    BY DEF NoList, List
  <2>3. /\ cards' \in [Threads -> Seq(Card)] /\ list' \in [Threads -> List]
        /\ kept' \in [Threads -> Seq(GpuIds)]
    BY <1>13, <2>2 DEF Return, TypeOK
  <2>4. shown' \subseteq GpuIds
    BY <1>13, <2>1 DEF Return, TypeOK
  <2> QED
    BY <1>13, <2>3, <2>4 DEF Return, TypeOK
<1>14. CASE UNCHANGED vars
  BY <1>14 DEF vars, TypeOK
<1> QED
  BY <1>1, <1>2, <1>3, <1>4, <1>5, <1>6, <1>7, <1>8, <1>9, <1>10, <1>11, <1>12,
     <1>13, <1>14 DEF Next, InCall

-----------------------------------------------------------------------------
(* The learned table. *)

(* The lock admits one thread at a time, and only ids of allowed GPUs are    *)
(* stored, each once.                                                        *)
LEMMA LearnedStep ==
  ASSUME TypeOK, LearnedSound, CardsInv, [Next]_vars
  PROVE  LearnedSound'
<1> USE RmFilterAssumption DEF Goto, localVars, ghostVars
<1> DEFINE Mutex == \A u \in Threads : pc[u] \in {"learn", "scan"} <=> lock = u
<1>1. ASSUME UNCHANGED learned, Mutex'
      PROVE  LearnedSound'
  BY <1>1 DEF LearnedSound, Learned
<1>2. CASE Constructor
  BY <1>1, <1>2 DEF Constructor, LearnedSound
<1>3. ASSUME NEW t \in Threads, NEW a \in CardAnswers, NEW b \in BOOLEAN, IoctlCards(t, a, b)
      PROVE  LearnedSound'
  BY <1>1, <1>3 DEF IoctlCards, Idle, LearnedSound, TypeOK
<1>4. ASSUME NEW t \in Threads, NEW q \in Queries, NEW a \in ListAnswers[q], NEW b \in BOOLEAN,
             IoctlList(t, q, a, b)
      PROVE  LearnedSound'
  BY <1>1, <1>4 DEF IoctlList, Idle, LearnedSound, TypeOK
<1>5. ASSUME NEW t \in Threads, LearnLock(t) \/ ScanLock(t)
      PROVE  LearnedSound'
  BY <1>1, <1>5 DEF LearnLock, ScanLock, Acquire, LearnedSound, TypeOK
<1>6. ASSUME NEW t \in Threads, LearnUnlock(t) \/ ScanNothing(t) \/ ScanUnlock(t)
      PROVE  LearnedSound'
  BY <1>1, <1>6 DEF LearnUnlock, ScanNothing, ScanUnlock, Release, LearnedSound, TypeOK
<1>7. ASSUME NEW t \in Threads, LearnCard(t)
      PROVE  LearnedSound'
  <2> DEFINE c == cards[t][i[t]]
  <2>1. Mutex'
    BY <1>7 DEF LearnCard, LearnedSound
  <2>2. cards[t] \in CardAnswers /\ i[t] \in DOMAIN cards[t] /\ c \in Card
    BY <1>7 DEF LearnCard, CardsInv, ThreadTaught, TypeOK
  <2>3. CASE UNCHANGED learned
    BY <1>1, <2>1, <2>3
  <2>4. CASE c.valid /\ c.minor \in AllowedMinors /\ Remember(c.id)
    <3>1. c.id \in AllowedIds \cup {Invalid} /\ c.id \in GpuIds \cup {Invalid}
      BY <2>2, <2>4, AllowedCard DEF Card
    <3> HIDE DEF c
    <3>2. /\ IsInjective(learned')
          /\ Len(learned') <= MaxGpus
          /\ Learned' \subseteq Learned \cup ({c.id} \ {Invalid})
      BY <2>4, <3>1, RememberFacts DEF TypeOK, LearnedSound
    <3> QED
      BY <2>1, <3>1, <3>2 DEF LearnedSound
  <2> QED
    BY <1>7, <2>3, <2>4 DEF LearnCard
<1>8. ASSUME NEW t \in Threads, MaskCards(t) \/ ScanEntry(t) \/ Return(t)
      PROVE  LearnedSound'
  BY <1>1, <1>8 DEF MaskCards, ScanEntry, Return, Ends, LearnedSound, TypeOK
<1>9. ASSUME NEW t \in Threads, Write(t)
      PROVE  LearnedSound'
  <2>1. /\ pc[t] = "write" /\ pc' = [pc EXCEPT ![t] = "listed"]
        /\ UNCHANGED <<learned, lock>>
    BY <1>9 DEF Write
  <2> QED
    BY <1>1, <2>1 DEF LearnedSound, TypeOK
<1>10. CASE UNCHANGED vars
  BY <1>1, <1>10 DEF vars, LearnedSound
<1> QED
  BY <1>2, <1>3, <1>4, <1>5, <1>6, <1>7, <1>8, <1>9, <1>10 DEF Next, InCall

-----------------------------------------------------------------------------
(* Cards are learned before they are shown. *)

(* A thread that does not move keeps its part while the others learn.        *)
LEMMA OthersTaught ==
  ASSUME TypeOK, NEW u \in Threads, ThreadTaught(u),
         pc'[u] = pc[u], cards'[u] = cards[u], i'[u] = i[u], enabled' = enabled,
         Learned \subseteq Learned', settled \subseteq settled',
         Len(learned) = MaxGpus => learned' = learned
  PROVE  ThreadTaught(u)'
<1>1. \A c : /\ Taught(c, Learned) => Taught(c, Learned)'
             /\ Taught(c, settled) => Taught(c, settled)'
  BY DEF Taught
<1> QED
  BY <1>1 DEF ThreadTaught

(* A step of thread t that learns nothing new keeps CardsInv if t keeps its  *)
(* part.                                                                     *)
LEMMA QuietStep ==
  ASSUME TypeOK, CardsInv, NEW t \in Threads, UNCHANGED <<learned, settled, enabled>>,
         \A u \in Threads \ {t} : pc'[u] = pc[u] /\ cards'[u] = cards[u] /\ i'[u] = i[u],
         ThreadTaught(t)'
  PROVE  CardsInv'
<1>1. \A u \in Threads \ {t} : ThreadTaught(u)'
  BY OthersTaught DEF CardsInv, Learned
<1> QED
  BY <1>1 DEF CardsInv, Learned

(* Every step keeps the relation between shown cards and learned ids.        *)
LEMMA CardsStep ==
  ASSUME TypeOK, LearnedSound, CardsInv, [Next]_vars
  PROVE  CardsInv'
<1> USE RmFilterAssumption DEF Goto, localVars, ghostVars
<1>1. CASE Constructor
  BY <1>1 DEF Constructor, CardsInv, ThreadTaught, Taught, Learned
<1>2. ASSUME NEW t \in Threads, NEW a \in CardAnswers, NEW b \in BOOLEAN, IoctlCards(t, a, b)
      PROVE  CardsInv'
  <2>1. ThreadTaught(t)'
    BY <1>2 DEF IoctlCards, ThreadTaught, TypeOK
  <2> QED
    BY <1>2, <2>1, QuietStep DEF IoctlCards, TypeOK
<1>3. ASSUME NEW t \in Threads, NEW q \in Queries, NEW a \in ListAnswers[q], NEW b \in BOOLEAN,
             IoctlList(t, q, a, b)
      PROVE  CardsInv'
  <2>1. ThreadTaught(t)'
    BY <1>3 DEF IoctlList, ThreadTaught, TypeOK
  <2> QED
    BY <1>3, <2>1, QuietStep DEF IoctlList, TypeOK
<1>4. ASSUME NEW t \in Threads, LearnLock(t)
      PROVE  CardsInv'
  <2>1. ThreadTaught(t)'
    <3>1. cards[t] \in CardAnswers /\ DOMAIN cards[t] = 1 .. Len(cards[t])
      BY <1>4 DEF LearnLock, CardsInv, ThreadTaught, TypeOK
    <3> QED
      BY <1>4, <3>1 DEF LearnLock, Acquire, ThreadTaught, TypeOK
  <2> QED
    BY <1>4, <2>1, QuietStep DEF LearnLock, Acquire, TypeOK
<1>5. ASSUME NEW t \in Threads, LearnCard(t)
      PROVE  CardsInv'
  <2> DEFINE c == cards[t][i[t]]
  <2>1. /\ i[t] \in DOMAIN cards[t] /\ c \in Card /\ c.id \in GpuIds \cup {Invalid}
        /\ pc[t] = "learn" /\ pc' = pc /\ cards' = cards
        /\ i' = [i EXCEPT ![t] = i[t] + 1] /\ i[t] \in Nat
        /\ UNCHANGED <<settled, enabled>>
    <3>1. cards[t] \in Seq(Card) /\ i[t] \in 1 .. Len(cards[t]) /\ i[t] \in Nat
      BY <1>5 DEF LearnCard, TypeOK
    <3>2. c \in Card
      BY <3>1
    <3> QED
      BY <1>5, <3>1, <3>2 DEF LearnCard, Card
  <2>2. /\ Learned \subseteq Learned'
        /\ Len(learned) = MaxGpus => learned' = learned
        /\ c.valid /\ c.minor \in AllowedMinors =>
             c.id \in Learned' \cup {Invalid} \/ Len(learned') = MaxGpus
    <3>1. CASE ~(c.valid /\ c.minor \in AllowedMinors) /\ UNCHANGED learned
      BY <3>1 DEF Learned
    <3>2. CASE Remember(c.id)
      <4> HIDE DEF c
      <4> QED
        BY <2>1, <3>2, RememberFacts DEF TypeOK, LearnedSound
    <3> QED
      BY <1>5, <3>1, <3>2 DEF LearnCard
  <2>3. ASSUME NEW u \in Threads, u # t
        PROVE  ThreadTaught(u)'
    BY <2>1, <2>2, <2>3, OthersTaught DEF CardsInv, TypeOK
  <2>4. ThreadTaught(t)'
    <3>1. cards[t] \in CardAnswers
      BY <2>1 DEF CardsInv, ThreadTaught
    <3>2. ASSUME NEW j \in DOMAIN cards[t], j < i'[t]
          PROVE  Taught(cards[t][j], Learned)'
      <4>1. j = i[t] \/ j < i[t]
        BY <2>1, <3>2 DEF TypeOK
      <4>2. CASE j = i[t]
        BY <2>1, <2>2, <4>2 DEF Taught
      <4>3. CASE j < i[t]
        <5>1. Taught(cards[t][j], Learned)
          BY <2>1, <4>3 DEF CardsInv, ThreadTaught
        <5> QED
          BY <2>1, <2>2, <5>1 DEF Taught
      <4> QED
        BY <4>1, <4>2, <4>3
    <3> QED
      BY <2>1, <3>1, <3>2 DEF ThreadTaught
  <2> QED
    BY <2>1, <2>2, <2>3, <2>4 DEF CardsInv
<1>6. ASSUME NEW t \in Threads, LearnUnlock(t)
      PROVE  CardsInv'
  <2>1. /\ pc[t] = "learn" /\ pc' = [pc EXCEPT ![t] = "mask"]
        /\ i[t] > Len(cards[t]) /\ settled' = Learned
        /\ UNCHANGED <<learned, enabled, cards, i>>
    BY <1>6 DEF LearnUnlock
  <2>2. Learned' = Learned /\ settled \subseteq settled'
    BY <2>1 DEF Learned, CardsInv
  <2>3. ASSUME NEW u \in Threads, u # t
        PROVE  ThreadTaught(u)'
    BY <2>1, <2>2, <2>3, OthersTaught DEF CardsInv, TypeOK
  <2>4. ThreadTaught(t)'
    <3>1. \A j \in DOMAIN cards[t] : j < i[t]
      BY <2>1 DEF TypeOK
    <3>2. \A j \in DOMAIN cards[t] : Taught(cards[t][j], Learned)
      BY <2>1, <3>1 DEF CardsInv, ThreadTaught
    <3> QED
      BY <2>1, <2>2, <3>2 DEF ThreadTaught, Taught, TypeOK
  <2> QED
    BY <2>1, <2>2, <2>3, <2>4 DEF CardsInv
<1>7. ASSUME NEW t \in Threads, MaskCards(t)
      PROVE  CardsInv'
  <2>1. /\ pc[t] = "mask" /\ pc' = [pc EXCEPT ![t] = "masked"]
        /\ UNCHANGED <<learned, settled, enabled, i>>
    BY <1>7 DEF MaskCards
  <2>2. ThreadTaught(t)'
    <3>1. \A j \in DOMAIN cards[t] : Taught(cards[t][j], settled)
      BY <2>1 DEF CardsInv, ThreadTaught
    <3> QED
      BY <1>7, <2>1, <3>1, MaskFacts DEF ThreadTaught, Taught, TypeOK
  <2> QED
    BY <1>7, <2>1, <2>2, MaskFacts, QuietStep DEF TypeOK
<1>8. ASSUME NEW t \in Threads, ScanLock(t)
      PROVE  CardsInv'
  <2>1. ThreadTaught(t)'
    BY <1>8 DEF ScanLock, Acquire, ThreadTaught, TypeOK
  <2> QED
    BY <1>8, <2>1, QuietStep DEF ScanLock, Acquire, TypeOK
<1>9. ASSUME NEW t \in Threads, ScanNothing(t) \/ ScanUnlock(t)
      PROVE  CardsInv'
  <2>1. ThreadTaught(t)'
    BY <1>9 DEF ScanNothing, ScanUnlock, ThreadTaught, TypeOK
  <2> QED
    BY <1>9, <2>1, QuietStep DEF ScanNothing, ScanUnlock, TypeOK
<1>10. ASSUME NEW t \in Threads, ScanEntry(t)
       PROVE  CardsInv'
  <2>1. ThreadTaught(t)'
    BY <1>10 DEF ScanEntry, ThreadTaught, TypeOK
  <2> QED
    BY <1>10, <2>1, QuietStep DEF ScanEntry, TypeOK
<1>11. ASSUME NEW t \in Threads, Write(t)
       PROVE  CardsInv'
  <2>1. /\ pc' = [pc EXCEPT ![t] = "listed"]
        /\ UNCHANGED <<learned, enabled, cards, i, settled>>
    BY <1>11 DEF Write
  <2>2. ThreadTaught(t)'
    BY <2>1 DEF ThreadTaught, TypeOK
  <2> QED
    BY <2>1, <2>2, QuietStep DEF TypeOK
<1>12. ASSUME NEW t \in Threads, Return(t)
       PROVE  CardsInv'
  <2>1. ThreadTaught(t)'
    BY <1>12 DEF Return, ThreadTaught, TypeOK
  <2> QED
    BY <1>12, <2>1, QuietStep DEF Return, TypeOK
<1>13. CASE UNCHANGED vars
  BY <1>13 DEF vars, CardsInv, ThreadTaught, Taught, Learned
<1> QED
  BY <1>1, <1>2, <1>3, <1>4, <1>5, <1>6, <1>7, <1>8, <1>9, <1>10, <1>11, <1>12,
     <1>13 DEF Next, InCall

-----------------------------------------------------------------------------
(* The theorems. *)

FilterInv == TypeOK /\ LearnedSound /\ CardsInv

(* FilterInv is inductive.                                                   *)
LEMMA FilterInvariant == Spec => []FilterInv
<1>1. Init => FilterInv
  <2> SUFFICES ASSUME Init
               PROVE  FilterInv
    OBVIOUS
  <2>1. TypeOK
    BY InitTyped
  <2>2. LearnedSound
    BY RmFilterAssumption DEF Init, LearnedSound, Learned, Range, IsInjective
  <2>3. CardsInv
    BY DEF Init, CardsInv, ThreadTaught
  <2> QED
    BY <2>1, <2>2, <2>3 DEF FilterInv
<1>2. FilterInv /\ [Next]_vars => FilterInv'
  BY TypeStep, LearnedStep, CardsStep DEF FilterInv
<1> QED
  BY <1>1, <1>2, PTL DEF Spec

(* The variables of the Resource Manager filter keep their types.            *)
THEOREM TypeCorrect == Spec => []TypeOK
<1>1. FilterInv => TypeOK
  BY DEF FilterInv
<1> QED
  BY <1>1, FilterInvariant, PTL

(* No id of a GPU of another container is ever learned, whatever the driver  *)
(* answers and however CARD_INFO calls interleave.                           *)
THEOREM OnlyAllowedLearned == Spec => []LearnedSound
<1>1. FilterInv => LearnedSound
  BY DEF FilterInv
<1> QED
  BY <1>1, FilterInvariant, PTL

(* Every card the process sees is allowed, and its id was learned first.     *)
THEOREM ShownCardsAreLearned == Spec => []CardsTaught
<1>1. FilterInv => CardsTaught
  BY DEF FilterInv, CardsInv, ThreadTaught, CardsTaught, Taught, Range
<1> QED
  BY <1>1, FilterInvariant, PTL
-----------------------------------------------------------------------------
(* The invariant of the queries. *)

(* Between a query's first look at the table and its return.                 *)
Looked == {"scan", "write", "listed"}

(* The table changes inside a critical section only, by ids of one answer.   *)
LearnInv ==
  /\ \A t \in Threads : pc[t] = "learn" => Learned \subseteq settled \cup AllowedIn(cards[t])
  /\ (\A t \in Threads : pc[t] # "learn") => Learned = settled

(* How far a query has come: what the driver answered is still in the array  *)
(* while it is scanned, and the entries kept so far are those of its         *)
(* beginning that are in the table; at the end the process reads an answer   *)
(* computed from one state of the table.                                     *)
Begun(t) ==
  /\ req[t] \in Queries
  /\ req[t] = "attached" => Len(list[t].ids) <= MaxGpus

Scanned(t) ==
  /\ seen[t] = Learned
  /\ i[t] - 1 <= Len(list[t].ids)
  /\ \A j \in 1 .. i[t] - 1 : Listed(req[t], list[t], j)
  /\ Len(kept[t]) < i[t]
  /\ AllowList!Restricts(kept[t], SubSeq(list[t].ids, 1, i[t] - 1), seen[t])

ToWrite(t) ==
  /\ kept[t] # <<>>
  /\ Len(kept[t]) <= Len(asked[t]) /\ Len(asked[t]) <= Len(list[t].ids)
  /\ AllowList!Restricts(kept[t], asked[t], seen[t])

Answered(t) ==
  LET answer == Visible(req[t], list[t])
  IN  /\ Len(answer) <= Len(asked[t])
      /\ AllowList!Answers(answer, asked[t], seen[t])

ListInv(t) ==
  /\ pc[t] \in Looked \cup {"scan_lock"} => Begun(t)
  /\ pc[t] \in {"scan_lock", "scan"} => asked[t] = Visible(req[t], list[t])
  /\ IF pc[t] \in Looked THEN seen[t] \subseteq AllowedIds
                         ELSE kept[t] = <<>> /\ seen[t] = {}
  /\ pc[t] = "scan"   => Scanned(t)
  /\ pc[t] = "write"  => ToWrite(t)
  /\ pc[t] = "listed" => Answered(t)

(* Until the table is full, what CARD_INFO has shown is learned, and a query *)
(* is answered from a table that holds all that was shown when it began.     *)
PromiseInv ==
  Len(learned) < MaxGpus =>
    /\ shown \subseteq settled
    /\ \A t \in Threads :
         /\ promised[t] \subseteq shown
         /\ pc[t] \in Looked => promised[t] \subseteq seen[t]

QueryInv == LearnInv /\ PromiseInv /\ \A t \in Threads : ListInv(t)
-----------------------------------------------------------------------------
(* The entries of a list that are in a set. *)

(* Nothing is left of the empty list.                                        *)
LEMMA RestrictsEmpty ==
  ASSUME NEW s, NEW S, s = <<>>
  PROVE  AllowList!Restricts(<<>>, s, S)
<1> DEFINE p == [j \in {} |-> j]
<1>1. DOMAIN s = {} /\ DOMAIN <<>> = {}
  OBVIOUS
<1>2. p \in [DOMAIN <<>> -> DOMAIN s]
  BY <1>1
<1> QED
  BY <1>1, <1>2 DEF AllowList!Restricts

(* One more entry: it is kept when it is in the set.                         *)
LEMMA RestrictsNext ==
  ASSUME NEW X, NEW s \in Seq(X), NEW n \in Nat, n + 1 <= Len(s), NEW r \in Seq(X), NEW S,
         AllowList!Restricts(r, SubSeq(s, 1, n), S)
  PROVE  AllowList!Restricts(IF s[n + 1] \in S THEN Append(r, s[n + 1]) ELSE r,
                             SubSeq(s, 1, n + 1), S)
<1> DEFINE l == SubSeq(s, 1, n)
           m == SubSeq(s, 1, n + 1)
           x == s[n + 1]
           k == Len(r)
<1>1. /\ DOMAIN l = 1 .. n /\ DOMAIN m = 1 .. n + 1
      /\ \A j \in 1 .. n : l[j] = s[j] /\ m[j] = s[j]
      /\ m[n + 1] = x
  OBVIOUS
<1>2. k \in Nat /\ DOMAIN r = 1 .. k /\ x \in X
  OBVIOUS
<1>3. PICK p \in [DOMAIN r -> DOMAIN l] :
         /\ \A j, h \in DOMAIN r : j < h => p[j] < p[h]
         /\ \A h \in DOMAIN r : r[h] = l[p[h]]
         /\ {p[h] : h \in DOMAIN r} = {j \in DOMAIN l : l[j] \in S}
  BY DEF AllowList!Restricts
<1> HIDE DEF l, m, k
<1>4. CASE x \notin S
  <2>1. p \in [DOMAIN r -> DOMAIN m]
    BY <1>1, <1>2, <1>3
  <2>2. \A h \in DOMAIN r : r[h] = m[p[h]]
    BY <1>1, <1>2, <1>3
  <2>3. {j \in DOMAIN l : l[j] \in S} = {j \in DOMAIN m : m[j] \in S}
    BY <1>1, <1>4
  <2>4. AllowList!Restricts(r, m, S)
    BY <1>3, <2>1, <2>2, <2>3 DEF AllowList!Restricts
  <2> QED
    BY <1>4, <2>4 DEF m
<1>5. CASE x \in S
  <2> DEFINE a == Append(r, x)
             q == [h \in 1 .. k + 1 |-> IF h = k + 1 THEN n + 1 ELSE p[h]]
  <2>1. /\ DOMAIN a = 1 .. k + 1 /\ a[k + 1] = x
        /\ \A h \in 1 .. k : a[h] = r[h]
    BY <1>2 DEF k
  <2>2. q \in [DOMAIN a -> DOMAIN m]
    BY <1>1, <1>2, <1>3, <2>1
  <2>3. \A j, h \in DOMAIN a : j < h => q[j] < q[h]
    <3> SUFFICES ASSUME NEW j \in 1 .. k + 1, NEW h \in 1 .. k + 1, j < h
                 PROVE  q[j] < q[h]
      BY <2>1
    <3>1. j \in 1 .. k /\ q[j] = p[j] /\ p[j] \in 1 .. n
      BY <1>1, <1>2, <1>3
    <3>2. CASE h = k + 1
      BY <3>1, <3>2
    <3>3. CASE h \in 1 .. k
      <4>1. q[h] = p[h] /\ h \in DOMAIN r /\ j \in DOMAIN r
        BY <1>2, <3>1, <3>3
      <4> HIDE DEF q
      <4>2. p[j] < p[h]
        BY <1>3, <4>1
      <4> QED
        BY <3>1, <4>1, <4>2
    <3> QED
      BY <1>2, <3>2, <3>3
  <2>4. \A h \in DOMAIN a : a[h] = m[q[h]]
    <3> SUFFICES ASSUME NEW h \in 1 .. k + 1
                 PROVE  a[h] = m[q[h]]
      BY <2>1
    <3>1. CASE h = k + 1
      BY <1>1, <2>1, <3>1
    <3>2. CASE h \in 1 .. k
      <4>0. q[h] = p[h]
        BY <1>2, <3>2
      <4> HIDE DEF a, q
      <4>1. q[h] = p[h] /\ p[h] \in 1 .. n /\ r[h] = l[p[h]]
        BY <1>1, <1>2, <1>3, <3>2, <4>0
      <4>2. a[h] = r[h]
        BY <2>1, <3>2
      <4>3. m[p[h]] = l[p[h]]
        BY <1>1, <4>1
      <4> QED
        BY <4>1, <4>2, <4>3
    <3> QED
      BY <1>2, <3>1, <3>2
  <2>5. {q[h] : h \in DOMAIN a} = {j \in DOMAIN m : m[j] \in S}
    <3>1. {q[h] : h \in DOMAIN a} = {p[h] : h \in DOMAIN r} \cup {n + 1}
      BY <1>2, <2>1
    <3>2. {j \in DOMAIN m : m[j] \in S} = {j \in DOMAIN l : l[j] \in S} \cup {n + 1}
      BY <1>1, <1>5
    <3> QED
      BY <1>3, <3>1, <3>2
  <2>6. AllowList!Restricts(a, m, S)
    <3> HIDE DEF a, q
    <3> QED
      BY <2>2, <2>3, <2>4, <2>5 DEF AllowList!Restricts
  <2> QED
    BY <1>5, <2>6 DEF m
<1> QED
  BY <1>4, <1>5

(* What is left is made of the list's entries in the set, all of them.       *)
LEMMA RestrictsRange ==
  ASSUME NEW r, NEW s, NEW S, AllowList!Restricts(r, s, S)
  PROVE  Range(r) = Range(s) \cap S
<1>1. PICK p \in [DOMAIN r -> DOMAIN s] :
         /\ \A h \in DOMAIN r : r[h] = s[p[h]]
         /\ {p[h] : h \in DOMAIN r} = {j \in DOMAIN s : s[j] \in S}
  BY DEF AllowList!Restricts
<1>2. ASSUME NEW h \in DOMAIN r
      PROVE  r[h] \in Range(s) \cap S
  <2>1. p[h] \in DOMAIN s /\ s[p[h]] \in S
    BY <1>1
  <2> QED
    BY <1>1, <2>1 DEF Range
<1>3. ASSUME NEW j \in DOMAIN s, s[j] \in S
      PROVE  s[j] \in Range(r)
  <2>1. PICK h \in DOMAIN r : p[h] = j
    BY <1>1, <1>3
  <2> QED
    BY <1>1, <2>1 DEF Range
<1> QED
  BY <1>2, <1>3 DEF Range

-----------------------------------------------------------------------------
(* The table changes inside a critical section only. *)

(* Between critical sections the learned ids are the settled ones.           *)
LEMMA LearnStep ==
  ASSUME TypeOK, LearnedSound, CardsInv, LearnInv, [Next]_vars
  PROVE  LearnInv'
<1> USE RmFilterAssumption DEF Goto, localVars, ghostVars
<1>1. ASSUME UNCHANGED <<learned, settled>>,
             \A t \in Threads : pc[t] = "learn" <=> pc'[t] = "learn",
             \A t \in Threads : pc[t] = "learn" => cards'[t] = cards[t]
      PROVE  LearnInv'
  BY <1>1 DEF LearnInv, Learned
<1>2. CASE Constructor
  BY <1>1, <1>2 DEF Constructor
<1>3. ASSUME NEW t \in Threads, NEW a \in CardAnswers, NEW b \in BOOLEAN, IoctlCards(t, a, b)
      PROVE  LearnInv'
  BY <1>1, <1>3 DEF IoctlCards, Idle, TypeOK
<1>4. ASSUME NEW t \in Threads, NEW q \in Queries, NEW a \in ListAnswers[q], NEW b \in BOOLEAN,
             IoctlList(t, q, a, b)
      PROVE  LearnInv'
  BY <1>1, <1>4 DEF IoctlList, Idle, TypeOK
<1>5. ASSUME NEW t \in Threads, LearnLock(t)
      PROVE  LearnInv'
  <2>1. /\ pc' = [pc EXCEPT ![t] = "learn"] /\ UNCHANGED <<learned, settled>>
        /\ \A u \in Threads : pc[u] # "learn"
    BY <1>5 DEF LearnLock, Acquire, LearnedSound
  <2>2. Learned = settled /\ Learned' = Learned
    BY <2>1 DEF LearnInv, Learned
  <2> QED
    BY <2>1, <2>2 DEF LearnInv, TypeOK
<1>6. ASSUME NEW t \in Threads, LearnCard(t)
      PROVE  LearnInv'
  <2> DEFINE c == cards[t][i[t]]
  <2>1. /\ pc[t] = "learn" /\ UNCHANGED <<pc, cards, settled>>
        /\ \A u \in Threads : pc[u] = "learn" => u = t
    BY <1>6 DEF LearnCard, LearnedSound
  <2>2. i[t] \in DOMAIN cards[t] /\ c \in Card
    BY <1>6 DEF LearnCard, TypeOK
  <2>3. Learned' \subseteq Learned \cup AllowedIn(cards[t])
    <3>1. CASE UNCHANGED learned
      BY <3>1 DEF Learned
    <3>2. CASE c.valid /\ c.minor \in AllowedMinors /\ Remember(c.id)
      <4>1. c \in Range(cards[t]) /\ c.id \in GpuIds \cup {Invalid}
        BY <2>2 DEF Range, Card
      <4>2. {c.id} \ {Invalid} \subseteq AllowedIn(cards[t])
        BY <3>2, <4>1 DEF AllowedIn
      <4> HIDE DEF c
      <4>3. Learned' \subseteq Learned \cup ({c.id} \ {Invalid})
        BY <3>2, <4>1, RememberFacts DEF TypeOK, LearnedSound
      <4> QED
        BY <4>2, <4>3
    <3> QED
      BY <1>6, <3>1, <3>2 DEF LearnCard
  <2> QED
    BY <2>1, <2>3 DEF LearnInv
<1>7. ASSUME NEW t \in Threads, LearnUnlock(t)
      PROVE  LearnInv'
  <2>1. /\ pc' = [pc EXCEPT ![t] = "mask"] /\ UNCHANGED learned /\ settled' = Learned
        /\ \A u \in Threads : pc[u] = "learn" => u = t
    BY <1>7 DEF LearnUnlock, LearnedSound
  <2>2. Learned' = settled'
    BY <2>1 DEF Learned
  <2> QED
    BY <2>1, <2>2 DEF LearnInv, TypeOK
<1>8. ASSUME NEW t \in Threads,
             \/ MaskCards(t) \/ ScanLock(t) \/ ScanNothing(t) \/ ScanEntry(t) \/ ScanUnlock(t)
      PROVE  LearnInv'
  BY <1>1, <1>8, MaskFacts DEF MaskCards, ScanLock, ScanNothing, ScanEntry, ScanUnlock, TypeOK
<1>9. ASSUME NEW t \in Threads, Write(t)
      PROVE  LearnInv'
  <2>1. /\ pc[t] = "write" /\ pc' = [pc EXCEPT ![t] = "listed"]
        /\ UNCHANGED <<learned, settled, cards>>
    BY <1>9 DEF Write
  <2> QED
    BY <1>1, <2>1 DEF TypeOK
<1>10. ASSUME NEW t \in Threads, Return(t)
      PROVE  LearnInv'
  BY <1>1, <1>10 DEF Return, Ends, TypeOK
<1>11. CASE UNCHANGED vars
  BY <1>1, <1>11 DEF vars
<1> QED
  BY <1>2, <1>3, <1>4, <1>5, <1>6, <1>7, <1>8, <1>9, <1>10, <1>11 DEF Next, InCall

-----------------------------------------------------------------------------
(* What was shown before a query is in the table it is answered from. *)

(* The table never shrinks, and a full one stays as it is.                   *)
LEMMA TableGrows ==
  ASSUME TypeOK, LearnedSound, [Next]_vars
  PROVE  /\ Learned \subseteq Learned'
         /\ Len(learned') < MaxGpus => Len(learned) < MaxGpus
<1> USE RmFilterAssumption DEF Goto, localVars, ghostVars
<1>1. ASSUME NEW t \in Threads, LearnCard(t)
      PROVE  /\ Learned \subseteq Learned'
             /\ Len(learned') < MaxGpus => Len(learned) < MaxGpus
  <2> DEFINE c == cards[t][i[t]]
  <2>1. CASE UNCHANGED learned
    BY <2>1 DEF Learned
  <2>2. CASE Remember(c.id)
    <3>1. c \in Card
      BY <1>1 DEF LearnCard, TypeOK
    <3>2. c.id \in GpuIds \cup {Invalid}
      BY <3>1 DEF Card
    <3> HIDE DEF c
    <3>3. /\ Learned \subseteq Learned' /\ Len(learned) <= MaxGpus
          /\ Len(learned) = MaxGpus => learned' = learned
      BY <2>2, <3>2, RememberFacts DEF TypeOK, LearnedSound
    <3>4. Len(learned) \in Nat
      BY DEF TypeOK
    <3> QED
      BY <3>3, <3>4
  <2> QED
    BY <1>1, <2>1, <2>2 DEF LearnCard
<1>2. CASE UNCHANGED learned
  BY <1>2 DEF Learned
<1>3. CASE \E t \in Threads : Write(t)
  BY <1>2, <1>3 DEF Write
<1>4. ASSUME NEW t \in Threads, InCall(t), ~LearnCard(t), ~Write(t)
      PROVE  UNCHANGED learned
  BY <1>4 DEF InCall, LearnLock, LearnUnlock, MaskCards, ScanLock, ScanNothing, ScanEntry,
             ScanUnlock, Return
<1>5. ASSUME NEW t \in Threads, NEW a \in CardAnswers, NEW b \in BOOLEAN, IoctlCards(t, a, b)
      PROVE  UNCHANGED learned
  BY <1>5 DEF IoctlCards
<1>6. ASSUME NEW t \in Threads, NEW q \in Queries, NEW a \in ListAnswers[q], NEW b \in BOOLEAN,
             IoctlList(t, q, a, b)
      PROVE  UNCHANGED learned
  BY <1>6 DEF IoctlList
<1> QED
  BY <1>1, <1>2, <1>3, <1>4, <1>5, <1>6 DEF Next, Constructor, vars

(* Ids that a masked CARD_INFO answer shows are learned, unless the table is *)
(* full.                                                                     *)
LEMMA ShownAreSettled ==
  ASSUME TypeOK, CardsInv, NEW t \in Threads, pc[t] = "masked", enabled,
         Len(learned) < MaxGpus
  PROVE  ValidIds(cards[t]) \subseteq settled
<1>1. Len(learned) # MaxGpus
  BY RmFilterAssumption DEF TypeOK
<1>2. ASSUME NEW j \in DOMAIN cards[t], cards[t][j].valid
      PROVE  cards[t][j].id \in settled \cup {Invalid}
  BY <1>1, <1>2 DEF CardsInv, ThreadTaught, Taught
<1>3. ASSUME NEW c \in Range(cards[t]), c.valid
      PROVE  c.id \in settled \cup {Invalid}
  BY <1>2, <1>3 DEF Range
<1> QED
  BY <1>3 DEF ValidIds

(* Every step keeps the promises of the queries in progress.                 *)
LEMMA PromiseStep ==
  ASSUME TypeOK, LearnedSound, CardsInv, LearnInv, PromiseInv, [Next]_vars
  PROVE  PromiseInv'
<1> USE DEF Goto, localVars, ghostVars
<1> SUFFICES ASSUME Len(learned') < MaxGpus
             PROVE  /\ shown' \subseteq settled'
                    /\ \A u \in Threads :
                         /\ promised'[u] \subseteq shown'
                         /\ pc'[u] \in Looked => promised'[u] \subseteq seen'[u]
  BY DEF PromiseInv
<1>1. Len(learned) < MaxGpus /\ Learned \subseteq Learned'
  BY TableGrows
<1>2. /\ shown \subseteq settled /\ settled \subseteq Learned
      /\ \A u \in Threads : /\ promised[u] \subseteq shown
                            /\ pc[u] \in Looked => promised[u] \subseteq seen[u]
  BY <1>1 DEF PromiseInv, CardsInv
<1>3. ASSUME UNCHANGED <<shown, settled, promised, seen>>,
             \A u \in Threads : pc'[u] \in Looked => pc[u] \in Looked
      PROVE  PromiseInv'
  BY <1>2, <1>3 DEF PromiseInv
<1>4. CASE Constructor \/ UNCHANGED vars
  BY <1>2, <1>4 DEF Constructor, vars
<1>5. ASSUME NEW t \in Threads, NEW a \in CardAnswers, NEW b \in BOOLEAN, IoctlCards(t, a, b)
      PROVE  PromiseInv'
  BY <1>2, <1>5 DEF IoctlCards, PromiseInv, Looked, TypeOK
<1>6. ASSUME NEW t \in Threads, NEW q \in Queries, NEW a \in ListAnswers[q], NEW b \in BOOLEAN,
             IoctlList(t, q, a, b)
      PROVE  PromiseInv'
  BY <1>2, <1>6 DEF IoctlList, PromiseInv, Looked, TypeOK
<1>7. ASSUME NEW t \in Threads, LearnLock(t) \/ LearnCard(t) \/ MaskCards(t)
      PROVE  PromiseInv'
  BY <1>3, <1>7 DEF LearnLock, LearnCard, MaskCards, Looked, TypeOK
<1>8. ASSUME NEW t \in Threads, LearnUnlock(t)
      PROVE  PromiseInv'
  <2>1. /\ UNCHANGED <<shown, promised, seen>> /\ settled' = Learned
        /\ pc' = [pc EXCEPT ![t] = "mask"]
    BY <1>8 DEF LearnUnlock
  <2> QED
    BY <1>2, <2>1 DEF PromiseInv, Looked, TypeOK
<1>9. ASSUME NEW t \in Threads, ScanLock(t)
      PROVE  PromiseInv'
  <2>1. /\ UNCHANGED <<shown, promised, settled>> /\ seen' = [seen EXCEPT ![t] = Learned]
        /\ pc' = [pc EXCEPT ![t] = "scan"]
    BY <1>9 DEF ScanLock
  <2> QED
    BY <1>2, <2>1 DEF PromiseInv, Looked, TypeOK
<1>10. ASSUME NEW t \in Threads, ScanNothing(t) \/ ScanEntry(t) \/ ScanUnlock(t)
       PROVE  PromiseInv'
  BY <1>3, <1>10 DEF ScanNothing, ScanEntry, ScanUnlock, Looked, TypeOK
<1>11. ASSUME NEW t \in Threads, Write(t)
       PROVE  PromiseInv'
  <2>1. /\ UNCHANGED <<shown, promised, settled, seen>>
        /\ pc[t] = "write" /\ pc' = [pc EXCEPT ![t] = "listed"]
    BY <1>11 DEF Write
  <2> QED
    BY <1>3, <2>1 DEF Looked, TypeOK
<1>12. ASSUME NEW t \in Threads, Return(t)
       PROVE  PromiseInv'
  <2>1. /\ UNCHANGED settled /\ pc' = [pc EXCEPT ![t] = "idle"]
        /\ seen' = [seen EXCEPT ![t] = {}] /\ promised' = [promised EXCEPT ![t] = {}]
        /\ shown' = IF pc[t] = "masked" /\ enabled THEN shown \cup ValidIds(cards[t]) ELSE shown
    BY <1>12 DEF Return
  <2>2. pc[t] = "masked" /\ enabled => ValidIds(cards[t]) \subseteq settled
    BY <1>1, ShownAreSettled
  <2>3. shown \subseteq shown' /\ shown' \subseteq settled'
    BY <1>2, <2>1, <2>2
  <2> QED
    BY <1>2, <2>1, <2>3 DEF PromiseInv, Looked, TypeOK
<1> QED
  BY <1>4, <1>5, <1>6, <1>7, <1>8, <1>9, <1>10, <1>11, <1>12 DEF Next, InCall, PromiseInv

-----------------------------------------------------------------------------
(* Queries. *)

(* A query whose thread does not move stands where it stood, for the table   *)
(* changes while no query is being answered.                                 *)
LEMMA QueryWaits ==
  ASSUME NEW u \in Threads, ListInv(u),
         pc'[u] = pc[u], req'[u] = req[u], list'[u] = list[u], i'[u] = i[u],
         kept'[u] = kept[u], asked'[u] = asked[u], seen'[u] = seen[u],
         pc[u] = "scan" => learned' = learned
  PROVE  ListInv(u)'
<1>1. Begun(u) => Begun(u)'
  BY DEF Begun
<1>2. Scanned(u) /\ learned' = learned => Scanned(u)'
  BY DEF Scanned, Learned
<1>3. ToWrite(u) => ToWrite(u)'
  BY DEF ToWrite
<1>4. Answered(u) => Answered(u)'
  BY DEF Answered
<1> QED
  BY <1>1, <1>2, <1>3, <1>4 DEF ListInv

(* The scan starts with nothing kept.                                        *)
LEMMA ScanBegins ==
  ASSUME TypeOK, LearnedSound, NEW t \in Threads, ListInv(t), ScanLock(t)
  PROVE  ListInv(t)'
<1>1. /\ pc[t] = "scan_lock" /\ pc'[t] = "scan"
      /\ i'[t] = 1 /\ seen'[t] = Learned
      /\ UNCHANGED <<learned, req, list, kept, asked>>
  BY DEF ScanLock, Acquire, Goto, TypeOK
<1>2. kept[t] = <<>> /\ Begun(t) /\ asked[t] = Visible(req[t], list[t])
  BY <1>1 DEF ListInv, Looked
<1>3. Learned' = Learned /\ Learned \subseteq AllowedIds
  BY <1>1 DEF Learned, LearnedSound
<1> DEFINE s == list[t].ids
<1>4. Len(s) \in Nat /\ SubSeq(s, 1, 0) = <<>>
  <2>1. s \in Seq(GpuIds \cup {Invalid})
    BY DEF TypeOK, List
  <2> HIDE DEF s
  <2> QED
    BY <2>1
<1>5. AllowList!Restricts(<<>>, SubSeq(s, 1, 0), Learned)
  BY <1>4, RestrictsEmpty
<1>6. i'[t] - 1 = 0 /\ Len(kept'[t]) = 0
  BY <1>1, <1>2
<1>7. Scanned(t)'
  BY <1>1, <1>2, <1>3, <1>4, <1>5, <1>6 DEF Scanned
<1>8. Begun(t)' /\ seen'[t] \subseteq AllowedIds /\ asked'[t] = Visible(req'[t], list'[t])
  BY <1>1, <1>2, <1>3 DEF Begun
<1> QED
  BY <1>1, <1>7, <1>8 DEF ListInv, Looked

(* An entry is kept exactly when it is in the table: the bound on the array  *)
(* of kept entries never stops one.                                          *)
LEMMA ScanGoesOn ==
  ASSUME TypeOK, NEW t \in Threads, ListInv(t), ScanEntry(t)
  PROVE  ListInv(t)'
<1> DEFINE s == list[t].ids
           n == i[t] - 1
           x == s[i[t]]
           k == kept[t]
<1>1. /\ pc[t] = "scan" /\ More(t) /\ Keep(t, x)
      /\ i'[t] = i[t] + 1
      /\ UNCHANGED <<learned, pc, req, list, asked, seen>>
  BY DEF ScanEntry, TypeOK, ghostVars
<1>2. /\ Begun(t) /\ Scanned(t) /\ asked[t] = Visible(req[t], list[t])
      /\ seen[t] \subseteq AllowedIds
  BY <1>1 DEF ListInv, Looked
<1>3. /\ s \in Seq(GpuIds \cup {Invalid}) /\ k \in Seq(GpuIds)
      /\ i[t] \in Nat \ {0} /\ n \in Nat /\ n + 1 = i[t]
  BY DEF TypeOK, List
<1>4. i[t] <= Len(s) /\ Listed(req[t], list[t], i[t])
  BY <1>1 DEF More
<1>5. Len(k) < i[t] /\ AllowList!Restricts(k, SubSeq(s, 1, n), seen[t]) /\ seen[t] = Learned
      /\ \A j \in 1 .. n : Listed(req[t], list[t], j)
  BY <1>2 DEF Scanned
<1>6. req[t] = "attached" => Len(k) < MaxGpus
  <2>1. req[t] = "attached" => Len(s) <= MaxGpus
    BY <1>2 DEF Begun
  <2> HIDE DEF s, k
  <2>2. Len(s) \in Nat /\ Len(k) \in Nat
    BY <1>3
  <2> QED
    BY <1>3, <1>4, <1>5, <2>1, <2>2, RmFilterAssumption
<1>7. kept'[t] = IF x \in Learned THEN Append(k, x) ELSE k
  BY <1>1, <1>6 DEF Keep, TypeOK
<1>8. AllowList!Restricts(kept'[t], SubSeq(s, 1, n + 1), seen[t])
  <2>1. k \in Seq(GpuIds \cup {Invalid}) /\ n + 1 <= Len(s) /\ x = s[n + 1]
    BY <1>3, <1>4
  <2> HIDE DEF s, n, x, k
  <2> QED
    BY <1>3, <1>5, <1>7, <2>1, RestrictsNext
<1>9. Len(kept'[t]) < i'[t]
  <2> HIDE DEF s, n, x, k
  <2>1. Len(k) \in Nat /\ Len(Append(k, x)) = Len(k) + 1
    BY <1>3
  <2> QED
    BY <1>1, <1>3, <1>5, <1>7, <2>1
<1>10. Scanned(t)'
  <2>1. i'[t] - 1 = n + 1 /\ n + 1 = i[t]
    BY <1>1, <1>3
  <2>2. \A j \in 1 .. n + 1 : Listed(req[t], list[t], j)
    BY <1>3, <1>4, <1>5
  <2>3. Learned' = Learned
    BY <1>1 DEF Learned
  <2> HIDE DEF n, x, k
  <2> QED
    BY <1>1, <1>4, <1>5, <1>8, <1>9, <2>1, <2>2, <2>3 DEF Scanned
<1>11. Begun(t)'
  BY <1>1, <1>2 DEF Begun
<1> QED
  BY <1>1, <1>2, <1>10, <1>11 DEF ListInv, Looked

(* At the end of the scan the kept entries are those of the driver's list    *)
(* that are in the table; without one, the list stays as it is.              *)
LEMMA ScanEnds ==
  ASSUME TypeOK, NEW t \in Threads, ListInv(t), ScanUnlock(t)
  PROVE  ListInv(t)'
<1> DEFINE s == list[t].ids
           n == i[t] - 1
<1>1. /\ pc[t] = "scan" /\ ~More(t)
      /\ pc'[t] = IF kept[t] = <<>> THEN "listed" ELSE "write"
      /\ UNCHANGED <<learned, req, list, i, kept, asked, seen>>
  BY DEF ScanUnlock, Goto, TypeOK, ghostVars
<1>2. /\ Begun(t) /\ Scanned(t) /\ asked[t] = Visible(req[t], list[t])
      /\ seen[t] \subseteq AllowedIds
  BY <1>1 DEF ListInv, Looked
<1>3. /\ s \in Seq(GpuIds \cup {Invalid}) /\ kept[t] \in Seq(GpuIds)
      /\ i[t] \in Nat \ {0} /\ n \in Nat /\ n + 1 = i[t]
  BY DEF TypeOK, List
<1>4. n <= Len(s) /\ EndsAt(req[t], list[t], n)
  <2>1. n <= Len(s) /\ \A j \in 1 .. n : Listed(req[t], list[t], j)
    BY <1>2 DEF Scanned
  <2>2. n < Len(s) => ~Listed(req[t], list[t], n + 1)
    <3>1. ~(i[t] <= Len(s) /\ Listed(req[t], list[t], i[t]))
      BY <1>1 DEF More
    <3>2. Len(s) \in Nat
      BY <1>3
    <3> HIDE DEF s, n
    <3> QED
      BY <1>3, <3>1, <3>2
  <2> QED
    BY <2>1, <2>2 DEF EndsAt
<1>5. asked[t] = SubSeq(s, 1, n)
  <2>1. Len(s) \in Nat
    BY <1>3
  <2>2. n \in 0 .. Len(s)
    BY <1>3, <1>4, <2>1
  <2> QED
    BY <1>2, <1>4, <2>1, <2>2, VisibleIs
<1>6. /\ AllowList!Restricts(kept[t], asked[t], seen[t])
      /\ Len(kept[t]) <= Len(asked[t]) /\ Len(asked[t]) <= Len(s)
  <2>1. Len(kept[t]) < i[t] /\ AllowList!Restricts(kept[t], SubSeq(s, 1, n), seen[t])
    BY <1>2 DEF Scanned
  <2> HIDE DEF s, n
  <2>2. Len(asked[t]) = n
    BY <1>3, <1>4, <1>5
  <2>3. Len(kept[t]) \in Nat
    BY <1>3
  <2> QED
    BY <1>3, <1>4, <1>5, <2>1, <2>2, <2>3
<1>7. CASE kept[t] # <<>>
  <2>1. ToWrite(t)'
    BY <1>1, <1>6, <1>7 DEF ToWrite
  <2>2. Begun(t)'
    BY <1>1, <1>2 DEF Begun
  <2> QED
    BY <1>1, <1>2, <1>7, <2>1, <2>2 DEF ListInv, Looked
<1>8. CASE kept[t] = <<>>
  <2>1. Range(<<>>) = Range(asked[t]) \cap seen[t]
    BY <1>6, <1>8, RestrictsRange
  <2>2. ~\E j \in DOMAIN asked[t] : asked[t][j] \in seen[t]
    BY <2>1 DEF Range
  <2>3. AllowList!Answers(Visible(req[t], list[t]), asked[t], seen[t])
    BY <1>2, <2>2 DEF AllowList!Answers
  <2>4. Len(asked[t]) <= Len(asked[t])
    <3>1. Len(asked[t]) \in Nat
      BY DEF TypeOK
    <3> QED
      BY <3>1
  <2>5. Answered(t)'
    BY <1>1, <1>2, <2>3, <2>4 DEF Answered
  <2>6. Begun(t)'
    BY <1>1, <1>2 DEF Begun
  <2> QED
    BY <1>1, <1>2, <1>8, <2>5, <2>6 DEF ListInv, Looked
<1> QED
  BY <1>7, <1>8

(* An empty table leaves the driver's list as it is.                         *)
LEMMA ScanGivesUp ==
  ASSUME TypeOK, NEW t \in Threads, ListInv(t), ScanNothing(t)
  PROVE  ListInv(t)'
<1>1. /\ pc[t] = "scan" /\ pc'[t] = "listed" /\ learned = <<>>
      /\ UNCHANGED <<req, list, asked, seen>>
  BY DEF ScanNothing, Goto, TypeOK, ghostVars
<1>2. Begun(t) /\ Scanned(t) /\ asked[t] = Visible(req[t], list[t])
  BY <1>1 DEF ListInv, Looked
<1>3. seen[t] = {}
  BY <1>1, <1>2 DEF Scanned, Learned, Range
<1>4. AllowList!Answers(Visible(req[t], list[t]), asked[t], seen[t])
  BY <1>2, <1>3 DEF AllowList!Answers
<1>5. Len(asked[t]) <= Len(asked[t])
  <2>1. Len(asked[t]) \in Nat
    BY DEF TypeOK
  <2> QED
    BY <2>1
<1>6. Answered(t)' /\ Begun(t)'
  BY <1>1, <1>2, <1>4, <1>5 DEF Answered, Begun
<1> QED
  BY <1>1, <1>3, <1>6 DEF ListInv, Looked

(* The process reads the kept entries, and nothing behind them.              *)
LEMMA WriteEnds ==
  ASSUME TypeOK, NEW t \in Threads, ListInv(t), Write(t)
  PROVE  ListInv(t)'
<1> DEFINE s == list[t].ids
           k == kept[t]
           n == Len(k)
           w == [j \in DOMAIN s |->
                   IF j <= n THEN k[j]
                   ELSE IF req[t] = "attached" THEN Invalid ELSE s[j]]
           l == [num |-> IF req[t] = "attached" THEN list[t].num ELSE n, ids |-> w]
<1>1. /\ pc[t] = "write" /\ pc'[t] = "listed"
      /\ UNCHANGED <<req, kept, asked, seen>>
  BY DEF Write, Goto, TypeOK, ghostVars
<1>2. list'[t] = l
  BY DEF Write, TypeOK
<1>3. Begun(t) /\ ToWrite(t) /\ seen[t] \subseteq AllowedIds
  BY <1>1 DEF ListInv, Looked
<1>4. /\ s \in Seq(GpuIds \cup {Invalid}) /\ k \in Seq(GpuIds) /\ n \in Nat
      /\ asked[t] \in Seq(GpuIds \cup {Invalid}) /\ Len(asked[t]) \in Nat /\ Len(s) \in Nat
  BY DEF TypeOK, List
<1>5. n <= Len(s) /\ n <= Len(asked[t])
  <2>1. n <= Len(asked[t]) /\ Len(asked[t]) <= Len(s)
    BY <1>3 DEF ToWrite
  <2> HIDE DEF n, s
  <2> QED
    BY <1>4, <2>1
<1>6. /\ w \in Seq(GpuIds \cup {Invalid}) /\ Len(w) = Len(s)
      /\ \A j \in 1 .. n : w[j] = k[j]
      /\ \A j \in 1 .. Len(s) : j > n /\ req[t] = "attached" => w[j] = Invalid
  <2>1. DOMAIN s = 1 .. Len(s)
    BY <1>4
  <2>2. \A j \in 1 .. Len(s) : s[j] \in GpuIds \cup {Invalid}
    BY <1>4
  <2>3. \A j \in 1 .. n : k[j] \in GpuIds
    BY <1>4
  <2>4. /\ \A j \in 1 .. n : w[j] = k[j]
        /\ \A j \in 1 .. Len(s) : j > n /\ req[t] = "attached" => w[j] = Invalid
    <3> HIDE DEF n, k
    <3> QED
      BY <1>4, <1>5, <2>1
  <2>5. \A j \in 1 .. Len(s) : w[j] \in GpuIds \cup {Invalid}
    <3>1. ASSUME NEW j \in 1 .. Len(s)
          PROVE  j \in 1 .. n \/ w[j] \in {Invalid, s[j]}
      <4> HIDE DEF n, k
      <4> QED
        BY <1>4, <2>1
    <3> HIDE DEF w, n, k
    <3> QED
      BY <2>2, <2>3, <2>4, <3>1
  <2>6. DOMAIN w = 1 .. Len(s) /\ w = [j \in 1 .. Len(s) |-> w[j]]
    BY <2>1
  <2> HIDE DEF w
  <2>7. w \in [1 .. Len(s) -> GpuIds \cup {Invalid}]
    BY <2>5, <2>6
  <2>8. w \in Seq(GpuIds \cup {Invalid}) /\ Len(w) = Len(s)
    <3> HIDE DEF s
    <3> QED
      BY <1>4, <2>7
  <2> QED
    BY <2>4, <2>8
<1> HIDE DEF w, s
<1>7. EndsAt(req[t], l, n)
  <2>1. ASSUME NEW j \in 1 .. n
        PROVE  Listed(req[t], l, j)
    <3>1. k[j] \in GpuIds
      BY <1>4
    <3> HIDE DEF n, k
    <3> QED
      BY <1>4, <1>6, <3>1, RmFilterAssumption DEF Listed
  <2>2. n < Len(w) => ~Listed(req[t], l, n + 1)
    <3> HIDE DEF n, k
    <3> QED
      BY <1>4, <1>6 DEF Listed
  <2> QED
    BY <2>1, <2>2 DEF EndsAt
<1>8. Visible(req[t], l) = k
  <2>1. Len(l.ids) \in Nat /\ n \in 0 .. Len(l.ids)
    <3> HIDE DEF n
    <3> QED
      BY <1>4, <1>5, <1>6
  <2>2. Visible(req[t], l) = SubSeq(w, 1, n)
    BY <1>7, <2>1, VisibleIs
  <2>3. SubSeq(w, 1, n) = [j \in 1 .. n |-> w[j]]
    <3> HIDE DEF n
    <3> QED
      BY <1>4, <1>5, <1>6
  <2>4. k = [j \in 1 .. n |-> k[j]]
    BY <1>4
  <2>5. [j \in 1 .. n |-> w[j]] = [j \in 1 .. n |-> k[j]]
    <3> HIDE DEF n, k
    <3> QED
      BY <1>6
  <2> HIDE DEF l, n, k
  <2> QED
    BY <2>2, <2>3, <2>4, <2>5
<1>9. AllowList!Answers(k, asked[t], seen[t])
  <2>1. AllowList!Restricts(k, asked[t], seen[t]) /\ k # <<>>
    BY <1>3 DEF ToWrite
  <2>2. Range(k) = Range(asked[t]) \cap seen[t]
    BY <2>1, RestrictsRange
  <2>3. k[1] \in Range(k)
    <3>1. 1 \in DOMAIN k
      BY <1>4, <2>1
    <3> QED
      BY <3>1 DEF Range
  <2>4. \E j \in DOMAIN asked[t] : asked[t][j] \in seen[t]
    BY <2>2, <2>3 DEF Range
  <2> QED
    BY <2>1, <2>4 DEF AllowList!Answers
<1>10. Answered(t)'
  <2> HIDE DEF l, k
  <2> QED
    BY <1>1, <1>2, <1>5, <1>8, <1>9 DEF Answered
<1>11. Begun(t)'
  <2>1. Len(list'[t].ids) = Len(s)
    BY <1>2, <1>6
  <2> QED
    BY <1>1, <1>3, <2>1 DEF Begun, s
<1> QED
  BY <1>1, <1>3, <1>10, <1>11 DEF ListInv, Looked

(* Every step keeps what is known of every query.                            *)
LEMMA ListStep ==
  ASSUME TypeOK, LearnedSound, \A u \in Threads : ListInv(u), [Next]_vars
  PROVE  \A u \in Threads : ListInv(u)'
<1> USE DEF Goto, localVars, ghostVars
<1> DEFINE Still(u) == /\ pc'[u] = pc[u] /\ req'[u] = req[u] /\ list'[u] = list[u]
                       /\ i'[u] = i[u] /\ kept'[u] = kept[u]
                       /\ asked'[u] = asked[u] /\ seen'[u] = seen[u]
<1>1. ASSUME NEW t \in Threads, ListInv(t)', \A u \in Threads \ {t} : Still(u),
             learned' = learned \/ lock = t
      PROVE  \A u \in Threads : ListInv(u)'
  <2>1. ASSUME NEW u \in Threads, u # t
        PROVE  ListInv(u)'
    <3>1. pc[u] = "scan" => learned' = learned
      BY <1>1, <2>1 DEF LearnedSound
    <3> QED
      BY <1>1, <2>1, <3>1, QueryWaits
  <2> QED
    BY <1>1, <2>1
<1>2. CASE Constructor \/ UNCHANGED vars
  <2>1. \A u \in Threads : Still(u)
    BY <1>2 DEF Constructor, vars
  <2>2. learned' = learned
    BY <1>2 DEF Constructor, vars
  <2> QED
    BY <2>1, <2>2, QueryWaits
<1>3. ASSUME NEW t \in Threads, NEW a \in CardAnswers, NEW b \in BOOLEAN, IoctlCards(t, a, b)
      PROVE  \A u \in Threads : ListInv(u)'
  <2>1. /\ pc[t] = "idle" /\ pc'[t] \in {"learn_lock", "passed"}
        /\ UNCHANGED <<learned, kept, seen>>
    BY <1>3 DEF IoctlCards, Idle, TypeOK
  <2>2. ListInv(t)'
    BY <2>1 DEF ListInv, Looked
  <2>3. \A u \in Threads \ {t} : Still(u)
    BY <1>3 DEF IoctlCards, TypeOK
  <2> QED
    BY <1>1, <2>1, <2>2, <2>3
<1>4. ASSUME NEW t \in Threads, NEW q \in Queries, NEW a \in ListAnswers[q], NEW b \in BOOLEAN,
             IoctlList(t, q, a, b)
      PROVE  \A u \in Threads : ListInv(u)'
  <2>1. /\ pc[t] = "idle" /\ pc'[t] \in {"scan_lock", "passed"}
        /\ req'[t] = q /\ list'[t] = a /\ asked'[t] = Visible(q, a)
        /\ UNCHANGED <<learned, kept, seen>>
    BY <1>4 DEF IoctlList, Idle, TypeOK
  <2>2. Begun(t)'
    BY <2>1, RmFilterAssumption DEF Begun
  <2>3. ListInv(t)'
    BY <2>1, <2>2 DEF ListInv, Looked
  <2>4. \A u \in Threads \ {t} : Still(u)
    BY <1>4 DEF IoctlList, TypeOK
  <2> QED
    BY <1>1, <2>1, <2>3, <2>4
<1>5. ASSUME NEW t \in Threads, LearnLock(t) \/ LearnCard(t) \/ LearnUnlock(t) \/ MaskCards(t)
      PROVE  \A u \in Threads : ListInv(u)'
  <2>1. /\ pc[t] \in {"learn_lock", "learn", "mask"}
        /\ pc'[t] \in {"learn", "mask", "masked"}
        /\ UNCHANGED <<kept, seen>>
    BY <1>5 DEF LearnLock, LearnCard, LearnUnlock, MaskCards, TypeOK
  <2>2. ListInv(t)'
    BY <2>1 DEF ListInv, Looked
  <2>3. \A u \in Threads \ {t} : Still(u)
    BY <1>5 DEF LearnLock, LearnCard, LearnUnlock, MaskCards, Acquire, TypeOK
  <2>4. learned' = learned \/ lock = t
    BY <1>5 DEF LearnLock, LearnCard, LearnUnlock, MaskCards, LearnedSound
  <2> QED
    BY <1>1, <2>2, <2>3, <2>4
<1>6. ASSUME NEW t \in Threads, ScanLock(t)
      PROVE  \A u \in Threads : ListInv(u)'
  <2>1. learned' = learned /\ \A u \in Threads \ {t} : Still(u)
    BY <1>6 DEF ScanLock, Acquire, TypeOK
  <2> QED
    BY <1>1, <1>6, <2>1, ScanBegins
<1>7. ASSUME NEW t \in Threads, ScanNothing(t)
      PROVE  \A u \in Threads : ListInv(u)'
  <2>1. learned' = learned /\ \A u \in Threads \ {t} : Still(u)
    BY <1>7 DEF ScanNothing, TypeOK
  <2> QED
    BY <1>1, <1>7, <2>1, ScanGivesUp
<1>8. ASSUME NEW t \in Threads, ScanEntry(t)
      PROVE  \A u \in Threads : ListInv(u)'
  <2>1. learned' = learned /\ \A u \in Threads \ {t} : Still(u)
    BY <1>8 DEF ScanEntry, Keep, TypeOK
  <2> QED
    BY <1>1, <1>8, <2>1, ScanGoesOn
<1>9. ASSUME NEW t \in Threads, ScanUnlock(t)
      PROVE  \A u \in Threads : ListInv(u)'
  <2>1. learned' = learned /\ \A u \in Threads \ {t} : Still(u)
    BY <1>9 DEF ScanUnlock, TypeOK
  <2> QED
    BY <1>1, <1>9, <2>1, ScanEnds
<1>10. ASSUME NEW t \in Threads, Write(t)
       PROVE  \A u \in Threads : ListInv(u)'
  <2>1. learned' = learned /\ \A u \in Threads \ {t} : Still(u)
    BY <1>10 DEF Write, TypeOK
  <2> QED
    BY <1>1, <1>10, <2>1, WriteEnds
<1>11. ASSUME NEW t \in Threads, Return(t)
       PROVE  \A u \in Threads : ListInv(u)'
  <2>1. learned' = learned /\ \A u \in Threads \ {t} : Still(u)
    BY <1>11 DEF Return, TypeOK
  <2>2. pc'[t] = "idle" /\ kept'[t] = <<>> /\ seen'[t] = {}
    BY <1>11 DEF Return, TypeOK
  <2>3. ListInv(t)'
    BY <2>2 DEF ListInv, Looked
  <2> QED
    BY <1>1, <2>1, <2>3
<1> QED
  BY <1>2, <1>3, <1>4, <1>5, <1>6, <1>7, <1>8, <1>9, <1>10, <1>11 DEF Next, InCall
-----------------------------------------------------------------------------
(* Theorems about queries. *)

(* FilterInv and QueryInv are inductive together.                            *)
LEMMA QueryInvariant == Spec => [](FilterInv /\ QueryInv)
<1>1. Init => QueryInv
  <2> SUFFICES ASSUME Init
               PROVE  QueryInv
    OBVIOUS
  <2>1. Learned = {}
    BY DEF Init, Learned, Range
  <2>2. LearnInv /\ PromiseInv
    BY <2>1 DEF Init, LearnInv, PromiseInv, Looked
  <2>3. \A t \in Threads : ListInv(t)
    BY DEF Init, ListInv, Looked
  <2> QED
    BY <2>2, <2>3 DEF QueryInv
<1>2. FilterInv /\ QueryInv /\ [Next]_vars => QueryInv'
  BY LearnStep, PromiseStep, ListStep DEF FilterInv, QueryInv
<1> QED
  BY <1>1, <1>2, FilterInvariant, PTL DEF Spec

(* The ids that cards showed before a query began stay in its answer, and no *)
(* id of another container's GPU is left beside them.                        *)
THEOREM DiscoveryPathsAgree == Spec => []ListsAgreeWithCards
<1>1. ASSUME FilterInv, QueryInv, NEW t \in Threads,
             pc[t] = "listed", Len(learned) < MaxGpus,
             promised[t] \cap Range(asked[t]) # {}
      PROVE  /\ promised[t] \cap Range(asked[t]) \subseteq Range(Visible(req[t], list[t]))
             /\ Range(Visible(req[t], list[t])) \subseteq AllowedIds
  <2> DEFINE answer == Visible(req[t], list[t])
  <2>1. /\ AllowList!Answers(answer, asked[t], seen[t])
        /\ seen[t] \subseteq AllowedIds /\ promised[t] \subseteq seen[t]
    BY <1>1 DEF QueryInv, ListInv, Answered, PromiseInv, Looked
  <2>2. \E j \in DOMAIN asked[t] : asked[t][j] \in seen[t]
    BY <1>1, <2>1 DEF Range
  <2>3. Range(answer) = Range(asked[t]) \cap seen[t]
    BY <2>1, <2>2, RestrictsRange DEF AllowList!Answers
  <2> QED
    BY <2>1, <2>3
<1>2. FilterInv /\ QueryInv => ListsAgreeWithCards
  BY <1>1 DEF ListsAgreeWithCards
<1> QED
  BY <1>2, QueryInvariant, PTL

-----------------------------------------------------------------------------
(* Refinement. *)

(* The learned table has as many ids as entries.                             *)
LEMMA TableSize ==
  ASSUME TypeOK, LearnedSound
  PROVE  Cardinality(Learned) = Len(learned)
<1>1. Len(learned) \in Nat /\ DOMAIN learned = 1 .. Len(learned)
  BY DEF TypeOK
<1>2. learned \in [1 .. Len(learned) -> Learned]
  BY <1>1 DEF TypeOK, Learned, Range
<1>3. learned \in Bijection(1 .. Len(learned), Learned)
  BY <1>1, <1>2 DEF LearnedSound, Learned, Range, Bijection, Injection, Surjection
<1> QED
  BY <1>1, <1>3, FS_CountingElements DEF ExistsBijection

(* The two modules count elements alike.                                     *)
LEMMA SameCardinality == \A S : AllowList!Cardinality(S) = Cardinality(S)
  BY Zenon DEF AllowList!Cardinality, Cardinality

(* An answer has entries of the driver's list only, and no more of them.     *)
LEMMA AnswerIsFromList ==
  ASSUME NEW X, NEW r \in Seq(X), NEW l \in Seq(X), NEW S, Len(r) <= Len(l),
         AllowList!Answers(r, l, S)
  PROVE  r \in AllowList!ListsFrom(l)
<1>1. Range(r) \subseteq Range(l)
  BY RestrictsRange DEF AllowList!Answers
<1>2. Len(r) \in 0 .. Len(l) /\ r \in [1 .. Len(r) -> Range(l)]
  <2>1. r \in [1 .. Len(r) -> X] /\ Len(r) \in 0 .. Len(l)
    OBVIOUS
  <2>2. \A j \in 1 .. Len(r) : r[j] \in Range(l)
    BY <1>1, <2>1 DEF Range
  <2> QED
    BY <2>1, <2>2
<1> QED
  BY <1>2 DEF AllowList!ListsFrom, Range

(* A step in which one thread moves moves one query.                         *)
LEMMA OneMoves ==
  ASSUME NEW t \in Threads,
         \A u \in Threads \ {t} : /\ pc'[u] = pc[u] /\ asked'[u] = asked[u]
                                  /\ req'[u] = req[u] /\ list'[u] = list[u]
  PROVE  /\ [u \in Threads |-> Phase(u)]' = [[u \in Threads |-> Phase(u)] EXCEPT ![t] = Phase(t)']
         /\ [u \in Threads |-> Driver(u)]' = [[u \in Threads |-> Driver(u)] EXCEPT ![t] = Driver(t)']
         /\ [u \in Threads |-> Reply(u)]' = [[u \in Threads |-> Reply(u)] EXCEPT ![t] = Reply(t)']
<1>1. \A u \in Threads \ {t} : Phase(u)' = Phase(u)
  BY DEF Phase
<1>2. \A u \in Threads \ {t} : Driver(u)' = Driver(u)
  BY <1>1 DEF Driver
<1>3. \A u \in Threads \ {t} : Reply(u)' = Reply(u)
  BY DEF Reply
<1> QED
  BY <1>1, <1>2, <1>3

(* A step that moves no query and settles no id is none of the allow list.   *)
LEMMA NothingMoves ==
  ASSUME NEW t \in Threads, UNCHANGED <<settled, seen>>,
         \A u \in Threads \ {t} : /\ pc'[u] = pc[u] /\ asked'[u] = asked[u]
                                  /\ req'[u] = req[u] /\ list'[u] = list[u],
         Phase(t)' = Phase(t), Driver(t)' = Driver(t), Reply(t)' = Reply(t)
  PROVE  UNCHANGED AllowList!allowListVars
<1> DEFINE P == [u \in Threads |-> Phase(u)]
           D == [u \in Threads |-> Driver(u)]
           R == [u \in Threads |-> Reply(u)]
<1>1. P' = P /\ D' = D /\ R' = R
  BY OneMoves
<1> QED
  BY <1>1 DEF AllowList!allowListVars

(* The answer of a query is computed from what the driver answered and from  *)
(* one state of the table.                                                   *)
LEMMA AnswerRefines ==
  ASSUME NEW t \in Threads, TypeOK, TypeOK', ListInv(t)',
         UNCHANGED <<settled, seen, asked>>, Phase(t) = "looked", pc'[t] = "listed",
         \A u \in Threads \ {t} : /\ pc'[u] = pc[u] /\ asked'[u] = asked[u]
                                  /\ req'[u] = req[u] /\ list'[u] = list[u]
  PROVE  AllowList!Next
<1> DEFINE P == [u \in Threads |-> Phase(u)]
           D == [u \in Threads |-> Driver(u)]
           R == [u \in Threads |-> Reply(u)]
           r == Visible(req'[t], list'[t])
<1>1. Phase(t)' = "answered" /\ Reply(t)' = r
  BY DEF Phase, Reply
<1>2. Driver(t) = asked[t] /\ Driver(t)' = asked[t]
  BY <1>1 DEF Driver
<1>3. Answered(t)' /\ req'[t] \in Queries
  BY DEF ListInv, Looked, Begun
<1>4. Len(r) <= Len(asked[t]) /\ AllowList!Answers(r, asked[t], seen[t])
  BY <1>3 DEF Answered
<1>5. r \in Seq(GpuIds \cup {Invalid}) /\ asked[t] \in Seq(GpuIds \cup {Invalid})
  <2>1. list'[t] \in List /\ asked[t] \in Seq(GpuIds \cup {Invalid})
    BY DEF TypeOK
  <2> QED
    BY <1>3, <2>1, VisibleTyped
<1>6. r \in AllowList!ListsFrom(asked[t])
  <2> HIDE DEF r
  <2> QED
    BY <1>4, <1>5, AnswerIsFromList
<1>7. P' = [P EXCEPT ![t] = "answered"] /\ D' = D /\ R' = [R EXCEPT ![t] = r]
  <2>1. /\ P' = [P EXCEPT ![t] = Phase(t)'] /\ D' = [D EXCEPT ![t] = Driver(t)']
        /\ R' = [R EXCEPT ![t] = Reply(t)']
    BY OneMoves
  <2>2. [D EXCEPT ![t] = asked[t]] = D
    BY <1>2
  <2> HIDE DEF P, D, R, r
  <2> QED
    BY <1>1, <1>2, <2>1, <2>2
<1>8. P[t] = "looked" /\ D[t] = asked[t]
  BY <1>2
<1>9. AllowList!Answer(t)
  <2> HIDE DEF P, D, R, r
  <2> QED
    BY <1>4, <1>6, <1>7, <1>8 DEF AllowList!Answer, P, D, R
<1> QED
  BY <1>9 DEF AllowList!Next

(* Settling what one answer taught makes its ids known together.             *)
LEMMA LearnRefines ==
  ASSUME TypeOK, LearnedSound, CardsInv, LearnInv, NEW t \in Threads, LearnUnlock(t)
  PROVE  AllowList!Next
<1> DEFINE P == [u \in Threads |-> Phase(u)]
           D == [u \in Threads |-> Driver(u)]
           R == [u \in Threads |-> Reply(u)]
           S == AllowedIn(cards[t])
<1>1. /\ pc[t] = "learn" /\ pc' = [pc EXCEPT ![t] = "mask"] /\ settled' = Learned
      /\ i[t] > Len(cards[t])
      /\ UNCHANGED <<req, list, asked, seen>>
  BY DEF LearnUnlock, Goto
<1>2. P' = P /\ D' = D /\ R' = R
  <2>1. /\ Phase(t) = "idle" /\ Phase(t)' = "idle"
        /\ Reply(t) = <<>> /\ Reply(t)' = <<>>
    BY <1>1 DEF Phase, Reply, TypeOK
  <2>2. Driver(t) = <<>> /\ Driver(t)' = <<>>
    BY <2>1 DEF Driver
  <2>3. \A u \in Threads \ {t} : pc'[u] = pc[u]
    BY <1>1 DEF TypeOK
  <2> QED
    BY <1>1, <2>1, <2>2, <2>3, OneMoves
<1>3. cards[t] \in CardAnswers /\ S \subseteq AllowedIds
  BY <1>1 DEF CardsInv, ThreadTaught, AllowedIds
<1>4. settled \subseteq Learned /\ Learned \subseteq settled \cup S
  BY <1>1 DEF CardsInv, LearnInv
<1>5. S \subseteq Learned \/ Len(learned) = MaxGpus
  <2>1. \A j \in DOMAIN cards[t] : Taught(cards[t][j], Learned)
    <3>1. \A j \in DOMAIN cards[t] : j < i[t]
      BY <1>1 DEF TypeOK
    <3> QED
      BY <1>1, <3>1 DEF CardsInv, ThreadTaught
  <2> QED
    BY <2>1 DEF Taught, AllowedIn, Range
<1>6. Cardinality(settled') = Len(learned) /\ Len(learned) <= MaxGpus
  BY <1>1, TableSize DEF LearnedSound
<1>7. settled' = settled \cup (Learned \ settled) /\ Learned \ settled \subseteq S \cap AllowedIds
  BY <1>1, <1>3, <1>4
<1>8. S \subseteq settled' \/ Cardinality(settled') = MaxGpus
  BY <1>1, <1>5, <1>6
<1>9. AllowList!Learn
  <2>1. S \in {AllowedIn(a) : a \in CardAnswers}
    BY <1>3
  <2> HIDE DEF P, D, R, S
  <2>2. \E T \in SUBSET (S \cap AllowedIds) :
          /\ settled' = settled \cup T
          /\ S \subseteq settled' \/ AllowList!Cardinality(settled') = MaxGpus
    BY <1>7, <1>8, SameCardinality
  <2>3. AllowList!Cardinality(settled') <= MaxGpus
    BY <1>6, SameCardinality
  <2>4. seen' = seen
    BY <1>1
  <2> QED
    BY <1>2, <2>1, <2>2, <2>3, <2>4 DEF AllowList!Learn, P, D, R
<1> QED
  BY <1>9 DEF AllowList!Next

(* Every step of the filter is a step of the allow list, or none of it.      *)
LEMMA NextRefines ==
  ASSUME FilterInv, QueryInv, FilterInv', QueryInv', [Next]_vars
  PROVE  [AllowList!Next]_AllowList!allowListVars
<1> USE DEF Goto, localVars, ghostVars
<1> DEFINE Still(t) == \A u \in Threads \ {t} : /\ pc'[u] = pc[u] /\ asked'[u] = asked[u]
                                                /\ req'[u] = req[u] /\ list'[u] = list[u]
<1>1. /\ TypeOK /\ LearnedSound /\ CardsInv /\ TypeOK'
      /\ LearnInv /\ \A t \in Threads : ListInv(t) /\ ListInv(t)'
  BY DEF FilterInv, QueryInv
<1>2. CASE Constructor \/ UNCHANGED vars
  <2>1. \A t \in Threads : Phase(t)' = Phase(t)
    BY <1>2 DEF Constructor, vars, Phase
  <2>2. \A t \in Threads : Driver(t)' = Driver(t)
    BY <1>2, <2>1 DEF Constructor, vars, Driver
  <2>3. \A t \in Threads : Reply(t)' = Reply(t)
    BY <1>2 DEF Constructor, vars, Reply
  <2>4. UNCHANGED <<settled, seen>>
    BY <1>2 DEF Constructor, vars
  <2> QED
    BY <2>1, <2>2, <2>3, <2>4 DEF AllowList!allowListVars
<1>3. ASSUME NEW t \in Threads, UNCHANGED <<settled, seen>>, Still(t),
             pc[t] \notin {"scan_lock", "scan", "write", "listed"},
             pc'[t] \notin {"scan_lock", "scan", "write", "listed"}
      PROVE  UNCHANGED AllowList!allowListVars
  <2>1. Phase(t) = "idle" /\ Phase(t)' = "idle" /\ Reply(t) = <<>> /\ Reply(t)' = <<>>
    BY <1>3 DEF Phase, Reply
  <2>2. Driver(t) = <<>> /\ Driver(t)' = <<>>
    BY <2>1 DEF Driver
  <2> QED
    BY <1>3, <2>1, <2>2, NothingMoves
<1>4. ASSUME NEW t \in Threads, NEW a \in CardAnswers, NEW b \in BOOLEAN, IoctlCards(t, a, b)
      PROVE  UNCHANGED AllowList!allowListVars
  BY <1>1, <1>3, <1>4 DEF IoctlCards, Idle, TypeOK
<1>5. ASSUME NEW t \in Threads, NEW q \in Queries, NEW a \in ListAnswers[q], NEW b \in BOOLEAN,
             IoctlList(t, q, a, b)
      PROVE  [AllowList!Next]_AllowList!allowListVars
  <2>1. /\ UNCHANGED <<settled, seen>> /\ Still(t) /\ pc[t] = "idle"
        /\ pc'[t] \in {"scan_lock", "passed"} /\ asked'[t] = Visible(q, a)
    BY <1>1, <1>5 DEF IoctlList, Idle, TypeOK
  <2>2. CASE pc'[t] = "passed"
    BY <1>3, <2>1, <2>2
  <2>3. CASE pc'[t] = "scan_lock"
    <3> DEFINE P == [u \in Threads |-> Phase(u)]
               D == [u \in Threads |-> Driver(u)]
               R == [u \in Threads |-> Reply(u)]
    <3>1. Phase(t) = "idle" /\ Phase(t)' = "asked" /\ Reply(t) = <<>> /\ Reply(t)' = <<>>
      BY <2>1, <2>3 DEF Phase, Reply
    <3>2. Driver(t)' = Visible(q, a)
      BY <2>1, <3>1 DEF Driver
    <3>3. P' = [P EXCEPT ![t] = "asked"] /\ D' = [D EXCEPT ![t] = Visible(q, a)] /\ R' = R
      <4>1. /\ P' = [P EXCEPT ![t] = Phase(t)'] /\ D' = [D EXCEPT ![t] = Driver(t)']
            /\ R' = [R EXCEPT ![t] = Reply(t)']
        BY <2>1, OneMoves
      <4>2. [R EXCEPT ![t] = <<>>] = R
        BY <3>1
      <4> HIDE DEF P, D, R
      <4> QED
        BY <3>1, <3>2, <4>1, <4>2
    <3>4. P[t] = "idle"
      BY <3>1
    <3>5. Visible(q, a) \in UNION {{Visible(p, c) : c \in ListAnswers[p]} : p \in Queries}
      OBVIOUS
    <3>6. AllowList!Ask(t)
      <4> HIDE DEF P, D, R
      <4> QED
        BY <2>1, <3>3, <3>4, <3>5 DEF AllowList!Ask, P, D, R
    <3> QED
      BY <3>6 DEF AllowList!Next
  <2> QED
    BY <2>1, <2>2, <2>3
<1>6. ASSUME NEW t \in Threads, LearnLock(t) \/ LearnCard(t) \/ MaskCards(t)
      PROVE  UNCHANGED AllowList!allowListVars
  BY <1>1, <1>3, <1>6 DEF LearnLock, LearnCard, MaskCards, Acquire, TypeOK
<1>7. ASSUME NEW t \in Threads, LearnUnlock(t)
      PROVE  AllowList!Next
  BY <1>1, <1>7, LearnRefines
<1>8. ASSUME NEW t \in Threads, ScanLock(t)
      PROVE  AllowList!Next
  <2> DEFINE P == [u \in Threads |-> Phase(u)]
             D == [u \in Threads |-> Driver(u)]
             R == [u \in Threads |-> Reply(u)]
  <2>1. /\ settled' = settled /\ seen' = [seen EXCEPT ![t] = Learned] /\ Still(t)
        /\ pc[t] = "scan_lock" /\ pc'[t] = "scan" /\ asked' = asked
        /\ \A u \in Threads : pc[u] # "learn"
    BY <1>1, <1>8, RmFilterAssumption DEF ScanLock, Acquire, LearnedSound, TypeOK
  <2>2. Learned = settled
    BY <1>1, <2>1 DEF LearnInv
  <2>3. Phase(t) = "asked" /\ Phase(t)' = "looked" /\ Reply(t) = <<>> /\ Reply(t)' = <<>>
    BY <2>1 DEF Phase, Reply
  <2>4. Driver(t)' = Driver(t)
    BY <2>1, <2>3 DEF Driver
  <2>5. P' = [P EXCEPT ![t] = "looked"] /\ D' = D /\ R' = R
    <3>1. /\ P' = [P EXCEPT ![t] = Phase(t)'] /\ D' = [D EXCEPT ![t] = Driver(t)']
          /\ R' = [R EXCEPT ![t] = Reply(t)']
      BY <2>1, OneMoves
    <3> QED
      BY <2>3, <2>4, <3>1
  <2>6. P[t] = "asked"
    BY <2>3
  <2>7. AllowList!Look(t)
    <3> HIDE DEF P, D, R
    <3> QED
      BY <2>1, <2>2, <2>5, <2>6 DEF AllowList!Look, P, D, R
  <2> QED
    BY <2>7 DEF AllowList!Next
<1>9. ASSUME NEW t \in Threads, ScanEntry(t)
      PROVE  UNCHANGED AllowList!allowListVars
  <2>1. UNCHANGED <<settled, seen, pc, req, list, asked>>
    BY <1>9 DEF ScanEntry
  <2>2. Phase(t)' = Phase(t) /\ Reply(t)' = Reply(t)
    BY <2>1 DEF Phase, Reply
  <2>3. Driver(t)' = Driver(t)
    BY <2>1, <2>2 DEF Driver
  <2> QED
    BY <2>1, <2>2, <2>3, NothingMoves
<1>10. ASSUME NEW t \in Threads, ScanNothing(t) \/ ScanUnlock(t) \/ Write(t)
       PROVE  [AllowList!Next]_AllowList!allowListVars
  <2>1. /\ UNCHANGED <<settled, seen, asked>> /\ Still(t)
        /\ pc[t] \in {"scan", "write"} /\ pc'[t] \in {"listed", "write"}
        /\ pc'[t] = "write" => req'[t] = req[t] /\ list'[t] = list[t]
    <3>1. CASE ScanNothing(t) \/ ScanUnlock(t)
      BY <1>1, <3>1 DEF ScanNothing, ScanUnlock, TypeOK
    <3>2. CASE Write(t)
      BY <1>1, <3>2 DEF Write, TypeOK
    <3> QED
      BY <1>10, <3>1, <3>2
  <2>2. Phase(t) = "looked"
    BY <2>1 DEF Phase
  <2>3. CASE pc'[t] = "listed"
    BY <1>1, <2>1, <2>2, <2>3, AnswerRefines
  <2>4. CASE pc'[t] = "write"
    <3>1. Phase(t)' = "looked" /\ Reply(t) = <<>> /\ Reply(t)' = <<>>
      BY <2>1, <2>4 DEF Phase, Reply
    <3>2. Driver(t)' = Driver(t)
      BY <2>1, <2>2, <3>1 DEF Driver
    <3> QED
      BY <2>1, <2>2, <3>1, <3>2, NothingMoves
  <2> QED
    BY <2>1, <2>3, <2>4
<1>11. ASSUME NEW t \in Threads, Return(t)
       PROVE  [AllowList!Next]_AllowList!allowListVars
  <2>1. /\ settled' = settled /\ seen' = [seen EXCEPT ![t] = {}] /\ Still(t)
        /\ pc[t] \in Ends /\ pc'[t] = "idle"
    BY <1>1, <1>11 DEF Return, TypeOK
  <2>2. CASE pc[t] = "listed"
    <3> DEFINE P == [u \in Threads |-> Phase(u)]
               D == [u \in Threads |-> Driver(u)]
               R == [u \in Threads |-> Reply(u)]
    <3>1. Phase(t) = "answered" /\ Phase(t)' = "idle" /\ Reply(t)' = <<>>
      BY <2>1, <2>2 DEF Phase, Reply
    <3>2. Driver(t)' = <<>>
      BY <3>1 DEF Driver
    <3>3. P' = [P EXCEPT ![t] = "idle"] /\ D' = [D EXCEPT ![t] = <<>>] /\ R' = [R EXCEPT ![t] = <<>>]
      BY <2>1, <3>1, <3>2, OneMoves
    <3>4. P[t] = "answered"
      BY <3>1
    <3>5. AllowList!Finish(t)
      <4> HIDE DEF P, D, R
      <4> QED
        BY <2>1, <3>3, <3>4 DEF AllowList!Finish, P, D, R
    <3> QED
      BY <3>5 DEF AllowList!Next
  <2>3. CASE pc[t] # "listed"
    <3>1. pc[t] \notin {"scan_lock", "scan", "write", "listed"}
      BY <2>1, <2>3 DEF Ends
    <3>2. seen[t] = {}
      BY <1>1, <3>1 DEF ListInv, Looked
    <3>3. seen' = seen
      BY <1>1, <2>1, <3>2 DEF TypeOK
    <3> QED
      BY <1>3, <2>1, <3>1, <3>3
  <2> QED
    BY <2>2, <2>3
<1> QED
  BY <1>2, <1>4, <1>5, <1>6, <1>7, <1>8, <1>9, <1>10, <1>11 DEF Next, InCall

(* The filter, with its lock, its loops and its arrays, answers each query   *)
(* from one set of allowed ids that only grows, as the abstract allow list   *)
(* does: for any number of threads, any table and any answers of the driver. *)
THEOREM FilterIsAllowList == Spec => ImplementsAllowList
<1>1. Init => AllowList!Init
  <2> SUFFICES ASSUME Init
               PROVE  AllowList!Init
    OBVIOUS
  <2>1. \A t \in Threads : Phase(t) = "idle" /\ Reply(t) = <<>>
    BY DEF Init, Phase, Reply
  <2>2. \A t \in Threads : Driver(t) = <<>>
    BY <2>1 DEF Driver
  <2>3. settled = {} /\ seen = [t \in Threads |-> {}]
    BY DEF Init
  <2> QED
    BY <2>1, <2>2, <2>3 DEF AllowList!Init
<1>2. FilterInv /\ QueryInv /\ FilterInv' /\ QueryInv' /\ [Next]_vars
        => [AllowList!Next]_AllowList!allowListVars
  BY NextRefines
<1> QED
  BY <1>1, <1>2, QueryInvariant, PTL DEF Spec, ImplementsAllowList, AllowList!Spec
=============================================================================
