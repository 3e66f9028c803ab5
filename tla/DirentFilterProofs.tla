-------------------------- MODULE DirentFilterProofs --------------------------
(***************************************************************************)
(* The in-place compaction of a getdents64 answer moves cells inside the   *)
(* buffer only, whatever the answer.  When no kept entry is long, it also  *)
(* destroys nothing it has still to read, returns no more than it was      *)
(* given, and of a well-formed answer exactly what is to stay.             *)
(***************************************************************************)
EXTENDS DirentFilter, FiniteSetTheorems, TLAPS

(* The loop starts with the untouched buffer.                                *)
LEMMA InitFilter ==
  ASSUME Init
  PROVE  FilterInv
<1>1. PICK b \in Buffers : origin = b.cells /\ len = b.len
  BY DEF Init
<1>2. len \in Nat /\ origin \in [0 .. len - 1 -> Cell]
  BY <1>1, DirentFilterAssumption
<1>3. cells = origin /\ ro = 0 /\ wo = 0 /\ result = Running
  BY DEF Init
<1> QED
  BY <1>2, <1>3 DEF FilterInv, OffsetsTyped, UnreadIntact, GapIsHeader, Running

(* A valid entry lies in the buffer, and its d_reclen is there to be read.   *)
LEMMA ValidEntry ==
  ASSUME FilterInv, ro < len, Valid(ro)
  PROVE  /\ ro + 2 \in ro .. len - 1
         /\ At(ro) = cells[ro + 2]
         /\ At(ro).size \in Nat /\ At(ro).size >= 3
         /\ ro + At(ro).size <= len
<1>1. ro \in Nat /\ len \in Nat /\ ro + 2 \in ro .. len - 1 /\ ro + 2 \in 0 .. len - 1
  BY DEF FilterInv, OffsetsTyped, Valid, HeaderCells
<1>2. At(ro) = cells[ro + 2] /\ cells[ro + 2] \in Cell
  BY <1>1 DEF FilterInv, OffsetsTyped, At
<1>3. At(ro).size \in Nat /\ At(ro).size >= 3 /\ ro + At(ro).size <= len
  BY <1>1, <1>2 DEF Valid, HeaderCells, Cell, At
<1> QED
  BY <1>1, <1>2, <1>3

(* When kept entries are short, it is the entry the kernel wrote there.      *)
LEMMA KernelEntry ==
  ASSUME FilterInv, ShortKept, ro < len, Valid(ro)
  PROVE  /\ At(ro) = origin[ro + 2]
         /\ Kept(ro) => At(ro).size <= 5
<1>1. ro + 2 \in ro .. len - 1 /\ At(ro) = cells[ro + 2] /\ ro \in Nat /\ len \in Nat
  BY ValidEntry DEF FilterInv, OffsetsTyped
<1>2. At(ro) = origin[ro + 2]
  BY <1>1 DEF FilterInv, UnreadIntact
<1>3. ro \in 0 .. len - 3
  BY <1>1
<1> QED
  BY <1>2, <1>3 DEF ShortKept, Kept, KeptCells, HeaderCells, Valid

(* A move reads and writes inside the buffer, below the end of the entry.    *)
LEMMA MoveStays ==
  ASSUME FilterInv, NEW n \in Nat, ro + n <= len
  PROVE  /\ Moved(wo, ro, n) \in [0 .. len - 1 -> Cell]
         /\ \A o \in wo + n .. len - 1 : Moved(wo, ro, n)[o] = cells[o]
<1>1. /\ ro \in Nat /\ wo \in Nat /\ wo <= ro /\ len \in Nat
      /\ cells \in [0 .. len - 1 -> Cell]
      /\ DOMAIN cells = 0 .. len - 1
  BY DEF FilterInv, OffsetsTyped
<1>2. ASSUME NEW o \in 0 .. len - 1, o \in wo .. wo + n - 1
      PROVE  cells[o - wo + ro] \in Cell
  <2>1. o - wo + ro \in 0 .. len - 1
    BY <1>1, <1>2
  <2> QED
    BY <2>1, <1>1
<1>3. \A o \in wo + n .. len - 1 : o \in DOMAIN cells /\ o \notin wo .. wo + n - 1
  BY <1>1
<1> QED
  BY <1>1, <1>2, <1>3 DEF Moved

(* Keeping an entry: both offsets advance by what is found as its d_reclen.  *)
LEMMA KeepEntryMoves ==
  ASSUME FilterInv, KeepEntry
  PROVE  LET size == At(ro).size
             n    == cells'[ro + 2].size
         IN  /\ cells' = Moved(wo, ro, size)
             /\ cells' \in [0 .. len - 1 -> Cell]
             /\ \A o \in wo + size .. len - 1 : cells'[o] = cells[o]
             /\ n \in Nat /\ wo' = wo + n /\ ro' = ro + n
             /\ UNCHANGED <<origin, len, result>>
<1> DEFINE size == At(ro).size
<1>1. ro + 2 \in 0 .. len - 1 /\ size \in Nat /\ ro + size <= len
  BY ValidEntry DEF KeepEntry, FilterInv, OffsetsTyped
<1>2. /\ cells' = Moved(wo, ro, size)
      /\ wo' = wo + cells'[ro + 2].size
      /\ ro' = ro + cells'[ro + 2].size
      /\ UNCHANGED <<origin, len, result>>
  BY DEF KeepEntry
<1>3. /\ cells' \in [0 .. len - 1 -> Cell]
      /\ \A o \in wo + size .. len - 1 : cells'[o] = cells[o]
  BY <1>1, <1>2, MoveStays
<1>4. cells'[ro + 2].size \in Nat
  BY <1>1, <1>3 DEF Cell
<1> QED
  BY <1>2, <1>3, <1>4

(* A short entry leaves its d_reclen where it was read: that is its length.  *)
LEMMA KeepEntryEffect ==
  ASSUME FilterInv, ShortKept, KeepEntry
  PROVE  LET size == At(ro).size
         IN  /\ cells' = Moved(wo, ro, size)
             /\ cells' \in [0 .. len - 1 -> Cell]
             /\ \A o \in wo + size .. len - 1 : cells'[o] = cells[o]
             /\ wo' = wo + size /\ ro' = ro + size
<1> DEFINE size == At(ro).size
<1>1. /\ ro + 2 \in ro .. len - 1
      /\ size \in Nat /\ size >= 3 /\ size <= 5
      /\ ro + size <= len
  BY ValidEntry, KernelEntry DEF KeepEntry
<1>2. /\ ro \in Nat /\ wo \in Nat /\ wo <= ro /\ len \in Nat
      /\ ro = wo \/ ro - wo >= 3
      /\ cells \in [0 .. len - 1 -> Cell]
  BY DEF FilterInv, OffsetsTyped, GapIsHeader, HeaderCells
<1>3. /\ cells' = Moved(wo, ro, size)
      /\ wo' = wo + cells'[ro + 2].size
      /\ ro' = ro + cells'[ro + 2].size
      /\ cells' \in [0 .. len - 1 -> Cell]
      /\ \A o \in wo + size .. len - 1 : cells'[o] = cells[o]
  BY KeepEntryMoves
<1>5. cells'[ro + 2] = cells[ro + 2]
  <2>1. CASE ro = wo
    <3>1. \A o \in DOMAIN cells : o - wo + ro = o
      BY <2>1, <1>2
    <3> QED
      BY <3>1, <1>1, <1>2, <1>3 DEF Moved
  <2>2. CASE ro - wo >= 3
    <3>1. ro + 2 \in wo + size .. len - 1
      BY <2>2, <1>1, <1>2
    <3> QED
      BY <3>1, <1>3
  <2> QED
    BY <2>1, <2>2, <1>2
<1>6. wo' = wo + size /\ ro' = ro + size
  BY <1>3, <1>5 DEF At
<1> QED
  BY <1>3, <1>6

(* Keeping an entry.                                                         *)
LEMMA KeepEntryStep ==
  ASSUME FilterInv, KeepEntry
  PROVE  FilterInv'
<1> DEFINE size == At(ro).size
<1>1. PICK n \in Nat : wo' = wo + n /\ ro' = ro + n
  BY KeepEntryMoves
<1>2. cells' \in [0 .. len - 1 -> Cell] /\ UNCHANGED <<origin, len, result>>
  BY KeepEntryMoves
<1>3. /\ ro \in Nat /\ wo \in Nat /\ wo <= ro /\ len \in Nat
      /\ ro = wo \/ ro - wo >= 3
  BY DEF FilterInv, OffsetsTyped, GapIsHeader, HeaderCells
<1>4. ShortKept' <=> ShortKept
  BY <1>2 DEF ShortKept
<1>5. ASSUME ShortKept
      PROVE  /\ ro' <= len
             /\ \A o \in ro' .. len - 1 : cells'[o] = origin[o]
  <2>1. size \in Nat /\ ro + size <= len
    BY ValidEntry DEF KeepEntry
  <2>2. ro' = ro + size /\ \A o \in wo + size .. len - 1 : cells'[o] = cells[o]
    BY <1>5, KeepEntryEffect
  <2>3. ASSUME NEW o \in ro + size .. len - 1
        PROVE  cells'[o] = origin[o]
    <3>1. o \in wo + size .. len - 1 /\ o \in ro .. len - 1
      <4> HIDE DEF size
      <4> QED
        BY <1>3, <2>1
    <3> QED
      BY <1>5, <2>2, <3>1 DEF FilterInv, UnreadIntact
  <2> QED
    BY <2>1, <2>2, <2>3
<1>6. OffsetsTyped'
  BY <1>1, <1>2, <1>3, <1>4, <1>5 DEF FilterInv, OffsetsTyped
<1>7. UnreadIntact'
  BY <1>2, <1>4, <1>5 DEF UnreadIntact
<1>8. GapIsHeader'
  BY <1>1, <1>3 DEF GapIsHeader, HeaderCells
<1> QED
  BY <1>6, <1>7, <1>8 DEF FilterInv

(* Dropping an entry widens the gap by at least a header.                    *)
LEMMA DropEntryStep ==
  ASSUME FilterInv, DropEntry
  PROVE  FilterInv'
<1> DEFINE size == At(ro).size
<1>1. size \in Nat /\ size >= 3 /\ ro + size <= len
  BY ValidEntry DEF DropEntry
<1>2. /\ ro' = ro + size
      /\ origin' = origin /\ len' = len /\ cells' = cells /\ wo' = wo
      /\ result' = result
  BY DEF DropEntry
<1>3. ShortKept' <=> ShortKept
  BY <1>2 DEF ShortKept
<1>4. OffsetsTyped'
  BY <1>1, <1>2, <1>3 DEF FilterInv, OffsetsTyped
<1>5. UnreadIntact'
  BY <1>1, <1>2, <1>3 DEF FilterInv, OffsetsTyped, UnreadIntact
<1>6. GapIsHeader'
  BY <1>1, <1>2 DEF FilterInv, OffsetsTyped, GapIsHeader, HeaderCells
<1> QED
  BY <1>4, <1>5, <1>6 DEF FilterInv

(* The inductive invariant of the compaction.                                *)
THEOREM FilterCorrect == Spec => []FilterInv
<1>1. Init => FilterInv
  BY InitFilter
<1>2. FilterInv /\ [Next]_vars => FilterInv'
  <2> SUFFICES ASSUME FilterInv, [Next]_vars
               PROVE  FilterInv'
    OBVIOUS
  <2>1. CASE KeepEntry
    BY <2>1, KeepEntryStep
  <2>2. CASE DropEntry
    BY <2>2, DropEntryStep
  <2>3. CASE Reject
    BY <2>3 DEF Reject, FilterInv, OffsetsTyped, UnreadIntact, GapIsHeader, ShortKept
  <2>4. CASE Finish
    BY <2>4 DEF Finish, FilterInv, OffsetsTyped, UnreadIntact, GapIsHeader, ShortKept
  <2>5. CASE UNCHANGED vars
    BY <2>5 DEF vars, FilterInv, OffsetsTyped, UnreadIntact, GapIsHeader, ShortKept
  <2> QED
    BY <2>1, <2>2, <2>3, <2>4, <2>5 DEF Next
<1> QED
  BY <1>1, <1>2, PTL DEF Spec

(* For every answer, malformed or with kept entries of any length, the       *)
(* filter reads and writes inside the buffer; and when no kept entry is      *)
(* longer than KeptCells, it returns no more than it was given.              *)
THEOREM StaysInBuffer == Spec => []TypeOK
<1>1. FilterInv => TypeOK
  <2> SUFFICES ASSUME FilterInv, ro < len, Valid(ro)
               PROVE  (ro .. ro + At(ro).size - 1) \cup (wo .. wo + At(ro).size - 1)
                         \subseteq 0 .. len - 1
    BY DEF FilterInv, TypeOK
  <2> DEFINE n == At(ro).size
  <2>1. n \in Nat /\ ro + n <= len
    BY ValidEntry
  <2>2. ro \in Nat /\ wo \in Nat /\ wo <= ro /\ len \in Nat
    BY DEF FilterInv, OffsetsTyped
  <2> HIDE DEF n
  <2>3. (ro .. ro + n - 1) \cup (wo .. wo + n - 1) \subseteq 0 .. len - 1
    BY <2>1, <2>2
  <2> QED
    BY <2>3 DEF n
<1> QED
  BY <1>1, FilterCorrect, PTL

(* Moving entries down never destroys one that is still to be read, although *)
(* source and destination overlap and d_reclen is read after the move: for   *)
(* answers, well formed or not, whose kept entries are short.                *)
THEOREM UnreadStaysIntact == Spec => []UnreadIntact
<1>1. FilterInv => UnreadIntact
  BY DEF FilterInv
<1> QED
  BY <1>1, FilterCorrect, PTL

-----------------------------------------------------------------------------
(* What the compaction returns. *)

(* In a well-formed answer without a long kept entry the loop reads at the   *)
(* start of an entry or at the end, the kept cells it has passed are the     *)
(* front of the buffer, and it does not stop before the end.                 *)
AtEntry == \A E \in Layouts : ro \in E

Copied ==
  WellFormed =>
    /\ wo = Cardinality(KeptBelow(ro))
    /\ \A c \in KeptBelow(ro) : cells[Cardinality(KeptBelow(c))] = origin[c]

AllRead == result # Running /\ WellFormed => ro = len /\ result = wo

ExactInv == ShortKept => AtEntry /\ Copied /\ AllRead

(* The reference depends on the buffer of the kernel only.                   *)
LEMMA SameReference ==
  ASSUME UNCHANGED <<origin, len>>
  PROVE  /\ Layouts' = Layouts
         /\ WellFormed' <=> WellFormed
         /\ ShortKept' <=> ShortKept
         /\ \A o : KeptBelow(o)' = KeptBelow(o)
<1>1. Layouts' = Layouts
  BY DEF Layouts, EntryAt
<1> QED
  BY <1>1 DEF WellFormed, ShortKept, KeptBelow

(* Kept cells can be counted, and each is counted behind those before it.    *)
LEMMA KeptCount ==
  ASSUME FilterInv, NEW o
  PROVE  IsFiniteSet(KeptBelow(o)) /\ Cardinality(KeptBelow(o)) \in Nat
<1>1. IsFiniteSet(0 .. len - 1)
  BY FS_Interval DEF FilterInv, OffsetsTyped
<1>2. KeptBelow(o) \in SUBSET (0 .. len - 1)
  BY DEF KeptBelow
<1> QED
  BY <1>1, <1>2, FS_Subset, FS_CardinalityType

LEMMA KeptRank ==
  ASSUME FilterInv, NEW o \in Int, NEW c \in KeptBelow(o)
  PROVE  Cardinality(KeptBelow(c)) < Cardinality(KeptBelow(o))
<1> DEFINE B == KeptBelow(c)
<1>1. B \cup {c} \in SUBSET KeptBelow(o) /\ c \notin B
  BY DEF KeptBelow
<1>2. Cardinality(B \cup {c}) = Cardinality(B) + 1
  BY <1>1, KeptCount, FS_AddElement
<1>3. Cardinality(B \cup {c}) <= Cardinality(KeptBelow(o))
  BY <1>1, KeptCount, FS_Subset
<1>4. Cardinality(B) \in Nat /\ Cardinality(KeptBelow(o)) \in Nat
  BY KeptCount
<1> HIDE DEF B
<1>5. Cardinality(B) < Cardinality(KeptBelow(o))
  BY <1>2, <1>3, <1>4
<1> QED
  BY <1>5 DEF B

(* A run of cells that are kept, and one of cells that are not.              *)
LEMMA KeptRun ==
  ASSUME FilterInv, NEW a \in Nat, NEW n \in Nat, a + n <= len,
         \A c \in a .. a + n - 1 : origin[c].of \in Keep
  PROVE  /\ KeptBelow(a + n) = KeptBelow(a) \cup a .. a + n - 1
         /\ Cardinality(KeptBelow(a + n)) = Cardinality(KeptBelow(a)) + n
<1> DEFINE A == KeptBelow(a)
           R == a .. a + n - 1
<1>1. len \in Nat
  BY DEF FilterInv, OffsetsTyped
<1>2. KeptBelow(a + n) = A \cup R /\ A \cap R = {}
  BY <1>1 DEF KeptBelow
<1>3. IsFiniteSet(R) /\ Cardinality(R) = n
  BY FS_Interval
<1>4. IsFiniteSet(A) /\ Cardinality(A) \in Nat
  BY KeptCount
<1> HIDE DEF A, R
<1>5. Cardinality(A \cup R) = Cardinality(A) + n
  BY <1>2, <1>3, <1>4, FS_Union, FS_EmptySet
<1> QED
  BY <1>2, <1>5 DEF A, R

LEMMA DroppedRun ==
  ASSUME FilterInv, NEW a \in Nat, NEW n \in Nat, a + n <= len,
         \A c \in a .. a + n - 1 : origin[c].of \notin Keep
  PROVE  KeptBelow(a + n) = KeptBelow(a)
  BY DEF KeptBelow, FilterInv, OffsetsTyped

(* In a well-formed answer the next entry is valid, owns its cells, and the  *)
(* one after it is where its length says.                                    *)
LEMMA EntryIsNext ==
  ASSUME FilterInv, ShortKept, AtEntry, WellFormed, ro < len
  PROVE  /\ Valid(ro)
         /\ At(ro) = origin[ro + 2]
         /\ \A c \in ro .. ro + At(ro).size - 1 : origin[c].of = At(ro).of
         /\ \A E \in Layouts : ro + At(ro).size \in E
<1>1. \A E \in Layouts : EntryAt(ro) /\ ro + origin[ro + 2].size \in E
  BY DEF AtEntry, Layouts, FilterInv, OffsetsTyped
<1>2. EntryAt(ro)
  BY <1>1 DEF WellFormed
<1>3. ro + 2 \in ro .. len - 1
  BY <1>2 DEF EntryAt, HeaderCells, FilterInv, OffsetsTyped
<1>4. At(ro) = origin[ro + 2]
  BY <1>3 DEF FilterInv, UnreadIntact, At
<1>5. origin[ro + 2].size >= HeaderCells /\ origin[ro + 2].size <= len - ro
  BY <1>2 DEF EntryAt, HeaderCells, FilterInv, OffsetsTyped
<1> QED
  BY <1>1, <1>2, <1>4, <1>5 DEF EntryAt, Valid

(* A kept entry is found behind the kept cells before it.                    *)
LEMMA KeepEntryExact ==
  ASSUME FilterInv, ShortKept, ExactInv, KeepEntry
  PROVE  ExactInv'
<1> DEFINE size == At(ro).size
<1>1. /\ result = Running /\ ro < len /\ Valid(ro) /\ Kept(ro)
      /\ UNCHANGED <<origin, len, result>>
  BY DEF KeepEntry
<1>2. /\ cells' = Moved(wo, ro, size)
      /\ wo' = wo + size /\ ro' = ro + size
  BY KeepEntryEffect
<1>3. size \in Nat /\ ro + size <= len
  BY <1>1, ValidEntry
<1>4. /\ ro \in Nat /\ wo \in Nat /\ wo <= ro /\ len \in Nat
      /\ DOMAIN cells = 0 .. len - 1
  BY DEF FilterInv, OffsetsTyped
<1> HIDE DEF size
<1>5. AllRead'
  BY <1>1 DEF AllRead
<1>6. CASE ~WellFormed
  <2>1. Layouts = {} /\ Layouts' = {} /\ ~WellFormed'
    BY <1>1, <1>6, SameReference DEF WellFormed
  <2> QED
    BY <1>5, <2>1 DEF ExactInv, AtEntry, Copied
<1>7. CASE WellFormed
  <2>1. AtEntry'
    BY <1>1, <1>2, <1>7, EntryIsNext, SameReference DEF ExactInv, AtEntry, size
  <2>2. \A c \in ro .. ro + size - 1 : origin[c].of \in Keep
    BY <1>1, <1>7, EntryIsNext DEF ExactInv, Kept, size
  <2>3. /\ KeptBelow(ro + size) = KeptBelow(ro) \cup ro .. ro + size - 1
        /\ Cardinality(KeptBelow(ro + size)) = Cardinality(KeptBelow(ro)) + size
    BY <1>3, <1>4, <2>2, KeptRun
  <2>4. /\ wo = Cardinality(KeptBelow(ro))
        /\ \A c \in KeptBelow(ro) : cells[Cardinality(KeptBelow(c))] = origin[c]
    BY <1>7 DEF ExactInv, Copied
  <2>5. ASSUME NEW c \in KeptBelow(ro)
        PROVE  cells'[Cardinality(KeptBelow(c))] = origin[c]
    <3> DEFINE k == Cardinality(KeptBelow(c))
    <3>1. k \in Nat /\ k < wo
      BY <1>4, <2>4, KeptCount, KeptRank
    <3> HIDE DEF k
    <3>2. k \in DOMAIN cells /\ k \notin wo .. wo + size - 1
      BY <1>3, <1>4, <3>1
    <3>3. cells'[k] = cells[k]
      BY <1>2, <3>2 DEF Moved
    <3> QED
      BY <2>4, <3>3 DEF k
  <2>6. ASSUME NEW c \in ro .. ro + size - 1
        PROVE  cells'[Cardinality(KeptBelow(c))] = origin[c]
    <3> DEFINE n == c - ro
               k == wo + n
    <3>1. n \in Nat /\ ro + n = c /\ c \in ro .. len - 1
      BY <1>3, <1>4
    <3>2. \A d \in ro .. ro + n - 1 : origin[d].of \in Keep
      BY <1>3, <1>4, <2>2, <3>1
    <3>3. Cardinality(KeptBelow(c)) = k
      <4> HIDE DEF n
      <4>1. ro + n <= len
        BY <1>4, <3>1
      <4> QED
        BY <1>4, <2>4, <3>1, <3>2, <4>1, KeptRun
    <3>4. k \in DOMAIN cells /\ k \in wo .. wo + size - 1 /\ k - wo + ro = c
      BY <1>3, <1>4
    <3> HIDE DEF k, n
    <3>5. cells'[k] = cells[c]
      BY <1>2, <3>4 DEF Moved
    <3>6. cells[c] = origin[c]
      BY <3>1 DEF FilterInv, UnreadIntact
    <3> QED
      BY <3>3, <3>5, <3>6
  <2>7. Copied'
    <3>1. KeptBelow(ro)' = KeptBelow(ro + size)
      BY <1>1, <1>2 DEF KeptBelow
    <3>2. \A c \in KeptBelow(ro + size) : cells'[Cardinality(KeptBelow(c))] = origin[c]
      BY <2>3, <2>5, <2>6
    <3>3. wo' = Cardinality(KeptBelow(ro + size))
      BY <1>2, <2>3, <2>4
    <3>4. \A c : KeptBelow(c)' = KeptBelow(c)
      BY <1>1, SameReference
    <3> QED
      BY <1>1, <3>1, <3>2, <3>3, <3>4 DEF Copied
  <2> QED
    BY <1>5, <2>1, <2>7 DEF ExactInv
<1> QED
  BY <1>6, <1>7

(* A dropped entry has no kept cell.                                         *)
LEMMA DropEntryExact ==
  ASSUME FilterInv, ShortKept, ExactInv, DropEntry
  PROVE  ExactInv'
<1> DEFINE size == At(ro).size
<1>1. /\ result = Running /\ ro < len /\ Valid(ro) /\ ~Kept(ro) /\ ro' = ro + size
      /\ UNCHANGED <<origin, len, cells, wo, result>>
  BY DEF DropEntry
<1>2. size \in Nat /\ ro + size <= len /\ ro \in Nat
  BY <1>1, ValidEntry DEF FilterInv, OffsetsTyped
<1> HIDE DEF size
<1>3. AllRead'
  BY <1>1 DEF AllRead
<1>4. CASE ~WellFormed
  <2>1. Layouts = {} /\ Layouts' = {} /\ ~WellFormed'
    BY <1>1, <1>4, SameReference DEF WellFormed
  <2> QED
    BY <1>3, <2>1 DEF ExactInv, AtEntry, Copied
<1>5. CASE WellFormed
  <2>1. AtEntry'
    BY <1>1, <1>5, EntryIsNext, SameReference DEF ExactInv, AtEntry, size
  <2>2. \A c \in ro .. ro + size - 1 : origin[c].of \notin Keep
    BY <1>1, <1>5, EntryIsNext DEF ExactInv, Kept, size
  <2>3. KeptBelow(ro)' = KeptBelow(ro)
    <3>1. KeptBelow(ro + size) = KeptBelow(ro)
      BY <1>2, <2>2, DroppedRun
    <3>2. KeptBelow(ro)' = KeptBelow(ro + size)
      BY <1>1 DEF KeptBelow
    <3> QED
      BY <3>1, <3>2
  <2>4. \A c : KeptBelow(c)' = KeptBelow(c)
    BY <1>1, SameReference
  <2>5. Copied'
    BY <1>1, <1>5, <2>3, <2>4 DEF ExactInv, Copied
  <2> QED
    BY <1>3, <2>1, <2>5 DEF ExactInv
<1> QED
  BY <1>4, <1>5

(* A well-formed answer of the kernel comes back as its kept entries: all of *)
(* them, in full, in their order, and nothing else, although they are moved  *)
(* within one buffer while it is read.                                       *)
THEOREM ReturnsWhatStays == Spec => []FilterExact
<1>1. Init => ExactInv
  <2> SUFFICES ASSUME Init
               PROVE  ExactInv
    OBVIOUS
  <2>1. ro = 0 /\ wo = 0 /\ result = Running
    BY DEF Init
  <2>2. KeptBelow(0) = {}
    BY InitFilter DEF KeptBelow, FilterInv, OffsetsTyped
  <2> QED
    BY <2>1, <2>2, FS_EmptySet DEF ExactInv, AtEntry, Copied, AllRead, Layouts
<1>2. FilterInv /\ ExactInv /\ [Next]_vars => ExactInv'
  <2> SUFFICES ASSUME FilterInv, ExactInv, [Next]_vars, ShortKept'
               PROVE  ExactInv'
    BY DEF ExactInv
  <2>1. UNCHANGED <<origin, len>> /\ ShortKept
    <3>1. UNCHANGED <<origin, len>>
      BY DEF Next, KeepEntry, DropEntry, Reject, Finish, vars
    <3> QED
      BY <3>1, SameReference
  <2>2. AtEntry /\ Copied /\ AllRead
    BY <2>1 DEF ExactInv
  <2>3. ASSUME UNCHANGED <<origin, len, cells, ro, wo>>, AllRead'
        PROVE  ExactInv'
    <3>1. KeptBelow(ro)' = KeptBelow(ro) /\ \A c : KeptBelow(c)' = KeptBelow(c)
      BY <2>3 DEF KeptBelow
    <3>2. AtEntry' /\ Copied'
      BY <2>2, <2>3, <3>1, SameReference DEF AtEntry, Copied
    <3> QED
      BY <2>3, <3>2 DEF ExactInv
  <2>4. CASE Reject
    <3>1. ~WellFormed
      BY <2>1, <2>2, <2>4, EntryIsNext DEF Reject
    <3>2. AllRead'
      BY <2>1, <3>1, SameReference DEF AllRead
    <3> QED
      BY <2>3, <2>4, <3>2 DEF Reject
  <2>5. CASE Finish
    <3>1. ro = len
      BY <2>1, <2>5 DEF Finish, FilterInv, OffsetsTyped
    <3>2. AllRead'
      BY <2>5, <3>1 DEF Finish, AllRead
    <3> QED
      BY <2>3, <2>5, <3>2 DEF Finish
  <2>6. CASE UNCHANGED vars
    <3>1. AllRead'
      BY <2>1, <2>2, <2>6, SameReference DEF vars, AllRead
    <3> QED
      BY <2>3, <2>6, <3>1 DEF vars
  <2> QED
    BY <2>1, <2>4, <2>5, <2>6, KeepEntryExact, DropEntryExact DEF Next
<1>3. FilterInv /\ ExactInv => FilterExact
  BY DEF ExactInv, Copied, AllRead, FilterExact
<1> QED
  BY <1>1, <1>2, <1>3, FilterCorrect, PTL DEF Spec
=============================================================================
