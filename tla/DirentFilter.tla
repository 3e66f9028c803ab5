----------------------------- MODULE DirentFilter -----------------------------
(***************************************************************************)
(* nvfix_filter_dirent64_buffer of src/proc_filter.c: the entries of one   *)
(* getdents64 answer are compacted in place, with one offset that reads    *)
(* and one that writes.                                                    *)
(*                                                                         *)
(* The kernel lays entries out in multiples of eight bytes, so the buffer  *)
(* is a function from offsets to cells of eight bytes.  An entry starts    *)
(* with d_ino and d_off; its third cell holds d_reclen, counted here in    *)
(* cells, and the beginning of d_name.  The code reads d_reclen again      *)
(* after it moved an entry, from the place the entry was moved away from.  *)
(***************************************************************************)
EXTENDS Integers, FiniteSets

CONSTANTS
  Names,    (* names of entries                                             *)
  Keep,     (* names that stay: ".", ".." and the buses of allowed GPUs     *)
  Buffers   (* answers of getdents64                                        *)

HeaderCells == 3   \* offsetof(struct linux_dirent64, d_name) is 19
KeptCells   == 5   \* an entry whose name has at most 20 characters
Running     == -1

(* A cell belongs to an entry of some name.  size is what it holds where     *)
(* d_reclen is read, ended whether a NUL ends the name inside the entry.     *)
Cell == [of : Names, size : Nat, ended : BOOLEAN]

ASSUME DirentFilterAssumption ==
  /\ Keep \subseteq Names
  /\ \A b \in Buffers : b.len \in Nat \ {0} /\ b.cells \in [0 .. b.len - 1 -> Cell]

VARIABLES
  origin,  (* ghost: the buffer the kernel filled                           *)
  len,     (* its length                                                    *)
  cells,   (* the buffer                                                    *)
  ro,      (* read_offset                                                   *)
  wo,      (* write_offset                                                  *)
  result   (* the return value, or Running                                  *)

vars == <<origin, len, cells, ro, wo, result>>

Init ==
  /\ \E b \in Buffers : origin = b.cells /\ len = b.len
  /\ cells = origin
  /\ ro = 0
  /\ wo = 0
  /\ result = Running

-----------------------------------------------------------------------------
At(o) == cells[o + 2]

(* Mutants of Valid: a record length beyond the buffer is accepted; one      *)
(* below the header is.                                                      *)
ValidUnbounded(o) ==
  /\ len - o >= HeaderCells
  /\ At(o).size >= HeaderCells
  /\ At(o).ended

ValidUnchecked(o) ==
  /\ len - o >= HeaderCells
  /\ At(o).size <= len - o
  /\ At(o).ended

(* The two checks of an entry: the rest of the buffer holds a header, and    *)
(* nvfix_dirent_name_is_valid.                                               *)
Valid(o) ==
  /\ len - o >= HeaderCells
  /\ At(o).size >= HeaderCells
  /\ At(o).size <= len - o
  /\ At(o).ended

Kept(o) == At(o).of \in Keep

(* memmove of n cells.                                                       *)
Moved(to, from, n) ==
  [o \in DOMAIN cells |->
     IF o \in to .. to + n - 1 THEN cells[o - to + from] ELSE cells[o]]

(* A malformed entry ends the loop: the whole length is returned.            *)
Reject ==
  /\ result = Running
  /\ ro < len
  /\ ~Valid(ro)
  /\ result' = len
  /\ UNCHANGED <<origin, len, cells, ro, wo>>

(* Mutants of KeepEntry: only the header moves; all that is left moves.      *)
KeepEntryHead ==
  /\ result = Running
  /\ ro < len
  /\ Valid(ro)
  /\ Kept(ro)
  /\ cells' = Moved(wo, ro, HeaderCells)
  /\ wo' = wo + cells'[ro + 2].size
  /\ ro' = ro + cells'[ro + 2].size
  /\ UNCHANGED <<origin, len, result>>

KeepEntryRest ==
  /\ result = Running
  /\ ro < len
  /\ Valid(ro)
  /\ Kept(ro)
  /\ cells' = Moved(wo, ro, len - ro)
  /\ wo' = wo + At(ro).size
  /\ ro' = ro + At(ro).size
  /\ UNCHANGED <<origin, len, result>>

(* A kept entry moves down; then both offsets advance by the d_reclen found  *)
(* in the cells the entry was read from, as the move left them.              *)
KeepEntry ==
  /\ result = Running
  /\ ro < len
  /\ Valid(ro)
  /\ Kept(ro)
  /\ cells' = Moved(wo, ro, At(ro).size)
  /\ wo' = wo + cells'[ro + 2].size
  /\ ro' = ro + cells'[ro + 2].size
  /\ UNCHANGED <<origin, len, result>>

DropEntry ==
  /\ result = Running
  /\ ro < len
  /\ Valid(ro)
  /\ ~Kept(ro)
  /\ ro' = ro + At(ro).size
  /\ UNCHANGED <<origin, len, cells, wo, result>>

(* Mutant of Finish: the length is not reduced.                              *)
FinishWhole ==
  /\ result = Running
  /\ ro >= len
  /\ result' = ro
  /\ UNCHANGED <<origin, len, cells, ro, wo>>

Finish ==
  /\ result = Running
  /\ ro >= len
  /\ result' = wo
  /\ UNCHANGED <<origin, len, cells, ro, wo>>

Next == Reject \/ KeepEntry \/ DropEntry \/ Finish

Spec     == Init /\ [][Next]_vars
FairSpec == Spec /\ WF_vars(Next)

-----------------------------------------------------------------------------
(* Kept entries that the checks accept are at most KeptCells long, as those  *)
(* of PCI bus names are; what is malformed or hidden may have any length.    *)
ShortKept ==
  \A o \in 0 .. len - HeaderCells :
    LET head == origin[o + 2]
    IN  head.of \in Keep /\ head.ended /\ head.size <= len - o => head.size <= KeptCells

(* The buffer and the offsets, which stay in it when kept entries are short. *)
OffsetsTyped ==
  /\ len \in Nat
  /\ origin \in [0 .. len - 1 -> Cell]
  /\ cells \in [0 .. len - 1 -> Cell]
  /\ ro \in Nat
  /\ wo \in 0 .. ro
  /\ result \in {Running} \cup Nat
  /\ ShortKept => ro <= len /\ result <= len

(* Every variable stays in its domain; and whatever the answer, malformed or *)
(* with long entries, the cells the next move reads and writes are cells of  *)
(* the buffer.                                                               *)
TypeOK ==
  /\ OffsetsTyped
  /\ ro < len /\ Valid(ro) =>
       (ro .. ro + At(ro).size - 1) \cup (wo .. wo + At(ro).size - 1) \subseteq 0 .. len - 1

(* Moving an entry touches nothing that is still to be read, although source *)
(* and destination may overlap and d_reclen is read after the move: what was *)
(* hidden before a kept entry is at least as long as a header, and a kept    *)
(* entry is too short to reach its own d_reclen from there.                  *)
UnreadIntact == ShortKept => \A o \in ro .. len - 1 : cells[o] = origin[o]

(* Why that is so: what was dropped so far is nothing or at least a header.  *)
GapIsHeader == ro = wo \/ ro - wo >= HeaderCells

FilterInv == OffsetsTyped /\ UnreadIntact /\ GapIsHeader

(* The reference.  An entry at offset o ends inside the buffer and owns its  *)
(* cells; the buffer is well formed when entries follow each other from its  *)
(* start to its end.                                                         *)
EntryAt(o) ==
  /\ len - o >= HeaderCells
  /\ LET head == origin[o + 2]
     IN  /\ head.size \in HeaderCells .. len - o
         /\ head.ended
         /\ \A c \in o .. o + head.size - 1 : origin[c].of = head.of

Layouts ==
  {E \in SUBSET {o \in 0 .. len : o = len \/ EntryAt(o)} :
     0 \in E /\ \A o \in E \ {len} : o + origin[o + 2].size \in E}

WellFormed == Layouts # {}

(* The cells of kept entries below offset o.                                 *)
KeptBelow(o) == {c \in 0 .. len - 1 : c < o /\ origin[c].of \in Keep}

(* A well-formed answer whose kept entries are short comes back as them, in  *)
(* full, in their order, and nothing else: every kept cell is found behind   *)
(* those that were before it.                                                *)
FilterExact ==
  result # Running /\ WellFormed /\ ShortKept =>
    /\ result = Cardinality(KeptBelow(len))
    /\ \A c \in KeptBelow(len) : cells[Cardinality(KeptBelow(c))] = origin[c]

(* The loop ends on every buffer, malformed ones included.                   *)
Terminates == <>(result # Running)
=============================================================================
