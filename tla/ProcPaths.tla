----------------------------- MODULE ProcPaths -----------------------------
(***************************************************************************)
(* One hooked call with a path: which paths the shim takes for a GPU's     *)
(* information file, however they are spelled, which it denies, and what   *)
(* it records of an opened file. A path is its first part and the segments *)
(* behind it; "" is the segment between two slashes or after the last.     *)
(***************************************************************************)
EXTENDS Integers, Sequences, SequencesExt

CONSTANTS
  Buses,      \* the GPUs of the gpus directory
  ShownBuses, \* those in g_allowed_gpus, when the filter is ready
  Long,       \* a name of NVFIX_PROC_BUS_ID_MAX characters
  Oversized,  \* a name that does not fit in NVFIX_PATH_MAX
  MaxSegs     \* bound of the model: segments of a path

VARIABLES op, dirfd, path, record, result
vars == <<op, dirfd, path, record, result>>

Names  == Buses \cup {"", ".", "..", "gpus", "information", Long, Oversized}
NoPath == [base |-> "none", tail |-> <<>>]
Other  == [kind |-> "other", bus |-> ""]

ASSUME PathsAssumption ==
  /\ ShownBuses \subseteq Buses
  /\ Buses \cap {"", ".", "..", "gpus", "information", Long, Oversized} = {}
  /\ {Long, Oversized} \cap {"", ".", "..", "gpus", "information"} = {}
-----------------------------------------------------------------------------
(* The kernel's walk: below /proc/driver/nvidia there is gpus, below it the  *)
(* GPUs, and in each its information. Nothing is below a file.               *)
Gpus == <<"gpus">>
DirOf(b) == Append(Gpus, b)
InfoOf(b) == Append(DirOf(b), "information")
InfoFiles == {InfoOf(b) : b \in Buses}
Tree == {<<>>, Gpus} \cup {DirOf(b) : b \in Buses} \cup InfoFiles
Nowhere == <<"nowhere">>

Walk(at, name) ==
  IF at \notin Tree \ InfoFiles THEN Nowhere
  ELSE CASE name \in {"", "."} -> at
         [] name = ".."        -> IF at = <<>> THEN at ELSE Front(at)
         [] OTHER              -> IF Append(at, name) \in Tree THEN Append(at, name) ELSE Nowhere

(* Where the walk is after each number of segments.                          *)
Walked(tail) ==
  LET at[k \in 0 .. Len(tail)] == IF k = 0 THEN Gpus ELSE Walk(at[k - 1], tail[k])
  IN  at

(* What the real call reaches. "alias" is the gpus directory by another      *)
(* name, and descriptors "tracked" and "untracked" refer to it.              *)
Target ==
  IF path.base = "relative" /\ dirfd = "elsewhere" THEN Nowhere
  ELSE Walked(path.tail)[Len(path.tail)]
-----------------------------------------------------------------------------
(* Mutant of ExtractBus: a bus may contain a slash.                          *)
ExtractBusDeep(p) ==
  IF /\ p.base = "gpus" /\ Len(p.tail) >= 2
     /\ Last(p.tail) = "information" /\ p.tail[1] \notin {Long, Oversized}
  THEN IF Len(p.tail) = 2 THEN p.tail[1] ELSE "deep" ELSE ""

(* The bus of ".../gpus/<bus>/information", or none.                         *)
ExtractBus(p) ==
  IF /\ p.base = "gpus" /\ Len(p.tail) = 2
     /\ p.tail[2] = "information" /\ p.tail[1] \notin {"", Long, Oversized}
  THEN p.tail[1] ELSE ""

(* nvfix_proc_path_allowed is NVFIX_PROC_DENY.                               *)
PathDenied(p) == ExtractBus(p) \notin {""} \cup ShownBuses

(* Mutant of Classify: a bus may contain a slash.                            *)
ClassifyDeep(p) ==
  CASE p = [base |-> "gpus", tail |-> <<>>] -> [kind |-> "dir", bus |-> ""]
    [] p.base = "gpus" /\ Len(p.tail) >= 2 /\ Last(p.tail) = "information" ->
         [kind |-> "info", bus |-> p.tail[1]]
    [] OTHER -> Other

(* The record of a path: the directory, a GPU's file, or nothing to record.  *)
Classify(p) ==
  CASE p = [base |-> "gpus", tail |-> <<>>] -> [kind |-> "dir", bus |-> ""]
    [] /\ p.base = "gpus" /\ Len(p.tail) = 2
       /\ p.tail[2] = "information" /\ p.tail[1] \notin {"", Long, Oversized} ->
         [kind |-> "info", bus |-> p.tail[1]]
    [] OTHER -> Other

(* Mutant of Normalize: drops "." only.                                      *)
NormalizeDots(tail) ==
  LET kept == SelectSeq(tail, LAMBDA s : s # ".")
  IN  IF {"..", Oversized} \cap Range(tail) # {} \/ kept = <<>> THEN NoPath
      ELSE [base |-> "gpus", tail |-> kept]

(* The loop over the segments: empty and "." segments are dropped.           *)
KeptNames(tail) ==
  LET kept[k \in 0 .. Len(tail)] ==
        IF k = 0 THEN <<>>
        ELSE IF tail[k] \in {"", "."} THEN kept[k - 1]
        ELSE Append(kept[k - 1], tail[k])
  IN  kept

(* With "..", without a name, or too long, there is no normal form.          *)
Normalize(tail) ==
  LET kept == KeptNames(tail)[Len(tail)]
  IN  IF {"..", Oversized} \cap Range(tail) # {} \/ kept = <<>> THEN NoPath
      ELSE [base |-> "gpus", tail |-> kept]

(* The path that is judged: openat and newfstatat make a path below a        *)
(* recorded directory absolute, open, opendir and stat take it as it is.     *)
Effective ==
  IF op \in {"openat", "newfstatat"} /\ path.base = "relative" /\ dirfd = "tracked"
     /\ Normalize(path.tail) # NoPath
  THEN Normalize(path.tail) ELSE path

Denied == Effective.base # "relative" /\ PathDenied(Effective)
-----------------------------------------------------------------------------
Tails == UNION {[1 .. n -> Names] : n \in 0 .. MaxSegs}

(* A relative path does not begin with a slash and is not empty.             *)
Paths == {p \in [base : {"gpus", "alias", "relative"}, tail : Tails] :
            p.base = "relative" => p.tail # <<>> /\ p.tail[1] # ""}

Init ==
  /\ op \in {"open", "openat", "newfstatat", "stat"}
  /\ dirfd \in {"tracked", "untracked", "elsewhere"}
  /\ path \in Paths
  /\ record = Other
  /\ result = "none"

(* nvfix_proc_denied: ENOENT, and nothing is recorded.                       *)
Deny ==
  /\ result = "none" /\ Denied
  /\ result' = "denied"
  /\ UNCHANGED <<op, dirfd, path, record>>

(* The real call; an open that succeeds is recorded under the judged path,   *)
(* if that is absolute.                                                      *)
Real ==
  /\ result = "none" /\ ~Denied
  /\ IF Target = Nowhere THEN result' = "failed" /\ UNCHANGED record
     ELSE /\ result' = "done"
          /\ record' = IF op \in {"open", "openat"} /\ Effective.base # "relative"
                       THEN Classify(Effective) ELSE Other
  /\ UNCHANGED <<op, dirfd, path>>

Next == Deny \/ Real

Spec == Init /\ [][Next]_vars
-----------------------------------------------------------------------------
HiddenFiles == {InfoOf(b) : b \in Buses \ ShownBuses}

(* Only the information files of GPUs that are not shown are denied, or      *)
(* paths that lead nowhere: nvfix_extract_proc_bus takes no other path for   *)
(* one, so that no spelling makes a mounted GPU disappear.                   *)
DeniedAreHidden == result = "denied" => Target \in HiddenFiles \cup {Nowhere}

(* Below a recorded gpus directory every spelling without ".." of a hidden   *)
(* GPU's file is denied, as nvfix_normalize_relative_path undoes it and its  *)
(* limits are beyond any GPU's name.                                         *)
SpellingIrrelevant ==
  /\ op \in {"openat", "newfstatat"} /\ path.base = "relative" /\ dirfd = "tracked"
  /\ ".." \notin Range(path.tail) /\ Target \in HiddenFiles
  => result \in {"none", "denied"}

(* What is recorded of an opened file is what the kernel opened, though the  *)
(* record is made from another path than the one the real call was given;    *)
(* and the two copies of the recognition (fd_map.c, proc_filter.c) agree.    *)
RecordNamesFile ==
  /\ record.kind = "dir"  => Target = Gpus
  /\ record.kind = "info" => Target = InfoOf(record.bus) /\ ExtractBus(Effective) = record.bus
=============================================================================
