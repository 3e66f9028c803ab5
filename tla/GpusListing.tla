------------------------------ MODULE GpusListing ------------------------------
(***************************************************************************)
(* Listing /proc/driver/nvidia/gpus through the shim: getdents64 and       *)
(* readdir of src/preload.c, on a descriptor the fd map holds as           *)
(* PROC_GPUS_DIR.                                                          *)
(*                                                                         *)
(* The kernel lists the entries at positions 1 .. Entries in order, "."    *)
(* and ".." first, and keeps one read offset per open directory.  A call   *)
(* of getdents64 returns as many entries as its buffer holds, and 0 at the *)
(* end of the directory; the C library's readdir returns them one by one.  *)
(* An entry is named here by its position.                                 *)
(***************************************************************************)
EXTENDS Naturals

CONSTANTS
  Threads,   (* threads that list one directory through a shared descriptor *)
  Entries,   (* number of entries, "." and ".." included                    *)
  Room       (* numbers of entries a getdents64 buffer may have room for    *)

Positions == 1 .. Entries
Dots      == {1, 2}

ASSUME GpusListingAssumption ==
  /\ Entries \in Nat /\ Entries >= 2
  /\ Room \subseteq Nat \ {0}

VARIABLES
  ready,     (* g_proc_filter_ready                                         *)
  allowed,   (* g_allowed_gpus: positions of the buses of allowed GPUs      *)
  api,       (* the call the program lists with                             *)
  offset,    (* kernel: entries handed out so far                           *)
  pc,        (* where each thread is                                        *)
  held,      (* entries a call in progress took and has not judged yet      *)
  got        (* entries each thread was shown                               *)

fixedVars == <<ready, allowed, api>>
listVars  == <<offset, pc, held, got>>
vars      == <<fixedVars, listVars>>

-----------------------------------------------------------------------------
(* Mutant of Shown: "." and ".." are treated like buses.                     *)
ShownBuses(i) == ready => i \in allowed

(* nvfix_readdir_entry_allowed, and the `keep` of                            *)
(* nvfix_filter_dirent64_buffer.                                             *)
Shown(i) == ready => i \in Dots \cup allowed

(* nvfix_build_allowed_gpus: filtering is on when some GPU is allowed.       *)
Init ==
  /\ allowed \in SUBSET (Positions \ Dots)
  /\ ready = (allowed # {})
  /\ api \in {"getdents64", "readdir"}
  /\ offset = 0
  /\ pc = [t \in Threads |-> "idle"]
  /\ held = [t \in Threads |-> {}]
  /\ got = [t \in Threads |-> {}]

(* A stream is read by one thread; getdents64 may be called by several.      *)
Alone(t) == \A u \in Threads \ {t} : pc[u] = "idle" /\ got[u] = {}

Goto(t, label, taken) ==
  /\ pc' = [pc EXCEPT ![t] = label]
  /\ held' = [held EXCEPT ![t] = taken]

-----------------------------------------------------------------------------
(* getdents64: the system call fills the buffer and moves the offset; at the *)
(* end of the directory it returns 0 and the program stops listing.          *)
GetdentsReal(t, n) ==
  /\ api = "getdents64"
  /\ pc[t] = "idle"
  /\ LET last == IF offset + n < Entries THEN offset + n ELSE Entries
     IN  /\ offset' = last
         /\ Goto(t, IF offset = Entries THEN "done" ELSE "filter",
                 offset + 1 .. last)
  /\ UNCHANGED <<fixedVars, got>>

(* Mutant of GetdentsFilter: the last kept entry is cut off.                 *)
GetdentsFilterShort(t) ==
  /\ pc[t] = "filter"
  /\ LET kept == {i \in held[t] : Shown(i) /\ \E j \in held[t] : j >= i + 1}
     IN  /\ got' = [got EXCEPT ![t] = @ \cup kept]
         /\ Goto(t, IF kept = {} THEN "done" ELSE "idle", {})
  /\ UNCHANGED <<fixedVars, offset>>

(* Then the answer is filtered in place.  The program is told the length of  *)
(* what is left: when nothing is, that is 0, the end of the directory.       *)
GetdentsFilter(t) ==
  /\ pc[t] = "filter"
  /\ LET kept == {i \in held[t] : Shown(i)}
     IN  /\ got' = [got EXCEPT ![t] = @ \cup kept]
         /\ Goto(t, IF kept = {} THEN "done" ELSE "idle", {})
  /\ UNCHANGED <<fixedVars, offset>>

-----------------------------------------------------------------------------
(* Mutant of ReaddirReal: NULL is not checked for.                           *)
ReaddirRealUnchecked(t) ==
  /\ api = "readdir"
  /\ pc[t] \in {"idle", "next"}
  /\ Alone(t)
  /\ offset <= Entries
  /\ Goto(t, "check", {offset + 1})
  /\ offset' = offset + 1
  /\ UNCHANGED <<fixedVars, got>>

(* readdir: the real readdir, for the first entry of the call and for each   *)
(* one that follows a hidden entry; NULL ends the listing.                   *)
ReaddirReal(t) ==
  /\ api = "readdir"
  /\ pc[t] \in {"idle", "next"}
  /\ Alone(t)
  /\ IF offset = Entries
       THEN Goto(t, "done", {}) /\ UNCHANGED offset
       ELSE Goto(t, "check", {offset + 1}) /\ offset' = offset + 1
  /\ UNCHANGED <<fixedVars, got>>

(* Mutants of ReaddirCheck: a hidden entry ends the call with NULL; the loop *)
(* judges the hidden entry again instead of reading the next one.            *)
ReaddirCheckNull(t) ==
  /\ pc[t] = "check"
  /\ IF \A i \in held[t] : Shown(i)
       THEN got' = [got EXCEPT ![t] = @ \cup held[t]] /\ Goto(t, "idle", {})
       ELSE UNCHANGED got /\ Goto(t, "done", {})
  /\ UNCHANGED <<fixedVars, offset>>

ReaddirCheckAgain(t) ==
  /\ pc[t] = "check"
  /\ \A i \in held[t] : Shown(i)
  /\ got' = [got EXCEPT ![t] = @ \cup held[t]]
  /\ Goto(t, "idle", {})
  /\ UNCHANGED <<fixedVars, offset>>

(* The entry is returned, or the loop goes on.                               *)
ReaddirCheck(t) ==
  /\ pc[t] = "check"
  /\ IF \A i \in held[t] : Shown(i)
       THEN got' = [got EXCEPT ![t] = @ \cup held[t]] /\ Goto(t, "idle", {})
       ELSE UNCHANGED got /\ Goto(t, "next", {})
  /\ UNCHANGED <<fixedVars, offset>>

-----------------------------------------------------------------------------
ListStep(t) ==
  \/ \E n \in Room : GetdentsReal(t, n)
  \/ GetdentsFilter(t)
  \/ ReaddirReal(t)
  \/ ReaddirCheck(t)

Next == \E t \in Threads : ListStep(t)

Spec == Init /\ [][Next]_vars

(* A thread that has begun to list goes on until it is told to stop: it      *)
(* calls again, and inside a call nothing waits.                             *)
FairSpec == Spec /\ \A t \in Threads : WF_vars(ListStep(t))

-----------------------------------------------------------------------------
(* Every variable stays in its domain.                                       *)
TypeOK ==
  /\ ready \in BOOLEAN
  /\ ready => allowed # {}
  /\ allowed \subseteq Positions \ Dots
  /\ api \in {"getdents64", "readdir"}
  /\ offset \in 0 .. Entries
  /\ pc \in [Threads -> {"idle", "filter", "next", "check", "done"}]
  /\ held \in [Threads -> SUBSET Positions]
  /\ got \in [Threads -> SUBSET Positions]

(* What a program in the container is to see of the directory: all of it     *)
(* when the topology is unknown, else itself, its parent and the allowed     *)
(* GPUs.                                                                     *)
Wanted(i) == ~ready \/ i \in Dots \/ i \in allowed

(* Whatever the buffers, and however the threads share the offset, an entry  *)
(* the kernel has handed out is judged once: it is held by one call, or was  *)
(* shown to one thread if it is to be shown and to none if it is not.        *)
ShownOnce ==
  /\ \A i \in 1 .. offset :
       \/ \E t \in Threads : i \in held[t]
       \/ (\E t \in Threads : i \in got[t]) <=> Wanted(i)
  /\ \A t \in Threads :
       /\ held[t] \cup got[t] \subseteq 1 .. offset
       /\ held[t] \cap got[t] = {}
       /\ \A i \in got[t] : Wanted(i)
       /\ \A u \in Threads \ {t} :
            (held[t] \cup got[t]) \cap (held[u] \cup got[u]) = {}

(* No buffer can be filled with hidden entries only.                         *)
NoHiddenChunk ==
  \A n \in Room, i \in Positions :
    i + n - 1 <= Entries => \E j \in i .. i + n - 1 : Wanted(j)

(* A thread is told that the directory has ended only when the kernel has    *)
(* handed out every entry: always with readdir, and with getdents64 as long  *)
(* as no buffer can be filled with hidden entries only.                      *)
EndsAtTheEnd ==
  api = "readdir" \/ NoHiddenChunk
    => \A t \in Threads : pc[t] = "done" => offset = Entries

(* What the properties rest on.  A thread holds entries only inside a call,  *)
(* one in readdir; the entries a getdents64 took fill its buffer unless they *)
(* are the last of the directory.                                            *)
CallsInProgress ==
  \A t \in Threads :
    /\ pc[t] \in {"idle", "next", "done"} => held[t] = {}
    /\ pc[t] \in {"next", "check"} => api = "readdir"
    /\ pc[t] = "check" => \E i \in Positions : held[t] = {i}
    /\ pc[t] = "filter" =>
         /\ api = "getdents64"
         /\ \/ offset = Entries
            \/ \E n \in Room, i \in Positions :
                 i + n - 1 <= Entries /\ i .. i + n - 1 \subseteq held[t]

ListingInv ==
  /\ TypeOK
  /\ CallsInProgress
  /\ ShownOnce
  /\ EndsAtTheEnd

(* src/README.md:32 says the shim filters /proc/driver/nvidia/gpus to the    *)
(* mounted devices: the listing shows each of them before it ends.  It does  *)
(* not when every entry of one getdents64 answer is hidden.                  *)
AllowedAreListed ==
  (\E t \in Threads : pc[t] = "done")
    => \A i \in allowed : \E u \in Threads : i \in held[u] \cup got[u]

(* Every listing ends, however many hidden entries readdir must skip.        *)
ListingEnds ==
  IF api = "readdir"
    THEN <>(\E t \in Threads : pc[t] = "done")
    ELSE <>(\A t \in Threads : pc[t] = "done")
=============================================================================
