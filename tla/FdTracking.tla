------------------------------ MODULE FdTracking ------------------------------
(***************************************************************************)
(* The descriptor bookkeeping of the nvscope shim: src/fd_map.c and the    *)
(* libc entry points of src/preload.c that write or read the fd map.       *)
(*                                                                         *)
(* The shim recognises what a descriptor refers to by its PATH, when it is *)
(* opened, and keeps that in a table indexed by descriptor NUMBER.  Every  *)
(* later call on the number (ioctl, readdir, getdents64, openat relative   *)
(* to it) looks the number up to decide whether the answer is filtered.    *)
(* The kernel's own table and the shim's are updated in separate steps, by *)
(* several threads, and the C library closes and duplicates descriptors    *)
(* through calls the shim does not interpose.                              *)
(*                                                                         *)
(* A step of the model is one system call, or one critical section of      *)
(* g_fd_map_lock, with the thread-local code around it.                    *)
(***************************************************************************)
EXTENDS Naturals

CONSTANTS
  Threads,    (* threads of the wrapped process                             *)
  Fds,        (* descriptor numbers the kernel may hand out                 *)
  FdMapMax,   (* NVFIX_FD_MAP_MAX: numbers below it have a slot             *)
  Paths,      (* classes of paths the process opens, see PathClasses        *)
  Inherited,  (* what descriptors open at process start may refer to        *)
  Unseen      (* ways a number changes hands that the shim does not see     *)

(*****************************************************************************)
(* A path, and the file it names, is one of:                                 *)
(*   nvidiactl     /dev/nvidiactl                                            *)
(*   device        /dev/nvidia-uvm or /dev/nvidiaN                           *)
(*   gpus          /proc/driver/nvidia/gpus                                  *)
(*   info          gpus/<bus>/information of an allowed GPU                  *)
(*   foreign_info  gpus/<bus>/information of a GPU that is not allowed       *)
(*   elsewhere     anything else; directories included                       *)
(* and one class is not spelled like the file it names:                      *)
(*   alias         any of them, written so that nvfix_classify_path does not *)
(*                 recognise it (a trailing slash, a link, "..", a path      *)
(*                 relative to /dev or /proc/driver/nvidia, "." in the gpus  *)
(*                 directory)                                                *)
(*****************************************************************************)
Files       == {"nvidiactl", "device", "gpus", "info", "foreign_info", "elsewhere"}
PathClasses == Files \cup {"alias"}
Directories == {"gpus", "elsewhere"}

(* What a path relative to a directory descriptor may name.                  *)
RelativeNames == {"info", "foreign_info", "elsewhere", "alias"}
NoFile      == "closed"

ASSUME FdTrackingAssumption ==
  /\ Fds \subseteq Nat
  /\ FdMapMax \in Nat
  /\ Paths \subseteq PathClasses
  /\ Inherited \subseteq Files
  /\ Unseen \subseteq {"closedir", "dup2", "close_error"}

VARIABLES
  ready,     (* g_proc_filter_ready                                         *)
  file,      (* kernel: what each descriptor number refers to, or NoFile    *)
  how,       (* ghost: how the open descriptor came to its number           *)
  fdmap,     (* g_fd_map: the record of each tracked number, or NoRecord    *)
  leftover,  (* ghost: numbers freed or replaced behind the shim's back     *)
             (* while they had a record                                     *)
  pc,        (* where each thread is inside a hooked call                   *)
  fd,        (* the descriptor that call is about                           *)
  path,      (* the path being opened, or the file a call was served from   *)
  outcome    (* what the step just taken decided, see Outcomes              *)

kernelVars == <<file, how>>
threadVars == <<pc, fd, path>>
vars == <<ready, file, how, fdmap, leftover, pc, fd, path, outcome>>

-----------------------------------------------------------------------------
(* Records of the map. *)

Kinds    == {"NVIDIA_CTL", "NVIDIA_DEVICE", "PROC_GPUS_DIR", "PROC_GPU_INFO"}
NoRecord == "NONE"

(* Mutants of Classify: every path is classified; a name is compared as a    *)
(* prefix, so that what lies below the gpus directory counts as it.          *)
ClassifyAll(p) ==
  CASE p = "nvidiactl"                -> "NVIDIA_CTL"
    [] p = "device"                   -> "NVIDIA_DEVICE"
    [] p = "gpus"                     -> "PROC_GPUS_DIR"
    [] p \in {"info", "foreign_info"} -> "PROC_GPU_INFO"
    [] OTHER                          -> "OTHER"

ClassifyPrefix(p) ==
  CASE p = "nvidiactl"                             -> "NVIDIA_CTL"
    [] p = "device"                                -> "NVIDIA_DEVICE"
    [] p \in {"gpus", "info", "foreign_info", "elsewhere"} -> "PROC_GPUS_DIR"
    [] OTHER                                       -> NoRecord

(* nvfix_classify_path: the kind of a path, NoRecord when it returns 0.      *)
(* NVIDIA_DEVICE stands for NVIDIA_UVM too: no caller tells them apart.      *)
Classify(p) ==
  CASE p = "nvidiactl"                -> "NVIDIA_CTL"
    [] p = "device"                   -> "NVIDIA_DEVICE"
    [] p = "gpus"                     -> "PROC_GPUS_DIR"
    [] p \in {"info", "foreign_info"} -> "PROC_GPU_INFO"
    [] OTHER                          -> NoRecord

(* nvfix_fd_map_get, _set and _remove: out of range means not tracked.       *)
Tracked == {f \in Fds : f < FdMapMax}

MapGet(f) == IF f \in Tracked THEN fdmap[f] ELSE NoRecord

(* Mutant of MapSet: an occupied slot keeps its record.                      *)
MapSetIfFree(f, r) ==
  fdmap' = IF f \in Tracked /\ fdmap[f] = NoRecord
             THEN [fdmap EXCEPT ![f] = r] ELSE fdmap

(* A record replaces whatever the slot held.                                 *)
MapSet(f, r) ==
  fdmap' = IF f \in Tracked THEN [fdmap EXCEPT ![f] = r] ELSE fdmap

MapRemove(f) ==
  fdmap' = IF f \in Tracked THEN [fdmap EXCEPT ![f] = NoRecord] ELSE fdmap

(* What ioctl, getdents64 and readdir do with an answer, by the record: the  *)
(* Resource Manager filter, the topology filter, or nothing.                 *)
Treatments == {"raw", "rm", "topology"}

Treatment(r) ==
  CASE r = "NVIDIA_CTL"    -> "rm"
    [] r = "PROC_GPUS_DIR" -> "topology"
    [] OTHER               -> "raw"

(* The treatment the file behind a number deserves, whatever it is called.   *)
Deserved(k) ==
  CASE k = "nvidiactl" -> "rm"
    [] k = "gpus"      -> "topology"
    [] OTHER           -> "raw"

(* nvfix_proc_denied for an absolute path.                                   *)
Denied(p) == ready /\ p = "foreign_info"

NoOutcome == [file |-> NoFile, treat |-> "raw"]
Outcomes  == [file : Files \cup {NoFile},
              treat : Treatments \cup {"opened", "denied"}]
Silent    == outcome' = NoOutcome

-----------------------------------------------------------------------------
(* The kernel's descriptor table, as the code in src/ relies on it. *)

LowestFree(f) ==
  /\ file[f] = NoFile
  /\ \A g \in Fds : g < f => file[g] # NoFile

PendingTrack(f)   == \E t \in Threads : pc[t] = "track" /\ fd[t] = f
PendingUntrack(f) == \E t \in Threads : pc[t] = "untrack" /\ fd[t] = f

(* The number has been returned to the process: its threads may use it.      *)
Returned(f) == file[f] # NoFile /\ ~PendingTrack(f)

(* A hooked open of path p obtains number f for file k.  It is "raced" when  *)
(* another thread's close() of the same number has not yet reached           *)
(* nvfix_fd_map_remove.                                                      *)
Allocate(f, p, k) ==
  /\ LowestFree(f)
  /\ file' = [file EXCEPT ![f] = k]
  /\ how'  = [how EXCEPT ![f] = IF PendingUntrack(f) THEN "raced"
                                  ELSE IF p = "alias" THEN "alias"
                                  ELSE "hooked"]

(* A call the shim does not see frees or replaces number f.                  *)
Abandon(f) ==
  leftover' = IF MapGet(f) = NoRecord THEN leftover ELSE leftover \cup {f}

(* The files a path may name, looked up from the root.                       *)
Named(p) == IF p = "alias" THEN Files ELSE {p}

Idle(t) == pc[t] = "idle"

Goto(t, label, f, p) ==
  /\ pc'   = [pc EXCEPT ![t] = label]
  /\ fd'   = [fd EXCEPT ![t] = f]
  /\ path' = [path EXCEPT ![t] = p]

Return(t) == Goto(t, "idle", 0, NoFile)

Init ==
  /\ ready = FALSE
  /\ file \in [Fds -> Inherited \cup {NoFile}]
  /\ how = [f \in Fds |-> "unhooked"]
  /\ fdmap = [f \in Tracked |-> NoRecord]
  /\ leftover = {}
  /\ pc = [t \in Threads |-> "idle"]
  /\ fd = [t \in Threads |-> 0]
  /\ path = [t \in Threads |-> NoFile]
  /\ outcome = NoOutcome

-----------------------------------------------------------------------------
(* nvfix_constructor: the topology was detected and filtering is switched    *)
(* on.  Constructors of other libraries may have made hooked calls before.   *)
Constructor(t) ==
  /\ Idle(t)
  /\ ~ready
  /\ ready' = TRUE
  /\ Silent
  /\ UNCHANGED <<kernelVars, fdmap, leftover, threadVars>>

(* open, open64, and openat with an absolute path, up to the real call: the  *)
(* denial check, the real open, and the record still to be stored when the   *)
(* path was classified.  A failing real open changes nothing.                *)
OpenDenied(t, p) ==
  /\ Idle(t)
  /\ Denied(p)
  /\ outcome' = [file |-> p, treat |-> "denied"]
  /\ UNCHANGED <<ready, kernelVars, fdmap, leftover, threadVars>>

OpenReal(t, p, k) ==
  /\ Idle(t)
  /\ ~Denied(p)
  /\ \E f \in Fds :
       /\ Allocate(f, p, k)
       /\ IF Classify(p) = NoRecord
            THEN UNCHANGED threadVars
            ELSE Goto(t, "track", f, p)
  /\ outcome' = [file |-> k, treat |-> "opened"]
  /\ UNCHANGED <<ready, fdmap, leftover>>

(* opendir: the same for directories; dirfd() gives the number to track.     *)
Opendir(t, p, k) ==
  /\ k \in Directories
  /\ OpenReal(t, p, k)

(* nvfix_trace_and_track_open, and the tail of nvfix_open_common.            *)
Track(t) ==
  /\ pc[t] = "track"
  /\ MapSet(fd[t], Classify(path[t]))
  /\ leftover' = leftover \ {fd[t]}
  /\ Return(t)
  /\ Silent
  /\ UNCHANGED <<ready, kernelVars>>

-----------------------------------------------------------------------------
(* Mutant of OpenatLookup: the absolute path is built but not checked.       *)
OpenatLookupUnchecked(t, d, p) ==
  /\ Idle(t)
  /\ Goto(t, IF MapGet(d) = "PROC_GPUS_DIR" THEN "openat_below" ELSE "openat", d, p)
  /\ Silent
  /\ UNCHANGED <<ready, kernelVars, fdmap, leftover>>

(* openat relative to a descriptor.  nvfix_effective_openat_path looks the   *)
(* directory up; only below the gpus directory is the path made absolute,    *)
(* checked, and tracked after the real call.                                 *)
OpenatLookup(t, d, p) ==
  /\ Idle(t)
  /\ LET below == MapGet(d) = "PROC_GPUS_DIR"
     IN  IF below /\ Denied(p)
           THEN /\ outcome' = [file |-> p, treat |-> "denied"]
                /\ UNCHANGED threadVars
           ELSE /\ Goto(t, IF below THEN "openat_below" ELSE "openat", d, p)
                /\ Silent
  /\ UNCHANGED <<ready, kernelVars, fdmap, leftover>>

(* The kernel resolves the relative path against what the number refers to   *)
(* by now.  From another directory, a relative path that leads to a file of  *)
(* the shim's interest is not a name it recognises.  Only directories        *)
(* resolve anything.                                                         *)
Resolve(d, p) ==
  CASE file[d] = "gpus"      -> Named(p)
    [] file[d] = "elsewhere" -> IF p = "alias" THEN Files ELSE {"elsewhere"}
    [] OTHER                 -> {}

OpenatReal(t) ==
  LET targets == Resolve(fd[t], path[t])
  IN  /\ pc[t] \in {"openat", "openat_below"}
      /\ \/ \E f \in Fds, k \in targets :
              /\ Allocate(f, path[t], k)
              /\ IF pc[t] = "openat_below" /\ Classify(path[t]) # NoRecord
                   THEN Goto(t, "track", f, path[t])
                   ELSE Return(t)
              /\ outcome' = [file |-> k, treat |-> "opened"]
         \/ /\ targets = {} \/ \A f \in Fds : file[f] # NoFile
            /\ Return(t)
            /\ Silent
            /\ UNCHANGED kernelVars
      /\ UNCHANGED <<ready, fdmap, leftover>>

-----------------------------------------------------------------------------
(* close: the real close first, the record is removed after it succeeded.    *)
CloseReal(t, f) ==
  /\ Idle(t)
  /\ Returned(f)
  /\ file' = [file EXCEPT ![f] = NoFile]
  /\ how'  = [how EXCEPT ![f] = "unhooked"]
  /\ Goto(t, "untrack", f, NoFile)
  /\ Silent
  /\ UNCHANGED <<ready, fdmap, leftover>>

(* Mutant of Untrack: close() forgets nvfix_fd_map_remove.                   *)
UntrackNothing(t) ==
  /\ pc[t] = "untrack"
  /\ leftover' = leftover \ {fd[t]}
  /\ Return(t)
  /\ Silent
  /\ UNCHANGED <<ready, kernelVars, fdmap>>

(* The record is removed after the real close succeeded.                     *)
Untrack(t) ==
  /\ pc[t] = "untrack"
  /\ MapRemove(fd[t])
  /\ leftover' = leftover \ {fd[t]}
  /\ Return(t)
  /\ Silent
  /\ UNCHANGED <<ready, kernelVars>>

-----------------------------------------------------------------------------
(* ioctl, getdents64 and one iteration of readdir: the real call on the      *)
(* number first, then the lookup that decides how its answer is treated.     *)
CallReal(t, f) ==
  /\ Idle(t)
  /\ Returned(f)
  /\ Goto(t, "decide", f, file[f])
  /\ Silent
  /\ UNCHANGED <<ready, kernelVars, fdmap, leftover>>

(* Mutant of Decide: the result of the lookup is not checked, and the record *)
(* is what the stack held.                                                   *)
DecideUnchecked(t) ==
  /\ pc[t] = "decide"
  /\ \E treat \in Treatments :
       /\ MapGet(fd[t]) # NoRecord => treat = Treatment(MapGet(fd[t]))
       /\ outcome' = [file |-> path[t], treat |-> IF ready THEN treat ELSE "raw"]
  /\ Return(t)
  /\ UNCHANGED <<ready, kernelVars, fdmap, leftover>>

(* The lookup.  Without a record, or before filtering is on, the answer is   *)
(* left as it is.                                                            *)
Decide(t) ==
  /\ pc[t] = "decide"
  /\ outcome' = [file  |-> path[t],
                 treat |-> IF ready THEN Treatment(MapGet(fd[t])) ELSE "raw"]
  /\ Return(t)
  /\ UNCHANGED <<ready, kernelVars, fdmap, leftover>>

-----------------------------------------------------------------------------
(* A close() that reports an error after Linux freed the number (EINTR, EIO) *)
(* skips nvfix_fd_map_remove.  closedir is not interposed: it releases what  *)
(* opendir returned, and glibc closes the descriptor internally.             *)
FreeUnseen(t, f) ==
  /\ Idle(t)
  /\ Returned(f)
  /\ file' = [file EXCEPT ![f] = NoFile]
  /\ how'  = [how EXCEPT ![f] = "unhooked"]
  /\ Abandon(f)
  /\ Silent
  /\ UNCHANGED <<ready, fdmap, threadVars>>

CloseFails(t, f) ==
  /\ "close_error" \in Unseen
  /\ file[f] \notin {"gpus", "info", "foreign_info"}   \* procfs never fails
  /\ FreeUnseen(t, f)

Closedir(t, f) ==
  /\ "closedir" \in Unseen
  /\ file[f] \in Directories
  /\ FreeUnseen(t, f)

(* dup2(old, new), and dup and fcntl(F_DUPFD) when new is free.              *)
Dup2(t, old, new) ==
  /\ "dup2" \in Unseen
  /\ Idle(t)
  /\ Returned(old)
  /\ old # new
  /\ ~PendingTrack(new)
  /\ file' = [file EXCEPT ![new] = file[old]]
  /\ how'  = [how EXCEPT ![new] = "unhooked"]
  /\ Abandon(new)
  /\ Silent
  /\ UNCHANGED <<ready, fdmap, threadVars>>

-----------------------------------------------------------------------------
ThreadStep(t) ==
  \/ Constructor(t)
  \/ \E p \in Paths : OpenDenied(t, p)
  \/ \E p \in Paths : \E k \in Named(p) : OpenReal(t, p, k) \/ Opendir(t, p, k)
  \/ Track(t)
  \/ \E d \in Fds, p \in Paths \cap RelativeNames : OpenatLookup(t, d, p)
  \/ OpenatReal(t)
  \/ \E f \in Fds : CloseReal(t, f) \/ CallReal(t, f)
                     \/ CloseFails(t, f) \/ Closedir(t, f)
  \/ Untrack(t)
  \/ Decide(t)
  \/ \E old, new \in Fds : Dup2(t, old, new)

Next == \E t \in Threads : ThreadStep(t)

Spec == Init /\ [][Next]_vars

-----------------------------------------------------------------------------
(* Every variable stays in its domain, and a thread that is about to update  *)
(* or read the map holds the number of a descriptor.                         *)
TypeOK ==
  /\ ready \in BOOLEAN
  /\ file \in [Fds -> Files \cup {NoFile}]
  /\ how \in [Fds -> {"hooked", "raced", "alias", "unhooked"}]
  /\ fdmap \in [Tracked -> Kinds \cup {NoRecord}]
  /\ leftover \subseteq Tracked
  /\ pc \in [Threads -> {"idle", "track", "untrack", "openat", "openat_below", "decide"}]
  /\ fd \in [Threads -> Nat]
  /\ path \in [Threads -> PathClasses \cup {NoFile}]
  /\ \A t \in Threads :
       /\ ~Idle(t) => fd[t] \in Fds
       /\ pc[t] \in {"openat", "openat_below"} => path[t] \in RelativeNames
       /\ pc[t] = "decide" => path[t] \in Files
  /\ outcome \in Outcomes

(* A record that would filter answers of a file it is not about exists only  *)
(* while some close() of that number has not returned, or after a call the   *)
(* shim does not interpose took the number away.  In particular a number     *)
(* whose close() returned is never filtered because of its earlier use,      *)
(* whatever the other threads do.                                            *)
StaleOnlyWhileClosing ==
  \A f \in Tracked :
    Treatment(fdmap[f]) \notin {"raw", Deserved(file[f])}
      => PendingUntrack(f) \/ f \in leftover

(* A descriptor below FdMapMax opened by the name the shim knows is treated, *)
(* once open() has returned, as its file deserves, unless its number was     *)
(* handed out while a close() of that number was between the real close and  *)
(* nvfix_fd_map_remove, or carries the record of a use the shim did not see  *)
(* end.                                                                      *)
HookedOpensTracked ==
  \A f \in Tracked :
    /\ Returned(f)
    /\ how[f] = "hooked"
    /\ f \notin leftover
    => Treatment(fdmap[f]) = Deserved(file[f])

(* What the two properties above rest on.  A thread about to store a record  *)
(* is the only one for its number, and the record it will store treats the   *)
(* number as its file deserves; a close() still to remove a record is about  *)
(* a number that is free or was handed out as raced.                         *)
Discipline ==
  /\ \A t \in Threads : pc[t] = "track" =>
       /\ file[fd[t]] # NoFile
       /\ Treatment(Classify(path[t])) = Deserved(file[fd[t]])
       /\ \A u \in Threads : pc[u] = "track" /\ fd[u] = fd[t] => u = t
  /\ \A f \in Fds : file[f] # NoFile /\ how[f] = "hooked" => ~PendingUntrack(f)

(* The answer of a call on a descriptor below FdMapMax is treated after the  *)
(* call, by what is recorded of the number by then.  When the number has not *)
(* changed hands behind the shim's back, no close() of it is unfinished, and *)
(* it refers to the file the answer came from, the treatment is the one that *)
(* file deserves; or there is none, for a descriptor that was not opened by  *)
(* the name the shim knows, or whose open() has not returned.                *)
AnswerFits(t) ==
  LET f == fd[t]
  IN  /\ Decide(t)
      /\ ready
      /\ f \in Tracked \ leftover
      /\ file[f] = path[t]
      /\ ~PendingUntrack(f)
      => \/ outcome'.treat = Deserved(path[t])
         \/ outcome'.treat = "raw" /\ (how[f] # "hooked" \/ PendingTrack(f))

AnswersFit == [][\A t \in Threads : AnswerFits(t)]_vars

TrackingInv ==
  /\ TypeOK
  /\ Discipline
  /\ StaleOnlyWhileClosing
  /\ HookedOpensTracked

-----------------------------------------------------------------------------
(* src/src/fd_map.h:25 says the map tracks descriptors 0 through 4095: every *)
(* descriptor below FdMapMax whose hooked open returned has the record of    *)
(* its file.  Two threads break it: a close() of the number that is still to *)
(* remove its record removes the record of the open that reused the number.  *)
OpenDescriptorsTracked ==
  \A f \in Tracked :
    /\ Returned(f)
    /\ how[f] \in {"hooked", "raced"}
    /\ f \notin leftover
    /\ ~PendingUntrack(f)
    => Treatment(fdmap[f]) = Deserved(file[f])

(* src/docs/safety-model.md:5-9 lists the discovery paths the shim filters.  *)
(* An ordinary directory is not among them: its listing is never filtered.   *)
OrdinaryNeverFiltered ==
  ~(outcome.file = "elsewhere" /\ outcome.treat \in {"rm", "topology"})

-----------------------------------------------------------------------------
(* Refinement: with one thread, no alias and no unseen call, the table makes *)
(* every answer and every refusal the one the file behind the number         *)
(* deserves; the table, and the steps between its updates and the kernel's,  *)
(* cannot be noticed.                                                        *)
View == INSTANCE DescriptorView WITH Limit <- FdMapMax

ImplementsView == View!Spec
=============================================================================
