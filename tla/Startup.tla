------------------------------ MODULE Startup ------------------------------
(***************************************************************************)
(* Topology detection, once, in the library's constructor: scan /dev for   *)
(* mounted GPU device nodes, scan /proc/driver/nvidia/gpus and read one    *)
(* information file per entry, and allow the GPUs found in both.           *)
(* /dev and the directory may change at any time, before and after.        *)
(* A directory is scanned in any order: each step takes one entry.         *)
(***************************************************************************)
EXTENDS Integers, FiniteSets, Sequences

CONSTANTS
  DevNames,   \* what follows "nvidia" in names of /dev: 0 .. 9, or other characters
  IntMax,     \* INT_MAX
  Gpus,       \* the entries of the gpus directory, by bus
  MinorOf,    \* MinorOf[g], UuidOf[g]: the truth about GPU g
  UuidOf,
  Texts,      \* Texts[g]: what the driver may answer in g's information file
  NoUuid,     \* no UUID, in a file or in the configuration
  Empty,      \* an empty value
  TooLong,    \* a value longer than the array it is to be copied to
  NoInfo,     \* the function returned 0
  MaxGpus,    \* NVFIX_MAX_GPUS
  MaxChanges  \* bound of the model: changes of /dev and of the directory

VARIABLES
  nodes, listed,   \* /dev and the gpus directory now
  wanted,          \* the configured UUID, or NoUuid
  pc,              \* what the constructor does
  owed, seen,      \* entries the scan must still give, and those it gave
  minors, infos,   \* names and information collected
  allowed, ready,  \* g_allowed_gpus and g_proc_filter_ready
  changes,
  ever, stayed,    \* ghost: present at some moment of the detection, and always so far
  lost, cut        \* ghost: GPUs whose information failed; a scan did not reach its end

env    == <<nodes, listed, changes, ever, stayed>>
result == <<allowed, ready>>
vars   == <<env, wanted, pc, owed, seen, minors, infos, result, lost, cut>>
-----------------------------------------------------------------------------
(* A digit appended to a number, or -1 when the number is refused.           *)
AddDigit(v, d) ==
  IF v = -1 \/ d \notin 0 .. 9 \/ v > (IntMax - d) \div 10 THEN -1 ELSE v * 10 + d

(* The number a string of characters stands for, or -1: what has been read   *)
(* after each character.                                                     *)
Reads(s) ==
  LET v[k \in 0 .. Len(s)] == IF k = 0 THEN 0 ELSE AddDigit(v[k - 1], s[k])
  IN  v

Number(s) == IF s = <<>> THEN -1 ELSE Reads(s)[Len(s)]

(* The value of the last line with a key, as later lines override.           *)
LastValue(text, key, default) ==
  LET at == {i \in DOMAIN text : text[i].key = key}
  IN  IF at = {} THEN default ELSE text[CHOOSE i \in at : \A j \in at : j <= i].val

(* A line of a known key whose value is refused.                             *)
BadLine(line) ==
  \/ line.key = "uuid"  /\ line.val = TooLong
  \/ line.key = "bus"   /\ line.val \in {Empty, TooLong}
  \/ line.key = "minor" /\ Number(line.val) = -1

(* Mutant of Parsed: device_minor starts at 0 instead of -1.                 *)
ParsedZero(g, text) ==
  IF \E i \in DOMAIN text : BadLine(text[i]) THEN NoInfo
  ELSE [bus   |-> LastValue(text, "bus", g),
        minor |-> Number(LastValue(text, "minor", <<0>>)),
        uuid  |-> LastValue(text, "uuid", NoUuid)]

(* Mutant of Parsed: does not ask whether there was a minor.                 *)
ParsedAnyway(g, text) ==
  IF \E i \in DOMAIN text : BadLine(text[i]) THEN NoInfo
  ELSE [bus   |-> LastValue(text, "bus", g),
        minor |-> Number(LastValue(text, "minor", <<>>)),
        uuid  |-> LastValue(text, "uuid", NoUuid)]

(* The lines of g's file as a record; the bus may come from the path.        *)
Parsed(g, text) ==
  LET number == LastValue(text, "minor", <<>>)
  IN  IF number = <<>> \/ \E i \in DOMAIN text : BadLine(text[i]) THEN NoInfo
      ELSE [bus   |-> LastValue(text, "bus", g),
            minor |-> Number(number),
            uuid  |-> LastValue(text, "uuid", NoUuid)]

(* Is the minor number of a collected device node.                           *)
Mounted(minor, names) == \E n \in names : Number(n) = minor

(* Mutant of Build: keeps everything when the UUID matches nothing.          *)
BuildAny ==
  LET mounted == {i \in infos : Mounted(i.minor, minors)}
      found   == {i \in mounted : wanted \in {NoUuid, i.uuid}}
  IN  IF found = {} THEN mounted ELSE found

(* The GPUs to allow: mounted, and the wanted one if one is wanted.          *)
Build == {i \in infos : Mounted(i.minor, minors) /\ wanted \in {NoUuid, i.uuid}}
-----------------------------------------------------------------------------
(* The information file speaks about its own GPU, though it may leave out or *)
(* garble a line.                                                            *)
TrueLine(g, line) ==
  /\ line.key = "uuid"  => line.val = UuidOf[g]
  /\ line.key = "bus"   => line.val = g
  /\ line.key = "minor" => Number(line.val) = MinorOf[g]

ASSUME IntMaxAssumption == IntMax \in Nat

ASSUME DriverHonest ==
  \A g \in Gpus : \A text \in Texts[g] :
    /\ Len(text) \in Nat /\ DOMAIN text = 1 .. Len(text)
    /\ \A i \in DOMAIN text : TrueLine(g, text[i]) \/ BadLine(text[i])

ASSUME GpusDiffer ==
  /\ MinorOf \in [Gpus -> Nat]
  /\ \A g, h \in Gpus : MinorOf[g] = MinorOf[h] => g = h
  /\ \A g \in Gpus : UuidOf[g] # NoUuid
  /\ DevNames \cap Gpus = {} /\ IsFiniteSet(DevNames) /\ IsFiniteSet(Gpus)
  /\ MaxGpus \in Nat

Init ==
  /\ nodes \in SUBSET DevNames
  /\ listed \in SUBSET Gpus
  /\ wanted \in {NoUuid} \cup {UuidOf[g] : g \in Gpus}
  /\ pc = "openDev"
  /\ owed = {} /\ seen = {} /\ minors = {} /\ infos = {}
  /\ allowed = {} /\ ready = FALSE
  /\ changes = 0
  /\ ever = nodes \cup listed /\ stayed = nodes \cup listed
  /\ lost = {} /\ cut = FALSE

(* Opening /dev or the gpus directory; on failure the scan finds nothing.    *)
OpenDir(from, scan, after, dir) ==
  /\ pc = from
  /\ \/ pc' = scan /\ owed' = dir /\ UNCHANGED cut
     \/ pc' = after /\ owed' = {} /\ cut' = TRUE
  /\ seen' = {}
  /\ UNCHANGED <<env, wanted, minors, infos, result, lost>>

OpenDev  == OpenDir("openDev", "minors", "openGpus", nodes)
OpenGpus == OpenDir("openGpus", "infos", "build", listed)

(* Mutant of TakeMinor: every name takes a place.                            *)
TakeMinorAll ==
  /\ pc = "minors"
  /\ \E n \in nodes \ seen :
       /\ seen' = seen \cup {n}
       /\ minors' = IF Cardinality(minors) < MaxGpus THEN minors \cup {n} ELSE minors
  /\ UNCHANGED <<env, wanted, pc, owed, infos, result, lost, cut>>

(* The scan meets a name of /dev.                                            *)
TakeMinor ==
  /\ pc = "minors"
  /\ \E n \in nodes \ seen :
       /\ seen' = seen \cup {n}
       /\ minors' = IF Number(n) # -1 /\ Cardinality(minors) < MaxGpus
                    THEN minors \cup {n} ELSE minors
  /\ UNCHANGED <<env, wanted, pc, owed, infos, result, lost, cut>>

(* The scan meets a GPU and reads its file, which may fail; the next GPU     *)
(* gets the place of one whose file failed.                                  *)
TakeInfo ==
  /\ pc = "infos"
  /\ \E g \in listed \ seen :
       /\ seen' = seen \cup {g}
       /\ IF Cardinality(infos) < MaxGpus
          THEN \E i \in {Parsed(g, text) : text \in Texts[g]} \cup {NoInfo} :
                 /\ infos' = IF i = NoInfo THEN infos ELSE infos \cup {i}
                 /\ lost' = IF i = NoInfo \/ (wanted # NoUuid /\ i.uuid = NoUuid)
                            THEN lost \cup {g} ELSE lost
          ELSE UNCHANGED <<infos, lost>>
  /\ UNCHANGED <<env, wanted, pc, owed, minors, result, cut>>

(* Mutant of EndScan: a failed getdents64 starts the scan again.             *)
EndScanAgain(scan, after) ==
  /\ pc = scan
  /\ IF owed \subseteq seen THEN pc' = after /\ UNCHANGED seen
                            ELSE seen' = {} /\ UNCHANGED pc
  /\ UNCHANGED <<env, wanted, owed, minors, infos, result, lost, cut>>

(* A scan ends with the directory, or early: getdents64 fails, or an entry   *)
(* is malformed. What was collected is kept.                                 *)
EndScan(scan, after) ==
  /\ pc = scan
  /\ cut' = (cut \/ ~(owed \subseteq seen))
  /\ pc' = after
  /\ UNCHANGED <<env, wanted, owed, seen, minors, infos, result, lost>>

EndMinors == EndScan("minors", "openGpus")
EndInfos  == EndScan("infos", "build")

BuildAllowed ==
  /\ pc = "build"
  /\ allowed' = Build
  /\ ready' = (Build # {})
  /\ pc' = "done"
  /\ UNCHANGED <<env, wanted, owed, seen, minors, infos, lost, cut>>

(* A device node or a GPU appears or goes away.                              *)
Toggled(S, x) == IF x \in S THEN S \ {x} ELSE S \cup {x}

Change ==
  /\ changes < MaxChanges
  /\ changes' = changes + 1
  /\ \/ \E n \in DevNames : nodes' = Toggled(nodes, n) /\ UNCHANGED listed
     \/ \E g \in Gpus : listed' = Toggled(listed, g) /\ UNCHANGED nodes
  /\ owed' = owed \cap (nodes' \cup listed')
  /\ ever' = IF pc = "done" THEN ever ELSE ever \cup nodes' \cup listed'
  /\ stayed' = stayed \cap (nodes' \cup listed')
  /\ UNCHANGED <<wanted, pc, seen, minors, infos, result, lost, cut>>

Load == OpenDev \/ TakeMinor \/ EndMinors \/ OpenGpus \/ TakeInfo \/ EndInfos \/ BuildAllowed

Next == Load \/ Change

Spec == Init /\ [][Next]_vars

(* The constructor runs to its end before main, whatever else happens.       *)
FairSpec == Spec /\ WF_vars(Load)
-----------------------------------------------------------------------------
Info == [bus : Gpus, minor : Nat, uuid : {NoUuid} \cup {UuidOf[g] : g \in Gpus}]

(* The variables stay in their types.                                        *)
TypeOK ==
  /\ nodes \in SUBSET DevNames
  /\ listed \in SUBSET Gpus
  /\ wanted \in {NoUuid} \cup {UuidOf[g] : g \in Gpus}
  /\ pc \in {"openDev", "minors", "openGpus", "infos", "build", "done"}
  /\ owed \in SUBSET (DevNames \cup Gpus)
  /\ seen \in SUBSET (DevNames \cup Gpus)
  /\ minors \in SUBSET DevNames
  /\ infos \in SUBSET Info
  /\ allowed \in SUBSET Info
  /\ ready \in BOOLEAN
  /\ changes \in Nat
  /\ ever \in SUBSET (DevNames \cup Gpus)
  /\ stayed \in SUBSET (DevNames \cup Gpus)
  /\ lost \in SUBSET Gpus
  /\ cut \in BOOLEAN

(* The path check and the listing hide GPU g (nvfix_allowed_contains_bus).   *)
Hidden(g) == ready /\ \A i \in allowed : i.bus # g

(* g's device node is among the names, and g is wanted if any GPU is.        *)
Assigned(g, names) ==
  /\ \E n \in names \cap DevNames : Number(n) = MinorOf[g]
  /\ wanted \in {NoUuid, UuidOf[g]}

(* An allowed GPU was listed and had its device node in /dev at some moment  *)
(* of the detection, and is the wanted one: nvfix_build_allowed_gpus never   *)
(* allows another container's GPU, whatever failed or changed meanwhile.     *)
AllowedAreAssigned ==
  \A i \in allowed : i.bus \in ever /\ i.bus \in Gpus /\ Assigned(i.bus, ever)

(* The capacities of the two arrays of nvfix_proc_filter_runtime_init.       *)
Crowded ==
  \/ Cardinality({n \in ever \cap DevNames : Number(n) # -1}) > MaxGpus
  \/ Cardinality(ever \cap Gpus) > MaxGpus

(* A GPU that has been listed and assigned all the time is hidden only if    *)
(* its own file failed, a scan was cut short, or there are more GPUs than    *)
(* NVFIX_MAX_GPUS: one failure never hides another GPU (continue, not break, *)
(* in nvfix_collect_gpu_infos and nvfix_build_allowed_gpus).                 *)
HiddenOnlyIfLost ==
  \A g \in Gpus \cap stayed :
    Assigned(g, stayed) /\ Hidden(g) => g \in lost \/ cut \/ Crowded

(* The three discovery paths judge alike: procfs by bus, the Resource        *)
(* Manager filter by minor, both from g_allowed_gpus.                        *)
ViewsAgree ==
  \A g \in Gpus : (\E i \in allowed : i.bus = g) <=> \E i \in allowed : i.minor = MinorOf[g]

(* The constructor ends, though files and directories fail or change.        *)
LoadEnds == <>(pc = "done")
=============================================================================
