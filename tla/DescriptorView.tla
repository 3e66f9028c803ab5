---------------------------- MODULE DescriptorView ----------------------------
(***************************************************************************)
(* What the shim promises about descriptors, without its table: the answer *)
(* of a call is treated as the FILE behind the number deserves, and the    *)
(* information file of a GPU that is not allowed cannot be opened.         *)
(*                                                                         *)
(* The promise covers the numbers below Limit.  Larger ones are served as  *)
(* the kernel serves them, and so is everything before the filter is ready.*)
(* FdTracking implements this module for a process with one thread that    *)
(* releases and names what it opens through calls the shim interposes.     *)
(***************************************************************************)
EXTENDS Naturals

CONSTANTS Fds, Limit, Paths, Inherited

NoFile == "closed"

VARIABLES
  ready,   (* the filter is switched on                                     *)
  file,    (* the file behind each descriptor                               *)
  outcome  (* what the last step decided: a file, and what was done with it *)

view == <<ready, file, outcome>>

Quiet == [file |-> NoFile, treat |-> "raw"]

(* The answers that are filtered, by the file they are about.                *)
Deserved(p) ==
  CASE p = "nvidiactl" -> "rm"
    [] p = "gpus"      -> "topology"
    [] OTHER           -> "raw"

Covered(f) == ready /\ f < Limit

Init ==
  /\ ready = FALSE
  /\ file \in [Fds -> Inherited \cup {NoFile}]
  /\ outcome = Quiet

Load ==
  /\ ~ready
  /\ ready' = TRUE
  /\ outcome' = Quiet
  /\ UNCHANGED file

(* A file gets a number that was free.                                       *)
Give(p) ==
  /\ \E f \in Fds : file[f] = NoFile /\ file' = [file EXCEPT ![f] = p]
  /\ outcome' = [file |-> p, treat |-> "opened"]
  /\ UNCHANGED ready

Refuse(p) ==
  /\ outcome' = [file |-> p, treat |-> "denied"]
  /\ UNCHANGED <<ready, file>>

(* Opening by absolute path.                                                 *)
Open(p) == IF ready /\ p = "foreign_info" THEN Refuse(p) ELSE Give(p)

(* Opening relative to a directory.                                          *)
Openat(d, p) ==
  \/ /\ file[d] = "gpus"
     /\ IF Covered(d) /\ p = "foreign_info" THEN Refuse(p) ELSE Give(p)
  \/ file[d] = "elsewhere" /\ Give("elsewhere")

Close(f) ==
  /\ file[f] # NoFile
  /\ file' = [file EXCEPT ![f] = NoFile]
  /\ outcome' = Quiet
  /\ UNCHANGED ready

(* ioctl, getdents64, readdir.                                               *)
Answer(f) ==
  /\ file[f] # NoFile
  /\ outcome' = [file  |-> file[f],
                 treat |-> IF Covered(f) THEN Deserved(file[f]) ELSE "raw"]
  /\ UNCHANGED <<ready, file>>

(* The steps of a call that decide nothing.                                  *)
Work == outcome' = Quiet /\ UNCHANGED <<ready, file>>

Next ==
  \/ Load
  \/ \E p \in Paths : Open(p)
  \/ \E d \in Fds, p \in Paths : Openat(d, p)
  \/ \E f \in Fds : Close(f) \/ Answer(f)
  \/ Work

Spec == Init /\ [][Next]_view
=============================================================================
