----------------------------- MODULE GpuAllowList -----------------------------
(***************************************************************************)
(* What the Resource Manager filter promises about a list of GPU ids: each *)
(* query is answered from ONE set of known ids, the set at some moment of  *)
(* the call.  If the driver's list holds a known id the answer is the list *)
(* restricted to the known ids, in the driver's order; otherwise it is the *)
(* driver's list.  The known set only grows, by allowed ids, and all the   *)
(* ids of one CARD_INFO answer become known together, unless they fill it. *)
(***************************************************************************)
EXTENDS Naturals, Sequences, FiniteSets

CONSTANTS
  Threads,
  AllowedIds,  (* ids of the allowed GPUs                                   *)
  Batches,     (* sets of ids that CARD_INFO answers make known             *)
  Lists,       (* id lists of the driver                                    *)
  Room         (* ids that can be known                                     *)

VARIABLES
  known,   (* ids known to belong to allowed GPUs                           *)
  phase,   (* of the query of each thread                                   *)
  driver,  (* the driver's list                                             *)
  seen,    (* the set the query is answered from                            *)
  reply    (* the list the process gets                                     *)

allowListVars == <<known, phase, driver, seen, reply>>

(* r is what is left of l without the entries outside S: p gives the place   *)
(* in l of each entry of r.                                                  *)
Restricts(r, l, S) ==
  \E p \in [DOMAIN r -> DOMAIN l] :
    /\ \A j, k \in DOMAIN r : j < k => p[j] < p[k]
    /\ \A k \in DOMAIN r : r[k] = l[p[k]]
    /\ {p[k] : k \in DOMAIN r} = {j \in DOMAIN l : l[j] \in S}

Answers(r, l, S) ==
  IF \E j \in DOMAIN l : l[j] \in S THEN Restricts(r, l, S) ELSE r = l

(* Lists whose entries are all in l, none longer than l.                     *)
ListsFrom(l) == UNION {[1 .. n -> {l[j] : j \in DOMAIN l}] : n \in 0 .. Len(l)}

Init ==
  /\ known = {}
  /\ phase = [t \in Threads |-> "idle"]
  /\ driver = [t \in Threads |-> <<>>]
  /\ seen = [t \in Threads |-> {}]
  /\ reply = [t \in Threads |-> <<>>]

Learn ==
  /\ \E S \in Batches : \E R \in SUBSET (S \cap AllowedIds) :
       /\ known' = known \cup R
       /\ S \subseteq known' \/ Cardinality(known') = Room
  /\ Cardinality(known') <= Room
  /\ UNCHANGED <<phase, driver, seen, reply>>

Ask(t) ==
  /\ phase[t] = "idle"
  /\ phase' = [phase EXCEPT ![t] = "asked"]
  /\ \E l \in Lists : driver' = [driver EXCEPT ![t] = l]
  /\ UNCHANGED <<known, seen, reply>>

Look(t) ==
  /\ phase[t] = "asked"
  /\ phase' = [phase EXCEPT ![t] = "looked"]
  /\ seen' = [seen EXCEPT ![t] = known]
  /\ UNCHANGED <<known, driver, reply>>

Answer(t) ==
  /\ phase[t] = "looked"
  /\ phase' = [phase EXCEPT ![t] = "answered"]
  /\ \E r \in ListsFrom(driver[t]) :
       /\ Answers(r, driver[t], seen[t])
       /\ reply' = [reply EXCEPT ![t] = r]
  /\ UNCHANGED <<known, driver, seen>>

Finish(t) ==
  /\ phase[t] = "answered"
  /\ phase' = [phase EXCEPT ![t] = "idle"]
  /\ driver' = [driver EXCEPT ![t] = <<>>]
  /\ seen' = [seen EXCEPT ![t] = {}]
  /\ reply' = [reply EXCEPT ![t] = <<>>]
  /\ UNCHANGED known

Next ==
  \/ Learn
  \/ \E t \in Threads : Ask(t) \/ Look(t) \/ Answer(t) \/ Finish(t)

Spec == Init /\ [][Next]_allowListVars
=============================================================================
