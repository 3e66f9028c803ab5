----------------------------- MODULE MCStartup -----------------------------
(* Values of the constants of Startup for TLC.                               *)
EXTENDS Startup, TLC

CONSTANTS a, b, c, ua, ub, uc

(* A name that is no number (nvidiactl), 0, 1, and INT_MAX.                  *)
Names == { <<10>>, <<0>>, <<1>>, <<2, 5>> }

ThreeGpus == {a, b, c}
Minor  == a :> 0 @@ b :> 25 @@ c :> 1
Uuids  == a :> ua @@ b :> ub @@ c :> uc
Digits == a :> <<0>> @@ b :> <<2, 5>> @@ c :> <<1>>

Line(k, v) == [key |-> k, val |-> v]

(* A whole file, one with a repeated line and no bus and UUID, one without a *)
(* minor, one with an empty bus, and one with a minor above INT_MAX.         *)
Files == [g \in ThreeGpus |->
  { << Line("uuid", Uuids[g]), Line("bus", g), Line("minor", Digits[g]) >>,
    << Line("minor", Digits[g]), Line("other", Empty), Line("minor", Digits[g]) >>,
    << Line("bus", g), Line("uuid", Uuids[g]) >>,
    << Line("minor", Digits[g]), Line("bus", Empty) >>,
    << Line("minor", <<2, 6>>) >> }]
=============================================================================
