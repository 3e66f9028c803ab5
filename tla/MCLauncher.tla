----------------------------- MODULE MCLauncher -----------------------------
(* Values of the constants of Launcher for TLC.                              *)
EXTENDS Launcher

Nothing == [s \in Settings |-> Unset]

(* One setting at a time, under either name or both, set or empty.           *)
OneSetting ==
  {[prim |-> [Nothing EXCEPT ![s] = v], leg |-> [Nothing EXCEPT ![s] = w],
    preload |-> p, lib |-> l] :
     s \in Settings, v \in {Unset, "", "0", "1"}, w \in {Unset, "", "0", "1"},
     p \in {<<>>, <<"other", "local">>}, l \in {"", "local"}}

LinesOf(names, n) == UNION {[1 .. k -> names] : k \in 1 .. n}

SomeWords == {"nvscope", "app", "--trace", "--no-ioctl", "--no-proc", "--gpu-uuid", "--lib",
              "--help", "--", "-x", "local", "other"}

(* Every line of up to three words.                                          *)
AllWords == LinesOf(SomeWords \ {"other"}, 3)

(* Two wrappers, the second with options of its own.                         *)
Nested ==
  {<<"nvscope">> \o a \o <<"nvscope">> \o b \o <<"app">> :
     a \in {<<>>, <<"--lib", "local">>, <<"--no-ioctl">>},
     b \in {<<>>} \cup LinesOf({"--no-ioctl", "--gpu-uuid", "local"}, 2)}

AllLines == AllWords \cup Nested

(* The build tree, PREFIX=/usr, and the default PREFIX=/usr/local.           *)
Installations == {{"source"}, {"installed"}, {"local"}}
=============================================================================
