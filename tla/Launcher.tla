------------------------------ MODULE Launcher ------------------------------
(***************************************************************************)
(* From a command line to the configuration of the library: the wrapper    *)
(* tools/nvscope, which may start another wrapper, the environment it      *)
(* hands down, and the constructor that reads it under two names.          *)
(***************************************************************************)
EXTENDS Integers, Sequences

CONSTANTS
  Unset,  \* a variable that is not in the environment
  Words,  \* words of command lines, and paths the user may name
  Users,  \* environments: [prim, leg : [Settings -> value], preload, lib]
  Lines,  \* command lines
  Disks   \* sets of library paths that exist

VARIABLES
  user, files,   \* the first environment, and the libraries on the disk
  detectable,    \* GPU topology detection will find a GPU to allow
  pc, words,     \* what runs, and the words it has not taken yet
  prim, preload, \* NVSCOPE_* variables and LD_PRELOAD
  lib,           \* the wrapper's library
  config, ready, \* g_nvfix_config and g_proc_filter_ready
  asked, depth   \* ghost: last option for each setting, wrappers passed
world == <<user, files, detectable>>
shell == <<prim, preload, lib, asked, depth>>
loaded == <<config, ready>>
vars == <<world, pc, words, shell, loaded>>

Settings == {"trace", "ioctl", "proc", "uuid"}
NoConfig == [trace |-> FALSE, ioctl |-> FALSE, proc |-> FALSE, uuid |-> Unset]

ASSUME WordsAssumption ==
  /\ Unset \notin Words \cup {"", "0", "1", "true", "TRUE", "yes", "YES", "on", "ON"}
  /\ Lines \subseteq Seq(Words)
  /\ \A u \in Users :
       /\ u.prim = [s \in Settings |-> u.prim[s]]
       /\ u.preload \in Seq(Words) /\ u.lib \in Words \cup {""}
-----------------------------------------------------------------------------
Truthy == {"1", "true", "TRUE", "yes", "YES", "on", "ON"}

(* Mutant of Value: an empty variable is like none.                          *)
ValueNonEmpty(s) == IF prim[s] \notin {Unset, ""} THEN prim[s] ELSE user.leg[s]

(* A setting under its name, else under its older name.                      *)
Value(s) == IF prim[s] # Unset THEN prim[s] ELSE user.leg[s]

(* nvfix_config_load: procfs filtering is on by default, an empty UUID none. *)
Config ==
  [trace |-> Value("trace") \in Truthy,
   ioctl |-> Value("ioctl") \in Truthy,
   proc  |-> Value("proc") \in Truthy \cup {Unset},
   uuid  |-> IF Value("uuid") = "" THEN Unset ELSE Value("uuid")]

(* Where the wrapper looks: next to a build tree, else below /usr.           *)
FoundLib ==
  IF user.lib # "" THEN user.lib
  ELSE IF "source" \in files THEN "source" ELSE "installed"

Drop(n) == SubSeq(words, n + 1, Len(words))

(* A command line of one or more words; without the wrapper, LD_PRELOAD is   *)
(* what the user made it.                                                    *)
Init ==
  /\ user \in Users /\ files \in Disks /\ detectable \in BOOLEAN
  /\ words \in Lines
  /\ pc = "exec"
  /\ prim = user.prim /\ preload = user.preload
  /\ lib = ""
  /\ config = NoConfig /\ ready = FALSE
  /\ asked = [s \in Settings |-> Unset] /\ depth = 0

(* exec of the wrapper: it looks for the library.                            *)
StartWrapper ==
  /\ pc = "exec" /\ words # <<>> /\ words[1] = "nvscope"
  /\ pc' = "options" /\ words' = Drop(1)
  /\ lib' = FoundLib
  /\ UNCHANGED <<world, prim, preload, asked, depth, loaded>>

(* exec of a program: with the library, its constructor runs before main.    *)
StartProgram ==
  /\ pc = "exec" /\ words # <<>> /\ words[1] = "app"
  /\ IF \E i \in DOMAIN preload : preload[i] \in files
     THEN /\ pc' = "loaded"
          /\ config' = Config
          /\ ready' = (config'.proc /\ detectable)
     ELSE pc' = "plain" /\ UNCHANGED loaded
  /\ UNCHANGED <<world, words, shell>>

NotFound ==
  /\ pc = "exec" /\ words # <<>> /\ words[1] \notin {"nvscope", "app"}
  /\ pc' = "exit127"
  /\ UNCHANGED <<world, words, shell, loaded>>

At(word) == pc = "options" /\ words # <<>> /\ words[1] = word

Export(s, value, n) ==
  /\ prim'  = [prim EXCEPT ![s] = value]
  /\ asked' = [asked EXCEPT ![s] = value]
  /\ words' = Drop(n)
  /\ UNCHANGED <<world, pc, preload, lib, depth, loaded>>

Trace   == At("--trace") /\ Export("trace", "1", 1)
NoIoctl == At("--no-ioctl") /\ Export("ioctl", "0", 1)
NoProc  == At("--no-proc") /\ Export("proc", "0", 1)

(* The next word is the value, whatever it is.                               *)
GpuUuid == At("--gpu-uuid") /\ Len(words) >= 2 /\ Export("uuid", words[2], 2)

Lib ==
  /\ At("--lib") /\ Len(words) >= 2
  /\ lib' = words[2] /\ words' = Drop(2)
  /\ UNCHANGED <<world, pc, prim, preload, asked, depth, loaded>>

Help == At("--help") /\ pc' = "exit0" /\ UNCHANGED <<world, words, shell, loaded>>

(* A value is missing, an option is not known, or there is no command.       *)
Refuse ==
  /\ \/ (At("--gpu-uuid") \/ At("--lib")) /\ Len(words) < 2
     \/ At("-x")
     \/ pc = "command" /\ words = <<>>
  /\ pc' = "exit2"
  /\ UNCHANGED <<world, words, shell, loaded>>

Options == {"--trace", "--no-ioctl", "--no-proc", "--gpu-uuid", "--lib", "--help", "-x"}

(* "--" or the first word that is not an option ends the options.            *)
EndOptions ==
  /\ pc = "options" /\ (words # <<>> => words[1] \notin Options)
  /\ pc' = "command"
  /\ words' = IF words # <<>> /\ words[1] = "--" THEN Drop(1) ELSE words
  /\ UNCHANGED <<world, shell, loaded>>

NoLibrary ==
  /\ pc = "command" /\ words # <<>> /\ lib \notin files
  /\ pc' = "exit1"
  /\ UNCHANGED <<world, words, shell, loaded>>

(* Mutant of Launch: looks at the new name only, and replaces LD_PRELOAD.    *)
LaunchOver ==
  /\ pc = "command" /\ words # <<>> /\ lib \in files
  /\ prim' = IF prim["ioctl"] = Unset THEN [prim EXCEPT !["ioctl"] = "1"] ELSE prim
  /\ preload' = <<lib>>
  /\ depth' = depth + 1
  /\ pc' = "exec"
  /\ UNCHANGED <<world, words, lib, asked, loaded>>

(* The filter's default, unless either name is in the environment, even      *)
(* empty; the library before the others; and exec.                           *)
Launch ==
  /\ pc = "command" /\ words # <<>> /\ lib \in files
  /\ prim' = IF prim["ioctl"] = Unset /\ user.leg["ioctl"] = Unset
             THEN [prim EXCEPT !["ioctl"] = "1"] ELSE prim
  /\ preload' = <<lib>> \o preload
  /\ depth' = depth + 1
  /\ pc' = "exec"
  /\ UNCHANGED <<world, words, lib, asked, loaded>>

Next ==
  \/ StartWrapper \/ StartProgram \/ NotFound
  \/ Trace \/ NoIoctl \/ NoProc \/ GpuUuid \/ Lib \/ Help \/ Refuse \/ EndOptions
  \/ NoLibrary \/ Launch

Spec == Init /\ [][Next]_vars
-----------------------------------------------------------------------------
(* What was said of a setting: by the last option of any wrapper of the      *)
(* chain, else by the user's variable, else by its older name.               *)
Said(s) ==
  IF asked[s] # Unset THEN asked[s]
  ELSE IF user.prim[s] # Unset THEN user.prim[s] ELSE user.leg[s]

(* README.md:101-109 and tools/nvscope:18: a program's configuration is what *)
(* was said, through any number of wrappers, their defaults and the two      *)
(* names; with nothing said, procfs filtering is on, and Resource Manager    *)
(* filtering is on behind a wrapper only.  A topology to filter by, which    *)
(* Resource Manager filtering needs too, is there exactly where procfs       *)
(* filtering was said and a GPU can be detected.                             *)
SettingsAsGiven ==
  pc = "loaded" =>
    /\ config.trace = (Said("trace") \in Truthy)
    /\ config.ioctl = IF Said("ioctl") = Unset THEN depth > 0 ELSE Said("ioctl") \in Truthy
    /\ config.proc  = (Said("proc") \in Truthy \cup {Unset})
    /\ config.uuid  = IF Said("uuid") = "" THEN Unset ELSE Said("uuid")
    /\ ready = (Said("proc") \in Truthy \cup {Unset} /\ detectable)

(* A program behind a wrapper has the library, and every library the user    *)
(* had preloaded, in the user's order, behind those of the wrappers.         *)
PreloadKept ==
  /\ pc = "plain" => depth = 0
  /\ depth + Len(user.preload) = Len(preload)
  /\ \A i \in 1 .. depth : preload[i] \in files
  /\ \A i \in DOMAIN user.preload : preload[depth + i] = user.preload[i]
=============================================================================
