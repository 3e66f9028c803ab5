--------------------------- MODULE LauncherProofs ---------------------------
(***************************************************************************)
(* Theorems about Launcher: for every environment, command line and set of *)
(* installed libraries, through any number of wrappers.                    *)
(***************************************************************************)
EXTENDS Launcher, TLAPS

Paths == Words \cup {"", "source", "installed"}

UserValues == {u.prim[s] : u \in Users, s \in Settings}
Values == Words \cup {Unset, "0", "1"} \cup UserValues

(* The types of the variables that make the configuration.                   *)
Shape ==
  /\ user \in Users
  /\ words \in Seq(Words)
  /\ prim \in [Settings -> Values]
  /\ asked \in [Settings -> Values]
  /\ depth \in Nat

(* NVSCOPE_* is what the last option made it, else what it was; the default  *)
(* of the Resource Manager filter comes in only where nothing was said.      *)
Exported ==
  \A s \in Settings :
    prim[s] = IF asked[s] # Unset THEN asked[s]
              ELSE IF s = "ioctl" /\ user.prim[s] = Unset /\ user.leg[s] = Unset /\ depth > 0
                   THEN "1" ELSE user.prim[s]

SettingsInv == Shape /\ Exported /\ SettingsAsGiven

LEMMA NotUnset ==
  /\ "0" \in Values /\ "1" \in Values /\ Unset \in Values /\ Words \subseteq Values
  /\ Unset # "0" /\ Unset # "1" /\ Unset \notin Words
  /\ Unset \notin Truthy /\ "1" \in Truthy
<1>1. "0" \in Values /\ "1" \in Values /\ Unset \in Values /\ Words \subseteq Values
  BY DEF Values
<1>2. Unset \notin Words \cup {"", "0", "1", "true", "TRUE", "yes", "YES", "on", "ON"}
  BY WordsAssumption
<1>3. "1" \in Truthy
  BY DEF Truthy
<1> QED
  BY <1>1, <1>2, <1>3 DEF Truthy

LEMMA UserFacts ==
  ASSUME user \in Users
  PROVE  /\ user.preload \in Seq(Words) /\ user.preload \in Seq(Paths)
         /\ Len(user.preload) \in Nat /\ DOMAIN user.preload = 1 .. Len(user.preload)
         /\ user.lib \in Paths
<1>1. user.preload \in Seq(Words) /\ user.lib \in Words \cup {""}
  BY WordsAssumption
<1> DEFINE p == user.preload
<1>2. p \in Seq(Words) => /\ p \in Seq(Paths) /\ Len(p) \in Nat
                          /\ DOMAIN p = 1 .. Len(p)
  <2>1. Words \subseteq Paths
    BY DEF Paths
  <2> HIDE DEF p
  <2> QED
    BY <2>1
<1>3. user.lib \in Paths
  BY <1>1 DEF Paths
<1> QED
  BY <1>1, <1>2, <1>3

LEMMA DropWords ==
  ASSUME NEW n \in Nat, words \in Seq(Words), n <= Len(words)
  PROVE  Drop(n) \in Seq(Words)
BY DEF Drop

LEMMA StartInv == Init => SettingsInv
<1> SUFFICES ASSUME Init PROVE SettingsInv
  OBVIOUS
<1>1. Shape
  <2>1. user \in Users /\ user.prim = [s \in Settings |-> user.prim[s]]
    BY WordsAssumption DEF Init
  <2>2. user.prim \in [Settings -> Values]
    <3> DEFINE f == user.prim
    <3>1. \A s \in Settings : f[s] \in Values
      BY <2>1 DEF Values, UserValues
    <3>2. f = [s \in Settings |-> f[s]]
      BY <2>1
    <3> HIDE DEF f
    <3>3. f \in [Settings -> Values]
      BY <3>1, <3>2
    <3> QED
      BY <3>3 DEF f
  <2>3. words \in Seq(Words)
    BY WordsAssumption DEF Init
  <2>4. asked \in [Settings -> Values]
    BY NotUnset DEF Init
  <2> QED
    BY <2>1, <2>2, <2>3, <2>4 DEF Init, Shape
<1>2. \A s \in Settings : asked[s] = Unset
  BY DEF Init
<1>3. Exported
  <2>1. depth = 0 /\ prim = user.prim
    BY DEF Init
  <2> QED
    BY <1>2, <2>1 DEF Exported
<1> QED
  BY <1>1, <1>3 DEF Init, SettingsInv, SettingsAsGiven

(* An option, with a value that is not "unset", for one setting.             *)
LEMMA ExportInv ==
  ASSUME SettingsInv, NEW s \in Settings, NEW v \in Values, v # Unset, NEW n \in 1 .. 2,
         Export(s, v, n), pc = "options", n <= Len(words)
  PROVE  SettingsInv'
<1>1. Shape'
  BY DropWords DEF SettingsInv, Shape, Export, world
<1>2. Exported'
  BY DEF SettingsInv, Shape, Exported, Export, world
<1> QED
  BY <1>1, <1>2 DEF SettingsInv, SettingsAsGiven, Export

LEMMA OptionsInv ==
  ASSUME SettingsInv, Trace \/ NoIoctl \/ NoProc \/ GpuUuid
  PROVE  SettingsInv'
<1>1. words \in Seq(Words) /\ (words # <<>> => words[1] \in Words /\ Len(words) >= 1)
  BY DEF SettingsInv, Shape
<1>2. CASE Trace
  BY <1>1, <1>2, ExportInv, NotUnset DEF Trace, At, Settings
<1>3. CASE NoIoctl
  BY <1>1, <1>3, ExportInv, NotUnset DEF NoIoctl, At, Settings
<1>4. CASE NoProc
  BY <1>1, <1>4, ExportInv, NotUnset DEF NoProc, At, Settings
<1>5. CASE GpuUuid
  <2>1. words[2] \in Words
    BY <1>1, <1>5 DEF GpuUuid
  <2> QED
    BY <1>1, <1>5, <2>1, ExportInv, NotUnset DEF GpuUuid, At, Settings
<1> QED
  BY <1>2, <1>3, <1>4, <1>5

(* What the constructor makes of the environment is what was said.           *)
LEMMA ProgramInv ==
  ASSUME SettingsInv, StartProgram
  PROVE  SettingsInv'
<1>1. Shape' /\ Exported'
  BY DEF SettingsInv, Shape, Exported, StartProgram, world, shell
<1>2. \A s \in Settings \ {"ioctl"} : Value(s) = Said(s)
  BY DEF SettingsInv, Exported, Value, Said
<1>3. /\ Said("ioctl") # Unset => Value("ioctl") = Said("ioctl")
      /\ Said("ioctl") = Unset => Value("ioctl") = IF depth > 0 THEN "1" ELSE Unset
  BY DEF SettingsInv, Exported, Value, Said, Settings
<1>4. \A s \in Settings : Said(s)' = Said(s)
  BY DEF StartProgram, Said, world, shell
<1>5. depth' = depth /\ Unset \notin Truthy /\ "1" \in Truthy
  BY NotUnset DEF StartProgram, shell
<1>6. ASSUME pc' = "loaded"
      PROVE  /\ config'.trace = (Said("trace") \in Truthy)
             /\ config'.ioctl = IF Said("ioctl") = Unset THEN depth > 0 ELSE Said("ioctl") \in Truthy
             /\ config'.proc = (Said("proc") \in Truthy \cup {Unset})
             /\ config'.uuid = IF Said("uuid") = "" THEN Unset ELSE Said("uuid")
             /\ ready' = (Said("proc") \in Truthy \cup {Unset} /\ detectable)
  <2>1. config' = Config
    BY <1>6 DEF StartProgram
  <2>2. /\ Value("trace") = Said("trace") /\ Value("proc") = Said("proc")
        /\ Value("uuid") = Said("uuid")
    BY <1>2 DEF Settings
  <2>3. (Value("ioctl") \in Truthy)
          = IF Said("ioctl") = Unset THEN depth > 0 ELSE Said("ioctl") \in Truthy
    BY <1>3, <1>5
  <2>4. ready' = (config'.proc /\ detectable)
    BY <1>6 DEF StartProgram
  <2>5. config'.proc = (Said("proc") \in Truthy \cup {Unset})
    BY <2>1, <2>2 DEF Config
  <2>6. ready' = (Said("proc") \in Truthy \cup {Unset} /\ detectable)
    BY <2>4, <2>5, Zenon
  <2> QED
    BY <2>1, <2>2, <2>3, <2>6 DEF Config
<1>7. SettingsAsGiven'
  <2>1. detectable' = detectable
    BY DEF StartProgram, world
  <2> QED
    BY <1>4, <1>5, <1>6, <2>1 DEF SettingsAsGiven, Settings
<1> QED
  BY <1>1, <1>7 DEF SettingsInv

LEMMA LaunchInv ==
  ASSUME SettingsInv, Launch
  PROVE  SettingsInv'
<1>1. Shape'
  BY NotUnset DEF SettingsInv, Shape, Launch, world, Settings
<1>2. Exported'
  <2> SUFFICES ASSUME NEW s \in Settings
               PROVE  prim'[s] = IF asked[s] # Unset THEN asked[s]
                                 ELSE IF s = "ioctl" /\ user.prim[s] = Unset /\ user.leg[s] = Unset
                                      THEN "1" ELSE user.prim[s]
    BY DEF SettingsInv, Shape, Exported, Launch, world
  <2>1. CASE s = "ioctl"
    BY <2>1 DEF SettingsInv, Shape, Exported, Launch, Settings
  <2>2. CASE s # "ioctl"
    BY <2>2 DEF SettingsInv, Shape, Exported, Launch, Settings
  <2> QED
    BY <2>1, <2>2
<1> QED
  BY <1>1, <1>2 DEF SettingsInv, SettingsAsGiven, Launch

LEMMA OthersInv ==
  ASSUME SettingsInv,
         \/ StartWrapper \/ NotFound \/ Lib \/ Help \/ Refuse \/ EndOptions \/ NoLibrary
         \/ UNCHANGED vars
  PROVE  SettingsInv'
<1>1. /\ UNCHANGED <<user, detectable, prim, asked, depth>>
      /\ pc' = "loaded" => pc = "loaded" /\ UNCHANGED <<config, ready>>
  BY DEF StartWrapper, NotFound, Lib, Help, Refuse, EndOptions, NoLibrary, vars, world, shell,
         loaded, At
<1>2. words' \in Seq(Words)
  BY DropWords DEF SettingsInv, Shape, StartWrapper, NotFound, Lib, Help, Refuse, EndOptions,
                   NoLibrary, vars, At
<1>3. Shape' /\ Exported'
  BY <1>1, <1>2 DEF SettingsInv, Shape, Exported
<1>4. SettingsAsGiven'
  <2>1. \A s \in Settings : Said(s)' = Said(s)
    BY <1>1 DEF Said
  <2> QED
    BY <1>1, <2>1 DEF SettingsInv, SettingsAsGiven, Settings
<1> QED
  BY <1>3, <1>4 DEF SettingsInv

(* A program's configuration is what was said of each setting, whatever the  *)
(* order of options, names, wrappers and their defaults, and it has a        *)
(* topology to filter by where procfs filtering is on and one is found.      *)
THEOREM ConfiguredAsGiven == Spec => []SettingsAsGiven
<1>1. SettingsInv /\ [Next]_vars => SettingsInv'
  BY OptionsInv, ProgramInv, LaunchInv, OthersInv DEF Next
<1> QED
  BY StartInv, <1>1, PTL DEF Spec, SettingsInv
-----------------------------------------------------------------------------
(* The libraries of LD_PRELOAD, and where they come from.                    *)
PreloadInv ==
  /\ user \in Users
  /\ depth \in Nat
  /\ words \in Seq(Words)
  /\ lib \in Paths
  /\ preload \in Seq(Paths)
  /\ PreloadKept

LEMMA PreloadSteps ==
  ASSUME PreloadInv, [Next]_vars
  PROVE  PreloadInv'
<1>1. CASE Launch
  <2>1. preload' = <<lib>> \o preload /\ depth' = depth + 1 /\ pc' = "exec"
        /\ UNCHANGED <<user, files, words, lib>> /\ lib \in files
    BY <1>1 DEF Launch, world
  <2>2. preload' \in Seq(Paths) /\ Len(preload') = Len(preload) + 1
        /\ preload'[1] = lib /\ \A i \in 1 .. Len(preload) : preload'[i + 1] = preload[i]
    BY <2>1 DEF PreloadInv
  <2>3. DOMAIN user.preload = 1 .. Len(user.preload) /\ Len(user.preload) \in Nat
    BY UserFacts DEF PreloadInv
  <2>4. \A i \in 1 .. depth + 1 : preload'[i] \in files
    <3> SUFFICES ASSUME NEW i \in 1 .. depth + 1, i # 1
                 PROVE  preload'[i] \in files
      BY <2>1, <2>2 DEF PreloadInv
    <3>1. i - 1 \in 1 .. depth /\ i - 1 \in 1 .. Len(preload)
      BY <2>3 DEF PreloadInv, PreloadKept
    <3>2. preload'[(i - 1) + 1] = preload[i - 1] /\ (i - 1) + 1 = i
      BY <2>2, <3>1
    <3>3. preload[i - 1] \in files
      BY <3>1 DEF PreloadInv, PreloadKept
    <3> QED
      BY <3>2, <3>3
  <2>5. \A i \in DOMAIN user.preload : preload'[depth + 1 + i] = user.preload[i]
    <3> SUFFICES ASSUME NEW i \in 1 .. Len(user.preload)
                 PROVE  preload'[(depth + i) + 1] = user.preload[i]
      BY <2>3 DEF PreloadInv
    <3>1. depth \in Nat /\ depth + Len(user.preload) = Len(preload)
          /\ preload[depth + i] = user.preload[i]
      BY <2>3 DEF PreloadInv, PreloadKept
    <3>2. depth + i \in 1 .. Len(preload)
      BY <2>3, <3>1
    <3> QED
      BY <2>2, <3>1, <3>2
  <2>6. depth + 1 + Len(user.preload) = Len(preload')
    <3>1. depth \in Nat /\ depth + Len(user.preload) = Len(preload)
      BY DEF PreloadInv, PreloadKept
    <3> DEFINE m == Len(user.preload)
    <3>2. m \in Nat
      BY <2>3
    <3> HIDE DEF m
    <3>3. depth + m = Len(preload) => depth + 1 + m = Len(preload) + 1
      BY <3>1, <3>2
    <3> QED
      BY <2>2, <3>1, <3>3 DEF m
  <2>7. PreloadKept'
    BY <2>1, <2>4, <2>5, <2>6 DEF PreloadKept
  <2> QED
    BY <2>1, <2>2, <2>7 DEF PreloadInv
<1>2. CASE StartProgram
  <2>1. UNCHANGED <<user, files, words, lib, preload, depth>>
    BY <1>2 DEF StartProgram, world, shell
  <2>2. pc' = "plain" => depth = 0
    <3> SUFFICES ASSUME pc' = "plain", depth # 0
                 PROVE  FALSE
      OBVIOUS
    <3>1. Len(user.preload) \in Nat
      BY UserFacts DEF PreloadInv
    <3>2. 1 \in 1 .. depth /\ 1 \in DOMAIN preload
      BY <3>1 DEF PreloadInv, PreloadKept
    <3> QED
      BY <1>2, <3>2 DEF PreloadInv, PreloadKept, StartProgram
  <2> QED
    BY <2>1, <2>2 DEF PreloadInv, PreloadKept
<1>3. CASE StartWrapper \/ Lib
  <2>1. user.lib \in Paths /\ FoundLib \in Paths
    BY UserFacts DEF PreloadInv, FoundLib, Paths
  <2>2. lib' \in Paths
    <3>1. Lib => words[2] \in Words
      BY DEF PreloadInv, Lib
    <3> QED
      BY <1>3, <2>1, <3>1 DEF PreloadInv, StartWrapper, Lib, Paths
  <2>4. words' \in Seq(Words)
    BY <1>3, DropWords DEF PreloadInv, StartWrapper, Lib
  <2>3. UNCHANGED <<user, files, preload, depth>> /\ pc' # "plain"
    BY <1>3 DEF StartWrapper, Lib, At, world
  <2> QED
    BY <2>2, <2>3, <2>4 DEF PreloadInv, PreloadKept
<1>4. CASE Trace \/ NoIoctl \/ NoProc \/ GpuUuid
  <2>1. UNCHANGED <<user, files, lib, preload, depth, pc>> /\ pc # "plain"
    BY <1>4 DEF Trace, NoIoctl, NoProc, GpuUuid, Export, At, world
  <2>2. words' \in Seq(Words)
    BY <1>4, DropWords DEF PreloadInv, Trace, NoIoctl, NoProc, GpuUuid, Export, At
  <2> QED
    BY <2>1, <2>2 DEF PreloadInv, PreloadKept
<1>5. CASE NotFound \/ Help \/ Refuse \/ EndOptions \/ NoLibrary \/ UNCHANGED vars
  <2>1. UNCHANGED <<user, files, lib, preload, depth>> /\ (pc' = "plain" => pc = "plain")
    BY <1>5 DEF NotFound, Help, Refuse, EndOptions, NoLibrary, vars, world, shell
  <2>2. words' \in Seq(Words)
    BY <1>5, DropWords DEF PreloadInv, NotFound, Help, Refuse, EndOptions, NoLibrary, vars
  <2> QED
    BY <2>1, <2>2 DEF PreloadInv, PreloadKept
<1> QED
  BY <1>1, <1>2, <1>3, <1>4, <1>5 DEF Next

(* Every program behind a wrapper runs with a library that exists, and with  *)
(* all the user had preloaded.                                               *)
THEOREM PreloadedBehindWrappers == Spec => []PreloadKept
<1>1. Init => PreloadInv
  <2> SUFFICES ASSUME Init PROVE PreloadInv
    OBVIOUS
  <2>1. user \in Users /\ words \in Seq(Words) /\ lib \in Paths /\ depth = 0
        /\ preload = user.preload /\ pc = "exec"
    BY WordsAssumption DEF Init, Paths
  <2> DEFINE p == user.preload
  <2>2. /\ p \in Seq(Paths) /\ Len(p) \in Nat /\ DOMAIN p = 1 .. Len(p)
    BY <2>1, UserFacts
  <2>3. preload = p
    BY <2>1
  <2> HIDE DEF p
  <2>4. 0 + Len(p) = Len(p) /\ (\A i \in 1 .. 0 : p[i] \in files) /\ \A i \in DOMAIN p : p[0 + i] = p[i]
    BY <2>2
  <2> QED
    BY <2>1, <2>2, <2>3, <2>4 DEF PreloadInv, PreloadKept, p
<1> QED
  BY <1>1, PreloadSteps, PTL DEF Spec, PreloadInv
=============================================================================
