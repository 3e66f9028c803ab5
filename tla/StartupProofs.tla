---------------------------- MODULE StartupProofs ----------------------------
(***************************************************************************)
(* Whatever fails or changes while the topology is detected, only assigned *)
(* GPUs are allowed, the discovery paths judge alike, and a GPU that stays *)
(* assigned is hidden only for a failure of its own, a scan cut short, or  *)
(* more GPUs than there is room for.                                       *)
(***************************************************************************)
EXTENDS Startup, TLAPS, FiniteSetTheorems, SequenceTheorems, WellFoundedInduction

-----------------------------------------------------------------------------
(* Reading a number. *)

(* Induction over the natural numbers, for a set of them.                    *)
LEMMA SetInduction ==
  ASSUME NEW S, 0 \in S, \A n \in Nat : n \in S => n + 1 \in S
  PROVE  Nat \subseteq S
<1> DEFINE R == {ss \in Nat \X Nat : ss[1] < ss[2]}
           T == Nat \ S
<1>1. IsWellFoundedOn(R, Nat)
  BY NatLessThanWellFounded DEF OpToRel
<1> SUFFICES ASSUME T # {}
             PROVE  FALSE
  OBVIOUS
<1>2. PICK x \in T : \A y \in T : ~(<<y, x>> \in R)
  <2> HIDE DEF R
  <2> QED
    BY <1>1, WFMin
<1>3. x - 1 \in Nat /\ <<x - 1, x>> \in R
  OBVIOUS
<1> QED
  BY <1>2, <1>3

(* f is a run of n steps in X that begins in x0.                             *)
Runs(X, x0, n, step, f) ==
  /\ f \in [0 .. n -> X] /\ f[0] = x0
  /\ \A k \in 1 .. n : f[k] = step[<<f[k - 1], k>>]

(* A step that can be taken from everywhere in X can be taken n times.       *)
LEMMA Iterate ==
  ASSUME NEW X, NEW x0 \in X, NEW n \in Nat, NEW step \in [X \X (1 .. n) -> X]
  PROVE  \E f : Runs(X, x0, n, step, f)
<1> DEFINE Good(f, m) == Runs(X, x0, m, step, f)
           S == {m \in Nat : m <= n => \E f : Good(f, m)}
<1> USE DEF Runs
<1>1. 0 \in S
  <2> DEFINE f == [k \in 0 .. 0 |-> x0]
  <2>1. f \in [0 .. 0 -> X] /\ f[0] = x0 /\ 1 .. 0 = {}
    OBVIOUS
  <2> HIDE DEF f
  <2>2. Good(f, 0)
    BY <2>1
  <2> QED
    BY <2>2
<1>2. \A m \in Nat : m \in S => m + 1 \in S
  <2> SUFFICES ASSUME NEW m \in Nat, m + 1 <= n, NEW f, Good(f, m)
               PROVE  \E g : Good(g, m + 1)
    OBVIOUS
  <2> DEFINE w == step[<<f[m], m + 1>>]
             g == [k \in 0 .. m + 1 |-> IF k = m + 1 THEN w ELSE f[k]]
  <2>1. w \in X
    <3>1. f[m] \in X /\ m + 1 \in 1 .. n
      OBVIOUS
    <3> QED
      BY <3>1
  <2>2. g \in [0 .. m + 1 -> X] /\ g[m + 1] = w /\ \A k \in 0 .. m : g[k] = f[k]
    BY <2>1
  <2>3. ASSUME NEW k \in 1 .. m + 1
        PROVE  g[k] = step[<<g[k - 1], k>>]
    <3> HIDE DEF g
    <3>1. CASE k = m + 1
      <4>1. k - 1 = m /\ m \in 0 .. m
        BY <3>1
      <4>2. g[k] = w /\ g[k - 1] = f[m]
        BY <2>2, <3>1, <4>1
      <4> QED
        BY <3>1, <4>2
    <3>2. CASE k # m + 1
      <4>1. k \in 1 .. m /\ k - 1 \in 0 .. m /\ k \in 0 .. m
        BY <3>2
      <4> QED
        BY <2>2, <4>1
    <3> QED
      BY <3>1, <3>2
  <2>4. g[0] = x0
    BY <2>2
  <2> HIDE DEF g
  <2> QED
    BY <2>2, <2>3, <2>4
<1> QED
  <2>1. n \in S
    <3> HIDE DEF S
    <3> QED
      BY <1>1, <1>2, SetInduction
  <2> HIDE DEF Runs
  <2> QED
    BY <2>1

(* The reference: the decimal value of a string of digits, of any size.      *)
Worth(s) ==
  LET w[k \in 0 .. Len(s)] == IF k = 0 THEN 0 ELSE w[k - 1] * 10 + s[k]
  IN  w

Digits(s) == \A k \in 1 .. Len(s) : s[k] \in 0 .. 9

Readings == Nat \cup {-1}

LEMMA AddDigitStays ==
  ASSUME NEW v \in Readings, NEW d
  PROVE  AddDigit(v, d) \in Readings
<1>1. CASE v = -1 \/ d \notin 0 .. 9
  BY <1>1 DEF AddDigit, Readings
<1>2. CASE v # -1 /\ d \in 0 .. 9
  <2>1. v * 10 + d \in Nat
    BY <1>2 DEF Readings
  <2> QED
    BY <1>2, <2>1 DEF AddDigit, Readings
<1> QED
  BY <1>1, <1>2

(* The check before the digit is added refuses exactly what is too large.    *)
LEMMA AddDigitExact ==
  ASSUME NEW w \in Nat, NEW d \in 0 .. 9, NEW v, v = IF w <= IntMax THEN w ELSE -1
  PROVE  AddDigit(v, d) = IF w * 10 + d <= IntMax THEN w * 10 + d ELSE -1
<1>1. PICK M \in Nat : M = IntMax
  BY IntMaxAssumption
<1>2. w > (M - d) \div 10 <=> w * 10 + d > M
  OBVIOUS
<1>3. CASE w <= M
  BY <1>1, <1>2, <1>3 DEF AddDigit
<1>4. CASE w > M
  BY <1>1, <1>4 DEF AddDigit
<1> QED
  BY <1>3, <1>4

LEMMA ReadsIs ==
  ASSUME NEW s, NEW n \in Nat, n = Len(s)
  PROVE  /\ Reads(s)[0] = 0
         /\ \A k \in 1 .. n : Reads(s)[k] = AddDigit(Reads(s)[k - 1], s[k])
<1> DEFINE D(f) == [k \in 0 .. n |-> IF k = 0 THEN 0 ELSE AddDigit(f[k - 1], s[k])]
<1> PICK X : X = Readings
  OBVIOUS
<1>1. PICK x0 \in X : x0 = 0
  BY DEF Readings
<1>2. PICK step \in [X \X (1 .. n) -> X] :
        \A x \in X, k \in 1 .. n : step[<<x, k>>] = AddDigit(x, s[k])
  <2> DEFINE st == [p \in X \X (1 .. n) |-> AddDigit(p[1], s[p[2]])]
  <2>1. st \in [X \X (1 .. n) -> X]
    BY AddDigitStays
  <2>2. \A x \in X, k \in 1 .. n : st[<<x, k>>] = AddDigit(x, s[k])
    OBVIOUS
  <2> HIDE DEF st
  <2> QED
    BY <2>1, <2>2
<1>3. PICK f : Runs(X, x0, n, step, f)
  BY Iterate
<1>4. /\ f \in [0 .. n -> X] /\ f[0] = x0
      /\ \A k \in 1 .. n : f[k] = step[<<f[k - 1], k>>]
  BY <1>3 DEF Runs
<1>5. f = D(f)
  <2>1. ASSUME NEW k \in 1 .. n
        PROVE  f[k] = AddDigit(f[k - 1], s[k])
    <3>1. k - 1 \in 0 .. n
      OBVIOUS
    <3>2. f[k - 1] \in X
      BY <1>4, <3>1
    <3> QED
      BY <1>2, <1>4, <3>2
  <2>2. \A k \in 0 .. n : f[k] = IF k = 0 THEN 0 ELSE AddDigit(f[k - 1], s[k])
    BY <1>1, <1>4, <2>1
  <2> QED
    BY <1>4, <2>2
<1>6. Reads(s) = D(Reads(s))
  <2>1. Reads(s) = CHOOSE g : g = D(g)
    BY DEF Reads
  <2> HIDE DEF D
  <2> QED
    BY <1>5, <2>1
<1> QED
  BY <1>6

LEMMA WorthIs ==
  ASSUME NEW s, NEW n \in Nat, n = Len(s), Digits(s)
  PROVE  /\ Worth(s)[0] = 0
         /\ \A k \in 1 .. n : Worth(s)[k] = Worth(s)[k - 1] * 10 + s[k]
<1> DEFINE D(f) == [k \in 0 .. n |-> IF k = 0 THEN 0 ELSE f[k - 1] * 10 + s[k]]
<1> PICK X : X = Nat
  OBVIOUS
<1>1. PICK x0 \in X : x0 = 0
  OBVIOUS
<1>0. \A k \in 1 .. n : s[k] \in 0 .. 9
  BY DEF Digits
<1>2. PICK step \in [X \X (1 .. n) -> X] :
        \A x \in X, k \in 1 .. n : step[<<x, k>>] = x * 10 + s[k]
  <2> DEFINE st == [p \in X \X (1 .. n) |-> p[1] * 10 + s[p[2]]]
  <2>0. \A x \in X, k \in 1 .. n : x * 10 + s[k] \in X
    BY <1>0
  <2>1. st \in [X \X (1 .. n) -> X]
    BY <2>0
  <2>2. \A x \in X, k \in 1 .. n : st[<<x, k>>] = x * 10 + s[k]
    OBVIOUS
  <2> HIDE DEF st
  <2> QED
    BY <2>1, <2>2
<1>3. PICK f : Runs(X, x0, n, step, f)
  BY Iterate
<1>4. /\ f \in [0 .. n -> X] /\ f[0] = x0
      /\ \A k \in 1 .. n : f[k] = step[<<f[k - 1], k>>]
  BY <1>3 DEF Runs
<1>5. f = D(f)
  <2>1. ASSUME NEW k \in 1 .. n
        PROVE  f[k] = f[k - 1] * 10 + s[k]
    <3>1. k - 1 \in 0 .. n
      OBVIOUS
    <3>2. f[k - 1] \in X
      BY <1>4, <3>1
    <3> QED
      BY <1>2, <1>4, <3>2
  <2>2. \A k \in 0 .. n : f[k] = IF k = 0 THEN 0 ELSE f[k - 1] * 10 + s[k]
    BY <1>1, <1>4, <2>1
  <2> QED
    BY <1>4, <2>2
<1>6. Worth(s) = D(Worth(s))
  <2>1. Worth(s) = CHOOSE g : g = D(g)
    BY DEF Worth
  <2> HIDE DEF D
  <2> QED
    BY <1>5, <2>1
<1> QED
  BY <1>6

(* nvfix_parse_nonnegative_int and nvfix_name_is_nvidia_minor, for a string  *)
(* of any length: the number is the decimal value, and a string is refused   *)
(* if and only if it is empty, has another character, or exceeds INT_MAX. No *)
(* sum ever wraps to the number of another GPU.                              *)
THEOREM NumberIsDecimal ==
  ASSUME NEW S, NEW s \in Seq(S)
  PROVE  Number(s) = IF s # <<>> /\ Digits(s) /\ Worth(s)[Len(s)] <= IntMax
                     THEN Worth(s)[Len(s)] ELSE -1
<1>0. PICK n \in Nat : n = Len(s)
  BY LenProperties
<1>1. PICK v : /\ v = Reads(s) /\ v[0] = 0
               /\ \A k \in 1 .. n : v[k] = AddDigit(v[k - 1], s[k])
  BY <1>0, ReadsIs
<1>2. CASE s = <<>>
  BY <1>2 DEF Number
<1>3. CASE s # <<>> /\ ~Digits(s)
  <2>1. PICK b \in 1 .. n : s[b] \notin 0 .. 9
    BY <1>0, <1>3 DEF Digits
  <2> DEFINE T == {m \in Nat : b <= m /\ m <= n => v[m] = -1}
  <2>2. 0 \in T
    OBVIOUS
  <2>3. \A m \in Nat : m \in T => m + 1 \in T
    <3> SUFFICES ASSUME NEW m \in Nat, m \in T, b <= m + 1, m + 1 <= n
                 PROVE  v[m + 1] = -1
      OBVIOUS
    <3>1. v[m + 1] = AddDigit(v[m], s[m + 1])
      <4>1. m + 1 \in 1 .. n /\ (m + 1) - 1 = m
        OBVIOUS
      <4> QED
        BY <1>1, <4>1
    <3>2. CASE b = m + 1
      BY <2>1, <3>1, <3>2 DEF AddDigit
    <3>3. CASE b # m + 1
      <4>1. b <= m /\ m <= n
        <5> HIDE DEF T
        <5> QED
          BY <3>3
      <4>2. v[m] = -1
        BY <4>1
      <4> QED
        BY <3>1, <4>2 DEF AddDigit
    <3> QED
      BY <3>2, <3>3
  <2>4. n \in T
    <3> HIDE DEF T
    <3> QED
      BY <2>2, <2>3, SetInduction
  <2>5. v[n] = -1
    BY <2>4
  <2> QED
    BY <1>0, <1>1, <1>3, <2>5 DEF Number
<1>4. CASE s # <<>> /\ Digits(s)
  <2>1. PICK w : /\ w = Worth(s) /\ w[0] = 0
                 /\ \A k \in 1 .. n : w[k] = w[k - 1] * 10 + s[k]
    BY <1>0, <1>4, WorthIs
  <2> DEFINE Exact(m) == w[m] \in Nat /\ v[m] = IF w[m] <= IntMax THEN w[m] ELSE -1
             T == {m \in Nat : m <= n => Exact(m)}
  <2>2. 0 \in T
    BY <1>1, <2>1, IntMaxAssumption
  <2>3. ASSUME NEW m \in Nat, m + 1 <= n, Exact(m)
        PROVE  Exact(m + 1)
    <3>1. m + 1 \in 1 .. n /\ (m + 1) - 1 = m
      <4> HIDE DEF Exact
      <4> QED
        BY <2>3
    <3>2. PICK x \in Nat, d \in 0 .. 9 : x = w[m] /\ d = s[m + 1]
      BY <1>0, <1>4, <2>3, <3>1 DEF Digits
    <3>3. w[m + 1] = x * 10 + d /\ v[m + 1] = AddDigit(v[m], d)
      BY <1>1, <2>1, <3>1, <3>2
    <3>4. v[m + 1] = IF w[m + 1] <= IntMax THEN w[m + 1] ELSE -1
      <4>1. v[m] = IF x <= IntMax THEN x ELSE -1
        BY <2>3, <3>2
      <4>2. AddDigit(v[m], d) = IF x * 10 + d <= IntMax THEN x * 10 + d ELSE -1
        BY <4>1, AddDigitExact
      <4> QED
        BY <3>3, <4>2
    <3>5. w[m + 1] \in Nat
      <4>1. x * 10 + d \in Nat
        OBVIOUS
      <4> QED
        BY <3>3, <4>1
    <3> QED
      BY <3>4, <3>5
  <2>4. n \in T
    <3>1. \A m \in Nat : m \in T => m + 1 \in T
      <4> HIDE DEF Exact
      <4> QED
        BY <2>3
    <3> HIDE DEF T
    <3> QED
      BY <2>2, <3>1, SetInduction
  <2>5. Exact(n)
    <3> HIDE DEF Exact
    <3> QED
      BY <2>4
  <2> QED
    BY <1>0, <1>1, <1>4, <2>1, <2>5 DEF Number
<1> QED
  BY <1>2, <1>3, <1>4

-----------------------------------------------------------------------------
(* Reading an information file. *)

(* A nonempty set of positions has a last one.                               *)
LEMMA LastExists ==
  ASSUME NEW n \in Nat, NEW at \in SUBSET (1 .. n), at # {}
  PROVE  \E i \in at : \A j \in at : j <= i
<1> DEFINE T == {n - i : i \in at}
           R == OpToRel(<, Nat)
<1>1. T \subseteq Nat /\ T # {}
  <2>1. \A i \in at : i \in Int /\ 1 <= i /\ i <= n
    OBVIOUS
  <2>2. \A i \in at : n - i \in Nat
    BY <2>1
  <2> QED
    BY <2>2
<1>2. IsWellFoundedOn(R, Nat)
  BY NatLessThanWellFounded
<1>3. \A x, y \in Nat : <<y, x>> \in R <=> y < x
  BY DEF OpToRel
<1> HIDE DEF R
<1>4. PICK x \in T : \A y \in T : ~(<<y, x>> \in R)
  BY <1>1, <1>2, WFMin
<1>5. \A y \in T : ~(y < x)
  BY <1>1, <1>3, <1>4
<1>6. PICK i \in at : x = n - i
  BY <1>4
<1>7. ASSUME NEW j \in at PROVE j <= i
  <2>1. n - j \in T /\ i \in Int /\ j \in Int
    OBVIOUS
  <2>2. ~(n - j < n - i)
    BY <2>1, <1>5, <1>6
  <2> QED
    BY <2>1, <2>2
<1> QED
  BY <1>7

(* LastValue is the default or the value of a line with the key.             *)
LEMMA LastValueFacts ==
  ASSUME NEW text, Len(text) \in Nat, DOMAIN text = 1 .. Len(text),
         NEW key, NEW default
  PROVE  \/ LastValue(text, key, default) = default
         \/ \E i \in DOMAIN text : /\ text[i].key = key
                                   /\ LastValue(text, key, default) = text[i].val
<1> DEFINE at == {i \in DOMAIN text : text[i].key = key}
<1>1. CASE at = {}
  BY <1>1 DEF LastValue
<1>2. CASE at # {}
  <2> DEFINE last == CHOOSE i \in at : \A j \in at : j <= i
  <2>1. \E i \in at : \A j \in at : j <= i
    BY <1>2, LastExists
  <2>2. last \in at
    BY <2>1
  <2>3. LastValue(text, key, default) = text[last].val
    BY <1>2 DEF LastValue
  <2> QED
    BY <2>2, <2>3
<1> QED
  BY <1>1, <1>2

(* What an information file parses to is true of its GPU.                    *)
Genuine(i) ==
  /\ i \in Info
  /\ i.minor = MinorOf[i.bus]
  /\ i.uuid \in {NoUuid, UuidOf[i.bus]}

LEMMA ParsedGenuine ==
  ASSUME NEW g \in Gpus, NEW text \in Texts[g], Parsed(g, text) # NoInfo
  PROVE  Genuine(Parsed(g, text)) /\ Parsed(g, text).bus = g
<1> DEFINE number == LastValue(text, "minor", <<>>)
           bus    == LastValue(text, "bus", g)
           uuid   == LastValue(text, "uuid", NoUuid)
<1>1. /\ Len(text) \in Nat /\ DOMAIN text = 1 .. Len(text)
      /\ \A i \in DOMAIN text : TrueLine(g, text[i]) \/ BadLine(text[i])
  BY DriverHonest
<1>2. /\ number # <<>>
      /\ \A i \in DOMAIN text : ~BadLine(text[i])
      /\ Parsed(g, text) = [bus |-> bus, minor |-> Number(number), uuid |-> uuid]
  BY DEF Parsed
<1>3. \A i \in DOMAIN text : TrueLine(g, text[i])
  BY <1>1, <1>2
<1>4. bus = g
  BY <1>1, <1>3, LastValueFacts DEF TrueLine
<1>5. uuid \in {NoUuid, UuidOf[g]}
  BY <1>1, <1>3, LastValueFacts DEF TrueLine
<1>6. Number(number) = MinorOf[g]
  BY <1>1, <1>2, <1>3, LastValueFacts DEF TrueLine
<1>7. MinorOf[g] \in Nat
  BY GpusDiffer
<1> HIDE DEF number, bus, uuid
<1> QED
  BY <1>2, <1>4, <1>5, <1>6, <1>7 DEF Genuine, Info

-----------------------------------------------------------------------------
(* Only assigned GPUs are allowed. *)

(* What is collected was there, and only that is allowed.                    *)
Collected ==
  /\ pc # "done" => nodes \cup listed \subseteq ever
  /\ minors \subseteq ever
  /\ \A n \in minors : Number(n) # -1
  /\ \A i \in infos : Genuine(i) /\ i.bus \in ever
  /\ allowed \subseteq Build

(* The variables stay in their types, and what is collected is well formed,  *)
(* whatever an honest driver's files hold and whatever changes meanwhile.    *)
THEOREM TypeCorrect == Spec => []TypeOK
<1>1. Init => TypeOK
  <2> SUFFICES ASSUME Init PROVE TypeOK
    OBVIOUS
  <2>1. ever \in SUBSET (DevNames \cup Gpus) /\ stayed \in SUBSET (DevNames \cup Gpus)
    BY DEF Init
  <2>2. changes \in Nat /\ infos \in SUBSET Info /\ allowed \in SUBSET Info
    BY DEF Init
  <2> QED
    BY <2>1, <2>2 DEF Init, TypeOK
<1>2. TypeOK /\ [Next]_vars => TypeOK'
  <2> SUFFICES ASSUME TypeOK, [Next]_vars PROVE TypeOK'
    OBVIOUS
  <2> USE DEF TypeOK
  <2>1. CASE OpenDev
    <3>1. pc' \in {"minors", "openGpus"} /\ owed' \subseteq nodes /\ cut' \in BOOLEAN /\ seen' = {}
      BY <2>1 DEF OpenDev, OpenDir
    <3> QED
      BY <2>1, <3>1 DEF OpenDev, OpenDir, env, result
  <2>2. CASE TakeMinor
    <3>1. minors' \in SUBSET DevNames /\ seen' \in SUBSET (DevNames \cup Gpus)
      BY <2>2 DEF TakeMinor
    <3> QED
      BY <2>2, <3>1 DEF TakeMinor, env, result
  <2>3. CASE EndMinors
    BY <2>3 DEF EndMinors, EndScan, env, result
  <2>4. CASE OpenGpus
    BY <2>4 DEF OpenGpus, OpenDir, env, result
  <2>5. CASE TakeInfo
    <3>1. \A g \in Gpus : \A text \in Texts[g] :
            Parsed(g, text) # NoInfo => Parsed(g, text) \in Info
      BY ParsedGenuine DEF Genuine
    <3>2. infos' \in SUBSET Info
      BY <2>5, <3>1 DEF TakeInfo
    <3>3. lost' \in SUBSET Gpus /\ seen' \in SUBSET (DevNames \cup Gpus)
      BY <2>5 DEF TakeInfo
    <3> QED
      BY <2>5, <3>2, <3>3 DEF TakeInfo, env, result
  <2>6. CASE EndInfos
    BY <2>6 DEF EndInfos, EndScan, env, result
  <2>7. CASE BuildAllowed
    BY <2>7 DEF BuildAllowed, Build, env
  <2>8. CASE Change
    <3>1. nodes' \in SUBSET DevNames /\ listed' \in SUBSET Gpus
      BY <2>8 DEF Change, Toggled
    <3> QED
      BY <2>8, <3>1 DEF Change, result
  <2>9. CASE UNCHANGED vars
    BY <2>9 DEF vars, env, result
  <2> QED
    BY <2>1, <2>2, <2>3, <2>4, <2>5, <2>6, <2>7, <2>8, <2>9 DEF Next, Load
<1> QED
  BY <1>1, <1>2, PTL DEF Spec

LEMMA CollectedStep ==
  ASSUME TypeOK, Collected, [Next]_vars
  PROVE  Collected'
<1>1. CASE OpenDev
  BY <1>1 DEF OpenDev, OpenDir, Collected, Build, env, result
<1>2. CASE TakeMinor
  <2>1. minors \subseteq minors' /\ minors' \subseteq minors \cup nodes
        /\ (\A n \in minors' : n \in minors \/ Number(n) # -1)
    BY <1>2 DEF TakeMinor
  <2>2. UNCHANGED <<nodes, listed, ever, wanted, pc, infos, allowed>> /\ pc = "minors"
    BY <1>2 DEF TakeMinor, env, result
  <2> QED
    BY <2>1, <2>2 DEF Collected, Build, Mounted
<1>3. CASE EndMinors
  BY <1>3 DEF EndMinors, EndScan, Collected, Build, env, result
<1>4. CASE OpenGpus
  BY <1>4 DEF OpenGpus, OpenDir, Collected, Build, env, result
<1>5. CASE TakeInfo
  <2>1. UNCHANGED <<nodes, listed, ever, wanted, pc, minors, allowed>> /\ pc = "infos"
    BY <1>5 DEF TakeInfo, env, result
  <2>2. infos \subseteq infos'
    BY <1>5 DEF TakeInfo
  <2>3. \A i \in infos' : i \in infos \/ (Genuine(i) /\ i.bus \in listed)
    BY <1>5, ParsedGenuine DEF TakeInfo, TypeOK
  <2> QED
    BY <2>1, <2>2, <2>3 DEF Collected, Build
<1>6. CASE EndInfos
  BY <1>6 DEF EndInfos, EndScan, Collected, Build, env, result
<1>7. CASE BuildAllowed
  BY <1>7 DEF BuildAllowed, Collected, Build, env
<1>8. CASE Change
  <2>1. ever \subseteq ever' /\ (pc # "done" => nodes' \cup listed' \subseteq ever')
    BY <1>8 DEF Change
  <2> QED
    BY <1>8, <2>1 DEF Change, Collected, Build, result
<1>9. CASE UNCHANGED vars
  BY <1>9 DEF vars, env, result, Collected, Build
<1> QED
  BY <1>1, <1>2, <1>3, <1>4, <1>5, <1>6, <1>7, <1>8, <1>9 DEF Next, Load

LEMMA CollectedAlways == Spec => []Collected
<1>1. Init => Collected
  BY DEF Init, Collected, Build
<1> QED
  BY <1>1, CollectedStep, TypeCorrect, PTL DEF Spec

(* nvfix_build_allowed_gpus allows assigned GPUs only, whatever the reads of *)
(* the two directories and of the information files returned.                *)
THEOREM OnlyAssignedAllowed == Spec => []AllowedAreAssigned
<1>1. TypeOK /\ Collected => AllowedAreAssigned
  <2> SUFFICES ASSUME TypeOK, Collected, NEW i \in allowed
               PROVE  i.bus \in ever /\ i.bus \in Gpus /\ Assigned(i.bus, ever)
    BY DEF AllowedAreAssigned
  <2>1. Genuine(i) /\ i.bus \in ever /\ Mounted(i.minor, minors) /\ wanted \in {NoUuid, i.uuid}
    BY DEF Collected, Build
  <2>2. i.bus \in Gpus
    BY <2>1 DEF Genuine, Info
  <2>3. wanted \in {NoUuid, UuidOf[i.bus]}
    BY <2>1 DEF Genuine
  <2>4. \E n \in ever \cap DevNames : Number(n) = MinorOf[i.bus]
    BY <2>1 DEF Genuine, Mounted, Collected, TypeOK
  <2> QED
    BY <2>1, <2>2, <2>3, <2>4 DEF Assigned
<1> QED
  BY <1>1, CollectedAlways, TypeCorrect, PTL

(* Judging by bus (procfs) and by minor (Resource Manager) is the same.      *)
THEOREM OneJudgement == Spec => []ViewsAgree
<1>1. Collected => ViewsAgree
  <2> SUFFICES ASSUME Collected, NEW g \in Gpus
               PROVE  (\E i \in allowed : i.bus = g) <=> \E i \in allowed : i.minor = MinorOf[g]
    BY DEF ViewsAgree
  <2>1. \A i \in allowed : i.bus \in Gpus /\ i.minor = MinorOf[i.bus]
    BY DEF Collected, Build, Genuine, Info
  <2> QED
    BY <2>1, GpusDiffer
<1> QED
  BY <1>1, CollectedAlways, PTL

-----------------------------------------------------------------------------
(* Who is hidden, and why. *)

(* A capacity once exceeded stays so.                                        *)
LEMMA CrowdedGrows ==
  ASSUME TypeOK, TypeOK', ever \subseteq ever', Crowded
  PROVE  Crowded'
<1> DEFINE D  == {n \in ever \cap DevNames : Number(n) # -1}
           D2 == {n \in ever' \cap DevNames : Number(n) # -1}
           G  == ever \cap Gpus
           G2 == ever' \cap Gpus
<1>1. IsFiniteSet(D2) /\ IsFiniteSet(G2)
  BY GpusDiffer, FS_Subset
<1>2. D \subseteq D2 /\ G \subseteq G2
  OBVIOUS
<1>3. /\ Cardinality(D) \in Nat /\ Cardinality(G) \in Nat
      /\ Cardinality(D2) \in Nat /\ Cardinality(G2) \in Nat
      /\ Cardinality(D) <= Cardinality(D2) /\ Cardinality(G) <= Cardinality(G2)
  BY <1>1, <1>2, FS_Subset, FS_CardinalityType
<1>4. Cardinality(D) > MaxGpus \/ Cardinality(G) > MaxGpus
  BY DEF Crowded
<1> HIDE DEF D, D2, G, G2
<1>5. Cardinality(D2) > MaxGpus \/ Cardinality(G2) > MaxGpus
  BY <1>3, <1>4, GpusDiffer
<1> QED
  BY <1>5 DEF Crowded, D2, G2

(* A device node that finds no room is one too many.                         *)
LEMMA NoRoomForMinor ==
  ASSUME TypeOK, Collected, pc # "done", NEW n \in nodes \ minors, Number(n) # -1,
         ~(Cardinality(minors) < MaxGpus)
  PROVE  Crowded
<1> DEFINE D == {m \in ever \cap DevNames : Number(m) # -1}
<1>1. IsFiniteSet(D) /\ minors \cup {n} \in SUBSET D
  BY GpusDiffer, FS_Subset DEF TypeOK, Collected
<1>2. IsFiniteSet(minors)
  BY GpusDiffer, FS_Subset DEF TypeOK
<1>3. Cardinality(minors \cup {n}) = Cardinality(minors) + 1
  BY <1>2, FS_AddElement
<1>4. Cardinality(minors \cup {n}) <= Cardinality(D)
  BY <1>1, FS_Subset
<1>5. Cardinality(minors) \in Nat /\ Cardinality(D) \in Nat /\ MaxGpus \in Nat
  BY <1>1, <1>2, FS_CardinalityType, GpusDiffer
<1> HIDE DEF D
<1>6. Cardinality(D) > MaxGpus
  BY <1>3, <1>4, <1>5
<1> QED
  BY <1>6 DEF Crowded, D

(* Information is kept once per GPU.                                         *)
OncePerGpu ==
  /\ IsFiniteSet(infos)
  /\ \A i, j \in infos : i.bus = j.bus => i = j

(* A GPU whose file is not read for lack of room is one too many.            *)
LEMMA NoRoomForInfo ==
  ASSUME TypeOK, Collected, OncePerGpu, pc # "done",
         NEW g \in listed, \A i \in infos : i.bus # g,
         ~(Cardinality(infos) < MaxGpus)
  PROVE  Crowded
<1> DEFINE G == ever \cap Gpus
           f == [i \in infos |-> i.bus]
<1>1. IsFiniteSet(G) /\ g \in G
  BY GpusDiffer, FS_Subset DEF TypeOK, Collected
<1>2. IsFiniteSet(G \ {g}) /\ Cardinality(G \ {g}) = Cardinality(G) - 1
  BY <1>1, FS_RemoveElement
<1>3. \A i \in infos : i.bus \in G \ {g}
  BY DEF Collected, Genuine, Info
<1>4. f \in Injection(infos, G \ {g})
  BY <1>3 DEF OncePerGpu, Injection, IsInjective
<1>5. Cardinality(infos) <= Cardinality(G \ {g})
  BY <1>2, <1>4, FS_Injection DEF OncePerGpu
<1>6. Cardinality(infos) \in Nat /\ Cardinality(G) \in Nat /\ MaxGpus \in Nat
  BY <1>1, FS_CardinalityType, GpusDiffer DEF OncePerGpu
<1> HIDE DEF G, f
<1>7. Cardinality(G) > MaxGpus
  BY <1>2, <1>5, <1>6
<1> QED
  BY <1>7 DEF Crowded, G

(* What a scan passed was collected, or there was no room.                   *)
Have(n) == Number(n) # -1 => n \in minors \/ Crowded

Known(g) ==
  \/ \E i \in infos : i.bus = g /\ (wanted = UuidOf[g] => i.uuid = UuidOf[g])
  \/ g \in lost
  \/ Crowded

(* Everything that was there all the time is accounted for once the scan is  *)
(* past it, unless the scan was cut short.                                   *)
Accounted ==
  /\ stayed \cap DevNames \subseteq nodes /\ stayed \cap Gpus \subseteq listed
  /\ OncePerGpu
  /\ pc = "done" => allowed = Build
  /\ pc # "done" => ~ready
  /\ pc \in {"openDev", "minors", "openGpus"} => infos = {}
  /\ pc = "minors" => /\ stayed \cap DevNames \subseteq owed
                      /\ \A n \in seen \cap DevNames : Have(n)
  /\ pc \in {"openGpus", "infos", "build", "done"} =>
       cut \/ \A n \in stayed \cap DevNames : Have(n)
  /\ pc = "infos" => /\ stayed \cap Gpus \subseteq owed
                     /\ \A i \in infos : i.bus \in seen
                     /\ \A g \in seen \cap Gpus : Known(g)
  /\ pc \in {"build", "done"} => cut \/ \A g \in stayed \cap Gpus : Known(g)

LEMMA AccountedStep ==
  ASSUME TypeOK, TypeOK', Collected, Accounted, [Next]_vars
  PROVE  Accounted'
<1>1. CASE OpenDev
  <2>1. /\ UNCHANGED <<nodes, listed, ever, stayed, wanted, minors, infos, allowed, ready, lost>>
        /\ pc = "openDev" /\ seen' = {}
        /\ (pc' = "minors" /\ owed' = nodes) \/ (pc' = "openGpus" /\ cut')
    BY <1>1 DEF OpenDev, OpenDir, env, result
  <2> QED
    BY <2>1 DEF Accounted, OncePerGpu
<1>2. CASE TakeMinor
  <2>1. /\ UNCHANGED <<nodes, listed, ever, stayed, wanted, pc, owed, infos, allowed, ready, lost, cut>>
        /\ pc = "minors" /\ minors \subseteq minors'
    BY <1>2 DEF TakeMinor, env, result
  <2>2. Crowded' <=> Crowded
    BY <2>1 DEF Crowded
  <2>3. PICK n \in nodes : /\ seen' = seen \cup {n}
                           /\ minors' = IF Number(n) # -1 /\ Cardinality(minors) < MaxGpus
                                        THEN minors \cup {n} ELSE minors
    BY <1>2 DEF TakeMinor
  <2>4. Have(n)'
    BY <2>1, <2>2, <2>3, NoRoomForMinor DEF Have
  <2>5. \A m : Have(m) => Have(m)'
    BY <2>1, <2>2 DEF Have
  <2>6. \A m \in seen' \cap DevNames : Have(m)'
    BY <2>1, <2>3, <2>4, <2>5 DEF Accounted
  <2> QED
    BY <2>1, <2>6 DEF Accounted, OncePerGpu
<1>3. CASE EndMinors
  <2>1. /\ UNCHANGED <<nodes, listed, ever, stayed, wanted, owed, seen, minors, infos, allowed, ready, lost>>
        /\ pc = "minors" /\ pc' = "openGpus" /\ cut' = (cut \/ ~(owed \subseteq seen))
    BY <1>3 DEF EndMinors, EndScan, env, result
  <2>2. \A m : Have(m) => Have(m)'
    BY <2>1 DEF Have, Crowded
  <2>3. cut' \/ \A n \in stayed \cap DevNames : Have(n)'
    BY <2>1, <2>2 DEF Accounted
  <2> QED
    BY <2>1, <2>3 DEF Accounted, OncePerGpu
<1>4. CASE OpenGpus
  <2>1. /\ UNCHANGED <<nodes, listed, ever, stayed, wanted, minors, infos, allowed, ready, lost>>
        /\ pc = "openGpus" /\ seen' = {}
        /\ (pc' = "infos" /\ owed' = listed /\ cut' = cut) \/ (pc' = "build" /\ cut')
    BY <1>4 DEF OpenGpus, OpenDir, env, result
  <2>2. \A m : Have(m) => Have(m)'
    BY <2>1 DEF Have, Crowded
  <2> QED
    BY <2>1, <2>2 DEF Accounted, OncePerGpu
<1>5. CASE TakeInfo
  <2>1. /\ UNCHANGED <<nodes, listed, ever, stayed, wanted, pc, owed, minors, allowed, ready, cut>>
        /\ pc = "infos" /\ infos \subseteq infos' /\ lost \subseteq lost'
    BY <1>5 DEF TakeInfo, env, result
  <2>2. Crowded' <=> Crowded
    BY <2>1 DEF Crowded
  <2>3. PICK g \in listed \ seen :
          /\ seen' = seen \cup {g}
          /\ IF Cardinality(infos) < MaxGpus
             THEN \E i \in {Parsed(g, text) : text \in Texts[g]} \cup {NoInfo} :
                    /\ infos' = IF i = NoInfo THEN infos ELSE infos \cup {i}
                    /\ lost' = IF i = NoInfo \/ (wanted # NoUuid /\ i.uuid = NoUuid)
                               THEN lost \cup {g} ELSE lost
             ELSE UNCHANGED <<infos, lost>>
    BY <1>5 DEF TakeInfo
  <2>4. \A i \in infos : i.bus # g
    BY <2>1, <2>3 DEF Accounted
  <2>5. g \in Gpus /\ UuidOf[g] # NoUuid
    BY <2>3, GpusDiffer DEF TypeOK
  <2>6. ASSUME Cardinality(infos) < MaxGpus
        PROVE  OncePerGpu' /\ Known(g)' /\ \A j \in infos' : j.bus \in seen'
    <3>1. PICK i \in {Parsed(g, text) : text \in Texts[g]} \cup {NoInfo} :
            /\ infos' = IF i = NoInfo THEN infos ELSE infos \cup {i}
            /\ lost' = IF i = NoInfo \/ (wanted # NoUuid /\ i.uuid = NoUuid)
                       THEN lost \cup {g} ELSE lost
      BY <2>3, <2>6
    <3>2. i # NoInfo => Genuine(i) /\ i.bus = g
      BY <2>5, <3>1, ParsedGenuine
    <3>3. OncePerGpu'
      BY <2>4, <3>1, <3>2, FS_AddElement DEF OncePerGpu, Accounted
    <3>4. Known(g)'
      BY <2>1, <2>5, <3>1, <3>2 DEF Known, Genuine
    <3>5. \A j \in infos' : j.bus \in seen'
      BY <2>1, <2>3, <3>1, <3>2 DEF Accounted
    <3> QED
      BY <3>3, <3>4, <3>5
  <2>7. ASSUME ~(Cardinality(infos) < MaxGpus)
        PROVE  OncePerGpu' /\ Known(g)' /\ \A j \in infos' : j.bus \in seen'
    <3>1. UNCHANGED <<infos, lost>>
      BY <2>3, <2>7
    <3>2. Crowded
      BY <2>1, <2>3, <2>4, <2>7, NoRoomForInfo DEF Accounted
    <3> QED
      BY <2>1, <2>2, <2>3, <3>1, <3>2 DEF Known, OncePerGpu, Accounted
  <2>8. OncePerGpu' /\ Known(g)' /\ \A j \in infos' : j.bus \in seen'
    BY <2>6, <2>7
  <2>9. \A h : Known(h) => Known(h)'
    BY <2>1, <2>2 DEF Known
  <2>10. \A h \in seen' \cap Gpus : Known(h)'
    BY <2>1, <2>3, <2>8, <2>9 DEF Accounted
  <2>11. \A m : Have(m) => Have(m)'
    BY <2>1, <2>2 DEF Have
  <2> QED
    BY <2>1, <2>8, <2>10, <2>11 DEF Accounted
<1>6. CASE EndInfos
  <2>1. /\ UNCHANGED <<nodes, listed, ever, stayed, wanted, owed, seen, minors, infos, allowed, ready, lost>>
        /\ pc = "infos" /\ pc' = "build" /\ cut' = (cut \/ ~(owed \subseteq seen))
    BY <1>6 DEF EndInfos, EndScan, env, result
  <2>2. /\ \A m : Have(m) => Have(m)'
        /\ \A g : Known(g) => Known(g)'
    BY <2>1 DEF Have, Known, Crowded
  <2>3. cut' \/ \A g \in stayed \cap Gpus : Known(g)'
    BY <2>1, <2>2 DEF Accounted
  <2> QED
    BY <2>1, <2>2, <2>3 DEF Accounted, OncePerGpu
<1>7. CASE BuildAllowed
  <2>1. /\ UNCHANGED <<nodes, listed, ever, stayed, wanted, minors, infos, lost, cut>>
        /\ pc = "build" /\ pc' = "done" /\ allowed' = Build'
    BY <1>7 DEF BuildAllowed, Build, env
  <2>2. /\ \A m : Have(m) => Have(m)'
        /\ \A g : Known(g) => Known(g)'
    BY <2>1 DEF Have, Known, Crowded
  <2> QED
    BY <2>1, <2>2 DEF Accounted, OncePerGpu
<1>8. CASE Change
  <2>1. /\ UNCHANGED <<wanted, pc, seen, minors, infos, allowed, ready, lost, cut>>
        /\ owed' = owed \cap (nodes' \cup listed')
        /\ stayed' = stayed \cap (nodes' \cup listed')
        /\ ever \subseteq ever'
    BY <1>8 DEF Change, result
  <2>2. Crowded => Crowded'
    BY <2>1, CrowdedGrows
  <2>3. /\ \A m : Have(m) => Have(m)'
        /\ \A g : Known(g) => Known(g)'
    BY <2>1, <2>2 DEF Have, Known
  <2>4. stayed' \cap DevNames \subseteq nodes' /\ stayed' \cap Gpus \subseteq listed'
    BY <2>1, GpusDiffer DEF TypeOK
  <2>5. allowed' = allowed /\ Build' = Build
    BY <2>1 DEF Build
  <2> QED
    BY <2>1, <2>3, <2>4, <2>5 DEF Accounted, OncePerGpu
<1>9. CASE UNCHANGED vars
  <2>1. UNCHANGED <<nodes, listed, ever, stayed, wanted, pc, owed, seen, minors, infos, allowed, ready, lost, cut>>
    BY <1>9 DEF vars, env, result
  <2> QED
    BY <2>1 DEF Accounted, OncePerGpu, Have, Known, Crowded, Build
<1> QED
  BY <1>1, <1>2, <1>3, <1>4, <1>5, <1>6, <1>7, <1>8, <1>9 DEF Next, Load

LEMMA AccountedAlways == Spec => []Accounted
<1>1. Init => Accounted
  BY FS_EmptySet, GpusDiffer DEF Init, Accounted, OncePerGpu
<1>2. TypeOK /\ TypeOK' /\ Collected /\ Accounted /\ [Next]_vars => Accounted'
  BY AccountedStep
<1> QED
  BY <1>1, <1>2, CollectedAlways, TypeCorrect, PTL DEF Spec

(* A failure hides no GPU but the one it is about.                           *)
THEOREM NoneHiddenForAnother == Spec => []HiddenOnlyIfLost
<1>1. TypeOK /\ Collected /\ Accounted => HiddenOnlyIfLost
  <2> SUFFICES ASSUME TypeOK, Collected, Accounted, NEW g \in Gpus \cap stayed,
                      Assigned(g, stayed), Hidden(g), g \notin lost, ~cut, ~Crowded
               PROVE  FALSE
    BY DEF HiddenOnlyIfLost
  <2>1. pc = "done" /\ allowed = Build
    BY DEF Accounted, Hidden
  <2>2. PICK n \in stayed \cap DevNames : Number(n) = MinorOf[g]
    BY DEF Assigned
  <2>3. n \in minors
    <3>1. Number(n) # -1
      BY <2>2, GpusDiffer
    <3> QED
      BY <2>1, <2>2, <3>1 DEF Accounted, Have
  <2>4. PICK i \in infos : i.bus = g /\ (wanted = UuidOf[g] => i.uuid = UuidOf[g])
    BY <2>1 DEF Accounted, Known
  <2>5. i.minor = MinorOf[g]
    BY <2>4 DEF Collected, Genuine
  <2>6. i \in Build
    BY <2>2, <2>3, <2>4, <2>5 DEF Build, Mounted, Assigned
  <2> QED
    BY <2>1, <2>4, <2>6 DEF Hidden
<1> QED
  BY <1>1, AccountedAlways, CollectedAlways, TypeCorrect, PTL
=============================================================================
