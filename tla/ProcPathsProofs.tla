---------------------------- MODULE ProcPathsProofs ----------------------------
(***************************************************************************)
(* The path check of ProcPaths for paths of any length: the walk of the    *)
(* kernel over a path and the loop that normalises it are followed         *)
(* together, segment by segment.                                           *)
(***************************************************************************)
EXTENDS ProcPaths, SequenceTheorems, WellFoundedInduction, TLAPS

(* Induction over the natural numbers, for a set of them.                    *)
LEMMA SetInduction ==
  ASSUME NEW S, 0 \in S, \A n \in Nat : n \in S => n + 1 \in S
  PROVE  Nat \subseteq S
<1> DEFINE R == {ss \in Nat \X Nat : ss[1] < ss[2]}
           T == Nat \ S
<1>1. IsWellFoundedOn(R, Nat)
  BY NatLessThanWellFounded DEF OpToRel
<1> SUFFICES ASSUME T # {}
             PROVE  FALSE
  OBVIOUS
<1>2. PICK x \in T : \A y \in T : ~(<<y, x>> \in R)
  <2> HIDE DEF R
  <2> QED
    BY <1>1, WFMin
<1>3. x - 1 \in Nat /\ <<x - 1, x>> \in R
  OBVIOUS
<1> QED
  BY <1>2, <1>3

(* f is a run of n steps in X that begins in x0.                             *)
Runs(X, x0, n, step, f) ==
  /\ f \in [0 .. n -> X] /\ f[0] = x0
  /\ \A k \in 1 .. n : f[k] = step[<<f[k - 1], k>>]

(* A step that can be taken from everywhere in X can be taken n times.       *)
LEMMA Iterate ==
  ASSUME NEW X, NEW x0 \in X, NEW n \in Nat, NEW step \in [X \X (1 .. n) -> X]
  PROVE  \E f : Runs(X, x0, n, step, f)
<1> DEFINE Good(f, m) == Runs(X, x0, m, step, f)
           S == {m \in Nat : m <= n => \E f : Good(f, m)}
<1> USE DEF Runs
<1>1. 0 \in S
  <2> DEFINE f == [k \in 0 .. 0 |-> x0]
  <2>1. f \in [0 .. 0 -> X] /\ f[0] = x0 /\ 1 .. 0 = {}
    OBVIOUS
  <2> HIDE DEF f
  <2>2. Good(f, 0)
    BY <2>1
  <2> QED
    BY <2>2
<1>2. \A m \in Nat : m \in S => m + 1 \in S
  <2> SUFFICES ASSUME NEW m \in Nat, m + 1 <= n, NEW f, Good(f, m)
               PROVE  \E g : Good(g, m + 1)
    OBVIOUS
  <2> DEFINE w == step[<<f[m], m + 1>>]
             g == [k \in 0 .. m + 1 |-> IF k = m + 1 THEN w ELSE f[k]]
  <2>1. w \in X
    <3>1. f[m] \in X /\ m + 1 \in 1 .. n
      OBVIOUS
    <3> QED
      BY <3>1
  <2>2. g \in [0 .. m + 1 -> X] /\ g[m + 1] = w /\ \A k \in 0 .. m : g[k] = f[k]
    BY <2>1
  <2>3. ASSUME NEW k \in 1 .. m + 1
        PROVE  g[k] = step[<<g[k - 1], k>>]
    <3> HIDE DEF g
    <3>1. CASE k = m + 1
      <4>1. k - 1 = m /\ m \in 0 .. m
        BY <3>1
      <4>2. g[k] = w /\ g[k - 1] = f[m]
        BY <2>2, <3>1, <4>1
      <4> QED
        BY <3>1, <4>2
    <3>2. CASE k # m + 1
      <4>1. k \in 1 .. m /\ k - 1 \in 0 .. m /\ k \in 0 .. m
        BY <3>2
      <4> QED
        BY <2>2, <4>1
    <3> QED
      BY <3>1, <3>2
  <2>4. g[0] = x0
    BY <2>2
  <2> HIDE DEF g
  <2> QED
    BY <2>2, <2>3, <2>4
<1> QED
  <2>1. n \in S
    <3> HIDE DEF S
    <3> QED
      BY <1>1, <1>2, SetInduction
  <2> HIDE DEF Runs
  <2> QED
    BY <2>1

(* One more element at the end of a sequence.                                *)
LEMMA AppendTells ==
  ASSUME NEW S, NEW s \in Seq(S), NEW x \in S
  PROVE  /\ Append(s, x) \in Seq(S) /\ Len(Append(s, x)) = Len(s) + 1
         /\ \A k \in 1 .. Len(s) : Append(s, x)[k] = s[k]
         /\ Append(s, x)[Len(s) + 1] = x
  BY AppendProperties

-----------------------------------------------------------------------------
(* The walk and the loop, segment by segment. *)

Places == Tree \cup {Nowhere}

(* The places are told apart by their depth and their names.                 *)
LEMMA TreeShape ==
  /\ Gpus \in Seq(Names) /\ Len(Gpus) = 1 /\ Gpus[1] = "gpus" /\ Gpus # <<>>
  /\ Nowhere \notin Tree
  /\ \A b \in Buses : /\ DirOf(b) \in Seq(Names) /\ Len(DirOf(b)) = 2
                      /\ DirOf(b)[1] = "gpus" /\ DirOf(b)[2] = b
                      /\ InfoOf(b) \in Seq(Names) /\ Len(InfoOf(b)) = 3
                      /\ InfoOf(b)[1] = "gpus" /\ InfoOf(b)[2] = b
                      /\ InfoOf(b)[3] = "information"
<1>1. Gpus \in Seq(Names) /\ Len(Gpus) = 1 /\ Gpus[1] = "gpus" /\ Gpus # <<>>
  BY DEF Gpus, Names
<1>2. ASSUME NEW b \in Buses
      PROVE  /\ DirOf(b) \in Seq(Names) /\ Len(DirOf(b)) = 2
             /\ DirOf(b)[1] = "gpus" /\ DirOf(b)[2] = b
  <2>1. b \in Names
    BY DEF Names
  <2> HIDE DEF Gpus, Names
  <2>2. /\ Append(Gpus, b) \in Seq(Names) /\ Len(Append(Gpus, b)) = Len(Gpus) + 1
        /\ \A k \in 1 .. Len(Gpus) : Append(Gpus, b)[k] = Gpus[k]
        /\ Append(Gpus, b)[Len(Gpus) + 1] = b
    BY <1>1, <2>1, AppendTells
  <2>3. 1 \in 1 .. Len(Gpus) /\ Len(Gpus) + 1 = 2
    BY <1>1
  <2> QED
    BY <1>1, <2>2, <2>3 DEF DirOf
<1>3. ASSUME NEW b \in Buses
      PROVE  /\ InfoOf(b) \in Seq(Names) /\ Len(InfoOf(b)) = 3
             /\ InfoOf(b)[1] = "gpus" /\ InfoOf(b)[2] = b
             /\ InfoOf(b)[3] = "information"
  <2> DEFINE d == DirOf(b)
  <2>1. "information" \in Names
    BY DEF Names
  <2>2. d \in Seq(Names) /\ Len(d) = 2 /\ d[1] = "gpus" /\ d[2] = b
    BY <1>2
  <2> HIDE DEF d
  <2>3. PICK x \in Names : x = "information"
    BY <2>1
  <2>4. /\ Append(d, x) \in Seq(Names) /\ Len(Append(d, x)) = Len(d) + 1
        /\ \A k \in 1 .. Len(d) : Append(d, x)[k] = d[k]
        /\ Append(d, x)[Len(d) + 1] = x
    BY <2>2, AppendTells
  <2>5. InfoOf(b) = Append(d, x)
    BY <2>3 DEF InfoOf, d
  <2> QED
    BY <2>2, <2>3, <2>4, <2>5
<1>4. Nowhere \notin Tree
  <2>1. Len(Nowhere) = 1 /\ Nowhere[1] = "nowhere" /\ Nowhere # <<>>
    BY DEF Nowhere
  <2> QED
    BY <1>1, <1>2, <1>3, <2>1 DEF Tree, InfoFiles
<1> QED
  BY <1>1, <1>2, <1>3, <1>4

LEMMA NotInfo ==
  /\ <<>> \notin InfoFiles /\ Gpus \notin InfoFiles
  /\ \A b \in Buses : DirOf(b) \notin InfoFiles
<1>1. \A at \in InfoFiles : Len(at) = 3
  BY TreeShape DEF InfoFiles
<1>2. Len(<<>>) = 0
  OBVIOUS
<1> QED
  BY <1>1, <1>2, TreeShape

(* Taking the last name away.                                                *)
LEMMA FrontOfAppend ==
  ASSUME NEW S, NEW s \in Seq(S), NEW x \in S
  PROVE  Front(Append(s, x)) = s
<1>1. /\ Append(s, x) \in Seq(S) /\ Len(Append(s, x)) = Len(s) + 1
      /\ \A k \in 1 .. Len(s) : Append(s, x)[k] = s[k]
  BY AppendProperties
<1>2. Front(Append(s, x)) = SubSeq(Append(s, x), 1, Len(s))
  BY <1>1 DEF Front
<1>3. SubSeq(Append(s, x), 1, Len(s)) = [k \in 1 .. Len(s) |-> Append(s, x)[k]]
  BY <1>1
<1>4. s = [k \in 1 .. Len(s) |-> s[k]]
  OBVIOUS
<1> QED
  BY <1>1, <1>2, <1>3, <1>4

(* One segment of the walk.                                                  *)
LEMMA WalkFails ==
  ASSUME NEW at, NEW name, at \notin Tree \/ at \in InfoFiles
  PROVE  Walk(at, name) = Nowhere
  BY DEF Walk

LEMMA WalkRests ==
  ASSUME NEW at \in Tree, NEW name \in {"", "."}, at \notin InfoFiles
  PROVE  Walk(at, name) = at
  BY DEF Walk

LEMMA WalkUp ==
  ASSUME NEW at \in Tree, at \notin InfoFiles
  PROVE  Walk(at, "..") = IF at = <<>> THEN at ELSE Front(at)
  BY Zenon DEF Walk

LEMMA WalkDown ==
  ASSUME NEW at \in Tree, NEW name, name \notin {"", ".", ".."}, at \notin InfoFiles
  PROVE  Walk(at, name) = IF Append(at, name) \in Tree THEN Append(at, name) ELSE Nowhere
  BY DEF Walk

(* Below /proc/driver/nvidia every step leads to a place of the tree, or     *)
(* nowhere.                                                                  *)
LEMMA WalkStays ==
  ASSUME NEW at \in Places, NEW name
  PROVE  Walk(at, name) \in Places
<1>1. ASSUME at \in Tree, at \notin InfoFiles, at # <<>>
      PROVE  Front(at) \in Tree
  <2>1. CASE at = Gpus
    <3>1. Front(at) = <<>>
      BY <2>1 DEF Front, Gpus
    <3> QED
      BY <3>1 DEF Tree
  <2>2. ASSUME NEW b \in Buses, at = DirOf(b)
        PROVE  Front(at) \in Tree
    <3>1. Front(at) = Gpus
      <4>1. b \in Names
        BY DEF Names
      <4> QED
        BY <2>2, <4>1, TreeShape, FrontOfAppend DEF DirOf
    <3> QED
      BY <3>1 DEF Tree
  <2> QED
    BY <1>1, <2>1, <2>2 DEF Tree
<1>2. CASE at \notin Tree \/ at \in InfoFiles
  BY <1>2, WalkFails DEF Places
<1>3. CASE at \in Tree /\ at \notin InfoFiles
  BY <1>1, <1>3, WalkRests, WalkUp, WalkDown DEF Places
<1> QED
  BY <1>2, <1>3

(* The recursive definitions have a solution.                                *)
LEMMA WalkedIs ==
  ASSUME NEW tail \in Seq(Names)
  PROVE  /\ Walked(tail)[0] = Gpus
         /\ \A k \in 1 .. Len(tail) : Walked(tail)[k] = Walk(Walked(tail)[k - 1], tail[k])
<1>0. PICK n \in Nat : n = Len(tail)
  OBVIOUS
<1> DEFINE D(f) == [k \in 0 .. n |-> IF k = 0 THEN Gpus ELSE Walk(f[k - 1], tail[k])]
<1> PICK X : X = Places
  OBVIOUS
<1>1. PICK x0 \in X : x0 = Gpus
  BY DEF Places, Tree
<1>2. PICK step \in [X \X (1 .. n) -> X] :
        \A x \in X, k \in 1 .. n : step[<<x, k>>] = Walk(x, tail[k])
  <2> DEFINE st == [p \in X \X (1 .. n) |-> Walk(p[1], tail[p[2]])]
  <2>1. st \in [X \X (1 .. n) -> X]
    BY WalkStays
  <2>2. \A x \in X, k \in 1 .. n : st[<<x, k>>] = Walk(x, tail[k])
    OBVIOUS
  <2> HIDE DEF st
  <2> QED
    BY <2>1, <2>2
<1>3. PICK f : Runs(X, x0, n, step, f)
  BY Iterate
<1>4. /\ f \in [0 .. n -> X] /\ f[0] = x0
      /\ \A k \in 1 .. n : f[k] = step[<<f[k - 1], k>>]
  BY <1>3 DEF Runs
<1>5. f = D(f)
  <2>1. ASSUME NEW k \in 1 .. n
        PROVE  f[k] = Walk(f[k - 1], tail[k])
    <3>1. k - 1 \in 0 .. n
      OBVIOUS
    <3>2. f[k - 1] \in X
      BY <1>4, <3>1
    <3> QED
      BY <1>2, <1>4, <3>2
  <2>2. \A k \in 0 .. n : f[k] = IF k = 0 THEN Gpus ELSE Walk(f[k - 1], tail[k])
    BY <1>1, <1>4, <2>1
  <2> QED
    BY <1>4, <2>2
<1>6. Walked(tail) = D(Walked(tail))
  <2>1. Walked(tail) = CHOOSE g : g = D(g)
    BY <1>0 DEF Walked
  <2> HIDE DEF D
  <2> QED
    BY <1>5, <2>1
<1> QED
  BY <1>0, <1>6

LEMMA KeptNamesAre ==
  ASSUME NEW tail \in Seq(Names)
  PROVE  /\ KeptNames(tail)[0] = <<>>
         /\ \A k \in 1 .. Len(tail) :
              KeptNames(tail)[k] = IF tail[k] \in {"", "."} THEN KeptNames(tail)[k - 1]
                                   ELSE Append(KeptNames(tail)[k - 1], tail[k])
<1>0. PICK n \in Nat : n = Len(tail)
  OBVIOUS
<1> PICK X : X = Seq(Names)
  OBVIOUS
<1> DEFINE Add(names, s) == IF s \in {"", "."} THEN names ELSE Append(names, s)
           D(f) == [k \in 0 .. n |-> IF k = 0 THEN <<>>
                                     ELSE IF tail[k] \in {"", "."} THEN f[k - 1]
                                     ELSE Append(f[k - 1], tail[k])]
<1>1. PICK x0 \in X : x0 = <<>>
  <2> HIDE DEF Add, D
  <2>1. <<>> \in X
    OBVIOUS
  <2> QED
    BY <2>1
<1>2. PICK step \in [X \X (1 .. n) -> X] :
        \A names \in X, k \in 1 .. n : step[<<names, k>>] = Add(names, tail[k])
  <2> DEFINE st == [p \in X \X (1 .. n) |-> Add(p[1], tail[p[2]])]
  <2>1. ASSUME NEW names \in X, NEW k \in 1 .. n
        PROVE  Add(names, tail[k]) \in X
    <3>1. tail[k] \in Names
      BY <1>0
    <3> QED
      BY <3>1, AppendProperties
  <2> HIDE DEF Add
  <2>2. st \in [X \X (1 .. n) -> X]
    BY <2>1
  <2>3. \A names \in X, k \in 1 .. n : st[<<names, k>>] = Add(names, tail[k])
    OBVIOUS
  <2> HIDE DEF st
  <2> QED
    BY <2>2, <2>3
<1>3. PICK f : Runs(X, x0, n, step, f)
  BY Iterate
<1>4. /\ f \in [0 .. n -> X] /\ f[0] = x0
      /\ \A k \in 1 .. n : f[k] = step[<<f[k - 1], k>>]
  BY <1>3 DEF Runs
<1>5. f = D(f)
  <2>1. ASSUME NEW k \in 1 .. n
        PROVE  f[k] = Add(f[k - 1], tail[k])
    <3>1. k - 1 \in 0 .. n
      OBVIOUS
    <3>2. f[k - 1] \in X
      BY <1>4, <3>1
    <3> HIDE DEF Add
    <3> QED
      BY <1>2, <1>4, <3>2
  <2>2. \A k \in 0 .. n : f[k] = IF k = 0 THEN <<>>
                                  ELSE IF tail[k] \in {"", "."} THEN f[k - 1]
                                  ELSE Append(f[k - 1], tail[k])
    <3> SUFFICES ASSUME NEW k \in 0 .. n
                 PROVE  f[k] = IF k = 0 THEN <<>>
                               ELSE IF tail[k] \in {"", "."} THEN f[k - 1]
                               ELSE Append(f[k - 1], tail[k])
      OBVIOUS
    <3>1. CASE k = 0
      BY <1>1, <1>4, <3>1
    <3>2. CASE k # 0
      <4>1. k \in 1 .. n
        BY <3>2
      <4> QED
        BY <2>1, <3>2, <4>1
    <3> QED
      BY <3>1, <3>2
  <2> QED
    BY <1>4, <2>2
<1>6. KeptNames(tail) = D(KeptNames(tail))
  <2>1. KeptNames(tail) = CHOOSE g : g = D(g)
    BY <1>0 DEF KeptNames
  <2> HIDE DEF D
  <2> QED
    BY <1>5, <2>1
<1>7. PICK g : g = KeptNames(tail)
  OBVIOUS
<1>8. g = [k \in 0 .. n |-> IF k = 0 THEN <<>>
                            ELSE IF tail[k] \in {"", "."} THEN g[k - 1]
                            ELSE Append(g[k - 1], tail[k])]
  BY <1>6, <1>7
<1>9. g[0] = <<>>
  <2>1. 0 \in 0 .. n
    OBVIOUS
  <2> QED
    BY <1>8, <2>1
<1>10. ASSUME NEW k \in 1 .. n
       PROVE  g[k] = IF tail[k] \in {"", "."} THEN g[k - 1] ELSE Append(g[k - 1], tail[k])
  <2>1. k \in 0 .. n /\ k # 0
    OBVIOUS
  <2> QED
    BY <1>8, <2>1
<1> HIDE DEF D, Add
<1> QED
  BY <1>0, <1>7, <1>9, <1>10

LEMMA Singleton ==
  ASSUME NEW S, NEW x \in S
  PROVE  <<x>> \in Seq(S)
  OBVIOUS

(* A name appended to the names below the gpus directory.                    *)
LEMMA BelowGpus ==
  ASSUME NEW K \in Seq(Names), NEW s \in Names
  PROVE  /\ Gpus \o K \in Seq(Names)
         /\ Append(Gpus \o K, s) = Gpus \o Append(K, s)
<1>1. PICK g \in Seq(Names) : g = Gpus
  BY TreeShape
<1>2. g \o K \in Seq(Names)
  BY ConcatProperties
<1>3. Append(K, s) \in Seq(Names) /\ g \o Append(K, s) \in Seq(Names)
  BY AppendProperties, ConcatProperties
<1>4. /\ Append(g \o K, s) = (g \o K) \o <<s>>
      /\ Append(K, s) = K \o <<s>>
  BY <1>2, AppendIsConcat
<1>5. PICK t \in Seq(Names) : t = <<s>>
  BY Singleton
<1>6. (g \o K) \o t = g \o (K \o t)
  BY ConcatAssociative
<1> QED
  BY <1>1, <1>2, <1>4, <1>5, <1>6

(* Names without "..": the walk reaches the place of the kept names or none. *)
LEMMA OneSegment ==
  ASSUME NEW K \in Seq(Names), NEW s \in Names, s # "..",
         NEW at, at \in {Nowhere, Gpus \o K}
  PROVE  Walk(at, s) \in {Nowhere, Gpus \o (IF s \in {"", "."} THEN K ELSE Append(K, s))}
<1>1. CASE at \notin Tree \/ at \in InfoFiles
  BY <1>1, WalkFails
<1>2. CASE at \in Tree /\ at \notin InfoFiles
  <2>1. at = Gpus \o K
    BY <1>2, TreeShape
  <2>2. CASE s \in {"", "."}
    BY <1>2, <2>1, <2>2, WalkRests
  <2>3. CASE s \notin {"", "."}
    <3>1. Walk(at, s) \in {Nowhere, Append(at, s)}
      BY <1>2, <2>3, WalkDown
    <3>2. Append(at, s) = Gpus \o Append(K, s)
      BY <2>1, BelowGpus
    <3> QED
      BY <2>3, <3>1, <3>2
  <2> QED
    BY <2>2, <2>3
<1> QED
  BY <1>1, <1>2

Has(K, name) == \E i \in 1 .. Len(K) : K[i] = name

(* A name appended is had, and none is lost.                                 *)
LEMMA AppendHas ==
  ASSUME NEW K \in Seq(Names), NEW s \in Names
  PROVE  /\ Append(K, s) \in Seq(Names)
         /\ \A name : Has(K, name) => Has(Append(K, s), name)
         /\ Has(Append(K, s), s)
<1>1. PICK A : A = Append(K, s)
  OBVIOUS
<1>2. PICK m \in Nat : m = Len(K)
  BY LenProperties
<1>3. /\ A \in Seq(Names) /\ Len(A) = m + 1
      /\ \A i \in 1 .. m : A[i] = K[i]
      /\ A[m + 1] = s
  BY <1>1, <1>2, AppendTells
<1>4. m + 1 \in 1 .. m + 1 /\ \A i \in 1 .. m : i \in 1 .. m + 1
  OBVIOUS
<1>5. Has(A, s)
  BY <1>3, <1>4 DEF Has
<1>6. \A name : Has(K, name) => Has(A, name)
  BY <1>2, <1>3, <1>4 DEF Has
<1> QED
  BY <1>1, <1>3, <1>5, <1>6

(* The names the loop keeps: no name but "" and "." is lost, and without     *)
(* ".." they lead where the walk over the whole path leads, if it leads      *)
(* anywhere.                                                                 *)
LEMMA LoopFollowsWalk ==
  ASSUME NEW tail \in Seq(Names), \A k \in 1 .. Len(tail) : tail[k] # ".."
  PROVE  LET K == KeptNames(tail)[Len(tail)]
         IN  /\ K \in Seq(Names)
             /\ \A k \in 1 .. Len(tail) : tail[k] \notin {"", "."} => Has(K, tail[k])
             /\ Walked(tail)[Len(tail)] \in {Nowhere, Gpus \o K} \cap Places
<1>0. PICK n \in Nat : n = Len(tail)
  OBVIOUS
<1>1. PICK W : /\ W = Walked(tail) /\ W[0] = Gpus
               /\ \A k \in 1 .. n : W[k] = Walk(W[k - 1], tail[k])
  BY <1>0, WalkedIs
<1>2. PICK N : /\ N = KeptNames(tail) /\ N[0] = <<>>
               /\ \A k \in 1 .. n : N[k] = IF tail[k] \in {"", "."} THEN N[k - 1]
                                            ELSE Append(N[k - 1], tail[k])
  BY <1>0, KeptNamesAre
<1>3. PICK t : t = tail /\ \A k \in 1 .. n : t[k] \in Names /\ t[k] # ".."
  BY <1>0
<1> DEFINE All(K, m) == \A k \in 1 .. m : t[k] \notin {"", "."} => Has(K, t[k])
           Good(m) == /\ N[m] \in Seq(Names) /\ All(N[m], m)
                      /\ W[m] \in {Nowhere, Gpus \o N[m]} \cap Places
           S == {m \in Nat : m <= n => Good(m)}
<1>4. 0 \in S
  <2>1. <<>> \in Seq(Names) /\ 1 .. 0 = {}
    OBVIOUS
  <2>2. Gpus \o <<>> = Gpus
    BY TreeShape, ConcatEmptySeq
  <2>3. Gpus \in Places
    BY DEF Places, Tree
  <2> QED
    BY <1>1, <1>2, <2>1, <2>2, <2>3
<1>5. ASSUME NEW m \in Nat, m + 1 <= n, Good(m)
      PROVE  Good(m + 1)
  <2>1. m + 1 \in 1 .. n /\ (m + 1) - 1 = m
    <3> HIDE DEF Good
    <3>1. m + 1 <= n
      BY <1>5
    <3> QED
      BY <3>1
  <2>2. PICK s \in Names : s = t[m + 1] /\ s # ".."
    BY <1>3, <2>1
  <2>3. PICK K \in Seq(Names) : K = N[m]
    BY <1>5
  <2>4. PICK L : L = N[m + 1] /\ L = IF s \in {"", "."} THEN K ELSE Append(K, s)
    BY <1>2, <1>3, <2>1, <2>2, <2>3
  <2>5. /\ L \in Seq(Names)
        /\ \A name : Has(K, name) => Has(L, name)
        /\ s \notin {"", "."} => Has(L, s)
    BY <2>4, AppendHas
  <2>6. W[m + 1] = Walk(W[m], s)
    BY <1>1, <1>3, <2>1, <2>2
  <2>7. W[m] \in {Nowhere, Gpus \o K} /\ W[m] \in Places
    BY <1>5, <2>3
  <2>8. W[m + 1] \in {Nowhere, Gpus \o L} /\ W[m + 1] \in Places
    <3>1. PICK at : at = W[m]
      OBVIOUS
    <3>2. Walk(at, s) \in {Nowhere, Gpus \o L}
      BY <2>2, <2>4, <2>7, <3>1, OneSegment
    <3>3. Walk(at, s) \in Places
      BY <2>7, <3>1, WalkStays
    <3> QED
      BY <2>6, <3>1, <3>2, <3>3
  <2>9. ASSUME NEW k \in 1 .. m + 1, t[k] \notin {"", "."}
        PROVE  Has(L, t[k])
    <3>1. CASE k = m + 1
      BY <2>2, <2>5, <2>9, <3>1
    <3>2. CASE k # m + 1
      <4>1. k \in 1 .. m
        BY <3>2
      <4>2. Has(K, t[k])
        BY <1>5, <2>3, <2>9, <4>1
      <4> QED
        BY <2>5, <4>2
    <3> QED
      BY <3>1, <3>2
  <2> QED
    BY <2>4, <2>5, <2>8, <2>9
<1>6. n \in S
  <2>1. \A m \in Nat : m \in S => m + 1 \in S
    <3> HIDE DEF Good
    <3> QED
      BY <1>5
  <2> HIDE DEF S
  <2> QED
    BY <1>4, <2>1, SetInduction
<1>7. Good(n)
  <2> HIDE DEF Good
  <2> QED
    BY <1>6
<1> QED
  BY <1>0, <1>1, <1>2, <1>3, <1>7

-----------------------------------------------------------------------------
(* What the judged path says of the place the call reaches. *)

(* A place of the tree is told by its length.                                *)
LEMMA TreeByLength ==
  ASSUME NEW at \in Tree
  PROVE  /\ Len(at) = 1 => at = Gpus
         /\ Len(at) = 2 => \E b \in Buses : at = DirOf(b)
         /\ Len(at) = 3 => \E b \in Buses : at = InfoOf(b)
<1>1. Len(<<>>) = 0
  OBVIOUS
<1> QED
  BY <1>1, TreeShape DEF Tree, InfoFiles

(* Below the gpus directory there are the GPUs, and nothing at its side.     *)
LEMMA Children ==
  ASSUME NEW s \in Names
  PROVE  /\ Append(Gpus, s) \in Tree => s \in Buses /\ Append(Gpus, s) = DirOf(s)
         /\ Append(<<>>, s) \in Tree => s = "gpus"
<1>1. ASSUME Append(Gpus, s) \in Tree
      PROVE  s \in Buses /\ Append(Gpus, s) = DirOf(s)
  <2>1. PICK g \in Seq(Names) : g = Gpus /\ Len(g) = 1
    BY TreeShape
  <2>2. PICK A : A = Append(g, s)
    OBVIOUS
  <2>3. Len(A) = 2 /\ A[2] = s
    <3>1. Len(A) = Len(g) + 1 /\ A[Len(g) + 1] = s
      BY <2>2, AppendTells
    <3> QED
      BY <2>1, <3>1
  <2>4. PICK b \in Buses : A = DirOf(b)
    BY <1>1, <2>1, <2>2, <2>3, TreeByLength
  <2>5. A[2] = b
    BY <2>4, TreeShape
  <2> QED
    BY <2>1, <2>2, <2>3, <2>4, <2>5
<1>2. ASSUME Append(<<>>, s) \in Tree
      PROVE  s = "gpus"
  <2>1. PICK e \in Seq(Names) : e = <<>> /\ Len(e) = 0
    BY EmptySeq
  <2>2. PICK A : A = Append(e, s)
    OBVIOUS
  <2>3. Len(A) = 1 /\ A[1] = s
    BY <2>1, <2>2, AppendTells
  <2>4. A = Gpus
    BY <1>2, <2>1, <2>2, <2>3, TreeByLength
  <2> QED
    BY <2>3, <2>4, TreeShape
<1> QED
  BY <1>1, <1>2

LEMMA InformationIsName == "information" \in Names \ Buses
  BY PathsAssumption DEF Names

LEMMA PairNames ==
  ASSUME NEW tail \in Seq(Names), Len(tail) = 2
  PROVE  tail[1] \in Names /\ tail[2] \in Names
  BY ElementOfSeq

(* gpus/<name>/information as it is written, and where it leads.             *)
LEMMA AsWritten ==
  ASSUME NEW tail \in Seq(Names), Len(tail) = 2, tail[2] = "information",
         Walked(tail)[2] # Nowhere
  PROVE  tail[1] \in Buses /\ Walked(tail)[2] = InfoOf(tail[1])
<1> DEFINE name == tail[1]
<1>1. name \in Names
  BY PairNames
<1>2. PICK at : at = Walk(Gpus, name) /\ Walked(tail)[2] = Walk(at, "information")
  <2>1. 1 \in 1 .. 2 /\ 2 \in 1 .. 2 /\ 1 - 1 = 0 /\ 2 - 1 = 1
    OBVIOUS
  <2> QED
    BY <2>1, WalkedIs
<1> HIDE DEF name
<1>3. Gpus \in Tree /\ Gpus \notin InfoFiles /\ <<>> \in Tree /\ <<>> \notin InfoFiles
  BY NotInfo DEF Tree
<1>4. Append(Gpus, name) \in Tree => name \in Buses /\ Append(Gpus, name) = DirOf(name)
  BY <1>1, Children
<1>5. at \in {Nowhere, Gpus, <<>>} \/ (name \in Buses /\ at = DirOf(name))
  <2>1. CASE name = ".."
    <3>1. Front(Gpus) = <<>>
      BY DEF Front, Gpus
    <3> QED
      BY <1>2, <1>3, <2>1, <3>1, WalkUp
  <2>2. CASE name \in {"", "."}
    BY <1>2, <1>3, <2>2, WalkRests
  <2>3. CASE name \notin {"", ".", ".."}
    BY <1>2, <1>3, <1>4, <2>3, WalkDown
  <2> QED
    BY <2>1, <2>2, <2>3
<1>6. Walk(Nowhere, "information") = Nowhere
  BY TreeShape, WalkFails
<1>7. Walk(<<>>, "information") = Nowhere
  <2>1. Append(<<>>, "information") \notin Tree
    BY InformationIsName, Children
  <2> QED
    BY <1>3, <2>1, WalkDown
<1>8. Walk(Gpus, "information") = Nowhere
  <2>1. Append(Gpus, "information") \notin Tree
    BY InformationIsName, Children
  <2> QED
    BY <1>3, <2>1, WalkDown
<1>9. ASSUME name \in Buses
      PROVE  Walk(DirOf(name), "information") \in {Nowhere, InfoOf(name)}
  <2>1. DirOf(name) \in Tree /\ DirOf(name) \notin InfoFiles
    BY <1>9, NotInfo DEF Tree
  <2> QED
    BY <2>1, WalkDown DEF InfoOf
<1>10. Walked(tail)[2] # Nowhere
  OBVIOUS
<1> QED
  BY <1>2, <1>5, <1>6, <1>7, <1>8, <1>9, <1>10 DEF name

(* The names below the gpus directory that make an information file.         *)
LEMMA NamesOfInfo ==
  ASSUME NEW K \in Seq(Names)
  PROVE  /\ Gpus \o K \in Tree /\ Len(K) = 2 => K[1] \in Buses /\ Gpus \o K = InfoOf(K[1])
         /\ \A b \in Buses : Gpus \o K = InfoOf(b) =>
              Len(K) = 2 /\ K[1] = b /\ K[2] = "information"
<1>1. PICK g \in Seq(Names) : g = Gpus /\ Len(g) = 1
  BY TreeShape
<1>2. Len(K) \in Nat
  BY LenProperties
<1>3. PICK L : L = g \o K
  OBVIOUS
<1>4. Len(L) = Len(g) + Len(K) /\ \A i \in 1 .. Len(g) + Len(K) :
        L[i] = IF i <= Len(g) THEN g[i] ELSE K[i - Len(g)]
  BY <1>3, ConcatProperties
<1>5. PICK m \in Nat : m = Len(K)
  BY <1>2
<1>6. Len(L) = 1 + m
  BY <1>1, <1>4, <1>5
<1>7. \A i \in 1 .. 1 + m : L[i] = IF i <= 1 THEN g[i] ELSE K[i - 1]
  BY <1>1, <1>4, <1>5
<1>8. ASSUME m = 2
      PROVE  Len(L) = 3 /\ L[2] = K[1] /\ L[3] = K[2]
  <2>1. 2 \in 1 .. 1 + m /\ 3 \in 1 .. 1 + m /\ ~(2 <= 1) /\ ~(3 <= 1)
    BY <1>8
  <2>2. 2 - 1 = 1 /\ 3 - 1 = 2 /\ 1 + m = 3
    BY <1>8
  <2> QED
    BY <1>6, <1>7, <2>1, <2>2
<1>9. Len(L) = 3 => m = 2
  <2>1. 1 + m = 3 => m = 2
    OBVIOUS
  <2> QED
    BY <1>6, <2>1
<1>10. ASSUME L \in Tree, Len(K) = 2
       PROVE  K[1] \in Buses /\ L = InfoOf(K[1])
  <2>1. Len(L) = 3 /\ L[2] = K[1]
    BY <1>5, <1>8, <1>10
  <2>2. PICK b \in Buses : L = InfoOf(b)
    BY <1>10, <2>1, TreeByLength
  <2>3. L[2] = b
    BY <2>2, TreeShape
  <2> QED
    BY <2>1, <2>2, <2>3
<1>11. ASSUME NEW b \in Buses, L = InfoOf(b)
       PROVE  Len(K) = 2 /\ K[1] = b /\ K[2] = "information"
  <2>1. Len(L) = 3 /\ L[2] = b /\ L[3] = "information"
    BY <1>11, TreeShape
  <2> QED
    BY <1>5, <1>8, <1>9, <2>1
<1> QED
  BY <1>1, <1>3, <1>10, <1>11

(* A path has the form .../gpus/<bus>/information with a bus that fits.       *)
IsInfo(p, bus) ==
  /\ p.base = "gpus" /\ Len(p.tail) = 2 /\ p.tail[2] = "information"
  /\ p.tail[1] = bus /\ bus \notin {"", Long, Oversized}

LEMMA Recognised ==
  ASSUME NEW p
  PROVE  /\ \A bus : IsInfo(p, bus) => /\ ExtractBus(p) = bus
                                      /\ Classify(p) = [kind |-> "info", bus |-> bus]
         /\ ExtractBus(p) # "" => IsInfo(p, ExtractBus(p))
         /\ Classify(p).kind = "info" => IsInfo(p, Classify(p).bus)
         /\ Classify(p).kind = "dir" => p = [base |-> "gpus", tail |-> <<>>]
<1>1. ASSUME NEW bus, IsInfo(p, bus)
      PROVE  ExtractBus(p) = bus
  BY <1>1 DEF IsInfo, ExtractBus
<1> DEFINE Dir == [base |-> "gpus", tail |-> <<>>]
           DirRecord == [kind |-> "dir", bus |-> ""]
           InfoRecord(bus) == [kind |-> "info", bus |-> bus]
           info == IsInfo(p, p.tail[1])
<1>2. Dir.base = "gpus" /\ Len(Dir.tail) = 0
  OBVIOUS
<1>3. Classify(p) = CASE p = Dir -> DirRecord
                      [] info    -> InfoRecord(p.tail[1])
                      [] OTHER   -> Other
  BY Zenon DEF Classify, IsInfo
<1>4. /\ DirRecord.kind = "dir" /\ Other.kind = "other"
      /\ \A bus : InfoRecord(bus).kind = "info" /\ InfoRecord(bus).bus = bus
  BY DEF Other
<1>5. ~(p = Dir /\ info)
  <2>1. info => Len(p.tail) = 2
    BY DEF IsInfo
  <2> HIDE DEF Dir, info
  <2>2. p = Dir => Len(p.tail) = 0
    BY <1>2
  <2> QED
    BY <2>1, <2>2
<1>6. \A bus : IsInfo(p, bus) => info /\ bus = p.tail[1]
  BY DEF IsInfo
<1>7. ExtractBus(p) # "" => IsInfo(p, ExtractBus(p))
  BY DEF IsInfo, ExtractBus
<1> HIDE DEF Dir, DirRecord, InfoRecord, info
<1>8. info => Classify(p) = InfoRecord(p.tail[1])
  BY <1>3, <1>5
<1>9. p = Dir => Classify(p) = DirRecord
  BY <1>3, <1>5
<1>10. p # Dir /\ ~info => Classify(p) = Other
  BY <1>3
<1>11. Classify(p).kind = "info" => info /\ Classify(p).bus = p.tail[1]
  BY <1>4, <1>8, <1>9, <1>10
<1>12. Classify(p).kind = "dir" => p = Dir
  BY <1>4, <1>8, <1>9, <1>10
<1>13. \A bus : IsInfo(p, bus) => Classify(p) = InfoRecord(bus)
  BY <1>6, <1>8
<1> QED
  BY <1>1, <1>7, <1>11, <1>12, <1>13 DEF Dir, InfoRecord, info

LEMMA PathsAreSequences ==
  ASSUME NEW p \in Paths
  PROVE  p.base \in {"gpus", "alias", "relative"} /\ p.tail \in Seq(Names)
<1>1. p.base \in {"gpus", "alias", "relative"} /\ p.tail \in Tails
  BY DEF Paths
<1>2. PICK n \in 0 .. MaxSegs : p.tail \in [1 .. n -> Names]
  BY <1>1 DEF Tails
<1> QED
  BY <1>1, <1>2

(* A normal form exists only of a path without "..", and has its kept names. *)
LEMMA NormalForm ==
  ASSUME NEW tail \in Seq(Names)
  PROVE  LET K == KeptNames(tail)[Len(tail)]
         IN  /\ Normalize(tail) # NoPath =>
                  /\ Normalize(tail) = [base |-> "gpus", tail |-> K] /\ K # <<>>
                  /\ \A k \in 1 .. Len(tail) : tail[k] # ".."
             /\ Normalize(tail) = NoPath => \/ {"..", Oversized} \cap Range(tail) # {}
                                           \/ K = <<>>
<1>1. PICK K : K = KeptNames(tail)[Len(tail)]
  OBVIOUS
<1>2. [base |-> "gpus", tail |-> K] # NoPath
  <2>1. [base |-> "gpus", tail |-> K].base = "gpus" /\ NoPath.base = "none"
    BY DEF NoPath
  <2> QED
    BY <2>1
<1>3. DOMAIN tail = 1 .. Len(tail)
  BY LenProperties
<1>4. Normalize(tail) = IF {"..", Oversized} \cap Range(tail) # {} \/ K = <<>> THEN NoPath
                        ELSE [base |-> "gpus", tail |-> K]
  BY <1>1 DEF Normalize
<1>5. ".." \notin Range(tail) => \A k \in 1 .. Len(tail) : tail[k] # ".."
  BY <1>3 DEF Range
<1> QED
  BY <1>1, <1>2, <1>4, <1>5

(* When a judged path names an information file, the call reaches that file  *)
(* or nothing: the judged path and the real one lead to the same place.      *)
LEMMA JudgedIsReached ==
  ASSUME path \in Paths, NEW bus, IsInfo(Effective, bus), Target # Nowhere
  PROVE  bus \in Buses /\ Target = InfoOf(bus)
<1>1. PICK p : p = path /\ p.base \in {"gpus", "alias", "relative"} /\ p.tail \in Seq(Names)
  BY PathsAreSequences
<1>2. PICK tail \in Seq(Names) : tail = p.tail
  BY <1>1
<1>3. CASE Effective = path
  <2>1. /\ p.base = "gpus" /\ Len(tail) = 2 /\ tail[2] = "information" /\ tail[1] = bus
    BY <1>1, <1>2, <1>3 DEF IsInfo
  <2>2. Target = Walked(tail)[2]
    BY <1>1, <1>2, <2>1 DEF Target
  <2> QED
    BY <2>1, <2>2, AsWritten
<1>4. CASE Effective # path
  <2>1. /\ p.base = "relative" /\ dirfd = "tracked"
        /\ Effective = Normalize(tail) /\ Normalize(tail) # NoPath
    BY <1>1, <1>2, <1>4 DEF Effective
  <2>2. PICK K : K = KeptNames(tail)[Len(tail)]
    OBVIOUS
  <2>3. /\ Effective = [base |-> "gpus", tail |-> K]
        /\ \A k \in 1 .. Len(tail) : tail[k] # ".."
    BY <2>1, <2>2, NormalForm
  <2>4. Len(K) = 2 /\ K[1] = bus
    BY <2>3 DEF IsInfo
  <2>5. Target = Walked(tail)[Len(tail)]
    BY <1>1, <1>2, <2>1 DEF Target
  <2>6. K \in Seq(Names) /\ Target \in {Nowhere, Gpus \o K} /\ Target \in Places
    BY <2>2, <2>3, <2>5, LoopFollowsWalk
  <2>7. Target = Gpus \o K /\ Gpus \o K \in Tree
    BY <2>6 DEF Places
  <2> QED
    BY <2>4, <2>6, <2>7, NamesOfInfo
<1> QED
  BY <1>3, <1>4

(* A denied path names the file of a GPU that is not shown, or nothing.      *)
LEMMA DeniedIsHidden ==
  ASSUME path \in Paths, Denied
  PROVE  Target \in HiddenFiles \cup {Nowhere}
<1>1. PICK bus : bus = ExtractBus(Effective) /\ bus # "" /\ bus \notin ShownBuses
  BY DEF Denied, PathDenied
<1>2. IsInfo(Effective, bus)
  BY <1>1, Recognised
<1>3. Target # Nowhere => bus \in Buses /\ Target = InfoOf(bus)
  BY <1>2, JudgedIsReached
<1> QED
  BY <1>1, <1>3 DEF HiddenFiles

(* Below a recorded gpus directory a hidden file is denied however it is     *)
(* spelled without "..".                                                     *)
LEMMA HiddenIsDenied ==
  ASSUME path \in Paths, op \in {"openat", "newfstatat"}, path.base = "relative",
         dirfd = "tracked", ".." \notin Range(path.tail), Target \in HiddenFiles
  PROVE  Denied
<1>1. PICK tail \in Seq(Names) : tail = path.tail
  BY PathsAreSequences
<1>2. PICK K : K = KeptNames(tail)[Len(tail)]
  OBVIOUS
<1>3. PICK b \in Buses \ ShownBuses : Target = InfoOf(b)
  BY DEF HiddenFiles
<1>4. DOMAIN tail = 1 .. Len(tail)
  BY LenProperties
<1>5. \A k \in 1 .. Len(tail) : tail[k] # ".."
  BY <1>1, <1>4 DEF Range
<1>6. Target = Walked(tail)[Len(tail)]
  BY <1>1 DEF Target
<1>7. /\ K \in Seq(Names) /\ Target \in {Nowhere, Gpus \o K}
      /\ \A k \in 1 .. Len(tail) : tail[k] \notin {"", "."} => Has(K, tail[k])
  BY <1>2, <1>5, <1>6, LoopFollowsWalk
<1>8. InfoOf(b) # Nowhere
  <2>1. InfoOf(b) \in Tree
    BY DEF Tree, InfoFiles
  <2> QED
    BY <2>1, TreeShape
<1>9. Len(K) = 2 /\ K[1] = b /\ K[2] = "information"
  <2>1. Gpus \o K = InfoOf(b)
    BY <1>3, <1>7, <1>8
  <2> QED
    BY <1>7, <2>1, NamesOfInfo
<1>10. b \notin {"", ".", "..", "information", Long, Oversized}
       /\ Oversized \notin {"", ".", "information"}
  BY PathsAssumption
<1>11. Oversized \notin Range(tail)
  <2> SUFFICES ASSUME NEW k \in 1 .. Len(tail), tail[k] = Oversized
               PROVE  FALSE
    BY <1>4 DEF Range
  <2>1. Has(K, tail[k])
    <3>1. tail[k] \notin {"", "."}
      BY <1>10
    <3> QED
      BY <1>7, <3>1
  <2>2. PICK i \in 1 .. 2 : K[i] = Oversized
    BY <1>9, <2>1 DEF Has
  <2>3. i = 1 \/ i = 2
    OBVIOUS
  <2> QED
    BY <1>9, <1>10, <2>2, <2>3
<1>12. K # <<>>
  <2>1. Len(<<>>) # 2
    OBVIOUS
  <2> QED
    BY Zenon, <1>9, <2>1
<1>13. Normalize(tail) # NoPath
  <2>1. {"..", Oversized} \cap Range(tail) = {}
    BY <1>1, <1>11
  <2> QED
    BY <1>2, <1>12, <2>1, NormalForm
<1>14. Effective = [base |-> "gpus", tail |-> K]
  <2>1. Normalize(tail) = [base |-> "gpus", tail |-> K]
    BY <1>2, <1>13, NormalForm
  <2> QED
    BY <1>1, <1>13, <2>1 DEF Effective
<1>15. IsInfo(Effective, b)
  BY <1>9, <1>10, <1>14 DEF IsInfo
<1>16. ExtractBus(Effective) = b
  BY <1>15, Recognised
<1> QED
  BY <1>3, <1>10, <1>14, <1>16 DEF Denied, PathDenied

-----------------------------------------------------------------------------
(* The inductive invariant: what has been answered follows from the judged   *)
(* path, and what has been recorded from it and from the place reached.      *)
AnswerInv ==
  /\ path \in Paths
  /\ result # "none" => (result = "denied" <=> Denied)
  /\ record = Other \/ (record = Classify(Effective) /\ Target # Nowhere)

LEMMA AnswerInvHolds == Spec => []AnswerInv
<1>1. Init => AnswerInv
  BY DEF Init, AnswerInv
<1>2. AnswerInv /\ [Next]_vars => AnswerInv'
  <2> SUFFICES ASSUME AnswerInv, [Next]_vars
               PROVE  AnswerInv'
    OBVIOUS
  <2>1. UNCHANGED <<op, dirfd, path>>
    BY DEF Next, Deny, Real, vars
  <2>2. Effective' = Effective
    BY <2>1 DEF Effective
  <2>3. Denied' = Denied
    BY <2>2 DEF Denied
  <2>4. Target' = Target
    BY <2>1 DEF Target
  <2>5. CASE Deny
    BY <2>1, <2>2, <2>3, <2>4, <2>5 DEF AnswerInv, Deny
  <2>6. CASE Real
    <3>1. (result' = "denied" <=> Denied')
      BY <2>3, <2>6 DEF Real
    <3>2. record' = Other \/ (record' = Classify(Effective') /\ Target' # Nowhere)
      BY <2>2, <2>4, <2>6 DEF AnswerInv, Real
    <3> QED
      BY <2>1, <3>1, <3>2 DEF AnswerInv
  <2>7. CASE UNCHANGED vars
    BY <2>1, <2>2, <2>3, <2>4, <2>7 DEF AnswerInv, vars
  <2> QED
    BY <2>5, <2>6, <2>7 DEF Next
<1> QED
  BY <1>1, <1>2, PTL DEF Spec

(* nvfix_proc_denied answers ENOENT only for the information file of a GPU   *)
(* that is not shown, or for a path that leads nowhere, whatever the length  *)
(* and the spelling of the path.                                             *)
THEOREM OnlyHiddenDenied == Spec => []DeniedAreHidden
<1>1. AnswerInv => DeniedAreHidden
  BY DeniedIsHidden DEF AnswerInv, DeniedAreHidden
<1> QED
  BY <1>1, AnswerInvHolds, PTL

(* Below a recorded gpus directory no spelling without ".." of a hidden      *)
(* GPU's file gets past nvfix_normalize_relative_path.                       *)
THEOREM EverySpellingDenied == Spec => []SpellingIrrelevant
<1>1. AnswerInv => SpellingIrrelevant
  BY HiddenIsDenied DEF AnswerInv, SpellingIrrelevant
<1> QED
  BY <1>1, AnswerInvHolds, PTL

(* nvfix_proc_fd_track records the file that the kernel opened, though it is *)
(* given the judged path, and both copies of the recognition see the same.   *)
THEOREM RecordsTellTheFile == Spec => []RecordNamesFile
<1>1. ASSUME AnswerInv
      PROVE  RecordNamesFile
  <2>1. path \in Paths
    BY <1>1 DEF AnswerInv
  <2>2. Other.kind = "other"
    BY DEF Other
  <2>3. ASSUME record.kind = "dir"
        PROVE  Target = Gpus
    <3>1. Effective = [base |-> "gpus", tail |-> <<>>]
      BY <1>1, <2>2, <2>3, Recognised DEF AnswerInv
    <3>2. Effective = path
      <4> SUFFICES ASSUME Effective # path
                   PROVE  FALSE
        OBVIOUS
      <4>1. Effective = Normalize(path.tail) /\ Normalize(path.tail) # NoPath
        BY DEF Effective
      <4>2. Effective.tail # <<>>
        BY <2>1, <4>1, PathsAreSequences, NormalForm
      <4> QED
        BY <3>1, <4>2
    <3>3. path.base = "gpus" /\ path.tail = <<>> /\ Len(<<>>) = 0
      BY <3>1, <3>2
    <3>4. Target = Walked(<<>>)[0]
      BY <3>3 DEF Target
    <3>5. <<>> \in Seq(Names)
      OBVIOUS
    <3> QED
      BY <3>4, <3>5, WalkedIs
  <2>4. ASSUME record.kind = "info"
        PROVE  Target = InfoOf(record.bus) /\ ExtractBus(Effective) = record.bus
    <3>1. record = Classify(Effective) /\ Target # Nowhere
      BY <1>1, <2>2, <2>4 DEF AnswerInv
    <3>2. IsInfo(Effective, record.bus)
      BY <2>4, <3>1, Recognised
    <3> QED
      BY <2>1, <3>1, <3>2, JudgedIsReached, Recognised
  <2> QED
    BY <2>3, <2>4 DEF RecordNamesFile
<1> QED
  BY <1>1, AnswerInvHolds, PTL
=============================================================================
