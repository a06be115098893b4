------------------------------ MODULE MnRuProofs ------------------------------
(***************************************************************************)
(* What the graph repair does to a graph, for any nodes, lists, positions  *)
(* and degree cap.                                                         *)
(***************************************************************************)
EXTENDS MnRu, FiniteSetTheorems, WellFoundedInduction, TLAPS

-----------------------------------------------------------------------------
(* Loops.  A loop of the code is a recursive function of the number of      *)
(* rounds; these lemmas say that there is such a function and what holds   *)
(* after every round.                                                      *)

LEMMA SetInduction ==
    ASSUME NEW S, 0 \in S, \A k \in Nat : k \in S => k + 1 \in S
    PROVE  \A k \in Nat : k \in S
<1> SUFFICES ASSUME NEW b \in Nat, b \notin S PROVE FALSE
  OBVIOUS
<1> DEFINE Out == {k \in Nat : k \notin S}
<1>1. PICK x \in Out : \A y \in Out : ~(<<y, x>> \in OpToRel(<, Nat))
  <2>1. Out \subseteq Nat /\ Out # {}
    OBVIOUS
  <2> HIDE DEF Out
  <2> QED BY <2>1, NatLessThanWellFounded, WFMin
<1>2. x \in Nat /\ x # 0 /\ x - 1 \in Nat /\ x - 1 < x /\ (x - 1) + 1 = x
  OBVIOUS
<1>3. x - 1 \notin Out
  BY <1>1, <1>2 DEF OpToRel
<1> QED BY <1>2, <1>3

\* The states before and after each round, when round k takes a state of
\* Z[k - 1] to one of Z[k].
Loop(n, X, Z, base, h) ==
    /\ n \in Nat /\ Z \in [0 .. n -> SUBSET X] /\ base \in Z[0]
    /\ \A k \in 1 .. n : \A x \in Z[k - 1] : h[<<x, k>>] \in Z[k]

LEMMA LoopRuns ==
    ASSUME NEW n, NEW X, NEW Z, NEW base, NEW h, Loop(n, X, Z, base, h)
    PROVE  \E f \in [0 .. n -> X] :
               /\ f[0] = base
               /\ \A k \in 1 .. n : f[k] = h[<<f[k - 1], k>>]
               /\ \A k \in 0 .. n : f[k] \in Z[k]
<1> USE DEF Loop
<1> DEFINE Run(m, f) == /\ f[0] = base
                        /\ \A k \in 1 .. m : f[k] = h[<<f[k - 1], k>>]
                        /\ \A k \in 0 .. m : f[k] \in Z[k]
           S == {m \in Nat : m <= n => \E f \in [0 .. m -> X] : Run(m, f)}
<1>1. 0 \in S
  <2>1. base \in X
    OBVIOUS
  <2>2. [k \in 0 .. 0 |-> base] \in [0 .. 0 -> X] /\ Run(0, [k \in 0 .. 0 |-> base])
    BY <2>1
  <2> QED BY <2>2
<1>2. ASSUME NEW m \in Nat, m \in S PROVE m + 1 \in S
  <2> SUFFICES ASSUME m + 1 <= n PROVE \E f \in [0 .. m + 1 -> X] : Run(m + 1, f)
    <3> HIDE DEF Run
    <3> QED OBVIOUS
  <2>1. PICK f \in [0 .. m -> X] : Run(m, f)
    BY <1>2
  <2> DEFINE v == h[<<f[m], m + 1>>]
             g == [k \in 0 .. (m + 1) |-> IF k = m + 1 THEN v ELSE f[k]]
  <2>2. f[m] \in Z[m] /\ (m + 1) - 1 = m /\ m + 1 \in 1 .. n
    BY <2>1
  <2>3. v \in Z[m + 1] /\ v \in X
    BY <2>2
  <2>4. g \in [0 .. m + 1 -> X]
    BY <2>3
  <2>5. /\ g[m + 1] = v /\ \A k \in 0 .. m : g[k] = f[k]
    OBVIOUS
  <2> HIDE DEF g, v
  <2>6. \A k \in 1 .. (m + 1) : g[k] = h[<<g[k - 1], k>>]
    <3> TAKE k \in 1 .. (m + 1)
    <3>1. CASE k = m + 1
      <4>1. k - 1 = m /\ g[m] = f[m]
        BY <2>5, <3>1
      <4> QED BY <2>5, <3>1, <4>1 DEF v
    <3>2. CASE k # m + 1
      <4>1. k \in 1 .. m /\ k - 1 \in 0 .. m /\ k \in 0 .. m
        BY <3>2
      <4> QED BY <2>1, <2>5, <4>1
    <3> QED BY <3>1, <3>2
  <2>7. \A k \in 0 .. (m + 1) : g[k] \in Z[k]
    BY <2>1, <2>3, <2>5
  <2>8. g[0] = base
    BY <2>1, <2>5
  <2> QED BY <2>4, <2>6, <2>7, <2>8
<1>3. n \in S
  <2> HIDE DEF S
  <2> QED BY <1>1, <1>2, SetInduction
<1> QED BY <1>3

LEMMA LoopKeeps ==
    ASSUME NEW n \in Nat, NEW Z, NEW f, f[0] \in Z[0],
           \A k \in 1 .. n : f[k - 1] \in Z[k - 1] => f[k] \in Z[k]
    PROVE  \A k \in 0 .. n : f[k] \in Z[k]
<1> DEFINE S == {m \in Nat : m <= n => f[m] \in Z[m]}
<1>1. 0 \in S
  OBVIOUS
<1>2. ASSUME NEW m \in Nat, m \in S PROVE m + 1 \in S
  <2> SUFFICES ASSUME m + 1 <= n PROVE f[m + 1] \in Z[m + 1]
    OBVIOUS
  <2>1. f[m] \in Z[m] /\ (m + 1) - 1 = m /\ m + 1 \in 1 .. n
    BY <1>2
  <2> QED BY <2>1
<1>3. \A m \in Nat : m \in S
  <2> HIDE DEF S
  <2> QED BY <1>1, <1>2, SetInduction
<1> QED BY <1>3

-----------------------------------------------------------------------------
(* Lists. *)

NoRepeats(s) == \A i, j \in DOMAIN s : s[i] = s[j] => i = j

LEMMA AppendList ==
    ASSUME NEW T, NEW p \in Seq(T), NEW e \in T
    PROVE  /\ Append(p, e) \in Seq(T) /\ Len(p) \in Nat /\ DOMAIN p = 1 .. Len(p)
           /\ Len(Append(p, e)) = Len(p) + 1 /\ DOMAIN Append(p, e) = 1 .. (Len(p) + 1)
           /\ Append(p, e)[Len(p) + 1] = e
           /\ \A j \in DOMAIN p : Append(p, e)[j] = p[j]
           /\ ToSet(Append(p, e)) = ToSet(p) \cup {e}
<1>1. /\ Append(p, e) \in Seq(T) /\ Len(p) \in Nat /\ DOMAIN p = 1 .. Len(p)
      /\ Len(Append(p, e)) = Len(p) + 1 /\ DOMAIN Append(p, e) = 1 .. (Len(p) + 1)
      /\ Append(p, e)[Len(p) + 1] = e
      /\ \A j \in DOMAIN p : Append(p, e)[j] = p[j]
  OBVIOUS
<1>2. PICK r : r = Append(p, e)
  OBVIOUS
<1> QED BY <1>1, <1>2 DEF ToSet

\* The loop of remove_label.
LEMMA RemoveLabelRuns ==
    ASSUME NEW T, NEW s \in Seq(T), NEW x
    PROVE  \E kept :
              /\ remove_label(s, x) = kept[Len(s)]
              /\ kept[0] = <<>>
              /\ \A k \in 1 .. Len(s) :
                     kept[k] = IF s[k] = x THEN kept[k - 1] ELSE Append(kept[k - 1], s[k])
<1> DEFINE n == Len(s)
           Step(p, k) == IF s[k] = x THEN p ELSE Append(p, s[k])
           Z == [k \in 0 .. n |-> Seq(T)]
           h == [p \in Seq(T) \X (1 .. n) |-> Step(p[1], p[2])]
           Run(f) == f = [k \in 0 .. n |-> IF k = 0 THEN <<>> ELSE Step(f[k - 1], k)]
           kept == CHOOSE f : Run(f)
<1>1. n \in Nat /\ Z \in [0 .. n -> SUBSET Seq(T)] /\ <<>> \in Z[0]
  OBVIOUS
<1>2. \A p \in Seq(T), k \in 1 .. n : Step(p, k) \in Seq(T) /\ h[<<p, k>>] = Step(p, k)
  OBVIOUS
<1>3. \A k \in 1 .. n : Z[k] = Seq(T) /\ Z[k - 1] = Seq(T)
  OBVIOUS
<1>4. \E f \in [0 .. n -> Seq(T)] : f[0] = <<>> /\ \A k \in 1 .. n : f[k] = h[<<f[k - 1], k>>]
  <2> HIDE DEF Z, h, n, Step
  <2>1. Loop(n, Seq(T), Z, <<>>, h)
    BY <1>1, <1>2, <1>3 DEF Loop
  <2> QED BY <2>1, LoopRuns
<1>5. \E f : Run(f)
  <2> HIDE DEF Z, h, n, Step
  <2>1. PICK f \in [0 .. n -> Seq(T)] :
            f[0] = <<>> /\ \A k \in 1 .. n : f[k] = h[<<f[k - 1], k>>]
    BY <1>4
  <2>2. \A k \in 1 .. n : f[k - 1] \in Seq(T) /\ f[k] = Step(f[k - 1], k)
    <3> TAKE k \in 1 .. n
    <3>1. k - 1 \in 0 .. n
      BY <1>1
    <3> QED BY <1>2, <2>1, <3>1
  <2>3. f = [k \in 0 .. n |-> IF k = 0 THEN <<>> ELSE Step(f[k - 1], k)]
    <3>1. \A k \in 0 .. n : f[k] = IF k = 0 THEN <<>> ELSE Step(f[k - 1], k)
      BY <1>1, <2>1, <2>2
    <3> QED BY <2>1, <3>1
  <2> QED BY <2>3
<1>6. Run(kept)
  <2> HIDE DEF Run
  <2> QED BY <1>5
<1>7. remove_label(s, x) = kept[n]
  BY DEF remove_label
<1> HIDE DEF kept
<1>8. \A k \in 0 .. n : kept[k] = IF k = 0 THEN <<>> ELSE Step(kept[k - 1], k)
  <2> HIDE DEF n, Step
  <2> QED BY <1>6
<1>9. kept[0] = <<>> /\ \A k \in 1 .. n : kept[k] = Step(kept[k - 1], k)
  <2> HIDE DEF Step
  <2> QED BY <1>1, <1>8
<1> QED BY <1>7, <1>9

\* remove_label removes every occurrence of the label, and nothing else.
LEMMA RemoveLabelList ==
    ASSUME NEW T, NEW s \in Seq(T), NEW x
    PROVE  /\ remove_label(s, x) \in Seq(T)
           /\ ToSet(remove_label(s, x)) = ToSet(s) \ {x}
           /\ Len(remove_label(s, x)) <= Len(s)
           /\ NoRepeats(s) => NoRepeats(remove_label(s, x))
<1> DEFINE n == Len(s)
           Good(p, k) == /\ Len(p) <= k
                         /\ \A j \in DOMAIN p : p[j] # x /\ \E i \in 1 .. k : s[i] = p[j]
                         /\ \A i \in 1 .. k : s[i] # x => \E j \in DOMAIN p : p[j] = s[i]
                         /\ NoRepeats(s) => NoRepeats(p)
           Z == [k \in 0 .. n |-> {p \in Seq(T) : Good(p, k)}]
<1>1. PICK kept : /\ remove_label(s, x) = kept[n]
                  /\ kept[0] = <<>>
                  /\ \A k \in 1 .. n :
                         kept[k] = IF s[k] = x THEN kept[k - 1] ELSE Append(kept[k - 1], s[k])
  BY RemoveLabelRuns
<1>2. kept[0] \in Z[0]
  BY <1>1 DEF NoRepeats
<1>3. ASSUME NEW k \in 1 .. n, kept[k - 1] \in Z[k - 1] PROVE kept[k] \in Z[k]
  <2>1. PICK p \in Seq(T) : p = kept[k - 1] /\ Good(p, k - 1)
    BY <1>3
  <2>2. k \in 0 .. n /\ k \in DOMAIN s /\ s[k] \in T
    OBVIOUS
  <2>3. CASE s[k] = x
    <3>1. kept[k] = p
      BY <1>1, <2>1, <2>3
    <3>2. Good(p, k)
      BY <2>1, <2>3
    <3> QED BY <2>2, <3>1, <3>2
  <2>4. CASE s[k] # x
    <3>a. kept[k] = Append(p, s[k])
      <4> HIDE DEF Good
      <4> QED BY <1>1, <2>1, <2>4
    <3>b. PICK e \in T : e = s[k]
      BY <2>2
    <3>c. PICK r : r = Append(p, e)
      OBVIOUS
    <3>1. r \in Seq(T) /\ r = kept[k]
      <4> HIDE DEF Good
      <4> QED BY <3>a, <3>b, <3>c, AppendList
    <3>2. /\ Len(r) = Len(p) + 1 /\ r[Len(p) + 1] = s[k] /\ DOMAIN r = 1 .. (Len(p) + 1)
          /\ Len(p) \in Nat /\ DOMAIN p = 1 .. Len(p) /\ \A j \in DOMAIN p : r[j] = p[j]
      <4>1. /\ Len(p) \in Nat /\ DOMAIN p = 1 .. Len(p)
            /\ Len(Append(p, e)) = Len(p) + 1 /\ DOMAIN Append(p, e) = 1 .. (Len(p) + 1)
            /\ Append(p, e)[Len(p) + 1] = e
            /\ \A j \in DOMAIN p : Append(p, e)[j] = p[j]
        BY AppendList
      <4> QED BY <3>b, <3>c, <4>1, Zenon
    <3>3. Len(r) <= k
      BY <2>1, <3>2
    <3>4. \A j \in DOMAIN r : r[j] # x /\ \E i \in 1 .. k : s[i] = r[j]
      <4> TAKE j \in DOMAIN r
      <4>1. CASE j = Len(p) + 1
        BY <2>4, <3>2, <4>1
      <4>2. CASE j \in DOMAIN p
        BY <2>1, <3>2, <4>2
      <4> QED BY <3>2, <4>1, <4>2
    <3>5. \A i \in 1 .. k : s[i] # x => \E j \in DOMAIN r : r[j] = s[i]
      <4> TAKE i \in 1 .. k
      <4>1. CASE i = k
        BY <3>2, <4>1
      <4>2. CASE i # k
        <5>1. i \in 1 .. (k - 1)
          BY <4>2
        <5>2. s[i] # x => \E j \in DOMAIN p : p[j] = s[i]
          BY <2>1, <5>1
        <5> QED BY <3>2, <5>2
      <4> QED BY <4>1, <4>2
    <3>6. ASSUME NoRepeats(s) PROVE NoRepeats(r)
      <4> SUFFICES ASSUME NEW i \in DOMAIN r, NEW j \in DOMAIN r, r[i] = r[j], i < j PROVE FALSE
        BY <3>2 DEF NoRepeats
      <4>1. i \in DOMAIN p
        BY <3>2
      <4>2. CASE j \in DOMAIN p
        <5>1. NoRepeats(p)
          BY <2>1, <3>6
        <5>2. p[i] = p[j] /\ i # j
          BY <3>2, <4>1, <4>2
        <5> QED BY <4>1, <4>2, <5>1, <5>2 DEF NoRepeats
      <4>3. CASE j = Len(p) + 1
        <5>1. PICK a \in 1 .. (k - 1) : s[a] = p[i]
          BY <2>1, <4>1
        <5>2. s[a] = s[k] /\ a \in DOMAIN s /\ a # k
          BY <2>2, <3>2, <4>1, <4>3, <5>1
        <5> QED BY <2>2, <3>6, <5>2 DEF NoRepeats
      <4> QED BY <3>2, <4>2, <4>3
    <3>7. Good(r, k)
      BY <3>3, <3>4, <3>5, <3>6
    <3> HIDE DEF Good
    <3> QED BY <2>2, <3>1, <3>7
  <2> QED BY <2>3, <2>4
<1>4. kept[n] \in Z[n]
  <2>1. n \in Nat /\ n \in 0 .. n
    OBVIOUS
  <2> HIDE DEF Z, n
  <2> QED BY <1>2, <1>3, <2>1, LoopKeeps
<1>5. PICK p \in Seq(T) : p = remove_label(s, x) /\ Good(p, n)
  BY <1>1, <1>4
<1>6. ToSet(p) = ToSet(s) \ {x}
  BY <1>5 DEF ToSet
<1> QED BY <1>5, <1>6

\* RemoveAt: std::vector::erase.
LEMMA RemoveAtList ==
    ASSUME NEW T, NEW s \in Seq(T), NEW i \in DOMAIN s
    PROVE  /\ RemoveAt(s, i) \in Seq(T)
           /\ Len(RemoveAt(s, i)) = Len(s) - 1
           /\ ToSet(RemoveAt(s, i)) \subseteq ToSet(s)
           /\ NoRepeats(s) => /\ NoRepeats(RemoveAt(s, i))
                              /\ ToSet(RemoveAt(s, i)) = ToSet(s) \ {s[i]}
<1> DEFINE a == SubSeq(s, 1, i - 1)
           b == SubSeq(s, i + 1, Len(s))
           r == a \o b
<1>1. i \in 1 .. Len(s) /\ Len(s) \in Nat
  OBVIOUS
<1>2. a \in Seq(T) /\ Len(a) = i - 1 /\ \A j \in 1 .. (i - 1) : a[j] = s[j]
  BY <1>1
<1>3. b \in Seq(T) /\ Len(b) = Len(s) - i /\ \A j \in 1 .. (Len(s) - i) : b[j] = s[i + j]
  BY <1>1
<1> HIDE DEF a, b
<1>4. /\ r \in Seq(T) /\ Len(r) = Len(s) - 1
      /\ \A j \in 1 .. (Len(s) - 1) : r[j] = IF j < i THEN s[j] ELSE s[j + 1]
  BY <1>1, <1>2, <1>3
<1>5. RemoveAt(s, i) = r
  BY <1>1 DEF RemoveAt, a, b
<1> HIDE DEF r
<1>6. DOMAIN r = 1 .. (Len(s) - 1) /\ DOMAIN s = 1 .. Len(s)
  BY <1>4
<1> DEFINE K(j) == IF j < i THEN j ELSE j + 1
<1>6a. /\ \A j \in DOMAIN r : K(j) \in DOMAIN s /\ K(j) # i /\ r[j] = s[K(j)]
      /\ \A j, k \in DOMAIN r : K(j) = K(k) => j = k
  <2>1. \A j \in 1 .. (Len(s) - 1) : K(j) \in 1 .. Len(s) /\ K(j) # i
    BY <1>1
  <2>2. \A j, k \in 1 .. (Len(s) - 1) : K(j) = K(k) => j = k
    BY <1>1
  <2>3. \A j \in 1 .. (Len(s) - 1) : r[j] = s[K(j)]
    BY <1>4
  <2> QED BY <1>6, <2>1, <2>2, <2>3
<1> HIDE DEF K
<1>7. ToSet(r) \subseteq ToSet(s)
  BY <1>6a DEF ToSet
<1>8. ASSUME NoRepeats(s) PROVE NoRepeats(r) /\ ToSet(r) = ToSet(s) \ {s[i]}
  <2>1. NoRepeats(r)
    BY <1>8, <1>6a DEF NoRepeats
  <2>2. \A j \in DOMAIN r : r[j] # s[i]
    BY <1>8, <1>6a DEF NoRepeats
  <2>3. \A k \in DOMAIN s : k # i => \E j \in DOMAIN r : r[j] = s[k]
    <3> SUFFICES ASSUME NEW k \in DOMAIN s, k # i PROVE \E j \in DOMAIN r : r[j] = s[k]
      OBVIOUS
    <3>1. CASE k < i
      BY <1>1, <1>4, <1>6, <3>1
    <3>2. CASE k > i
      <4>1. k - 1 \in DOMAIN r /\ r[k - 1] = s[k]
        BY <1>1, <1>4, <1>6, <3>2
      <4> QED BY <4>1
    <3> QED BY <1>1, <1>6, <3>1, <3>2
  <2>4. \A v \in ToSet(s) \ {s[i]} : v \in ToSet(r)
    BY <2>3 DEF ToSet
  <2>5. s[i] \notin ToSet(r)
    BY <2>2 DEF ToSet
  <2> QED BY <1>7, <2>1, <2>4, <2>5
<1> QED BY <1>4, <1>5, <1>7, <1>8

-----------------------------------------------------------------------------
(* Room in a full list. *)

Graphs(N)    == [N -> Seq(N)]
Positions(N) == [N -> Nat]

LEMMA DistIsNat ==
    ASSUME NEW N, NEW pos \in Positions(N), NEW a \in N, NEW b \in N
    PROVE  Dist(pos, a, b) \in Nat
BY DEF Dist, Positions

\* The first of the greatest numbers of a list.
LEMMA FirstGreatest ==
    ASSUME NEW m \in Nat \ {0}, NEW d \in [1 .. m -> Nat]
    PROVE  \E i \in 1 .. m : \A j \in 1 .. m : d[j] < d[i] \/ (d[j] = d[i] /\ i <= j)
<1> DEFINE Top(k, i) == \A j \in 1 .. k : d[j] < d[i] \/ (d[j] = d[i] /\ i <= j)
           S == {k \in Nat : k \in 1 .. m => \E i \in 1 .. k : Top(k, i)}
<1>1. 0 \in S
  OBVIOUS
<1>2. ASSUME NEW k \in Nat, k \in S PROVE k + 1 \in S
  <2> SUFFICES ASSUME k + 1 \in 1 .. m PROVE \E i \in 1 .. (k + 1) : Top(k + 1, i)
    OBVIOUS
  <2>1. CASE k = 0
    <3>1. Top(1, 1)
      OBVIOUS
    <3> QED BY <2>1, <3>1
  <2>2. CASE k # 0
    <3>1. PICK i \in 1 .. k : Top(k, i)
      BY <1>2, <2>2
    <3>2. d[i] \in Nat /\ d[k + 1] \in Nat
      BY <3>1
    <3>3. CASE d[k + 1] <= d[i]
      <4>1. Top(k + 1, i)
        BY <3>1, <3>2, <3>3
      <4> QED BY <4>1
    <3>4. CASE d[i] < d[k + 1]
      <4>1. Top(k + 1, k + 1)
        <5> SUFFICES ASSUME NEW j \in 1 .. (k + 1)
                     PROVE  d[j] < d[k + 1] \/ (d[j] = d[k + 1] /\ k + 1 <= j)
          OBVIOUS
        <5>1. CASE j = k + 1
          BY <3>2, <5>1
        <5>2. CASE j \in 1 .. k
          <6>1. d[j] \in Nat /\ d[j] <= d[i]
            BY <3>1, <3>2, <5>2
          <6> QED BY <3>2, <3>4, <6>1
        <5> QED BY <5>1, <5>2
      <4> QED BY <4>1
    <3> QED BY <3>2, <3>3, <3>4
  <2> QED BY <2>1, <2>2
<1>3. m \in S
  <2> HIDE DEF S
  <2> QED BY <1>1, <1>2, SetInduction
<1> QED BY <1>3

LEMMA FarIndexOfList ==
    ASSUME NEW N, NEW g \in Graphs(N), NEW pos \in Positions(N), NEW n \in N, Len(g[n]) > 0
    PROVE  FarIndex(g, pos, n) \in DOMAIN g[n]
<1> DEFINE m == Len(g[n])
           d == [j \in 1 .. m |-> Dist(pos, n, g[n][j])]
<1>1. g[n] \in Seq(N) /\ m \in Nat \ {0} /\ DOMAIN g[n] = 1 .. m
  BY DEF Graphs
<1>2. \A j \in 1 .. m : g[n][j] \in N
  BY <1>1
<1>3. d \in [1 .. m -> Nat] /\ \A j \in 1 .. m : d[j] = Dist(pos, n, g[n][j])
  <2> HIDE DEF m
  <2> QED BY <1>2, DistIsNat
<1>4. \E i \in 1 .. m : \A j \in 1 .. m : d[j] < d[i] \/ (d[j] = d[i] /\ i <= j)
  <2> HIDE DEF m, d
  <2> QED BY <1>1, <1>3, FirstGreatest
<1>5. \E i \in DOMAIN g[n] : \A j \in DOMAIN g[n] :
          \/ Dist(pos, n, g[n][j]) < Dist(pos, n, g[n][i])
          \/ Dist(pos, n, g[n][j]) = Dist(pos, n, g[n][i]) /\ i <= j
  <2> HIDE DEF m, d
  <2> QED BY <1>1, <1>3, <1>4
<1> QED BY <1>5 DEF FarIndex

Simple(g, N) == \A n \in N : NoRepeats(g[n])

\* An eviction touches two lists, and takes the edge between their nodes out of
\* both.
Evicted(new, g, N, n, far) ==
    /\ far \in N /\ new \in Graphs(N)
    /\ \A m \in N \ {n, far} : new[m] = g[m]
    /\ \A m \in N : Nbrs(new, m) \subseteq Nbrs(g, m) /\ Len(new[m]) <= Len(g[m])
    /\ Len(new[n]) < Len(g[n])
    /\ Simple(g, N) =>
           /\ Simple(new, N)
           /\ Nbrs(new, n) = Nbrs(g, n) \ {far}
           /\ far # n => Nbrs(new, far) = Nbrs(g, far) \ {n}

LEMMA EvictEffect ==
    ASSUME NEW N, NEW g \in Graphs(N), NEW n \in N, NEW i \in DOMAIN g[n]
    PROVE  Evicted(Evict(g, n, i), g, N, n, g[n][i])
<1> DEFINE far == g[n][i]
           new == Evict(g, n, i)
           a == RemoveAt(g[n], i)
           mid == [g EXCEPT ![n] = a]
           b == remove_label(mid[far], n)
<1>1. far \in N /\ g[n] \in Seq(N) /\ g[far] \in Seq(N)
  BY DEF Graphs
<1>2. /\ a \in Seq(N) /\ Len(a) = Len(g[n]) - 1 /\ ToSet(a) \subseteq ToSet(g[n])
      /\ NoRepeats(g[n]) => NoRepeats(a) /\ ToSet(a) = ToSet(g[n]) \ {far}
  BY <1>1, RemoveAtList
<1>3. /\ mid \in Graphs(N) /\ mid[n] = a /\ \A m \in N \ {n} : mid[m] = g[m]
  <2> HIDE DEF a
  <2> QED BY <1>2 DEF Graphs
<1> HIDE DEF a, mid
<1>4. /\ b \in Seq(N) /\ ToSet(b) = ToSet(mid[far]) \ {n} /\ Len(b) <= Len(mid[far])
      /\ NoRepeats(mid[far]) => NoRepeats(b)
  <2>1. mid[far] \in Seq(N)
    BY <1>1, <1>3 DEF Graphs
  <2> HIDE DEF far
  <2> QED BY <2>1, RemoveLabelList
<1>5. new = [mid EXCEPT ![far] = b]
  BY DEF Evict, mid, a
<1> HIDE DEF new, far, b
<1>6. /\ new \in Graphs(N) /\ new[far] = b /\ \A m \in N \ {far} : new[m] = mid[m]
  BY <1>1, <1>3, <1>4, <1>5 DEF Graphs
<1>7. /\ \A m \in N \ {n, far} : new[m] = g[m]
      /\ far # n => new[n] = a /\ mid[far] = g[far]
      /\ far = n => mid[far] = a
  BY <1>1, <1>3, <1>6
<1>8. \A m \in N : Len(g[m]) \in Nat /\ Len(new[m]) \in Nat
  BY <1>6 DEF Graphs
<1>9. Len(a) \in Nat /\ Len(b) \in Nat /\ Len(g[n]) \in Nat /\ Len(g[far]) \in Nat
  BY <1>1, <1>2, <1>4
<1>10. CASE far = n
  <2>1. new[n] = b /\ ToSet(b) = ToSet(a) \ {n} /\ Len(b) <= Len(a) /\ (NoRepeats(a) => NoRepeats(b))
    BY <1>4, <1>6, <1>7, <1>10
  <2>2. \A m \in N : Nbrs(new, m) \subseteq Nbrs(g, m) /\ Len(new[m]) <= Len(g[m])
    BY <1>2, <1>7, <1>8, <1>9, <1>10, <2>1 DEF Nbrs
  <2>3. Len(new[n]) < Len(g[n])
    BY <1>2, <1>9, <2>1
  <2>4. Simple(g, N) => Simple(new, N) /\ Nbrs(new, n) = Nbrs(g, n) \ {far}
    BY <1>2, <1>7, <1>10, <2>1 DEF Simple, Nbrs
  <2>5. Evicted(new, g, N, n, far)
    BY <1>1, <1>6, <1>7, <1>10, <2>2, <2>3, <2>4 DEF Evicted
  <2> QED BY <2>5 DEF new, far
<1>11. CASE far # n
  <2>1. /\ new[n] = a /\ new[far] = b /\ ToSet(b) = ToSet(g[far]) \ {n} /\ Len(b) <= Len(g[far])
        /\ NoRepeats(g[far]) => NoRepeats(b)
    BY <1>4, <1>6, <1>7, <1>11
  <2>2. \A m \in N : Nbrs(new, m) \subseteq Nbrs(g, m) /\ Len(new[m]) <= Len(g[m])
    BY <1>2, <1>7, <1>8, <1>9, <2>1 DEF Nbrs
  <2>3. Len(new[n]) < Len(g[n])
    BY <1>2, <1>9, <2>1
  <2>4. Simple(g, N) => /\ Simple(new, N) /\ Nbrs(new, n) = Nbrs(g, n) \ {far}
                        /\ Nbrs(new, far) = Nbrs(g, far) \ {n}
    BY <1>1, <1>2, <1>7, <2>1 DEF Simple, Nbrs
  <2>5. Evicted(new, g, N, n, far)
    BY <1>1, <1>6, <1>7, <2>2, <2>3, <2>4 DEF Evicted
  <2> QED BY <2>5 DEF new, far
<1> QED BY <1>10, <1>11

LEMMA ContainsNbr ==
    ASSUME NEW N, NEW g \in Graphs(N), NEW n \in N, NEW c
    PROVE  Contains(g[n], c) <=> c \in Nbrs(g, n)
<1>1. g[n] \in Seq(N)
  BY DEF Graphs
<1> QED BY <1>1 DEF Contains, Nbrs, ToSet

\* ensure_capacity_for leaves the graph alone or makes one eviction.
LEMMA RoomEffect ==
    ASSUME NEW N, NEW g \in Graphs(N), NEW pos \in Positions(N), NEW maxM \in Nat \ {0},
           NEW n \in N, NEW c \in N
    PROVE  LET room == EnsureCapacity(g, pos, n, c, maxM)
           IN \/ room.graph = g /\ (room.ok <=> c \in Nbrs(g, n) \/ Len(g[n]) < maxM)
              \/ /\ room.ok /\ c \notin Nbrs(g, n)
                 /\ \E i \in DOMAIN g[n] : room.graph = Evict(g, n, i)
<1> DEFINE room == EnsureCapacity(g, pos, n, c, maxM)
           i == FarIndex(g, pos, n)
<1>1. Contains(g[n], c) <=> c \in Nbrs(g, n)
  BY ContainsNbr
<1>2. CASE c \in Nbrs(g, n) \/ Len(g[n]) < maxM
  <2>1. room = [ok |-> TRUE, graph |-> g]
    BY <1>1, <1>2 DEF EnsureCapacity
  <2> HIDE DEF room
  <2> QED BY <1>2, <2>1 DEF room
<1>3. CASE ~(c \in Nbrs(g, n) \/ Len(g[n]) < maxM)
  <2>1. Len(g[n]) \in Nat /\ Len(g[n]) > 0
    BY <1>3 DEF Graphs
  <2>2. i \in DOMAIN g[n]
    BY <2>1, FarIndexOfList
  <2>3. \/ room = [ok |-> TRUE, graph |-> Evict(g, n, i)]
        \/ room = [ok |-> FALSE, graph |-> g]
    BY <1>1, <1>3 DEF EnsureCapacity
  <2> HIDE DEF room, i
  <2> QED BY <1>3, <2>2, <2>3 DEF room
<1> QED BY <1>2, <1>3

HalfEdge(g, n, c) == [g EXCEPT ![n] = Append(@, c)]

\* A set of graphs that evictions and new half edges among the nodes of P do not
\* leave.
Closed(G, N, P) ==
    /\ G \subseteq Graphs(N) /\ P \subseteq N
    /\ \A g \in G, n \in P : \A i \in DOMAIN g[n] : Evict(g, n, i) \in G
    /\ \A g \in G, n \in P, c \in P : n # c => HalfEdge(g, n, c) \in G

LEMMA RoomStays ==
    ASSUME NEW N, NEW P, NEW G, Closed(G, N, P), NEW g \in G, NEW pos \in Positions(N),
           NEW maxM \in Nat \ {0}, NEW n \in P, NEW c \in P
    PROVE  EnsureCapacity(g, pos, n, c, maxM).graph \in G
<1>1. g \in Graphs(N) /\ n \in N /\ c \in N
  BY DEF Closed
<1>2. \/ EnsureCapacity(g, pos, n, c, maxM).graph = g
      \/ \E i \in DOMAIN g[n] : EnsureCapacity(g, pos, n, c, maxM).graph = Evict(g, n, i)
  BY <1>1, RoomEffect
<1> QED BY <1>2 DEF Closed

LEMMA HalfEdgeStays ==
    ASSUME NEW N, NEW P, NEW G, Closed(G, N, P), NEW g \in G, NEW pos \in Positions(N),
           NEW maxM \in Nat \ {0}, NEW n \in P, NEW c \in P, n # c
    PROVE  CommitHalfEdge(g, pos, n, c, maxM) \in G
<1>1. PICK r \in G : r = EnsureCapacity(g, pos, n, c, maxM).graph
  BY RoomStays
<1>2. CommitHalfEdge(g, pos, n, c, maxM) \in {g, r, HalfEdge(r, n, c)}
  BY <1>1 DEF CommitHalfEdge, HalfEdge
<1> QED BY <1>1, <1>2 DEF Closed

\* try_insert_healed_edge makes no other changes than these.
LEMMA InsertStays ==
    ASSUME NEW N, NEW P, NEW G, Closed(G, N, P), NEW g \in G, NEW pos \in Positions(N),
           NEW maxM \in Nat \ {0}, NEW u \in P, NEW w \in P, u # w
    PROVE  InsertEdge(g, pos, u, w, maxM) \in G
<1>1. PICK gu \in G : gu = EnsureCapacity(g, pos, u, w, maxM).graph
  BY RoomStays
<1>2. PICK gw \in G : gw = EnsureCapacity(gu, pos, w, u, maxM).graph
  BY <1>1, RoomStays
<1>3. \A r \in G : CommitHalfEdge(r, pos, u, w, maxM) \in G /\ CommitHalfEdge(r, pos, w, u, maxM) \in G
  BY HalfEdgeStays
<1>4. \E ready \in {g, gw} :
          InsertEdge(g, pos, u, w, maxM) \in
              {g, ready, CommitHalfEdge(ready, pos, u, w, maxM),
               CommitHalfEdge(ready, pos, w, u, maxM),
               CommitHalfEdge(CommitHalfEdge(ready, pos, u, w, maxM), pos, w, u, maxM)}
  BY <1>1, <1>2 DEF InsertEdge
<1> QED BY <1>1, <1>2, <1>3, <1>4

-----------------------------------------------------------------------------
(* The order of the candidates. *)

LEMMA BeforeIsOrder ==
    ASSUME NEW N \in SUBSET Nat, NEW pos \in Positions(N)
    PROVE  /\ \A a \in N \X N : ~Before(pos, a, a)
           /\ \A a, b \in N \X N : a # b => Before(pos, a, b) \/ Before(pos, b, a)
           /\ \A a, b, c \in N \X N : Before(pos, a, b) /\ Before(pos, b, c) => Before(pos, a, c)
<1> DEFINE D(c) == Dist(pos, c[1], c[2])
<1>1. \A c \in N \X N : D(c) \in Nat /\ c[1] \in Nat /\ c[2] \in Nat /\ c = <<c[1], c[2]>>
  <2>1. \A c \in N \X N : c[1] \in N /\ c[2] \in N /\ c = <<c[1], c[2]>>
    OBVIOUS
  <2> QED BY <2>1, DistIsNat
<1>2. ASSUME NEW a \in N \X N, NEW b \in N \X N
      PROVE  Before(pos, a, b) <=>
                 \/ D(a) < D(b)
                 \/ D(a) = D(b) /\ a[1] < b[1]
                 \/ D(a) = D(b) /\ a[1] = b[1] /\ a[2] < b[2]
  BY DEF Before
<1> HIDE DEF D
<1>3. \A a \in N \X N : ~Before(pos, a, a)
  BY <1>1, <1>2
<1>4. ASSUME NEW a \in N \X N, NEW b \in N \X N, a # b
      PROVE  Before(pos, a, b) \/ Before(pos, b, a)
  <2>1. D(a) \in Nat /\ D(b) \in Nat /\ a[1] \in Nat /\ a[2] \in Nat /\ b[1] \in Nat /\ b[2] \in Nat
    BY <1>1
  <2>2. a[1] # b[1] \/ a[2] # b[2]
    BY <1>1, <1>4
  <2> QED BY <1>2, <2>1, <2>2
<1>5. ASSUME NEW a \in N \X N, NEW b \in N \X N, NEW c \in N \X N,
             Before(pos, a, b), Before(pos, b, c)
      PROVE  Before(pos, a, c)
  <2>1. /\ D(a) \in Nat /\ D(b) \in Nat /\ D(c) \in Nat
        /\ a[1] \in Nat /\ a[2] \in Nat /\ b[1] \in Nat /\ b[2] \in Nat /\ c[1] \in Nat /\ c[2] \in Nat
    BY <1>1
  <2> QED BY <1>2, <1>5, <2>1
<1> QED BY <1>3, <1>4, <1>5

\* There is a closest candidate as long as there is one.
LEMMA ClosestIsCandidate ==
    ASSUME NEW N \in SUBSET Nat, NEW pos \in Positions(N),
           NEW S \in SUBSET (N \X N), IsFiniteSet(S), S # {}
    PROVE  Closest(pos, S) \in S
<1> DEFINE Ahead(c) == {d \in S : Before(pos, d, c)}
           Ranks == {k \in Nat : \E c \in S : k = Cardinality(Ahead(c))}
<1>1. \A c \in S : IsFiniteSet(Ahead(c)) /\ Cardinality(Ahead(c)) \in Nat
  <2> TAKE c \in S
  <2>1. Ahead(c) \in SUBSET S
    OBVIOUS
  <2> HIDE DEF Ahead
  <2>2. IsFiniteSet(Ahead(c))
    BY <2>1, FS_Subset
  <2> QED BY <2>2, FS_CardinalityType
<1>2. PICK x \in Ranks : \A y \in Ranks : ~(<<y, x>> \in OpToRel(<, Nat))
  <2>1. Ranks \subseteq Nat /\ Ranks # {}
    BY <1>1
  <2> HIDE DEF Ranks
  <2> QED BY <2>1, NatLessThanWellFounded, WFMin
<1>3. PICK c \in S : x = Cardinality(Ahead(c))
  OBVIOUS
<1>4. \A d \in S : ~(Cardinality(Ahead(d)) < Cardinality(Ahead(c)))
  <2> TAKE d \in S
  <2>1. Cardinality(Ahead(d)) \in Ranks /\ Cardinality(Ahead(d)) \in Nat /\ x \in Nat
    BY <1>1
  <2>2. ~(<<Cardinality(Ahead(d)), x>> \in OpToRel(<, Nat))
    BY <1>2, <2>1
  <2> HIDE DEF Ahead, Ranks
  <2> QED BY <1>3, <2>1, <2>2 DEF OpToRel
<1>5. ASSUME NEW d \in S \ {c} PROVE Before(pos, c, d)
  <2> SUFFICES ASSUME ~Before(pos, c, d) PROVE FALSE
    OBVIOUS
  <2>1. Before(pos, d, c) /\ ~Before(pos, d, d)
    BY BeforeIsOrder
  <2>2. Ahead(d) \in SUBSET Ahead(c)
    BY <2>1, BeforeIsOrder
  <2>3. d \in Ahead(c) /\ d \notin Ahead(d)
    BY <2>1
  <2> HIDE DEF Ahead
  <2>4. Cardinality(Ahead(d)) <= Cardinality(Ahead(c)) /\ Cardinality(Ahead(d)) # Cardinality(Ahead(c))
    BY <1>1, <2>2, <2>3, FS_Subset
  <2>5. Cardinality(Ahead(d)) \in Nat /\ Cardinality(Ahead(c)) \in Nat
    BY <1>1
  <2> QED BY <1>4, <2>4, <2>5
<1> QED BY <1>5 DEF Closest

-----------------------------------------------------------------------------
(* The repair. *)

\* A set of graphs that the candidates, tried in any order, do not leave.
Kept(G, N, pos, cands, maxM) ==
    /\ N \in SUBSET Nat /\ pos \in Positions(N)
    /\ cands \in SUBSET (N \X N) /\ IsFiniteSet(cands)
    /\ \A g \in G, c \in cands : InsertEdge(g, pos, c[1], c[2], maxM) \in G

Tried(last, pos, c, maxM) ==
    [graph |-> InsertEdge(last.graph, pos, c[1], c[2], maxM), left |-> last.left \ {c}]

\* The loop over the candidates: each is tried once.
Rounds(tried, G, g, pos, cands, maxM) ==
    LET n == Cardinality(cands)
    IN /\ n \in Nat
       /\ Reconnect(g, pos, cands, maxM) = tried[n].graph
       /\ tried[0] = [graph |-> g, left |-> cands]
       /\ \A k \in 0 .. n : tried[k] \in [graph: G, left: SUBSET cands]
       /\ \A k \in 1 .. n : \E c \in tried[k - 1].left :
              tried[k] = Tried(tried[k - 1], pos, c, maxM)
       /\ tried[n].left = {}

LEMMA ReconnectRuns ==
    ASSUME NEW G, NEW N, NEW pos, NEW cands, NEW maxM, Kept(G, N, pos, cands, maxM), NEW g \in G
    PROVE  \E tried : Rounds(tried, G, g, pos, cands, maxM)
<1> DEFINE n == Cardinality(cands)
           X == [graph: G, left: SUBSET cands]
           Next(x) == Tried(x, pos, Closest(pos, x.left), maxM)
           base == [graph |-> g, left |-> cands]
           Z == [k \in 0 .. n |-> {x \in X : Cardinality(x.left) = n - k}]
           h == [p \in X \X (1 .. n) |-> Next(p[1])]
           Run(f) == f = [k \in 0 .. n |-> IF k = 0 THEN base ELSE Next(f[k - 1])]
           tried == CHOOSE f : Run(f)
<1>1. n \in Nat /\ base \in X
  BY FS_CardinalityType DEF Kept
<1>2. ASSUME NEW x \in X, x.left # {}
      PROVE  /\ Closest(pos, x.left) \in x.left
             /\ Next(x) \in X /\ Cardinality(Next(x).left) = Cardinality(x.left) - 1
  <2>1. /\ x.left \in SUBSET cands /\ x.left \in SUBSET (N \X N) /\ x.graph \in G
        /\ IsFiniteSet(x.left)
    BY FS_Subset DEF Kept
  <2>2. PICK c \in x.left : c = Closest(pos, x.left)
    BY <1>2, <2>1, ClosestIsCandidate DEF Kept
  <2>3. Next(x) = [graph |-> InsertEdge(x.graph, pos, c[1], c[2], maxM), left |-> x.left \ {c}]
    BY <2>2 DEF Tried
  <2>4. InsertEdge(x.graph, pos, c[1], c[2], maxM) \in G /\ x.left \ {c} \in SUBSET cands
    BY <2>1, <2>2 DEF Kept
  <2>5. Cardinality(x.left \ {c}) = Cardinality(x.left) - 1
    <3>1. \A L : IsFiniteSet(L) /\ c \in L => Cardinality(L \ {c}) = Cardinality(L) - 1
      BY FS_RemoveElement
    <3> QED BY <2>1, <2>2, <3>1
  <2> HIDE DEF Next
  <2> QED BY <2>2, <2>3, <2>4, <2>5
<1>3. /\ \A k \in 0 .. n : Z[k] = {x \in X : Cardinality(x.left) = n - k}
      /\ \A k \in 0 .. n : Z[k] \subseteq X
      /\ Z \in [0 .. n -> SUBSET X] /\ base \in Z[0]
  <2> HIDE DEF X
  <2> QED BY <1>1
<1>4. \A k \in 1 .. n : \A x \in X : h[<<x, k>>] = Next(x)
  <2> HIDE DEF X, n, Next
  <2> QED OBVIOUS
<1>5. ASSUME NEW k \in 1 .. n, NEW x \in Z[k - 1]
      PROVE  x \in X /\ x.left # {} /\ Next(x) \in Z[k]
  <2> HIDE DEF X, Z, Next
  <2>1. k - 1 \in 0 .. n /\ k \in 0 .. n /\ n - (k - 1) # 0 /\ (n - (k - 1)) - 1 = n - k
    BY <1>1
  <2>2. x \in X /\ Cardinality(x.left) = n - (k - 1)
    BY <1>3, <1>5, <2>1
  <2>3. x.left # {}
    BY <2>1, <2>2, FS_EmptySet
  <2> QED BY <1>2, <1>3, <2>1, <2>2, <2>3
<1>6. PICK f \in [0 .. n -> X] : /\ f[0] = base
                                 /\ \A k \in 1 .. n : f[k] = h[<<f[k - 1], k>>]
                                 /\ \A k \in 0 .. n : f[k] \in Z[k]
  <2> HIDE DEF X, Z, Next, h, n, base
  <2>1. Loop(n, X, Z, base, h)
    BY <1>1, <1>3, <1>4, <1>5 DEF Loop
  <2> QED BY <2>1, LoopRuns
<1>7. \E r : Run(r)
  <2> HIDE DEF X, Z, Next, h, n, base
  <2>1. \A k \in 1 .. n : f[k] = Next(f[k - 1])
    <3> TAKE k \in 1 .. n
    <3>1. k - 1 \in 0 .. n
      BY <1>1
    <3> QED BY <1>4, <1>6, <3>1
  <2>2. \A k \in 0 .. n : f[k] = IF k = 0 THEN base ELSE Next(f[k - 1])
    BY <1>1, <1>6, <2>1
  <2>3. f = [k \in 0 .. n |-> IF k = 0 THEN base ELSE Next(f[k - 1])]
    BY <1>6, <2>2
  <2> QED BY <2>3
<1>8. Run(tried)
  <2> HIDE DEF Run
  <2> QED BY <1>7
<1>9. Reconnect(g, pos, cands, maxM) = tried[n].graph
  BY DEF Reconnect, Tried
<1> HIDE DEF tried
<1>10. tried[0] = base /\ \A k \in 1 .. n : tried[k] = Next(tried[k - 1])
  <2> HIDE DEF n, Next, base
  <2>1. \A k \in 0 .. n : tried[k] = IF k = 0 THEN base ELSE Next(tried[k - 1])
    BY <1>8
  <2> QED BY <1>1, <2>1
<1>11. \A k \in 0 .. n : tried[k] \in Z[k]
  <2> HIDE DEF X, Z, Next, h, n, base
  <2>1. tried[0] \in Z[0]
    BY <1>3, <1>10
  <2>2. \A k \in 1 .. n : tried[k - 1] \in Z[k - 1] => tried[k] \in Z[k]
    BY <1>5, <1>10
  <2> QED BY <1>1, <2>1, <2>2, LoopKeeps
<1>12. \A k \in 0 .. n : tried[k] \in X
  <2> HIDE DEF X, Z, n
  <2> QED BY <1>3, <1>11
<1>13. \A k \in 1 .. n : \E c \in tried[k - 1].left : tried[k] = Tried(tried[k - 1], pos, c, maxM)
  <2> TAKE k \in 1 .. n
  <2>1. tried[k - 1] \in Z[k - 1]
    <3> HIDE DEF Z, n
    <3> QED BY <1>1, <1>11
  <2> HIDE DEF X, Z, n
  <2>2. tried[k - 1] \in X /\ tried[k - 1].left # {}
    BY <1>5, <2>1
  <2> QED BY <1>2, <1>10, <2>2
<1>14. tried[n].left = {}
  <2> HIDE DEF X
  <2>1. n \in 0 .. n /\ n - n = 0
    BY <1>1
  <2>2. tried[n] \in X /\ Cardinality(tried[n].left) = 0
    <3> HIDE DEF Z, n
    <3> QED BY <1>3, <1>11, <2>1
  <2>3. tried[n].left \in SUBSET cands
    <3> HIDE DEF n
    <3> QED BY <2>2 DEF X
  <2>4. IsFiniteSet(tried[n].left)
    <3> HIDE DEF n
    <3> QED BY <2>3, FS_Subset DEF Kept
  <2> HIDE DEF n
  <2> QED BY <2>2, <2>4, FS_EmptySet
<1>15. Rounds(tried, G, g, pos, cands, maxM)
  <2> HIDE DEF Next, Z
  <2> QED BY <1>1, <1>9, <1>10, <1>12, <1>13, <1>14 DEF Rounds
<1> QED BY <1>15

LEMMA ReconnectStays ==
    ASSUME NEW G, NEW N, NEW pos, NEW cands, NEW maxM, Kept(G, N, pos, cands, maxM), NEW g \in G
    PROVE  Reconnect(g, pos, cands, maxM) \in G
<1> DEFINE n == Cardinality(cands)
<1>1. PICK tried : Rounds(tried, G, g, pos, cands, maxM)
  BY ReconnectRuns
<1>2. /\ n \in Nat /\ Reconnect(g, pos, cands, maxM) = tried[n].graph
      /\ \A k \in 0 .. n : tried[k] \in [graph: G, left: SUBSET cands]
  BY <1>1 DEF Rounds
<1> HIDE DEF n
<1> QED BY <1>2

OrphansOf(g, q) == Nbrs(g, q) \ {q}

LEMMA NbrsOfNode ==
    ASSUME NEW N, NEW g \in Graphs(N), NEW n \in N
    PROVE  Nbrs(g, n) \subseteq N /\ (g[n] = <<>> <=> Nbrs(g, n) = {})
<1>1. PICK s \in Seq(N) : s = g[n]
  BY DEF Graphs
<1>2. Len(s) \in Nat /\ DOMAIN s = 1 .. Len(s) /\ (s = <<>> <=> Len(s) = 0)
  OBVIOUS
<1>3. ToSet(s) \subseteq N
  BY <1>2 DEF ToSet
<1>4. ASSUME Len(s) = 0 PROVE ToSet(s) = {}
  <2>1. \A i : i \notin DOMAIN s
    BY <1>2, <1>4
  <2> QED BY <2>1 DEF ToSet
<1>5. ASSUME Len(s) # 0 PROVE ToSet(s) # {}
  <2>1. 1 \in DOMAIN s
    BY <1>2, <1>5
  <2>2. s[1] \in ToSet(s)
    BY <2>1 DEF ToSet
  <2> QED BY <2>2
<1> QED BY <1>1, <1>2, <1>3, <1>4, <1>5 DEF Nbrs

LEMMA CandidatesAreOrphans ==
    ASSUME NEW N, IsFiniteSet(N), NEW g \in Graphs(N), NEW q \in N
    PROVE  /\ Candidates(g, q) \in SUBSET (N \X N) /\ IsFiniteSet(Candidates(g, q))
           /\ \A c \in Candidates(g, q) :
                  c[1] \in OrphansOf(g, q) /\ c[2] \in OrphansOf(g, q) /\ c[1] # c[2]
<1> DEFINE s == g[q]
<1>1. s \in Seq(N) /\ Nbrs(g, q) = {s[i] : i \in DOMAIN s}
  BY DEF Graphs, Nbrs, ToSet
<1>2. \A c \in Candidates(g, q) : \E i, j \in Orphans(g, q) : i < j /\ c = <<s[i], s[j]>>
  BY DEF Candidates
<1>3. \A i \in Orphans(g, q) : i \in DOMAIN s /\ i \in Nat /\ s[i] \in N /\ s[i] \in OrphansOf(g, q)
  BY <1>1 DEF Orphans, OrphansOf
<1>4. \A i, j \in Orphans(g, q) : i < j => s[i] # s[j]
  <2> SUFFICES ASSUME NEW i \in Orphans(g, q), NEW j \in Orphans(g, q), i < j PROVE s[i] # s[j]
    OBVIOUS
  <2>1. i \in 1 .. (j - 1)
    BY <1>1, <1>3
  <2> QED BY <2>1 DEF Orphans
<1> HIDE DEF s
<1>5. \A c \in Candidates(g, q) : /\ c \in N \X N /\ c[1] # c[2]
                                  /\ c[1] \in OrphansOf(g, q) /\ c[2] \in OrphansOf(g, q)
  BY <1>2, <1>3, <1>4
<1>6. IsFiniteSet(N \X N)
  BY FS_Product
<1>7. Candidates(g, q) \in SUBSET (N \X N)
  BY <1>5
<1> QED BY <1>5, <1>6, <1>7, FS_Subset

\* heal_graph_structure leaves no set of graphs that has the severed one and that
\* changes among the orphans do not leave.
LEMMA HealStays ==
    ASSUME NEW N \in SUBSET Nat, IsFiniteSet(N), NEW pos \in Positions(N), NEW maxM \in Nat \ {0},
           NEW g \in Graphs(N), NEW q \in N, NEW region,
           NEW G, Closed(G, N, OrphansOf(g, q)), Sever(g, q, region) \in G
    PROVE  Heal(g, pos, q, region, maxM) \in G
<1> DEFINE cands == Candidates(g, q)
<1>1. /\ cands \in SUBSET (N \X N) /\ IsFiniteSet(cands)
      /\ \A c \in cands : c[1] \in OrphansOf(g, q) /\ c[2] \in OrphansOf(g, q) /\ c[1] # c[2]
  BY CandidatesAreOrphans
<1> HIDE DEF cands
<1>2. \A x \in G, c \in cands : InsertEdge(x, pos, c[1], c[2], maxM) \in G
  BY <1>1, InsertStays
<1>3. Kept(G, N, pos, cands, maxM)
  BY <1>1, <1>2 DEF Kept
<1>4. Reconnect(Sever(g, q, region), pos, cands, maxM) \in G
  BY <1>3, ReconnectStays
<1> QED BY <1>4 DEF Heal, cands

\* What the cut does: the list of q is empty, and q is gone from the lists of the
\* region and of its neighbours.
LEMMA SeverEffect ==
    ASSUME NEW N, NEW g \in Graphs(N), NEW q \in N, NEW region
    PROVE  LET cut == Sever(g, q, region)
           IN /\ cut \in Graphs(N) /\ cut[q] = <<>>
              /\ \A n \in N \ {q} : n \in region \cup Nbrs(g, q) => Nbrs(cut, n) = Nbrs(g, n) \ {q}
              /\ \A n \in N \ {q} : n \notin region \cup Nbrs(g, q) => cut[n] = g[n]
              /\ \A n \in N : /\ Nbrs(cut, n) \subseteq Nbrs(g, n) /\ Len(cut[n]) <= Len(g[n])
                              /\ NoRepeats(g[n]) => NoRepeats(cut[n])
<1> DEFINE cut == Sever(g, q, region)
<1>1. \A n \in N : /\ g[n] \in Seq(N) /\ remove_label(g[n], q) \in Seq(N)
                   /\ ToSet(remove_label(g[n], q)) = ToSet(g[n]) \ {q}
                   /\ Len(remove_label(g[n], q)) <= Len(g[n])
                   /\ NoRepeats(g[n]) => NoRepeats(remove_label(g[n], q))
  BY RemoveLabelList DEF Graphs
<1>2. /\ DOMAIN g = N
      /\ cut = [n \in N |-> IF n = q THEN <<>>
                            ELSE IF n \in region \cup Nbrs(g, q)
                                 THEN remove_label(g[n], q) ELSE g[n]]
  BY DEF Sever, Graphs
<1> HIDE DEF cut
<1>3. cut \in Graphs(N)
  BY <1>1, <1>2 DEF Graphs
<1>4. /\ cut[q] = <<>>
      /\ \A n \in N \ {q} : n \in region \cup Nbrs(g, q) => cut[n] = remove_label(g[n], q)
      /\ \A n \in N \ {q} : n \notin region \cup Nbrs(g, q) => cut[n] = g[n]
  BY <1>2
<1>5. \A n \in N \ {q} : n \in region \cup Nbrs(g, q) => Nbrs(cut, n) = Nbrs(g, n) \ {q}
  BY <1>1, <1>4 DEF Nbrs
<1>6. \A n \in N : Len(g[n]) \in Nat /\ Len(<<>>) = 0 /\ ToSet(<<>>) = {} /\ NoRepeats(<<>>)
  BY <1>1 DEF ToSet, NoRepeats
<1>7. ASSUME NEW n \in N
      PROVE  /\ Nbrs(cut, n) \subseteq Nbrs(g, n) /\ Len(cut[n]) <= Len(g[n])
             /\ NoRepeats(g[n]) => NoRepeats(cut[n])
  <2>1. CASE n = q
    BY <1>4, <1>6, <2>1 DEF Nbrs
  <2>2. CASE n # q /\ n \in region \cup Nbrs(g, q)
    BY <1>1, <1>4, <2>2 DEF Nbrs
  <2>3. CASE n # q /\ n \notin region \cup Nbrs(g, q)
    BY <1>4, <1>6, <2>3 DEF Nbrs
  <2> QED BY <2>1, <2>2, <2>3
<1> QED BY <1>3, <1>4, <1>5, <1>7 DEF cut

\* A node without neighbours that is in no list.
Isolated(g, N, n) == g[n] = <<>> /\ \A m \in N : n \notin Nbrs(g, m)

\* The graph with c at the end of the list of n.
Longer(new, g, N, n, c) ==
    /\ new \in Graphs(N)
    /\ \A m \in N \ {n} : new[m] = g[m]
    /\ Nbrs(new, n) = Nbrs(g, n) \cup {c} /\ Len(new[n]) = Len(g[n]) + 1
    /\ NoRepeats(g[n]) /\ c \notin Nbrs(g, n) => NoRepeats(new[n])

LEMMA AppendEffect ==
    ASSUME NEW N, NEW g \in Graphs(N), NEW n \in N, NEW c \in N
    PROVE  Longer(HalfEdge(g, n, c), g, N, n, c)
<1> DEFINE new == HalfEdge(g, n, c)
<1>1. PICK p \in Seq(N) : p = g[n]
  BY DEF Graphs
<1>2. PICK r : r = Append(p, c)
  OBVIOUS
<1>3. /\ r \in Seq(N) /\ Len(r) = Len(p) + 1 /\ ToSet(r) = ToSet(p) \cup {c}
      /\ Len(p) \in Nat /\ DOMAIN p = 1 .. Len(p) /\ DOMAIN r = 1 .. (Len(p) + 1)
      /\ r[Len(p) + 1] = c /\ \A j \in DOMAIN p : r[j] = p[j]
  BY <1>2, AppendList
<1>4. new = [g EXCEPT ![n] = r]
  BY <1>1, <1>2 DEF HalfEdge
<1> HIDE DEF new
<1>5. new \in Graphs(N) /\ new[n] = r /\ \A m \in N \ {n} : new[m] = g[m]
  BY <1>3, <1>4 DEF Graphs
<1>6. ASSUME NoRepeats(p), c \notin ToSet(p) PROVE NoRepeats(r)
  <2>1. \A j \in DOMAIN p : p[j] # c
    BY <1>6 DEF ToSet
  <2> QED BY <1>3, <1>6, <2>1 DEF NoRepeats
<1>7. NoRepeats(g[n]) /\ c \notin Nbrs(g, n) => NoRepeats(new[n])
  BY <1>1, <1>5, <1>6 DEF Nbrs
<1>8. Longer(new, g, N, n, c)
  BY <1>1, <1>3, <1>5, <1>7 DEF Nbrs, Longer
<1> QED BY <1>8 DEF new

LEMMA GraphsClosed ==
    ASSUME NEW N, NEW P \in SUBSET N
    PROVE  Closed(Graphs(N), N, P)
<1>1. \A g \in Graphs(N), n \in P : \A i \in DOMAIN g[n] : Evict(g, n, i) \in Graphs(N)
  BY EvictEffect DEF Evicted
<1>2. \A g \in Graphs(N), n \in P, c \in P : HalfEdge(g, n, c) \in Graphs(N)
  BY AppendEffect DEF Longer
<1> QED BY <1>1, <1>2 DEF Closed

\* The repair makes a graph of a graph.
LEMMA HealIsGraph ==
    ASSUME NEW N \in SUBSET Nat, IsFiniteSet(N), NEW pos \in Positions(N), NEW maxM \in Nat \ {0},
           NEW g \in Graphs(N), NEW q \in N, NEW region
    PROVE  Heal(g, pos, q, region, maxM) \in Graphs(N)
<1>1. OrphansOf(g, q) \in SUBSET N
  BY NbrsOfNode DEF OrphansOf
<1>2. Sever(g, q, region) \in Graphs(N)
  BY SeverEffect
<1> QED BY <1>1, <1>2, GraphsClosed, HealStays

LEMMA IsolatedClosed ==
    ASSUME NEW N, NEW P \in SUBSET N, NEW x \in N \ P
    PROVE  Closed({g \in Graphs(N) : Isolated(g, N, x)}, N, P)
<1> DEFINE G == {g \in Graphs(N) : Isolated(g, N, x)}
<1>1. ASSUME NEW g \in G, NEW n \in P, NEW i \in DOMAIN g[n] PROVE Evict(g, n, i) \in G
  <2>1. /\ g \in Graphs(N) /\ g[n][i] # x /\ n \in N /\ n # x
    BY DEF Isolated, Nbrs, ToSet
  <2>2. /\ Evict(g, n, i) \in Graphs(N)
        /\ \A m \in N \ {n, g[n][i]} : Evict(g, n, i)[m] = g[m]
        /\ \A m \in N : Nbrs(Evict(g, n, i), m) \subseteq Nbrs(g, m)
    <3>1. Evicted(Evict(g, n, i), g, N, n, g[n][i])
      BY <2>1, EvictEffect
    <3> QED BY <3>1 DEF Evicted
  <2> QED BY <2>1, <2>2 DEF Isolated
<1>2. ASSUME NEW g \in G, NEW n \in P, NEW c \in P PROVE HalfEdge(g, n, c) \in G
  <2>1. g \in Graphs(N) /\ n \in N /\ c \in N /\ n # x /\ c # x
    OBVIOUS
  <2> DEFINE new == HalfEdge(g, n, c)
  <2>3. /\ new \in Graphs(N) /\ \A m \in N \ {n} : new[m] = g[m]
        /\ Nbrs(new, n) = Nbrs(g, n) \cup {c}
    <3>1. Longer(new, g, N, n, c)
      BY <2>1, AppendEffect
    <3> HIDE DEF new
    <3> QED BY <3>1 DEF Longer
  <2> HIDE DEF new
  <2>4. \A m \in N : x \notin Nbrs(new, m)
    BY <2>1, <2>3 DEF Isolated, Nbrs
  <2> QED BY <2>1, <2>3, <2>4 DEF Isolated, new
<1> QED BY <1>1, <1>2 DEF Closed

\* A repair never links a node again that has lost all its edges.
LEMMA HealLeavesIsolated ==
    ASSUME NEW N \in SUBSET Nat, IsFiniteSet(N), NEW pos \in Positions(N), NEW maxM \in Nat \ {0},
           NEW g \in Graphs(N), NEW q \in N, NEW region, NEW x \in N, Isolated(g, N, x)
    PROVE  Isolated(Heal(g, pos, q, region, maxM), N, x)
<1> DEFINE G == {r \in Graphs(N) : Isolated(r, N, x)}
           cut == Sever(g, q, region)
<1>1. OrphansOf(g, q) \in SUBSET N /\ x \in N \ OrphansOf(g, q)
  BY NbrsOfNode DEF OrphansOf, Isolated
<1>2. cut \in Graphs(N) /\ \A n \in N : Nbrs(cut, n) \subseteq Nbrs(g, n)
  BY SeverEffect
<1>3. Isolated(cut, N, x)
  <2> HIDE DEF cut
  <2>1. Nbrs(g, x) = {} /\ \A m \in N : x \notin Nbrs(g, m)
    BY NbrsOfNode DEF Isolated
  <2>2. Nbrs(cut, x) = {}
    BY <1>2, <2>1
  <2>3. cut[x] = <<>>
    BY <1>2, <2>2, NbrsOfNode
  <2> QED BY <1>2, <2>1, <2>3 DEF Isolated
<1>4. Heal(g, pos, q, region, maxM) \in G
  <2>1. cut \in G
    BY <1>2, <1>3
  <2>2. Closed(G, N, OrphansOf(g, q))
    BY <1>1, IsolatedClosed
  <2> HIDE DEF G
  <2> QED BY <2>1, <2>2, HealStays
<1> QED BY <1>4

\* A repair cuts its node off if it has seen every list that the node is in.
LEMMA HealIsolates ==
    ASSUME NEW N \in SUBSET Nat, IsFiniteSet(N), NEW pos \in Positions(N), NEW maxM \in Nat \ {0},
           NEW g \in Graphs(N), NEW q \in N, NEW region,
           \A n \in N : q \in Nbrs(g, n) => n \in region \cup Nbrs(g, q)
    PROVE  Isolated(Heal(g, pos, q, region, maxM), N, q)
<1> DEFINE G == {r \in Graphs(N) : Isolated(r, N, q)}
           cut == Sever(g, q, region)
<1>1. OrphansOf(g, q) \in SUBSET N /\ q \in N \ OrphansOf(g, q)
  BY NbrsOfNode DEF OrphansOf
<1>2. /\ cut \in Graphs(N) /\ cut[q] = <<>>
      /\ \A n \in N \ {q} : n \in region \cup Nbrs(g, q) => Nbrs(cut, n) = Nbrs(g, n) \ {q}
      /\ \A n \in N : Nbrs(cut, n) \subseteq Nbrs(g, n)
  BY SeverEffect
<1>3. Isolated(cut, N, q)
  <2> HIDE DEF cut
  <2>1. Nbrs(cut, q) = {}
    BY <1>2, NbrsOfNode
  <2>2. \A n \in N \ {q} : q \notin Nbrs(cut, n)
    BY <1>2
  <2> QED BY <1>2, <2>1, <2>2 DEF Isolated
<1>4. Heal(g, pos, q, region, maxM) \in G
  <2>1. cut \in G
    BY <1>2, <1>3
  <2>2. Closed(G, N, OrphansOf(g, q))
    BY <1>1, IsolatedClosed
  <2> HIDE DEF G
  <2> QED BY <2>1, <2>2, HealStays
<1> QED BY <1>4

-----------------------------------------------------------------------------
(* Which lists a repair changes. *)

\* A repair changes no list outside a region that holds the node, its neighbours
\* and theirs.
LEMMA HealLocal ==
    ASSUME NEW N \in SUBSET Nat, IsFiniteSet(N), NEW pos \in Positions(N), NEW maxM \in Nat \ {0},
           NEW g \in Graphs(N), NEW q \in N, NEW region, q \in region, Nbrs(g, q) \subseteq region,
           \A u \in Nbrs(g, q) : Nbrs(g, u) \subseteq region
    PROVE  \A n \in N \ region : Heal(g, pos, q, region, maxM)[n] = g[n]
<1> DEFINE O == OrphansOf(g, q)
           cut == Sever(g, q, region)
           G == {x \in Graphs(N) : /\ \A n \in N \ region : x[n] = g[n]
                                   /\ \A u \in O : Nbrs(x, u) \subseteq region}
<1>1. O \in SUBSET N /\ O \subseteq region
  BY NbrsOfNode DEF OrphansOf
<1>2. cut \in G
  <2>1. /\ cut \in Graphs(N) /\ \A n \in N \ {q} : n \notin region \cup Nbrs(g, q) => cut[n] = g[n]
        /\ \A n \in N : Nbrs(cut, n) \subseteq Nbrs(g, n)
    BY SeverEffect
  <2> HIDE DEF cut
  <2> QED BY <1>1, <2>1 DEF OrphansOf
<1> HIDE DEF O
<1>3. ASSUME NEW x \in G, NEW n \in O, NEW i \in DOMAIN x[n] PROVE Evict(x, n, i) \in G
  <2>1. x \in Graphs(N) /\ n \in N /\ n \in region /\ x[n][i] \in region
    BY <1>1 DEF Nbrs, ToSet
  <2>2. /\ Evict(x, n, i) \in Graphs(N)
        /\ \A m \in N \ {n, x[n][i]} : Evict(x, n, i)[m] = x[m]
        /\ \A m \in N : Nbrs(Evict(x, n, i), m) \subseteq Nbrs(x, m)
    <3>1. Evicted(Evict(x, n, i), x, N, n, x[n][i])
      BY <2>1, EvictEffect
    <3> QED BY <3>1 DEF Evicted
  <2> QED BY <1>1, <2>1, <2>2
<1>4. ASSUME NEW x \in G, NEW n \in O, NEW c \in O PROVE HalfEdge(x, n, c) \in G
  <2>1. x \in Graphs(N) /\ n \in N /\ c \in N /\ n \in region /\ c \in region
    BY <1>1
  <2> DEFINE new == HalfEdge(x, n, c)
  <2>2. Longer(new, x, N, n, c)
    BY <2>1, AppendEffect
  <2> HIDE DEF new
  <2>3. /\ new \in Graphs(N) /\ \A m \in N \ {n} : new[m] = x[m]
        /\ Nbrs(new, n) = Nbrs(x, n) \cup {c}
    BY <2>2 DEF Longer
  <2>4. \A u \in O : Nbrs(new, u) \subseteq region
    BY <1>1, <2>1, <2>3 DEF Nbrs
  <2>5. new \in G
    BY <2>1, <2>3, <2>4
  <2> QED BY <2>5 DEF new
<1>5. Closed(G, N, O)
  BY <1>1, <1>3, <1>4 DEF Closed
<1>6. Heal(g, pos, q, region, maxM) \in G
  <2> HIDE DEF G
  <2> QED BY <1>2, <1>5, HealStays DEF O
<1> QED BY <1>6

-----------------------------------------------------------------------------
(* An index of no more than max_m + 1 nodes: no list is ever full. *)

LoopFree(g, N) == \A n \in N : n \notin Nbrs(g, n)
Tidy(N) == {g \in Graphs(N) : Simple(g, N) /\ LoopFree(g, N)}

LEMMA ListBound ==
    ASSUME NEW N, IsFiniteSet(N), NEW g \in Tidy(N), NEW n \in N, NEW c \in N \ {n},
           c \notin Nbrs(g, n)
    PROVE  Len(g[n]) < Cardinality(N) - 1
<1>1. PICK s \in Seq(N) : s = g[n]
  BY DEF Tidy, Graphs
<1> DEFINE T == (N \ {n}) \ {c}
<1>2. s \in Injection(1 .. Len(s), T)
  <2>1. Len(s) \in Nat /\ s \in [1 .. Len(s) -> N] /\ DOMAIN s = 1 .. Len(s)
    OBVIOUS
  <2>2. \A i \in DOMAIN s : s[i] # n /\ s[i] # c
    BY <1>1 DEF Tidy, LoopFree, Nbrs, ToSet
  <2>3. \A i, j \in DOMAIN s : s[i] = s[j] => i = j
    BY <1>1 DEF Tidy, Simple, NoRepeats
  <2>4. s \in [1 .. Len(s) -> T]
    BY <2>1, <2>2
  <2> HIDE DEF T
  <2> QED BY <2>1, <2>3, <2>4 DEF Injection, IsInjective
<1>3. /\ IsFiniteSet(T) /\ Cardinality(T) = Cardinality(N) - 1 - 1 /\ Cardinality(N) \in Nat
  <2>1. IsFiniteSet(N \ {n}) /\ Cardinality(N \ {n}) = Cardinality(N) - 1
    BY FS_RemoveElement
  <2>2. c \in N \ {n}
    OBVIOUS
  <2>3. IsFiniteSet(T) /\ Cardinality(T) = Cardinality(N \ {n}) - 1
    BY <2>1, <2>2, FS_RemoveElement
  <2> QED BY <2>1, <2>3, FS_CardinalityType
<1>4. Len(s) \in Nat /\ Cardinality(1 .. Len(s)) = Len(s)
  <2>1. Len(s) \in Nat /\ 1 \in Int /\ Len(s) - 1 + 1 = Len(s)
    OBVIOUS
  <2> QED BY <2>1, FS_Interval
<1>5. Cardinality(1 .. Len(s)) <= Cardinality(T)
  <2> HIDE DEF T
  <2> QED BY <1>2, <1>3, FS_Injection
<1> HIDE DEF T
<1> QED BY <1>1, <1>3, <1>4, <1>5

\* There is always room.
LEMMA AmpleRoom ==
    ASSUME NEW N, IsFiniteSet(N), NEW g \in Tidy(N), NEW n \in N, NEW c \in N \ {n},
           NEW pos, NEW maxM \in Nat, maxM >= Cardinality(N) - 1
    PROVE  /\ EnsureCapacity(g, pos, n, c, maxM) = [ok |-> TRUE, graph |-> g]
           /\ c \notin Nbrs(g, n) => Len(g[n]) < maxM
<1>1. Contains(g[n], c) <=> c \in Nbrs(g, n)
  BY ContainsNbr DEF Tidy
<1>2. c \notin Nbrs(g, n) => Len(g[n]) < maxM
  <2>1. Len(g[n]) \in Nat /\ Cardinality(N) \in Nat
    BY FS_CardinalityType DEF Tidy, Graphs
  <2> QED BY <2>1, ListBound
<1> QED BY <1>1, <1>2 DEF EnsureCapacity

\* The graph with an edge from n to c, which may have been there.
HalfJoined(y, x, N, n, c) ==
    /\ y \in Tidy(N) /\ Nbrs(y, n) = Nbrs(x, n) \cup {c}
    /\ \A m \in N \ {n} : y[m] = x[m]

LEMMA CommitRoomy ==
    ASSUME NEW N, IsFiniteSet(N), NEW g \in Tidy(N), NEW n \in N, NEW c \in N \ {n},
           NEW pos, NEW maxM \in Nat, maxM >= Cardinality(N) - 1
    PROVE  HalfJoined(CommitHalfEdge(g, pos, n, c, maxM), g, N, n, c)
<1>1. g \in Graphs(N) /\ Len(g[n]) \in Nat /\ (Contains(g[n], c) <=> c \in Nbrs(g, n))
  BY ContainsNbr DEF Tidy, Graphs
<1>2. /\ EnsureCapacity(g, pos, n, c, maxM) = [ok |-> TRUE, graph |-> g]
      /\ c \notin Nbrs(g, n) => ~(Len(g[n]) >= maxM)
  <2>1. /\ EnsureCapacity(g, pos, n, c, maxM) = [ok |-> TRUE, graph |-> g]
        /\ c \notin Nbrs(g, n) => Len(g[n]) < maxM
    BY AmpleRoom
  <2> QED BY <1>1, <2>1
<1>3. CommitHalfEdge(g, pos, n, c, maxM) = IF c \in Nbrs(g, n) THEN g ELSE HalfEdge(g, n, c)
  BY <1>1, <1>2 DEF CommitHalfEdge, HalfEdge
<1>4. CASE c \in Nbrs(g, n)
  BY <1>3, <1>4 DEF HalfJoined
<1>5. CASE c \notin Nbrs(g, n)
  <2> DEFINE new == HalfEdge(g, n, c)
  <2>1. Longer(new, g, N, n, c)
    BY <1>1, AppendEffect
  <2> HIDE DEF new
  <2>2. /\ new \in Graphs(N) /\ \A m \in N \ {n} : new[m] = g[m]
        /\ Nbrs(new, n) = Nbrs(g, n) \cup {c} /\ (NoRepeats(g[n]) => NoRepeats(new[n]))
    BY <1>5, <2>1 DEF Longer
  <2>3. Simple(new, N)
    BY <2>2 DEF Simple, Tidy
  <2>4. LoopFree(new, N)
    BY <2>2 DEF LoopFree, Tidy, Nbrs
  <2>5. HalfJoined(new, g, N, n, c)
    BY <2>2, <2>3, <2>4 DEF HalfJoined, Tidy
  <2> QED BY <1>3, <1>5, <2>5 DEF new
<1> QED BY <1>4, <1>5

\* The graph with the edges between u and w.
Joined(y, x, N, u, w) ==
    /\ y \in Tidy(N)
    /\ Nbrs(y, u) = Nbrs(x, u) \cup {w} /\ Nbrs(y, w) = Nbrs(x, w) \cup {u}
    /\ \A m \in N \ {u, w} : Nbrs(y, m) = Nbrs(x, m)

\* try_insert_healed_edge inserts the edge in both directions.
LEMMA InsertRoomy ==
    ASSUME NEW N, IsFiniteSet(N), NEW g \in Tidy(N), NEW u \in N, NEW w \in N \ {u},
           NEW pos, NEW maxM \in Nat, maxM >= Cardinality(N) - 1
    PROVE  Joined(InsertEdge(g, pos, u, w, maxM), g, N, u, w)
<1>1. /\ Contains(g[u], w) <=> w \in Nbrs(g, u)
      /\ Contains(g[w], u) <=> u \in Nbrs(g, w)
  BY ContainsNbr DEF Tidy
<1>2. /\ EnsureCapacity(g, pos, u, w, maxM) = [ok |-> TRUE, graph |-> g]
      /\ EnsureCapacity(g, pos, w, u, maxM) = [ok |-> TRUE, graph |-> g]
  BY AmpleRoom
<1>3. PICK hu : hu = CommitHalfEdge(g, pos, u, w, maxM)
  OBVIOUS
<1>4. PICK hw : hw = CommitHalfEdge(g, pos, w, u, maxM)
  OBVIOUS
<1>5. PICK hb : hb = CommitHalfEdge(hu, pos, w, u, maxM)
  OBVIOUS
<1>6. HalfJoined(hu, g, N, u, w) /\ HalfJoined(hw, g, N, w, u)
  BY <1>3, <1>4, CommitRoomy
<1>7. HalfJoined(hb, hu, N, w, u)
  <2>1. hu \in Tidy(N)
    BY <1>6 DEF HalfJoined
  <2> QED BY <1>5, <2>1, CommitRoomy
<1>8. InsertEdge(g, pos, u, w, maxM) =
          IF w \in Nbrs(g, u) THEN IF u \in Nbrs(g, w) THEN g ELSE hw
          ELSE IF u \in Nbrs(g, w) THEN hu ELSE hb
  BY <1>1, <1>2, <1>3, <1>4, <1>5 DEF InsertEdge
<1>9. CASE w \in Nbrs(g, u) /\ u \in Nbrs(g, w)
  BY <1>8, <1>9 DEF Joined
<1>10. CASE w \in Nbrs(g, u) /\ u \notin Nbrs(g, w)
  <2>1. Joined(hw, g, N, u, w)
    BY <1>6, <1>10 DEF Joined, HalfJoined, Nbrs
  <2> QED BY <1>8, <1>10, <2>1
<1>11. CASE w \notin Nbrs(g, u) /\ u \in Nbrs(g, w)
  <2>1. Joined(hu, g, N, u, w)
    BY <1>6, <1>11 DEF Joined, HalfJoined, Nbrs
  <2> QED BY <1>8, <1>11, <2>1
<1>12. CASE w \notin Nbrs(g, u) /\ u \notin Nbrs(g, w)
  <2>1. Joined(hb, g, N, u, w)
    BY <1>6, <1>7 DEF Joined, HalfJoined, Nbrs
  <2> QED BY <1>8, <1>12, <2>1
<1> QED BY <1>9, <1>10, <1>11, <1>12

\* Whom the pairs of C join to m.
Mates(N, C, m) == {v \in N : <<m, v>> \in C \/ <<v, m>> \in C}

\* The candidates are all inserted.
LEMMA ReconnectRoomy ==
    ASSUME NEW N \in SUBSET Nat, IsFiniteSet(N), NEW pos \in Positions(N), NEW maxM \in Nat,
           maxM >= Cardinality(N) - 1, NEW g \in Tidy(N),
           NEW C \in SUBSET (N \X N), IsFiniteSet(C), \A c \in C : c[1] # c[2]
    PROVE  LET new == Reconnect(g, pos, C, maxM)
           IN new \in Tidy(N) /\ \A m \in N : Nbrs(new, m) = Nbrs(g, m) \cup Mates(N, C, m)
<1> DEFINE n == Cardinality(C)
           Done(r) == /\ r.graph \in Tidy(N) /\ r.left \in SUBSET C
                      /\ \A m \in N : Nbrs(r.graph, m) = Nbrs(g, m) \cup Mates(N, C \ r.left, m)
           X == [graph: Tidy(N), left: SUBSET C]
           Z == [k \in 0 .. n |-> {r \in X : Done(r)}]
<1>1. \A x \in Tidy(N), c \in C : Joined(InsertEdge(x, pos, c[1], c[2], maxM), x, N, c[1], c[2])
  <2> TAKE x \in Tidy(N), c \in C
  <2>1. c[1] \in N /\ c[2] \in N \ {c[1]}
    OBVIOUS
  <2> QED BY <2>1, InsertRoomy
<1>2. Kept(Tidy(N), N, pos, C, maxM)
  BY <1>1 DEF Kept, Joined
<1>3. PICK tried : Rounds(tried, Tidy(N), g, pos, C, maxM)
  BY <1>2, ReconnectRuns
<1>4. /\ n \in Nat /\ Reconnect(g, pos, C, maxM) = tried[n].graph
      /\ tried[0] = [graph |-> g, left |-> C] /\ tried[n].left = {}
      /\ \A k \in 0 .. n : tried[k] \in X
      /\ \A k \in 1 .. n : \E c \in tried[k - 1].left :
             tried[k] = Tried(tried[k - 1], pos, c, maxM)
  BY <1>3 DEF Rounds
<1> HIDE DEF n
<1>5. Done(tried[0])
  <2>1. \A m \in N : Mates(N, C \ C, m) = {}
    BY DEF Mates
  <2>2. tried[0].graph = g /\ tried[0].left = C
    BY <1>4
  <2>3. PICK r : r = tried[0]
    OBVIOUS
  <2>4. \A m \in N : Nbrs(r.graph, m) = Nbrs(g, m) \cup Mates(N, C \ r.left, m)
    <3> TAKE m \in N
    <3>1. Mates(N, C \ r.left, m) = {} /\ r.graph = g
      BY <2>1, <2>2, <2>3
    <3> QED BY <3>1
  <2> QED BY <2>2, <2>3, <2>4
<1>6. ASSUME NEW k \in 1 .. n, Done(tried[k - 1]) PROVE Done(tried[k])
  <2>1. PICK c \in tried[k - 1].left : tried[k] = Tried(tried[k - 1], pos, c, maxM)
    BY <1>4
  <2>2. PICK x : x = tried[k - 1].graph
    OBVIOUS
  <2>3. PICK L : L = tried[k - 1].left
    OBVIOUS
  <2>4. PICK y : y = InsertEdge(x, pos, c[1], c[2], maxM)
    OBVIOUS
  <2>5. /\ x \in Tidy(N) /\ L \in SUBSET C /\ c \in L /\ c \in C /\ c[1] \in N /\ c[2] \in N
        /\ \A m \in N : Nbrs(x, m) = Nbrs(g, m) \cup Mates(N, C \ L, m)
    BY <1>6, <2>1, <2>2, <2>3
  <2>6. tried[k].graph = y /\ tried[k].left = L \ {c}
    BY <2>1, <2>2, <2>3, <2>4 DEF Tried
  <2>7. Joined(y, x, N, c[1], c[2])
    BY <1>1, <2>4, <2>5
  <2>8. ASSUME NEW m \in N
        PROVE  Mates(N, C \ (L \ {c}), m) = 
                   Mates(N, C \ L, m) \cup IF m = c[1] THEN {c[2]} ELSE IF m = c[2] THEN {c[1]} ELSE {}
    <3>1. c = <<c[1], c[2]>> /\ c[1] # c[2]
      BY <2>5
    <3>2. C \ (L \ {c}) = (C \ L) \cup {c}
      BY <2>5
    <3>3. PICK D : D = C \ L
      OBVIOUS
    <3>4. PICK a \in N, b \in N : c = <<a, b>> /\ a = c[1] /\ b = c[2] /\ a # b
      BY <2>5, <3>1
    <3>5. Mates(N, D \cup {<<a, b>>}, m) = 
              Mates(N, D, m) \cup IF m = a THEN {b} ELSE IF m = b THEN {a} ELSE {}
      BY <3>4 DEF Mates
    <3> QED BY <3>2, <3>3, <3>4, <3>5
  <2>9. \A m \in N : Nbrs(y, m) = Nbrs(g, m) \cup Mates(N, C \ (L \ {c}), m)
    <3> TAKE m \in N
    <3>1. Nbrs(y, m) = Nbrs(x, m) \cup IF m = c[1] THEN {c[2]} ELSE IF m = c[2] THEN {c[1]} ELSE {}
      BY <2>5, <2>7 DEF Joined
    <3> QED BY <2>5, <2>8, <3>1
  <2>10. y \in Tidy(N) /\ L \ {c} \in SUBSET C
    BY <2>5, <2>7 DEF Joined
  <2> QED BY <2>6, <2>9, <2>10
<1>7. Done(tried[n])
  <2> HIDE DEF Done, X
  <2>1. \A k \in 0 .. n : Z[k] = {r \in X : Done(r)}
    OBVIOUS
  <2>2. tried[0] \in Z[0] /\ 0 \in 0 .. n /\ n \in 0 .. n
    BY <1>4, <1>5, <2>1
  <2>3. \A k \in 1 .. n : tried[k - 1] \in Z[k - 1] => tried[k] \in Z[k]
    <3> SUFFICES ASSUME NEW k \in 1 .. n, tried[k - 1] \in Z[k - 1] PROVE tried[k] \in Z[k]
      OBVIOUS
    <3>1. k - 1 \in 0 .. n /\ k \in 0 .. n
      BY <1>4
    <3> HIDE DEF Z
    <3> QED BY <1>4, <1>6, <2>1, <3>1
  <2> HIDE DEF Z
  <2> QED BY <1>4, <2>1, <2>2, <2>3, LoopKeeps
<1>8. C \ {} = C
  OBVIOUS
<1> QED BY <1>4, <1>7, <1>8

\* Any two orphans are a candidate, in one order or the other.
LEMMA OrphansArePaired ==
    ASSUME NEW N, NEW g \in Graphs(N), NEW q \in N, NEW m \in N
    PROVE  Mates(N, Candidates(g, q), m) =
               IF m \in OrphansOf(g, q) THEN OrphansOf(g, q) \ {m} ELSE {}
<1> DEFINE s == g[q]
           O == OrphansOf(g, q)
<1>1. /\ s \in Seq(N) /\ Nbrs(g, q) = {s[i] : i \in DOMAIN s} /\ O \subseteq N
      /\ \A i \in DOMAIN s : i \in Nat
  BY NbrsOfNode DEF Graphs, Nbrs, ToSet, OrphansOf
<1>2. ASSUME NEW v \in O PROVE \E i \in Orphans(g, q) : s[i] = v
  <2> DEFINE At == {i \in DOMAIN s : s[i] = v}
  <2>1. At \subseteq Nat /\ At # {}
    BY <1>1 DEF OrphansOf
  <2>2. PICK i \in At : \A j \in At : ~(<<j, i>> \in OpToRel(<, Nat))
    <3> HIDE DEF At
    <3> QED BY <2>1, NatLessThanWellFounded, WFMin
  <2>3. \A j \in 1 .. (i - 1) : j \in DOMAIN s /\ j \in Nat /\ j < i
    BY <1>1
  <2>4. \A j \in 1 .. (i - 1) : s[j] # v
    <3> SUFFICES ASSUME NEW j \in 1 .. (i - 1), s[j] = v PROVE FALSE
      OBVIOUS
    <3>1. j \in At /\ i \in Nat /\ j \in Nat /\ j < i
      BY <1>1, <2>3
    <3> HIDE DEF At
    <3> QED BY <2>2, <3>1 DEF OpToRel
  <2>5. i \in DOMAIN s /\ s[i] = v /\ v # q
    BY DEF OrphansOf
  <2> QED BY <2>4, <2>5 DEF Orphans
<1>3. \A i \in Orphans(g, q) : i \in Nat /\ s[i] \in O /\ s[i] \in N
  BY <1>1 DEF Orphans, OrphansOf
<1>4. \A i, j \in Orphans(g, q) : i < j => <<s[i], s[j]>> \in Candidates(g, q)
  <2> SUFFICES ASSUME NEW i \in Orphans(g, q), NEW j \in Orphans(g, q), i < j
               PROVE  <<s[i], s[j]>> \in Candidates(g, q)
    OBVIOUS
  <2>1. <<i, j>> \in {p \in Orphans(g, q) \X Orphans(g, q) : p[1] < p[2]}
    OBVIOUS
  <2> QED BY <2>1 DEF Candidates
<1>5. \A c \in Candidates(g, q) : \E i, j \in Orphans(g, q) : i < j /\ c = <<s[i], s[j]>>
  BY DEF Candidates
<1>6. \A i, j \in Orphans(g, q) : i < j => s[i] # s[j]
  <2> SUFFICES ASSUME NEW i \in Orphans(g, q), NEW j \in Orphans(g, q), i < j PROVE s[i] # s[j]
    OBVIOUS
  <2>1. i \in 1 .. (j - 1)
    BY <1>1, <1>3 DEF Orphans
  <2> QED BY <2>1 DEF Orphans
<1> HIDE DEF s, O
<1>7. \A a, b \in N : <<a, b>> \in Candidates(g, q) => a \in O /\ b \in O /\ a # b
  BY <1>3, <1>5, <1>6
<1>8. \A a, b \in O : a # b => <<a, b>> \in Candidates(g, q) \/ <<b, a>> \in Candidates(g, q)
  <2> SUFFICES ASSUME NEW a \in O, NEW b \in O, a # b
               PROVE  <<a, b>> \in Candidates(g, q) \/ <<b, a>> \in Candidates(g, q)
    OBVIOUS
  <2>1. PICK i \in Orphans(g, q) : s[i] = a
    BY <1>2
  <2>2. PICK j \in Orphans(g, q) : s[j] = b
    BY <1>2
  <2>3. i < j \/ j < i
    BY <1>3, <2>1, <2>2
  <2> QED BY <1>4, <2>1, <2>2, <2>3
<1>9. Mates(N, Candidates(g, q), m) = IF m \in O THEN O \ {m} ELSE {}
  BY <1>1, <1>7, <1>8 DEF Mates
<1> QED BY <1>9 DEF O

\* The graph without q, its neighbours joined to each other.
Healed(y, g, N, q) ==
    /\ y \in Tidy(N) /\ Nbrs(y, q) = {}
    /\ \A m \in N \ {q} :
           Nbrs(y, m) = (Nbrs(g, m) \ {q}) \cup
                        (IF m \in OrphansOf(g, q) THEN OrphansOf(g, q) \ {m} ELSE {})

\* What heal_graph_structure does if it has seen every list that q is in.
LEMMA HealRoomy ==
    ASSUME NEW N \in SUBSET Nat, IsFiniteSet(N), NEW pos \in Positions(N), NEW maxM \in Nat,
           maxM >= Cardinality(N) - 1, NEW g \in Tidy(N), NEW q \in N, NEW region,
           \A n \in N : q \in Nbrs(g, n) => n \in region \cup Nbrs(g, q)
    PROVE  Healed(Heal(g, pos, q, region, maxM), g, N, q)
<1> DEFINE cut == Sever(g, q, region)
           C == Candidates(g, q)
           new == Heal(g, pos, q, region, maxM)
<1>1. g \in Graphs(N)
  BY DEF Tidy
<1>2. /\ cut \in Graphs(N) /\ cut[q] = <<>>
      /\ \A n \in N \ {q} : n \in region \cup Nbrs(g, q) => Nbrs(cut, n) = Nbrs(g, n) \ {q}
      /\ \A n \in N \ {q} : n \notin region \cup Nbrs(g, q) => cut[n] = g[n]
      /\ \A n \in N : /\ Nbrs(cut, n) \subseteq Nbrs(g, n)
                      /\ NoRepeats(g[n]) => NoRepeats(cut[n])
  BY <1>1, SeverEffect
<1>3. /\ C \in SUBSET (N \X N) /\ IsFiniteSet(C) /\ \A c \in C : c[1] # c[2]
  BY <1>1, CandidatesAreOrphans
<1>4. new = Reconnect(cut, pos, C, maxM)
  BY DEF Heal
<1>5. \A m \in N : Mates(N, C, m) = IF m \in OrphansOf(g, q) THEN OrphansOf(g, q) \ {m} ELSE {}
  BY <1>1, OrphansArePaired
<1> HIDE DEF cut, C, new
<1>6. cut \in Tidy(N)
  BY <1>2 DEF Tidy, Simple, LoopFree
<1>7. new \in Tidy(N) /\ \A m \in N : Nbrs(new, m) = Nbrs(cut, m) \cup Mates(N, C, m)
  BY <1>3, <1>4, <1>6, ReconnectRoomy
<1>8. Nbrs(cut, q) = {} /\ \A m \in N \ {q} : Nbrs(cut, m) = Nbrs(g, m) \ {q}
  <2>1. Nbrs(cut, q) = {}
    BY <1>2, NbrsOfNode
  <2>2. ASSUME NEW m \in N \ {q} PROVE Nbrs(cut, m) = Nbrs(g, m) \ {q}
    <3>1. CASE m \in region \cup Nbrs(g, q)
      BY <1>2, <3>1
    <3>2. CASE m \notin region \cup Nbrs(g, q)
      BY <1>2, <3>2 DEF Nbrs
    <3> QED BY <3>1, <3>2
  <2> QED BY <2>1, <2>2
<1>9. q \notin OrphansOf(g, q)
  BY DEF OrphansOf
<1>10. Healed(new, g, N, q)
  BY <1>5, <1>7, <1>8, <1>9 DEF Healed
<1> QED BY <1>10 DEF new

-----------------------------------------------------------------------------
(* How the nodes hang together. *)

\* An edge is answered by one back, or by a common neighbour of both ends, so
\* that the 2-hop region of a node has every node that links to it.
Covered(g, N) ==
    \A n, r \in N : r \in Nbrs(g, n) =>
        \/ n \in Nbrs(g, r)
        \/ \E u \in N : /\ u \in Nbrs(g, r) /\ r \in Nbrs(g, u)
                        /\ u \in Nbrs(g, n) /\ n \in Nbrs(g, u)

LEMMA RegionHasLinks ==
    ASSUME NEW num \in Nat, NEW g, Covered(g, 0 .. (num - 1)), NEW q \in 0 .. (num - 1)
    PROVE  \A n \in 0 .. (num - 1) : q \in Nbrs(g, n) => n \in Region(g, q, num)
BY DEF Covered, Region

LEMMA HealKeepsCover ==
    ASSUME NEW N, NEW g, NEW y, NEW q \in N, Covered(g, N), Healed(y, g, N, q)
    PROVE  Covered(y, N)
<1> SUFFICES ASSUME NEW n \in N, NEW r \in N, r \in Nbrs(y, n), n \notin Nbrs(y, r)
             PROVE  \E u \in N : /\ u \in Nbrs(y, r) /\ r \in Nbrs(y, u)
                                 /\ u \in Nbrs(y, n) /\ n \in Nbrs(y, u)
  BY DEF Covered
<1>1. n # q /\ r # q
  BY DEF Healed, OrphansOf
<1>2. \A a, b \in OrphansOf(g, q) : a # b /\ a \in N => b \in Nbrs(y, a)
  BY DEF Healed, OrphansOf
<1>3. r \in Nbrs(g, n) /\ n \notin Nbrs(g, r)
  BY <1>1 DEF Healed
<1>4. PICK u \in N : /\ u \in Nbrs(g, r) /\ r \in Nbrs(g, u)
                     /\ u \in Nbrs(g, n) /\ n \in Nbrs(g, u)
  BY <1>3 DEF Covered
<1>5. CASE u = q
  <2>1. n \in OrphansOf(g, q) /\ r \in OrphansOf(g, q) /\ n # r
    BY <1>1, <1>3, <1>4, <1>5 DEF OrphansOf
  <2> QED BY <1>2, <2>1
<1>6. CASE u # q
  <2>1. \A a, b \in {n, r, u} : b \in Nbrs(g, a) => b \in Nbrs(y, a)
    BY <1>1, <1>6 DEF Healed
  <2> QED BY <1>4, <2>1
<1> QED BY <1>5, <1>6

\* Every node of L can be reached from every other: no proper part of it that is
\* not empty has all its neighbours.
Connected(g, L) ==
    \A S \in SUBSET L : S # {} /\ (\A n \in S : Nbrs(g, n) \subseteq S) => S = L

LEMMA HealKeepsConnected ==
    ASSUME NEW N, NEW g \in Tidy(N), NEW y, NEW q \in N, Covered(g, N), Healed(y, g, N, q),
           NEW L \in SUBSET N, Connected(g, L), \A n \in N \ L : Isolated(g, N, n)
    PROVE  Connected(y, L \ {q})
<1> SUFFICES ASSUME NEW S \in SUBSET (L \ {q}), S # {}, \A n \in S : Nbrs(y, n) \subseteq S
             PROVE  S = L \ {q}
  BY DEF Connected
<1> DEFINE O == OrphansOf(g, q)
<1>1. /\ \A m \in S : Nbrs(g, m) \ {q} \subseteq Nbrs(y, m) /\ m \in N
      /\ \A m \in S : m \in O => O \ {m} \subseteq Nbrs(y, m)
      /\ \A m \in S : Nbrs(g, m) \subseteq S \cup {q}
      /\ \A m \in N : Nbrs(g, m) \subseteq N
  BY NbrsOfNode DEF Healed, Tidy
<1>2. q \notin Nbrs(g, q) /\ O = Nbrs(g, q)
  BY DEF OrphansOf, Tidy, LoopFree
<1> HIDE DEF O
<1>3. CASE \A s \in S : q \notin Nbrs(g, s)
  <2>1. \A n \in S : Nbrs(g, n) \subseteq S
    BY <1>1, <1>3
  <2>2. S = L
    BY <2>1 DEF Connected
  <2> QED BY <2>2
<1>4. CASE \E s \in S : q \in Nbrs(g, s)
  <2>1. PICK s \in S : q \in Nbrs(g, s)
    BY <1>4
  <2>2. q \in L
    BY <2>1 DEF Isolated
  <2>3. O \cap S # {}
    <3>1. CASE s \in Nbrs(g, q)
      BY <1>2, <3>1
    <3>2. CASE s \notin Nbrs(g, q)
      <4>1. PICK u \in N : u \in Nbrs(g, q) /\ u \in Nbrs(g, s)
        BY <2>1, <3>2 DEF Covered
      <4>2. u # q
        BY <1>2, <4>1
      <4>3. u \in S
        BY <1>1, <4>1, <4>2
      <4> QED BY <1>2, <4>1, <4>3
    <3> QED BY <3>1, <3>2
  <2>4. O \subseteq S
    <3>1. PICK m : m \in O /\ m \in S
      BY <2>3
    <3>2. O \ {m} \subseteq Nbrs(y, m) /\ Nbrs(y, m) \subseteq S
      BY <1>1, <3>1
    <3> QED BY <3>1, <3>2
  <2>5. \A n \in S \cup {q} : Nbrs(g, n) \subseteq S \cup {q}
    BY <1>1, <1>2, <2>4
  <2>6. S \cup {q} \in SUBSET L /\ S \cup {q} # {}
    BY <2>2
  <2>7. S \cup {q} = L
    BY <2>5, <2>6 DEF Connected
  <2> QED BY <2>7
<1> QED BY <1>3, <1>4

-----------------------------------------------------------------------------
(* Graphs whose edges all go both ways, whatever the cap. *)

Mutual(g, N) == \A a, b \in N : b \in Nbrs(g, a) => a \in Nbrs(g, b)

Capped(N, maxM) == {g \in Tidy(N) : Mutual(g, N) /\ \A n \in N : Len(g[n]) <= maxM}

LEMMA EvictMutual ==
    ASSUME NEW N, NEW maxM \in Nat, NEW g \in Capped(N, maxM), NEW n \in N, NEW i \in DOMAIN g[n]
    PROVE  /\ Evict(g, n, i) \in Capped(N, maxM) /\ Len(Evict(g, n, i)[n]) < maxM
           /\ \A m \in N : /\ Nbrs(Evict(g, n, i), m) \subseteq Nbrs(g, m)
                           /\ Len(Evict(g, n, i)[m]) <= Len(g[m])
<1> DEFINE far == g[n][i]
           new == Evict(g, n, i)
<1>1. g \in Graphs(N) /\ Simple(g, N) /\ LoopFree(g, N) /\ far \in Nbrs(g, n)
  BY DEF Capped, Tidy, Nbrs, ToSet
<1>2. far # n
  BY <1>1 DEF LoopFree
<1>3. /\ far \in N /\ new \in Graphs(N)
      /\ \A m \in N \ {n, far} : new[m] = g[m]
      /\ \A m \in N : Nbrs(new, m) \subseteq Nbrs(g, m) /\ Len(new[m]) <= Len(g[m])
      /\ Len(new[n]) < Len(g[n])
      /\ Simple(new, N)
      /\ Nbrs(new, n) = Nbrs(g, n) \ {far}
      /\ Nbrs(new, far) = Nbrs(g, far) \ {n}
  <2>1. Evicted(new, g, N, n, far)
    BY <1>1, EvictEffect
  <2> HIDE DEF new, far
  <2> QED BY <1>1, <1>2, <2>1 DEF Evicted
<1> HIDE DEF far, new
<1>4. \A m \in N : Len(g[m]) \in Nat /\ Len(new[m]) \in Nat /\ Len(g[m]) <= maxM
  BY <1>1, <1>3 DEF Graphs, Capped
<1>5. LoopFree(new, N)
  BY <1>1, <1>3 DEF LoopFree
<1>6. Mutual(new, N)
  <2>1. \A m \in N \ {n, far} : Nbrs(new, m) = Nbrs(g, m)
    BY <1>3 DEF Nbrs
  <2>2. Mutual(g, N)
    BY DEF Capped
  <2> QED BY <1>2, <1>3, <2>1, <2>2 DEF Mutual
<1>7. \A m \in N : Len(new[m]) <= maxM
  BY <1>3, <1>4
<1>8. Len(new[n]) < maxM
  BY <1>3, <1>4
<1> QED BY <1>3, <1>5, <1>6, <1>7, <1>8 DEF Capped, Tidy, new

\* A full list gives up an edge in both directions, or the candidate is turned down.
Spared(g, room, N, maxM, n) ==
    /\ room.graph \in Capped(N, maxM) /\ (room.ok => Len(room.graph[n]) < maxM)
    /\ \A m \in N : /\ Nbrs(room.graph, m) \subseteq Nbrs(g, m)
                    /\ Len(room.graph[m]) <= Len(g[m])

LEMMA RoomMutual ==
    ASSUME NEW N, NEW maxM \in Nat \ {0}, NEW g \in Capped(N, maxM), NEW pos \in Positions(N),
           NEW n \in N, NEW c \in N, c \notin Nbrs(g, n)
    PROVE  Spared(g, EnsureCapacity(g, pos, n, c, maxM), N, maxM, n)
<1> DEFINE room == EnsureCapacity(g, pos, n, c, maxM)
<1>1. g \in Graphs(N) /\ \A m \in N : Len(g[m]) \in Nat
  BY DEF Capped, Tidy, Graphs
<1>2. \/ room.graph = g /\ (room.ok <=> c \in Nbrs(g, n) \/ Len(g[n]) < maxM)
      \/ \E i \in DOMAIN g[n] : room.graph = Evict(g, n, i)
  BY <1>1, RoomEffect
<1> HIDE DEF room
<1>3. CASE room.graph = g /\ (room.ok <=> c \in Nbrs(g, n) \/ Len(g[n]) < maxM)
  BY <1>1, <1>3 DEF Spared, room
<1>4. CASE \E i \in DOMAIN g[n] : room.graph = Evict(g, n, i)
  <2>1. PICK i \in DOMAIN g[n] : room.graph = Evict(g, n, i)
    BY <1>4
  <2>2. /\ Evict(g, n, i) \in Capped(N, maxM) /\ Len(Evict(g, n, i)[n]) < maxM
        /\ \A m \in N : /\ Nbrs(Evict(g, n, i), m) \subseteq Nbrs(g, m)
                        /\ Len(Evict(g, n, i)[m]) <= Len(g[m])
    BY EvictMutual
  <2> QED BY <2>1, <2>2 DEF Spared, room
<1> QED BY <1>2, <1>3, <1>4

\* With room at both ends, the edge is committed in both directions.
LEMMA CommitMutual ==
    ASSUME NEW N, NEW maxM \in Nat \ {0}, NEW g \in Capped(N, maxM), NEW pos,
           NEW u \in N, NEW w \in N \ {u}, w \notin Nbrs(g, u), u \notin Nbrs(g, w),
           Len(g[u]) < maxM, Len(g[w]) < maxM
    PROVE  CommitHalfEdge(CommitHalfEdge(g, pos, u, w, maxM), pos, w, u, maxM) \in Capped(N, maxM)
<1>1. /\ g \in Graphs(N) /\ Simple(g, N) /\ LoopFree(g, N) /\ Mutual(g, N)
      /\ \A m \in N : Len(g[m]) \in Nat /\ Len(g[m]) <= maxM
  BY DEF Capped, Tidy, Graphs
<1>2. ASSUME NEW x \in Graphs(N), NEW a \in N, NEW b \in N, b \notin Nbrs(x, a), Len(x[a]) < maxM
      PROVE  CommitHalfEdge(x, pos, a, b, maxM) = HalfEdge(x, a, b)
  <2>1. ~Contains(x[a], b) /\ Len(x[a]) \in Nat
    <3>1. Len(x[a]) \in Nat
      BY DEF Graphs
    <3> QED BY <1>2, <3>1, ContainsNbr
  <2>2. EnsureCapacity(x, pos, a, b, maxM) = [ok |-> TRUE, graph |-> x]
    BY <1>2 DEF EnsureCapacity
  <2> QED BY <1>2, <2>1, <2>2 DEF CommitHalfEdge, HalfEdge
<1>3. PICK hu : hu = HalfEdge(g, u, w)
  OBVIOUS
<1>4. PICK hb : hb = HalfEdge(hu, w, u)
  OBVIOUS
<1>5. Longer(hu, g, N, u, w)
  BY <1>1, <1>3, AppendEffect
<1>6. /\ hu \in Graphs(N) /\ hu[w] = g[w] /\ \A m \in N \ {u} : hu[m] = g[m]
      /\ Nbrs(hu, u) = Nbrs(g, u) \cup {w} /\ NoRepeats(hu[u]) /\ Len(hu[u]) = Len(g[u]) + 1
  BY <1>1, <1>5 DEF Longer, Simple
<1>7. Longer(hb, hu, N, w, u)
  BY <1>4, <1>6, AppendEffect
<1>8. u \notin Nbrs(hu, w) /\ NoRepeats(hu[w]) /\ Len(hu[w]) < maxM
  BY <1>1, <1>6 DEF Nbrs, Simple
<1>9. /\ hb \in Graphs(N) /\ hb[u] = hu[u] /\ \A m \in N \ {u, w} : hb[m] = g[m]
      /\ Nbrs(hb, w) = Nbrs(hu, w) \cup {u} /\ NoRepeats(hb[w]) /\ Len(hb[w]) = Len(g[w]) + 1
  BY <1>6, <1>7, <1>8 DEF Longer
<1>10. CommitHalfEdge(CommitHalfEdge(g, pos, u, w, maxM), pos, w, u, maxM) = hb
  BY <1>1, <1>2, <1>3, <1>4, <1>6, <1>8
<1>11. /\ Nbrs(hb, u) = Nbrs(g, u) \cup {w} /\ Nbrs(hb, w) = Nbrs(g, w) \cup {u}
       /\ \A m \in N \ {u, w} : Nbrs(hb, m) = Nbrs(g, m)
  BY <1>6, <1>9 DEF Nbrs
<1>12. Simple(hb, N)
  BY <1>1, <1>6, <1>9 DEF Simple
<1>13. LoopFree(hb, N)
  BY <1>1, <1>11 DEF LoopFree
<1>14. Mutual(hb, N)
  BY <1>1, <1>11 DEF Mutual
<1>15. \A m \in N : Len(hb[m]) <= maxM
  BY <1>1, <1>6, <1>9
<1> QED BY <1>9, <1>10, <1>12, <1>13, <1>14, <1>15 DEF Capped, Tidy

\* try_insert_healed_edge never leaves half an edge behind.
LEMMA InsertMutual ==
    ASSUME NEW N, NEW maxM \in Nat \ {0}, NEW g \in Capped(N, maxM), NEW pos \in Positions(N),
           NEW u \in N, NEW w \in N \ {u}
    PROVE  InsertEdge(g, pos, u, w, maxM) \in Capped(N, maxM)
<1>1. g \in Graphs(N) /\ Mutual(g, N)
  BY DEF Capped, Tidy
<1>2. /\ Contains(g[u], w) <=> w \in Nbrs(g, u)
      /\ Contains(g[w], u) <=> u \in Nbrs(g, w)
      /\ w \in Nbrs(g, u) <=> u \in Nbrs(g, w)
  BY <1>1, ContainsNbr DEF Mutual
<1>3. CASE w \in Nbrs(g, u)
  BY <1>2, <1>3 DEF InsertEdge
<1>4. CASE w \notin Nbrs(g, u)
  <2>1. PICK roomU : roomU = EnsureCapacity(g, pos, u, w, maxM)
    OBVIOUS
  <2>2. PICK gu : gu = roomU.graph
    OBVIOUS
  <2>3. PICK roomW : roomW = EnsureCapacity(gu, pos, w, u, maxM)
    OBVIOUS
  <2>4. PICK gw : gw = roomW.graph
    OBVIOUS
  <2>5. Spared(g, roomU, N, maxM, u)
    BY <1>4, <2>1, RoomMutual
  <2>6. /\ gu \in Capped(N, maxM) /\ (roomU.ok => Len(gu[u]) < maxM)
        /\ \A m \in N : Nbrs(gu, m) \subseteq Nbrs(g, m)
    BY <2>2, <2>5 DEF Spared
  <2>7. u \notin Nbrs(gu, w)
    BY <1>2, <1>4, <2>6
  <2>8. Spared(gu, roomW, N, maxM, w)
    BY <2>3, <2>6, <2>7, RoomMutual
  <2>9. /\ gw \in Capped(N, maxM) /\ (roomW.ok => Len(gw[w]) < maxM)
        /\ \A m \in N : Nbrs(gw, m) \subseteq Nbrs(gu, m) /\ Len(gw[m]) <= Len(gu[m])
    BY <2>4, <2>8 DEF Spared
  <2>10. InsertEdge(g, pos, u, w, maxM) =
             IF roomU.ok
             THEN IF roomW.ok
                  THEN CommitHalfEdge(CommitHalfEdge(gw, pos, u, w, maxM), pos, w, u, maxM)
                  ELSE gw
             ELSE g
    BY <1>2, <1>4, <2>1, <2>2, <2>3, <2>4 DEF InsertEdge
  <2>11. ASSUME roomU.ok, roomW.ok
         PROVE  CommitHalfEdge(CommitHalfEdge(gw, pos, u, w, maxM), pos, w, u, maxM)
                    \in Capped(N, maxM)
    <3>1. w \notin Nbrs(gw, u) /\ u \notin Nbrs(gw, w)
      BY <1>2, <1>4, <2>6, <2>9
    <3>2. Len(gw[u]) \in Nat /\ Len(gu[u]) \in Nat
      BY <2>6, <2>9 DEF Capped, Tidy, Graphs
    <3>3. Len(gw[u]) < maxM /\ Len(gw[w]) < maxM
      BY <2>6, <2>9, <2>11, <3>2
    <3> QED BY <2>9, <3>1, <3>3, CommitMutual
  <2> QED BY <2>9, <2>10, <2>11
<1> QED BY <1>3, <1>4

\* A repair of such a graph makes such a graph, in which its node is isolated,
\* whatever region it has seen.
LEMMA HealMutual ==
    ASSUME NEW N \in SUBSET Nat, IsFiniteSet(N), NEW pos \in Positions(N), NEW maxM \in Nat \ {0},
           NEW g \in Capped(N, maxM), NEW q \in N, NEW region
    PROVE  /\ Heal(g, pos, q, region, maxM) \in Capped(N, maxM)
           /\ Isolated(Heal(g, pos, q, region, maxM), N, q)
<1> DEFINE cut == Sever(g, q, region)
           C == Candidates(g, q)
<1>1. /\ g \in Graphs(N) /\ Simple(g, N) /\ LoopFree(g, N) /\ Mutual(g, N)
      /\ \A m \in N : Len(g[m]) \in Nat /\ Len(g[m]) <= maxM
  BY DEF Capped, Tidy, Graphs
<1>2. \A n \in N : q \in Nbrs(g, n) => n \in region \cup Nbrs(g, q)
  BY <1>1 DEF Mutual
<1>3. /\ cut \in Graphs(N) /\ cut[q] = <<>>
      /\ \A n \in N \ {q} : n \in region \cup Nbrs(g, q) => Nbrs(cut, n) = Nbrs(g, n) \ {q}
      /\ \A n \in N \ {q} : n \notin region \cup Nbrs(g, q) => cut[n] = g[n]
      /\ \A n \in N : /\ Nbrs(cut, n) \subseteq Nbrs(g, n) /\ Len(cut[n]) <= Len(g[n])
                      /\ NoRepeats(g[n]) => NoRepeats(cut[n])
  BY <1>1, SeverEffect
<1>4. C \in SUBSET (N \X N) /\ IsFiniteSet(C) /\ \A c \in C : c[1] # c[2]
  BY <1>1, CandidatesAreOrphans
<1>5. Heal(g, pos, q, region, maxM) = Reconnect(cut, pos, C, maxM)
  BY DEF Heal
<1> HIDE DEF cut, C
<1>6. cut \in Capped(N, maxM)
  <2>1. Nbrs(cut, q) = {}
    BY <1>3, NbrsOfNode
  <2>2. \A m \in N \ {q} : Nbrs(cut, m) = Nbrs(g, m) \ {q}
    <3> TAKE m \in N \ {q}
    <3>1. CASE m \in region \cup Nbrs(g, q)
      BY <1>3, <3>1
    <3>2. CASE m \notin region \cup Nbrs(g, q)
      BY <1>2, <1>3, <3>2 DEF Nbrs
    <3> QED BY <3>1, <3>2
  <2>3. Mutual(cut, N)
    BY <1>1, <2>1, <2>2 DEF Mutual
  <2>4. Simple(cut, N) /\ LoopFree(cut, N)
    BY <1>1, <1>3 DEF Simple, LoopFree
  <2>5. \A m \in N : Len(cut[m]) <= maxM
    <3>1. \A m \in N : Len(cut[m]) \in Nat
      BY <1>3 DEF Graphs
    <3> QED BY <1>1, <1>3, <3>1
  <2> QED BY <1>3, <2>3, <2>4, <2>5 DEF Capped, Tidy
<1>7. \A x \in Capped(N, maxM), c \in C : InsertEdge(x, pos, c[1], c[2], maxM) \in Capped(N, maxM)
  <2> TAKE x \in Capped(N, maxM), c \in C
  <2>1. c[1] \in N /\ c[2] \in N \ {c[1]}
    BY <1>4
  <2> QED BY <2>1, InsertMutual
<1>8. Kept(Capped(N, maxM), N, pos, C, maxM)
  BY <1>4, <1>7 DEF Kept
<1>9. Reconnect(cut, pos, C, maxM) \in Capped(N, maxM)
  BY <1>6, <1>8, ReconnectStays
<1>10. Isolated(Heal(g, pos, q, region, maxM), N, q)
  BY <1>1, <1>2, HealIsolates
<1> QED BY <1>5, <1>9, <1>10

-----------------------------------------------------------------------------
(* The graphs an index begins with. *)

\* A graph that a repair leaves in order as long as no list is full: no repeats,
\* no loops, answered edges, every node within reach of every other.
WellLinked(g, N) == g \in Tidy(N) /\ Covered(g, N) /\ Connected(g, N)

LEMMA RingSteps ==
    ASSUME NEW num \in Nat, num >= 4, NEW i \in 0 .. (num - 1)
    PROVE  /\ (i + (-1)) % num = IF i = 0 THEN num - 1 ELSE i - 1
           /\ (i + 1) % num = IF i = num - 1 THEN 0 ELSE i + 1
           /\ (i + 2) % num = IF i >= num - 2 THEN i + 2 - num ELSE i + 2
OBVIOUS

\* What POST /ingest links.
LEMMA IngestRing ==
    ASSUME NEW num \in Nat, num >= 4
    PROVE  WellLinked(Ring(num, <<-1, 1, 2>>), 0 .. (num - 1))
<1> DEFINE N == 0 .. (num - 1)
           P(i) == IF i = 0 THEN num - 1 ELSE i - 1
           S(i) == IF i = num - 1 THEN 0 ELSE i + 1
           T(i) == IF i >= num - 2 THEN i + 2 - num ELSE i + 2
           g == Ring(num, <<-1, 1, 2>>)
<1>1. \A i \in N : /\ P(i) \in N /\ S(i) \in N /\ T(i) \in N
                   /\ P(i) # S(i) /\ P(i) # T(i) /\ S(i) # T(i)
                   /\ i # P(i) /\ i # S(i) /\ i # T(i)
                   /\ P(S(i)) = i /\ S(P(i)) = i /\ S(S(i)) = T(i)
  OBVIOUS
<1>2. \A i \in N : g[i] = <<P(i), S(i), T(i)>>
  <2> TAKE i \in N
  <2>1. g[i] = [k \in 1 .. 3 |-> (i + <<-1, 1, 2>>[k]) % num]
    BY DEF Ring
  <2>2. g[i] = <<(i + (-1)) % num, (i + 1) % num, (i + 2) % num>>
    BY <2>1
  <2>3. (i + (-1)) % num = P(i) /\ (i + 1) % num = S(i) /\ (i + 2) % num = T(i)
    BY RingSteps
  <2> HIDE DEF P, S, T, g
  <2> QED BY <2>2, <2>3
<1>3. DOMAIN g = N /\ g = [i \in N |-> g[i]]
  BY DEF Ring
<1> HIDE DEF g, P, S, T, N
<1>4. g \in Graphs(N)
  <2>1. \A a, b, c \in N : <<a, b, c>> \in Seq(N)
    OBVIOUS
  <2>2. ASSUME NEW i \in N PROVE g[i] \in Seq(N)
    <3>1. PICK a \in N, b \in N, c \in N : a = P(i) /\ b = S(i) /\ c = T(i)
      BY <1>1
    <3>2. g[i] = <<a, b, c>>
      BY <1>2, <3>1
    <3> QED BY <2>1, <3>2
  <2> QED BY <1>3, <2>2 DEF Graphs
<1>5. \A i \in N : NoRepeats(g[i]) /\ Nbrs(g, i) = {P(i), S(i), T(i)}
  <2> TAKE i \in N
  <2>1. PICK a \in N, b \in N, c \in N : g[i] = <<a, b, c>> /\ a = P(i) /\ b = S(i) /\ c = T(i)
    BY <1>1, <1>2
  <2>2. NoRepeats(<<a, b, c>>) /\ ToSet(<<a, b, c>>) = {a, b, c}
    BY <1>1, <2>1 DEF NoRepeats, ToSet
  <2> QED BY <2>1, <2>2 DEF Nbrs
<1>6. g \in Tidy(N)
  BY <1>1, <1>4, <1>5 DEF Tidy, Simple, LoopFree
<1>7. Covered(g, N)
  <2> SUFFICES ASSUME NEW n \in N, NEW r \in N, r \in Nbrs(g, n)
               PROVE  \/ n \in Nbrs(g, r)
                      \/ \E u \in N : /\ u \in Nbrs(g, r) /\ r \in Nbrs(g, u)
                                      /\ u \in Nbrs(g, n) /\ n \in Nbrs(g, u)
    BY DEF Covered
  <2>1. r \in {P(n), S(n), T(n)}
    BY <1>5
  <2>2. CASE r = P(n)
    BY <1>1, <1>5, <2>2
  <2>3. CASE r = S(n)
    BY <1>1, <1>5, <2>3
  <2>4. CASE r = T(n)
    <3>1. PICK u \in N : u = S(n)
      BY <1>1
    <3>2. r = S(u) /\ P(r) = u /\ P(u) = n
      BY <1>1, <2>4, <3>1
    <3> QED BY <1>5, <3>1, <3>2
  <2> QED BY <2>1, <2>2, <2>3, <2>4
<1>8. Connected(g, N)
  <2> SUFFICES ASSUME NEW R \in SUBSET N, R # {}, \A n \in R : Nbrs(g, n) \subseteq R
               PROVE  R = N
    BY DEF Connected
  <2>1. PICK x \in R : \A y \in R : ~(<<y, x>> \in OpToRel(<, Nat))
    <3>1. R \subseteq Nat
      BY DEF N
    <3> QED BY <3>1, NatLessThanWellFounded, WFMin
  <2>2. \A n \in R : P(n) \in R /\ S(n) \in R
    BY <1>5
  <2>3. 0 \in R
    <3> SUFFICES ASSUME x # 0 PROVE FALSE
      BY <2>1
    <3>1. x \in Nat /\ x - 1 \in Nat /\ x - 1 < x /\ P(x) = x - 1
      BY DEF N, P
    <3>2. x - 1 \in R
      BY <2>2, <3>1
    <3> QED BY <2>1, <3>1, <3>2 DEF OpToRel
  <2> DEFINE U == {k \in Nat : k < num => k \in R}
  <2>4. 0 \in U
    BY <2>3
  <2>5. \A k \in Nat : k \in U => k + 1 \in U
    <3> SUFFICES ASSUME NEW k \in Nat, k \in U, k + 1 < num PROVE k + 1 \in R
      OBVIOUS
    <3>1. k \in R /\ S(k) = k + 1
      BY DEF S
    <3> QED BY <2>2, <3>1
  <2>6. \A k \in Nat : k \in U
    <3> HIDE DEF U
    <3> QED BY <2>4, <2>5, SetInduction
  <2>7. \A k \in N : k \in Nat /\ k < num
    BY DEF N
  <2> QED BY <2>6, <2>7
<1> QED BY <1>6, <1>7, <1>8 DEF WellLinked, g, N

\* A ring of neighbours.
LEMMA PlainRing ==
    ASSUME NEW num \in Nat, num >= 4, NEW maxM \in Nat, maxM >= 2
    PROVE  Ring(num, <<-1, 1>>) \in Capped(0 .. (num - 1), maxM)
<1> DEFINE N == 0 .. (num - 1)
           P(i) == IF i = 0 THEN num - 1 ELSE i - 1
           S(i) == IF i = num - 1 THEN 0 ELSE i + 1
           g == Ring(num, <<-1, 1>>)
<1>1. \A i \in N : /\ P(i) \in N /\ S(i) \in N /\ P(i) # S(i) /\ i # P(i) /\ i # S(i)
                   /\ P(S(i)) = i /\ S(P(i)) = i
  OBVIOUS
<1>2. \A i \in N : g[i] = <<P(i), S(i)>>
  <2> TAKE i \in N
  <2>1. g[i] = [k \in 1 .. 2 |-> (i + <<-1, 1>>[k]) % num]
    BY DEF Ring
  <2>2. g[i] = <<(i + (-1)) % num, (i + 1) % num>>
    BY <2>1
  <2>3. (i + (-1)) % num = P(i) /\ (i + 1) % num = S(i)
    BY RingSteps
  <2> HIDE DEF P, S, g
  <2> QED BY <2>2, <2>3
<1>3. DOMAIN g = N /\ g = [i \in N |-> g[i]]
  BY DEF Ring
<1> HIDE DEF g, P, S, N
<1>4. g \in Graphs(N)
  <2>1. \A a, b \in N : <<a, b>> \in Seq(N)
    OBVIOUS
  <2>2. \A i \in N : g[i] \in Seq(N)
    BY <1>1, <1>2, <2>1
  <2> QED BY <1>3, <2>2 DEF Graphs
<1>5. \A i \in N : NoRepeats(g[i]) /\ Nbrs(g, i) = {P(i), S(i)} /\ Len(g[i]) = 2
  <2> TAKE i \in N
  <2>1. PICK a \in N, b \in N : g[i] = <<a, b>> /\ a = P(i) /\ b = S(i)
    BY <1>1, <1>2
  <2>2. NoRepeats(<<a, b>>) /\ ToSet(<<a, b>>) = {a, b} /\ Len(<<a, b>>) = 2
    BY <1>1, <2>1 DEF NoRepeats, ToSet
  <2> QED BY <2>1, <2>2 DEF Nbrs
<1>6. Mutual(g, N)
  BY <1>1, <1>5 DEF Mutual
<1>7. g \in Capped(N, maxM)
  BY <1>1, <1>4, <1>5, <1>6 DEF Capped, Tidy, Simple, LoopFree
<1> QED BY <1>7 DEF g, N

-----------------------------------------------------------------------------
(* Two repairs, and walks. *)

\* What one repair has seen of the links to its node stays enough while another
\* repair runs.
LEMMA HealKeepsSeen ==
    ASSUME NEW N, NEW g, NEW y, NEW q \in N, Healed(y, g, N, q), NEW t \in N, NEW seen,
           \A n \in N : t \in Nbrs(g, n) => n \in seen \cup Nbrs(g, t)
    PROVE  \A n \in N : t \in Nbrs(y, n) => n \in seen \cup Nbrs(y, t)
<1> SUFFICES ASSUME NEW n \in N, t \in Nbrs(y, n), n \notin seen PROVE n \in Nbrs(y, t)
  OBVIOUS
<1>1. n # q /\ t # q
  BY DEF Healed, OrphansOf
<1>2. CASE t \in Nbrs(g, n)
  BY <1>1, <1>2 DEF Healed
<1>3. CASE t \notin Nbrs(g, n)
  <2>1. n \in OrphansOf(g, q) /\ t \in OrphansOf(g, q) /\ t # n
    BY <1>1, <1>3 DEF Healed
  <2> QED BY <1>1, <2>1 DEF Healed
<1> QED BY <1>2, <1>3

\* The nodes one step away.
Hop(g, S) == S \cup UNION {ToSet(g[u]) : u \in S}

\* A walk that takes as many steps as there are nodes reaches whatever is connected.
LEMMA HopsReach ==
    ASSUME NEW num \in Nat \ {0}, NEW g, NEW L \in SUBSET (0 .. (num - 1)), NEW n \in L,
           Connected(g, L), \A m \in L : Nbrs(g, m) \subseteq L,
           NEW hop, hop[0] = Hop(g, {n}), \A k \in 1 .. (num - 1) : hop[k] = Hop(g, hop[k - 1])
    PROVE  L \subseteq hop[num - 1]
<1> DEFINE N == 0 .. (num - 1)
           Far(S, k) == S = L \/ Cardinality(S) >= k + 1
           Z == [k \in 0 .. (num - 1) |-> {S \in SUBSET L : n \in S /\ Far(S, k)}]
<1>1. IsFiniteSet(N) /\ Cardinality(N) = num /\ IsFiniteSet(L)
  <2>1. IsFiniteSet(N) /\ Cardinality(N) = num
    <3>1. 0 \in Int /\ num - 1 \in Int /\ ~(0 > num - 1) /\ (num - 1) - 0 + 1 = num
      OBVIOUS
    <3> QED BY <3>1, FS_Interval
  <2> QED BY <2>1, FS_Subset
<1>2. \A S \in SUBSET L : IsFiniteSet(S) /\ Cardinality(S) \in Nat
  BY <1>1, FS_Subset, FS_CardinalityType
<1>3. \A S \in SUBSET L : Hop(g, S) \in SUBSET L /\ S \subseteq Hop(g, S)
  <2> TAKE S \in SUBSET L
  <2>1. \A v \in Hop(g, S) : v \in S \/ \E u \in S : v \in Nbrs(g, u)
    BY DEF Hop, Nbrs
  <2>2. S \subseteq Hop(g, S)
    BY DEF Hop
  <2> QED BY <2>1, <2>2
<1>4. ASSUME NEW S \in SUBSET L, n \in S, S # L
      PROVE  Cardinality(Hop(g, S)) >= Cardinality(S) + 1
  <2>1. PICK u \in S : ~(Nbrs(g, u) \subseteq S)
    BY <1>4 DEF Connected
  <2>2. PICK v : v \in Nbrs(g, u) /\ v \notin S
    BY <2>1
  <2>3. v \in Hop(g, S)
    BY <2>2 DEF Hop, Nbrs
  <2>4. S \cup {v} \in SUBSET Hop(g, S) /\ IsFiniteSet(Hop(g, S))
    BY <1>2, <1>3, <2>3
  <2>5. Cardinality(S \cup {v}) = Cardinality(S) + 1
    BY <1>2, <2>2, FS_AddElement
  <2>6. Cardinality(S \cup {v}) <= Cardinality(Hop(g, S))
    BY <2>4, FS_Subset
  <2> QED BY <1>2, <1>3, <2>5, <2>6
<1>5. \A k \in 0 .. (num - 1) : Z[k] = {S \in SUBSET L : n \in S /\ Far(S, k)}
  OBVIOUS
<1>6. hop[0] \in Z[0]
  <2>1. {n} \in SUBSET L /\ n \in {n}
    OBVIOUS
  <2>2. hop[0] \in SUBSET L /\ n \in hop[0]
    BY <1>3, <2>1
  <2>3. {n} \in SUBSET hop[0] /\ Cardinality({n}) = 1
    BY <2>2, FS_Singleton
  <2>4. Cardinality({n}) <= Cardinality(hop[0])
    BY <1>2, <2>2, <2>3, FS_Subset
  <2>5. Cardinality(hop[0]) >= 0 + 1
    BY <1>2, <2>2, <2>3, <2>4
  <2>6. Far(hop[0], 0) /\ 0 \in 0 .. (num - 1)
    BY <2>5
  <2> HIDE DEF Far, Z
  <2>7. Z[0] = {S \in SUBSET L : n \in S /\ Far(S, 0)}
    BY <1>5, <2>6
  <2>8. PICK S \in SUBSET L : S = hop[0]
    BY <2>2
  <2> QED BY <2>2, <2>6, <2>7, <2>8
<1>7. ASSUME NEW k \in 1 .. (num - 1), hop[k - 1] \in Z[k - 1] PROVE hop[k] \in Z[k]
  <2>1. k - 1 \in 0 .. (num - 1) /\ k \in 0 .. (num - 1)
    OBVIOUS
  <2>2. PICK S \in SUBSET L : S = hop[k - 1] /\ n \in S /\ Far(S, k - 1)
    <3> HIDE DEF Z, Far
    <3> QED BY <1>5, <1>7, <2>1
  <2>3. hop[k] = Hop(g, S) /\ Hop(g, S) \in SUBSET L /\ S \subseteq Hop(g, S)
    BY <1>3, <2>2
  <2>4. Far(Hop(g, S), k)
    <3>1. CASE S = L
      BY <2>3, <3>1
    <3>2. CASE S # L
      <4>1. Cardinality(Hop(g, S)) >= Cardinality(S) + 1 /\ Cardinality(S) >= k
        BY <1>4, <2>2, <3>2
      <4>2. Cardinality(Hop(g, S)) \in Nat /\ Cardinality(S) \in Nat
        BY <1>2, <2>3
      <4> QED BY <4>1, <4>2
    <3> QED BY <3>1, <3>2
  <2> HIDE DEF Z, Far
  <2> QED BY <1>5, <2>1, <2>2, <2>3, <2>4
<1>8. num - 1 \in Nat /\ num - 1 \in 0 .. (num - 1)
  OBVIOUS
<1>9. hop[num - 1] \in Z[num - 1]
  <2> HIDE DEF Z
  <2> QED BY <1>6, <1>7, <1>8, LoopKeeps
<1>10. PICK S \in SUBSET L : S = hop[num - 1] /\ Far(S, num - 1)
  <2> HIDE DEF Z, Far
  <2> QED BY <1>5, <1>8, <1>9
<1>11. CASE Cardinality(S) >= num
  <2>1. S \in SUBSET N /\ Cardinality(S) <= Cardinality(N)
    BY <1>1, FS_Subset
  <2>2. Cardinality(N) = Cardinality(S)
    BY <1>1, <1>2, <1>11, <2>1
  <2>3. N = S
    BY <1>1, <2>1, <2>2, FS_Subset
  <2> QED BY <1>10, <2>3
<1> QED BY <1>10, <1>11
=============================================================================
