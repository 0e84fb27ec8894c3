-------------------------- MODULE PluginHostProofs --------------------------
(***************************************************************************)
(* PluginHost for any plugins, requirements, providers, pool and clients.  *)
(*                                                                         *)
(* HostInv says where turns can run and what they can reach; with DrainInv *)
(* it gives that the server has answered before the pool stops, with       *)
(* EventInv that events reach every sink, with NestInv that lifetimes      *)
(* nest.  The operators that rearrange m_order are recursive functions:    *)
(* what they keep is proved first, by induction.                           *)
(***************************************************************************)
EXTENDS PluginHost, WellFoundedInduction, SequenceTheorems, TLAPS

-----------------------------------------------------------------------------
(***************************************************************************)
(* Induction over data.  The library's induction theorems take a predicate *)
(* as a parameter, which the provers here cannot instantiate; with a SET   *)
(* for the predicate the same argument is first-order.                     *)
(***************************************************************************)

(* A set of naturals that is not empty has a least element. *)
LEMMA Least ==
  ASSUME NEW T, T \subseteq Nat, T # {}
  PROVE  \E x \in T : \A y \in T : ~(y < x)
  <1> DEFINE R == OpToRel(<, Nat)
  <1>1. IsWellFoundedOn(R, Nat)
    BY NatLessThanWellFounded
  <1>2. PICK x \in T : \A y \in T : ~(<<y, x>> \in R)
    <2> HIDE DEF R
    <2> QED
      BY <1>1, WFMin
  <1>3. \A y \in Nat, z \in Nat : y < z => <<y, z>> \in R
    BY DEF OpToRel
  <1> QED
    BY <1>2, <1>3

(* Induction: a set that has 0 and the successor of each of its naturals has *)
(* them all.                                                                 *)
LEMMA SetInduction ==
  ASSUME NEW S, 0 \in S, \A n \in Nat : n \in S => n + 1 \in S
  PROVE  Nat \subseteq S
  <1> SUFFICES ASSUME Nat \ S # {} PROVE FALSE
    OBVIOUS
  <1>1. PICK x \in Nat \ S : \A y \in Nat \ S : ~(y < x)
    BY Least
  <1>2. x # 0 /\ x - 1 \in Nat
    BY <1>1
  <1>3. x - 1 \in S
    BY <1>1, <1>2
  <1>4. x - 1 + 1 = x
    BY <1>1
  <1> QED
    BY <1>1, <1>2, <1>3, <1>4

(* f starts with b, and makes each value from the one before it by g. *)
Steps(X, m) == [X \X (1..m) -> X]
Runs(X, b, m, g, f) == f \in [0..m -> X] /\ f[0] = b /\ \A k \in 1..m : f[k] = g[<<f[k - 1], k>>]

(* Such an f exists, whatever the step. *)
LEMMA Recursion ==
  ASSUME NEW X, NEW b \in X, NEW m \in Nat, NEW g \in Steps(X, m)
  PROVE  \E f : Runs(X, b, m, g, f)
  <1> USE DEF Steps, Runs
  <1> DEFINE P(n, f) == f[0] = b /\ \A k \in 1..n : f[k] = g[<<f[k - 1], k>>]
             S == {n \in Nat : n <= m => \E f \in [0..n -> X] : P(n, f)}
  <1>1. 0 \in S
    <2>1. [i \in 0..0 |-> b] \in [0..0 -> X] /\ P(0, [i \in 0..0 |-> b])
      OBVIOUS
    <2> QED
      BY <2>1
  <1>2. ASSUME NEW n \in Nat, n \in S PROVE n + 1 \in S
    <2> SUFFICES ASSUME n + 1 <= m PROVE \E f \in [0..(n + 1) -> X] : P(n + 1, f)
      OBVIOUS
    <2>1. PICK f \in [0..n -> X] : P(n, f)
      BY <1>2
    <2> DEFINE h == [i \in 0..(n + 1) |-> IF i = n + 1 THEN g[<<f[n], n + 1>>] ELSE f[i]]
    <2>2. g[<<f[n], n + 1>>] \in X
      OBVIOUS
    <2>3. h \in [0..(n + 1) -> X]
      BY <2>2
    <2>4. h[0] = b
      BY <2>1
    <2>5. ASSUME NEW k \in 1..(n + 1) PROVE h[k] = g[<<h[k - 1], k>>]
      <3>1. CASE k = n + 1
        <4>1. n + 1 \in 0..(n + 1) /\ n \in 0..(n + 1) /\ n # n + 1 /\ k - 1 = n
          BY <3>1
        <4>2. h[n + 1] = g[<<f[n], n + 1>>] /\ h[n] = f[n]
          BY <4>1
        <4> HIDE DEF h
        <4> QED
          BY <3>1, <4>1, <4>2
      <3>2. CASE k # n + 1
        <4>1. k \in 1..n /\ k \in 0..(n + 1) /\ k - 1 \in 0..(n + 1) /\ k - 1 # n + 1
          BY <3>2
        <4>2. h[k] = f[k] /\ h[k - 1] = f[k - 1]
          BY <4>1, <3>2
        <4> HIDE DEF h
        <4> QED
          BY <2>1, <4>1, <4>2
      <3> QED
        BY <3>1, <3>2
    <2> QED
      BY <2>3, <2>4, <2>5
  <1> HIDE DEF S
  <1>3. m \in S
    BY <1>1, <1>2, SetInduction
  <1> QED
    BY <1>3 DEF S

-----------------------------------------------------------------------------
(* The two operators that rearrange m_order. *)

(* Nothing is in the sequence twice. *)
Once(s) == \A i, j \in 1..Len(s) : s[i] = s[j] => i = j

(* x comes before y. *)
Ahead(s, x, y) == \E i, j \in 1..Len(s) : i < j /\ s[i] = x /\ s[j] = y

(* Only's definition, with its recursive function in hand. *)
OnlyBy(s, S, kept) ==
  /\ kept[0] = <<>>
  /\ \A i \in 1..Len(s) : kept[i] = IF s[i] \in S THEN Append(kept[i - 1], s[i]) ELSE kept[i - 1]
  /\ Only(s, S) = kept[Len(s)]

LEMMA OnlyUnfolds ==
  ASSUME NEW X, NEW s \in Seq(X), NEW S
  PROVE  \E kept : OnlyBy(s, S, kept)
  <1> DEFINE n == Len(s)
             Body(f) == [i \in 0..n |-> IF i = 0 THEN <<>>
                             ELSE IF s[i] \in S THEN Append(f[i - 1], s[i]) ELSE f[i - 1]]
             kept == CHOOSE f : f = Body(f)
  <1>0. Only(s, S) = kept[n]
    BY DEF Only
  <1> DEFINE Y == Seq(X)
             g == [w \in Y \X (1..n) |-> IF s[w[2]] \in S THEN Append(w[1], s[w[2]]) ELSE w[1]]
  <1>1. n \in Nat /\ \A i \in 1..n : s[i] \in X
    OBVIOUS
  <1>2. \A y \in Y, i \in 1..n : Append(y, s[i]) \in Y
    BY <1>1
  <1>3. g \in [Y \X (1..n) -> Y]
    BY <1>2
  <1>4. \A y \in Y, i \in 1..n : g[<<y, i>>] = IF s[i] \in S THEN Append(y, s[i]) ELSE y
    OBVIOUS
  <1>5. <<>> \in Y
    OBVIOUS
  <1> HIDE DEF g, Y, n
  <1>6. PICK f \in [0..n -> Y] : f[0] = <<>> /\ \A k \in 1..n : f[k] = g[<<f[k - 1], k>>]
    <2>1. PICK Z : Z = Y
      OBVIOUS
    <2>2. PICK b \in Z : b = <<>>
      BY <2>1, <1>5
    <2>3. PICK m \in Nat : m = n
      BY <1>1
    <2>4. PICK G \in Steps(Z, m) : G = g
      BY <2>1, <2>3, <1>3 DEF Steps
    <2>5. PICK f : Runs(Z, b, m, G, f)
      BY Recursion
    <2> QED
      BY <2>1, <2>2, <2>3, <2>4, <2>5 DEF Runs
  <1>7. f = Body(f)
    <2>1. ASSUME NEW i \in 0..n PROVE f[i] = Body(f)[i]
      <3>1. CASE i = 0
        BY <3>1, <1>6
      <3>2. CASE i # 0
        <4>1. i \in 1..n /\ i - 1 \in 0..n
          BY <3>2, <1>1
        <4>2. f[i - 1] \in Y
          BY <4>1
        <4>3. f[i] = IF s[i] \in S THEN Append(f[i - 1], s[i]) ELSE f[i - 1]
          BY <4>1, <4>2, <1>6, <1>4
        <4> QED
          BY <4>3, <3>2
      <3> QED
        BY <3>1, <3>2
    <2> HIDE DEF Body
    <2>2. f = [i \in 0..n |-> f[i]]
      OBVIOUS
    <2>3. Body(f) = [i \in 0..n |-> Body(f)[i]]
      BY DEF Body
    <2> QED
      BY <2>1, <2>2, <2>3
  <1>8. kept = Body(kept)
    BY <1>7
  <1> HIDE DEF kept
  <1>9. kept[0] = <<>>
    BY <1>8, <1>1
  <1>10. ASSUME NEW i \in 1..n
         PROVE  kept[i] = IF s[i] \in S THEN Append(kept[i - 1], s[i]) ELSE kept[i - 1]
    <2>1. i \in 0..n /\ i # 0
      BY <1>1
    <2>2. Body(kept)[i] = IF s[i] \in S THEN Append(kept[i - 1], s[i]) ELSE kept[i - 1]
      BY <2>1
    <2> HIDE DEF Body
    <2> QED
      BY <1>8, <2>2
  <1> QED
    BY <1>0, <1>9, <1>10 DEF OnlyBy, n

(* What has been kept of the first i elements. *)
KeptOf(s, S, X, i, q) ==
  /\ q \in Seq(X \cap S)
  /\ \A j \in 1..i : s[j] \in S => \E k \in 1..Len(q) : q[k] = s[j]
  /\ \A k \in 1..Len(q) : \E j \in 1..i : q[k] = s[j]
  /\ Once(s) => Once(q)
  /\ \A j, l \in 1..i : j < l /\ s[j] \in S /\ s[l] \in S => Ahead(q, s[j], s[l])

(* Only takes its elements from s and S, has every one of them, repeats none *)
(* that s does not repeat, and leaves them in their order.                   *)
LEMMA OnlyKeeps ==
  ASSUME NEW X, NEW s \in Seq(X), NEW S
  PROVE  KeptOf(s, S, X, Len(s), Only(s, S))
  <1>1. PICK kept : OnlyBy(s, S, kept)
    BY OnlyUnfolds
  <1>2. PICK n \in Nat : n = Len(s)
    OBVIOUS
  <1>3. \A i \in 1..n : s[i] \in X
    BY <1>2
  <1> DEFINE T == {i \in Nat : i <= n => KeptOf(s, S, X, i, kept[i])}
  <1>4. 0 \in T
    <2>1. PICK q : q = <<>>
      OBVIOUS
    <2>2. q \in Seq(X \cap S) /\ 1..Len(q) = {}
      BY <2>1
    <2>3. KeptOf(s, S, X, 0, q)
      BY <2>2 DEF KeptOf, Once
    <2> QED
      BY <1>1, <2>1, <2>3 DEF OnlyBy
  <1>5. ASSUME NEW i \in Nat, i \in T PROVE i + 1 \in T
    <2> SUFFICES ASSUME i + 1 <= n PROVE KeptOf(s, S, X, i + 1, kept[i + 1])
      OBVIOUS
    <2>1. PICK q : q = kept[i]
      OBVIOUS
    <2>2. KeptOf(s, S, X, i, q) /\ i + 1 \in 1..n /\ i + 1 - 1 = i
      BY <1>5, <2>1
    <2>3. kept[i + 1] = IF s[i + 1] \in S THEN Append(q, s[i + 1]) ELSE q
      BY <1>1, <1>2, <2>1, <2>2 DEF OnlyBy
    <2>4. CASE s[i + 1] \notin S
      <3>1. kept[i + 1] = q
        BY <2>3, <2>4
      <3>2. KeptOf(s, S, X, i + 1, q)
        <4>1. \A j \in 1..(i + 1) : j \in 1..i \/ j = i + 1
          OBVIOUS
        <4>2. \A j \in 1..i : j \in 1..(i + 1)
          OBVIOUS
        <4> QED
          BY <2>2, <2>4, <4>1, <4>2 DEF KeptOf
      <3> QED
        BY <3>1, <3>2
    <2>5. CASE s[i + 1] \in S
      <3>1. PICK x : x = s[i + 1]
        OBVIOUS
      <3>2. PICK r : r = Append(q, x)
        OBVIOUS
      <3>3. q \in Seq(X \cap S) /\ x \in X \cap S
        BY <2>2, <2>5, <3>1, <1>3 DEF KeptOf
      <3>4. /\ r \in Seq(X \cap S) /\ Len(q) \in Nat /\ Len(r) = Len(q) + 1
            /\ r[Len(q) + 1] = x /\ \A k \in 1..Len(q) : r[k] = q[k]
        BY <3>2, <3>3
      <3>5. \A k \in 1..Len(r) : k \in 1..Len(q) \/ k = Len(q) + 1
        BY <3>4
      <3>6. \A k \in 1..Len(q) : k \in 1..Len(r)
        BY <3>4
      <3>7. Len(q) + 1 \in 1..Len(r) /\ Len(q) + 1 \notin 1..Len(q)
        BY <3>4
      <3>8. \A j \in 1..(i + 1) : j \in 1..i \/ j = i + 1
        OBVIOUS
      <3>9. \A j \in 1..i : j \in 1..(i + 1) /\ j # i + 1 /\ j \in 1..n
        BY <2>2
      <3>10. i + 1 \in 1..(i + 1)
        OBVIOUS
      <3>11. \A j \in 1..(i + 1) : s[j] \in S => \E k \in 1..Len(r) : r[k] = s[j]
        BY <2>2, <3>1, <3>4, <3>6, <3>7, <3>8 DEF KeptOf
      <3>12. \A k \in 1..Len(r) : \E j \in 1..(i + 1) : r[k] = s[j]
        <4>1. ASSUME NEW k \in 1..Len(q) PROVE \E j \in 1..(i + 1) : r[k] = s[j]
          <5>1. PICK j \in 1..i : q[k] = s[j]
            BY <2>2 DEF KeptOf
          <5> QED
            BY <3>4, <3>9, <5>1
        <4>2. r[Len(q) + 1] = s[i + 1]
          BY <3>1, <3>4
        <4> QED
          BY <3>5, <3>10, <4>1, <4>2
      <3>13. Once(s) => Once(r)
        <4> SUFFICES ASSUME Once(s), NEW k \in 1..Len(r), NEW l \in 1..Len(r), r[k] = r[l]
                     PROVE  k = l
          BY DEF Once
        <4>1. \A m \in 1..Len(q) : q[m] # x
          BY <2>2, <3>1, <3>9, <1>2 DEF KeptOf, Once
        <4>2. Once(q)
          BY <2>2 DEF KeptOf
        <4>3. CASE k \in 1..Len(q) /\ l \in 1..Len(q)
          BY <4>2, <4>3, <3>4 DEF Once
        <4>4. CASE k = Len(q) + 1 \/ l = Len(q) + 1
          BY <4>1, <4>4, <3>4, <3>5
        <4> QED
          BY <4>3, <4>4, <3>5
      <3>14. ASSUME NEW j \in 1..(i + 1), NEW l \in 1..(i + 1), j < l, s[j] \in S, s[l] \in S
             PROVE  Ahead(r, s[j], s[l])
        <4>1. CASE l = i + 1
          <5>1. j \in 1..i
            BY <3>14, <4>1
          <5>2. PICK k \in 1..Len(q) : q[k] = s[j]
            BY <2>2, <3>14, <5>1 DEF KeptOf
          <5>3. k < Len(q) + 1 /\ k \in 1..Len(r) /\ r[k] = s[j]
            BY <3>4, <3>6, <5>2
          <5> QED
            BY <3>1, <3>4, <3>7, <4>1, <5>3 DEF Ahead
        <4>2. CASE l # i + 1
          <5>1. j \in 1..i /\ l \in 1..i
            BY <3>14, <4>2
          <5>2. Ahead(q, s[j], s[l])
            BY <2>2, <3>14, <5>1 DEF KeptOf
          <5> QED
            BY <3>4, <3>6, <5>2 DEF Ahead
        <4> QED
          BY <4>1, <4>2
      <3>15. KeptOf(s, S, X, i + 1, r)
        BY <3>4, <3>11, <3>12, <3>13, <3>14 DEF KeptOf
      <3>16. kept[i + 1] = r
        BY <2>3, <2>5, <3>1, <3>2
      <3> QED
        BY <3>15, <3>16
    <2> QED
      BY <2>4, <2>5
  <1> HIDE DEF T
  <1>6. n \in T
    BY <1>4, <1>5, SetInduction
  <1>7. KeptOf(s, S, X, n, kept[n])
    BY <1>6 DEF T
  <1> QED
    BY <1>1, <1>2, <1>7 DEF OnlyBy

(* One visit of Kahn's passes, as SortedOrder's Place. *)
Visit(o, done, q) ==
  IF q \in Range(done) \/ \E p \in Range(o) \ Range(done) : Blocks(p, q)
  THEN done ELSE Append(done, q)

(* The plugin visited k-th: the passes go over m_order again and again. *)
Visited(o, k) == o[((k - 1) % Len(o)) + 1]

(* SortedOrder's definition, with its recursive function in hand. *)
SortedBy(o, placed) ==
  LET m == Len(o) * Len(o)
  IN /\ placed[0] = <<>>
     /\ \A k \in 1..m : placed[k] = Visit(o, placed[k - 1], Visited(o, k))
     /\ SortedOrder(o) = placed[m] \o Only(o, Plugins \ Range(placed[m]))

LEMMA Visits ==
  ASSUME NEW X, NEW o \in Seq(X)
  PROVE  /\ Len(o) * Len(o) \in Nat
         /\ \A k \in 1..(Len(o) * Len(o)) : Visited(o, k) \in X /\ Visited(o, k) \in Range(o)
  <1>1. PICK n \in Nat : n = Len(o)
    OBVIOUS
  <1>2. n * n \in Nat /\ (n = 0 => n * n = 0)
    OBVIOUS
  <1>3. ASSUME NEW k \in 1..(n * n) PROVE ((k - 1) % n) + 1 \in 1..n
    <2>1. n > 0 /\ k - 1 \in Nat
      BY <1>2
    <2>2. \A a \in Nat : a % n \in 0..(n - 1)
      BY <2>1
    <2> QED
      BY <2>1, <2>2
  <1>4. \A i \in 1..n : o[i] \in X /\ o[i] \in Range(o)
    BY <1>1 DEF Range
  <1> QED
    BY <1>1, <1>2, <1>3, <1>4 DEF Visited

LEMMA SortedUnfolds ==
  ASSUME NEW X, NEW o \in Seq(X)
  PROVE  \E placed : SortedBy(o, placed)
  <1> DEFINE n == Len(o) * Len(o)
             Body(f) == [k \in 0..n |-> IF k = 0 THEN <<>> ELSE Visit(o, f[k - 1], Visited(o, k))]
             placed == CHOOSE f : f = Body(f)
  <1>0. SortedOrder(o) = placed[n] \o Only(o, Plugins \ Range(placed[n]))
    BY DEF SortedOrder, Visit, Visited
  <1> DEFINE Y == Seq(X)
             g == [w \in Y \X (1..n) |-> Visit(o, w[1], Visited(o, w[2]))]
  <1>1. n \in Nat /\ \A k \in 1..n : Visited(o, k) \in X
    BY Visits
  <1>2. \A y \in Y, k \in 1..n : Visit(o, y, Visited(o, k)) \in Y
    <2> HIDE DEF n
    <2> SUFFICES ASSUME NEW y \in Y, NEW k \in 1..n PROVE Visit(o, y, Visited(o, k)) \in Y
      OBVIOUS
    <2>1. Append(y, Visited(o, k)) \in Y
      BY <1>1
    <2> QED
      BY <2>1 DEF Visit
  <1> HIDE DEF n
  <1>3. g \in [Y \X (1..n) -> Y]
    BY <1>2
  <1>4. \A y \in Y, i \in 1..n : g[<<y, i>>] = Visit(o, y, Visited(o, i))
    OBVIOUS
  <1>5. <<>> \in Y
    OBVIOUS
  <1> HIDE DEF g, Y
  <1>6. PICK f \in [0..n -> Y] : f[0] = <<>> /\ \A k \in 1..n : f[k] = g[<<f[k - 1], k>>]
    <2>1. PICK Z : Z = Y
      OBVIOUS
    <2>2. PICK b \in Z : b = <<>>
      BY <2>1, <1>5
    <2>3. PICK m \in Nat : m = n
      BY <1>1
    <2>4. PICK G \in Steps(Z, m) : G = g
      BY <2>1, <2>3, <1>3 DEF Steps
    <2>5. PICK f : Runs(Z, b, m, G, f)
      BY Recursion
    <2> QED
      BY <2>1, <2>2, <2>3, <2>4, <2>5 DEF Runs
  <1>7. f = Body(f)
    <2>1. ASSUME NEW i \in 0..n PROVE f[i] = Body(f)[i]
      <3>1. CASE i = 0
        BY <3>1, <1>6
      <3>2. CASE i # 0
        <4>1. i \in 1..n /\ i - 1 \in 0..n
          BY <3>2, <1>1
        <4>2. f[i - 1] \in Y
          BY <4>1
        <4>3. f[i] = Visit(o, f[i - 1], Visited(o, i))
          BY <4>1, <4>2, <1>6, <1>4
        <4> QED
          BY <4>3, <3>2
      <3> QED
        BY <3>1, <3>2
    <2> HIDE DEF Body
    <2>2. f = [i \in 0..n |-> f[i]]
      OBVIOUS
    <2>3. Body(f) = [i \in 0..n |-> Body(f)[i]]
      BY DEF Body
    <2> QED
      BY <2>1, <2>2, <2>3
  <1>8. placed = Body(placed)
    BY <1>7
  <1> HIDE DEF placed
  <1>9. placed[0] = <<>>
    BY <1>8, <1>1
  <1>10. ASSUME NEW i \in 1..n
         PROVE  placed[i] = Visit(o, placed[i - 1], Visited(o, i))
    <2>1. i \in 0..n /\ i # 0
      BY <1>1
    <2>2. Body(placed)[i] = Visit(o, placed[i - 1], Visited(o, i))
      BY <2>1
    <2> HIDE DEF Body
    <2> QED
      BY <1>8, <2>2
  <1> QED
    BY <1>0, <1>9, <1>10 DEF SortedBy, n

(* apply_load_before() loses no plugin, invents none and repeats none. *)
LEMMA SortedKeeps ==
  ASSUME NEW o \in Seq(Plugins)
  PROVE  /\ SortedOrder(o) \in Seq(Range(o))
         /\ Range(o) \subseteq Range(SortedOrder(o))
         /\ Once(o) => Once(SortedOrder(o))
  <1>1. PICK placed : SortedBy(o, placed)
    BY SortedUnfolds
  <1>2. PICK R : R = Range(o)
    OBVIOUS
  <1>3. o \in Seq(R) /\ R \subseteq Plugins
    BY <1>2 DEF Range
  <1>4. PICK n \in Nat : n = Len(o) * Len(o)
    BY Visits
  <1>5. \A k \in 1..n : Visited(o, k) \in R
    BY Visits, <1>2, <1>4
  <1>6. /\ placed[0] = <<>> /\ \A k \in 1..n : placed[k] = Visit(o, placed[k - 1], Visited(o, k))
        /\ SortedOrder(o) = placed[n] \o Only(o, Plugins \ Range(placed[n]))
    BY <1>1, <1>4 DEF SortedBy
  <1> DEFINE T == {k \in Nat : k <= n => placed[k] \in Seq(R) /\ Once(placed[k])}
  <1>7. 0 \in T
    <2>1. PICK q : q = <<>>
      OBVIOUS
    <2>2. q \in Seq(R) /\ Once(q)
      BY <2>1 DEF Once
    <2> QED
      BY <2>1, <2>2, <1>6
  <1>8. ASSUME NEW k \in Nat, k \in T PROVE k + 1 \in T
    <2> SUFFICES ASSUME k + 1 <= n PROVE placed[k + 1] \in Seq(R) /\ Once(placed[k + 1])
      OBVIOUS
    <2>1. PICK q : q = placed[k]
      OBVIOUS
    <2>2. PICK x : x = Visited(o, k + 1)
      OBVIOUS
    <2>3. q \in Seq(R) /\ Once(q) /\ k + 1 \in 1..n /\ k + 1 - 1 = k
      BY <1>8, <2>1
    <2>4. x \in R /\ placed[k + 1] = Visit(o, q, x)
      BY <1>5, <1>6, <2>1, <2>2, <2>3
    <2>5. PICK r : r = Append(q, x)
      OBVIOUS
    <2>6. /\ r \in Seq(R) /\ Len(q) \in Nat /\ Len(r) = Len(q) + 1
          /\ r[Len(q) + 1] = x /\ \A i \in 1..Len(q) : r[i] = q[i]
      BY <2>3, <2>4, <2>5
    <2>7. \A i \in 1..Len(r) : i \in 1..Len(q) \/ i = Len(q) + 1
      BY <2>6
    <2>8. x \notin Range(q) => Once(r)
      <3> SUFFICES ASSUME x \notin Range(q), NEW i \in 1..Len(r), NEW j \in 1..Len(r), r[i] = r[j]
                   PROVE  i = j
        BY DEF Once
      <3>1. \A l \in 1..Len(q) : q[l] # x
        BY <2>3 DEF Range
      <3>2. CASE i \in 1..Len(q) /\ j \in 1..Len(q)
        BY <2>3, <2>6, <3>2 DEF Once
      <3>3. CASE i = Len(q) + 1 \/ j = Len(q) + 1
        BY <2>6, <2>7, <3>1, <3>3
      <3> QED
        BY <2>7, <3>2, <3>3
    <2>9. placed[k + 1] = q \/ (x \notin Range(q) /\ placed[k + 1] = r)
      BY <2>4, <2>5 DEF Visit
    <2> QED
      BY <2>3, <2>6, <2>8, <2>9
  <1> HIDE DEF T
  <1>9. n \in T
    BY <1>7, <1>8, SetInduction
  <1>10. PICK p : p = placed[n]
    OBVIOUS
  <1>11. p \in Seq(R) /\ Once(p)
    BY <1>9, <1>10 DEF T
  <1>12. PICK S : S = Plugins \ Range(p)
    OBVIOUS
  <1>13. PICK q : q = Only(o, S)
    OBVIOUS
  <1>14. KeptOf(o, S, R, Len(o), q)
    BY <1>3, <1>13, OnlyKeeps
  <1>15. q \in Seq(R) /\ (Once(o) => Once(q)) /\ \A i \in 1..Len(q) : q[i] \in S
    BY <1>14 DEF KeptOf
  <1>16. PICK w : w = p \o q
    OBVIOUS
  <1>17. SortedOrder(o) = w
    BY <1>6, <1>10, <1>12, <1>13, <1>16
  <1>18. /\ w \in Seq(R) /\ Len(p) \in Nat /\ Len(q) \in Nat /\ Len(w) = Len(p) + Len(q)
         /\ \A i \in 1..Len(w) : w[i] = IF i <= Len(p) THEN p[i] ELSE q[i - Len(p)]
    BY <1>11, <1>15, <1>16
  <1>19. \A i \in 1..Len(p) : p[i] \notin S
    BY <1>11, <1>12 DEF Range
  <1>20. ASSUME Once(o), NEW i \in 1..Len(w), NEW j \in 1..Len(w), w[i] = w[j] PROVE i = j
    <2>1. CASE i <= Len(p) /\ j <= Len(p)
      BY <1>11, <1>18, <1>20, <2>1 DEF Once
    <2>2. CASE ~(i <= Len(p)) /\ ~(j <= Len(p))
      <3>1. i - Len(p) \in 1..Len(q) /\ j - Len(p) \in 1..Len(q)
        BY <1>18, <2>2
      <3>2. q[i - Len(p)] = q[j - Len(p)] /\ Once(q)
        BY <1>15, <1>18, <1>20, <2>2
      <3>3. i - Len(p) = j - Len(p)
        BY <3>1, <3>2 DEF Once
      <3> QED
        BY <3>3, <1>18
    <2>3. ASSUME NEW a \in 1..Len(w), NEW b \in 1..Len(w), a <= Len(p), ~(b <= Len(p))
          PROVE  w[a] # w[b]
      <3>1. a \in 1..Len(p) /\ b - Len(p) \in 1..Len(q)
        BY <1>18, <2>3
      <3>2. w[a] = p[a] /\ w[b] = q[b - Len(p)]
        BY <1>18, <2>3
      <3> QED
        BY <1>15, <1>19, <3>1, <3>2
    <2> QED
      BY <1>20, <2>1, <2>2, <2>3
  <1>21. ASSUME NEW x \in R PROVE x \in Range(w)
    <2>1. PICK j \in 1..Len(o) : o[j] = x
      BY <1>2 DEF Range
    <2>2. CASE x \in Range(p)
      <3>1. PICK i \in 1..Len(p) : p[i] = x
        BY <2>2, <1>11 DEF Range
      <3>2. i \in 1..Len(w) /\ w[i] = x
        BY <3>1, <1>18
      <3> QED
        BY <3>2, <1>18 DEF Range
    <2>3. CASE x \notin Range(p)
      <3>1. x \in S
        BY <2>3, <1>3, <1>12
      <3>2. PICK i \in 1..Len(q) : q[i] = x
        BY <2>1, <3>1, <1>14 DEF KeptOf
      <3>3. i + Len(p) \in 1..Len(w) /\ ~(i + Len(p) <= Len(p)) /\ i + Len(p) - Len(p) = i
        BY <1>18
      <3>4. w[i + Len(p)] = x
        BY <3>2, <3>3, <1>18
      <3> QED
        BY <3>3, <3>4, <1>18 DEF Range
    <2> QED
      BY <2>2, <2>3
  <1> QED
    BY <1>2, <1>17, <1>18, <1>20, <1>21 DEF Once

(* Nobody has to load before p. *)
Free(p) == \A r \in Plugins : ~Blocks(r, p)

(* apply_load_before() puts a plugin nobody blocks before each one it blocks *)
(* and leaves it before each one it was before.                              *)
LEMMA SortedOrders ==
  ASSUME NEW o \in Seq(Plugins), Once(o), NEW p \in Range(o), NEW q \in Range(o), Free(p),
         Blocks(p, q) \/ Ahead(o, p, q)
  PROVE  Ahead(SortedOrder(o), p, q)
  <1>1. PICK placed : SortedBy(o, placed)
    BY SortedUnfolds
  <1>2. PICK n \in Nat : n = Len(o)
    OBVIOUS
  <1>3. PICK ip \in 1..n : o[ip] = p
    BY <1>2 DEF Range
  <1>4. PICK iq \in 1..n : o[iq] = q
    BY <1>2 DEF Range
  <1>5. PICK m \in Nat : m = n * n
    OBVIOUS
  <1>6. n > 0 /\ ip <= m
    BY <1>5
  <1>7. /\ placed[0] = <<>> /\ \A k \in 1..m : placed[k] = Visit(o, placed[k - 1], Visited(o, k))
        /\ SortedOrder(o) = placed[m] \o Only(o, Plugins \ Range(placed[m]))
    BY <1>1, <1>2, <1>5 DEF SortedBy
  <1>8. \A k \in 1..m : Visited(o, k) \in Plugins
    BY <1>2, <1>5, Visits
  <1>9. Visited(o, ip) = p
    <2>1. (ip - 1) % n = ip - 1
      BY <1>6
    <2> QED
      BY <1>2, <1>3, <2>1 DEF Visited
  <1>10. ASSUME NEW k \in 1..m, Visited(o, k) = q, Ahead(o, p, q) PROVE k - 1 >= ip
    <2>1. ((k - 1) % n) + 1 \in 1..n /\ (k - 1) % n <= k - 1
      BY <1>6
    <2>2. o[((k - 1) % n) + 1] = q
      BY <1>2, <1>10 DEF Visited
    <2>3. ((k - 1) % n) + 1 = iq
      BY <1>2, <1>4, <2>1, <2>2 DEF Once
    <2>4. ip < iq
      BY <1>2, <1>3, <1>4, <1>10 DEF Ahead, Once
    <2> QED
      BY <2>1, <2>3, <2>4
  <1> DEFINE Good(k, y) == /\ y \in Seq(Plugins) /\ (k >= ip => p \in Range(y))
                           /\ q \in Range(y) => Ahead(y, p, q)
             T == {k \in Nat : k <= m => Good(k, placed[k])}
  <1>11. 0 \in T
    <2>1. PICK y : y = <<>>
      OBVIOUS
    <2>2. y \in Seq(Plugins) /\ Range(y) = {}
      BY <2>1 DEF Range
    <2>3. Good(0, y)
      BY <2>2
    <2> QED
      BY <1>7, <2>1, <2>3
  <1>12. ASSUME NEW k \in Nat, k \in T PROVE k + 1 \in T
    <2> SUFFICES ASSUME k + 1 <= m PROVE Good(k + 1, placed[k + 1])
      OBVIOUS
    <2>1. PICK y : y = placed[k]
      OBVIOUS
    <2>2. Good(k, y) /\ k + 1 \in 1..m /\ k + 1 - 1 = k
      BY <1>12, <2>1
    <2>3. PICK x \in Plugins : x = Visited(o, k + 1)
      BY <1>8, <2>2
    <2>4. placed[k + 1] = Visit(o, y, x)
      BY <1>7, <2>1, <2>2, <2>3
    <2>5. CASE Visit(o, y, x) = y
      <3>1. CASE k >= ip
        BY <2>2, <2>4, <2>5, <3>1
      <3>2. CASE ~(k >= ip)
        <4>1. CASE k + 1 # ip
          <5>1. ~(k + 1 >= ip)
            BY <3>2, <4>1
          <5> QED
            BY <2>2, <2>4, <2>5, <5>1
        <4>2. CASE k + 1 = ip
          <5>1. x = p
            BY <1>9, <2>3, <4>2
          <5>2. Append(y, x) # y
            <6>1. Len(Append(y, x)) = Len(y) + 1 /\ Len(y) \in Nat
              BY <2>2
            <6> QED
              BY <6>1
          <5>3. Range(o) \subseteq Plugins
            BY DEF Range
          <5>4. p \in Range(y)
            BY <2>5, <5>1, <5>2, <5>3 DEF Visit, Free
          <5> QED
            BY <2>2, <2>4, <2>5, <5>4
        <4> QED
          BY <4>1, <4>2
      <3> QED
        BY <3>1, <3>2
    <2>6. CASE Visit(o, y, x) # y
      <3>1. /\ x \notin Range(y) /\ ~\E b \in Range(o) \ Range(y) : Blocks(b, x)
            /\ Visit(o, y, x) = Append(y, x)
        BY <2>6 DEF Visit
      <3>2. PICK r : r = Append(y, x)
        OBVIOUS
      <3>3. /\ r \in Seq(Plugins) /\ Len(y) \in Nat /\ Len(r) = Len(y) + 1 /\ r[Len(y) + 1] = x
            /\ (\A i \in 1..Len(y) : r[i] = y[i]) /\ DOMAIN r = 1..Len(r) /\ DOMAIN y = 1..Len(y)
        BY <2>2, <3>2
      <3>4. /\ \A i \in 1..Len(y) : i \in 1..Len(r) /\ i < Len(y) + 1
            /\ Len(y) + 1 \in 1..Len(r)
            /\ \A i \in 1..Len(r) : i \in 1..Len(y) \/ i = Len(y) + 1
        BY <3>3
      <3>5. Range(r) = Range(y) \union {x}
        BY <3>3, <3>4 DEF Range
      <3>6. k + 1 >= ip => p \in Range(r)
        <4>1. CASE k >= ip
          BY <2>2, <3>5, <4>1
        <4>2. CASE k + 1 = ip
          BY <1>9, <2>3, <3>5, <4>2
        <4> QED
          BY <4>1, <4>2
      <3>7. q \in Range(r) => Ahead(r, p, q)
        <4>1. CASE q \in Range(y)
          <5>1. Ahead(y, p, q)
            BY <2>2, <4>1
          <5> QED
            BY <3>3, <3>4, <5>1 DEF Ahead
        <4>2. CASE q = x
          <5>1. p \in Range(y)
            BY <1>10, <2>2, <2>3, <3>1, <4>2
          <5>2. PICK i \in 1..Len(y) : y[i] = p
            BY <3>3, <5>1 DEF Range
          <5>3. r[i] = p /\ i \in 1..Len(r) /\ i < Len(y) + 1
            BY <3>3, <3>4, <5>2
          <5> QED
            BY <3>3, <3>4, <4>2, <5>3 DEF Ahead
        <4> QED
          BY <3>5, <4>1, <4>2
      <3> QED
        BY <2>4, <3>1, <3>2, <3>3, <3>6, <3>7
    <2> QED
      BY <2>5, <2>6
  <1> HIDE DEF T
  <1>13. m \in T
    BY <1>11, <1>12, SetInduction
  <1>14. PICK y : y = placed[m]
    OBVIOUS
  <1>15. y \in Seq(Plugins) /\ p \in Range(y) /\ (q \in Range(y) => Ahead(y, p, q))
    BY <1>6, <1>13, <1>14 DEF T
  <1>16. PICK S : S = Plugins \ Range(y)
    OBVIOUS
  <1>17. PICK z : z = Only(o, S)
    OBVIOUS
  <1>18. KeptOf(o, S, Plugins, Len(o), z)
    BY <1>17, OnlyKeeps
  <1>19. PICK w : w = y \o z
    OBVIOUS
  <1>20. SortedOrder(o) = w /\ z \in Seq(Plugins)
    <2>1. SortedOrder(o) = w
      BY <1>7, <1>14, <1>16, <1>17, <1>19
    <2>2. z \in Seq(Plugins \cap S)
      BY <1>18 DEF KeptOf
    <2> QED
      BY <2>1, <2>2
  <1>21. /\ Len(y) \in Nat /\ Len(z) \in Nat /\ Len(w) = Len(y) + Len(z)
         /\ \A i \in 1..Len(w) : w[i] = IF i <= Len(y) THEN y[i] ELSE z[i - Len(y)]
    BY <1>15, <1>19, <1>20
  <1>22. \A i \in 1..Len(y) : i \in 1..Len(w) /\ w[i] = y[i]
    BY <1>21
  <1>23. CASE q \in Range(y)
    <2>1. Ahead(y, p, q)
      BY <1>15, <1>23
    <2> QED
      BY <1>20, <1>22, <2>1 DEF Ahead
  <1>24. CASE q \notin Range(y)
    <2>1. q \in S
      BY <1>16, <1>24 DEF Range
    <2>2. PICK j \in 1..Len(z) : z[j] = q
      BY <1>2, <1>4, <1>18, <2>1 DEF KeptOf
    <2>3. PICK i \in 1..Len(y) : y[i] = p
      BY <1>15 DEF Range
    <2>4. j + Len(y) \in 1..Len(w) /\ ~(j + Len(y) <= Len(y)) /\ j + Len(y) - Len(y) = j /\ i < j + Len(y)
      BY <1>21
    <2>5. w[j + Len(y)] = q /\ w[i] = p /\ i \in 1..Len(w)
      BY <1>21, <1>22, <2>2, <2>3, <2>4
    <2> QED
      BY <1>20, <2>4, <2>5 DEF Ahead
  <1> QED
    BY <1>23, <1>24
-----------------------------------------------------------------------------
Kept       == Range(order)
BootPhases == {"open", "filter", "resolve"}
LivePhases == {"init", "wire", "migrate", "document", "refused", "serve", "drain", "join"}
EndPhases  == {"close", "done", "aborted"}
Phases     == BootPhases \union LivePhases \union EndPhases
Words      == {"routes", "seed", "server", "connector", "sweep", "directory", "producer", "channel",
               "context", "ring"} \union Single
Busy       == [of : Plugins \union {Host}, ev : Nat, sink : Nat \ {0}, on : Conns \union {Nobody}]
Turns      == {Idle} \union Busy

(* What the state looks like. *)
ShapeMain ==
  /\ phase \in Phases /\ installed \subseteq Plugins
  /\ stack \in Seq(Plugins) /\ order \in Seq(Plugins)
  /\ at \in Int /\ (phase \notin {"close", "done"} => at >= 1)

ShapeWiring ==
  /\ life \in [Plugins -> {"absent", "made", "loaded", "ready", "gone"}]
  /\ cb \in [Single -> Plugins \union {Nobody}]
  /\ got \in [Plugins -> SUBSET Words]
  /\ sinks \in Seq(Plugins) /\ wiredAt \in Int

ShapeIo ==
  /\ dbWork \in Nat /\ listening \in BOOLEAN /\ goaway \in BOOLEAN
  /\ conn \in [Conns -> {"none", "open", "queued", "running", "sending", "served", "closed"}]

ShapeTurns ==
  /\ turn \in [Runners -> Turns] /\ events \in Nat /\ held \in [Plugins -> Seq(Nat)]

Shape == ShapeMain /\ ShapeWiring /\ ShapeIo /\ ShapeTurns

(* No plugin is in m_order twice: open() is not yet done with a plugin that  *)
(* is on the stack, and each but the first is there for the one below it.    *)
OpenedOnce ==
  /\ Once(order)
  /\ phase = "open" =>
       /\ \A i \in 1..Len(stack) : stack[i] \notin Range(order)
       /\ \A i \in 1..(Len(stack) - 1) : stack[i + 1] \in Range(Requires[stack[i]])

(* The pool is up from main() to stop(), and gone when run() closes. *)
PoolFits ==
  pool = IF phase = "join" THEN "stopping" ELSE IF phase \in EndPhases THEN "joined" ELSE "up"

(* Before build() there is nothing for the pool to run. *)
BootIsQuiet ==
  phase \in BootPhases =>
    /\ \A t \in Runners : turn[t] = Idle
    /\ dbWork = 0 /\ \A p \in Plugins : got[p] = {}
    /\ ~listening /\ ~goaway /\ sinks = <<>> /\ \A c \in Conns : conn[c] = "none"

(* What is in m_order has an instance until close_all(). *)
KeptAreAlive ==
  phase \in BootPhases \union LivePhases => \A p \in Kept : life[p] \notin {"absent", "gone"}

(* Whatever a turn can reach is in m_order. *)
Rooted ==
  phase \in LivePhases =>
    /\ \A c \in Single : cb[c] \in Kept \union {Nobody}
    /\ Range(sinks) \subseteq Kept
    /\ \A p \in Plugins : got[p] # {} => p \in Kept
    /\ listening => Server \in Kept
    /\ (\E c \in Conns : conn[c] # "none") => Server \in Kept
    /\ Generator \in Kept
    /\ \A t \in Runners : turn[t] # Idle => turn[t].of \in Kept \union {Host}

(* Main publishes only from inside a refused write_document(), and nothing   *)
(* runs when the plugins are closed.                                         *)
TurnsEnd ==
  /\ turn[Host] # Idle => phase = "refused"
  /\ phase \in EndPhases => \A t \in Runners : turn[t] = Idle

HostInv == Shape /\ OpenedOnce /\ PoolFits /\ BootIsQuiet /\ KeptAreAlive /\ Rooted /\ TurnsEnd

(* A request that runs is the one its turn is about; while the server has    *)
(* anything left to answer, the loop of shutdown_plugins() has it ahead.     *)
DrainInv ==
  /\ goaway => ~listening /\ phase \in {"drain", "join", "close", "done"}
  /\ ~listening /\ ~goaway => \A c \in Conns : conn[c] = "none"
  /\ phase = "drain" /\ (listening \/ ~ServerIdle) => \E i \in 1..Len(order) : i >= at /\ order[i] = Server
  /\ phase \in {"join", "close", "done"} => ~listening /\ ServerIdle
  /\ turn[Host].of # Server
  /\ phase = "init" /\ listening => \E i \in 1..Len(order) : order[i] = Server /\ i + Len(order) < at
  /\ \A t \in Runners : turn[t].of = Server => turn[t].on \in Conns /\ conn[turn[t].on] = "running"
  /\ \A t, u \in Runners : turn[t].of = Server /\ turn[u].of = Server => t = u

(* A sink has the event, or has said what became of it. *)
Delivered(s, e) ==
  IF s = "memory" THEN s \in Live => e \in Range(held[s]) \/ Len(held[s]) = MaxRing
  ELSE \/ s = "kafka" /\ e \in Range(held[s])
       \/ <<s, e>> \in sent \union dropped

(* A turn that publishes event e has not come to the j-th sink yet. *)
Pending(e, j) == \E t \in Runners : turn[t].ev = e /\ turn[t].sink <= j

(* An event since the wiring is still on its way to a sink, or has been      *)
(* delivered to it.                                                          *)
EventInv ==
  /\ wiredAt >= 0 => phase \notin BootPhases \union {"init", "wire"}
  /\ wiredAt >= 0 /\ phase # "aborted" =>
       \A e \in (wiredAt + 1)..events : \A j \in 1..Len(sinks) : Pending(e, j) \/ Delivered(sinks[j], e)

-----------------------------------------------------------------------------
(* The shape of the state. *)

LEMMA IdleFacts ==
  /\ Idle \in Turns /\ Idle.of = Nobody /\ Idle.ev = 0 /\ Idle \notin Busy
  /\ Nobody # Host /\ Nobody \notin Plugins /\ Host \notin Plugins /\ Host \notin Threads
  /\ Server \in Plugins /\ Sweeper \in Plugins /\ Server # Generator /\ Server # Sweeper
  /\ \A w \in Busy : w.of \in Plugins \union {Host} /\ w.ev \in Nat /\ w.sink \in Nat \ {0}
  <1>1. Nobody \notin Plugins \union {Host}
    BY PluginsAssumption
  <1>2. \A w \in Busy : w.of \in Plugins \union {Host} /\ w.ev \in Nat /\ w.sink \in Nat \ {0}
    BY DEF Busy
  <1>3. Idle.of = Nobody /\ Idle.ev = 0
    BY DEF Idle
  <1>4. Idle \notin Busy
    BY <1>1, <1>2, <1>3
  <1> QED
    BY <1>1, <1>2, <1>3, <1>4, PluginsAssumption DEF Turns, Server, Sweeper, Generator

(* The turns a thread or main can take. *)
LEMMA TurnFacts ==
  ASSUME NEW p \in Plugins \union {Host}, NEW e \in Nat, NEW c \in Conns \union {Nobody}
  PROVE  [of |-> p, ev |-> e, sink |-> 1, on |-> c] \in Busy
  BY DEF Busy

(* What on_load leaves is made of known words, or it threw. *)
LEMMA LoadFacts ==
  ASSUME NEW p, NEW g \in Load(p), g # Throws
  PROVE  g \subseteq Words
  <1>1. g \in LoadEngine => g \subseteq Words
    BY DEF LoadEngine, Words
  <1> QED
    BY <1>1 DEF Load, LoadGenerator, LoadServer, LoadWorkflow, LoadOrchestrator, LoadPayload, LoadKafka,
                LoadRabbit, LoadRedis, LoadMemory, LoadElastic, Words, Throws

(* The ring keeps its newest, and is full when it forgot one. *)
LEMMA RingFacts ==
  ASSUME NEW h \in Seq(Nat), NEW e \in Nat
  PROVE  LET r == LastOf(Append(h, e), MaxRing)
         IN /\ r \in Seq(Nat)
            /\ \A x \in Range(h) \union {e} : x \in Range(r) \/ Len(r) = MaxRing
            /\ Len(h) = MaxRing => Len(r) = MaxRing
  <1>1. PICK a : a = Append(h, e)
    OBVIOUS
  <1>2. /\ a \in Seq(Nat) /\ Len(h) \in Nat /\ Len(a) = Len(h) + 1 /\ a[Len(h) + 1] = e
        /\ \A i \in 1..Len(h) : a[i] = h[i]
    BY <1>1
  <1>3. MaxRing \in Nat /\ MaxRing # 0
    BY PluginsAssumption
  <1>4. CASE Len(a) > MaxRing
    <2>1. PICK r : r = SubSeq(a, Len(a) - MaxRing + 1, Len(a))
      OBVIOUS
    <2>2. r \in Seq(Nat) /\ Len(r) = MaxRing
      <3>1. PICK n \in Nat, i \in Nat : i >= 1 /\ i <= n /\ n = Len(a) /\ i = n - MaxRing + 1 /\ n - i + 1 = MaxRing
        BY <1>2, <1>3, <1>4
      <3>0. i \in Int /\ n \in Int /\ \A k \in i..n : a[k] \in Nat
        <4>1. \A k \in i..n : k \in 1..Len(a)
          BY <3>1
        <4>2. \A k \in 1..Len(a) : a[k] \in Nat
          BY <1>2
        <4> QED
          BY <4>1, <4>2
      <3>2. SubSeq(a, i, n) \in Seq(Nat)
        BY <3>0, SubSeqProperties
      <3>3. Len(SubSeq(a, i, n)) = n - i + 1
        BY <3>0, <3>1, SubSeqProperties
      <3> QED
        BY <2>1, <3>1, <3>2, <3>3
    <2>3. LastOf(a, MaxRing) = r
      BY <1>4, <2>1 DEF LastOf
    <2> QED
      BY <1>1, <2>2, <2>3
  <1>5. CASE ~(Len(a) > MaxRing)
    <2>1. LastOf(a, MaxRing) = a
      BY <1>5 DEF LastOf
    <2>2. \A i \in 1..Len(h) : i \in 1..Len(a)
      BY <1>2
    <2>3. \A x \in Range(h) \union {e} : x \in Range(a)
      <3>1. DOMAIN h = 1..Len(h) /\ DOMAIN a = 1..Len(a) /\ Len(h) + 1 \in 1..Len(a)
        BY <1>2
      <3> QED
        BY <1>2, <2>2, <3>1 DEF Range
    <2> QED
      BY <1>1, <1>2, <1>3, <1>5, <2>1, <2>3
  <1> QED
    BY <1>4, <1>5

LEMMA ShapeInit == Init => Shape
  <1> SUFFICES ASSUME Init PROVE Shape
    OBVIOUS
  <1>1. ShapeMain
    BY PluginsAssumption DEF Init, ShapeMain, Phases, BootPhases
  <1>2. ShapeWiring
    BY DEF Init, ShapeWiring
  <1>3. ShapeIo
    BY DEF Init, ShapeIo
  <1>4. ShapeTurns
    BY IdleFacts DEF Init, ShapeTurns
  <1> QED
    BY <1>1, <1>2, <1>3, <1>4 DEF Shape

(* Main's own variables. *)
LEMMA ShapeMainStep == HostInv /\ [Next]_vars => ShapeMain'
  <1> SUFFICES ASSUME HostInv, [Next]_vars PROVE ShapeMain'
    OBVIOUS
  <1> USE DEF ShapeMain, Phases, BootPhases, LivePhases, EndPhases, main, Abort
  <1>0. ShapeMain /\ Len(order) \in Nat
    BY DEF HostInv, Shape
  <1>1. CASE UNCHANGED vars
    BY <1>0, <1>1 DEF vars
  <1>2. ASSUME NEW p \in Plugins, OpenAll(p) PROVE ShapeMain'
    BY <1>0, <1>2 DEF OpenAll
  <1>3. CASE Open
    <2>1. phase = "open" /\ stack # <<>> /\ Last(stack) \in Plugins /\ Front(stack) \in Seq(Plugins)
      BY <1>0, <1>3 DEF Open, Last, Front
    <2>2. \A x \in Plugins : Append(order, x) \in Seq(Plugins) /\ Append(stack, x) \in Seq(Plugins)
      BY <1>0
    <2>3. /\ installed' = installed /\ at' = at /\ phase' \in {"open", "aborted"}
          /\ order' = order \/ order' = Append(order, Last(stack))
      BY <1>3, <2>1 DEF Open
    <2>4. \/ stack' = stack \/ stack' = Front(stack)
          \/ \E x \in installed : stack' = Append(stack, x)
      BY <1>3 DEF Open
    <2> QED
      BY <1>0, <2>1, <2>2, <2>3, <2>4
  <1>4. CASE ApplyLoadBefore
    <2>1. SortedOrder(order) \in Seq(Range(order)) /\ Range(order) \subseteq Plugins
      BY <1>0, SortedKeeps DEF Range
    <2>2. SortedOrder(order) \in Seq(Plugins)
      BY <2>1
    <2> QED
      BY <1>0, <1>4, <2>2 DEF ApplyLoadBefore
  <1>5. CASE DiscardUnlisted
    <2>1. ASSUME NEW S PROVE Only(order, S) \in Seq(Plugins)
      <3>1. KeptOf(order, S, Plugins, Len(order), Only(order, S))
        BY <1>0, OnlyKeeps
      <3> QED
        BY <3>1 DEF KeptOf
    <2> QED
      BY <1>0, <1>5, <2>1 DEF DiscardUnlisted
  <1>6. CASE Resolve
    BY <1>0, <1>6 DEF Resolve
  <1>7. CASE InitNext
    BY <1>0, <1>7 DEF InitNext
  <1>8. CASE ReadyNext \/ BuildReturns
    BY <1>0, <1>8 DEF ReadyNext, BuildReturns
  <1>9. CASE WireNext
    BY <1>0, <1>9 DEF WireNext
  <1>10. CASE RunMigrations
    BY <1>0, <1>10 DEF RunMigrations
  <1>11. CASE WriteDocument
    BY <1>0, <1>11 DEF WriteDocument, LoadReturns
  <1>12. ASSUME NEW t, StartTurn(t) \/ Publish(t) \/ EndTurn(t) PROVE ShapeMain'
    BY <1>0, <1>12 DEF StartTurn, Publish, EndTurn
  <1>13. ASSUME NEW c \in Conns, Accept(c) \/ Request(c) \/ Flush(c) PROVE ShapeMain'
    BY <1>0, <1>13 DEF Accept, Request, Flush
  <1>14. CASE BrokerTakes
    BY <1>0, <1>14 DEF BrokerTakes
  <1>15. CASE Signal
    BY <1>0, <1>15 DEF Signal
  <1>16. CASE ShutdownNext
    BY <1>0, <1>16 DEF ShutdownNext
  <1>17. CASE Stop \/ Join \/ CloseNext \/ Return
    BY <1>0, <1>17 DEF Stop, Join, CloseNext, Return
  <1> QED
    BY <1>1, <1>2, <1>3, <1>4, <1>5, <1>6, <1>7, <1>8, <1>9, <1>10, <1>11, <1>12, <1>13, <1>14,
       <1>15, <1>16, <1>17
       DEF Next, Boot, MainStep, Shutdown, ThreadStep

(* A provider that is resolved is in m_order. *)
LEMMA ResolvedFacts ==
  ASSUME ShapeMain, NEW c
  PROVE  Resolved(c) \in Kept \union {Nobody} /\ Kept \subseteq Plugins
  <1>1. order \in Seq(Kept) /\ Kept \subseteq Plugins
    BY DEF ShapeMain, Kept, Range
  <1>2. PICK S : S = {p \in Plugins : c \in Exports[p]}
    OBVIOUS
  <1>3. PICK x : x = Only(order, S)
    OBVIOUS
  <1>4. PICK K : K = Kept
    OBVIOUS
  <1>5. KeptOf(order, S, K, Len(order), x)
    BY <1>1, <1>3, <1>4, OnlyKeeps
  <1>6. x \in Seq(K)
    BY <1>5 DEF KeptOf
  <1>7. (x # <<>> => Head(x) \in K) /\ Range(x) \subseteq K
    BY <1>6 DEF Range
  <1>8. Resolved(c) \in {Nobody} \union Range(x) \/ (x # <<>> /\ Resolved(c) = Head(x))
    BY <1>2, <1>3 DEF Resolved
  <1> QED
    BY <1>1, <1>4, <1>7, <1>8

(* What the plugins are wired to. *)
LEMMA ShapeWiringStep == HostInv /\ [Next]_vars => ShapeWiring'
  <1> SUFFICES ASSUME HostInv, [Next]_vars PROVE ShapeWiring'
    OBVIOUS
  <1> USE DEF ShapeWiring, wiring
  <1>0. ShapeWiring /\ ShapeMain /\ events \in Int /\ Sweeper \in Plugins
    BY IdleFacts DEF HostInv, Shape, ShapeTurns
  <1>1. CASE UNCHANGED vars
    BY <1>0, <1>1 DEF vars
  <1>2. ASSUME NEW p \in Plugins, OpenAll(p) PROVE ShapeWiring'
    BY <1>0, <1>2 DEF OpenAll
  <1>3. CASE Open
    BY <1>0, <1>3 DEF Open
  <1>4. CASE ApplyLoadBefore
    BY <1>0, <1>4 DEF ApplyLoadBefore
  <1>5. CASE DiscardUnlisted
    BY <1>0, <1>5 DEF DiscardUnlisted
  <1>6. CASE Resolve
    <2>1. \A c \in Single : Resolved(c) \in Plugins \union {Nobody}
      BY <1>0, ResolvedFacts
    <2> QED
      BY <1>0, <1>6, <2>1 DEF Resolve
  <1>7. CASE InitNext
    <2>1. \A p : \A g \in Load(p) : g # Throws => g \in SUBSET Words
      BY LoadFacts
    <2>2. \/ UNCHANGED <<life, got>>
          \/ \E g \in SUBSET Words : /\ got' = [got EXCEPT ![order[at]] = g]
                                     /\ life' = [life EXCEPT ![order[at]] = "loaded"]
      BY <1>7, <2>1 DEF InitNext
    <2>3. UNCHANGED <<cb, sinks, wiredAt>>
      BY <1>7 DEF InitNext
    <2> QED
      BY <1>0, <2>2, <2>3
  <1>8. CASE ReadyNext \/ BuildReturns
    BY <1>0, <1>8 DEF ReadyNext, BuildReturns
  <1>9. CASE WireNext
    <2>1. at <= Len(order) => Append(sinks, order[at]) \in Seq(Plugins)
      <3>1. at >= 1
        BY <1>0, <1>9 DEF WireNext, ShapeMain
      <3> QED
        BY <1>0, <3>1 DEF ShapeMain
    <2> QED
      BY <1>0, <1>9, <2>1 DEF WireNext
  <1>10. CASE RunMigrations
    BY <1>0, <1>10 DEF RunMigrations
  <1>11. CASE WriteDocument
    BY <1>0, <1>11 DEF WriteDocument
  <1>12. ASSUME NEW t, StartTurn(t) PROVE ShapeWiring'
    <2>1. got' = got \/ got' = [got EXCEPT ![Sweeper] = @ \ {"sweep"}]
      BY <1>12 DEF StartTurn
    <2>2. UNCHANGED <<life, cb, sinks, wiredAt>>
      BY <1>12 DEF StartTurn
    <2> QED
      BY <1>0, <2>1, <2>2
  <1>13. ASSUME NEW t, Publish(t) \/ EndTurn(t) PROVE ShapeWiring'
    BY <1>0, <1>13 DEF Publish, EndTurn
  <1>14. ASSUME NEW c \in Conns, Accept(c) \/ Request(c) \/ Flush(c) PROVE ShapeWiring'
    BY <1>0, <1>14 DEF Accept, Request, Flush
  <1>15. CASE BrokerTakes
    BY <1>0, <1>15 DEF BrokerTakes
  <1>16. CASE Signal \/ ShutdownNext \/ Stop \/ Join \/ Return
    BY <1>0, <1>16 DEF Signal, ShutdownNext, Stop, Join, Return
  <1>17. CASE CloseNext
    BY <1>0, <1>17 DEF CloseNext
  <1> QED
    BY <1>1, <1>2, <1>3, <1>4, <1>5, <1>6, <1>7, <1>8, <1>9, <1>10, <1>11, <1>12, <1>13, <1>14,
       <1>15, <1>16, <1>17
       DEF Next, Boot, MainStep, Shutdown, ThreadStep

(* Sockets and queued work. *)
LEMMA ShapeIoStep == HostInv /\ [Next]_vars => ShapeIo'
  <1> SUFFICES ASSUME HostInv, [Next]_vars PROVE ShapeIo'
    OBVIOUS
  <1> USE DEF ShapeIo, io
  <1>0. ShapeIo
    BY DEF HostInv, Shape
  <1>1. CASE UNCHANGED vars
    BY <1>0, <1>1 DEF vars
  <1>2. ASSUME NEW p \in Plugins, OpenAll(p) PROVE ShapeIo'
    BY <1>0, <1>2 DEF OpenAll
  <1>3. CASE Open \/ ApplyLoadBefore \/ DiscardUnlisted
    BY <1>0, <1>3 DEF Open, ApplyLoadBefore, DiscardUnlisted
  <1>4. CASE Resolve \/ BuildReturns \/ WireNext \/ RunMigrations \/ WriteDocument
    BY <1>0, <1>4 DEF Resolve, BuildReturns, WireNext, RunMigrations, WriteDocument
  <1>5. CASE InitNext
    BY <1>0, <1>5 DEF InitNext
  <1>6. CASE ReadyNext
    BY <1>0, <1>6 DEF ReadyNext, ServerReady
  <1>7. ASSUME NEW t, StartTurn(t) PROVE ShapeIo'
    <2>1. dbWork' = dbWork \/ (dbWork > 0 /\ dbWork' = dbWork - 1)
      BY <1>7 DEF StartTurn
    <2>2. conn' = conn \/ \E c \in Conns : conn' = [conn EXCEPT ![c] = "running"]
      BY <1>7 DEF StartTurn
    <2>3. UNCHANGED <<listening, goaway>>
      BY <1>7 DEF StartTurn
    <2> QED
      BY <1>0, <2>1, <2>2, <2>3
  <1>8. ASSUME NEW t, Publish(t) \/ EndTurn(t) PROVE ShapeIo'
    BY <1>0, <1>8 DEF Publish, EndTurn
  <1>9. ASSUME NEW c \in Conns, Accept(c) \/ Request(c) \/ Flush(c) PROVE ShapeIo'
    BY <1>0, <1>9 DEF Accept, Request, Flush
  <1>10. CASE BrokerTakes \/ Signal \/ Stop \/ Join \/ Return \/ CloseNext
    BY <1>0, <1>10 DEF BrokerTakes, Signal, Stop, Join, Return, CloseNext
  <1>11. CASE ShutdownNext
    BY <1>0, <1>11 DEF ShutdownNext
  <1> QED
    BY <1>1, <1>2, <1>3, <1>4, <1>5, <1>6, <1>7, <1>8, <1>9, <1>10, <1>11
       DEF Next, Boot, MainStep, Shutdown, ThreadStep

(* A sink that is given an event has it, or says what became of it; the      *)
(* others keep what they have.                                               *)
LEMMA DeliverFacts ==
  ASSUME NEW s \in Plugins, NEW e \in Nat, ShapeTurns, Deliver(s, e)
  PROVE  /\ held' \in [Plugins -> Seq(Nat)]
         /\ sent \subseteq sent' /\ dropped \subseteq dropped'
         /\ \A p \in Plugins : p # "memory" => Range(held[p]) \subseteq Range(held'[p])
         /\ s # "memory" => (s = "kafka" /\ e \in Range(held'[s])) \/ <<s, e>> \in sent' \union dropped'
         /\ \A x \in Range(held["memory"]) \union (IF s = "memory" THEN {e} ELSE {}) :
               "memory" \in Plugins => x \in Range(held'["memory"]) \/ Len(held'["memory"]) = MaxRing
         /\ "memory" \in Plugins /\ Len(held["memory"]) = MaxRing => Len(held'["memory"]) = MaxRing
  <1>0. held \in [Plugins -> Seq(Nat)]
    BY DEF ShapeTurns
  <1>1. CASE s = "memory" /\ RingPublish(s, e)
    <2>1. PICK h : h = held[s]
      OBVIOUS
    <2>2. PICK r : r = LastOf(Append(h, e), MaxRing)
      OBVIOUS
    <2>3. h \in Seq(Nat)
      BY <1>0, <2>1
    <2>4. /\ r \in Seq(Nat)
          /\ \A x \in Range(h) \union {e} : x \in Range(r) \/ Len(r) = MaxRing
          /\ Len(h) = MaxRing => Len(r) = MaxRing
      BY <2>2, <2>3, RingFacts
    <2>5. held' = [held EXCEPT ![s] = r] /\ UNCHANGED <<sent, dropped>>
      BY <1>1, <2>1, <2>2 DEF RingPublish
    <2>6. held'[s] = r /\ held' \in [Plugins -> Seq(Nat)] /\ \A p \in Plugins : p # s => held'[p] = held[p]
      BY <1>0, <2>4, <2>5
    <2> QED
      BY <1>1, <2>1, <2>4, <2>5, <2>6
  <1>2. CASE s = "kafka" /\ QueuePublish(s, e)
    <2>1. CASE held' = [held EXCEPT ![s] = Append(@, e)] /\ UNCHANGED <<sent, dropped>>
      <3>1. PICK h : h = held[s]
        OBVIOUS
      <3>2. PICK r : r = Append(h, e)
        OBVIOUS
      <3>3. h \in Seq(Nat)
        BY <1>0, <3>1
      <3>4. /\ r \in Seq(Nat) /\ Len(h) \in Nat /\ Len(r) = Len(h) + 1 /\ r[Len(h) + 1] = e
            /\ \A i \in 1..Len(h) : r[i] = h[i]
        BY <3>2, <3>3
      <3>5. DOMAIN h = 1..Len(h) /\ DOMAIN r = 1..Len(r) /\ Len(h) + 1 \in 1..Len(r)
            /\ 1..Len(h) \subseteq 1..Len(r)
        BY <3>3, <3>4
      <3>6. Range(h) \subseteq Range(r) /\ e \in Range(r)
        BY <3>4, <3>5 DEF Range
      <3>7. held'[s] = r /\ held' \in [Plugins -> Seq(Nat)] /\ \A p \in Plugins : p # s => held'[p] = held[p]
        BY <1>0, <2>1, <3>1, <3>2, <3>4
      <3> QED
        BY <1>2, <2>1, <3>1, <3>6, <3>7
    <2>2. CASE dropped' = dropped \union {<<s, e>>} /\ UNCHANGED <<held, sent>>
      BY <1>0, <1>2, <2>2
    <2> QED
      BY <1>2, <2>1, <2>2 DEF QueuePublish
  <1>3. CASE s = "rabbitmq" /\ WirePublish(s, e)
    BY <1>0, <1>3 DEF WirePublish
  <1>4. CASE s = "redis" /\ RedisPublish(s, e)
    BY <1>0, <1>4 DEF RedisPublish
  <1> QED
    BY <1>1, <1>2, <1>3, <1>4 DEF Deliver

(* A turn publishes to the sink it has reached, and goes on to the next one. *)
Advances(t, k, s, e, u) ==
  /\ k = turn[t].sink /\ s = sinks[k] /\ e = turn[t].ev /\ Deliver(s, e)
  /\ turn[t] \in Busy /\ turn' = [turn EXCEPT ![t] = u]
  /\ u.of = turn[t].of /\ u.ev = e /\ u.sink = k + 1 /\ u.on = turn[t].on

LEMMA PublishFacts ==
  ASSUME ShapeTurns, ShapeWiring, NEW t \in Runners, Publish(t)
  PROVE  \E k \in 1..Len(sinks), s \in Plugins, e \in Nat, u \in Busy : Advances(t, k, s, e, u)
  <1>1. turn[t] \in Turns /\ turn[t] # Idle
    BY DEF ShapeTurns, Publish
  <1>2. PICK w \in Busy : w = turn[t]
    BY <1>1 DEF Turns
  <1>3. w.ev \in Nat /\ w.sink \in Nat \ {0}
    BY DEF Busy
  <1>4. w.sink <= Len(sinks) /\ Deliver(sinks[w.sink], w.ev)
    BY <1>2 DEF Publish
  <1>5. PICK u : u = [w EXCEPT !.sink = @ + 1]
    OBVIOUS
  <1>6. u \in Busy /\ u.of = w.of /\ u.ev = w.ev /\ u.sink = w.sink + 1 /\ u.on = w.on
    BY <1>3, <1>5 DEF Busy
  <1>7. turn' = [turn EXCEPT ![t] = u]
    <2>1. turn' = [turn EXCEPT ![t].sink = @ + 1]
      BY DEF Publish
    <2> QED
      BY <2>1, <1>2, <1>5
  <1>8. w.sink \in 1..Len(sinks) /\ sinks[w.sink] \in Plugins
    <2>1. sinks \in Seq(Plugins)
      BY DEF ShapeWiring
    <2> QED
      BY <1>3, <1>4, <2>1
  <1>9. Advances(t, w.sink, sinks[w.sink], w.ev, u)
    BY <1>2, <1>4, <1>6, <1>7 DEF Advances
  <1> QED
    BY <1>3, <1>6, <1>8, <1>9

(* The three kinds of turn a thread of the pool takes. *)
StartsFor(t, c)  == /\ conn[c] = "queued" /\ NoTurnOf(Server) /\ conn' = [conn EXCEPT ![c] = "running"]
                    /\ turn' = [turn EXCEPT ![t] = [of |-> Server, ev |-> events + 1, sink |-> 1, on |-> c]]
                    /\ UNCHANGED <<dbWork, got>>
StartsWork(t)    == /\ dbWork > 0 /\ dbWork' = dbWork - 1
                    /\ turn' = [turn EXCEPT ![t] = [of |-> Host, ev |-> events + 1, sink |-> 1, on |-> Nobody]]
                    /\ UNCHANGED <<conn, got>>
StartsSweep(t)   == /\ "sweep" \in got[Sweeper] /\ got' = [got EXCEPT ![Sweeper] = @ \ {"sweep"}]
                    /\ turn' = [turn EXCEPT ![t] = [of |-> Sweeper, ev |-> events + 1, sink |-> 1, on |-> Nobody]]
                    /\ UNCHANGED <<conn, dbWork>>

LEMMA StartFacts ==
  ASSUME NEW t, StartTurn(t)
  PROVE  /\ pool = "up" /\ turn[t] = Idle /\ events' = events + 1
         /\ UNCHANGED <<main, life, cb, sinks, wiredAt, listening, goaway, pool, held, sent, dropped>>
         /\ (\E c \in Conns : StartsFor(t, c)) \/ StartsWork(t) \/ StartsSweep(t)
  BY DEF StartTurn, StartsFor, StartsWork, StartsSweep

(* Turns and events. *)
LEMMA ShapeTurnsStep == HostInv /\ [Next]_vars => ShapeTurns'
  <1> SUFFICES ASSUME HostInv, [Next]_vars PROVE ShapeTurns'
    OBVIOUS
  <1> USE IdleFacts DEF ShapeTurns, bus, Abort
  <1>0. ShapeTurns /\ [t \in Runners |-> Idle] \in [Runners -> Turns]
    BY DEF HostInv, Shape
  <1>1. CASE UNCHANGED vars
    BY <1>0, <1>1 DEF vars
  <1>2. ASSUME NEW p \in Plugins, OpenAll(p) PROVE ShapeTurns'
    BY <1>0, <1>2 DEF OpenAll
  <1>3. CASE Open \/ ApplyLoadBefore \/ DiscardUnlisted
    BY <1>0, <1>3 DEF Open, ApplyLoadBefore, DiscardUnlisted
  <1>4. CASE Resolve \/ BuildReturns \/ WireNext \/ RunMigrations
    BY <1>0, <1>4 DEF Resolve, BuildReturns, WireNext, RunMigrations
  <1>5. CASE InitNext \/ ReadyNext
    BY <1>0, <1>5 DEF InitNext, ReadyNext
  <1>6. CASE WriteDocument
    <2>1. phase \in {"document", "refused"} => Generator \in Plugins
      BY DEF HostInv, Rooted, LivePhases, Kept, Shape, ShapeMain, Range
    <2>2. CASE UNCHANGED events
      BY <1>0, <1>6, <2>2 DEF WriteDocument, LoadReturns
    <2>3. CASE phase = "document" /\ phase' = "refused" /\ events' = events + 1
      <3>1. PICK e \in Nat : e = events + 1
        BY <1>0
      <3>2. turn' = [turn EXCEPT ![Host] = [of |-> Generator, ev |-> e, sink |-> 1, on |-> Nobody]]
        BY <1>0, <1>6, <2>3, <3>1 DEF WriteDocument
      <3>3. PICK w \in Busy : w = [of |-> Generator, ev |-> e, sink |-> 1, on |-> Nobody]
        BY <2>1, <2>3, TurnFacts
      <3>4. held' = held /\ turn' = [turn EXCEPT ![Host] = w] /\ events' \in Nat
        BY <1>0, <1>6, <2>3, <3>2, <3>3 DEF WriteDocument
      <3> QED
        BY <1>0, <3>4 DEF Turns
    <2> QED
      BY <1>6, <2>2, <2>3 DEF WriteDocument
  <1>7. ASSUME NEW t, StartTurn(t) PROVE ShapeTurns'
    <2>1. PICK e \in Nat : e = events + 1
      BY <1>0
    <2>2. \E p \in Plugins \union {Host}, c \in Conns \union {Nobody} :
            turn' = [turn EXCEPT ![t] = [of |-> p, ev |-> e, sink |-> 1, on |-> c]]
      BY <1>7, <2>1, StartFacts DEF StartsFor, StartsWork, StartsSweep
    <2>3. PICK w \in Busy : turn' = [turn EXCEPT ![t] = w]
      BY <2>2, TurnFacts
    <2>4. events' = e /\ held' = held
      BY <1>7, <2>1, StartFacts
    <2> QED
      BY <1>0, <2>3, <2>4 DEF Turns
  <1>8. ASSUME NEW t \in Runners, Publish(t) PROVE ShapeTurns'
    <2>1. PICK k \in 1..Len(sinks), s \in Plugins, e \in Nat, u \in Busy : Advances(t, k, s, e, u)
      BY <1>8, PublishFacts DEF HostInv, Shape
    <2>2. held' \in [Plugins -> Seq(Nat)]
      BY <1>0, <2>1, DeliverFacts DEF Advances
    <2>3. turn' = [turn EXCEPT ![t] = u] /\ u \in Turns
      BY <2>1 DEF Advances, Turns
    <2>4. turn' \in [Runners -> Turns]
      BY <1>0, <2>3
    <2>5. events' = events
      BY <1>8 DEF Publish
    <2> QED
      BY <1>0, <2>2, <2>4, <2>5
  <1>9. ASSUME NEW t \in Runners, EndTurn(t) PROVE ShapeTurns'
    BY <1>0, <1>9 DEF EndTurn
  <1>10. ASSUME NEW c \in Conns, Accept(c) \/ Request(c) \/ Flush(c) PROVE ShapeTurns'
    BY <1>0, <1>10 DEF Accept, Request, Flush
  <1>11. CASE BrokerTakes
    <2>1. PICK s \in Plugins : s = "kafka"
      BY <1>11 DEF BrokerTakes, Live
    <2>2. PICK h \in Seq(Nat) : h = held[s]
      BY <1>0
    <2>3. Tail(h) \in Seq(Nat) /\ held' = [held EXCEPT ![s] = Tail(h)]
      BY <1>11, <2>1, <2>2 DEF BrokerTakes
    <2> QED
      BY <1>0, <1>11, <2>3 DEF BrokerTakes
  <1>12. CASE Signal \/ Stop \/ Join \/ Return \/ ShutdownNext
    BY <1>0, <1>12 DEF Signal, Stop, Join, Return, ShutdownNext
  <1>13. CASE CloseNext
    <2>1. <<>> \in Seq(Nat)
      OBVIOUS
    <2> QED
      BY <1>0, <1>13, <2>1 DEF CloseNext
  <1> QED
    BY <1>1, <1>2, <1>3, <1>4, <1>5, <1>6, <1>7, <1>8, <1>9, <1>10, <1>11, <1>12, <1>13
       DEF Next, Boot, MainStep, Shutdown, ThreadStep, Runners

LEMMA ShapeStep == HostInv /\ [Next]_vars => Shape'
  BY ShapeMainStep, ShapeWiringStep, ShapeIoStep, ShapeTurnsStep DEF Shape

-----------------------------------------------------------------------------
(* Each plugin is opened once. *)

LEMMA OpenedOnceStep == HostInv /\ [Next]_vars => OpenedOnce'
  <1> SUFFICES ASSUME HostInv, [Next]_vars PROVE OpenedOnce'
    OBVIOUS
  <1>0. OpenedOnce /\ ShapeMain
    BY DEF HostInv, Shape
  <1>1. ASSUME UNCHANGED <<order, stack>>, phase' = "open" => phase = "open" PROVE OpenedOnce'
    BY <1>0, <1>1 DEF OpenedOnce
  <1>2. CASE UNCHANGED vars
    BY <1>1, <1>2 DEF vars, main
  <1>3. ASSUME NEW p \in Plugins, OpenAll(p) PROVE OpenedOnce'
    <2>1. stack' = <<p>> /\ order' = order /\ p \notin Range(order)
      BY <1>3 DEF OpenAll, Opened
    <2>2. Len(stack') = 1 /\ stack'[1] = p
      BY <2>1
    <2>3. \A i \in 1..1 : i = 1
      OBVIOUS
    <2>4. \A i \in 1..(1 - 1) : FALSE
      OBVIOUS
    <2> QED
      BY <1>0, <2>1, <2>2, <2>3, <2>4 DEF OpenedOnce
  <1>4. CASE Open
    <2>1. phase = "open" /\ stack # <<>> /\ stack \in Seq(Plugins) /\ order \in Seq(Plugins)
      BY <1>0, <1>4 DEF Open, ShapeMain
    <2>2. PICK n \in Nat : n = Len(stack) /\ n >= 1
      BY <2>1
    <2>3. PICK p \in Plugins : p = stack[n] /\ p = Last(stack)
      BY <2>1, <2>2 DEF Last
    <2>4. PICK R : R = Range(order)
      OBVIOUS
    <2>5. /\ \A i \in 1..n : stack[i] \in Plugins \ R
          /\ \A i \in 1..(n - 1) : stack[i + 1] \in Range(Requires[stack[i]])
      BY <1>0, <2>1, <2>2, <2>4 DEF OpenedOnce
    <2>6. PICK s \in Seq(Plugins) : s = Requires[p]
      BY PluginsAssumption
    <2>7. PICK S : S = Plugins \ R
      OBVIOUS
    <2>8. PICK m : m = Only(s, S)
      OBVIOUS
    <2>9. Missing(p) = m
      BY <2>4, <2>6, <2>7, <2>8 DEF Missing, Opened
    <2>10. KeptOf(s, S, Plugins, Len(s), m)
      BY <2>8, OnlyKeeps
    <2>11. CASE m = <<>> /\ order' = Append(order, p) /\ stack' = Front(stack)
      <3>1. \A x \in Range(s) : x \notin S
        <4>1. \A j \in 1..Len(s) : s[j] \in S => \E k \in 1..Len(m) : m[k] = s[j]
          BY <2>10 DEF KeptOf
        <4>2. 1..Len(m) = {}
          BY <2>11
        <4>3. DOMAIN s = 1..Len(s)
          OBVIOUS
        <4> QED
          BY <4>1, <4>2, <4>3 DEF Range
      <3>2. \A i \in 1..(n - 1) : stack[i] # p
        <4> SUFFICES ASSUME NEW i \in 1..(n - 1), stack[i] = p PROVE FALSE
          OBVIOUS
        <4>1. stack[i + 1] \in Range(s) /\ i + 1 \in 1..n
          BY <2>2, <2>5, <2>6
        <4> QED
          BY <2>5, <2>7, <3>1, <4>1
      <3>3. PICK q : q = Front(stack)
        OBVIOUS
      <3>4. q \in Seq(Plugins) /\ Len(q) = n - 1 /\ \A i \in 1..(n - 1) : q[i] = stack[i]
        BY <2>1, <2>2, <3>3 DEF Front
      <3>5. PICK o : o = Append(order, p)
        OBVIOUS
      <3>6. /\ o \in Seq(Plugins) /\ Len(order) \in Nat /\ Len(o) = Len(order) + 1 /\ o[Len(order) + 1] = p
            /\ \A i \in 1..Len(order) : o[i] = order[i] /\ order[i] \in R
        BY <2>1, <2>4, <3>5 DEF Range
      <3>7. \A i \in 1..Len(o) : i \in 1..Len(order) \/ i = Len(order) + 1
        BY <3>6
      <3>8. p \notin R /\ Once(order) /\ \A i \in 1..(n - 1) : i \in 1..n
        <4>1. n \in 1..n /\ \A i \in 1..(n - 1) : i \in 1..n
          BY <2>2
        <4>2. Once(order)
          BY <1>0 DEF OpenedOnce
        <4> QED
          BY <4>1, <4>2, <2>3, <2>5
      <3>9. Once(o)
        <4> SUFFICES ASSUME NEW i \in 1..Len(o), NEW j \in 1..Len(o), o[i] = o[j] PROVE i = j
          BY DEF Once
        <4>1. CASE i \in 1..Len(order) /\ j \in 1..Len(order)
          BY <3>6, <3>8, <4>1 DEF Once
        <4>2. CASE i = Len(order) + 1 \/ j = Len(order) + 1
          BY <3>6, <3>7, <3>8, <4>2
        <4> QED
          BY <3>7, <4>1, <4>2
      <3>10. Range(o) \subseteq R \union {p}
        <4>1. DOMAIN o = 1..Len(o)
          BY <3>6
        <4> QED
          BY <4>1, <3>6, <3>7 DEF Range
      <3>11. \A i \in 1..Len(q) : q[i] \notin Range(o)
        BY <2>5, <3>2, <3>4, <3>8, <3>10
      <3>12. \A i \in 1..(Len(q) - 1) : q[i + 1] \in Range(Requires[q[i]])
        <4> SUFFICES ASSUME NEW i \in 1..(n - 1 - 1) PROVE q[i + 1] \in Range(Requires[q[i]])
          BY <3>4
        <4>1. i \in 1..(n - 1) /\ i + 1 \in 1..(n - 1)
          BY <2>2
        <4> QED
          BY <2>5, <3>4, <4>1
      <3> QED
        BY <2>11, <3>3, <3>5, <3>9, <3>11, <3>12 DEF OpenedOnce
    <2>12. CASE m # <<>> /\ Head(m) \in installed /\ stack' = Append(stack, Head(m)) /\ order' = order
      <3>1. m \in Seq(Plugins \cap S)
        BY <2>10 DEF KeptOf
      <3>2. PICK x \in Plugins \cap S : x = m[1] /\ x = Head(m) /\ 1 \in 1..Len(m)
        BY <2>12, <3>1
      <3>3. x \in Range(s)
        <4>1. PICK j \in 1..Len(s) : m[1] = s[j]
          BY <2>10, <3>2 DEF KeptOf
        <4> QED
          BY <3>2, <4>1 DEF Range
      <3>4. PICK q : q = Append(stack, x)
        OBVIOUS
      <3>5. Len(q) = n + 1 /\ q[n + 1] = x /\ \A i \in 1..n : q[i] = stack[i]
        BY <2>1, <2>2, <3>4
      <3>6. \A i \in 1..(n + 1) : i \in 1..n \/ i = n + 1
        OBVIOUS
      <3>7. \A i \in 1..Len(q) : q[i] \notin R
        BY <2>5, <2>7, <3>2, <3>5, <3>6
      <3>8. \A i \in 1..(Len(q) - 1) : q[i + 1] \in Range(Requires[q[i]])
        <4> SUFFICES ASSUME NEW i \in 1..n PROVE q[i + 1] \in Range(Requires[q[i]])
          BY <2>2, <3>5
        <4>1. CASE i = n
          BY <2>2, <2>3, <2>6, <3>3, <3>5, <4>1
        <4>2. CASE i # n
          <5>1. i \in 1..(n - 1) /\ i + 1 \in 1..n
            BY <2>2, <4>2
          <5> QED
            BY <2>5, <3>5, <5>1
        <4> QED
          BY <4>1, <4>2
      <3> QED
        BY <1>0, <2>4, <2>12, <3>2, <3>4, <3>7, <3>8 DEF OpenedOnce
    <2>13. CASE phase' = "aborted" /\ UNCHANGED <<order, stack>>
      BY <1>0, <2>13 DEF OpenedOnce
    <2> QED
      BY <1>4, <2>3, <2>9, <2>11, <2>12, <2>13 DEF Open, Abort
  <1>5. CASE ApplyLoadBefore
    BY <1>0, <1>5, SortedKeeps DEF ApplyLoadBefore, OpenedOnce, ShapeMain
  <1>6. CASE DiscardUnlisted
    <2>1. PICK S : order' = Only(order, S)
      BY <1>6 DEF DiscardUnlisted
    <2>2. KeptOf(order, S, Plugins, Len(order), Only(order, S))
      BY <1>0, OnlyKeeps DEF ShapeMain
    <2> QED
      BY <1>0, <1>6, <2>1, <2>2 DEF DiscardUnlisted, OpenedOnce, KeptOf
  <1>7. CASE Resolve \/ InitNext \/ ReadyNext \/ BuildReturns
    BY <1>1, <1>7 DEF Resolve, InitNext, ReadyNext, BuildReturns, Abort
  <1>8. CASE WireNext \/ RunMigrations \/ WriteDocument
    BY <1>1, <1>8 DEF WireNext, RunMigrations, WriteDocument, LoadReturns, Abort
  <1>9. ASSUME NEW t, StartTurn(t) \/ Publish(t) \/ EndTurn(t) PROVE OpenedOnce'
    BY <1>1, <1>9 DEF StartTurn, Publish, EndTurn, main
  <1>10. ASSUME NEW c, Accept(c) \/ Request(c) \/ Flush(c) PROVE OpenedOnce'
    BY <1>1, <1>10 DEF Accept, Request, Flush, main
  <1>11. CASE BrokerTakes \/ Signal \/ ShutdownNext \/ Stop \/ Join \/ CloseNext \/ Return
    BY <1>1, <1>11 DEF BrokerTakes, Signal, ShutdownNext, Stop, Join, CloseNext, Return, main
  <1> QED
    BY <1>2, <1>3, <1>4, <1>5, <1>6, <1>7, <1>8, <1>9, <1>10, <1>11
       DEF Next, Boot, MainStep, Shutdown, ThreadStep

-----------------------------------------------------------------------------
(* Turns run between build() and join(). *)

LEMMA TurnsAreLive ==
  ASSUME HostInv
  PROVE  /\ \A t \in Runners : turn[t] # Idle => phase \in LivePhases
         /\ \A t \in Runners : StartTurn(t) => phase \in LivePhases \ {"join"}
         /\ \A c \in Conns : Accept(c) \/ Request(c) \/ Flush(c) => phase \in LivePhases \ {"join"}
  <1>1. phase \in Phases /\ PoolFits /\ BootIsQuiet /\ TurnsEnd /\ Sweeper \in Plugins
    BY IdleFacts DEF HostInv, Shape, ShapeMain
  <1>2. \A t \in Runners : turn[t] # Idle => phase \in LivePhases
    BY <1>1 DEF BootIsQuiet, TurnsEnd, Phases
  <1>3. pool = "up" => phase \notin EndPhases \union {"join"}
    BY <1>1 DEF PoolFits, EndPhases
  <1>4. ASSUME NEW t \in Runners, StartTurn(t) PROVE phase \notin BootPhases
    <2> SUFFICES ASSUME phase \in BootPhases PROVE FALSE
      OBVIOUS
    <2>1. dbWork = 0 /\ got[Sweeper] = {} /\ \A c \in Conns : conn[c] = "none"
      BY <1>1 DEF BootIsQuiet
    <2> QED
      BY <1>4, <2>1, StartFacts DEF StartsFor, StartsWork, StartsSweep
  <1>5. ASSUME NEW c \in Conns, Accept(c) \/ Request(c) \/ Flush(c) PROVE phase \notin BootPhases
    BY <1>1, <1>5 DEF Accept, Request, Flush, BootIsQuiet
  <1>6. \A t : StartTurn(t) => pool = "up"
    BY DEF StartTurn
  <1>7. \A c : Accept(c) \/ Request(c) \/ Flush(c) => pool = "up"
    BY DEF Accept, Request, Flush
  <1> QED
    BY <1>1, <1>2, <1>3, <1>4, <1>5, <1>6, <1>7 DEF Phases

LEMMA PoolFitsStep == HostInv /\ [Next]_vars => PoolFits'
  <1> SUFFICES ASSUME HostInv, [Next]_vars PROVE PoolFits'
    OBVIOUS
  <1> USE DEF PoolFits, EndPhases, Abort
  <1>0. PoolFits
    BY DEF HostInv
  <1>1. CASE UNCHANGED <<phase, pool>>
    BY <1>0, <1>1
  <1>2. CASE UNCHANGED vars
    BY <1>1, <1>2 DEF vars, main
  <1>3. ASSUME NEW p \in Plugins, OpenAll(p) PROVE PoolFits'
    BY <1>1, <1>3 DEF OpenAll
  <1>4. CASE Open \/ ApplyLoadBefore \/ DiscardUnlisted \/ Resolve
    BY <1>0, <1>4 DEF Open, ApplyLoadBefore, DiscardUnlisted, Resolve
  <1>5. CASE InitNext \/ ReadyNext \/ BuildReturns \/ WireNext
    BY <1>0, <1>5 DEF InitNext, ReadyNext, BuildReturns, WireNext
  <1>6. CASE RunMigrations \/ WriteDocument
    BY <1>0, <1>6 DEF RunMigrations, WriteDocument, LoadReturns
  <1>7. ASSUME NEW t, StartTurn(t) \/ Publish(t) \/ EndTurn(t) PROVE PoolFits'
    BY <1>1, <1>7 DEF StartTurn, Publish, EndTurn, main
  <1>8. ASSUME NEW c, Accept(c) \/ Request(c) \/ Flush(c) PROVE PoolFits'
    BY <1>1, <1>8 DEF Accept, Request, Flush, main
  <1>9. CASE BrokerTakes \/ Signal \/ ShutdownNext \/ Stop \/ Join \/ CloseNext \/ Return
    BY <1>0, <1>9 DEF BrokerTakes, Signal, ShutdownNext, Stop, Join, CloseNext, Return, main
  <1> QED
    BY <1>2, <1>3, <1>4, <1>5, <1>6, <1>7, <1>8, <1>9 DEF Next, Boot, MainStep, Shutdown, ThreadStep

LEMMA BootIsQuietStep == HostInv /\ [Next]_vars => BootIsQuiet'
  <1> SUFFICES ASSUME HostInv, [Next]_vars PROVE BootIsQuiet'
    OBVIOUS
  <1>0. BootIsQuiet /\ TurnsEnd
    BY DEF HostInv
  <1>1. CASE phase' \notin BootPhases
    BY <1>1 DEF BootIsQuiet
  <1>2. CASE phase \in BootPhases /\ UNCHANGED <<turn, dbWork, got, listening, goaway, sinks, conn>>
    BY <1>0, <1>2 DEF BootIsQuiet
  <1>3. CASE UNCHANGED vars
    BY <1>1, <1>2, <1>3 DEF vars, main, io, wiring
  <1>4. ASSUME NEW p \in Plugins, OpenAll(p) PROVE BootIsQuiet'
    BY <1>2, <1>4 DEF OpenAll, io, wiring, BootPhases
  <1>5. CASE Open \/ ApplyLoadBefore \/ DiscardUnlisted
    BY <1>1, <1>2, <1>5 DEF Open, ApplyLoadBefore, DiscardUnlisted, io, wiring, BootPhases, Abort
  <1>6. CASE Resolve \/ InitNext \/ ReadyNext \/ BuildReturns
    BY <1>1, <1>6 DEF Resolve, InitNext, ReadyNext, BuildReturns, BootPhases, Abort
  <1>7. CASE WireNext \/ RunMigrations \/ WriteDocument
    BY <1>1, <1>7 DEF WireNext, RunMigrations, WriteDocument, LoadReturns, BootPhases, Abort
  <1>8. ASSUME NEW t \in Runners, StartTurn(t) \/ Publish(t) \/ EndTurn(t) PROVE BootIsQuiet'
    <2>1. phase \in LivePhases
      BY <1>8, TurnsAreLive DEF Publish, EndTurn
    <2>2. phase' = phase
      BY <1>8 DEF StartTurn, Publish, EndTurn, main
    <2> QED
      BY <1>1, <2>1, <2>2 DEF BootPhases, LivePhases
  <1>9. ASSUME NEW c \in Conns, Accept(c) \/ Request(c) \/ Flush(c) PROVE BootIsQuiet'
    <2>1. phase \in LivePhases
      BY <1>9, TurnsAreLive
    <2>2. phase' = phase
      BY <1>9 DEF Accept, Request, Flush, main
    <2> QED
      BY <1>1, <2>1, <2>2 DEF BootPhases, LivePhases
  <1>10. CASE BrokerTakes
    BY <1>1, <1>2, <1>10 DEF BrokerTakes, main, io, wiring
  <1>11. CASE Signal \/ ShutdownNext \/ Stop \/ Join \/ CloseNext \/ Return
    BY <1>1, <1>11 DEF Signal, ShutdownNext, Stop, Join, CloseNext, Return, BootPhases
  <1> QED
    BY <1>3, <1>4, <1>5, <1>6, <1>7, <1>8, <1>9, <1>10, <1>11
       DEF Next, Boot, MainStep, Shutdown, ThreadStep, Runners

LEMMA TurnsEndStep == HostInv /\ [Next]_vars => TurnsEnd'
  <1> SUFFICES ASSUME HostInv, [Next]_vars PROVE TurnsEnd'
    OBVIOUS
  <1>0. TurnsEnd /\ BootIsQuiet /\ ShapeTurns /\ Host \in Runners /\ Host \notin Threads
    BY IdleFacts DEF HostInv, Shape, Runners
  <1> USE DEF TurnsEnd
  <1>1. CASE UNCHANGED <<phase, turn>>
    BY <1>0, <1>1
  <1>2. CASE UNCHANGED vars
    BY <1>1, <1>2 DEF vars, main
  <1>3. ASSUME Abort PROVE TurnsEnd'
    BY <1>0, <1>3 DEF Abort
  <1>4. ASSUME turn' = turn, phase \notin {"refused"} \union EndPhases, phase' \notin EndPhases PROVE TurnsEnd'
    BY <1>0, <1>4
  <1>5. ASSUME NEW p \in Plugins, OpenAll(p) PROVE TurnsEnd'
    BY <1>1, <1>5 DEF OpenAll
  <1>6. CASE Open \/ ApplyLoadBefore \/ DiscardUnlisted \/ Resolve
    BY <1>3, <1>4, <1>6 DEF Open, ApplyLoadBefore, DiscardUnlisted, Resolve, EndPhases
  <1>7. CASE InitNext \/ ReadyNext \/ BuildReturns \/ WireNext \/ RunMigrations
    BY <1>3, <1>4, <1>7 DEF InitNext, ReadyNext, BuildReturns, WireNext, RunMigrations, EndPhases
  <1>8. CASE WriteDocument
    <2>1. ASSUME phase \in {"document", "refused"}, turn[Host] = Idle, LoadReturns PROVE TurnsEnd'
      <3>1. CASE Abort
        BY <1>3, <3>1
      <3>2. CASE phase' = "serve" /\ turn' = turn
        BY <1>0, <2>1, <3>2 DEF EndPhases
      <3> QED
        BY <2>1, <3>1, <3>2 DEF LoadReturns
    <2>2. phase = "document" => turn[Host] = Idle
      BY <1>0
    <2>3. CASE phase' = "refused"
      BY <2>3 DEF EndPhases
    <2> QED
      BY <1>8, <2>1, <2>2, <2>3 DEF WriteDocument
  <1>9. ASSUME NEW t \in Threads, StartTurn(t) PROVE TurnsEnd'
    <2>1. phase \in LivePhases /\ phase' = phase
      BY <1>9, TurnsAreLive DEF StartTurn, main, Runners
    <2>2. turn'[Host] = turn[Host]
      BY <1>0, <1>9, StartFacts DEF StartsFor, StartsWork, StartsSweep, ShapeTurns
    <2> QED
      BY <1>0, <2>1, <2>2 DEF LivePhases, EndPhases
  <1>10. ASSUME NEW t \in Runners, Publish(t) \/ EndTurn(t) PROVE TurnsEnd'
    <2>1. phase \in LivePhases /\ phase' = phase /\ turn[t] # Idle
      BY <1>10, TurnsAreLive DEF Publish, EndTurn, main
    <2>2. t # Host => turn'[Host] = turn[Host]
      BY <1>0, <1>10 DEF Publish, EndTurn, ShapeTurns
    <2> QED
      BY <1>0, <2>1, <2>2 DEF LivePhases, EndPhases
  <1>11. ASSUME NEW c \in Conns, Accept(c) \/ Request(c) \/ Flush(c) PROVE TurnsEnd'
    BY <1>1, <1>11 DEF Accept, Request, Flush, main
  <1>12. CASE BrokerTakes \/ CloseNext \/ ShutdownNext
    BY <1>1, <1>12 DEF BrokerTakes, CloseNext, ShutdownNext, main
  <1>13. CASE Signal \/ Stop
    BY <1>4, <1>13 DEF Signal, Stop, EndPhases
  <1>14. CASE Join
    <2>1. turn[Host] = Idle
      BY <1>0, <1>14 DEF Join
    <2> QED
      BY <1>0, <1>14, <2>1 DEF Join, Runners
  <1>15. CASE Return
    BY <1>0, <1>15 DEF Return, EndPhases
  <1> QED
    BY <1>2, <1>5, <1>6, <1>7, <1>8, <1>9, <1>10, <1>11, <1>12, <1>13, <1>14, <1>15
       DEF Next, Boot, MainStep, Shutdown, ThreadStep, Runners

-----------------------------------------------------------------------------
(* What a turn can reach is alive. *)

LEMMA KeptAreAliveStep == HostInv /\ [Next]_vars => KeptAreAlive'
  <1> SUFFICES ASSUME HostInv, [Next]_vars PROVE KeptAreAlive'
    OBVIOUS
  <1>0. KeptAreAlive /\ ShapeMain /\ ShapeWiring
    BY DEF HostInv, Shape
  <1> USE DEF KeptAreAlive
  <1>1. CASE UNCHANGED <<order, life>> /\ phase \notin EndPhases
    BY <1>0, <1>1 DEF Kept, ShapeMain, Phases
  <1>2. CASE phase' \in EndPhases
    BY <1>2 DEF EndPhases, BootPhases, LivePhases
  <1>3. CASE UNCHANGED <<order, life, phase>>
    BY <1>0, <1>3 DEF Kept
  <1>4. CASE UNCHANGED vars
    BY <1>3, <1>4 DEF vars, main
  <1>5. ASSUME NEW p \in Plugins, OpenAll(p) PROVE KeptAreAlive'
    BY <1>3, <1>5 DEF OpenAll
  <1>6. CASE Open
    <2>1. PICK p : /\ life' = [life EXCEPT ![p] = "made"] /\ p \in Plugins
                   /\ order' = order \/ order' = Append(order, p)
      <3>1. Last(stack) \in Plugins
        BY <1>0, <1>6 DEF Open, ShapeMain, Last
      <3> QED
        BY <1>6, <3>1 DEF Open
    <2>2. Kept' \subseteq Kept \union {p} /\ Kept \subseteq Plugins
      <3>1. order \in Seq(Plugins)
        BY <1>0 DEF ShapeMain
      <3>2. CASE order' = order
        BY <3>1, <3>2 DEF Kept, Range
      <3>3. CASE order' = Append(order, p)
        <4>1. PICK o : o = Append(order, p)
          OBVIOUS
        <4>2. /\ Len(order) \in Nat /\ DOMAIN o = 1..(Len(order) + 1) /\ o[Len(order) + 1] = p
              /\ \A i \in 1..Len(order) : o[i] = order[i]
          BY <2>1, <3>1, <4>1
        <4>3. \A i \in DOMAIN o : i = Len(order) + 1 \/ i \in DOMAIN order
          BY <3>1, <4>2
        <4>4. Range(o) \subseteq Range(order) \union {p}
          BY <3>1, <4>2, <4>3 DEF Range
        <4> QED
          BY <3>1, <3>3, <4>1, <4>4 DEF Kept, Range
      <3> QED
        BY <2>1, <3>2, <3>3
    <2>3. \A q \in Kept : life[q] \notin {"absent", "gone"}
      BY <1>0, <1>6 DEF Open, BootPhases
    <2>4. \A q \in Plugins : life'[q] = IF q = p THEN "made" ELSE life[q]
      BY <1>0, <2>1 DEF ShapeWiring
    <2> QED
      BY <2>1, <2>2, <2>3, <2>4
  <1>7. CASE ApplyLoadBefore
    <2>1. SortedOrder(order) \in Seq(Kept)
      BY <1>0, SortedKeeps DEF ShapeMain, Kept
    <2>2. Range(SortedOrder(order)) \subseteq Kept
      BY <2>1 DEF Range
    <2>3. Kept' \subseteq Kept /\ life' = life /\ phase \in BootPhases
      BY <1>7, <2>2 DEF ApplyLoadBefore, Kept, BootPhases
    <2> QED
      BY <1>0, <2>3
  <1>8. CASE DiscardUnlisted
    <2>1. PICK out : /\ life' = [p \in Plugins |-> IF p \in out THEN "gone" ELSE life[p]]
                     /\ order' = Only(order, Plugins \ out)
      BY <1>8 DEF DiscardUnlisted
    <2>2. PICK S : S = Plugins \ out
      OBVIOUS
    <2>3. PICK K : K = Kept
      OBVIOUS
    <2>4. order \in Seq(K)
      BY <1>0, <2>3 DEF ShapeMain, Kept, Range
    <2>5. KeptOf(order, S, K, Len(order), Only(order, S))
      BY <2>4, OnlyKeeps
    <2>6. order' \in Seq(K \cap S)
      BY <2>1, <2>2, <2>5 DEF KeptOf
    <2>7. Kept' \subseteq Kept \cap (Plugins \ out)
      BY <2>2, <2>3, <2>6 DEF Kept, Range
    <2>8. phase \in BootPhases
      BY <1>8 DEF DiscardUnlisted, BootPhases
    <2> QED
      BY <1>0, <2>1, <2>7, <2>8
  <1>9. CASE Resolve \/ BuildReturns \/ WireNext \/ RunMigrations \/ WriteDocument
    BY <1>1, <1>9 DEF Resolve, BuildReturns, WireNext, RunMigrations, WriteDocument, EndPhases
  <1>10. CASE InitNext \/ ReadyNext
    <2>1. phase \in LivePhases /\ order' = order
      BY <1>10 DEF InitNext, ReadyNext, LivePhases
    <2>2. life' = life \/ \E p : life' = [life EXCEPT ![p] = "loaded"] \/ life' = [life EXCEPT ![p] = "ready"]
      BY <1>10 DEF InitNext, ReadyNext
    <2>3. Kept \subseteq Plugins
      BY <1>0 DEF ShapeMain, Kept, Range
    <2> QED
      BY <1>0, <2>1, <2>2, <2>3 DEF Kept, ShapeWiring
  <1>11. ASSUME NEW t, StartTurn(t) \/ Publish(t) \/ EndTurn(t) PROVE KeptAreAlive'
    BY <1>3, <1>11 DEF StartTurn, Publish, EndTurn, main
  <1>12. ASSUME NEW c, Accept(c) \/ Request(c) \/ Flush(c) PROVE KeptAreAlive'
    BY <1>3, <1>12 DEF Accept, Request, Flush, main
  <1>13. CASE BrokerTakes
    BY <1>3, <1>13 DEF BrokerTakes, main
  <1>14. CASE Signal \/ ShutdownNext \/ Stop
    BY <1>1, <1>14 DEF Signal, ShutdownNext, Stop, EndPhases
  <1>15. CASE Join \/ CloseNext \/ Return
    BY <1>2, <1>15 DEF Join, CloseNext, Return, EndPhases
  <1> QED
    BY <1>4, <1>5, <1>6, <1>7, <1>8, <1>9, <1>10, <1>11, <1>12, <1>13, <1>14, <1>15
       DEF Next, Boot, MainStep, Shutdown, ThreadStep

LEMMA RootedStep == HostInv /\ [Next]_vars => Rooted'
  <1> SUFFICES ASSUME HostInv, [Next]_vars, phase' \in LivePhases PROVE Rooted'
    BY DEF Rooted
  <1>0. Rooted /\ BootIsQuiet /\ ShapeMain /\ ShapeWiring /\ ShapeIo /\ ShapeTurns
    BY DEF HostInv, Shape
  <1>l. phase \in LivePhases =>
          /\ \A c \in Single : cb[c] \in Kept \union {Nobody}
          /\ Range(sinks) \subseteq Kept
          /\ \A p \in Plugins : got[p] # {} => p \in Kept
          /\ listening => Server \in Kept
          /\ (\E c \in Conns : conn[c] # "none") => Server \in Kept
          /\ Generator \in Kept
          /\ \A t \in Runners : turn[t] # Idle => turn[t].of \in Kept \union {Host}
    BY <1>0 DEF Rooted
  <1>1. CASE phase \in LivePhases /\ UNCHANGED <<order, cb, sinks, got, listening, conn, turn>>
    BY <1>l, <1>1 DEF Rooted, Kept
  <1>2. CASE UNCHANGED vars
    BY <1>1, <1>2 DEF vars, main, wiring, io
  <1>3. ASSUME NEW p \in Plugins, OpenAll(p) PROVE FALSE
    BY <1>3 DEF OpenAll, LivePhases
  <1>4. CASE Open \/ ApplyLoadBefore \/ DiscardUnlisted
    BY <1>4 DEF Open, ApplyLoadBefore, DiscardUnlisted, LivePhases, Abort
  <1>5. CASE Resolve
    <2>1. /\ \A t \in Runners : turn[t] = Idle
          /\ \A p \in Plugins : got[p] = {}
          /\ ~listening /\ sinks = <<>> /\ \A c \in Conns : conn[c] = "none"
      BY <1>0, <1>5 DEF Resolve, BootIsQuiet, BootPhases
    <2>2. /\ UNCHANGED <<turn, got, listening, sinks, conn, order>>
          /\ \E p \in Kept : "openapi" \in Exports[p]
      BY <1>5 DEF Resolve, LivePhases, Abort, io, Kept, Opened
    <2>3. Generator \in Kept
      BY <1>0, <2>2, PluginsAssumption, ResolvedFacts
    <2>4. \A c \in Single : cb'[c] \in Kept \union {Nobody}
      BY <1>0, <1>5, ResolvedFacts DEF Resolve
    <2>5. Range(sinks) = {}
      BY <2>1 DEF Range
    <2> QED
      BY <2>1, <2>2, <2>3, <2>4, <2>5 DEF Rooted, Kept
  <1>6. CASE InitNext
    <2>1. phase \in LivePhases /\ UNCHANGED <<order, cb, sinks, listening, conn, turn>>
      BY <1>6 DEF InitNext, LivePhases, Abort, io
    <2>2. PICK g : got' = [got EXCEPT ![order[at]] = g]
      BY <1>6 DEF InitNext, LivePhases, Abort
    <2>3. order[at] \in Kept
      BY <1>0, <1>6 DEF InitNext, ShapeMain, Kept, Range
    <2>4. \A p \in Plugins : got'[p] # {} => p \in Kept
      BY <1>0, <1>l, <2>1, <2>2, <2>3 DEF ShapeWiring
    <2> QED
      BY <1>l, <2>1, <2>4 DEF Rooted, Kept
  <1>7. CASE ReadyNext
    <2>1. phase \in LivePhases /\ UNCHANGED <<order, cb, sinks, got, conn, turn>>
      BY <1>7 DEF ReadyNext, LivePhases, wiring
    <2>2. order[at - Len(order)] \in Kept
      BY <1>0, <1>7 DEF ReadyNext, ShapeMain, Kept, Range
    <2>3. listening' => Server \in Kept
      BY <1>7, <1>l, <2>1, <2>2 DEF ReadyNext
    <2> QED
      BY <1>l, <2>1, <2>3 DEF Rooted, Kept
  <1>8. CASE BuildReturns \/ Signal \/ Stop
    BY <1>1, <1>8 DEF BuildReturns, Signal, Stop, LivePhases, wiring, io
  <1>9. CASE WireNext
    <2>1. phase \in LivePhases /\ UNCHANGED <<order, cb, got, listening, conn, turn>>
      BY <1>9 DEF WireNext, LivePhases, io
    <2>2. sinks' = sinks \/ (sinks' = Append(sinks, order[at]) /\ at <= Len(order))
      BY <1>9 DEF WireNext
    <2>3. Range(sinks') \subseteq Kept
      <3>1. CASE sinks' = sinks
        BY <1>l, <2>1, <3>1
      <3>2. CASE sinks' = Append(sinks, order[at]) /\ at <= Len(order)
        <4>1. at >= 1
          BY <1>0, <1>9 DEF WireNext, ShapeMain
        <4>2. order[at] \in Kept
          BY <1>0, <3>2, <4>1 DEF ShapeMain, Kept, Range
        <4>3. sinks \in Seq(Kept)
          BY <1>0, <1>l, <2>1 DEF ShapeWiring, Range
        <4>4. sinks' \in Seq(Kept)
          BY <3>2, <4>2, <4>3
        <4> QED
          BY <4>4 DEF Range
      <3> QED
        BY <2>2, <3>1, <3>2
    <2> QED
      BY <1>l, <2>1, <2>3 DEF Rooted, Kept
  <1>10. CASE RunMigrations
    BY <1>1, <1>10 DEF RunMigrations, LivePhases, io, Abort
  <1>11. CASE WriteDocument
    <2>1. phase \in LivePhases /\ UNCHANGED <<order, cb, sinks, got, listening, conn>>
      BY <1>11 DEF WriteDocument, LivePhases, wiring, io
    <2>2. \/ turn' = turn
          \/ \E e : turn' = [turn EXCEPT ![Host] = [of |-> Generator, ev |-> e, sink |-> 1, on |-> Nobody]]
      BY <1>11 DEF WriteDocument, LoadReturns, LivePhases, Abort
    <2>3. \A t \in Runners : turn'[t] # Idle => turn'[t].of \in Kept \union {Host}
      BY <1>0, <1>l, <2>1, <2>2 DEF ShapeTurns
    <2> QED
      BY <1>l, <2>1, <2>3 DEF Rooted, Kept
  <1>12. ASSUME NEW t \in Runners, StartTurn(t) PROVE Rooted'
    <2>1. phase \in LivePhases /\ UNCHANGED <<order, cb, sinks, listening>>
      BY <1>12, TurnsAreLive, StartFacts DEF main
    <2>2. CASE \E c \in Conns : StartsFor(t, c)
      <3>1. PICK c \in Conns : StartsFor(t, c)
        BY <2>2
      <3>2. Server \in Kept
        BY <1>l, <2>1, <3>1 DEF StartsFor
      <3>3. got' = got /\ \A u \in Runners : turn'[u] # Idle => turn'[u].of \in Kept \union {Host}
        BY <1>0, <1>l, <2>1, <3>1, <3>2 DEF StartsFor, ShapeTurns
      <3> QED
        BY <1>l, <2>1, <3>2, <3>3 DEF Rooted, Kept
    <2>3. CASE StartsWork(t)
      <3>1. UNCHANGED <<got, conn>> /\ \A u \in Runners : turn'[u] # Idle => turn'[u].of \in Kept \union {Host}
        BY <1>0, <1>l, <2>1, <2>3 DEF StartsWork, ShapeTurns
      <3> QED
        BY <1>l, <2>1, <3>1 DEF Rooted, Kept
    <2>4. CASE StartsSweep(t)
      <3>1. Sweeper \in Kept
        BY <1>l, <2>1, <2>4, IdleFacts DEF StartsSweep
      <3>2. conn' = conn /\ \A u \in Runners : turn'[u] # Idle => turn'[u].of \in Kept \union {Host}
        BY <1>0, <1>l, <2>1, <2>4, <3>1 DEF StartsSweep, ShapeTurns
      <3>3. \A p \in Plugins : got'[p] # {} => p \in Kept
        BY <1>0, <1>l, <2>1, <2>4, <3>1 DEF StartsSweep, ShapeWiring
      <3> QED
        BY <1>l, <2>1, <3>2, <3>3 DEF Rooted, Kept
    <2> QED
      BY <1>12, <2>2, <2>3, <2>4, StartFacts
  <1>13. ASSUME NEW t \in Runners, Publish(t) PROVE Rooted'
    <2>1. phase \in LivePhases /\ UNCHANGED <<order, cb, sinks, got, listening, conn>> /\ turn[t] # Idle
      BY <1>13, TurnsAreLive DEF Publish, main, wiring, io
    <2>2. PICK k \in 1..Len(sinks), s \in Plugins, e \in Nat, u \in Busy : Advances(t, k, s, e, u)
      BY <1>0, <1>13, PublishFacts
    <2>3. \A v \in Runners : turn'[v] # Idle => turn'[v].of \in Kept \union {Host}
      BY <1>0, <1>l, <2>1, <2>2 DEF Advances, ShapeTurns
    <2> QED
      BY <1>l, <2>1, <2>3 DEF Rooted, Kept
  <1>14. ASSUME NEW t \in Runners, EndTurn(t) PROVE Rooted'
    <2>1. phase \in LivePhases /\ UNCHANGED <<order, cb, sinks, got, listening>> /\ turn[t] # Idle
      BY <1>14, TurnsAreLive DEF EndTurn, main, wiring
    <2>2. \A v \in Runners : turn'[v] # Idle => turn'[v].of \in Kept \union {Host}
      BY <1>0, <1>l, <1>14, <2>1 DEF EndTurn, ShapeTurns
    <2>3. turn[t].of \in Kept \union {Host} /\ Server # Host
      BY <1>l, <2>1, IdleFacts
    <2>4. conn' = conn \/ Server \in Kept
      BY <1>14, <2>3 DEF EndTurn
    <2> QED
      BY <1>l, <2>1, <2>2, <2>4 DEF Rooted, Kept
  <1>15. ASSUME NEW c \in Conns, Accept(c) \/ Request(c) \/ Flush(c) PROVE Rooted'
    <2>1. phase \in LivePhases /\ UNCHANGED <<order, cb, sinks, got, listening, turn>>
      BY <1>15, TurnsAreLive DEF Accept, Request, Flush, main, wiring
    <2>2. listening \/ conn[c] # "none"
      BY <1>15 DEF Accept, Request, Flush
    <2> QED
      BY <1>l, <2>1, <2>2 DEF Rooted, Kept
  <1>16. CASE BrokerTakes
    BY <1>1, <1>16 DEF BrokerTakes, main, wiring, io
  <1>17. CASE ShutdownNext
    <2>1. phase \in LivePhases /\ UNCHANGED <<order, cb, sinks, got, turn>>
      BY <1>17 DEF ShutdownNext, LivePhases, wiring
    <2>2. (listening' => listening) /\ \A c \in Conns : conn'[c] # "none" => conn[c] # "none"
      BY <1>17 DEF ShutdownNext
    <2> QED
      BY <1>l, <2>1, <2>2 DEF Rooted, Kept
  <1>18. CASE Join \/ CloseNext \/ Return
    BY <1>18 DEF Join, CloseNext, Return, LivePhases
  <1> QED
    BY <1>2, <1>3, <1>4, <1>5, <1>6, <1>7, <1>8, <1>9, <1>10, <1>11, <1>12, <1>13, <1>14, <1>15, <1>16,
       <1>17, <1>18 DEF Next, Boot, MainStep, Shutdown, ThreadStep, Runners

LEMMA HostInvInit == Init => HostInv
  <1> SUFFICES ASSUME Init PROVE HostInv
    OBVIOUS
  <1>1. Shape
    BY ShapeInit
  <1>2. /\ phase = "open" /\ stack = <<>> /\ order = <<>> /\ sinks = <<>> /\ pool = "up"
        /\ \A t \in Runners : turn[t] = Idle
        /\ dbWork = 0 /\ (\A p \in Plugins : got[p] = {}) /\ ~listening /\ ~goaway
        /\ \A c \in Conns : conn[c] = "none"
    BY DEF Init
  <1>3. 1..Len(order) = {} /\ 1..Len(stack) = {} /\ 1..(Len(stack) - 1) = {} /\ Range(order) = {}
    BY <1>2 DEF Range
  <1>4. OpenedOnce
    BY <1>3 DEF OpenedOnce, Once
  <1>5. PoolFits /\ BootIsQuiet
    BY <1>2 DEF PoolFits, BootIsQuiet, EndPhases
  <1>6. KeptAreAlive /\ Rooted
    BY <1>2, <1>3 DEF KeptAreAlive, Kept, Rooted, LivePhases
  <1>7. TurnsEnd
    BY <1>2 DEF TurnsEnd, EndPhases, Runners
  <1> QED
    BY <1>1, <1>4, <1>5, <1>6, <1>7 DEF HostInv

LEMMA HostInvStep == HostInv /\ [Next]_vars => HostInv'
  BY ShapeStep, OpenedOnceStep, PoolFitsStep, BootIsQuietStep, KeptAreAliveStep, RootedStep, TurnsEndStep
     DEF HostInv

(* A running turn is in a live phase, and reaches only what is in m_order.   *)
LEMMA HostInvImplies == HostInv => NoTurnInDeadPlugin
  <1> SUFFICES ASSUME HostInv, NEW t \in Runners, turn[t] # Idle PROVE Reaches(t) \subseteq Live
    BY DEF NoTurnInDeadPlugin
  <1>1. phase \in LivePhases
    BY TurnsAreLive
  <1>2. Kept \subseteq Plugins
    BY DEF HostInv, Shape, ShapeMain, Kept, Range
  <1>3. Kept \subseteq Live
    BY <1>1, <1>2 DEF HostInv, KeptAreAlive, Live
  <1>4. /\ turn[t].of \in Kept \union {Host} /\ Range(sinks) \subseteq Kept
        /\ \A c \in Single : cb[c] \in Kept \union {Nobody}
        /\ \A p \in Plugins : got[p] # {} => p \in Kept
    BY <1>1 DEF HostInv, Rooted
  <1>5. \A p \in Plugins : "routes" \in got[p] => p \in Kept
    BY <1>4
  <1> QED
    BY <1>3, <1>4, <1>5 DEF Reaches

(***************************************************************************)
(* No thread of the pool, nor main while it publishes, is ever inside a    *)
(* plugin that was discarded or unloaded: run() joins the pool before      *)
(* close_all() and registers nothing before build(), for every set of      *)
(* plugins, requirements, providers and connections.                       *)
(***************************************************************************)
THEOREM TurnsStayInLivePlugins == Spec => []NoTurnInDeadPlugin
  <1>1. HostInv /\ [Next]_vars => HostInv'
    BY HostInvStep
  <1> QED
    BY <1>1, HostInvInit, HostInvImplies, PTL DEF Spec

-----------------------------------------------------------------------------
(* What was accepted is answered before the pool stops. *)

LEMMA DrainInvInit == Init => DrainInv
  <1> SUFFICES ASSUME Init PROVE DrainInv
    OBVIOUS
  <1>1. /\ phase = "open" /\ ~listening /\ ~goaway /\ \A c \in Conns : conn[c] = "none"
        /\ \A t \in Runners : turn[t].of = Nobody
    BY IdleFacts DEF Init
  <1>2. Nobody # Server /\ Host \in Runners
    BY IdleFacts DEF Runners
  <1> QED
    BY <1>1, <1>2 DEF DrainInv

LEMMA DrainInvStep == HostInv /\ DrainInv /\ [Next]_vars => DrainInv'
  <1> SUFFICES ASSUME HostInv, DrainInv, [Next]_vars PROVE DrainInv'
    OBVIOUS
  <1>0. HostInv /\ ShapeMain /\ ShapeIo /\ ShapeTurns /\ ShapeWiring /\ Host \in Runners
    BY DEF HostInv, Shape, Runners
  <1>d. DrainInv
    OBVIOUS
  <1>1. ASSUME UNCHANGED <<phase, order, at, listening, goaway, conn, turn>> PROVE DrainInv'
    BY <1>d, <1>1 DEF DrainInv, ServerIdle
  <1>2. CASE UNCHANGED vars
    BY <1>1, <1>2 DEF vars, main, io
  <1>3. ASSUME phase' \notin {"drain", "join", "close", "done", "init"},
               phase \notin {"drain", "join", "close", "done"},
               UNCHANGED <<listening, goaway, conn, turn>>
        PROVE  DrainInv'
    BY <1>d, <1>3 DEF DrainInv
  <1>4. ASSUME phase' = "aborted", phase \notin {"drain", "join", "close", "done"},
               UNCHANGED <<listening, goaway, conn>>, turn' = [t \in Runners |-> Idle]
        PROVE  DrainInv'
    <2>1. Idle.of # Server
      BY IdleFacts
    <2> QED
      BY <1>0, <1>d, <1>4, <2>1 DEF DrainInv
  <1>5. ASSUME NEW p \in Plugins, OpenAll(p) PROVE DrainInv'
    BY <1>1, <1>5 DEF OpenAll, io, DrainInv, ServerIdle, BootIsQuiet, HostInv, BootPhases, Shape, ShapeMain
  <1>6. CASE Open \/ ApplyLoadBefore \/ DiscardUnlisted
    BY <1>3, <1>4, <1>6 DEF Open, ApplyLoadBefore, DiscardUnlisted, io, Abort
  <1>7. CASE Resolve
    <2>1. ~listening /\ ~goaway
      BY <1>0, <1>7 DEF HostInv, BootIsQuiet, Resolve, BootPhases
    <2>2. CASE phase' = "init" /\ turn' = turn
      BY <1>d, <1>7, <2>1, <2>2 DEF DrainInv, Resolve, io
    <2> QED
      BY <1>4, <1>7, <2>2 DEF Resolve, Abort, io
  <1>8. CASE InitNext
    <2>1. CASE phase' = phase /\ turn' = turn /\ at' = at + 1
      <3>1. \A i \in 1..Len(order) : i + Len(order) < at => i + Len(order) < at + 1
        BY <1>0 DEF ShapeMain
      <3> QED
        BY <1>d, <1>8, <2>1, <3>1 DEF DrainInv, InitNext, io
    <2> QED
      BY <1>4, <1>8, <2>1 DEF InitNext, Abort, io
  <1>9. CASE ReadyNext
    <2>1. /\ phase = "init" /\ at > Len(order) /\ at <= 2 * Len(order) /\ at' = at + 1
          /\ UNCHANGED <<phase, order, goaway, conn, turn>> /\ ~goaway
          /\ order[at - Len(order)] # Server => listening' = listening
      BY <1>9, <1>d DEF ReadyNext, DrainInv
    <2>2. PICK i \in 1..Len(order) : i = at - Len(order)
      BY <1>0, <2>1 DEF ShapeMain
    <2>3. i + Len(order) < at + 1 /\ ~(i + Len(order) < at)
      BY <1>0, <2>2 DEF ShapeMain
    <2>4. \A j \in 1..Len(order) : j + Len(order) < at => j + Len(order) < at + 1
      BY <1>0 DEF ShapeMain
    <2>5. CASE order[i] = Server
      <3>1. ~listening
        <4> SUFFICES ASSUME listening PROVE FALSE
          OBVIOUS
        <4>1. PICK j \in 1..Len(order) : order[j] = Server /\ j + Len(order) < at
          BY <1>d, <2>1 DEF DrainInv
        <4>2. j = i
          BY <1>0, <2>5, <4>1 DEF HostInv, OpenedOnce, Once
        <4> QED
          BY <2>3, <4>1, <4>2
      <3>2. \A c \in Conns : conn[c] = "none"
        BY <1>d, <2>1, <3>1 DEF DrainInv
      <3> QED
        BY <1>d, <2>1, <2>3, <2>5, <3>2 DEF DrainInv
    <2>6. CASE order[i] # Server
      BY <1>d, <2>1, <2>2, <2>4, <2>6 DEF DrainInv
    <2> QED
      BY <2>5, <2>6
  <1>10. CASE BuildReturns \/ WireNext
    BY <1>3, <1>10 DEF BuildReturns, WireNext, io
  <1>11. CASE RunMigrations
    BY <1>3, <1>4, <1>11 DEF RunMigrations, io, Abort
  <1>12. CASE WriteDocument
    <2>1. phase \in {"document", "refused"} /\ UNCHANGED <<listening, goaway, conn>>
      BY <1>12 DEF WriteDocument, io
    <2>2. CASE LoadReturns
      BY <1>3, <1>4, <2>1, <2>2 DEF LoadReturns, Abort
    <2>3. CASE /\ phase' = "refused"
               /\ turn' = [turn EXCEPT ![Host] = [of |-> Generator, ev |-> events', sink |-> 1, on |-> Nobody]]
      <3>1. /\ turn'[Host].of = Generator /\ Generator # Server
            /\ \A t \in Runners : t # Host => turn'[t] = turn[t]
        BY <1>0, <2>3, IdleFacts DEF ShapeTurns
      <3>2. \A t \in Runners : turn'[t].of = Server => turn'[t] = turn[t]
        BY <3>1
      <3> QED
        BY <1>d, <2>1, <2>3, <3>1, <3>2 DEF DrainInv
    <2> QED
      BY <1>12, <2>2, <2>3 DEF WriteDocument
  <1>13. ASSUME NEW t \in Threads, StartTurn(t) PROVE DrainInv'
    <2>1. /\ UNCHANGED <<phase, order, at, listening, goaway>> /\ turn[t] = Idle /\ t \in Runners
          /\ t # Host /\ phase \in LivePhases \ {"join"}
      BY <1>0, <1>13, TurnsAreLive, StartFacts, IdleFacts DEF main, Runners
    <2>2. CASE \E c \in Conns : StartsFor(t, c)
      <3>1. PICK c \in Conns : StartsFor(t, c)
        BY <2>2
      <3>2. conn[c] = "queued" /\ ~ServerIdle /\ conn' = [conn EXCEPT ![c] = "running"]
        BY <3>1 DEF StartsFor, ServerIdle
      <3>3. /\ turn'[t].of = Server /\ turn'[t].on = c
            /\ \A u \in Runners : u # t => turn'[u] = turn[u]
        BY <1>0, <2>1, <3>1 DEF StartsFor, ShapeTurns
      <3>4. \A u \in Runners : turn[u].of # Server
        BY <1>0, <1>d, <3>1 DEF StartsFor, NoTurnOf, DrainInv, Runners
      <3>5. \A u \in Runners : turn'[u].of = Server => u = t
        BY <3>3, <3>4
      <3>6. conn'[c] = "running"
        BY <1>0, <3>2 DEF ShapeIo
      <3>7. listening \/ goaway
        BY <1>d, <3>2 DEF DrainInv
      <3>8. turn'[Host].of # Server
        BY <1>0, <2>1, <3>5
      <3> QED
        BY <1>d, <2>1, <3>2, <3>3, <3>5, <3>6, <3>7, <3>8 DEF DrainInv, LivePhases
    <2>3. CASE StartsWork(t) \/ StartsSweep(t)
      <3>1. conn' = conn /\ turn'[t].of # Server /\ \A u \in Runners : u # t => turn'[u] = turn[u]
        BY <1>0, <2>1, <2>3, IdleFacts DEF StartsWork, StartsSweep, ShapeTurns
      <3>2. \A u \in Runners : turn'[u].of = Server => turn'[u] = turn[u]
        BY <3>1
      <3> QED
        BY <1>0, <1>d, <2>1, <3>1, <3>2 DEF DrainInv, ServerIdle
    <2> QED
      BY <1>13, <2>2, <2>3, StartFacts
  <1>14. ASSUME NEW t \in Runners, Publish(t) PROVE DrainInv'
    <2>1. UNCHANGED <<phase, order, at, listening, goaway, conn>>
      BY <1>14 DEF Publish, main, io
    <2>2. PICK k \in 1..Len(sinks), s \in Plugins, e \in Nat, u \in Busy : Advances(t, k, s, e, u)
      BY <1>0, <1>14, PublishFacts
    <2>3. \A v \in Runners : turn'[v].of = turn[v].of /\ turn'[v].on = turn[v].on
      BY <1>0, <2>2 DEF Advances, ShapeTurns
    <2> QED
      BY <1>0, <1>d, <2>1, <2>3 DEF DrainInv, ServerIdle
  <1>15. ASSUME NEW t \in Runners, EndTurn(t) PROVE DrainInv'
    <2>1. UNCHANGED <<phase, order, at, listening, goaway>> /\ turn' = [turn EXCEPT ![t] = Idle]
      BY <1>15 DEF EndTurn, main
    <2>2. /\ turn'[t].of # Server /\ \A v \in Runners : v # t => turn'[v] = turn[v]
      BY <1>0, <2>1, IdleFacts DEF ShapeTurns
    <2>3. CASE turn[t].of # Server
      <3>1. conn' = conn
        BY <1>15, <2>3 DEF EndTurn
      <3> QED
        BY <1>0, <1>d, <2>1, <2>2, <3>1 DEF DrainInv, ServerIdle
    <2>4. CASE turn[t].of = Server
      <3>1. PICK c \in Conns : c = turn[t].on /\ conn[c] = "running"
        BY <1>d, <2>4 DEF DrainInv
      <3>2. conn' = [conn EXCEPT ![c] = "sending"] /\ ~ServerIdle
        BY <1>15, <2>4, <3>1 DEF EndTurn, ServerIdle
      <3>3. \A v \in Runners : turn'[v].of # Server
        BY <1>d, <2>2, <2>4 DEF DrainInv
      <3>4. listening \/ goaway
        BY <1>d, <3>1 DEF DrainInv
      <3> QED
        BY <1>0, <1>d, <2>1, <3>2, <3>3, <3>4 DEF DrainInv
    <2> QED
      BY <2>3, <2>4
  <1>16. ASSUME NEW c \in Conns, Accept(c) \/ Request(c) \/ Flush(c) PROVE DrainInv'
    <2>1. UNCHANGED <<phase, order, at, listening, goaway, turn>> /\ phase \in LivePhases \ {"join"}
      BY <1>16, TurnsAreLive DEF Accept, Request, Flush, main
    <2>2. PICK x : conn' = [conn EXCEPT ![c] = x]
      BY <1>16 DEF Accept, Request, Flush
    <2>3. conn[c] # "running" /\ (listening \/ (~ServerIdle /\ conn[c] # "none"))
      BY <1>16 DEF Accept, Request, Flush, ServerIdle
    <2>4. \A d \in Conns : conn[d] = "running" => conn'[d] = "running"
      BY <1>0, <2>2, <2>3 DEF ShapeIo
    <2>5. listening \/ goaway
      BY <1>d, <2>3 DEF DrainInv
    <2> QED
      BY <1>0, <1>d, <2>1, <2>3, <2>4, <2>5 DEF DrainInv, LivePhases
  <1>17. CASE BrokerTakes
    BY <1>1, <1>17 DEF BrokerTakes, main, io
  <1>18. CASE Signal
    <2>1. phase = "serve" /\ phase' = "drain" /\ at' = 1 /\ UNCHANGED <<order, listening, goaway, conn, turn>>
      BY <1>18 DEF Signal, io
    <2>2. listening \/ ~ServerIdle => Server \in Kept
      BY <1>0, <2>1 DEF HostInv, Rooted, LivePhases, ServerIdle
    <2>3. Server \in Kept => \E i \in 1..Len(order) : i >= 1 /\ order[i] = Server
      BY <1>0 DEF Kept, Range, ShapeMain
    <2> QED
      BY <1>d, <2>1, <2>2, <2>3 DEF DrainInv, ServerIdle
  <1>19. CASE ShutdownNext
    <2>1. phase = "drain" /\ at \in 1..Len(order) /\ UNCHANGED <<phase, order, turn>>
      BY <1>0, <1>19 DEF ShutdownNext, ShapeMain
    <2>2. CASE (order[at] # Server \/ ~(listening \/ goaway)) /\ at' = at + 1 /\ UNCHANGED <<listening, goaway, conn>>
      <3>1. \A i \in 1..Len(order) : i >= at /\ order[i] = Server /\ order[at] # Server => i >= at + 1
        BY <2>1
      <3>2. CASE order[at] # Server
        BY <1>d, <2>1, <2>2, <3>1, <3>2 DEF DrainInv, ServerIdle
      <3>3. CASE ~(listening \/ goaway)
        <4>1. ServerIdle /\ \A c \in Conns : conn[c] = "none"
          BY <1>d, <3>3 DEF DrainInv, ServerIdle
        <4> QED
          BY <1>d, <2>1, <2>2, <3>3, <4>1 DEF DrainInv, ServerIdle
      <3> QED
        BY <2>2, <3>2, <3>3
    <2>3. CASE /\ order[at] = Server /\ listening /\ listening' = FALSE /\ goaway' = TRUE /\ at' = at
               /\ conn' = [c \in Conns |-> IF conn[c] \in {"open", "served"} THEN "sending" ELSE conn[c]]
      <3>1. at >= at /\ \A c \in Conns : conn[c] = "running" => conn'[c] = "running"
        BY <2>1, <2>3
      <3> QED
        BY <1>d, <2>1, <2>3, <3>1 DEF DrainInv
    <2>4. CASE /\ order[at] = Server /\ goaway /\ ServerIdle /\ at' = at + 1 /\ UNCHANGED <<listening, goaway>>
               /\ conn' = [c \in Conns |-> IF conn[c] = "none" THEN "none" ELSE "closed"]
      <3>1. ServerIdle' /\ ~listening
        BY <1>d, <2>4 DEF DrainInv, ServerIdle
      <3>2. \A t \in Runners : turn[t].of # Server
        BY <1>d, <2>4 DEF DrainInv, ServerIdle
      <3> QED
        BY <1>d, <2>1, <2>4, <3>1, <3>2 DEF DrainInv
    <2> QED
      BY <1>19, <2>2, <2>3, <2>4 DEF ShutdownNext
  <1>20. CASE Stop
    <2>1. phase = "drain" /\ at > Len(order) /\ phase' = "join" /\ UNCHANGED <<listening, goaway, conn, turn>>
      BY <1>20 DEF Stop, io
    <2>2. \A i \in 1..Len(order) : ~(i >= at)
      BY <1>0, <2>1 DEF ShapeMain
    <2>3. ~listening /\ ServerIdle
      BY <1>d, <2>1, <2>2 DEF DrainInv
    <2> QED
      BY <1>d, <2>1, <2>3 DEF DrainInv, ServerIdle
  <1>21. CASE Join \/ CloseNext \/ Return
    <2>1. /\ phase \in {"join", "close"} /\ phase' \in {"close", "done"}
          /\ UNCHANGED <<listening, goaway, conn, turn>>
      BY <1>21 DEF Join, CloseNext, Return, io
    <2> QED
      BY <1>d, <2>1 DEF DrainInv, ServerIdle
  <1> QED
    BY <1>2, <1>5, <1>6, <1>7, <1>8, <1>9, <1>10, <1>11, <1>12, <1>13, <1>14, <1>15, <1>16, <1>17,
       <1>18, <1>19, <1>20, <1>21 DEF Next, Boot, MainStep, Shutdown, ThreadStep, Runners

-----------------------------------------------------------------------------
(* What is published reaches every sink. *)

LEMMA EventInvInit == Init => EventInv
  <1> SUFFICES ASSUME Init PROVE EventInv
    OBVIOUS
  <1>1. wiredAt = -1
    BY DEF Init
  <1> QED
    BY <1>1 DEF EventInv

LEMMA EventInvStep == HostInv /\ EventInv /\ [Next]_vars => EventInv'
  <1> SUFFICES ASSUME HostInv, EventInv, [Next]_vars PROVE EventInv'
    OBVIOUS
  <1>0. ShapeMain /\ ShapeWiring /\ ShapeTurns /\ TurnsEnd /\ wiredAt \in Int /\ events \in Nat
    BY DEF HostInv, Shape, ShapeWiring, ShapeTurns
  <1>e. EventInv
    OBVIOUS
  <1>1. ASSUME wiredAt < 0, wiredAt' = wiredAt PROVE EventInv'
    BY <1>0, <1>1 DEF EventInv
  <1>2. ASSUME UNCHANGED <<wiredAt, events, sinks, turn, held, sent, dropped, life>>, phase # "aborted",
               phase' \notin BootPhases \union {"init", "wire"}
        PROVE  EventInv'
    <2>1. \A s, e : Delivered(s, e)' = Delivered(s, e)
      BY <1>2 DEF Delivered, Live
    <2>2. \A e, j : Pending(e, j)' = Pending(e, j)
      BY <1>2 DEF Pending
    <2> QED
      BY <1>e, <1>2, <2>1, <2>2 DEF EventInv
  <1>3. ASSUME phase' = "aborted" PROVE EventInv'
    BY <1>3 DEF EventInv, BootPhases
  <1>4. ASSUME UNCHANGED <<phase, wiredAt, events, sinks, turn, held, sent, dropped, life>> PROVE EventInv'
    <2>1. \A s, e : Delivered(s, e)' = Delivered(s, e)
      BY <1>4 DEF Delivered, Live
    <2>2. \A e, j : Pending(e, j)' = Pending(e, j)
      BY <1>4 DEF Pending
    <2> QED
      BY <1>e, <1>4, <2>1, <2>2 DEF EventInv
  <1>5. CASE UNCHANGED vars
    BY <1>4, <1>5 DEF vars, main, wiring, bus
  <1>6. ASSUME phase \in BootPhases \union {"init", "wire"} PROVE wiredAt < 0
    BY <1>0, <1>e, <1>6 DEF EventInv
  <1>7. ASSUME NEW p \in Plugins, OpenAll(p) PROVE EventInv'
    BY <1>1, <1>6, <1>7 DEF OpenAll, wiring, BootPhases
  <1>8. CASE Open \/ ApplyLoadBefore \/ DiscardUnlisted \/ Resolve
    BY <1>1, <1>6, <1>8 DEF Open, ApplyLoadBefore, DiscardUnlisted, Resolve, wiring, BootPhases
  <1>9. CASE InitNext \/ ReadyNext \/ BuildReturns
    BY <1>1, <1>6, <1>9 DEF InitNext, ReadyNext, BuildReturns, wiring
  <1>10. CASE WireNext
    <2>1. CASE wiredAt' = wiredAt
      BY <1>1, <1>6, <1>10, <2>1 DEF WireNext
    <2>2. CASE wiredAt' = events /\ phase' = "migrate"
      <3>1. events' = events
        BY <1>10 DEF WireNext, bus
      <3>2. (events + 1)..events = {}
        BY <1>0
      <3> QED
        BY <2>2, <3>1, <3>2 DEF EventInv, BootPhases
    <2> QED
      BY <1>10, <2>1, <2>2 DEF WireNext
  <1>11. CASE RunMigrations
    BY <1>2, <1>3, <1>11 DEF RunMigrations, bus, Abort, BootPhases
  <1>12. CASE WriteDocument
    <2>1. UNCHANGED <<wiredAt, sinks, held, sent, dropped, life>> /\ phase \in {"document", "refused"}
      BY <1>12 DEF WriteDocument, wiring
    <2>2. CASE LoadReturns /\ UNCHANGED events
      BY <1>2, <1>3, <2>1, <2>2 DEF LoadReturns, Abort, BootPhases
    <2>3. CASE /\ phase = "document" /\ phase' = "refused" /\ events' = events + 1
               /\ turn' = [turn EXCEPT ![Host] = [of |-> Generator, ev |-> events', sink |-> 1, on |-> Nobody]]
      <3>1. turn[Host] = Idle /\ Host \in Runners
        BY <1>0, <2>3 DEF TurnsEnd, Runners
      <3>2. /\ turn'[Host].ev = events + 1 /\ turn'[Host].sink = 1
            /\ \A t \in Runners : t # Host => turn'[t] = turn[t]
        BY <1>0, <2>3, <3>1 DEF ShapeTurns
      <3>3. \A s, e : Delivered(s, e)' = Delivered(s, e)
        BY <2>1 DEF Delivered, Live
      <3>4. ASSUME wiredAt >= 0, NEW e \in (wiredAt + 1)..(events + 1), NEW j \in 1..Len(sinks)
            PROVE  Pending(e, j)' \/ Delivered(sinks[j], e)
        <4>1. CASE e = events + 1
          <5>1. 1 <= j
            OBVIOUS
          <5> QED
            BY <3>1, <3>2, <4>1, <5>1 DEF Pending
        <4>2. CASE e # events + 1
          <5>1. e \in (wiredAt + 1)..events /\ e # 0
            BY <1>0, <3>4, <4>2
          <5>2. Pending(e, j) \/ Delivered(sinks[j], e)
            BY <1>e, <2>3, <3>4, <5>1 DEF EventInv
          <5>3. Pending(e, j) => Pending(e, j)'
            BY <3>1, <3>2, <5>1, IdleFacts DEF Pending
          <5> QED
            BY <5>2, <5>3
        <4> QED
          BY <4>1, <4>2
      <3> QED
        BY <2>1, <2>3, <3>3, <3>4 DEF EventInv, BootPhases
    <2> QED
      BY <1>12, <2>2, <2>3 DEF WriteDocument
  <1>13. ASSUME NEW t \in Runners, StartTurn(t) PROVE EventInv'
    <2>1. /\ UNCHANGED <<phase, wiredAt, sinks, held, sent, dropped, life>>
          /\ events' = events + 1 /\ turn[t] = Idle
      BY <1>13, StartFacts DEF main
    <2>2. /\ turn'[t].ev = events + 1 /\ turn'[t].sink = 1
          /\ \A u \in Runners : u # t => turn'[u] = turn[u]
      BY <1>0, <1>13, StartFacts DEF ShapeTurns, StartsFor, StartsWork, StartsSweep
    <2>3. \A s, e : Delivered(s, e)' = Delivered(s, e)
      BY <2>1 DEF Delivered, Live
    <2>4. ASSUME wiredAt >= 0, phase # "aborted", NEW e \in (wiredAt + 1)..(events + 1), NEW j \in 1..Len(sinks)
          PROVE  Pending(e, j)' \/ Delivered(sinks[j], e)
      <3>1. CASE e = events + 1
        <4>1. 1 <= j
          OBVIOUS
        <4> QED
          BY <2>2, <3>1, <4>1 DEF Pending
      <3>2. CASE e # events + 1
        <4>1. e \in (wiredAt + 1)..events /\ e # 0
          BY <1>0, <2>4, <3>2
        <4>2. Pending(e, j) \/ Delivered(sinks[j], e)
          BY <1>e, <2>4, <4>1 DEF EventInv
        <4>3. Pending(e, j) => Pending(e, j)'
          BY <2>1, <2>2, <4>1, IdleFacts DEF Pending
        <4> QED
          BY <4>2, <4>3
      <3> QED
        BY <3>1, <3>2
    <2> QED
      BY <1>e, <2>1, <2>3, <2>4 DEF EventInv
  <1>14. ASSUME NEW t \in Runners, Publish(t) PROVE EventInv'
    <2>1. UNCHANGED <<phase, wiredAt, events, sinks, life>>
      BY <1>14 DEF Publish, main, wiring
    <2>2. PICK k \in 1..Len(sinks), s \in Plugins, e \in Nat, u \in Busy : Advances(t, k, s, e, u)
      BY <1>0, <1>14, PublishFacts
    <2>3. /\ turn'[t] = u /\ turn[t].ev = e /\ turn[t].sink = k /\ u.ev = e /\ u.sink = k + 1 /\ s = sinks[k]
          /\ \A v \in Runners : v # t => turn'[v] = turn[v]
      BY <1>0, <2>2 DEF Advances, ShapeTurns
    <2>4. /\ sent \subseteq sent' /\ dropped \subseteq dropped'
          /\ \A p \in Plugins : p # "memory" => Range(held[p]) \subseteq Range(held'[p])
          /\ s # "memory" => (s = "kafka" /\ e \in Range(held'[s])) \/ <<s, e>> \in sent' \union dropped'
          /\ \A x \in Range(held["memory"]) \union (IF s = "memory" THEN {e} ELSE {}) :
               "memory" \in Plugins => x \in Range(held'["memory"]) \/ Len(held'["memory"]) = MaxRing
          /\ "memory" \in Plugins /\ Len(held["memory"]) = MaxRing => Len(held'["memory"]) = MaxRing
      BY <1>0, <2>2, DeliverFacts DEF Advances
    <2>5. ASSUME NEW p \in Plugins, NEW x, Delivered(p, x) PROVE Delivered(p, x)'
      <3>1. Live' = Live
        BY <2>1 DEF Live
      <3>2. CASE p = "memory"
        BY <2>4, <2>5, <3>1, <3>2 DEF Delivered
      <3>3. CASE p # "memory"
        BY <2>4, <2>5, <3>3 DEF Delivered
      <3> QED
        BY <3>2, <3>3
    <2>6. Delivered(s, e)'
      <3>1. CASE s = "memory"
        BY <2>4, <3>1 DEF Delivered
      <3>2. CASE s # "memory"
        BY <2>4, <3>2 DEF Delivered
      <3> QED
        BY <3>1, <3>2
    <2>7. ASSUME NEW x \in (wiredAt + 1)..events, NEW j \in 1..Len(sinks), Pending(x, j)
          PROVE  Pending(x, j)' \/ Delivered(sinks[j], x)'
      <3>1. PICK v \in Runners : turn[v].ev = x /\ turn[v].sink <= j
        BY <2>7 DEF Pending
      <3>2. CASE v # t
        BY <2>3, <3>1, <3>2 DEF Pending
      <3>3. CASE v = t /\ k = j
        BY <2>1, <2>3, <2>6, <3>1, <3>3
      <3>4. CASE v = t /\ k # j
        <4>1. k + 1 <= j
          BY <2>3, <3>1, <3>4
        <4> QED
          BY <2>3, <3>1, <3>4, <4>1 DEF Pending
      <3> QED
        BY <3>2, <3>3, <3>4
    <2>8. \A j \in 1..Len(sinks) : sinks[j] \in Plugins
      BY <1>0 DEF ShapeWiring
    <2> QED
      BY <1>e, <2>1, <2>5, <2>7, <2>8 DEF EventInv
  <1>15. ASSUME NEW t \in Runners, EndTurn(t) PROVE EventInv'
    <2>1. /\ UNCHANGED <<phase, wiredAt, events, sinks, held, sent, dropped, life>> /\ turn[t] # Idle
          /\ turn[t].sink > Len(sinks) /\ turn' = [turn EXCEPT ![t] = Idle]
      BY <1>15 DEF EndTurn, main, wiring, bus
    <2>2. \A u \in Runners : u # t => turn'[u] = turn[u]
      BY <1>0, <2>1 DEF ShapeTurns
    <2>3. \A s, e : Delivered(s, e)' = Delivered(s, e)
      BY <2>1 DEF Delivered, Live
    <2>4. turn[t].sink \in Nat /\ Len(sinks) \in Nat
      BY <1>0, <2>1, IdleFacts DEF ShapeTurns, ShapeWiring, Turns
    <2>5. \A j \in 1..Len(sinks) : ~(turn[t].sink <= j)
      BY <2>1, <2>4
    <2>6. \A e : \A j \in 1..Len(sinks) : Pending(e, j) => Pending(e, j)'
      BY <2>2, <2>5 DEF Pending
    <2> QED
      BY <1>e, <2>1, <2>3, <2>6 DEF EventInv
  <1>16. ASSUME NEW c \in Conns, Accept(c) \/ Request(c) \/ Flush(c) PROVE EventInv'
    BY <1>4, <1>16 DEF Accept, Request, Flush, main, wiring, bus
  <1>17. CASE BrokerTakes
    <2>1. /\ UNCHANGED <<phase, wiredAt, events, sinks, turn, dropped, life>> /\ "kafka" \in Plugins
          /\ held["kafka"] # <<>> /\ sent' = sent \union {<<"kafka", Head(held["kafka"])>>}
          /\ held' = [held EXCEPT !["kafka"] = Tail(held["kafka"])]
      BY <1>17 DEF BrokerTakes, main, wiring, Live
    <2>2. PICK h \in Seq(Nat) : h = held["kafka"] /\ h # <<>>
      BY <1>0, <2>1 DEF ShapeTurns
    <2>3. \A i \in 1..Len(h) : h[i] = Head(h) \/ \E l \in 1..Len(Tail(h)) : Tail(h)[l] = h[i]
      <3> SUFFICES ASSUME NEW i \in 1..Len(h), i # 1 PROVE \E l \in 1..Len(Tail(h)) : Tail(h)[l] = h[i]
        BY <2>2
      <3>1. i - 1 \in 1..Len(Tail(h)) /\ Tail(h)[i - 1] = h[i]
        BY <2>2
      <3> QED
        BY <3>1
    <2>4. \A x \in Range(h) : x = Head(h) \/ x \in Range(Tail(h))
      <3>1. DOMAIN h = 1..Len(h) /\ DOMAIN Tail(h) = 1..Len(Tail(h))
        BY <2>2
      <3> QED
        BY <2>3, <3>1 DEF Range
    <2>5. held'["kafka"] = Tail(h) /\ \A p \in Plugins : p # "kafka" => held'[p] = held[p]
      BY <1>0, <2>1, <2>2 DEF ShapeTurns
    <2>6. ASSUME NEW p \in Plugins, NEW x, Delivered(p, x) PROVE Delivered(p, x)'
      <3>1. Live' = Live
        BY <2>1 DEF Live
      <3>2. CASE p = "kafka"
        BY <2>1, <2>2, <2>4, <2>5, <2>6, <3>2 DEF Delivered
      <3>3. CASE p # "kafka"
        BY <2>1, <2>5, <2>6, <3>1, <3>3 DEF Delivered
      <3> QED
        BY <3>2, <3>3
    <2>7. \A e, j : Pending(e, j)' = Pending(e, j)
      BY <2>1 DEF Pending
    <2>8. \A j \in 1..Len(sinks) : sinks[j] \in Plugins
      BY <1>0 DEF ShapeWiring
    <2> QED
      BY <1>e, <2>1, <2>6, <2>7, <2>8 DEF EventInv
  <1>18. CASE Signal \/ Stop \/ Join \/ Return
    BY <1>2, <1>18 DEF Signal, Stop, Join, Return, wiring, bus, BootPhases
  <1>19. CASE ShutdownNext
    BY <1>4, <1>19 DEF ShutdownNext, wiring, bus
  <1>20. CASE CloseNext
    <2>1. PICK p : p = order[at]
      OBVIOUS
    <2>2. /\ UNCHANGED <<phase, wiredAt, events, sinks, turn>>
          /\ life' = [life EXCEPT ![p] = "gone"] /\ held' = [held EXCEPT ![p] = <<>>]
          /\ p # "kafka" => UNCHANGED <<sent, dropped>>
          /\ p = "kafka" => KafkaUnload
      BY <1>20, <2>1 DEF CloseNext, wiring
    <2>3. \A q \in Plugins : q # p => held'[q] = held[q] /\ life'[q] = life[q]
      BY <1>0, <2>2 DEF ShapeTurns, ShapeWiring
    <2>4. p \in Plugins => life'[p] = "gone"
      BY <1>0, <2>2 DEF ShapeWiring
    <2>5. sent \subseteq sent' /\ dropped \subseteq dropped'
      BY <2>2 DEF KafkaUnload
    <2>6. ASSUME p = "kafka", p \in Plugins, NEW x \in Range(held[p])
          PROVE  <<p, x>> \in sent' \union dropped'
      <3>1. PICK h \in Seq(Nat) : h = held["kafka"]
        BY <1>0, <2>6 DEF ShapeTurns
      <3>2. PICK n \in 0..Len(held["kafka"]) :
              /\ sent' = sent \union {<<"kafka", held["kafka"][i]>> : i \in 1..n}
              /\ dropped' = dropped \union {<<"kafka", held["kafka"][i]>> : i \in (n + 1)..Len(held["kafka"])}
        BY <2>2, <2>6 DEF KafkaUnload
      <3>3. PICK i \in 1..Len(h) : x = h[i]
        BY <2>6, <3>1 DEF Range
      <3>4. i \in 1..n \/ i \in (n + 1)..Len(h)
        BY <3>1, <3>2
      <3>5. x = held["kafka"][i] /\ (i \in 1..n \/ i \in (n + 1)..Len(held["kafka"]))
        BY <3>1, <3>3, <3>4
      <3> QED
        BY <2>6, <3>2, <3>5
    <2>7. ASSUME NEW q \in Plugins, NEW x, Delivered(q, x) PROVE Delivered(q, x)'
      <3>1. CASE q # p
        BY <2>3, <2>5, <2>7, <3>1 DEF Delivered, Live
      <3>2. CASE q = p /\ q = "memory"
        BY <2>4, <3>2 DEF Delivered, Live
      <3>3. CASE q = p /\ q # "memory"
        BY <2>5, <2>6, <2>7, <3>3 DEF Delivered
      <3> QED
        BY <3>1, <3>2, <3>3
    <2>8. \A e, j : Pending(e, j)' = Pending(e, j)
      BY <2>2 DEF Pending
    <2>9. \A j \in 1..Len(sinks) : sinks[j] \in Plugins
      BY <1>0 DEF ShapeWiring
    <2> QED
      BY <1>e, <2>2, <2>7, <2>8, <2>9 DEF EventInv
  <1> QED
    BY <1>5, <1>7, <1>8, <1>9, <1>10, <1>11, <1>12, <1>13, <1>14, <1>15, <1>16, <1>17,
       <1>18, <1>19, <1>20 DEF Next, Boot, MainStep, Shutdown, ThreadStep, Runners

CarryInv == HostInv /\ DrainInv /\ EventInv

LEMMA CarryInvImplies == CarryInv => CarriedToTheEnd
  <1> SUFFICES ASSUME CarryInv PROVE CarriedToTheEnd
    OBVIOUS
  <1>1. DrainedBeforeStop
    <2>1. pool # "up" /\ phase # "aborted" => phase \in {"join", "close", "done"}
      BY DEF CarryInv, HostInv, PoolFits, EndPhases
    <2> QED
      BY <2>1 DEF CarryInv, DrainInv, DrainedBeforeStop
  <1>2. EventsReachEverySink
    <2> SUFFICES ASSUME NEW e \in (wiredAt + 1)..events, wiredAt >= 0, phase # "aborted",
                        \A t \in Runners : turn[t].ev # e, NEW s \in Range(sinks)
                 PROVE  Delivered(s, e)
      BY DEF EventsReachEverySink, Delivered
    <2>1. PICK j \in 1..Len(sinks) : s = sinks[j]
      BY DEF CarryInv, HostInv, Shape, ShapeWiring, Range
    <2> QED
      BY <2>1 DEF CarryInv, EventInv, Pending
  <1> QED
    BY <1>1, <1>2 DEF CarriedToTheEnd

(***************************************************************************)
(* For every installation, any number of threads and connections and any   *)
(* ring: when the pool is told to stop every accepted connection has been  *)
(* answered and flushed, because shutdown_plugins() comes to the server    *)
(* exactly once; and every event published since the sinks were wired is   *)
(* in a ring that did not evict since, or queued in, sent by or refused by *)
(* each broker.                                                            *)
(***************************************************************************)
THEOREM NothingAcceptedIsDropped == Spec => []CarriedToTheEnd
  <1>1. Init => CarryInv
    BY HostInvInit, DrainInvInit, EventInvInit DEF CarryInv
  <1>2. CarryInv /\ [Next]_vars => CarryInv'
    BY HostInvStep, DrainInvStep, EventInvStep DEF CarryInv
  <1> QED
    BY <1>1, <1>2, CarryInvImplies, PTL DEF Spec

-----------------------------------------------------------------------------
(* Lifetimes nest. *)

(* In m_order what a plugin requires comes before it, and while plugins are  *)
(* opened all of it is there.                                                *)
RequiredAhead ==
  /\ \A q \in Kept : \A p \in Range(Requires[q]) \intersect Kept : Ahead(order, p, q)
  /\ phase = "open" => \A q \in Kept : Range(Requires[q]) \subseteq Kept

(* From the sort on, blockers come before what they block. *)
BlockersAhead ==
  phase \notin {"open", "aborted"} => \A p, q \in Kept : Blocks(p, q) => Ahead(order, p, q)

(* The two passes of build(). *)
LoadedInOrder ==
  /\ phase \in BootPhases => \A p \in Plugins : life[p] \notin {"loaded", "ready"}
  /\ phase = "init" => \A i \in 1..Len(order) : i < at => life[order[i]] \in {"loaded", "ready"}
  /\ phase = "init" /\ at <= Len(order) => \A p \in Kept : life[p] # "ready"
  /\ phase \in LivePhases \ {"init"} => \A p \in Kept : life[p] \in {"loaded", "ready"}

(* The callback table holds what resolve_*_capability() found. *)
WiredAsResolved == phase \in LivePhases => \A c \in Single : cb[c] = Resolved(c)

(* close_all() has unloaded exactly the plugins behind its index. *)
ClosedInReverse ==
  /\ phase = "aborted" => \A p \in Kept : life[p] # "gone"
  /\ phase \in {"close", "done"} =>
       at <= Len(order) /\ \A i \in 1..Len(order) : life[order[i]] = "gone" <=> i > at

NestInv == RequiredAhead /\ BlockersAhead /\ LoadedInOrder /\ WiredAsResolved /\ ClosedInReverse

LEMMA NestInvInit == Init => NestInv
  <1> SUFFICES ASSUME Init PROVE NestInv
    OBVIOUS
  <1>1. phase = "open" /\ order = <<>> /\ life = [p \in Plugins |-> "absent"]
    BY DEF Init
  <1>2. Kept = {}
    BY <1>1 DEF Kept, Range
  <1> QED
    BY <1>1, <1>2 DEF NestInv, RequiredAhead, BlockersAhead, LoadedInOrder, WiredAsResolved, ClosedInReverse,
                      BootPhases, LivePhases

(* m_order changes while plugins are opened, sorted and discarded; after     *)
(* that it stays.                                                            *)
LEMMA OrderStays ==
  ASSUME HostInv, [Next]_vars, ~Open, ~ApplyLoadBefore, ~DiscardUnlisted
  PROVE  /\ order' = order /\ providers' = providers
         /\ phase' = "open" => phase = "open"
         /\ phase' \in BootPhases => phase' = phase /\ life' = life
         /\ phase' = phase \/ phase' = "aborted" \/ phase \in LivePhases \union {"resolve", "close"}
         /\ Resolve \/ (cb' = cb /\ (phase' \in LivePhases => phase \in LivePhases))
  <1> USE DEF BootPhases, LivePhases, Abort, wiring
  <1>1. CASE UNCHANGED vars
    BY <1>1 DEF vars, main
  <1>2. ASSUME NEW p \in Plugins, OpenAll(p) PROVE UNCHANGED <<order, providers, phase, life, cb>>
    BY <1>2 DEF OpenAll
  <1>3. CASE Resolve \/ InitNext \/ ReadyNext \/ BuildReturns
    BY <1>3 DEF Resolve, InitNext, ReadyNext, BuildReturns
  <1>4. CASE WireNext \/ RunMigrations \/ WriteDocument
    BY <1>4 DEF WireNext, RunMigrations, WriteDocument, LoadReturns
  <1>5. ASSUME NEW t, StartTurn(t) \/ Publish(t) \/ EndTurn(t) PROVE UNCHANGED <<order, providers, phase, life, cb>>
    BY <1>5 DEF StartTurn, Publish, EndTurn, main
  <1>6. ASSUME NEW c, Accept(c) \/ Request(c) \/ Flush(c) PROVE UNCHANGED <<order, providers, phase, life, cb>>
    BY <1>6 DEF Accept, Request, Flush, main
  <1>7. CASE BrokerTakes
    BY <1>7 DEF BrokerTakes, main
  <1>8. CASE Signal \/ ShutdownNext \/ Stop \/ Join \/ CloseNext \/ Return
    BY <1>8 DEF Signal, ShutdownNext, Stop, Join, CloseNext, Return
  <1> QED
    BY <1>1, <1>2, <1>3, <1>4, <1>5, <1>6, <1>7, <1>8 DEF Next, Boot, MainStep, Shutdown, ThreadStep

LEMMA OrderStep ==
  ASSUME FlatWaits
  PROVE  HostInv /\ NestInv /\ [Next]_vars => RequiredAhead' /\ BlockersAhead'
  <1> SUFFICES ASSUME HostInv, NestInv, [Next]_vars PROVE RequiredAhead' /\ BlockersAhead'
    OBVIOUS
  <1>0. /\ RequiredAhead /\ BlockersAhead /\ ShapeMain /\ order \in Seq(Plugins) /\ Once(order)
        /\ Kept \subseteq Plugins
    BY DEF NestInv, HostInv, Shape, ShapeMain, OpenedOnce, Kept, Range
  <1>1. CASE Open
    <2>1. PICK p \in Plugins : p = Last(stack)
      BY <1>0, <1>1 DEF Open, ShapeMain, Last
    <2>2. phase = "open" /\ phase' \in {"open", "aborted"}
      BY <1>1 DEF Open, Abort
    <2>3. CASE order' = order
      BY <1>0, <2>2, <2>3 DEF RequiredAhead, BlockersAhead, Kept
    <2>4. CASE order' = Append(order, p) /\ Missing(p) = <<>>
      <3>1. PICK S : S = Plugins \ Kept
        OBVIOUS
      <3>2. PICK s \in Seq(Plugins) : s = Requires[p]
        BY PluginsAssumption
      <3>3. PICK m : m = Only(s, S) /\ m = <<>>
        BY <2>4, <3>1, <3>2 DEF Missing, Opened, Kept
      <3>4. KeptOf(s, S, Plugins, Len(s), m)
        BY <3>3, OnlyKeeps
      <3>5. 1..Len(m) = {}
        BY <3>3
      <3>6. \A j \in 1..Len(s) : s[j] \notin S
        BY <3>4, <3>5 DEF KeptOf
      <3>7. Range(Requires[p]) \subseteq Kept
        <4>1. DOMAIN s = 1..Len(s) /\ \A j \in 1..Len(s) : s[j] \in Plugins
          OBVIOUS
        <4> QED
          BY <3>1, <3>2, <3>6, <4>1 DEF Range
      <3>8. PICK o : o = Append(order, p)
        OBVIOUS
      <3>9. /\ Len(order) \in Nat /\ Len(o) = Len(order) + 1 /\ o[Len(order) + 1] = p
            /\ (\A i \in 1..Len(order) : o[i] = order[i]) /\ DOMAIN o = 1..Len(o) /\ DOMAIN order = 1..Len(order)
        BY <1>0, <3>8
      <3>10. /\ \A i \in 1..Len(order) : i \in 1..Len(o) /\ i < Len(order) + 1
             /\ Len(order) + 1 \in 1..Len(o)
             /\ \A i \in 1..Len(o) : i \in 1..Len(order) \/ i = Len(order) + 1
        BY <3>9
      <3>11. Kept' = Kept \union {p}
        BY <2>4, <3>8, <3>9, <3>10 DEF Kept, Range
      <3>12. \A x, y : Ahead(order, x, y) => Ahead(o, x, y)
        BY <3>9, <3>10 DEF Ahead
      <3>13. ASSUME NEW x \in Kept PROVE Ahead(o, x, p)
        <4>1. PICK i \in 1..Len(order) : order[i] = x
          BY <3>9 DEF Kept, Range
        <4> QED
          BY <3>9, <3>10, <4>1 DEF Ahead
      <3>14. /\ \A q \in Kept : Range(Requires[q]) \subseteq Kept
             /\ \A q \in Kept : \A x \in Range(Requires[q]) \intersect Kept : Ahead(order, x, q)
        BY <1>0, <2>2 DEF RequiredAhead
      <3>15. \A q \in Kept \union {p} : Range(Requires[q]) \subseteq Kept
        BY <3>7, <3>14
      <3>16. \A q \in Kept \union {p} : \A x \in Range(Requires[q]) : Ahead(o, x, q)
        BY <3>7, <3>12, <3>13, <3>14
      <3> QED
        BY <2>2, <2>4, <3>8, <3>11, <3>15, <3>16 DEF RequiredAhead, BlockersAhead
    <2> QED
      BY <1>1, <2>1, <2>3, <2>4 DEF Open
  <1>2. CASE ApplyLoadBefore
    <2>1. phase' = "filter" /\ order' = SortedOrder(order)
      BY <1>2 DEF ApplyLoadBefore
    <2>2. SortedOrder(order) \in Seq(Range(order))
      BY <1>0, SortedKeeps
    <2>3. Kept' \subseteq Kept
      BY <2>1, <2>2 DEF Kept, Range
    <2>4. ASSUME NEW p \in Kept, NEW q \in Kept, Blocks(p, q) \/ p \in Range(Requires[q])
          PROVE  Ahead(SortedOrder(order), p, q)
      <3>1. Free(p)
        BY <1>0, <2>4 DEF FlatWaits, Free
      <3>2. Blocks(p, q) \/ Ahead(order, p, q)
        BY <1>0, <2>4 DEF RequiredAhead
      <3> QED
        BY <1>0, <3>1, <3>2, SortedOrders DEF Kept
    <2> QED
      BY <2>1, <2>3, <2>4 DEF RequiredAhead, BlockersAhead
  <1>3. CASE DiscardUnlisted
    <2>1. PICK S : order' = Only(order, S)
      BY <1>3 DEF DiscardUnlisted
    <2>2. phase = "filter" /\ phase' = "resolve"
      BY <1>3 DEF DiscardUnlisted
    <2>3. PICK o : o = Only(order, S)
      OBVIOUS
    <2>4. KeptOf(order, S, Plugins, Len(order), o)
      BY <1>0, <2>3, OnlyKeeps
    <2>5. o \in Seq(Plugins \cap S) /\ \A k \in 1..Len(o) : \E j \in 1..Len(order) : o[k] = order[j]
      BY <2>4 DEF KeptOf
    <2>6. Range(o) \subseteq Kept \cap S
      <3>1. DOMAIN o = 1..Len(o) /\ \A k \in 1..Len(o) : o[k] \in S
        BY <2>5
      <3>2. \A j \in 1..Len(order) : order[j] \in Kept
        BY <1>0 DEF Kept, Range
      <3> QED
        BY <2>5, <3>1, <3>2 DEF Range
    <2>7. ASSUME NEW p \in Range(o), NEW q \in Range(o), Ahead(order, p, q) PROVE Ahead(o, p, q)
      <3>1. PICK i \in 1..Len(order), j \in 1..Len(order) : i < j /\ order[i] = p /\ order[j] = q
        BY <2>7 DEF Ahead
      <3> QED
        BY <2>4, <2>6, <3>1 DEF KeptOf
    <2>8. Kept' = Range(o)
      BY <2>1, <2>3 DEF Kept
    <2>9. /\ \A q \in Kept : \A p \in Range(Requires[q]) \intersect Kept : Ahead(order, p, q)
          /\ \A p, q \in Kept : Blocks(p, q) => Ahead(order, p, q)
      BY <1>0, <2>2 DEF RequiredAhead, BlockersAhead
    <2>10. /\ \A q \in Range(o) : \A p \in Range(Requires[q]) \intersect Range(o) : Ahead(o, p, q)
           /\ \A p, q \in Range(o) : Blocks(p, q) => Ahead(o, p, q)
      BY <2>6, <2>7, <2>9
    <2> QED
      BY <2>1, <2>2, <2>3, <2>8, <2>10 DEF RequiredAhead, BlockersAhead
  <1>4. CASE ~Open /\ ~ApplyLoadBefore /\ ~DiscardUnlisted
    <2>1. /\ order' = order /\ (phase' = "open" => phase = "open")
          /\ phase' = phase \/ phase' = "aborted" \/ phase \notin {"open", "aborted"}
      BY <1>4, OrderStays DEF LivePhases
    <2> QED
      BY <1>0, <2>1 DEF RequiredAhead, BlockersAhead, Kept
  <1> QED
    BY <1>1, <1>2, <1>3, <1>4

LEMMA WiredStep == HostInv /\ NestInv /\ [Next]_vars => WiredAsResolved'
  <1> SUFFICES ASSUME HostInv, NestInv, [Next]_vars, phase' \in LivePhases PROVE WiredAsResolved'
    BY DEF WiredAsResolved
  <1>0. phase \in LivePhases => \A c \in Single : cb[c] = Resolved(c)
    BY DEF NestInv, WiredAsResolved
  <1>1. CASE Open \/ ApplyLoadBefore \/ DiscardUnlisted
    BY <1>1 DEF Open, ApplyLoadBefore, DiscardUnlisted, Abort, LivePhases
  <1>2. CASE ~Open /\ ~ApplyLoadBefore /\ ~DiscardUnlisted
    <2>1. order' = order /\ providers' = providers
      BY <1>2, OrderStays
    <2>2. \A c : Resolved(c)' = Resolved(c)
      BY <2>1 DEF Resolved
    <2>3. CASE Resolve
      <3>1. \A c \in Single : cb'[c] = Resolved(c)
        BY <2>3 DEF Resolve
      <3> QED
        BY <2>2, <3>1 DEF WiredAsResolved
    <2>4. CASE ~Resolve
      BY <1>0, <1>2, <2>2, <2>4, OrderStays DEF WiredAsResolved
    <2> QED
      BY <2>3, <2>4
  <1> QED
    BY <1>1, <1>2

LEMMA LoadedStep == HostInv /\ NestInv /\ [Next]_vars => LoadedInOrder'
  <1> SUFFICES ASSUME HostInv, NestInv, [Next]_vars PROVE LoadedInOrder'
    OBVIOUS
  <1>0. /\ LoadedInOrder /\ ShapeMain /\ ShapeWiring /\ Kept \subseteq Plugins /\ Len(order) \in Nat
        /\ \A i \in 1..Len(order) : order[i] \in Kept
    BY DEF NestInv, HostInv, Shape, ShapeMain, Kept, Range
  <1>1. CASE UNCHANGED <<phase, order, life, at>>
    BY <1>0, <1>1 DEF LoadedInOrder, Kept
  <1>2. CASE phase' \in EndPhases
    BY <1>2 DEF LoadedInOrder, BootPhases, LivePhases, EndPhases
  <1>3. ASSUME UNCHANGED <<order, life>>, phase \in LivePhases \ {"init"}, phase' \in LivePhases \ {"init"}
        PROVE  LoadedInOrder'
    BY <1>0, <1>3 DEF LoadedInOrder, Kept, BootPhases, LivePhases
  <1>4. CASE UNCHANGED vars
    BY <1>1, <1>4 DEF vars, main
  <1>5. ASSUME NEW p \in Plugins, OpenAll(p) PROVE LoadedInOrder'
    BY <1>1, <1>5 DEF OpenAll
  <1>6. ASSUME phase \in BootPhases, phase' \in BootPhases,
               \A p \in Plugins : life'[p] = life[p] \/ life'[p] \in {"made", "gone"}
        PROVE  LoadedInOrder'
    BY <1>0, <1>6 DEF LoadedInOrder, BootPhases, LivePhases
  <1>7. CASE Open
    <2>1. CASE phase' = "open"
      BY <1>0, <1>6, <1>7, <2>1 DEF Open, ShapeWiring, BootPhases
    <2>2. CASE phase' = "aborted"
      BY <1>2, <2>2 DEF EndPhases
    <2> QED
      BY <1>7, <2>1, <2>2 DEF Open, Abort
  <1>8. CASE ApplyLoadBefore \/ DiscardUnlisted
    BY <1>0, <1>6, <1>8 DEF ApplyLoadBefore, DiscardUnlisted, BootPhases
  <1>9. CASE Resolve
    <2>1. phase = "resolve" /\ UNCHANGED <<order, life>>
      BY <1>9 DEF Resolve
    <2>2. CASE phase' = "init" /\ at' = 1
      <3>1. \A i \in 1..Len(order) : ~(i < 1)
        BY <1>0
      <3>2. \A p \in Plugins : life[p] # "ready"
        BY <1>0, <2>1 DEF LoadedInOrder, BootPhases
      <3> QED
        BY <1>0, <2>1, <2>2, <3>1, <3>2 DEF LoadedInOrder, Kept, BootPhases, LivePhases
    <2>3. CASE phase' = "aborted"
      BY <1>2, <2>3 DEF EndPhases
    <2> QED
      BY <1>9, <2>2, <2>3 DEF Resolve, Abort
  <1>10. CASE InitNext
    <2>1. CASE phase' = "aborted"
      BY <1>2, <2>1 DEF EndPhases
    <2>2. CASE phase' # "aborted"
      <3>1. /\ phase = "init" /\ phase' = phase /\ at <= Len(order) /\ at' = at + 1 /\ order' = order
            /\ life' = [life EXCEPT ![order[at]] = "loaded"]
        BY <1>10, <2>2 DEF InitNext, Abort
      <3>2. at \in 1..Len(order)
        BY <1>0, <3>1 DEF ShapeMain
      <3>3. \A p \in Plugins : life'[p] = IF p = order[at] THEN "loaded" ELSE life[p]
        BY <1>0, <3>1 DEF ShapeWiring
      <3>4. \A i \in 1..Len(order) : i < at + 1 => i < at \/ i = at
        BY <3>2
      <3>5. \A i \in 1..Len(order) : i < at + 1 => life'[order[i]] \in {"loaded", "ready"}
        BY <1>0, <3>1, <3>3, <3>4 DEF LoadedInOrder
      <3>6. \A p \in Kept : life'[p] # "ready"
        BY <1>0, <3>1, <3>3 DEF LoadedInOrder
      <3> QED
        BY <3>1, <3>5, <3>6 DEF LoadedInOrder, Kept, BootPhases, LivePhases
    <2> QED
      BY <2>1, <2>2
  <1>11. CASE ReadyNext
    <2>1. /\ phase = "init" /\ phase' = phase /\ at > Len(order) /\ at' = at + 1 /\ order' = order
          /\ life' = [life EXCEPT ![order[at - Len(order)]] = "ready"]
      BY <1>11 DEF ReadyNext
    <2>2. ~(at + 1 <= Len(order)) /\ \A i \in 1..Len(order) : i < at
      BY <1>0, <2>1 DEF ShapeMain
    <2>3. \A p \in Plugins : life'[p] = life[p] \/ life'[p] = "ready"
      BY <1>0, <2>1 DEF ShapeWiring
    <2>4. \A i \in 1..Len(order) : life'[order[i]] \in {"loaded", "ready"}
      BY <1>0, <2>1, <2>2, <2>3 DEF LoadedInOrder
    <2> QED
      BY <2>1, <2>2, <2>4 DEF LoadedInOrder, Kept, BootPhases, LivePhases
  <1>12. CASE BuildReturns
    <2>1. phase = "init" /\ phase' = "wire" /\ at > 2 * Len(order) /\ UNCHANGED <<order, life>>
      BY <1>12 DEF BuildReturns
    <2>2. \A i \in 1..Len(order) : i < at
      BY <1>0, <2>1 DEF ShapeMain
    <2>3. \A p \in Kept : \E i \in 1..Len(order) : p = order[i]
      BY <1>0 DEF Kept, Range, ShapeMain
    <2>4. \A p \in Kept : life[p] \in {"loaded", "ready"}
      BY <1>0, <2>1, <2>2, <2>3 DEF LoadedInOrder
    <2> QED
      BY <2>1, <2>4 DEF LoadedInOrder, Kept, BootPhases
  <1>13. CASE WireNext
    BY <1>3, <1>13 DEF WireNext, LivePhases
  <1>14. CASE RunMigrations
    BY <1>2, <1>3, <1>14 DEF RunMigrations, LivePhases, EndPhases, Abort
  <1>15. CASE WriteDocument
    BY <1>2, <1>3, <1>15 DEF WriteDocument, LoadReturns, LivePhases, EndPhases, Abort
  <1>16. ASSUME NEW t, StartTurn(t) \/ Publish(t) \/ EndTurn(t) PROVE LoadedInOrder'
    BY <1>1, <1>16 DEF StartTurn, Publish, EndTurn, main
  <1>17. ASSUME NEW c, Accept(c) \/ Request(c) \/ Flush(c) PROVE LoadedInOrder'
    BY <1>1, <1>17 DEF Accept, Request, Flush, main
  <1>18. CASE BrokerTakes
    BY <1>1, <1>18 DEF BrokerTakes, main
  <1>19. CASE Signal \/ ShutdownNext \/ Stop
    BY <1>3, <1>19 DEF Signal, ShutdownNext, Stop, LivePhases
  <1>20. CASE Join \/ CloseNext \/ Return
    BY <1>2, <1>20 DEF Join, CloseNext, Return, EndPhases
  <1> QED
    BY <1>4, <1>5, <1>7, <1>8, <1>9, <1>10, <1>11, <1>12, <1>13, <1>14, <1>15, <1>16, <1>17, <1>18, <1>19, <1>20
       DEF Next, Boot, MainStep, Shutdown, ThreadStep

LEMMA ClosedStep == HostInv /\ NestInv /\ [Next]_vars => ClosedInReverse'
  <1> SUFFICES ASSUME HostInv, NestInv, [Next]_vars PROVE ClosedInReverse'
    OBVIOUS
  <1>0. /\ ClosedInReverse /\ ShapeMain /\ ShapeWiring /\ KeptAreAlive /\ Once(order) /\ Len(order) \in Nat
        /\ Kept \subseteq Plugins /\ \A i \in 1..Len(order) : order[i] \in Kept
    BY DEF NestInv, HostInv, Shape, ShapeMain, OpenedOnce, Kept, Range
  <1>1. CASE phase' \notin EndPhases
    BY <1>1 DEF ClosedInReverse, EndPhases
  <1>2. CASE UNCHANGED <<phase, order, life, at>>
    BY <1>0, <1>2 DEF ClosedInReverse, Kept
  <1>3. ASSUME phase \notin EndPhases, phase' = "aborted", order' = order,
               life' = life \/ \E p : life' = [life EXCEPT ![p] = "made"]
        PROVE  ClosedInReverse'
    <2>1. \A p \in Kept : life[p] # "gone"
      BY <1>0, <1>3 DEF KeptAreAlive, ShapeMain, Phases
    <2>2. \A p \in Kept : life'[p] # "gone"
      BY <1>0, <1>3, <2>1 DEF ShapeWiring
    <2> QED
      BY <1>3, <2>2 DEF ClosedInReverse, Kept
  <1>4. CASE UNCHANGED vars
    BY <1>2, <1>4 DEF vars, main
  <1>5. ASSUME NEW p \in Plugins, OpenAll(p) PROVE ClosedInReverse'
    BY <1>2, <1>5 DEF OpenAll
  <1>6. CASE Open
    BY <1>1, <1>3, <1>6 DEF Open, Abort, EndPhases
  <1>7. CASE ApplyLoadBefore \/ DiscardUnlisted \/ Resolve \/ InitNext
    BY <1>1, <1>3, <1>7 DEF ApplyLoadBefore, DiscardUnlisted, Resolve, InitNext, Abort, EndPhases
  <1>8. CASE ReadyNext \/ BuildReturns \/ WireNext \/ RunMigrations
    BY <1>1, <1>3, <1>8 DEF ReadyNext, BuildReturns, WireNext, RunMigrations, Abort, EndPhases
  <1>9. CASE WriteDocument
    BY <1>1, <1>3, <1>9 DEF WriteDocument, LoadReturns, Abort, EndPhases
  <1>10. ASSUME NEW t, StartTurn(t) \/ Publish(t) \/ EndTurn(t) PROVE ClosedInReverse'
    BY <1>2, <1>10 DEF StartTurn, Publish, EndTurn, main
  <1>11. ASSUME NEW c, Accept(c) \/ Request(c) \/ Flush(c) PROVE ClosedInReverse'
    BY <1>2, <1>11 DEF Accept, Request, Flush, main
  <1>12. CASE BrokerTakes
    BY <1>2, <1>12 DEF BrokerTakes, main
  <1>13. CASE Signal \/ ShutdownNext \/ Stop
    BY <1>1, <1>13 DEF Signal, ShutdownNext, Stop, EndPhases
  <1>14. CASE Join
    <2>1. phase = "join" /\ phase' = "close" /\ at' = Len(order) /\ UNCHANGED <<order, life>>
      BY <1>14 DEF Join
    <2>2. \A p \in Kept : life[p] # "gone"
      BY <1>0, <2>1 DEF KeptAreAlive, LivePhases
    <2>3. \A i \in 1..Len(order) : ~(i > Len(order))
      BY <1>0
    <2> QED
      BY <1>0, <2>1, <2>2, <2>3 DEF ClosedInReverse
  <1>15. CASE CloseNext
    <2>1. /\ phase = "close" /\ phase' = phase /\ at >= 1 /\ at' = at - 1 /\ order' = order
          /\ life' = [life EXCEPT ![order[at]] = "gone"]
      BY <1>15 DEF CloseNext
    <2>2. at <= Len(order) /\ \A i \in 1..Len(order) : life[order[i]] = "gone" <=> i > at
      BY <1>0, <2>1 DEF ClosedInReverse
    <2>3. at \in 1..Len(order)
      BY <1>0, <2>1, <2>2 DEF ShapeMain
    <2>4. \A p \in Plugins : life'[p] = IF p = order[at] THEN "gone" ELSE life[p]
      BY <1>0, <2>1 DEF ShapeWiring
    <2>5. \A i \in 1..Len(order) : order[i] = order[at] <=> i = at
      BY <1>0, <2>3 DEF Once
    <2>6. \A i \in 1..Len(order) : i > at - 1 <=> i = at \/ i > at
      BY <2>3
    <2>7. \A i \in 1..Len(order) : life'[order[i]] = "gone" <=> i > at - 1
      BY <1>0, <2>2, <2>4, <2>5, <2>6
    <2>8. at - 1 <= Len(order)
      BY <1>0, <2>3
    <2> QED
      BY <2>1, <2>7, <2>8 DEF ClosedInReverse
  <1>16. CASE Return
    BY <1>0, <1>16 DEF Return, ClosedInReverse
  <1> QED
    BY <1>4, <1>5, <1>6, <1>7, <1>8, <1>9, <1>10, <1>11, <1>12, <1>13, <1>14, <1>15, <1>16
       DEF Next, Boot, MainStep, Shutdown, ThreadStep

(* A configured provider that is loaded and exports the capability wins. *)
LEMMA ConfiguredWins ==
  ASSUME ShapeMain, NEW c, c \in DOMAIN providers, providers[c] \in Kept, c \in Exports[providers[c]]
  PROVE  Resolved(c) = providers[c]
  <1>1. PICK p \in Plugins : p = providers[c]
    BY DEF ShapeMain, Kept, Range
  <1>2. PICK S : S = {q \in Plugins : c \in Exports[q]}
    OBVIOUS
  <1>3. PICK x : x = Only(order, S)
    OBVIOUS
  <1>4. KeptOf(order, S, Plugins, Len(order), x)
    BY <1>3, OnlyKeeps DEF ShapeMain
  <1>5. PICK j \in 1..Len(order) : order[j] = p
    BY <1>1 DEF ShapeMain, Kept, Range
  <1>6. p \in S
    BY <1>1, <1>2
  <1>7. PICK k \in 1..Len(x) : x[k] = p
    BY <1>4, <1>5, <1>6 DEF KeptOf
  <1>8. x \in Seq(Plugins \cap S)
    BY <1>4 DEF KeptOf
  <1>9. p \in Range(x) /\ x # <<>>
    BY <1>7, <1>8 DEF Range
  <1> QED
    BY <1>1, <1>2, <1>3, <1>9 DEF Resolved

LEMMA NestInvImplies == HostInv /\ NestInv => LifetimesNest
  <1> SUFFICES ASSUME HostInv, NestInv PROVE LifetimesNest
    OBVIOUS
  <1>0. /\ ShapeMain /\ KeptAreAlive /\ Rooted /\ RequiredAhead /\ BlockersAhead /\ LoadedInOrder
        /\ WiredAsResolved /\ ClosedInReverse /\ Once(order) /\ Opened = Kept /\ Kept \subseteq Plugins
        /\ Len(order) \in Nat /\ DOMAIN order = 1..Len(order)
    BY DEF HostInv, NestInv, Shape, ShapeMain, OpenedOnce, Opened, Kept, Range
  <1>1. \A p, q : Ahead(order, p, q) => Before(p, q)
    BY <1>0 DEF Ahead, Before
  <1>2. BootOrder
    <2> SUFFICES ASSUME phase \in {"init", "wire", "migrate", "document", "refused", "serve"}
                 PROVE  /\ \A q \in Opened : \A p \in Range(Requires[q]) \intersect Opened : Before(p, q)
                        /\ \A p, q \in Opened : Blocks(p, q) => Before(p, q)
                        /\ (\E p \in Opened : life[p] = "ready") => \A p \in Opened : life[p] \in {"loaded", "ready"}
      BY DEF BootOrder
    <2>1. \A q \in Kept : \A p \in Range(Requires[q]) \intersect Kept : Before(p, q)
      BY <1>0, <1>1 DEF RequiredAhead
    <2>2. \A p, q \in Kept : Blocks(p, q) => Before(p, q)
      BY <1>0, <1>1 DEF BlockersAhead
    <2>3. ASSUME NEW r \in Kept, life[r] = "ready", NEW p \in Kept PROVE life[p] \in {"loaded", "ready"}
      <3>1. CASE phase # "init"
        BY <1>0, <3>1 DEF LoadedInOrder, LivePhases
      <3>2. CASE phase = "init"
        <4>1. ~(at <= Len(order))
          BY <1>0, <2>3, <3>2 DEF LoadedInOrder
        <4>2. PICK i \in 1..Len(order) : order[i] = p
          BY <1>0 DEF Kept, Range
        <4>3. i < at
          BY <1>0, <4>1 DEF ShapeMain
        <4> QED
          BY <1>0, <3>2, <4>2, <4>3 DEF LoadedInOrder
      <3> QED
        BY <3>1, <3>2
    <2> QED
      BY <1>0, <2>1, <2>2, <2>3
  <1>3. ASSUME phase \in LivePhases, NEW c \in Single
        PROVE  /\ cb[c] # Nobody => cb[c] \in Live
               /\ c \in DOMAIN providers /\ providers[c] \in Opened /\ c \in Exports[providers[c]] => cb[c] = providers[c]
    <2>1. cb[c] \in Kept \union {Nobody} /\ cb[c] = Resolved(c)
      BY <1>0, <1>3 DEF Rooted, WiredAsResolved
    <2>2. Kept \subseteq Live
      BY <1>0, <1>3 DEF KeptAreAlive, Live
    <2> QED
      BY <1>0, <2>1, <2>2, ConfiguredWins
  <1>4. ASSUME NEW q \in Kept, life[q] = "ready", NEW p \in Range(Requires[q]) \intersect Kept
        PROVE  life[p] # "gone"
    <2>1. CASE phase \in BootPhases \union LivePhases
      BY <1>0, <2>1 DEF KeptAreAlive
    <2>2. CASE phase = "aborted"
      BY <1>0, <2>2 DEF ClosedInReverse
    <2>3. CASE phase \in {"close", "done"}
      <3>1. Ahead(order, p, q)
        BY <1>0, <1>4 DEF RequiredAhead
      <3>2. PICK i \in 1..Len(order), j \in 1..Len(order) : i < j /\ order[i] = p /\ order[j] = q
        BY <3>1 DEF Ahead
      <3>3. ~(j > at)
        BY <1>0, <1>4, <2>3, <3>2 DEF ClosedInReverse
      <3>4. ~(i > at)
        BY <1>0, <3>2, <3>3 DEF ShapeMain
      <3> QED
        BY <1>0, <2>3, <3>2, <3>4 DEF ClosedInReverse
    <2> QED
      BY <1>0, <2>1, <2>2, <2>3 DEF ShapeMain, Phases, EndPhases
  <1>5. ProvidersOutliveUsers
    BY <1>0, <1>3, <1>4 DEF ProvidersOutliveUsers, LivePhases
  <1> QED
    BY <1>2, <1>5, HostInvImplies DEF LifetimesNest

(***************************************************************************)
(* Lifetimes nest for every installation and configuration whose waits are *)
(* flat, as those of the repository's plugins are: boot puts requirements  *)
(* and blockers first and calls nobody ready before all are loaded,        *)
(* providers are the configured ones and outlive their users, and no turn  *)
(* is inside a plugin that is gone.  With deeper waits the sort keeps      *)
(* what LoadBefore says and may put a plugin before one it requires.       *)
(***************************************************************************)
THEOREM LifetimesNestInOrder ==
  ASSUME FlatWaits
  PROVE  Spec => []LifetimesNest
  <1>1. Init => HostInv /\ NestInv
    BY HostInvInit, NestInvInit
  <1>2. HostInv /\ NestInv /\ [Next]_vars => HostInv' /\ NestInv'
    BY HostInvStep, OrderStep, WiredStep, LoadedStep, ClosedStep DEF NestInv
  <1> QED
    BY <1>1, <1>2, NestInvImplies, PTL DEF Spec
=============================================================================
