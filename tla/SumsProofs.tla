---------------------------- MODULE SumsProofs ----------------------------
(***************************************************************************)
(* What the proofs need to know about SumOf: it is a natural number, it    *)
(* grows by what one member of the family grows, and it is monotone.  Then *)
(* the same kind of facts about SumFunction, for families of integers.     *)
(***************************************************************************)
EXTENDS Sums, FiniteSetTheorems, FunctionTheorems, TLAPS

(* The units of a finite family of amounts are finitely many. *)
LEMMA UnitsAreFinite ==
  ASSUME NEW S, IsFiniteSet(S), NEW f \in [S -> Nat]
  PROVE  IsFiniteSet(UnitsOf(f))
<1> DEFINE T == {{x} \X (1..f[x]) : x \in S}
           column == [x \in S |-> {x} \X (1..f[x])]
<1>1. column \in Surjection(S, T)
  BY DEF Surjection
<1>2. IsFiniteSet(T)
  BY <1>1, FS_Surjection
<1>3. \A C \in T : IsFiniteSet(C)
  <2>1. SUFFICES ASSUME NEW x \in S PROVE IsFiniteSet({x} \X (1..f[x]))
    OBVIOUS
  <2>2. IsFiniteSet({x})
    BY FS_Singleton
  <2>3. IsFiniteSet(1..f[x])
    BY FS_Interval
  <2>4. QED
    BY <2>2, <2>3, FS_Product
<1>4. IsFiniteSet(UNION T)
  BY <1>2, <1>3, FS_UNION
<1>5. DOMAIN f = S
  OBVIOUS
<1>6. QED
  BY <1>4, <1>5 DEF UnitsOf

(* The sum of a finite family of natural numbers is a natural number. *)
LEMMA SumIsNatural ==
  ASSUME NEW S, IsFiniteSet(S), NEW f \in [S -> Nat]
  PROVE  SumOf(f) \in Nat
BY UnitsAreFinite, FS_CardinalityType DEF SumOf

(* A unit belongs to the family exactly when it lies within its column. *)
LEMMA UnitMembership ==
  ASSUME NEW S, NEW f \in [S -> Nat], NEW x, NEW k
  PROVE  <<x, k>> \in UnitsOf(f) <=> x \in S /\ k \in 1..f[x]
BY DEF UnitsOf

(* Every unit is a pair. *)
LEMMA UnitsArePairs ==
  ASSUME NEW S, NEW f \in [S -> Nat], NEW u \in UnitsOf(f)
  PROVE  u = <<u[1], u[2]>> /\ u[1] \in S /\ u[2] \in 1..f[u[1]]
BY DEF UnitsOf

(* Enlarging no member of the family does not enlarge the sum. *)
LEMMA SumIsMonotone ==
  ASSUME NEW S, IsFiniteSet(S), NEW f \in [S -> Nat], NEW g \in [S -> Nat],
         \A x \in S : f[x] <= g[x]
  PROVE  SumOf(f) <= SumOf(g)
<1>1. UnitsOf(f) \subseteq UnitsOf(g)
  <2>1. SUFFICES ASSUME NEW u \in UnitsOf(f) PROVE u \in UnitsOf(g)
    OBVIOUS
  <2>2. u = <<u[1], u[2]>> /\ u[1] \in S /\ u[2] \in 1..f[u[1]]
    BY UnitsArePairs
  <2>3. u[2] \in 1..g[u[1]]
    BY <2>2
  <2>4. <<u[1], u[2]>> \in UnitsOf(g)
    BY <2>2, <2>3, UnitMembership
  <2>5. QED
    BY <2>2, <2>4
<1>2. QED
  BY <1>1, UnitsAreFinite, FS_Subset DEF SumOf

(* Adding a to one member of the family adds a to the sum. *)
LEMMA SumAfterAdding ==
  ASSUME NEW S, IsFiniteSet(S), NEW f \in [S -> Nat], NEW x \in S, NEW a \in Nat
  PROVE  SumOf([f EXCEPT ![x] = f[x] + a]) = SumOf(f) + a
<1> DEFINE g == [f EXCEPT ![x] = f[x] + a]
           lo == f[x] + 1
           hi == f[x] + a
           new == {x} \X (lo..hi)
<1>1. g \in [S -> Nat]
  OBVIOUS
<1>unit. \A y, k : <<y, k>> \in UnitsOf(g) <=> y \in S /\ k \in 1..g[y]
  <2> HIDE DEF g
  <2> QED
    BY <1>1, UnitMembership
<1>2. UnitsOf(g) = UnitsOf(f) \cup new
  <2>1. ASSUME NEW u \in UnitsOf(g) PROVE u \in UnitsOf(f) \cup new
    <3>1. u = <<u[1], u[2]>> /\ u[1] \in S /\ u[2] \in 1..g[u[1]]
      BY <1>1, UnitsArePairs
    <3>2. CASE u[1] = x /\ u[2] \in lo..hi
      BY <3>1, <3>2
    <3>3. CASE ~(u[1] = x /\ u[2] \in lo..hi)
      <4>1. u[2] \in 1..f[u[1]]
        BY <3>1, <3>3
      <4>2. <<u[1], u[2]>> \in UnitsOf(f)
        BY <3>1, <4>1, UnitMembership
      <4>3. QED
        BY <3>1, <4>2
    <3>4. QED
      BY <3>2, <3>3
  <2>2. ASSUME NEW u \in UnitsOf(f) \cup new PROVE u \in UnitsOf(g)
    <3>1. u = <<u[1], u[2]>> /\ u[1] \in S /\ u[2] \in 1..g[u[1]]
      <4>1. CASE u \in new
        BY <4>1
      <4>2. CASE u \in UnitsOf(f)
        <5>1. u = <<u[1], u[2]>> /\ u[1] \in S /\ u[2] \in 1..f[u[1]]
          BY <4>2, UnitsArePairs
        <5>2. QED
          BY <5>1
      <4>3. QED
        BY <4>1, <4>2
    <3>2. <<u[1], u[2]>> \in UnitsOf(g)
      BY <1>unit, <3>1
    <3>3. QED
      BY <3>1, <3>2
  <2>3. QED
    BY <2>1, <2>2
<1>3. UnitsOf(f) \cap new = {}
  <2>1. SUFFICES ASSUME NEW u \in UnitsOf(f), u \in new PROVE FALSE
    OBVIOUS
  <2>2. u[1] \in S /\ u[2] \in 1..f[u[1]]
    BY UnitsArePairs
  <2>3. u[1] = x /\ u[2] \in lo..hi
    BY <2>1
  <2>4. QED
    BY <2>2, <2>3
<1>4. IsFiniteSet(new) /\ Cardinality(new) = a
  <2>1. IsFiniteSet({x}) /\ Cardinality({x}) = 1
    BY FS_Singleton
  <2>2. lo \in Int /\ hi \in Int
    OBVIOUS
  <2>3. IsFiniteSet(lo..hi) /\ Cardinality(lo..hi) = IF lo > hi THEN 0 ELSE hi - lo + 1
    BY <2>2, FS_Interval
  <2>4. Cardinality(lo..hi) = a
    BY <2>3
  <2>5. IsFiniteSet(new) /\ Cardinality(new) = Cardinality({x}) * Cardinality(lo..hi)
    BY <2>1, <2>3, FS_Product
  <2>6. QED
    BY <2>1, <2>4, <2>5
<1>5. IsFiniteSet(UnitsOf(f)) /\ Cardinality(UnitsOf(f)) \in Nat
  BY UnitsAreFinite, FS_CardinalityType
<1>6. Cardinality(UnitsOf(g)) = Cardinality(UnitsOf(f)) + a - Cardinality({})
  BY <1>2, <1>3, <1>4, <1>5, FS_Union
<1>7. QED
  BY <1>5, <1>6, FS_EmptySet DEF SumOf

(* Two families that differ in one member at most differ by that member. *)
SameBut(x, f, g) == \A y \in DOMAIN f \ {x} : g[y] = f[y]

LEMMA SumRaised ==
  ASSUME NEW S, IsFiniteSet(S), NEW f \in [S -> Nat], NEW g \in [S -> Nat], NEW x \in S,
         SameBut(x, f, g), f[x] <= g[x]
  PROVE  SumOf(g) = SumOf(f) + (g[x] - f[x])
<1>1. PICK a \in Nat : g[x] = f[x] + a
  <2>1. g[x] - f[x] \in Nat /\ g[x] = f[x] + (g[x] - f[x])
    OBVIOUS
  <2>2. QED
    BY <2>1
<1>2. g = [f EXCEPT ![x] = f[x] + a]
  BY <1>1 DEF SameBut
<1>3. SumOf([f EXCEPT ![x] = f[x] + a]) = SumOf(f) + a
  <2>1. \A b \in Nat : SumOf([f EXCEPT ![x] = f[x] + b]) = SumOf(f) + b
    <3>1. TAKE b \in Nat
    <3>2. QED
      BY SumAfterAdding, ZenonT(30)
  <2>2. QED
    BY <2>1
<1>4. SumOf(g) = SumOf(f) + a
  BY <1>2, <1>3
<1>5. QED
  BY <1>1, <1>4

LEMMA SumAfterChange ==
  ASSUME NEW S, IsFiniteSet(S), NEW f \in [S -> Nat], NEW g \in [S -> Nat], NEW x \in S,
         SameBut(x, f, g)
  PROVE  SumOf(g) = SumOf(f) + (g[x] - f[x])
<1>1. CASE f[x] <= g[x]
  BY <1>1, SumRaised
<1>2. CASE g[x] <= f[x]
  <2>1. SameBut(x, g, f)
    BY DEF SameBut
  <2>2. SumOf(f) = SumOf(g) + (f[x] - g[x])
    BY <1>2, <2>1, SumRaised
  <2>3. QED
    BY <2>2, SumIsNatural
<1>3. QED
  BY <1>1, <1>2

(* A family of at most one member. *)
LEMMA SumOfNone == SumOf(<<>>) = 0
<1>1. UnitsOf(<<>>) = {}
  BY DEF UnitsOf
<1>2. QED
  BY <1>1, FS_EmptySet DEF SumOf

LEMMA SumOfOne ==
  ASSUME NEW n \in Nat
  PROVE  SumOf(<<n>>) = n
<1>1. <<0>> \in [{1} -> Nat] /\ <<n>> \in [{1} -> Nat] /\ IsFiniteSet({1})
  <2>1. <<0>> \in [{1} -> Nat] /\ <<n>> \in [{1} -> Nat]
    OBVIOUS
  <2>2. IsFiniteSet({1})
    BY FS_Singleton
  <2>3. QED
    BY <2>1, <2>2
<1>2. UnitsOf(<<0>>) = {}
  BY DEF UnitsOf
<1>3. SumOf(<<0>>) = 0
  BY <1>2, FS_EmptySet DEF SumOf
<1>4. SameBut(1, <<0>>, <<n>>)
  BY DEF SameBut
<1>5. SumOf(<<n>>) = SumOf(<<0>>) + (<<n>>[1] - <<0>>[1])
  BY <1>1, <1>4, SumAfterChange
<1>6. QED
  BY <1>3, <1>5

(* A family with one member that is not zero. *)
LEMMA SumOfZeros ==
  ASSUME NEW S, NEW f \in [S -> Nat], \A x \in S : f[x] = 0
  PROVE  SumOf(f) = 0
<1>1. UnitsOf(f) = {}
  BY DEF UnitsOf
<1>2. QED
  BY <1>1, FS_EmptySet DEF SumOf

(* A sum of zero has no positive member. *)
LEMMA ZerosOfSum ==
  ASSUME NEW S, IsFiniteSet(S), NEW f \in [S -> Nat], SumOf(f) = 0
  PROVE  \A x \in S : f[x] = 0
<1>1. UnitsOf(f) = {}
  BY UnitsAreFinite, FS_EmptySet DEF SumOf
<1>2. ASSUME NEW x \in S, f[x] # 0 PROVE <<x, 1>> \in UnitsOf(f)
  BY <1>2, UnitMembership
<1>3. QED
  BY <1>1, <1>2

LEMMA SumOfOneTerm ==
  ASSUME NEW S, IsFiniteSet(S), NEW f \in [S -> Nat], NEW x \in S, \A y \in S \ {x} : f[y] = 0
  PROVE  SumOf(f) = f[x]
<1> DEFINE zeros == [y \in S |-> 0]
<1>1. zeros \in [S -> Nat] /\ zeros[x] = 0 /\ SumOf(zeros) = 0
  BY SumOfZeros
<1>2. SameBut(x, zeros, f)
  BY DEF SameBut
<1> HIDE DEF zeros
<1>3. SumOf(f) = SumOf(zeros) + (f[x] - zeros[x])
  BY <1>1, <1>2, SumAfterChange
<1>4. QED
  BY <1>1, <1>3

(* A family dealt out to two others sums to what they sum to together. *)
LEMMA SumDealtOut ==
  ASSUME NEW S, IsFiniteSet(S), NEW f \in [S -> Nat], NEW g \in [S -> Nat], NEW h \in [S -> Nat],
         \A x \in S : (g[x] = f[x] /\ h[x] = 0) \/ (g[x] = 0 /\ h[x] = f[x])
  PROVE  SumOf(f) = SumOf(g) + SumOf(h)
<1>1. UnitsOf(f) = UnitsOf(g) \cup UnitsOf(h)
  BY DEF UnitsOf
<1>2. UnitsOf(g) \cap UnitsOf(h) = {}
  BY DEF UnitsOf
<1>3. /\ IsFiniteSet(UnitsOf(g)) /\ IsFiniteSet(UnitsOf(h))
      /\ Cardinality(UnitsOf(g)) \in Nat /\ Cardinality(UnitsOf(h)) \in Nat
  BY UnitsAreFinite, FS_CardinalityType
<1>4. Cardinality(UnitsOf(f)) = Cardinality(UnitsOf(g)) + Cardinality(UnitsOf(h)) - Cardinality({})
  BY <1>1, <1>2, <1>3, FS_Union
<1>5. QED
  BY <1>3, <1>4, FS_EmptySet DEF SumOf

(* Members that add nothing can be left out of the family. *)
LEMMA SumOverPart ==
  ASSUME NEW S, NEW T \in SUBSET S, NEW f \in [S -> Nat], \A x \in S \ T : f[x] = 0
  PROVE  SumOf([x \in T |-> f[x]]) = SumOf(f)
<1>1. UnitsOf([x \in T |-> f[x]]) = UnitsOf(f)
  <2>1. \A x \in S : x \in T \/ 1..f[x] = {}
    OBVIOUS
  <2>2. QED
    BY <2>1 DEF UnitsOf
<1>2. QED
  BY <1>1 DEF SumOf

(* Tables: the rows of f, which is indexed by pairs. *)
RowOf(f, B, a) == [b \in B |-> f[<<a, b>>]]

LEMMA RowsFinite ==
  ASSUME NEW A, NEW B, IsFiniteSet(B), NEW f \in [A \X B -> Nat], NEW a \in A
  PROVE  RowOf(f, B, a) \in [B -> Nat] /\ IsFiniteSet(UnitsOf(RowOf(f, B, a)))
<1>1. RowOf(f, B, a) \in [B -> Nat]
  BY DEF RowOf
<1>2. QED
  BY <1>1, UnitsAreFinite

LEMMA UnitsOfRow ==
  ASSUME NEW A, NEW B, NEW f \in [A \X B -> Nat], NEW a \in A, NEW b \in B, NEW n
  PROVE  <<b, n>> \in UnitsOf(RowOf(f, B, a)) <=> <<<<a, b>>, n>> \in UnitsOf(f)
<1>1. RowOf(f, B, a) \in [B -> Nat] /\ RowOf(f, B, a)[b] = f[<<a, b>>] /\ <<a, b>> \in A \X B
  BY DEF RowOf
<1>2. <<b, n>> \in UnitsOf(RowOf(f, B, a)) <=> n \in 1..f[<<a, b>>]
  BY <1>1, UnitMembership
<1>3. <<<<a, b>>, n>> \in UnitsOf(f) <=> n \in 1..f[<<a, b>>]
  BY <1>1, UnitMembership
<1>4. QED
  BY <1>2, <1>3

(* A table is summed by summing its rows: the units of a row are numbered   *)
(* from 1 to the sum of the row.                                           *)
RowSums(f, A, B) == [a \in A |-> SumOf(RowOf(f, B, a))]

LEMMA SumOfRowSums ==
  ASSUME NEW A, IsFiniteSet(A), NEW B, IsFiniteSet(B), NEW f \in [A \X B -> Nat]
  PROVE  /\ RowSums(f, A, B) \in [A -> Nat]
         /\ SumOf(f) = SumOf(RowSums(f, A, B))
<1> DEFINE U(a) == UnitsOf(RowOf(f, B, a))
           T == RowSums(f, A, B)
           H == [a \in A |-> CHOOSE h : h \in Bijection(U(a), 1..T[a])]
           G == [u \in UnitsOf(f) |-> <<u[1][1], H[u[1][1]][<<u[1][2], u[2]>>]>>]
<1>0. T \in [A -> Nat] /\ \A a \in A : T[a] = Cardinality(U(a))
  <2>1. \A a \in A : SumOf(RowOf(f, B, a)) \in Nat
    BY RowsFinite, SumIsNatural
  <2>2. QED
    BY <2>1 DEF RowSums, SumOf
<1>1. \A a \in A : H[a] \in Bijection(U(a), 1..T[a])
  <2>1. TAKE a \in A
  <2>2. IsFiniteSet(U(a)) /\ IsFiniteSet(1..T[a])
    <3>1. IsFiniteSet(U(a)) /\ T[a] \in Nat
      BY <1>0, RowsFinite
    <3> HIDE DEF T, U
    <3>2. QED
      BY <3>1, FS_Interval
  <2>3. Cardinality(U(a)) = Cardinality(1..T[a])
    <3>1. T[a] \in Nat /\ T[a] = Cardinality(U(a))
      BY <1>0
    <3> HIDE DEF T, U
    <3>2. Cardinality(1..T[a]) = IF 1 > T[a] THEN 0 ELSE T[a] - 1 + 1
      BY <3>1, FS_Interval, SMTT(30)
    <3>3. QED
      BY <3>1, <3>2
  <2>4. \E h : h \in Bijection(U(a), 1..T[a])
    <3> HIDE DEF U, T
    <3>1. QED
      BY <2>2, <2>3, FS_SameCardinalityBij DEF ExistsBijection
  <2>5. QED
    BY <2>4
<1>2. \A u \in UnitsOf(f) : \E a \in A, b \in B, n \in Nat : u = <<<<a, b>>, n>> /\ <<b, n>> \in U(a)
  <2>1. TAKE u \in UnitsOf(f)
  <2>2. u = <<u[1], u[2]>> /\ u[1] \in A \X B /\ u[2] \in 1..f[u[1]]
    BY UnitsArePairs
  <2>3. PICK a \in A, b \in B : u[1] = <<a, b>>
    BY <2>2
  <2>4. u = <<<<a, b>>, u[2]>> /\ u[2] \in Nat
    BY <2>2, <2>3
  <2>5. <<b, u[2]>> \in U(a)
    BY <2>4, UnitsOfRow
  <2>6. QED
    BY <2>4, <2>5
<1>3. \A w \in UnitsOf(T) : \E a \in A, k \in Nat : w = <<a, k>> /\ k \in 1..T[a]
  <2> HIDE DEF T
  <2>1. TAKE w \in UnitsOf(T)
  <2>2. w = <<w[1], w[2]>> /\ w[1] \in A /\ w[2] \in 1..T[w[1]]
    BY <1>0, UnitsArePairs
  <2>3. QED
    BY <2>2
<1>4. \A a \in A, b \in B, n \in Nat :
        <<b, n>> \in U(a) =>
          /\ <<<<a, b>>, n>> \in UnitsOf(f) /\ H[a][<<b, n>>] \in 1..T[a]
          /\ G[<<<<a, b>>, n>>] = <<a, H[a][<<b, n>>]>>
  <2>1. TAKE a \in A, b \in B, n \in Nat
  <2>2. HAVE <<b, n>> \in U(a)
  <2>3. <<<<a, b>>, n>> \in UnitsOf(f)
    BY <2>2, UnitsOfRow
  <2>4. H[a][<<b, n>>] \in 1..T[a]
    <3> HIDE DEF H, U, T
    <3>1. QED
      BY <1>1, <2>2 DEF Bijection, Injection, Surjection
  <2>5. G[<<<<a, b>>, n>>] = <<a, H[a][<<b, n>>]>>
    <3> HIDE DEF H
    <3>1. QED
      BY <2>3
  <2>6. QED
    BY <2>3, <2>4, <2>5
<1> HIDE DEF U, T, H, G
<1>5. G \in [UnitsOf(f) -> UnitsOf(T)]
  <2>1. ASSUME NEW u \in UnitsOf(f) PROVE G[u] \in UnitsOf(T)
    <3>1. PICK a \in A, b \in B, n \in Nat : u = <<<<a, b>>, n>> /\ <<b, n>> \in U(a)
      BY <1>2
    <3>2. PICK k \in 1..T[a] : G[u] = <<a, k>>
      BY <1>4, <3>1
    <3>3. QED
      BY <1>0, <3>2, UnitMembership
  <2>2. DOMAIN G = UnitsOf(f) /\ G = [u \in DOMAIN G |-> G[u]]
    BY DEF G
  <2>3. QED
    BY <2>1, <2>2
<1>6. \A u, w \in UnitsOf(f) : G[u] = G[w] => u = w
  <2>1. SUFFICES ASSUME NEW u \in UnitsOf(f), NEW w \in UnitsOf(f), G[u] = G[w] PROVE u = w
    OBVIOUS
  <2>2. PICK a \in A, b \in B, n \in Nat : u = <<<<a, b>>, n>> /\ <<b, n>> \in U(a)
    BY <1>2
  <2>3. PICK c \in A, d \in B, m \in Nat : w = <<<<c, d>>, m>> /\ <<d, m>> \in U(c)
    BY <1>2
  <2>4. G[u] = <<a, H[a][<<b, n>>]>> /\ G[w] = <<c, H[c][<<d, m>>]>>
    BY <1>4, <2>2, <2>3, ZenonT(30)
  <2>5. a = c /\ H[a][<<b, n>>] = H[a][<<d, m>>]
    <3>1. PICK k, l : k = H[a][<<b, n>>] /\ l = H[c][<<d, m>>]
      OBVIOUS
    <3>2. <<a, k>> = <<c, l>>
      BY <2>1, <2>4, <3>1
    <3>3. a = c /\ k = l
      BY <3>2
    <3>4. QED
      BY <3>1, <3>3
  <2>6. <<b, n>> = <<d, m>>
    BY <1>1, <2>2, <2>3, <2>5 DEF Bijection, Injection, IsInjective
  <2>7. QED
    BY <2>2, <2>3, <2>5, <2>6
<1>7. \A w \in UnitsOf(T) : \E u \in UnitsOf(f) : G[u] = w
  <2>1. TAKE w \in UnitsOf(T)
  <2>2. PICK a \in A, k \in Nat : w = <<a, k>> /\ k \in 1..T[a]
    BY <1>3
  <2>3. PICK x \in U(a) : H[a][x] = k
    BY <1>1, <2>2 DEF Bijection, Surjection
  <2>4. x = <<x[1], x[2]>> /\ x[1] \in B /\ x[2] \in Nat
    <3>1. x \in UnitsOf(RowOf(f, B, a)) /\ RowOf(f, B, a) \in [B -> Nat]
      BY RowsFinite DEF U
    <3>2. QED
      BY <3>1, UnitsArePairs
  <2>5. PICK b \in B, n \in Nat : x = <<b, n>>
    BY <2>4
  <2>6. <<<<a, b>>, n>> \in UnitsOf(f) /\ G[<<<<a, b>>, n>>] = <<a, k>>
    BY <1>4, <2>3, <2>5
  <2>7. QED
    BY <2>2, <2>6
<1>8. ExistsBijection(UnitsOf(f), UnitsOf(T))
  BY <1>5, <1>6, <1>7 DEF ExistsBijection, Bijection, Injection, Surjection, IsInjective
<1>9. IsFiniteSet(UnitsOf(f))
  BY FS_Product, UnitsAreFinite
<1>10. SumOf(f) = SumOf(T)
  BY <1>8, <1>9, FS_Bijection DEF SumOf
<1>11. QED
  BY <1>0, <1>10 DEF T

(* Two tables with equal sums in every row have equal sums. *)
LEMMA SumByRows ==
  ASSUME NEW A, IsFiniteSet(A), NEW B, IsFiniteSet(B),
         NEW f \in [A \X B -> Nat], NEW g \in [A \X B -> Nat],
         \A a \in A : SumOf(RowOf(f, B, a)) = SumOf(RowOf(g, B, a))
  PROVE  SumOf(f) = SumOf(g)
<1>1. RowSums(f, A, B) = RowSums(g, A, B)
  BY DEF RowSums
<1>2. SumOf(f) = SumOf(RowSums(f, A, B)) /\ SumOf(g) = SumOf(RowSums(g, A, B))
  BY SumOfRowSums, SMTT(30)
<1>3. QED
  BY <1>1, <1>2

(* Reading a table by columns does not change its sum. *)
Transposed(f, A, B) == [c \in B \X A |-> f[<<c[2], c[1]>>]]

LEMMA SumTransposed ==
  ASSUME NEW A, IsFiniteSet(A), NEW B, IsFiniteSet(B), NEW f \in [A \X B -> Nat]
  PROVE  SumOf(Transposed(f, A, B)) = SumOf(f)
<1> DEFINE g == Transposed(f, A, B)
           G == [u \in UnitsOf(f) |-> <<<<u[1][2], u[1][1]>>, u[2]>>]
<1>1. g \in [B \X A -> Nat] /\ \A a \in A, b \in B : g[<<b, a>>] = f[<<a, b>>]
  BY DEF Transposed
<1>2. \A u \in UnitsOf(f) :
        \E a \in A, b \in B, n \in Nat : n \in 1..f[<<a, b>>] /\ u = <<<<a, b>>, n>>
  <2>1. TAKE u \in UnitsOf(f)
  <2>2. u = <<u[1], u[2]>> /\ u[1] \in A \X B /\ u[2] \in 1..f[u[1]]
    BY UnitsArePairs
  <2>3. PICK a \in A, b \in B : u[1] = <<a, b>>
    BY <2>2
  <2>4. QED
    BY <2>2, <2>3
<1> HIDE DEF g
<1>3. \A w \in UnitsOf(g) :
        \E a \in A, b \in B, n \in Nat : n \in 1..f[<<a, b>>] /\ w = <<<<b, a>>, n>>
  <2>1. TAKE w \in UnitsOf(g)
  <2>2. w = <<w[1], w[2]>> /\ w[1] \in B \X A /\ w[2] \in 1..g[w[1]]
    BY <1>1, UnitsArePairs
  <2>3. PICK b \in B, a \in A : w[1] = <<b, a>>
    BY <2>2
  <2>4. QED
    BY <1>1, <2>2, <2>3
<1>4. \A a \in A, b \in B : \A n \in 1..f[<<a, b>>] :
        /\ <<<<a, b>>, n>> \in UnitsOf(f) /\ <<<<b, a>>, n>> \in UnitsOf(g)
        /\ G[<<<<a, b>>, n>>] = <<<<b, a>>, n>>
  <2>1. TAKE a \in A, b \in B
  <2>2. TAKE n \in 1..f[<<a, b>>]
  <2>3. <<<<a, b>>, n>> \in UnitsOf(f) /\ <<<<b, a>>, n>> \in UnitsOf(g)
    BY <1>1, UnitMembership
  <2>4. QED
    BY <2>3
<1>5. G \in [UnitsOf(f) -> UnitsOf(g)]
  <2>1. \A u \in UnitsOf(f) : G[u] \in UnitsOf(g)
    <3> HIDE DEF G
    <3>1. TAKE u \in UnitsOf(f)
    <3>2. PICK a \in A, b \in B, n \in Nat : n \in 1..f[<<a, b>>] /\ u = <<<<a, b>>, n>>
      BY <1>2
    <3>3. QED
      BY <1>4, <3>2, ZenonT(30)
  <2>2. QED
    BY <2>1
<1> HIDE DEF G
<1>6. \A u, w \in UnitsOf(f) : G[u] = G[w] => u = w
  <2>1. SUFFICES ASSUME NEW u \in UnitsOf(f), NEW w \in UnitsOf(f), G[u] = G[w] PROVE u = w
    OBVIOUS
  <2>2. PICK a \in A, b \in B, n \in Nat : n \in 1..f[<<a, b>>] /\ u = <<<<a, b>>, n>>
    BY <1>2
  <2>3. PICK c \in A, d \in B, m \in Nat : m \in 1..f[<<c, d>>] /\ w = <<<<c, d>>, m>>
    BY <1>2
  <2>4. G[u] = <<<<b, a>>, n>>
    BY <1>4, <2>2
  <2>5. G[w] = <<<<d, c>>, m>>
    BY <1>4, <2>3
  <2>6. <<b, a>> = <<d, c>> /\ n = m
    <3>1. <<<<b, a>>, n>> = <<<<d, c>>, m>>
      BY <2>1, <2>4, <2>5
    <3>2. QED
      BY <3>1
  <2>7. QED
    BY <2>2, <2>3, <2>6
<1>7. \A w \in UnitsOf(g) : \E u \in UnitsOf(f) : G[u] = w
  <2>1. TAKE w \in UnitsOf(g)
  <2>2. PICK a \in A, b \in B, n \in Nat : n \in 1..f[<<a, b>>] /\ w = <<<<b, a>>, n>>
    BY <1>3
  <2>3. QED
    BY <1>4, <2>2
<1>8. ExistsBijection(UnitsOf(f), UnitsOf(g))
  BY <1>5, <1>6, <1>7 DEF ExistsBijection, Bijection, Injection, Surjection, IsInjective
<1>9. IsFiniteSet(UnitsOf(f))
  BY FS_Product, UnitsAreFinite
<1>10. SumOf(f) = SumOf(g)
  BY <1>8, <1>9, FS_Bijection DEF SumOf
<1>11. QED
  BY <1>10 DEF g

LEMMA TableBothWays ==
  ASSUME NEW A, IsFiniteSet(A), NEW B, IsFiniteSet(B), NEW f \in [A \X B -> Nat]
  PROVE  SumOf(RowSums(f, A, B)) = SumOf(RowSums(Transposed(f, A, B), B, A))
<1>1. SumOf(f) = SumOf(RowSums(f, A, B))
  BY SumOfRowSums, ZenonT(30)
<1>2. PICK g \in [B \X A -> Nat] : g = Transposed(f, A, B) /\ SumOf(g) = SumOf(f)
  <2>1. Transposed(f, A, B) \in [B \X A -> Nat]
    BY DEF Transposed
  <2>2. SumOf(Transposed(f, A, B)) = SumOf(f)
    BY SumTransposed
  <2>3. QED
    BY <2>1, <2>2
<1>3. SumOf(g) = SumOf(RowSums(g, B, A))
  BY SumOfRowSums, ZenonT(30)
<1>4. QED
  BY <1>1, <1>2, <1>3

(* The sums of the rows and the sums of the columns add up to the same. *)
LEMMA RowsAndColumns ==
  ASSUME NEW A, IsFiniteSet(A), NEW B, IsFiniteSet(B), NEW f \in [A -> [B -> Nat]]
  PROVE  SumOf([a \in A |-> SumOf(f[a])]) = SumOf([b \in B |-> SumOf([a \in A |-> f[a][b]])])
<1>1. PICK t \in [A \X B -> Nat] : \A a \in A, b \in B : t[<<a, b>>] = f[a][b]
  <2> DEFINE t == [c \in A \X B |-> f[c[1]][c[2]]]
  <2>1. t \in [A \X B -> Nat] /\ \A a \in A, b \in B : t[<<a, b>>] = f[a][b]
    OBVIOUS
  <2>2. QED
    BY <2>1
<1>2. RowSums(t, A, B) = [a \in A |-> SumOf(f[a])]
  <2>1. \A a \in A : RowOf(t, B, a) = f[a]
    <3>1. TAKE a \in A
    <3>2. f[a] = [b \in B |-> f[a][b]]
      OBVIOUS
    <3>3. [b \in B |-> t[<<a, b>>]] = [b \in B |-> f[a][b]]
      BY <1>1
    <3>4. QED
      BY <3>2, <3>3 DEF RowOf
  <2>2. QED
    BY <2>1 DEF RowSums
<1>3. RowSums(Transposed(t, A, B), B, A) = [b \in B |-> SumOf([a \in A |-> f[a][b]])]
  <2>1. \A b \in B : RowOf(Transposed(t, A, B), A, b) = [a \in A |-> f[a][b]]
    BY <1>1 DEF RowOf, Transposed
  <2>2. QED
    BY <2>1 DEF RowSums
<1>4. SumOf(RowSums(t, A, B)) = SumOf(RowSums(Transposed(t, A, B), B, A))
  BY TableBothWays
<1>5. QED
  BY <1>2, <1>3, <1>4
-----------------------------------------------------------------------------
(* Sums of integers, by the community modules' SumFunction.  What holds of *)
(* {} and of a set when it holds of all that lack one of its members holds *)
(* of every finite set: removing members is well founded.                  *)
LEMMA SubsetInduction ==
  ASSUME NEW S, IsFiniteSet(S), NEW Good, {} \in Good,
         \A T \in SUBSET S : T # {} /\ (\A x \in T : T \ {x} \in Good) => T \in Good
  PROVE  SUBSET S \subseteq Good
<1> DEFINE Bad == (SUBSET S) \ Good
<1>1. SUFFICES ASSUME Bad # {} PROVE FALSE
  OBVIOUS
<1>2. Bad \subseteq FiniteSubsetsOf(S)
  BY FS_Subset DEF FiniteSubsetsOf
<1>3. PICK T \in Bad : \A U \in Bad : ~(<<U, T>> \in StrictSubsetOrdering(S))
  <2> HIDE DEF Bad
  <2>1. IsWellFoundedOn(StrictSubsetOrdering(S), FiniteSubsetsOf(S))
    BY FS_StrictSubsetOrderingWellFounded
  <2>2. QED
    BY <1>1, <1>2, <2>1, WFMin
<1>4. T \in SUBSET S /\ T # {}
  OBVIOUS
<1>5. \A x \in T : T \ {x} \in Good
  <2>1. SUFFICES ASSUME NEW x \in T, T \ {x} \notin Good PROVE FALSE
    OBVIOUS
  <2>2. T \ {x} \in Bad
    BY <1>4, <2>1
  <2>3. <<T \ {x}, T>> \in StrictSubsetOrdering(S)
    BY <1>4 DEF StrictSubsetOrdering
  <2>4. QED
    BY <1>3, <2>2, <2>3
<1>6. QED
  BY <1>3, <1>4, <1>5

PickIn(T) == CHOOSE x \in T : TRUE

(* What SumFunction computes on its way. *)
Partial(f, S, g) ==
  /\ g \in [SUBSET S -> Int]
  /\ g[{}] = 0
  /\ \A T \in SUBSET S : T # {} => g[T] = f[PickIn(T)] + g[T \ {PickIn(T)}]

Ups(f, S, T) == [x \in S |-> IF x \in T /\ f[x] > 0 THEN f[x] ELSE 0]
Downs(f, S, T) == [x \in S |-> IF x \in T /\ f[x] < 0 THEN -f[x] ELSE 0]

(* There is such a function: the positive terms less the negative ones. *)
LEMMA PartialsExist ==
  ASSUME NEW S, IsFiniteSet(S), NEW f \in [S -> Int]
  PROVE  \E g : Partial(f, S, g)
<1> DEFINE Up(T) == Ups(f, S, T)
           Down(T) == Downs(f, S, T)
           g == [T \in SUBSET S |-> SumOf(Up(T)) - SumOf(Down(T))]
<1>1. \A T \in SUBSET S : Up(T) \in [S -> Nat] /\ Down(T) \in [S -> Nat]
  BY DEF Ups, Downs
<1> HIDE DEF Up, Down
<1>2. \A T \in SUBSET S : SumOf(Up(T)) \in Nat /\ SumOf(Down(T)) \in Nat
  BY <1>1, SumIsNatural
<1>3. g \in [SUBSET S -> Int]
  BY <1>2
<1>4. g[{}] = 0
  <2>1. SumOf(Up({})) = 0 /\ SumOf(Down({})) = 0
    <3>1. \A x \in S : Up({})[x] = 0 /\ Down({})[x] = 0
      BY DEF Up, Down, Ups, Downs
    <3>2. QED
      BY <1>1, <3>1, SumOfZeros
  <2>2. QED
    BY <2>1
<1>5. ASSUME NEW T \in SUBSET S, T # {} PROVE g[T] = f[PickIn(T)] + g[T \ {PickIn(T)}]
  <2> DEFINE x == PickIn(T)
             U == T \ {x}
  <2>1. x \in T /\ x \in S /\ U \in SUBSET S /\ x \notin U /\ f[x] \in Int
    BY <1>5 DEF PickIn
  <2> HIDE DEF x
  <2>2. SameBut(x, Up(U), Up(T)) /\ SameBut(x, Down(U), Down(T))
    BY <1>1, <2>1 DEF SameBut, Up, Down, Ups, Downs
  <2>3. /\ Up(U)[x] = 0 /\ Down(U)[x] = 0
        /\ Up(T)[x] = (IF f[x] > 0 THEN f[x] ELSE 0)
        /\ Down(T)[x] = (IF f[x] < 0 THEN -f[x] ELSE 0)
    BY <2>1 DEF Up, Down, Ups, Downs
  <2> HIDE DEF U
  <2>4. /\ SumOf(Up(T)) = SumOf(Up(U)) + (Up(T)[x] - Up(U)[x])
        /\ SumOf(Down(T)) = SumOf(Down(U)) + (Down(T)[x] - Down(U)[x])
    BY <1>1, <2>1, <2>2, SumAfterChange
  <2>5. SumOf(Up(T)) - SumOf(Down(T)) = f[x] + (SumOf(Up(U)) - SumOf(Down(U)))
    BY <1>2, <2>1, <2>3, <2>4
  <2>6. g[T] = f[x] + g[U]
    BY <2>1, <2>5
  <2>7. QED
    BY <2>6 DEF x, U
<1>6. Partial(f, S, g)
  BY <1>3, <1>4, <1>5 DEF Partial
<1>7. QED
  BY <1>6

(* SumFunction is what it computes for the whole of its domain. *)
LEMMA SumFunctionPartial ==
  ASSUME NEW S, IsFiniteSet(S), NEW f \in [S -> Int]
  PROVE  \E g : Partial(f, S, g) /\ SumFunction(f) = g[S]
<1> DEFINE Eq(g) == g = [s \in SUBSET S |-> IF s = {} THEN 0
                          ELSE f[PickIn(s)] + g[s \ {PickIn(s)}]]
           iter == CHOOSE g : Eq(g)
<1>1. \E g : Eq(g)
  <2>1. PICK g : Partial(f, S, g)
    BY PartialsExist
  <2>2. \A s \in SUBSET S : g[s] = IF s = {} THEN 0 ELSE f[PickIn(s)] + g[s \ {PickIn(s)}]
    BY <2>1 DEF Partial
  <2>3. g = [s \in SUBSET S |-> g[s]]
    BY <2>1 DEF Partial
  <2>4. QED
    BY <2>2, <2>3
<1>2. Eq(iter)
  BY <1>1
<1>3. SumFunction(f) = iter[S]
  BY DEF SumFunction, SumFunctionOnSet, FoldFunctionOnSet, MapThenFoldSet, PickIn
<1> HIDE DEF iter
<1>4. PICK p : Partial(f, S, p)
  BY PartialsExist
<1>5. \A T \in SUBSET S : iter[T] = IF T = {} THEN 0 ELSE f[PickIn(T)] + iter[T \ {PickIn(T)}]
  BY <1>2
<1>6. SUBSET S \subseteq {T \in SUBSET S : iter[T] = p[T]}
  <2> DEFINE Good == {T \in SUBSET S : iter[T] = p[T]}
  <2>1. {} \in Good
    BY <1>4, <1>5 DEF Partial
  <2>2. ASSUME NEW T \in SUBSET S, T # {}, \A x \in T : T \ {x} \in Good PROVE T \in Good
    <3>1. PickIn(T) \in T
      BY <2>2 DEF PickIn
    <3>2. iter[T \ {PickIn(T)}] = p[T \ {PickIn(T)}]
      BY <2>2, <3>1
    <3>3. QED
      BY <1>4, <1>5, <2>2, <3>2 DEF Partial
  <2> HIDE DEF Good
  <2>3. SUBSET S \subseteq Good
    BY <2>1, <2>2, SubsetInduction
  <2>4. QED
    BY <2>3 DEF Good
<1>7. iter[S] = p[S]
  BY <1>6
<1>8. QED
  BY <1>3, <1>4, <1>7

(* A sum of integers is an integer. *)
LEMMA SumFunctionIsInteger ==
  ASSUME NEW S, IsFiniteSet(S), NEW f \in [S -> Int]
  PROVE  SumFunction(f) \in Int
<1>1. PICK p : Partial(f, S, p) /\ SumFunction(f) = p[S]
  BY SumFunctionPartial
<1>2. QED
  BY <1>1 DEF Partial

(* The sum of the sums. *)
LEMMA SumFunctionAdds ==
  ASSUME NEW S, IsFiniteSet(S), NEW f \in [S -> Int], NEW g \in [S -> Int], NEW h \in [S -> Int],
         \A x \in S : h[x] = f[x] + g[x]
  PROVE  SumFunction(h) = SumFunction(f) + SumFunction(g)
<1>1. PICK p : Partial(f, S, p) /\ SumFunction(f) = p[S]
  BY SumFunctionPartial
<1>2. PICK q : Partial(g, S, q) /\ SumFunction(g) = q[S]
  BY SumFunctionPartial
<1>3. PICK s : Partial(h, S, s) /\ SumFunction(h) = s[S]
  BY SumFunctionPartial
<1> DEFINE Good == {T \in SUBSET S : s[T] = p[T] + q[T]}
<1>4. {} \in Good
  BY <1>1, <1>2, <1>3 DEF Partial
<1>5. ASSUME NEW T \in SUBSET S, T # {}, \A x \in T : T \ {x} \in Good PROVE T \in Good
  <2> DEFINE x == PickIn(T)
  <2>1. x \in T /\ x \in S
    BY <1>5 DEF PickIn
  <2>2. s[T \ {x}] = p[T \ {x}] + q[T \ {x}]
    BY <1>5, <2>1
  <2>3. /\ p[T] = f[x] + p[T \ {x}] /\ q[T] = g[x] + q[T \ {x}] /\ s[T] = h[x] + s[T \ {x}]
    BY <1>1, <1>2, <1>3, <1>5 DEF Partial
  <2>4. p[T \ {x}] \in Int /\ q[T \ {x}] \in Int /\ f[x] \in Int /\ g[x] \in Int
    BY <1>1, <1>2, <2>1 DEF Partial
  <2> HIDE DEF x
  <2>5. s[T] = p[T] + q[T]
    BY <2>1, <2>2, <2>3, <2>4
  <2>6. QED
    BY <2>5
<1> HIDE DEF Good
<1>6. SUBSET S \subseteq Good
  BY <1>4, <1>5, SubsetInduction
<1>7. s[S] = p[S] + q[S]
  BY <1>6 DEF Good
<1>8. QED
  BY <1>1, <1>2, <1>3, <1>7

(* A sum of terms of at most k, each. *)
LEMMA SumFunctionWithin ==
  ASSUME NEW S, IsFiniteSet(S), NEW f \in [S -> Int], NEW k \in Nat,
         \A x \in S : f[x] <= k
  PROVE  SumFunction(f) <= k * Cardinality(S)
<1>1. PICK p : Partial(f, S, p) /\ SumFunction(f) = p[S]
  BY SumFunctionPartial
<1> DEFINE Good == {T \in SUBSET S : p[T] <= k * Cardinality(T)}
<1>4. {} \in Good
  BY <1>1, FS_EmptySet DEF Partial
<1>5. ASSUME NEW T \in SUBSET S, T # {}, \A x \in T : T \ {x} \in Good PROVE T \in Good
  <2> DEFINE x == PickIn(T)
             n == Cardinality(T \ {x})
  <2>1. x \in T /\ x \in S
    BY <1>5 DEF PickIn
  <2>2. p[T \ {x}] <= k * n
    BY <1>5, <2>1
  <2>3. p[T] = f[x] + p[T \ {x}] /\ p[T \ {x}] \in Int /\ f[x] \in Int
    BY <1>1, <1>5, <2>1 DEF Partial
  <2>4. Cardinality(T) = n + 1 /\ n \in Nat
    <3>1. IsFiniteSet(T) /\ IsFiniteSet(T \ {x})
      BY FS_Subset
    <3>2. QED
      BY <2>1, <3>1, FS_RemoveElement, FS_CardinalityType
  <2>5. f[x] <= k
    BY <2>1
  <2> HIDE DEF x, n
  <2>6. k * (n + 1) = k * n + k /\ k * n \in Int
    BY <2>4
  <2>7. p[T] <= k * Cardinality(T)
    BY <2>2, <2>3, <2>4, <2>5, <2>6
  <2>8. QED
    BY <2>7
<1> HIDE DEF Good
<1>6. SUBSET S \subseteq Good
  BY <1>4, <1>5, SubsetInduction
<1>7. p[S] <= k * Cardinality(S)
  BY <1>6 DEF Good
<1>8. QED
  BY <1>1, <1>7

(* A sum of zeros is zero. *)
LEMMA SumFunctionOfZeros ==
  ASSUME NEW S, IsFiniteSet(S), NEW f \in [S -> Int], \A x \in S : f[x] = 0
  PROVE  SumFunction(f) = 0
<1> DEFINE n == SumFunction(f)
<1>1. n \in Int
  BY SumFunctionIsInteger
<1>2. n = n + n
  <2>1. \A x \in S : f[x] = f[x] + f[x]
    OBVIOUS
  <2>2. QED
    BY <2>1, SumFunctionAdds
<1> HIDE DEF n
<1>3. n = 0
  BY ONLY <1>1, <1>2
<1>4. QED
  BY <1>3 DEF n

(* A factor of every term is a factor of the sum. *)
LEMMA SumFunctionScaled ==
  ASSUME NEW S, IsFiniteSet(S), NEW k \in Int, NEW f \in [S -> Int], NEW g \in [S -> Int],
         \A x \in S : g[x] = k * f[x]
  PROVE  SumFunction(g) = k * SumFunction(f)
<1>1. PICK p : Partial(f, S, p) /\ SumFunction(f) = p[S]
  BY SumFunctionPartial
<1>2. PICK q : Partial(g, S, q) /\ SumFunction(g) = q[S]
  BY SumFunctionPartial
<1> DEFINE Good == {T \in SUBSET S : q[T] = k * p[T]}
<1>4. {} \in Good
  BY <1>1, <1>2 DEF Partial
<1>5. ASSUME NEW T \in SUBSET S, T # {}, \A x \in T : T \ {x} \in Good PROVE T \in Good
  <2> DEFINE x == PickIn(T)
  <2>1. x \in T /\ x \in S
    BY <1>5 DEF PickIn
  <2>2. q[T \ {x}] = k * p[T \ {x}]
    BY <1>5, <2>1
  <2>3. /\ p[T] = f[x] + p[T \ {x}] /\ q[T] = g[x] + q[T \ {x}]
    BY <1>1, <1>2, <1>5 DEF Partial
  <2>4. p[T \ {x}] \in Int /\ f[x] \in Int /\ g[x] = k * f[x]
    BY <1>1, <2>1 DEF Partial
  <2> HIDE DEF x
  <2>5. k * (f[x] + p[T \ {x}]) = k * f[x] + k * p[T \ {x}]
    BY <2>4
  <2>6. q[T] = k * p[T]
    BY <2>2, <2>3, <2>4, <2>5
  <2>7. QED
    BY <2>6
<1> HIDE DEF Good
<1>6. SUBSET S \subseteq Good
  BY <1>4, <1>5, SubsetInduction
<1>7. q[S] = k * p[S]
  BY <1>6 DEF Good
<1>8. QED
  BY <1>1, <1>2, <1>7

(* A sum with one term only. *)
LEMMA SumFunctionOfOne ==
  ASSUME NEW S, IsFiniteSet(S), NEW f \in [S -> Int], NEW x \in S,
         \A y \in S \ {x} : f[y] = 0
  PROVE  SumFunction(f) = f[x]
<1>1. PICK p : Partial(f, S, p) /\ SumFunction(f) = p[S]
  BY SumFunctionPartial
<1> DEFINE Good == {T \in SUBSET S : p[T] = IF x \in T THEN f[x] ELSE 0}
<1>2. {} \in Good
  BY <1>1 DEF Partial
<1>3. ASSUME NEW T \in SUBSET S, T # {}, \A y \in T : T \ {y} \in Good PROVE T \in Good
  <2> DEFINE z == PickIn(T)
  <2>1. z \in T /\ z \in S
    BY <1>3 DEF PickIn
  <2>2. p[T \ {z}] = IF x \in T \ {z} THEN f[x] ELSE 0
    BY <1>3, <2>1
  <2>3. p[T] = f[z] + p[T \ {z}] /\ f[z] \in Int /\ f[x] \in Int
    BY <1>1, <1>3, <2>1 DEF Partial
  <2> HIDE DEF z
  <2>4. p[T] = IF x \in T THEN f[x] ELSE 0
    BY <2>1, <2>2, <2>3
  <2>5. QED
    BY <2>4
<1> HIDE DEF Good
<1>4. SUBSET S \subseteq Good
  BY <1>2, <1>3, SubsetInduction
<1>5. QED
  BY <1>1, <1>4 DEF Good

(* A sum of terms none of which is negative is not negative. *)
LEMMA SumFunctionIsNatural ==
  ASSUME NEW S, IsFiniteSet(S), NEW f \in [S -> Int], \A x \in S : f[x] >= 0
  PROVE  SumFunction(f) \in Nat
<1> DEFINE g == [x \in S |-> (-1) * f[x]]
<1>1. PICK k \in Int : k = -1
  OBVIOUS
<1>2. PICK z \in Nat : z = 0
  OBVIOUS
<1>3. /\ g \in [S -> Int] /\ \A x \in S : g[x] = k * f[x]
      /\ \A x \in S : g[x] <= z
  BY <1>1, <1>2
<1> HIDE DEF g
<1>4. SumFunction(g) = k * SumFunction(f) /\ SumFunction(f) \in Int
  BY <1>3, SumFunctionScaled, SumFunctionIsInteger
<1>5. SumFunction(g) <= z * Cardinality(S)
  BY <1>3, SumFunctionWithin
<1>6. z * Cardinality(S) = 0
  BY <1>2, FS_CardinalityType
<1>7. QED
  BY <1>1, <1>4, <1>5, <1>6
=============================================================================
