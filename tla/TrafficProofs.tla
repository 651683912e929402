--------------------------- MODULE TrafficProofs ----------------------------
(***************************************************************************)
(* Proofs about Traffic, for any users, accounts, tasks and servers, and   *)
(* any bound on the bytes: every variable has its type, an account gets    *)
(* one user, whoever is disabled is cut off, nobody is charged too much.   *)
(***************************************************************************)
EXTENDS Traffic, FiniteSetTheorems, WellFoundedInduction, TLAPS

-----------------------------------------------------------------------------
(* Sums *)

\* Every nonempty set of numbers has a least one.
LEMMA LeastExists ==
    ASSUME NEW T \in SUBSET Nat, T # {}
    PROVE  \E x \in T : \A y \in T : x <= y
<1> DEFINE Less == {s \in Nat \X Nat : s[1] < s[2]}
<1>1. IsWellFoundedOn(Less, Nat)
  BY NatLessThanWellFounded DEF OpToRel
<1>2. \E x \in T : \A y \in T : <<y, x>> \notin Less
  <2> HIDE DEF Less
  <2> QED
    BY <1>1, WFMin
<1>3. PICK x \in T : \A y \in T : <<y, x>> \notin Less
  BY <1>2
<1>4. ASSUME NEW y \in T PROVE x <= y
  <2>1. <<y, x>> \in Nat \X Nat /\ ~(y < x)
    BY <1>3
  <2> QED
    BY <2>1
<1> QED
  BY <1>4

\* Sum, from the element that is taken first.
Pick(s) == CHOOSE y \in s : TRUE
Rhs(g, s) == IF s = {} THEN 0 ELSE Pick(s).delta + g[s \ {Pick(s)}]
SumFcn(S) == CHOOSE g : g = [s \in SUBSET S |-> Rhs(g, s)]

LEMMA SumIsFcn == ASSUME NEW S PROVE Sum(S) = SumFcn(S)[S]
BY DEF Sum, MapThenSumSet, MapThenFoldSet, Rhs, SumFcn, Pick

LEMMA PickIn == ASSUME NEW s, s # {} PROVE Pick(s) \in s
BY DEF Pick

LEMMA SumExists ==
    ASSUME NEW S, IsFiniteSet(S)
    PROVE  SumFcn(S) = [s \in SUBSET S |-> Rhs(SumFcn(S), s)]
<1> DEFINE Upto(g, n) == \A s \in SUBSET S : Cardinality(s) <= n => g[s] = Rhs(g, s)
           Bad == {n \in Nat : ~ \E g : Upto(g, n)}
<1>0. \A s \in SUBSET S : IsFiniteSet(s) /\ Cardinality(s) \in Nat /\ Cardinality(s) <= Cardinality(S)
  BY FS_Subset, FS_CardinalityType
<1>1. Bad = {}
  <2> SUFFICES ASSUME Bad # {} PROVE FALSE
    OBVIOUS
  <2>1. PICK m \in Bad : \A n \in Bad : m <= n
    <3>1. Bad \in SUBSET Nat
      OBVIOUS
    <3> HIDE DEF Bad
    <3> QED
      BY <3>1, LeastExists
  <2>2. CASE m = 0
    <3> DEFINE g == [s \in SUBSET S |-> 0]
    <3>1. \A s \in SUBSET S : Cardinality(s) <= 0 => s = {}
      BY <1>0, FS_EmptySet
    <3>2. Upto(g, 0)
      BY <3>1 DEF Rhs
    <3> HIDE DEF g
    <3> QED
      BY <2>1, <2>2, <3>2
  <2>3. CASE m # 0
    <3>1. m - 1 \in Nat /\ m - 1 \notin Bad
      BY <2>1, <2>3
    <3>2. PICK g : Upto(g, m - 1)
      BY <3>1
    <3> DEFINE h == [s \in SUBSET S |-> Rhs(g, s)]
    <3>3. ASSUME NEW s \in SUBSET S, Cardinality(s) <= m PROVE h[s] = Rhs(h, s)
      <4>1. CASE s = {}
        BY <4>1 DEF Rhs
      <4>2. CASE s # {}
        <5>1. Pick(s) \in s /\ s \ {Pick(s)} \in SUBSET S
          BY <4>2, PickIn
        <5>2. Cardinality(s \ {Pick(s)}) <= m - 1
          BY <1>0, <3>3, <5>1, FS_RemoveElement
        <5>3. g[s \ {Pick(s)}] = Rhs(g, s \ {Pick(s)})
          BY <3>2, <5>1, <5>2
        <5>4. h[s \ {Pick(s)}] = g[s \ {Pick(s)}]
          BY <5>1, <5>3
        <5>5. h[s] = Pick(s).delta + g[s \ {Pick(s)}]
          BY <4>2 DEF Rhs
        <5>6. Rhs(h, s) = Pick(s).delta + h[s \ {Pick(s)}]
          BY <4>2 DEF Rhs
        <5> QED
          BY <5>4, <5>5, <5>6
      <4> QED
        BY <4>1, <4>2
    <3>4. Upto(h, m)
      <4> HIDE DEF h
      <4> QED
      BY <3>3
    <3> HIDE DEF h
    <3> QED
      BY <2>1, <3>4
  <2> QED
    BY <2>2, <2>3
<1>2. PICK g : Upto(g, Cardinality(S))
  BY <1>0, <1>1
<1> DEFINE h == [s \in SUBSET S |-> g[s]]
<1>3. ASSUME NEW s \in SUBSET S PROVE g[s] = Rhs(h, s)
  <2>1. g[s] = Rhs(g, s)
    BY <1>0, <1>2
  <2>2. s # {} => s \ {Pick(s)} \in SUBSET S
    OBVIOUS
  <2> QED
    BY <2>1, <2>2 DEF Rhs
<1>4. h = [s \in SUBSET S |-> Rhs(h, s)]
  BY <1>3
<1> HIDE DEF h
<1> QED
  BY <1>4 DEF SumFcn

\* Among the parts of a finite set that are in B, one has no smaller beside it.
LEMMA MinimalPart ==
    ASSUME NEW S, IsFiniteSet(S), NEW B \in SUBSET (SUBSET S), B # {}
    PROVE  \E s \in B : \A x \in s : s \ {x} \notin B
<1> DEFINE Sizes == {Cardinality(s) : s \in B}
<1>1. \A s \in B : IsFiniteSet(s) /\ Cardinality(s) \in Nat
  BY FS_Subset, FS_CardinalityType
<1>2. Sizes \in SUBSET Nat /\ Sizes # {}
  BY <1>1
<1>3. PICK m \in Sizes : \A k \in Sizes : m <= k
  <2> HIDE DEF Sizes
  <2> QED
    BY <1>2, LeastExists
<1>4. PICK s \in B : m = Cardinality(s)
  OBVIOUS
<1>5. ASSUME NEW x \in s, s \ {x} \in B PROVE FALSE
  <2>1. Cardinality(s \ {x}) = Cardinality(s) - 1 /\ Cardinality(s) \in Nat
    BY <1>1, FS_RemoveElement
  <2>2. Cardinality(s) <= Cardinality(s \ {x})
    BY <1>3, <1>4, <1>5
  <2>3. Cardinality(s \ {x}) \in Nat
    BY <1>1, <1>5
  <2> QED
    BY <2>1, <2>2, <2>3
<1> QED
  BY <1>5

LEMMA SumAgrees ==
    ASSUME NEW S, IsFiniteSet(S), NEW T \in SUBSET S
    PROVE  SumFcn(S)[T] = Sum(T)
<1> DEFINE f == SumFcn(S)
           g == SumFcn(T)
           B == {s \in SUBSET T : f[s] # g[s]}
<1>1. f = [s \in SUBSET S |-> Rhs(f, s)]
  BY SumExists
<1>2. g = [s \in SUBSET T |-> Rhs(g, s)]
  BY SumExists, FS_Subset
<1> HIDE DEF f, g
<1>3. B = {}
  <2> SUFFICES ASSUME B # {} PROVE FALSE
    OBVIOUS
  <2>1. PICK s \in B : \A x \in s : s \ {x} \notin B
    <3>1. B \in SUBSET (SUBSET T) /\ IsFiniteSet(T)
      BY FS_Subset
    <3> HIDE DEF B
    <3> QED
      BY <3>1, MinimalPart
  <2>2. s \in SUBSET T /\ s \in SUBSET S /\ f[s] # g[s]
    OBVIOUS
  <2>3. f[s] = Rhs(f, s) /\ g[s] = Rhs(g, s)
    BY <1>1, <1>2, <2>2
  <2>4. s # {}
    BY <2>2, <2>3 DEF Rhs
  <2>5. f[s \ {Pick(s)}] = g[s \ {Pick(s)}]
    BY <2>1, <2>2, <2>4, PickIn
  <2> QED
    BY <2>2, <2>3, <2>4, <2>5 DEF Rhs
<1>4. f[T] = g[T]
  BY <1>3
<1> QED
  BY <1>4, SumIsFcn DEF f, g

LEMMA SumEmpty == Sum({}) = 0
<1>1. IsFiniteSet({}) /\ {} \in SUBSET {}
  BY FS_EmptySet
<1>2. SumFcn({}) = [s \in SUBSET {} |-> Rhs(SumFcn({}), s)]
  BY <1>1, SumExists
<1>3. SumFcn({})[{}] = Rhs(SumFcn({}), {})
  BY <1>1, <1>2
<1>4. Rhs(SumFcn({}), {}) = 0
  BY DEF Rhs
<1> QED
  BY <1>3, <1>4, SumIsFcn

LEMMA SumPicked ==
    ASSUME NEW S, IsFiniteSet(S), S # {}
    PROVE  Sum(S) = Pick(S).delta + Sum(S \ {Pick(S)})
<1>1. SumFcn(S) = [s \in SUBSET S |-> Rhs(SumFcn(S), s)]
  BY SumExists
<1>2. SumFcn(S)[S] = Rhs(SumFcn(S), S)
  BY <1>1
<1>3. SumFcn(S)[S \ {Pick(S)}] = Sum(S \ {Pick(S)})
  BY SumAgrees
<1> QED
  BY <1>2, <1>3, SumIsFcn DEF Rhs

Deltas(S) == IsFiniteSet(S) /\ \A x \in S : x.delta \in Nat

LEMMA SumTyped ==
    ASSUME NEW S, Deltas(S)
    PROVE  Sum(S) \in Nat
<1> DEFINE B == {s \in SUBSET S : Sum(s) \notin Nat}
<1>1. B = {}
  <2> SUFFICES ASSUME B # {} PROVE FALSE
    OBVIOUS
  <2>1. PICK s \in B : \A x \in s : s \ {x} \notin B
    <3>1. B \in SUBSET (SUBSET S) /\ IsFiniteSet(S)
      BY DEF Deltas
    <3> HIDE DEF B
    <3> QED
      BY <3>1, MinimalPart
  <2>2. s \in SUBSET S /\ Sum(s) \notin Nat /\ IsFiniteSet(s)
    BY FS_Subset DEF Deltas
  <2>3. s # {}
    BY <2>2, SumEmpty
  <2>4. Pick(s) \in s /\ Pick(s).delta \in Nat
    BY <2>2, <2>3, PickIn DEF Deltas
  <2>5. Sum(s \ {Pick(s)}) \in Nat
    BY <2>1, <2>2, <2>4
  <2> QED
    BY <2>2, <2>3, <2>4, <2>5, SumPicked
<1> QED
  BY <1>1

\* The order does not matter.
LEMMA SumAdds ==
    ASSUME NEW S, Deltas(S), NEW s \in SUBSET S, NEW x \in S \ s
    PROVE  Sum(s \cup {x}) = Sum(s) + x.delta
<1> DEFINE B == {r \in SUBSET S : \E y \in S \ r : Sum(r \cup {y}) # Sum(r) + y.delta}
<1>1. \A r \in SUBSET S : IsFiniteSet(r) /\ Deltas(r) /\ Sum(r) \in Nat
  BY FS_Subset, SumTyped DEF Deltas
<1>2. B = {}
  <2> SUFFICES ASSUME B # {} PROVE FALSE
    OBVIOUS
  <2>1. PICK r \in B : \A y \in r : r \ {y} \notin B
    <3>1. B \in SUBSET (SUBSET S) /\ IsFiniteSet(S)
      BY DEF Deltas
    <3> HIDE DEF B
    <3> QED
      BY <3>1, MinimalPart
  <2>2. PICK y \in S \ r : Sum(r \cup {y}) # Sum(r) + y.delta
    OBVIOUS
  <2> DEFINE t == r \cup {y}
             p == Pick(t)
  <2>3. t \in SUBSET S /\ p \in t /\ Sum(t) = p.delta + Sum(t \ {p})
    <3>1. t \in SUBSET S /\ t # {}
      OBVIOUS
    <3> HIDE DEF t
    <3> QED
      BY <1>1, <3>1, PickIn, SumPicked
  <2>4. r \in SUBSET S /\ y.delta \in Nat /\ p.delta \in Nat /\ Sum(r) \in Nat
    BY <1>1, <2>3 DEF Deltas
  <2>5. p # y
    <3>1. p = y => t \ {p} = r
      OBVIOUS
    <3> HIDE DEF t, p
    <3> QED
      BY <2>2, <2>3, <2>4, <3>1 DEF t
  <2> DEFINE q == r \ {p}
  <2>6. p \in r /\ q \in SUBSET S /\ q \notin B /\ Sum(q) \in Nat
    BY <1>1, <2>1, <2>3, <2>4, <2>5
  <2>7. r = q \cup {p} /\ t \ {p} = q \cup {y} /\ p \in S \ q /\ y \in S \ q
    BY <2>3, <2>5, <2>6
  <2> HIDE DEF t, p, q
  <2>8. Sum(q \cup {p}) = Sum(q) + p.delta /\ Sum(q \cup {y}) = Sum(q) + y.delta
    BY <2>6, <2>7
  <2>9. Sum(t) # Sum(r) + y.delta
    BY <2>2 DEF t
  <2>10. Sum(t) = p.delta + (Sum(q) + y.delta) /\ Sum(r) = Sum(q) + p.delta
    BY <2>3, <2>7, <2>8
  <2> QED
    BY <2>4, <2>6, <2>9, <2>10
<1> QED
  BY <1>2

LEMMA ImageFinite ==
    ASSUME NEW S, IsFiniteSet(S), NEW f, DOMAIN f = S, f = [x \in S |-> f[x]]
    PROVE  IsFiniteSet({f[x] : x \in S})
<1> DEFINE T == {f[x] : x \in S}
<1>1. f \in Surjection(S, T)
  BY DEF Surjection
<1> QED
  BY <1>1, FS_Surjection

\* What the connections in C may still have to be charged, one amount each.
Rec(a, C) == {[conn |-> c, delta |-> a[c]] : c \in C}
Total(a, C) == Sum(Rec(a, C))

LEMMA RecDeltas ==
    ASSUME NEW C, IsFiniteSet(C), NEW a, \A c \in C : a[c] \in Nat
    PROVE  Deltas(Rec(a, C)) /\ Total(a, C) \in Nat
<1>1. IsFiniteSet(Rec(a, C))
  <2> DEFINE f == [c \in C |-> [conn |-> c, delta |-> a[c]]]
  <2>1. Rec(a, C) = {f[c] : c \in C} /\ DOMAIN f = C /\ f = [c \in C |-> f[c]]
    BY DEF Rec
  <2> HIDE DEF f
  <2> QED
    BY <2>1, ImageFinite
<1>2. Deltas(Rec(a, C))
  BY <1>1 DEF Deltas, Rec
<1> QED
  BY <1>2, SumTyped DEF Total

LEMMA TotalAdds ==
    ASSUME NEW C, IsFiniteSet(C), NEW c, c \notin C, NEW a,
           \A e \in C \cup {c} : a[e] \in Nat
    PROVE  Total(a, C \cup {c}) = Total(a, C) + a[c]
<1> DEFINE S == Rec(a, C \cup {c})
           x == [conn |-> c, delta |-> a[c]]
<1>1. Deltas(S)
  <2>1. IsFiniteSet(C \cup {c})
    BY FS_AddElement
  <2> QED
    BY <2>1, RecDeltas
<1>2. S = Rec(a, C) \cup {x} /\ x \in S
  BY DEF Rec
<1>3. x \notin Rec(a, C)
  BY DEF Rec
<1>4. x.delta = a[c]
  OBVIOUS
<1> HIDE DEF S, x
<1>5. Sum(Rec(a, C) \cup {x}) = Sum(Rec(a, C)) + x.delta
  BY <1>1, <1>2, <1>3, SumAdds
<1> QED
  BY <1>2, <1>4, <1>5 DEF Total, S

LEMMA TotalSame ==
    ASSUME NEW C, NEW a, NEW b, \A c \in C : a[c] = b[c]
    PROVE  Total(a, C) = Total(b, C)
<1>1. Rec(a, C) = Rec(b, C)
  BY DEF Rec
<1> QED
  BY <1>1 DEF Total

\* One amount changes.
LEMMA TotalMoves ==
    ASSUME NEW C, IsFiniteSet(C), NEW c \in C, NEW a, NEW b,
           \A e \in C : a[e] \in Nat /\ b[e] \in Nat,
           \A e \in C \ {c} : b[e] = a[e]
    PROVE  Total(b, C) + a[c] = Total(a, C) + b[c]
<1> DEFINE D == C \ {c}
<1>1. IsFiniteSet(D) /\ c \notin D /\ C = D \cup {c} /\ \A e \in D : b[e] = a[e]
  BY FS_Subset
<1> HIDE DEF D
<1>2. Total(a, D \cup {c}) = Total(a, D) + a[c] /\ Total(b, D \cup {c}) = Total(b, D) + b[c]
  BY <1>1, TotalAdds
<1>3. Total(a, D) = Total(b, D)
  BY <1>1, TotalSame
<1>4. Total(a, D) \in Nat /\ Total(b, D) \in Nat
  BY <1>1, RecDeltas
<1> QED
  BY <1>1, <1>2, <1>3, <1>4

\* What is charged is taken from the amounts.
After(a, ups) ==
    [c \in Conns |-> IF \E x \in ups : x.conn = c
                     THEN a[c] - (CHOOSE x \in ups : x.conn = c).delta ELSE a[c]]

LEMMA AfterTakes ==
    ASSUME NEW a, NEW ups, NEW x \in ups, \A y \in ups : y.conn = x.conn => y = x,
           x.conn \in Conns
    PROVE  After(a, ups)[x.conn] = a[x.conn] - x.delta
BY DEF After

LEMMA ChargeTakes ==
    ASSUME NEW C \in SUBSET Conns, IsFiniteSet(C), NEW a \in [Conns -> Nat],
           NEW ups, Deltas(ups), \A x \in ups : x.conn \in C /\ x.delta <= a[x.conn],
           \A x, y \in ups : x.conn = y.conn => x = y
    PROVE  /\ After(a, ups) \in [Conns -> Nat]
           /\ Total(After(a, ups), C) + Sum(ups) = Total(a, C)
<1> DEFINE B == {m \in SUBSET ups : Total(After(a, m), C) + Sum(m) # Total(a, C)}
<1>1. ASSUME NEW m \in SUBSET ups
      PROVE  /\ After(a, m) \in [Conns -> Nat]
             /\ \A x \in m : After(a, m)[x.conn] = a[x.conn] - x.delta
             /\ \A c \in Conns : (\A x \in m : x.conn # c) => After(a, m)[c] = a[c]
  <2>1. \A x \in m : After(a, m)[x.conn] = a[x.conn] - x.delta
    BY DEF After
  <2>2. \A c \in Conns : (\A x \in m : x.conn # c) => After(a, m)[c] = a[c]
    BY DEF After
  <2>3. ASSUME NEW c \in Conns PROVE After(a, m)[c] \in Nat
    <3>1. CASE \E x \in m : x.conn = c
      <4>1. PICK x \in m : x.conn = c
        BY <3>1
      <4>2. a[c] \in Nat /\ x.delta \in Nat /\ x.delta <= a[c]
        BY <4>1 DEF Deltas
      <4>3. After(a, m)[c] = a[c] - x.delta
        BY <2>1, <4>1
      <4> QED
        BY <4>2, <4>3
    <3>2. CASE \A x \in m : x.conn # c
      BY <2>2, <3>2
    <3> QED
      BY <3>1, <3>2
  <2> QED
    BY <2>1, <2>2, <2>3 DEF After
<1>2. B = {}
  <2> SUFFICES ASSUME B # {} PROVE FALSE
    OBVIOUS
  <2>1. PICK m \in B : \A x \in m : m \ {x} \notin B
    <3>1. B \in SUBSET (SUBSET ups) /\ IsFiniteSet(ups)
      BY DEF Deltas
    <3> HIDE DEF B
    <3> QED
      BY <3>1, MinimalPart
  <2>2. m \in SUBSET ups /\ Total(After(a, m), C) + Sum(m) # Total(a, C)
    OBVIOUS
  <2>3. \A c \in C : a[c] \in Nat
    OBVIOUS
  <2>4. Total(a, C) \in Nat
    BY <2>3, RecDeltas
  <2>5. m # {}
    <3>1. m = {} => \A c \in C : After(a, m)[c] = a[c]
      BY <1>1, <2>2
    <3>2. m = {} => Total(After(a, m), C) = Total(a, C)
      BY <3>1, TotalSame
    <3> QED
      BY <2>2, <2>4, <3>2, SumEmpty
  <2>6. PICK x \in m : TRUE
    BY <2>5
  <2> DEFINE r == m \ {x}
             b == After(a, r)
             d == After(a, m)
             c == x.conn
  <2>7. r \in SUBSET ups /\ r \notin B
    BY <2>1, <2>2, <2>6
  <2>8. Total(b, C) + Sum(r) = Total(a, C)
    BY <2>7
  <2>9. b \in [Conns -> Nat] /\ d \in [Conns -> Nat]
    BY <1>1, <2>2, <2>7
  <2>10. c \in C /\ x \in ups /\ x.delta \in Nat /\ a[c] \in Nat
    BY <2>2, <2>6 DEF Deltas
  <2>11. b[c] = a[c] /\ d[c] = a[c] - x.delta
    <3>1. \A y \in r : y.conn # c
      BY <2>2, <2>6
    <3> QED
      BY <1>1, <2>2, <2>6, <2>7, <2>10, <3>1
  <2>12. ASSUME NEW e \in C \ {c} PROVE d[e] = b[e]
    <3>1. CASE \E y \in m : y.conn = e
      <4>1. PICK y \in m : y.conn = e
        BY <3>1
      <4>2. y \in r
        BY <2>12, <4>1
      <4>3. d[y.conn] = a[y.conn] - y.delta /\ b[y.conn] = a[y.conn] - y.delta
        BY <1>1, <2>2, <2>7, <4>2
      <4> QED
        BY <4>1, <4>3
    <3>2. CASE \A y \in m : y.conn # e
      BY <1>1, <2>2, <2>7, <3>2
    <3> QED
      BY <3>1, <3>2
  <2>13. Sum(m) = Sum(r) + x.delta /\ Sum(r) \in Nat
    <3>1. m = r \cup {x} /\ x \in ups \ r
      BY <2>2, <2>6
    <3>2. Deltas(r)
      BY <2>7, FS_Subset DEF Deltas
    <3> HIDE DEF r
    <3> QED
      BY <2>7, <3>1, <3>2, SumAdds, SumTyped
  <2> HIDE DEF b, d, c, r
  <2>14. \A e \in C : b[e] \in Nat /\ d[e] \in Nat
    BY <2>9
  <2>15. Total(d, C) + b[c] = Total(b, C) + d[c]
    BY <2>10, <2>12, <2>14, TotalMoves
  <2>16. Total(b, C) \in Nat /\ Total(d, C) \in Nat
    BY <2>14, RecDeltas
  <2>17. Total(d, C) + Sum(m) # Total(a, C)
    BY <2>2 DEF d
  <2>18. d[c] \in Nat
    BY <2>10, <2>14
  <2> QED
    BY <2>4, <2>8, <2>10, <2>11, <2>13, <2>15, <2>16, <2>17, <2>18
<1>3. ups \notin B
  BY <1>2
<1> QED
  BY <1>1, <1>3

-----------------------------------------------------------------------------
(* One user per account *)

USE TrafficAssumption

DocFields == {"users", "conns"}
UserFields == {"id", "name", "linked", "on", "limit", "used", "total", "since"}

\* Documents and users keep their form; no two users have the same name.
Single(d) ==
    /\ DOMAIN d = DocFields
    /\ \A u \in d.users : DOMAIN u = UserFields
    /\ \A u, v \in d.users : u.name = v.name => u = v

\* Not only the document: every copy that is yet to be saved.
TrInv ==
    /\ Single(store)
    /\ DOMAIN data = Tasks /\ \A t \in Tasks : Single(data[t])

\* Users that are edited one by one, without their names.
LEMMA MapSingle ==
    ASSUME NEW d, Single(d), NEW f, NEW e, DOMAIN e = DocFields,
           e.users \subseteq {f[u] : u \in d.users},
           \A u \in d.users : f[u].name = u.name /\ DOMAIN f[u] = UserFields
    PROVE  Single(e)
<1>1. ASSUME NEW v \in e.users, NEW w \in e.users, v.name = w.name PROVE v = w
  <2>1. PICK u \in d.users : v = f[u]
    OBVIOUS
  <2>2. PICK x \in d.users : w = f[x]
    OBVIOUS
  <2>3. u = x
    BY <1>1, <2>1, <2>2 DEF Single
  <2> QED
    BY <2>1, <2>2, <2>3
<1> QED
  BY <1>1 DEF Single

LEMMA NoDocSingle == Single(NoDoc)
BY DEF NoDoc, Single, DocFields

LEMMA UserEdits ==
    ASSUME NEW u, DOMAIN u = UserFields
    PROVE  /\ \A b : /\ [u EXCEPT !.on = b].name = u.name
                     /\ DOMAIN [u EXCEPT !.on = b] = UserFields
           /\ \A b : /\ [u EXCEPT !.linked = b].name = u.name
                     /\ DOMAIN [u EXCEPT !.linked = b] = UserFields
           /\ \A n : /\ [u EXCEPT !.limit = n].name = u.name
                     /\ DOMAIN [u EXCEPT !.limit = n] = UserFields
           /\ \A x, y, z :
                /\ [u EXCEPT !.used = x, !.total = y, !.since = z].name = u.name
                /\ DOMAIN [u EXCEPT !.used = x, !.total = y, !.since = z] = UserFields
BY DEF UserFields

LEMMA ChargedSingle ==
    ASSUME NEW d, Single(d), NEW ups
    PROVE  Single(Charged(d, ups))
<1> DEFINE f == [u \in d.users |->
         LET mine == UpdatesOf(d, ups, u.id)
             sum == Sum(mine)
             reset == mine # {} /\ ResetNeeded(Strategy[u.id], u.since, day)
         IN  [u EXCEPT !.used = IF reset THEN sum ELSE @ + sum,
                       !.total = @ + sum,
                       !.since = IF reset THEN day ELSE @]]
<1>1. DOMAIN Charged(d, ups) = DocFields
  BY DEF Charged, DocFields
<1>2. Charged(d, ups).users = {f[u] : u \in d.users}
  BY DEF Charged
<1>3. ASSUME NEW u \in d.users
      PROVE  f[u].name = u.name /\ DOMAIN f[u] = UserFields
  <2>1. \E x, y, z : f[u] = [u EXCEPT !.used = x, !.total = y, !.since = z]
    OBVIOUS
  <2> HIDE DEF f
  <2>2. DOMAIN u = UserFields
    BY DEF Single
  <2> QED
    BY <2>1, <2>2, UserEdits
<1> HIDE DEF f
<1> QED
  BY <1>1, <1>2, <1>3, MapSingle

LEMMA CleanedSingle ==
    ASSUME NEW d, Single(d), NEW g
    PROVE  Single(Cleaned(d, g))
<1> DEFINE f == [u \in d.users |->
        IF \E on \in BOOLEAN : <<u.id, on>> \in g.set
        THEN [u EXCEPT !.on = <<u.id, TRUE>> \in g.set] ELSE u]
<1>1. DOMAIN Cleaned(d, g) = DocFields
  BY DEF Cleaned, DocFields
<1>2. Cleaned(d, g).users \subseteq {f[u] : u \in d.users}
  BY DEF Cleaned
<1>3. \A u \in d.users : f[u].name = u.name /\ DOMAIN f[u] = UserFields
  BY UserEdits DEF Single
<1> HIDE DEF f
<1> QED
  BY <1>1, <1>2, <1>3, MapSingle

LEMMA InitSingle == Init => TrInv
<1> SUFFICES ASSUME Init PROVE Single(store) /\ Single(NoDoc)
  BY DEF Init, TrInv
<1>1. PICK x \in Scenes : store = x.doc
  BY DEF Init
<1>2. store \in Doc /\ \A u, v \in store.users : u.name = v.name => u = v
  BY <1>1
<1>3. \A u \in User : DOMAIN u = UserFields
  BY DEF User, UserFields
<1>4. DOMAIN store = DocFields /\ store.users \subseteq User
  BY <1>2 DEF Doc, DocFields
<1> QED
  BY <1>2, <1>3, <1>4, NoDocSingle DEF Single

\* A task takes a copy that is in order, or drops its own.
LEMMA Copies ==
    ASSUME TrInv, NEW t \in Tasks, NEW d, Single(d), data' = [data EXCEPT ![t] = d],
           Single(store')
    PROVE  TrInv'
<1>1. \A r \in Tasks : data'[r] = d \/ data'[r] = data[r]
  BY DEF TrInv
<1>2. \A r \in Tasks : Single(data'[r])
  BY <1>1 DEF TrInv
<1>3. DOMAIN data' = Tasks
  BY DEF TrInv
<1> QED
  BY <1>2, <1>3 DEF TrInv, Single

LEMMA Saves ==
    ASSUME TrInv, Single(store'), UNCHANGED data
    PROVE  TrInv'
BY DEF TrInv, Single

LEMMA CycleSingle ==
    ASSUME TrInv, StartCycle \/ ApplyUpdates
    PROVE  TrInv'
<1>1. Cycle \in Tasks /\ Single(store) /\ Single(NoDoc)
  BY NoDocSingle DEF TrInv
<1>2. CASE StartCycle
  BY <1>1, <1>2, Copies DEF StartCycle
<1>3. CASE ApplyUpdates
  <2>1. Single(store')
    BY <1>1, <1>3, ChargedSingle DEF ApplyUpdates
  <2>2. \/ data' = [data EXCEPT ![Cycle] = NoDoc]
        \/ data' = [data EXCEPT ![Cycle] = store']
    BY <1>3 DEF ApplyUpdates, Continue
  <2> QED
    BY <1>1, <2>1, <2>2, Copies
<1> QED
  BY <1>2, <1>3

LEMMA MassSingle ==
    ASSUME TrInv, NEW t \in Tasks, MassStep(t)
    PROVE  TrInv'
<1>1. Single(store) /\ Single(NoDoc)
  BY NoDocSingle DEF TrInv
<1>2. CASE FinishMass(t)
  <2>1. Single(store')
    BY <1>1, <1>2, CleanedSingle DEF FinishMass
  <2>2. \/ data' = [data EXCEPT ![t] = NoDoc]
        \/ data' = [data EXCEPT ![t] = store']
    BY <1>2 DEF FinishMass, Continue
  <2> QED
    BY <1>1, <2>1, <2>2, Copies
<1>3. ASSUME NEW s \in Servers, RecordOp(t, s) PROVE TrInv'
  <2>1. PICK op : store' = Recorded(store, op)
    BY <1>3 DEF RecordOp
  <2>2. \E cs : store' \in {store, [store EXCEPT !.conns = cs]}
    BY <2>1 DEF Recorded
  <2>3. Single(store')
    BY <1>1, <2>2 DEF Single, DocFields
  <2> QED
    BY <1>3, <2>3, Saves DEF RecordOp
<1>4. ASSUME NEW s \in Servers,
             RemovePeer(t, s) \/ TogglePeer(t, s) \/ CreatePeer(t, s) \/ BreakServer(t, s)
      PROVE  TrInv'
  <2>1. UNCHANGED <<store, data>>
    BY <1>4 DEF RemovePeer, TogglePeer, CreatePeer, BreakServer
  <2> QED
    BY <1>1, <2>1, Saves
<1> QED
  BY <1>2, <1>3, <1>4 DEF MassStep

\* Users are made for accounts that have none, under ids that differ.
LEMMA SyncUsersSingle ==
    ASSUME TrInv, NEW t \in Tasks, SyncUsers(t)
    PROVE  Single(store')
<1> DEFINE there == DOMAIN page[t]
           new == {a \in there : Named(store, a) = {}}
           known == {u \in store.users : u.name \in there}
<1>1. PICK f \in [new -> Ids \ issued] :
        store' = [store EXCEPT !.users =
                (@ \ known) \cup {[u EXCEPT !.linked = TRUE] : u \in known}
                \cup {[id |-> f[a], name |-> a, linked |-> TRUE, on |-> page[t][a],
                       limit |-> 0, used |-> 0, total |-> 0, since |-> day] : a \in new}]
  BY DEF SyncUsers
<1> DEFINE g == [u \in store.users |->
                    IF u \in known THEN [u EXCEPT !.linked = TRUE] ELSE u]
           made == {[id |-> f[a], name |-> a, linked |-> TRUE, on |-> page[t][a],
                     limit |-> 0, used |-> 0, total |-> 0, since |-> day] : a \in new}
           kept == [store EXCEPT !.users = {g[u] : u \in @}]
<1>2. Single(store)
  BY DEF TrInv
<1>3. \A u \in store.users : g[u].name = u.name /\ DOMAIN g[u] = UserFields
  BY <1>2, UserEdits DEF Single
<1>4. Single(kept) /\ kept.users = {g[u] : u \in store.users}
  <2>1. DOMAIN kept = DocFields /\ kept.users = {g[u] : u \in store.users}
    BY <1>2 DEF Single, DocFields
  <2> HIDE DEF kept, g
  <2> QED
    BY <1>2, <1>3, <2>1, MapSingle
<1>5. DOMAIN store' = DocFields /\ store'.users = kept.users \cup made
  <2>1. /\ DOMAIN store' = DocFields
        /\ store'.users = (store.users \ known)
              \cup {[u EXCEPT !.linked = TRUE] : u \in known} \cup made
    BY <1>1, <1>2 DEF Single, DocFields
  <2>2. {g[u] : u \in store.users}
          = (store.users \ known) \cup {[u EXCEPT !.linked = TRUE] : u \in known}
    OBVIOUS
  <2> QED
    BY <1>4, <2>1, <2>2
<1>6. \A v \in made : DOMAIN v = UserFields /\ v.name \in new
  BY DEF UserFields
<1>7. ASSUME NEW v \in made, NEW w \in made, v.name = w.name
      PROVE  v = w
  <2>1. PICK a \in new : v = [id |-> f[a], name |-> a, linked |-> TRUE, on |-> page[t][a],
                     limit |-> 0, used |-> 0, total |-> 0, since |-> day]
    OBVIOUS
  <2>2. PICK b \in new : w = [id |-> f[b], name |-> b, linked |-> TRUE, on |-> page[t][b],
                     limit |-> 0, used |-> 0, total |-> 0, since |-> day]
    OBVIOUS
  <2> HIDE DEF made, kept, g, new, known
  <2>3. a = b
    BY <1>7, <2>1, <2>2
  <2> QED
    BY <2>1, <2>2, <2>3
<1>8. \A v \in kept.users, w \in made : v.name # w.name
  <2>1. \A a \in new, u \in store.users : u.name # a
    BY DEF Named
  <2> HIDE DEF made, kept, g, new, known
  <2> QED
    BY <1>3, <1>4, <1>6, <2>1
<1> HIDE DEF made, kept, g, new, known
<1> QED
  BY <1>4, <1>5, <1>6, <1>7, <1>8 DEF Single

LEMMA SyncSingle ==
    ASSUME TrInv, NEW t \in Tasks, SyncStep(t)
    PROVE  TrInv'
<1>1. Single(store) /\ Single(NoDoc)
  BY NoDocSingle DEF TrInv
<1>2. CASE FetchPages(t) \/ FetchFails(t)
  BY <1>1, <1>2, Copies DEF FetchPages, FetchFails
<1>3. CASE SyncUsers(t)
  BY <1>3, SyncUsersSingle, Saves DEF SyncUsers
<1> QED
  BY <1>2, <1>3, MassSingle DEF SyncStep

\* An edit of a user leaves the name, and the copy it is saved from is in order.
LEMMA EditSingle ==
    ASSUME TrInv, NEW t \in Tasks,
           ToggleUser(t) \/ UpdateUser(t) \/ EditPeer(t) \/ SaveEdit(t)
    PROVE  TrInv'
<1>1. Single(store) /\ Single(NoDoc) /\ Single(data[t])
  BY NoDocSingle DEF TrInv
<1>2. ASSUME NEW d, Single(d), NEW id, NEW on, StartToggle(t, d, id, on), Single(store')
      PROVE  TrInv'
  <2> DEFINE e == [d EXCEPT !.users =
                      {IF u.id = id THEN [u EXCEPT !.on = on] ELSE u : u \in @}]
             f == [u \in d.users |-> IF u.id = id THEN [u EXCEPT !.on = on] ELSE u]
  <2>1. DOMAIN e = DocFields /\ e.users = {f[u] : u \in d.users}
    BY <1>2 DEF Single, DocFields
  <2>2. \A u \in d.users : f[u].name = u.name /\ DOMAIN f[u] = UserFields
    BY <1>2, UserEdits DEF Single
  <2>3. data' = [data EXCEPT ![t] = e]
    BY <1>2 DEF StartToggle
  <2> HIDE DEF e, f
  <2>4. Single(e)
    BY <1>2, <2>1, <2>2, MapSingle
  <2> QED
    BY <1>2, <2>3, <2>4, Copies
<1>3. CASE ToggleUser(t)
  BY <1>1, <1>2, <1>3 DEF ToggleUser
<1>4. CASE UpdateUser(t)
  <2>1. PICK u \in store.users, limit \in Limits :
          LET v == [u EXCEPT !.limit = limit]
              d == [store EXCEPT !.users = (@ \ {u}) \cup {v}]
          IN  /\ store' = d
              /\ StartToggle(t, d, u.id, TRUE) \/ UNCHANGED data
    BY <1>4 DEF UpdateUser
  <2> DEFINE v == [u EXCEPT !.limit = limit]
             d == [store EXCEPT !.users = (@ \ {u}) \cup {v}]
  <2>2. v.name = u.name /\ DOMAIN v = UserFields
    BY <1>1, UserEdits DEF Single
  <2>3. DOMAIN d = DocFields /\ d.users = (store.users \ {u}) \cup {v}
    BY <1>1 DEF Single, DocFields
  <2>4. store' = d /\ (StartToggle(t, d, u.id, TRUE) \/ UNCHANGED data)
    BY <2>1
  <2> HIDE DEF d, v
  <2>5. Single(d)
    BY <1>1, <2>2, <2>3 DEF Single
  <2> QED
    BY <1>2, <2>4, <2>5, Saves
<1>5. CASE EditPeer(t)
  BY <1>1, <1>5, Saves DEF EditPeer
<1>6. CASE SaveEdit(t)
  BY <1>1, <1>6, Copies DEF SaveEdit
<1> QED
  BY <1>3, <1>4, <1>5, <1>6

LEMMA NextSingle == TrInv /\ [Next]_vars => TrInv'
<1> SUFFICES ASSUME TrInv, [Next]_vars PROVE TrInv'
  OBVIOUS
<1>1. Cycle \in Tasks /\ Single(store) /\ Single(NoDoc)
  BY NoDocSingle DEF TrInv
<1>2. CASE CycleStep
  <2>1. ASSUME NEW s \in Servers, Scrape(s) \/ ScrapeFails(s) PROVE TrInv'
    BY <1>1, <2>1, Saves DEF Scrape, ScrapeFails, ReadFrom
  <2> QED
    BY <1>1, <1>2, <2>1, CycleSingle, SyncSingle DEF CycleStep
<1>3. ASSUME NEW t \in Tasks, RequestStep(t) PROVE TrInv'
  <2>1. CASE SyncNow(t)
    BY <1>1, <2>1, Copies DEF SyncNow
  <2>2. CASE SyncDelete(t)
    BY <1>1, <2>2, Saves DEF SyncDelete
  <2> QED
    BY <1>3, <2>1, <2>2, SyncSingle, EditSingle DEF RequestStep
<1>4. CASE World
  <2>1. UNCHANGED <<store, data>>
    BY <1>4 DEF World, Flow, Restart, NextDay, AccountChanges, local
  <2> QED
    BY <1>1, <2>1, Saves
<1>5. CASE UNCHANGED vars
  BY <1>1, <1>5, Saves DEF vars, local
<1> QED
  BY <1>2, <1>3, <1>4, <1>5 DEF Next

\* An account gets one user, however many synchronisations look it up at once and
\* whatever stale copies are saved meanwhile: sync_users_with_remnawave looks for
\* the name in the document it adds the user to, and no edit changes a name.
THEOREM TrafficOneUser == Spec => []OneUserPerAccount
<1>1. TrInv => OneUserPerAccount
  BY DEF TrInv, Single, OneUserPerAccount
<1> QED
  BY <1>1, InitSingle, NextSingle, PTL DEF Spec

-----------------------------------------------------------------------------
(* Types *)

DocT(d) == d \in Doc /\ IsFiniteSet(d.conns)
OpT(op) == op \in Op /\ (op.kind # "create" \/ op.made => op.conn \in Conns)

PeersT == up \subseteq peers /\ peers \subseteq Conns /\ meter \in [Conns -> Nat]
WorldT ==
    /\ DOMAIN accounts \subseteq Names /\ \A a \in DOMAIN accounts : accounts[a] \in BOOLEAN
    /\ day \in Days /\ may \in SUBSET Activities
DataT == data \in [Tasks -> Doc] /\ \A t \in Tasks : DocT(data[t])
StageT ==
    /\ pc \in [Tasks -> Stages] /\ visit \in [Tasks -> SUBSET (Servers \cup Conns)]
    /\ \A t \in Tasks : pc[t] = "editing" => visit[t] \subseteq Conns
GotT == got \in [Tasks -> SUBSET Update] /\ \A t \in Tasks : IsFiniteSet(got[t])
PageT ==
    /\ DOMAIN page = Tasks
    /\ \A t \in Tasks : /\ DOMAIN page[t] \subseteq Names
                        /\ \A a \in DOMAIN page[t] : page[t][a] \in BOOLEAN
TodoT ==
    /\ todo \in [Tasks -> [Servers -> SUBSET Op]]
    /\ \A t \in Tasks, s \in Servers : \A op \in todo[t][s] : OpT(op)
GoalT == goal \in [Tasks -> Goal]
GhostT ==
    /\ owner \in [Conns -> Ids \cup {NoConn}] /\ moved \in [Ids -> Nat]
    /\ issued \subseteq Ids /\ torn \subseteq Conns

TypeInv ==
    /\ DocT(store) /\ PeersT /\ WorldT /\ DataT /\ StageT /\ GotT /\ PageT
    /\ TodoT /\ GoalT /\ GhostT

LEMMA NoDocT == DocT(NoDoc)
BY FS_EmptySet DEF DocT, Doc, NoDoc

LEMMA DocFieldsT ==
    ASSUME NEW us \in SUBSET User, NEW cs \in SUBSET Conn, IsFiniteSet(cs)
    PROVE  DocT([users |-> us, conns |-> cs])
BY DEF DocT, Doc

LEMMA DocEditsT ==
    ASSUME NEW d, DocT(d)
    PROVE  /\ d.users \subseteq User /\ d.conns \subseteq Conn /\ IsFiniteSet(d.conns)
           /\ \A us \in SUBSET User : DocT([d EXCEPT !.users = us])
           /\ \A cs \in SUBSET Conn : IsFiniteSet(cs) => DocT([d EXCEPT !.conns = cs])
BY DEF DocT, Doc

LEMMA ChargedT ==
    ASSUME NEW d, DocT(d), NEW ups \in SUBSET Update, IsFiniteSet(ups), day \in Days
    PROVE  DocT(Charged(d, ups))
<1> DEFINE us == {LET mine == UpdatesOf(d, ups, u.id)
                     sum == Sum(mine)
                     reset == mine # {} /\ ResetNeeded(Strategy[u.id], u.since, day)
                 IN  [u EXCEPT !.used = IF reset THEN sum ELSE @ + sum,
                               !.total = @ + sum,
                               !.since = IF reset THEN day ELSE @] : u \in d.users}
           f == [c \in d.conns |->
                 IF \E x \in ups : x.conn = c.id
                 THEN [c EXCEPT !.last = (CHOOSE x \in ups : x.conn = c.id).curr]
                 ELSE c]
           cs == {f[c] : c \in d.conns}
<1>1. Charged(d, ups) = [users |-> us, conns |-> cs]
  BY DEF Charged
<1>2. us \subseteq User
  <2> SUFFICES ASSUME NEW u \in d.users
               PROVE  LET mine == UpdatesOf(d, ups, u.id)
                          sum == Sum(mine)
                          reset == mine # {} /\ ResetNeeded(Strategy[u.id], u.since, day)
                      IN  [u EXCEPT !.used = IF reset THEN sum ELSE @ + sum,
                               !.total = @ + sum,
                               !.since = IF reset THEN day ELSE @] \in User
    OBVIOUS
  <2>1. u \in User
    BY DocEditsT
  <2>2. Sum(UpdatesOf(d, ups, u.id)) \in Nat
    <3>1. UpdatesOf(d, ups, u.id) \subseteq ups
      BY DEF UpdatesOf
    <3>2. Deltas(UpdatesOf(d, ups, u.id))
      BY <3>1, FS_Subset DEF Deltas, Update
    <3> QED
      BY <3>2, SumTyped
  <2> DEFINE sum == Sum(UpdatesOf(d, ups, u.id))
             reset == UpdatesOf(d, ups, u.id) # {} /\ ResetNeeded(Strategy[u.id], u.since, day)
             used == IF reset THEN sum ELSE u.used + sum
             total == u.total + sum
             since == IF reset THEN day ELSE u.since
  <2> HIDE DEF reset, sum
  <2>3. used \in Nat /\ total \in Nat /\ since \in Days
    BY <2>1, <2>2 DEF User, sum
  <2> HIDE DEF used, total, since
  <2>4. [u EXCEPT !.used = used, !.total = total, !.since = since] \in User
    BY <2>1, <2>3 DEF User
  <2> QED
    BY <2>4 DEF used, total, since, reset, sum
<1>3. cs \subseteq Conn
  <2> SUFFICES ASSUME NEW c \in d.conns PROVE f[c] \in Conn
    OBVIOUS
  <2>1. c \in Conn
    BY DocEditsT
  <2>2. \A x \in ups : x.curr \in Nat
    BY DEF Update
  <2> QED
    BY <2>1, <2>2 DEF Conn
<1>4. IsFiniteSet(cs)
  <2>1. IsFiniteSet(d.conns) /\ DOMAIN f = d.conns /\ f = [c \in d.conns |-> f[c]]
    BY DEF DocT
  <2> HIDE DEF f
  <2> QED
    BY <2>1, ImageFinite
<1> HIDE DEF us, cs
<1> QED
  BY <1>1, <1>2, <1>3, <1>4, DocFieldsT

LEMMA CleanedT ==
    ASSUME NEW d, DocT(d), NEW g
    PROVE  DocT(Cleaned(d, g))
<1> DEFINE us == {IF \E on \in BOOLEAN : <<u.id, on>> \in g.set
                  THEN [u EXCEPT !.on = <<u.id, TRUE>> \in g.set] ELSE u :
                    u \in {v \in d.users : v.id \notin g.drop}}
           cs == {c \in d.conns : c.user \notin g.drop}
<1>1. us \subseteq User
  <2> SUFFICES ASSUME NEW u \in d.users
               PROVE  (IF \E on \in BOOLEAN : <<u.id, on>> \in g.set
                       THEN [u EXCEPT !.on = <<u.id, TRUE>> \in g.set] ELSE u) \in User
    OBVIOUS
  <2>1. u \in User
    BY DocEditsT
  <2>2. \A b \in BOOLEAN : [u EXCEPT !.on = b] \in User
    BY <2>1 DEF User
  <2>3. (<<u.id, TRUE>> \in g.set) \in BOOLEAN
    OBVIOUS
  <2> QED
    BY <2>1, <2>2, <2>3
<1>2. cs \subseteq Conn /\ IsFiniteSet(cs)
  BY DocEditsT, FS_Subset
<1>3. Cleaned(d, g) = [users |-> us, conns |-> cs]
  BY DEF Cleaned
<1> HIDE DEF us, cs
<1> QED
  BY <1>1, <1>2, <1>3, DocFieldsT

LEMMA TodoTyped ==
    ASSUME NEW kind \in {"remove", "toggle", "create"}, NEW id \in Ids,
           NEW c \in Conns \cup {NoConn}, kind # "create" => c \in Conns, NEW on \in BOOLEAN
    PROVE  OpT(Todo(kind, id, c, on)) /\ Todo(kind, id, c, on).made = FALSE
<1>1. Todo(kind, id, c, on) = [kind |-> kind, user |-> id, conn |-> c, on |-> on, made |-> FALSE]
  BY DEF Todo
<1> QED
  BY <1>1 DEF OpT, Op

LEMMA GroupedT ==
    ASSUME NEW d, DocT(d), NEW drop, NEW set \in SUBSET (Ids \X BOOLEAN),
           NEW create \in SUBSET Ids
    PROVE  /\ Grouped(d, drop, set, create) \in [Servers -> SUBSET Op]
           /\ \A s \in Servers : \A op \in Grouped(d, drop, set, create)[s] :
                OpT(op) /\ ~op.made
<1> DEFINE removes(s) == {Todo("remove", c.user, c.id, FALSE) :
                c \in {x \in d.conns : At[x.id] = s /\ x.user \in drop}}
           toggles(s) == {Todo("toggle", w[2][1], w[1].id, w[2][2]) :
                w \in {v \in d.conns \X set : At[v[1].id] = s /\ v[1].user = v[2][1]}}
           creates(s) == {Todo("create", id, NoConn, TRUE) : id \in {i \in create : s = Target}}
<1>1. \A c \in d.conns : c.id \in Conns /\ c.user \in Ids
  BY DocEditsT DEF Conn
<1>2. ASSUME NEW s \in Servers, NEW op \in removes(s) PROVE OpT(op) /\ ~op.made
  <2>1. PICK c \in d.conns : op = Todo("remove", c.user, c.id, FALSE)
    BY <1>2
  <2>2. c.user \in Ids /\ c.id \in Conns
    BY <1>1
  <2> QED
    BY <2>1, <2>2, TodoTyped
<1>3. ASSUME NEW s \in Servers, NEW op \in toggles(s) PROVE OpT(op) /\ ~op.made
  <2>1. PICK w \in d.conns \X set : op = Todo("toggle", w[2][1], w[1].id, w[2][2])
    BY <1>3
  <2>2. w[2][1] \in Ids /\ w[2][2] \in BOOLEAN /\ w[1].id \in Conns
    BY <1>1
  <2> QED
    BY <2>1, <2>2, TodoTyped
<1>4. ASSUME NEW s \in Servers, NEW op \in creates(s) PROVE OpT(op) /\ ~op.made
  <2>1. PICK id \in create : op = Todo("create", id, NoConn, TRUE)
    BY <1>4
  <2>2. id \in Ids
    OBVIOUS
  <2> QED
    BY <2>1, <2>2, TodoTyped
<1>5. Grouped(d, drop, set, create) =
        [s \in Servers |-> removes(s) \cup toggles(s) \cup creates(s)]
  BY DEF Grouped
<1> HIDE DEF removes, toggles, creates
<1>6. \A s \in Servers : \A op \in removes(s) \cup toggles(s) \cup creates(s) : OpT(op) /\ ~op.made
  BY <1>2, <1>3, <1>4
<1> QED
  BY <1>5, <1>6 DEF OpT

LEMMA StartMassT ==
    ASSUME TypeInv, NEW t \in Tasks, NEW d, DocT(d), NEW drop \in SUBSET Ids,
           NEW set \in SUBSET (Ids \X BOOLEAN), NEW create \in SUBSET Ids,
           NEW next \in {"remnawave", "users", "end"},
           StartMass(t, d, drop, set, create, next), visit' = visit
    PROVE  TodoT' /\ GoalT' /\ StageT'
<1> DEFINE ops == Grouped(d, drop, set, create)
           g == [drop |-> drop, set |-> set, next |-> next]
<1>1. /\ todo' = [todo EXCEPT ![t] = ops] /\ goal' = [goal EXCEPT ![t] = g]
      /\ pc' = [pc EXCEPT ![t] = "mass"]
  BY DEF StartMass
<1>2. g \in Goal
  BY DEF Goal
<1>3. ops \in [Servers -> SUBSET Op] /\ \A s \in Servers : \A op \in ops[s] : OpT(op)
  BY GroupedT
<1> HIDE DEF ops, g
<1>4. TodoT' 
  BY <1>1, <1>3 DEF TypeInv, TodoT, OpT
<1>5. GoalT'
  BY <1>1, <1>2 DEF TypeInv, GoalT
<1>6. StageT'
  BY <1>1 DEF TypeInv, StageT, Stages
<1> QED
  BY <1>4, <1>5, <1>6

\* A task's copy and stage change, to a stage where nothing is edited.
LEMMA CopiesT ==
    ASSUME TypeInv, NEW t \in Tasks, NEW d, DocT(d), data' = [data EXCEPT ![t] = d]
    PROVE  DataT'
<1>1. d \in Doc /\ data \in [Tasks -> Doc] /\ \A r \in Tasks : DocT(data[r])
  BY DEF TypeInv, DataT, DocT
<1>2. \A r \in Tasks : data'[r] = d \/ data'[r] = data[r]
  BY <1>1
<1> QED
  BY <1>1, <1>2 DEF DataT, DocT

LEMMA StagesT ==
    ASSUME TypeInv, NEW t \in Tasks, NEW stage \in Stages \ {"editing"},
           pc' = [pc EXCEPT ![t] = stage], visit' = visit
    PROVE  StageT'
BY DEF TypeInv, StageT

LEMMA ContinueT ==
    ASSUME TypeInv, NEW t \in Tasks, NEW next, NEW d, DocT(d), Continue(t, next, d),
           visit' = visit
    PROVE  DataT' /\ StageT'
<1> DEFINE stage == CASE next = "remnawave" /\ "remnawave" \in may -> "fetch"
                      [] next = "users" -> "users"
                      [] OTHER -> "idle"
<1>0. stage \in Stages \ {"editing"} /\ pc' = [pc EXCEPT ![t] = stage]
  <2>1. pc' = [pc EXCEPT ![t] = stage]
    BY DEF Continue
  <2>2. stage \in {"fetch", "users", "idle"}
    OBVIOUS
  <2> QED
    BY <2>1, <2>2 DEF Stages
<1> HIDE DEF stage
<1>1. StageT'
  BY <1>0, StagesT
<1>2. \E e : DocT(e) /\ data' = [data EXCEPT ![t] = e]
  BY NoDocT DEF Continue
<1> QED
  BY <1>1, <1>2, CopiesT

LEMMA InitT == Init => TypeInv
<1> SUFFICES ASSUME Init PROVE TypeInv
  OBVIOUS
<1>1. PICK x \in Scenes : store = x.doc /\ may = x.may
  BY DEF Init
<1>2. x.doc \in Doc /\ IsFiniteSet(x.doc.conns) /\ x.may \in SUBSET Activities
  OBVIOUS
<1>3. DocT(store) /\ may \in SUBSET Activities
  BY <1>1, <1>2 DEF DocT
<1>4. \A c \in store.conns : c.id \in Conns /\ c.user \in Ids
  BY <1>3, DocEditsT DEF Conn
<1>5. PeersT
  BY <1>4 DEF Init, PeersT
<1>6. WorldT
  <2>1. \E names \in SUBSET Names : accounts \in [names -> BOOLEAN]
    BY DEF Init
  <2> QED
    BY <1>3, <2>1 DEF Init, WorldT
<1>7. DataT
  <2>1. data = [t \in Tasks |-> NoDoc]
    BY DEF Init
  <2> QED
    BY <2>1, NoDocT DEF DataT, DocT
<1>8. StageT /\ GotT /\ PageT /\ TodoT /\ GoalT
  <2>1. StageT
    BY DEF Init, StageT, Stages
  <2>2. GotT
    BY FS_EmptySet DEF Init, GotT
  <2>3. PageT
    BY DEF Init, PageT
  <2>4. TodoT
    BY DEF Init, TodoT, NoOps
  <2>5. GoalT
    BY DEF Init, GoalT, NoGoal, Goal
  <2> QED
    BY <2>1, <2>2, <2>3, <2>4, <2>5
<1>9. GhostT
  <2>1. owner \in [Conns -> Ids \cup {NoConn}]
    <3>1. owner = [c \in Conns |-> IF c \in peers
                                THEN (CHOOSE y \in store.conns : y.id = c).user ELSE NoConn]
      BY DEF Init
    <3>2. ASSUME NEW c \in peers PROVE (CHOOSE y \in store.conns : y.id = c).user \in Ids
      <4>1. \E y \in store.conns : y.id = c
        BY DEF Init
      <4> QED
        BY <1>4, <4>1
    <3> QED
      BY <3>1, <3>2
  <2>2. moved \in [Ids -> Nat]
    <3>1. moved = [id \in Ids |-> IF id \in UserIdsOf(store)
                                THEN (CHOOSE u \in store.users : u.id = id).total ELSE 0]
      BY DEF Init
    <3>2. ASSUME NEW id \in UserIdsOf(store)
          PROVE  (CHOOSE u \in store.users : u.id = id).total \in Nat
      <4>1. \E u \in store.users : u.id = id
        BY DEF UserIdsOf
      <4>2. \A u \in store.users : u.total \in Nat
        BY <1>3, DocEditsT DEF User
      <4> QED
        BY <4>1, <4>2
    <3> QED
      BY <3>1, <3>2
  <2>3. issued \subseteq Ids /\ torn \subseteq Conns
    <3>1. \A u \in store.users : u.id \in Ids
      BY <1>3, DocEditsT DEF User
    <3> QED
      BY <1>4, <3>1 DEF Init, UserIdsOf
  <2> QED
    BY <2>1, <2>2, <2>3 DEF GhostT
<1> QED
  BY <1>3, <1>5, <1>6, <1>7, <1>8, <1>9 DEF TypeInv

LEMMA DidT ==
    ASSUME TypeInv, NEW t \in Tasks, NEW s \in Servers, NEW op \in todo[t][s],
           NEW c \in Conns, Did(t, s, op, c)
    PROVE  TodoT'
<1> DEFINE done == [op EXCEPT !.conn = c, !.made = TRUE]
           ops == (todo[t][s] \ {op}) \cup {done}
<1>1. OpT(op) /\ todo \in [Tasks -> [Servers -> SUBSET Op]]
  BY DEF TypeInv, TodoT
<1>2. OpT(done)
  BY <1>1 DEF OpT, Op
<1>3. todo' = [todo EXCEPT ![t][s] = ops]
  BY DEF Did
<1>4. ops \in SUBSET Op
  BY <1>1, <1>2 DEF OpT
<1>5. todo' \in [Tasks -> [Servers -> SUBSET Op]]
  <2> HIDE DEF ops
  <2> QED
    BY <1>1, <1>3, <1>4
<1>6. ASSUME NEW r \in Tasks, NEW q \in Servers, NEW o \in todo'[r][q] PROVE OpT(o)
  <2>1. o = done \/ o \in todo[r][q]
    <3>1. r = t /\ q = s => todo'[r][q] = ops
      BY <1>1, <1>3
    <3>2. ~(r = t /\ q = s) => todo'[r][q] = todo[r][q]
      BY <1>1, <1>3
    <3> QED
      BY <1>6, <3>1, <3>2
  <2> QED
    BY <1>2, <2>1 DEF TypeInv, TodoT
<1> QED
  BY <1>5, <1>6 DEF TodoT, OpT

LEMMA SomeOpsT ==
    ASSUME TypeInv, NEW t \in Tasks, NEW s \in Servers, NEW ops \in SUBSET todo[t][s],
           todo' = [todo EXCEPT ![t][s] = ops]
    PROVE  TodoT'
<1>1. todo \in [Tasks -> [Servers -> SUBSET Op]]
  BY DEF TypeInv, TodoT
<1>2. todo' \in [Tasks -> [Servers -> SUBSET Op]]
  BY <1>1
<1>3. \A r \in Tasks, q \in Servers : todo'[r][q] \subseteq todo[r][q]
  BY <1>1
<1> QED
  BY <1>2, <1>3 DEF TypeInv, TodoT, OpT

LEMMA SwitchPeerT ==
    ASSUME TypeInv, NEW c, NEW on, SwitchPeer(c, on)
    PROVE  PeersT' /\ GhostT'
<1>1. PeersT'
  BY DEF TypeInv, PeersT, SwitchPeer
<1>2. GhostT'
  BY DEF TypeInv, GhostT, SwitchPeer
<1> QED
  BY <1>1, <1>2

LEMMA MassT ==
    ASSUME TypeInv, NEW t \in Tasks, NEW s \in Servers,
           \/ RemovePeer(t, s) \/ TogglePeer(t, s) \/ CreatePeer(t, s)
           \/ RecordOp(t, s) \/ BreakServer(t, s)
    PROVE  TypeInv'
<1>1. UNCHANGED <<accounts, day, may, pc, data, visit, got, page, goal>>
  BY DEF RemovePeer, TogglePeer, CreatePeer, RecordOp, BreakServer, world
<1>2. WorldT' /\ DataT' /\ StageT' /\ GotT' /\ PageT' /\ GoalT'
  BY <1>1 DEF TypeInv, WorldT, DataT, StageT, GotT, PageT, GoalT, DocT
<1>3. CASE RemovePeer(t, s)
  <2>1. PICK op \in todo[t][s] :
          /\ op.kind = "remove" /\ Did(t, s, op, op.conn)
          /\ peers' = peers \ {op.conn} /\ up' = up \ {op.conn}
    BY <1>3 DEF RemovePeer
  <2>2. UNCHANGED <<store, meter, owner, moved, issued, torn>>
    BY <1>3 DEF RemovePeer, ghosts
  <2>3. op.conn \in Conns
    BY <2>1 DEF TypeInv, TodoT, OpT
  <2>4. TodoT'
    <3>1. op \in todo[t][s] /\ Did(t, s, op, op.conn)
      BY <2>1
    <3> QED
      BY <2>3, <3>1, DidT
  <2>5. PeersT' /\ GhostT' /\ DocT(store)'
    BY <2>1, <2>2 DEF TypeInv, PeersT, GhostT, DocT
  <2> QED
    BY <1>2, <2>4, <2>5 DEF TypeInv
<1>4. CASE TogglePeer(t, s)
  <2>1. PICK op \in todo[t][s] :
          op.kind = "toggle" /\ Did(t, s, op, op.conn) /\ SwitchPeer(op.conn, op.on)
    BY <1>4 DEF TogglePeer
  <2>2. op.conn \in Conns
    BY <2>1 DEF TypeInv, TodoT, OpT
  <2>3. TodoT' /\ PeersT' /\ GhostT'
    BY <2>1, <2>2, DidT, SwitchPeerT
  <2>4. DocT(store)'
    BY <1>4 DEF TogglePeer, TypeInv, DocT
  <2> QED
    BY <1>2, <2>3, <2>4 DEF TypeInv
<1>5. CASE CreatePeer(t, s)
  <2>1. PICK op \in todo[t][s], c \in Conns : Did(t, s, op, c) /\ NewPeer(c, op.user, s)
    BY <1>5 DEF CreatePeer
  <2>2. op.user \in Ids
    BY DEF TypeInv, TodoT, OpT, Op
  <2>3. TodoT'
    <3>1. op \in todo[t][s] /\ c \in Conns /\ Did(t, s, op, c)
      BY <2>1
    <3> QED
      BY <3>1, DidT
  <2>4. PeersT' /\ GhostT'
    BY <2>1, <2>2 DEF TypeInv, PeersT, GhostT, NewPeer
  <2>5. DocT(store)'
    BY <1>5 DEF CreatePeer, TypeInv, DocT
  <2> QED
    BY <1>2, <2>3, <2>4, <2>5 DEF TypeInv
<1>6. CASE RecordOp(t, s)
  <2>1. PICK op \in todo[t][s] :
          /\ op.made /\ store' = Recorded(store, op)
          /\ todo' = [todo EXCEPT ![t][s] = @ \ {op}]
    BY <1>6 DEF RecordOp
  <2>2. UNCHANGED <<peers, up, meter, owner, moved, issued, torn>>
    BY <1>6 DEF RecordOp, ghosts, servers
  <2>3. TodoT'
    <3>1. todo' = [todo EXCEPT ![t][s] = todo[t][s] \ {op}]
      BY <2>1
    <3>2. todo[t][s] \ {op} \in SUBSET todo[t][s]
      OBVIOUS
    <3> QED
      BY <3>1, <3>2, SomeOpsT
  <2>4. OpT(op) /\ DocT(store)
    BY DEF TypeInv, TodoT
  <2>5. DocT(store)'
    <3>1. CASE op.kind = "remove"
      <4>1. store' = [store EXCEPT !.conns = {c \in store.conns : c.id # op.conn}]
        BY <2>1, <3>1 DEF Recorded
      <4>2. DocT(store')
        BY <2>4, <4>1, DocEditsT, FS_Subset
      <4> QED
        BY <4>2 DEF DocT
    <3>2. CASE op.kind = "create"
      <4> DEFINE k == [id |-> op.conn, user |-> op.user, last |-> 0]
      <4>1. store' = [store EXCEPT !.conns = store.conns \cup {k}]
        BY <2>1, <3>2 DEF Recorded
      <4>2. k \in Conn
        BY <2>1, <2>4 DEF OpT, Op, Conn
      <4>3. IsFiniteSet(store.conns \cup {k})
        BY <2>4, DocEditsT, FS_AddElement
      <4> HIDE DEF k
      <4>4. DocT(store')
        BY <2>4, <4>1, <4>2, <4>3, DocEditsT
      <4> QED
        BY <4>4 DEF DocT
    <3>3. CASE op.kind \notin {"remove", "create"}
      BY <2>1, <2>4, <3>3 DEF Recorded, DocT
    <3> QED
      BY <3>1, <3>2, <3>3
  <2>6. PeersT' /\ GhostT'
    BY <2>2 DEF TypeInv, PeersT, GhostT
  <2> QED
    BY <1>2, <2>3, <2>5, <2>6 DEF TypeInv
<1>7. CASE BreakServer(t, s)
  <2>1. /\ torn' = torn \cup {op.conn : op \in {o \in todo[t][s] : o.kind = "toggle" /\ ~o.made}}
        /\ todo' = [todo EXCEPT ![t][s] = {}]
        /\ UNCHANGED <<store, peers, up, meter, owner, moved, issued>>
    BY <1>7 DEF BreakServer, servers
  <2>2. \A op \in todo[t][s] : op.kind = "toggle" => op.conn \in Conns
    BY DEF TypeInv, TodoT, OpT
  <2>3. TodoT'
    <3>1. {} \in SUBSET todo[t][s]
      OBVIOUS
    <3> QED
      BY <2>1, <3>1, SomeOpsT
  <2>4. PeersT' /\ GhostT' /\ DocT(store)'
    BY <2>1, <2>2 DEF TypeInv, PeersT, GhostT, DocT
  <2> QED
    BY <1>2, <2>3, <2>4 DEF TypeInv
<1> QED
  BY <1>3, <1>4, <1>5, <1>6, <1>7

LEMMA FinishMassT ==
    ASSUME TypeInv, NEW t \in Tasks, FinishMass(t)
    PROVE  TypeInv'
<1>1. /\ store' = Cleaned(store, goal[t]) /\ Continue(t, goal[t].next, store')
      /\ goal' = [goal EXCEPT ![t] = NoGoal] /\ visit' = visit
      /\ UNCHANGED <<servers, world, got, page, todo, ghosts>>
  BY DEF FinishMass
<1>2. DocT(store')
  BY <1>1, CleanedT DEF TypeInv
<1>3. DataT' /\ StageT'
  BY <1>1, <1>2, ContinueT
<1>4. GoalT'
  <2>1. NoGoal \in Goal
    BY DEF NoGoal, Goal
  <2> QED
    BY <1>1, <2>1 DEF TypeInv, GoalT
<1>5. PeersT' /\ WorldT' /\ GotT' /\ PageT' /\ TodoT' /\ GhostT'
  BY <1>1 DEF TypeInv, PeersT, WorldT, GotT, PageT, TodoT, GhostT, servers, world, ghosts, OpT
<1> QED
  BY <1>2, <1>3, <1>4, <1>5 DEF TypeInv, DocT

LEMMA DeltaT ==
    ASSUME NEW x \in Nat, NEW y \in Nat
    PROVE  Delta(x, y) \in Nat
BY DEF Delta

\* A server that is read, whole or up to an exception.
LEMMA ScrapeReads ==
    ASSUME NEW s \in Servers, Scrape(s) \/ ScrapeFails(s)
    PROVE  \E clients \in SUBSET ClientsOn(s) : ReadFrom(s, clients)
BY DEF Scrape, ScrapeFails

LEMMA ScrapeT ==
    ASSUME TypeInv, NEW s \in Servers, Scrape(s) \/ ScrapeFails(s)
    PROVE  TypeInv'
<1>1. UNCHANGED <<store, servers, world, pc, data, page, todo, goal, ghosts>>
  BY ScrapeReads DEF ReadFrom
<1>2. visit' = [visit EXCEPT ![Cycle] = @ \ {s}]
  BY ScrapeReads DEF ReadFrom
<1>3. GotT'
  <2>0. PICK clients \in SUBSET ClientsOn(s) : ReadFrom(s, clients)
    BY ScrapeReads
  <2>1. PICK bytes \in Readings :
          got' = [got EXCEPT ![Cycle] = @ \cup
              {[conn |-> c.id, delta |-> Delta(c.last, bytes[c.id]), curr |-> bytes[c.id]] :
                  c \in {x \in data[Cycle].conns : x.id \in clients}}]
    BY <2>0 DEF ReadFrom
  <2> DEFINE seen == {x \in data[Cycle].conns : x.id \in clients}
             f == [c \in seen |-> [conn |-> c.id, delta |-> Delta(c.last, bytes[c.id]),
                                   curr |-> bytes[c.id]]]
             more == {f[c] : c \in seen}
  <2>2. bytes \in [Conns -> Nat]
    BY DEF Readings, Blank, TypeInv, PeersT
  <2>3. DocT(data[Cycle])
    BY DEF TypeInv, DataT
  <2>4. IsFiniteSet(seen) /\ seen \subseteq Conn
    BY <2>3, DocEditsT, FS_Subset
  <2>5. ASSUME NEW c \in seen PROVE f[c] \in Update
    <3>1. c.id \in Conns /\ c.last \in Nat
      BY <2>4 DEF Conn
    <3>2. bytes[c.id] \in Nat /\ Delta(c.last, bytes[c.id]) \in Nat
      BY <2>2, <3>1, DeltaT
    <3>3. f[c] = [conn |-> c.id, delta |-> Delta(c.last, bytes[c.id]), curr |-> bytes[c.id]]
      OBVIOUS
    <3> HIDE DEF f, seen
    <3> QED
      BY <3>1, <3>2, <3>3 DEF Update
  <2>6. got' = [got EXCEPT ![Cycle] = got[Cycle] \cup more]
    BY <2>1
  <2>7. DOMAIN f = seen /\ f = [c \in seen |-> f[c]]
    OBVIOUS
  <2> HIDE DEF f, seen
  <2>8. IsFiniteSet(more) /\ more \subseteq Update
    BY <2>4, <2>5, <2>7, ImageFinite
  <2> HIDE DEF more
  <2>9. got \in [Tasks -> SUBSET Update] /\ \A t \in Tasks : IsFiniteSet(got[t])
    BY DEF TypeInv, GotT
  <2>10. IsFiniteSet(got[Cycle] \cup more)
    BY <2>8, <2>9, FS_Union
  <2> QED
    BY <2>6, <2>8, <2>9, <2>10 DEF GotT
<1>4. StageT'
  BY <1>1, <1>2 DEF TypeInv, StageT
<1>5. DocT(store)' /\ PeersT' /\ WorldT' /\ DataT' /\ PageT' /\ TodoT' /\ GoalT' /\ GhostT'
  BY <1>1 DEF TypeInv, PeersT, WorldT, DataT, PageT, TodoT, GoalT, GhostT, DocT, OpT,
              servers, world, ghosts
<1> QED
  BY <1>3, <1>4, <1>5 DEF TypeInv

LEMMA StartCycleT ==
    ASSUME TypeInv, StartCycle
    PROVE  TypeInv'
<1>1. /\ pc' = [pc EXCEPT ![Cycle] = "scrape"] /\ data' = [data EXCEPT ![Cycle] = store]
      /\ visit' = [visit EXCEPT ![Cycle] = {At[c.id] : c \in store.conns}]
      /\ UNCHANGED <<store, servers, world, got, page, todo, goal, ghosts>>
  BY DEF StartCycle
<1>2. DocT(store) /\ {At[c.id] : c \in store.conns} \subseteq Servers
  <2>1. \A c \in store.conns : c.id \in Conns
    BY DocEditsT DEF TypeInv, Conn
  <2> QED
    BY <2>1 DEF TypeInv
<1>3. DataT'
  BY <1>1, <1>2, CopiesT
<1>4. StageT'
  BY <1>1, <1>2 DEF TypeInv, StageT, Stages
<1> QED
  BY <1>1, <1>3, <1>4 DEF TypeInv, PeersT, WorldT, GotT, PageT, TodoT, GoalT, GhostT, DocT, OpT,
              servers, world, ghosts

LEMMA ApplyUpdatesT ==
    ASSUME TypeInv, ApplyUpdates
    PROVE  TypeInv'
<1> DEFINE d == IF got[Cycle] = {} THEN store ELSE Charged(store, got[Cycle])
           out == ToDisable(d, got[Cycle])
<1>1. /\ store' = d /\ got' = [got EXCEPT ![Cycle] = {}] /\ visit' = visit
      /\ UNCHANGED <<servers, world, page, ghosts>>
  BY DEF ApplyUpdates
<1>2. \/ /\ StartMass(Cycle, d, {}, out \X {FALSE}, {}, "remnawave")
         /\ data' = [data EXCEPT ![Cycle] = NoDoc]
      \/ Continue(Cycle, "remnawave", d) /\ UNCHANGED <<todo, goal>>
  BY DEF ApplyUpdates
<1>3. DocT(d)
  <2>1. /\ DocT(store) /\ day \in Days /\ got[Cycle] \in SUBSET Update
        /\ IsFiniteSet(got[Cycle])
    BY DEF TypeInv, WorldT, GotT
  <2>2. DocT(Charged(store, got[Cycle]))
    BY <2>1, ChargedT
  <2> QED
    BY <2>1, <2>2
<1>4. out \X {FALSE} \in SUBSET (Ids \X BOOLEAN)
  <2> HIDE DEF d
  <2>1. \A u \in d.users : u.id \in Ids
    BY <1>3, DocEditsT DEF User
  <2> QED
    BY <2>1 DEF ToDisable
<1> HIDE DEF d, out
<1>5. TodoT' /\ GoalT' /\ StageT' /\ DataT'
  <2>1. CASE /\ StartMass(Cycle, d, {}, out \X {FALSE}, {}, "remnawave")
             /\ data' = [data EXCEPT ![Cycle] = NoDoc]
    <3>1. TodoT' /\ GoalT' /\ StageT'
      BY <1>1, <1>3, <1>4, <2>1, StartMassT
    <3>2. DataT'
      BY <2>1, NoDocT, CopiesT
    <3> QED
      BY <3>1, <3>2
  <2>2. CASE Continue(Cycle, "remnawave", d) /\ UNCHANGED <<todo, goal>>
    <3>1. DataT' /\ StageT'
      BY <1>1, <1>3, <2>2, ContinueT
    <3>2. TodoT' /\ GoalT'
      BY <2>2 DEF TypeInv, TodoT, GoalT, OpT
    <3> QED
      BY <3>1, <3>2
  <2> QED
    BY <1>2, <2>1, <2>2
<1>6. GotT'
  BY <1>1, FS_EmptySet DEF TypeInv, GotT
<1>7. PeersT' /\ WorldT' /\ PageT' /\ GhostT'
  BY <1>1 DEF TypeInv, PeersT, WorldT, PageT, GhostT, servers, world, ghosts
<1> QED
  BY <1>1, <1>3, <1>5, <1>6, <1>7 DEF TypeInv, DocT

LEMMA FetchT ==
    ASSUME TypeInv, NEW t \in Tasks, FetchPages(t) \/ FetchFails(t)
    PROVE  TypeInv'
<1>1. data' = [data EXCEPT ![t] = NoDoc] /\ visit' = visit
      /\ UNCHANGED <<store, servers, world, got, ghosts>>
  BY DEF FetchPages, FetchFails
<1>2. DataT'
  BY <1>1, NoDocT, CopiesT
<1>3. DocT(store)' /\ PeersT' /\ WorldT' /\ GotT' /\ GhostT'
  BY <1>1 DEF TypeInv, PeersT, WorldT, GotT, GhostT, DocT, servers, world, ghosts
<1>4. CASE FetchPages(t)
  <2> DEFINE gone == {u.id : u \in {v \in data[t].users : v.linked /\ v.name \notin DOMAIN accounts}}
  <2>1. page' = [page EXCEPT ![t] = accounts]
    BY <1>4 DEF FetchPages
  <2>2. PageT'
    BY <2>1 DEF TypeInv, PageT, WorldT
  <2>3. \/ StartMass(t, store, gone, {}, {}, "users")
        \/ pc' = [pc EXCEPT ![t] = "users"] /\ UNCHANGED <<todo, goal>>
    BY <1>4 DEF FetchPages
  <2>4. gone \in SUBSET Ids
    <3>1. \A u \in data[t].users : u.id \in Ids
      BY DocEditsT DEF TypeInv, DataT, User
    <3> QED
      BY <3>1
  <2>5. TodoT' /\ GoalT' /\ StageT'
    <3> HIDE DEF gone
    <3>1. CASE StartMass(t, store, gone, {}, {}, "users")
      BY <1>1, <2>4, <3>1, StartMassT DEF TypeInv
    <3>2. CASE pc' = [pc EXCEPT ![t] = "users"] /\ UNCHANGED <<todo, goal>>
      <4>1. StageT'
        BY <1>1, <3>2, StagesT DEF Stages
      <4>2. TodoT' /\ GoalT'
        BY <3>2 DEF TypeInv, TodoT, GoalT, OpT
      <4> QED
        BY <4>1, <4>2
    <3> QED
      BY <2>3, <3>1, <3>2
  <2> QED
    BY <1>2, <1>3, <2>2, <2>5 DEF TypeInv
<1>5. CASE FetchFails(t)
  <2>1. pc' = [pc EXCEPT ![t] = "idle"] /\ UNCHANGED <<page, todo, goal>>
    BY <1>5 DEF FetchFails
  <2>2. StageT'
    BY <1>1, <2>1, StagesT DEF Stages
  <2>3. PageT' /\ TodoT' /\ GoalT'
    BY <2>1 DEF TypeInv, PageT, TodoT, GoalT, OpT
  <2> QED
    BY <1>2, <1>3, <2>2, <2>3 DEF TypeInv
<1> QED
  BY <1>4, <1>5

LEMMA SyncUsersT ==
    ASSUME TypeInv, NEW t \in Tasks, SyncUsers(t)
    PROVE  TypeInv'
<1> DEFINE there == DOMAIN page[t]
           new == {a \in there : Named(store, a) = {}}
           known == {u \in store.users : u.name \in there}
           set == {<<u.id, page[t][u.name]>> : u \in {v \in known : v.on # page[t][v.name]}}
<1>1. PICK f \in [new -> Ids \ issued] :
        /\ store' = [store EXCEPT !.users =
                (@ \ known) \cup {[u EXCEPT !.linked = TRUE] : u \in known}
                \cup {[id |-> f[a], name |-> a, linked |-> TRUE, on |-> page[t][a],
                       limit |-> 0, used |-> 0, total |-> 0, since |-> day] : a \in new}]
        /\ issued' = issued \cup {f[a] : a \in new}
        /\ \/ StartMass(t, store', {}, set, {f[a] : a \in new}, "end")
           \/ pc' = [pc EXCEPT ![t] = "idle"] /\ UNCHANGED <<todo, goal>>
  BY DEF SyncUsers
<1>2. /\ page' = [page EXCEPT ![t] = <<>>] /\ visit' = visit
      /\ UNCHANGED <<servers, world, data, got, owner, moved, torn>>
  BY DEF SyncUsers
<1> DEFINE made == {[id |-> f[a], name |-> a, linked |-> TRUE, on |-> page[t][a],
                     limit |-> 0, used |-> 0, total |-> 0, since |-> day] : a \in new}
           linked == {[u EXCEPT !.linked = TRUE] : u \in known}
           us == (store.users \ known) \cup linked \cup made
<1>3. there \subseteq Names /\ \A a \in there : page[t][a] \in BOOLEAN
  BY DEF TypeInv, PageT
<1>4. store.users \subseteq User /\ DocT(store) /\ day \in Days
  BY DocEditsT DEF TypeInv, WorldT
<1>5. \A a \in new : f[a] \in Ids
  OBVIOUS
<1>6. made \subseteq User
  <2> SUFFICES ASSUME NEW a \in new
               PROVE  [id |-> f[a], name |-> a, linked |-> TRUE, on |-> page[t][a],
                       limit |-> 0, used |-> 0, total |-> 0, since |-> day] \in User
    OBVIOUS
  <2>1. f[a] \in Ids /\ a \in Names /\ page[t][a] \in BOOLEAN
    BY <1>3, <1>5
  <2> HIDE DEF new
  <2> QED
    BY <1>4, <2>1 DEF User
<1>7. linked \subseteq User
  <2>1. \A u \in User : [u EXCEPT !.linked = TRUE] \in User
    BY DEF User
  <2> QED
    BY <1>4, <2>1
<1>8. us \in SUBSET User
  <2> HIDE DEF made, linked, known
  <2> QED
    BY <1>4, <1>6, <1>7
<1>9. DocT(store')
  <2>1. store' = [store EXCEPT !.users = us]
    BY <1>1
  <2> HIDE DEF us
  <2> QED
    BY <1>4, <1>8, <2>1, DocEditsT
<1>10. set \in SUBSET (Ids \X BOOLEAN)
  <2>1. \A u \in store.users : u.id \in Ids
    BY <1>4 DEF User
  <2> QED
    BY <1>3, <2>1
<1>11. {f[a] : a \in new} \in SUBSET Ids
  BY <1>5
<1> HIDE DEF set, new, known, there
<1>12. TodoT' /\ GoalT' /\ StageT'
  <2>1. CASE StartMass(t, store', {}, set, {f[a] : a \in new}, "end")
    BY <1>2, <1>9, <1>10, <1>11, <2>1, StartMassT
  <2>2. CASE pc' = [pc EXCEPT ![t] = "idle"] /\ UNCHANGED <<todo, goal>>
    <3>1. StageT'
      BY <1>2, <2>2, StagesT DEF Stages
    <3>2. TodoT' /\ GoalT'
      BY <2>2 DEF TypeInv, TodoT, GoalT, OpT
    <3> QED
      BY <3>1, <3>2
  <2> QED
    BY <1>1, <2>1, <2>2
<1>13. PageT'
  BY <1>2 DEF TypeInv, PageT
<1>14. GhostT'
  BY <1>1, <1>2, <1>11 DEF TypeInv, GhostT
<1>15. PeersT' /\ WorldT' /\ DataT' /\ GotT'
  BY <1>2 DEF TypeInv, PeersT, WorldT, DataT, GotT, DocT, servers, world
<1> QED
  BY <1>9, <1>12, <1>13, <1>14, <1>15 DEF TypeInv, DocT

LEMMA StartToggleT ==
    ASSUME TypeInv, NEW t \in Tasks, NEW d, DocT(d), NEW id, NEW on \in BOOLEAN,
           StartToggle(t, d, id, on)
    PROVE  DataT' /\ StageT'
<1> DEFINE us == {IF u.id = id THEN [u EXCEPT !.on = on] ELSE u : u \in d.users}
           cs == {c.id : c \in ConnsOf(d, id)}
<1>1. /\ data' = [data EXCEPT ![t] = [d EXCEPT !.users = us]]
      /\ visit' = [visit EXCEPT ![t] = cs] /\ pc' = [pc EXCEPT ![t] = "editing"]
  BY DEF StartToggle
<1>2. us \in SUBSET User
  <2>1. \A u \in User : [u EXCEPT !.on = on] \in User
    BY DEF User
  <2> QED
    BY <2>1, DocEditsT
<1>3. cs \subseteq Conns
  BY DocEditsT DEF ConnsOf, Conn
<1> HIDE DEF us, cs
<1>4. DataT'
  BY <1>1, <1>2, DocEditsT, CopiesT
<1>5. StageT'
  BY <1>1, <1>3 DEF TypeInv, StageT, Stages
<1> QED
  BY <1>4, <1>5

LEMMA EditT ==
    ASSUME TypeInv, NEW t \in Tasks,
           ToggleUser(t) \/ UpdateUser(t) \/ EditPeer(t) \/ SaveEdit(t)
    PROVE  TypeInv'
<1>1. UNCHANGED <<world, got, page, todo, goal>> /\ DocT(store)
  BY DEF ToggleUser, UpdateUser, EditPeer, SaveEdit, TypeInv
<1>2. WorldT' /\ GotT' /\ PageT' /\ TodoT' /\ GoalT'
  BY <1>1 DEF TypeInv, WorldT, GotT, PageT, TodoT, GoalT, OpT, world
<1>3. CASE ToggleUser(t)
  <2>1. UNCHANGED <<store, servers, ghosts>>
    BY <1>3 DEF ToggleUser
  <2>2. DataT' /\ StageT'
    BY <1>1, <1>3, StartToggleT DEF ToggleUser
  <2> QED
    BY <1>2, <2>1, <2>2 DEF TypeInv, PeersT, GhostT, DocT, servers, ghosts
<1>4. CASE UpdateUser(t)
  <2>1. UNCHANGED <<servers, ghosts>>
    BY <1>4 DEF UpdateUser
  <2>2. PICK u \in store.users, limit \in Limits :
          LET v == [u EXCEPT !.limit = limit]
              d == [store EXCEPT !.users = (store.users \ {u}) \cup {v}]
          IN  /\ store' = d
              /\ \/ StartToggle(t, d, u.id, TRUE)
                 \/ UNCHANGED <<pc, data, visit>>
    BY <1>4 DEF UpdateUser
  <2> DEFINE v == [u EXCEPT !.limit = limit]
             d == [store EXCEPT !.users = (store.users \ {u}) \cup {v}]
  <2>3. store.users \subseteq User
    BY <1>1, DocEditsT
  <2>4. v \in User
    BY <2>3 DEF User
  <2>5. store' = d /\ (StartToggle(t, d, u.id, TRUE) \/ UNCHANGED <<pc, data, visit>>)
    BY <2>2
  <2> HIDE DEF v
  <2>6. DocT(d)
    BY <1>1, <2>3, <2>4, DocEditsT
  <2> HIDE DEF d
  <2>7. DataT' /\ StageT'
    <3>1. CASE StartToggle(t, d, u.id, TRUE)
      BY <2>6, <3>1, StartToggleT
    <3>2. CASE UNCHANGED <<pc, data, visit>>
      BY <3>2 DEF TypeInv, DataT, StageT, DocT
    <3> QED
      BY <2>5, <3>1, <3>2
  <2> QED
    BY <1>2, <2>1, <2>5, <2>6, <2>7 DEF TypeInv, PeersT, GhostT, DocT, servers, ghosts
<1>5. CASE EditPeer(t)
  <2>1. PICK c \in visit[t], u \in data[t].users :
          /\ pc[t] = "editing" /\ visit' = [visit EXCEPT ![t] = @ \ {c}]
          /\ \/ SwitchPeer(c, u.on)
             \/ torn' = torn \cup {c} /\ UNCHANGED <<servers, owner, moved, issued>>
    BY <1>5 DEF EditPeer
  <2>2. UNCHANGED <<store, pc, data>>
    BY <1>5 DEF EditPeer
  <2>3. c \in Conns
    BY <2>1 DEF TypeInv, StageT
  <2>4. PeersT' /\ GhostT'
    <3>1. CASE SwitchPeer(c, u.on)
      BY <3>1, SwitchPeerT
    <3>2. CASE torn' = torn \cup {c} /\ UNCHANGED <<servers, owner, moved, issued>>
      BY <2>3, <3>2 DEF TypeInv, PeersT, GhostT, servers
    <3> QED
      BY <2>1, <3>1, <3>2
  <2>5. StageT'
    BY <2>1, <2>2 DEF TypeInv, StageT
  <2>6. DataT' /\ DocT(store)'
    BY <2>2 DEF TypeInv, DataT, DocT
  <2> QED
    BY <1>2, <2>4, <2>5, <2>6 DEF TypeInv
<1>6. CASE SaveEdit(t)
  <2>1. /\ store' = data[t] /\ data' = [data EXCEPT ![t] = NoDoc]
        /\ pc' = [pc EXCEPT ![t] = "idle"] /\ UNCHANGED <<servers, visit, ghosts>>
    BY <1>6 DEF SaveEdit
  <2>2. DocT(store')
    BY <2>1 DEF TypeInv, DataT
  <2>3. DataT' /\ StageT'
    BY <2>1, NoDocT, CopiesT, StagesT DEF Stages
  <2> QED
    BY <1>2, <2>1, <2>2, <2>3 DEF TypeInv, PeersT, GhostT, DocT, servers, ghosts
<1> QED
  BY <1>3, <1>4, <1>5, <1>6

LEMMA RequestT ==
    ASSUME TypeInv, NEW t \in Tasks, SyncNow(t) \/ SyncDelete(t)
    PROVE  TypeInv'
<1>1. UNCHANGED <<store, servers, world, visit, got, page, ghosts>> /\ DocT(store)
  BY DEF SyncNow, SyncDelete, TypeInv
<1>2. DocT(store)' /\ PeersT' /\ WorldT' /\ GotT' /\ PageT' /\ GhostT'
  BY <1>1 DEF TypeInv, PeersT, WorldT, GotT, PageT, GhostT, DocT, servers, world, ghosts
<1>3. CASE SyncNow(t)
  <2>1. /\ pc' = [pc EXCEPT ![t] = "fetch"] /\ data' = [data EXCEPT ![t] = store]
        /\ UNCHANGED <<todo, goal>>
    BY <1>3 DEF SyncNow
  <2>2. DataT' /\ StageT'
    BY <1>1, <2>1, CopiesT, StagesT DEF Stages
  <2>3. TodoT' /\ GoalT'
    BY <2>1 DEF TypeInv, TodoT, GoalT, OpT
  <2> QED
    BY <1>2, <2>2, <2>3 DEF TypeInv
<1>4. CASE SyncDelete(t)
  <2> DEFINE linked == {u.id : u \in {v \in store.users : v.linked}}
  <2>1. StartMass(t, store, linked, {}, {}, "end") /\ data' = data
    BY <1>4 DEF SyncDelete
  <2>2. linked \in SUBSET Ids
    BY <1>1, DocEditsT DEF User
  <2> HIDE DEF linked
  <2>3. TodoT' /\ GoalT' /\ StageT'
    BY <1>1, <2>1, <2>2, StartMassT
  <2>4. DataT'
    BY <2>1 DEF TypeInv, DataT, DocT
  <2> QED
    BY <1>2, <2>3, <2>4 DEF TypeInv
<1> QED
  BY <1>3, <1>4

LEMMA OutsideT ==
    ASSUME TypeInv, World \/ UNCHANGED vars
    PROVE  TypeInv'
<1>1. UNCHANGED <<store, peers, up, may, local, owner, issued, torn>>
  BY DEF World, Flow, Restart, NextDay, AccountChanges, vars, servers, world, ghosts
<1>2. DocT(store)' /\ DataT' /\ StageT' /\ GotT' /\ PageT' /\ TodoT' /\ GoalT'
  BY <1>1 DEF TypeInv, DataT, StageT, GotT, PageT, TodoT, GoalT, DocT, OpT, local
<1>3. PeersT'
  <2>1. meter' \in [Conns -> Nat]
    <3>1. meter \in [Conns -> Nat]
      BY DEF TypeInv, PeersT
    <3> QED
      BY <3>1 DEF World, Flow, Restart, NextDay, AccountChanges, vars, servers
  <2> QED
    BY <1>1, <2>1 DEF TypeInv, PeersT
<1>4. GhostT'
  <2>1. moved' \in [Ids -> Nat]
    <3>1. moved \in [Ids -> Nat]
      BY DEF TypeInv, GhostT
    <3> QED
      BY <3>1 DEF World, Flow, Restart, NextDay, AccountChanges, vars, ghosts
  <2> QED
    BY <1>1, <2>1 DEF TypeInv, GhostT
<1>5. WorldT'
  <2>1. day' \in Days
    BY DEF World, Flow, Restart, NextDay, AccountChanges, vars, world, TypeInv, WorldT
  <2>2. accounts' = accounts \/ \E names \in SUBSET Names : accounts' \in [names -> BOOLEAN]
    BY DEF World, Flow, Restart, NextDay, AccountChanges, vars, world
  <2>3. DOMAIN accounts' \subseteq Names /\ \A a \in DOMAIN accounts' : accounts'[a] \in BOOLEAN
    BY <2>2 DEF TypeInv, WorldT
  <2> QED
    BY <1>1, <2>1, <2>3 DEF TypeInv, WorldT
<1> QED
  BY <1>2, <1>3, <1>4, <1>5 DEF TypeInv

LEMMA NextT == TypeInv /\ [Next]_vars => TypeInv'
<1> SUFFICES ASSUME TypeInv, [Next]_vars PROVE TypeInv'
  OBVIOUS
<1>1. ASSUME NEW t \in Tasks, SyncStep(t) PROVE TypeInv'
  BY <1>1, FetchT, SyncUsersT, FinishMassT, MassT DEF SyncStep, MassStep
<1>2. CASE CycleStep
  BY <1>1, <1>2, StartCycleT, ApplyUpdatesT, ScrapeT DEF CycleStep
<1>3. ASSUME NEW t \in Tasks, RequestStep(t) PROVE TypeInv'
  BY <1>1, <1>3, RequestT, EditT DEF RequestStep
<1> QED
  BY <1>2, <1>3, OutsideT DEF Next

LEMMA SpecT == Spec => []TypeInv
BY InitT, NextT, PTL DEF Spec

\* Every variable has its type: counters stay numbers of bytes, no reading takes
\* a total below zero (_scrape_server_traffic).
THEOREM TrafficTypeOK == Spec => []TypeOK
<1>1. TypeInv => TypeOK
  BY DEF TypeInv, TypeOK, PeersT, WorldT, DataT, StageT, GotT, PageT, TodoT, GoalT, GhostT, DocT
<1> QED
  BY <1>1, SpecT, PTL

-----------------------------------------------------------------------------
(* Who owns a connection *)

\* A creation whose peer is there, and is still to be recorded.
Making(op) == op.kind = "create" /\ op.made
Pending == {c \in Conns : \E t \in Tasks, s \in Servers : \E op \in todo[t][s] :
                Making(op) /\ op.conn = c}

\* A document, stored or stale, names users and connections that were made.
Belongs(d, own, given, pend) ==
    /\ \A u \in d.users : u.id \in given
    /\ \A k \in d.conns : own[k.id] = k.user /\ k.id \notin pend
    /\ \A k, j \in d.conns : k.id = j.id => k = j

OpB(op, own, given) ==
    op.user \in given /\ (op.kind # "create" \/ op.made => own[op.conn] = op.user)

DocsB ==
    /\ Belongs(store, owner, issued, Pending)
    /\ \A t \in Tasks : Belongs(data[t], owner, issued, Pending)
OwnerB ==
    /\ \A c \in Conns : owner[c] = NoConn \/ owner[c] \in issued
    /\ \A c \in Conns : owner[c] = NoConn => meter[c] = 0 /\ c \notin peers
    /\ IsFiniteSet({c \in Conns : owner[c] # NoConn})
\* Readings are of connections that were recorded, one of each, on servers that
\* the cycle is done with.
GotB ==
    /\ \A x \in got[Cycle] :
        owner[x.conn] # NoConn /\ x.conn \notin Pending /\ At[x.conn] \notin visit[Cycle]
    /\ \A x, y \in got[Cycle] : x.conn = y.conn => x = y
    /\ pc[Cycle] # "scrape" => got[Cycle] = {} /\ visit[Cycle] = {}
TodoB ==
    /\ \A t \in Tasks, s \in Servers : \A op \in todo[t][s] : OpB(op, owner, issued)
    /\ \A t, r \in Tasks, s, q \in Servers : \A o \in todo[t][s], p \in todo[r][q] :
        Making(o) /\ Making(p) /\ o.conn = p.conn => t = r /\ s = q /\ o = p
EditB ==
    /\ pc[Cycle] # "editing"
    /\ "together" \notin may =>
        \A t, r \in Tasks : pc[t] = "editing" /\ pc[r] = "editing" => t = r

Owned == DocsB /\ OwnerB /\ GotB /\ TodoB /\ EditB

LEMMA NoDocB == ASSUME NEW own, NEW given, NEW pend PROVE Belongs(NoDoc, own, given, pend)
BY DEF Belongs, NoDoc

\* Users and connections are edited, not made.
LEMMA BelongsEdited ==
    ASSUME NEW d, NEW e, NEW own, NEW given, NEW pend, Belongs(d, own, given, pend),
           \A v \in e.users : \E u \in d.users : v.id = u.id,
           \A k \in e.conns : \E j \in d.conns : k.id = j.id /\ k.user = j.user,
           \A k, j \in e.conns : k.id = j.id => k = j
    PROVE  Belongs(e, own, given, pend)
BY DEF Belongs

LEMMA BelongsLater ==
    ASSUME NEW d, DocT(d), NEW own, NEW own2, NEW given, NEW given2, NEW pend, NEW pend2,
           Belongs(d, own, given, pend), given \subseteq given2,
           \A c \in Conns : own[c] \in Ids => own2[c] = own[c],
           \A c \in pend2 : c \in pend \/ own[c] = NoConn
    PROVE  Belongs(d, own2, given2, pend2)
<1>1. \A k \in d.conns : k.id \in Conns /\ k.user \in Ids
  BY DocEditsT DEF Conn
<1>2. \A u \in d.users : u.id \in given2
  BY DEF Belongs
<1>3. \A k \in d.conns : own2[k.id] = k.user /\ k.id \notin pend2
  BY <1>1 DEF Belongs
<1> QED
  BY <1>2, <1>3 DEF Belongs

LEMMA ChargedB ==
    ASSUME NEW d, NEW ups, NEW own, NEW given, NEW pend, Belongs(d, own, given, pend), DocT(d)
    PROVE  Belongs(Charged(d, ups), own, given, pend)
<1> DEFINE e == Charged(d, ups)
           f == [c \in d.conns |->
                 IF \E x \in ups : x.conn = c.id
                 THEN [c EXCEPT !.last = (CHOOSE x \in ups : x.conn = c.id).curr]
                 ELSE c]
<1>1. e.conns = {f[c] : c \in d.conns}
  BY DEF Charged
<1>2. \A c \in d.conns : f[c].id = c.id /\ f[c].user = c.user
  <2>1. d.conns \subseteq Conn
    BY DocEditsT
  <2> QED
    BY <2>1 DEF Conn
<1>3. \A v \in e.users : \E u \in d.users : v.id = u.id
  <2>1. d.users \subseteq User
    BY DocEditsT
  <2> QED
    BY <2>1 DEF Charged, User
<1> HIDE DEF e, f
<1>4. \A k \in e.conns : \E j \in d.conns : k.id = j.id /\ k.user = j.user
  BY <1>1, <1>2
<1>5. \A k, j \in e.conns : k.id = j.id => k = j
  BY <1>1, <1>2 DEF Belongs
<1> QED
  BY <1>3, <1>4, <1>5, BelongsEdited DEF e

LEMMA CleanedB ==
    ASSUME NEW d, NEW g, NEW own, NEW given, NEW pend, Belongs(d, own, given, pend), DocT(d)
    PROVE  Belongs(Cleaned(d, g), own, given, pend)
<1>1. d.users \subseteq User
  BY DocEditsT
<1>2. \A v \in Cleaned(d, g).users : \E u \in d.users : v.id = u.id
  BY <1>1 DEF Cleaned, User
<1>3. Cleaned(d, g).conns \subseteq d.conns
  BY DEF Cleaned
<1> QED
  BY <1>2, <1>3, BelongsEdited DEF Belongs

LEMMA UsersB ==
    ASSUME NEW d, DocT(d), NEW own, NEW given, NEW pend, Belongs(d, own, given, pend),
           NEW us, \A v \in us : \E u \in d.users : v.id = u.id
    PROVE  Belongs([d EXCEPT !.users = us], own, given, pend)
<1>1. [d EXCEPT !.users = us].users = us /\ [d EXCEPT !.users = us].conns = d.conns
  BY DEF DocT, Doc
<1> QED
  BY <1>1 DEF Belongs

\* What a task has left to do is part of what it had, or new and not made yet.
LEMMA OpsKept ==
    ASSUME Owned, owner' = owner, issued \subseteq issued',
           \A t \in Tasks, s \in Servers : \A op \in todo'[t][s] :
                op \in todo[t][s] \/ (OpB(op, owner, issued') /\ ~Making(op))
    PROVE  TodoB' /\ Pending' \subseteq Pending
<1>1. ASSUME NEW t \in Tasks, NEW s \in Servers, NEW op \in todo'[t][s]
      PROVE  OpB(op, owner', issued')
  BY DEF Owned, TodoB, OpB
<1>2. ASSUME NEW t \in Tasks, NEW s \in Servers, NEW op \in todo'[t][s], Making(op)
      PROVE  op \in todo[t][s]
  BY <1>2
<1>3. ASSUME NEW t \in Tasks, NEW r \in Tasks, NEW s \in Servers, NEW q \in Servers,
             NEW o \in todo'[t][s], NEW p \in todo'[r][q],
             Making(o), Making(p), o.conn = p.conn
      PROVE  t = r /\ s = q /\ o = p
  BY <1>2, <1>3 DEF Owned, TodoB
<1>4. TodoB'
  BY <1>1, <1>3 DEF TodoB, OpB, Making
<1>5. Pending' \subseteq Pending
  BY <1>2 DEF Pending, Making
<1> QED
  BY <1>4, <1>5

LEMMA GroupedB ==
    ASSUME NEW d, DocT(d), NEW own, NEW given, NEW pend, Belongs(d, own, given, pend),
           \A c \in Conns : own[c] = NoConn \/ own[c] \in given,
           NEW drop, NEW set, NEW create \in SUBSET given, NEW s \in Servers,
           NEW op \in Grouped(d, drop, set, create)[s]
    PROVE  OpB(op, own, given) /\ ~op.made
<1>1. \A k \in d.conns : own[k.id] = k.user /\ k.user \in given
  BY DocEditsT DEF Conn, Belongs
<1>2. \/ \E k \in d.conns : op = Todo("remove", k.user, k.id, FALSE)
      \/ \E k \in d.conns, w \in set : k.user = w[1] /\ op = Todo("toggle", w[1], k.id, w[2])
      \/ \E id \in create : op = Todo("create", id, NoConn, TRUE)
  BY DEF Grouped
<1>3. CASE \E k \in d.conns : op = Todo("remove", k.user, k.id, FALSE)
  BY <1>1, <1>3 DEF Todo, OpB
<1>4. CASE \E k \in d.conns, w \in set : k.user = w[1] /\ op = Todo("toggle", w[1], k.id, w[2])
  BY <1>1, <1>4 DEF Todo, OpB
<1>5. CASE \E id \in create : op = Todo("create", id, NoConn, TRUE)
  BY <1>5 DEF Todo, OpB
<1> QED
  BY <1>2, <1>3, <1>4, <1>5

LEMMA StartMassB ==
    ASSUME TypeInv, Owned, owner' = owner, issued \subseteq issued', NEW t \in Tasks,
           NEW d, DocT(d), Belongs(d, owner, issued', Pending), NEW drop, NEW set,
           NEW create \in SUBSET issued', NEW next, StartMass(t, d, drop, set, create, next)
    PROVE  TodoB' /\ Pending' \subseteq Pending
<1> DEFINE ops == Grouped(d, drop, set, create)
<1>1. todo' = [todo EXCEPT ![t] = ops]
  BY DEF StartMass
<1>2. ASSUME NEW s \in Servers, NEW op \in ops[s]
      PROVE  OpB(op, owner, issued') /\ ~Making(op)
  <2>1. \A c \in Conns : owner[c] = NoConn \/ owner[c] \in issued'
    BY DEF Owned, OwnerB
  <2>2. OpB(op, owner, issued') /\ ~op.made
    BY <2>1, GroupedB
  <2> QED
    BY <2>2 DEF Making
<1> HIDE DEF ops
<1>3. ASSUME NEW r \in Tasks, NEW s \in Servers, NEW op \in todo'[r][s]
      PROVE  op \in todo[r][s] \/ (OpB(op, owner, issued') /\ ~Making(op))
  <2>1. todo'[r] = todo[r] \/ todo'[r] = ops
    BY <1>1 DEF TypeInv, TodoT
  <2> QED
    BY <1>2, <1>3, <2>1
<1> QED
  BY <1>3, OpsKept

\* Documents change; a task takes a copy.
LEMMA DocsKept ==
    ASSUME TypeInv, Owned, owner' = owner, issued \subseteq issued', Pending' \subseteq Pending,
           \/ store' = store
           \/ DocT(store') /\ Belongs(store', owner, issued', Pending),
           \A t \in Tasks : \/ data'[t] = data[t]
                            \/ DocT(data'[t]) /\ Belongs(data'[t], owner, issued', Pending)
    PROVE  DocsB'
<1>1. ASSUME NEW d, DocT(d), Belongs(d, owner, issued, Pending) \/ Belongs(d, owner, issued', Pending)
      PROVE  Belongs(d, owner', issued', Pending')
  BY <1>1, BelongsLater
<1>2. DocT(store) /\ Belongs(store, owner, issued, Pending)
  BY DEF TypeInv, Owned, DocsB
<1>3. \A t \in Tasks : DocT(data[t]) /\ Belongs(data[t], owner, issued, Pending)
  BY DEF TypeInv, DataT, Owned, DocsB
<1>4. Belongs(store', owner', issued', Pending')
  BY <1>1, <1>2
<1>5. ASSUME NEW t \in Tasks PROVE Belongs(data'[t], owner', issued', Pending')
  BY <1>1, <1>3
<1> QED
  BY <1>4, <1>5 DEF DocsB, Belongs

LEMMA OwnerKept ==
    ASSUME Owned, owner' = owner, issued \subseteq issued',
           \A c \in Conns : owner[c] = NoConn => meter'[c] = 0 /\ c \notin peers'
    PROVE  OwnerB'
BY DEF Owned, OwnerB

LEMMA GotKept ==
    ASSUME Owned, owner' = owner, Pending' \subseteq Pending,
           got'[Cycle] \subseteq got[Cycle], visit'[Cycle] \subseteq visit[Cycle],
           pc'[Cycle] # "scrape" => got'[Cycle] = {} /\ visit'[Cycle] = {}
    PROVE  GotB'
BY DEF Owned, GotB

LEMMA EditKept ==
    ASSUME Owned, may' = may, \A t \in Tasks : pc'[t] = "editing" => pc[t] = "editing"
    PROVE  EditB'
BY DEF Owned, EditB

LEMMA InitB == Init => Owned
<1> SUFFICES ASSUME Init PROVE Owned
  OBVIOUS
<1>1. PICK x \in Scenes : store = x.doc
  BY DEF Init
<1>2. store \in Doc /\ IsFiniteSet(store.conns) /\ \A c, e \in store.conns : c.id = e.id => c = e
  BY <1>1
<1>3. \A c \in store.conns : c.id \in Conns /\ c.user \in Ids
  BY <1>2 DEF Doc, Conn
<1>4. /\ peers = {c.id : c \in store.conns} /\ meter = [c \in Conns |-> 0]
      /\ owner = [c \in Conns |-> IF c \in peers
                    THEN (CHOOSE y \in store.conns : y.id = c).user ELSE NoConn]
      /\ issued = UserIdsOf(store) \cup {c.user : c \in store.conns}
  BY DEF Init
<1>5. todo = [t \in Tasks |-> NoOps] /\ pc = [t \in Tasks |-> "idle"]
      /\ data = [t \in Tasks |-> NoDoc] /\ got = [t \in Tasks |-> {}]
      /\ visit = [t \in Tasks |-> {}]
  BY DEF Init
<1>6. Pending = {}
  BY <1>5 DEF Pending, NoOps
<1>7. \A k \in store.conns : owner[k.id] = k.user
  <2> SUFFICES ASSUME NEW k \in store.conns PROVE owner[k.id] = k.user
    OBVIOUS
  <2>1. k.id \in peers /\ k.id \in Conns
    BY <1>3, <1>4
  <2>2. owner[k.id] = (CHOOSE y \in store.conns : y.id = k.id).user
    BY <1>4, <2>1
  <2>3. (CHOOSE y \in store.conns : y.id = k.id) = k
    BY <1>2
  <2> QED
    BY <2>2, <2>3
<1>8. DocsB
  <2>1. Belongs(store, owner, issued, Pending)
    BY <1>2, <1>4, <1>6, <1>7 DEF Belongs, UserIdsOf
  <2>2. \A t \in Tasks : Belongs(data[t], owner, issued, Pending)
    BY <1>5, NoDocB
  <2> QED
    BY <2>1, <2>2 DEF DocsB
<1>9. \A c \in Conns : owner[c] = NoConn \/ (owner[c] \in Ids /\ c \in peers)
  <2> SUFFICES ASSUME NEW c \in Conns, c \in peers PROVE owner[c] \in Ids
    BY <1>4
  <2>1. PICK k \in store.conns : k.id = c
    BY <1>4
  <2> QED
    BY <1>3, <1>7, <2>1
<1>10. OwnerB
  <2>1. \A c \in Conns : owner[c] = NoConn => meter[c] = 0 /\ c \notin peers
    <3> SUFFICES ASSUME NEW c \in Conns, c \in peers PROVE owner[c] # NoConn
      BY <1>4
    <3>1. PICK k \in store.conns : k.id = c
      BY <1>4
    <3> QED
      BY <1>3, <1>7, <3>1
  <2>2. \A c \in Conns : owner[c] = NoConn \/ owner[c] \in issued
    <3> SUFFICES ASSUME NEW c \in Conns, c \in peers PROVE owner[c] \in issued
      BY <1>9
    <3>1. PICK k \in store.conns : k.id = c
      BY <1>4
    <3>2. owner[c] = k.user
      BY <1>7, <3>1
    <3>3. issued = UserIdsOf(store) \cup {y.user : y \in store.conns}
      BY <1>4
    <3>4. k.user \in issued
      BY <3>3
    <3> QED
      BY <3>2, <3>4
  <2>3. IsFiniteSet({c \in Conns : owner[c] # NoConn})
    <3> DEFINE f == [k \in store.conns |-> k.id]
    <3>1. DOMAIN f = store.conns /\ f = [k \in store.conns |-> f[k]]
      OBVIOUS
    <3>2. {f[k] : k \in store.conns} = {k.id : k \in store.conns}
      OBVIOUS
    <3>3. peers = {f[k] : k \in store.conns}
      BY <1>4, <3>2
    <3> HIDE DEF f
    <3>4. IsFiniteSet(peers)
      BY <1>2, <3>1, <3>3, ImageFinite
    <3>5. {c \in Conns : owner[c] # NoConn} \subseteq peers
      BY <1>9
    <3> QED
      BY <3>4, <3>5, FS_Subset
  <2> QED
    BY <2>1, <2>2, <2>3 DEF OwnerB
<1>11. GotB
  BY <1>5 DEF GotB
<1>12. TodoB
  BY <1>5 DEF TodoB, NoOps
<1>13. EditB
  BY <1>5 DEF EditB
<1> QED
  BY <1>8, <1>10, <1>11, <1>12, <1>13 DEF Owned

\* Nothing is left to do that was not, and who owns what does not change.
LEMMA OpsSame ==
    ASSUME Owned, owner' = owner, issued' = issued, todo' = todo
    PROVE  TodoB' /\ Pending' = Pending
BY DEF Owned, TodoB, Pending, OpB, Making

LEMMA StartCycleB ==
    ASSUME TypeInv, Owned, StartCycle
    PROVE  Owned'
<1>1. /\ pc[Cycle] = "idle" /\ pc' = [pc EXCEPT ![Cycle] = "scrape"]
      /\ data' = [data EXCEPT ![Cycle] = store]
      /\ UNCHANGED <<store, peers, meter, may, got, todo, owner, issued>>
  BY DEF StartCycle, servers, world, ghosts
<1>2. TodoB' /\ Pending' = Pending
  BY <1>1, OpsSame
<1>3. DocsB'
  <2>1. Belongs(store, owner, issued, Pending) /\ DocT(store)
    BY DEF Owned, DocsB, TypeInv
  <2>2. \A t \in Tasks : data'[t] = data[t] \/ data'[t] = store
    BY <1>1 DEF TypeInv, DataT
  <2> QED
    BY <1>1, <1>2, <2>1, <2>2, DocsKept
<1>4. OwnerB'
  BY <1>1, OwnerKept DEF Owned, OwnerB
<1>5. GotB'
  BY <1>1 DEF Owned, GotB, TypeInv, StageT
<1>6. EditB'
  BY <1>1, EditKept DEF TypeInv, StageT
<1> QED
  BY <1>2, <1>3, <1>4, <1>5, <1>6 DEF Owned

\* What may follow an operation on many users edits nobody.
LEMMA ContinueB ==
    ASSUME TypeInv, NEW t \in Tasks, NEW next, NEW d, Continue(t, next, d)
    PROVE  /\ \A r \in Tasks : pc'[r] = pc[r] \/ (r = t /\ pc'[r] \in {"fetch", "users", "idle"})
           /\ pc'[t] \in {"fetch", "users", "idle"}
           /\ \A r \in Tasks : data'[r] = data[r] \/ data'[r] = d \/ data'[r] = NoDoc
<1> DEFINE stage == CASE next = "remnawave" /\ "remnawave" \in may -> "fetch"
                      [] next = "users" -> "users"
                      [] OTHER -> "idle"
           e == IF next = "remnawave" THEN d ELSE NoDoc
<1>1. stage \in {"fetch", "users", "idle"}
  OBVIOUS
<1>2. pc' = [pc EXCEPT ![t] = stage] /\ data' = [data EXCEPT ![t] = e] /\ e \in {d, NoDoc}
  BY DEF Continue
<1> HIDE DEF stage, e
<1> QED
  BY <1>1, <1>2 DEF TypeInv, StageT, DataT

LEMMA ApplyUpdatesB ==
    ASSUME TypeInv, Owned, ApplyUpdates
    PROVE  Owned'
<1> DEFINE d == IF got[Cycle] = {} THEN store ELSE Charged(store, got[Cycle])
           out == ToDisable(d, got[Cycle])
<1>1. /\ store' = d /\ got' = [got EXCEPT ![Cycle] = {}] /\ visit[Cycle] = {}
      /\ pc[Cycle] = "scrape"
      /\ UNCHANGED <<peers, meter, may, visit, owner, issued>>
  BY DEF ApplyUpdates, servers, world, ghosts
<1>2. \/ /\ StartMass(Cycle, d, {}, out \X {FALSE}, {}, "remnawave")
         /\ data' = [data EXCEPT ![Cycle] = NoDoc]
      \/ Continue(Cycle, "remnawave", d) /\ UNCHANGED <<todo, goal>>
  BY DEF ApplyUpdates
<1>3. DocT(d) /\ Belongs(d, owner, issued, Pending)
  <2>1. /\ DocT(store) /\ day \in Days /\ got[Cycle] \in SUBSET Update
        /\ IsFiniteSet(got[Cycle]) /\ Belongs(store, owner, issued, Pending)
    BY DEF TypeInv, WorldT, GotT, Owned, DocsB
  <2>2. DocT(Charged(store, got[Cycle])) /\ Belongs(Charged(store, got[Cycle]), owner, issued, Pending)
    BY <2>1, ChargedT, ChargedB
  <2> QED
    BY <2>1, <2>2
<1> HIDE DEF d, out
<1>4. TodoB' /\ Pending' \subseteq Pending
  <2>1. CASE StartMass(Cycle, d, {}, out \X {FALSE}, {}, "remnawave")
    BY <1>1, <1>3, <2>1, StartMassB
  <2>2. CASE UNCHANGED <<todo, goal>>
    BY <1>1, <2>2, OpsSame
  <2> QED
    BY <1>2, <2>1, <2>2
<1>5. \A t \in Tasks : data'[t] = data[t] \/ data'[t] = d \/ data'[t] = NoDoc
  <2>1. data' = [data EXCEPT ![Cycle] = NoDoc] => \A t \in Tasks : data'[t] = data[t] \/ data'[t] = NoDoc
    BY DEF TypeInv, DataT
  <2> QED
    BY <1>2, <2>1, ContinueB
<1>6. DocsB'
  BY <1>1, <1>3, <1>4, <1>5, DocsKept, NoDocB, NoDocT
<1>7. OwnerB'
  BY <1>1, OwnerKept DEF Owned, OwnerB
<1>8. GotB'
  BY <1>1, <1>4 DEF Owned, GotB, TypeInv, GotT
<1>9. \A t \in Tasks : pc'[t] = pc[t] \/ pc'[t] # "editing"
  <2>1. pc' = [pc EXCEPT ![Cycle] = "mass"] => \A t \in Tasks : pc'[t] = pc[t] \/ pc'[t] # "editing"
    BY DEF TypeInv, StageT
  <2> QED
    BY <1>2, <2>1, ContinueB DEF StartMass
<1>10. EditB'
  BY <1>1, <1>9, EditKept
<1> QED
  BY <1>4, <1>6, <1>7, <1>8, <1>10 DEF Owned

LEMMA ScrapeB ==
    ASSUME TypeInv, Owned, NEW s \in Servers, Scrape(s) \/ ScrapeFails(s)
    PROVE  Owned'
<1>1. /\ pc[Cycle] = "scrape" /\ visit' = [visit EXCEPT ![Cycle] = @ \ {s}] /\ s \in visit[Cycle]
      /\ UNCHANGED <<store, peers, meter, may, pc, data, todo, owner, issued>>
  BY ScrapeReads DEF ReadFrom, servers, world, ghosts
<1>2. TodoB' /\ Pending' = Pending
  BY <1>1, OpsSame
<1>3. DocsB'
  BY <1>1, <1>2, DocsKept
<1>4. OwnerB'
  BY <1>1, OwnerKept DEF Owned, OwnerB
<1>5. visit'[Cycle] = visit[Cycle] \ {s}
  BY <1>1 DEF TypeInv, StageT
<1>6. GotB'
  <2>0. PICK clients \in SUBSET ClientsOn(s) : ReadFrom(s, clients)
    BY ScrapeReads
  <2>1. PICK bytes \in Readings :
          got' = [got EXCEPT ![Cycle] = @ \cup
              {[conn |-> c.id, delta |-> Delta(c.last, bytes[c.id]), curr |-> bytes[c.id]] :
                  c \in {x \in data[Cycle].conns : x.id \in clients}}]
    BY <2>0 DEF ReadFrom
  <2> DEFINE seen == {x \in data[Cycle].conns : x.id \in clients}
             f == [c \in seen |-> [conn |-> c.id, delta |-> Delta(c.last, bytes[c.id]),
                                   curr |-> bytes[c.id]]]
  <2>2. got'[Cycle] = got[Cycle] \cup {f[c] : c \in seen}
    BY <2>1 DEF TypeInv, GotT
  <2>3. \A c \in seen : /\ f[c].conn = c.id /\ c \in data[Cycle].conns
                         /\ At[c.id] = s /\ c.id \in peers
    BY DEF ClientsOn
  <2> HIDE DEF f, seen
  <2>4. Belongs(data[Cycle], owner, issued, Pending) /\ data[Cycle].conns \subseteq Conn
    BY DocEditsT DEF Owned, DocsB, TypeInv, DataT
  <2>5. ASSUME NEW x \in got'[Cycle]
        PROVE  owner[x.conn] # NoConn /\ x.conn \notin Pending /\ At[x.conn] \notin visit'[Cycle]
    <3>1. CASE x \in got[Cycle]
      BY <1>5, <3>1 DEF Owned, GotB
    <3>2. CASE \E c \in seen : x = f[c]
      <4>1. PICK c \in seen : x = f[c]
        BY <3>2
      <4>2. x.conn = c.id /\ c.id \in peers /\ c.id \in Conns /\ At[c.id] = s /\ c.id \notin Pending
        BY <2>3, <2>4, <4>1 DEF Conn, Belongs
      <4>3. owner[c.id] # NoConn
        BY <4>2 DEF Owned, OwnerB
      <4> QED
        BY <1>5, <4>2, <4>3
    <3> QED
      BY <2>2, <2>5, <3>1, <3>2
  <2>6. ASSUME NEW x \in got'[Cycle], NEW y \in got'[Cycle], x.conn = y.conn
        PROVE  x = y
    <3>1. \A z \in got[Cycle] : At[z.conn] # s
      BY <1>1 DEF Owned, GotB
    <3>2. CASE x \in got[Cycle] /\ y \in got[Cycle]
      BY <2>6, <3>2 DEF Owned, GotB
    <3>3. CASE x \in got[Cycle] /\ \E c \in seen : y = f[c]
      BY <2>3, <2>6, <3>1, <3>3
    <3>4. CASE y \in got[Cycle] /\ \E c \in seen : x = f[c]
      BY <2>3, <2>6, <3>1, <3>4
    <3>5. CASE (\E c \in seen : x = f[c]) /\ \E c \in seen : y = f[c]
      <4>1. PICK c \in seen, e \in seen : x = f[c] /\ y = f[e]
        BY <3>5
      <4>2. c.id = e.id
        BY <2>3, <2>6, <4>1
      <4>3. c = e
        BY <2>3, <2>4, <4>2 DEF Belongs
      <4> QED
        BY <4>1, <4>3
    <3> QED
      BY <2>2, <3>2, <3>3, <3>4, <3>5
  <2> QED
    BY <1>1, <1>2, <2>5, <2>6 DEF GotB
<1>7. EditB'
  BY <1>1, EditKept
<1> QED
  BY <1>2, <1>3, <1>4, <1>6, <1>7 DEF Owned

LEMMA SwitchedB ==
    ASSUME TypeInv, Owned, NEW c, NEW on, SwitchPeer(c, on)
    PROVE  OwnerB' /\ owner' = owner /\ issued' = issued
<1>1. meter' = [meter EXCEPT ![c] = 0] /\ UNCHANGED <<peers, owner, issued>>
  BY DEF SwitchPeer
<1>2. \A e \in Conns : meter'[e] = meter[e] \/ meter'[e] = 0
  BY <1>1 DEF TypeInv, PeersT
<1> QED
  BY <1>1, <1>2, OwnerKept DEF Owned, OwnerB

LEMMA CreatePeerB ==
    ASSUME TypeInv, Owned, NEW t \in Tasks, NEW s \in Servers, CreatePeer(t, s)
    PROVE  Owned'
<1>1. PICK op \in todo[t][s], c \in Conns :
        op.kind = "create" /\ NewPeer(c, op.user, s) /\ Did(t, s, op, c)
  BY DEF CreatePeer
<1>2. UNCHANGED <<store, may, pc, data, visit, got, meter, issued>>
  BY DEF CreatePeer, NewPeer, world
<1>3. owner[c] = NoConn /\ owner' = [owner EXCEPT ![c] = op.user] /\ peers' = peers \cup {c}
  BY <1>1 DEF NewPeer
<1>4. op.user \in issued /\ op.user \in Ids
  BY DEF Owned, TodoB, OpB, TypeInv, TodoT, Op
<1>5. /\ owner'[c] = op.user
      /\ \A e \in Conns : owner[e] \in Ids => owner'[e] = owner[e]
      /\ \A e \in Conns \ {c} : owner'[e] = owner[e]
  BY <1>3 DEF TypeInv, GhostT
<1> DEFINE done == [op EXCEPT !.conn = c, !.made = TRUE]
<1>6. \A r \in Tasks, q \in Servers : \A o \in todo'[r][q] :
        o \in todo[r][q] \/ (o = done /\ r = t /\ q = s)
  <2>1. todo' = [todo EXCEPT ![t][s] = (todo[t][s] \ {op}) \cup {done}]
    BY <1>1 DEF Did
  <2>2. todo \in [Tasks -> [Servers -> SUBSET Op]]
    BY DEF TypeInv, TodoT
  <2> HIDE DEF done
  <2> QED
    BY <2>1, <2>2
<1>7. done.conn = c /\ done.user = op.user /\ Making(done)
  BY <1>1 DEF TypeInv, TodoT, Op, Making
<1> HIDE DEF done
<1>8. \A r \in Tasks, q \in Servers : \A o \in todo[r][q] :
        (o.kind # "create" \/ o.made) => o.conn \in Conns \ {c} /\ owner[o.conn] = o.user
  BY <1>3 DEF TypeInv, TodoT, OpT, Op, Owned, TodoB, OpB
<1>9. \A e \in Pending' : e \in Pending \/ owner[e] = NoConn
  BY <1>3, <1>6, <1>7 DEF Pending, Making
<1>10. DocsB'
  <2>1. ASSUME NEW d, DocT(d), Belongs(d, owner, issued, Pending)
        PROVE  Belongs(d, owner', issued', Pending')
    BY <1>2, <1>5, <1>9, <2>1, BelongsLater
  <2>2. Belongs(store', owner', issued', Pending')
    BY <1>2, <2>1 DEF TypeInv, Owned, DocsB
  <2>3. \A r \in Tasks : Belongs(data'[r], owner', issued', Pending')
    BY <1>2, <2>1 DEF TypeInv, DataT, Owned, DocsB
  <2> QED
    BY <2>2, <2>3 DEF DocsB, Belongs
<1>11. OwnerB'
  <2>1. \A e \in Conns : owner'[e] = NoConn => owner[e] = NoConn /\ e # c
    BY <1>4, <1>5
  <2>2. {e \in Conns : owner'[e] # NoConn} \subseteq {e \in Conns : owner[e] # NoConn} \cup {c}
    BY <1>5
  <2>3. IsFiniteSet({e \in Conns : owner'[e] # NoConn})
    <3>1. IsFiniteSet({e \in Conns : owner[e] # NoConn} \cup {c})
      BY FS_AddElement DEF Owned, OwnerB
    <3> QED
      BY <2>2, <3>1, FS_Subset
  <2>4. \A e \in Conns : owner'[e] = NoConn \/ owner'[e] \in issued'
    BY <1>2, <1>4, <1>5 DEF Owned, OwnerB
  <2>5. \A e \in Conns : owner'[e] = NoConn => meter'[e] = 0 /\ e \notin peers'
    BY <1>2, <1>3, <2>1 DEF Owned, OwnerB
  <2> QED
    BY <2>3, <2>4, <2>5 DEF OwnerB
<1>12. GotB'
  <2>1. \A x \in got[Cycle] : x.conn \in Conns /\ x.conn # c
    BY <1>3 DEF Owned, GotB, TypeInv, GotT, Update
  <2>2. \A x \in got[Cycle] : owner'[x.conn] # NoConn /\ x.conn \notin Pending'
    BY <1>5, <1>9, <2>1 DEF Owned, GotB
  <2> QED
    BY <1>2, <2>2 DEF Owned, GotB
<1>13. TodoB'
  <2>1. ASSUME NEW r \in Tasks, NEW q \in Servers, NEW o \in todo'[r][q]
        PROVE  OpB(o, owner', issued')
    <3>1. CASE o \in todo[r][q]
      BY <1>2, <1>5, <1>8, <3>1 DEF Owned, TodoB, OpB
    <3>2. CASE o = done
      BY <1>2, <1>4, <1>5, <1>7, <3>2 DEF OpB
    <3> QED
      BY <1>6, <2>1, <3>1, <3>2
  <2>2. ASSUME NEW r \in Tasks, NEW z \in Tasks, NEW q \in Servers, NEW y \in Servers,
               NEW o \in todo'[r][q], NEW p \in todo'[z][y],
               Making(o), Making(p), o.conn = p.conn
        PROVE  r = z /\ q = y /\ o = p
    <3>1. CASE o \in todo[r][q] /\ p \in todo[z][y]
      BY <2>2, <3>1 DEF Owned, TodoB
    <3>2. CASE o = done /\ p = done
      BY <1>6, <1>7, <1>8, <2>2, <3>2 DEF Making
    <3>3. CASE o = done /\ p \in todo[z][y]
      BY <1>7, <1>8, <2>2, <3>3 DEF Making
    <3>4. CASE o \in todo[r][q] /\ p = done
      BY <1>7, <1>8, <2>2, <3>4 DEF Making
    <3> QED
      BY <1>6, <2>2, <3>1, <3>2, <3>3, <3>4
  <2> QED
    BY <2>1, <2>2 DEF TodoB, OpB, Making
<1>14. EditB'
  BY <1>2, EditKept
<1> QED
  BY <1>10, <1>11, <1>12, <1>13, <1>14 DEF Owned

\* The operations but for the creation of a peer.
LEMMA DidB ==
    ASSUME TypeInv, Owned, owner' = owner, issued' = issued,
           NEW t \in Tasks, NEW s \in Servers, NEW op \in todo[t][s],
           op.kind # "create", Did(t, s, op, op.conn)
    PROVE  TodoB' /\ Pending' \subseteq Pending
<1> DEFINE done == [op EXCEPT !.conn = op.conn, !.made = TRUE]
<1>1. todo \in [Tasks -> [Servers -> SUBSET Op]] /\ op \in Op
  BY DEF TypeInv, TodoT
<1>2. done.kind = op.kind /\ done.conn = op.conn /\ done.user = op.user
  BY <1>1 DEF Op
<1>3. OpB(done, owner, issued) /\ ~Making(done)
  <2>1. OpB(op, owner, issued)
    BY DEF Owned, TodoB
  <2> HIDE DEF done
  <2> QED
    BY <1>2, <2>1 DEF OpB, Making
<1>4. todo' = [todo EXCEPT ![t][s] = (todo[t][s] \ {op}) \cup {done}]
  BY DEF Did
<1> HIDE DEF done
<1>5. \A r \in Tasks, q \in Servers : \A o \in todo'[r][q] : o \in todo[r][q] \/ o = done
  BY <1>1, <1>4
<1> QED
  BY <1>3, <1>5, OpsKept

LEMMA FewerB ==
    ASSUME TypeInv, Owned, owner' = owner, issued' = issued,
           NEW t \in Tasks, NEW s \in Servers, NEW ops \in SUBSET todo[t][s],
           todo' = [todo EXCEPT ![t][s] = ops]
    PROVE  TodoB' /\ Pending' \subseteq Pending
<1>1. \A r \in Tasks, q \in Servers : \A o \in todo'[r][q] : o \in todo[r][q]
  BY DEF TypeInv, TodoT
<1> QED
  BY <1>1, OpsKept

LEMMA PeersB ==
    ASSUME TypeInv, Owned, NEW t \in Tasks, NEW s \in Servers,
           RemovePeer(t, s) \/ TogglePeer(t, s) \/ BreakServer(t, s)
    PROVE  Owned'
<1>1. UNCHANGED <<store, may, pc, data, visit, got, owner, issued>>
  BY DEF RemovePeer, TogglePeer, BreakServer, SwitchPeer, world, ghosts
<1>2. CASE RemovePeer(t, s)
  <2>1. PICK op \in todo[t][s] : /\ op.kind = "remove" /\ Did(t, s, op, op.conn)
                                 /\ peers' = peers \ {op.conn} /\ meter' = meter
    BY <1>2 DEF RemovePeer
  <2>2. TodoB' /\ Pending' \subseteq Pending
    <3>1. op.kind # "create" /\ Did(t, s, op, op.conn)
      BY <2>1
    <3> QED
      BY <1>1, <3>1, DidB
  <2>3. OwnerB'
    BY <1>1, <2>1, OwnerKept DEF Owned, OwnerB
  <2> QED
    BY <1>1, <2>2, <2>3, DocsKept, GotKept, EditKept DEF Owned, GotB
<1>3. CASE TogglePeer(t, s)
  <2>1. PICK op \in todo[t][s] : /\ op.kind = "toggle" /\ Did(t, s, op, op.conn)
                                 /\ SwitchPeer(op.conn, op.on)
    BY <1>3 DEF TogglePeer
  <2>2. TodoB' /\ Pending' \subseteq Pending
    <3>1. op.kind # "create" /\ Did(t, s, op, op.conn)
      BY <2>1
    <3> QED
      BY <1>1, <3>1, DidB
  <2>3. OwnerB'
    BY <2>1, SwitchedB
  <2> QED
    BY <1>1, <2>2, <2>3, DocsKept, GotKept, EditKept DEF Owned, GotB
<1>4. CASE BreakServer(t, s)
  <2>1. todo' = [todo EXCEPT ![t][s] = {}] /\ UNCHANGED <<peers, meter>>
    BY <1>4 DEF BreakServer, servers
  <2>2. TodoB' /\ Pending' \subseteq Pending
    <3>1. {} \in SUBSET todo[t][s]
      OBVIOUS
    <3> QED
      BY <1>1, <2>1, <3>1, FewerB
  <2>3. OwnerB'
    BY <1>1, <2>1, OwnerKept DEF Owned, OwnerB
  <2> QED
    BY <1>1, <2>2, <2>3, DocsKept, GotKept, EditKept DEF Owned, GotB
<1> QED
  BY <1>2, <1>3, <1>4

LEMMA RecordOpB ==
    ASSUME TypeInv, Owned, NEW t \in Tasks, NEW s \in Servers, RecordOp(t, s)
    PROVE  Owned'
<1>1. PICK op \in todo[t][s] : /\ op.made /\ store' = Recorded(store, op)
                               /\ todo' = [todo EXCEPT ![t][s] = todo[t][s] \ {op}]
  BY DEF RecordOp
<1>2. UNCHANGED <<peers, meter, may, pc, data, visit, got, owner, issued>>
  BY DEF RecordOp, servers, world, ghosts
<1>3. TodoB' /\ Pending' \subseteq Pending
  <2>1. todo[t][s] \ {op} \in SUBSET todo[t][s]
    OBVIOUS
  <2> QED
    BY <1>1, <1>2, <2>1, FewerB
<1>4. Belongs(store, owner, issued, Pending) /\ DocT(store)
  BY DEF Owned, DocsB, TypeInv
<1>5. Belongs(store', owner', issued', Pending')
  <2>1. Belongs(store, owner', issued', Pending')
    BY <1>2, <1>3, <1>4 DEF Belongs
  <2>2. CASE op.kind = "create"
    <3> DEFINE k == [id |-> op.conn, user |-> op.user, last |-> 0]
    <3>1. store'.conns = store.conns \cup {k} /\ store'.users = store.users
      BY <1>1, <1>4, <2>2 DEF Recorded, DocT, Doc
    <3>2. k.id = op.conn /\ k.user = op.user
      OBVIOUS
    <3> HIDE DEF k
    <3>3. owner'[op.conn] = op.user /\ op.conn \in Conns
      BY <1>1, <1>2 DEF Owned, TodoB, OpB, TypeInv, TodoT, OpT
    <3>4. op.conn \in Pending /\ op.conn \notin Pending'
      <4>1. Making(op)
        BY <1>1, <2>2 DEF Making
      <4>2. op.conn \in Pending
        BY <3>3, <4>1 DEF Pending
      <4>3. \A r \in Tasks, q \in Servers : \A o \in todo'[r][q] :
              o \in todo[r][q] /\ ~(r = t /\ q = s /\ o = op)
        BY <1>1 DEF TypeInv, TodoT
      <4>4. \A r \in Tasks, q \in Servers : \A o \in todo'[r][q] : ~(Making(o) /\ o.conn = op.conn)
        BY <4>1, <4>3 DEF Owned, TodoB
      <4> QED
        BY <4>2, <4>4 DEF Pending, Making
    <3>5. \A j \in store.conns : j.id # k.id
      BY <1>4, <3>2, <3>4 DEF Belongs
    <3> QED
      BY <2>1, <3>1, <3>2, <3>3, <3>4, <3>5 DEF Belongs
  <2>3. CASE op.kind # "create"
    <3>1. store'.conns \subseteq store.conns /\ store'.users = store.users
      BY <1>1, <1>4, <2>3 DEF Recorded, DocT, Doc
    <3> QED
      BY <2>1, <3>1 DEF Belongs
  <2> QED
    BY <2>2, <2>3
<1>6. \A r \in Tasks : Belongs(data'[r], owner', issued', Pending')
  BY <1>2, <1>3 DEF Owned, DocsB, Belongs
<1>7. DocsB'
  BY <1>5, <1>6 DEF DocsB, Belongs
<1>8. OwnerB'
  BY <1>2, OwnerKept DEF Owned, OwnerB
<1> QED
  BY <1>2, <1>3, <1>7, <1>8, GotKept, EditKept DEF Owned, GotB

LEMMA FinishMassB ==
    ASSUME TypeInv, Owned, NEW t \in Tasks, FinishMass(t)
    PROVE  Owned'
<1>1. /\ pc[t] = "mass" /\ store' = Cleaned(store, goal[t]) /\ Continue(t, goal[t].next, store')
      /\ UNCHANGED <<peers, meter, may, visit, got, todo, owner, issued>>
  BY DEF FinishMass, servers, world, ghosts
<1>2. TodoB' /\ Pending' = Pending
  BY <1>1, OpsSame
<1>3. DocT(store') /\ Belongs(store', owner, issued, Pending)
  BY <1>1, CleanedT, CleanedB DEF TypeInv, Owned, DocsB
<1>4. DocsB'
  <2>1. \A r \in Tasks : data'[r] = data[r] \/ data'[r] = store' \/ data'[r] = NoDoc
    BY <1>1, ContinueB
  <2> QED
    BY <1>1, <1>2, <1>3, <2>1, DocsKept, NoDocB, NoDocT
<1>5. OwnerB'
  BY <1>1, OwnerKept DEF Owned, OwnerB
<1>6. /\ \A r \in Tasks : pc'[r] = "editing" => pc[r] = "editing"
      /\ pc'[Cycle] # "scrape" => pc[Cycle] # "scrape"
  BY <1>1, ContinueB
<1>7. GotB'
  BY <1>1, <1>2, <1>6, GotKept DEF Owned, GotB
<1> QED
  BY <1>1, <1>2, <1>4, <1>5, <1>6, <1>7, EditKept DEF Owned

LEMMA FetchB ==
    ASSUME TypeInv, Owned, NEW t \in Tasks, FetchPages(t) \/ FetchFails(t)
    PROVE  Owned'
<1> DEFINE gone == {u.id : u \in {v \in data[t].users : v.linked /\ v.name \notin DOMAIN accounts}}
<1>1. /\ pc[t] = "fetch" /\ data' = [data EXCEPT ![t] = NoDoc]
      /\ UNCHANGED <<store, peers, meter, may, visit, got, owner, issued>>
  BY DEF FetchPages, FetchFails, servers, world, ghosts
<1>2. \/ StartMass(t, store, gone, {}, {}, "users")
      \/ (pc' = [pc EXCEPT ![t] = "users"] \/ pc' = [pc EXCEPT ![t] = "idle"]) /\ todo' = todo
  BY DEF FetchPages, FetchFails
<1> HIDE DEF gone
<1>3. DocT(store) /\ Belongs(store, owner, issued, Pending)
  BY DEF TypeInv, Owned, DocsB
<1>4. TodoB' /\ Pending' \subseteq Pending
  <2>1. CASE StartMass(t, store, gone, {}, {}, "users")
    <3>1. {} \in SUBSET issued' /\ Belongs(store, owner, issued', Pending)
      BY <1>1, <1>3
    <3> QED
      BY <1>1, <1>3, <2>1, <3>1, StartMassB
  <2> QED
    BY <1>1, <1>2, <2>1, OpsSame
<1>5. DocsB'
  <2>1. \A r \in Tasks : data'[r] = data[r] \/ data'[r] = NoDoc
    BY <1>1 DEF TypeInv, DataT
  <2> QED
    BY <1>1, <1>4, <2>1, DocsKept, NoDocB, NoDocT
<1>6. OwnerB'
  BY <1>1, OwnerKept DEF Owned, OwnerB
<1>7. \A r \in Tasks : (pc'[r] = "editing" => pc[r] = "editing")
                       /\ (pc'[r] # "scrape" => pc[r] # "scrape")
  <2>1. \E stage \in {"mass", "users", "idle"} : pc' = [pc EXCEPT ![t] = stage]
    BY <1>2 DEF StartMass
  <2> QED
    BY <1>1, <2>1 DEF TypeInv, StageT
<1>8. GotB'
  BY <1>1, <1>4, <1>7, GotKept DEF Owned, GotB
<1> QED
  BY <1>1, <1>4, <1>5, <1>6, <1>7, <1>8, EditKept DEF Owned

LEMMA SyncUsersB ==
    ASSUME TypeInv, TypeInv', Owned, NEW t \in Tasks, SyncUsers(t)
    PROVE  Owned'
<1> DEFINE there == DOMAIN page[t]
           new == {a \in there : Named(store, a) = {}}
           known == {u \in store.users : u.name \in there}
           set == {<<u.id, page[t][u.name]>> : u \in {v \in known : v.on # page[t][v.name]}}
<1>1. PICK f \in [new -> Ids \ issued] :
        /\ store' = [store EXCEPT !.users =
                (@ \ known) \cup {[u EXCEPT !.linked = TRUE] : u \in known}
                \cup {[id |-> f[a], name |-> a, linked |-> TRUE, on |-> page[t][a],
                       limit |-> 0, used |-> 0, total |-> 0, since |-> day] : a \in new}]
        /\ issued' = issued \cup {f[a] : a \in new}
        /\ \/ StartMass(t, store', {}, set, {f[a] : a \in new}, "end")
           \/ pc' = [pc EXCEPT ![t] = "idle"] /\ todo' = todo
  BY DEF SyncUsers
<1>2. /\ pc[t] = "users" /\ UNCHANGED <<peers, meter, may, data, visit, got, owner>>
  BY DEF SyncUsers, servers, world
<1> DEFINE made == {[id |-> f[a], name |-> a, linked |-> TRUE, on |-> page[t][a],
                     limit |-> 0, used |-> 0, total |-> 0, since |-> day] : a \in new}
           linked == {[u EXCEPT !.linked = TRUE] : u \in known}
           ids == {f[a] : a \in new}
<1>3. DocT(store) /\ Belongs(store, owner, issued, Pending) /\ store.users \subseteq User
  BY DocEditsT DEF TypeInv, Owned, DocsB
<1>4. store'.users = (store.users \ known) \cup linked \cup made /\ store'.conns = store.conns
  BY <1>1, <1>3 DEF DocT, Doc
<1>5. \A v \in linked : \E u \in store.users : v.id = u.id
  BY <1>3 DEF User
<1>6. \A v \in made : v.id \in ids
  OBVIOUS
<1>7. issued' = issued \cup ids
  BY <1>1
<1> HIDE DEF set, new, made, linked, known, there
<1>8. Belongs(store', owner, issued', Pending) /\ DocT(store')
  <2>1. \A v \in store'.users : v.id \in issued'
    BY <1>3, <1>4, <1>5, <1>6, <1>7 DEF Belongs
  <2>2. DocT(store')
    BY DEF TypeInv, DocT
  <2> QED
    BY <1>3, <1>4, <2>1, <2>2 DEF Belongs
<1>9. TodoB' /\ Pending' \subseteq Pending
  <2>1. CASE StartMass(t, store', {}, set, ids, "end")
    <3>1. ids \in SUBSET issued' /\ issued \subseteq issued'
      BY <1>7
    <3> HIDE DEF ids
    <3> QED
      BY <1>2, <1>8, <2>1, <3>1, StartMassB
  <2>2. CASE todo' = todo
    BY <1>2, <1>7, <2>2, OpsKept
  <2> QED
    BY <1>1, <2>1, <2>2
<1>10. DocsB'
  BY <1>2, <1>7, <1>8, <1>9, DocsKept
<1>11. OwnerB'
  BY <1>2, <1>7, OwnerKept DEF Owned, OwnerB
<1>12. \A r \in Tasks : (pc'[r] = "editing" => pc[r] = "editing")
                       /\ (pc'[r] # "scrape" => pc[r] # "scrape")
  <2>1. \E stage \in {"mass", "idle"} : pc' = [pc EXCEPT ![t] = stage]
    BY <1>1 DEF StartMass
  <2> QED
    BY <1>2, <2>1 DEF TypeInv, StageT
<1>13. GotB'
  BY <1>2, <1>9, <1>12, GotKept DEF Owned, GotB
<1> QED
  BY <1>2, <1>9, <1>10, <1>11, <1>12, <1>13, EditKept DEF Owned

LEMMA RequestB ==
    ASSUME TypeInv, Owned, NEW t \in Tasks, SyncNow(t) \/ SyncDelete(t)
    PROVE  Owned'
<1> DEFINE gone == {u.id : u \in {v \in store.users : v.linked}}
<1>1. /\ pc[t] = "idle"
      /\ UNCHANGED <<store, peers, meter, may, visit, got, owner, issued>>
  BY DEF SyncNow, SyncDelete, servers, world, ghosts
<1>2. \/ StartMass(t, store, gone, {}, {}, "end") /\ data' = data
      \/ /\ pc' = [pc EXCEPT ![t] = "fetch"] /\ todo' = todo
         /\ data' = [data EXCEPT ![t] = store]
  BY DEF SyncNow, SyncDelete
<1> HIDE DEF gone
<1>3. DocT(store) /\ Belongs(store, owner, issued, Pending)
  BY DEF TypeInv, Owned, DocsB
<1>4. TodoB' /\ Pending' \subseteq Pending
  <2>1. CASE StartMass(t, store, gone, {}, {}, "end")
    <3>1. {} \in SUBSET issued' /\ Belongs(store, owner, issued', Pending)
      BY <1>1, <1>3
    <3> QED
      BY <1>1, <1>3, <2>1, <3>1, StartMassB
  <2> QED
    BY <1>1, <1>2, <2>1, OpsSame
<1>5. DocsB'
  <2>1. \A r \in Tasks : data'[r] = data[r] \/ data'[r] = store
    BY <1>2 DEF TypeInv, DataT
  <2> QED
    BY <1>1, <1>3, <1>4, <2>1, DocsKept
<1>6. OwnerB'
  BY <1>1, OwnerKept DEF Owned, OwnerB
<1>7. \A r \in Tasks : (pc'[r] = "editing" => pc[r] = "editing")
                       /\ (pc'[r] # "scrape" => pc[r] # "scrape")
  <2>1. \E stage \in {"mass", "fetch"} : pc' = [pc EXCEPT ![t] = stage]
    BY <1>2 DEF StartMass
  <2> QED
    BY <1>1, <2>1 DEF TypeInv, StageT
<1>8. GotB'
  BY <1>1, <1>4, <1>7, GotKept DEF Owned, GotB
<1> QED
  BY <1>1, <1>4, <1>5, <1>6, <1>7, <1>8, EditKept DEF Owned

\* An edit starts: only this task's copy, stage and way change, and it is not
\* the cycle.
LEMMA StartToggleB ==
    ASSUME TypeInv, Owned, NEW t \in Tasks, t # Cycle, MayEdit, may' = may,
           NEW d, DocT(d), Belongs(d, owner, issued, Pending), NEW id, NEW on,
           StartToggle(t, d, id, on)
    PROVE  /\ EditB' /\ pc'[Cycle] = pc[Cycle] /\ visit'[Cycle] = visit[Cycle]
           /\ Belongs(data'[t], owner, issued, Pending)
           /\ \A r \in Tasks : r # t => data'[r] = data[r]
<1> DEFINE us == {IF u.id = id THEN [u EXCEPT !.on = on] ELSE u : u \in d.users}
<1>1. /\ data' = [data EXCEPT ![t] = [d EXCEPT !.users = us]]
      /\ pc' = [pc EXCEPT ![t] = "editing"]
      /\ \A r \in Tasks : r # t => visit'[r] = visit[r]
  BY DEF StartToggle, TypeInv, StageT
<1>2. \A v \in us : \E u \in d.users : v.id = u.id
  BY DocEditsT DEF User
<1> HIDE DEF us
<1>3. Belongs([d EXCEPT !.users = us], owner, issued, Pending)
  BY <1>2, UsersB
<1>4. /\ data'[t] = [d EXCEPT !.users = us] /\ \A r \in Tasks : r # t => data'[r] = data[r]
      /\ \A r \in Tasks : r # t => pc'[r] = pc[r]
  BY <1>1 DEF TypeInv, DataT, StageT
<1>5. EditB'
  BY <1>4 DEF MayEdit, Owned, EditB
<1> QED
  BY <1>1, <1>3, <1>4, <1>5

LEMMA EditUserB ==
    ASSUME TypeInv, TypeInv', Owned, NEW t \in Tasks, ToggleUser(t) \/ UpdateUser(t)
    PROVE  Owned'
<1>1. /\ t # Cycle /\ MayEdit
      /\ UNCHANGED <<peers, meter, may, got, todo, owner, issued>>
  BY DEF ToggleUser, UpdateUser, servers, world, ghosts
<1>2. DocT(store) /\ Belongs(store, owner, issued, Pending) /\ store.users \subseteq User
  BY DocEditsT DEF TypeInv, Owned, DocsB
<1>3. TodoB' /\ Pending' = Pending
  BY <1>1, OpsSame
<1>4. /\ DocT(store') /\ Belongs(store', owner, issued, Pending)
      /\ \/ \E id, on : StartToggle(t, store', id, on)
         \/ UNCHANGED <<pc, data, visit>>
  <2>1. CASE ToggleUser(t)
    BY <1>2, <2>1 DEF ToggleUser
  <2>2. CASE UpdateUser(t)
    <3>1. PICK u \in store.users, limit \in Limits :
            LET v == [u EXCEPT !.limit = limit]
                d == [store EXCEPT !.users = (store.users \ {u}) \cup {v}]
            IN  /\ store' = d
                /\ \/ StartToggle(t, d, u.id, TRUE)
                   \/ UNCHANGED <<pc, data, visit>>
      BY <2>2 DEF UpdateUser
    <3> DEFINE v == [u EXCEPT !.limit = limit]
               us == (store.users \ {u}) \cup {v}
               d == [store EXCEPT !.users = us]
    <3>2. v.id = u.id
      BY <1>2 DEF User
    <3>3. \A x \in us : \E y \in store.users : x.id = y.id
      BY <3>2
    <3> HIDE DEF v
    <3>4. store' = d /\ (StartToggle(t, d, u.id, TRUE) \/ UNCHANGED <<pc, data, visit>>)
      BY <3>1 DEF v
    <3> HIDE DEF us
    <3>5. Belongs(d, owner, issued, Pending)
      BY <1>2, <3>3, UsersB
    <3>6. DocT(store')
      BY DEF TypeInv, DocT
    <3> QED
      BY <3>4, <3>5, <3>6
  <2> QED
    BY <2>1, <2>2
<1>5. /\ EditB' /\ pc'[Cycle] = pc[Cycle] /\ visit'[Cycle] = visit[Cycle]
      /\ \A r \in Tasks : data'[r] = data[r] \/ Belongs(data'[r], owner, issued, Pending)
  <2>1. CASE \E id, on : StartToggle(t, store', id, on)
    BY <1>1, <1>4, <2>1, StartToggleB
  <2>2. CASE UNCHANGED <<pc, data, visit>>
    BY <1>1, <2>2, EditKept
  <2> QED
    BY <1>4, <2>1, <2>2
<1>6. DocsB'
  <2>1. \A r \in Tasks : DocT(data'[r])
    BY DEF TypeInv, DataT, DocT
  <2> QED
    BY <1>1, <1>3, <1>4, <1>5, <2>1, DocsKept
<1>7. OwnerB'
  BY <1>1, OwnerKept DEF Owned, OwnerB
<1>8. GotB'
  BY <1>1, <1>3, <1>5, GotKept DEF Owned, GotB
<1> QED
  BY <1>3, <1>5, <1>6, <1>7, <1>8 DEF Owned

LEMMA EditPeerB ==
    ASSUME TypeInv, Owned, NEW t \in Tasks, EditPeer(t)
    PROVE  Owned'
<1>1. PICK c \in visit[t], u \in data[t].users :
        /\ pc[t] = "editing" /\ visit' = [visit EXCEPT ![t] = @ \ {c}]
        /\ \/ SwitchPeer(c, u.on)
           \/ UNCHANGED <<servers, owner, issued>>
  BY DEF EditPeer
<1>2. UNCHANGED <<store, may, pc, data, got, todo>>
  BY DEF EditPeer, world
<1>3. OwnerB' /\ owner' = owner /\ issued' = issued
  <2>1. CASE SwitchPeer(c, u.on)
    BY <2>1, SwitchedB
  <2>2. CASE UNCHANGED <<servers, owner, issued>>
    BY <2>2, OwnerKept DEF servers, Owned, OwnerB
  <2> QED
    BY <1>1, <2>1, <2>2
<1>4. TodoB' /\ Pending' = Pending
  BY <1>2, <1>3, OpsSame
<1>5. t # Cycle /\ visit'[Cycle] = visit[Cycle]
  BY <1>1 DEF Owned, EditB, TypeInv, StageT
<1> QED
  BY <1>2, <1>3, <1>4, <1>5, DocsKept, GotKept, EditKept DEF Owned, GotB

LEMMA SaveEditB ==
    ASSUME TypeInv, Owned, NEW t \in Tasks, SaveEdit(t)
    PROVE  Owned'
<1>1. /\ pc[t] = "editing" /\ pc' = [pc EXCEPT ![t] = "idle"]
      /\ store' = data[t] /\ data' = [data EXCEPT ![t] = NoDoc]
      /\ UNCHANGED <<peers, meter, may, visit, got, todo, owner, issued>>
  BY DEF SaveEdit, servers, world, ghosts
<1>2. TodoB' /\ Pending' = Pending
  BY <1>1, OpsSame
<1>3. DocT(store') /\ Belongs(store', owner, issued, Pending)
  BY <1>1 DEF TypeInv, DataT, Owned, DocsB
<1>4. \A r \in Tasks : data'[r] = data[r] \/ data'[r] = NoDoc
  BY <1>1 DEF TypeInv, DataT
<1>5. DocsB'
  BY <1>1, <1>2, <1>3, <1>4, DocsKept, NoDocB, NoDocT
<1>6. OwnerB'
  BY <1>1, OwnerKept DEF Owned, OwnerB
<1>7. t # Cycle /\ pc'[Cycle] = pc[Cycle] /\ \A r \in Tasks : pc'[r] = "editing" => pc[r] = "editing"
  BY <1>1 DEF Owned, EditB, TypeInv, StageT
<1> QED
  BY <1>1, <1>2, <1>5, <1>6, <1>7, GotKept, EditKept DEF Owned, GotB

LEMMA OutsideB ==
    ASSUME TypeInv, Owned, World \/ UNCHANGED vars
    PROVE  Owned'
<1>1. UNCHANGED <<store, peers, up, may, local, owner, issued>>
  BY DEF World, Flow, Restart, NextDay, AccountChanges, vars, servers, world, ghosts
<1>2. UNCHANGED <<pc, data, visit, got, todo>>
  BY <1>1 DEF local
<1>3. \A c \in Conns : owner[c] = NoConn => meter'[c] = 0 /\ c \notin peers'
  <2>1. CASE \E c \in Conns : Flow(c)
    <3>1. PICK c \in Conns : c \in up /\ meter' = [meter EXCEPT ![c] = @ + 1]
      BY <2>1 DEF Flow
    <3>2. owner[c] # NoConn
      BY <3>1 DEF TypeInv, PeersT, Owned, OwnerB
    <3>3. \A e \in Conns : e # c => meter'[e] = meter[e]
      BY <3>1 DEF TypeInv, PeersT
    <3> QED
      BY <1>1, <3>2, <3>3 DEF Owned, OwnerB
  <2>2. CASE \E s \in Servers : Restart(s)
    BY <1>1, <2>2 DEF Restart, Owned, OwnerB
  <2>3. CASE UNCHANGED meter
    BY <1>1, <2>3 DEF Owned, OwnerB
  <2> QED
    BY <2>1, <2>2, <2>3 DEF World, NextDay, AccountChanges, vars, servers
<1>4. TodoB' /\ Pending' = Pending
  BY <1>1, <1>2, OpsSame
<1> QED
  BY <1>1, <1>2, <1>3, <1>4, OwnerKept, DocsKept, GotKept, EditKept DEF Owned, GotB

LEMMA NextB == TypeInv /\ TypeInv' /\ Owned /\ [Next]_vars => Owned'
<1> SUFFICES ASSUME TypeInv, TypeInv', Owned, [Next]_vars PROVE Owned'
  OBVIOUS
<1>1. ASSUME NEW t \in Tasks, MassStep(t) PROVE Owned'
  BY <1>1, FinishMassB, PeersB, CreatePeerB, RecordOpB DEF MassStep
<1>2. ASSUME NEW t \in Tasks, SyncStep(t) PROVE Owned'
  BY <1>1, <1>2, FetchB, SyncUsersB DEF SyncStep
<1>3. CASE CycleStep
  BY <1>2, <1>3, StartCycleB, ApplyUpdatesB, ScrapeB DEF CycleStep
<1>4. ASSUME NEW t \in Tasks, RequestStep(t) PROVE Owned'
  BY <1>2, <1>4, RequestB, EditUserB, EditPeerB, SaveEditB DEF RequestStep
<1> QED
  BY <1>3, <1>4, OutsideB DEF Next

LEMMA SpecB == Spec => [](TypeInv /\ Owned)
<1>1. TypeInv /\ Owned /\ [Next]_vars => (TypeInv /\ Owned)'
  BY NextT, NextB
<1> QED
  BY <1>1, InitT, InitB, PTL DEF Spec

-----------------------------------------------------------------------------
(* Who is disabled is cut off *)

Alone == may \cap {"edit", "now"} = {}
Cut == (Conns \ up) \cup torn

\* Whoever is disabled, and is not about to be enabled, is cut off already.
OffCut(d, set, cut) ==
    \A u \in d.users, k \in d.conns :
        k.user = u.id /\ ~u.on /\ <<u.id, TRUE>> \notin set => k.id \in cut
\* Whoever is to be disabled is cut off, or a switch is under way.
OnWay(d, set, cut, ops) ==
    \A k \in d.conns :
        <<k.user, FALSE>> \in set /\ <<k.user, TRUE>> \notin set =>
            \/ k.id \in cut
            \/ \E op \in ops[At[k.id]] : op.kind = "toggle" /\ op.conn = k.id /\ ~op.made
\* Switches are what was asked for; creations are for others, and a peer made for
\* a user who is disabled is known to be torn.
OpsCut(d, set, cut, ops) ==
    \A s \in Servers : \A op \in ops[s] :
        /\ op.kind = "toggle" => <<op.user, op.on>> \in set
        /\ op.kind = "create" =>
            /\ <<op.user, TRUE>> \notin set /\ <<op.user, FALSE>> \notin set
            /\ op.made => \A u \in d.users : u.id = op.user /\ ~u.on => op.conn \in cut

CycleOnly ==
    /\ \A t \in Tasks : t # Cycle => pc[t] = "idle"
    /\ pc[Cycle] # "mass" => goal[Cycle] = NoGoal /\ todo[Cycle] = NoOps
CutInv ==
    Alone =>
        /\ CycleOnly
        /\ OffCut(store, goal[Cycle].set, Cut)
        /\ OnWay(store, goal[Cycle].set, Cut, todo[Cycle])
        /\ OpsCut(store, goal[Cycle].set, Cut, todo[Cycle])

LEMMA OffCutEdited ==
    ASSUME NEW d, NEW e, NEW set, NEW cut, OffCut(d, set, cut),
           \A v \in e.users : \/ \E u \in d.users : v.id = u.id /\ (u.on => v.on)
                              \/ \A k \in e.conns : k.user # v.id,
           \A k \in e.conns : \E j \in d.conns : k.id = j.id /\ k.user = j.user
    PROVE  OffCut(e, set, cut)
<1> SUFFICES ASSUME NEW v \in e.users, NEW k \in e.conns,
                    k.user = v.id, ~v.on, <<v.id, TRUE>> \notin set
             PROVE  k.id \in cut
  BY DEF OffCut
<1>1. PICK u \in d.users : v.id = u.id /\ (u.on => v.on)
  OBVIOUS
<1>2. PICK j \in d.conns : k.id = j.id /\ k.user = j.user
  OBVIOUS
<1>3. j.user = u.id /\ ~u.on /\ <<u.id, TRUE>> \notin set
  BY <1>1, <1>2
<1> QED
  BY <1>2, <1>3 DEF OffCut

LEMMA InitCut == Init => CutInv
<1> SUFFICES ASSUME Init PROVE CutInv
  OBVIOUS
<1>1. PICK x \in Scenes : store = x.doc
  BY DEF Init
<1>2. \A u, v \in store.users : u.id = v.id => u = v
  BY <1>1
<1>3. \A c, e \in store.conns : c.id = e.id => c = e
  BY <1>1
<1>4. /\ up = {c.id : c \in {y \in store.conns : \E u \in store.users : u.id = y.user /\ u.on}}
      /\ pc = [t \in Tasks |-> "idle"] /\ todo = [t \in Tasks |-> NoOps]
      /\ goal = [t \in Tasks |-> NoGoal]
  BY DEF Init
<1>5. \A k \in store.conns : k.id \in Conns
  <2>1. store \in Doc
    BY <1>1
  <2> QED
    BY <2>1 DEF Doc, Conn
<1>6. OffCut(store, {}, Cut)
  <2> SUFFICES ASSUME NEW u \in store.users, NEW k \in store.conns, k.user = u.id, ~u.on,
                      k.id \in up
               PROVE  FALSE
    BY <1>5 DEF OffCut, Cut
  <2>1. PICK c \in store.conns : c.id = k.id /\ \E v \in store.users : v.id = c.user /\ v.on
    BY <1>4
  <2>2. c = k
    BY <1>3, <2>1
  <2> QED
    BY <1>2, <2>1, <2>2
<1>7. goal[Cycle].set = {} /\ todo[Cycle] = NoOps
  BY <1>4 DEF NoGoal
<1>8. OnWay(store, {}, Cut, NoOps) /\ OpsCut(store, {}, Cut, NoOps)
  BY DEF OnWay, OpsCut, NoOps
<1>9. CycleOnly
  BY <1>4 DEF CycleOnly
<1> QED
  BY <1>6, <1>7, <1>8, <1>9 DEF CutInv

\* Nothing that matters here moves.
LEMMA CutSame ==
    ASSUME CutInv, UNCHANGED <<store, up, torn, may, todo, goal>>,
           \A t \in Tasks : t # Cycle => pc'[t] = pc[t],
           pc'[Cycle] = pc[Cycle] \/ pc[Cycle] # "mass"
    PROVE  CutInv'
BY DEF CutInv, Alone, Cut, CycleOnly, OffCut, OnWay, OpsCut

\* The cycle starts to work on many users.
LEMMA StartCut ==
    ASSUME TypeInv, CutInv, Alone, UNCHANGED <<up, torn, may>>, pc[Cycle] # "mass",
           DocT(store'), OffCut(store', {}, Cut), NEW drop,
           NEW set \in SUBSET (Ids \X BOOLEAN), NEW create,
           \A id \in create : <<id, TRUE>> \notin set /\ <<id, FALSE>> \notin set,
           NEW next, StartMass(Cycle, store', drop, set, create, next)
    PROVE  CutInv'
<1> DEFINE ops == Grouped(store', drop, set, create)
           g == [drop |-> drop, set |-> set, next |-> next]
<1>1. /\ todo' = [todo EXCEPT ![Cycle] = ops] /\ goal' = [goal EXCEPT ![Cycle] = g]
      /\ pc' = [pc EXCEPT ![Cycle] = "mass"]
  BY DEF StartMass
<1>2. todo'[Cycle] = ops /\ goal'[Cycle].set = set
  BY <1>1 DEF TypeInv, TodoT, GoalT
<1>3. CycleOnly'
  BY <1>1 DEF CutInv, CycleOnly, TypeInv, StageT
<1>4. OffCut(store', set, Cut)
  BY DEF OffCut
<1>5. OnWay(store', set, Cut, ops)
  <2> SUFFICES ASSUME NEW k \in store'.conns, <<k.user, FALSE>> \in set
               PROVE  \E op \in ops[At[k.id]] : op.kind = "toggle" /\ op.conn = k.id /\ ~op.made
    BY DEF OnWay
  <2>1. At[k.id] \in Servers
    BY DocEditsT DEF Conn
  <2>2. Todo("toggle", k.user, k.id, FALSE) \in ops[At[k.id]]
    <3> DEFINE w == <<k, <<k.user, FALSE>>>>
    <3>1. w \in {v \in store'.conns \X set : At[v[1].id] = At[k.id] /\ v[1].user = v[2][1]}
      OBVIOUS
    <3>2. Todo("toggle", w[2][1], w[1].id, w[2][2]) \in
            {Todo("toggle", v[2][1], v[1].id, v[2][2]) :
                v \in {v \in store'.conns \X set : At[v[1].id] = At[k.id] /\ v[1].user = v[2][1]}}
      BY <3>1
    <3> QED
      BY <2>1, <3>2 DEF Grouped
  <2> QED
    BY <2>2 DEF Todo
<1>6. OpsCut(store', set, Cut, ops)
  <2> SUFFICES ASSUME NEW s \in Servers, NEW op \in ops[s]
               PROVE  /\ ~op.made /\ (op.kind = "toggle" => <<op.user, op.on>> \in set)
                      /\ op.kind = "create" => op.user \in create
    BY DEF OpsCut
  <2>0. \A w \in set : <<w[1], w[2]>> \in set
    OBVIOUS
  <2>1. \/ \E k \in store'.conns : op = Todo("remove", k.user, k.id, FALSE)
        \/ \E k \in store'.conns, w \in set : op = Todo("toggle", w[1], k.id, w[2])
                                              /\ <<w[1], w[2]>> \in set
        \/ \E id \in create : op = Todo("create", id, NoConn, TRUE)
    BY <2>0 DEF Grouped
  <2>2. CASE \E k \in store'.conns : op = Todo("remove", k.user, k.id, FALSE)
    BY <2>2 DEF Todo
  <2>3. CASE \E k \in store'.conns, w \in set : op = Todo("toggle", w[1], k.id, w[2])
                                              /\ <<w[1], w[2]>> \in set
    BY <2>3 DEF Todo
  <2>4. CASE \E id \in create : op = Todo("create", id, NoConn, TRUE)
    BY <2>4 DEF Todo
  <2> QED
    BY <2>1, <2>2, <2>3, <2>4
<1> HIDE DEF ops, g
<1>7. Cut' = Cut
  BY DEF Cut
<1> QED
  BY <1>2, <1>3, <1>4, <1>5, <1>6, <1>7 DEF CutInv, OffCut, OnWay, OpsCut

\* What one operation on a server leaves of the others.
LEMMA DidOps ==
    ASSUME TypeInv, NEW s \in Servers, NEW op \in todo[Cycle][s], NEW c, Did(Cycle, s, op, c)
    PROVE  /\ \A q \in Servers : \A o \in todo[Cycle][q] : o # op => o \in todo'[Cycle][q]
           /\ \A q \in Servers : \A o \in todo'[Cycle][q] :
                \/ o \in todo[Cycle][q]
                \/ /\ o.kind = op.kind /\ o.user = op.user /\ o.on = op.on /\ o.conn = c
                   /\ o.made
<1> DEFINE done == [op EXCEPT !.conn = c, !.made = TRUE]
<1>1. todo \in [Tasks -> [Servers -> SUBSET Op]] /\ op \in Op
  BY DEF TypeInv, TodoT
<1>2. /\ done.kind = op.kind /\ done.user = op.user /\ done.on = op.on /\ done.conn = c
      /\ done.made
  BY <1>1 DEF Op
<1>3. todo' = [todo EXCEPT ![Cycle][s] = (todo[Cycle][s] \ {op}) \cup {done}]
  BY DEF Did
<1> HIDE DEF done
<1>4. /\ todo'[Cycle][s] = (todo[Cycle][s] \ {op}) \cup {done}
      /\ \A q \in Servers : q # s => todo'[Cycle][q] = todo[Cycle][q]
  BY <1>1, <1>3
<1> QED
  BY <1>2, <1>4

LEMMA ToggleCut ==
    ASSUME TypeInv, Owned, CutInv, Alone, NEW s \in Servers, TogglePeer(Cycle, s)
    PROVE  CutInv'
<1>1. PICK op \in todo[Cycle][s] :
        /\ pc[Cycle] = "mass" /\ op.kind = "toggle" /\ SwitchPeer(op.conn, op.on)
        /\ Did(Cycle, s, op, op.conn)
  BY DEF TogglePeer, Current
<1>2. UNCHANGED <<store, may, pc, goal>>
  BY DEF TogglePeer, world
<1> DEFINE set == goal[Cycle].set
           c == op.conn
<1>3. /\ <<op.user, op.on>> \in set /\ owner[c] = op.user /\ op.on \in BOOLEAN /\ c \in Conns
  <2>1. op \in Op /\ OpT(op) /\ OpB(op, owner, issued)
    BY DEF TypeInv, TodoT, Owned, TodoB
  <2>2. <<op.user, op.on>> \in set
    BY <1>1 DEF CutInv, OpsCut
  <2> QED
    BY <1>1, <2>1, <2>2 DEF OpT, OpB, Op
<1>4. /\ \A e \in Cut : e \in Cut' \/ (e = c /\ op.on)
      /\ ~op.on => c \in Cut'
  BY <1>1, <1>3 DEF SwitchPeer, Cut
<1>5. \A k \in store.conns : k.id = c => k.user = op.user
  BY <1>3 DEF Owned, DocsB, Belongs
<1>6. <<op.user, TRUE>> \in set \/ ~op.on
  BY <1>3
<1> HIDE DEF set, c
<1>7. goal'[Cycle].set = set
  BY <1>2 DEF set
<1>8. OffCut(store', set, Cut')
  BY <1>2, <1>4, <1>5, <1>6 DEF CutInv, OffCut, set
<1>9. OnWay(store', set, Cut', todo'[Cycle])
  <2> SUFFICES ASSUME NEW k \in store.conns, <<k.user, FALSE>> \in set, <<k.user, TRUE>> \notin set
               PROVE  \/ k.id \in Cut'
                      \/ \E o \in todo'[Cycle][At[k.id]] :
                            o.kind = "toggle" /\ o.conn = k.id /\ ~o.made
    BY <1>2 DEF OnWay
  <2>1. CASE k.id = c
    BY <1>4, <1>5, <1>6, <2>1
  <2>2. CASE k.id # c
    <3>1. \/ k.id \in Cut
          \/ \E o \in todo[Cycle][At[k.id]] : o.kind = "toggle" /\ o.conn = k.id /\ ~o.made
      BY DEF CutInv, OnWay, set
    <3>2. At[k.id] \in Servers
      BY DocEditsT DEF TypeInv, Conn
    <3>3. \A o \in todo[Cycle][At[k.id]] : o.conn = k.id => o \in todo'[Cycle][At[k.id]]
      BY <1>1, <2>2, <3>2, DidOps DEF c
    <3> QED
      BY <1>4, <2>2, <3>1, <3>3
  <2> QED
    BY <2>1, <2>2
<1>10. OpsCut(store', set, Cut', todo'[Cycle])
  <2> SUFFICES ASSUME NEW q \in Servers, NEW o \in todo'[Cycle][q]
               PROVE  /\ o.kind = "toggle" => <<o.user, o.on>> \in set
                      /\ o.kind = "create" =>
                            /\ <<o.user, TRUE>> \notin set /\ <<o.user, FALSE>> \notin set
                            /\ o.made => \A u \in store.users :
                                            u.id = o.user /\ ~u.on => o.conn \in Cut'
    BY <1>2 DEF OpsCut
  <2>1. CASE o \in todo[Cycle][q]
    <3>1. /\ o.kind = "toggle" => <<o.user, o.on>> \in set
          /\ o.kind = "create" =>
                /\ <<o.user, TRUE>> \notin set /\ <<o.user, FALSE>> \notin set
                /\ o.made => \A u \in store.users : u.id = o.user /\ ~u.on => o.conn \in Cut
      BY <2>1 DEF CutInv, OpsCut, set
    <3>2. o.kind = "create" /\ o.made => owner[o.conn] = o.user
      BY <2>1 DEF Owned, TodoB, OpB
    <3>3. o.kind = "create" /\ o.made => o.conn # c
      BY <1>3, <3>1, <3>2 DEF c
    <3> QED
      BY <1>4, <3>1, <3>3
  <2>2. CASE o.kind = op.kind /\ o.user = op.user /\ o.on = op.on
    BY <1>1, <1>3, <2>2 DEF set
  <2> QED
    BY <1>1, <2>1, <2>2, DidOps
<1>11. CycleOnly'
  BY <1>1, <1>2 DEF CutInv, CycleOnly
<1> QED
  BY <1>7, <1>8, <1>9, <1>10, <1>11 DEF CutInv, OffCut, OnWay, OpsCut

\* Fewer peers work, or more are torn, and the operations that are left are no
\* switches less that count.
LEMMA MoreCut ==
    ASSUME TypeInv, CutInv, Alone, UNCHANGED <<store, may, pc, goal>>, pc[Cycle] = "mass",
           Cut \subseteq Cut',
           \A s \in Servers : \A op \in todo'[Cycle][s] :
                \/ op \in todo[Cycle][s]
                \/ op.kind = "remove",
           \A s \in Servers : \A op \in todo[Cycle][s] :
                op.kind = "toggle" /\ ~op.made => op \in todo'[Cycle][s] \/ op.conn \in Cut'
    PROVE  CutInv'
<1> DEFINE set == goal[Cycle].set
<1>1. OffCut(store, set, Cut')
  BY DEF CutInv, OffCut
<1>2. OnWay(store, set, Cut', todo'[Cycle])
  <2> SUFFICES ASSUME NEW k \in store.conns, <<k.user, FALSE>> \in set, <<k.user, TRUE>> \notin set
               PROVE  \/ k.id \in Cut'
                      \/ \E o \in todo'[Cycle][At[k.id]] :
                            o.kind = "toggle" /\ o.conn = k.id /\ ~o.made
    BY DEF OnWay
  <2>1. At[k.id] \in Servers
    BY DocEditsT DEF TypeInv, Conn
  <2>2. \/ k.id \in Cut
        \/ \E o \in todo[Cycle][At[k.id]] : o.kind = "toggle" /\ o.conn = k.id /\ ~o.made
    BY DEF CutInv, OnWay
  <2> QED
    BY <2>1, <2>2
<1>3. OpsCut(store, set, Cut', todo'[Cycle])
  BY DEF CutInv, OpsCut
<1>4. CycleOnly'
  BY DEF CutInv, CycleOnly
<1> QED
  BY <1>1, <1>2, <1>3, <1>4 DEF CutInv, OffCut, OnWay, OpsCut

LEMMA RemoveCut ==
    ASSUME TypeInv, Owned, CutInv, Alone, NEW s \in Servers,
           RemovePeer(Cycle, s) \/ BreakServer(Cycle, s)
    PROVE  CutInv'
<1>1. UNCHANGED <<store, may, pc, goal>> /\ pc[Cycle] = "mass"
  BY DEF RemovePeer, BreakServer, Current, world
<1>2. CASE RemovePeer(Cycle, s)
  <2>1. PICK op \in todo[Cycle][s] : /\ op.kind = "remove" /\ Did(Cycle, s, op, op.conn)
                                     /\ up' = up \ {op.conn} /\ torn' = torn
    BY <1>2 DEF RemovePeer, ghosts
  <2>2. Cut \subseteq Cut'
    BY <2>1 DEF Cut
  <2>3. /\ \A q \in Servers : \A o \in todo[Cycle][q] : o # op => o \in todo'[Cycle][q]
        /\ \A q \in Servers : \A o \in todo'[Cycle][q] :
             o \in todo[Cycle][q] \/ o.kind = op.kind
    BY <2>1, DidOps
  <2>4. \A q \in Servers : \A o \in todo'[Cycle][q] : o \in todo[Cycle][q] \/ o.kind = "remove"
    BY <2>1, <2>3
  <2>5. \A q \in Servers : \A o \in todo[Cycle][q] :
            o.kind = "toggle" /\ ~o.made => o \in todo'[Cycle][q]
    BY <2>1, <2>3
  <2> QED
    BY <1>1, <2>2, <2>4, <2>5, MoreCut
<1>3. CASE BreakServer(Cycle, s)
  <2>1. /\ torn' = torn \cup {op.conn : op \in {o \in todo[Cycle][s] : o.kind = "toggle" /\ ~o.made}}
        /\ todo' = [todo EXCEPT ![Cycle][s] = {}] /\ up' = up
    BY <1>3 DEF BreakServer, servers
  <2>2. Cut \subseteq Cut'
    BY <2>1 DEF Cut
  <2>3. /\ todo'[Cycle][s] = {} /\ \A q \in Servers : q # s => todo'[Cycle][q] = todo[Cycle][q]
    BY <2>1 DEF TypeInv, TodoT
  <2>4. \A op \in todo[Cycle][s] : op.kind = "toggle" /\ ~op.made => op.conn \in Cut'
    BY <2>1 DEF Cut
  <2>5. \A q \in Servers : \A o \in todo'[Cycle][q] : o \in todo[Cycle][q] \/ o.kind = "remove"
    BY <2>3
  <2>6. \A q \in Servers : \A o \in todo[Cycle][q] :
            o.kind = "toggle" /\ ~o.made => o \in todo'[Cycle][q] \/ o.conn \in Cut'
    BY <2>3, <2>4
  <2> QED
    BY <1>1, <2>2, <2>5, <2>6, MoreCut
<1> QED
  BY <1>2, <1>3

LEMMA CreateCut ==
    ASSUME TypeInv, Owned, CutInv, Alone, NEW s \in Servers, CreatePeer(Cycle, s)
    PROVE  CutInv'
<1> DEFINE set == goal[Cycle].set
<1>1. PICK op \in todo[Cycle][s], c \in Conns :
        /\ pc[Cycle] = "mass" /\ op.kind = "create" /\ ~op.made /\ NewPeer(c, op.user, s)
        /\ Did(Cycle, s, op, c)
  BY DEF CreatePeer, Current
<1>2. UNCHANGED <<store, may, pc, goal>>
  BY DEF CreatePeer, world
<1>3. /\ owner[c] = NoConn /\ up' = up \cup {c}
      /\ torn' = torn \cup {x \in {c} : \E u \in store.users : u.id = op.user /\ ~u.on}
  BY <1>1 DEF NewPeer
<1>4. \A e \in Cut : e # c => e \in Cut'
  BY <1>3 DEF Cut
<1>5. \A u \in store.users : u.id = op.user /\ ~u.on => c \in Cut'
  BY <1>3 DEF Cut
<1>6. <<op.user, TRUE>> \notin set /\ <<op.user, FALSE>> \notin set
  BY <1>1 DEF CutInv, OpsCut
<1>7. \A k \in store.conns : k.id # c
  <2>1. \A k \in store.conns : k.user \in Ids
    BY DocEditsT DEF TypeInv, Conn
  <2> QED
    BY <1>3, <2>1 DEF Owned, DocsB, Belongs
<1>8. /\ \A q \in Servers : \A o \in todo[Cycle][q] : o # op => o \in todo'[Cycle][q]
      /\ \A q \in Servers : \A o \in todo'[Cycle][q] :
             \/ o \in todo[Cycle][q]
             \/ o.kind = "create" /\ o.user = op.user /\ o.conn = c
  BY <1>1, DidOps
<1> HIDE DEF set
<1>9. OffCut(store, set, Cut')
  BY <1>4, <1>7 DEF CutInv, OffCut, set
<1>10. OnWay(store, set, Cut', todo'[Cycle])
  <2> SUFFICES ASSUME NEW k \in store.conns, <<k.user, FALSE>> \in set, <<k.user, TRUE>> \notin set
               PROVE  \/ k.id \in Cut'
                      \/ \E o \in todo'[Cycle][At[k.id]] :
                            o.kind = "toggle" /\ o.conn = k.id /\ ~o.made
    BY DEF OnWay
  <2>1. At[k.id] \in Servers
    BY DocEditsT DEF TypeInv, Conn
  <2>2. \/ k.id \in Cut
        \/ \E o \in todo[Cycle][At[k.id]] : o.kind = "toggle" /\ o.conn = k.id /\ ~o.made
    BY DEF CutInv, OnWay, set
  <2> QED
    BY <1>1, <1>4, <1>7, <1>8, <2>1, <2>2
<1>11. OpsCut(store, set, Cut', todo'[Cycle])
  <2> SUFFICES ASSUME NEW q \in Servers, NEW o \in todo'[Cycle][q]
               PROVE  /\ o.kind = "toggle" => <<o.user, o.on>> \in set
                      /\ o.kind = "create" =>
                            /\ <<o.user, TRUE>> \notin set /\ <<o.user, FALSE>> \notin set
                            /\ o.made => \A u \in store.users :
                                            u.id = o.user /\ ~u.on => o.conn \in Cut'
    BY DEF OpsCut
  <2>1. CASE o \in todo[Cycle][q]
    <3>1. /\ o.kind = "toggle" => <<o.user, o.on>> \in set
          /\ o.kind = "create" =>
                /\ <<o.user, TRUE>> \notin set /\ <<o.user, FALSE>> \notin set
                /\ o.made => \A u \in store.users : u.id = o.user /\ ~u.on => o.conn \in Cut
      BY <2>1 DEF CutInv, OpsCut, set
    <3>2. o.kind = "create" /\ o.made => owner[o.conn] = o.user
      BY <2>1 DEF Owned, TodoB, OpB
    <3>3. o.user \in Ids
      BY <2>1 DEF TypeInv, TodoT, Op
    <3>4. o.kind = "create" /\ o.made => o.conn # c
      BY <1>3, <3>2, <3>3
    <3> QED
      BY <1>4, <3>1, <3>4
  <2>2. CASE o.kind = "create" /\ o.user = op.user /\ o.conn = c
    BY <1>5, <1>6, <2>2
  <2> QED
    BY <1>8, <2>1, <2>2
<1>12. CycleOnly'
  BY <1>1, <1>2 DEF CutInv, CycleOnly
<1>13. goal'[Cycle].set = set /\ store' = store
  BY <1>2 DEF set
<1> QED
  BY <1>9, <1>10, <1>11, <1>12, <1>13 DEF CutInv, OffCut, OnWay, OpsCut

LEMMA RecordCut ==
    ASSUME TypeInv, Owned, CutInv, Alone, NEW s \in Servers, RecordOp(Cycle, s)
    PROVE  CutInv'
<1> DEFINE set == goal[Cycle].set
<1>1. PICK op \in todo[Cycle][s] :
        /\ pc[Cycle] = "mass" /\ op.made /\ store' = Recorded(store, op)
        /\ todo' = [todo EXCEPT ![Cycle][s] = todo[Cycle][s] \ {op}]
  BY DEF RecordOp
<1>2. UNCHANGED <<up, torn, may, pc, goal>>
  BY DEF RecordOp, servers, world, ghosts
<1>3. Cut' = Cut
  BY <1>2 DEF Cut
<1>4. /\ \A q \in Servers : todo'[Cycle][q] \subseteq todo[Cycle][q]
      /\ \A q \in Servers : \A o \in todo[Cycle][q] : o # op => o \in todo'[Cycle][q]
  BY <1>1 DEF TypeInv, TodoT
<1>5. /\ store'.users = store.users
      /\ \A k \in store'.conns : \/ k \in store.conns
                                 \/ /\ op.kind = "create" /\ k.id = op.conn
                                    /\ k.user = op.user
  BY <1>1 DEF Recorded, TypeInv, DocT, Doc
<1>6. op.kind = "create" =>
        /\ <<op.user, FALSE>> \notin set
        /\ \A u \in store.users : u.id = op.user /\ ~u.on => op.conn \in Cut
  BY <1>1 DEF CutInv, OpsCut
<1>7. \A k \in store.conns : At[k.id] \in Servers
  BY DocEditsT DEF TypeInv, Conn
<1> HIDE DEF set
<1>8. OffCut(store', set, Cut)
  BY <1>5, <1>6 DEF CutInv, OffCut, set
<1>9. OnWay(store', set, Cut, todo'[Cycle])
  <2> SUFFICES ASSUME NEW k \in store'.conns, <<k.user, FALSE>> \in set, <<k.user, TRUE>> \notin set
               PROVE  \/ k.id \in Cut
                      \/ \E o \in todo'[Cycle][At[k.id]] :
                            o.kind = "toggle" /\ o.conn = k.id /\ ~o.made
    BY DEF OnWay
  <2>1. k \in store.conns
    BY <1>5, <1>6
  <2>2. \/ k.id \in Cut
        \/ \E o \in todo[Cycle][At[k.id]] : o.kind = "toggle" /\ o.conn = k.id /\ ~o.made
    BY <2>1 DEF CutInv, OnWay, set
  <2> QED
    BY <1>1, <1>4, <1>7, <2>1, <2>2
<1>10. OpsCut(store', set, Cut, todo'[Cycle])
  BY <1>4, <1>5 DEF CutInv, OpsCut, set
<1>11. CycleOnly'
  BY <1>1, <1>2 DEF CutInv, CycleOnly
<1>12. goal'[Cycle].set = set
  BY <1>2 DEF set
<1> QED
  BY <1>3, <1>8, <1>9, <1>10, <1>11, <1>12 DEF CutInv, OffCut, OnWay, OpsCut

LEMMA FinishCut ==
    ASSUME TypeInv, Owned, CutInv, Alone, FinishMass(Cycle)
    PROVE  CutInv'
<1> DEFINE set == goal[Cycle].set
           g == goal[Cycle]
<1>1. /\ todo[Cycle] = NoOps /\ store' = Cleaned(store, g)
      /\ Continue(Cycle, g.next, store') /\ goal' = [goal EXCEPT ![Cycle] = NoGoal]
      /\ UNCHANGED <<up, torn, may, todo>>
  BY DEF FinishMass, servers, world, ghosts
<1>2. Cut' = Cut
  BY <1>1 DEF Cut
<1>3. OnWay(store, set, Cut, NoOps) /\ OffCut(store, set, Cut)
  BY <1>1 DEF CutInv
<1>4. store.users \subseteq User
  BY DocEditsT DEF TypeInv
<1>5. set \in SUBSET (Ids \X BOOLEAN)
  BY DEF TypeInv, GoalT, Goal
<1>6. store'.conns \subseteq store.conns
  BY <1>1 DEF Cleaned
<1>7. OffCut(store', {}, Cut)
  <2> SUFFICES ASSUME NEW v \in store'.users, NEW k \in store'.conns, k.user = v.id, ~v.on
               PROVE  k.id \in Cut
    BY DEF OffCut
  <2>1. PICK u \in store.users :
          v = IF \E on \in BOOLEAN : <<u.id, on>> \in set
              THEN [u EXCEPT !.on = <<u.id, TRUE>> \in set] ELSE u
    BY <1>1 DEF Cleaned
  <2>2. v.id = u.id /\ u \in User
    BY <1>4, <2>1 DEF User
  <2>3. CASE \E on \in BOOLEAN : <<u.id, on>> \in set
    <3>1. v.on = (<<u.id, TRUE>> \in set)
      BY <1>4, <2>1, <2>3 DEF User
    <3>2. <<u.id, TRUE>> \notin set
      BY <3>1
    <3>3. <<u.id, FALSE>> \in set
      BY <2>3, <3>2
    <3>4. k \in store.conns /\ k.user = u.id
      BY <1>6, <2>2
    <3>5. At[k.id] \in Servers
      BY <3>4, DocEditsT DEF TypeInv, Conn
    <3> QED
      BY <1>3, <3>2, <3>3, <3>4, <3>5 DEF OnWay, NoOps
  <2>4. CASE \A on \in BOOLEAN : <<u.id, on>> \notin set
    <3>1. v = u /\ <<u.id, TRUE>> \notin set
      BY <2>1, <2>4
    <3>2. k \in store.conns
      BY <1>6
    <3> QED
      BY <1>3, <3>1, <3>2 DEF OffCut
  <2> QED
    BY <2>3, <2>4
<1>8. goal'[Cycle] = NoGoal /\ goal'[Cycle].set = {} /\ todo'[Cycle] = NoOps
  BY <1>1 DEF TypeInv, GoalT, NoGoal
<1>9. OnWay(store', {}, Cut, NoOps) /\ OpsCut(store', {}, Cut, NoOps)
  BY DEF OnWay, OpsCut, NoOps
<1>10. CycleOnly'
  <2>1. /\ pc'[Cycle] # "mass"
        /\ \A t \in Tasks : t # Cycle => pc'[t] = pc[t]
    BY <1>1, ContinueB
  <2> QED
    BY <1>8, <2>1 DEF CutInv, CycleOnly
<1> HIDE DEF set, g
<1> QED
  BY <1>2, <1>7, <1>8, <1>9, <1>10 DEF CutInv, OffCut, OnWay, OpsCut

\* While the cycle is not at work on many users, whoever is disabled is cut off.
LEMMA RestCut ==
    ASSUME CutInv, Alone, pc[Cycle] # "mass"
    PROVE  goal[Cycle].set = {} /\ todo[Cycle] = NoOps /\ OffCut(store, {}, Cut)
<1>1. goal[Cycle] = NoGoal /\ todo[Cycle] = NoOps /\ OffCut(store, goal[Cycle].set, Cut)
  BY DEF CutInv, CycleOnly
<1>2. goal[Cycle].set = {}
  BY <1>1 DEF NoGoal
<1> QED
  BY <1>1, <1>2

\* The document changes as no switch would change it.
LEMMA StayCut ==
    ASSUME TypeInv, CutInv, Alone, UNCHANGED <<up, torn, may, todo, goal>>, pc[Cycle] # "mass",
           \A t \in Tasks : t # Cycle => pc'[t] = pc[t], pc'[Cycle] # "mass",
           OffCut(store', {}, Cut)
    PROVE  CutInv'
<1>1. goal'[Cycle].set = {} /\ todo'[Cycle] = NoOps
  BY RestCut
<1>2. OnWay(store', {}, Cut, NoOps) /\ OpsCut(store', {}, Cut, NoOps)
  BY DEF OnWay, OpsCut, NoOps
<1>3. CycleOnly'
  BY DEF CutInv, CycleOnly
<1>4. Cut' = Cut
  BY DEF Cut
<1> QED
  BY <1>1, <1>2, <1>3, <1>4 DEF CutInv, OffCut, OnWay, OpsCut

LEMMA ApplyCut ==
    ASSUME TypeInv, TypeInv', CutInv, Alone, ApplyUpdates
    PROVE  CutInv'
<1> DEFINE d == IF got[Cycle] = {} THEN store ELSE Charged(store, got[Cycle])
           out == ToDisable(d, got[Cycle])
<1>1. store' = d /\ pc[Cycle] = "scrape" /\ UNCHANGED <<up, torn, may>>
  BY DEF ApplyUpdates, servers, world, ghosts
<1>2. \/ StartMass(Cycle, d, {}, out \X {FALSE}, {}, "remnawave")
      \/ Continue(Cycle, "remnawave", d) /\ UNCHANGED <<todo, goal>>
  BY DEF ApplyUpdates
<1>3. OffCut(store, {}, Cut)
  BY <1>1, RestCut
<1>4. store.users \subseteq User /\ store.conns \subseteq Conn
  BY DocEditsT DEF TypeInv
<1>5. OffCut(Charged(store, got[Cycle]), {}, Cut)
  <2> DEFINE e == Charged(store, got[Cycle])
  <2>1. \A v \in e.users : \E u \in store.users : v.id = u.id /\ (u.on => v.on)
    BY <1>4 DEF Charged, User
  <2>2. \A k \in e.conns : \E j \in store.conns : k.id = j.id /\ k.user = j.user
    BY <1>4 DEF Charged, Conn
  <2> HIDE DEF e
  <2> QED
    BY <1>3, <2>1, <2>2, OffCutEdited DEF e
<1>6. OffCut(store', {}, Cut)
  BY <1>1, <1>3, <1>5
<1>7. DocT(store') /\ out \X {FALSE} \in SUBSET (Ids \X BOOLEAN)
  <2>1. DocT(store')
    BY DEF TypeInv, DocT
  <2>2. d.users \subseteq User
    BY <1>1, <2>1, DocEditsT
  <2> HIDE DEF d
  <2>3. out \subseteq Ids
    BY <2>2 DEF ToDisable, User
  <2> QED
    BY <2>1, <2>3
<1> HIDE DEF d, out
<1>8. CASE StartMass(Cycle, d, {}, out \X {FALSE}, {}, "remnawave")
  <2> DEFINE set == out \X {FALSE}
  <2>1. StartMass(Cycle, store', {}, set, {}, "remnawave") /\ set \in SUBSET (Ids \X BOOLEAN)
    BY <1>1, <1>7, <1>8
  <2> HIDE DEF set
  <2> QED
    BY <1>1, <1>6, <1>7, <2>1, StartCut
<1>9. CASE Continue(Cycle, "remnawave", d) /\ UNCHANGED <<todo, goal>>
  <2>1. pc'[Cycle] # "mass" /\ \A t \in Tasks : t # Cycle => pc'[t] = pc[t]
    BY <1>9, ContinueB
  <2> QED
    BY <1>1, <1>6, <1>9, <2>1, StayCut
<1> QED
  BY <1>2, <1>8, <1>9

LEMMA FetchCut ==
    ASSUME TypeInv, CutInv, Alone, FetchPages(Cycle) \/ FetchFails(Cycle)
    PROVE  CutInv'
<1> DEFINE gone == {u.id : u \in {v \in data[Cycle].users : v.linked /\ v.name \notin DOMAIN accounts}}
<1>1. pc[Cycle] = "fetch" /\ UNCHANGED <<store, up, torn, may>>
  BY DEF FetchPages, FetchFails, servers, world, ghosts
<1>2. \/ StartMass(Cycle, store, gone, {}, {}, "users")
      \/ /\ pc' = [pc EXCEPT ![Cycle] = "users"] \/ pc' = [pc EXCEPT ![Cycle] = "idle"]
         /\ UNCHANGED <<todo, goal>>
  BY DEF FetchPages, FetchFails
<1> HIDE DEF gone
<1>3. CASE StartMass(Cycle, store, gone, {}, {}, "users")
  <2>1. StartMass(Cycle, store', gone, {}, {}, "users") /\ DocT(store')
    BY <1>1, <1>3 DEF TypeInv
  <2>2. OffCut(store', {}, Cut)
    BY <1>1, RestCut
  <2>3. {} \in SUBSET (Ids \X BOOLEAN)
    OBVIOUS
  <2> QED
    BY <1>1, <2>1, <2>2, <2>3, StartCut
<1>4. CASE /\ pc' = [pc EXCEPT ![Cycle] = "users"] \/ pc' = [pc EXCEPT ![Cycle] = "idle"]
           /\ UNCHANGED <<todo, goal>>
  <2>1. \A t \in Tasks : t # Cycle => pc'[t] = pc[t]
    BY <1>4 DEF TypeInv, StageT
  <2> QED
    BY <1>1, <1>4, <2>1, CutSame
<1> QED
  BY <1>2, <1>3, <1>4

LEMMA SyncUsersCut ==
    ASSUME TypeInv, TypeInv', Owned, CutInv, Alone, SyncUsers(Cycle)
    PROVE  CutInv'
<1> DEFINE there == DOMAIN page[Cycle]
           new == {a \in there : Named(store, a) = {}}
           known == {u \in store.users : u.name \in there}
           set == {<<u.id, page[Cycle][u.name]>> : u \in {v \in known : v.on # page[Cycle][v.name]}}
<1>1. PICK f \in [new -> Ids \ issued] :
        /\ store' = [store EXCEPT !.users =
                (@ \ known) \cup {[u EXCEPT !.linked = TRUE] : u \in known}
                \cup {[id |-> f[a], name |-> a, linked |-> TRUE, on |-> page[Cycle][a],
                       limit |-> 0, used |-> 0, total |-> 0, since |-> day] : a \in new}]
        /\ \/ StartMass(Cycle, store', {}, set, {f[a] : a \in new}, "end")
           \/ pc' = [pc EXCEPT ![Cycle] = "idle"] /\ UNCHANGED <<todo, goal>>
  BY DEF SyncUsers
<1>2. pc[Cycle] = "users" /\ UNCHANGED <<up, torn, may>>
  BY DEF SyncUsers, servers, world
<1> DEFINE made == {[id |-> f[a], name |-> a, linked |-> TRUE, on |-> page[Cycle][a],
                     limit |-> 0, used |-> 0, total |-> 0, since |-> day] : a \in new}
           linked == {[u EXCEPT !.linked = TRUE] : u \in known}
           ids == {f[a] : a \in new}
<1>3. DocT(store) /\ Belongs(store, owner, issued, Pending) /\ store.users \subseteq User
  BY DocEditsT DEF TypeInv, Owned, DocsB
<1>4. store'.users = (store.users \ known) \cup linked \cup made /\ store'.conns = store.conns
  BY <1>1, <1>3 DEF DocT, Doc
<1>5. \A v \in linked : \E u \in store.users : v.id = u.id /\ (u.on => v.on)
  BY <1>3 DEF User
<1>6. (\A v \in made : v.id \in ids) /\ ids \cap issued = {}
  OBVIOUS
<1>7. /\ \A u \in store.users : u.id \in Ids /\ u.id \in issued
      /\ \A k \in store.conns : k.user \in issued
  <2>1. \A k \in store.conns : k.user \in Ids /\ k.id \in Conns /\ owner[k.id] = k.user
    BY <1>3, DocEditsT DEF Conn, Belongs
  <2>2. \A k \in store.conns : k.user \in issued
    BY <2>1 DEF Owned, OwnerB
  <2> QED
    BY <1>3, <2>2 DEF Belongs, User
<1>8. OffCut(store', {}, Cut)
  <2>1. OffCut(store, {}, Cut)
    BY <1>2, RestCut
  <2> HIDE DEF new, made, linked, known, there, ids
  <2>2. \A v \in store'.users : \/ \E u \in store.users : v.id = u.id /\ (u.on => v.on)
                                \/ \A k \in store'.conns : k.user # v.id
    BY <1>4, <1>5, <1>6, <1>7
  <2>3. \A k \in store'.conns : \E j \in store.conns : k.id = j.id /\ k.user = j.user
    BY <1>4
  <2> QED
    BY <2>1, <2>2, <2>3, OffCutEdited
<1>9. set \in SUBSET (Ids \X BOOLEAN) /\ \A w \in set : w[1] \in issued
  <2>1. \A a \in there : page[Cycle][a] \in BOOLEAN
    BY DEF TypeInv, PageT
  <2> QED
    BY <1>7, <2>1
<1>10. \A id \in ids : <<id, TRUE>> \notin set /\ <<id, FALSE>> \notin set
  <2> HIDE DEF ids, set
  <2> QED
    BY <1>6, <1>9
<1>11. DocT(store')
  BY DEF TypeInv, DocT
<1>12. CASE StartMass(Cycle, store', {}, set, ids, "end")
  <2> HIDE DEF ids, set
  <2> QED
    BY <1>2, <1>8, <1>9, <1>10, <1>11, <1>12, StartCut
<1>13. CASE pc' = [pc EXCEPT ![Cycle] = "idle"] /\ UNCHANGED <<todo, goal>>
  <2>1. pc'[Cycle] # "mass" /\ \A t \in Tasks : t # Cycle => pc'[t] = pc[t]
    BY <1>13 DEF TypeInv, StageT
  <2> QED
    BY <1>2, <1>8, <1>13, <2>1, StayCut
<1> HIDE DEF set, new, made, linked, known, there
<1> QED
  BY <1>1, <1>12, <1>13

\* Nobody else is at work.
LEMMA NoRequest ==
    ASSUME Owned, CutInv, Alone, NEW t \in Tasks, RequestStep(t)
    PROVE  FALSE
<1>1. t # Cycle => pc[t] = "idle"
  BY DEF CutInv, CycleOnly
<1>2. ~SyncNow(t) /\ ~SyncDelete(t) /\ ~ToggleUser(t) /\ ~UpdateUser(t)
  BY DEF SyncNow, SyncDelete, ToggleUser, UpdateUser, MayEdit, Alone
<1>3. ~EditPeer(t) /\ ~SaveEdit(t)
  BY <1>1 DEF EditPeer, SaveEdit, Owned, EditB
<1>4. t # Cycle => ~FetchPages(t) /\ ~FetchFails(t) /\ ~SyncUsers(t)
  BY <1>1 DEF FetchPages, FetchFails, SyncUsers
<1>5. t # Cycle => ~MassStep(t)
  BY <1>1 DEF MassStep, FinishMass, RemovePeer, TogglePeer, CreatePeer, RecordOp, BreakServer, Current
<1> QED
  BY <1>2, <1>3, <1>4, <1>5 DEF RequestStep, SyncStep

LEMMA NextCut == TypeInv /\ TypeInv' /\ Owned /\ CutInv /\ [Next]_vars => CutInv'
<1> SUFFICES ASSUME TypeInv, TypeInv', Owned, CutInv, [Next]_vars PROVE CutInv'
  OBVIOUS
<1>1. may' = may
  <2>1. ASSUME NEW t \in Tasks, SyncStep(t) PROVE may' = may
    <3>1. CASE MassStep(t)
      BY <3>1 DEF MassStep, FinishMass, RemovePeer, TogglePeer, CreatePeer, RecordOp,
                  BreakServer, world
    <3> QED
      BY <2>1, <3>1 DEF SyncStep, FetchPages, FetchFails, SyncUsers, world
  <2>2. CASE CycleStep
    BY <2>1, <2>2 DEF CycleStep, StartCycle, ApplyUpdates, Scrape, ScrapeFails, ReadFrom, world
  <2>3. ASSUME NEW t \in Tasks, RequestStep(t) PROVE may' = may
    BY <2>1, <2>3 DEF RequestStep, SyncNow, SyncDelete, ToggleUser, UpdateUser, EditPeer,
                      SaveEdit, world
  <2>4. CASE World \/ UNCHANGED vars
    BY <2>4 DEF World, Flow, Restart, NextDay, AccountChanges, vars, world
  <2> QED
    BY <2>2, <2>3, <2>4 DEF Next
<1>2. CASE ~Alone
  BY <1>1, <1>2 DEF CutInv, Alone
<1>3. CASE Alone
  <2>1. CASE StartCycle
    <3>1. /\ pc[Cycle] = "idle" /\ UNCHANGED <<store, up, torn, may, todo, goal>>
          /\ \A t \in Tasks : t # Cycle => pc'[t] = pc[t]
      BY <2>1 DEF StartCycle, servers, world, ghosts, TypeInv, StageT
    <3> QED
      BY <3>1, CutSame
  <2>2. ASSUME NEW s \in Servers, Scrape(s) \/ ScrapeFails(s) PROVE CutInv'
    <3>1. UNCHANGED <<store, up, torn, may, todo, goal, pc>>
      BY <2>2 DEF Scrape, ScrapeFails, ReadFrom, servers, world, ghosts
    <3> QED
      BY <3>1, CutSame
  <2>3. CASE SyncStep(Cycle)
    <3>1. CASE MassStep(Cycle)
      BY <1>3, <3>1, FinishCut, ToggleCut, RemoveCut, CreateCut, RecordCut DEF MassStep
    <3> QED
      BY <1>3, <2>3, <3>1, FetchCut, SyncUsersCut DEF SyncStep
  <2>4. CASE World \/ UNCHANGED vars
    <3>1. UNCHANGED <<store, up, torn, may, todo, goal, pc>>
      BY <2>4 DEF World, Flow, Restart, NextDay, AccountChanges, vars, servers, world, local, ghosts
    <3> QED
      BY <3>1, CutSame
  <2> QED
    BY <1>3, <2>1, <2>2, <2>3, <2>4, ApplyCut, NoRequest DEF Next, CycleStep
<1> QED
  BY <1>2, <1>3

\* As long as only the cycle switches users, whoever is disabled has no working
\* peer when nothing is under way, but for connections the panel failed to bring in
\* line and for the peer made for an account that was not ACTIVE: the switches that
\* perform_mass_operations has left are exactly those the users to be disabled
\* still need, and the document is edited only after the last of them.
THEOREM TrafficCutOffWhenAlone == Spec => []CutOffWhenAlone
<1>1. TypeInv /\ CutInv => CutOffWhenAlone
  <2> SUFFICES ASSUME TypeInv, CutInv, Alone, Quiet, NEW u \in store.users, NEW c \in store.conns,
                      c.user = u.id, ~u.on, c.id \notin torn
               PROVE  c.id \notin up
    BY DEF CutOffWhenAlone, Alone
  <2>1. OffCut(store, {}, Cut)
    BY RestCut DEF Quiet
  <2>2. c.id \in Cut
    BY <2>1 DEF OffCut
  <2> QED
    BY <2>2 DEF Cut
<1>2. TypeInv /\ Owned /\ CutInv /\ [Next]_vars => (TypeInv /\ Owned /\ CutInv)'
  BY NextT, NextB, NextCut
<1> QED
  BY <1>1, <1>2, InitT, InitB, InitCut, PTL DEF Spec

-----------------------------------------------------------------------------
(* Nobody is charged too much *)

\* What the connections of a user may still be charged with: for each an amount
\* that no reading, whichever copy it is compared with, will exceed.
Mine(w, id) == {c \in Conns : w.owner[c] = id}
Covers(d, id, a, w) ==
    \A c \in Conns : w.owner[c] = id =>
        /\ c \in w.pend => w.meter[c] <= a[c]
        /\ \A k \in d.conns : k.id = c =>
            /\ Delta(k.last, w.meter[c]) <= a[c]
            /\ \A j \in w.marks : j.id = c => Delta(j.last, w.meter[c]) <= a[c]
            /\ \A x \in w.seen : x.conn = c => x.delta + Delta(x.curr, w.meter[c]) <= a[c]
\* A document whose charges and readings belong together.
Credit(d, w, bytes) ==
    \A u \in d.users : \E a \in [Conns -> Nat] :
        Covers(d, u.id, a, w) /\ u.total + Total(a, Mine(w, u.id)) <= bytes[u.id]

\* What the amounts depend on; marks are the readings deltas may be taken from.
Awaited == {j \in data[Cycle].conns : At[j.id] \in visit[Cycle]}
Book == [owner |-> owner, meter |-> meter, pend |-> Pending,
         marks |-> store.conns \cup Awaited, seen |-> got[Cycle]]
BookT(w) ==
    /\ w.owner \in [Conns -> Ids \cup {NoConn}] /\ w.meter \in [Conns -> Nat]
    /\ w.marks \subseteq Conn /\ w.seen \subseteq Update
    /\ \A id \in Ids : IsFiniteSet(Mine(w, id))

Sober == may \cap {"blank", "together"} = {}
CreditInv ==
    Sober =>
        /\ Credit(store, Book, moved)
        /\ \A t \in Tasks : pc[t] = "editing" => Credit(data[t], Book, moved)

LEMMA BookIs ==
    /\ Book.owner = owner /\ Book.meter = meter /\ Book.pend = Pending
    /\ Book.marks = store.conns \cup Awaited /\ Book.seen = got[Cycle]
BY DEF Book

LEMMA BookTyped == TypeInv /\ Owned => BookT(Book)
<1> SUFFICES ASSUME TypeInv, Owned PROVE BookT(Book)
  OBVIOUS
<1>1. owner \in [Conns -> Ids \cup {NoConn}] /\ meter \in [Conns -> Nat] /\ got[Cycle] \subseteq Update
  BY DEF TypeInv, GhostT, PeersT, GotT
<1>2. store.conns \subseteq Conn /\ Awaited \subseteq Conn
  BY DocEditsT DEF TypeInv, DataT, Awaited
<1>3. ASSUME NEW id \in Ids PROVE IsFiniteSet(Mine(Book, id))
  <2>1. Mine(Book, id) \subseteq {c \in Conns : owner[c] # NoConn}
    BY BookIs DEF Mine
  <2> QED
    BY <2>1, FS_Subset DEF Owned, OwnerB
<1> QED
  BY <1>1, <1>2, <1>3, BookIs DEF BookT

LEMMA DeltaZero == ASSUME NEW l \in Nat PROVE Delta(l, 0) = 0
BY DEF Delta

LEMMA DeltaSelf == ASSUME NEW m \in Nat PROVE Delta(m, m) = 0
BY DEF Delta

LEMMA DeltaGrows ==
    ASSUME NEW l \in Nat, NEW m \in Nat
    PROVE  Delta(l, m + 1) <= Delta(l, m) + 1
BY DEF Delta

\* Counters go on or back to zero, and there is less to be compared.
LEMMA CoversLess ==
    ASSUME NEW d, NEW e, DocT(d), NEW w, NEW w2, BookT(w), BookT(w2), NEW id, NEW a \in [Conns -> Nat],
           Covers(d, id, a, w), e.conns \subseteq d.conns, w2.owner = w.owner,
           \A c \in Conns : w2.meter[c] = w.meter[c] \/ w2.meter[c] = 0,
           w2.pend \subseteq w.pend, w2.marks \subseteq w.marks \cup d.conns, w2.seen \subseteq w.seen
    PROVE  Covers(e, id, a, w2)
<1> SUFFICES ASSUME NEW c \in Conns, w2.owner[c] = id
             PROVE  /\ c \in w2.pend => w2.meter[c] <= a[c]
                    /\ \A k \in e.conns : k.id = c =>
                        /\ Delta(k.last, w2.meter[c]) <= a[c]
                        /\ \A j \in w2.marks : j.id = c => Delta(j.last, w2.meter[c]) <= a[c]
                        /\ \A x \in w2.seen : x.conn = c =>
                                x.delta + Delta(x.curr, w2.meter[c]) <= a[c]
  BY DEF Covers
<1>1. a[c] \in Nat /\ w.meter[c] \in Nat
  BY DEF BookT
<1>2. d.conns \subseteq Conn /\ w.marks \subseteq Conn /\ w.seen \subseteq Update
  BY DocEditsT DEF BookT
<1>3. ASSUME NEW l \in Nat, Delta(l, w.meter[c]) <= a[c]
      PROVE  Delta(l, w2.meter[c]) <= a[c]
  BY <1>1, <1>3, DeltaZero
<1>4. c \in w2.pend => w2.meter[c] <= a[c]
  BY <1>1 DEF Covers
<1>5. ASSUME NEW k \in e.conns, k.id = c
      PROVE  /\ Delta(k.last, w2.meter[c]) <= a[c]
             /\ \A j \in w2.marks : j.id = c => Delta(j.last, w2.meter[c]) <= a[c]
             /\ \A x \in w2.seen : x.conn = c => x.delta + Delta(x.curr, w2.meter[c]) <= a[c]
  <2>1. k \in d.conns /\ k.last \in Nat
    BY <1>2 DEF Conn
  <2>2. Delta(k.last, w2.meter[c]) <= a[c]
    BY <1>3, <1>5, <2>1 DEF Covers
  <2>3. ASSUME NEW j \in w2.marks, j.id = c PROVE Delta(j.last, w2.meter[c]) <= a[c]
    <3>1. j.last \in Nat /\ Delta(j.last, w.meter[c]) <= a[c]
      BY <1>2, <1>5, <2>1, <2>3 DEF Covers, Conn
    <3> QED
      BY <1>3, <3>1
  <2>4. ASSUME NEW x \in w2.seen, x.conn = c
        PROVE  x.delta + Delta(x.curr, w2.meter[c]) <= a[c]
    <3>1. x.delta \in Nat /\ x.curr \in Nat
      BY <1>2 DEF Update
    <3>2. x.delta + Delta(x.curr, w.meter[c]) <= a[c]
      BY <1>5, <2>1, <2>4 DEF Covers
    <3>3. Delta(x.curr, w2.meter[c]) = Delta(x.curr, w.meter[c]) \/ Delta(x.curr, w2.meter[c]) = 0
      BY <3>1, DeltaZero
    <3>4. Delta(x.curr, w.meter[c]) \in Nat
      BY <1>1, <3>1, DeltaT
    <3> QED
      BY <1>1, <3>1, <3>2, <3>3, <3>4
  <2> QED
    BY <2>2, <2>3, <2>4
<1> QED
  BY <1>4, <1>5

LEMMA CreditLess ==
    ASSUME NEW d, NEW e, DocT(d), NEW w, NEW w2, BookT(w), BookT(w2), NEW bytes, Credit(d, w, bytes),
           \A v \in e.users : \E u \in d.users : v.id = u.id /\ v.total = u.total,
           e.conns \subseteq d.conns, w2.owner = w.owner,
           \A c \in Conns : w2.meter[c] = w.meter[c] \/ w2.meter[c] = 0,
           w2.pend \subseteq w.pend, w2.marks \subseteq w.marks \cup d.conns, w2.seen \subseteq w.seen
    PROVE  Credit(e, w2, bytes)
<1> SUFFICES ASSUME NEW v \in e.users
             PROVE  \E a \in [Conns -> Nat] :
                        Covers(e, v.id, a, w2) /\ v.total + Total(a, Mine(w2, v.id)) <= bytes[v.id]
  BY DEF Credit
<1>1. PICK u \in d.users : v.id = u.id /\ v.total = u.total
  OBVIOUS
<1>2. PICK a \in [Conns -> Nat] :
        Covers(d, u.id, a, w) /\ u.total + Total(a, Mine(w, u.id)) <= bytes[u.id]
  BY DEF Credit
<1>3. Covers(e, u.id, a, w2)
  BY <1>2, CoversLess
<1>4. Mine(w2, u.id) = Mine(w, u.id)
  BY DEF Mine
<1> QED
  BY <1>1, <1>2, <1>3, <1>4

\* A byte is transferred.
LEMMA CreditFlows ==
    ASSUME NEW d, DocT(d), NEW w, NEW w2, BookT(w), BookT(w2), NEW bytes, NEW bytes2,
           bytes \in [Ids -> Nat], NEW c0 \in Conns, w.owner[c0] \in Ids, Credit(d, w, bytes),
           w2.owner = w.owner, w2.meter = [w.meter EXCEPT ![c0] = @ + 1], w2.pend = w.pend,
           w2.marks = w.marks, w2.seen = w.seen,
           bytes2 = [bytes EXCEPT ![w.owner[c0]] = @ + 1]
    PROVE  Credit(d, w2, bytes2)
<1> SUFFICES ASSUME NEW u \in d.users
             PROVE  \E a \in [Conns -> Nat] :
                        Covers(d, u.id, a, w2) /\ u.total + Total(a, Mine(w2, u.id)) <= bytes2[u.id]
  BY DEF Credit
<1>1. PICK a \in [Conns -> Nat] :
        Covers(d, u.id, a, w) /\ u.total + Total(a, Mine(w, u.id)) <= bytes[u.id]
  BY DEF Credit
<1>2. u.id \in Ids /\ u.total \in Nat /\ d.conns \subseteq Conn
  BY DocEditsT DEF User
<1>3. Mine(w2, u.id) = Mine(w, u.id) /\ IsFiniteSet(Mine(w, u.id))
  BY <1>2 DEF Mine, BookT
<1>4. /\ w.meter \in [Conns -> Nat] /\ w2.meter[c0] = w.meter[c0] + 1
      /\ \A c \in Conns : c # c0 => w2.meter[c] = w.meter[c]
  BY DEF BookT
<1>5. CASE u.id # w.owner[c0]
  <2>1. Covers(d, u.id, a, w2)
    BY <1>1, <1>4, <1>5 DEF Covers
  <2>2. bytes2[u.id] = bytes[u.id]
    BY <1>2, <1>5
  <2> QED
    BY <1>1, <1>3, <2>1, <2>2
<1>6. CASE u.id = w.owner[c0]
  <2> DEFINE b == [a EXCEPT ![c0] = a[c0] + 1]
  <2>1. b \in [Conns -> Nat] /\ b[c0] = a[c0] + 1 /\ \A c \in Conns : c # c0 => b[c] = a[c]
    OBVIOUS
  <2> HIDE DEF b
  <2>2. Covers(d, u.id, b, w2)
    <3> SUFFICES ASSUME NEW c \in Conns, w.owner[c] = u.id
                 PROVE  /\ c \in w.pend => w2.meter[c] <= b[c]
                        /\ \A k \in d.conns : k.id = c =>
                            /\ Delta(k.last, w2.meter[c]) <= b[c]
                            /\ \A j \in w.marks : j.id = c => Delta(j.last, w2.meter[c]) <= b[c]
                            /\ \A x \in w.seen : x.conn = c =>
                                    x.delta + Delta(x.curr, w2.meter[c]) <= b[c]
      BY DEF Covers
    <3>1. CASE c # c0
      BY <1>1, <1>4, <2>1, <3>1 DEF Covers
    <3>2. CASE c = c0
      <4>1. w.meter[c] \in Nat /\ a[c] \in Nat /\ b[c] = a[c] + 1 /\ w2.meter[c] = w.meter[c] + 1
        BY <1>4, <2>1, <3>2
      <4> w2.meter[c] \in Nat
        BY <4>1
      <4>2. c \in w.pend => w2.meter[c] <= b[c]
        BY <1>1, <4>1 DEF Covers
      <4>3. ASSUME NEW l \in Nat, NEW n \in Nat, n + Delta(l, w.meter[c]) <= a[c]
            PROVE  n + Delta(l, w2.meter[c]) <= b[c]
        <5>1. Delta(l, w2.meter[c]) <= Delta(l, w.meter[c]) + 1
          BY <4>1, DeltaGrows
        <5>2. Delta(l, w2.meter[c]) \in Nat /\ Delta(l, w.meter[c]) \in Nat
          BY <4>1, DeltaT
        <5> QED
          BY <4>1, <4>3, <5>1, <5>2
      <4>4. ASSUME NEW l \in Nat, Delta(l, w.meter[c]) <= a[c]
            PROVE  Delta(l, w2.meter[c]) <= b[c]
        <5>1. Delta(l, w2.meter[c]) <= Delta(l, w.meter[c]) + 1
          BY <4>1, DeltaGrows
        <5>2. Delta(l, w2.meter[c]) \in Nat /\ Delta(l, w.meter[c]) \in Nat
          BY <4>1, DeltaT
        <5> QED
          BY <4>1, <4>4, <5>1, <5>2
      <4>5. ASSUME NEW k \in d.conns, k.id = c
            PROVE  /\ Delta(k.last, w2.meter[c]) <= b[c]
                   /\ \A j \in w.marks : j.id = c => Delta(j.last, w2.meter[c]) <= b[c]
                   /\ \A x \in w.seen : x.conn = c => x.delta + Delta(x.curr, w2.meter[c]) <= b[c]
        <5>1. k.last \in Nat /\ Delta(k.last, w.meter[c]) <= a[c]
          BY <1>1, <1>2, <4>5 DEF Covers, Conn
        <5>2. \A j \in w.marks : j.id = c => j.last \in Nat /\ Delta(j.last, w.meter[c]) <= a[c]
          BY <1>1, <4>5 DEF Covers, Conn, BookT
        <5>3. \A x \in w.seen : x.conn = c =>
                x.delta \in Nat /\ x.curr \in Nat /\ x.delta + Delta(x.curr, w.meter[c]) <= a[c]
          BY <1>1, <4>5 DEF Covers, Update, BookT
        <5>4. Delta(k.last, w2.meter[c]) <= b[c]
          BY <4>4, <5>1
        <5>5. \A j \in w.marks : j.id = c => Delta(j.last, w2.meter[c]) <= b[c]
          BY <4>4, <5>2
        <5>6. \A x \in w.seen : x.conn = c => x.delta + Delta(x.curr, w2.meter[c]) <= b[c]
          BY <4>3, <5>3
        <5> QED
          BY <5>4, <5>5, <5>6
      <4> QED
        BY <4>2, <4>5
    <3> QED
      BY <3>1, <3>2
  <2>3. Total(b, Mine(w, u.id)) + a[c0] = Total(a, Mine(w, u.id)) + b[c0]
    <3> DEFINE C == Mine(w, u.id)
    <3>1. C \subseteq Conns /\ c0 \in C /\ IsFiniteSet(C)
      BY <1>3, <1>6 DEF Mine
    <3> HIDE DEF C
    <3>2. \A e \in C : a[e] \in Nat /\ b[e] \in Nat
      BY <2>1, <3>1
    <3>3. \A e \in C \ {c0} : b[e] = a[e]
      BY <2>1, <3>1
    <3>4. Total(b, C) + a[c0] = Total(a, C) + b[c0]
      BY ONLY <3>1, <3>2, <3>3, TotalMoves
    <3> QED
      BY <3>4 DEF C
  <2>4. Total(a, Mine(w, u.id)) \in Nat /\ Total(b, Mine(w, u.id)) \in Nat
    <3>1. \A c \in Mine(w, u.id) : a[c] \in Nat /\ b[c] \in Nat
      BY <2>1 DEF Mine
    <3> QED
      BY <1>3, <3>1, RecDeltas
  <2>5. bytes2[u.id] = bytes[u.id] + 1 /\ bytes[u.id] \in Nat /\ a[c0] \in Nat
    BY <1>2, <1>6
  <2>6. u.total + Total(b, Mine(w, u.id)) <= bytes2[u.id]
    BY <1>1, <1>2, <2>1, <2>3, <2>4, <2>5
  <2> QED
    BY <1>3, <2>1, <2>2, <2>6
<1> QED
  BY <1>5, <1>6

\* A peer is made: nothing has passed over it yet.
LEMMA CreditCreated ==
    ASSUME NEW d, DocT(d), NEW w, NEW w2, BookT(w), BookT(w2), NEW bytes, Credit(d, w, bytes),
           NEW c0 \in Conns, NEW id \in Ids, w.owner[c0] = NoConn,
           w2.owner = [w.owner EXCEPT ![c0] = id], w2.meter = w.meter, w.meter[c0] = 0,
           w2.pend \subseteq w.pend \cup {c0}, w2.marks = w.marks, w2.seen = w.seen,
           \A k \in d.conns : k.id # c0
    PROVE  Credit(d, w2, bytes)
<1> SUFFICES ASSUME NEW u \in d.users
             PROVE  \E a \in [Conns -> Nat] :
                        Covers(d, u.id, a, w2) /\ u.total + Total(a, Mine(w2, u.id)) <= bytes[u.id]
  BY DEF Credit
<1>1. PICK a \in [Conns -> Nat] :
        Covers(d, u.id, a, w) /\ u.total + Total(a, Mine(w, u.id)) <= bytes[u.id]
  BY DEF Credit
<1>2. u.id \in Ids
  BY DocEditsT DEF User
<1>3. w2.owner[c0] = id /\ \A c \in Conns : c # c0 => w2.owner[c] = w.owner[c]
  BY DEF BookT
<1>4. ASSUME NEW b \in [Conns -> Nat], \A c \in Conns : c # c0 => b[c] = a[c]
      PROVE  Covers(d, u.id, b, w2)
  <2> SUFFICES ASSUME NEW c \in Conns, w2.owner[c] = u.id
               PROVE  /\ c \in w2.pend => w2.meter[c] <= b[c]
                      /\ \A k \in d.conns : k.id = c =>
                          /\ Delta(k.last, w2.meter[c]) <= b[c]
                          /\ \A j \in w2.marks : j.id = c => Delta(j.last, w2.meter[c]) <= b[c]
                          /\ \A x \in w2.seen : x.conn = c =>
                                x.delta + Delta(x.curr, w2.meter[c]) <= b[c]
    BY DEF Covers
  <2>1. CASE c = c0
    BY <2>1
  <2>2. CASE c # c0
    BY <1>1, <1>3, <1>4, <2>2 DEF Covers
  <2> QED
    BY <2>1, <2>2
<1>5. CASE u.id # id
  <2>1. Mine(w2, u.id) = Mine(w, u.id)
    BY <1>2, <1>3, <1>5 DEF Mine
  <2> QED
    BY <1>1, <1>4, <2>1
<1>6. CASE u.id = id
  <2> DEFINE b == [a EXCEPT ![c0] = 0]
             C == Mine(w, u.id)
  <2>1. b \in [Conns -> Nat] /\ b[c0] = 0 /\ \A c \in Conns : c # c0 => b[c] = a[c]
    OBVIOUS
  <2>2. Mine(w2, u.id) = C \cup {c0} /\ c0 \notin C /\ C \subseteq Conns
    BY <1>2, <1>3, <1>6 DEF Mine
  <2>3. IsFiniteSet(C)
    BY <1>2 DEF BookT
  <2> HIDE DEF b, C
  <2>4. \A e \in C \cup {c0} : b[e] \in Nat
    BY <2>1, <2>2
  <2>5. Total(b, C \cup {c0}) = Total(b, C) + b[c0]
    <3>1. IsFiniteSet(C) /\ c0 \notin C /\ \A e \in C \cup {c0} : b[e] \in Nat
      BY <2>2, <2>3, <2>4
    <3> QED
      BY ONLY <3>1, TotalAdds
  <2>6. \A e \in C : b[e] = a[e]
    BY <2>1, <2>2
  <2>7. Total(b, C) = Total(a, C)
    BY <2>6, TotalSame
  <2>8. Total(a, C) \in Nat
    BY <2>3, <2>4, <2>6, RecDeltas
  <2>9. Total(b, Mine(w2, u.id)) = Total(a, Mine(w, u.id))
    BY <2>1, <2>2, <2>5, <2>7, <2>8 DEF C
  <2> QED
    BY <1>1, <1>4, <2>1, <2>9
<1> QED
  BY <1>5, <1>6

\* The connection is recorded, with nothing read yet.
LEMMA CreditRecorded ==
    ASSUME NEW d, NEW e, DocT(d), NEW w, NEW w2, BookT(w), BookT(w2), NEW bytes, Credit(d, w, bytes),
           NEW k0, k0.id \in w.pend, k0.last = 0,
           e.users = d.users, e.conns \subseteq d.conns \cup {k0},
           w2.owner = w.owner, w2.meter = w.meter, w2.pend \subseteq w.pend,
           w2.marks \subseteq w.marks \cup {k0}, w2.seen = w.seen,
           \A k \in d.conns \cup w.marks : k.id # k0.id, \A x \in w.seen : x.conn # k0.id
    PROVE  Credit(e, w2, bytes)
<1> SUFFICES ASSUME NEW u \in d.users
             PROVE  \E a \in [Conns -> Nat] :
                        Covers(e, u.id, a, w2) /\ u.total + Total(a, Mine(w2, u.id)) <= bytes[u.id]
  BY DEF Credit
<1>1. PICK a \in [Conns -> Nat] :
        Covers(d, u.id, a, w) /\ u.total + Total(a, Mine(w, u.id)) <= bytes[u.id]
  BY DEF Credit
<1>2. Mine(w2, u.id) = Mine(w, u.id)
  BY DEF Mine
<1>3. Covers(e, u.id, a, w2)
  <2> SUFFICES ASSUME NEW c \in Conns, w.owner[c] = u.id
               PROVE  /\ c \in w2.pend => w.meter[c] <= a[c]
                      /\ \A k \in e.conns : k.id = c =>
                          /\ Delta(k.last, w.meter[c]) <= a[c]
                          /\ \A j \in w2.marks : j.id = c => Delta(j.last, w.meter[c]) <= a[c]
                          /\ \A x \in w2.seen : x.conn = c =>
                                x.delta + Delta(x.curr, w.meter[c]) <= a[c]
    BY DEF Covers
  <2>1. c \in w2.pend => w.meter[c] <= a[c]
    BY <1>1 DEF Covers
  <2>2. CASE c # k0.id
    <3>1. ASSUME NEW k \in e.conns, k.id = c PROVE k \in d.conns
      BY <2>2, <3>1
    <3>2. ASSUME NEW j \in w2.marks, j.id = c PROVE j \in w.marks
      BY <2>2, <3>2
    <3> QED
      BY <1>1, <2>1, <3>1, <3>2 DEF Covers
  <2>3. CASE c = k0.id
    <3>1. w.meter[c] \in Nat /\ w.meter[c] <= a[c]
      BY <1>1, <2>3 DEF Covers, BookT
    <3>2. Delta(0, w.meter[c]) <= a[c]
      BY <3>1 DEF Delta
    <3>3. \A k \in e.conns \cup w2.marks : k.id = c => k.last = 0
      BY <2>3
    <3>4. \A x \in w2.seen : x.conn # c
      BY <2>3
    <3> QED
      BY <2>1, <3>2, <3>3, <3>4
  <2> QED
    BY <2>2, <2>3
<1> QED
  BY <1>1, <1>2, <1>3

\* A reading is taken, and compared with the copy.
LEMMA CreditScraped ==
    ASSUME NEW d, DocT(d), NEW w, NEW w2, BookT(w), BookT(w2), NEW bytes, Credit(d, w, bytes),
           w2.owner = w.owner, w2.meter = w.meter, w2.pend = w.pend, w2.marks \subseteq w.marks,
           \A x \in w2.seen : \/ x \in w.seen
                              \/ \E j \in w.marks : /\ x.conn = j.id
                                                    /\ x.delta = Delta(j.last, w.meter[j.id])
                                                    /\ x.curr = w.meter[j.id]
    PROVE  Credit(d, w2, bytes)
<1> SUFFICES ASSUME NEW u \in d.users
             PROVE  \E a \in [Conns -> Nat] :
                        Covers(d, u.id, a, w2) /\ u.total + Total(a, Mine(w2, u.id)) <= bytes[u.id]
  BY DEF Credit
<1>1. PICK a \in [Conns -> Nat] :
        Covers(d, u.id, a, w) /\ u.total + Total(a, Mine(w, u.id)) <= bytes[u.id]
  BY DEF Credit
<1>2. Mine(w2, u.id) = Mine(w, u.id)
  BY DEF Mine
<1>3. Covers(d, u.id, a, w2)
  <2> SUFFICES ASSUME NEW c \in Conns, w.owner[c] = u.id,
                      NEW k \in d.conns, k.id = c, NEW x \in w2.seen, x.conn = c
               PROVE  x.delta + Delta(x.curr, w.meter[c]) <= a[c]
    BY <1>1 DEF Covers
  <2>1. CASE x \in w.seen
    BY <1>1, <2>1 DEF Covers
  <2>2. CASE \E j \in w.marks : /\ x.conn = j.id /\ x.delta = Delta(j.last, w.meter[j.id])
                                /\ x.curr = w.meter[j.id]
    <3>1. PICK j \in w.marks : /\ c = j.id /\ x.delta = Delta(j.last, w.meter[c])
                               /\ x.curr = w.meter[c]
      BY <2>2
    <3>2. w.meter[c] \in Nat /\ j.last \in Nat
      BY DEF BookT, Conn
    <3>3. Delta(j.last, w.meter[c]) <= a[c] /\ Delta(j.last, w.meter[c]) \in Nat
      BY <1>1, <3>1, <3>2, DeltaT DEF Covers
    <3>4. Delta(x.curr, w.meter[c]) = 0
      BY <3>1, <3>2, DeltaSelf
    <3> QED
      BY <3>1, <3>3, <3>4
  <2> QED
    BY <2>1, <2>2
<1> QED
  BY <1>1, <1>2, <1>3

\* A copy, while what was read is charged to the document.
LEMMA CreditStale ==
    ASSUME NEW d, DocT(d), NEW w, NEW w2, BookT(w), BookT(w2), NEW bytes, Credit(d, w, bytes),
           w2.owner = w.owner, w2.meter = w.meter, w2.pend \subseteq w.pend, w2.seen = {},
           \A j \in w2.marks : \/ j \in w.marks
                               \/ \E x \in w.seen : x.conn = j.id /\ x.curr = j.last
    PROVE  Credit(d, w2, bytes)
<1> SUFFICES ASSUME NEW u \in d.users
             PROVE  \E a \in [Conns -> Nat] :
                        Covers(d, u.id, a, w2) /\ u.total + Total(a, Mine(w2, u.id)) <= bytes[u.id]
  BY DEF Credit
<1>1. PICK a \in [Conns -> Nat] :
        Covers(d, u.id, a, w) /\ u.total + Total(a, Mine(w, u.id)) <= bytes[u.id]
  BY DEF Credit
<1>2. Mine(w2, u.id) = Mine(w, u.id)
  BY DEF Mine
<1>3. Covers(d, u.id, a, w2)
  <2> SUFFICES ASSUME NEW c \in Conns, w.owner[c] = u.id,
                      NEW k \in d.conns, k.id = c, NEW j \in w2.marks, j.id = c
               PROVE  Delta(j.last, w.meter[c]) <= a[c]
    BY <1>1 DEF Covers
  <2>1. CASE j \in w.marks
    BY <1>1, <2>1 DEF Covers
  <2>2. CASE \E x \in w.seen : x.conn = j.id /\ x.curr = j.last
    <3>1. PICK x \in w.seen : x.conn = c /\ x.curr = j.last
      BY <2>2
    <3>2. x.delta \in Nat /\ j.last \in Nat /\ w.meter[c] \in Nat /\ a[c] \in Nat
      BY DEF BookT, Conn, Update
    <3>3. x.delta + Delta(j.last, w.meter[c]) <= a[c]
      BY <1>1, <3>1 DEF Covers
    <3>4. Delta(j.last, w.meter[c]) \in Nat
      BY <3>2, DeltaT
    <3> QED
      BY <3>2, <3>3, <3>4
  <2> QED
    BY <2>1, <2>2
<1> QED
  BY <1>1, <1>2, <1>3

\* What was read is charged: the amounts shrink by what the total grows.
LEMMA CreditCharged ==
    ASSUME NEW d, DocT(d), NEW w, NEW w2, BookT(w), BookT(w2), NEW bytes, bytes \in [Ids -> Nat],
           Credit(d, w, bytes), NEW ups, ups = w.seen, IsFiniteSet(ups),
           \A k \in d.conns : w.owner[k.id] = k.user,
           \A x, y \in ups : x.conn = y.conn => x = y,
           \A x \in ups : x.conn \notin w.pend,
           w2.owner = w.owner, w2.meter = w.meter, w2.pend \subseteq w.pend, w2.seen = {},
           w2.marks \subseteq Charged(d, ups).conns
    PROVE  Credit(Charged(d, ups), w2, bytes)
<1> DEFINE e == Charged(d, ups)
<1>0. d.conns \subseteq Conn /\ d.users \subseteq User /\ ups \subseteq Update
  BY DocEditsT DEF BookT
<1>1. \A v \in e.users : \E u \in d.users :
        v.id = u.id /\ v.total = u.total + Sum(UpdatesOf(d, ups, u.id))
  BY <1>0 DEF Charged, User
<1>2. \A k \in e.conns : \E j \in d.conns :
        /\ k.id = j.id
        /\ \/ \E x \in ups : x.conn = k.id /\ k.last = x.curr
           \/ (\A x \in ups : x.conn # k.id) /\ k.last = j.last
  <2> SUFFICES ASSUME NEW j \in d.conns, NEW k,
                      k = IF \E x \in ups : x.conn = j.id
                          THEN [j EXCEPT !.last = (CHOOSE x \in ups : x.conn = j.id).curr]
                          ELSE j
               PROVE  /\ k.id = j.id
                      /\ \/ \E x \in ups : x.conn = k.id /\ k.last = x.curr
                         \/ (\A x \in ups : x.conn # k.id) /\ k.last = j.last
    BY DEF Charged
  <2>1. j \in Conn
    BY <1>0
  <2>2. CASE \E x \in ups : x.conn = j.id
    <3> DEFINE x == CHOOSE y \in ups : y.conn = j.id
    <3>1. x \in ups /\ x.conn = j.id
      BY <2>2
    <3>2. k.id = j.id /\ k.last = x.curr
      BY <2>1, <2>2 DEF Conn
    <3> HIDE DEF x
    <3> QED
      BY <3>1, <3>2
  <2>3. CASE ~ \E x \in ups : x.conn = j.id
    BY <2>3
  <2> QED
    BY <2>2, <2>3
<1> SUFFICES ASSUME NEW v \in e.users
             PROVE  \E b \in [Conns -> Nat] :
                        Covers(e, v.id, b, w2) /\ v.total + Total(b, Mine(w2, v.id)) <= bytes[v.id]
  BY DEF Credit
<1>3. PICK u \in d.users : v.id = u.id /\ v.total = u.total + Sum(UpdatesOf(d, ups, u.id))
  BY <1>1
<1>4. PICK a \in [Conns -> Nat] :
        Covers(d, u.id, a, w) /\ u.total + Total(a, Mine(w, u.id)) <= bytes[u.id]
  BY DEF Credit
<1> DEFINE mine == UpdatesOf(d, ups, u.id)
           C == Mine(w, u.id)
           b == After(a, mine)
<1>5. u.id \in Ids /\ u.total \in Nat /\ bytes[u.id] \in Nat
  BY <1>0 DEF User
<1>6. /\ mine \subseteq ups /\ IsFiniteSet(mine)
      /\ \A x \in mine : \E k \in d.conns : k.id = x.conn /\ k.user = u.id
  BY FS_Subset DEF UpdatesOf
<1>7. C \in SUBSET Conns /\ IsFiniteSet(C)
  BY <1>5 DEF Mine, BookT
<1>8. ASSUME NEW x \in mine
      PROVE  /\ x.conn \in C /\ x.delta \in Nat
             /\ x.delta + Delta(x.curr, w.meter[x.conn]) <= a[x.conn]
             /\ x.delta <= a[x.conn]
  <2>1. PICK k \in d.conns : k.id = x.conn /\ k.user = u.id
    BY <1>6
  <2>2. x.conn \in Conns /\ x.delta \in Nat /\ x.curr \in Nat /\ w.meter[x.conn] \in Nat
        /\ a[x.conn] \in Nat
    BY <1>0, <1>6 DEF Update, BookT
  <2>3. w.owner[x.conn] = u.id
    BY <2>1
  <2>4. x.delta + Delta(x.curr, w.meter[x.conn]) <= a[x.conn]
    BY <1>4, <1>6, <2>1, <2>2, <2>3 DEF Covers
  <2>5. Delta(x.curr, w.meter[x.conn]) \in Nat
    BY <2>2, DeltaT
  <2> QED
    BY <2>2, <2>3, <2>4, <2>5 DEF Mine
<1>9. /\ b \in [Conns -> Nat] /\ Total(b, C) + Sum(mine) = Total(a, C)
  <2>1. Deltas(mine)
    BY <1>6, <1>8 DEF Deltas
  <2>2. \A x, y \in mine : x.conn = y.conn => x = y
    BY <1>6
  <2>3. \A x \in mine : x.conn \in C /\ x.delta <= a[x.conn]
    BY <1>8
  <2> HIDE DEF mine, C
  <2> QED
    BY ONLY <1>7, <2>1, <2>2, <2>3, a \in [Conns -> Nat], ChargeTakes
<1>10. \A x \in mine : b[x.conn] = a[x.conn] - x.delta
  <2> SUFFICES ASSUME NEW x \in mine PROVE b[x.conn] = a[x.conn] - x.delta
    OBVIOUS
  <2>1. \A y \in mine : y.conn = x.conn => y = x
    BY <1>6
  <2>2. x.conn \in Conns
    BY <1>7, <1>8
  <2> HIDE DEF mine
  <2> QED
    BY <2>1, <2>2, AfterTakes
<1>11. \A c \in Conns : (\A x \in mine : x.conn # c) => b[c] = a[c]
  BY DEF After
<1> HIDE DEF mine, C, b, e
<1>12. Covers(e, u.id, b, w2)
  <2> SUFFICES ASSUME NEW c \in Conns, w.owner[c] = u.id
               PROVE  /\ c \in w2.pend => w.meter[c] <= b[c]
                      /\ \A k \in e.conns : k.id = c =>
                          /\ Delta(k.last, w.meter[c]) <= b[c]
                          /\ \A j \in w2.marks : j.id = c => Delta(j.last, w.meter[c]) <= b[c]
    BY DEF Covers
  <2>1. c \in w2.pend => w.meter[c] <= b[c]
    <3> SUFFICES ASSUME c \in w.pend PROVE w.meter[c] <= b[c]
      OBVIOUS
    <3>1. \A x \in mine : x.conn # c
      BY <1>6
    <3> QED
      BY <1>4, <1>11, <3>1 DEF Covers
  <2>2. ASSUME NEW k \in e.conns, k.id = c PROVE Delta(k.last, w.meter[c]) <= b[c]
    <3>1. PICK j \in d.conns : /\ k.id = j.id
                               /\ \/ \E x \in ups : x.conn = k.id /\ k.last = x.curr
                                  \/ (\A x \in ups : x.conn # k.id) /\ k.last = j.last
      BY <1>2 DEF e
    <3>2. CASE \E x \in ups : x.conn = k.id /\ k.last = x.curr
      <4>1. PICK x \in ups : x.conn = c /\ k.last = x.curr
        BY <2>2, <3>2
      <4>2. x \in mine
        <5>1. j.id = c
          BY <2>2, <3>1
        <5>2. w.owner[j.id] = j.user
          OBVIOUS
        <5>3. j.user = u.id
          BY <5>1, <5>2
        <5> QED
          BY <4>1, <5>1, <5>3 DEF mine, UpdatesOf
      <4>3. x.delta \in Nat /\ x.delta + Delta(x.curr, w.meter[c]) <= a[c] /\ b[c] = a[c] - x.delta
        BY <1>8, <1>10, <4>1, <4>2
      <4>4. Delta(x.curr, w.meter[c]) \in Nat /\ a[c] \in Nat
        <5>1. x.curr \in Nat /\ w.meter[c] \in Nat
          BY <1>0 DEF Update, BookT
        <5> QED
          BY <5>1, DeltaT
      <4> QED
        BY <4>1, <4>3, <4>4
    <3>3. CASE (\A x \in ups : x.conn # k.id) /\ k.last = j.last
      <4>1. \A x \in mine : x.conn # c
        BY <1>6, <2>2, <3>3
      <4>2. b[c] = a[c]
        BY <1>11, <4>1
      <4>3. Delta(j.last, w.meter[c]) <= a[c]
        BY <1>4, <2>2, <3>1 DEF Covers
      <4> QED
        BY <3>3, <4>2, <4>3
    <3> QED
      BY <3>1, <3>2, <3>3
  <2>3. \A j \in w2.marks : j.id = c => Delta(j.last, w.meter[c]) <= b[c]
    BY <2>2 DEF e
  <2> QED
    BY <2>1, <2>2, <2>3
<1>13. Mine(w2, v.id) = C
  BY <1>3 DEF Mine, C
<1>14. Total(b, C) \in Nat /\ Sum(mine) \in Nat
  <2>1. \A c \in C : b[c] \in Nat
    BY <1>7, <1>9
  <2>2. Total(b, C) \in Nat
    BY <1>7, <2>1, RecDeltas
  <2>3. Deltas(mine)
    BY <1>6, <1>8 DEF Deltas
  <2> QED
    BY <2>2, <2>3, SumTyped
<1>15. v.total + Total(b, C) <= bytes[v.id]
  <2>1. v.total = u.total + Sum(mine) /\ u.total + Total(a, C) <= bytes[v.id]
    BY <1>3, <1>4 DEF mine, C
  <2> QED
    BY <1>3, <1>5, <1>9, <1>14, <2>1
<1> QED
  BY <1>3, <1>9, <1>12, <1>13, <1>15

LEMMA BookNext == TypeInv' /\ Owned' => BookT(Book)'
BY BookTyped, PTL

\* A step that transfers nothing and records nothing new.
LEMMA CreditKept ==
    ASSUME TypeInv, Owned, TypeInv', Owned', CreditInv,
           owner' = owner, moved' = moved, may' = may,
           \A c \in Conns : meter'[c] = meter[c] \/ meter'[c] = 0,
           Pending' \subseteq Pending, got'[Cycle] \subseteq got[Cycle],
           store'.conns \subseteq store.conns,
           \A v \in store'.users : \E u \in store.users : v.id = u.id /\ v.total = u.total,
           \/ data'[Cycle] = data[Cycle] /\ visit'[Cycle] \subseteq visit[Cycle]
           \/ data'[Cycle] = store
           \/ pc'[Cycle] # "scrape",
           \A t \in Tasks : pc'[t] = "editing" => pc[t] = "editing" /\ data'[t] = data[t]
    PROVE  CreditInv'
<1> SUFFICES ASSUME Sober
             PROVE  /\ Credit(store', Book', moved)
                    /\ \A t \in Tasks : pc'[t] = "editing" => Credit(data[t], Book', moved)
  BY DEF CreditInv, Sober
<1>1. Awaited' \subseteq Awaited \cup store.conns
  <2>1. pc'[Cycle] # "scrape" => visit'[Cycle] = {}
    BY DEF Owned, GotB
  <2> QED
    BY <2>1 DEF Awaited
<1>2. BookT(Book) /\ BookT(Book')
  BY BookTyped, BookNext
<1>3. /\ Book.owner = owner /\ Book.meter = meter /\ Book.pend = Pending
      /\ Book.marks = store.conns \cup Awaited /\ Book.seen = got[Cycle]
  BY BookIs
<1>4. /\ Book'.owner = owner' /\ Book'.meter = meter' /\ Book'.pend = Pending'
      /\ Book'.marks = store'.conns \cup Awaited' /\ Book'.seen = got'[Cycle]
  BY DEF Book
<1>5. /\ Book'.owner = Book.owner
      /\ \A c \in Conns : Book'.meter[c] = Book.meter[c] \/ Book'.meter[c] = 0
      /\ Book'.pend \subseteq Book.pend /\ Book'.marks \subseteq Book.marks
      /\ Book'.seen \subseteq Book.seen
  BY <1>1, <1>3, <1>4
<1>6. Credit(store', Book', moved)
  <2>1. DocT(store) /\ Credit(store, Book, moved)
    BY DEF TypeInv, CreditInv
  <2> QED
    BY <1>2, <1>5, <2>1, CreditLess
<1>7. ASSUME NEW t \in Tasks, pc'[t] = "editing" PROVE Credit(data[t], Book', moved)
  <2>1. DocT(data[t]) /\ Credit(data[t], Book, moved)
    BY <1>7 DEF TypeInv, DataT, CreditInv
  <2> QED
    BY <1>2, <1>5, <2>1, CreditLess
<1> QED
  BY <1>6, <1>7

LEMMA PeersCredit ==
    ASSUME TypeInv, Owned, TypeInv', Owned', CreditInv, NEW t \in Tasks, NEW s \in Servers,
           RemovePeer(t, s) \/ TogglePeer(t, s) \/ BreakServer(t, s)
    PROVE  CreditInv'
<1>1. UNCHANGED <<store, may, pc, data, visit, got, owner, issued, moved>>
  BY DEF RemovePeer, TogglePeer, BreakServer, SwitchPeer, world, ghosts
<1>2. \A c \in Conns : meter'[c] = meter[c] \/ meter'[c] = 0
  BY DEF RemovePeer, TogglePeer, BreakServer, SwitchPeer, servers, TypeInv, PeersT
<1>3. Pending' \subseteq Pending
  <2>1. CASE RemovePeer(t, s)
    <3>1. PICK op \in todo[t][s] : op.kind # "create" /\ Did(t, s, op, op.conn)
      BY <2>1 DEF RemovePeer
    <3> QED
      BY <1>1, <3>1, DidB
  <2>2. CASE TogglePeer(t, s)
    <3>1. PICK op \in todo[t][s] : op.kind # "create" /\ Did(t, s, op, op.conn)
      BY <2>2 DEF TogglePeer
    <3> QED
      BY <1>1, <3>1, DidB
  <2>3. CASE BreakServer(t, s)
    <3>1. {} \in SUBSET todo[t][s] /\ todo' = [todo EXCEPT ![t][s] = {}]
      BY <2>3 DEF BreakServer
    <3> QED
      BY <1>1, <3>1, FewerB
  <2> QED
    BY <2>1, <2>2, <2>3
<1> QED
  BY <1>1, <1>2, <1>3, CreditKept

LEMMA FinishMassCredit ==
    ASSUME TypeInv, Owned, TypeInv', Owned', CreditInv, NEW t \in Tasks, FinishMass(t)
    PROVE  CreditInv'
<1>1. /\ pc[t] = "mass" /\ store' = Cleaned(store, goal[t]) /\ Continue(t, goal[t].next, store')
      /\ UNCHANGED <<peers, meter, may, visit, got, todo, owner, issued, moved>>
  BY DEF FinishMass, servers, world, ghosts
<1>2. Pending' \subseteq Pending
  BY <1>1, OpsSame
<1>3. /\ store'.conns \subseteq store.conns
      /\ \A v \in store'.users : \E u \in store.users : v.id = u.id /\ v.total = u.total
  <2>1. store.users \subseteq User
    BY DocEditsT DEF TypeInv
  <2> QED
    BY <1>1, <2>1 DEF Cleaned, User
<1>4. \A r \in Tasks : r # t => data'[r] = data[r]
  BY <1>1 DEF Continue, TypeInv, DataT
<1>5. /\ \A r \in Tasks : pc'[r] = pc[r] \/ (r = t /\ pc'[r] \in {"fetch", "users", "idle"})
      /\ pc'[t] \in {"fetch", "users", "idle"}
  BY <1>1, ContinueB
<1> QED
  BY <1>1, <1>2, <1>3, <1>4, <1>5, CreditKept

LEMMA FetchCredit ==
    ASSUME TypeInv, Owned, TypeInv', Owned', CreditInv, NEW t \in Tasks,
           FetchPages(t) \/ FetchFails(t)
    PROVE  CreditInv'
<1> DEFINE gone == {u.id : u \in {v \in data[t].users : v.linked /\ v.name \notin DOMAIN accounts}}
<1>1. /\ pc[t] = "fetch" /\ data' = [data EXCEPT ![t] = NoDoc]
      /\ UNCHANGED <<store, peers, meter, may, visit, got, owner, issued, moved>>
  BY DEF FetchPages, FetchFails, servers, world, ghosts
<1>2. \/ StartMass(t, store, gone, {}, {}, "users")
      \/ (pc' = [pc EXCEPT ![t] = "users"] \/ pc' = [pc EXCEPT ![t] = "idle"]) /\ todo' = todo
  BY DEF FetchPages, FetchFails
<1> HIDE DEF gone
<1>3. DocT(store) /\ Belongs(store, owner, issued, Pending)
  BY DEF TypeInv, Owned, DocsB
<1>4. Pending' \subseteq Pending
  <2>1. CASE StartMass(t, store, gone, {}, {}, "users")
    <3>1. {} \in SUBSET issued' /\ Belongs(store, owner, issued', Pending)
      BY <1>1, <1>3
    <3> QED
      BY <1>1, <1>3, <2>1, <3>1, StartMassB
  <2> QED
    BY <1>1, <1>2, <2>1, OpsSame
<1>5. \A r \in Tasks : r # t => data'[r] = data[r] /\ pc'[r] = pc[r]
  BY <1>1, <1>2 DEF TypeInv, DataT, StageT, StartMass
<1>6. pc'[t] \in {"mass", "users", "idle"}
  <2>1. \E stage \in {"mass", "users", "idle"} : pc' = [pc EXCEPT ![t] = stage]
    BY <1>2 DEF StartMass
  <2> QED
    BY <2>1 DEF TypeInv, StageT
<1> QED
  BY <1>1, <1>4, <1>5, <1>6, CreditKept

LEMMA RequestCredit ==
    ASSUME TypeInv, Owned, TypeInv', Owned', CreditInv, NEW t \in Tasks,
           SyncNow(t) \/ SyncDelete(t)
    PROVE  CreditInv'
<1> DEFINE gone == {u.id : u \in {v \in store.users : v.linked}}
<1>1. /\ pc[t] = "idle" /\ t # Cycle
      /\ UNCHANGED <<store, peers, meter, may, visit, got, owner, issued, moved>>
  BY DEF SyncNow, SyncDelete, servers, world, ghosts
<1>2. \/ StartMass(t, store, gone, {}, {}, "end") /\ data' = data
      \/ /\ pc' = [pc EXCEPT ![t] = "fetch"] /\ todo' = todo
         /\ data' = [data EXCEPT ![t] = store]
  BY DEF SyncNow, SyncDelete
<1> HIDE DEF gone
<1>3. DocT(store) /\ Belongs(store, owner, issued, Pending)
  BY DEF TypeInv, Owned, DocsB
<1>4. Pending' \subseteq Pending
  <2>1. CASE StartMass(t, store, gone, {}, {}, "end")
    <3>1. {} \in SUBSET issued' /\ Belongs(store, owner, issued', Pending)
      BY <1>1, <1>3
    <3> QED
      BY <1>1, <1>3, <2>1, <3>1, StartMassB
  <2> QED
    BY <1>1, <1>2, <2>1, OpsSame
<1>5. \A r \in Tasks : r # t => data'[r] = data[r] /\ pc'[r] = pc[r]
  BY <1>1, <1>2 DEF TypeInv, DataT, StageT, StartMass
<1>6. pc'[t] \in {"mass", "fetch"}
  <2>1. \E stage \in {"mass", "fetch"} : pc' = [pc EXCEPT ![t] = stage]
    BY <1>2 DEF StartMass
  <2> QED
    BY <2>1 DEF TypeInv, StageT
<1>7. data'[Cycle] = data[Cycle]
  BY <1>1, <1>5
<1> QED
  BY <1>1, <1>4, <1>5, <1>6, <1>7, CreditKept

LEMMA StartCycleCredit ==
    ASSUME TypeInv, Owned, TypeInv', Owned', CreditInv, StartCycle
    PROVE  CreditInv'
<1>1. /\ pc' = [pc EXCEPT ![Cycle] = "scrape"] /\ data' = [data EXCEPT ![Cycle] = store]
      /\ UNCHANGED <<store, peers, meter, may, got, todo, owner, issued, moved>>
  BY DEF StartCycle, servers, world, ghosts
<1>2. Pending' \subseteq Pending
  BY <1>1, OpsSame
<1>3. data'[Cycle] = store /\ pc'[Cycle] = "scrape"
  BY <1>1 DEF TypeInv, DataT, StageT
<1>4. \A r \in Tasks : r # Cycle => data'[r] = data[r] /\ pc'[r] = pc[r]
  BY <1>1 DEF TypeInv, DataT, StageT
<1> QED
  BY <1>1, <1>2, <1>3, <1>4, CreditKept

LEMMA EditPeerCredit ==
    ASSUME TypeInv, Owned, TypeInv', Owned', CreditInv, NEW t \in Tasks, EditPeer(t)
    PROVE  CreditInv'
<1>1. PICK c \in visit[t], u \in data[t].users :
        /\ pc[t] = "editing" /\ visit' = [visit EXCEPT ![t] = @ \ {c}]
        /\ \/ SwitchPeer(c, u.on)
           \/ UNCHANGED <<servers, owner, moved, issued>>
  BY DEF EditPeer
<1>2. UNCHANGED <<store, may, pc, data, got, todo, owner, moved, issued>>
  BY <1>1 DEF EditPeer, SwitchPeer, world
<1>3. \A e \in Conns : meter'[e] = meter[e] \/ meter'[e] = 0
  BY <1>1 DEF SwitchPeer, servers, TypeInv, PeersT
<1>4. Pending' \subseteq Pending
  BY <1>2, OpsSame
<1>5. visit'[Cycle] \subseteq visit[Cycle]
  BY <1>1 DEF TypeInv, StageT
<1> QED
  BY <1>2, <1>3, <1>4, <1>5, CreditKept

\* The copy that is saved, and the connections that are read, are covered.
LEMMA SaveEditCredit ==
    ASSUME TypeInv, Owned, TypeInv', Owned', CreditInv, NEW t \in Tasks, SaveEdit(t)
    PROVE  CreditInv'
<1>1. /\ pc[t] = "editing" /\ pc' = [pc EXCEPT ![t] = "idle"]
      /\ store' = data[t] /\ data' = [data EXCEPT ![t] = NoDoc]
      /\ UNCHANGED <<peers, meter, may, visit, got, todo, owner, issued, moved>>
  BY DEF SaveEdit, servers, world, ghosts
<1> SUFFICES ASSUME Sober
             PROVE  /\ Credit(store', Book', moved)
                    /\ \A r \in Tasks : pc'[r] = "editing" => Credit(data'[r], Book', moved)
  BY <1>1 DEF CreditInv, Sober
<1>2. t # Cycle /\ \A r \in Tasks : pc'[r] # "editing"
  <2>1. "together" \notin may
    BY DEF Sober
  <2> QED
    BY <1>1, <2>1 DEF Owned, EditB, TypeInv, StageT
<1>3. Pending' \subseteq Pending
  BY <1>1, OpsSame
<1>4. data'[Cycle] = data[Cycle] /\ visit'[Cycle] = visit[Cycle]
  BY <1>1, <1>2 DEF TypeInv, DataT
<1>5. BookT(Book) /\ BookT(Book') /\ DocT(data[t]) /\ Credit(data[t], Book, moved)
  BY <1>1, BookTyped, BookNext DEF TypeInv, DataT, CreditInv
<1>6. Awaited' = Awaited
  BY <1>4 DEF Awaited
<1>7. /\ Book'.owner = Book.owner /\ Book'.meter = Book.meter
      /\ Book'.pend \subseteq Book.pend /\ Book'.marks \subseteq Book.marks \cup data[t].conns
      /\ Book'.seen \subseteq Book.seen
  BY <1>1, <1>3, <1>6 DEF Book
<1>8. Credit(store', Book', moved)
  BY <1>1, <1>5, <1>7, CreditLess
<1> QED
  BY <1>2, <1>8

\* An edit starts, alone, from the document as it is saved.
LEMMA EditUserCredit ==
    ASSUME TypeInv, Owned, TypeInv', Owned', CreditInv, NEW t \in Tasks,
           ToggleUser(t) \/ UpdateUser(t)
    PROVE  CreditInv'
<1>1. /\ t # Cycle /\ MayEdit /\ pc[t] = "idle"
      /\ UNCHANGED <<peers, meter, may, got, todo, owner, issued, moved>>
  BY DEF ToggleUser, UpdateUser, servers, world, ghosts
<1> SUFFICES ASSUME Sober
             PROVE  /\ Credit(store', Book', moved)
                    /\ \A r \in Tasks : pc'[r] = "editing" => Credit(data'[r], Book', moved)
  BY <1>1 DEF CreditInv, Sober
<1>2. \A r \in Tasks : pc[r] # "editing"
  BY <1>1 DEF MayEdit, Sober
<1>3. store.users \subseteq User /\ DocT(store) /\ DocT(store')
  BY DocEditsT DEF TypeInv, DocT
<1>4. /\ store'.conns = store.conns
      /\ \A v \in store'.users : \E u \in store.users : v.id = u.id /\ v.total = u.total
      /\ \/ \E id, on : StartToggle(t, store', id, on)
         \/ UNCHANGED <<pc, data, visit>>
  <2>1. CASE ToggleUser(t)
    BY <2>1 DEF ToggleUser
  <2>2. CASE UpdateUser(t)
    <3>1. PICK u \in store.users, limit \in Limits :
            LET v == [u EXCEPT !.limit = limit]
                d == [store EXCEPT !.users = (store.users \ {u}) \cup {v}]
            IN  /\ store' = d
                /\ \/ StartToggle(t, d, u.id, TRUE)
                   \/ UNCHANGED <<pc, data, visit>>
      BY <2>2 DEF UpdateUser
    <3> DEFINE v == [u EXCEPT !.limit = limit]
               us == (store.users \ {u}) \cup {v}
               d == [store EXCEPT !.users = us]
    <3>2. v.id = u.id /\ v.total = u.total
      BY <1>3 DEF User
    <3>3. \A x \in us : \E y \in store.users : x.id = y.id /\ x.total = y.total
      BY <3>2
    <3> HIDE DEF v
    <3>4. store' = d /\ (StartToggle(t, d, u.id, TRUE) \/ UNCHANGED <<pc, data, visit>>)
      BY <3>1 DEF v
    <3> HIDE DEF us
    <3>5. store'.users = us /\ store'.conns = store.conns
      BY <1>3, <3>4 DEF DocT, Doc
    <3> HIDE DEF d
    <3> QED
      BY <3>3, <3>4, <3>5
  <2> QED
    BY <2>1, <2>2
<1>5. /\ data'[Cycle] = data[Cycle] /\ visit'[Cycle] = visit[Cycle]
      /\ \A r \in Tasks : pc'[r] = "editing" =>
            /\ data'[r].conns = store.conns
            /\ \A v \in data'[r].users : \E u \in store.users : v.id = u.id /\ v.total = u.total
  <2>1. CASE UNCHANGED <<pc, data, visit>>
    BY <1>2, <2>1
  <2>2. CASE \E id, on : StartToggle(t, store', id, on)
    <3>1. PICK id, on : StartToggle(t, store', id, on)
      BY <2>2
    <3> DEFINE us == {IF u.id = id THEN [u EXCEPT !.on = on] ELSE u : u \in store'.users}
    <3>2. /\ data' = [data EXCEPT ![t] = [store' EXCEPT !.users = us]]
          /\ pc' = [pc EXCEPT ![t] = "editing"]
          /\ \A r \in Tasks : r # t => visit'[r] = visit[r]
      BY <3>1 DEF StartToggle, TypeInv, StageT
    <3>3. \A v \in us : \E u \in store'.users : v.id = u.id /\ v.total = u.total
      <4>1. store'.users \subseteq User
        BY <1>3, DocEditsT
      <4> QED
        BY <4>1 DEF User
    <3> HIDE DEF us
    <3>4. data'[t].users = us /\ data'[t].conns = store'.conns
      BY <1>3, <3>2 DEF DocT, Doc, TypeInv, DataT
    <3>5. \A r \in Tasks : r # t => data'[r] = data[r] /\ pc'[r] # "editing"
      BY <1>2, <3>2 DEF TypeInv, DataT, StageT
    <3>6. \A v \in data'[t].users : \E u \in store.users : v.id = u.id /\ v.total = u.total
      BY <1>4, <3>3, <3>4
    <3> QED
      BY <1>1, <1>4, <3>2, <3>4, <3>5, <3>6
  <2> QED
    BY <1>4, <2>1, <2>2
<1>6. Pending' \subseteq Pending
  BY <1>1, OpsSame
<1>7. BookT(Book) /\ BookT(Book') /\ Credit(store, Book, moved)
  BY BookTyped, BookNext DEF CreditInv
<1>8. Awaited' = Awaited
  BY <1>5 DEF Awaited
<1>9. /\ Book'.owner = Book.owner /\ Book'.meter = Book.meter
      /\ Book'.pend \subseteq Book.pend /\ Book'.marks \subseteq Book.marks
      /\ Book'.seen \subseteq Book.seen
  BY <1>1, <1>4, <1>6, <1>8 DEF Book
<1>10. Credit(store', Book', moved)
  BY <1>3, <1>4, <1>7, <1>9, CreditLess
<1>11. ASSUME NEW r \in Tasks, pc'[r] = "editing" PROVE Credit(data'[r], Book', moved)
  BY <1>3, <1>5, <1>7, <1>9, <1>11, CreditLess
<1> QED
  BY <1>10, <1>11

\* What is read now is compared with the cycle's copy, and covered by it.
LEMMA ScrapeCredit ==
    ASSUME TypeInv, Owned, TypeInv', Owned', CreditInv, NEW s \in Servers, Scrape(s) \/ ScrapeFails(s)
    PROVE  CreditInv'
<1>1. /\ visit' = [visit EXCEPT ![Cycle] = @ \ {s}] /\ s \in visit[Cycle]
      /\ UNCHANGED <<store, peers, meter, may, pc, data, todo, owner, issued, moved>>
  BY ScrapeReads DEF ReadFrom, servers, world, ghosts
<1> SUFFICES ASSUME Sober
             PROVE  /\ Credit(store, Book', moved)
                    /\ \A t \in Tasks : pc[t] = "editing" => Credit(data[t], Book', moved)
  BY <1>1 DEF CreditInv, Sober
<1>0. PICK clients \in SUBSET ClientsOn(s) : ReadFrom(s, clients)
  BY ScrapeReads
<1>2. got' = [got EXCEPT ![Cycle] = @ \cup
            {[conn |-> c.id, delta |-> Delta(c.last, meter[c.id]), curr |-> meter[c.id]] :
                c \in {x \in data[Cycle].conns : x.id \in clients}}]
  <2>1. "blank" \notin may
    BY DEF Sober
  <2>2. Readings = {meter}
    BY <2>1 DEF Readings
  <2> QED
    BY <1>0, <2>2 DEF ReadFrom
<1>3. visit'[Cycle] \subseteq visit[Cycle]
  BY <1>1 DEF TypeInv, StageT
<1>4. Pending' = Pending
  BY <1>1, OpsSame
<1>5. BookT(Book) /\ BookT(Book')
  BY BookTyped, BookNext
<1>6. /\ Book'.owner = Book.owner /\ Book'.meter = Book.meter
      /\ Book'.pend = Book.pend /\ Book'.marks \subseteq Book.marks
      /\ Book.meter = meter /\ Book.seen = got[Cycle] /\ Book'.seen = got'[Cycle]
  BY <1>1, <1>3, <1>4 DEF Book, Awaited
<1>7. ASSUME NEW x \in Book'.seen
      PROVE  \/ x \in Book.seen
             \/ \E j \in Book.marks : /\ x.conn = j.id
                                      /\ x.delta = Delta(j.last, Book.meter[j.id])
                                      /\ x.curr = Book.meter[j.id]
  <2>1. got'[Cycle] = got[Cycle] \cup
            {[conn |-> c.id, delta |-> Delta(c.last, meter[c.id]), curr |-> meter[c.id]] :
                c \in {y \in data[Cycle].conns : y.id \in clients}}
    BY <1>2 DEF TypeInv, GotT
  <2>2. CASE x \in got[Cycle]
    BY <1>6, <2>2
  <2>3. CASE x \notin got[Cycle]
    <3>1. PICK c \in data[Cycle].conns :
            /\ c.id \in clients
            /\ x = [conn |-> c.id, delta |-> Delta(c.last, meter[c.id]), curr |-> meter[c.id]]
      BY <1>6, <1>7, <2>1, <2>3
    <3>2. c \in Awaited
      BY <1>1, <3>1, clients \subseteq ClientsOn(s) DEF Awaited, ClientsOn
    <3>3. c \in Book.marks
      BY <3>2 DEF Book
    <3> QED
      BY <1>6, <3>1, <3>3
  <2> QED
    BY <2>2, <2>3
<1>8. ASSUME NEW d, DocT(d), Credit(d, Book, moved) PROVE Credit(d, Book', moved)
  BY <1>5, <1>6, <1>7, <1>8, CreditScraped
<1>9. DocT(store) /\ Credit(store, Book, moved)
  BY DEF TypeInv, CreditInv
<1>10. \A t \in Tasks : pc[t] = "editing" => DocT(data[t]) /\ Credit(data[t], Book, moved)
  BY DEF TypeInv, DataT, CreditInv
<1> QED
  BY <1>8, <1>9, <1>10

LEMMA CreatePeerCredit ==
    ASSUME TypeInv, Owned, TypeInv', Owned', CreditInv, NEW t \in Tasks, NEW s \in Servers,
           CreatePeer(t, s)
    PROVE  CreditInv'
<1>1. PICK op \in todo[t][s], c \in Conns :
        op.kind = "create" /\ NewPeer(c, op.user, s) /\ Did(t, s, op, c)
  BY DEF CreatePeer
<1>2. UNCHANGED <<store, may, pc, data, visit, got, meter, issued, moved>>
  BY DEF CreatePeer, NewPeer, world
<1> SUFFICES ASSUME Sober
             PROVE  /\ Credit(store, Book', moved)
                    /\ \A r \in Tasks : pc[r] = "editing" => Credit(data[r], Book', moved)
  BY <1>2 DEF CreditInv, Sober
<1>3. owner[c] = NoConn /\ owner' = [owner EXCEPT ![c] = op.user] /\ meter[c] = 0
  BY <1>1 DEF NewPeer, Owned, OwnerB
<1>4. op.user \in Ids
  BY DEF TypeInv, TodoT, Op
<1>5. Pending' \subseteq Pending \cup {c}
  <2> DEFINE done == [op EXCEPT !.conn = c, !.made = TRUE]
  <2>1. todo' = [todo EXCEPT ![t][s] = (todo[t][s] \ {op}) \cup {done}]
    BY <1>1 DEF Did
  <2>2. todo \in [Tasks -> [Servers -> SUBSET Op]] /\ op \in Op
    BY DEF TypeInv, TodoT
  <2>3. done.conn = c
    BY <2>2 DEF Op
  <2> HIDE DEF done
  <2>4. \A r \in Tasks, q \in Servers : \A o \in todo'[r][q] : o \in todo[r][q] \/ o = done
    BY <2>1, <2>2
  <2> QED
    BY <2>3, <2>4 DEF Pending, Making
<1>6. BookT(Book) /\ BookT(Book')
  BY BookTyped, BookNext
<1>7. /\ Book.owner[c] = NoConn /\ Book.meter[c] = 0
      /\ Book'.owner = [Book.owner EXCEPT ![c] = op.user] /\ Book'.meter = Book.meter
      /\ Book'.pend \subseteq Book.pend \cup {c} /\ Book'.marks = Book.marks
      /\ Book'.seen = Book.seen
  BY <1>2, <1>3, <1>5 DEF Book, Awaited
<1>8. ASSUME NEW d, DocT(d), Credit(d, Book, moved), Belongs(d, owner, issued, Pending)
      PROVE  Credit(d, Book', moved)
  <2>1. \A k \in d.conns : k.id # c
    <3>1. \A k \in d.conns : owner[k.id] \in Ids
      BY <1>8, DocEditsT DEF Belongs, Conn
    <3> QED
      BY <1>3, <3>1
  <2> QED
    BY <1>4, <1>6, <1>7, <1>8, <2>1, CreditCreated
<1>9. DocT(store) /\ Credit(store, Book, moved) /\ Belongs(store, owner, issued, Pending)
  BY DEF TypeInv, CreditInv, Owned, DocsB
<1>10. \A r \in Tasks : pc[r] = "editing" =>
        DocT(data[r]) /\ Credit(data[r], Book, moved) /\ Belongs(data[r], owner, issued, Pending)
  BY DEF TypeInv, DataT, CreditInv, Owned, DocsB
<1> QED
  BY <1>8, <1>9, <1>10

LEMMA RecordOpCredit ==
    ASSUME TypeInv, Owned, TypeInv', Owned', CreditInv, NEW t \in Tasks, NEW s \in Servers,
           RecordOp(t, s)
    PROVE  CreditInv'
<1>1. PICK op \in todo[t][s] : /\ op.made /\ store' = Recorded(store, op)
                               /\ todo' = [todo EXCEPT ![t][s] = todo[t][s] \ {op}]
  BY DEF RecordOp
<1>2. UNCHANGED <<peers, meter, may, pc, data, visit, got, owner, issued, moved>>
  BY DEF RecordOp, servers, world, ghosts
<1>3. Pending' \subseteq Pending
  <2>1. todo[t][s] \ {op} \in SUBSET todo[t][s]
    OBVIOUS
  <2> QED
    BY <1>1, <1>2, <2>1, FewerB
<1>4. DocT(store) /\ store \in Doc
  BY DEF TypeInv, DocT
<1>5. CASE op.kind # "create"
  <2>1. store'.conns \subseteq store.conns /\ store'.users = store.users
    BY <1>1, <1>4, <1>5 DEF Recorded, Doc
  <2> QED
    BY <1>2, <1>3, <2>1, CreditKept
<1>6. CASE op.kind = "create"
  <2> SUFFICES ASSUME Sober
               PROVE  /\ Credit(store', Book', moved)
                      /\ \A r \in Tasks : pc[r] = "editing" => Credit(data[r], Book', moved)
    BY <1>2 DEF CreditInv, Sober
  <2> DEFINE k0 == [id |-> op.conn, user |-> op.user, last |-> 0]
  <2>1. store'.conns = store.conns \cup {k0} /\ store'.users = store.users
    BY <1>1, <1>4, <1>6 DEF Recorded, Doc
  <2>2. k0.id = op.conn /\ k0.last = 0
    OBVIOUS
  <2> HIDE DEF k0
  <2>3. op.conn \in Pending
    BY <1>1, <1>6 DEF Pending, Making, TypeInv, TodoT, OpT
  <2>4. BookT(Book) /\ BookT(Book')
    BY BookTyped, BookNext
  <2>5. /\ Book.pend = Pending /\ Book.marks = store.conns \cup Awaited /\ Book.seen = got[Cycle]
        /\ Book'.owner = Book.owner /\ Book'.meter = Book.meter
        /\ Book'.pend \subseteq Book.pend /\ Book'.marks \subseteq Book.marks \cup {k0}
        /\ Book'.seen = Book.seen
    BY <1>2, <1>3, <2>1 DEF Book, Awaited
  <2>6. \A d : Belongs(d, owner, issued, Pending) => \A k \in d.conns : k.id # k0.id
    BY <2>2, <2>3 DEF Belongs
  <2>7. /\ \A k \in Book.marks : k.id # k0.id
        /\ \A x \in Book.seen : x.conn # k0.id
    <3>1. \A k \in store.conns \cup Awaited : k.id # k0.id
      BY <2>6 DEF Owned, DocsB, Awaited
    <3>2. \A x \in got[Cycle] : x.conn # k0.id
      BY <2>2, <2>3 DEF Owned, GotB
    <3> QED
      BY <2>5, <3>1, <3>2
  <2>8. ASSUME NEW d, NEW e, DocT(d), Credit(d, Book, moved), Belongs(d, owner, issued, Pending),
               e.users = d.users, e.conns \subseteq d.conns \cup {k0}
        PROVE  Credit(e, Book', moved)
    <3>1. \A k \in d.conns \cup Book.marks : k.id # k0.id
      BY <2>6, <2>7, <2>8
    <3>2. k0.id \in Book.pend
      BY <2>2, <2>3, <2>5
    <3> QED
      BY <2>2, <2>4, <2>5, <2>7, <2>8, <3>1, <3>2, CreditRecorded
  <2>9. Credit(store, Book, moved) /\ Belongs(store, owner, issued, Pending)
    BY DEF CreditInv, Owned, DocsB
  <2>10. \A r \in Tasks : pc[r] = "editing" =>
        DocT(data[r]) /\ Credit(data[r], Book, moved) /\ Belongs(data[r], owner, issued, Pending)
    BY DEF TypeInv, DataT, CreditInv, Owned, DocsB
  <2> QED
    BY <1>4, <2>1, <2>8, <2>9, <2>10
<1> QED
  BY <1>5, <1>6

LEMMA FlowCredit ==
    ASSUME TypeInv, Owned, TypeInv', Owned', CreditInv, NEW c \in Conns, Flow(c)
    PROVE  CreditInv'
<1>1. /\ c \in up /\ meter' = [meter EXCEPT ![c] = @ + 1]
      /\ moved' = [moved EXCEPT ![owner[c]] = @ + 1]
      /\ UNCHANGED <<store, may, pc, data, visit, got, todo, owner, issued>>
  BY DEF Flow, local, world
<1> SUFFICES ASSUME Sober
             PROVE  /\ Credit(store, Book', moved')
                    /\ \A t \in Tasks : pc[t] = "editing" => Credit(data[t], Book', moved')
  BY <1>1 DEF CreditInv, Sober
<1>2. owner[c] \in Ids
  BY <1>1 DEF TypeInv, PeersT, GhostT, Owned, OwnerB
<1>3. Pending' = Pending
  BY <1>1, OpsSame
<1>4. BookT(Book) /\ BookT(Book')
  BY BookTyped, BookNext
<1>5. /\ Book.owner = owner
      /\ Book'.owner = Book.owner /\ Book'.meter = [Book.meter EXCEPT ![c] = @ + 1]
      /\ Book'.pend = Book.pend /\ Book'.marks = Book.marks /\ Book'.seen = Book.seen
  BY <1>1, <1>3 DEF Book, Awaited
<1>6. moved \in [Ids -> Nat]
  BY DEF TypeInv, GhostT
<1>7. ASSUME NEW d, DocT(d), Credit(d, Book, moved) PROVE Credit(d, Book', moved')
  <2>1. Book.owner[c] \in Ids /\ moved' = [moved EXCEPT ![Book.owner[c]] = @ + 1]
    BY <1>1, <1>2, <1>5
  <2>2. \A more : more = [moved EXCEPT ![Book.owner[c]] = @ + 1] => Credit(d, Book', more)
    BY <1>4, <1>5, <1>6, <1>7, <2>1, CreditFlows
  <2> QED
    BY <2>1, <2>2
<1>8. DocT(store) /\ Credit(store, Book, moved)
  BY DEF TypeInv, CreditInv
<1>9. \A t \in Tasks : pc[t] = "editing" => DocT(data[t]) /\ Credit(data[t], Book, moved)
  BY DEF TypeInv, DataT, CreditInv
<1> QED
  BY <1>7, <1>8, <1>9

LEMMA OutsideCredit ==
    ASSUME TypeInv, Owned, TypeInv', Owned', CreditInv, World \/ UNCHANGED vars
    PROVE  CreditInv'
<1>1. CASE \E c \in Conns : Flow(c)
  BY <1>1, FlowCredit
<1>2. CASE \/ \E s \in Servers : Restart(s)
           \/ NextDay \/ AccountChanges \/ UNCHANGED vars
  <2>1. UNCHANGED <<store, may, local, owner, issued, moved>>
    BY <1>2 DEF Restart, NextDay, AccountChanges, vars, servers, world, ghosts
  <2>2. UNCHANGED <<pc, data, visit, got, todo>>
    BY <2>1 DEF local
  <2>3. \A c \in Conns : meter'[c] = meter[c] \/ meter'[c] = 0
    BY <1>2 DEF Restart, NextDay, AccountChanges, vars, servers
  <2>4. Pending' \subseteq Pending
    BY <2>1, <2>2, OpsSame
  <2> QED
    BY <2>1, <2>2, <2>3, <2>4, CreditKept
<1> QED
  BY <1>1, <1>2 DEF World

\* The readings a charged document remembers are its own or those charged.
LEMMA ChargedMarks ==
    ASSUME NEW d, DocT(d), NEW ups, NEW k \in Charged(d, ups).conns
    PROVE  k \in d.conns \/ \E x \in ups : x.conn = k.id /\ x.curr = k.last
<1>1. d.conns \subseteq Conn
  BY DocEditsT
<1>2. PICK j \in d.conns :
        k = IF \E x \in ups : x.conn = j.id
            THEN [j EXCEPT !.last = (CHOOSE x \in ups : x.conn = j.id).curr] ELSE j
  BY DEF Charged
<1>3. CASE \E x \in ups : x.conn = j.id
  <2> DEFINE x == CHOOSE y \in ups : y.conn = j.id
  <2>1. x \in ups /\ x.conn = j.id
    BY <1>3
  <2>2. k.id = j.id /\ k.last = x.curr
    BY <1>1, <1>2, <1>3 DEF Conn
  <2> HIDE DEF x
  <2> QED
    BY <2>1, <2>2
<1>4. CASE ~ \E x \in ups : x.conn = j.id
  BY <1>2, <1>4
<1> QED
  BY <1>3, <1>4

LEMMA ApplyUpdatesCredit ==
    ASSUME TypeInv, Owned, TypeInv', Owned', CreditInv, ApplyUpdates
    PROVE  CreditInv'
<1> DEFINE d == IF got[Cycle] = {} THEN store ELSE Charged(store, got[Cycle])
           out == ToDisable(d, got[Cycle])
<1>1. /\ store' = d /\ got' = [got EXCEPT ![Cycle] = {}] /\ visit[Cycle] = {}
      /\ pc[Cycle] = "scrape"
      /\ UNCHANGED <<peers, meter, may, visit, owner, issued, moved>>
  BY DEF ApplyUpdates, servers, world, ghosts
<1>2. \/ /\ StartMass(Cycle, d, {}, out \X {FALSE}, {}, "remnawave")
         /\ data' = [data EXCEPT ![Cycle] = NoDoc]
      \/ Continue(Cycle, "remnawave", d) /\ UNCHANGED <<todo, goal>>
  BY DEF ApplyUpdates
<1>3. /\ DocT(store) /\ day \in Days /\ got[Cycle] \in SUBSET Update
      /\ IsFiniteSet(got[Cycle]) /\ Belongs(store, owner, issued, Pending)
  BY DEF TypeInv, WorldT, GotT, Owned, DocsB
<1>4. DocT(d) /\ Belongs(d, owner, issued, Pending)
  <2>1. DocT(Charged(store, got[Cycle])) /\ Belongs(Charged(store, got[Cycle]), owner, issued, Pending)
    BY <1>3, ChargedT, ChargedB
  <2> QED
    BY <1>3, <2>1
<1>5. \/ got[Cycle] = {} /\ store' = store
      \/ store' = Charged(store, got[Cycle])
  BY <1>1
<1> HIDE DEF d, out
<1>6. Pending' \subseteq Pending
  <2>1. CASE StartMass(Cycle, d, {}, out \X {FALSE}, {}, "remnawave")
    BY <1>1, <1>4, <2>1, StartMassB
  <2>2. CASE UNCHANGED <<todo, goal>>
    BY <1>1, <2>2, OpsSame
  <2> QED
    BY <1>2, <2>1, <2>2
<1>7. \A t \in Tasks : t # Cycle => data'[t] = data[t] /\ pc'[t] = pc[t]
  BY <1>2 DEF TypeInv, DataT, StageT, StartMass, Continue
<1>8. pc'[Cycle] # "editing" /\ pc'[Cycle] # "scrape"
  <2>1. CASE pc' = [pc EXCEPT ![Cycle] = "mass"]
    BY <2>1 DEF TypeInv, StageT
  <2>2. CASE Continue(Cycle, "remnawave", d)
    BY <2>2, ContinueB
  <2> QED
    BY <1>2, <2>1, <2>2 DEF StartMass
<1>9. got'[Cycle] = {}
  BY <1>1 DEF TypeInv, GotT
<1>10. CASE got[Cycle] = {} /\ store' = store
  BY <1>1, <1>6, <1>7, <1>8, <1>9, <1>10, CreditKept
<1>11. CASE store' = Charged(store, got[Cycle])
  <2> DEFINE ups == got[Cycle]
  <2> SUFFICES ASSUME Sober
               PROVE  /\ Credit(Charged(store, ups), Book', moved)
                      /\ \A t \in Tasks : pc'[t] = "editing" => Credit(data'[t], Book', moved)
    BY <1>1, <1>11 DEF CreditInv, Sober
  <2>1. BookT(Book) /\ BookT(Book') /\ moved \in [Ids -> Nat]
    BY BookTyped, BookNext DEF TypeInv, GhostT
  <2>2. Awaited' = {}
    BY <1>1 DEF Awaited
  <2>3. /\ Book.owner = owner /\ Book.pend = Pending /\ Book.marks = store.conns \cup Awaited
        /\ Book.seen = ups
        /\ Book'.owner = Book.owner /\ Book'.meter = Book.meter
        /\ Book'.pend \subseteq Book.pend /\ Book'.seen = {}
        /\ Book'.marks \subseteq Charged(store, ups).conns
    BY <1>1, <1>6, <1>9, <1>11, <2>2 DEF Book
  <2>4. /\ \A x, y \in ups : x.conn = y.conn => x = y
        /\ \A x \in ups : x.conn \notin Pending
    BY DEF Owned, GotB
  <2> HIDE DEF ups
  <2>5. Credit(Charged(store, ups), Book', moved)
    <3>1. \A k \in store.conns : Book.owner[k.id] = k.user
      BY <1>3, <2>3 DEF Belongs
    <3>2. Credit(store, Book, moved) /\ ups = Book.seen /\ IsFiniteSet(ups) /\ DocT(store)
      BY <1>3, <2>3 DEF CreditInv, ups
    <3> QED
      BY <2>1, <2>3, <2>4, <3>1, <3>2, CreditCharged
  <2>6. \A j \in Book'.marks : \/ j \in Book.marks
                               \/ \E x \in Book.seen : x.conn = j.id /\ x.curr = j.last
    BY <1>3, <2>3, ChargedMarks
  <2>7. ASSUME NEW t \in Tasks, pc'[t] = "editing" PROVE Credit(data'[t], Book', moved)
    <3>1. data'[t] = data[t] /\ pc[t] = "editing"
      BY <1>7, <1>8, <2>7
    <3>2. DocT(data[t]) /\ Credit(data[t], Book, moved)
      BY <3>1 DEF TypeInv, DataT, CreditInv
    <3>3. Credit(data[t], Book', moved)
      BY <2>1, <2>3, <2>6, <3>2, CreditStale
    <3> QED
      BY <3>1, <3>3
  <2> QED
    BY <2>5, <2>7
<1> QED
  BY <1>5, <1>10, <1>11

\* A user nobody owns a connection of yet is charged with nothing.
LEMMA CreditFresh ==
    ASSUME NEW d, NEW w, NEW u, u.total = 0, NEW bytes, bytes[u.id] \in Nat,
           \A c \in Conns : w.owner[c] # u.id
    PROVE  \E a \in [Conns -> Nat] :
                Covers(d, u.id, a, w) /\ u.total + Total(a, Mine(w, u.id)) <= bytes[u.id]
<1> DEFINE a == [c \in Conns |-> 0]
<1>1. a \in [Conns -> Nat] /\ Covers(d, u.id, a, w)
  BY DEF Covers
<1>2. Rec(a, Mine(w, u.id)) = {}
  BY DEF Rec, Mine
<1> HIDE DEF a
<1>3. Total(a, Mine(w, u.id)) = 0
  BY <1>2, SumEmpty DEF Total
<1> QED
  BY <1>1, <1>3

LEMMA SyncUsersCredit ==
    ASSUME TypeInv, Owned, TypeInv', Owned', CreditInv, NEW t \in Tasks, SyncUsers(t)
    PROVE  CreditInv'
<1> DEFINE there == DOMAIN page[t]
           new == {a \in there : Named(store, a) = {}}
           known == {u \in store.users : u.name \in there}
           set == {<<u.id, page[t][u.name]>> : u \in {v \in known : v.on # page[t][v.name]}}
<1>1. PICK f \in [new -> Ids \ issued] :
        /\ store' = [store EXCEPT !.users =
                (@ \ known) \cup {[u EXCEPT !.linked = TRUE] : u \in known}
                \cup {[id |-> f[a], name |-> a, linked |-> TRUE, on |-> page[t][a],
                       limit |-> 0, used |-> 0, total |-> 0, since |-> day] : a \in new}]
        /\ issued' = issued \cup {f[a] : a \in new}
        /\ \/ StartMass(t, store', {}, set, {f[a] : a \in new}, "end")
           \/ pc' = [pc EXCEPT ![t] = "idle"] /\ todo' = todo
  BY DEF SyncUsers
<1>2. /\ pc[t] = "users"
      /\ UNCHANGED <<peers, meter, may, data, visit, got, owner, moved>>
  BY DEF SyncUsers, servers, world
<1> DEFINE made == {[id |-> f[a], name |-> a, linked |-> TRUE, on |-> page[t][a],
                     limit |-> 0, used |-> 0, total |-> 0, since |-> day] : a \in new}
           linked == {[u EXCEPT !.linked = TRUE] : u \in known}
           ids == {f[a] : a \in new}
<1>3. DocT(store) /\ DocT(store') /\ store.users \subseteq User
  BY DocEditsT DEF TypeInv, DocT
<1>4. store'.users = (store.users \ known) \cup linked \cup made /\ store'.conns = store.conns
  BY <1>1, <1>3 DEF DocT, Doc
<1>5. \A v \in linked : \E u \in store.users : v.id = u.id /\ v.total = u.total
  BY <1>3 DEF User
<1>6. \A v \in made : v.id \in Ids \ issued /\ v.total = 0
  OBVIOUS
<1>7. issued' = issued \cup ids
  BY <1>1
<1>8. \A v \in store'.users : \/ \E u \in store.users : v.id = u.id /\ v.total = u.total
                              \/ v.id \in Ids \ issued /\ v.total = 0
  <2> HIDE DEF made, linked, known
  <2> QED
    BY <1>4, <1>5, <1>6
<1> HIDE DEF set, new, made, linked, known, there
<1>9. Pending' \subseteq Pending
  <2>1. CASE StartMass(t, store', {}, set, ids, "end")
    <3>1. Belongs(store', owner, issued', Pending)
      <4>1. \A k \in store.conns : owner[k.id] = k.user /\ k.id \notin Pending
        BY DEF Owned, DocsB, Belongs
      <4> QED
        BY <1>2, <1>4, <4>1 DEF Owned, DocsB, Belongs
    <3>2. ids \in SUBSET issued' /\ issued \subseteq issued' /\ owner' = owner
      BY <1>2, <1>7
    <3> HIDE DEF ids
    <3> QED
      BY <1>3, <2>1, <3>1, <3>2, StartMassB
  <2>2. CASE todo' = todo
    BY <1>2, <1>7, <2>2, OpsKept
  <2> QED
    BY <1>1, <2>1, <2>2
<1> SUFFICES ASSUME Sober
             PROVE  /\ Credit(store', Book', moved)
                    /\ \A r \in Tasks : pc'[r] = "editing" => Credit(data[r], Book', moved)
  BY <1>2 DEF CreditInv, Sober
<1>10. \A r \in Tasks : pc'[r] = "editing" => pc[r] = "editing"
  <2>1. \E stage \in {"mass", "idle"} : pc' = [pc EXCEPT ![t] = stage]
    BY <1>1 DEF StartMass
  <2> QED
    BY <2>1 DEF TypeInv, StageT
<1>11. BookT(Book) /\ BookT(Book') /\ moved \in [Ids -> Nat]
  BY BookTyped, BookNext DEF TypeInv, GhostT
<1>12. /\ Book.owner = owner
       /\ Book'.owner = Book.owner /\ Book'.meter = Book.meter
       /\ Book'.pend \subseteq Book.pend /\ Book'.marks \subseteq Book.marks
       /\ Book'.seen \subseteq Book.seen
  BY <1>2, <1>4, <1>9 DEF Book, Awaited
<1>13. ASSUME NEW v \in store'.users
       PROVE  \E a \in [Conns -> Nat] :
                  Covers(store', v.id, a, Book') /\ v.total + Total(a, Mine(Book', v.id)) <= moved[v.id]
  <2>1. CASE \E u \in store.users : v.id = u.id /\ v.total = u.total
    <3> DEFINE e == [users |-> {v}, conns |-> store'.conns]
    <3>1. e.users = {v} /\ e.conns = store'.conns
      OBVIOUS
    <3> HIDE DEF e
    <3>2. /\ \A x \in e.users : \E u \in store.users : x.id = u.id /\ x.total = u.total
          /\ e.conns \subseteq store.conns /\ Credit(store, Book, moved)
      BY <1>4, <2>1, <3>1 DEF CreditInv
    <3>3. Credit(e, Book', moved)
      BY <1>3, <1>11, <1>12, <3>2, CreditLess
    <3> QED
      BY <3>1, <3>3 DEF Credit, Covers
  <2>2. CASE v.id \in Ids \ issued /\ v.total = 0
    <3>1. \A c \in Conns : Book'.owner[c] # v.id
      BY <1>12, <2>2 DEF Owned, OwnerB
    <3>2. moved[v.id] \in Nat
      BY <1>11, <2>2
    <3> QED
      BY <2>2, <3>1, <3>2, CreditFresh
  <2> QED
    BY <1>8, <2>1, <2>2
<1>14. ASSUME NEW r \in Tasks, pc[r] = "editing" PROVE Credit(data[r], Book', moved)
  <2>1. DocT(data[r]) /\ Credit(data[r], Book, moved)
    BY <1>14 DEF TypeInv, DataT, CreditInv
  <2> QED
    BY <1>11, <1>12, <2>1, CreditLess
<1> QED
  BY <1>10, <1>13, <1>14 DEF Credit

LEMMA TotalOfNone ==
    ASSUME NEW C, IsFiniteSet(C), NEW a, \A c \in C : a[c] = 0
    PROVE  Total(a, C) = 0
<1> DEFINE B == {s \in SUBSET C : Total(a, s) # 0}
<1>1. B = {}
  <2> SUFFICES ASSUME B # {} PROVE FALSE
    OBVIOUS
  <2>1. B \in SUBSET (SUBSET C)
    OBVIOUS
  <2> HIDE DEF B
  <2>2. PICK s \in B : \A x \in s : s \ {x} \notin B
    BY <2>1, MinimalPart
  <2>3. s \in SUBSET C /\ Total(a, s) # 0
    BY <2>2 DEF B
  <2>4. CASE s = {}
    <3>1. Rec(a, s) = {}
      BY <2>4 DEF Rec
    <3> QED
      BY <2>3, <3>1, SumEmpty DEF Total
  <2>5. CASE s # {}
    <3>1. PICK x \in s : TRUE
      BY <2>5
    <3> DEFINE r == s \ {x}
    <3>2. r \in SUBSET C /\ x \notin r /\ s = r \cup {x} /\ IsFiniteSet(r) /\ r \notin B
      BY <2>2, <2>3, <3>1, FS_Subset
    <3> HIDE DEF r
    <3>3. Total(a, r) = 0
      BY <3>2 DEF B
    <3>4. \A e \in r \cup {x} : a[e] \in Nat
      BY <2>3, <3>2
    <3>5. Total(a, r \cup {x}) = Total(a, r) + a[x]
      BY <3>2, <3>4, TotalAdds
    <3>6. a[x] = 0
      BY <2>3, <3>1
    <3> QED
      BY <2>3, <3>2, <3>3, <3>5, <3>6
  <2> QED
    BY <2>4, <2>5
<1>2. C \in SUBSET C
  OBVIOUS
<1> QED
  BY <1>1, <1>2

LEMMA InitCredit == Init => CreditInv
<1> SUFFICES ASSUME Init PROVE CreditInv
  OBVIOUS
<1>1. TypeInv /\ Owned
  BY InitT, InitB
<1>2. PICK x \in Scenes : store = x.doc
  BY DEF Init
<1>3. \A u, v \in store.users : u.id = v.id => u = v
  BY <1>2
<1>4. /\ meter = [c \in Conns |-> 0] /\ pc = [t \in Tasks |-> "idle"]
      /\ todo = [t \in Tasks |-> NoOps] /\ got = [t \in Tasks |-> {}]
      /\ visit = [t \in Tasks |-> {}]
      /\ moved = [id \in Ids |-> IF id \in UserIdsOf(store)
                                 THEN (CHOOSE u \in store.users : u.id = id).total ELSE 0]
  BY DEF Init
<1>5. Pending = {} /\ Awaited = {} /\ got[Cycle] = {}
  BY <1>4 DEF Pending, NoOps, Awaited
<1>6. \A t \in Tasks : pc[t] # "editing"
  BY <1>4
<1>7. BookT(Book) /\ store.users \subseteq User /\ store.conns \subseteq Conn
  BY <1>1, BookTyped, DocEditsT DEF TypeInv
<1>8. ASSUME NEW u \in store.users
      PROVE  \E a \in [Conns -> Nat] :
                Covers(store, u.id, a, Book) /\ u.total + Total(a, Mine(Book, u.id)) <= moved[u.id]
  <2>1. u.id \in Ids /\ u.total \in Nat
    BY <1>7 DEF User
  <2>2. moved[u.id] = u.total
    <3>1. u.id \in UserIdsOf(store)
      BY DEF UserIdsOf
    <3>2. (CHOOSE v \in store.users : v.id = u.id) = u
      BY <1>3
    <3> QED
      BY <1>4, <2>1, <3>1, <3>2
  <2> DEFINE a == [c \in Conns |-> 0]
  <2>3. a \in [Conns -> Nat] /\ \A c \in Conns : a[c] = 0
    OBVIOUS
  <2> HIDE DEF a
  <2>4. Covers(store, u.id, a, Book)
    <3>1. \A k \in store.conns : Delta(k.last, 0) = 0
      BY <1>7, DeltaZero DEF Conn
    <3>2. \A c \in Conns : Book.meter[c] = 0
      BY <1>4 DEF Book
    <3>3. Book.pend = {} /\ Book.marks = store.conns /\ Book.seen = {}
      BY <1>5 DEF Book
    <3> QED
      BY <2>3, <3>1, <3>2, <3>3 DEF Covers
  <2>5. Total(a, Mine(Book, u.id)) = 0
    <3>1. IsFiniteSet(Mine(Book, u.id)) /\ \A c \in Mine(Book, u.id) : a[c] = 0
      BY <1>7, <2>1, <2>3 DEF BookT, Mine
    <3> QED
      BY <3>1, TotalOfNone
  <2> QED
    BY <2>1, <2>2, <2>3, <2>4, <2>5
<1> QED
  BY <1>6, <1>8 DEF CreditInv, Credit

LEMMA NextCredit == TypeInv /\ TypeInv' /\ Owned /\ Owned' /\ CreditInv /\ [Next]_vars => CreditInv'
<1> SUFFICES ASSUME TypeInv, TypeInv', Owned, Owned', CreditInv, [Next]_vars PROVE CreditInv'
  OBVIOUS
<1>1. ASSUME NEW t \in Tasks, MassStep(t) PROVE CreditInv'
  BY <1>1, FinishMassCredit, PeersCredit, CreatePeerCredit, RecordOpCredit DEF MassStep
<1>2. ASSUME NEW t \in Tasks, SyncStep(t) PROVE CreditInv'
  BY <1>1, <1>2, FetchCredit, SyncUsersCredit DEF SyncStep
<1>3. CASE CycleStep
  BY <1>2, <1>3, StartCycleCredit, ApplyUpdatesCredit, ScrapeCredit DEF CycleStep
<1>4. ASSUME NEW t \in Tasks, RequestStep(t) PROVE CreditInv'
  BY <1>2, <1>4, RequestCredit, EditUserCredit, EditPeerCredit, SaveEditCredit DEF RequestStep
<1>5. CASE World \/ UNCHANGED vars
  BY <1>5, OutsideCredit
<1> QED
  BY <1>3, <1>4, <1>5 DEF Next

\* As long as `wg show` answers and no two requests edit users at once, no user
\* is charged more than was transferred, whatever copies are saved meanwhile
\* (_scrape_server_traffic, periodic_background_tasks).
THEOREM TrafficNeverOvercharged == Spec => []NeverOvercharged
<1>1. TypeInv /\ Owned /\ CreditInv => NeverOvercharged
  <2> SUFFICES ASSUME TypeInv, Owned, CreditInv, Sober, NEW u \in store.users
               PROVE  u.total <= moved[u.id]
    BY DEF NeverOvercharged, Sober
  <2>1. PICK a \in [Conns -> Nat] : u.total + Total(a, Mine(Book, u.id)) <= moved[u.id]
    BY DEF CreditInv, Credit
  <2>2. u.id \in Ids /\ u.total \in Nat /\ moved[u.id] \in Nat
    BY DocEditsT DEF TypeInv, GhostT, User
  <2>3. IsFiniteSet(Mine(Book, u.id)) /\ \A c \in Mine(Book, u.id) : a[c] \in Nat
    BY <2>2, BookTyped DEF BookT, Mine
  <2>4. Total(a, Mine(Book, u.id)) \in Nat
    BY <2>3, RecDeltas
  <2> QED
    BY <2>1, <2>2, <2>4
<1> QED
  BY <1>1, InitCredit, NextCredit, SpecT, SpecB, PTL DEF Spec

=============================================================================
