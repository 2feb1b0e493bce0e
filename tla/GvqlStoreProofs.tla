-------------------------- MODULE GvqlStoreProofs --------------------------
(***************************************************************************)
(* Theorems about update queries and what they commit: an update leaves a  *)
(* whole graph and reports all it changed, commits check the fields they   *)
(* write, and the bounded load returns what its depth allows.              *)
(*                                                                         *)
(* Selections and loads are recursive functions.  What they compute is     *)
(* proved by induction on a set of numbers (SetInduction): the partial     *)
(* functions up to n exist, and satisfy the claim, for every n.            *)
(***************************************************************************)
EXTENDS GvqlStore, SequenceTheorems, FiniteSetTheorems, WellFoundedInduction, TLAPS

-----------------------------------------------------------------------------
(* Induction on natural numbers, selections and lists *)

(* The order of the natural numbers, as a relation. *)
Less == {ss \in Nat \X Nat : ss[1] < ss[2]}

(* There is no infinite descent in the natural numbers. *)
LEMMA LessWellFounded == IsWellFoundedOn(Less, Nat)
BY NatLessThanWellFounded DEF OpToRel, Less

(* A non-empty set of natural numbers has a least element. *)
LEMMA LeastNat == ASSUME NEW T, T \subseteq Nat, T # {} PROVE \E x \in T : \A y \in T : x <= y
<1>1. PICK x \in T : \A y \in T : ~ (<<y, x>> \in Less) BY LessWellFounded, WFMin
<1>2. ASSUME NEW y \in T PROVE x <= y
  <2>1. x \in Nat /\ y \in Nat OBVIOUS
  <2>2. ~ (<<y, x>> \in Less) BY <1>1
  <2>3. ~ (y < x) BY <2>1, <2>2 DEF Less
  <2> QED BY <2>1, <2>3
<1> QED BY <1>2

(* Induction on the natural numbers, for a set in place of a predicate. *)
LEMMA SetInduction == ASSUME NEW S, 0 \in S, \A n \in Nat : n \in S => n + 1 \in S PROVE Nat \subseteq S
<1>1. CASE Nat \ S # {}
  <2>1. PICK x \in Nat \ S : \A y \in Nat \ S : x <= y
    <3> DEFINE T == Nat \ S
    <3>1. T \subseteq Nat /\ T # {} BY <1>1
    <3> HIDE DEF T
    <3>2. \E x \in T : \A y \in T : x <= y BY <3>1, LeastNat
    <3> QED BY <3>2 DEF T
  <2>2. x # 0 BY <2>1
  <2>3. x - 1 \in Nat /\ x - 1 \in S BY <2>1, <2>2
  <2> QED BY <2>1, <2>3
<1>2. QED BY <1>1

(* Select goes through the list one position at a time. *)
LEMMA SelectSteps ==
    ASSUME NEW s, Len(s) \in Nat, NEW kept
    PROVE  \E f : /\ Select(s, kept) = f[Len(s)] /\ f[0] = <<>>
                  /\ \A n \in 1..Len(s) : f[n] = IF n \in kept THEN Append(f[n - 1], s[n]) ELSE f[n - 1]
<1> DEFINE F(f, n) == IF n = 0 THEN <<>> ELSE IF n \in kept THEN Append(f[n - 1], s[n]) ELSE f[n - 1]
           Good == {n \in Nat : \E f : f = [k \in 0..n |-> F(f, k)]}
<1>1. 0 \in Good
  <2>1. [k \in 0..0 |-> <<>>] = [k \in 0..0 |-> F([j \in 0..0 |-> <<>>], k)] OBVIOUS
  <2> QED BY <2>1
<1>2. ASSUME NEW n \in Nat, n \in Good PROVE n + 1 \in Good
  <2>1. PICK f : f = [k \in 0..n |-> F(f, k)] BY <1>2
  <2>0. \A k \in 0..n : f[k] = F(f, k)
    <3> HIDE DEF F
    <3> QED BY <2>1
  <2> DEFINE g == [k \in 0..(n + 1) |-> IF k = n + 1 THEN F(f, k) ELSE f[k]]
  <2>2. ASSUME NEW k \in 0..(n + 1) PROVE g[k] = F(g, k)
    <3>1. CASE k = 0 BY <2>0, <3>1
    <3>2. CASE k # 0
      <4>1. k - 1 \in 0..n /\ g[k - 1] = f[k - 1] BY <3>2
      <4>2. g[k] = F(f, k)
        <5> HIDE DEF F
        <5> QED BY <2>0
      <4> QED BY <4>1, <4>2, <3>2
    <3> QED BY <3>1, <3>2
  <2>3. g = [k \in 0..(n + 1) |-> F(g, k)]
    <3> HIDE DEF F
    <3> SUFFICES \A k \in 0..(n + 1) : g[k] = F(g, k) OBVIOUS
    <3> QED BY <2>2
  <2> HIDE DEF g, F
  <2> QED BY <2>3
<1>3. Len(s) \in Good
  <2> HIDE DEF Good
  <2> QED BY <1>1, <1>2, SetInduction
<1>4. PICK f : f = [k \in 0..Len(s) |-> F(f, k)] BY <1>3
<1> DEFINE upTo[n \in 0..Len(s)] == IF n = 0 THEN <<>>
                                 ELSE IF n \in kept THEN Append(upTo[n - 1], s[n]) ELSE upTo[n - 1]
<1>5. upTo = [n \in 0..Len(s) |-> F(upTo, n)] BY <1>4
<1>6. Select(s, kept) = upTo[Len(s)] BY DEF Select
<1> HIDE DEF upTo
<1>7. \A n \in 0..Len(s) : upTo[n] = F(upTo, n)
  <2> HIDE DEF F
  <2> QED BY <1>5
<1>8. upTo[0] = <<>> BY <1>7
<1>9. \A n \in 1..Len(s) : upTo[n] = F(upTo, n) BY <1>7
<1> QED BY <1>6, <1>8, <1>9

(* How r picks the elements of s at the positions in kept among the first n, through p. *)
Picks(r, s, kept, n, p) ==
    /\ \A i \in 1..Len(r) : p[i] \in (1..n) \cap kept /\ r[i] = s[p[i]]
    /\ \A i, j \in 1..Len(r) : i < j => p[i] < p[j]
    /\ \A m \in (1..n) \cap kept : \E i \in 1..Len(r) : p[i] = m

(* Select keeps the elements at the positions in kept, in their order. *)
LEMMA SelectPositions ==
    ASSUME NEW S, NEW s \in Seq(S), NEW kept
    PROVE  Select(s, kept) \in Seq(S) /\ \E p : Picks(Select(s, kept), s, kept, Len(s), p)
<1>1. Len(s) \in Nat OBVIOUS
<1>2. PICK f : /\ Select(s, kept) = f[Len(s)] /\ f[0] = <<>>
               /\ \A n \in 1..Len(s) : f[n] = IF n \in kept THEN Append(f[n - 1], s[n]) ELSE f[n - 1]
  BY <1>1, SelectSteps
<1> DEFINE Good == {n \in Nat : n \in 0..Len(s) => f[n] \in Seq(S) /\ \E p : Picks(f[n], s, kept, n, p)}
<1>3. 0 \in Good
  <2>1. f[0] \in Seq(S) /\ Len(f[0]) = 0 BY <1>2
  <2>2. Picks(f[0], s, kept, 0, [i \in {} |-> 0]) BY <2>1 DEF Picks
  <2> QED BY <2>1, <2>2
<1>4. ASSUME NEW n \in Nat, n \in Good PROVE n + 1 \in Good
  <2> SUFFICES ASSUME n + 1 \in 0..Len(s) PROVE f[n + 1] \in Seq(S) /\ \E p : Picks(f[n + 1], s, kept, n + 1, p)
    OBVIOUS
  <2>1. n \in 0..Len(s) /\ n + 1 \in 1..Len(s) /\ (n + 1) - 1 = n BY <1>1
  <2>2. f[n] \in Seq(S) BY <1>4, <2>1
  <2>3. PICK p : Picks(f[n], s, kept, n, p) BY <1>4, <2>1
  <2>4. CASE n + 1 \notin kept
    <3>1. f[n + 1] = f[n] BY <1>2, <2>1, <2>4
    <3>2. Picks(f[n], s, kept, n + 1, p)
      <4>1. (1..(n + 1)) \cap kept = (1..n) \cap kept BY <2>4
      <4> QED BY <4>1, <2>3 DEF Picks
    <3> QED BY <3>1, <3>2, <2>2
  <2>5. CASE n + 1 \in kept
    <3> DEFINE r == Append(f[n], s[n + 1])
               l == Len(f[n])
               q == [i \in 1..(l + 1) |-> IF i = l + 1 THEN n + 1 ELSE p[i]]
    <3>1. f[n + 1] = r BY <1>2, <2>1, <2>5
    <3>2. l \in Nat BY <2>2
    <3>3. s[n + 1] \in S BY <2>1
    <3>4. r \in Seq(S) /\ Len(r) = l + 1 BY <2>2, <3>3
    <3>5. \A i \in 1..l : r[i] = f[n][i] BY <2>2, <3>3
    <3>6. r[l + 1] = s[n + 1] BY <2>2, <3>3
    <3> HIDE DEF r, l
    <3>7. \A i \in 1..l : p[i] \in (1..n) \cap kept /\ f[n][i] = s[p[i]] BY <2>3 DEF Picks, l
    <3>8. \A i \in 1..(l + 1) : q[i] \in (1..(n + 1)) \cap kept /\ r[i] = s[q[i]]
      BY <3>2, <3>5, <3>6, <3>7, <2>5
    <3>9. \A i, j \in 1..(l + 1) : i < j => q[i] < q[j]
      <4>1. \A i, j \in 1..l : i < j => p[i] < p[j] BY <2>3 DEF Picks, l
      <4> QED BY <4>1, <3>2, <3>7
    <3>10. \A m \in (1..(n + 1)) \cap kept : \E i \in 1..(l + 1) : q[i] = m
      <4> TAKE m \in (1..(n + 1)) \cap kept
      <4>1. CASE m = n + 1 BY <4>1, <3>2
      <4>2. CASE m # n + 1
        <5>1. m \in (1..n) \cap kept BY <4>2
        <5>2. PICK i \in 1..l : p[i] = m BY <5>1, <2>3 DEF Picks, l
        <5> QED BY <5>2, <3>2
      <4> QED BY <4>1, <4>2
    <3>11. Picks(r, s, kept, n + 1, q)
      <4> HIDE DEF q
      <4> QED BY <3>4, <3>8, <3>9, <3>10 DEF Picks
    <3> QED BY <3>1, <3>4, <3>11
  <2> QED BY <2>4, <2>5
<1>5. Len(s) \in Good
  <2> HIDE DEF Good
  <2> QED BY <1>1, <1>3, <1>4, SetInduction
<1> QED BY <1>1, <1>2, <1>5

(* A selection from a list is a list of the selected elements. *)
LEMMA SelectSubset ==
    ASSUME NEW s, IsList(s), NEW kept
    PROVE  /\ IsList(Select(s, kept))
           /\ ToSet(Select(s, kept)) = {s[i] : i \in DOMAIN s \cap kept}
<1> DEFINE r == Select(s, kept)
<1>1. s \in Seq(ToSet(s)) BY DEF IsList
<1>2. DOMAIN s = 1..Len(s) /\ Len(s) \in Nat BY <1>1
<1>3. r \in Seq(ToSet(s)) /\ \E p : Picks(r, s, kept, Len(s), p) BY <1>1, SelectPositions
<1>4. PICK p : Picks(r, s, kept, Len(s), p) BY <1>3
<1>5. DOMAIN r = 1..Len(r) /\ Len(r) \in Nat BY <1>3
<1> HIDE DEF r
<1>6. ToSet(r) = {s[i] : i \in DOMAIN s \cap kept}
  <2>1. ASSUME NEW v \in ToSet(r) PROVE v \in {s[i] : i \in DOMAIN s \cap kept}
    <3>1. PICK i \in 1..Len(r) : v = r[i] BY <1>5 DEF ToSet
    <3> QED BY <3>1, <1>4, <1>2 DEF Picks
  <2>2. ASSUME NEW m \in DOMAIN s \cap kept PROVE s[m] \in ToSet(r)
    <3>1. PICK i \in 1..Len(r) : p[i] = m BY <1>4, <1>2 DEF Picks
    <3> QED BY <3>1, <1>4, <1>5 DEF Picks, ToSet
  <2> QED BY <2>1, <2>2
<1>7. r \in Seq(ToSet(r))
  <2>1. \A i \in 1..Len(r) : r[i] \in ToSet(r) BY <1>5 DEF ToSet
  <2>2. r \in [1..Len(r) -> ToSet(r)] BY <2>1, <1>3
  <2> QED BY <2>2, <1>5, SeqDef
<1> QED BY <1>6, <1>7 DEF IsList, r

(* A list is a function on an initial segment of the numbers from 1. *)
LEMMA Lists ==
    ASSUME NEW s, IsList(s)
    PROVE  Len(s) \in Nat /\ DOMAIN s = 1..Len(s) /\ s \in Seq(ToSet(s))
BY DEF IsList

(* A function on 1..n is a list of n elements. *)
LEMMA ListOf ==
    ASSUME NEW n \in Nat, NEW S, NEW s \in [1..n -> S]
    PROVE  IsList(s) /\ Len(s) = n
<1>1. \A i \in 1..n : s[i] \in ToSet(s) BY DEF ToSet
<1>2. s \in [1..n -> ToSet(s)] BY <1>1
<1>3. s \in Seq(ToSet(s)) BY <1>2, SeqDef
<1>4. Len(s) \in Nat /\ DOMAIN s = 1..Len(s) BY <1>3
<1>5. 1..Len(s) = 1..n BY <1>4
<1>6. Len(s) = n BY <1>4, <1>5
<1> QED BY <1>3, <1>6 DEF IsList

(* A list with one more element. *)
LEMMA AppendList ==
    ASSUME NEW s, IsList(s), NEW x
    PROVE  IsList(Append(s, x)) /\ ToSet(Append(s, x)) = ToSet(s) \cup {x}
<1> DEFINE r == Append(s, x)
<1>1. s \in Seq(ToSet(s) \cup {x})
  <2>1. s \in Seq(ToSet(s)) BY Lists
  <2> HIDE DEF r
  <2> QED BY <2>1, SeqMonotonic
<1>2. r \in Seq(ToSet(s) \cup {x}) /\ Len(r) = Len(s) + 1 BY <1>1
<1>3. DOMAIN r = 1..(Len(s) + 1) /\ Len(s) \in Nat /\ DOMAIN s = 1..Len(s) BY <1>1, <1>2
<1>4. (\A i \in 1..Len(s) : r[i] = s[i]) /\ r[Len(s) + 1] = x BY <1>1
<1> HIDE DEF r
<1>5. ToSet(r) = ToSet(s) \cup {x} BY <1>3, <1>4 DEF ToSet
<1>6. r \in [1..(Len(s) + 1) -> ToSet(s) \cup {x}] BY <1>2, <1>3
<1>7. IsList(r)
  <2> DEFINE n == Len(s) + 1
             T == ToSet(s) \cup {x}
  <2>1. n \in Nat /\ r \in [1..n -> T] BY <1>3, <1>6
  <2> HIDE DEF n, T
  <2> QED BY <2>1, ListOf
<1> QED BY <1>5, <1>7 DEF r

(* A list with one element replaced. *)
LEMMA ExceptList ==
    ASSUME NEW s, IsList(s), NEW b, NEW x
    PROVE  IsList([s EXCEPT ![b] = x]) /\ Len([s EXCEPT ![b] = x]) = Len(s)
<1>1. Len(s) \in Nat /\ s \in [1..Len(s) -> ToSet(s) \cup {x}]
  <2>1. Len(s) \in Nat /\ DOMAIN s = 1..Len(s) /\ s \in Seq(ToSet(s)) BY Lists
  <2>2. s \in [1..Len(s) -> ToSet(s)] BY <2>1, LenProperties
  <2> QED BY <2>1, <2>2
<1>2. [s EXCEPT ![b] = x] \in [1..Len(s) -> ToSet(s) \cup {x}] BY <1>1
<1> QED BY <1>1, <1>2, ListOf

(* A finite set of natural numbers has an upper bound. *)
LEMMA FiniteBound ==
    ASSUME NEW S \in SUBSET Nat, IsFiniteSet(S)
    PROVE  \E b \in Nat : \A x \in S : x <= b
<1> DEFINE Bounded(T) == \E b \in Nat : \A x \in T : x <= b
           Good == {n \in Nat : \A T \in SUBSET Nat : IsFiniteSet(T) /\ Cardinality(T) = n => Bounded(T)}
<1>1. 0 \in Good
  <2>1. ASSUME NEW T \in SUBSET Nat, IsFiniteSet(T), Cardinality(T) = 0 PROVE Bounded(T)
    <3>1. T = {} BY <2>1, FS_EmptySet
    <3> QED BY <3>1
  <2> QED BY <2>1
<1>2. ASSUME NEW n \in Nat, n \in Good PROVE n + 1 \in Good
  <2>1. ASSUME NEW T \in SUBSET Nat, IsFiniteSet(T), Cardinality(T) = n + 1 PROVE Bounded(T)
    <3>1. PICK y : y \in T
      <4>1. T # {} BY <2>1, FS_EmptySet
      <4> QED BY <4>1
    <3>2. IsFiniteSet(T \ {y}) /\ Cardinality(T \ {y}) = n
      <4>1. /\ IsFiniteSet(T \ {y})
            /\ Cardinality(T \ {y}) = IF y \in T THEN Cardinality(T) - 1 ELSE Cardinality(T)
        BY <2>1, FS_RemoveElement
      <4>2. (n + 1) - 1 = n OBVIOUS
      <4> QED BY <4>1, <4>2, <2>1, <3>1
    <3>3. PICK b \in Nat : \A x \in T \ {y} : x <= b BY <1>2, <3>2
    <3>4. y \in Nat /\ b + y \in Nat BY <3>1
    <3>5. \A x \in T : x <= b + y BY <3>3, <3>4
    <3> QED BY <3>4, <3>5
  <2> HIDE DEF Bounded
  <2> QED BY <2>1
<1>3. Cardinality(S) \in Nat BY FS_CardinalityType
<1>4. Cardinality(S) \in Good
  <2> HIDE DEF Good
  <2> QED BY <1>1, <1>2, <1>3, SetInduction
<1> QED BY <1>4

(* Max of a non-empty finite set is its greatest element. *)
LEMMA MaxOfFinite ==
    ASSUME NEW S \in SUBSET Nat, IsFiniteSet(S), S # {}
    PROVE  Max(S) \in S /\ \A x \in S : x <= Max(S)
<1> DEFINE U == {b \in Nat : \A x \in S : x <= b}
<1>1. U # {} BY FiniteBound
<1>2. PICK m \in U : \A b \in U : m <= b
  <2>1. U \subseteq Nat OBVIOUS
  <2> HIDE DEF U
  <2> QED BY <1>1, <2>1, LeastNat
<1>3. m \in S
  <2> SUFFICES ASSUME m \notin S PROVE FALSE OBVIOUS
  <2>1. \A x \in S : x <= m - 1 OBVIOUS
  <2>2. m # 0
    <3>1. PICK x \in S : TRUE OBVIOUS
    <3> QED BY <3>1, <2>1
  <2>3. m - 1 \in U BY <2>1, <2>2
  <2> QED BY <2>3, <1>2
<1>4. \E x \in S : \A y \in S : x >= y BY <1>3
<1>5. Max(S) = CHOOSE x \in S : \A y \in S : x >= y BY DEF Max
<1>6. Max(S) \in S /\ \A y \in S : Max(S) >= y BY <1>4, <1>5
<1> QED BY <1>6

(* nextObjectId() names an object that the graph does not have. *)
LEMMA NewObjectId ==
    ASSUME NEW envelope, IsEnvelope(envelope)
    PROVE  NextObjectId(envelope) \in Nat \ DOMAIN envelope.nodes
<1> DEFINE S == {0} \cup DOMAIN envelope.nodes
<1>1. S \in SUBSET Nat /\ S # {} BY DEF IsEnvelope
<1>2. IsFiniteSet(S)
  <2>1. IsFiniteSet({0}) /\ IsFiniteSet(DOMAIN envelope.nodes) BY FS_Singleton DEF IsEnvelope
  <2> QED BY <2>1, FS_Union
<1>3. NextObjectId(envelope) = Max(S) + 1 BY DEF NextObjectId
<1> HIDE DEF S
<1>4. Max(S) \in S /\ \A x \in S : x <= Max(S) BY <1>1, <1>2, MaxOfFinite
<1>5. Max(S) \in Nat BY <1>1, <1>4
<1>6. \A x \in DOMAIN envelope.nodes : x \in Nat /\ x <= Max(S) BY <1>1, <1>4 DEF S
<1> DEFINE m == Max(S)
<1> HIDE DEF m
<1>7. m + 1 \in Nat /\ m + 1 \notin DOMAIN envelope.nodes BY <1>5, <1>6 DEF m
<1> QED BY <1>3, <1>7 DEF m

-----------------------------------------------------------------------------
(* The operators that make up an update state *)

(* The fields of an update state. *)
Shape(u) == /\ DOMAIN u = {"g", "bindings", "changes", "failed"}
            /\ DOMAIN u.g = {"env", "nodes", "over", "mode", "advanced"}
            /\ DOMAIN u.g.env = {"root", "nodes"}

(* WithNodes replaces the nodes and nothing else. *)
LEMMA WithNodesFacts ==
    ASSUME NEW u, Shape(u), NEW nodes
    PROVE  LET w == WithNodes(u, nodes)
           IN  /\ Shape(w) /\ w.g.env.nodes = nodes /\ w.g.env.root = u.g.env.root
               /\ w.g.over = u.g.over /\ w.g.nodes = u.g.nodes
               /\ w.bindings = u.bindings /\ w.changes = u.changes /\ w.failed = u.failed
<1> DEFINE env == [u.g.env EXCEPT !.nodes = nodes]
           g == [u.g EXCEPT !.env = env]
           w == [u EXCEPT !.g = g]
<1>1. WithNodes(u, nodes) = w BY DEF WithNodes
<1>2. DOMAIN env = {"root", "nodes"} /\ env.nodes = nodes /\ env.root = u.g.env.root BY DEF Shape
<1> HIDE DEF env
<1>3. DOMAIN g = {"env", "nodes", "over", "mode", "advanced"} /\ g.env = env /\ g.over = u.g.over /\ g.nodes = u.g.nodes
  BY DEF Shape
<1> HIDE DEF g
<1>4. DOMAIN w = {"g", "bindings", "changes", "failed"} /\ w.g = g /\ w.bindings = u.bindings
      /\ w.changes = u.changes /\ w.failed = u.failed
  BY DEF Shape
<1> HIDE DEF w
<1> QED BY <1>1, <1>2, <1>3, <1>4 DEF Shape

(* Put replaces one node and nothing else. *)
LEMMA PutFacts ==
    ASSUME NEW u, Shape(u), NEW id, NEW node
    PROVE  LET w == Put(u, id, node)
           IN  /\ Shape(w) /\ w.g.env.nodes = With(u.g.env.nodes, id, node) /\ w.g.env.root = u.g.env.root
               /\ w.g.over = u.g.over /\ w.g.nodes = u.g.nodes
               /\ w.bindings = u.bindings /\ w.changes = u.changes /\ w.failed = u.failed
BY WithNodesFacts DEF Put

(* Note adds to the reported changes and nothing else. *)
LEMMA NoteFacts ==
    ASSUME NEW u, Shape(u), NEW ids
    PROVE  LET w == Note(u, ids)
           IN  /\ Shape(w) /\ w.g = u.g /\ w.bindings = u.bindings
               /\ w.changes = u.changes \cup ids /\ w.failed = u.failed
BY DEF Shape, Note

(* Fail marks the update as failed and nothing else. *)
LEMMA FailFacts ==
    ASSUME NEW u, Shape(u)
    PROVE  LET w == Fail(u)
           IN  /\ Shape(w) /\ w.g = u.g /\ w.bindings = u.bindings /\ w.changes = u.changes /\ w.failed
BY DEF Shape, Fail

(* Bind adds an alias to one binding and nothing else. *)
LEMMA BindFacts ==
    ASSUME NEW u, Shape(u), NEW b, NEW alias, NEW id
    PROVE  LET w == Bind(u, b, alias, id)
           IN  /\ Shape(w) /\ w.g = u.g /\ w.changes = u.changes /\ w.failed = u.failed
               /\ w.bindings = [u.bindings EXCEPT ![b] = With(u.bindings[b], alias, id)]
<1> DEFINE bindings == [u.bindings EXCEPT ![b] = With(u.bindings[b], alias, id)]
<1>1. Bind(u, b, alias, id) = [u EXCEPT !.bindings = bindings] BY DEF Bind
<1> HIDE DEF bindings
<1>2. QED BY <1>1 DEF Shape, bindings

-----------------------------------------------------------------------------
(* What a change of one object does to its references *)

(* The edges of an object start from it. *)
LEMMA EdgeSource == ASSUME NEW id, NEW node, NEW e \in EdgesOf(id, node) PROVE e.from = id
<1>1. CASE node.kind = "array"
  <2>1. PICK v \in {w \in ToSet(node.items) : IsRef(w)} : e = [from |-> id, to |-> v[2], label |-> ""]
    BY <1>1 DEF EdgesOf
  <2> QED BY <2>1
<1>2. CASE node.kind # "array"
  <2>1. PICK p \in {q \in DOMAIN node.props : IsRef(node.props[q])} :
            e = [from |-> id, to |-> node.props[p][2], label |-> p]
    BY <1>2 DEF EdgesOf
  <2> QED BY <2>1
<1> QED BY <1>1, <1>2

(* The edges of a graph are those of its objects. *)
LEMMA EdgeOrigin ==
    ASSUME NEW nodes, NEW e
    PROVE  e \in Edges(nodes) <=> \E id \in DOMAIN nodes : e \in EdgesOf(id, nodes[id])
BY DEF Edges

(* A new node brings no edges but its own. *)
LEMMA PutEdges ==
    ASSUME NEW nodes, NEW id, NEW node, NEW e \in Edges(With(nodes, id, node))
    PROVE  e \in Edges(nodes) \/ e \in EdgesOf(id, node)
<1> DEFINE after == With(nodes, id, node)
<1>0. DOMAIN after = DOMAIN nodes \cup {id} /\ after[id] = node /\ \A i \in DOMAIN nodes : i # id => after[i] = nodes[i]
  BY DEF With
<1>1. PICK i \in DOMAIN after : e \in EdgesOf(i, after[i]) BY EdgeOrigin
<1> HIDE DEF after
<1>2. CASE i = id BY <1>1, <1>2, <1>0
<1>3. CASE i # id
  <2>1. i \in DOMAIN nodes /\ after[i] = nodes[i] BY <1>1, <1>3, <1>0
  <2> QED BY <1>1, <2>1, EdgeOrigin
<1> QED BY <1>2, <1>3

(* A node with other properties is a node, if its references are at known paths. *)
LEMMA PropsNode ==
    ASSUME NEW node, IsNode(node), NEW props
    PROVE  LET n == [node EXCEPT !.props = props]
           IN  /\ n.kind = node.kind /\ n.items = node.items /\ n.props = props
               /\ (\A p \in DOMAIN props : IsRef(props[p]) => p \in ToSet(Paths)) => IsNode(n)
<1> DEFINE n == [node EXCEPT !.props = props]
<1>1. n.kind = node.kind /\ n.items = node.items /\ n.props = props /\ DOMAIN n = DOMAIN node BY DEF IsNode
<1> HIDE DEF n
<1> QED BY <1>1 DEF IsNode, n

(* A node with another list of items is a node. *)
LEMMA ItemsNode ==
    ASSUME NEW node, IsNode(node), NEW items, IsList(items)
    PROVE  LET n == [node EXCEPT !.items = items]
           IN  IsNode(n) /\ n.kind = node.kind /\ n.items = items /\ n.props = node.props
BY DEF IsNode

(* Setting a property adds the reference it is set to, at most. *)
LEMMA SetPropEdges ==
    ASSUME NEW node, IsNode(node), NEW path, NEW v, NEW id,
           NEW e \in EdgesOf(id, SetProp(node, path, v))
    PROVE  e \in EdgesOf(id, node) \/ (IsRef(v) /\ e.to = v[2])
<1> DEFINE props == With(node.props, path, v)
           n == SetProp(node, path, v)
<1>1. n.kind = node.kind /\ n.items = node.items /\ n.props = props BY PropsNode DEF SetProp
<1>2. e \in EdgesOf(id, n) OBVIOUS
<1>5. DOMAIN props = DOMAIN node.props \cup {path} /\ props[path] = v
      /\ \A q \in DOMAIN node.props : q # path => props[q] = node.props[q]
  BY DEF With
<1> HIDE DEF n, props
<1>3. CASE node.kind = "array" BY <1>1, <1>2, <1>3 DEF EdgesOf
<1>4. CASE node.kind # "array"
  <2>1. PICK q \in DOMAIN props : IsRef(props[q]) /\ e = [from |-> id, to |-> props[q][2], label |-> q]
    BY <1>1, <1>2, <1>4 DEF EdgesOf
  <2>2. CASE q = path BY <2>1, <2>2, <1>5
  <2>3. CASE q # path
    <3>1. q \in DOMAIN node.props /\ props[q] = node.props[q] BY <2>1, <2>3, <1>5
    <3> QED BY <3>1, <2>1, <1>4 DEF EdgesOf
  <2> QED BY <2>2, <2>3
<1> QED BY <1>3, <1>4

(* Setting a property to a reference adds that reference, at most. *)
LEMMA SetRefEdges ==
    ASSUME NEW node, IsNode(node), NEW path, NEW target, NEW id
    PROVE  \A e \in EdgesOf(id, SetProp(node, path, Ref(target))) : e \in EdgesOf(id, node) \/ e.to = target
<1> DEFINE ref == Ref(target)
<1>1. ref[2] = target BY DEF Ref
<1> HIDE DEF ref
<1>2. \A e \in EdgesOf(id, SetProp(node, path, ref)) : e \in EdgesOf(id, node) \/ e.to = ref[2] BY SetPropEdges
<1> QED BY <1>1, <1>2 DEF ref

(* Setting a property leaves a node. *)
LEMMA SetPropNode ==
    ASSUME NEW node, IsNode(node), NEW path, NEW v, IsRef(v) => path \in ToSet(Paths)
    PROVE  IsNode(SetProp(node, path, v))
<1> DEFINE props == With(node.props, path, v)
<1>1. DOMAIN props = DOMAIN node.props \cup {path} /\ props[path] = v
      /\ \A q \in DOMAIN node.props : q # path => props[q] = node.props[q]
  BY DEF With
<1> HIDE DEF props
<1>2. \A p \in DOMAIN props : IsRef(props[p]) => p \in ToSet(Paths) BY <1>1 DEF IsNode
<1> QED BY <1>2, PropsNode DEF SetProp, props

(* A node of which some properties are left has no new references. *)
LEMMA RestrictPropsNode ==
    ASSUME NEW node, IsNode(node), NEW paths, paths \subseteq DOMAIN node.props, NEW id
    PROVE  /\ IsNode(RestrictProps(node, paths))
           /\ EdgesOf(id, RestrictProps(node, paths)) \subseteq EdgesOf(id, node)
           /\ node.kind # "array" =>
                \A e \in EdgesOf(id, RestrictProps(node, paths)) :
                    \E p \in paths : IsRef(node.props[p]) /\ e.to = node.props[p][2]
<1> DEFINE props == Restrict(node.props, paths)
           n == [node EXCEPT !.props = props]
<1>0. \A p \in DOMAIN props : IsRef(props[p]) => p \in ToSet(Paths) BY DEF IsNode, Restrict
<1>1. IsNode(n) /\ n.kind = node.kind /\ n.items = node.items /\ n.props = props BY <1>0, PropsNode
<1>2. RestrictProps(node, paths) = n BY DEF RestrictProps
<1> HIDE DEF n
<1>3. DOMAIN props = paths /\ \A p \in paths : props[p] = node.props[p] BY DEF Restrict
<1> HIDE DEF props
<1>4. CASE node.kind = "array" BY <1>1, <1>2, <1>4 DEF EdgesOf
<1>5. CASE node.kind # "array"
  <2>1. ASSUME NEW e \in EdgesOf(id, n)
        PROVE  e \in EdgesOf(id, node) /\ \E p \in paths : IsRef(node.props[p]) /\ e.to = node.props[p][2]
    <3>1. PICK q \in DOMAIN props : IsRef(props[q]) /\ e = [from |-> id, to |-> props[q][2], label |-> q]
      BY <1>1, <1>5 DEF EdgesOf
    <3>2. q \in paths /\ q \in DOMAIN node.props /\ props[q] = node.props[q] BY <1>3
    <3> QED BY <3>1, <3>2, <1>5 DEF EdgesOf
  <2> QED BY <2>1, <1>1, <1>2, <1>5
<1> QED BY <1>4, <1>5

(* An appended item adds its reference, at most. *)
LEMMA AppendItemNode ==
    ASSUME NEW node, IsNode(node), NEW target, NEW id
    PROVE  LET n == AppendItem(node, Ref(target))
           IN  IsNode(n) /\ \A e \in EdgesOf(id, n) : e \in EdgesOf(id, node) \/ e.to = target
<1> DEFINE items == Append(node.items, Ref(target))
           n == AppendItem(node, Ref(target))
<1>1. IsList(items) /\ ToSet(items) = ToSet(node.items) \cup {Ref(target)} BY AppendList DEF IsNode
<1> HIDE DEF items
<1>2. IsNode(n) /\ n.kind = node.kind /\ n.items = items /\ n.props = node.props
  BY <1>1, ItemsNode DEF AppendItem, items
<1>3. Ref(target)[2] = target BY DEF Ref
<1> HIDE DEF n
<1>4. ASSUME NEW e \in EdgesOf(id, n) PROVE e \in EdgesOf(id, node) \/ e.to = target
  <2>1. CASE node.kind = "array"
    <3>1. PICK v \in ToSet(items) : IsRef(v) /\ e = [from |-> id, to |-> v[2], label |-> ""]
      BY <1>2, <2>1 DEF EdgesOf
    <3>2. CASE v = Ref(target) BY <3>1, <3>2, <1>3
    <3>3. CASE v # Ref(target)
      <4>1. v \in ToSet(node.items) BY <3>1, <3>3, <1>1
      <4> QED BY <4>1, <3>1, <2>1 DEF EdgesOf
    <3> QED BY <3>2, <3>3
  <2>2. CASE node.kind # "array" BY <1>2, <2>2 DEF EdgesOf
  <2> QED BY <2>1, <2>2
<1> QED BY <1>2, <1>4 DEF n, items

(* An array created for one element refers to it alone. *)
LEMMA NewArray ==
    ASSUME NEW target, NEW id
    PROVE  IsNode(ArrayNode(<<Ref(target)>>)) /\ \A e \in EdgesOf(id, ArrayNode(<<Ref(target)>>)) : e.to = target
<1> DEFINE items == <<Ref(target)>>
<1>1. items \in [1..1 -> {Ref(target)}] OBVIOUS
<1>2. IsList(items) BY <1>1, ListOf
<1>3. ToSet(items) = {Ref(target)} BY DEF ToSet
<1> HIDE DEF items
<1>4. IsNode(ArrayNode(items)) BY <1>2 DEF ArrayNode, IsNode
<1>5. ASSUME NEW e \in EdgesOf(id, ArrayNode(items)) PROVE e.to = target
  <2>1. ArrayNode(items).kind = "array" /\ ArrayNode(items).items = items BY DEF ArrayNode
  <2>2. PICK v \in ToSet(items) : e = [from |-> id, to |-> v[2], label |-> ""] BY <2>1 DEF EdgesOf
  <2>3. v = Ref(target) BY <1>3
  <2>4. e.to = v[2] BY <2>2
  <2>5. Ref(target)[2] = target BY DEF Ref
  <2> QED BY <2>3, <2>4, <2>5
<1> QED BY <1>4, <1>5 DEF items

(* An object created from plain values refers to nothing. *)
LEMMA NewObject ==
    ASSUME NEW type, NEW props, NEW id, \A p \in DOMAIN props : ~IsRef(props[p])
    PROVE  IsNode(ObjectNode(type, props)) /\ EdgesOf(id, ObjectNode(type, props)) = {}
<1> DEFINE items == <<>>
<1>1. items \in [1..0 -> {}] OBVIOUS
<1>2. IsList(items) BY <1>1, ListOf
<1> HIDE DEF items
<1>3. IsNode(ObjectNode(type, props)) BY <1>2 DEF ObjectNode, IsNode, items
<1>4. EdgesOf(id, ObjectNode(type, props)) = {} BY DEF ObjectNode, EdgesOf
<1> QED BY <1>3, <1>4

(* detachReferencesTo() leaves a node without references to the targets. *)
LEMMA DetachNode ==
    ASSUME NEW node, IsNode(node), NEW targets, NEW id
    PROVE  LET n == DetachReferencesTo(node, targets)
           IN  IsNode(n) /\ \A e \in EdgesOf(id, n) : e \in EdgesOf(id, node) /\ e.to \notin targets
<1> DEFINE gone(v) == IsRef(v) /\ v[2] \in targets
           kept == {i \in DOMAIN node.items : ~gone(node.items[i])}
           items == Select(node.items, kept)
           n == [node EXCEPT !.items = items]
<1>1. CASE node.kind = "array"
  <2>1. DetachReferencesTo(node, targets) = n BY <1>1 DEF DetachReferencesTo
  <2>2. IsList(items) /\ ToSet(items) = {node.items[i] : i \in DOMAIN node.items \cap kept} BY SelectSubset DEF IsNode
  <2>3. \A v \in ToSet(items) : v \in ToSet(node.items) /\ ~gone(v) BY <2>2 DEF ToSet
  <2> HIDE DEF items
  <2>4. IsNode(n) /\ n.kind = node.kind /\ n.items = items BY <2>2, ItemsNode
  <2> HIDE DEF n
  <2>5. ASSUME NEW e \in EdgesOf(id, n) PROVE e \in EdgesOf(id, node) /\ e.to \notin targets
    <3>1. PICK v \in ToSet(items) : IsRef(v) /\ e = [from |-> id, to |-> v[2], label |-> ""]
      BY <1>1, <2>4 DEF EdgesOf
    <3>2. v \in ToSet(node.items) /\ ~gone(v) BY <2>3, <3>1
    <3>3. e.to = v[2] BY <3>1
    <3>4. e \in EdgesOf(id, node) BY <1>1, <3>1, <3>2 DEF EdgesOf
    <3> QED BY <3>1, <3>2, <3>3, <3>4
  <2> QED BY <2>1, <2>4, <2>5
<1>2. CASE node.kind # "array"
  <2> DEFINE paths == {p \in DOMAIN node.props : ~gone(node.props[p])}
  <2>1. DetachReferencesTo(node, targets) = RestrictProps(node, paths) BY <1>2 DEF DetachReferencesTo
  <2>2. \A p \in paths : IsRef(node.props[p]) => node.props[p][2] \notin targets OBVIOUS
  <2>3. paths \subseteq DOMAIN node.props OBVIOUS
  <2> HIDE DEF paths
  <2>4. /\ IsNode(RestrictProps(node, paths))
        /\ EdgesOf(id, RestrictProps(node, paths)) \subseteq EdgesOf(id, node)
        /\ \A e \in EdgesOf(id, RestrictProps(node, paths)) :
               \E p \in paths : IsRef(node.props[p]) /\ e.to = node.props[p][2]
    BY <1>2, <2>3, RestrictPropsNode
  <2> QED BY <2>1, <2>2, <2>4
<1> QED BY <1>1, <1>2

-----------------------------------------------------------------------------
(* Invariants of an update *)

(* The envelope of an update is a graph at any time, and its bindings stay a list. *)
Whole(u, over) ==
    /\ Shape(u) /\ u.g.over = over
    /\ IsEnvelope(u.g.env) /\ IsGraph(u.g.env)
    /\ IsList(u.bindings)

(* What differs from the nodes before the update is among the reported changes, or in ids. *)
Reported(u, over, ids) ==
    \A id \in DOMAIN u.g.env.nodes : id \notin u.changes \cup ids =>
        id \in DOMAIN over /\ u.g.env.nodes[id] = over[id]

(* What holds from one clause of an update to the next. *)
Sound(u, over) == Whole(u, over) /\ Reported(u, over, {})

(* SET and REMOVE leave the objects where they are, and add no reference. *)
Tame(u, over) ==
    DOMAIN u.g.env.nodes = DOMAIN over /\ \A e \in Edges(u.g.env.nodes) : e \in Edges(over)

(* The graph stays whole when a node with references into it is put there. *)
LEMMA PutWhole ==
    ASSUME NEW u, NEW over, Whole(u, over), NEW id \in Nat, NEW node, IsNode(node),
           \A e \in EdgesOf(id, node) : e.to \in DOMAIN u.g.env.nodes \cup {id}
    PROVE  Whole(Put(u, id, node), over)
<1> DEFINE w == Put(u, id, node)
           nodes == u.g.env.nodes
           after == With(nodes, id, node)
<1>1. /\ Shape(w) /\ w.g.env.nodes = after /\ w.g.env.root = u.g.env.root
      /\ w.g.over = u.g.over /\ w.bindings = u.bindings
  BY PutFacts DEF Whole
<1>2. DOMAIN after = DOMAIN nodes \cup {id} /\ after[id] = node /\ \A i \in DOMAIN nodes : i # id => after[i] = nodes[i]
  BY DEF With
<1>3. IsEnvelope(u.g.env) /\ IsGraph(u.g.env) BY DEF Whole
<1>4. \A e \in Edges(after) : e \in Edges(nodes) \/ e \in EdgesOf(id, node) BY PutEdges
<1>5. IsFiniteSet(DOMAIN nodes \cup {id}) BY <1>3, FS_AddElement DEF IsEnvelope
<1> HIDE DEF w, after
<1>6. IsEnvelope(w.g.env)
  <2>1. DOMAIN w.g.env = {"root", "nodes"} BY <1>1 DEF Shape
  <2>2. DOMAIN after \in SUBSET Nat /\ IsFiniteSet(DOMAIN after) BY <1>2, <1>3, <1>5 DEF IsEnvelope
  <2>3. \A i \in DOMAIN after : IsNode(after[i]) BY <1>2, <1>3 DEF IsEnvelope
  <2> QED BY <2>1, <2>2, <2>3, <1>1 DEF IsEnvelope
<1>7. IsGraph(w.g.env)
  <2>1. u.g.env.root \in DOMAIN after BY <1>2, <1>3 DEF IsGraph
  <2>2. ASSUME NEW e \in Edges(after) PROVE e.to \in DOMAIN after BY <1>2, <1>3, <1>4 DEF IsGraph
  <2> QED BY <2>1, <2>2, <1>1 DEF IsGraph
<1> QED BY <1>1, <1>6, <1>7 DEF Whole, w

(* A node that is put becomes a difference that is yet to be reported. *)
LEMMA PutReported ==
    ASSUME NEW u, Shape(u), NEW over, NEW ids, Reported(u, over, ids), NEW id, NEW node
    PROVE  Reported(Put(u, id, node), over, ids \cup {id})
<1> DEFINE w == Put(u, id, node)
           nodes == u.g.env.nodes
           after == With(nodes, id, node)
<1>1. w.g.env.nodes = after /\ w.changes = u.changes BY PutFacts
<1>2. DOMAIN after = DOMAIN nodes \cup {id} /\ \A i \in DOMAIN nodes : i # id => after[i] = nodes[i]
  BY DEF With
<1> HIDE DEF w, after
<1>3. ASSUME NEW i \in DOMAIN after, i \notin u.changes \cup (ids \cup {id})
      PROVE  i \in DOMAIN over /\ after[i] = over[i]
  BY <1>2, <1>3 DEF Reported
<1> QED BY <1>1, <1>3 DEF Reported, w

(* Reporting changes leaves the graph alone. *)
LEMMA NoteWhole ==
    ASSUME NEW u, NEW over, Whole(u, over), NEW ids
    PROVE  Whole(Note(u, ids), over)
BY NoteFacts DEF Whole

(* Reporting the differences settles them. *)
LEMMA NoteReported ==
    ASSUME NEW u, Shape(u), NEW over, NEW ids, Reported(u, over, ids), NEW more, ids \subseteq more
    PROVE  Reported(Note(u, more), over, {})
BY NoteFacts DEF Reported

(* An update that fails has a whole graph and reported its changes. *)
LEMMA FailSound ==
    ASSUME NEW u, NEW over, Sound(u, over)
    PROVE  Sound(Fail(u), over) /\ Fail(u).g = u.g
BY FailFacts DEF Sound, Whole, Reported

(* Binding an alias leaves the graph and the reports alone. *)
LEMMA BindSound ==
    ASSUME NEW u, NEW over, Sound(u, over), NEW b, NEW alias, NEW id
    PROVE  Sound(Bind(u, b, alias, id), over) /\ Bind(u, b, alias, id).g = u.g
<1> DEFINE w == Bind(u, b, alias, id)
<1>1. /\ Shape(w) /\ w.g = u.g /\ w.changes = u.changes
      /\ w.bindings = [u.bindings EXCEPT ![b] = With(u.bindings[b], alias, id)]
  BY BindFacts DEF Sound, Whole
<1>2. IsList(w.bindings) BY <1>1, ExceptList DEF Sound, Whole
<1> HIDE DEF w
<1> QED BY <1>1, <1>2 DEF Sound, Whole, Reported, w

(* One object is changed and reported. *)
LEMMA ChangeSound ==
    ASSUME NEW u, NEW over, Sound(u, over), NEW id \in Nat, NEW node, IsNode(node),
           \A e \in EdgesOf(id, node) : e.to \in DOMAIN u.g.env.nodes \cup {id}
    PROVE  /\ Sound(Note(Put(u, id, node), {id}), over)
           /\ Note(Put(u, id, node), {id}).g.env.nodes = With(u.g.env.nodes, id, node)
<1> DEFINE w == Put(u, id, node)
<1>1. Whole(w, over) BY PutWhole DEF Sound
<1>2. Reported(w, over, {} \cup {id}) BY PutReported DEF Sound, Whole
<1>3. w.g.env.nodes = With(u.g.env.nodes, id, node) BY PutFacts DEF Sound, Whole
<1> HIDE DEF w
<1>4. Whole(Note(w, {id}), over) BY <1>1, NoteWhole
<1>5. Reported(Note(w, {id}), over, {}) BY <1>1, <1>2, NoteReported DEF Whole
<1>6. Note(w, {id}).g = w.g BY <1>1, NoteFacts DEF Whole
<1> QED BY <1>3, <1>4, <1>5, <1>6 DEF Sound, w

(* An object of a whole graph refers to objects of that graph. *)
LEMMA NodeFacts ==
    ASSUME NEW u, NEW over, Whole(u, over), NEW id \in DOMAIN u.g.env.nodes
    PROVE  /\ id \in Nat /\ IsNode(u.g.env.nodes[id])
           /\ \A e \in EdgesOf(id, u.g.env.nodes[id]) : e \in Edges(u.g.env.nodes) /\ e.to \in DOMAIN u.g.env.nodes
<1>1. id \in Nat /\ IsNode(u.g.env.nodes[id]) BY DEF Whole, IsEnvelope
<1>2. \A e \in EdgesOf(id, u.g.env.nodes[id]) : e \in Edges(u.g.env.nodes) BY EdgeOrigin
<1> QED BY <1>1, <1>2 DEF Whole, IsGraph

(* Taking references away from one object adds none to the graph. *)
LEMMA TameChange ==
    ASSUME NEW u, NEW over, Tame(u, over), NEW id \in DOMAIN u.g.env.nodes, NEW node,
           \A e \in EdgesOf(id, node) : e \in EdgesOf(id, u.g.env.nodes[id]),
           NEW w, w.g.env.nodes = With(u.g.env.nodes, id, node)
    PROVE  Tame(w, over)
<1> DEFINE nodes == u.g.env.nodes
           after == With(nodes, id, node)
<1>1. DOMAIN after = DOMAIN nodes BY DEF With
<1>2. \A e \in Edges(after) : e \in Edges(nodes) \/ e \in EdgesOf(id, node) BY PutEdges
<1> HIDE DEF after
<1>3. \A e \in Edges(after) : e \in Edges(nodes) BY <1>2, EdgeOrigin
<1>4. w.g.env.nodes = after BY DEF after
<1> QED BY <1>1, <1>3, <1>4 DEF Tame

-----------------------------------------------------------------------------
(* The items of the clauses *)

(* A value that SET can store is no reference. *)
LEMMA EncodableIsPlain == ASSUME NEW v, Encodable(v) PROVE ~IsRef(v)
BY DEF Encodable, IsRef

(* SET changes and reports objects it finds, and adds no reference. *)
LEMMA SetItemSound ==
    ASSUME NEW u, NEW over, Sound(u, over), Tame(u, over), NEW b, NEW item, NEW value
    PROVE  Sound(SetItem(u, b, item, value, FALSE), over) /\ Tame(SetItem(u, b, item, value, FALSE), over)
<1> DEFINE id == u.bindings[b][item.alias]
           nodes == u.g.env.nodes
           node == nodes[id]
           set == SetProp(node, item.path, value)
           w == SetItem(u, b, item, value, FALSE)
<1>1. CASE ~Live(u, b, item.alias)
  <2>1. w = u BY <1>1 DEF SetItem
  <2> QED BY <2>1
<1>2. CASE Live(u, b, item.alias) /\ (~Encodable(value) \/ node.kind # "object")
  <2>1. w = Fail(u) BY <1>2 DEF SetItem
  <2> QED BY <2>1, FailSound DEF Tame
<1>3. CASE Live(u, b, item.alias) /\ Encodable(value) /\ node.kind = "object"
  <2>1. w = Note(Put(u, id, set), {id}) BY <1>3 DEF SetItem
  <2>2. id \in DOMAIN nodes BY <1>3 DEF Live
  <2>3. id \in Nat /\ IsNode(node) /\ \A e \in EdgesOf(id, node) : e.to \in DOMAIN nodes BY <2>2, NodeFacts DEF Sound
  <2>4. ~IsRef(value) BY <1>3, EncodableIsPlain
  <2>5. IsNode(set) BY <2>3, <2>4, SetPropNode
  <2>6. \A e \in EdgesOf(id, set) : e \in EdgesOf(id, node) BY <2>3, <2>4, SetPropEdges
  <2> HIDE DEF set, w
  <2>7. \A e \in EdgesOf(id, set) : e.to \in DOMAIN nodes \cup {id} BY <2>3, <2>6
  <2>8. Sound(w, over) /\ w.g.env.nodes = With(nodes, id, set) BY <2>1, <2>3, <2>5, <2>7, ChangeSound
  <2>9. Tame(w, over) BY <2>2, <2>6, <2>8, TameChange
  <2> QED BY <2>8, <2>9 DEF w
<1> QED BY <1>1, <1>2, <1>3

(* REMOVE changes and reports objects it finds, and adds no reference. *)
LEMMA RemoveItemSound ==
    ASSUME NEW u, NEW over, Sound(u, over), Tame(u, over), NEW b, NEW item
    PROVE  Sound(RemoveItem(u, b, item, FALSE), over) /\ Tame(RemoveItem(u, b, item, FALSE), over)
<1> DEFINE id == u.bindings[b][item.alias]
           nodes == u.g.env.nodes
           node == nodes[id]
           paths == (DOMAIN node.props) \ {item.path}
           removed == RestrictProps(node, paths)
           w == RemoveItem(u, b, item, FALSE)
<1>1. CASE ~Live(u, b, item.alias)
  <2>1. w = u BY <1>1 DEF RemoveItem
  <2> QED BY <2>1
<1>2. CASE Live(u, b, item.alias) /\ node.kind # "object"
  <2>1. w = Fail(u) BY <1>2 DEF RemoveItem
  <2> QED BY <2>1, FailSound DEF Tame
<1>3. CASE Live(u, b, item.alias) /\ node.kind = "object" /\ item.path \notin DOMAIN node.props
  <2>1. w = u BY <1>3 DEF RemoveItem
  <2> QED BY <2>1
<1>4. CASE Live(u, b, item.alias) /\ node.kind = "object" /\ item.path \in DOMAIN node.props
  <2>1. w = Note(Put(u, id, removed), {id}) BY <1>4 DEF RemoveItem
  <2>2. id \in DOMAIN nodes BY <1>4 DEF Live
  <2>3. id \in Nat /\ IsNode(node) /\ \A e \in EdgesOf(id, node) : e.to \in DOMAIN nodes BY <2>2, NodeFacts DEF Sound
  <2>4. paths \subseteq DOMAIN node.props OBVIOUS
  <2> HIDE DEF paths
  <2>5. IsNode(removed) /\ \A e \in EdgesOf(id, removed) : e \in EdgesOf(id, node) BY <2>3, <2>4, RestrictPropsNode
  <2> HIDE DEF removed, w
  <2>7. \A e \in EdgesOf(id, removed) : e.to \in DOMAIN nodes \cup {id} BY <2>3, <2>5
  <2>8. Sound(w, over) /\ w.g.env.nodes = With(nodes, id, removed) BY <2>1, <2>3, <2>5, <2>7, ChangeSound
  <2>9. Tame(w, over) BY <2>2, <2>5, <2>8, TameChange
  <2> QED BY <2>8, <2>9 DEF w
<1> QED BY <1>1, <1>2, <1>3, <1>4

(* attachCreatedObject() changes and reports the objects it attaches to. *)
LEMMA AttachSound ==
    ASSUME NEW u, NEW over, Sound(u, over), NEW b, NEW into, IsTarget(into),
           NEW id \in DOMAIN u.g.env.nodes
    PROVE  Sound(AttachCreatedObject(u, b, into, id), over)
<1> DEFINE nodes == u.g.env.nodes
           parent == u.bindings[b][into.alias]
           existing == GetNodePath(nodes[parent], into.path)
           collection == IF into.path = "" THEN parent ELSE existing[2]
           created == NextObjectId(u.g.env)
           append == AppendItem(nodes[collection], Ref(id))
           attach == SetProp(nodes[parent], into.path, Ref(created))
           array == ArrayNode(<<Ref(id)>>)
           w == AttachCreatedObject(u, b, into, id)
           appends == /\ Live(u, b, into.alias) /\ (into.path = "" \/ IsRef(existing))
                      /\ collection \in DOMAIN nodes /\ nodes[collection].kind = "array"
           attaches == /\ Live(u, b, into.alias) /\ ~(into.path = "" \/ IsRef(existing))
                       /\ into.path \notin DOMAIN nodes[parent].props /\ nodes[parent].kind = "object"
<1>1. CASE ~appends /\ ~attaches
  <2>1. w = Fail(u) BY <1>1 DEF AttachCreatedObject
  <2> QED BY <2>1, FailSound
<1>2. CASE appends
  <2>1. w = Note(Put(u, collection, append), {collection}) BY <1>2 DEF AttachCreatedObject
  <2>2. collection \in DOMAIN nodes BY <1>2
  <2> HIDE DEF collection
  <2>3. collection \in Nat /\ IsNode(nodes[collection])
        /\ \A e \in EdgesOf(collection, nodes[collection]) : e.to \in DOMAIN nodes
    BY <2>2, NodeFacts DEF Sound
  <2>4. IsNode(append) /\ \A e \in EdgesOf(collection, append) : e \in EdgesOf(collection, nodes[collection]) \/ e.to = id
    BY <2>3, AppendItemNode
  <2> HIDE DEF append, w
  <2>5. \A e \in EdgesOf(collection, append) : e.to \in DOMAIN nodes \cup {collection} BY <2>3, <2>4
  <2> QED BY <2>1, <2>3, <2>4, <2>5, ChangeSound DEF w
<1>3. CASE attaches
  <2> DEFINE v == Put(u, created, array)
             x == Put(v, parent, attach)
  <2>1. w = Note(x, {created, parent}) BY <1>3 DEF AttachCreatedObject
  <2>2. parent \in DOMAIN nodes BY <1>3 DEF Live
  <2>3. parent \in Nat /\ IsNode(nodes[parent]) /\ \A e \in EdgesOf(parent, nodes[parent]) : e.to \in DOMAIN nodes
    BY <2>2, NodeFacts DEF Sound
  <2>4. created \in Nat \ DOMAIN nodes BY NewObjectId DEF Sound, Whole
  <2>5. IsNode(array) /\ \A e \in EdgesOf(created, array) : e.to = id BY NewArray
  <2>6. IsNode(attach)
    <3>1. into.path \in ToSet(Paths) BY <1>3 DEF IsTarget
    <3> QED BY <2>3, <3>1, SetPropNode
  <2>7. \A e \in EdgesOf(parent, attach) : e \in EdgesOf(parent, nodes[parent]) \/ e.to = created
    BY <2>3, SetRefEdges
  <2> HIDE DEF array, attach, created, parent
  <2>8. Whole(v, over)
    <3>1. \A e \in EdgesOf(created, array) : e.to \in DOMAIN nodes \cup {created} BY <2>5
    <3> QED BY <2>4, <2>5, <3>1, PutWhole DEF Sound
  <2>9. v.g.env.nodes = With(nodes, created, array) BY PutFacts DEF Sound, Whole
  <2>10. DOMAIN v.g.env.nodes = DOMAIN nodes \cup {created} BY <2>9 DEF With
  <2>11. Reported(v, over, {} \cup {created}) BY PutReported DEF Sound, Whole
  <2> HIDE DEF v
  <2>12. \A e \in EdgesOf(parent, attach) : e.to \in DOMAIN v.g.env.nodes \cup {parent} BY <2>3, <2>7, <2>10
  <2>13. Whole(x, over) BY <2>3, <2>6, <2>8, <2>12, PutWhole
  <2>14. Reported(x, over, ({} \cup {created}) \cup {parent}) BY <2>8, <2>11, PutReported DEF Whole
  <2> HIDE DEF x
  <2>15. ({} \cup {created}) \cup {parent} \subseteq {created, parent} OBVIOUS
  <2>16. Whole(Note(x, {created, parent}), over) BY <2>13, NoteWhole
  <2>17. Reported(Note(x, {created, parent}), over, {}) BY <2>13, <2>14, <2>15, NoteReported DEF Whole
  <2> QED BY <2>1, <2>16, <2>17 DEF Sound
<1> QED BY <1>1, <1>2, <1>3

(* CREATE reports the object it creates and the one it attaches it to. *)
LEMMA CreateSound ==
    ASSUME NEW u, NEW over, Sound(u, over), NEW b, NEW item, IsTarget(item.into), NEW props
    PROVE  Sound(CreateObject(u, b, item, props), over)
<1> DEFINE id == NextObjectId(u.g.env)
           object == ObjectNode(item.type, props)
           noted == Note(Put(u, id, object), {id})
           bound == Bind(noted, b, item.alias, id)
           w == CreateObject(u, b, item, props)
<1>1. CASE \E p \in DOMAIN props : ~Encodable(props[p])
  <2>1. w = Fail(u) BY <1>1 DEF CreateObject
  <2> QED BY <2>1, FailSound
<1>2. CASE \A p \in DOMAIN props : Encodable(props[p])
  <2>1. w = AttachCreatedObject(bound, b, item.into, id) BY <1>2 DEF CreateObject
  <2>2. \A p \in DOMAIN props : ~IsRef(props[p]) BY <1>2, EncodableIsPlain
  <2>3. IsNode(object) /\ EdgesOf(id, object) = {} BY <2>2, NewObject
  <2>4. id \in Nat BY NewObjectId DEF Sound, Whole
  <2> HIDE DEF object, id
  <2>5. Sound(noted, over) /\ noted.g.env.nodes = With(u.g.env.nodes, id, object) BY <2>3, <2>4, ChangeSound
  <2> HIDE DEF noted
  <2>6. Sound(bound, over) /\ bound.g = noted.g BY <2>5, BindSound
  <2>7. id \in DOMAIN bound.g.env.nodes BY <2>5, <2>6 DEF With
  <2> HIDE DEF bound
  <2> QED BY <2>1, <2>6, <2>7, AttachSound
<1> QED BY <1>1, <1>2

(* MERGE reports the object it creates or changes and the one it attaches it to. *)
LEMMA MergeSound ==
    ASSUME NEW u, NEW over, Sound(u, over), NEW b, NEW item, IsTarget(item.into), NEW props
    PROVE  Sound(MergeItem(u, b, item, props), over)
<1>1. CASE MergeItem(u, b, item, props) = Fail(u) BY <1>1, FailSound
<1>2. CASE MergeItem(u, b, item, props) = Bind(u, b, item.alias, MergeTargets(u, b, item, props[item.on])[1][2]) BY <1>2, BindSound
<1>3. CASE MergeItem(u, b, item, props) = CreateObject(u, b, item, props) BY <1>3, CreateSound
<1>4. \/ MergeItem(u, b, item, props) = Fail(u)
      \/ MergeItem(u, b, item, props) = Bind(u, b, item.alias, MergeTargets(u, b, item, props[item.on])[1][2])
      \/ MergeItem(u, b, item, props) = CreateObject(u, b, item, props)
  BY DEF MergeItem
<1> QED BY <1>1, <1>2, <1>3, <1>4

-----------------------------------------------------------------------------
(* A whole update *)

(* f leads from u to w in N steps, each with one of the items of a clause. *)
Runs(u, w, clause, items, dryRun, N, f) ==
    /\ N \in Nat /\ f[0] = u /\ f[N] = w
    /\ \A k \in 1..N : f[k] = f[k - 1] \/ \E b : \E item \in ToSet(items) : f[k] = MutateItem(clause, f[k - 1], b, item, dryRun)

(* The two loops of a clause are a chain of items, one after the other. *)
LEMMA ForEachSteps ==
    ASSUME NEW u, NEW clause, NEW items, NEW dryRun, Len(u.bindings) \in Nat, IsList(items)
    PROVE  \E N, f : Runs(u, ForEach(u, clause, items, dryRun), clause, items, dryRun, N, f)
<1> DEFINE N == Len(u.bindings) * Len(items)
           binding(k) == 1 + ((k - 1) \div Len(items))
           item(k) == items[1 + ((k - 1) % Len(items))]
           F(f, k) == IF k = 0 THEN u
                      ELSE IF f[k - 1].failed THEN f[k - 1]
                           ELSE MutateItem(clause, f[k - 1], binding(k), item(k), dryRun)
           Good == {n \in Nat : \E f : f = [k \in 0..n |-> F(f, k)]}
<1>0. N \in Nat /\ Len(items) \in Nat BY Lists
<1>1. 0 \in Good
  <2>1. [k \in 0..0 |-> u] = [k \in 0..0 |-> F([j \in 0..0 |-> u], k)] OBVIOUS
  <2> QED BY <2>1
<1>2. ASSUME NEW n \in Nat, n \in Good PROVE n + 1 \in Good
  <2>1. PICK f : f = [k \in 0..n |-> F(f, k)] BY <1>2
  <2>2. \A k \in 0..n : f[k] = F(f, k)
    <3> HIDE DEF F
    <3> QED BY <2>1
  <2> DEFINE g == [k \in 0..(n + 1) |-> IF k = n + 1 THEN F(f, k) ELSE f[k]]
  <2>3. ASSUME NEW k \in 0..(n + 1) PROVE g[k] = F(g, k)
    <3>1. CASE k = 0 BY <2>2, <3>1
    <3>2. CASE k # 0
      <4>1. k - 1 \in 0..n /\ g[k - 1] = f[k - 1] BY <3>2
      <4>2. g[k] = F(f, k)
        <5> HIDE DEF F
        <5> QED BY <2>2
      <4> HIDE DEF g
      <4> QED BY <4>1, <4>2, <3>2
    <3> QED BY <3>1, <3>2
  <2>4. g = [k \in 0..(n + 1) |-> F(g, k)]
    <3> HIDE DEF F
    <3> SUFFICES \A k \in 0..(n + 1) : g[k] = F(g, k) OBVIOUS
    <3> QED BY <2>3
  <2> HIDE DEF g, F
  <2> QED BY <2>4
<1>3. N \in Good
  <2> HIDE DEF Good, N
  <2> QED BY <1>0, <1>1, <1>2, SetInduction
<1>4. PICK f : f = [k \in 0..N |-> F(f, k)] BY <1>3
<1> DEFINE after[k \in 0..N] == F(after, k)
<1>5. after = [k \in 0..N |-> F(after, k)]
  <2> HIDE DEF F, N
  <2> QED BY <1>4
<1>6. ForEach(u, clause, items, dryRun) = after[N] BY DEF ForEach
<1> HIDE DEF after
<1>7. \A k \in 0..N : after[k] = F(after, k)
  <2> HIDE DEF F, N
  <2> QED BY <1>5
<1>11. \A k \in 1..N : item(k) \in ToSet(items)
  <2> SUFFICES ASSUME NEW k \in 1..N PROVE item(k) \in ToSet(items) OBVIOUS
  <2> DEFINE m == Len(items)
  <2>1. N # 0 /\ k \in Nat \ {0} BY <1>0
  <2>2. m # 0 BY <1>0, <2>1
  <2>3. 1 + ((k - 1) % m) \in 1..m
    <3>1. m \in Nat \ {0} /\ k - 1 \in Nat BY <1>0, <2>1, <2>2
    <3> HIDE DEF m, N
    <3> QED BY <3>1
  <2>4. DOMAIN items = 1..m BY Lists
  <2> QED BY <2>3, <2>4 DEF ToSet
<1> HIDE DEF N
<1>8. after[0] = u BY <1>0, <1>7
<1>9. ASSUME NEW k \in 1..N
      PROVE  after[k] = after[k - 1] \/ \E b : \E i \in ToSet(items) : after[k] = MutateItem(clause, after[k - 1], b, i, dryRun)
  <2>1. k \in 0..N /\ k # 0 BY <1>0
  <2>2. after[k] = after[k - 1] \/ after[k] = MutateItem(clause, after[k - 1], binding(k), item(k), dryRun)
    BY <1>7, <2>1
  <2>3. item(k) \in ToSet(items) BY <1>11
  <2> HIDE DEF binding, item
  <2> QED BY <2>2, <2>3
<1> HIDE DEF F
<1>10. Runs(u, ForEach(u, clause, items, dryRun), clause, items, dryRun, N, after) BY <1>0, <1>6, <1>8, <1>9 DEF Runs
<1> QED BY <1>10

(* A SET or REMOVE clause, over all bindings and items. *)
LEMMA TameClause ==
    ASSUME NEW u, NEW over, Sound(u, over), Tame(u, over), NEW clause \in {"set", "remove"}, NEW items, IsList(items)
    PROVE  Sound(ForEach(u, clause, items, FALSE), over) /\ Tame(ForEach(u, clause, items, FALSE), over)
<1>1. Len(u.bindings) \in Nat /\ Len(items) \in Nat BY Lists DEF Sound, Whole
<1>0. PICK N, f : Runs(u, ForEach(u, clause, items, FALSE), clause, items, FALSE, N, f) BY <1>1, ForEachSteps, Zenon
<1>2. /\ N \in Nat /\ ForEach(u, clause, items, FALSE) = f[N] /\ f[0] = u
      /\ \A k \in 1..N : f[k] = f[k - 1] \/ \E b : \E item \in ToSet(items) : f[k] = MutateItem(clause, f[k - 1], b, item, FALSE)
  BY <1>0, Zenon DEF Runs
<1> DEFINE Good == {n \in Nat : n \in 0..N => Sound(f[n], over) /\ Tame(f[n], over)}
<1>3. 0 \in Good BY <1>2
<1>4. ASSUME NEW n \in Nat, n \in Good PROVE n + 1 \in Good
  <2> SUFFICES ASSUME n + 1 \in 0..N PROVE Sound(f[n + 1], over) /\ Tame(f[n + 1], over) OBVIOUS
  <2>1. n \in 0..N /\ n + 1 \in 1..N /\ (n + 1) - 1 = n BY <1>2
  <2>2. Sound(f[n], over) /\ Tame(f[n], over) BY <1>4, <2>1
  <2>3. CASE f[n + 1] = f[n] BY <2>2, <2>3
  <2>4. CASE \E b : \E item \in ToSet(items) : f[n + 1] = MutateItem(clause, f[n], b, item, FALSE)
    <3>1. PICK b : \E item \in ToSet(items) : f[n + 1] = MutateItem(clause, f[n], b, item, FALSE) BY <2>4
    <3>0. PICK item \in ToSet(items) : f[n + 1] = MutateItem(clause, f[n], b, item, FALSE) BY <3>1
    <3>2. CASE clause = "set"
      <4>1. PICK value : f[n + 1] = SetItem(f[n], b, item, value, FALSE) BY <3>0, <3>2 DEF MutateItem
      <4> QED BY <4>1, <2>2, SetItemSound
    <3>3. CASE clause = "remove"
      <4>1. f[n + 1] = RemoveItem(f[n], b, item, FALSE) BY <3>0, <3>3 DEF MutateItem
      <4> QED BY <4>1, <2>2, RemoveItemSound
    <3> QED BY <3>2, <3>3
  <2> QED BY <1>2, <2>1, <2>3, <2>4
<1>5. Nat \subseteq Good
  <2> HIDE DEF Good
  <2> QED BY <1>3, <1>4, SetInduction
<1>6. N \in 0..N BY <1>2
<1> QED BY <1>2, <1>5, <1>6

(* The items of a clause that creates objects say where to attach them. *)
Targeted(items) == \A item \in ToSet(items) : IsTarget(item.into)

(* A CREATE or MERGE clause, over all bindings and items. *)
LEMMA CreatingClause ==
    ASSUME NEW u, NEW over, Sound(u, over), NEW clause \in {"create", "merge"}, NEW items, IsList(items), Targeted(items)
    PROVE  Sound(ForEach(u, clause, items, FALSE), over)
<1>1. Len(u.bindings) \in Nat /\ Len(items) \in Nat BY Lists DEF Sound, Whole
<1>0. PICK N, f : Runs(u, ForEach(u, clause, items, FALSE), clause, items, FALSE, N, f) BY <1>1, ForEachSteps, Zenon
<1>2. /\ N \in Nat /\ ForEach(u, clause, items, FALSE) = f[N] /\ f[0] = u
      /\ \A k \in 1..N : f[k] = f[k - 1] \/ \E b : \E item \in ToSet(items) : f[k] = MutateItem(clause, f[k - 1], b, item, FALSE)
  BY <1>0, Zenon DEF Runs
<1> DEFINE Good == {n \in Nat : n \in 0..N => Sound(f[n], over)}
<1>3. 0 \in Good BY <1>2
<1>4. ASSUME NEW n \in Nat, n \in Good PROVE n + 1 \in Good
  <2> SUFFICES ASSUME n + 1 \in 0..N PROVE Sound(f[n + 1], over) OBVIOUS
  <2>1. n \in 0..N /\ n + 1 \in 1..N /\ (n + 1) - 1 = n BY <1>2
  <2>2. Sound(f[n], over) BY <1>4, <2>1
  <2>3. CASE f[n + 1] = f[n] BY <2>2, <2>3
  <2>4. CASE \E b : \E item \in ToSet(items) : f[n + 1] = MutateItem(clause, f[n], b, item, FALSE)
    <3>1. PICK b : \E item \in ToSet(items) : f[n + 1] = MutateItem(clause, f[n], b, item, FALSE) BY <2>4
    <3>0. PICK item \in ToSet(items) : f[n + 1] = MutateItem(clause, f[n], b, item, FALSE) BY <3>1
    <3>2. CASE clause = "create"
      <4>1. PICK props : f[n + 1] = CreateObject(f[n], b, item, props) BY <3>0, <3>2 DEF MutateItem
      <4> QED BY <4>1, <2>2, CreateSound DEF Targeted
    <3>3. CASE clause = "merge"
      <4>1. PICK props : f[n + 1] = MergeItem(f[n], b, item, props) BY <3>0, <3>3 DEF MutateItem
      <4> QED BY <4>1, <2>2, MergeSound DEF Targeted
    <3> QED BY <3>2, <3>3
  <2> QED BY <1>2, <2>1, <2>3, <2>4
<1>5. Nat \subseteq Good
  <2> HIDE DEF Good
  <2> QED BY <1>3, <1>4, SetInduction
<1>6. N \in 0..N BY <1>2
<1> QED BY <1>2, <1>5, <1>6

(* DELETE detaches the deleted objects from the rest of the graph and reports both. *)
LEMMA DeleteSound ==
    ASSUME NEW u, NEW over, Sound(u, over), Tame(u, over), NEW aliases
    PROVE  Sound(ApplyDelete(u, aliases, FALSE), over)
<1> DEFINE targets == {u.bindings[x[1]][x[2]] :
                          x \in {y \in (DOMAIN u.bindings) \X ToSet(aliases) : Live(u, y[1], y[2])}}
           nodes == u.g.env.nodes
           parents == {e.from : e \in {f \in Edges(u.g.over) : f.to \in targets}} \cap (DOMAIN nodes \ targets)
           remaining == [id \in DOMAIN nodes \ targets |->
                            IF id \in parents THEN DetachReferencesTo(nodes[id], targets) ELSE nodes[id]]
           w == WithNodes(u, remaining)
           done == Note(w, targets \cup parents)
<1>1. CASE u.failed \/ u.g.env.root \in targets
  <2>1. ApplyDelete(u, aliases, FALSE) = Fail(u) BY <1>1 DEF ApplyDelete
  <2> QED BY <2>1, FailSound
<1>2. CASE ~(u.failed \/ u.g.env.root \in targets)
  <2>1. ApplyDelete(u, aliases, FALSE) = done BY <1>2 DEF ApplyDelete
  <2>2. parents = {e.from : e \in {f \in Edges(over) : f.to \in targets}} \cap (DOMAIN nodes \ targets)
    BY DEF Sound, Whole
  <2>3. u.g.env.root \notin targets BY <1>2
  <2> HIDE DEF targets
  <2>4. /\ Shape(w) /\ w.g.env.nodes = remaining /\ w.g.env.root = u.g.env.root
        /\ w.g.over = over /\ w.bindings = u.bindings /\ w.changes = u.changes
    BY WithNodesFacts DEF Sound, Whole
  <2>5. /\ IsEnvelope(u.g.env) /\ IsGraph(u.g.env) BY DEF Sound, Whole
  <2>6. DOMAIN remaining = DOMAIN nodes \ targets OBVIOUS
  <2>7. ASSUME NEW id \in DOMAIN remaining
        PROVE  /\ IsNode(remaining[id])
               /\ \A e \in EdgesOf(id, remaining[id]) : e.to \in DOMAIN nodes \ targets
    <3>1. id \in DOMAIN nodes /\ id \notin targets BY <2>6
    <3>2. IsNode(nodes[id]) /\ \A e \in EdgesOf(id, nodes[id]) : e \in Edges(nodes) /\ e.to \in DOMAIN nodes
      BY <3>1, NodeFacts DEF Sound
    <3>3. CASE id \in parents
      <4>1. remaining[id] = DetachReferencesTo(nodes[id], targets) BY <3>1, <3>3
      <4> HIDE DEF remaining, parents
      <4>2. /\ IsNode(DetachReferencesTo(nodes[id], targets))
            /\ \A e \in EdgesOf(id, DetachReferencesTo(nodes[id], targets)) :
                  e \in EdgesOf(id, nodes[id]) /\ e.to \notin targets
        BY <3>2, DetachNode
      <4> QED BY <3>2, <4>1, <4>2
    <3>4. CASE id \notin parents
      <4>1. remaining[id] = nodes[id] BY <3>1, <3>4
      <4>2. \A e \in EdgesOf(id, nodes[id]) : e.to \notin targets
        <5> SUFFICES ASSUME NEW e \in EdgesOf(id, nodes[id]), e.to \in targets PROVE FALSE OBVIOUS
        <5>1. e.from = id BY EdgeSource
        <5>2. e \in Edges(over) BY <3>2 DEF Tame
        <5>3. id \in {f.from : f \in {h \in Edges(over) : h.to \in targets}} BY <5>1, <5>2
        <5> HIDE DEF parents, remaining
        <5> QED BY <5>3, <3>1, <3>4, <2>2
      <4> HIDE DEF remaining, parents
      <4> QED BY <3>2, <4>1, <4>2
    <3> QED BY <3>3, <3>4
  <2>8. \A id \in DOMAIN remaining : id \notin targets \cup parents => remaining[id] = nodes[id] BY <2>6
  <2> HIDE DEF parents, remaining, w
  <2>9. IsEnvelope(w.g.env)
    <3>1. DOMAIN remaining \in SUBSET Nat BY <2>5, <2>6 DEF IsEnvelope
    <3>2. IsFiniteSet(DOMAIN remaining) BY <2>5, <2>6, FS_Difference DEF IsEnvelope
    <3>3. DOMAIN w.g.env = {"root", "nodes"} BY <2>4 DEF Shape
    <3> QED BY <3>1, <3>2, <3>3, <2>4, <2>7 DEF IsEnvelope
  <2>10. IsGraph(w.g.env)
    <3>1. u.g.env.root \in DOMAIN remaining BY <2>3, <2>5, <2>6 DEF IsGraph
    <3>2. ASSUME NEW e \in Edges(remaining) PROVE e.to \in DOMAIN remaining
      <4>1. PICK id \in DOMAIN remaining : e \in EdgesOf(id, remaining[id]) BY EdgeOrigin
      <4> QED BY <4>1, <2>6, <2>7
    <3> QED BY <3>1, <3>2, <2>4 DEF IsGraph
  <2>11. Whole(w, over) BY <2>4, <2>9, <2>10 DEF Whole, Sound
  <2>12. Reported(w, over, targets \cup parents)
    <3>1. ASSUME NEW id \in DOMAIN remaining, id \notin u.changes \cup (targets \cup parents)
          PROVE  id \in DOMAIN over /\ remaining[id] = over[id]
      <4>1. remaining[id] = nodes[id] /\ id \in DOMAIN nodes BY <3>1, <2>6, <2>8
      <4> QED BY <4>1, <3>1 DEF Sound, Reported
    <3> QED BY <3>1, <2>4 DEF Reported
  <2>13. Whole(done, over) BY <2>11, NoteWhole
  <2>14. Reported(done, over, {}) BY <2>11, <2>12, NoteReported DEF Whole
  <2> QED BY <2>1, <2>13, <2>14 DEF Sound
<1> QED BY <1>1, <1>2

(* What an update makes of a graph, whatever its clauses. *)
LEMMA UpdateSound ==
    ASSUME NEW g, DOMAIN g = {"env", "nodes", "over", "mode", "advanced"}, g.over = g.env.nodes,
           IsEnvelope(g.env), IsGraph(g.env),
           NEW bindings, IsList(bindings),
           NEW statement, IsUpdate(statement)
    PROVE  Sound(ApplyGvqlMutations(g, bindings, statement, FALSE), g.env.nodes)
<1> DEFINE over == g.env.nodes
           start == [g |-> g, bindings |-> bindings, changes |-> {}, failed |-> FALSE]
           after(u, clause) == ForEach(u, clause, statement[clause], FALSE)
           set == after(start, "set")
           removed == after(set, "remove")
           deleted == ApplyDelete(removed, statement.delete, FALSE)
           created == after(deleted, "create")
           merged == after(created, "merge")
<1>0. /\ \A clause \in {"set", "remove", "delete", "create", "merge"} : IsList(statement[clause])
      /\ \A clause \in {"create", "merge"} : Targeted(statement[clause])
  BY DEF IsUpdate, Targeted
<1>1. ApplyGvqlMutations(g, bindings, statement, FALSE) = merged BY DEF ApplyGvqlMutations
<1>2. Sound(start, over)
  <2>1. DOMAIN g.env = {"root", "nodes"} BY DEF IsEnvelope
  <2>2. Shape(start) BY <2>1 DEF Shape
  <2>3. Whole(start, over) BY <2>2 DEF Whole
  <2>4. Reported(start, over, {}) BY DEF Reported
  <2> QED BY <2>3, <2>4 DEF Sound
<1>3. Tame(start, over) BY DEF Tame
<1> HIDE DEF start
<1>4. Sound(set, over) /\ Tame(set, over) BY <1>0, <1>2, <1>3, TameClause
<1> HIDE DEF set
<1>5. Sound(removed, over) /\ Tame(removed, over) BY <1>0, <1>4, TameClause
<1> HIDE DEF removed
<1>6. Sound(deleted, over) BY <1>5, DeleteSound
<1> HIDE DEF deleted
<1>7. Sound(created, over) BY <1>0, <1>6, CreatingClause
<1> HIDE DEF created
<1>8. Sound(merged, over) BY <1>0, <1>7, CreatingClause
<1> QED BY <1>1, <1>8

-----------------------------------------------------------------------------
(* The objects within a number of references *)

(* f takes n steps of one reference each from the root. *)
Steps(f, edges, root, n) ==
    f[0] = {root} /\ \A k \in 1..n : f[k] = Widen(edges, f[k - 1])

(* The objects within n references are found in n steps. *)
LEMMA NearSteps ==
    ASSUME NEW nodes, NEW root, NEW n \in Nat
    PROVE  \E f : Steps(f, Edges(nodes), root, n) /\ Within(nodes, root, n) = f[n]
<1> DEFINE edges == Edges(nodes)
           F(f, k) == IF k = 0 THEN {root} ELSE Widen(edges, f[k - 1])
           Good == {m \in Nat : \E f : f = [k \in 0..m |-> F(f, k)]}
<1>1. 0 \in Good
  <2>1. [k \in 0..0 |-> {root}] = [k \in 0..0 |-> F([j \in 0..0 |-> {root}], k)] OBVIOUS
  <2> QED BY <2>1
<1>2. ASSUME NEW m \in Nat, m \in Good PROVE m + 1 \in Good
  <2>1. PICK f : f = [k \in 0..m |-> F(f, k)] BY <1>2
  <2>2. \A k \in 0..m : f[k] = F(f, k)
    <3> HIDE DEF F
    <3> QED BY <2>1
  <2> DEFINE g == [k \in 0..(m + 1) |-> IF k = m + 1 THEN F(f, k) ELSE f[k]]
  <2>3. ASSUME NEW k \in 0..(m + 1) PROVE g[k] = F(g, k)
    <3>1. CASE k = 0 BY <2>2, <3>1
    <3>2. CASE k # 0
      <4>1. k - 1 \in 0..m /\ g[k - 1] = f[k - 1] BY <3>2
      <4>2. g[k] = F(f, k)
        <5> HIDE DEF F
        <5> QED BY <2>2
      <4> HIDE DEF g
      <4> QED BY <4>1, <4>2, <3>2
    <3> QED BY <3>1, <3>2
  <2>4. g = [k \in 0..(m + 1) |-> F(g, k)]
    <3> HIDE DEF F
    <3> SUFFICES \A k \in 0..(m + 1) : g[k] = F(g, k) OBVIOUS
    <3> QED BY <2>3
  <2> HIDE DEF g, F
  <2> QED BY <2>4
<1>0. n \in Good
  <2> HIDE DEF Good
  <2> QED BY <1>1, <1>2, SetInduction
<1>8. PICK f : f = [k \in 0..n |-> F(f, k)] BY <1>0
<1> DEFINE near[k \in 0..n] == F(near, k)
<1>9. near = [k \in 0..n |-> F(near, k)]
  <2> HIDE DEF F
  <2> QED BY <1>8
<1>3. Within(nodes, root, n) = near[n] BY DEF Within
<1> HIDE DEF near
<1>4. \A k \in 0..n : near[k] = F(near, k)
  <2> HIDE DEF F
  <2> QED BY <1>9
<1>5. near[0] = {root} BY <1>4
<1>6. \A k \in 1..n : near[k] = Widen(edges, near[k - 1]) BY <1>4
<1>7. Steps(near, edges, root, n) BY <1>5, <1>6 DEF Steps
<1> QED BY <1>3, <1>7

(* No reference leads to the root alone. *)
LEMMA WithinNone == ASSUME NEW nodes, NEW root PROVE Within(nodes, root, 0) = {root}
<1> DEFINE edges == Edges(nodes)
<1>1. PICK f : Steps(f, edges, root, 0) /\ Within(nodes, root, 0) = f[0] BY NearSteps
<1> QED BY <1>1 DEF Steps

(* The objects within n + 1 references are one reference away from those within n. *)
LEMMA WithinNext ==
    ASSUME NEW nodes, NEW root, NEW n \in Nat
    PROVE  Within(nodes, root, n + 1) = Widen(Edges(nodes), Within(nodes, root, n))
<1> DEFINE edges == Edges(nodes)
<1>1. PICK f : Steps(f, edges, root, n) /\ Within(nodes, root, n) = f[n] BY NearSteps
<1>0. n + 1 \in Nat OBVIOUS
<1>2. PICK h : Steps(h, edges, root, n + 1) /\ Within(nodes, root, n + 1) = h[n + 1] BY <1>0, NearSteps
<1> HIDE DEF edges
<1> DEFINE Good == {m \in Nat : m \in 0..n => f[m] = h[m]}
<1>3. 0 \in Good BY <1>1, <1>2 DEF Steps
<1>4. ASSUME NEW m \in Nat, m \in Good PROVE m + 1 \in Good
  <2> SUFFICES ASSUME m + 1 \in 0..n PROVE f[m + 1] = h[m + 1] OBVIOUS
  <2>1. m \in 0..n /\ m + 1 \in 1..n /\ m + 1 \in 1..(n + 1) /\ (m + 1) - 1 = m OBVIOUS
  <2>2. f[m] = h[m] BY <1>4, <2>1
  <2>3. f[m + 1] = Widen(edges, f[m]) BY <1>1, <2>1 DEF Steps
  <2>4. h[m + 1] = Widen(edges, h[m]) BY <1>2, <2>1 DEF Steps
  <2> QED BY <2>2, <2>3, <2>4
<1>5. Nat \subseteq Good
  <2> HIDE DEF Good
  <2> QED BY <1>3, <1>4, SetInduction
<1>6. f[n] = h[n] BY <1>5
<1>7. n + 1 \in 1..(n + 1) /\ (n + 1) - 1 = n OBVIOUS
<1>8. h[n + 1] = Widen(edges, h[n]) BY <1>2, <1>7 DEF Steps
<1> QED BY <1>1, <1>2, <1>6, <1>8 DEF edges

(* One step adds the targets of the edges that start in the set. *)
LEMMA WidenMembers ==
    ASSUME NEW edges, NEW near, NEW x
    PROVE  x \in Widen(edges, near) <=> x \in near \/ \E e \in edges : e.from \in near /\ e.to = x
BY DEF Widen

(* A set that no edge leaves. *)
Closed(edges, near) == \A e \in edges : e.from \in near => e.to \in near

(* More references reach no fewer objects, and the root always. *)
LEMMA WithinMonotone ==
    ASSUME NEW nodes, NEW root, NEW n \in Nat
    PROVE  /\ Within(nodes, root, n) \subseteq Within(nodes, root, n + 1)
           /\ root \in Within(nodes, root, n)
<1> DEFINE W(k) == Within(nodes, root, k)
           Good == {k \in Nat : root \in W(k)}
<1>1. \A k \in Nat : W(k) \subseteq W(k + 1)
  <2> TAKE k \in Nat
  <2>1. W(k + 1) = Widen(Edges(nodes), W(k))
    <3>1. Within(nodes, root, k + 1) = Widen(Edges(nodes), Within(nodes, root, k)) BY WithinNext
    <3> QED BY <3>1
  <2> HIDE DEF W
  <2> QED BY <2>1, WidenMembers
<1>2. 0 \in Good BY WithinNone
<1>3. ASSUME NEW k \in Nat, k \in Good PROVE k + 1 \in Good BY <1>1, <1>3
<1>4. Nat \subseteq Good
  <2> HIDE DEF Good
  <2> QED BY <1>2, <1>3, SetInduction
<1> QED BY <1>1, <1>4

(* A set that has the root and every target of its edges has all that is within any distance. *)
LEMMA WithinClosed ==
    ASSUME NEW nodes, NEW root, NEW S, root \in S, Closed(Edges(nodes), S), NEW n \in Nat
    PROVE  Within(nodes, root, n) \subseteq S
<1> DEFINE W(k) == Within(nodes, root, k)
           Good == {k \in Nat : W(k) \subseteq S}
<1>1. 0 \in Good BY WithinNone
<1>2. ASSUME NEW k \in Nat, k \in Good PROVE k + 1 \in Good
  <2>1. W(k + 1) = Widen(Edges(nodes), W(k))
    <3>1. Within(nodes, root, k + 1) = Widen(Edges(nodes), Within(nodes, root, k)) BY WithinNext
    <3> QED BY <3>1
  <2> HIDE DEF W
  <2>2. W(k + 1) \subseteq S BY <1>2, <2>1, WidenMembers DEF Closed
  <2> QED BY <2>2
<1>3. Nat \subseteq Good
  <2> HIDE DEF Good
  <2> QED BY <1>1, <1>2, SetInduction
<1> QED BY <1>3

(* As many steps as a finite set has elements reach all that can be reached without leaving it. *)
LEMMA WithinSaturates ==
    ASSUME NEW nodes, NEW root, NEW S, IsFiniteSet(S), Within(nodes, root, Cardinality(S)) \subseteq S
    PROVE  Closed(Edges(nodes), Within(nodes, root, Cardinality(S)))
<1> DEFINE edges == Edges(nodes)
           W(k) == Within(nodes, root, k)
           c == Cardinality(S)
           Good == {k \in Nat : k \in 0..c => Closed(edges, W(k)) \/ (IsFiniteSet(W(k)) /\ Cardinality(W(k)) > k)}
<1>1. c \in Nat BY FS_CardinalityType
<1>2. 0 \in Good
  <2>1. W(0) = {root} BY WithinNone
  <2>2. IsFiniteSet({root}) /\ Cardinality({root}) = 1 BY FS_Singleton, Zenon
  <2> QED BY <2>1, <2>2
<1> HIDE DEF c
<1>3. ASSUME NEW k \in Nat, k \in Good PROVE k + 1 \in Good
  <2> SUFFICES ASSUME k + 1 \in 0..c
               PROVE  Closed(edges, W(k + 1)) \/ (IsFiniteSet(W(k + 1)) /\ Cardinality(W(k + 1)) > k + 1)
    OBVIOUS
  <2>1. k \in 0..c BY <1>1
  <2>2. W(k + 1) = Widen(edges, W(k))
    <3>1. Within(nodes, root, k + 1) = Widen(Edges(nodes), Within(nodes, root, k)) BY WithinNext
    <3> QED BY <3>1
  <2>3. W(k) \subseteq W(k + 1) BY WithinMonotone
  <2> HIDE DEF W, edges
  <2>4. CASE W(k + 1) = W(k)
    <3>1. Closed(edges, W(k)) BY <2>2, <2>4, WidenMembers DEF Closed
    <3> QED BY <3>1, <2>4
  <2>5. CASE W(k + 1) # W(k)
    <3>1. ~Closed(edges, W(k))
      <4>1. PICK x : x \in W(k + 1) /\ x \notin W(k) BY <2>3, <2>5
      <4>2. PICK e \in edges : e.from \in W(k) /\ e.to = x BY <2>2, <4>1, WidenMembers
      <4> QED BY <4>1, <4>2 DEF Closed
    <3>2. IsFiniteSet(W(k)) /\ Cardinality(W(k)) > k BY <1>3, <2>1, <3>1
    <3>3. W(k + 1) \subseteq S
      <4> SUFFICES W(k + 1) \subseteq W(c) BY DEF c, W
      <4> DEFINE Later == {m \in Nat : W(k + 1) \subseteq W(k + 1 + m)}
      <4>1. 0 \in Later OBVIOUS
      <4>2. ASSUME NEW m \in Nat, m \in Later PROVE m + 1 \in Later
        <5>1. k + 1 + m \in Nat /\ k + 1 + (m + 1) = (k + 1 + m) + 1 OBVIOUS
        <5>2. W(k + 1 + m) \subseteq W((k + 1 + m) + 1) BY <5>1, WithinMonotone DEF W
        <5> QED BY <4>2, <5>1, <5>2
      <4>3. Nat \subseteq Later
        <5> HIDE DEF Later
        <5> QED BY <4>1, <4>2, SetInduction
      <4>4. c - (k + 1) \in Nat /\ (k + 1) + (c - (k + 1)) = c BY <1>1
      <4> QED BY <4>3, <4>4
    <3>4. IsFiniteSet(W(k + 1)) BY <3>3, FS_Subset
    <3>5. PICK x : x \in W(k + 1) /\ x \notin W(k) BY <2>3, <2>5
    <3>6. IsFiniteSet(W(k) \cup {x}) /\ Cardinality(W(k) \cup {x}) = Cardinality(W(k)) + 1 BY <3>2, <3>5, FS_AddElement
    <3>7. Cardinality(W(k) \cup {x}) <= Cardinality(W(k + 1))
      <4>1. W(k) \cup {x} \in SUBSET W(k + 1) BY <2>3, <3>5
      <4> QED BY <3>4, <4>1, FS_Subset
    <3>8. Cardinality(W(k)) \in Nat /\ Cardinality(W(k + 1)) \in Nat BY <3>2, <3>4, FS_CardinalityType
    <3>9. Cardinality(W(k + 1)) > k + 1 BY <3>2, <3>6, <3>7, <3>8
    <3> QED BY <3>4, <3>9
  <2> QED BY <2>4, <2>5
<1>4. c \in Good
  <2> HIDE DEF Good
  <2> QED BY <1>1, <1>2, <1>3, SetInduction
<1>5. Closed(edges, W(c)) \/ (IsFiniteSet(W(c)) /\ Cardinality(W(c)) > c)
  <2> HIDE DEF W, edges
  <2> QED BY <1>1, <1>4
<1>6. ~(Cardinality(W(c)) > c)
  <2>1. W(c) \in SUBSET S BY DEF c
  <2>2. Cardinality(W(c)) <= Cardinality(S) /\ IsFiniteSet(W(c)) BY <2>1, FS_Subset
  <2>3. Cardinality(W(c)) \in Nat BY <2>2, FS_CardinalityType
  <2> HIDE DEF W
  <2> QED BY <1>1, <2>2, <2>3 DEF c
<1> QED BY <1>5, <1>6 DEF c

-----------------------------------------------------------------------------
(* Loading an envelope *)

(* The edges of an object of a node map. *)
LEMMA OwnEdges ==
    ASSUME NEW nodes, NEW id \in DOMAIN nodes, NEW e
    PROVE  e \in EdgesOf(id, nodes[id]) <=> e \in Edges(nodes) /\ e.from = id
<1>1. e \in EdgesOf(id, nodes[id]) => e \in Edges(nodes) /\ e.from = id BY EdgeOrigin, EdgeSource
<1>2. ASSUME e \in Edges(nodes), e.from = id PROVE e \in EdgesOf(id, nodes[id])
  <2>1. PICK i \in DOMAIN nodes : e \in EdgesOf(i, nodes[i]) BY <1>2, EdgeOrigin
  <2>2. i = id BY <1>2, <2>1, EdgeSource
  <2> QED BY <2>1, <2>2
<1> QED BY <1>1, <1>2

(* deserialize() accepts an envelope without dangling references. *)
LEMMA GraphIsLoadable ==
    ASSUME NEW e, IsEnvelope(e), IsGraph(e)
    PROVE  Loadable(e)
<1>1. Cardinality(DOMAIN e.nodes) \in Nat BY FS_CardinalityType DEF IsEnvelope
<1>2. Closed(Edges(e.nodes), DOMAIN e.nodes) BY DEF Closed, IsGraph
<1>3. e.root \in DOMAIN e.nodes BY DEF IsGraph
<1> QED BY <1>1, <1>2, <1>3, WithinClosed DEF Loadable, Reachable

(* What the manager keeps of an envelope that it can load: the objects that the root reaches, as they are. *)
LEMMA Rehydrates ==
    ASSUME NEW e, IsEnvelope(e), Loadable(e)
    PROVE  LET r == Rehydrated(e)
           IN  /\ IsEnvelope(r) /\ IsGraph(r) /\ r.root = e.root
               /\ DOMAIN r.nodes = Reachable(e) /\ Reachable(r) = Reachable(e)
               /\ \A id \in DOMAIN r.nodes : id \in DOMAIN e.nodes /\ r.nodes[id] = e.nodes[id]
<1> DEFINE r == Rehydrated(e)
           R == Reachable(e)
           c == Cardinality(DOMAIN e.nodes)
<1>1. R \subseteq DOMAIN e.nodes BY DEF Loadable
<1>2. IsFiniteSet(DOMAIN e.nodes) /\ c \in Nat BY FS_CardinalityType DEF IsEnvelope
<1>3. R = Within(e.nodes, e.root, c) BY DEF Reachable
<1> HIDE DEF R
<1>4. Closed(Edges(e.nodes), R) BY <1>1, <1>2, <1>3, WithinSaturates
<1>5. e.root \in R BY <1>2, <1>3, WithinMonotone
<1>6. r.root = e.root /\ DOMAIN r = {"root", "nodes"} /\ r.nodes = [id \in R |-> e.nodes[id]]
  <2>1. R \cap DOMAIN e.nodes = R BY <1>1
  <2> QED BY <2>1 DEF Rehydrated, Restrict, IsEnvelope, R
<1> HIDE DEF r
<1>7. DOMAIN r.nodes = R /\ \A id \in R : id \in DOMAIN e.nodes /\ r.nodes[id] = e.nodes[id] BY <1>1, <1>6
<1>8. IsFiniteSet(R) BY <1>1, <1>2, FS_Subset
<1>9. IsEnvelope(r) BY <1>1, <1>6, <1>7, <1>8 DEF IsEnvelope
<1>10. ASSUME NEW x PROVE x \in Edges(r.nodes) <=> x \in Edges(e.nodes) /\ x.from \in R
  <2>1. ASSUME x \in Edges(r.nodes) PROVE x \in Edges(e.nodes) /\ x.from \in R
    <3>1. PICK id \in R : x \in EdgesOf(id, r.nodes[id]) BY <1>7, <2>1, EdgeOrigin
    <3> QED BY <1>7, <3>1, OwnEdges
  <2>2. ASSUME x \in Edges(e.nodes), x.from \in R PROVE x \in Edges(r.nodes)
    <3>1. x \in EdgesOf(x.from, e.nodes[x.from]) BY <1>1, <2>2, OwnEdges
    <3>2. x \in EdgesOf(x.from, r.nodes[x.from]) BY <1>7, <2>2, <3>1
    <3> QED BY <1>7, <2>2, <3>2, EdgeOrigin
  <2> QED BY <2>1, <2>2
<1>11. IsGraph(r) BY <1>4, <1>5, <1>6, <1>7, <1>10 DEF IsGraph, Closed
<1>12. Reachable(r) = R
  <2> DEFINE n == Cardinality(R)
             V == Within(r.nodes, r.root, n)
  <2>1. n \in Nat /\ Reachable(r) = V BY <1>7, <1>8, FS_CardinalityType DEF Reachable
  <2>2. Closed(Edges(r.nodes), R) BY <1>4, <1>10 DEF Closed
  <2>3. V \subseteq R BY <1>5, <1>6, <2>1, <2>2, WithinClosed
  <2>4. Closed(Edges(r.nodes), V) BY <1>8, <2>3, WithinSaturates
  <2>5. e.root \in V BY <1>6, <2>1, WithinMonotone
  <2> HIDE DEF V
  <2>6. Closed(Edges(e.nodes), V) BY <1>10, <2>3, <2>4 DEF Closed
  <2>7. R \subseteq V BY <1>2, <1>3, <2>5, <2>6, WithinClosed
  <2> QED BY <2>1, <2>3, <2>7
<1> QED BY <1>6, <1>7, <1>9, <1>11, <1>12 DEF r, R

-----------------------------------------------------------------------------
(* The store: the graphs that an update starts from stay whole *)

(* What the executor owes to the mutations: the bindings of an update are a sequence. *)
BindingsAreLists ==
    \A s \in Updates, mode \in {"all", "configured"}, advanced \in BOOLEAN :
        \A envelope : IsEnvelope(envelope) /\ IsGraph(envelope) =>
            IsList(BindingsOf(Index(envelope, envelope.nodes, mode, advanced), s))

(* The inductive invariant: the graphs in memory and in pending are whole, and the committed envelope is well formed. *)
StoreInv ==
    /\ IsEnvelope(durable)
    /\ started => IsEnvelope(live) /\ IsGraph(live) /\ DOMAIN live.nodes = Reachable(live)
    /\ \A e \in pending : IsEnvelope(e) /\ IsGraph(e)
    /\ pending = {} \/ \E e : pending = {e}
    /\ pending # {} => transactionId < MaxTransactions
    /\ transactionId \in 1..MaxTransactions /\ indexRecord.transactionId \in 1..transactionId
    /\ started \in BOOLEAN

(* An update works on an index that was built from the live root. *)
LEMMA LiveIndex ==
    ASSUME NEW mutating, mutating
    PROVE  \E mode \in {"all", "configured"}, advanced \in BOOLEAN :
               GraphIndexForGvql(live, mutating) = Index(live, live.nodes, mode, advanced)
<1>1. CASE IsUsableStorageIndexRecord(live)
  <2>1. indexRecord.nodes = live.nodes BY <1>1 DEF IsUsableStorageIndexRecord
  <2> DEFINE mode == IF Mode = "configured" THEN Mode ELSE "all"
  <2>2. GraphIndexForGvql(live, mutating) = Index(live, live.nodes, mode, TRUE)
    BY <1>1, <2>1 DEF GraphIndexForGvql
  <2>3. mode \in {"all", "configured"} OBVIOUS
  <2> QED BY <2>2, <2>3
<1>2. CASE ~IsUsableStorageIndexRecord(live)
  <2>1. GraphIndexForGvql(live, mutating) = BuildGvqlGraphIndex(live) BY <1>2 DEF GraphIndexForGvql
  <2> QED BY <2>1 DEF BuildGvqlGraphIndex
<1> QED BY <1>1, <1>2

(* An update of the live root leaves a whole graph and reports what it changed. *)
LEMMA GvqlSound ==
    ASSUME BindingsAreLists, IsEnvelope(live), IsGraph(live), NEW statement \in Updates
    PROVE  Sound(ExecuteUpdate(GraphIndexForGvql(live, TRUE), statement, FALSE), live.nodes)
<1> DEFINE g == GraphIndexForGvql(live, TRUE)
           bindings == BindingsOf(g, statement)
<1>1. PICK mode \in {"all", "configured"}, advanced \in BOOLEAN : g = Index(live, live.nodes, mode, advanced)
  BY LiveIndex
<1>2. IsList(bindings) BY <1>1 DEF BindingsAreLists
<1>3. DOMAIN g = {"env", "nodes", "over", "mode", "advanced"} /\ g.env = live /\ g.over = live.nodes
  <2>1. PICK a : a = advanced OBVIOUS
  <2>2. g = Index(live, live.nodes, mode, a) BY <1>1, <2>1
  <2> HIDE DEF g
  <2> QED BY <2>2 DEF Index
<1>4. IsUpdate(statement) BY StoreAssumption
<1> HIDE DEF g, bindings
<1>5. Sound(ApplyGvqlMutations(g, bindings, statement, FALSE), live.nodes)
  BY <1>2, <1>3, <1>4, UpdateSound
<1> QED BY <1>5 DEF ExecuteUpdate, g, bindings

(* An edit of the live root by the application leaves a whole graph. *)
LEMMA EditedIsGraph ==
    ASSUME IsEnvelope(live), IsGraph(live), NEW e \in Edits, e.id \in DOMAIN live.nodes,
           IsRef(e.value) => e.value[2] \in DOMAIN live.nodes
    PROVE  /\ IsEnvelope(Edited(live, e)) /\ IsGraph(Edited(live, e))
           /\ DOMAIN Edited(live, e).nodes = DOMAIN live.nodes /\ Edited(live, e).root = live.root
<1> DEFINE nodes == live.nodes
           node == nodes[e.id]
           set == SetProp(node, e.path, e.value)
           after == With(nodes, e.id, set)
           w == Edited(live, e)
<1>1. w.nodes = after /\ w.root = live.root /\ DOMAIN w = {"root", "nodes"} BY DEF Edited, IsEnvelope
<1>2. IsNode(node) BY DEF IsEnvelope
<1>3. IsNode(set) BY <1>2, SetPropNode, StoreAssumption
<1>4. DOMAIN after = DOMAIN nodes /\ \A id \in DOMAIN nodes : after[id] = IF id = e.id THEN set ELSE nodes[id]
  BY DEF With
<1>5. IsEnvelope(w) BY <1>1, <1>3, <1>4 DEF IsEnvelope
<1>6. ASSUME NEW x \in Edges(after) PROVE x.to \in DOMAIN nodes
  <2>1. CASE x \in Edges(nodes) BY <2>1 DEF IsGraph
  <2>2. CASE x \in EdgesOf(e.id, set)
    <3>1. x \in EdgesOf(e.id, node) \/ (IsRef(e.value) /\ x.to = e.value[2]) BY <1>2, <2>2, SetPropEdges
    <3>2. CASE x \in EdgesOf(e.id, node)
      <4>1. x \in Edges(nodes) BY <3>2, EdgeOrigin
      <4> QED BY <4>1 DEF IsGraph
    <3> QED BY <3>1, <3>2
  <2> QED BY <2>1, <2>2, PutEdges
<1>7. IsGraph(w) BY <1>1, <1>4, <1>6 DEF IsGraph
<1> QED BY <1>1, <1>4, <1>5, <1>7

(* A commit takes the objects it writes from the envelope and the others from the last commit. *)
LEMMA NextDurableFacts ==
    ASSUME NEW e, IsEnvelope(e), IsEnvelope(durable), NEW changes
    PROVE  LET d == NextDurable(e, changes)
           IN  /\ IsEnvelope(d) /\ d.root = e.root /\ DOMAIN d.nodes = DOMAIN e.nodes
               /\ \A id \in DOMAIN e.nodes :
                    IF id \in ObjectIdsToWrite(e, changes) THEN d.nodes[id] = e.nodes[id]
                    ELSE /\ id \notin changes /\ changes # {}
                         /\ id \in DOMAIN durable.nodes /\ d.nodes[id] = durable.nodes[id]
<1> DEFINE d == NextDurable(e, changes)
           written == ObjectIdsToWrite(e, changes)
           nodes == [id \in DOMAIN e.nodes |-> IF id \in written THEN e.nodes[id] ELSE durable.nodes[id]]
<1>1. d.nodes = nodes /\ d.root = e.root /\ DOMAIN d = {"root", "nodes"} BY DEF NextDurable, IsEnvelope
<1>2. \A id \in DOMAIN e.nodes \ written : id \notin changes /\ changes # {} /\ id \in DOMAIN durable.nodes
  BY DEF ObjectIdsToWrite
<1> HIDE DEF d, written
<1>3. \A id \in DOMAIN nodes : IsNode(nodes[id]) BY <1>2 DEF IsEnvelope
<1>4. IsEnvelope(d) BY <1>1, <1>3 DEF IsEnvelope
<1> QED BY <1>1, <1>2, <1>4 DEF d, written

----------------------------------------------------------------------------

(* The invariant holds at the start. *)
LEMMA InitInv == Init => StoreInv
<1> SUFFICES ASSUME Init PROVE StoreInv OBVIOUS
<1>1. IsEnvelope(live) /\ IsGraph(live) /\ DOMAIN live.nodes = Reachable(live) BY StoreAssumption DEF Init
<1>2. 1 \in 1..MaxTransactions BY StoreAssumption
<1> QED BY <1>1, <1>2 DEF Init, StoreInv

(* A commit of a graph keeps the invariant, as long as the live root does. *)
LEMMA CommitInv ==
    ASSUME StoreInv, Idle, NEW e, IsEnvelope(e), IsGraph(e), NEW changes, CommitEnvelope(e, changes),
           IsEnvelope(live)', IsGraph(live)', (DOMAIN live.nodes = Reachable(live))'
    PROVE  StoreInv'
<1>1. transactionId \in Nat /\ transactionId + 1 \in 1..MaxTransactions BY StoreAssumption DEF StoreInv, Idle
<1>2. CASE Reject(e, changes) BY <1>2 DEF Reject, StoreInv
<1>3. CASE Publish(e, changes)
  <2>1. durable' = NextDurable(e, changes) /\ transactionId' = transactionId + 1
        /\ indexRecord'.transactionId = transactionId + 1 /\ UNCHANGED <<pending, started>>
    BY <1>3 DEF Publish
  <2>2. IsEnvelope(durable') BY <2>1, NextDurableFacts DEF StoreInv
  <2>3. pending' = {} /\ started' \in BOOLEAN BY <2>1 DEF Idle, StoreInv
  <2>4. transactionId' \in 1..MaxTransactions /\ indexRecord'.transactionId \in 1..transactionId' BY <1>1, <2>1
  <2> QED BY <2>2, <2>3, <2>4 DEF StoreInv
<1>4. CASE Interrupt(e, changes)
  <2>1. pending' = {e} /\ started' \in BOOLEAN /\ UNCHANGED <<transactionId, durable, indexRecord>>
    BY <1>4 DEF Interrupt, RejectsDuplicate
  <2> QED BY <2>1 DEF StoreInv, Idle
<1> QED BY <1>2, <1>3, <1>4 DEF CommitEnvelope

(* Each step keeps the invariant. *)
LEMMA NextInv == ASSUME BindingsAreLists, StoreInv, [Next]_vars PROVE StoreInv'
<1>1. CASE Edit
  <2>1. started /\ IsEnvelope(live) /\ IsGraph(live) BY <1>1 DEF Edit, StoreInv
  <2>2. PICK e \in Edits : /\ e.id \in DOMAIN live.nodes
                           /\ IsRef(e.value) => e.value[2] \in DOMAIN live.nodes
                           /\ live' = Rehydrated(Edited(live, e))
    BY <1>1 DEF Edit
  <2>3. IsEnvelope(Edited(live, e)) /\ IsGraph(Edited(live, e)) BY <2>1, <2>2, EditedIsGraph
  <2>4. IsEnvelope(live') /\ IsGraph(live') /\ DOMAIN live'.nodes = Reachable(live')
    BY <2>2, <2>3, GraphIsLoadable, Rehydrates
  <2>5. UNCHANGED <<transactionId, durable, indexRecord, pending, started>> BY <1>1 DEF Edit
  <2> QED BY <2>4, <2>5 DEF StoreInv
<1>2. CASE StoreRoot
  <2>1. IsEnvelope(live) /\ IsGraph(live) /\ DOMAIN live.nodes = Reachable(live) BY <1>2 DEF StoreRoot, Idle, StoreInv
  <2>2. live' = live /\ Idle /\ CommitEnvelope(live, {}) BY <1>2 DEF StoreRoot
  <2> QED BY <2>1, <2>2, CommitInv
<1>3. CASE Gvql
  <2>1. IsEnvelope(live) /\ IsGraph(live) /\ Idle BY <1>3 DEF Gvql, Idle, StoreInv
  <2>2. PICK statement \in Updates :
            LET u == ExecuteUpdate(GraphIndexForGvql(live, TRUE), statement, FALSE)
            IN  live' = Rehydrated(u.g.env) /\ CommitEnvelope(u.g.env, u.changes)
    BY <1>3 DEF Gvql
  <2> DEFINE u == ExecuteUpdate(GraphIndexForGvql(live, TRUE), statement, FALSE)
  <2>3. Sound(u, live.nodes) BY <2>1, GvqlSound
  <2> HIDE DEF u
  <2>4. IsEnvelope(u.g.env) /\ IsGraph(u.g.env) BY <2>3 DEF Sound, Whole
  <2>5. live' = Rehydrated(u.g.env) /\ CommitEnvelope(u.g.env, u.changes) BY <2>2 DEF u
  <2>6. IsEnvelope(live') /\ IsGraph(live') /\ DOMAIN live'.nodes = Reachable(live')
    BY <2>4, <2>5, GraphIsLoadable, Rehydrates
  <2> QED BY <2>1, <2>4, <2>5, <2>6, CommitInv
<1>4. CASE RebuildIndexes
  <2>1. indexRecord'.transactionId = transactionId /\ UNCHANGED <<live, transactionId, durable, pending, started>>
    BY <1>4 DEF RebuildIndexes
  <2>2. transactionId \in 1..transactionId BY StoreAssumption DEF StoreInv
  <2> QED BY <2>1, <2>2 DEF StoreInv
<1>5. CASE Crash BY <1>5 DEF Crash, StoreInv
<1>6. CASE Restart
  <2>1. PICK loaded \in IF pending = {} THEN {durable} ELSE pending :
            /\ Loadable(loaded) /\ durable' = loaded /\ live' = Rehydrated(loaded)
            /\ indexRecord' = IF pending = {} THEN indexRecord
                              ELSE [transactionId |-> transactionId + 1, nodes |-> loaded.nodes]
    BY <1>6 DEF Restart
  <2>2. IsEnvelope(loaded) BY DEF StoreInv
  <2>3. IsEnvelope(live') /\ IsGraph(live') /\ DOMAIN live'.nodes = Reachable(live') BY <2>1, <2>2, Rehydrates
  <2>4. transactionId' = transactionId + Cardinality(pending) /\ pending' = {} /\ started' = TRUE BY <1>6 DEF Restart
  <2>5. transactionId' \in 1..MaxTransactions /\ indexRecord'.transactionId \in 1..transactionId'
    <3>1. transactionId \in Nat /\ MaxTransactions \in Nat BY StoreAssumption DEF StoreInv
    <3>2. CASE pending = {}
      <4>1. Cardinality(pending) = 0 BY <3>2, FS_EmptySet
      <4> QED BY <2>1, <2>4, <3>1, <3>2, <4>1 DEF StoreInv
    <3>3. CASE pending # {}
      <4>1. PICK e : pending = {e} BY <3>3 DEF StoreInv
      <4>2. Cardinality({e}) = 1 BY FS_Singleton, Zenon
      <4>3. transactionId' = transactionId + 1 BY <2>4, <4>1, <4>2
      <4>4. indexRecord'.transactionId = transactionId + 1 BY <2>1, <3>3
      <4> QED BY <3>1, <3>3, <4>3, <4>4 DEF StoreInv
    <3> QED BY <3>2, <3>3
  <2> QED BY <2>1, <2>2, <2>3, <2>4, <2>5 DEF StoreInv
<1>7. CASE UNCHANGED vars BY <1>7 DEF vars, StoreInv
<1> QED BY <1>1, <1>2, <1>3, <1>4, <1>5, <1>6, <1>7 DEF Next

(* The invariant holds in every reachable state. *)
LEMMA StoreInvHolds == ASSUME BindingsAreLists PROVE Spec => []StoreInv
<1>1. Init => StoreInv BY InitInv
<1>2. StoreInv /\ [Next]_vars => StoreInv' BY NextInv
<1> QED BY <1>1, <1>2, PTL DEF Spec

(* An update query, whatever its clauses, leaves the graph it works on and the envelope of a commit
   well formed, with no reference to an object that is not there: what manager.gvql() hands to
   the commit path is an envelope that deserialize() accepts. *)
THEOREM GvqlGraphsStayWhole == ASSUME BindingsAreLists PROVE Spec => []GvqlTypeOK
<1>1. StoreInv => GvqlTypeOK
  <2> SUFFICES ASSUME StoreInv PROVE GvqlTypeOK OBVIOUS
  <2>1. Cardinality(pending) <= 1
    <3>1. CASE pending = {} BY <3>1, FS_EmptySet
    <3>2. CASE pending # {}
      <4>1. PICK e : pending = {e} BY <3>2 DEF StoreInv
      <4>2. Cardinality({e}) = 1 BY FS_Singleton, Zenon
      <4> QED BY <4>1, <4>2
    <3> QED BY <3>1, <3>2
  <2> QED BY <2>1 DEF StoreInv, GvqlTypeOK
<1> QED BY <1>1, StoreInvHolds, PTL

(* The commit of a changed object takes it as it is in the live root. *)
LEMMA UpdateIsWhole ==
    ASSUME BindingsAreLists, StoreInv, started, Gvql, transactionId' # transactionId
    PROVE  \A id \in DOMAIN live'.nodes :
               (id \notin DOMAIN live.nodes \/ live'.nodes[id] # live.nodes[id])
                  => durable'.nodes[id] = live'.nodes[id]
<1>1. IsEnvelope(live) /\ IsGraph(live) /\ Idle BY DEF Gvql, StoreInv
<1>2. PICK statement \in Updates :
          LET u == ExecuteUpdate(GraphIndexForGvql(live, TRUE), statement, FALSE)
          IN  live' = Rehydrated(u.g.env) /\ CommitEnvelope(u.g.env, u.changes)
  BY DEF Gvql
<1> DEFINE u == ExecuteUpdate(GraphIndexForGvql(live, TRUE), statement, FALSE)
           e == u.g.env
<1>3. Sound(u, live.nodes) BY <1>1, GvqlSound
<1>4. live' = Rehydrated(e) /\ CommitEnvelope(e, u.changes) BY <1>2
<1> HIDE DEF u
<1>5. IsEnvelope(e) /\ IsGraph(e) BY <1>3 DEF Sound, Whole
<1>6. durable' = NextDurable(e, u.changes) BY <1>4 DEF CommitEnvelope, Reject, Interrupt, Publish
<1>7. \A id \in DOMAIN live'.nodes : id \in DOMAIN e.nodes /\ live'.nodes[id] = e.nodes[id]
  BY <1>4, <1>5, GraphIsLoadable, Rehydrates
<1>8. \A id \in DOMAIN e.nodes : id \notin u.changes => id \in DOMAIN live.nodes /\ e.nodes[id] = live.nodes[id]
  BY <1>3 DEF Sound, Reported
<1>9. \A id \in DOMAIN e.nodes : id \in u.changes => durable'.nodes[id] = e.nodes[id]
  BY <1>5, <1>6, NextDurableFacts DEF StoreInv
<1> HIDE DEF e
<1> QED BY <1>7, <1>8, <1>9

(* A commit of an update query stores every object that differs in the graph the manager goes on
   with: the changes that applyGvqlMutations() reports leave out none of its effects. *)
THEOREM GvqlUpdatesAreWhole == ASSUME BindingsAreLists PROVE Spec => CommittedUpdatesAreWhole
<1>1. StoreInv /\ [Next]_vars =>
        [started /\ transactionId' # transactionId =>
           \A id \in DOMAIN live'.nodes :
              (id \notin DOMAIN live.nodes \/ live'.nodes[id] # live.nodes[id])
                 => durable'.nodes[id] = live'.nodes[id]]_vars
  <2> SUFFICES ASSUME StoreInv, Next, started, transactionId' # transactionId
               PROVE  \A id \in DOMAIN live'.nodes :
                        (id \notin DOMAIN live.nodes \/ live'.nodes[id] # live.nodes[id])
                           => durable'.nodes[id] = live'.nodes[id]
    OBVIOUS
  <2>1. CASE Gvql BY <2>1, UpdateIsWhole
  <2>2. CASE StoreRoot BY <2>2 DEF StoreRoot
  <2>3. CASE Edit BY <2>3 DEF Edit
  <2>4. CASE RebuildIndexes BY <2>4 DEF RebuildIndexes
  <2>5. CASE Crash BY <2>5 DEF Crash
  <2>6. CASE Restart BY <2>6 DEF Restart
  <2> QED BY <2>1, <2>2, <2>3, <2>4, <2>5, <2>6 DEF Next
<1> QED BY <1>1, StoreInvHolds, PTL DEF Spec, CommittedUpdatesAreWhole

(* What a step of a running store stores is new in an object only if the commit wrote the object,
   and then the constraints have seen it. *)
FieldsMeetConstraints(nodes, id) ==
    \A c \in Constraints : id \in Subjects(c, nodes) => ~FieldViolates(c, GetNodePath(nodes[id], c.path))

(* A running store commits no object with a new state that violates a required or typed field. *)
CommittedFieldsMeetConstraints ==
    [][started => \A id \in DOMAIN durable'.nodes :
         (id \notin DOMAIN durable.nodes \/ durable'.nodes[id] # durable.nodes[id])
            => FieldsMeetConstraints(durable'.nodes, id)]_vars

(* What a commit writes, the constraints have seen. *)
LEMMA PublishMeetsConstraints ==
    ASSUME IsEnvelope(durable), NEW e, IsEnvelope(e), NEW changes, Publish(e, changes),
           NEW id \in DOMAIN durable'.nodes,
           id \notin DOMAIN durable.nodes \/ durable'.nodes[id] # durable.nodes[id]
    PROVE  FieldsMeetConstraints(durable'.nodes, id)
<1>1. durable' = NextDurable(e, changes) /\ Violations(e.nodes, ObjectIdsToWrite(e, changes)) = {} BY DEF Publish
<1> DEFINE written == ObjectIdsToWrite(e, changes)
<1>2. id \in DOMAIN e.nodes /\ id \in written /\ durable'.nodes[id] = e.nodes[id]
  BY <1>1, NextDurableFacts
<1> HIDE DEF written
<1>3. ASSUME NEW c \in Constraints, id \in Subjects(c, durable'.nodes),
             FieldViolates(c, GetNodePath(durable'.nodes[id], c.path))
      PROVE  FALSE
  <2>1. id \in Subjects(c, e.nodes) BY <1>2, <1>3 DEF Subjects, IsObject, OfType
  <2>2. id \in Subjects(c, e.nodes) \cap written /\ FieldViolates(c, GetNodePath(e.nodes[id], c.path))
    BY <1>2, <1>3, <2>1
  <2>3. c \in Violations(e.nodes, written) BY <2>2 DEF Violations
  <2> QED BY <1>1, <2>3 DEF written
<1> QED BY <1>3 DEF FieldsMeetConstraints

(* Each step of a running store writes objects that meet the constraints of fields. *)
LEMMA StepsMeetConstraints ==
    ASSUME BindingsAreLists, StoreInv, Next, started, NEW id \in DOMAIN durable'.nodes,
           id \notin DOMAIN durable.nodes \/ durable'.nodes[id] # durable.nodes[id]
    PROVE  FieldsMeetConstraints(durable'.nodes, id)
<1>0. durable' # durable /\ IsEnvelope(durable) BY DEF StoreInv
<1>1. CASE StoreRoot
  <2>1. Publish(live, {}) BY <1>0, <1>1 DEF StoreRoot, CommitEnvelope, Reject, Interrupt
  <2>2. IsEnvelope(live) BY DEF StoreInv
  <2> QED BY <1>0, <2>1, <2>2, PublishMeetsConstraints
<1>2. CASE Gvql
  <2>1. PICK statement \in Updates :
            LET u == ExecuteUpdate(GraphIndexForGvql(live, TRUE), statement, FALSE)
            IN  CommitEnvelope(u.g.env, u.changes)
    BY <1>2 DEF Gvql
  <2> DEFINE u == ExecuteUpdate(GraphIndexForGvql(live, TRUE), statement, FALSE)
  <2>2. Sound(u, live.nodes) BY GvqlSound DEF StoreInv
  <2>3. CommitEnvelope(u.g.env, u.changes) BY <2>1
  <2> HIDE DEF u
  <2>4. IsEnvelope(u.g.env) BY <2>2 DEF Sound, Whole
  <2>5. Publish(u.g.env, u.changes) BY <1>0, <2>3 DEF CommitEnvelope, Reject, Interrupt
  <2> QED BY <1>0, <2>4, <2>5, PublishMeetsConstraints
<1>3. CASE Edit BY <1>0, <1>3 DEF Edit
<1>4. CASE RebuildIndexes BY <1>0, <1>4 DEF RebuildIndexes
<1>5. CASE Crash BY <1>0, <1>5 DEF Crash
<1>6. CASE Restart BY <1>6 DEF Restart
<1> QED BY <1>1, <1>2, <1>3, <1>4, <1>5, <1>6 DEF Next

(* validateConstraints() runs before every commit of a running store and covers every object whose
   stored state changes, so the constraints on fields hold for each of them. *)
THEOREM GvqlFieldsMeetConstraints == ASSUME BindingsAreLists PROVE Spec => CommittedFieldsMeetConstraints
<1>1. StoreInv /\ [Next]_vars =>
        [started => \A id \in DOMAIN durable'.nodes :
           (id \notin DOMAIN durable.nodes \/ durable'.nodes[id] # durable.nodes[id])
              => FieldsMeetConstraints(durable'.nodes, id)]_vars
  BY StepsMeetConstraints
<1> QED BY <1>1, StoreInvHolds, PTL DEF Spec, CommittedFieldsMeetConstraints

(* With constraints on fields only, a commit of the live root leaves a committed graph without
   violations; a unique constraint also relates objects that the commit does not write. *)
THEOREM GvqlCommitsMeetConstraints ==
    ASSUME BindingsAreLists, \A c \in Constraints : ~c.unique
    PROVE  Spec => CommitsMeetConstraints
<1>1. ASSUME NEW nodes, NEW id, FieldsMeetConstraints(nodes, id) PROVE Violations(nodes, {id}) = {}
  BY <1>1 DEF FieldsMeetConstraints, Violations
<1>2. StoreInv /\ [Next]_vars =>
        [started => \A id \in DOMAIN durable'.nodes :
           (id \notin DOMAIN durable.nodes \/ durable'.nodes[id] # durable.nodes[id])
              => Violations(durable'.nodes, {id}) = {}]_vars
  BY <1>1, StepsMeetConstraints
<1> QED BY <1>2, StoreInvHolds, PTL DEF Spec, CommitsMeetConstraints

-----------------------------------------------------------------------------
(* The graph of the last commit is closed *)

(* A step that stores nothing leaves the references of the live root as they are. *)
KeepsReferences ==
    started /\ started' /\ pending' = {} /\ transactionId' = transactionId
        => live'.root = live.root /\ Edges(live'.nodes) = Edges(live.nodes)

(* The live root and the committed graph agree on the references of the objects they share. *)
SameReferences(nodes, others) ==
    \A id \in DOMAIN nodes \cap DOMAIN others : EdgesOf(id, nodes[id]) = EdgesOf(id, others[id])

(* The committed graph is closed, and agrees with the live root where both have an object. *)
ClosedInv == IsGraph(durable) /\ (started /\ pending = {} => SameReferences(live.nodes, durable.nodes))

(* The objects a commit does not write have the references that the envelope has. *)
LEMMA CommitClosed ==
    ASSUME IsEnvelope(durable), NEW e, IsEnvelope(e), IsGraph(e), NEW changes,
           \A id \in DOMAIN e.nodes : id \notin changes /\ changes # {} /\ id \in DOMAIN durable.nodes =>
               EdgesOf(id, e.nodes[id]) = EdgesOf(id, durable.nodes[id])
    PROVE  /\ IsGraph(NextDurable(e, changes))
           /\ SameReferences(e.nodes, NextDurable(e, changes).nodes)
<1> DEFINE d == NextDurable(e, changes)
           written == ObjectIdsToWrite(e, changes)
<1>1. /\ d.root = e.root /\ DOMAIN d.nodes = DOMAIN e.nodes
      /\ \A id \in DOMAIN e.nodes : IF id \in written THEN d.nodes[id] = e.nodes[id]
                                    ELSE /\ id \notin changes /\ changes # {}
                                         /\ id \in DOMAIN durable.nodes /\ d.nodes[id] = durable.nodes[id]
  BY NextDurableFacts
<1> HIDE DEF d, written
<1>2. \A id \in DOMAIN e.nodes : EdgesOf(id, d.nodes[id]) = EdgesOf(id, e.nodes[id]) BY <1>1
<1>3. ASSUME NEW x \in Edges(d.nodes) PROVE x.to \in DOMAIN d.nodes
  <2>1. PICK id \in DOMAIN d.nodes : x \in EdgesOf(id, d.nodes[id]) BY EdgeOrigin
  <2>2. x \in Edges(e.nodes) BY <1>1, <1>2, <2>1, EdgeOrigin
  <2> QED BY <1>1, <2>2 DEF IsGraph
<1>4. IsGraph(d) BY <1>1, <1>3 DEF IsGraph
<1>5. SameReferences(e.nodes, d.nodes) BY <1>2 DEF SameReferences
<1> QED BY <1>4, <1>5 DEF d

(* A root with the same references as before has no other objects, each with its own references. *)
LEMMA KeptReferences ==
    ASSUME NEW before, IsGraph(before), NEW after, IsEnvelope(after), DOMAIN after.nodes = Reachable(after),
           after.root = before.root, Edges(after.nodes) = Edges(before.nodes),
           NEW others, SameReferences(before.nodes, others)
    PROVE  SameReferences(after.nodes, others)
<1>1. Closed(Edges(after.nodes), DOMAIN before.nodes) BY DEF Closed, IsGraph
<1>2. Cardinality(DOMAIN after.nodes) \in Nat BY FS_CardinalityType DEF IsEnvelope
<1>3. after.root \in DOMAIN before.nodes BY DEF IsGraph
<1>4. DOMAIN after.nodes \subseteq DOMAIN before.nodes BY <1>1, <1>2, <1>3, WithinClosed DEF Reachable
<1>5. ASSUME NEW id \in DOMAIN after.nodes
      PROVE  EdgesOf(id, after.nodes[id]) = EdgesOf(id, before.nodes[id])
  <2>1. \A x : x \in EdgesOf(id, after.nodes[id]) <=> x \in Edges(after.nodes) /\ x.from = id BY OwnEdges
  <2>2. \A x : x \in EdgesOf(id, before.nodes[id]) <=> x \in Edges(before.nodes) /\ x.from = id BY <1>4, OwnEdges
  <2> QED BY <2>1, <2>2
<1> QED BY <1>4, <1>5 DEF SameReferences

(* A commit of an envelope e, of which the live root keeps what it reaches. *)
LEMMA CommitKeepsClosed ==
    ASSUME StoreInv, ClosedInv, Idle, KeepsReferences, StoreInv',
           NEW e, IsEnvelope(e), IsGraph(e), NEW changes, CommitEnvelope(e, changes),
           \A id \in DOMAIN e.nodes : id \notin changes /\ changes # {} =>
               id \in DOMAIN live.nodes /\ e.nodes[id] = live.nodes[id],
           \A id \in DOMAIN live'.nodes : id \in DOMAIN e.nodes /\ live'.nodes[id] = e.nodes[id]
    PROVE  ClosedInv'
<1>1. started /\ pending = {} /\ SameReferences(live.nodes, durable.nodes) BY DEF Idle, ClosedInv
<1>2. CASE Publish(e, changes)
  <2>1. durable' = NextDurable(e, changes) BY <1>2 DEF Publish
  <2>2. IsGraph(durable') /\ SameReferences(e.nodes, durable'.nodes)
    <3>1. \A id \in DOMAIN e.nodes : id \notin changes /\ changes # {} /\ id \in DOMAIN durable.nodes =>
              EdgesOf(id, e.nodes[id]) = EdgesOf(id, durable.nodes[id])
      BY <1>1 DEF SameReferences
    <3> QED BY <2>1, <3>1, CommitClosed DEF StoreInv
  <2>3. SameReferences(live'.nodes, durable'.nodes) BY <2>2 DEF SameReferences
  <2> QED BY <2>2, <2>3 DEF ClosedInv
<1>3. CASE Interrupt(e, changes) BY <1>3 DEF Interrupt, ClosedInv
<1>4. CASE Reject(e, changes)
  <2>1. UNCHANGED <<transactionId, durable, pending, started>> BY <1>4 DEF Reject
  <2>2. live'.root = live.root /\ Edges(live'.nodes) = Edges(live.nodes) BY <1>1, <2>1 DEF KeepsReferences
  <2>3. IsGraph(live) /\ IsEnvelope(live') /\ DOMAIN live'.nodes = Reachable(live') BY <1>1, <2>1 DEF StoreInv
  <2>4. SameReferences(live'.nodes, durable.nodes) BY <1>1, <2>2, <2>3, KeptReferences
  <2> QED BY <2>1, <2>4 DEF ClosedInv
<1> QED BY <1>2, <1>3, <1>4 DEF CommitEnvelope

(* Each step that keeps the references of what it does not store keeps the invariant. *)
LEMMA NextClosed ==
    ASSUME BindingsAreLists, StoreInv, ClosedInv, [Next]_vars, KeepsReferences, StoreInv'
    PROVE  ClosedInv'
<1>1. CASE Edit \/ RebuildIndexes
  <2>1. started /\ UNCHANGED <<transactionId, durable, pending, started>> BY <1>1 DEF Edit, RebuildIndexes
  <2>2. CASE pending = {}
    <3>1. live'.root = live.root /\ Edges(live'.nodes) = Edges(live.nodes) BY <2>1, <2>2 DEF KeepsReferences
    <3>2. IsGraph(live) /\ IsEnvelope(live') /\ DOMAIN live'.nodes = Reachable(live') BY <2>1 DEF StoreInv
    <3>3. SameReferences(live'.nodes, durable.nodes) BY <2>1, <2>2, <3>1, <3>2, KeptReferences DEF ClosedInv
    <3> QED BY <2>1, <3>3 DEF ClosedInv
  <2> QED BY <2>1, <2>2 DEF ClosedInv
<1>2. CASE StoreRoot
  <2>1. live' = live /\ Idle /\ CommitEnvelope(live, {}) BY <1>2 DEF StoreRoot
  <2>2. IsEnvelope(live) /\ IsGraph(live) BY <2>1 DEF Idle, StoreInv
  <2> QED BY <2>1, <2>2, CommitKeepsClosed
<1>3. CASE Gvql
  <2>1. IsEnvelope(live) /\ IsGraph(live) /\ Idle BY <1>3 DEF Gvql, Idle, StoreInv
  <2>2. PICK statement \in Updates :
            LET u == ExecuteUpdate(GraphIndexForGvql(live, TRUE), statement, FALSE)
            IN  live' = Rehydrated(u.g.env) /\ CommitEnvelope(u.g.env, u.changes)
    BY <1>3 DEF Gvql
  <2> DEFINE u == ExecuteUpdate(GraphIndexForGvql(live, TRUE), statement, FALSE)
             e == u.g.env
  <2>3. Sound(u, live.nodes) BY <2>1, GvqlSound
  <2>4. live' = Rehydrated(e) /\ CommitEnvelope(e, u.changes) BY <2>2
  <2> HIDE DEF u
  <2>5. IsEnvelope(e) /\ IsGraph(e) BY <2>3 DEF Sound, Whole
  <2>6. \A id \in DOMAIN e.nodes : id \notin u.changes => id \in DOMAIN live.nodes /\ e.nodes[id] = live.nodes[id]
    BY <2>3 DEF Sound, Reported
  <2> HIDE DEF e
  <2>7. \A id \in DOMAIN live'.nodes : id \in DOMAIN e.nodes /\ live'.nodes[id] = e.nodes[id]
    BY <2>4, <2>5, GraphIsLoadable, Rehydrates
  <2> QED BY <2>1, <2>4, <2>5, <2>6, <2>7, CommitKeepsClosed
<1>4. CASE Crash BY <1>4 DEF Crash, ClosedInv
<1>5. CASE Restart
  <2>1. PICK loaded \in IF pending = {} THEN {durable} ELSE pending :
            Loadable(loaded) /\ durable' = loaded /\ live' = Rehydrated(loaded)
    BY <1>5 DEF Restart
  <2>2. IsEnvelope(loaded) /\ IsGraph(loaded) BY DEF StoreInv, ClosedInv
  <2>3. \A id \in DOMAIN live'.nodes : live'.nodes[id] = loaded.nodes[id] BY <2>1, <2>2, Rehydrates
  <2> QED BY <2>1, <2>2, <2>3 DEF ClosedInv, SameReferences
<1>6. CASE UNCHANGED vars BY <1>6 DEF vars, ClosedInv
<1> QED BY <1>1, <1>2, <1>3, <1>4, <1>5, <1>6 DEF Next

(* As long as the application changes references by commits alone, the committed graph has no reference
   to an object that the manifest does not list, although an update writes the changed objects only. *)
THEOREM GvqlStoredGraphIsClosed ==
    ASSUME BindingsAreLists
    PROVE  Spec /\ [][KeepsReferences]_vars => []StoredGraphIsClosed
<1>1. Init => StoreInv /\ ClosedInv
  <2> SUFFICES ASSUME Init PROVE ClosedInv BY InitInv
  <2> QED BY StoreAssumption DEF Init, ClosedInv, SameReferences
<1>2. StoreInv /\ ClosedInv /\ [Next]_vars /\ [KeepsReferences]_vars => (StoreInv /\ ClosedInv)'
  <2> SUFFICES ASSUME StoreInv, ClosedInv, [Next]_vars, [KeepsReferences]_vars PROVE StoreInv' /\ ClosedInv'
    OBVIOUS
  <2>1. StoreInv' BY NextInv
  <2>2. CASE KeepsReferences BY <2>1, <2>2, NextClosed
  <2>3. CASE UNCHANGED vars BY <2>1, <2>3 DEF vars, ClosedInv
  <2> QED BY <2>1, <2>2, <2>3
<1>3. StoreInv /\ ClosedInv => StoredGraphIsClosed BY DEF ClosedInv, StoredGraphIsClosed
<1> QED BY <1>1, <1>2, <1>3, PTL DEF Spec

-----------------------------------------------------------------------------
(* The queue of the bounded load *)

(* r is the list t after the list s. *)
Joined(r, s, t) ==
    /\ IsList(r) /\ Len(r) = Len(s) + Len(t)
    /\ \A i \in 1..Len(s) : r[i] = s[i]
    /\ \A i \in 1..Len(t) : r[Len(s) + i] = t[i]

(* A list after a list. *)
LEMMA ConcatList == ASSUME NEW s, IsList(s), NEW t, IsList(t) PROVE Joined(s \o t, s, t)
<1> DEFINE T == ToSet(s) \cup ToSet(t)
           r == s \o t
<1>1. s \in Seq(T) /\ t \in Seq(T)
  <2>1. s \in Seq(ToSet(s)) /\ t \in Seq(ToSet(t)) BY DEF IsList
  <2> HIDE DEF T
  <2>2. ToSet(s) \subseteq T /\ ToSet(t) \subseteq T BY DEF T
  <2> QED BY <2>1, <2>2
<1> HIDE DEF T
<1>2. r \in Seq(T) /\ Len(r) = Len(s) + Len(t) /\ Len(s) \in Nat /\ Len(t) \in Nat BY <1>1
<1>3. (\A i \in 1..Len(s) : r[i] = s[i]) /\ (\A i \in 1..Len(t) : r[Len(s) + i] = t[i]) BY <1>1
<1> HIDE DEF r
<1>4. Len(r) \in Nat /\ r \in [1..Len(r) -> T] BY <1>2
<1>5. IsList(r) BY <1>4, ListOf
<1> QED BY <1>2, <1>3, <1>5 DEF r, Joined

(* Which positions a selection takes, through p. *)
LEMMA SelectList ==
    ASSUME NEW s, IsList(s), NEW kept
    PROVE  \E p : Picks(Select(s, kept), s, kept, Len(s), p)
<1>1. s \in Seq(ToSet(s)) BY DEF IsList
<1> QED BY <1>1, SelectPositions

(* A queue of the bounded load holds an object once. *)
Entries(queue) == /\ IsList(queue)
                  /\ \A i, j \in 1..Len(queue) : queue[i].id = queue[j].id => i = j

(* What one object adds to the queue: each target that was not there, once and at the depth given. *)
Extends(longer, queue, references, depth) ==
    /\ Entries(longer) /\ Len(queue) <= Len(longer)
    /\ \A i \in 1..Len(queue) : longer[i] = queue[i]
    /\ \A i \in 1..Len(longer) : i > Len(queue) =>
           longer[i].depth = depth /\ \E j \in DOMAIN references : longer[i].id = references[j].to
    /\ \A j \in DOMAIN references : \E i \in 1..Len(longer) : longer[i].id = references[j].to

(* enqueue() adds the targets of the references that the queue does not have. *)
LEMMA EnqueueExtends ==
    ASSUME NEW queue, Entries(queue), NEW references, IsList(references), NEW depth
    PROVE  Extends(EnqueueAll(queue, references, depth), queue, references, depth)
<1> DEFINE fresh == {i \in DOMAIN references : /\ ~Enqueued(queue, references[i].to)
                                              /\ \A j \in 1..(i - 1) : references[j].to # references[i].to}
           added == Select(references, fresh)
           tail == [i \in DOMAIN added |-> [id |-> added[i].to, depth |-> depth]]
           longer == queue \o tail
<1>1. EnqueueAll(queue, references, depth) = longer BY DEF EnqueueAll
<1>2. Len(references) \in Nat /\ DOMAIN references = 1..Len(references) BY Lists
<1>3. \A i \in DOMAIN references : i \in fresh <=> /\ ~Enqueued(queue, references[i].to)
                                                   /\ \A j \in 1..(i - 1) : references[j].to # references[i].to
  OBVIOUS
<1>4. fresh \subseteq 1..Len(references) BY <1>2
<1> HIDE DEF fresh
<1>5. IsList(added) BY SelectSubset
<1>6. PICK p : Picks(added, references, fresh, Len(references), p) BY SelectList
<1>7. Len(added) \in Nat /\ DOMAIN added = 1..Len(added) BY <1>5, Lists
<1> DEFINE n == Len(added)
           m == Len(queue)
<1>8. m \in Nat /\ DOMAIN queue = 1..m BY Lists DEF Entries
<1> HIDE DEF added
<1>9. /\ \A i \in 1..n : p[i] \in fresh /\ added[i] = references[p[i]]
      /\ \A i, j \in 1..n : i < j => p[i] < p[j]
      /\ \A k \in fresh : \E i \in 1..n : p[i] = k
  BY <1>4, <1>6 DEF Picks
<1>10. tail \in [1..n -> {[id |-> added[i].to, depth |-> depth] : i \in 1..n}] BY <1>7
<1>11. IsList(tail) /\ Len(tail) = n BY <1>7, <1>10, ListOf
<1>12. \A i \in 1..n : tail[i].id = added[i].to /\ tail[i].depth = depth BY <1>7
<1> HIDE DEF tail
<1>13. /\ IsList(longer) /\ Len(longer) = m + n
       /\ \A i \in 1..m : longer[i] = queue[i]
       /\ \A i \in 1..n : longer[m + i] = tail[i]
  <2>1. IsList(queue) BY DEF Entries
  <2>2. Joined(longer, queue, tail) BY <1>11, <2>1, ConcatList
  <2> HIDE DEF longer
  <2> QED BY <1>11, <2>2 DEF Joined
<1> HIDE DEF longer
<1>14. ASSUME NEW i \in 1..Len(longer), i > m
       PROVE  \E k \in 1..n : i = m + k /\ longer[i].depth = depth /\ longer[i].id = references[p[k]].to
  <2> DEFINE k == i - m
  <2>1. k \in 1..n /\ i = m + k BY <1>7, <1>8, <1>13, <1>14
  <2> HIDE DEF k
  <2>2. longer[i] = tail[k] BY <1>13, <2>1
  <2>3. tail[k].depth = depth /\ tail[k].id = references[p[k]].to BY <1>9, <1>12, <2>1
  <2> QED BY <2>1, <2>2, <2>3
<1>15. ASSUME NEW i \in 1..Len(longer), NEW j \in 1..Len(longer), longer[i].id = longer[j].id, i < j PROVE FALSE
  <2>0. i \in Nat /\ j \in Nat OBVIOUS
  <2>1. CASE j <= m
    <3>1. i \in 1..m /\ j \in 1..m BY <1>8, <1>15, <2>0, <2>1
    <3> QED BY <1>13, <1>15, <3>1, <2>0 DEF Entries
  <2>2. CASE j > m
    <3>1. PICK k \in 1..n : j = m + k /\ longer[j].id = references[p[k]].to BY <1>14, <2>2
    <3>2. p[k] \in fresh /\ p[k] \in DOMAIN references BY <1>2, <1>4, <1>9
    <3>3. CASE i <= m
      <4>1. i \in DOMAIN queue /\ queue[i].id = references[p[k]].to BY <1>8, <1>13, <1>15, <2>0, <3>1, <3>3
      <4> QED BY <1>3, <3>2, <4>1 DEF Enqueued
    <3>4. CASE i > m
      <4>1. PICK l \in 1..n : i = m + l /\ longer[i].id = references[p[l]].to BY <1>14, <3>4
      <4>2. l < k BY <1>7, <1>8, <1>15, <3>1, <4>1
      <4>3. p[l] < p[k] /\ p[l] \in fresh BY <1>9, <4>2
      <4>4. p[l] \in 1..(p[k] - 1)
        <5>1. p[l] \in 1..Len(references) /\ p[k] \in 1..Len(references) BY <1>4, <3>2, <4>3
        <5> QED BY <1>2, <4>3, <5>1
      <4> QED BY <1>3, <1>15, <3>1, <3>2, <4>1, <4>4
    <3> QED BY <1>8, <2>0, <3>3, <3>4
  <2> QED BY <1>8, <2>0, <2>1, <2>2
<1>16. Entries(longer)
  <2> SUFFICES ASSUME NEW i \in 1..Len(longer), NEW j \in 1..Len(longer), longer[i].id = longer[j].id
               PROVE  i = j
    BY <1>13 DEF Entries
  <2>1. ~(i < j) /\ ~(j < i) BY <1>15
  <2> QED BY <2>1
<1>17. ASSUME NEW j \in DOMAIN references
       PROVE  \E i \in 1..Len(longer) : longer[i].id = references[j].to
  <2> DEFINE T == {k \in DOMAIN references : references[k].to = references[j].to}
  <2>1. T \subseteq Nat /\ T # {} BY <1>2
  <2>2. PICK k \in T : \A l \in T : k <= l BY <2>1, LeastNat
  <2>3. k \in DOMAIN references /\ references[k].to = references[j].to OBVIOUS
  <2>4. CASE Enqueued(queue, references[j].to)
    <3>1. PICK i \in 1..m : queue[i].id = references[j].to BY <1>8, <2>4 DEF Enqueued
    <3> QED BY <1>7, <1>8, <1>13, <3>1
  <2>5. CASE ~Enqueued(queue, references[j].to)
    <3>1. \A l \in 1..(k - 1) : references[l].to # references[k].to
      <4> SUFFICES ASSUME NEW l \in 1..(k - 1), references[l].to = references[k].to PROVE FALSE OBVIOUS
      <4>1. k \in 1..Len(references) BY <1>2, <2>3
      <4>2. l \in DOMAIN references /\ l < k BY <1>2, <4>1
      <4>3. l \in T BY <2>3, <4>2
      <4> QED BY <2>2, <4>1, <4>2, <4>3
    <3>2. k \in fresh BY <1>3, <2>3, <2>5, <3>1
    <3>3. PICK i \in 1..n : p[i] = k BY <1>9, <3>2
    <3>4. longer[m + i].id = references[j].to BY <1>9, <1>12, <1>13, <2>3, <3>3
    <3>5. m + i \in 1..Len(longer) BY <1>7, <1>8, <1>13
    <3> QED BY <3>4, <3>5
  <2> QED BY <2>4, <2>5
<1>18. \A i \in 1..Len(longer) : i > m =>
           longer[i].depth = depth /\ \E j \in DOMAIN references : longer[i].id = references[j].to
  BY <1>2, <1>4, <1>9, <1>14
<1> QED BY <1>1, <1>7, <1>8, <1>13, <1>16, <1>17, <1>18 DEF Extends

-----------------------------------------------------------------------------
(* The bounded load *)

(* The references of a node in their order are its edges. *)
LEMMA ReferencesAreEdges ==
    ASSUME NEW id, NEW node, IsNode(node)
    PROVE  IsList(References(id, node)) /\ ToSet(References(id, node)) = EdgesOf(id, node)
<1>1. CASE node.kind = "array"
  <2> DEFINE refs == {i \in DOMAIN node.items : IsRef(node.items[i])}
             items == Select(node.items, refs)
             n == Len(items)
             edge(v) == [from |-> id, to |-> v[2], label |-> ""]
             r == [i \in DOMAIN items |-> edge(items[i])]
  <2>1. References(id, node) = r BY <1>1 DEF References
  <2>2. IsList(items) /\ ToSet(items) = {node.items[i] : i \in DOMAIN node.items \cap refs}
    BY SelectSubset DEF IsNode
  <2>3. ToSet(items) = {v \in ToSet(node.items) : IsRef(v)} BY <2>2 DEF ToSet
  <2>4. n \in Nat /\ DOMAIN items = 1..n BY <2>2, Lists
  <2>5. \A e : e \in EdgesOf(id, node) <=> \E v \in ToSet(items) : e = edge(v) BY <1>1, <2>3 DEF EdgesOf
  <2>6. \A v : v \in ToSet(items) <=> \E i \in 1..n : v = items[i] BY <2>4 DEF ToSet
  <2> HIDE DEF items, edge, n
  <2>7. r \in [1..n -> {edge(items[i]) : i \in 1..n}] BY <2>4
  <2>8. IsList(r) BY <2>4, <2>7, ListOf
  <2>9. ToSet(r) = {edge(items[i]) : i \in 1..n} BY <2>4 DEF ToSet
  <2>10. ToSet(r) = EdgesOf(id, node) BY <2>5, <2>6, <2>9
  <2> QED BY <2>1, <2>8, <2>10
<1>2. CASE node.kind # "array"
  <2> DEFINE refs == {i \in DOMAIN Paths : IsRef(GetNodePath(node, Paths[i]))}
             paths == Select(Paths, refs)
             n == Len(paths)
             edge(p) == [from |-> id, to |-> node.props[p][2], label |-> p]
             r == [i \in DOMAIN paths |-> edge(paths[i])]
  <2>1. References(id, node) = r BY <1>2 DEF References
  <2>2. IsList(paths) /\ ToSet(paths) = {Paths[i] : i \in DOMAIN Paths \cap refs} BY SelectSubset, PathsAssumption
  <2>3. ToSet(paths) = {q \in DOMAIN node.props : IsRef(node.props[q])}
    <3>1. node.kind = "object" BY <1>2 DEF IsNode
    <3>2. \A q : IsRef(GetNodePath(node, q)) <=> q \in DOMAIN node.props /\ IsRef(node.props[q])
      BY <3>1 DEF GetNodePath, IsRef, Undefined
    <3>3. \A q \in DOMAIN node.props : IsRef(node.props[q]) => \E i \in DOMAIN Paths : q = Paths[i]
      BY DEF IsNode, ToSet
    <3> QED BY <2>2, <3>2, <3>3
  <2>4. n \in Nat /\ DOMAIN paths = 1..n BY <2>2, Lists
  <2>5. \A e : e \in EdgesOf(id, node) <=> \E p \in ToSet(paths) : e = edge(p) BY <1>2, <2>3 DEF EdgesOf
  <2>6. \A p : p \in ToSet(paths) <=> \E i \in 1..n : p = paths[i] BY <2>4 DEF ToSet
  <2> HIDE DEF paths, edge, n
  <2>7. r \in [1..n -> {edge(paths[i]) : i \in 1..n}] BY <2>4
  <2>8. IsList(r) BY <2>4, <2>7, ListOf
  <2>9. ToSet(r) = {edge(paths[i]) : i \in 1..n} BY <2>4 DEF ToSet
  <2>10. ToSet(r) = EdgesOf(id, node) BY <2>5, <2>6, <2>9
  <2> QED BY <2>1, <2>8, <2>10
<1> QED BY <1>1, <1>2

(* f walks n times through the loop of Visit. *)
Walk(f, nodes, root, maxDepth, n) ==
    /\ f[0] = [queue |-> <<[id |-> root, depth |-> 0]>>, candidates |-> {}]
    /\ \A k \in 1..n : f[k] = IF k > Len(f[k - 1].queue) THEN f[k - 1]
                              ELSE VisitNext(nodes, maxDepth, f[k - 1], k)

(* Visit walks through the queue one object at a time. *)
LEMMA VisitWalks ==
    ASSUME NEW nodes, NEW root, NEW maxDepth, Cardinality(DOMAIN nodes) \in Nat
    PROVE  \E f : Walk(f, nodes, root, maxDepth, Cardinality(DOMAIN nodes))
                  /\ Visit(nodes, root, maxDepth) = f[Cardinality(DOMAIN nodes)]
<1> DEFINE n == Cardinality(DOMAIN nodes)
           start == [queue |-> <<[id |-> root, depth |-> 0]>>, candidates |-> {}]
           F(f, k) == IF k = 0 THEN start
                      ELSE IF k > Len(f[k - 1].queue) THEN f[k - 1]
                           ELSE VisitNext(nodes, maxDepth, f[k - 1], k)
           Good == {m \in Nat : \E f : f = [k \in 0..m |-> F(f, k)]}
<1>0. n \in Nat OBVIOUS
<1> HIDE DEF start
<1>1. 0 \in Good
  <2>1. [k \in 0..0 |-> start] = [k \in 0..0 |-> F([j \in 0..0 |-> start], k)] OBVIOUS
  <2> QED BY <2>1
<1>2. ASSUME NEW m \in Nat, m \in Good PROVE m + 1 \in Good
  <2>1. PICK f : f = [k \in 0..m |-> F(f, k)] BY <1>2
  <2>2. \A k \in 0..m : f[k] = F(f, k)
    <3> HIDE DEF F
    <3> QED BY <2>1
  <2> DEFINE g == [k \in 0..(m + 1) |-> IF k = m + 1 THEN F(f, k) ELSE f[k]]
  <2>3. ASSUME NEW k \in 0..(m + 1) PROVE g[k] = F(g, k)
    <3>1. CASE k = 0 BY <2>2, <3>1
    <3>2. CASE k # 0
      <4>1. k - 1 \in 0..m /\ g[k - 1] = f[k - 1] BY <3>2
      <4>2. g[k] = F(f, k)
        <5> HIDE DEF F
        <5> QED BY <2>2
      <4> HIDE DEF g
      <4> QED BY <4>1, <4>2, <3>2
    <3> QED BY <3>1, <3>2
  <2>4. g = [k \in 0..(m + 1) |-> F(g, k)]
    <3> HIDE DEF F
    <3> SUFFICES \A k \in 0..(m + 1) : g[k] = F(g, k) OBVIOUS
    <3> QED BY <2>3
  <2> HIDE DEF g, F
  <2> QED BY <2>4
<1>3. n \in Good
  <2> HIDE DEF Good, n
  <2> QED BY <1>0, <1>1, <1>2, SetInduction
<1>4. PICK f : f = [k \in 0..n |-> F(f, k)] BY <1>3
<1> DEFINE visited[k \in 0..n] == F(visited, k)
<1>5. visited = [k \in 0..n |-> F(visited, k)]
  <2> HIDE DEF F, n
  <2> QED BY <1>4
<1>6. Visit(nodes, root, maxDepth) = visited[n] BY DEF Visit, start
<1> HIDE DEF visited
<1>7. \A k \in 0..n : visited[k] = F(visited, k)
  <2> HIDE DEF F, n
  <2> QED BY <1>5
<1> HIDE DEF n
<1>8. visited[0] = start BY <1>0, <1>7
<1>9. \A k \in 1..n : visited[k] = IF k > Len(visited[k - 1].queue) THEN visited[k - 1]
                                   ELSE VisitNext(nodes, maxDepth, visited[k - 1], k)
  BY <1>0, <1>7
<1>10. Walk(visited, nodes, root, maxDepth, n) BY <1>8, <1>9 DEF Walk, start
<1> QED BY <1>6, <1>10 DEF n

(* What the queue and the candidates are after k objects of the queue. *)
Walked(v, k, nodes, root, maxDepth) ==
    LET q == v.queue
        m == Len(q)
    IN  /\ Entries(q) /\ m >= 1 /\ q[1].id = root /\ q[1].depth = 0
        /\ \A i \in 1..m : /\ q[i].id \in DOMAIN nodes /\ q[i].depth \in 0..maxDepth
                           /\ q[i].id \in Within(nodes, root, q[i].depth)
        /\ \A i, j \in 1..m : i <= j => q[i].depth <= q[j].depth
        /\ \A i, j \in 1..m : j >= k => q[i].depth <= q[j].depth + 1
        /\ \A i \in 1..m : i <= k /\ q[i].depth < maxDepth =>
               \A e \in Edges(nodes) : e.from = q[i].id =>
                   \E j \in 1..m : q[j].id = e.to /\ q[j].depth <= q[i].depth + 1
        /\ \A e : e \in v.candidates <=>
               e \in Edges(nodes) /\ \E i \in 1..m : i <= k /\ q[i].depth = maxDepth /\ q[i].id = e.from

(* The queue starts with the root at depth 0. *)
LEMMA WalkedStart ==
    ASSUME NEW nodes, NEW root \in DOMAIN nodes, NEW maxDepth \in Nat
    PROVE  Walked([queue |-> <<[id |-> root, depth |-> 0]>>, candidates |-> {}], 0, nodes, root, maxDepth)
<1> DEFINE entry == [id |-> root, depth |-> 0]
           q == <<entry>>
<1>1. q \in [1..1 -> {entry}] OBVIOUS
<1>2. IsList(q) /\ Len(q) = 1 /\ q[1] = entry BY <1>1, ListOf
<1>3. Within(nodes, root, 0) = {root} BY WithinNone
<1>4. entry.id = root /\ entry.depth = 0 OBVIOUS
<1> HIDE DEF q, entry
<1>5. Entries(q) BY <1>2 DEF Entries
<1> QED BY <1>2, <1>3, <1>4, <1>5 DEF Walked, q, entry

(* What visiting an entry of the queue with these edges makes of v. *)
Visits(w, v, entry, own, maxDepth) ==
    IF entry.depth < maxDepth
    THEN /\ w.candidates = v.candidates /\ Len(v.queue) <= Len(w.queue)
         /\ Entries(w.queue)
         /\ \A j \in 1..Len(v.queue) : w.queue[j] = v.queue[j]
         /\ \A j \in 1..Len(w.queue) : j > Len(v.queue) =>
                w.queue[j].depth = entry.depth + 1 /\ \E e \in own : w.queue[j].id = e.to
         /\ \A e \in own : \E j \in 1..Len(w.queue) : w.queue[j].id = e.to
    ELSE w.queue = v.queue /\ w.candidates = v.candidates \cup own

(* One turn of the loop: enqueue the targets, or keep the edges as candidates at the last depth. *)
LEMMA VisitNextFacts ==
    ASSUME NEW nodes, \A id \in DOMAIN nodes : IsNode(nodes[id]),
           \A e \in Edges(nodes) : e.to \in DOMAIN nodes,
           NEW maxDepth, NEW v, Entries(v.queue), NEW i, v.queue[i].id \in DOMAIN nodes
    PROVE  Visits(VisitNext(nodes, maxDepth, v, i), v, v.queue[i], EdgesOf(v.queue[i].id, nodes[v.queue[i].id]), maxDepth)
<1> DEFINE id == v.queue[i].id
           own == EdgesOf(id, nodes[id])
           references == References(id, nodes[id])
           inside == {j \in DOMAIN references : references[j].to \in DOMAIN nodes}
           known == Select(references, inside)
           depth == v.queue[i].depth
           longer == EnqueueAll(v.queue, known, depth + 1)
           w == VisitNext(nodes, maxDepth, v, i)
<1>1. IsList(references) /\ ToSet(references) = own BY ReferencesAreEdges
<1>2. \A e \in own : e.to \in DOMAIN nodes BY EdgeOrigin
<1>3. w = IF depth < maxDepth
          THEN [queue |-> longer, candidates |-> v.candidates \cup (ToSet(references) \ ToSet(known))]
          ELSE [queue |-> v.queue, candidates |-> v.candidates \cup ToSet(references)]
  BY DEF VisitNext
<1> HIDE DEF references, own, w
<1>4. IsList(known) /\ ToSet(known) = {references[j] : j \in DOMAIN references \cap inside} BY <1>1, SelectSubset
<1>5. \A j \in DOMAIN references : references[j] \in own BY <1>1 DEF ToSet
<1>6. \A j \in DOMAIN references : j \in inside BY <1>2, <1>5
<1>7. ToSet(known) = own
  <2>1. DOMAIN references \cap inside = DOMAIN references BY <1>6
  <2>2. ToSet(known) = {references[j] : j \in DOMAIN references} BY <1>4, <2>1
  <2> QED BY <1>1, <2>2 DEF ToSet
<1> HIDE DEF known
<1>8. Extends(longer, v.queue, known, depth + 1) BY <1>4, EnqueueExtends
<1> HIDE DEF longer, depth, id
<1>9. \A j \in DOMAIN known : known[j] \in own BY <1>7 DEF ToSet
<1>10. \A e \in own : \E j \in DOMAIN known : known[j] = e BY <1>7 DEF ToSet
<1>11. CASE depth < maxDepth
  <2>1. w.queue = longer /\ w.candidates = v.candidates BY <1>1, <1>3, <1>7, <1>11
  <2>2. /\ Entries(longer) /\ Len(v.queue) <= Len(longer)
        /\ \A j \in 1..Len(v.queue) : longer[j] = v.queue[j]
    BY <1>8 DEF Extends
  <2>3. \A j \in 1..Len(longer) : j > Len(v.queue) =>
            longer[j].depth = depth + 1 /\ \E l \in DOMAIN known : longer[j].id = known[l].to
    BY <1>8 DEF Extends
  <2>4. \A j \in 1..Len(longer) : j > Len(v.queue) =>
            longer[j].depth = depth + 1 /\ \E e \in own : longer[j].id = e.to
    BY <1>9, <2>3
  <2>5. \A l \in DOMAIN known : \E j \in 1..Len(longer) : longer[j].id = known[l].to BY <1>8 DEF Extends
  <2>6. \A e \in own : \E j \in 1..Len(longer) : longer[j].id = e.to BY <1>10, <2>5
  <2> QED BY <1>11, <2>1, <2>2, <2>4, <2>6 DEF Visits, depth, id, own, w
<1>12. CASE ~(depth < maxDepth)
  <2>1. w.queue = v.queue /\ w.candidates = v.candidates \cup own BY <1>1, <1>3, <1>12
  <2> QED BY <1>12, <2>1 DEF Visits, depth, id, own, w
<1> QED BY <1>11, <1>12

(* One turn of the loop keeps what holds of the queue. *)
LEMMA WalkedNext ==
    ASSUME NEW nodes, \A id \in DOMAIN nodes : IsNode(nodes[id]),
           \A e \in Edges(nodes) : e.to \in DOMAIN nodes,
           NEW root, NEW maxDepth \in Nat, NEW k \in Nat, NEW v, Walked(v, k, nodes, root, maxDepth),
           NEW w, w = IF k + 1 > Len(v.queue) THEN v ELSE VisitNext(nodes, maxDepth, v, k + 1)
    PROVE  Walked(w, k + 1, nodes, root, maxDepth)
<1> DEFINE q == v.queue
           m == Len(q)
           r == w.queue
           n == Len(r)
           i == k + 1
<1>1. /\ Entries(q) /\ m >= 1 /\ q[1].id = root /\ q[1].depth = 0
      /\ \A j \in 1..m : q[j].id \in DOMAIN nodes /\ q[j].depth \in 0..maxDepth
                         /\ q[j].id \in Within(nodes, root, q[j].depth)
      /\ \A a, b \in 1..m : a <= b => q[a].depth <= q[b].depth
      /\ \A a, b \in 1..m : b >= k => q[a].depth <= q[b].depth + 1
  BY DEF Walked
<1>2. \A a \in 1..m : a <= k /\ q[a].depth < maxDepth =>
          \A e \in Edges(nodes) : e.from = q[a].id =>
              \E j \in 1..m : q[j].id = e.to /\ q[j].depth <= q[a].depth + 1
  BY DEF Walked
<1>3. \A e : e \in v.candidates <=>
          e \in Edges(nodes) /\ \E a \in 1..m : a <= k /\ q[a].depth = maxDepth /\ q[a].id = e.from
  BY DEF Walked
<1>4. m \in Nat /\ i \in Nat /\ i = k + 1 BY <1>1, Lists DEF Entries
<1> HIDE DEF i
<1>5. CASE i > m
  <2>1. w = v BY <1>4, <1>5
  <2>2. \A a \in 1..m : a <= i <=> a <= k BY <1>4, <1>5
  <2>3. \A a, b \in 1..m : b >= i => q[a].depth <= q[b].depth + 1 BY <1>4, <1>5
  <2> HIDE DEF q, m
  <2>4. Walked(v, i, nodes, root, maxDepth) BY <1>1, <1>2, <1>3, <2>2, <2>3 DEF Walked, q, m
  <2> QED BY <1>4, <2>1, <2>4
<1>6. CASE i <= m
  <2>1. w = VisitNext(nodes, maxDepth, v, i) /\ i \in 1..m BY <1>4, <1>6
  <2> DEFINE id == q[i].id
             own == EdgesOf(id, nodes[id])
             d == q[i].depth
  <2>2. id \in DOMAIN nodes /\ d \in 0..maxDepth /\ id \in Within(nodes, root, d) /\ d \in Nat BY <1>1, <2>1
  <2>3. \A e : e \in own <=> e \in Edges(nodes) /\ e.from = id BY <2>2, OwnEdges
  <2>4. \A a \in 1..m : a <= i <=> a <= k \/ a = i BY <1>4
  <2>0. Visits(w, v, q[i], own, maxDepth)
    <3>1. v.queue[i].id \in DOMAIN nodes /\ Entries(v.queue) BY <1>1, <2>2
    <3> QED BY <2>1, <3>1, VisitNextFacts
  <2>5. CASE d < maxDepth
    <3>1. /\ w.candidates = v.candidates /\ m <= n
          /\ Entries(r)
          /\ \A j \in 1..m : r[j] = q[j]
          /\ \A j \in 1..n : j > m => r[j].depth = d + 1 /\ \E e \in own : r[j].id = e.to
          /\ \A e \in own : \E j \in 1..n : r[j].id = e.to
      BY <2>5, <2>0 DEF Visits
    <3>2. n \in Nat BY <3>1, Lists DEF Entries
    <3> HIDE DEF q, m, r, n, own, id, d
    <3>3. \A j \in 1..n : j \in 1..m \/ (j > m /\ r[j].depth = d + 1) BY <1>4, <3>1, <3>2
    <3>4. \A j \in 1..m : j \in 1..n BY <1>4, <3>1, <3>2
    <3>5. n >= 1 /\ r[1].id = root /\ r[1].depth = 0
      <4>1. 1 \in 1..m BY <1>1, <1>4
      <4> QED BY <1>1, <1>4, <3>1, <3>2, <4>1
    <3>6. ASSUME NEW j \in 1..n
          PROVE  r[j].id \in DOMAIN nodes /\ r[j].depth \in 0..maxDepth /\ r[j].id \in Within(nodes, root, r[j].depth)
      <4>1. CASE j \in 1..m BY <1>1, <3>1, <4>1
      <4>2. CASE j > m
        <5>1. PICK e \in own : r[j].id = e.to BY <3>1, <4>2
        <5>2. e \in Edges(nodes) /\ e.from = id BY <2>3
        <5>3. Within(nodes, root, d + 1) = Widen(Edges(nodes), Within(nodes, root, d)) BY <2>2, WithinNext
        <5>4. e.to \in Within(nodes, root, d + 1) BY <2>2, <5>2, <5>3, WidenMembers
        <5>5. r[j].depth = d + 1 /\ d + 1 \in 0..maxDepth BY <2>2, <2>5, <3>1, <4>2
        <5> QED BY <5>1, <5>2, <5>4, <5>5
      <4> QED BY <3>3, <4>1, <4>2
    <3>7. ASSUME NEW a \in 1..n, NEW b \in 1..n, a <= b PROVE r[a].depth <= r[b].depth
      <4>0. a \in Nat /\ b \in Nat /\ r[a].depth \in Nat /\ r[b].depth \in Nat BY <3>6
      <4>1. CASE b \in 1..m
        <5>1. a \in 1..m BY <1>4, <3>7, <4>0, <4>1
        <5> QED BY <1>1, <3>1, <3>7, <4>1, <5>1
      <4>2. CASE b > m
        <5>1. r[b].depth = d + 1 BY <3>1, <4>2
        <5>2. CASE a \in 1..m
          <6>1. q[a].depth <= d + 1 BY <1>1, <1>4, <2>1, <5>2 DEF d
          <6> QED BY <3>1, <5>1, <5>2, <6>1
        <5>3. CASE a > m BY <2>2, <3>1, <5>1, <5>3
        <5> QED BY <3>3, <5>2, <5>3
      <4> QED BY <3>3, <4>1, <4>2
    <3>8. ASSUME NEW a \in 1..n, NEW b \in 1..n, b >= i PROVE r[a].depth <= r[b].depth + 1
      <4>0. r[a].depth \in Nat /\ r[b].depth \in Nat /\ i \in 1..n BY <2>1, <3>4, <3>6
      <4>1. d <= r[b].depth
        <5>1. r[i].depth = d BY <2>1, <3>1 DEF d
        <5> QED BY <3>7, <3>8, <4>0, <5>1
      <4>2. r[a].depth <= d + 1
        <5>1. CASE a \in 1..m
          <6>1. q[a].depth <= d + 1 BY <1>1, <1>4, <2>1, <5>1 DEF d
          <6> QED BY <3>1, <5>1, <6>1
        <5>2. CASE a > m BY <2>2, <3>1, <5>2
        <5> QED BY <3>3, <5>1, <5>2
      <4> QED BY <2>2, <4>0, <4>1, <4>2
    <3>9. ASSUME NEW a \in 1..n, a <= i, r[a].depth < maxDepth, NEW e \in Edges(nodes), e.from = r[a].id
          PROVE  \E j \in 1..n : r[j].id = e.to /\ r[j].depth <= r[a].depth + 1
      <4>0. a \in 1..m /\ r[a] = q[a]
        <5>1. a \in 1..m BY <1>4, <1>6, <3>2, <3>9
        <5> QED BY <3>1, <5>1
      <4>1. CASE a <= k
        <5>1. PICK j \in 1..m : q[j].id = e.to /\ q[j].depth <= q[a].depth + 1 BY <1>2, <3>9, <4>0, <4>1
        <5> QED BY <3>1, <3>4, <4>0, <5>1
      <4>2. CASE a = i
        <5>1. e \in own BY <2>3, <3>9, <4>0, <4>2 DEF id
        <5>2. PICK j \in 1..n : r[j].id = e.to BY <3>1, <5>1
        <5>3. r[a].depth = d BY <4>0, <4>2 DEF d
        <5>4. r[j].depth <= d + 1
          <6>1. i \in 1..n /\ i >= i /\ r[i].depth = d BY <1>4, <2>1, <3>4, <4>2, <5>3
          <6> QED BY <3>8, <6>1
        <5> QED BY <5>2, <5>3, <5>4
      <4> QED BY <2>4, <3>9, <4>0, <4>1, <4>2
    <3>10. ASSUME NEW e
           PROVE  e \in w.candidates <=>
                    e \in Edges(nodes) /\ \E a \in 1..n : a <= i /\ r[a].depth = maxDepth /\ r[a].id = e.from
      <4>1. ASSUME NEW a \in 1..n PROVE a <= i /\ r[a].depth = maxDepth <=> a \in 1..m /\ a <= k /\ q[a].depth = maxDepth
        <5>1. CASE a \in 1..m
          <6>1. a = i => r[a].depth # maxDepth BY <2>2, <2>5, <3>1, <5>1 DEF d
          <6> QED BY <2>4, <3>1, <5>1, <6>1
        <5>2. CASE a > m BY <1>4, <1>6, <5>2
        <5> QED BY <3>3, <5>1, <5>2
      <4> QED BY <1>3, <3>1, <3>4, <4>1
    <3> QED BY <1>4, <3>1, <3>5, <3>6, <3>7, <3>8, <3>9, <3>10 DEF Walked, r, n
  <2>6. CASE ~(d < maxDepth)
    <3>1. r = q /\ w.candidates = v.candidates \cup own BY <2>6, <2>0 DEF Visits
    <3>2. d = maxDepth BY <2>2, <2>6
    <3> HIDE DEF q, m, own, id, d
    <3>3. \A a, b \in 1..m : b >= i => q[a].depth <= q[b].depth + 1 BY <1>1, <1>4
    <3>4. ASSUME NEW a \in 1..m, a <= i, q[a].depth < maxDepth, NEW e \in Edges(nodes), e.from = q[a].id
          PROVE  \E j \in 1..m : q[j].id = e.to /\ q[j].depth <= q[a].depth + 1
      <4>1. a # i BY <2>6, <3>4 DEF d
      <4> QED BY <1>2, <2>4, <3>4, <4>1
    <3>5. ASSUME NEW e
          PROVE  e \in w.candidates <=>
                   e \in Edges(nodes) /\ \E a \in 1..m : a <= i /\ q[a].depth = maxDepth /\ q[a].id = e.from
      <4>1. e \in own <=> e \in Edges(nodes) /\ q[i].id = e.from BY <2>3 DEF id
      <4>2. q[i].depth = maxDepth BY <3>2 DEF d
      <4> QED BY <1>3, <2>1, <2>4, <3>1, <4>1, <4>2
    <3>6. w.queue = q /\ Len(q) = m BY <3>1 DEF m
    <3> HIDE DEF r, n
    <3>7. /\ Entries(w.queue) /\ Len(w.queue) >= 1 /\ w.queue[1].id = root /\ w.queue[1].depth = 0
          /\ \A a \in 1..Len(w.queue) : w.queue[a].id \in DOMAIN nodes /\ w.queue[a].depth \in 0..maxDepth
                                         /\ w.queue[a].id \in Within(nodes, root, w.queue[a].depth)
      BY <1>1, <3>6
    <3>8. /\ \A a, b \in 1..Len(w.queue) : a <= b => w.queue[a].depth <= w.queue[b].depth
          /\ \A a, b \in 1..Len(w.queue) : b >= i => w.queue[a].depth <= w.queue[b].depth + 1
      BY <1>1, <3>3, <3>6
    <3>9. \A a \in 1..Len(w.queue) : a <= i /\ w.queue[a].depth < maxDepth =>
               \A e \in Edges(nodes) : e.from = w.queue[a].id =>
                   \E j \in 1..Len(w.queue) : w.queue[j].id = e.to /\ w.queue[j].depth <= w.queue[a].depth + 1
      BY <3>4, <3>6
    <3>10. \A e : e \in w.candidates <=>
               e \in Edges(nodes) /\ \E a \in 1..Len(w.queue) : a <= i /\ w.queue[a].depth = maxDepth /\ w.queue[a].id = e.from
      BY <3>5, <3>6
    <3> QED BY <1>4, <3>7, <3>8, <3>9, <3>10 DEF Walked
  <2> QED BY <2>5, <2>6
<1> QED BY <1>4, <1>5, <1>6

(* A queue without duplicates is no longer than its objects are many. *)
LEMMA FewEntries ==
    ASSUME NEW queue, Entries(queue), NEW S, IsFiniteSet(S), \A i \in 1..Len(queue) : queue[i].id \in S
    PROVE  Len(queue) \in Nat /\ Len(queue) <= Cardinality(S)
<1> DEFINE m == Len(queue)
           ids == [i \in 1..m |-> queue[i].id]
<1>1. m \in Nat BY Lists DEF Entries
<1>2. ids \in Injection(1..m, S) BY DEF Entries, Injection, IsInjective
<1>3. Cardinality(1..m) <= Cardinality(S) BY <1>2, FS_Injection
<1>4. Cardinality(1..m) = m BY <1>1, FS_Interval
<1> QED BY <1>1, <1>3, <1>4

(* After as many turns as there are objects the whole queue has been visited. *)
LEMMA VisitIsWalked ==
    ASSUME NEW nodes, IsFiniteSet(DOMAIN nodes), \A id \in DOMAIN nodes : IsNode(nodes[id]),
           \A e \in Edges(nodes) : e.to \in DOMAIN nodes,
           NEW root \in DOMAIN nodes, NEW maxDepth \in Nat
    PROVE  Walked(Visit(nodes, root, maxDepth), Cardinality(DOMAIN nodes), nodes, root, maxDepth)
<1> DEFINE n == Cardinality(DOMAIN nodes)
<1>1. n \in Nat BY FS_CardinalityType
<1>2. PICK f : Walk(f, nodes, root, maxDepth, n) /\ Visit(nodes, root, maxDepth) = f[n] BY <1>1, VisitWalks
<1> DEFINE Good == {k \in Nat : k \in 0..n => Walked(f[k], k, nodes, root, maxDepth)}
<1> HIDE DEF n
<1>3. 0 \in Good BY <1>2, WalkedStart DEF Walk
<1>4. ASSUME NEW k \in Nat, k \in Good PROVE k + 1 \in Good
  <2> SUFFICES ASSUME k + 1 \in 0..n PROVE Walked(f[k + 1], k + 1, nodes, root, maxDepth) OBVIOUS
  <2>1. k \in 0..n /\ k + 1 \in 1..n /\ (k + 1) - 1 = k BY <1>1
  <2>2. Walked(f[k], k, nodes, root, maxDepth) BY <1>4, <2>1
  <2>3. f[k + 1] = IF k + 1 > Len(f[k].queue) THEN f[k] ELSE VisitNext(nodes, maxDepth, f[k], k + 1)
    BY <1>2, <2>1 DEF Walk
  <2> QED BY <2>2, <2>3, WalkedNext
<1>5. Nat \subseteq Good
  <2> HIDE DEF Good
  <2> QED BY <1>3, <1>4, SetInduction
<1>6. Walked(f[n], n, nodes, root, maxDepth) BY <1>1, <1>5
<1> QED BY <1>2, <1>6 DEF n

(* The bounded load of a closed graph, for every depth. *)
LEMMA SubtreeReach ==
    ASSUME NEW nodes, IsFiniteSet(DOMAIN nodes), \A id \in DOMAIN nodes : IsNode(nodes[id]),
           \A e \in Edges(nodes) : e.to \in DOMAIN nodes,
           NEW root \in DOMAIN nodes, NEW maxDepth \in Nat
    PROVE  /\ LoadSubtree(nodes, root, maxDepth).objectIds = Within(nodes, root, maxDepth)
           /\ LoadSubtree(nodes, root, maxDepth).truncated =
                {e \in Edges(nodes) : /\ e.from \in Within(nodes, root, maxDepth)
                                      /\ e.to \notin Within(nodes, root, maxDepth)}
<1> DEFINE v == Visit(nodes, root, maxDepth)
           n == Cardinality(DOMAIN nodes)
           q == v.queue
           m == Len(q)
           W(d) == Within(nodes, root, d)
<1>1. Walked(v, n, nodes, root, maxDepth) BY VisitIsWalked
<1>2. LoadSubtree(nodes, root, maxDepth).objectIds = QueuedIds(q)
      /\ LoadSubtree(nodes, root, maxDepth).truncated = {e \in v.candidates : e.to \notin QueuedIds(q)}
  BY DEF LoadSubtree
<1> HIDE DEF v, n
<1>3. /\ Entries(q) /\ m >= 1 /\ q[1].id = root /\ q[1].depth = 0
      /\ \A i \in 1..m : q[i].id \in DOMAIN nodes /\ q[i].depth \in 0..maxDepth
                         /\ q[i].id \in Within(nodes, root, q[i].depth)
  BY <1>1 DEF Walked
<1>4. m \in Nat /\ m <= n /\ DOMAIN q = 1..m
  <2>1. m \in Nat /\ m <= n BY <1>3, FewEntries DEF n
  <2>2. DOMAIN q = 1..m BY <1>3, Lists DEF Entries
  <2> QED BY <2>1, <2>2
<1>5. n \in Nat BY FS_CardinalityType DEF n
<1>6. \A i \in 1..m : i <= n BY <1>4, <1>5
<1>7. \A i \in 1..m : q[i].depth < maxDepth =>
          \A e \in Edges(nodes) : e.from = q[i].id => \E j \in 1..m : q[j].id = e.to /\ q[j].depth <= q[i].depth + 1
  BY <1>1, <1>6 DEF Walked
<1>8. \A e : e \in v.candidates <=> e \in Edges(nodes) /\ \E i \in 1..m : q[i].depth = maxDepth /\ q[i].id = e.from
  BY <1>1, <1>6 DEF Walked
<1>9. \A x : x \in QueuedIds(q) <=> \E i \in 1..m : q[i].id = x BY <1>4 DEF QueuedIds
<1> HIDE DEF q, m
<1>10. ASSUME NEW d \in Nat PROVE W(d) \subseteq W(d + 1) BY WithinMonotone
<1>11. ASSUME NEW d \in 0..maxDepth PROVE W(d) \subseteq W(maxDepth)
  <2> DEFINE Later == {k \in Nat : W(d) \subseteq W(d + k)}
  <2>1. 0 \in Later OBVIOUS
  <2>2. ASSUME NEW k \in Nat, k \in Later PROVE k + 1 \in Later
    <3>1. d + k \in Nat /\ d + (k + 1) = (d + k) + 1 OBVIOUS
    <3>2. W(d + k) \subseteq W((d + k) + 1) BY <1>10, <3>1
    <3> QED BY <2>2, <3>1, <3>2
  <2>3. Nat \subseteq Later
    <3> HIDE DEF Later
    <3> QED BY <2>1, <2>2, SetInduction
  <2>4. maxDepth - d \in Nat /\ d + (maxDepth - d) = maxDepth OBVIOUS
  <2> QED BY <2>3, <2>4
<1>12. QueuedIds(q) \subseteq W(maxDepth) BY <1>3, <1>9, <1>11
<1> DEFINE Met == {d \in Nat : d \in 0..maxDepth => \A x \in W(d) : \E i \in 1..m : q[i].id = x /\ q[i].depth <= d}
<1>13. 0 \in Met
  <2>1. W(0) = {root} BY WithinNone
  <2>2. 1 \in 1..m BY <1>3, <1>4
  <2> QED BY <1>3, <2>1, <2>2
<1>14. ASSUME NEW d \in Nat, d \in Met PROVE d + 1 \in Met
  <2> SUFFICES ASSUME d + 1 \in 0..maxDepth, NEW x \in W(d + 1)
               PROVE  \E i \in 1..m : q[i].id = x /\ q[i].depth <= d + 1
    OBVIOUS
  <2>1. d \in 0..maxDepth /\ d < maxDepth OBVIOUS
  <2>2. \A y \in W(d) : \E i \in 1..m : q[i].id = y /\ q[i].depth <= d BY <1>14, <2>1
  <2>3. W(d + 1) = Widen(Edges(nodes), W(d)) BY WithinNext
  <2> HIDE DEF W
  <2>4. CASE x \in W(d)
    <3>1. PICK i \in 1..m : q[i].id = x /\ q[i].depth <= d BY <2>2, <2>4
    <3>2. q[i].depth \in Nat BY <1>3
    <3> QED BY <3>1, <3>2
  <2>5. CASE x \notin W(d)
    <3>1. PICK e \in Edges(nodes) : e.from \in W(d) /\ e.to = x BY <2>3, <2>5, WidenMembers
    <3>2. PICK i \in 1..m : q[i].id = e.from /\ q[i].depth <= d BY <2>2, <3>1
    <3>3. q[i].depth \in Nat /\ q[i].depth < maxDepth BY <1>3, <2>1, <3>2
    <3>4. PICK j \in 1..m : q[j].id = x /\ q[j].depth <= q[i].depth + 1 BY <1>7, <3>1, <3>2, <3>3
    <3>5. q[j].depth \in Nat BY <1>3
    <3> QED BY <3>2, <3>3, <3>4, <3>5
  <2> QED BY <2>4, <2>5
<1>15. W(maxDepth) \subseteq QueuedIds(q)
  <2>1. maxDepth \in Met
    <3> HIDE DEF Met
    <3> QED BY <1>13, <1>14, SetInduction
  <2> QED BY <1>9, <2>1
<1>16. QueuedIds(q) = W(maxDepth) BY <1>12, <1>15
<1>17. ASSUME NEW e \in Edges(nodes), e.from \in QueuedIds(q), e.to \notin QueuedIds(q)
       PROVE  e \in v.candidates
  <2>1. PICK i \in 1..m : q[i].id = e.from BY <1>9, <1>17
  <2>2. ~(q[i].depth < maxDepth) BY <1>7, <1>9, <1>17, <2>1
  <2>3. q[i].depth = maxDepth BY <1>3, <2>2
  <2> QED BY <1>8, <2>1, <2>3
<1>18. \A e \in v.candidates : e \in Edges(nodes) /\ e.from \in QueuedIds(q) BY <1>8, <1>9
<1> HIDE DEF W
<1>19. {e \in v.candidates : e.to \notin QueuedIds(q)}
         = {e \in Edges(nodes) : e.from \in W(maxDepth) /\ e.to \notin W(maxDepth)}
  BY <1>16, <1>17, <1>18
<1> QED BY <1>2, <1>16, <1>19 DEF W

(* loadSubtree() of the committed graph returns the objects within maxDepth references of the root and
   reports exactly the edges that lead out of them, for every depth, root and order of references. *)
THEOREM GvqlSubtreesAreExact ==
    ASSUME BindingsAreLists
    PROVE  Spec /\ [][KeepsReferences]_vars => []SubtreeIsTheBoundedReach
<1>1. StoreInv /\ StoredGraphIsClosed => SubtreeIsTheBoundedReach
  <2> SUFFICES ASSUME StoreInv, StoredGraphIsClosed, NEW root \in DOMAIN durable.nodes, NEW depth \in 0..3
               PROVE  LET subtree == LoadSubtree(durable.nodes, root, depth)
                          near == Within(durable.nodes, root, depth)
                      IN  /\ subtree.objectIds = near
                          /\ subtree.truncated = {e \in Edges(durable.nodes) : e.from \in near /\ e.to \notin near}
    BY DEF SubtreeIsTheBoundedReach
  <2>1. IsFiniteSet(DOMAIN durable.nodes) /\ \A id \in DOMAIN durable.nodes : IsNode(durable.nodes[id])
    BY DEF StoreInv, IsEnvelope
  <2>2. \A e \in Edges(durable.nodes) : e.to \in DOMAIN durable.nodes BY DEF StoredGraphIsClosed, IsGraph
  <2>3. depth \in Nat OBVIOUS
  <2> QED BY <2>1, <2>2, <2>3, SubtreeReach
<1> QED BY <1>1, StoreInvHolds, GvqlStoredGraphIsClosed, PTL
=============================================================================
