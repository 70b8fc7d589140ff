------------------------- MODULE CatalogReads_proofs -------------------------
(***************************************************************************)
(* Proof that the tables have what the pages say and that the tools'       *)
(* answers agree with each other, for any pages the mapper reads, in any   *)
(* order of imports and aliases.                                           *)
(***************************************************************************)
EXTENDS CatalogReads, FiniteSetTheorems, SequenceTheorems, NaturalsInduction, WellFoundedInduction, TLAPS

-----------------------------------------------------------------------------
(* Ordered lists.  P[x] are the elements of S before x. *)

Precedence(S, P) ==
    /\ P \in [S -> SUBSET S]
    /\ \A x \in S : x \notin P[x]
    /\ \A x, y \in S : x \in P[y] => P[x] \subseteq P[y]
    /\ \A x, y \in S : x = y \/ x \in P[y] \/ y \in P[x]

(* seq lists S, each element once, the earlier first. *)
Lists(seq, S, P) ==
    /\ seq \in [1..Cardinality(S) -> S]
    /\ \A x \in S : \E n \in 1..Cardinality(S) : seq[n] = x
    /\ \A m, n \in 1..Cardinality(S) : m < n => seq[m] \in P[seq[n]]

(* Who comes earlier has fewer before him. *)
LEMMA FewerBefore ==
  ASSUME NEW S, IsFiniteSet(S), NEW P, Precedence(S, P)
  PROVE  /\ Cardinality(S) \in Nat
         /\ \A x \in S : Cardinality(P[x]) \in Nat /\ Cardinality(P[x]) < Cardinality(S)
         /\ \A x, y \in S : x \in P[y] => Cardinality(P[x]) < Cardinality(P[y])
  <1>1. ASSUME NEW T, IsFiniteSet(T), NEW U, U \subseteq T, NEW x \in T, x \notin U
        PROVE  Cardinality(U) \in Nat /\ Cardinality(T) \in Nat /\ Cardinality(U) < Cardinality(T)
    <2>1. IsFiniteSet(U) /\ Cardinality(U) <= Cardinality(T) /\ Cardinality(T) # Cardinality(U)
      BY <1>1, FS_Subset
    <2>2. Cardinality(U) \in Nat /\ Cardinality(T) \in Nat
      BY <1>1, <2>1, FS_CardinalityType
    <2>3. QED
      BY <2>1, <2>2
  <1>2. \A x \in S : P[x] \subseteq S /\ x \notin P[x] /\ IsFiniteSet(P[x])
    BY FS_Subset DEF Precedence
  <1>3. Cardinality(S) \in Nat
    BY FS_CardinalityType
  <1>4. ASSUME NEW x \in S PROVE Cardinality(P[x]) \in Nat /\ Cardinality(P[x]) < Cardinality(S)
    BY <1>1, <1>2
  <1>5. ASSUME NEW x \in S, NEW y \in S, x \in P[y] PROVE Cardinality(P[x]) < Cardinality(P[y])
    <2>1. P[x] \subseteq P[y] /\ x \notin P[x] /\ IsFiniteSet(P[y])
      BY <1>2, <1>5 DEF Precedence
    <2>2. QED
      BY <1>1, <1>5, <2>1
  <1>6. QED
    BY <1>3, <1>4, <1>5

(* There is one element with n - 1 others before it, for every n. *)
LEMMA Positions ==
  ASSUME NEW S, IsFiniteSet(S), NEW P, Precedence(S, P), NEW n \in 1..Cardinality(S)
  PROVE  \E x \in S : Cardinality(P[x]) = n - 1
  <1> DEFINE N == 1..Cardinality(S)
             pos == [x \in S |-> Cardinality(P[x]) + 1]
  <1>1. Cardinality(S) \in Nat /\ IsFiniteSet(N) /\ Cardinality(N) = Cardinality(S)
    <2>1. Cardinality(S) \in Nat
      BY FewerBefore
    <2>2. 1 \in Int /\ Cardinality(S) \in Int /\ (1 > Cardinality(S) => Cardinality(S) = 0)
      BY <2>1
    <2>3. QED
      BY <2>1, <2>2, FS_Interval
  <1>2. \A x \in S : Cardinality(P[x]) \in Nat /\ Cardinality(P[x]) < Cardinality(S)
    BY FewerBefore
  <1>3. pos \in [S -> N]
    BY <1>1, <1>2
  <1>4. ASSUME NEW x \in S, NEW y \in S, pos[x] = pos[y] PROVE x = y
    <2>1. Cardinality(P[x]) = Cardinality(P[y])
      BY <1>2, <1>4
    <2>2. x \notin P[y] /\ y \notin P[x]
      BY <1>2, <2>1, FewerBefore
    <2>3. QED
      BY <2>2 DEF Precedence
  <1>5. pos \in Surjection(S, N)
    <2>1. pos \in Injection(S, N)
      BY <1>3, <1>4 DEF Injection, IsInjective
    <2>2. QED
      BY <1>1, <2>1, FS_Injection
  <1>6. PICK x \in S : pos[x] = n
    BY <1>5 DEF Surjection
  <1>7. QED
    BY <1>1, <1>2, <1>6

(* The list of the elements by how many come before them. *)
LEMMA ListIs ==
  ASSUME NEW S, IsFiniteSet(S), NEW P, Precedence(S, P), NEW seq \in [1..Cardinality(S) -> S],
         \A n \in 1..Cardinality(S) : Cardinality(P[seq[n]]) = n - 1
  PROVE  Lists(seq, S, P)
  <1>1. Cardinality(S) \in Nat /\ \A x \in S : Cardinality(P[x]) \in Nat /\ Cardinality(P[x]) < Cardinality(S)
    BY FewerBefore
  <1>2. seq \in [1..Cardinality(S) -> S]
    OBVIOUS
  <1>3. ASSUME NEW x \in S PROVE \E n \in 1..Cardinality(S) : seq[n] = x
    <2>1. PICK n \in 1..Cardinality(S) : n = Cardinality(P[x]) + 1
      BY <1>1
    <2>2. seq[n] \in S /\ Cardinality(P[seq[n]]) = Cardinality(P[x])
      BY <1>1, <2>1
    <2>3. seq[n] \notin P[x] /\ x \notin P[seq[n]]
      BY <1>1, <2>2, FewerBefore
    <2>4. QED
      BY <2>2, <2>3 DEF Precedence
  <1>4. ASSUME NEW m \in 1..Cardinality(S), NEW n \in 1..Cardinality(S), m < n PROVE seq[m] \in P[seq[n]]
    <2>1. seq[m] \in S /\ seq[n] \in S /\ Cardinality(P[seq[m]]) < Cardinality(P[seq[n]])
      BY <1>1, <1>4
    <2>2. seq[m] # seq[n] /\ seq[n] \notin P[seq[m]]
      BY <1>1, <2>1, FewerBefore
    <2>3. QED
      BY <2>1, <2>2 DEF Precedence
  <1>5. QED
    BY <1>2, <1>3, <1>4 DEF Lists

(* A set of natural numbers has a least one. *)
LEMMA LeastOf ==
  ASSUME NEW S, S \subseteq Nat, S # {}
  PROVE  \E m \in S : \A k \in S : m <= k
  <1>1. IsWellFoundedOn(OpToRel(<, Nat), Nat)
    BY NatLessThanWellFounded
  <1>2. PICK m \in S : \A k \in S : ~(<<k, m>> \in OpToRel(<, Nat))
    BY <1>1, WFMin
  <1>3. \A k \in S : ~(k < m)
    BY <1>2 DEF OpToRel
  <1>4. QED
    BY <1>3

(* Two rows of ranks that differ come one before the other. *)
LEMMA OneIsBefore ==
  ASSUME NEW k \in Nat, NEW a, NEW b, DOMAIN a = 1..k, DOMAIN b = 1..k,
         \A i \in 1..k : a[i] \in Int /\ b[i] \in Int, \E i \in 1..k : a[i] # b[i]
  PROVE  Before(a, b) \/ Before(b, a)
  <1> DEFINE Differ == {i \in 1..k : a[i] # b[i]}
  <1>1. PICK i \in Differ : \A j \in Differ : i <= j
    <2>1. Differ \subseteq Nat /\ Differ # {}
      OBVIOUS
    <2>2. QED
      BY <2>1, LeastOf
  <1>2. \A j \in 1..(i - 1) : a[j] = b[j]
    BY <1>1
  <1>3. a[i] < b[i] \/ b[i] < a[i]
    BY <1>1
  <1>4. QED
    BY <1>1, <1>2, <1>3 DEF Before

(* R[x] is the row of the k ranks of x, another for every element of S. *)
Ranks(S, k, R) ==
    /\ \A x \in S : DOMAIN R[x] = 1..k /\ \A i \in 1..k : R[x][i] \in Int
    /\ \A x, y \in S : (\A i \in 1..k : R[x][i] = R[y][i]) => x = y

(* Such rows put the elements in order. *)
LEMMA Lexicographic ==
  ASSUME NEW S, NEW k \in Nat, NEW R, Ranks(S, k, R),
         NEW P \in [S -> SUBSET S], \A x, y \in S : y \in P[x] <=> Before(R[y], R[x])
  PROVE  Precedence(S, P)
  <1>1. ASSUME NEW x \in S PROVE ~Before(R[x], R[x])
    BY <1>1 DEF Before, Ranks
  <1>2. ASSUME NEW x \in S, NEW y \in S, NEW z \in S, Before(R[x], R[y]), Before(R[y], R[z])
        PROVE  Before(R[x], R[z])
    <2>1. PICK i \in 1..k : R[x][i] < R[y][i] /\ \A j \in 1..(i - 1) : R[x][j] = R[y][j]
      BY <1>2 DEF Before, Ranks
    <2>2. PICK m \in 1..k : R[y][m] < R[z][m] /\ \A j \in 1..(m - 1) : R[y][j] = R[z][j]
      BY <1>2 DEF Before, Ranks
    <2>3. CASE i < m
      <3>1. R[x][i] < R[z][i] /\ \A j \in 1..(i - 1) : R[x][j] = R[z][j]
        BY <2>1, <2>2, <2>3 DEF Ranks
      <3>2. QED
        BY <3>1 DEF Before, Ranks
    <2>4. CASE m <= i
      <3>1. R[x][m] < R[z][m] /\ \A j \in 1..(m - 1) : R[x][j] = R[z][j]
        BY <2>1, <2>2, <2>4 DEF Ranks
      <3>2. QED
        BY <3>1 DEF Before, Ranks
    <2>5. QED
      BY <2>3, <2>4
  <1>3. ASSUME NEW x \in S, NEW y \in S, x # y PROVE Before(R[x], R[y]) \/ Before(R[y], R[x])
    BY <1>3, OneIsBefore DEF Ranks
  <1>4. QED
    BY <1>1, <1>2, <1>3 DEF Precedence

(* An element is before another when its ranks are. *)
Earlier(S, R, x) == {y \in S : Before(R[y], R[x])}

(* What Sorted and Ordered make of such rows, element by element. *)
LEMMA Chosen ==
  ASSUME NEW S, IsFiniteSet(S), NEW k \in Nat, NEW R, Ranks(S, k, R)
  PROVE  \A n \in 1..Cardinality(S) : \E x \in S : Cardinality(Earlier(S, R, x)) = n - 1
  <1> DEFINE P == [x \in S |-> {y \in S : Before(R[y], R[x])}]
  <1>1. Precedence(S, P)
    <2>1. P \in [S -> SUBSET S] /\ \A x, y \in S : y \in P[x] <=> Before(R[y], R[x])
      OBVIOUS
    <2> HIDE DEF P
    <2> QED BY <2>1, Lexicographic
  <1>2. ASSUME NEW n \in 1..Cardinality(S)
        PROVE  \E x \in S : Cardinality(Earlier(S, R, x)) = n - 1
    <2>1. PICK x \in S : Cardinality(P[x]) = n - 1
      <3> HIDE DEF P
      <3> QED BY <1>1, Positions
    <2>2. QED
      BY <2>1 DEF Earlier
  <1>3. QED
    BY <1>2

(* The first elements of a listing. *)
Begins(first, m, seq, S) ==
    first \in [1..m -> S] /\ Len(first) = m /\ \A i \in 1..m : first[i] = seq[i]

LEMMA FirstOf ==
  ASSUME NEW S, NEW k \in Nat, NEW seq \in [1..k -> S], NEW n \in Nat,
         NEW m \in Nat, m <= n, m <= k, m = n \/ m = k
  PROVE  Len(seq) = k /\ Begins(FirstN(seq, n), m, seq, S)
  <1>1. seq \in Seq(S) /\ Len(seq) = k
    OBVIOUS
  <1>2. Min({n, Len(seq)}) = m
    <2>1. \E x \in {n, k} : \A y \in {n, k} : x <= y
      OBVIOUS
    <2>2. Min({n, k}) \in {n, k} /\ \A y \in {n, k} : Min({n, k}) <= y
      BY <2>1 DEF Min
    <2>3. QED
      BY <1>1, <2>2
  <1>3. m \in Nat /\ m <= k
    OBVIOUS
  <1>4. FirstN(seq, n) = SubSeq(seq, 1, m)
    BY <1>2 DEF FirstN
  <1>5. /\ SubSeq(seq, 1, m) \in Seq(S) /\ Len(SubSeq(seq, 1, m)) = m
        /\ \A i \in 1..m : SubSeq(seq, 1, m)[i] = seq[i]
    <2>1. 1 \in Int /\ m \in Int /\ \A i \in 1..m : seq[i] \in S
      BY <1>3
    <2>2. /\ SubSeq(seq, 1, m) \in Seq(S) /\ Len(SubSeq(seq, 1, m)) = IF 1 <= m THEN m - 1 + 1 ELSE 0
          /\ \A i \in 1..(m - 1 + 1) : SubSeq(seq, 1, m)[i] = seq[1 + i - 1]
      BY <2>1, SubSeqProperties
    <2> DEFINE first == SubSeq(seq, 1, m)
    <2>3. Len(first) = m /\ \A i \in 1..m : first[i] = seq[i]
      <3>1. Len(first) = IF 1 <= m THEN m - 1 + 1 ELSE 0
        BY <2>2
      <3>2. \A i \in 1..(m - 1 + 1) : first[i] = seq[1 + i - 1]
        BY <2>2
      <3> HIDE DEF first
      <3>3. Len(first) = m
        BY <1>3, <3>1
      <3>4. ASSUME NEW i \in 1..m PROVE first[i] = seq[i]
        <4>1. i \in 1..(m - 1 + 1) /\ 1 + i - 1 = i
          BY <1>3
        <4>2. QED
          BY <3>2, <4>1
      <3>5. QED
        BY <3>3, <3>4
    <2>4. QED
      BY <2>2, <2>3
  <1>6. SubSeq(seq, 1, m) \in [1..m -> S]
    BY <1>5, LenProperties
  <1>7. QED
    BY <1>1, <1>3, <1>4, <1>5, <1>6 DEF Begins

(* A finite set of integers from the least upwards. *)
Upwards(I) == [n \in 1..Cardinality(I) |-> CHOOSE x \in I : Cardinality({y \in I : y < x}) = n - 1]

LEMMA UpwardsIs ==
  ASSUME NEW I, IsFiniteSet(I), I \subseteq Int
  PROVE  /\ Cardinality(I) \in Nat /\ Upwards(I) \in [1..Cardinality(I) -> I]
         /\ \A i \in I : \E n \in 1..Cardinality(I) : Upwards(I)[n] = i
         /\ \A m, n \in 1..Cardinality(I) : m < n => Upwards(I)[m] < Upwards(I)[n]
  <1> DEFINE P == [x \in I |-> {y \in I : y < x}]
             at == Upwards(I)
  <1>1. Precedence(I, P)
    <2>1. P \in [I -> SUBSET I] /\ \A x, y \in I : y \in P[x] <=> y < x
      OBVIOUS
    <2>2. \A x, y, z \in Int : /\ ~(x < x) /\ (x < y /\ y < z => x < z) /\ (x = y \/ x < y \/ y < x)
      OBVIOUS
    <2>3. \A x, y, z \in I : /\ ~(x < x) /\ (x < y /\ y < z => x < z) /\ (x = y \/ x < y \/ y < x)
      BY <2>2
    <2> HIDE DEF P
    <2>4. QED
      BY <2>1, <2>3, Zenon DEF Precedence
  <1>2. ASSUME NEW n \in 1..Cardinality(I) PROVE \E x \in I : Cardinality(P[x]) = n - 1
    <2> HIDE DEF P
    <2> QED BY <1>1, Positions
  <1>3. \A n \in 1..Cardinality(I) : at[n] \in I /\ Cardinality(P[at[n]]) = n - 1
    <2>1. ASSUME NEW n \in 1..Cardinality(I) PROVE at[n] \in I /\ Cardinality(P[at[n]]) = n - 1
      <3>1. \E x \in I : Cardinality({y \in I : y < x}) = n - 1
        BY <1>2
      <3>2. at[n] = CHOOSE x \in I : Cardinality({y \in I : y < x}) = n - 1
        BY DEF Upwards
      <3>3. at[n] \in I /\ Cardinality({y \in I : y < at[n]}) = n - 1
        BY <3>1, <3>2
      <3>4. QED
        BY <3>3
    <2>2. QED
      BY <2>1
  <1>4. at \in [1..Cardinality(I) -> I]
    BY <1>3 DEF Upwards
  <1>5. Lists(at, I, P)
    <2> HIDE DEF P, at
    <2>1. QED
      BY <1>1, <1>3, <1>4, ListIs
  <1>6. Cardinality(I) \in Nat
    BY FS_CardinalityType
  <1>7. \A i \in I : \E n \in 1..Cardinality(I) : at[n] = i
    <2> HIDE DEF P, at
    <2>1. QED
      BY <1>5 DEF Lists
  <1>8. ASSUME NEW m \in 1..Cardinality(I), NEW n \in 1..Cardinality(I), m < n PROVE at[m] < at[n]
    <2>1. at[m] \in P[at[n]] /\ at[n] \in I
      <3> HIDE DEF P, at
      <3>1. QED
        BY <1>4, <1>5, <1>8 DEF Lists
    <2> HIDE DEF at
    <2>2. QED
      BY <2>1
  <1>9. QED
    BY <1>4, <1>6, <1>7, <1>8

(* The offers of a list in one direction: where they stand in it, the first of them first. *)
Standing(all, d) == {i \in DOMAIN all : all[i].direction = d}
Picked(all, I) == [n \in 1..Cardinality(I) |-> all[Upwards(I)[n]]]

LEMMA MatchingIs ==
  ASSUME NEW S, NEW k \in Nat, NEW all \in [1..k -> S], NEW d, NEW I, I = Standing(all, d)
  PROVE  /\ IsFiniteSet(I) /\ Cardinality(I) \in Nat /\ Upwards(I) \in [1..Cardinality(I) -> I]
         /\ Matching(all, d) = Picked(all, I)
         /\ \A i \in I : 1 <= Cardinality(I) /\ Upwards(I)[1] <= i
  <1> DEFINE at == Upwards(I)
  <1>1. IsFiniteSet(I) /\ I \subseteq Int
    <2>1. IsFiniteSet(1..k) /\ I \subseteq 1..k
      BY FS_Interval DEF Standing
    <2>2. QED
      BY <2>1, FS_Subset
  <1>2. /\ Cardinality(I) \in Nat /\ at \in [1..Cardinality(I) -> I]
        /\ \A i \in I : \E n \in 1..Cardinality(I) : at[n] = i
        /\ \A m, n \in 1..Cardinality(I) : m < n => at[m] < at[n]
    BY <1>1, UpwardsIs
  <1>3. ASSUME NEW i \in I PROVE 1 <= Cardinality(I) /\ at[1] <= i
    <2>1. PICK n \in 1..Cardinality(I) : at[n] = i
      BY <1>2
    <2>2. 1 \in 1..Cardinality(I) /\ (n = 1 \/ 1 < n) /\ at[1] \in Int /\ i \in Int
      BY <1>1, <1>2
    <2> HIDE DEF at
    <2>3. QED
      BY <1>2, <2>1, <2>2
  <1>4. Matching(all, d) = [n \in 1..Cardinality(I) |-> all[at[n]]]
    <2>1. DOMAIN all = 1..k /\ DOMAIN at = 1..Cardinality(I)
      BY <1>2
    <2>2. Matching(all, d) = [n \in DOMAIN at |-> all[at[n]]]
      BY <2>1 DEF Matching, Ordered, Standing, Upwards
    <2> HIDE DEF at
    <2>3. QED
      BY <2>1, <2>2
  <1>5. QED
    BY <1>1, <1>2, <1>3, <1>4 DEF Picked

Shown(o) == [item |-> o.item, npc |-> o.npc, price |-> IF o.price = {} THEN Default(o) ELSE o.price]

(* What a tool shows of a list of offers, of those at the places I, and how many it does not. *)
Renders(r, all, I) ==
    /\ IsFiniteSet(I) /\ Len(r.shown) + r.more = Cardinality(I)
    /\ DOMAIN r.shown = 1..Len(r.shown)
    /\ \A n \in DOMAIN r.shown : \E i \in I : r.shown[n] = Shown(all[i])
    /\ I # {} => \E i \in I : r.shown[1] = Shown(all[i]) /\ \A j \in I : i <= j

LEMMA Rendered ==
  ASSUME NEW S, NEW k \in Nat, NEW all \in [1..k -> S], NEW d,
         NEW I, I = Standing(all, d), NEW r, r = renderOffers(all, d)
  PROVE  Renders(r, all, I)
  <1> DEFINE c == Cardinality(I)
  <1>1. c \in Nat /\ IsFiniteSet(I)
    BY MatchingIs
  <1>2. /\ Upwards(I) \in [1..c -> I] /\ Matching(all, d) = Picked(all, I)
        /\ \A i \in I : 1 <= c /\ Upwards(I)[1] <= i
    BY MatchingIs
  <1> DEFINE matching == Picked(all, I)
             first == FirstN(matching, TRADE_NAME_CAP)
             shown == [i \in DOMAIN first |-> Shown(first[i])]
  <1> HIDE DEF c
  <1>3. matching \in [1..c -> S]
    <2>1. I \subseteq 1..k
      BY DEF Standing
    <2>2. QED
      BY <1>2, <2>1 DEF Picked, c
  <1>4. TRADE_NAME_CAP \in Nat \ {0}
    BY NamesAssumption
  <1> DEFINE m == IF TRADE_NAME_CAP <= c THEN TRADE_NAME_CAP ELSE c
  <1>5. /\ Len(matching) = c /\ first \in [1..m -> S] /\ Len(first) = m
        /\ \A i \in 1..m : first[i] = matching[i]
    <2> HIDE DEF matching
    <2>1. c \in Nat /\ TRADE_NAME_CAP \in Nat
      BY <1>1, <1>4
    <2>2. m \in Nat /\ m <= TRADE_NAME_CAP /\ m <= c /\ (m = TRADE_NAME_CAP \/ m = c)
      BY <2>1
    <2> HIDE DEF m
    <2>3. Len(matching) = c /\ Begins(first, m, matching, S)
      BY <1>3, <2>1, <2>2, FirstOf
    <2> HIDE DEF first
    <2>4. QED
      BY <2>3 DEF Begins
  <1>6. m <= TRADE_NAME_CAP /\ m <= c /\ (1 <= c => 1 <= m) /\ m \in Nat
    BY <1>1, <1>4
  <1> HIDE DEF m
  <1>7. r.shown = shown /\ r.more = c - m
    <2>1. r = [shown |-> shown, more |-> Len(matching) - Len(first)]
      BY <1>2 DEF renderOffers, Shown
    <2> HIDE DEF shown, matching, first
    <2>2. QED
      BY <1>5, <2>1
  <1>8. DOMAIN shown = 1..m /\ Len(shown) = m
    <2>1. shown \in [1..m -> {Shown(s) : s \in S}]
      <3> HIDE DEF first
      <3> QED BY <1>5
    <2> HIDE DEF shown
    <2>2. QED
      BY <1>6, <2>1
  <1>9. ASSUME NEW n \in 1..m PROVE Upwards(I)[n] \in I /\ shown[n] = Shown(all[Upwards(I)[n]])
    <2>1. n \in 1..c
      BY <1>1, <1>6
    <2> HIDE DEF first
    <2>2. first[n] = all[Upwards(I)[n]]
      <3>1. first[n] = matching[n]
        <4> HIDE DEF matching
        <4> QED BY <1>5
      <3>2. matching[n] = all[Upwards(I)[n]]
        BY <2>1 DEF Picked, c
      <3>3. QED
        BY <3>1, <3>2
    <2>3. QED
      BY <1>2, <1>5, <2>1, <2>2
  <1>10. ASSUME NEW i \in I PROVE 1 \in 1..m /\ Upwards(I)[1] <= i
    <2>1. 1 <= c /\ Upwards(I)[1] <= i
      BY <1>2
    <2>2. QED
      BY <1>6, <2>1
  <1>11. m + (c - m) = c
    BY <1>1, <1>6
  <1> HIDE DEF shown
  <1>12. I # {} => \E i \in I : shown[1] = Shown(all[i]) /\ \A j \in I : i <= j
    BY <1>9, <1>10
  <1>13. \A n \in 1..m : \E i \in I : shown[n] = Shown(all[i])
    BY <1>9
  <1>14. QED
    BY <1>1, <1>7, <1>8, <1>11, <1>12, <1>13 DEF c, Renders

(* In a list of all the offers of S each stands once: the offers in one direction are its places. *)
LEMMA EachOnce ==
  ASSUME NEW S, IsFiniteSet(S), NEW P, Precedence(S, P), NEW all, Lists(all, S, P),
         NEW d, NEW I, I = Standing(all, d)
  PROVE  Cardinality(I) = Cardinality({o \in S : o.direction = d})
  <1> DEFINE T == {o \in S : o.direction = d}
             place == [i \in I |-> all[i]]
  <1>1. Cardinality(S) \in Nat
    BY FS_CardinalityType
  <1>2. all \in [1..Cardinality(S) -> S] /\ I = {i \in 1..Cardinality(S) : all[i].direction = d}
    BY DEF Lists, Standing
  <1>3. IsFiniteSet(T)
    BY FS_Subset
  <1>4. place \in [I -> T]
    BY <1>2
  <1>5. ASSUME NEW i \in I, NEW j \in I, place[i] = place[j] PROVE i = j
    <2>1. i \in 1..Cardinality(S) /\ j \in 1..Cardinality(S) /\ all[i] = all[j] /\ all[i] \in S
      BY <1>2, <1>5
    <2>2. ~(i < j) /\ ~(j < i)
      BY <2>1 DEF Lists, Precedence
    <2>3. QED
      BY <1>1, <2>1, <2>2
  <1>6. ASSUME NEW o \in T PROVE \E i \in I : place[i] = o
    BY <1>2 DEF Lists
  <1>7. place \in Injection(I, T) /\ place \in Surjection(I, T)
    BY <1>4, <1>5, <1>6 DEF Injection, IsInjective, Surjection
  <1> HIDE DEF place, T
  <1>8. Cardinality(I) = Cardinality(T)
    BY <1>3, <1>7, FS_Injection
  <1>9. QED
    BY <1>8 DEF T

-----------------------------------------------------------------------------
(* The tables follow the pages they were imported from. *)

Followed(t) ==
    /\ wiki[t] \in Pages /\ items[t].level \subseteq Nat
    /\ items[t].npc_buy = Number(wiki[t].npcprice) \ {0}
    /\ items[t].npc_sell = Number(wiki[t].npcvalue) \ {0}

TablesFollow ==
    /\ OffersAreThePages
    /\ DOMAIN wiki = DOMAIN items /\ DOMAIN items \subseteq ToSet(Titles)
    /\ \A t \in DOMAIN items : Followed(t)

LEMMA InitFollows == Init => TablesFollow
  <1> SUFFICES ASSUME Init PROVE TablesFollow
    OBVIOUS
  <1>1. wiki = <<>> /\ items = <<>> /\ offers = {}
    BY DEF Init
  <1>2. DOMAIN wiki = {} /\ DOMAIN items = {}
    BY <1>1
  <1>3. QED
    BY <1>1, <1>2 DEF TablesFollow, OffersAreThePages

LEMMA ImportFollows ==
  ASSUME TablesFollow, NEW t \in ToSet(Titles), NEW p \in Pages, Import(t, p)
  PROVE  TablesFollow'
  <1>1. PICK record \in Mapped(mapItem, ItemPage(p), MaxLength) : upsertItemWithTradeOffers(t, record.columns)
    BY DEF Import
  <1> DEFINE columns == record.columns
  <1>2. IsReadBy(p, columns)
    BY <1>1, PagesAssumption
  <1>3. wiki' = Put(wiki, t, p)
    BY DEF Import
  <1>4. /\ DOMAIN wiki' = DOMAIN wiki \cup {t} /\ wiki'[t] = p
        /\ \A u \in DOMAIN wiki : u # t => wiki'[u] = wiki[u]
    BY <1>3 DEF Put
  <1> DEFINE row == RowOf(t, columns)
  <1>5. items' = Put(items, t, row)
    BY <1>1 DEF upsertItemWithTradeOffers
  <1>6. /\ DOMAIN items' = DOMAIN items \cup {t} /\ items'[t] = row
        /\ \A u \in DOMAIN items : u # t => items'[u] = items[u]
    <2> HIDE DEF row
    <2> QED BY <1>5 DEF Put
  <1>7. ASSUME NEW u \in DOMAIN items' PROVE Followed(u)'
    <2>1. CASE u = t
      BY <1>2, <1>4, <1>6, <2>1 DEF Followed, IsReadBy, RowOf
    <2>2. CASE u # t
      <3>1. u \in DOMAIN items /\ u \in DOMAIN wiki /\ Followed(u)
        BY <1>6, <2>2 DEF TablesFollow
      <3>2. wiki'[u] = wiki[u] /\ items'[u] = items[u]
        BY <1>4, <1>6, <2>2, <3>1
      <3>3. QED
        BY <3>1, <3>2 DEF Followed
    <2>3. QED
      BY <2>1, <2>2
  <1>8. offers' = {o \in offers : o.item # t}
                  \cup {[item |-> t, npc |-> o.npc, direction |-> o.direction, price |-> o.price] : o \in Trades(p)}
    BY <1>1, <1>2 DEF upsertItemWithTradeOffers, IsReadBy
  <1>9. \A u \in DOMAIN wiki' : Stated(u)' = IF u = t
          THEN {[item |-> t, npc |-> o.npc, direction |-> o.direction, price |-> o.price] : o \in Trades(p)}
          ELSE Stated(u)
    BY <1>4 DEF Stated
  <1>10. \A u : \A o \in Stated(u) : o.item = u
    BY DEF Stated
  <1>11. OffersAreThePages'
    <2>1. offers = UNION {Stated(u) : u \in DOMAIN wiki}
      BY DEF TablesFollow, OffersAreThePages
    <2>2. {o \in offers : o.item # t} = UNION {Stated(u) : u \in DOMAIN wiki \ {t}}
      BY <1>10, <2>1
    <2>3. QED
      BY <1>4, <1>8, <1>9, <2>2 DEF OffersAreThePages
  <1>12. QED
    BY <1>4, <1>6, <1>7, <1>11 DEF TablesFollow

LEMMA AliasFollows ==
  ASSUME TablesFollow, NEW t, NEW a, Alias(t, a)
  PROVE  TablesFollow'
  <1>1. /\ wiki' = wiki /\ offers' = offers /\ t \in DOMAIN items
        /\ items' = [items EXCEPT ![t].aliases = items[t].aliases \cup {a}]
    BY DEF Alias, mergeItemAliases
  <1>2. DOMAIN items' = DOMAIN items
    BY <1>1
  <1>3. \A u \in DOMAIN items : /\ items'[u].level = items[u].level
                                /\ items'[u].npc_buy = items[u].npc_buy /\ items'[u].npc_sell = items[u].npc_sell
    BY <1>1
  <1>4. OffersAreThePages'
    BY <1>1 DEF TablesFollow, OffersAreThePages, Stated
  <1>5. QED
    BY <1>1, <1>2, <1>3, <1>4 DEF TablesFollow, Followed

LEMMA StepFollows == TablesFollow /\ [Next]_vars => TablesFollow'
  <1> SUFFICES ASSUME TablesFollow, [Next]_vars PROVE TablesFollow'
    OBVIOUS
  <1>1. CASE UNCHANGED tables
    BY <1>1 DEF tables, TablesFollow, Followed, OffersAreThePages, Stated
  <1>2. CASE \E t \in ToSet(Titles), p \in Pages : Import(t, p)
    BY <1>2, ImportFollows
  <1>3. CASE \E t \in ToSet(Titles), a \in Names : Alias(t, a)
    BY <1>3, AliasFollows
  <1>4. QED
    BY <1>1, <1>2, <1>3 DEF Next, vars, tables, GrowText, GrowBox, GrowList

(* After every import the offers of an item are those of its page, no older ones       *)
(* (catalogRepository.ts:120).                                                         *)
THEOREM OffersFollowThePages == Spec => []OffersAreThePages
  <1>1. TablesFollow => OffersAreThePages
    BY DEF TablesFollow
  <1>2. QED
    BY <1>1, InitFollows, StepFollows, PTL DEF Spec

-----------------------------------------------------------------------------
(* What the tables hold: finitely many offers, one for an item, an NPC and a direction. *)

LEMMA PlaceIs ==
  ASSUME NEW seq, NEW x \in ToSet(seq)
  PROVE  Place(seq, x) \in DOMAIN seq /\ seq[Place(seq, x)] = x
  BY DEF Place, ToSet

LEMMA ImageIsFinite ==
  ASSUME NEW S, IsFiniteSet(S), NEW f, NEW T, \A y \in T : \E x \in S : y = f[x]
  PROVE  IsFiniteSet(T)
  <1> DEFINE R == {f[x] : x \in S}
             g == [x \in S |-> f[x]]
  <1>1. g \in Surjection(S, R)
    BY DEF Surjection
  <1>2. IsFiniteSet(R)
    <2> HIDE DEF R, g
    <2> QED BY <1>1, FS_Surjection
  <1>3. QED
    BY <1>2, FS_Subset

LEMMA NamesAreFinite ==
  /\ IsFiniteSet(ToSet(Titles)) /\ DOMAIN Titles \subseteq Int /\ DOMAIN Npcs \subseteq Int
  /\ \A t \in ToSet(Titles) \cup ToSet(Npcs) : Len(t) \in Nat
  <1>1. Titles \in Seq(Seq(STRING)) /\ Npcs \in Seq(Seq(STRING))
    BY NamesAssumption
  <1>2. Len(Titles) \in Nat /\ DOMAIN Titles = 1..Len(Titles) /\ Len(Npcs) \in Nat /\ DOMAIN Npcs = 1..Len(Npcs)
    BY <1>1, LenProperties
  <1>3. IsFiniteSet(ToSet(Titles))
    <2>1. \A t \in ToSet(Titles) : \E i \in DOMAIN Titles : t = Titles[i]
      BY DEF ToSet
    <2>2. IsFiniteSet(DOMAIN Titles)
      BY <1>2, FS_Interval
    <2>3. QED
      BY <2>1, <2>2, ImageIsFinite
  <1>4. \A t \in ToSet(Titles) \cup ToSet(Npcs) : t \in Seq(STRING)
    BY <1>1, <1>2, ElementOfSeq DEF ToSet
  <1>5. QED
    BY <1>2, <1>3, <1>4, LenProperties

(* A page says one thing of an NPC in a direction, and finitely many. *)
LEMMA TradesAre ==
  ASSUME NEW p \in Pages
  PROVE  /\ IsFiniteSet(Trades(p))
         /\ \A o \in Trades(p) : o.npc \in ToSet(Npcs) /\ o.direction \in Directions /\ o.price \subseteq Int
         /\ \A o, q \in Trades(p) : o.npc = q.npc /\ o.direction = q.direction => o = q
  <1> DEFINE Trade(o, direction) == [npc |-> o.npc, direction |-> direction, price |-> Number(o.price)]
             Side(named, direction) == {Trade(o, direction) : o \in Firsts(named)}
             Entry == [npc : ToSet(Npcs), price : Seq(DOMAIN Digits)]
  <1>1. p.buyfrom \in Seq(Entry) /\ p.sellto \in Seq(Entry) /\ \A o \in Trades(p) : o.price \subseteq Int
    BY PagesAssumption
  <1>2. Trades(p) = Side(p.buyfrom, "npc_sells") \cup Side(p.sellto, "npc_buys")
    BY DEF Trades
  <1>3. ASSUME NEW named \in Seq(Entry), NEW direction
        PROVE  /\ IsFiniteSet(Side(named, direction))
               /\ \A o \in Side(named, direction) : o.npc \in ToSet(Npcs) /\ o.direction = direction
               /\ \A o, q \in Side(named, direction) : o.npc = q.npc => o = q
    <2>1. Len(named) \in Nat /\ DOMAIN named = 1..Len(named) /\ named \in [1..Len(named) -> Entry]
      BY LenProperties
    <2> DEFINE of == [i \in DOMAIN named |-> Trade(named[i], direction)]
    <2>2. \A o \in Side(named, direction) : \E i \in DOMAIN named : o = of[i]
      BY DEF Firsts
    <2>3. IsFiniteSet(DOMAIN named)
      BY <2>1, FS_Interval
    <2>4. IsFiniteSet(Side(named, direction))
      <3> HIDE DEF of, Side
      <3> QED BY <2>2, <2>3, ImageIsFinite
    <2>5. \A o \in Side(named, direction) : o.npc \in ToSet(Npcs) /\ o.direction = direction
      BY <2>1 DEF Firsts
    <2>6. ASSUME NEW o \in Side(named, direction), NEW q \in Side(named, direction), o.npc = q.npc PROVE o = q
      <3>1. PICK i \in DOMAIN named : /\ o = Trade(named[i], direction)
                                      /\ \A m \in 1..(i - 1) : named[m].npc # named[i].npc
        BY DEF Firsts
      <3>2. PICK j \in DOMAIN named : /\ q = Trade(named[j], direction)
                                      /\ \A m \in 1..(j - 1) : named[m].npc # named[j].npc
        BY DEF Firsts
      <3>3. named[i].npc = named[j].npc
        BY <2>6, <3>1, <3>2
      <3>4. ~(i < j) /\ ~(j < i)
        <4>1. i \in Nat /\ j \in Nat /\ 1 <= i /\ 1 <= j
          BY <2>1
        <4>2. i < j => i \in 1..(j - 1)
          BY <4>1
        <4>3. j < i => j \in 1..(i - 1)
          BY <4>1
        <4>4. i \in 1..(j - 1) => FALSE
          BY <3>2, <3>3
        <4>5. j \in 1..(i - 1) => FALSE
          BY <3>1, <3>3
        <4>6. QED
          BY <4>2, <4>3, <4>4, <4>5
      <3>5. i = j
        BY <2>1, <3>4
      <3>6. QED
        BY <3>1, <3>2, <3>5
    <2>7. QED
      BY <2>4, <2>5, <2>6
  <1> HIDE DEF Side, Entry
  <1>4. IsFiniteSet(Side(p.buyfrom, "npc_sells")) /\ IsFiniteSet(Side(p.sellto, "npc_buys"))
    BY <1>1, <1>3
  <1>5. IsFiniteSet(Trades(p))
    BY <1>2, <1>4, FS_Union
  <1>6. \A o \in Side(p.buyfrom, "npc_sells") : o.npc \in ToSet(Npcs) /\ o.direction = "npc_sells"
    BY <1>1, <1>3
  <1>7. \A o \in Side(p.sellto, "npc_buys") : o.npc \in ToSet(Npcs) /\ o.direction = "npc_buys"
    BY <1>1, <1>3
  <1>8. /\ \A o, q \in Side(p.buyfrom, "npc_sells") : o.npc = q.npc => o = q
        /\ \A o, q \in Side(p.sellto, "npc_buys") : o.npc = q.npc => o = q
    BY <1>1, <1>3
  <1>9. QED
    BY <1>1, <1>2, <1>5, <1>6, <1>7, <1>8 DEF Directions

LEMMA OffersAreKnown ==
  ASSUME TablesFollow
  PROVE  /\ \A t \in DOMAIN items : Stated(t) = {o \in offers : o.item = t} /\ IsFiniteSet(Stated(t))
         /\ IsFiniteSet(offers)
         /\ \A o \in offers : /\ o.item \in DOMAIN items /\ o.npc \in ToSet(Npcs)
                              /\ o.direction \in Directions /\ o.price \subseteq Int
         /\ \A o, q \in offers : o.item = q.item /\ o.npc = q.npc /\ o.direction = q.direction => o = q
  <1>1. offers = UNION {Stated(t) : t \in DOMAIN items} /\ \A t \in DOMAIN items : wiki[t] \in Pages
    BY DEF TablesFollow, OffersAreThePages, Followed
  <1>2. \A t : \A o \in Stated(t) : o.item = t
    BY DEF Stated
  <1>3. ASSUME NEW t \in DOMAIN items PROVE IsFiniteSet(Stated(t))
    <2> DEFINE of == [o \in Trades(wiki[t]) |->
                        [item |-> t, npc |-> o.npc, direction |-> o.direction, price |-> o.price]]
    <2>1. IsFiniteSet(Trades(wiki[t]))
      BY <1>1, TradesAre
    <2>2. \A q \in Stated(t) : \E o \in Trades(wiki[t]) : q = of[o]
      BY DEF Stated
    <2> HIDE DEF of
    <2>3. QED
      BY <2>1, <2>2, ImageIsFinite
  <1>4. \A t \in DOMAIN items : Stated(t) = {o \in offers : o.item = t}
    BY <1>1, <1>2
  <1>5. IsFiniteSet(offers)
    <2> DEFINE stated == [t \in DOMAIN items |-> Stated(t)]
    <2>1. IsFiniteSet(DOMAIN items)
      BY NamesAreFinite, FS_Subset DEF TablesFollow
    <2>2. \A T \in {Stated(t) : t \in DOMAIN items} : \E t \in DOMAIN items : T = stated[t]
      OBVIOUS
    <2> HIDE DEF stated
    <2>3. IsFiniteSet({Stated(t) : t \in DOMAIN items})
      BY <2>1, <2>2, ImageIsFinite
    <2>4. QED
      BY <1>1, <1>3, <2>3, FS_UNION
  <1>6. ASSUME NEW o \in offers
        PROVE  /\ o.item \in DOMAIN items /\ o.npc \in ToSet(Npcs)
               /\ o.direction \in Directions /\ o.price \subseteq Int
    <2>1. PICK t \in DOMAIN items : o \in Stated(t)
      BY <1>1
    <2>2. PICK trade \in Trades(wiki[t]) :
             o = [item |-> t, npc |-> trade.npc, direction |-> trade.direction, price |-> trade.price]
      BY <2>1 DEF Stated
    <2>3. trade.npc \in ToSet(Npcs) /\ trade.direction \in Directions /\ trade.price \subseteq Int
      BY <1>1, TradesAre
    <2>4. QED
      BY <2>2, <2>3
  <1>7. ASSUME NEW o \in offers, NEW q \in offers, o.item = q.item, o.npc = q.npc, o.direction = q.direction
        PROVE  o = q
    <2>1. PICK t \in DOMAIN items : o \in Stated(t) /\ q \in Stated(t)
      BY <1>1, <1>2, <1>7
    <2>2. PICK trade \in Trades(wiki[t]) :
             o = [item |-> t, npc |-> trade.npc, direction |-> trade.direction, price |-> trade.price]
      BY <2>1 DEF Stated
    <2>3. PICK other \in Trades(wiki[t]) :
             q = [item |-> t, npc |-> other.npc, direction |-> other.direction, price |-> other.price]
      BY <2>1 DEF Stated
    <2>4. trade.npc = other.npc /\ trade.direction = other.direction
      BY <1>7, <2>2, <2>3
    <2>5. trade = other
      BY <1>1, <2>4, TradesAre
    <2>6. QED
      BY <2>2, <2>3, <2>5
  <1>8. QED
    BY <1>3, <1>4, <1>5, <1>6, <1>7

-----------------------------------------------------------------------------
(* The listings: each lists its rows, once each, by the ranks of its statement. *)

ByRank(S, R) == [x \in S |-> Earlier(S, R, x)]

LEMMA SortedIs ==
  ASSUME NEW S, IsFiniteSet(S), NEW k \in Nat, NEW R, Ranks(S, k, R),
         NEW seq, DOMAIN seq = 1..Cardinality(S), seq = [n \in 1..Cardinality(S) |-> seq[n]],
         \A n \in 1..Cardinality(S) :
           (\E x \in S : Cardinality(Earlier(S, R, x)) = n - 1)
           => seq[n] \in S /\ Cardinality(Earlier(S, R, seq[n])) = n - 1
  PROVE  Precedence(S, ByRank(S, R)) /\ Lists(seq, S, ByRank(S, R))
  <1>1. \A n \in 1..Cardinality(S) : \E x \in S : Cardinality(Earlier(S, R, x)) = n - 1
    BY Chosen
  <1> DEFINE P == ByRank(S, R)
  <1>2. P \in [S -> SUBSET S] /\ \A x, y \in S : y \in P[x] <=> Before(R[y], R[x])
    BY DEF ByRank, Earlier
  <1>3. Precedence(S, P)
    <2> HIDE DEF P
    <2> QED BY <1>2, Lexicographic
  <1>4. ASSUME NEW n \in 1..Cardinality(S) PROVE seq[n] \in S /\ Cardinality(P[seq[n]]) = n - 1
    <2>1. seq[n] \in S /\ Cardinality(Earlier(S, R, seq[n])) = n - 1
      BY <1>1
    <2>2. QED
      BY <2>1 DEF ByRank
  <1>5. seq \in [1..Cardinality(S) -> S]
    BY <1>4
  <1> HIDE DEF P
  <1>6. Lists(seq, S, P)
    BY <1>3, <1>4, <1>5, ListIs
  <1>7. QED
    BY <1>3, <1>6 DEF P

(* The offers of an item, the best for the player first. *)
ItemRanks(t) == [o \in Stated(t) |-> OfferRank(o)]

LEMMA ItemListing ==
  ASSUME TablesFollow, NEW t \in DOMAIN items
  PROVE  /\ IsFiniteSet(Stated(t)) /\ Precedence(Stated(t), ByRank(Stated(t), ItemRanks(t)))
         /\ Lists(findTradeOffersForItem(t), Stated(t), ByRank(Stated(t), ItemRanks(t)))
  <1> DEFINE S == Stated(t)
             R == ItemRanks(t)
             seq == findTradeOffersForItem(t)
  <1>1. S = {o \in offers : o.item = t} /\ IsFiniteSet(S)
    BY OffersAreKnown
  <1>2. \A o \in S : o.npc \in ToSet(Npcs) /\ o.direction \in Directions /\ o.price \subseteq Int
    BY <1>1, OffersAreKnown
  <1>3. ASSUME NEW o \in S PROVE DOMAIN R[o] = 1..4 /\ \A i \in 1..4 : R[o][i] \in Int
    <2>1. Place(Npcs, o.npc) \in Int
      BY <1>2, PlaceIs, NamesAreFinite
    <2>2. o.price # {} => Price(o) \in Int
      BY <1>2 DEF Price
    <2>3. Desc(o.direction = "npc_buys") \in Int /\ Desc(o.price # {}) \in Int
      BY DEF Desc
    <2>4. R[o] = <<Desc(o.direction = "npc_buys"), Desc(o.price # {}),
                   IF o.price = {} THEN 0 ELSE IF o.direction = "npc_buys" THEN -Price(o) ELSE Price(o),
                   Place(Npcs, o.npc)>>
      BY DEF ItemRanks, OfferRank
    <2>5. (IF o.price = {} THEN 0 ELSE IF o.direction = "npc_buys" THEN -Price(o) ELSE Price(o)) \in Int
      BY <2>2
    <2>6. QED
      BY <2>1, <2>3, <2>4, <2>5
  <1>4. ASSUME NEW o \in S, NEW q \in S, \A i \in 1..4 : R[o][i] = R[q][i] PROVE o = q
    <2>1. R[o][1] = R[q][1] /\ R[o][4] = R[q][4]
      BY <1>4
    <2>2. Desc(o.direction = "npc_buys") = Desc(q.direction = "npc_buys") /\ Place(Npcs, o.npc) = Place(Npcs, q.npc)
      BY <2>1 DEF ItemRanks, OfferRank
    <2>3. o.direction = q.direction
      BY <1>2, <2>2 DEF Desc, Directions
    <2>4. o.npc = q.npc
      BY <1>2, <2>2, PlaceIs
    <2>5. QED
      BY <1>1, <2>3, <2>4, OffersAreKnown
  <1> HIDE DEF R
  <1>5. Ranks(S, 4, R)
    BY <1>3, <1>4 DEF Ranks
  <1>6. seq = [n \in 1..Cardinality(S) |->
                 CHOOSE x \in S : Cardinality({y \in S : Before(OfferRank(y), OfferRank(x))}) = n - 1]
    BY <1>1 DEF findTradeOffersForItem, Sorted, Ordered
  <1>7. ASSUME NEW x \in S PROVE Earlier(S, R, x) = {y \in S : Before(OfferRank(y), OfferRank(x))}
    BY DEF Earlier, ItemRanks, R
  <1>8. ASSUME NEW n \in 1..Cardinality(S), \E x \in S : Cardinality(Earlier(S, R, x)) = n - 1
        PROVE  seq[n] \in S /\ Cardinality(Earlier(S, R, seq[n])) = n - 1
    <2>1. \E x \in S : Cardinality({y \in S : Before(OfferRank(y), OfferRank(x))}) = n - 1
      BY <1>7, <1>8
    <2>2. seq[n] = CHOOSE x \in S : Cardinality({y \in S : Before(OfferRank(y), OfferRank(x))}) = n - 1
      BY <1>6
    <2>3. seq[n] \in S /\ Cardinality({y \in S : Before(OfferRank(y), OfferRank(seq[n]))}) = n - 1
      BY <2>1, <2>2
    <2>4. QED
      BY <1>7, <2>3
  <1>9. DOMAIN seq = 1..Cardinality(S) /\ seq = [n \in 1..Cardinality(S) |-> seq[n]]
    BY <1>6
  <1> HIDE DEF S, R, seq
  <1>10. Precedence(S, ByRank(S, R)) /\ Lists(seq, S, ByRank(S, R))
    BY <1>1, <1>5, <1>8, <1>9, SortedIs
  <1>11. QED
    BY <1>1, <1>10 DEF S, R, seq

(* The offers of an NPC, by direction and title; the statement cuts them at its limit. *)
NpcOffers(npc) == {o \in offers : o.npc = npc}
NpcRanks(npc) == [o \in NpcOffers(npc) |-> <<Desc(o.direction = "npc_buys"), Place(Titles, o.item)>>]
NpcWhole(npc) ==
    [n \in 1..Cardinality(NpcOffers(npc)) |->
       CHOOSE x \in NpcOffers(npc) :
         Cardinality({y \in NpcOffers(npc) : Before(<<Desc(y.direction = "npc_buys"), Place(Titles, y.item)>>,
                                                    <<Desc(x.direction = "npc_buys"), Place(Titles, x.item)>>)}) = n - 1]

LEMMA NpcListing ==
  ASSUME TablesFollow, NEW npc
  PROVE  /\ IsFiniteSet(NpcOffers(npc)) /\ Precedence(NpcOffers(npc), ByRank(NpcOffers(npc), NpcRanks(npc)))
         /\ Lists(NpcWhole(npc), NpcOffers(npc), ByRank(NpcOffers(npc), NpcRanks(npc)))
         /\ findTradeOffersForNpc(npc) = FirstN(NpcWhole(npc), DEFAULT_LIMIT)
  <1> DEFINE S == NpcOffers(npc)
             R == NpcRanks(npc)
             seq == NpcWhole(npc)
  <1>1. IsFiniteSet(S) /\ S \subseteq offers /\ \A o \in S : o.npc = npc
    BY OffersAreKnown, FS_Subset DEF NpcOffers
  <1>2. \A o \in S : o.item \in ToSet(Titles) /\ o.direction \in Directions
    BY <1>1, OffersAreKnown DEF TablesFollow
  <1>3. ASSUME NEW o \in S PROVE DOMAIN R[o] = 1..2 /\ \A i \in 1..2 : R[o][i] \in Int
    <2>1. Place(Titles, o.item) \in Int
      BY <1>2, PlaceIs, NamesAreFinite
    <2>2. Desc(o.direction = "npc_buys") \in Int
      BY DEF Desc
    <2>3. R[o] = <<Desc(o.direction = "npc_buys"), Place(Titles, o.item)>>
      BY DEF NpcRanks
    <2>4. QED
      BY <2>1, <2>2, <2>3
  <1>4. ASSUME NEW o \in S, NEW q \in S, \A i \in 1..2 : R[o][i] = R[q][i] PROVE o = q
    <2>1. R[o][1] = R[q][1] /\ R[o][2] = R[q][2]
      BY <1>4
    <2>2. Desc(o.direction = "npc_buys") = Desc(q.direction = "npc_buys") /\ Place(Titles, o.item) = Place(Titles, q.item)
      BY <2>1 DEF NpcRanks
    <2>3. o.direction = q.direction
      BY <1>2, <2>2 DEF Desc, Directions
    <2>4. o.item = q.item
      BY <1>2, <2>2, PlaceIs
    <2>5. QED
      BY <1>1, <2>3, <2>4, OffersAreKnown
  <1> HIDE DEF R
  <1>5. Ranks(S, 2, R)
    BY <1>3, <1>4 DEF Ranks
  <1> DEFINE Preceding(x) == {y \in S : Before(<<Desc(y.direction = "npc_buys"), Place(Titles, y.item)>>,
                                              <<Desc(x.direction = "npc_buys"), Place(Titles, x.item)>>)}
  <1>6. seq = [n \in 1..Cardinality(S) |-> CHOOSE x \in S : Cardinality(Preceding(x)) = n - 1]
    BY DEF NpcWhole
  <1>7. ASSUME NEW x \in S PROVE Earlier(S, R, x) = Preceding(x)
    BY DEF Earlier, NpcRanks, R
  <1>8. ASSUME NEW n \in 1..Cardinality(S), \E x \in S : Cardinality(Earlier(S, R, x)) = n - 1
        PROVE  seq[n] \in S /\ Cardinality(Earlier(S, R, seq[n])) = n - 1
    <2>1. \E x \in S : Cardinality(Preceding(x)) = n - 1
      BY <1>7, <1>8
    <2>2. seq[n] = CHOOSE x \in S : Cardinality(Preceding(x)) = n - 1
      BY <1>6
    <2>3. seq[n] \in S /\ Cardinality(Preceding(seq[n])) = n - 1
      BY <2>1, <2>2
    <2>4. QED
      BY <1>7, <2>3
  <1>9. DOMAIN seq = 1..Cardinality(S) /\ seq = [n \in 1..Cardinality(S) |-> seq[n]]
    BY <1>6
  <1>10. findTradeOffersForNpc(npc) = FirstN(seq, DEFAULT_LIMIT)
    BY DEF findTradeOffersForNpc, Sorted, Ordered, NpcOffers, NpcWhole
  <1> HIDE DEF S, seq
  <1>11. Precedence(S, ByRank(S, R)) /\ Lists(seq, S, ByRank(S, R))
    BY <1>1, <1>5, <1>8, <1>9, SortedIs
  <1>12. QED
    BY <1>1, <1>10, <1>11 DEF S, R, seq

(* The items that find_items finds, those without a level first. *)
Found(search, maxLevel) ==
    {t \in DOMAIN items : /\ \A s \in search : Within(s, t) \/ Within(s, items[t].actual_name)
                          /\ \A m \in maxLevel, l \in items[t].level : l <= m}
FoundRank(t) == <<Desc(items[t].level = {}), Min(items[t].level \cup {1000}), Place(Titles, t)>>
FoundWhole(S) ==
    [n \in 1..Cardinality(S) |->
       CHOOSE x \in S : Cardinality({y \in S : Before(FoundRank(y), FoundRank(x))}) = n - 1]

IsListing(rows, limit, S) ==
    /\ IsFiniteSet(S) /\ Cardinality(S) \in Nat /\ S \subseteq DOMAIN items
    /\ FoundWhole(S) \in [1..Cardinality(S) -> S]
    /\ rows = FirstN(FoundWhole(S), limit)

LEMMA FoundListing ==
  ASSUME TablesFollow, NEW search, NEW maxLevel, NEW limit, NEW S, S = Found(search, maxLevel)
  PROVE  IsListing(findItems(search, maxLevel, limit), limit, S)
  <1> DEFINE R == [t \in S |-> FoundRank(t)]
             seq == FoundWhole(S)
  <1>1. S \subseteq DOMAIN items /\ S \subseteq ToSet(Titles)
    BY DEF Found, TablesFollow
  <1>2. IsFiniteSet(S) /\ Cardinality(S) \in Nat
    BY <1>1, NamesAreFinite, FS_Subset, FS_CardinalityType
  <1>3. ASSUME NEW t \in S PROVE DOMAIN R[t] = 1..3 /\ \A i \in 1..3 : R[t][i] \in Int
    <2>1. Place(Titles, t) \in Int
      BY <1>1, PlaceIs, NamesAreFinite
    <2>2. Desc(items[t].level = {}) \in Int
      BY DEF Desc
    <2> DEFINE levels == items[t].level \cup {1000}
    <2>3. Min(levels) \in Int
      <3>1. levels \subseteq Nat /\ levels # {}
        BY <1>1 DEF TablesFollow, Followed
      <3> HIDE DEF levels
      <3>2. \E x \in levels : \A y \in levels : x <= y
        BY <3>1, LeastOf
      <3>3. Min(levels) \in levels
        BY <3>2 DEF Min
      <3>4. \A m \in levels : m \in Int
        BY <3>1
      <3>5. QED
        BY <3>3, <3>4, Zenon
    <2>4. R[t] = <<Desc(items[t].level = {}), Min(levels), Place(Titles, t)>>
      BY DEF FoundRank
    <2>5. QED
      BY <2>1, <2>2, <2>3, <2>4
  <1>4. ASSUME NEW t \in S, NEW u \in S, \A i \in 1..3 : R[t][i] = R[u][i] PROVE t = u
    <2>1. R[t][3] = R[u][3]
      BY <1>4
    <2>2. Place(Titles, t) = Place(Titles, u)
      BY <2>1 DEF FoundRank
    <2>3. QED
      BY <1>1, <2>2, PlaceIs
  <1> HIDE DEF R
  <1>5. Ranks(S, 3, R)
    BY <1>3, <1>4 DEF Ranks
  <1>6. seq = [n \in 1..Cardinality(S) |->
                 CHOOSE x \in S : Cardinality({y \in S : Before(FoundRank(y), FoundRank(x))}) = n - 1]
    BY DEF FoundWhole
  <1>7. ASSUME NEW x \in S PROVE Earlier(S, R, x) = {y \in S : Before(FoundRank(y), FoundRank(x))}
    BY DEF Earlier, R
  <1>8. ASSUME NEW n \in 1..Cardinality(S), \E x \in S : Cardinality(Earlier(S, R, x)) = n - 1
        PROVE  seq[n] \in S /\ Cardinality(Earlier(S, R, seq[n])) = n - 1
    <2>1. \E x \in S : Cardinality({y \in S : Before(FoundRank(y), FoundRank(x))}) = n - 1
      BY <1>7, <1>8
    <2>2. seq[n] = CHOOSE x \in S : Cardinality({y \in S : Before(FoundRank(y), FoundRank(x))}) = n - 1
      BY <1>6
    <2>3. seq[n] \in S /\ Cardinality({y \in S : Before(FoundRank(y), FoundRank(seq[n]))}) = n - 1
      BY <2>1, <2>2
    <2>4. QED
      BY <1>7, <2>3
  <1>9. DOMAIN seq = 1..Cardinality(S) /\ seq = [n \in 1..Cardinality(S) |-> seq[n]]
    BY <1>6
  <1>10. findItems(search, maxLevel, limit) = FirstN(seq, limit)
    BY DEF findItems, Sorted, Ordered, Found, FoundWhole, FoundRank
  <1> HIDE DEF seq
  <1>11. Lists(seq, S, ByRank(S, R))
    BY <1>2, <1>5, <1>8, <1>9, SortedIs
  <1>12. seq \in [1..Cardinality(S) -> S]
    BY <1>11 DEF Lists
  <1>13. QED
    BY <1>1, <1>2, <1>10, <1>12 DEF seq, IsListing

-----------------------------------------------------------------------------
(* What is shown of the offers, by item and by NPC. *)

OfItemShown(r, t, d) ==
    /\ Len(r.shown) + r.more = Cardinality({o \in Stated(t) : o.direction = d})
    /\ \A n \in DOMAIN r.shown : \E o \in Stated(t) : o.direction = d /\ r.shown[n] = Shown(o)
    /\ \A q \in Stated(t) : q.direction = d =>
         \E o \in Stated(t) : /\ o.direction = d /\ r.shown[1] = Shown(o)
                              /\ o = q \/ Before(OfferRank(o), OfferRank(q))

LEMMA ItemShown ==
  ASSUME TablesFollow, NEW t \in DOMAIN items, NEW d,
         NEW r, r = renderOffers(findTradeOffersForItem(t), d)
  PROVE  OfItemShown(r, t, d)
  <1> DEFINE S == Stated(t)
             P == ByRank(S, ItemRanks(t))
             all == findTradeOffersForItem(t)
             k == Cardinality(S)
             I == Standing(all, d)
  <1>1. IsFiniteSet(S) /\ Precedence(S, P) /\ Lists(all, S, P)
    BY ItemListing
  <1>2. k \in Nat /\ all \in [1..k -> S]
    BY <1>1, FS_CardinalityType DEF Lists
  <1>3. I = {i \in 1..k : all[i].direction = d}
    BY <1>2 DEF Standing
  <1> HIDE DEF S, P, all, k, I
  <1>4. /\ IsFiniteSet(I) /\ Len(r.shown) + r.more = Cardinality(I)
        /\ \A n \in DOMAIN r.shown : \E i \in I : r.shown[n] = Shown(all[i])
        /\ I # {} => \E i \in I : r.shown[1] = Shown(all[i]) /\ \A j \in I : i <= j
    <2>1. Renders(r, all, I)
      BY <1>2, Rendered DEF I, all
    <2>2. QED
      BY <2>1 DEF Renders
  <1>5. Cardinality(I) = Cardinality({o \in S : o.direction = d})
    BY <1>1, EachOnce DEF I
  <1>6. \A i \in I : all[i] \in S /\ all[i].direction = d
    BY <1>2, <1>3
  <1>7. ASSUME NEW q \in S, q.direction = d
        PROVE  \E o \in S : /\ o.direction = d /\ r.shown[1] = Shown(o)
                            /\ o = q \/ Before(OfferRank(o), OfferRank(q))
    <2>1. PICK j \in I : all[j] = q
      BY <1>1, <1>3, <1>7 DEF Lists, k
    <2>2. PICK i \in I : r.shown[1] = Shown(all[i]) /\ i <= j
      BY <1>4, <2>1
    <2>3. i \in 1..k /\ j \in 1..k
      BY <1>3
    <2>4. i = j \/ all[i] \in P[all[j]]
      BY <1>1, <1>2, <2>2, <2>3 DEF Lists, k
    <2>5. \A x, y \in S : y \in P[x] => Before(OfferRank(y), OfferRank(x))
      BY DEF P, S, ByRank, Earlier, ItemRanks
    <2>6. QED
      BY <1>6, <2>1, <2>2, <2>4, <2>5
  <1>8. QED
    BY <1>4, <1>5, <1>6, <1>7 DEF S, OfItemShown

OfNpcShown(r, npc, d) ==
    /\ \A n \in DOMAIN r.shown : \E o \in NpcOffers(npc) : o.direction = d /\ r.shown[n] = Shown(o)
    /\ Cardinality(NpcOffers(npc)) <= DEFAULT_LIMIT
         => Len(r.shown) + r.more = Cardinality({o \in NpcOffers(npc) : o.direction = d})

LEMMA NpcShown ==
  ASSUME TablesFollow, NEW npc, NEW d, NEW r, r = renderOffers(findTradeOffersForNpc(npc), d)
  PROVE  OfNpcShown(r, npc, d)
  <1> DEFINE S == NpcOffers(npc)
             P == ByRank(S, NpcRanks(npc))
             whole == NpcWhole(npc)
             all == findTradeOffersForNpc(npc)
             c == Cardinality(S)
             k == IF DEFAULT_LIMIT <= c THEN DEFAULT_LIMIT ELSE c
             I == Standing(all, d)
  <1>1. /\ IsFiniteSet(S) /\ Precedence(S, P) /\ Lists(whole, S, P)
        /\ all = FirstN(whole, DEFAULT_LIMIT)
    BY NpcListing
  <1>2. c \in Nat /\ whole \in [1..c -> S]
    BY <1>1, FS_CardinalityType DEF Lists
  <1>3. DEFAULT_LIMIT \in Nat
    BY NamesAssumption
  <1>4. k \in Nat /\ k <= DEFAULT_LIMIT /\ k <= c /\ (k = DEFAULT_LIMIT \/ k = c) /\ (c <= DEFAULT_LIMIT => k = c)
    BY <1>2, <1>3
  <1> HIDE DEF S, P, whole, all, c, k, I
  <1>5. Begins(all, k, whole, S)
    BY <1>1, <1>2, <1>3, <1>4, FirstOf
  <1>6. all \in [1..k -> S] /\ \A i \in 1..k : all[i] = whole[i]
    BY <1>5 DEF Begins
  <1>7. I = {i \in 1..k : all[i].direction = d}
    BY <1>6 DEF I, Standing
  <1>8. /\ Len(r.shown) + r.more = Cardinality(I)
        /\ \A n \in DOMAIN r.shown : \E i \in I : r.shown[n] = Shown(all[i])
    <2>1. Renders(r, all, I)
      BY <1>4, <1>6, Rendered DEF I, all
    <2>2. QED
      BY <2>1 DEF Renders
  <1>9. ASSUME c <= DEFAULT_LIMIT PROVE Cardinality(I) = Cardinality({o \in S : o.direction = d})
    <2>1. all = whole
      BY <1>2, <1>4, <1>6, <1>9
    <2>2. QED
      BY <1>1, <2>1, EachOnce DEF I
  <1>10. \A i \in I : all[i] \in S /\ all[i].direction = d
    BY <1>6, <1>7
  <1>11. QED
    BY <1>8, <1>9, <1>10 DEF S, c, OfNpcShown

(* The price that is shown is the NPC's own or the one the page gives for the item. *)
LEMMA PriceShown ==
  ASSUME TablesFollow, NEW t \in DOMAIN items, NEW o \in Stated(t), NEW d \in Directions, o.direction = d
  PROVE  Shown(o).price = IF o.price # {} THEN o.price
                          ELSE Number(IF d = "npc_buys" THEN wiki[t].npcvalue ELSE wiki[t].npcprice) \ {0}
  <1>1. o.item = t
    BY DEF Stated
  <1>2. Shown(o).price = IF o.price = {} THEN Default(o) ELSE o.price
    BY DEF Shown
  <1>3. Followed(t)
    BY DEF TablesFollow
  <1>4. QED
    BY <1>1, <1>2, <1>3 DEF Default, Followed

(* An offer with a price, and one that comes before it. *)
LEMMA BetterFirst ==
  ASSUME NEW o, NEW q, o.direction = q.direction, o.price \subseteq Int, q.price \subseteq Int, q.price # {},
         o = q \/ Before(OfferRank(o), OfferRank(q))
  PROVE  /\ o.price # {} /\ Price(Shown(o)) = Price(o)
         /\ IF q.direction = "npc_buys" THEN Price(q) <= Price(o) ELSE Price(o) <= Price(q)
  <1>1. Price(q) \in Int /\ (o.price # {} => Price(o) \in Int)
    BY DEF Price
  <1>2. CASE o = q
    BY <1>1, <1>2 DEF Price, Shown
  <1>3. CASE Before(OfferRank(o), OfferRank(q))
    <2> DEFINE Third(x) == IF x.price = {} THEN 0 ELSE IF x.direction = "npc_buys" THEN -Price(x) ELSE Price(x)
               a == OfferRank(o)
               b == OfferRank(q)
    <2>1. /\ DOMAIN a = 1..4 /\ a[1] = b[1] /\ a[2] = Desc(o.price # {}) /\ b[2] = 0 /\ a[3] = Third(o) /\ b[3] = Third(q)
          /\ a[1] \in Int
      BY DEF OfferRank, Desc
    <2>2. a[2] \in {0, 1} /\ (a[2] = 0 => o.price # {})
      BY <2>1 DEF Desc
    <2> HIDE DEF a, b
    <2>3. PICK i \in 1..4 : a[i] < b[i] /\ \A j \in 1..(i - 1) : a[j] = b[j]
      BY <1>3, <2>1 DEF Before, a, b
    <2>4. i # 1 /\ i # 2
      BY <2>1, <2>2, <2>3
    <2>5. a[2] = b[2]
      BY <2>3, <2>4
    <2>6. o.price # {}
      BY <2>1, <2>2, <2>5
    <2>7. i = 3 \/ i = 4
      BY <2>3, <2>4
    <2>8. Third(o) <= Third(q)
      <3>1. CASE i = 3
        BY <1>1, <2>1, <2>3, <2>6, <3>1
      <3>2. CASE i = 4
        <4>1. a[3] = b[3]
          BY <2>3, <3>2
        <4>2. QED
          BY <1>1, <2>1, <2>6, <4>1
      <3>3. QED
        BY <2>7, <3>1, <3>2
    <2>9. Price(Shown(o)) = Price(o)
      BY <2>6 DEF Price, Shown
    <2>10. QED
      BY <1>1, <2>6, <2>8, <2>9
  <1>4. QED
    BY <1>2, <1>3

-----------------------------------------------------------------------------
(* Who is asked for by his own title is found, and nobody else. *)

LEMMA ItemFound ==
  ASSUME TablesFollow, NEW t \in DOMAIN items
  PROVE  findItemLoose(t) = {t}
  <1> DEFINE found == {u \in DOMAIN items : u = t \/ items[u].actual_name = t \/ t \in items[u].aliases \/ Within(t, u)}
  <1>1. t \in found /\ Len(t) \in Nat
    BY NamesAreFinite DEF TablesFollow
  <1>2. \A u \in found : LooseRank(u, t) = <<Desc(u = t), DescEq(items[u].actual_name, t), Desc(t \in items[u].aliases), Len(u)>>
    BY DEF LooseRank
  <1>3. \A u \in found : u # t => Before(LooseRank(t, t), LooseRank(u, t))
    BY <1>1, <1>2 DEF Before, Desc
  <1>4. \A u \in found : ~Before(LooseRank(u, t), LooseRank(t, t))
    <2>1. \A u \in found : u # t => LooseRank(u, t)[1] = 1 /\ DOMAIN LooseRank(u, t) = 1..4
      BY <1>2 DEF Desc
    <2>2. LooseRank(t, t)[1] = 0 /\ LooseRank(t, t)[2] \in Int /\ LooseRank(t, t)[3] \in Int /\ LooseRank(t, t)[4] \in Int
          /\ DOMAIN LooseRank(t, t) = 1..4
      BY <1>1, <1>2 DEF Desc, DescEq
    <2>3. ~Before(LooseRank(t, t), LooseRank(t, t))
      <3>1. \A i \in 1..4 : ~(LooseRank(t, t)[i] < LooseRank(t, t)[i])
        BY <2>2
      <3>2. QED
        BY <2>2, <3>1 DEF Before
    <2>4. ASSUME NEW u \in found, u # t PROVE ~Before(LooseRank(u, t), LooseRank(t, t))
      <3>1. \A i \in 1..4 : i = 1 \/ 1 \in 1..(i - 1)
        OBVIOUS
      <3>2. QED
        BY <2>1, <2>2, <2>4, <3>1 DEF Before
    <2>5. QED
      BY <2>3, <2>4
  <1>5. findItemLoose(t) = {u \in found : \A v \in found : ~Before(LooseRank(v, t), LooseRank(u, t))}
    BY DEF findItemLoose
  <1> HIDE DEF found
  <1>6. QED
    BY <1>1, <1>3, <1>4, <1>5

LEMMA NpcFound ==
  ASSUME NEW n \in ToSet(Npcs)
  PROVE  findNpcLoose(n) = {n}
  <1> DEFINE found == {m \in ToSet(Npcs) : m = n \/ Within(n, m)}
             Rank(m) == <<Desc(m = n), Len(m)>>
  <1>1. n \in found /\ Len(n) \in Int
    BY NamesAreFinite
  <1>2. Rank(n) = <<0, Len(n)>> /\ \A m \in found : m # n => Rank(m) = <<1, Len(m)>>
    BY DEF Desc
  <1>3. findNpcLoose(n) = {m \in found : \A o \in found : ~Before(Rank(o), Rank(m))}
    BY DEF findNpcLoose
  <1> HIDE DEF Rank
  <1>4. \A m \in found : m # n => Before(Rank(n), Rank(m)) /\ ~Before(Rank(m), Rank(n))
    <2>1. ASSUME NEW m \in found, m # n PROVE Before(Rank(n), Rank(m)) /\ ~Before(Rank(m), Rank(n))
      <3>1. /\ DOMAIN Rank(n) = 1..2 /\ DOMAIN Rank(m) = 1..2 /\ Rank(n)[1] = 0 /\ Rank(m)[1] = 1
        BY <1>2, <2>1
      <3>2. \A i \in 1..2 : i = 1 \/ 1 \in 1..(i - 1)
        OBVIOUS
      <3>3. ~Before(Rank(m), Rank(n))
        BY <3>1, <3>2 DEF Before
      <3>4. Before(Rank(n), Rank(m))
        BY <3>1 DEF Before
      <3>5. QED
        BY <3>3, <3>4
    <2>2. QED
      BY <2>1
  <1>5. ~Before(Rank(n), Rank(n))
    <2>1. DOMAIN Rank(n) = 1..2 /\ Rank(n)[1] \in Int /\ Rank(n)[2] \in Int
      BY <1>1, <1>2
    <2>2. \A i \in 1..2 : ~(Rank(n)[i] < Rank(n)[i])
      BY <2>1
    <2>3. QED
      BY <2>1, <2>2 DEF Before
  <1> HIDE DEF found
  <1>6. QED
    BY <1>1, <1>3, <1>4, <1>5

-----------------------------------------------------------------------------
(* The answers. *)

LEMMA FollowedAgree == TablesFollow => AnswersAgree
  <1> SUFFICES ASSUME TablesFollow, NEW t \in DOMAIN items, NEW n \in ToSet(Npcs), NEW d \in Directions
      PROVE  LET few == Cardinality({o \in offers : o.npc = n}) <= DEFAULT_LIMIT
                 given == {o \in Stated(t) : o.npc = n /\ o.direction = d}
                 Expected(o) == IF o.price # {} THEN o.price
                                ELSE Number(IF d = "npc_buys" THEN wiki[t].npcvalue ELSE wiki[t].npcprice) \ {0}
             IN  /\ \A a \in getItemInfo(t) :
                      LET it == a.trades[d]
                      IN  /\ Len(it.shown) + it.more = Cardinality({o \in Stated(t) : o.direction = d})
                          /\ \A i \in DOMAIN it.shown : it.shown[i].npc = n => \E o \in given : it.shown[i].price = Expected(o)
                 /\ \A a \in getNpcInfo(n) :
                      LET it == a.trades[d]
                      IN  /\ few => Len(it.shown) + it.more = Cardinality({o \in offers : o.npc = n /\ o.direction = d})
                          /\ \A i \in DOMAIN it.shown : it.shown[i].item = t => \E o \in given : it.shown[i].price = Expected(o)
    BY DEF AnswersAgree
  <1> DEFINE given == {o \in Stated(t) : o.npc = n /\ o.direction = d}
             Expected(o) == IF o.price # {} THEN o.price
                            ELSE Number(IF d = "npc_buys" THEN wiki[t].npcvalue ELSE wiki[t].npcprice) \ {0}
  <1>1. \A o : Shown(o).item = o.item /\ Shown(o).npc = o.npc
    BY DEF Shown
  <1>2. \A o \in given : Shown(o).price = Expected(o)
    BY PriceShown
  <1> DEFINE ItemSays(it) ==
               /\ Len(it.shown) + it.more = Cardinality({o \in Stated(t) : o.direction = d})
               /\ \A i \in DOMAIN it.shown : it.shown[i].npc = n => \E o \in given : it.shown[i].price = Expected(o)
             NpcSays(it) ==
               /\ Cardinality({o \in offers : o.npc = n}) <= DEFAULT_LIMIT
                    => Len(it.shown) + it.more = Cardinality({o \in offers : o.npc = n /\ o.direction = d})
               /\ \A i \in DOMAIN it.shown : it.shown[i].item = t => \E o \in given : it.shown[i].price = Expected(o)
  <1>3. ASSUME NEW a \in getItemInfo(t) PROVE ItemSays(a.trades[d])
    <2> DEFINE it == a.trades[d]
    <2>1. it = renderOffers(findTradeOffersForItem(t), d)
      BY <1>3, ItemFound DEF getItemInfo
    <2> HIDE DEF it
    <2>2. /\ Len(it.shown) + it.more = Cardinality({o \in Stated(t) : o.direction = d})
          /\ \A i \in DOMAIN it.shown : \E o \in Stated(t) : o.direction = d /\ it.shown[i] = Shown(o)
      BY <2>1, ItemShown DEF OfItemShown
    <2> HIDE DEF Expected
    <2>3. ItemSays(it)
      BY <1>1, <1>2, <2>2
    <2>4. QED
      BY <2>3 DEF it
  <1>4. ASSUME NEW a \in getNpcInfo(n) PROVE NpcSays(a.trades[d])
    <2> DEFINE it == a.trades[d]
    <2>1. it = renderOffers(findTradeOffersForNpc(n), d)
      BY <1>4, NpcFound DEF getNpcInfo
    <2> HIDE DEF it
    <2>2. /\ \A i \in DOMAIN it.shown : \E o \in NpcOffers(n) : o.direction = d /\ it.shown[i] = Shown(o)
          /\ Cardinality(NpcOffers(n)) <= DEFAULT_LIMIT
               => Len(it.shown) + it.more = Cardinality({o \in NpcOffers(n) : o.direction = d})
      BY <2>1, NpcShown DEF OfNpcShown
    <2>3. NpcOffers(n) = {o \in offers : o.npc = n}
      BY DEF NpcOffers
    <2>4. {o \in NpcOffers(n) : o.direction = d} = {o \in offers : o.npc = n /\ o.direction = d}
      BY <2>3
    <2>5. \A o \in NpcOffers(n) : o.item = t => o \in Stated(t) /\ o.npc = n
      BY <2>3, OffersAreKnown
    <2> HIDE DEF Expected
    <2>6. ASSUME NEW i \in DOMAIN it.shown, it.shown[i].item = t
          PROVE  \E o \in given : it.shown[i].price = Expected(o)
      BY <1>1, <1>2, <2>2, <2>5, <2>6
    <2>7. NpcSays(it)
      BY <2>2, <2>3, <2>4, <2>6
    <2>8. QED
      BY <2>7 DEF it
  <1>5. QED
    BY <1>3, <1>4

LEMMA FollowedLead == TablesFollow => BestOfferLeads
  <1> SUFFICES ASSUME TablesFollow, NEW t \in DOMAIN items, NEW a \in getItemInfo(t), NEW d \in Directions,
                      NEW q \in Stated(t), q.direction = d, q.price # {}
      PROVE  IF d = "npc_buys" THEN Price(q) <= Price(a.trades[d].shown[1])
                               ELSE Price(a.trades[d].shown[1]) <= Price(q)
    BY DEF BestOfferLeads
  <1> DEFINE r == a.trades[d]
  <1>1. r = renderOffers(findTradeOffersForItem(t), d)
    BY ItemFound DEF getItemInfo
  <1> HIDE DEF r
  <1>2. PICK o \in Stated(t) : /\ o.direction = d /\ r.shown[1] = Shown(o)
                               /\ o = q \/ Before(OfferRank(o), OfferRank(q))
    <2>1. OfItemShown(r, t, d)
      BY <1>1, ItemShown
    <2>2. QED
      BY <2>1 DEF OfItemShown
  <1>3. o.price \subseteq Int /\ q.price \subseteq Int
    BY OffersAreKnown
  <1>4. /\ Price(Shown(o)) = Price(o)
        /\ IF q.direction = "npc_buys" THEN Price(q) <= Price(o) ELSE Price(o) <= Price(q)
    BY <1>2, <1>3, BetterFirst
  <1>5. Price(r.shown[1]) = Price(o)
    BY <1>2, <1>4
  <1>6. QED
    BY <1>2, <1>4, <1>5 DEF r

LEMMA FollowedAsked == TablesFollow => ListedCanBeAsked
  <1> SUFFICES ASSUME TablesFollow PROVE ListedCanBeAsked
    OBVIOUS
  <1>1. ASSUME NEW name \in Names, NEW limit \in 0..(FIND_ITEMS_CAP + 1)
        PROVE  LET rows == find_items({name}, {}, limit)
               IN  Len(rows) <= FIND_ITEMS_CAP /\ \A i \in DOMAIN rows : findItemLoose(rows[i]) = {rows[i]}
    <2> DEFINE rows == find_items({name}, {}, limit)
               n == boundedLimit(limit, FIND_ITEMS_CAP)
               S == Found({name}, {})
               c == Cardinality(S)
               m == IF n <= c THEN n ELSE c
    <2>1. FIND_ITEMS_CAP \in Nat /\ n \in Nat /\ n <= FIND_ITEMS_CAP
      BY NamesAssumption DEF boundedLimit
    <2>2. rows = findItems({name}, {}, n)
      BY DEF find_items
    <2>3. S = Found({name}, {})
      OBVIOUS
    <2> HIDE DEF n, S, rows
    <2>4. /\ c \in Nat /\ S \subseteq DOMAIN items /\ FoundWhole(S) \in [1..c -> S]
          /\ rows = FirstN(FoundWhole(S), n)
      <3>1. IsListing(rows, n, S)
        BY <2>2, <2>3, FoundListing
      <3>2. QED
        BY <3>1 DEF IsListing, c
    <2>5. m \in Nat /\ m <= n /\ m <= c /\ (m = n \/ m = c)
      BY <2>1, <2>4
    <2> HIDE DEF m, c
    <2>6. Begins(rows, m, FoundWhole(S), S)
      BY <2>1, <2>4, <2>5, FirstOf
    <2>7. rows \in [1..m -> S] /\ Len(rows) = m
      BY <2>6 DEF Begins
    <2>8. \A i \in DOMAIN rows : rows[i] \in DOMAIN items
      BY <2>4, <2>7
    <2>9. Len(rows) <= FIND_ITEMS_CAP /\ \A i \in DOMAIN rows : findItemLoose(rows[i]) = {rows[i]}
      BY <2>1, <2>5, <2>7, <2>8, ItemFound
    <2>10. QED
      BY <2>9 DEF rows
  <1>2. ASSUME NEW name \in Names, NEW d \in Directions, NEW a \in getNpcInfo(name), NEW i \in DOMAIN a.trades[d].shown
        PROVE  findItemLoose(a.trades[d].shown[i].item) = {a.trades[d].shown[i].item}
    <2> DEFINE r == a.trades[d]
    <2>1. PICK npc : r = renderOffers(findTradeOffersForNpc(npc), d)
      BY <1>2 DEF getNpcInfo
    <2>2. i \in DOMAIN r.shown
      BY <1>2
    <2> HIDE DEF r
    <2>3. PICK o \in NpcOffers(npc) : r.shown[i] = Shown(o)
      <3>1. OfNpcShown(r, npc, d)
        BY <2>1, NpcShown
      <3>2. QED
        BY <2>2, <3>1 DEF OfNpcShown
    <2>4. a.trades[d].shown[i].item \in DOMAIN items
      BY <2>3, OffersAreKnown DEF NpcOffers, Shown, r
    <2>5. QED
      BY <2>4, ItemFound
  <1>3. ASSUME NEW name \in Names, NEW d \in Directions, NEW a \in getItemInfo(name), NEW i \in DOMAIN a.trades[d].shown
        PROVE  findNpcLoose(a.trades[d].shown[i].npc) = {a.trades[d].shown[i].npc}
    <2> DEFINE r == a.trades[d]
    <2>1. PICK t \in DOMAIN items : r = renderOffers(findTradeOffersForItem(t), d)
      BY <1>3 DEF getItemInfo, findItemLoose
    <2>2. i \in DOMAIN r.shown
      BY <1>3
    <2> HIDE DEF r
    <2>3. PICK o \in Stated(t) : r.shown[i] = Shown(o)
      <3>1. OfItemShown(r, t, d)
        BY <2>1, ItemShown
      <3>2. QED
        BY <2>2, <3>1 DEF OfItemShown
    <2>4. a.trades[d].shown[i].npc \in ToSet(Npcs)
      BY <2>3, OffersAreKnown DEF Shown, r
    <2>5. QED
      BY <2>4, NpcFound
  <1>4. QED
    BY <1>1, <1>2, <1>3 DEF ListedCanBeAsked

(* What get_item_info and get_npc_info say of one trade agrees, and every offer is shown  *)
(* or counted (localTools.ts:267, :289 and :349).                                         *)
THEOREM TheAnswersAgree == Spec => []AnswersAgree
  <1>1. QED
    BY FollowedAgree, InitFollows, StepFollows, PTL DEF Spec

(* The offer that is shown first is the best for the player among those with a price      *)
(* (catalogRepository.ts:417).                                                            *)
THEOREM TheBestOfferLeads == Spec => []BestOfferLeads
  <1>1. QED
    BY FollowedLead, InitFollows, StepFollows, PTL DEF Spec

(* Every row a tool lists can be asked for by its name (localTools.ts:392-456).           *)
THEOREM WhatIsListedCanBeAsked == Spec => []ListedCanBeAsked
  <1>1. QED
    BY FollowedAsked, InitFollows, StepFollows, PTL DEF Spec

-----------------------------------------------------------------------------
(* The parts of a call: splitTopLevel, for texts of any length. *)

Cuts(body) == {i \in 1..Len(body) : body[i] = "|" /\ Braces(body, i) = 0 /\ Brackets(body, i) = 0}

(* part is what s holds after a, up to b. *)
Piece(S, s, a, b, part) ==
    /\ s \in Seq(S) /\ a \in Nat /\ b \in Nat /\ a <= b /\ b <= Len(s)
    /\ part \in [1..(b - a) -> S] /\ \A j \in 1..(b - a) : part[j] = s[a + j]

Adds(whole, before, within) == before \in Nat /\ within \in Nat /\ whole = before + within

(* What is counted up to a place in a part adds to what is counted before the part. *)
LEMMA PieceAdds ==
  ASSUME NEW S, NEW s, NEW a, NEW b, NEW part, Piece(S, s, a, b, part),
         NEW i \in 1..(b - a + 1), NEW token
  PROVE  Adds(Count(s, a + i, token), Count(s, a + 1, token), Count(part, i, token))
  <1> /\ s \in Seq(S) /\ a \in Nat /\ b \in Nat /\ a <= b /\ b <= Len(s)
      /\ part \in [1..(b - a) -> S] /\ \A j \in 1..(b - a) : part[j] = s[a + j]
    BY DEF Piece
  <1> DEFINE A == {j \in 1..a : s[j] = token}
             C == {j \in (a + 1)..(a + i - 1) : s[j] = token}
             D == {j \in 1..(i - 1) : part[j] = token}
             W == {j \in 1..(a + i - 1) : s[j] = token}
             shift == [j \in D |-> a + j]
  <1>1. IsFiniteSet(A) /\ IsFiniteSet(C) /\ IsFiniteSet(D)
    <2>1. IsFiniteSet(1..a) /\ IsFiniteSet((a + 1)..(a + i - 1)) /\ IsFiniteSet(1..(i - 1))
      <3>1. \A m, n \in Int : IsFiniteSet(m..n)
        BY FS_Interval
      <3>2. a \in Int /\ a + 1 \in Int /\ a + i - 1 \in Int /\ i - 1 \in Int /\ 1 \in Int
        OBVIOUS
      <3>3. QED
        BY <3>1, <3>2
    <2>2. A \subseteq 1..a /\ C \subseteq (a + 1)..(a + i - 1) /\ D \subseteq 1..(i - 1)
      OBVIOUS
    <2>3. QED
      BY <2>1, <2>2, FS_Subset
  <1>2. shift \in Surjection(D, C) /\ shift \in Injection(D, C)
    <2>1. ASSUME NEW j \in D PROVE a + j \in C
      <3>1. j \in 1..(b - a) /\ part[j] = s[a + j]
        OBVIOUS
      <3>2. QED
        BY <3>1
    <2>2. ASSUME NEW c \in C PROVE \E j \in D : shift[j] = c
      <3>1. c - a \in 1..(i - 1) /\ c - a \in 1..(b - a) /\ a + (c - a) = c
        OBVIOUS
      <3>2. part[c - a] = s[c]
        BY <3>1
      <3>3. c - a \in D
        BY <3>1, <3>2
      <3>4. shift[c - a] = a + (c - a)
        BY <3>3
      <3>5. QED
        BY <3>1, <3>3, <3>4
    <2>3. \A j, m \in D : shift[j] = shift[m] => j = m
      OBVIOUS
    <2>4. shift \in [D -> C]
      BY <2>1
    <2> HIDE DEF shift, D, C
    <2>5. QED
      BY <2>2, <2>3, <2>4 DEF Surjection, Injection, IsInjective
  <1>3. Cardinality(D) = Cardinality(C)
    <2> HIDE DEF shift, D, C
    <2>1. QED
      BY <1>1, <1>2, FS_Injection
  <1>4. A \cap C = {} /\ W = A \cup C
    OBVIOUS
  <1> HIDE DEF A, C, D, W
  <1>5. Cardinality(A \cup C) = Cardinality(A) + Cardinality(C)
    <2>1. Cardinality(A \cup C) = Cardinality(A) + Cardinality(C) - Cardinality(A \cap C)
      BY <1>1, FS_Union
    <2>2. Cardinality(A \cap C) = 0
      BY <1>4, FS_EmptySet
    <2>3. Cardinality(A) \in Nat /\ Cardinality(C) \in Nat
      BY <1>1, FS_CardinalityType
    <2>4. QED
      BY <2>1, <2>2, <2>3
  <1>6. Count(s, a + 1, token) = Cardinality(A)
    <2>1. a + 1 - 1 = a
      OBVIOUS
    <2>2. QED
      BY <2>1 DEF Count, A
  <1>7. Count(s, a + i, token) = Cardinality(A \cup C)
    <2>1. Count(s, a + i, token) = Cardinality(W)
      BY DEF Count, W
    <2>2. QED
      BY <1>4, <2>1
  <1>8. Count(part, i, token) = Cardinality(D)
    BY DEF Count, D
  <1>9. Cardinality(A) \in Nat /\ Cardinality(D) \in Nat
    BY <1>1, FS_CardinalityType
  <1>10. QED
    BY <1>3, <1>5, <1>6, <1>7, <1>8, <1>9 DEF Adds

(* A balance of nothing and nothing. *)
LEMMA NoBalance ==
  ASSUME NEW x, NEW y, x = 0, y = 0
  PROVE  x - y = 0
  OBVIOUS

(* What is opened and not closed, from the start of a part before which all is closed. *)
LEMMA Balance ==
  ASSUME NEW S, NEW s, NEW a, NEW b, NEW part, Piece(S, s, a, b, part),
         NEW i \in 1..(b - a + 1), NEW open, NEW close,
         Count(s, a + 1, open) - Count(s, a + 1, close) = 0
  PROVE  Count(s, a + i, open) - Count(s, a + i, close) = Count(part, i, open) - Count(part, i, close)
  <1>1. /\ Adds(Count(s, a + i, open), Count(s, a + 1, open), Count(part, i, open))
        /\ Adds(Count(s, a + i, close), Count(s, a + 1, close), Count(part, i, close))
    BY PieceAdds
  <1>2. QED
    BY <1>1 DEF Adds

(* Nesting is counted from the start of the part when the part starts outside of any. *)
LEMMA NestingIn ==
  ASSUME NEW S, NEW s, NEW a, NEW b, NEW part, Piece(S, s, a, b, part),
         Braces(s, a + 1) = 0, Brackets(s, a + 1) = 0, NEW i \in 1..(b - a + 1)
  PROVE  Braces(s, a + i) = Braces(part, i) /\ Brackets(s, a + i) = Brackets(part, i)
  <1>1. Count(s, a + 1, "{") - Count(s, a + 1, "}") = 0 /\ Count(s, a + 1, "[") - Count(s, a + 1, "]") = 0
    BY Zenon DEF Braces, Brackets
  <1>2. ASSUME NEW open, NEW close, Count(s, a + 1, open) - Count(s, a + 1, close) = 0
        PROVE  Count(s, a + i, open) - Count(s, a + i, close) = Count(part, i, open) - Count(part, i, close)
    BY <1>2, Balance
  <1>3. Count(s, a + i, "{") - Count(s, a + i, "}") = Count(part, i, "{") - Count(part, i, "}")
    BY <1>1, <1>2, Zenon
  <1>4. Count(s, a + i, "[") - Count(s, a + i, "]") = Count(part, i, "[") - Count(part, i, "]")
    BY <1>1, <1>2, Zenon
  <1>5. QED
    BY <1>3, <1>4, Zenon DEF Braces, Brackets

(* Nesting at two places before which every mark of nesting occurs as often. *)
LEMMA SameNesting ==
  ASSUME NEW s, NEW i, NEW j, \A token : token # "|" => Count(s, i, token) = Count(s, j, token)
  PROVE  Braces(s, i) = Braces(s, j) /\ Brackets(s, i) = Brackets(s, j)
  <1>1. /\ Count(s, i, "{") = Count(s, j, "{") /\ Count(s, i, "}") = Count(s, j, "}")
        /\ Count(s, i, "[") = Count(s, j, "[") /\ Count(s, i, "]") = Count(s, j, "]")
    OBVIOUS
  <1>2. QED
    BY <1>1, Zenon DEF Braces, Brackets

(* Outside of any nesting at the start of the text, and after a cut. *)
LEMMA OutsideFirst ==
  ASSUME NEW s
  PROVE  Braces(s, 1) = 0 /\ Brackets(s, 1) = 0
  <1>1. ASSUME NEW token PROVE Count(s, 1, token) = 0
    <2> DEFINE W == {j \in 1..(1 - 1) : s[j] = token}
    <2>1. W = {}
      OBVIOUS
    <2>2. Count(s, 1, token) = Cardinality(W)
      BY DEF Count
    <2> HIDE DEF W
    <2>3. Cardinality(W) = 0
      BY <2>1, FS_EmptySet
    <2>4. QED
      BY <2>2, <2>3
  <1>2. /\ Count(s, 1, "{") = 0 /\ Count(s, 1, "}") = 0 /\ Count(s, 1, "[") = 0 /\ Count(s, 1, "]") = 0
    BY <1>1
  <1>3. Braces(s, 1) = 0
    BY <1>2, NoBalance, Zenon DEF Braces
  <1>4. Brackets(s, 1) = 0
    BY <1>2, NoBalance, Zenon DEF Brackets
  <1>5. QED
    BY <1>3, <1>4

(* What does not stand at a place is counted as often up to it and past it. *)
LEMMA PassedBy ==
  ASSUME NEW s, NEW a \in Nat, NEW token, s[a] # token
  PROVE  Count(s, a + 1, token) = Count(s, a, token)
  <1> DEFINE V == {j \in 1..(a + 1 - 1) : s[j] = token}
             W == {j \in 1..(a - 1) : s[j] = token}
  <1>1. V = W
    OBVIOUS
  <1> HIDE DEF V, W
  <1>2. Count(s, a + 1, token) = Cardinality(V) /\ Count(s, a, token) = Cardinality(W)
    BY DEF Count, V, W
  <1>3. QED
    BY <1>1, <1>2

LEMMA OutsideAfter ==
  ASSUME NEW body, Len(body) \in Nat, NEW a \in Cuts(body)
  PROVE  Braces(body, a + 1) = 0 /\ Brackets(body, a + 1) = 0
  <1>1. a \in 1..Len(body) /\ body[a] = "|" /\ Braces(body, a) = 0 /\ Brackets(body, a) = 0
    BY Zenon DEF Cuts
  <1>2. a \in Nat
    BY <1>1
  <1>3. ASSUME NEW token, token # "|" PROVE Count(body, a + 1, token) = Count(body, a, token)
    BY <1>1, <1>2, <1>3, PassedBy, Zenon
  <1>4. Braces(body, a + 1) = Braces(body, a) /\ Brackets(body, a + 1) = Brackets(body, a)
    BY <1>3, SameNesting, Zenon
  <1>5. QED
    BY <1>1, <1>4, Zenon

(* The texts between places of s: the n-th of them lies between two places, next to each other,
   of those where s is cut or ends. *)
CutText(s, cuts, n, a, b) ==
    /\ a \in {0} \cup cuts /\ b \in cuts \cup {Len(s) + 1} /\ a < b
    /\ SplitAt(s, cuts)[n] = SubSeq(s, a + 1, b - 1)
    /\ \A c \in cuts : ~(a < c /\ c < b)
    /\ n # Cardinality(cuts \cup {Len(s) + 1}) => b \in cuts

LEMMA Pieces ==
  ASSUME NEW S, NEW s \in Seq(S), NEW cuts \in SUBSET (1..Len(s))
  PROVE  /\ DOMAIN SplitAt(s, cuts) = 1..Cardinality(cuts \cup {Len(s) + 1})
         /\ Cardinality(cuts \cup {Len(s) + 1}) \in Nat
         /\ \A n \in DOMAIN SplitAt(s, cuts) : \E a, b : CutText(s, cuts, n, a, b)
  <1> DEFINE I == cuts \cup {Len(s) + 1}
             at == Upwards(I)
             k == Cardinality(I)
  <1>0. Len(s) \in Nat
    OBVIOUS
  <1>4. \A c \in cuts : c \in 1..Len(s)
    OBVIOUS
  <1>8. \A i \in I : i \in 1..(Len(s) + 1) /\ (i # Len(s) + 1 => i \in cuts)
    BY <1>0, <1>4
  <1>1. IsFiniteSet(I) /\ I \subseteq Int
    <2>1. 1 \in Int /\ Len(s) \in Int
      BY <1>0
    <2>2. IsFiniteSet(1..Len(s))
      BY <2>1, FS_Interval
    <2>3. IsFiniteSet(cuts)
      BY <2>2, FS_Subset
    <2>4. IsFiniteSet(I)
      BY <2>3, FS_AddElement
    <2>5. ASSUME NEW i \in I PROVE i \in Int
      <3>1. i \in 1..(Len(s) + 1)
        BY <1>8
      <3>2. QED
        BY <1>0, <3>1
    <2>6. QED
      BY <2>4, <2>5
  <1>2. SplitAt(s, cuts) = [n \in DOMAIN at |-> SubSeq(s, IF n = 1 THEN 1 ELSE at[n - 1] + 1, at[n] - 1)]
    BY DEF SplitAt, Ordered, Upwards
  <1> HIDE DEF I, at
  <1>3. /\ k \in Nat /\ at \in [1..k -> I]
        /\ \A i \in I : \E n \in 1..k : at[n] = i
        /\ \A m, n \in 1..k : m < n => at[m] < at[n]
    BY <1>1, UpwardsIs DEF at
  <1> HIDE DEF k
  <1>5. DOMAIN SplitAt(s, cuts) = 1..k
    BY <1>2, <1>3
  <1>6. ASSUME NEW n \in 1..k
        PROVE  \E a, b : CutText(s, cuts, n, a, b)
    <2> DEFINE a == IF n = 1 THEN 0 ELSE at[n - 1]
               b == at[n]
    <2>1. n # 1 => n - 1 \in 1..k /\ n - 1 < n /\ a = at[n - 1]
      BY <1>3
    <2>2. b \in I /\ b \in Int
      BY <1>1, <1>3
    <2>3. n # 1 => a \in I /\ a < b /\ a \in Int
      BY <1>1, <1>3, <2>1
    <2> HIDE DEF a
    <2>4. 1 <= b /\ b <= Len(s) + 1
      BY <1>0, <1>8, <2>2
    <2>5. n # 1 => a \in cuts
      BY <1>0, <1>8, <2>2, <2>3, <2>4
    <2>6. a \in {0} \cup cuts /\ a < b /\ a \in Nat
      <3>1. n = 1 => a = 0
        BY DEF a
      <3>2. QED
        BY <1>0, <1>4, <2>2, <2>3, <2>4, <2>5, <3>1
    <2>7. SplitAt(s, cuts)[n] = SubSeq(s, a + 1, b - 1)
      <3>1. n \in DOMAIN at
        BY <1>3
      <3>2. SplitAt(s, cuts)[n] = SubSeq(s, IF n = 1 THEN 1 ELSE at[n - 1] + 1, at[n] - 1)
        BY <1>2, <3>1
      <3>3. (IF n = 1 THEN 1 ELSE at[n - 1] + 1) = a + 1
        BY DEF a
      <3>4. QED
        BY <3>2, <3>3
    <2>8. ASSUME NEW c \in cuts, a < c, c < b PROVE FALSE
      <3>1. PICK m \in 1..k : at[m] = c
        BY <1>3 DEF I
      <3>2. c \in Int
        BY <1>0, <1>4
      <3>3. ~(n < m) /\ m # n
        BY <1>1, <1>3, <2>2, <2>8, <3>1, <3>2
      <3>4. n # 1 /\ m <= n - 1
        BY <3>3
      <3>5. c <= a
        BY <1>3, <2>1, <2>3, <3>1, <3>2, <3>4
      <3>6. QED
        BY <2>6, <2>8, <3>2, <3>5
    <2>9. ASSUME n # k PROVE b \in cuts
      <3>1. n + 1 \in 1..k /\ n < n + 1
        BY <1>3, <2>9
      <3>2. b < at[n + 1] /\ at[n + 1] \in I
        BY <1>3, <3>1
      <3>3. at[n + 1] <= Len(s) + 1
        BY <1>0, <1>8, <3>2
      <3>4. at[n + 1] \in Int
        BY <1>1, <3>2
      <3>5. b # Len(s) + 1
        BY <1>0, <2>2, <3>2, <3>3, <3>4
      <3>6. QED
        BY <1>8, <2>2, <3>5
    <2>10. b \in cuts \cup {Len(s) + 1}
      BY <2>2 DEF I
    <2> HIDE DEF b
    <2>11. CutText(s, cuts, n, a, b)
      BY <2>6, <2>7, <2>8, <2>9, <2>10, Zenon DEF CutText, I, k
    <2>12. QED
      BY <2>11
  <1>7. QED
    BY <1>3, <1>5, <1>6 DEF I, k

(* splitTopLevel cuts at the pipes outside of any nesting and nowhere else, in a text of any
   length: no part holds such a pipe, nesting that a part opens it closes before the next
   (only the last can end inside one), and a part that is split again comes back whole. *)
THEOREM PartsAreWhole ==
  ASSUME NEW S, NEW body \in Seq(S), NEW n \in DOMAIN splitTopLevel(body)
  PROVE  LET part == splitTopLevel(body)[n]
         IN  /\ part \in Seq(S) /\ Cuts(part) = {}
             /\ n < Len(splitTopLevel(body)) => /\ Braces(part, Len(part) + 1) = 0
                                                /\ Brackets(part, Len(part) + 1) = 0
             /\ splitTopLevel(part) = <<part>>
  <1> DEFINE part == splitTopLevel(body)[n]
             k == Cardinality(Cuts(body) \cup {Len(body) + 1})
  <1>1. splitTopLevel(body) = SplitAt(body, Cuts(body)) /\ splitTopLevel(part) = SplitAt(part, Cuts(part))
    BY Zenon DEF splitTopLevel, Cuts
  <1> HIDE DEF part
  <1>2. Cuts(body) \in SUBSET (1..Len(body)) /\ Len(body) \in Nat
    <2>1. Cuts(body) \in SUBSET (1..Len(body))
      BY Zenon DEF Cuts
    <2>2. QED
      BY <2>1
  <1>3. /\ DOMAIN splitTopLevel(body) = 1..k /\ k \in Nat
        /\ \E a, b : CutText(body, Cuts(body), n, a, b)
    BY <1>1, <1>2, Pieces
  <1> HIDE DEF k
  <1>4. PICK a, b : CutText(body, Cuts(body), n, a, b)
    BY <1>3
  <1>5. /\ a \in {0} \cup Cuts(body) /\ b \in Cuts(body) \cup {Len(body) + 1} /\ a < b
        /\ part = SubSeq(body, a + 1, b - 1)
        /\ \A c \in Cuts(body) : ~(a < c /\ c < b)
        /\ n # k => b \in Cuts(body)
    BY <1>1, <1>4, Zenon DEF CutText, part, k
  <1>6. a \in Nat /\ b \in Nat /\ b - 1 \in Nat /\ a <= b - 1 /\ b - 1 <= Len(body)
    BY <1>2, <1>5
  <1>7. part \in Seq(S) /\ Len(part) = b - 1 - a /\ Piece(S, body, a, b - 1, part)
    <2>1. part = [j \in 1..(b - 1 - a) |-> body[a + j]]
      BY <1>5, <1>6
    <2>2. ASSUME NEW j \in 1..(b - 1 - a) PROVE a + j \in 1..Len(body) /\ body[a + j] \in S
      BY <1>6
    <2>3. part \in [1..(b - 1 - a) -> S]
      BY <2>1, <2>2
    <2>4. \A j \in 1..(b - 1 - a) : part[j] = body[a + j]
      BY <2>1
    <2>5. part \in Seq(S) /\ Len(part) = b - 1 - a
      BY <1>6, <2>3
    <2>6. QED
      BY <1>6, <2>3, <2>4, <2>5 DEF Piece
  <1>8. Braces(body, a + 1) = 0 /\ Brackets(body, a + 1) = 0
    <2>1. CASE a = 0
      <3>1. a + 1 = 1
        BY <2>1
      <3>2. QED
        BY <3>1, OutsideFirst
    <2>2. CASE a \in Cuts(body)
      BY <1>2, <2>2, OutsideAfter
    <2>3. QED
      BY <1>5, <2>1, <2>2
  <1>9. \A i \in 1..(b - a) : Braces(body, a + i) = Braces(part, i) /\ Brackets(body, a + i) = Brackets(part, i)
    <2>1. ASSUME NEW i \in 1..(b - a)
          PROVE  Braces(body, a + i) = Braces(part, i) /\ Brackets(body, a + i) = Brackets(part, i)
      <3>1. i \in 1..(b - 1 - a + 1)
        BY <1>6
      <3>2. QED
        BY <1>7, <1>8, <3>1, NestingIn
    <2>2. QED
      BY <2>1
  <1>10. Cuts(part) = {}
    <2>1. ASSUME NEW c \in Cuts(part) PROVE FALSE
      <3>1. c \in 1..Len(part) /\ part[c] = "|" /\ Braces(part, c) = 0 /\ Brackets(part, c) = 0
        BY <2>1, Zenon DEF Cuts
      <3>2. c \in 1..Len(part) /\ Braces(part, c) = 0 /\ Brackets(part, c) = 0
        BY <3>1, Zenon
      <3>3. c \in 1..(b - 1 - a) /\ c \in 1..(b - a) /\ a + c \in 1..Len(body) /\ a < a + c /\ a + c < b
        BY <1>6, <1>7, <3>2
      <3>4. body[a + c] = part[c]
        BY <1>7, <3>3 DEF Piece
      <3>5. Braces(body, a + c) = 0 /\ Brackets(body, a + c) = 0
        BY <1>9, <3>2, <3>3
      <3>6. a + c \in Cuts(body)
        BY <3>1, <3>3, <3>4, <3>5, Zenon DEF Cuts
      <3>7. QED
        BY <1>5, <3>3, <3>6
    <2>2. QED
      BY <2>1
  <1>11. ASSUME n < Len(splitTopLevel(body))
         PROVE  Braces(part, Len(part) + 1) = 0 /\ Brackets(part, Len(part) + 1) = 0
    <2>1. Len(splitTopLevel(body)) = k
      <3>1. splitTopLevel(body) = [m \in 1..k |-> splitTopLevel(body)[m]]
        BY <1>1, <1>3 DEF SplitAt, Ordered
      <3>2. QED
        BY <1>3, <3>1
    <2>2. b \in Cuts(body)
      BY <1>3, <1>5, <1>11, <2>1
    <2>3. Braces(body, b) = 0 /\ Brackets(body, b) = 0
      BY <2>2, Zenon DEF Cuts
    <2>4. b - a \in 1..(b - a) /\ a + (b - a) = b /\ Len(part) + 1 = b - a
      BY <1>6, <1>7
    <2>5. QED
      BY <1>9, <2>3, <2>4
  <1>12. splitTopLevel(part) = <<part>>
    <2> DEFINE stops == Cuts(part) \cup {Len(part) + 1}
               at == Upwards(stops)
    <2>1. stops = {Len(part) + 1} /\ Len(part) + 1 \in Int
      BY <1>7, <1>10
    <2>2. splitTopLevel(part) = [m \in DOMAIN at |-> SubSeq(part, IF m = 1 THEN 1 ELSE at[m - 1] + 1, at[m] - 1)]
      BY <1>1 DEF SplitAt, Ordered, Upwards
    <2> HIDE DEF stops, at
    <2>3. Cardinality(stops) = 1 /\ IsFiniteSet(stops)
      BY <2>1, FS_Singleton
    <2>4. at \in [1..1 -> stops]
      BY <2>1, <2>3, UpwardsIs DEF at
    <2>5. DOMAIN at = {1} /\ at[1] = Len(part) + 1
      BY <2>1, <2>4
    <2>6. splitTopLevel(part) = [m \in {1} |-> SubSeq(part, 1, Len(part) + 1 - 1)]
      BY <2>2, <2>5
    <2>7. SubSeq(part, 1, Len(part) + 1 - 1) = part
      BY <1>7
    <2>8. QED
      BY <2>6, <2>7
  <1>13. QED
    BY <1>7, <1>10, <1>11, <1>12 DEF part
=============================================================================
