----------------------------- MODULE Ask_proofs -----------------------------
(***************************************************************************)
(* Proofs about Ask: what the user is shown agrees with what was charged,  *)
(* and the limiter, the quota and the breaker are overshot by no more than *)
(* what can be under way.                                                  *)
(***************************************************************************)
EXTENDS Ask, Integers, FiniteSets, FiniteSetTheorems, NaturalsInduction, WellFoundedInduction, TLAPS

(* How many there can be: what one step adds to a finite set and takes from it. *)

(* A part of a finite set is finite and no larger. *)
LEMMA PartOf ==
  ASSUME NEW S, IsFiniteSet(S), NEW T, T \subseteq S
  PROVE  /\ IsFiniteSet(T) /\ Cardinality(T) \in Nat
         /\ Cardinality(S) \in Nat /\ Cardinality(T) <= Cardinality(S)
  <1>1. IsFiniteSet(T) /\ Cardinality(T) <= Cardinality(S)
    BY FS_Subset
  <1>2. QED
    BY <1>1, FS_CardinalityType

(* What loses an element counts one less. *)
LEMMA OneLess ==
  ASSUME NEW S, IsFiniteSet(S), NEW x \in S, NEW T, T \subseteq S \ {x}
  PROVE  /\ IsFiniteSet(T) /\ Cardinality(T) \in Nat
         /\ Cardinality(S) \in Nat /\ Cardinality(T) <= Cardinality(S) - 1
  <1>1. /\ IsFiniteSet(S \ {x})
        /\ Cardinality(S \ {x}) = Cardinality(S) - 1
    BY FS_RemoveElement
  <1>2. Cardinality(S) \in Nat
    BY FS_CardinalityType
  <1>3. /\ IsFiniteSet(T) /\ Cardinality(T) \in Nat
        /\ Cardinality(T) <= Cardinality(S \ {x})
    BY <1>1, PartOf
  <1>4. QED
    BY <1>1, <1>2, <1>3

(* A set of natural numbers has a least one. *)
LEMMA LeastOf ==
  ASSUME NEW S, S \subseteq Nat, S # {}
  PROVE  \E m \in S : \A k \in S : m <= k
  <1>1. IsWellFoundedOn(OpToRel(<, Nat), Nat)
    BY NatLessThanWellFounded
  <1>2. PICK m \in S : \A k \in S : ~(<<k, m>> \in OpToRel(<, Nat))
    BY <1>1, WFMin
  <1>3. \A k \in S : ~(k < m)
    BY <1>2 DEF OpToRel
  <1>4. QED
    BY <1>3

(* What division by the length of a window tells. *)
LEMMA Quotients ==
  ASSUME NEW w \in Nat, w > 0, NEW m \in Nat, NEW n \in Nat
  PROVE  /\ m \div w \in Nat /\ n \div w \in Nat /\ (n + w) \div w = (n \div w) + 1
         /\ m + w <= n => m \div w # n \div w
         /\ m <= n => m \div w <= n \div w
  <1>1. /\ m \div w \in Nat /\ m = w * (m \div w) + (m % w) /\ m % w \in 0..(w - 1)
        /\ n \div w \in Nat /\ n = w * (n \div w) + (n % w) /\ n % w \in 0..(w - 1)
    OBVIOUS
  <1>2. (n + w) \div w = (n \div w) + 1
    OBVIOUS
  <1>3. m + w <= n => m \div w # n \div w
    BY <1>1
  <1>4. ASSUME m <= n, n \div w < m \div w PROVE FALSE
    <2>1. PICK k \in Nat : m \div w = (n \div w) + 1 + k
      <3>1. (m \div w) - (n \div w) - 1 \in Nat
        BY <1>1, <1>4
      <3>2. QED
        BY <1>1, <3>1
    <2>2. w * (m \div w) = w * (n \div w) + w + w * k
      BY <1>1, <2>1
    <2>3. w * k \in Nat
      OBVIOUS
    <2>4. QED
      BY <1>1, <1>4, <2>2, <2>3
  <1>5. QED
    BY <1>1, <1>2, <1>3, <1>4

(* A finite set of natural numbers has a greatest one: it is found along a list of its members. *)
LEMMA GreatestOf ==
  ASSUME NEW S, S \subseteq Nat, S # {}, IsFiniteSet(S)
  PROVE  \E m \in S : \A k \in S : k <= m
  <1> DEFINE n == Cardinality(S)
  <1>1. n \in Nat /\ \E f : f \in Bijection(1..n, S)
    BY FS_CardinalityType, FS_NatBijection DEF ExistsBijection
  <1>2. PICK f : f \in Bijection(1..n, S)
    BY <1>1
  <1>3. f \in [1..n -> S] /\ \A s \in S : \E i \in 1..n : f[i] = s
    BY <1>2 DEF Bijection, Surjection
  <1> HIDE DEF n
  <1>3a. \A i \in 1..n : i \in Nat /\ i >= 1 /\ i <= n /\ f[i] \in Nat
    <2>1. \A i \in 1..n : f[i] \in S
      BY <1>3
    <2>2. \A i \in 1..n : i \in Nat /\ i >= 1 /\ i <= n
      BY <1>1
    <2>3. \A s \in S : s \in Nat
      OBVIOUS
    <2>4. QED
      BY <2>1, <2>2, <2>3
  <1> DEFINE Stuck == {i \in 1..n : ~\E j \in 1..i : \A k \in 1..i : f[k] <= f[j]}
  <1>4. Stuck = {}
    <2>1. SUFFICES ASSUME Stuck # {} PROVE FALSE
      OBVIOUS
    <2>2. PICK i \in Stuck : \A k \in Stuck : i <= k
      <3>1. Stuck \subseteq Nat
        BY <1>1
      <3>2. QED
        BY <2>1, <3>1, LeastOf
    <2>3. i \in 1..n /\ f[i] \in Nat /\ i \in Nat /\ i >= 1 /\ i <= n
      BY <1>3a
    <2>4. CASE i = 1
      <3>1. 1 \in 1..i /\ \A k \in 1..i : k = 1 /\ f[k] <= f[1]
        BY <1>3a, <2>3, <2>4
      <3>2. QED
        BY <3>1
    <2>5. CASE i # 1
      <3>1. i - 1 \in 1..n /\ i - 1 \notin Stuck
        <4>1. i - 1 \in 1..n
          BY <1>1, <2>3, <2>5
        <4>2. ~(i <= i - 1)
          BY <2>3
        <4>3. QED
          BY <2>2, <4>1, <4>2
      <3>2. PICK j \in 1..(i - 1) : \A k \in 1..(i - 1) : f[k] <= f[j]
        BY <3>1
      <3>3. j \in 1..i /\ i \in 1..i /\ f[j] \in Nat
        BY <1>1, <1>3a, <2>3, <3>2
      <3>4. \A k \in 1..i : k \in 1..(i - 1) \/ k = i
        BY <2>3
      <3>5. \A k \in 1..i : f[k] \in Nat
        BY <1>1, <1>3a, <2>3
      <3>6. CASE f[i] <= f[j]
        <4>1. \A k \in 1..i : f[k] <= f[j]
          BY <3>2, <3>4, <3>6
        <4>2. QED
          BY <3>3, <4>1
      <3>7. CASE ~(f[i] <= f[j])
        <4>1. \A k \in 1..i : f[k] <= f[i]
          BY <2>3, <3>2, <3>3, <3>4, <3>5, <3>7
        <4>2. QED
          BY <3>3, <4>1
      <3>8. QED
        BY <3>6, <3>7
    <2>6. QED
      BY <2>4, <2>5
  <1>5. n \in 1..n
    <2>1. PICK s : s \in S
      OBVIOUS
    <2>2. PICK i \in 1..n : f[i] = s
      BY <1>3, <2>1
    <2>3. QED
      BY <1>1, <2>2
  <1>6. PICK j \in 1..n : \A k \in 1..n : f[k] <= f[j]
    BY <1>4, <1>5
  <1>7. QED
    BY <1>3, <1>6

-----------------------------------------------------------------------------

(* The state of an ask between two awaits: it is charged at the end, and its cost is that of
   the rounds it has behind it. *)
Early == {"getTier", "aiQuestionsToday", "globalSpendToday", "deferReply"}
AskPc == Early \cup {"create", "callTool", "record", "editReply", "apologise"}
AskRow ==
    [pc : AskPc, user : Users, tier : TierNames, age : 0..Patience, round : 0..MaxRounds,
     attempt : 0..Attempts, waited : {0, 1}, tools : 0..MaxTools, cost : Nat,
     charged : BOOLEAN, lost : BOOLEAN]
Done(r) == IF r.pc = "create" THEN r.round - 1 ELSE r.round
ChargeOK(r) ==
    /\ r.charged => r.pc \in {"editReply", "apologise"}
    /\ r.pc = "editReply" => r.charged
    /\ r.pc = "apologise" => (r.charged => r.lost)
RowOK(r) ==
    /\ r \in AskRow
    /\ r.pc = "create" => r.round # 0
    /\ r.cost <= MaxCost * Done(r)
    /\ ChargeOK(r)

TierOK == tier \in [Users -> TierNames]
CallsOK ==
    /\ call = [c \in Calls |-> call[c]]
    /\ \A c \in Calls : call[c] = None \/ RowOK(call[c])

(* The sizes, one by one. *)
LEMMA Sizes ==
    /\ RateMax \in Nat /\ RateWindow \in Nat /\ MaxRounds \in Nat /\ Attempts \in Nat /\ Cap \in Nat
    /\ RateMax > 0 /\ RateWindow > 0 /\ MaxRounds > 0 /\ Attempts > 0 /\ Cap > 0
    /\ MaxTools \in Nat /\ MaxCost \in Nat /\ MaxBackground \in Nat /\ Patience \in Nat
  BY BoundsAssumption

(* What some responses cost at most. *)
LEMMA Costs ==
  ASSUME NEW m \in Nat, NEW n \in Nat
  PROVE  /\ MaxCost * n \in Nat /\ MaxCost * 0 = 0 /\ MaxCost * (n + 1) = MaxCost * n + MaxCost
         /\ MaxCost * (m + n) = MaxCost * m + MaxCost * n
         /\ m <= n => MaxCost * m <= MaxCost * n
  <1>1. MaxCost \in Nat
    BY Sizes
  <1>2. MaxCost * n \in Nat /\ MaxCost * 0 = 0 /\ MaxCost * (n + 1) = MaxCost * n + MaxCost
    BY <1>1
  <1>3. MaxCost * (m + n) = MaxCost * m + MaxCost * n
    BY <1>1
  <1>4. ASSUME m <= n PROVE MaxCost * m <= MaxCost * n
    <2>1. n - m \in Nat /\ n = m + (n - m)
      BY <1>4
    <2>2. MaxCost * n = MaxCost * m + MaxCost * (n - m)
      BY <1>1, <2>1
    <2>3. MaxCost * m \in Nat /\ MaxCost * (n - m) \in Nat
      BY <1>1, <2>1
    <2>4. QED
      BY <2>2, <2>3
  <1>5. QED
    BY <1>2, <1>3, <1>4

(* An ask in flight has a row, and a free slot has none. *)
LEMMA InFlightRows ==
  ASSUME CallsOK, NEW c \in Calls
  PROVE  /\ c \in InFlight <=> call[c] # None
         /\ c \in InFlight <=> call[c].pc # "none"
         /\ c \in InFlight => RowOK(call[c])
  <1>1. None.pc = "none"
    BY DEF None
  <1>2. RowOK(call[c]) => call[c].pc # "none"
    BY DEF RowOK, AskRow, AskPc, Early
  <1>3. QED
    BY <1>1, <1>2 DEF InFlight, CallsOK

(* A step rewrites the state of one slot. *)
LEMMA Moved ==
  ASSUME CallsOK, NEW c \in Calls, NEW new, call' = [call EXCEPT ![c] = new]
  PROVE  /\ call' = [d \in Calls |-> IF d = c THEN new ELSE call[d]]
         /\ call'[c] = new /\ \A d \in Calls \ {c} : call'[d] = call[d]
  BY DEF CallsOK

LEMMA MovedOK ==
  ASSUME CallsOK, NEW c \in Calls, NEW new, call' = [call EXCEPT ![c] = new],
         new = None \/ RowOK(new)
  PROVE  CallsOK'
  <1>1. call' = [d \in Calls |-> IF d = c THEN new ELSE call[d]]
    BY Moved
  <1>2. QED
    BY <1>1 DEF CallsOK

-----------------------------------------------------------------------------
(* The asks that will be charged, the free ones of which the breaker has admitted. *)
ToPay == {"deferReply", "create", "callTool", "record"}
ToCharge == ToPay \cup {"globalSpendToday"}

(* What a step may make of the row of an ask. *)
Goes(r, new) ==
    new = None \/ (RowOK(new) /\ new.user = r.user /\ new.age = r.age)
Stays(r, new) ==
    \/ new = None
    \/ /\ new.pc \in ToCharge => r.pc \in ToCharge
       /\ new.pc \in ToPay => r.pc \in ToPay /\ new.tier = r.tier

(* The steps that charge an ask: what they make of its row, the reply arrived or lost. *)
PaidRow(r) == [r EXCEPT !.pc = "editReply", !.charged = TRUE]
LostRow(r) == [r EXCEPT !.pc = "apologise", !.charged = TRUE, !.lost = TRUE]
Pays(c) ==
    /\ call[c].pc = "record"
    /\ Charge(c)
    /\ UNCHANGED background
    /\ \E new \in {PaidRow(call[c]), LostRow(call[c])} : call' = [call EXCEPT ![c] = new]

LEMMA RecordSteps ==
  ASSUME NEW c, recordAiQuestion(c) \/ recordFails(c)
  PROVE  Pays(c) \/ (call[c].pc = "record" /\ GoTo(c, "apologise"))
  <1>1. CASE recordAiQuestion(c)
    BY <1>1 DEF recordAiQuestion, Pays, PaidRow
  <1>2. CASE recordFails(c)
    <2>1. CASE GoTo(c, "apologise")
      BY <1>2, <2>1 DEF recordFails
    <2>2. CASE Charge(c) /\ call' = [call EXCEPT ![c].pc = "apologise", ![c].charged = TRUE, ![c].lost = TRUE]
      BY <1>2, <2>2 DEF recordFails, Pays, LostRow
    <2>3. QED
      BY <1>2, <2>1, <2>2 DEF recordFails
  <1>3. QED
    BY <1>1, <1>2

(* No other step of an ask writes the usage. *)
LEMMA StepPays ==
  ASSUME NEW c, Step(c), ~Pays(c)
  PROVE  UNCHANGED usageVars /\ UNCHANGED background
  <1>1. CASE recordAiQuestion(c)
    BY <1>1 DEF recordAiQuestion, Pays, PaidRow
  <1>2. CASE recordFails(c)
    <2>1. CASE Charge(c) /\ call' = [call EXCEPT ![c].pc = "apologise", ![c].charged = TRUE, ![c].lost = TRUE]
      BY <1>2, <2>1 DEF recordFails, Pays, LostRow
    <2>2. QED
      BY <1>2, <2>1 DEF recordFails
  <1>3. QED
    BY <1>1, <1>2, Zenon DEF Step, getTier, canAskAi, globalSpendToday, deferReply, create,
       createFails, answerToolCall, editReply, EditFails, Apologise, EarlyFailure

LEMMA PaidRows ==
  ASSUME NEW r, RowOK(r), r.pc = "record", NEW new \in {PaidRow(r), LostRow(r)}
  PROVE  /\ Goes(r, new) /\ new # None /\ new.pc \in {"editReply", "apologise"}
  <1>1. r \in AskRow /\ r.cost <= MaxCost * r.round
    BY DEF RowOK, Done
  <1>2. new \in AskRow
    BY <1>1 DEF PaidRow, LostRow, AskRow, AskPc
  <1>3. /\ new.pc \in {"editReply", "apologise"} /\ new.round = r.round /\ new.cost = r.cost
        /\ new.charged /\ (new.pc = "apologise" => new.lost) /\ new.user = r.user /\ new.age = r.age
    BY <1>1 DEF PaidRow, LostRow, AskRow
  <1>4. RowOK(new)
    BY <1>1, <1>2, <1>3 DEF RowOK, ChargeOK, Done
  <1>5. QED
    BY <1>3, <1>4 DEF Goes, RowOK, None

(* The next round of the loop is begun, or the loop is over. *)
LEMMA RoundGoes ==
  ASSUME CallsOK, NEW c \in Calls, call[c].pc \in {"deferReply", "callTool"}, NextRound(c)
  PROVE  \E new : call' = [call EXCEPT ![c] = new] /\ Goes(call[c], new) /\ Stays(call[c], new)
                  /\ new # None /\ new.pc \in {"create", "record"}
  <1> DEFINE r == call[c]
             begun == [r EXCEPT !.pc = "create", !.round = r.round + 1, !.attempt = 1,
                                !.waited = 0, !.tools = 0]
             over == [r EXCEPT !.pc = "record", !.tools = 0]
  <1>1. RowOK(r)
    BY InFlightRows
  <1>2. r \in AskRow /\ r.cost <= MaxCost * r.round /\ ~r.charged /\ r.round \in Nat
    BY <1>1, Sizes DEF RowOK, ChargeOK, Done, AskRow
  <1>3. CASE r.round < MaxRounds
    <2>1. call' = [call EXCEPT ![c] = begun]
      BY <1>3 DEF NextRound
    <2>2. begun \in AskRow
      <3>1. r.round + 1 \in 0..MaxRounds /\ 1 \in 0..Attempts /\ 0 \in 0..MaxTools /\ 0 \in {0, 1}
        BY <1>2, <1>3, Sizes
      <3>2. "create" \in AskPc
        BY DEF AskPc
      <3> HIDE DEF r
      <3>3. QED
        BY <1>2, <3>1, <3>2 DEF AskRow
    <2>3. /\ begun.pc = "create" /\ begun.round = r.round + 1 /\ begun.cost = r.cost
          /\ begun.charged = r.charged /\ begun.user = r.user /\ begun.age = r.age
          /\ begun.tier = r.tier
      BY <1>2 DEF AskRow
    <2> HIDE DEF begun
    <2>4. RowOK(begun)
      <3>1. begun.round # 0 /\ Done(begun) = r.round
        BY <1>2, <2>3 DEF Done
      <3>2. begun.cost <= MaxCost * Done(begun)
        BY <1>2, <2>3, <3>1
      <3>3. ChargeOK(begun)
        BY <1>2, <2>3 DEF ChargeOK
      <3>4. QED
        BY <2>2, <3>1, <3>2, <3>3 DEF RowOK
    <2>5. begun # None
      BY <2>3 DEF None
    <2>6. QED
      BY <2>1, <2>3, <2>4, <2>5 DEF Goes, Stays, ToPay, ToCharge
  <1>4. CASE ~(r.round < MaxRounds)
    <2>1. call' = [call EXCEPT ![c] = over]
      BY <1>4 DEF NextRound
    <2>2. over \in AskRow
      <3>1. 0 \in 0..MaxTools /\ "record" \in AskPc
        BY Sizes DEF AskPc
      <3> HIDE DEF r
      <3>2. QED
        BY <1>2, <3>1 DEF AskRow
    <2>3. /\ over.pc = "record" /\ over.round = r.round /\ over.cost = r.cost
          /\ over.charged = r.charged /\ over.user = r.user /\ over.age = r.age
          /\ over.tier = r.tier
      BY <1>2 DEF AskRow
    <2> HIDE DEF over
    <2>4. RowOK(over)
      BY <1>2, <2>2, <2>3 DEF RowOK, Done, ChargeOK
    <2>5. over # None
      BY <2>3 DEF None
    <2>6. QED
      BY <2>1, <2>3, <2>4, <2>5 DEF Goes, Stays, ToPay, ToCharge
  <1>5. QED
    BY <1>3, <1>4

(* A step that only moves an ask on, to a place that fits what it has been charged. *)
LEMMA PcGoes ==
  ASSUME NEW r, RowOK(r), ~r.charged, NEW pc \in AskPc, pc # "create", pc # "editReply",
         NEW new, new = [r EXCEPT !.pc = pc]
  PROVE  Goes(r, new) /\ new # None /\ new.pc = pc /\ new.tier = r.tier
  <1>1. r \in AskRow /\ r.cost <= MaxCost * Done(r) /\ r.round \in 0..MaxRounds
        /\ (r.pc = "create" => r.round # 0)
    BY DEF RowOK, AskRow
  <1>2. r.cost <= MaxCost * r.round
    <2>1. CASE r.pc = "create"
      <3>1. r.round \in Nat /\ r.round - 1 \in Nat /\ r.round = (r.round - 1) + 1
        BY <1>1, <2>1, Sizes
      <3>2. MaxCost * r.round = MaxCost * (r.round - 1) + MaxCost
            /\ MaxCost * (r.round - 1) \in Nat
        BY <3>1, Costs
      <3>3. r.cost <= MaxCost * (r.round - 1) /\ r.cost \in Nat
        BY <1>1, <2>1 DEF Done, AskRow
      <3>4. QED
        BY <3>2, <3>3, Sizes
    <2>2. CASE r.pc # "create"
      BY <1>1, <2>2 DEF Done
    <2>3. QED
      BY <2>1, <2>2
  <1>3. new \in AskRow
    BY <1>1 DEF AskRow
  <1>4. /\ new.pc = pc /\ new.round = r.round /\ new.cost = r.cost /\ new.charged = r.charged
        /\ new.user = r.user /\ new.age = r.age /\ new.tier = r.tier
    BY <1>1 DEF AskRow
  <1>5. ChargeOK(new)
    BY <1>4 DEF ChargeOK
  <1>6. RowOK(new)
    BY <1>2, <1>3, <1>4, <1>5 DEF RowOK, Done
  <1>7. new # None
    BY <1>4 DEF None, AskPc, Early
  <1>8. QED
    BY <1>4, <1>6, <1>7 DEF Goes

(* What the user is shown when an ask ends. *)
Shown(c) ==
    \/ call[c].pc \in Early /\ told' \in {"nothing", "refusal"}
    \/ call[c].pc = "editReply" /\ told' = "answer"
    \/ call[c].pc = "apologise" /\ told' \in {"apology", "unknown"}

LEMMA NotNone ==
  ASSUME NEW r, RowOK(r)
  PROVE  r # None
  BY DEF RowOK, AskRow, AskPc, Early, None

(* Every step of an ask ends it, or takes it on, kept by its user; only canAskAi takes one to
   where it will be charged, and only the breaker to where its cost counts. *)
LEMMA StepGoes ==
  ASSUME CallsOK, TierOK, NEW c \in Calls, Step(c)
  PROVE  /\ call[c].pc # "none"
         /\ \E new : /\ call' = [call EXCEPT ![c] = new] /\ Goes(call[c], new)
                     /\ new = None => Shown(c)
                     /\ \/ Stays(call[c], new)
                        \/ /\ canAskAi(c) /\ questions[call[c].user] < Limit[call[c].tier]
                           /\ new.pc = "globalSpendToday"
                        \/ /\ globalSpendToday(c) /\ ~CapReached(c)
                           /\ new.pc = "deferReply" /\ new.tier = call[c].tier
  <1> DEFINE r == call[c]
             Kept == \E new : /\ call' = [call EXCEPT ![c] = new] /\ Goes(r, new) /\ Stays(r, new)
                              /\ new = None => Shown(c)
  <1>1. r.pc # "none"
    BY DEF Step, getTier, canAskAi, globalSpendToday, deferReply, create, createFails, answerToolCall,
       recordAiQuestion, recordFails, editReply, EditFails, Apologise, EarlyFailure
  <1>2. RowOK(r)
    BY <1>1, InFlightRows
  <1>3. /\ r \in AskRow /\ r.cost <= MaxCost * Done(r) /\ ChargeOK(r)
        /\ r.pc = "create" => r.round # 0
    BY <1>2 DEF RowOK
  <1>4. ASSUME call' = [call EXCEPT ![c] = None], Shown(c) PROVE Kept
    BY <1>4 DEF Goes, Stays
  <1>5. CASE getTier(c)
    <2> DEFINE new == [r EXCEPT !.pc = "aiQuestionsToday", !.tier = tier[r.user]]
    <2>1. r.pc = "getTier" /\ call' = [call EXCEPT ![c] = new]
      BY <1>5 DEF getTier
    <2>2. tier[r.user] \in TierNames
      BY <1>3 DEF TierOK, AskRow
    <2>3. new \in AskRow
      BY <1>3, <2>2 DEF AskRow, AskPc, Early
    <2>4. /\ new.pc = "aiQuestionsToday" /\ new.round = r.round /\ new.cost = r.cost
          /\ new.charged = r.charged /\ new.user = r.user /\ new.age = r.age
      BY <1>3 DEF AskRow
    <2> HIDE DEF new
    <2>5. RowOK(new)
      BY <1>3, <2>1, <2>3, <2>4 DEF RowOK, ChargeOK, Done
    <2>6. Stays(r, new)
      BY <2>4 DEF Stays, ToPay, ToCharge
    <2>7. QED
      BY <1>1, <2>1, <2>4, <2>5, <2>6, NotNone DEF Goes
  <1>6. CASE canAskAi(c)
    <2>1. r.pc = "aiQuestionsToday" /\ ~r.charged
      BY <1>3, <1>6 DEF canAskAi, ChargeOK
    <2>2. CASE End(c, "refusal")
      <3>1. call' = [call EXCEPT ![c] = None] /\ Shown(c)
        BY <2>1, <2>2 DEF End, Shown, Early
      <3>2. Kept
        BY <1>4, <3>1
      <3>3. QED
        BY <1>1, <3>2
    <2>3. CASE questions[r.user] < Limit[r.tier] /\ GoTo(c, "globalSpendToday")
      <3> DEFINE new == [r EXCEPT !.pc = "globalSpendToday"]
      <3>1. "globalSpendToday" \in AskPc
        BY DEF AskPc, Early
      <3>2. call' = [call EXCEPT ![c] = new]
        BY <2>3 DEF GoTo
      <3>3. Goes(r, new) /\ new # None /\ new.pc = "globalSpendToday" /\ new.tier = r.tier
        BY <1>2, <2>1, <3>1, PcGoes
      <3> HIDE DEF new
      <3>4. QED
        BY <1>1, <1>6, <2>3, <3>2, <3>3
    <2>4. QED
      BY <1>6, <2>2, <2>3 DEF canAskAi
  <1>7. CASE globalSpendToday(c)
    <2>1. r.pc = "globalSpendToday" /\ ~r.charged
      BY <1>3, <1>7 DEF globalSpendToday, ChargeOK
    <2>2. CASE End(c, "refusal")
      <3>1. call' = [call EXCEPT ![c] = None] /\ Shown(c)
        BY <2>1, <2>2 DEF End, Shown, Early
      <3>2. Kept
        BY <1>4, <3>1
      <3>3. QED
        BY <1>1, <3>2
    <2>3. CASE ~CapReached(c) /\ GoTo(c, "deferReply")
      <3> DEFINE new == [r EXCEPT !.pc = "deferReply"]
      <3>1. "deferReply" \in AskPc
        BY DEF AskPc, Early
      <3>2. call' = [call EXCEPT ![c] = new]
        BY <2>3 DEF GoTo
      <3>3. Goes(r, new) /\ new # None /\ new.pc = "deferReply" /\ new.tier = r.tier
        BY <1>2, <2>1, <3>1, PcGoes
      <3> HIDE DEF new
      <3>4. QED
        BY <1>1, <1>7, <2>3, <3>2, <3>3
    <2>4. QED
      BY <1>7, <2>2, <2>3 DEF globalSpendToday
  <1>8. CASE deferReply(c)
    BY <1>1, <1>8, RoundGoes DEF deferReply
  <1>9. CASE create(c)
    <2>1. PICK cost \in 0..MaxCost, tools \in 0..MaxTools :
            call' = [call EXCEPT ![c].pc = IF tools = 0 THEN "record" ELSE "callTool",
                                 ![c].tools = tools, ![c].cost = call[c].cost + cost]
      BY <1>9 DEF create
    <2> DEFINE pc == IF tools = 0 THEN "record" ELSE "callTool"
               new == [r EXCEPT !.pc = pc, !.tools = tools, !.cost = r.cost + cost]
    <2>2. r.pc = "create" /\ ~r.charged
      BY <1>3, <1>9 DEF create, ChargeOK
    <2>3. call' = [call EXCEPT ![c] = new]
      BY <2>1
    <2>4. pc \in {"record", "callTool"} /\ pc \in AskPc
      BY DEF AskPc
    <2> HIDE DEF pc
    <2>5. r.cost \in Nat /\ r.cost + cost \in Nat /\ cost <= MaxCost
      BY <1>3, Sizes DEF AskRow
    <2>6. new \in AskRow
      BY <1>3, <2>4, <2>5 DEF AskRow
    <2>7. /\ new.pc = pc /\ new.round = r.round /\ new.cost = r.cost + cost /\ new.tier = r.tier
          /\ new.charged = r.charged /\ new.user = r.user /\ new.age = r.age
      BY <1>3 DEF AskRow
    <2> HIDE DEF new
    <2>8. new.cost <= MaxCost * new.round
      <3>1. r.round \in Nat /\ r.round - 1 \in Nat /\ r.round = (r.round - 1) + 1
        BY <1>3, <2>2, Sizes DEF AskRow
      <3>2. MaxCost * r.round = MaxCost * (r.round - 1) + MaxCost
            /\ MaxCost * (r.round - 1) \in Nat
        BY <3>1, Costs
      <3>3. r.cost <= MaxCost * (r.round - 1)
        BY <1>3, <2>2 DEF Done
      <3>4. QED
        BY <2>5, <2>7, <3>2, <3>3, Sizes
    <2>9. RowOK(new)
      BY <2>2, <2>4, <2>6, <2>7, <2>8 DEF RowOK, ChargeOK, Done
    <2>10. Stays(r, new)
      BY <2>2, <2>7 DEF Stays, ToPay, ToCharge
    <2>11. QED
      BY <1>1, <2>3, <2>7, <2>9, <2>10, NotNone DEF Goes
  <1>10. CASE createFails(c)
    <2>1. r.pc = "create" /\ ~r.charged
      BY <1>3, <1>10 DEF createFails, ChargeOK
    <2>2. CASE r.attempt < Attempts
               /\ call' = [call EXCEPT ![c].attempt = call[c].attempt + 1, ![c].waited = 0]
      <3> DEFINE new == [r EXCEPT !.attempt = r.attempt + 1, !.waited = 0]
      <3>1. call' = [call EXCEPT ![c] = new]
        BY <2>2
      <3>2. r.attempt + 1 \in 0..Attempts
        BY <1>3, <2>2, Sizes DEF AskRow
      <3>3. new \in AskRow
        BY <1>3, <3>2 DEF AskRow
      <3>4. /\ new.pc = r.pc /\ new.round = r.round /\ new.cost = r.cost /\ new.tier = r.tier
            /\ new.charged = r.charged /\ new.user = r.user /\ new.age = r.age
        BY <1>3 DEF AskRow
      <3> HIDE DEF new
      <3>5. RowOK(new)
        BY <1>3, <2>1, <3>3, <3>4 DEF RowOK, ChargeOK, Done
      <3>6. QED
        BY <1>1, <3>1, <3>4, <3>5, NotNone DEF Goes, Stays
    <2>3. CASE GoTo(c, "apologise")
      <3> DEFINE new == [r EXCEPT !.pc = "apologise"]
      <3>1. "apologise" \in AskPc /\ "apologise" \notin ToCharge /\ "apologise" \notin ToPay
        BY DEF AskPc, Early, ToCharge, ToPay
      <3>2. call' = [call EXCEPT ![c] = new]
        BY <2>3 DEF GoTo
      <3>3. Goes(r, new) /\ new # None /\ new.pc = "apologise"
        BY <1>2, <2>1, <3>1, PcGoes
      <3> HIDE DEF new
      <3>4. Stays(r, new)
        BY <3>1, <3>3 DEF Stays
      <3>5. QED
        BY <1>1, <3>2, <3>3, <3>4
    <2>4. QED
      BY <1>10, <2>2, <2>3 DEF createFails
  <1>11. CASE answerToolCall(c)
    <2>1. r.pc = "callTool"
      BY <1>11 DEF answerToolCall
    <2>2. CASE call[c].tools > 1
      <3> DEFINE new == [r EXCEPT !.tools = r.tools - 1]
      <3>1. call' = [call EXCEPT ![c] = new]
        BY <1>11, <2>2 DEF answerToolCall
      <3>2. r.tools - 1 \in 0..MaxTools
        BY <1>3, <2>2, Sizes DEF AskRow
      <3>3. new \in AskRow
        BY <1>3, <3>2 DEF AskRow
      <3>4. /\ new.pc = r.pc /\ new.round = r.round /\ new.cost = r.cost /\ new.tier = r.tier
            /\ new.charged = r.charged /\ new.user = r.user /\ new.age = r.age
        BY <1>3 DEF AskRow
      <3> HIDE DEF new
      <3>5. RowOK(new)
        BY <1>3, <2>1, <3>3, <3>4 DEF RowOK, ChargeOK, Done
      <3>6. QED
        BY <1>1, <3>1, <3>4, <3>5, NotNone DEF Goes, Stays
    <2>3. CASE ~(call[c].tools > 1)
      BY <1>1, <1>11, <2>1, <2>3, RoundGoes DEF answerToolCall
    <2>4. QED
      BY <2>2, <2>3
  <1>12. CASE Pays(c)
    <2>1. PICK new \in {PaidRow(r), LostRow(r)} : call' = [call EXCEPT ![c] = new]
      BY <1>12 DEF Pays
    <2>2. Goes(r, new) /\ new # None /\ new.pc \in {"editReply", "apologise"}
      BY <1>2, <1>12, PaidRows DEF Pays
    <2>3. Stays(r, new)
      BY <2>2 DEF Stays, ToPay, ToCharge
    <2>4. QED
      BY <1>1, <2>1, <2>2, <2>3
  <1>13. CASE r.pc = "record" /\ GoTo(c, "apologise")
    <2>1. r.pc = "record" /\ ~r.charged /\ call' = [call EXCEPT ![c].pc = "apologise"]
      BY <1>3, <1>13 DEF ChargeOK, GoTo
    <2> DEFINE new == [r EXCEPT !.pc = "apologise"]
    <2>2. "apologise" \in AskPc /\ "apologise" \notin ToCharge /\ "apologise" \notin ToPay
      BY DEF AskPc, Early, ToCharge, ToPay
    <2>3. Goes(r, new) /\ new # None /\ new.pc = "apologise" /\ call' = [call EXCEPT ![c] = new]
      BY <1>2, <2>1, <2>2, PcGoes
    <2> HIDE DEF new
    <2>4. Stays(r, new)
      BY <2>2, <2>3 DEF Stays
    <2>5. QED
      BY <1>1, <2>3, <2>4, NotNone
  <1>14. CASE EditFails(c)
    <2>1. CASE call[c].pc = "editReply" /\ call' = [call EXCEPT ![c].pc = "apologise", ![c].lost = TRUE]
      <3> DEFINE new == [r EXCEPT !.pc = "apologise", !.lost = TRUE]
      <3>1. call' = [call EXCEPT ![c] = new]
        BY <2>1
      <3>2. new \in AskRow
        BY <1>3 DEF AskRow, AskPc
      <3>3. /\ new.pc = "apologise" /\ new.round = r.round /\ new.cost = r.cost
            /\ new.lost /\ new.user = r.user /\ new.age = r.age
        BY <1>3 DEF AskRow
      <3> HIDE DEF new
      <3>4. RowOK(new)
        BY <1>3, <2>1, <3>2, <3>3 DEF RowOK, ChargeOK, Done
      <3>5. QED
        BY <1>1, <3>1, <3>3, <3>4, NotNone DEF Goes, Stays, ToPay, ToCharge
    <2>2. CASE call[c].pc = "apologise" /\ End(c, "unknown")
      <3>1. call' = [call EXCEPT ![c] = None] /\ Shown(c)
        BY <2>2 DEF End, Shown
      <3>2. Kept
        BY <1>4, <3>1
      <3>3. QED
        BY <1>1, <3>2
    <2>3. QED
      BY <1>14, <2>1, <2>2 DEF EditFails
  <1>15. CASE editReply(c) \/ Apologise(c) \/ EarlyFailure(c)
    <2>1. call' = [call EXCEPT ![c] = None] /\ Shown(c)
      BY <1>15 DEF editReply, Apologise, EarlyFailure, End, Shown, Early
    <2>2. Kept
      BY <1>4, <2>1
    <2>3. QED
      BY <1>1, <2>2
  <1>16. QED
    BY <1>5, <1>6, <1>7, <1>8, <1>9, <1>10, <1>11, <1>12, <1>13, <1>14, <1>15, RecordSteps DEF Step

(* A new ask has no cost and has been charged nothing. *)
LEMMA CheckGoes ==
  ASSUME CallsOK, TierOK, NEW c \in Calls, NEW u \in Users, check(c, u)
  PROVE  \E new : /\ call' = [call EXCEPT ![c] = new] /\ RowOK(new) /\ call[c].pc = "none"
                  /\ new.pc = "getTier" /\ new.user = u /\ new.age = 0
  <1> DEFINE new == [pc |-> "getTier", user |-> u, tier |-> tier[u], age |-> 0, round |-> 0,
                     attempt |-> 0, waited |-> 0, tools |-> 0, cost |-> 0, charged |-> FALSE,
                     lost |-> FALSE]
  <1>1. call' = [call EXCEPT ![c] = new] /\ call[c].pc = "none"
    BY DEF check
  <1>2. new \in AskRow
    <2>1. tier[u] \in TierNames
      BY DEF TierOK
    <2>2. /\ 0 \in 0..Patience /\ 0 \in 0..MaxRounds /\ 0 \in 0..Attempts /\ 0 \in 0..MaxTools
          /\ "getTier" \in AskPc
      BY Sizes DEF AskPc, Early
    <2>3. QED
      BY <2>1, <2>2 DEF AskRow
  <1>3. /\ new.pc = "getTier" /\ new.user = u /\ new.age = 0 /\ new.round = 0 /\ new.cost = 0
        /\ ~new.charged
    OBVIOUS
  <1> HIDE DEF new
  <1>4. 0 <= MaxCost * 0
    BY Costs
  <1>5. RowOK(new)
    BY <1>2, <1>3, <1>4 DEF RowOK, ChargeOK, Done
  <1>6. QED
    BY <1>1, <1>3, <1>5

(* Time makes the asks under way older. *)
Aged(r) == [r EXCEPT !.age = r.age + 1, !.waited = IF r.pc = "create" THEN 1 ELSE r.waited]
LEMMA AgedOK ==
  ASSUME NEW r, RowOK(r), r.age < Patience
  PROVE  /\ RowOK(Aged(r)) /\ Aged(r).pc = r.pc /\ Aged(r).user = r.user /\ Aged(r).tier = r.tier
         /\ Aged(r).age = r.age + 1 /\ Aged(r).cost = r.cost
  <1> DEFINE waited == IF r.pc = "create" THEN 1 ELSE r.waited
             new == [r EXCEPT !.age = r.age + 1, !.waited = waited]
  <1>1. r \in AskRow
    BY DEF RowOK
  <1>2. waited \in {0, 1} /\ r.age + 1 \in 0..Patience
    BY <1>1, Sizes DEF AskRow
  <1> HIDE DEF waited
  <1>3. new \in AskRow
    BY <1>1, <1>2 DEF AskRow
  <1>4. /\ new.pc = r.pc /\ new.user = r.user /\ new.tier = r.tier /\ new.round = r.round
        /\ new.age = r.age + 1 /\ new.cost = r.cost /\ new.charged = r.charged /\ new.lost = r.lost
    BY <1>1 DEF AskRow
  <1>5. Aged(r) = new
    BY DEF Aged, waited
  <1> HIDE DEF new
  <1>6. RowOK(new)
    BY <1>3, <1>4 DEF RowOK, ChargeOK, Done
  <1>7. QED
    BY <1>4, <1>5, <1>6

LEMMA TickGoes ==
  ASSUME CallsOK, Tick
  PROVE  /\ call' = [c \in Calls |-> IF c \in InFlight THEN Aged(call[c]) ELSE None]
         /\ \A c \in InFlight : RowOK(call[c]) /\ call[c].age < Patience
         /\ CallsOK'
  <1>1. call' = [c \in Calls |-> IF c \in InFlight THEN Aged(call[c]) ELSE None]
    BY Zenon DEF Tick, Aged
  <1>2. \A c \in InFlight : RowOK(call[c]) /\ call[c].age < Patience
    BY InFlightRows DEF Tick, InFlight
  <1>3. \A c \in Calls : call'[c] = None \/ RowOK(call'[c])
    BY <1>1, <1>2, AgedOK
  <1>4. QED
    BY <1>1, <1>2, <1>3 DEF CallsOK

(* What does not touch the asks. *)
LEMMA CallKept ==
  ASSUME \/ StartBackground \/ recordDistillUsage \/ Midnight
         \/ \E u \in Users : SetTier(u)
         \/ UNCHANGED vars
  PROVE  UNCHANGED call
  BY Zenon DEF StartBackground, recordDistillUsage, Midnight, SetTier, vars

(* The asks keep their type, and what they were charged fits where they are. *)
AskInv == TierOK /\ CallsOK

LEMMA InitAsk == Init => AskInv
  BY DEF Init, AskInv, TierOK, CallsOK

LEMMA NextAsk == AskInv /\ [Next]_vars => AskInv'
  <1> SUFFICES ASSUME AskInv, [Next]_vars PROVE AskInv'
    OBVIOUS
  <1>0. TierOK /\ CallsOK
    BY DEF AskInv
  <1>1. TierOK'
    <2>1. CASE \E u \in Users : SetTier(u)
      BY <1>0, <2>1 DEF SetTier, TierOK
    <2>2. CASE UNCHANGED tier
      BY <1>0, <2>2 DEF TierOK
    <2>3. (\E u \in Users : SetTier(u)) \/ UNCHANGED tier
      BY Zenon DEF Next, check, Step, getTier, canAskAi, globalSpendToday, deferReply, create,
         createFails, answerToolCall, recordAiQuestion, recordFails, editReply, EditFails, Apologise,
         EarlyFailure, StartBackground, recordDistillUsage, Midnight, Tick, Restart, vars
    <2>4. QED
      BY <2>1, <2>2, <2>3
  <1>2. CallsOK'
    <2>1. ASSUME NEW c \in Calls, NEW u \in Users, check(c, u) PROVE CallsOK'
      BY <1>0, <2>1, CheckGoes, MovedOK
    <2>2. ASSUME NEW c \in Calls, Step(c) PROVE CallsOK'
      BY <1>0, <2>2, StepGoes, MovedOK DEF Goes
    <2>3. CASE Tick
      BY <1>0, <2>3, TickGoes
    <2>4. CASE Restart
      BY <2>4 DEF Restart, CallsOK
    <2>5. CASE UNCHANGED call
      BY <1>0, <2>5 DEF CallsOK
    <2>6. QED
      BY <2>1, <2>2, <2>3, <2>4, <2>5, CallKept DEF Next
  <1>3. QED
    BY <1>1, <1>2 DEF AskInv

(* What the user is shown when an ask ends agrees with what was charged, whatever fails between
   the statement that charges it and the answer (askCommand.ts:74-97). *)
THEOREM ReplyIsCharged == Spec => ReplyMatchesCharge
  <1> DEFINE Told(c) ==
        \/ Restart
        \/ told' = "answer" /\ call[c].charged
        \/ told' \in {"nothing", "refusal"} /\ ~call[c].charged
        \/ told' = "apology" /\ (call[c].charged => call[c].lost)
        \/ told' = "unknown"
  <1>1. ASSUME AskInv, [Next]_vars, NEW c \in Calls, Ends(c)
        PROVE  Told(c)
    <2>0. CallsOK /\ RowOK(call[c]) /\ ChargeOK(call[c])
      BY <1>1, InFlightRows DEF AskInv, Ends, RowOK
    <2>1. call'[c] # call[c] /\ call[c].pc # "none" /\ call'[c].pc = "none"
      BY <1>1 DEF Ends
    <2>2. ASSUME NEW d \in Calls, NEW u \in Users, check(d, u) PROVE FALSE
      <3>1. PICK new : /\ call' = [call EXCEPT ![d] = new] /\ RowOK(new) /\ new.pc = "getTier"
                       /\ call[d].pc = "none"
        BY <1>1, <2>2, CheckGoes DEF AskInv
      <3>2. QED
        BY <2>0, <2>1, <3>1, Moved
    <2>3. CASE Tick
      <3>1. c \in InFlight
        BY <2>1 DEF InFlight
      <3>2. call'[c].pc = call[c].pc
        BY <2>0, <2>3, <3>1, TickGoes, AgedOK
      <3>3. QED
        BY <2>1, <3>2
    <2>4. ASSUME NEW d \in Calls, Step(d) PROVE Told(c)
      <3>1. PICK new : /\ call' = [call EXCEPT ![d] = new] /\ Goes(call[d], new)
                       /\ new = None => Shown(d)
        BY <1>1, <2>4, StepGoes DEF AskInv
      <3>2. d = c /\ new.pc = "none"
        BY <2>0, <2>1, <3>1, Moved
      <3>3. new = None
        BY <3>1, <3>2 DEF Goes, RowOK, AskRow, AskPc, Early
      <3>4. Shown(c)
        BY <3>1, <3>2, <3>3
      <3>5. call[c].pc \in Early => ~call[c].charged
        BY <2>0 DEF ChargeOK, Early
      <3>6. QED
        BY <2>0, <3>4, <3>5 DEF ChargeOK, Shown
    <2>5. CASE UNCHANGED call
      BY <2>1, <2>5
    <2>6. QED
      BY <1>1, <2>2, <2>3, <2>4, <2>5, CallKept DEF Next
  <1>2. AskInv /\ [Next]_vars => [\A c \in Calls : Ends(c) => Told(c)]_vars
    BY <1>1
  <1>3. QED
    BY <1>2, InitAsk, NextAsk, PTL DEF Spec, ReplyMatchesCharge

-----------------------------------------------------------------------------
(* The limiter.  Each ask was admitted into a place of the window; the place is taken again only
   once its hit has left the window, so two asks of one user that were admitted into the same
   place are a window apart. *)
Far(m, n) == m + RateWindow <= n \/ n + RateWindow <= m
Recent(c, place) ==
    /\ place \in DOMAIN hits[call[c].user]
    /\ hits[call[c].user][place] \in Nat
    /\ hits[call[c].user][place] <= call[c].age
Placed(f) ==
    /\ \A c \in InFlight : call[c].age >= RateWindow \/ Recent(c, f[c])
    /\ \A c, d \in InFlight :
        c # d /\ call[c].user = call[d].user /\ f[c] = f[d] => Far(call[c].age, call[d].age)
PlacesOK == \E f \in [Calls -> 1..RateMax] : Placed(f)

LEMMA InitPlaces == Init => PlacesOK
  <1> SUFFICES ASSUME Init PROVE PlacesOK
    OBVIOUS
  <1>1. InFlight = {}
    BY DEF Init, InFlight, None
  <1>2. [c \in Calls |-> 1] \in [Calls -> 1..RateMax]
    BY Sizes
  <1>3. Placed([c \in Calls |-> 1])
    BY <1>1 DEF Placed
  <1>4. QED
    BY <1>2, <1>3 DEF PlacesOK

(* An admitted ask takes a place that every older ask of its user has left. *)
LEMMA CheckPlaces ==
  ASSUME AskInv, PlacesOK, NEW c \in Calls, NEW u \in Users, check(c, u), hits = [v \in Users |-> hits[v]]
  PROVE  PlacesOK'
  <1>0. CallsOK /\ TierOK
    BY DEF AskInv
  <1>1. PICK f \in [Calls -> 1..RateMax] : Placed(f)
    BY DEF PlacesOK
  <1>2. PICK place \in (1..RateMax) \ DOMAIN hits[u] :
          hits' = [hits EXCEPT ![u] = With(hits[u], place, 0)]
    BY DEF check
  <1>3. PICK new : /\ call' = [call EXCEPT ![c] = new] /\ RowOK(new) /\ call[c].pc = "none"
                   /\ new.pc = "getTier" /\ new.user = u /\ new.age = 0
    BY <1>0, CheckGoes
  <1>4. call'[c] = new /\ \A d \in Calls \ {c} : call'[d] = call[d]
    BY <1>0, <1>3, Moved
  <1>5. InFlight' = InFlight \cup {c} /\ c \notin InFlight
    BY <1>3, <1>4 DEF InFlight
  <1> DEFINE g == [f EXCEPT ![c] = place]
  <1>6. g \in [Calls -> 1..RateMax] /\ g[c] = place /\ \A d \in Calls \ {c} : g[d] = f[d]
    OBVIOUS
  <1> HIDE DEF g
  <1>7. /\ hits'[u] = With(hits[u], place, 0)
        /\ \A v \in Users \ {u} : hits'[v] = hits[v]
    BY <1>2
  <1>8. \A d \in InFlight : d \in Calls /\ d # c /\ RowOK(call[d]) /\ call[d].user \in Users /\ call[d].age \in Nat
    BY <1>0, <1>5, InFlightRows, Sizes DEF InFlight, RowOK, AskRow
  <1>9. \A d \in InFlight' : call'[d].age >= RateWindow \/ Recent(d, g[d])'
    <2>1. Recent(c, g[c])'
      BY <1>3, <1>4, <1>6, <1>7 DEF Recent, With
    <2>2. ASSUME NEW d \in InFlight
          PROVE  call'[d].age >= RateWindow \/ Recent(d, g[d])'
      <3>1. d \in Calls \ {c} /\ call'[d] = call[d] /\ g[d] = f[d] /\ call[d].user \in Users
        BY <1>4, <1>6, <1>8
      <3>2. call[d].age >= RateWindow \/ Recent(d, f[d])
        BY <1>1 DEF Placed
      <3>3. Recent(d, f[d]) => Recent(d, g[d])'
        <4>1. CASE call[d].user = u
          <5>1. f[d] # place /\ f[d] \in DOMAIN hits[u] => hits'[u][f[d]] = hits[u][f[d]] /\ f[d] \in DOMAIN hits'[u]
            BY <1>7 DEF With
          <5>2. QED
            BY <1>2, <3>1, <4>1, <5>1 DEF Recent
        <4>2. CASE call[d].user # u
          BY <1>7, <3>1, <4>2 DEF Recent
        <4>3. QED
          BY <4>1, <4>2
      <3>4. QED
        BY <3>1, <3>2, <3>3
    <2>3. QED
      BY <1>5, <2>1, <2>2
  <1>10. ASSUME NEW d \in InFlight, call[d].user = u, f[d] = place
         PROVE  Far(0, call[d].age)
    <2>1. ~Recent(d, f[d])
      BY <1>2, <1>10 DEF Recent
    <2>2. call[d].age >= RateWindow
      BY <1>1, <2>1 DEF Placed
    <2>3. QED
      BY <1>8, <2>2, Sizes DEF Far
  <1>11. \A d, e \in InFlight' :
           d # e /\ call'[d].user = call'[e].user /\ g[d] = g[e] => Far(call'[d].age, call'[e].age)
    <2> SUFFICES ASSUME NEW d \in InFlight', NEW e \in InFlight', d # e,
                        call'[d].user = call'[e].user, g[d] = g[e]
                 PROVE  Far(call'[d].age, call'[e].age)
      OBVIOUS
    <2>1. CASE d = c
      <3>1. e \in InFlight /\ call'[e] = call[e] /\ g[e] = f[e]
        BY <1>4, <1>5, <1>6, <1>8, <2>1
      <3>2. Far(0, call[e].age)
        BY <1>3, <1>4, <1>6, <1>10, <2>1, <3>1
      <3>3. QED
        BY <1>3, <1>4, <2>1, <3>1, <3>2
    <2>2. CASE e = c
      <3>1. d \in InFlight /\ call'[d] = call[d] /\ g[d] = f[d]
        BY <1>4, <1>5, <1>6, <1>8, <2>2
      <3>2. Far(0, call[d].age)
        BY <1>3, <1>4, <1>6, <1>10, <2>2, <3>1
      <3>3. Far(call[d].age, 0)
        BY <3>2 DEF Far
      <3>4. QED
        BY <1>3, <1>4, <2>2, <3>1, <3>3
    <2>3. CASE d # c /\ e # c
      <3>1. /\ d \in InFlight /\ call'[d] = call[d] /\ g[d] = f[d]
            /\ e \in InFlight /\ call'[e] = call[e] /\ g[e] = f[e]
        BY <1>4, <1>5, <1>6, <1>8, <2>3
      <3>2. QED
        BY <1>1, <3>1 DEF Placed
    <2>4. QED
      BY <2>1, <2>2, <2>3
  <1>12. Placed(g)'
    BY <1>9, <1>11 DEF Placed
  <1>13. QED
    BY <1>6, <1>12 DEF PlacesOK

(* Time makes asks and hits older alike, and a hit that leaves the window is older than it. *)
LEMMA TickPlaces ==
  ASSUME AskInv, PlacesOK, Tick, hits = [v \in Users |-> hits[v]]
  PROVE  PlacesOK'
  <1>0. CallsOK /\ TierOK
    BY DEF AskInv
  <1>1. PICK f \in [Calls -> 1..RateMax] : Placed(f)
    BY DEF PlacesOK
  <1>2. /\ call' = [c \in Calls |-> IF c \in InFlight THEN Aged(call[c]) ELSE None]
        /\ \A c \in InFlight : RowOK(call[c]) /\ call[c].age < Patience
    BY <1>0, TickGoes
  <1>3. \A c \in InFlight : /\ c \in Calls /\ call'[c].pc = call[c].pc /\ call'[c].user = call[c].user
                            /\ call'[c].age = call[c].age + 1
                            /\ call[c].user \in Users /\ call[c].age \in Nat
    <2> SUFFICES ASSUME NEW c \in InFlight
                 PROVE  /\ c \in Calls /\ call'[c].pc = call[c].pc /\ call'[c].user = call[c].user
                        /\ call'[c].age = call[c].age + 1
                        /\ call[c].user \in Users /\ call[c].age \in Nat
      OBVIOUS
    <2>1. c \in Calls /\ RowOK(call[c]) /\ call[c].age < Patience
      BY <1>2 DEF InFlight
    <2>2. call'[c] = Aged(call[c])
      BY <1>2, <2>1
    <2>3. call[c].user \in Users /\ call[c].age \in Nat
      BY <2>1, Sizes DEF RowOK, AskRow
    <2>4. QED
      BY <2>1, <2>2, <2>3, AgedOK
  <1>4. InFlight' = InFlight
    BY <1>2, <1>3 DEF InFlight, None
  <1>5. hits' = [u \in Users |-> Older(hits[u])]
    BY DEF Tick
  <1>6. \A c \in InFlight' : call'[c].age >= RateWindow \/ Recent(c, f[c])'
    <2> SUFFICES ASSUME NEW c \in InFlight, ~(call'[c].age >= RateWindow)
                 PROVE  Recent(c, f[c])'
      BY <1>4
    <2>1. call[c].age + 1 < RateWindow /\ call[c].age < RateWindow
      BY <1>3, Sizes
    <2>2. Recent(c, f[c])
      BY <1>1, <1>3, <2>1, Sizes DEF Placed
    <2> DEFINE u == call[c].user
    <2>3. f[c] \in DOMAIN hits[u] /\ hits[u][f[c]] \in Nat /\ hits[u][f[c]] <= call[c].age
      BY <2>2 DEF Recent
    <2>4. hits[u][f[c]] + 1 < RateWindow
      BY <1>3, <2>1, <2>3, Sizes
    <2>5. hits'[u] = Older(hits[u])
      BY <1>3, <1>5
    <2>6. f[c] \in DOMAIN hits'[u] /\ hits'[u][f[c]] = hits[u][f[c]] + 1
      BY <2>3, <2>4, <2>5 DEF Older
    <2>7. hits'[u][f[c]] \in Nat /\ hits'[u][f[c]] <= call'[c].age
      BY <1>3, <2>3, <2>6
    <2>8. QED
      BY <1>3, <2>6, <2>7 DEF Recent
  <1>7. \A c, d \in InFlight' :
          c # d /\ call'[c].user = call'[d].user /\ f[c] = f[d] => Far(call'[c].age, call'[d].age)
    <2> SUFFICES ASSUME NEW c \in InFlight, NEW d \in InFlight, c # d,
                        call'[c].user = call'[d].user, f[c] = f[d]
                 PROVE  Far(call'[c].age, call'[d].age)
      BY <1>4
    <2>1. Far(call[c].age, call[d].age)
      BY <1>1, <1>3 DEF Placed
    <2>2. QED
      BY <1>3, <2>1, Sizes DEF Far
  <1>8. QED
    BY <1>1, <1>6, <1>7 DEF PlacesOK, Placed

(* A step of an ask keeps its place or leaves it. *)
LEMMA StepPlaces ==
  ASSUME AskInv, PlacesOK, UNCHANGED hits, NEW c \in Calls, Step(c)
  PROVE  PlacesOK'
  <1>0. CallsOK /\ TierOK
    BY DEF AskInv
  <1>1. PICK f \in [Calls -> 1..RateMax] : Placed(f)
    BY DEF PlacesOK
  <1>2. PICK new : call' = [call EXCEPT ![c] = new] /\ Goes(call[c], new)
    BY <1>0, StepGoes
  <1>3. call[c].pc # "none"
    BY <1>0, StepGoes
  <1>4. call'[c] = new /\ \A d \in Calls \ {c} : call'[d] = call[d]
    BY <1>0, <1>2, Moved
  <1>5. \A d \in InFlight' : d \in InFlight /\ call'[d].user = call[d].user /\ call'[d].age = call[d].age
    <2> SUFFICES ASSUME NEW d \in InFlight'
                 PROVE  d \in InFlight /\ call'[d].user = call[d].user /\ call'[d].age = call[d].age
      OBVIOUS
    <2>1. d \in Calls /\ call'[d].pc # "none"
      BY DEF InFlight
    <2>2. CASE d = c
      <3>1. new # None
        BY <1>4, <2>1, <2>2 DEF None
      <3>2. QED
        BY <1>2, <1>3, <1>4, <2>1, <2>2, <3>1 DEF Goes, InFlight
    <2>3. CASE d # c
      BY <1>4, <2>1, <2>3 DEF InFlight
    <2>4. QED
      BY <2>2, <2>3
  <1>6. \A d \in InFlight' : Recent(d, f[d]) => Recent(d, f[d])'
    BY <1>5 DEF Recent
  <1>7. Placed(f)'
    BY <1>1, <1>5, <1>6 DEF Placed
  <1>8. QED
    BY <1>1, <1>7 DEF PlacesOK

LEMMA NextPlaces ==
  ASSUME AskInv, PlacesOK, hits = [v \in Users |-> hits[v]], [Next]_vars
  PROVE  PlacesOK' /\ (hits = [v \in Users |-> hits[v]])'
  <1>1. ASSUME NEW c \in Calls, NEW u \in Users, check(c, u)
        PROVE  PlacesOK' /\ hits' = [v \in Users |-> hits'[v]]
    <2>1. \E new : hits' = [hits EXCEPT ![u] = new]
      BY <1>1 DEF check
    <2>2. QED
      BY <1>1, <2>1, CheckPlaces
  <1>2. CASE Tick
    BY <1>2, TickPlaces DEF Tick
  <1>3. CASE Restart
    <2>1. InFlight' = {}
      BY <1>3 DEF Restart, InFlight, None
    <2>2. PlacesOK'
      BY <2>1 DEF PlacesOK, Placed
    <2>3. QED
      BY <1>3, <2>2 DEF Restart
  <1>4. ASSUME NEW c \in Calls, Step(c)
        PROVE  PlacesOK' /\ hits' = [v \in Users |-> hits'[v]]
    <2>1. UNCHANGED hits
      BY <1>4, Zenon DEF Step, getTier, canAskAi, globalSpendToday, deferReply, create,
         createFails, answerToolCall, recordAiQuestion, recordFails, editReply, EditFails, Apologise,
         EarlyFailure
    <2>2. QED
      BY <1>4, <2>1, StepPlaces
  <1>5. CASE \/ StartBackground \/ recordDistillUsage \/ Midnight
             \/ \E u \in Users : SetTier(u)
             \/ UNCHANGED vars
    <2>1. UNCHANGED <<hits, call>>
      BY <1>5, Zenon DEF StartBackground, recordDistillUsage, Midnight, SetTier, vars
    <2>2. QED
      BY <2>1 DEF PlacesOK, Placed, Recent, InFlight
  <1>6. QED
    BY <1>1, <1>2, <1>3, <1>4, <1>5 DEF Next

(* The asks of a user: their window and place tell them apart. *)
LEMMA BurstHolds ==
  ASSUME AskInv, PlacesOK, NEW u \in Users
  PROVE  IsFiniteSet(AsksOf(u)) /\ Cardinality(AsksOf(u)) <= Burst
  <1>0. CallsOK
    BY DEF AskInv
  <1>1. PICK f \in [Calls -> 1..RateMax] : Placed(f)
    BY DEF PlacesOK
  <1> DEFINE last == Patience \div RateWindow
             Slots == (0..last) \X (1..RateMax)
             era(c) == call[c].age \div RateWindow
             g == [c \in AsksOf(u) |-> <<era(c), f[c]>>]
  <1>2. \A c \in AsksOf(u) : /\ c \in InFlight /\ c \in Calls /\ call[c].user = u
                             /\ call[c].age \in Nat /\ call[c].age <= Patience
    BY <1>0, InFlightRows, Sizes DEF AsksOf, InFlight, RowOK, AskRow
  <1>3. last \in Nat /\ (Patience + RateWindow) \div RateWindow = last + 1
    BY Sizes, Quotients
  <1>4. \A c \in AsksOf(u) : era(c) \in 0..last
    BY <1>2, <1>3, Sizes, Quotients, SMTT(20)
  <1>5. \A c, d \in AsksOf(u) : c # d => g[c] # g[d]
    <2> SUFFICES ASSUME NEW c \in AsksOf(u), NEW d \in AsksOf(u), c # d, f[c] = f[d]
                 PROVE  era(c) # era(d)
      OBVIOUS
    <2>1. Far(call[c].age, call[d].age)
      BY <1>1, <1>2 DEF Placed
    <2>2. QED
      BY <1>2, <2>1, Sizes, Quotients DEF Far
  <1> HIDE DEF era
  <1>6. g \in Injection(AsksOf(u), Slots)
    <2>1. g \in [AsksOf(u) -> Slots]
      BY <1>2, <1>4
    <2> HIDE DEF g, Slots
    <2>2. QED
      BY <1>5, <2>1 DEF Injection, IsInjective
  <1>7. IsFiniteSet(Slots) /\ Cardinality(Slots) = (last + 1) * RateMax
    <2> HIDE DEF last
    <2>1. IsFiniteSet(0..last) /\ Cardinality(0..last) = last + 1
      BY <1>3, FS_Interval
    <2>2. IsFiniteSet(1..RateMax) /\ Cardinality(1..RateMax) = RateMax
      BY Sizes, FS_Interval
    <2>3. /\ IsFiniteSet((0..last) \X (1..RateMax))
          /\ Cardinality((0..last) \X (1..RateMax)) = Cardinality(0..last) * Cardinality(1..RateMax)
      BY <2>1, <2>2, FS_Product
    <2>4. QED
      BY <2>1, <2>2, <2>3
  <1> HIDE DEF g, Slots, last
  <1>8. IsFiniteSet(AsksOf(u)) /\ Cardinality(AsksOf(u)) <= (last + 1) * RateMax
    BY <1>6, <1>7, FS_Injection
  <1>9. QED
    BY <1>3, <1>8, Sizes DEF Burst

(* The limiter bounds how many asks of a user are under way at once: what one window admits, for
   every window an ask may last (askCommand.ts:18-36). *)
THEOREM BurstIsBounded == Spec => []BurstBounded
  <1> DEFINE Inv == AskInv /\ PlacesOK /\ hits = [v \in Users |-> hits[v]]
  <1>1. Init => Inv
    BY InitAsk, InitPlaces DEF Init
  <1>2. Inv /\ [Next]_vars => Inv'
    BY NextAsk, NextPlaces
  <1>3. Inv => BurstBounded
    BY BurstHolds DEF BurstBounded
  <1> HIDE DEF Inv
  <1>4. QED
    BY <1>1, <1>2, <1>3, PTL DEF Spec

-----------------------------------------------------------------------------
(* The asks of a user that will be charged, and what they leave of the quota: whoever is let
   past it has found it unspent, and then no more than a burst can be under way. *)
Charging(u) == {c \in AsksOf(u) : call[c].pc \in ToCharge}
QuotaLeft(u) ==
    /\ questions[u] + Cardinality(Charging(u)) < HighestLimit + Burst
    /\ Charging(u) # {} => HighestLimit > 0
QuestionsOK == questions \in [Users -> Nat]
LimiterOK == AskInv /\ PlacesOK /\ hits = [v \in Users |-> hits[v]]

(* A tier with the highest limit. *)
LEMMA Highest ==
  ASSUME NEW t \in TierNames
  PROVE  HighestLimit \in Nat /\ Limit[t] \in Nat /\ Limit[t] <= HighestLimit
  <1> DEFINE S == {Limit[s] : s \in TierNames}
  <1>1. S \subseteq Nat /\ Limit[t] \in S /\ S # {}
    BY LimitAssumption
  <1>2. Limit \in Surjection(TierNames, S)
    BY LimitAssumption DEF Surjection
  <1>3. IsFiniteSet(S)
    BY <1>2, CallsAssumption, FS_Surjection
  <1>4. \E n \in S : \A k \in S : k <= n
    BY <1>1, <1>3, GreatestOf
  <1>5. \E n \in S : \A s \in TierNames : Limit[s] <= n
    BY <1>4
  <1>6. HighestLimit \in S /\ \A s \in TierNames : Limit[s] <= HighestLimit
    BY <1>5 DEF HighestLimit
  <1>7. QED
    BY <1>1, <1>6

LEMMA BurstSize == Burst \in Nat /\ Burst > 0
  <1> DEFINE n == (Patience + RateWindow) \div RateWindow
  <1>1. n \in Nat /\ n > 0
    BY Sizes, Quotients
  <1> HIDE DEF n
  <1>2. RateMax * n \in Nat /\ RateMax * n > 0
    BY <1>1, Sizes
  <1>3. QED
    BY <1>2 DEF Burst, n

LEMMA ChargingFinite ==
  ASSUME LimiterOK, NEW u \in Users
  PROVE  /\ IsFiniteSet(Charging(u)) /\ Cardinality(Charging(u)) \in Nat
         /\ IsFiniteSet(AsksOf(u)) /\ Cardinality(AsksOf(u)) <= Burst
         /\ Cardinality(Charging(u)) <= Burst
  <1>1. Charging(u) \subseteq AsksOf(u)
    BY DEF Charging
  <1>2. IsFiniteSet(AsksOf(u)) /\ Cardinality(AsksOf(u)) <= Burst
    BY BurstHolds DEF LimiterOK
  <1>3. /\ IsFiniteSet(Charging(u)) /\ Cardinality(Charging(u)) \in Nat
        /\ Cardinality(AsksOf(u)) \in Nat /\ Cardinality(Charging(u)) <= Cardinality(AsksOf(u))
    BY <1>1, <1>2, PartOf
  <1>4. QED
    BY <1>2, <1>3, BurstSize

(* A step that lets nobody past the quota and charges nobody. *)
LEMMA NobodyPast ==
  ASSUME LimiterOK, QuestionsOK, NEW u \in Users, QuotaLeft(u),
         questions'[u] = questions[u] \/ questions'[u] = 0, Charging(u)' \subseteq Charging(u)
  PROVE  QuotaLeft(u)'
  <1>1. /\ Cardinality(Charging(u)) \in Nat /\ Cardinality(Charging(u)') \in Nat
        /\ Cardinality(Charging(u)') <= Cardinality(Charging(u))
    BY ChargingFinite, PartOf
  <1>2. Charging(u)' # {} => HighestLimit > 0
    BY DEF QuotaLeft
  <1>3. HighestLimit \in Nat
    BY Highest DEF LimiterOK, AskInv, TierOK
  <1>4. questions[u] \in Nat
    BY DEF QuestionsOK
  <1>5. questions'[u] + Cardinality(Charging(u)') < HighestLimit + Burst
    BY <1>1, <1>3, <1>4, BurstSize DEF QuotaLeft
  <1>6. QED
    BY <1>2, <1>5 DEF QuotaLeft

LEMMA StepQuota ==
  ASSUME LimiterOK, QuestionsOK, NEW c \in Calls, Step(c), NEW u \in Users, QuotaLeft(u)
  PROVE  QuotaLeft(u)'
  <1>0. AskInv /\ CallsOK /\ TierOK
    BY DEF LimiterOK, AskInv
  <1> DEFINE r == call[c]
  <1>1. PICK new : /\ call' = [call EXCEPT ![c] = new] /\ Goes(r, new)
                   /\ \/ Stays(r, new)
                      \/ /\ canAskAi(c) /\ questions[r.user] < Limit[r.tier]
                         /\ new.pc = "globalSpendToday"
                      \/ /\ globalSpendToday(c) /\ ~CapReached(c)
                         /\ new.pc = "deferReply" /\ new.tier = r.tier
    BY <1>0, StepGoes
  <1>2. r.pc # "none" /\ c \in InFlight /\ RowOK(r)
    BY <1>0, StepGoes, InFlightRows
  <1>3. call'[c] = new /\ \A d \in Calls \ {c} : call'[d] = call[d]
    BY <1>0, <1>1, Moved
  <1>4. r.user \in Users /\ r.tier \in TierNames
    BY <1>2 DEF RowOK, AskRow
  <1>5. \A d \in AsksOf(u)' : d \in AsksOf(u) /\ (d = c => new # None /\ new.pc = call'[c].pc)
    BY <1>1, <1>2, <1>3 DEF AsksOf, InFlight, Goes, None
  <1>6. CASE Stays(r, new) \/ r.user # u \/ globalSpendToday(c)
    <2>1. Charging(u)' \subseteq Charging(u)
      <3> SUFFICES ASSUME NEW d \in Charging(u)' PROVE d \in Charging(u)
        OBVIOUS
      <3>1. d \in AsksOf(u) /\ d \in AsksOf(u)' /\ call'[d].pc \in ToCharge /\ d \in Calls
        BY <1>5 DEF Charging, AsksOf, InFlight
      <3>2. CASE d = c
        <4>1. r.user = u /\ new # None /\ new.pc \in ToCharge
          BY <1>3, <1>5, <3>1, <3>2 DEF AsksOf
        <4>2. r.pc \in ToCharge
          BY <1>6, <4>1 DEF Stays, globalSpendToday, ToCharge
        <4>3. QED
          BY <3>1, <3>2, <4>2 DEF Charging
      <3>3. CASE d # c
        BY <1>3, <3>1, <3>3 DEF Charging
      <3>4. QED
        BY <3>2, <3>3
    <2>2. CASE Pays(c) /\ r.user = u
      <3>1. questions'[u] = questions[u] + 1 /\ questions[u] \in Nat
        BY <2>2 DEF Pays, Charge, QuestionsOK
      <3>2. call'[c].pc \in {"editReply", "apologise"}
        <4>1. PICK row \in {PaidRow(r), LostRow(r)} : call' = [call EXCEPT ![c] = row]
          BY <2>2 DEF Pays
        <4>2. row.pc \in {"editReply", "apologise"}
          BY <1>2, <2>2, PaidRows DEF Pays
        <4>3. QED
          BY <1>0, <4>1, <4>2, Moved
      <3>3. c \in Charging(u) /\ c \notin Charging(u)'
        BY <1>2, <2>2, <3>2 DEF Charging, AsksOf, Pays, ToCharge, ToPay
      <3>4. Charging(u)' \subseteq Charging(u) \ {c}
        BY <2>1, <3>3
      <3>5. /\ Cardinality(Charging(u)) \in Nat /\ Cardinality(Charging(u)') \in Nat
            /\ Cardinality(Charging(u)') <= Cardinality(Charging(u)) - 1
        BY <3>3, <3>4, ChargingFinite, OneLess
      <3>6. HighestLimit > 0 /\ HighestLimit \in Nat
        BY <1>4, <3>3, Highest DEF QuotaLeft
      <3>7. questions'[u] + Cardinality(Charging(u)') < HighestLimit + Burst
        BY <3>1, <3>5, <3>6, BurstSize DEF QuotaLeft
      <3>8. QED
        BY <3>6, <3>7 DEF QuotaLeft
    <2>3. CASE ~(Pays(c) /\ r.user = u)
      <3>1. questions'[u] = questions[u]
        <4>1. CASE Pays(c)
          <5>1. questions' = [questions EXCEPT ![r.user] = questions[r.user] + 1] /\ r.user # u
            BY <2>3, <4>1 DEF Pays, Charge
          <5>2. QED
            BY <1>4, <5>1 DEF QuestionsOK
        <4>2. CASE ~Pays(c)
          BY <4>2, StepPays DEF usageVars
        <4>3. QED
          BY <4>1, <4>2
      <3>2. QED
        BY <2>1, <3>1, NobodyPast
    <2>4. QED
      BY <2>2, <2>3
  <1>7. CASE canAskAi(c) /\ questions[r.user] < Limit[r.tier] /\ r.user = u
    <2>1. questions'[u] = questions[u] /\ questions[u] \in Nat
      BY <1>7 DEF canAskAi, usageVars, QuestionsOK
    <2>2. /\ HighestLimit \in Nat /\ Limit[r.tier] \in Nat /\ Limit[r.tier] <= HighestLimit
      BY <1>4, Highest
    <2>3. questions'[u] < HighestLimit
      BY <1>7, <2>1, <2>2
    <2>4. Charging(u)' \subseteq AsksOf(u)
      BY <1>5 DEF Charging
    <2>5. Cardinality(Charging(u)') \in Nat /\ Cardinality(Charging(u)') <= Burst
      <3>1. IsFiniteSet(AsksOf(u)) /\ Cardinality(AsksOf(u)) <= Burst
        BY ChargingFinite
      <3>2. /\ Cardinality(Charging(u)') \in Nat /\ Cardinality(AsksOf(u)) \in Nat
            /\ Cardinality(Charging(u)') <= Cardinality(AsksOf(u))
        BY <2>4, <3>1, PartOf
      <3>3. QED
        BY <3>1, <3>2, BurstSize
    <2>6. questions'[u] + Cardinality(Charging(u)') < HighestLimit + Burst /\ HighestLimit > 0
      BY <2>1, <2>2, <2>3, <2>5, BurstSize
    <2>7. QED
      BY <2>6 DEF QuotaLeft
  <1>8. QED
    BY <1>1, <1>6, <1>7

LEMMA NextQuota ==
  ASSUME LimiterOK, QuestionsOK, NEW u \in Users, QuotaLeft(u), [Next]_vars
  PROVE  QuotaLeft(u)'
  <1>0. AskInv /\ CallsOK /\ TierOK
    BY DEF LimiterOK, AskInv
  <1>1. ASSUME NEW c \in Calls, NEW v \in Users, check(c, v)
        PROVE  QuotaLeft(u)'
    <2>1. PICK new : call' = [call EXCEPT ![c] = new] /\ new.pc = "getTier"
      BY <1>0, <1>1, CheckGoes
    <2>2. call'[c] = new /\ \A d \in Calls \ {c} : call'[d] = call[d]
      BY <1>0, <2>1, Moved
    <2>3. Charging(u)' \subseteq Charging(u)
      BY <2>1, <2>2 DEF Charging, AsksOf, InFlight, ToCharge, ToPay
    <2>4. questions' = questions
      BY <1>1 DEF check, usageVars
    <2>5. QED
      BY <2>3, <2>4, NobodyPast
  <1>2. CASE Tick
    <2>1. \A c \in InFlight' : /\ c \in InFlight /\ call'[c].pc = call[c].pc
                               /\ call'[c].user = call[c].user
      <3> SUFFICES ASSUME NEW c \in InFlight'
                   PROVE  c \in InFlight /\ call'[c].pc = call[c].pc /\ call'[c].user = call[c].user
        OBVIOUS
      <3>1. call'[c] = IF c \in InFlight THEN Aged(call[c]) ELSE None
        BY <1>0, <1>2, TickGoes DEF InFlight
      <3>2. c \in InFlight
        BY <3>1 DEF InFlight, None
      <3>3. QED
        BY <1>0, <1>2, <3>1, <3>2, TickGoes, AgedOK
    <2>2. Charging(u)' \subseteq Charging(u)
      BY <2>1 DEF Charging, AsksOf
    <2>3. questions' = questions
      BY <1>2 DEF Tick, usageVars
    <2>4. QED
      BY <2>2, <2>3, NobodyPast
  <1>3. CASE Restart
    <2>1. Charging(u)' = {} /\ questions' = questions
      BY <1>3 DEF Restart, Charging, AsksOf, InFlight, None, usageVars
    <2>2. QED
      BY <2>1, NobodyPast
  <1>4. CASE \/ StartBackground \/ recordDistillUsage \/ Midnight
             \/ \E v \in Users : SetTier(v)
             \/ UNCHANGED vars
    <2>1. UNCHANGED call
      BY <1>4, CallKept
    <2>2. Charging(u)' = Charging(u)
      BY <2>1 DEF Charging, AsksOf, InFlight
    <2>3. questions'[u] = questions[u] \/ questions'[u] = 0
      BY <1>4 DEF StartBackground, recordDistillUsage, Midnight, SetTier, vars, usageVars
    <2>4. QED
      BY <2>2, <2>3, NobodyPast
  <1>5. QED
    BY <1>1, <1>2, <1>3, <1>4, StepQuota DEF Next

LEMMA NextQuestions == QuestionsOK /\ [Next]_vars => QuestionsOK'
  <1> SUFFICES ASSUME QuestionsOK, [Next]_vars PROVE QuestionsOK'
    OBVIOUS
  <1>1. CASE \E c \in Calls : Pays(c)
    <2>1. PICK x : questions' = [questions EXCEPT ![x] = questions[x] + 1]
      BY <1>1 DEF Pays, Charge
    <2>2. DOMAIN questions = Users /\ \A u \in Users : questions[u] \in Nat
      BY DEF QuestionsOK
    <2>3. questions' = [u \in Users |-> IF u = x THEN questions[u] + 1 ELSE questions[u]]
      BY <2>1, <2>2, Zenon DEF QuestionsOK
    <2>4. \A u \in Users : (IF u = x THEN questions[u] + 1 ELSE questions[u]) \in Nat
      BY <2>2
    <2>5. QED
      BY <2>3, <2>4, Zenon DEF QuestionsOK
  <1>2. CASE Midnight
    BY <1>2 DEF Midnight, QuestionsOK
  <1>3. CASE UNCHANGED questions
    BY <1>3 DEF QuestionsOK
  <1>4. \/ \E c \in Calls : Pays(c)
        \/ Midnight
        \/ UNCHANGED questions
    <2>1. ASSUME NEW c \in Calls, Step(c) PROVE Pays(c) \/ UNCHANGED questions
      BY <2>1, StepPays DEF usageVars
    <2>2. QED
      BY <2>1, Zenon DEF Next, check, StartBackground, recordDistillUsage, Tick, Restart, SetTier,
         vars, usageVars
  <1>5. QED
    BY <1>1, <1>2, <1>3, <1>4

LEMMA InitQuota == Init => QuestionsOK /\ \A u \in Users : QuotaLeft(u)
  <1> SUFFICES ASSUME Init, NEW u \in Users PROVE QuestionsOK /\ QuotaLeft(u)
    BY DEF Init, QuestionsOK
  <1>1. QuestionsOK /\ questions[u] = 0
    BY DEF Init, QuestionsOK
  <1>2. Charging(u) = {}
    BY DEF Init, Charging, AsksOf, InFlight, None
  <1>3. HighestLimit \in Nat
    BY Highest DEF Init
  <1>4. QED
    BY <1>1, <1>2, <1>3, BurstSize, FS_EmptySet DEF QuotaLeft

(* The quota is checked when an ask begins and charged when it ends, and is overshot by less than
   a burst, over tier changes, restarts and midnights (askCommand.ts:60-91). *)
THEOREM QuotaIsBounded == Spec => []QuotaOvershootBounded
  <1> DEFINE Inv == LimiterOK /\ QuestionsOK /\ \A u \in Users : QuotaLeft(u)
  <1>1. Init => Inv
    BY InitAsk, InitPlaces, InitQuota DEF Init, LimiterOK
  <1>2. Inv /\ [Next]_vars => Inv'
    <2> SUFFICES ASSUME Inv, [Next]_vars PROVE Inv'
      OBVIOUS
    <2>1. LimiterOK'
      BY NextAsk, NextPlaces DEF LimiterOK
    <2>2. QED
      BY <2>1, NextQuestions, NextQuota
  <1>3. Inv => QuotaOvershootBounded
    <2> SUFFICES ASSUME Inv, NEW u \in Users PROVE questions[u] < HighestLimit + Burst
      BY DEF QuotaOvershootBounded
    <2>1. Cardinality(Charging(u)) \in Nat /\ questions[u] \in Nat
      BY ChargingFinite DEF QuestionsOK
    <2>2. HighestLimit \in Nat
      BY Highest DEF LimiterOK, AskInv, TierOK
    <2>3. QED
      BY <2>1, <2>2, BurstSize DEF QuotaLeft
  <1> HIDE DEF Inv
  <1>4. QED
    BY <1>1, <1>2, <1>3, PTL DEF Spec

-----------------------------------------------------------------------------
(* The free asks past the breaker, and what they and the background may still spend: whoever is
   let past the cap has found it unspent. *)
Free == {c \in InFlight : call[c].tier = "free" /\ call[c].pc \in ToPay}
Owed(n, b) == MaxCost * (MaxRounds * n + b)
SpendTypes ==
    /\ freeSpend \in Nat /\ askSpend \in Nat /\ otherSpend \in Nat /\ background \in Nat
    /\ freeSpend <= askSpend
    /\ background <= MaxBackground
SpendLeft ==
    freeSpend + otherSpend + Owed(Cardinality(Free), background)
        < Cap + Owed(Cardinality(Calls), MaxBackground)

(* What may still be spent, for one ask or one call of the background more. *)
LEMMA OwedMore ==
  ASSUME NEW n \in Nat, NEW b \in Nat
  PROVE  /\ Owed(n, b) \in Nat
         /\ Owed(n + 1, b) = Owed(n, b) + MaxCost * MaxRounds /\ MaxCost * MaxRounds \in Nat
         /\ Owed(n, b + 1) = Owed(n, b) + MaxCost
  <1>1. /\ MaxRounds \in Nat /\ MaxCost \in Nat /\ MaxRounds * n \in Nat
        /\ MaxRounds * (n + 1) = MaxRounds * n + MaxRounds
    BY Sizes
  <1>2. MaxRounds * n + b \in Nat
    BY <1>1
  <1>3. Owed(n, b) \in Nat /\ MaxCost * MaxRounds \in Nat
    BY <1>1, <1>2, Costs DEF Owed
  <1>4. Owed(n + 1, b) = Owed(n, b) + MaxCost * MaxRounds
    <2>1. MaxRounds * (n + 1) + b = (MaxRounds * n + b) + MaxRounds
      BY <1>1
    <2>2. MaxCost * ((MaxRounds * n + b) + MaxRounds)
            = MaxCost * (MaxRounds * n + b) + MaxCost * MaxRounds
      BY <1>1, <1>2, Costs
    <2>3. QED
      BY <2>1, <2>2 DEF Owed
  <1>5. Owed(n, b + 1) = Owed(n, b) + MaxCost
    <2>1. MaxRounds * n + (b + 1) = (MaxRounds * n + b) + 1
      BY <1>1
    <2>2. MaxCost * ((MaxRounds * n + b) + 1) = MaxCost * (MaxRounds * n + b) + MaxCost
      BY <1>2, Costs
    <2>3. QED
      BY <2>1, <2>2 DEF Owed
  <1>6. QED
    BY <1>3, <1>4, <1>5

(* What may still be spent grows with the asks and with the calls of the background. *)
LEMMA OwedGrows ==
  ASSUME NEW m \in Nat, NEW n \in Nat, NEW a \in Nat, NEW b \in Nat, m <= n, a <= b
  PROVE  Owed(m, a) \in Nat /\ Owed(n, b) \in Nat /\ Owed(m, a) <= Owed(n, b)
  <1>1. MaxRounds \in Nat /\ MaxRounds * n \in Nat /\ MaxRounds * m \in Nat
    BY Sizes
  <1>2. MaxRounds * n + b \in Nat /\ MaxRounds * m + a \in Nat
    BY <1>1
  <1>3. MaxRounds * m <= MaxRounds * n
    <2>1. n - m \in Nat /\ MaxRounds * n = MaxRounds * m + MaxRounds * (n - m)
      BY <1>1
    <2>2. MaxRounds * (n - m) \in Nat
      BY <1>1, <2>1
    <2>3. QED
      BY <1>1, <2>1, <2>2
  <1>4. MaxRounds * m + a <= MaxRounds * n + b
    BY <1>1, <1>3
  <1>5. QED
    BY <1>2, <1>4, OwedMore, Costs DEF Owed

(* The free asks are some of the slots. *)
LEMMA FreeFinite ==
  /\ IsFiniteSet(Free) /\ Cardinality(Free) \in Nat
  /\ Cardinality(Calls) \in Nat /\ Cardinality(Free) <= Cardinality(Calls)
  <1>1. Free \subseteq Calls
    BY DEF Free, InFlight
  <1>2. QED
    BY <1>1, CallsAssumption, PartOf

LEMMA FreeFiniteNext ==
  /\ IsFiniteSet(Free') /\ Cardinality(Free') \in Nat
  /\ Cardinality(Calls) \in Nat /\ Cardinality(Free') <= Cardinality(Calls)
  <1>1. Free' \subseteq Calls
    BY DEF Free, InFlight
  <1>2. QED
    BY <1>1, CallsAssumption, PartOf

(* A step that spends nothing and lets nobody past the breaker. *)
LEMMA NobodyAdmitted ==
  ASSUME SpendTypes, SpendLeft, UNCHANGED <<freeSpend, otherSpend>>,
         background' \in Nat, background' <= background, Free' \subseteq Free
  PROVE  SpendLeft'
  <1>1. /\ Cardinality(Free) \in Nat /\ Cardinality(Free') \in Nat
        /\ Cardinality(Free') <= Cardinality(Free)
    BY FreeFinite, PartOf
  <1>2. background \in Nat /\ freeSpend \in Nat /\ otherSpend \in Nat
    BY DEF SpendTypes
  <1>3. /\ Owed(Cardinality(Free'), background') \in Nat /\ Owed(Cardinality(Free), background) \in Nat
        /\ Owed(Cardinality(Free'), background') <= Owed(Cardinality(Free), background)
    BY <1>1, <1>2, OwedGrows
  <1>4. Owed(Cardinality(Calls), MaxBackground) \in Nat /\ Cap \in Nat
    BY FreeFinite, OwedMore, Sizes
  <1>5. freeSpend' + otherSpend' + Owed(Cardinality(Free'), background')
            < Cap + Owed(Cardinality(Calls), MaxBackground)
    BY <1>2, <1>3, <1>4 DEF SpendLeft
  <1>6. QED
    BY <1>5 DEF SpendLeft, Owed

(* Below the cap there is room for everybody. *)
LEMMA BelowCap ==
  ASSUME SpendTypes', freeSpend' + otherSpend' < Cap
  PROVE  SpendLeft'
  <1>1. background' \in Nat /\ background' <= MaxBackground /\ freeSpend' \in Nat /\ otherSpend' \in Nat
    BY DEF SpendTypes
  <1>2. /\ Owed(Cardinality(Free'), background') \in Nat
        /\ Owed(Cardinality(Calls), MaxBackground) \in Nat
        /\ Owed(Cardinality(Free'), background') <= Owed(Cardinality(Calls), MaxBackground)
    BY <1>1, FreeFiniteNext, OwedGrows, Sizes
  <1>3. freeSpend' + otherSpend' + Owed(Cardinality(Free'), background')
            < Cap + Owed(Cardinality(Calls), MaxBackground)
    <2>1. ASSUME NEW spend \in Nat, NEW m \in Nat, NEW n \in Nat, spend < Cap, m <= n
          PROVE  spend + m < Cap + n
      BY <2>1, Sizes
    <2>2. freeSpend' + otherSpend' \in Nat
      <3>1. \A m, n \in Nat : m + n \in Nat
        BY SMT
      <3>2. QED
        BY <1>1, <3>1, Zenon
    <2>3. QED
      BY <1>2, <2>1, <2>2
  <1>4. QED
    BY <1>3 DEF SpendLeft, Owed

(* What an ask is charged: the cost of its rounds. *)
LEMMA Charged ==
  ASSUME CallsOK, SpendTypes, NEW c \in Calls, Pays(c)
  PROVE  /\ call[c].cost \in Nat /\ call[c].cost <= MaxCost * MaxRounds
         /\ SpendTypes' /\ UNCHANGED <<otherSpend, background>>
         /\ freeSpend' = IF call[c].tier = "free" THEN freeSpend + call[c].cost ELSE freeSpend
  <1>1. RowOK(call[c]) /\ call[c].pc = "record"
    BY InFlightRows DEF Pays
  <1>2. call[c].cost \in Nat /\ call[c].round \in Nat /\ call[c].round <= MaxRounds
    BY <1>1, Sizes DEF RowOK, AskRow
  <1>3. call[c].cost <= MaxCost * call[c].round
    BY <1>1 DEF RowOK, Done
  <1>4. /\ MaxCost * call[c].round \in Nat /\ MaxCost * MaxRounds \in Nat
        /\ MaxCost * call[c].round <= MaxCost * MaxRounds
    BY <1>2, Costs, Sizes
  <1>5. /\ askSpend' = askSpend + call[c].cost /\ UNCHANGED <<otherSpend, background>>
        /\ freeSpend' = IF call[c].tier = "free" THEN freeSpend + call[c].cost ELSE freeSpend
    BY DEF Pays, Charge
  <1>6. SpendTypes'
    BY <1>2, <1>5 DEF SpendTypes
  <1>7. QED
    BY <1>2, <1>3, <1>4, <1>5, <1>6

(* A step of an ask pays out of what was set aside for it, or is let past the breaker below the
   cap. *)
LEMMA StepSpend ==
  ASSUME AskInv, SpendTypes, SpendLeft, NEW c \in Calls, Step(c)
  PROVE  SpendTypes' /\ SpendLeft'
  <1>0. CallsOK /\ TierOK
    BY DEF AskInv
  <1> DEFINE r == call[c]
  <1>1. PICK new : /\ call' = [call EXCEPT ![c] = new] /\ Goes(r, new)
                   /\ \/ Stays(r, new)
                      \/ /\ canAskAi(c) /\ questions[r.user] < Limit[r.tier]
                         /\ new.pc = "globalSpendToday"
                      \/ /\ globalSpendToday(c) /\ ~CapReached(c)
                         /\ new.pc = "deferReply" /\ new.tier = r.tier
    BY <1>0, StepGoes
  <1>2. r.pc # "none" /\ c \in InFlight /\ RowOK(r)
    BY <1>0, StepGoes, InFlightRows
  <1>3. call'[c] = new /\ \A d \in Calls \ {c} : call'[d] = call[d]
    BY <1>0, <1>1, Moved
  <1>4. Free' \subseteq Free \cup {c}
    BY <1>3 DEF Free, InFlight
  <1>5. Free' \subseteq Free \/ (globalSpendToday(c) /\ ~CapReached(c) /\ r.tier = "free")
    <2>1. CASE c \notin Free'
      BY <1>4, <2>1
    <2>2. CASE c \in Free'
      <3>1. new.pc # "none" /\ new.tier = "free" /\ new.pc \in ToPay
        BY <1>3, <2>2 DEF Free, InFlight
      <3>2. new # None /\ new.pc # "globalSpendToday"
        BY <3>1 DEF None, ToPay
      <3>3. CASE Stays(r, new)
        <4>1. c \in Free
          BY <1>2, <3>1, <3>2, <3>3 DEF Stays, Free
        <4>2. QED
          BY <1>4, <4>1
      <3>4. QED
        BY <1>1, <3>1, <3>2, <3>3
    <2>3. QED
      BY <2>1, <2>2
  <1>6. CASE Pays(c)
    <2>1. /\ r.cost \in Nat /\ r.cost <= MaxCost * MaxRounds
          /\ SpendTypes' /\ UNCHANGED <<otherSpend, background>>
          /\ freeSpend' = IF r.tier = "free" THEN freeSpend + r.cost ELSE freeSpend
      BY <1>0, <1>6, Charged
    <2>2. r.pc = "record"
      BY <1>6 DEF Pays
    <2>3. Free' \subseteq Free
      BY <1>5, <2>2 DEF globalSpendToday
    <2>4. CASE r.tier # "free"
      <3>1. background' \in Nat /\ background' <= background
        BY <2>1 DEF SpendTypes
      <3>2. QED
        BY <2>1, <2>3, <2>4, <3>1, NobodyAdmitted
    <2>5. CASE r.tier = "free"
      <3>1. c \in Free
        BY <1>2, <2>2, <2>5 DEF Free, ToPay
      <3>2. c \notin Free'
        <4>1. new.pc \in {"editReply", "apologise"}
          <5>1. PICK row \in {PaidRow(r), LostRow(r)} : call' = [call EXCEPT ![c] = row]
            BY <1>6 DEF Pays
          <5>2. row.pc \in {"editReply", "apologise"}
            BY <1>2, <2>2, PaidRows
          <5>3. call'[c] = row
            BY <1>0, <5>1, Moved
          <5>4. QED
            BY <1>3, <5>2, <5>3
        <4>2. QED
          BY <1>3, <4>1 DEF Free, InFlight, None, ToPay
      <3>3. Free' \subseteq Free \ {c}
        BY <2>3, <3>2
      <3>4. /\ Cardinality(Free) \in Nat /\ Cardinality(Free') \in Nat
            /\ Cardinality(Free') <= Cardinality(Free) - 1
        BY <3>1, <3>3, FreeFinite, OneLess
      <3> DEFINE n == Cardinality(Free) - 1
      <3>5. n \in Nat /\ n + 1 = Cardinality(Free) /\ Cardinality(Free') <= n
        BY <3>4
      <3>6. /\ freeSpend \in Nat /\ otherSpend \in Nat /\ background \in Nat
            /\ freeSpend' = freeSpend + r.cost /\ otherSpend' = otherSpend /\ background' = background
        BY <2>1, <2>5 DEF SpendTypes
      <3> HIDE DEF n
      <3>7. /\ Owed(n, background) \in Nat /\ MaxCost * MaxRounds \in Nat
            /\ Owed(Cardinality(Free), background) = Owed(n, background) + MaxCost * MaxRounds
            /\ Owed(Cardinality(Free'), background) \in Nat
            /\ Owed(Cardinality(Free'), background) <= Owed(n, background)
        <4>1. background <= background
          BY <3>6
        <4>2. Owed(n, background) \in Nat /\ MaxCost * MaxRounds \in Nat
              /\ Owed(n + 1, background) = Owed(n, background) + MaxCost * MaxRounds
          BY <3>5, <3>6, OwedMore
        <4>3. /\ Owed(Cardinality(Free'), background) \in Nat
              /\ Owed(Cardinality(Free'), background) <= Owed(n, background)
          BY <3>4, <3>5, <3>6, <4>1, OwedGrows
        <4>4. QED
          BY <3>5, <4>2, <4>3
      <3>8. Owed(Cardinality(Calls), MaxBackground) \in Nat /\ Cap \in Nat
        BY FreeFinite, OwedMore, Sizes
      <3>9. freeSpend' + otherSpend' + Owed(Cardinality(Free'), background')
                < Cap + Owed(Cardinality(Calls), MaxBackground)
        <4>1. freeSpend + otherSpend + Owed(n, background) + MaxCost * MaxRounds
                < Cap + Owed(Cardinality(Calls), MaxBackground)
          BY <3>6, <3>7, <3>8 DEF SpendLeft
        <4>2. freeSpend + r.cost + otherSpend + Owed(Cardinality(Free'), background)
                <= freeSpend + otherSpend + Owed(n, background) + MaxCost * MaxRounds
          BY <2>1, <3>6, <3>7
        <4>3. QED
          BY <2>1, <3>6, <3>7, <3>8, <4>1, <4>2
      <3>10. QED
        BY <2>1, <3>9 DEF SpendLeft, Owed
    <2>6. QED
      BY <2>4, <2>5
  <1>7. CASE ~Pays(c)
    <2>1. UNCHANGED <<freeSpend, askSpend, otherSpend, background>>
      BY <1>7, StepPays DEF usageVars
    <2>2. SpendTypes'
      BY <2>1 DEF SpendTypes
    <2>3. CASE Free' \subseteq Free
      <3>1. background' \in Nat /\ background' <= background
        BY <2>1 DEF SpendTypes
      <3>2. QED
        BY <2>1, <2>2, <2>3, <3>1, NobodyAdmitted
    <2>4. CASE globalSpendToday(c) /\ ~CapReached(c) /\ r.tier = "free"
      <3>1. ~(Spend >= Cap)
        BY <2>4 DEF CapReached
      <3>2. freeSpend' + otherSpend' < Cap
        BY <2>1, <3>1, Sizes DEF SpendTypes, Spend
      <3>3. QED
        BY <2>2, <3>2, BelowCap
    <2>5. QED
      BY <1>5, <2>3, <2>4
  <1>8. QED
    BY <1>6, <1>7

(* Time, a restart, a new ask and a change of tier spend nothing; the background is started below
   the cap and pays out of what was set aside for it; midnight forgets what was spent. *)
LEMMA NextSpend ==
  ASSUME AskInv, SpendTypes, SpendLeft, [Next]_vars
  PROVE  SpendTypes' /\ SpendLeft'
  <1>0. CallsOK /\ TierOK
    BY DEF AskInv
  <1>1. ASSUME NEW c \in Calls, NEW v \in Users, check(c, v)
        PROVE  SpendTypes' /\ SpendLeft'
    <2>1. PICK new : call' = [call EXCEPT ![c] = new] /\ new.pc = "getTier"
      BY <1>0, <1>1, CheckGoes
    <2>2. call'[c] = new /\ \A d \in Calls \ {c} : call'[d] = call[d]
      BY <1>0, <2>1, Moved
    <2>3. Free' \subseteq Free
      BY <2>1, <2>2 DEF Free, InFlight, ToPay
    <2>4. UNCHANGED <<freeSpend, askSpend, otherSpend, background>>
      BY <1>1 DEF check, usageVars
    <2>5. SpendTypes' /\ background' \in Nat /\ background' <= background
      BY <2>4 DEF SpendTypes
    <2>6. QED
      BY <2>3, <2>4, <2>5, NobodyAdmitted
  <1>2. CASE Tick
    <2>1. Free' \subseteq Free
      <3> SUFFICES ASSUME NEW c \in Free' PROVE c \in Free
        OBVIOUS
      <3>1. c \in Calls /\ call'[c].pc # "none" /\ call'[c].tier = "free" /\ call'[c].pc \in ToPay
        BY DEF Free, InFlight
      <3>2. call'[c] = IF c \in InFlight THEN Aged(call[c]) ELSE None
        BY <1>0, <1>2, <3>1, TickGoes
      <3>3. c \in InFlight
        BY <3>1, <3>2 DEF None
      <3>4. call'[c].pc = call[c].pc /\ call'[c].tier = call[c].tier
        BY <1>0, <1>2, <3>2, <3>3, TickGoes, AgedOK
      <3>5. QED
        BY <3>1, <3>3, <3>4 DEF Free
    <2>2. UNCHANGED <<freeSpend, askSpend, otherSpend, background>>
      BY <1>2 DEF Tick, usageVars
    <2>3. SpendTypes' /\ background' \in Nat /\ background' <= background
      BY <2>2 DEF SpendTypes
    <2>4. QED
      BY <2>1, <2>2, <2>3, NobodyAdmitted
  <1>3. CASE Restart
    <2>1. Free' = {}
      BY <1>3 DEF Restart, Free, InFlight, None
    <2>2. UNCHANGED <<freeSpend, askSpend, otherSpend>> /\ background' = 0
      BY <1>3 DEF Restart, usageVars
    <2>3. SpendTypes' /\ background' \in Nat /\ background' <= background
      BY <2>2, Sizes DEF SpendTypes
    <2>4. QED
      BY <2>1, <2>2, <2>3, NobodyAdmitted
  <1>4. CASE StartBackground
    <2>1. /\ Spend < Cap /\ UNCHANGED <<freeSpend, askSpend, otherSpend>>
          /\ \E n \in {1, UsersPerTick} : background + n <= MaxBackground /\ background' = background + n
      BY <1>4 DEF StartBackground, usageVars
    <2>2. UsersPerTick \in Nat
      BY BoundsAssumption
    <2>3. SpendTypes'
      BY <2>1, <2>2 DEF SpendTypes
    <2>4. freeSpend' + otherSpend' < Cap
      BY <2>1, Sizes DEF SpendTypes, Spend
    <2>5. QED
      BY <2>3, <2>4, BelowCap
  <1>5. CASE recordDistillUsage
    <2>1. PICK cost \in 0..MaxCost : otherSpend' = otherSpend + cost
      BY <1>5 DEF recordDistillUsage
    <2>2. /\ background > 0 /\ background' = background - 1
          /\ UNCHANGED <<call, freeSpend, askSpend>>
      BY <1>5 DEF recordDistillUsage
    <2>3. Free' = Free
      BY <2>2 DEF Free, InFlight
    <2>4. /\ cost \in Nat /\ cost <= MaxCost /\ background' \in Nat /\ background = background' + 1
          /\ background' <= MaxBackground
      BY <2>1, <2>2, Sizes DEF SpendTypes
    <2>5. SpendTypes'
      BY <2>1, <2>2, <2>4 DEF SpendTypes
    <2>6. Cardinality(Free) \in Nat
      BY FreeFinite
    <2>7. /\ Owed(Cardinality(Free), background') \in Nat
          /\ Owed(Cardinality(Free), background) = Owed(Cardinality(Free), background') + MaxCost
      <3>1. ASSUME NEW b \in Nat
            PROVE  /\ Owed(Cardinality(Free), b) \in Nat
                   /\ Owed(Cardinality(Free), b + 1) = Owed(Cardinality(Free), b) + MaxCost
        BY <2>6, OwedMore
      <3>2. QED
        BY <2>4, <3>1
    <2>8. Owed(Cardinality(Calls), MaxBackground) \in Nat /\ Cap \in Nat /\ MaxCost \in Nat
      BY FreeFinite, OwedMore, Sizes
    <2>9. freeSpend \in Nat /\ otherSpend \in Nat
      BY DEF SpendTypes
    <2>10. freeSpend + otherSpend + Owed(Cardinality(Free), background') + MaxCost
                < Cap + Owed(Cardinality(Calls), MaxBackground)
      BY <2>7, <2>8, <2>9 DEF SpendLeft
    <2>11. freeSpend' + otherSpend' + Owed(Cardinality(Free), background')
                < Cap + Owed(Cardinality(Calls), MaxBackground)
      BY <2>1, <2>2, <2>4, <2>7, <2>8, <2>9, <2>10
    <2>12. QED
      BY <2>3, <2>5, <2>11 DEF SpendLeft, Owed
  <1>6. CASE Midnight
    <2>1. /\ freeSpend' = 0 /\ askSpend' = 0 /\ otherSpend' = 0 /\ background' = background
      BY <1>6 DEF Midnight
    <2>2. SpendTypes' /\ freeSpend' + otherSpend' < Cap
      BY <2>1, Sizes DEF SpendTypes
    <2>3. QED
      BY <2>2, BelowCap
  <1>7. CASE (\E v \in Users : SetTier(v)) \/ UNCHANGED vars
    <2>1. UNCHANGED <<call, freeSpend, askSpend, otherSpend, background>>
      BY <1>7 DEF SetTier, vars, usageVars
    <2>2. Free' = Free
      BY <2>1 DEF Free, InFlight
    <2>3. SpendTypes' /\ background' \in Nat /\ background' <= background
      BY <2>1 DEF SpendTypes
    <2>4. QED
      BY <2>1, <2>2, <2>3, NobodyAdmitted
  <1>8. QED
    BY <1>1, <1>2, <1>3, <1>4, <1>5, <1>6, <1>7, StepSpend DEF Next

(* Nothing has been spent at first. *)
LEMMA InitSpend == Init => SpendTypes /\ SpendLeft
  <1> SUFFICES ASSUME Init PROVE SpendTypes /\ SpendLeft
    OBVIOUS
  <1>1. SpendTypes /\ freeSpend = 0 /\ otherSpend = 0 /\ background = 0
    BY Sizes DEF Init, SpendTypes
  <1>2. /\ Owed(Cardinality(Free), 0) \in Nat /\ Owed(Cardinality(Calls), MaxBackground) \in Nat
        /\ Owed(Cardinality(Free), 0) <= Owed(Cardinality(Calls), MaxBackground)
    <2>1. 0 \in Nat /\ 0 <= MaxBackground /\ MaxBackground \in Nat
      BY Sizes
    <2>2. QED
      BY <2>1, FreeFinite, OwedGrows
  <1>3. QED
    BY <1>1, <1>2, Sizes DEF SpendLeft

(* The breaker is read once per ask and once per tick: what anyone but premium users spends past
   the cap is what was under way when it was reached (askCommand.ts:67-72, distillService.ts:133-149). *)
THEOREM SpendIsBounded == Spec => []SpendOvershootBounded
  <1> DEFINE Inv == AskInv /\ SpendTypes /\ SpendLeft
  <1>1. Init => Inv
    BY InitAsk, InitSpend
  <1>2. Inv /\ [Next]_vars => Inv'
    BY NextAsk, NextSpend
  <1>3. Inv => SpendOvershootBounded
    <2> SUFFICES ASSUME Inv PROVE SpendOvershootBounded
      OBVIOUS
    <2>1. /\ Owed(Cardinality(Free), background) \in Nat
          /\ Owed(Cardinality(Calls), MaxBackground) \in Nat
      BY FreeFinite, OwedMore, Sizes DEF SpendTypes
    <2>2. freeSpend + otherSpend < Cap + Owed(Cardinality(Calls), MaxBackground)
      BY <2>1, Sizes DEF SpendTypes, SpendLeft
    <2>3. QED
      BY <2>2 DEF SpendOvershootBounded, Owed
  <1> HIDE DEF Inv
  <1>4. QED
    BY <1>1, <1>2, <1>3, PTL DEF Spec
=============================================================================
