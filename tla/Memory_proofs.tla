---------------------------- MODULE Memory_proofs ----------------------------
(***************************************************************************)
(* Proofs about Memory, for every number of users, ticks and writers, every *)
(* size and every fault: whatever interleaves, the history of a fact is a  *)
(* chain of one user's facts.                                              *)
(***************************************************************************)
EXTENDS Memory, Integers, FiniteSets, FiniteSetTheorems, NaturalsInduction, WellFoundedInduction, SequenceTheorems, TLAPS

(* How many there can be: what one step adds to a finite set and takes from it. *)

(* A part of a finite set is finite and no larger. *)
LEMMA PartOf ==
  ASSUME NEW S, IsFiniteSet(S), NEW T, T \subseteq S
  PROVE  /\ IsFiniteSet(T) /\ Cardinality(T) \in Nat
         /\ Cardinality(S) \in Nat /\ Cardinality(T) <= Cardinality(S)
  <1>1. IsFiniteSet(T) /\ Cardinality(T) <= Cardinality(S)
    BY FS_Subset
  <1>2. QED
    BY <1>1, FS_CardinalityType

(* What gains at most one element counts at most one more. *)
LEMMA OneMore ==
  ASSUME NEW S, IsFiniteSet(S), NEW x, NEW T, T \subseteq S \cup {x}
  PROVE  /\ IsFiniteSet(T) /\ Cardinality(T) \in Nat
         /\ Cardinality(S) \in Nat /\ Cardinality(T) <= Cardinality(S) + 1
  <1>1. /\ IsFiniteSet(S \cup {x})
        /\ Cardinality(S \cup {x}) = IF x \in S THEN Cardinality(S) ELSE Cardinality(S) + 1
    BY FS_AddElement
  <1>2. Cardinality(S) \in Nat
    BY FS_CardinalityType
  <1>3. /\ IsFiniteSet(T) /\ Cardinality(T) \in Nat
        /\ Cardinality(T) <= Cardinality(S \cup {x})
    BY <1>1, PartOf
  <1>4. QED
    BY <1>1, <1>2, <1>3

(* What loses an element counts one less. *)
LEMMA OneLess ==
  ASSUME NEW S, IsFiniteSet(S), NEW x \in S, NEW T, T \subseteq S \ {x}
  PROVE  /\ IsFiniteSet(T) /\ Cardinality(T) \in Nat
         /\ Cardinality(S) \in Nat /\ Cardinality(T) <= Cardinality(S) - 1
  <1>1. /\ IsFiniteSet(S \ {x})
        /\ Cardinality(S \ {x}) = Cardinality(S) - 1
    BY FS_RemoveElement
  <1>2. Cardinality(S) \in Nat
    BY FS_CardinalityType
  <1>3. /\ IsFiniteSet(T) /\ Cardinality(T) \in Nat
        /\ Cardinality(T) <= Cardinality(S \ {x})
    BY <1>1, PartOf
  <1>4. QED
    BY <1>1, <1>2, <1>3

(* What exchanges an element for another counts no more. *)
LEMMA Exchanged ==
  ASSUME NEW S, IsFiniteSet(S), NEW x \in S, NEW y, NEW T, T \subseteq (S \ {x}) \cup {y}
  PROVE  /\ IsFiniteSet(T) /\ Cardinality(T) \in Nat
         /\ Cardinality(S) \in Nat /\ Cardinality(T) <= Cardinality(S)
  <1>1. /\ IsFiniteSet(S \ {x}) /\ Cardinality(S \ {x}) \in Nat
        /\ Cardinality(S) \in Nat /\ Cardinality(S \ {x}) <= Cardinality(S) - 1
    BY OneLess
  <1>2. /\ IsFiniteSet(T) /\ Cardinality(T) \in Nat
        /\ Cardinality(T) <= Cardinality(S \ {x}) + 1
    BY <1>1, OneMore
  <1>3. QED
    BY <1>1, <1>2

(* A set of natural numbers has a least one. *)
LEMMA LeastOf ==
  ASSUME NEW S, S \subseteq Nat, S # {}
  PROVE  \E m \in S : \A k \in S : m <= k
  <1>1. IsWellFoundedOn(OpToRel(<, Nat), Nat)
    BY NatLessThanWellFounded
  <1>2. PICK m \in S : \A k \in S : ~(<<k, m>> \in OpToRel(<, Nat))
    BY <1>1, WFMin
  <1>3. \A k \in S : ~(k < m)
    BY <1>2 DEF OpToRel
  <1>4. QED
    BY <1>3

-----------------------------------------------------------------------------

(* The shape of the rows of a table of facts whose last id is n. *)
IsFact(row) ==
    row \in [user : {row.user}, active : BOOLEAN,
             supersedes : {row.supersedes}, origin : {row.origin}]
WellFormed(table, n) ==
    /\ table = [f \in DOMAIN table |-> table[f]]
    /\ DOMAIN table \subseteq 1..n
    /\ \A f \in DOMAIN table : IsFact(table[f])

(* HistoryIsChain, said of any table. *)
Chain(table) ==
    /\ \A f \in DOMAIN table : table[f].supersedes # 0 =>
        /\ table[f].supersedes \in DOMAIN table
        /\ ~table[table[f].supersedes].active
        /\ table[table[f].supersedes].user = table[f].user
    /\ \A f, g \in DOMAIN table :
        table[f].supersedes = table[g].supersedes /\ table[f].supersedes # 0 => f = g

IInv == lastFact \in Nat /\ WellFormed(facts, lastFact) /\ Chain(facts)

LEMMA DeactivatedRow ==
  ASSUME NEW row, IsFact(row), NEW new, new = [row EXCEPT !.active = FALSE]
  PROVE  /\ new.user = row.user /\ new.supersedes = row.supersedes /\ new.origin = row.origin
         /\ ~new.active
         /\ IsFact(new)
  BY DEF IsFact

(* Deactivation changes nothing but one active column, to FALSE. *)
LEMMA DeactivatedRows ==
  ASSUME IInv, NEW u, NEW id
  PROVE  LET new == Deactivated(u, id)
         IN  /\ new = [f \in DOMAIN facts |-> new[f]]
             /\ \A f \in DOMAIN facts :
                /\ IsFact(new[f])
                /\ new[f].user = facts[f].user
                /\ new[f].supersedes = facts[f].supersedes
                /\ ~facts[f].active => ~new[f].active
             /\ id \in DOMAIN facts /\ facts[id].user = u => ~new[id].active
  <1>1. CASE id \in DOMAIN facts /\ facts[id].user = u
    <2>1. Deactivated(u, id) = [facts EXCEPT ![id] = [facts[id] EXCEPT !.active = FALSE]]
      BY <1>1 DEF Deactivated
    <2> DEFINE new == Deactivated(u, id)
               row == [facts[id] EXCEPT !.active = FALSE]
    <2>2. IsFact(facts[id])
      BY <1>1 DEF IInv, WellFormed
    <2>3. /\ row.user = facts[id].user /\ row.supersedes = facts[id].supersedes
          /\ ~row.active /\ IsFact(row)
      BY <2>2, DeactivatedRow
    <2> HIDE DEF row
    <2>4a. new = [facts EXCEPT ![id] = row]
      BY <2>1 DEF row
    <2> HIDE DEF new
    <2>4. new = [f \in DOMAIN facts |-> new[f]]
      BY <2>4a
    <2>5. new[id] = row /\ \A f \in DOMAIN facts \ {id} : new[f] = facts[f]
      BY <1>1, <2>4a
    <2>6. \A f \in DOMAIN facts :
            /\ IsFact(new[f])
            /\ new[f].user = facts[f].user
            /\ new[f].supersedes = facts[f].supersedes
            /\ ~facts[f].active => ~new[f].active
      <3> SUFFICES ASSUME NEW f \in DOMAIN facts
                   PROVE  /\ IsFact(new[f])
                          /\ new[f].user = facts[f].user
                          /\ new[f].supersedes = facts[f].supersedes
                          /\ ~facts[f].active => ~new[f].active
        OBVIOUS
      <3>1. CASE f = id
        BY <2>3, <2>5, <3>1
      <3>2. CASE f # id
        <4>1. new[f] = facts[f]
          BY <2>5, <3>2
        <4>2. IsFact(facts[f])
          BY DEF IInv, WellFormed
        <4>3. QED
          BY <4>1, <4>2
      <3>3. QED
        BY <3>1, <3>2
    <2>7. QED
      BY <2>3, <2>4, <2>5, <2>6 DEF new
  <1>2. CASE ~(id \in DOMAIN facts /\ facts[id].user = u)
    <2>1. Deactivated(u, id) = facts
      BY <1>2 DEF Deactivated
    <2>2. QED
      BY <1>2, <2>1 DEF IInv, WellFormed
  <1>3. QED
    BY <1>1, <1>2

LEMMA DeactivatedChain ==
  ASSUME IInv, NEW u, NEW id
  PROVE  WellFormed(Deactivated(u, id), lastFact) /\ Chain(Deactivated(u, id))
  <1> DEFINE new == Deactivated(u, id)
  <1>1. /\ new = [f \in DOMAIN facts |-> new[f]]
        /\ \A f \in DOMAIN facts :
           /\ IsFact(new[f])
           /\ new[f].user = facts[f].user
           /\ new[f].supersedes = facts[f].supersedes
           /\ ~facts[f].active => ~new[f].active
    BY DeactivatedRows
  <1> HIDE DEF new
  <1>2. DOMAIN new = DOMAIN facts
    BY <1>1
  <1>3. WellFormed(new, lastFact)
    BY <1>1, <1>2 DEF IInv, WellFormed
  <1>4. Chain(new)
    BY <1>1, <1>2 DEF IInv, Chain
  <1>5. QED
    BY <1>3, <1>4 DEF new

(* A row with a new id extends a chain if it supersedes nothing, or an inactive
   row of the same user that nothing supersedes yet. *)
LEMMA InsertedChain ==
  ASSUME NEW table, NEW n \in Nat, WellFormed(table, n), Chain(table),
         NEW row, IsFact(row),
         row.supersedes # 0 =>
            /\ row.supersedes \in DOMAIN table
            /\ ~table[row.supersedes].active
            /\ table[row.supersedes].user = row.user
            /\ \A f \in DOMAIN table : table[f].supersedes # row.supersedes
  PROVE  WellFormed(With(table, n + 1, row), n + 1) /\ Chain(With(table, n + 1, row))
  <1> DEFINE new == With(table, n + 1, row)
  <1>1. n + 1 \notin DOMAIN table
    BY DEF WellFormed
  <1>2. /\ new = [f \in DOMAIN table \cup {n + 1} |-> new[f]]
        /\ DOMAIN new = DOMAIN table \cup {n + 1}
        /\ new[n + 1] = row
        /\ \A f \in DOMAIN table : new[f] = table[f]
    BY <1>1 DEF With
  <1> HIDE DEF new
  <1>3. WellFormed(new, n + 1)
    BY <1>2 DEF WellFormed
  <1>4. ASSUME NEW f \in DOMAIN new, new[f].supersedes # 0
        PROVE  /\ new[f].supersedes \in DOMAIN new
               /\ ~new[new[f].supersedes].active
               /\ new[new[f].supersedes].user = new[f].user
    <2>1. CASE f = n + 1
      BY <1>2, <1>4, <2>1
    <2>2. CASE f \in DOMAIN table
      BY <1>2, <1>4, <2>2 DEF Chain
    <2>3. QED
      BY <1>2, <2>1, <2>2
  <1>5. ASSUME NEW f \in DOMAIN new, NEW g \in DOMAIN new,
               new[f].supersedes = new[g].supersedes, new[f].supersedes # 0
        PROVE  f = g
    <2>1. CASE f \in DOMAIN table /\ g \in DOMAIN table
      BY <1>2, <1>5, <2>1 DEF Chain
    <2>2. CASE f = n + 1 /\ g \in DOMAIN table
      BY <1>2, <1>5, <2>2
    <2>3. CASE g = n + 1 /\ f \in DOMAIN table
      BY <1>2, <1>5, <2>3
    <2>4. QED
      BY <1>2, <2>1, <2>2, <2>3
  <1>6. Chain(new)
    BY <1>4, <1>5 DEF Chain
  <1>7. QED
    BY <1>3, <1>6 DEF new
-----------------------------------------------------------------------------
LEMMA InitChain == Init => IInv
  <1> SUFFICES ASSUME Init PROVE IInv
    OBVIOUS
  <1>1. facts = << >> /\ DOMAIN facts = {} /\ lastFact = 0
    BY DEF Init
  <1>2. facts = [f \in DOMAIN facts |-> facts[f]]
    BY <1>1
  <1>3. QED
    BY <1>1, <1>2 DEF IInv, WellFormed, Chain

(* Actions that leave the facts alone. *)
LEMMA FactsUnchanged ==
  ASSUME IInv, UNCHANGED <<facts, lastFact>>
  PROVE  IInv'
  BY DEF IInv, WellFormed, IsFact, Chain

LEMMA StepChain ==
  ASSUME IInv, NEW t \in Ticks, Step(t)
  PROVE  IInv'
  <1>1. CASE deactivateFact(t)
    <2>1. PICK id \in 1..lastFact : facts' = Deactivated(User(t), id)
      BY <1>1 DEF deactivateFact
    <2>2. lastFact' = lastFact
      BY <1>1 DEF deactivateFact
    <2>3. QED
      BY <2>1, <2>2, DeactivatedChain DEF IInv
  <1>2. CASE supersedeFact(t)
    <2>1. PICK old \in 1..lastFact :
            /\ old \in Active(User(t))
            /\ lastFact' = lastFact + 1
            /\ facts' = With(Deactivated(User(t), old), lastFact',
                             [user |-> User(t), active |-> TRUE, supersedes |-> old,
                              origin |-> Origin(t)])
      BY <1>2 DEF supersedeFact
    <2> DEFINE table == Deactivated(User(t), old)
               row == [user |-> User(t), active |-> TRUE, supersedes |-> old,
                       origin |-> Origin(t)]
    <2>2. old \in DOMAIN facts /\ facts[old].user = User(t) /\ facts[old].active
      BY <2>1 DEF Active
    <2>3. WellFormed(table, lastFact) /\ Chain(table)
      BY DeactivatedChain
    <2>4. /\ DOMAIN table = DOMAIN facts
          /\ ~table[old].active
          /\ \A f \in DOMAIN facts :
             /\ table[f].user = facts[f].user
             /\ table[f].supersedes = facts[f].supersedes
      BY <2>2, DeactivatedRows
    <2>5. \A f \in DOMAIN facts : facts[f].supersedes # old
      BY <2>1, <2>2 DEF IInv, Chain
    <2>6. IsFact(row)
      BY DEF IsFact
    <2> HIDE DEF table
    <2>7. WellFormed(With(table, lastFact + 1, row), lastFact + 1)
          /\ Chain(With(table, lastFact + 1, row))
      <3>1. lastFact \in Nat
        BY DEF IInv
      <3>2. /\ row.supersedes \in DOMAIN table
            /\ ~table[row.supersedes].active
            /\ table[row.supersedes].user = row.user
            /\ \A f \in DOMAIN table : table[f].supersedes # row.supersedes
        BY <2>2, <2>4, <2>5
      <3> HIDE DEF row
      <3>3. QED
        BY <2>3, <2>6, <3>1, <3>2, InsertedChain
    <2>8. facts' = With(table, lastFact + 1, row)
      BY <2>1 DEF table
    <2>9. QED
      BY <2>1, <2>7, <2>8 DEF IInv
  <1>3. CASE insertFact(t)
    <2> DEFINE row == [user |-> User(t), active |-> TRUE, supersedes |-> 0, origin |-> Origin(t)]
    <2>1. lastFact' = lastFact + 1 /\ facts' = With(facts, lastFact + 1, row)
      BY <1>3 DEF insertFact
    <2>2. IsFact(row) /\ row.supersedes = 0
      BY DEF IsFact
    <2> HIDE DEF row
    <2>3. QED
      BY <2>1, <2>2, InsertedChain DEF IInv
  <1>4. CASE ~(deactivateFact(t) \/ supersedeFact(t) \/ insertFact(t))
    <2>1. UNCHANGED <<facts, lastFact>>
      BY <1>4 DEF Step, distillTick, pendingForUser, create, createFails, getTier,
         countActiveFacts, SkipOp, insertFactRefused, upsertHub, upsert, addRelation,
         addRelationRefused, markDone, markFailed, tables
    <2>2. QED
      BY <2>1, FactsUnchanged
  <1>5. QED
    BY <1>1, <1>2, <1>3, <1>4

LEMMA WriteChain ==
  ASSUME IInv, NEW w \in Writers, Write(w)
  PROVE  IInv'
  <1>1. CASE insertStated(w)
    <2> DEFINE row == [user |-> writer[w].user, active |-> TRUE, supersedes |-> 0, origin |-> 0]
    <2>1. lastFact' = lastFact + 1 /\ facts' = With(facts, lastFact + 1, row)
      BY <1>1 DEF insertStated
    <2>2. IsFact(row) /\ row.supersedes = 0
      BY DEF IsFact
    <2> HIDE DEF row
    <2>3. QED
      BY <2>1, <2>2, InsertedChain DEF IInv
  <1>2. CASE ~insertStated(w)
    <2>1. UNCHANGED <<facts, lastFact>>
      BY <1>2 DEF Write, Begin, countForWriter, appendRemembered, Append1, tables
    <2>2. QED
      BY <2>1, FactsUnchanged
  <1>3. QED
    BY <1>1, <1>2

(* A wipe removes a user's facts, so with a fact all it supersedes goes too. *)
LEMMA CommandChain ==
  ASSUME IInv, NEW u \in Users, Command(u)
  PROVE  IInv'
  <1>1. CASE Forget(u)
    <2>1. PICK id \in DOMAIN facts : facts' = Deactivated(u, id)
      BY <1>1 DEF Forget
    <2>2. lastFact' = lastFact
      BY <1>1 DEF Forget
    <2>3. QED
      BY <2>1, <2>2, DeactivatedChain DEF IInv
  <1>2. CASE forgetEverything(u)
    <2>1. facts' = [f \in DOMAIN facts \ Mine(u, facts) |-> facts[f]] /\ lastFact' = lastFact
      BY <1>2 DEF forgetEverything, Without
    <2>2. /\ facts' = [f \in DOMAIN facts' |-> facts'[f]]
          /\ DOMAIN facts' = {f \in DOMAIN facts : facts[f].user # u}
          /\ \A f \in DOMAIN facts' : facts'[f] = facts[f]
      BY <2>1 DEF Mine
    <2>3. WellFormed(facts', lastFact')
      BY <2>1, <2>2 DEF IInv, WellFormed
    <2>4. Chain(facts')
      BY <2>2 DEF IInv, Chain
    <2>5. QED
      BY <2>1, <2>3, <2>4 DEF IInv
  <1>3. CASE append(u) \/ SetTier(u)
    <2>1. UNCHANGED <<facts, lastFact>>
      BY <1>3 DEF append, Append1, SetTier
    <2>2. QED
      BY <2>1, FactsUnchanged
  <1>4. QED
    BY <1>1, <1>2, <1>3 DEF Command

LEMMA NextChain == IInv /\ [Next]_vars => IInv'
  <1> SUFFICES ASSUME IInv, [Next]_vars PROVE IInv'
    OBVIOUS
  <1>1. CASE Work
    BY <1>1, StepChain, WriteChain, CommandChain DEF Work
  <1>2. CASE Outage
    <2>1. UNCHANGED <<facts, lastFact>>
      BY <1>2 DEF Outage, StatementFails, markFails, WriterFails, Restart, tables
    <2>2. QED
      BY <2>1, FactsUnchanged
  <1>3. CASE UNCHANGED vars
    <2>1. UNCHANGED <<facts, lastFact>>
      BY <1>3 DEF vars, tables
    <2>2. QED
      BY <2>1, FactsUnchanged
  <1>4. QED
    BY <1>1, <1>2, <1>3 DEF Next

(* The history of a fact is a chain of one user's facts: superseded facts are
   inactive and have one successor, of the same user, however ticks, commands,
   wipes and failures interleave (memoryRepository.ts:47-67). *)
THEOREM HistoryStaysChain == Spec => []HistoryIsChain
  <1>1. IInv => HistoryIsChain
    BY DEF IInv, Chain, HistoryIsChain
  <1>2. QED
    BY <1>1, InitChain, NextChain, PTL DEF Spec
-----------------------------------------------------------------------------
(* Type correctness.  Each part of the state has a type of its own. *)
Working == Pc \ {"idle", "load"}
TickRow(n) ==
    [pc : Pc, todo : Seq(Users), batch : SUBSET (1..n), ops : 0..MaxOps, cap : {0, FactCap},
     count : Nat, fact : Nat, mentions : 0..MaxMentions, hub : 0..NoHub, to : 0..MaxWipes,
     name : Names \cup {Main}]
TickOK(s, n) ==
    /\ s \in TickRow(n)
    /\ s.pc # "idle" => s.todo # <<>>
    /\ Len(s.todo) <= UsersPerTick
    /\ s.pc \in Working <=> s.batch # {}
    /\ Cardinality(s.batch) <= CapturesPerBatch
    /\ s.pc \in {"hub", "mention", "relate"} => s.mentions # 0

FactRow(f, m) == [user : Users, active : BOOLEAN, supersedes : 0..(f - 1), origin : 0..m]
FactRows(rows, n, m) ==
    /\ rows = [f \in DOMAIN rows |-> rows[f]]
    /\ DOMAIN rows \subseteq 1..n
    /\ \A f \in DOMAIN rows : rows[f] \in FactRow(f, m)

Status == {"pending", "done", "failed"}
CaptureRows(rows, m) ==
    /\ rows = [c \in DOMAIN rows |-> rows[c]]
    /\ DOMAIN rows \subseteq 1..m
    /\ \A c \in DOMAIN rows : rows[c] \in [user : Users, status : Status]

EntityRow(m) == [user : Users, name : Names \cup {Main}, id : 0..MaxWipes, origin : 1..m]
RelationRow == [user : Users, from : 0..MaxWipes, name : Names \cup {Main}, to : 0..MaxWipes]

RowsOK ==
    /\ premium \subseteq Users
    /\ lastCapture \in 0..MaxCaptures /\ CaptureRows(captures, lastCapture)
    /\ lastFact \in 0..MaxFacts /\ FactRows(facts, lastFact, lastCapture)
    /\ entities \subseteq EntityRow(lastCapture)
    /\ relations \subseteq RelationRow
TicksOK ==
    /\ tick = [t \in Ticks |-> tick[t]]
    /\ \A t \in Ticks : TickOK(tick[t], lastCapture)
WriterRow == [pc : {"count", "insert", "append"}, user : Users, cap : {FactCap}]
WritersOK ==
    /\ writer = [w \in Writers |-> writer[w]]
    /\ \A w \in Writers : writer[w] = NoWriter \/ writer[w] \in WriterRow
HistoryOK ==
    /\ wipes \in [Users -> 0..MaxWipes]
    /\ calls \in [1..MaxCaptures -> Nat]
    /\ lost \in 0..MaxLost

TypeInv == RowsOK /\ TicksOK /\ WritersOK /\ HistoryOK

(* The sizes, one by one. *)
LEMMA Sizes ==
    /\ UsersPerTick \in Nat /\ CapturesPerBatch \in Nat /\ FactCap \in Nat
    /\ UsersPerTick > 0 /\ CapturesPerBatch > 0 /\ FactCap > 0
    /\ MaxOps \in Nat /\ MaxMentions \in Nat /\ MaxCaptures \in Nat /\ MaxFacts \in Nat
    /\ MaxWipes \in Nat /\ MaxLost \in Nat /\ NoHub \in Nat /\ NoHub = MaxWipes + 1
  BY SizesAssumption DEF NoHub

(* A tick that has ended, and one that is about to load the captures of a user. *)
LEMMA IdleOK ==
  ASSUME NEW n \in Nat
  PROVE  TickOK(Idle, n)
  <1>1. Idle \in TickRow(n)
    BY Sizes DEF Idle, TickRow, Pc
  <1>2. Idle.pc = "idle" /\ Idle.todo = <<>> /\ Idle.batch = {}
    BY DEF Idle
  <1>3. Len(<<>>) = 0 /\ Cardinality({}) = 0
    BY FS_EmptySet
  <1> HIDE DEF Idle
  <1>4. QED
    BY <1>1, <1>2, <1>3, Sizes DEF TickOK, Working

LEMMA LoadingOK ==
  ASSUME NEW n \in Nat, NEW todo \in Seq(Users), todo # <<>>, Len(todo) <= UsersPerTick
  PROVE  TickOK([Idle EXCEPT !.pc = "load", !.todo = todo], n)
  <1> DEFINE s == [Idle EXCEPT !.pc = "load", !.todo = todo]
  <1>1. Idle \in TickRow(n) /\ Idle.batch = {}
    BY IdleOK DEF Idle, TickOK
  <1>2. /\ s \in TickRow(n)
        /\ s.pc = "load" /\ s.todo = todo /\ s.batch = {}
    BY <1>1 DEF TickRow, Pc
  <1>3. Cardinality({}) = 0
    BY FS_EmptySet
  <1> HIDE DEF s
  <1>4. TickOK(s, n)
    BY <1>2, <1>3, Sizes DEF TickOK, Working
  <1>5. QED
    BY <1>4 DEF s

(* A tick at work stays sound if it keeps its user and its batch. *)
LEMMA WorkingOK ==
  ASSUME NEW n \in Nat, NEW s, TickOK(s, n), s.pc \in Working,
         NEW new \in TickRow(n), new.todo = s.todo, new.batch = s.batch, new.pc \in Working,
         new.pc \in {"hub", "mention", "relate"} => new.mentions # 0
  PROVE  TickOK(new, n)
  <1>1. s.todo # <<>> /\ Len(s.todo) <= UsersPerTick
    BY DEF TickOK, Working
  <1>2. s.batch # {} /\ Cardinality(s.batch) <= CapturesPerBatch
    BY DEF TickOK
  <1>3. QED
    BY <1>1, <1>2 DEF TickOK

(* One tick changes, and no capture is new. *)
LEMMA OneTick ==
  ASSUME TicksOK, NEW t \in Ticks, NEW new, TickOK(new, lastCapture),
         tick' = [tick EXCEPT ![t] = new], lastCapture' = lastCapture
  PROVE  TicksOK'
  <1>1. tick' = [s \in Ticks |-> IF s = t THEN new ELSE tick[s]]
    BY DEF TicksOK
  <1>2. \A s \in Ticks : tick'[s] = IF s = t THEN new ELSE tick[s]
    BY <1>1
  <1>3. \A s \in Ticks : TickOK(tick'[s], lastCapture)
    BY <1>2 DEF TicksOK
  <1>4. QED
    BY <1>1, <1>3 DEF TicksOK, TickOK, TickRow, Working, Pc

(* A queue of some length is not empty; nor is the rest of a queue of more than one. *)
LEMMA NotEmpty ==
  ASSUME NEW s, Len(s) # 0
  PROVE  s # <<>>
  <1>1. Len(<<>>) = 0
    BY EmptySeq
  <1>2. QED
    BY <1>1, Zenon

LEMMA TailOfQueue ==
  ASSUME NEW S, NEW s \in Seq(S), Len(s) > 1
  PROVE  /\ Tail(s) \in Seq(S) /\ Tail(s) # <<>>
         /\ Len(Tail(s)) \in Nat /\ Len(s) \in Nat /\ Len(Tail(s)) <= Len(s)
  <1>1. Len(s) \in Nat /\ s # <<>>
    OBVIOUS
  <1>2. Tail(s) \in Seq(S) /\ Len(Tail(s)) = Len(s) - 1
    BY <1>1
  <1>3. Len(Tail(s)) # 0
    BY <1>1, <1>2
  <1>4. Tail(s) # <<>>
    BY <1>3, NotEmpty, Zenon
  <1>5. QED
    BY <1>1, <1>2, <1>4

(* The end of a user's work, and its failure. *)
LEMMA NextUserOK ==
  ASSUME TicksOK, lastCapture \in Nat, NEW t \in Ticks, tick[t].pc # "idle", NextUser(t),
         lastCapture' = lastCapture
  PROVE  TicksOK'
  <1> DEFINE todo == tick[t].todo
             new == IF Len(todo) > 1 THEN [Idle EXCEPT !.pc = "load", !.todo = Tail(todo)] ELSE Idle
  <1>1. todo \in Seq(Users) /\ todo # <<>> /\ Len(todo) <= UsersPerTick
    BY DEF TicksOK, TickOK, TickRow
  <1>2. TickOK(new, lastCapture)
    <2>1. CASE Len(todo) > 1
      <3>1. Tail(todo) \in Seq(Users) /\ Tail(todo) # <<>> /\ Len(Tail(todo)) <= Len(todo)
            /\ Len(Tail(todo)) \in Nat /\ Len(todo) \in Nat
        BY <1>1, <2>1, TailOfQueue
      <3>2. Len(Tail(todo)) <= UsersPerTick
        BY <1>1, <3>1, Sizes
      <3>3. TickOK([Idle EXCEPT !.pc = "load", !.todo = Tail(todo)], lastCapture)
        BY <3>1, <3>2, LoadingOK
      <3>4. QED
        BY <2>1, <3>3
    <2>2. CASE ~(Len(todo) > 1)
      BY <2>2, IdleOK
    <2>3. QED
      BY <2>1, <2>2
  <1>3. tick' = [tick EXCEPT ![t] = new]
    BY DEF NextUser
  <1> HIDE DEF new
  <1>4. QED
    BY <1>2, <1>3, OneTick

LEMMA FailOK ==
  ASSUME TicksOK, lastCapture \in Nat, NEW t \in Ticks, tick[t].pc \in Working, Fail(t),
         lastCapture' = lastCapture
  PROVE  TicksOK'
  <1> DEFINE s == tick[t]
             new == [Idle EXCEPT !.pc = "failed", !.todo = s.todo, !.batch = s.batch]
  <1>1. TickOK(s, lastCapture)
    BY DEF TicksOK
  <1>2. Idle \in TickRow(lastCapture) /\ s \in TickRow(lastCapture)
    BY <1>1, IdleOK DEF TickOK
  <1>3. /\ new \in TickRow(lastCapture)
        /\ new.pc = "failed" /\ new.todo = s.todo /\ new.batch = s.batch
    BY <1>2 DEF TickRow, Pc, Idle
  <1>4. tick' = [tick EXCEPT ![t] = new]
    BY DEF Fail
  <1> HIDE DEF new
  <1>5. TickOK(new, lastCapture)
    BY <1>1, <1>3, WorkingOK DEF Working, Pc
  <1>6. QED
    BY <1>4, <1>5, OneTick

(* The captures are finitely many, so the users who wait can be queued. *)
LEMMA BacklogFinite ==
  ASSUME RowsOK
  PROVE  IsFiniteSet(Backlog) /\ Cardinality(Backlog) \in Nat
  <1> DEFINE D == {c \in DOMAIN captures : captures[c].status = "pending" /\ captures[c].user \in premium}
             owner == [c \in D |-> captures[c].user]
  <1>1. lastCapture \in Int /\ D \subseteq 1..lastCapture
    BY Sizes DEF RowsOK, CaptureRows
  <1>2. IsFiniteSet(D)
    <2>1. IsFiniteSet(1..lastCapture)
      BY <1>1, FS_Interval
    <2> HIDE DEF D
    <2>2. QED
      BY <1>1, <2>1, PartOf
  <1>3. owner \in Surjection(D, Backlog)
    <2>1. \A c \in D : owner[c] \in Backlog
      BY DEF Backlog, Pending
    <2>2. \A u \in Backlog : \E c \in D : owner[c] = u
      BY DEF Backlog, Pending
    <2>3. QED
      BY <2>1, <2>2 DEF Surjection
  <1>4. QED
    BY <1>2, <1>3, FS_Surjection, FS_CardinalityType

LEMMA QueueOK ==
  ASSUME RowsOK, Backlog # {}, NEW queue \in OldestFirst(Backlog)
  PROVE  /\ AtMost(UsersPerTick, queue) \in Seq(Users)
         /\ AtMost(UsersPerTick, queue) # <<>>
         /\ Len(AtMost(UsersPerTick, queue)) <= UsersPerTick
  <1> DEFINE n == Cardinality(Backlog)
             k == IF n < UsersPerTick THEN n ELSE UsersPerTick
  <1>1. n \in Nat /\ n # 0
    BY BacklogFinite, FS_EmptySet
  <1>2. queue \in [1..n -> Backlog] /\ Backlog \subseteq Users
    BY DEF OldestFirst, Backlog, RowsOK
  <1> HIDE DEF n
  <1>3. queue \in Seq(Users) /\ Len(queue) = n
    BY <1>1, <1>2
  <1>4. k \in 1..n /\ k <= UsersPerTick
    BY <1>1, Sizes
  <1>5. AtMost(UsersPerTick, queue) = SubSeq(queue, 1, k)
    BY <1>3 DEF AtMost
  <1> HIDE DEF k
  <1>6. SubSeq(queue, 1, k) \in Seq(Users) /\ Len(SubSeq(queue, 1, k)) = k
    BY <1>1, <1>3, <1>4
  <1>7. SubSeq(queue, 1, k) # <<>>
    <2>1. Len(SubSeq(queue, 1, k)) # 0
      BY <1>4, <1>6
    <2>2. QED
      BY <2>1, NotEmpty, Zenon
  <1>8. QED
    BY <1>4, <1>5, <1>6, <1>7

(* A batch has its limited size, because in a batch every capture has a rank of its own. *)
LEMMA BatchOK ==
  ASSUME RowsOK, NEW u
  PROVE  Batch(u) \subseteq 1..lastCapture /\ Cardinality(Batch(u)) <= CapturesPerBatch
  <1> DEFINE Before(c) == {d \in Pending(u) : d < c}
             rank == [c \in Batch(u) |-> Cardinality(Before(c))]
  <1>1. lastCapture \in Int /\ Pending(u) \subseteq 1..lastCapture
    BY Sizes DEF RowsOK, CaptureRows, Pending
  <1>2. IsFiniteSet(Pending(u))
    <2>1. IsFiniteSet(1..lastCapture)
      BY <1>1, FS_Interval
    <2>2. QED
      BY <1>1, <2>1, PartOf, Zenon
  <1>3. \A c : IsFiniteSet(Before(c)) /\ Cardinality(Before(c)) \in Nat
    BY <1>2, PartOf
  <1>4. Batch(u) = {c \in Pending(u) : Cardinality(Before(c)) < CapturesPerBatch}
    BY DEF Batch
  <1>5. ASSUME NEW c \in Pending(u), NEW d \in Pending(u), c < d
        PROVE  Cardinality(Before(c)) < Cardinality(Before(d))
    <2>1. c \in Before(d) /\ Before(c) \subseteq Before(d) \ {c}
      BY <1>1, <1>5
    <2>2. Cardinality(Before(c)) <= Cardinality(Before(d)) - 1
      BY <1>3, <2>1, OneLess
    <2> HIDE DEF Before
    <2>3. QED
      BY <1>3, <2>2
  <1> HIDE DEF Before
  <1>6. rank \in Injection(Batch(u), 0..(CapturesPerBatch - 1))
    <2>1. \A c \in Batch(u) : rank[c] \in 0..(CapturesPerBatch - 1)
      BY <1>3, <1>4, Sizes
    <2>2. ASSUME NEW c \in Batch(u), NEW d \in Batch(u), rank[c] = rank[d]
          PROVE  c = d
      <3>1. c \in Pending(u) /\ d \in Pending(u) /\ c \in Int /\ d \in Int
        BY <1>1, <1>4
      <3>2. ~(c < d) /\ ~(d < c)
        BY <1>3, <1>5, <2>2, <3>1
      <3>3. QED
        BY <3>1, <3>2
    <2>3. QED
      BY <2>1, <2>2 DEF Injection, IsInjective
  <1>7. IsFiniteSet(0..(CapturesPerBatch - 1)) /\ Cardinality(0..(CapturesPerBatch - 1)) = CapturesPerBatch
    BY Sizes, FS_Interval
  <1>8. QED
    BY <1>1, <1>4, <1>6, <1>7, FS_Injection

(* A tick at work has a user and a first capture. *)
LEMMA EarliestIn ==
  ASSUME NEW S, S \subseteq Nat, S # {}
  PROVE  Earliest(S) \in S
  <1>1. \E c \in S : \A d \in S : c <= d
    BY LeastOf
  <1>2. QED
    BY <1>1 DEF Earliest

LEMMA UserOK ==
  ASSUME TicksOK, NEW t \in Ticks, tick[t].pc # "idle"
  PROVE  User(t) \in Users
  <1>1. tick[t].todo \in Seq(Users) /\ tick[t].todo # <<>>
    BY DEF TicksOK, TickOK, TickRow
  <1>2. Head(tick[t].todo) \in Users
    BY <1>1, HeadTailProperties
  <1>3. QED
    BY <1>2 DEF User

LEMMA OriginOK ==
  ASSUME TicksOK, lastCapture \in Nat, NEW t \in Ticks, tick[t].pc \in Working
  PROVE  Origin(t) \in tick[t].batch /\ Origin(t) \in 1..lastCapture
  <1>1. tick[t].batch \subseteq 1..lastCapture /\ tick[t].batch # {}
    BY DEF TicksOK, TickOK, TickRow
  <1>2. tick[t].batch \subseteq Nat
    BY <1>1
  <1>3. QED
    BY <1>1, <1>2, EarliestIn DEF Origin

(* The active facts of a user are finitely many. *)
LEMMA ActiveFinite ==
  ASSUME RowsOK, NEW u
  PROVE  IsFiniteSet(Active(u)) /\ Cardinality(Active(u)) \in Nat
  <1>1. lastFact \in Int /\ Active(u) \subseteq 1..lastFact
    BY Sizes DEF RowsOK, FactRows, Active
  <1>2. IsFiniteSet(1..lastFact)
    BY <1>1, FS_Interval
  <1>3. QED
    BY <1>1, <1>2, PartOf, Zenon

(* One step of a tick that goes on with its batch. *)
LEMMA WorkStep ==
  ASSUME TicksOK, NEW t \in Ticks, tick[t].pc \in Working,
         NEW new \in TickRow(lastCapture), new.todo = tick[t].todo, new.batch = tick[t].batch,
         new.pc \in Working, new.pc \in {"hub", "mention", "relate"} => new.mentions # 0,
         tick' = [tick EXCEPT ![t] = new], lastCapture' = lastCapture, lastCapture \in Nat
  PROVE  TicksOK'
  <1>1. TickOK(tick[t], lastCapture)
    BY DEF TicksOK
  <1>2. TickOK(new, lastCapture)
    BY <1>1, WorkingOK
  <1>3. QED
    BY <1>2, OneTick

LEMMA MentionOK ==
  ASSUME TicksOK, lastCapture \in Nat, NEW t \in Ticks, tick[t].pc \in {"mention", "relate"},
         NextMention(t), lastCapture' = lastCapture
  PROVE  TicksOK'
  <1> DEFINE s == tick[t]
             new == IF s.mentions > 1
                    THEN [s EXCEPT !.pc = "mention", !.mentions = s.mentions - 1]
                    ELSE [s EXCEPT !.pc = "apply", !.mentions = 0, !.fact = 0, !.hub = 0]
  <1>1. s \in TickRow(lastCapture) /\ s.pc \in Working
    BY DEF TicksOK, TickOK, Working, Pc
  <1>2. s.mentions \in 0..MaxMentions /\ MaxMentions \in Nat /\ 0 \in 0..NoHub
    BY <1>1, Sizes DEF TickRow
  <1>3. /\ new \in TickRow(lastCapture) /\ new.todo = s.todo /\ new.batch = s.batch
        /\ new.pc \in Working /\ (new.pc \in {"hub", "mention", "relate"} => new.mentions # 0)
    <2>1. CASE s.mentions > 1
      <3>1. s.mentions - 1 \in 0..MaxMentions /\ s.mentions - 1 # 0
        BY <1>2, <2>1
      <3>2. QED
        BY <1>1, <2>1, <3>1 DEF TickRow, Pc, Working
    <2>2. CASE ~(s.mentions > 1)
      <3>1. 0 \in 0..MaxMentions
        BY <1>2
      <3>2. QED
        BY <1>1, <1>2, <2>2, <3>1 DEF TickRow, Pc, Working
    <2>3. QED
      BY <2>1, <2>2
  <1>4. tick' = [tick EXCEPT ![t] = new]
    BY DEF NextMention
  <1> HIDE DEF new
  <1>5. QED
    BY <1>1, <1>3, <1>4, WorkStep

LEMMA ApplyTicks ==
  ASSUME TicksOK, RowsOK, HistoryOK, NEW t \in Ticks,
         SkipOp(t) \/ deactivateFact(t) \/ supersedeFact(t) \/ insertFact(t)
  PROVE  TicksOK'
  <1> DEFINE s == tick[t]
  <1>0. lastCapture \in Nat /\ lastFact \in Nat
    BY Sizes DEF RowsOK
  <1>1. s \in TickRow(lastCapture) /\ s.pc = "apply" /\ s.ops > 0 /\ lastCapture' = lastCapture
    BY DEF TicksOK, TickOK, At, SkipOp, deactivateFact, supersedeFact, insertFact, tables
  <1>2. s.ops - 1 \in 0..MaxOps /\ s.count + 1 \in Nat /\ 0 \in Nat /\ 0 \in 0..MaxMentions
    BY <1>1, Sizes, SMTT(20) DEF TickRow
  <1>3. CASE SkipOp(t) \/ deactivateFact(t) \/ supersedeFact(t)
    <2> DEFINE new == [s EXCEPT !.ops = s.ops - 1]
    <2>1. tick' = [tick EXCEPT ![t] = new]
      BY <1>3 DEF SkipOp, deactivateFact, supersedeFact, OpDone
    <2>2. new \in TickRow(lastCapture) /\ new.todo = s.todo /\ new.batch = s.batch /\ new.pc = "apply"
      BY <1>1, <1>2 DEF TickRow
    <2> HIDE DEF new
    <2>3. QED
      BY <1>0, <1>1, <2>1, <2>2, WorkStep DEF Working, Pc
  <1>4. CASE insertFact(t)
    <2>1. PICK mentions \in 0..MaxMentions :
            tick' = [tick EXCEPT ![t].pc = IF mentions = 0 THEN "apply" ELSE "hub",
                                 ![t].ops = tick[t].ops - 1, ![t].count = tick[t].count + 1,
                                 ![t].fact = IF mentions = 0 THEN 0 ELSE lastFact',
                                 ![t].mentions = mentions]
      BY <1>4 DEF insertFact
    <2> DEFINE pc == IF mentions = 0 THEN "apply" ELSE "hub"
               fact == IF mentions = 0 THEN 0 ELSE lastFact'
               new == [s EXCEPT !.pc = pc, !.ops = s.ops - 1, !.count = s.count + 1,
                                !.fact = fact, !.mentions = mentions]
    <2>2. tick' = [tick EXCEPT ![t] = new]
      BY <2>1
    <2>3. fact \in Nat /\ pc \in Working /\ (pc = "hub" => mentions # 0) /\ pc \in {"apply", "hub"}
      <3>1. lastFact' = lastFact + 1
        BY <1>4 DEF insertFact
      <3>2. lastFact' \in Nat
        BY <1>0, <3>1
      <3>3. QED
        BY <3>2 DEF Working, Pc
    <2> HIDE DEF pc, fact
    <2>4. /\ new \in TickRow(lastCapture) /\ new.todo = s.todo /\ new.batch = s.batch
          /\ new.pc = pc /\ new.mentions = mentions
      BY <1>1, <1>2, <2>3 DEF TickRow, Working
    <2> HIDE DEF new
    <2>5. new.pc \in {"hub", "mention", "relate"} => new.mentions # 0
      BY <2>3, <2>4
    <2>6. s.pc \in Working
      BY <1>1 DEF Working, Pc
    <2>7. QED
      BY <1>0, <1>1, <2>2, <2>3, <2>4, <2>5, <2>6, WorkStep
  <1>5. QED
    BY <1>3, <1>4

LEMMA LinkTicks ==
  ASSUME TicksOK, RowsOK, HistoryOK, NEW t \in Ticks,
         upsertHub(t) \/ upsert(t) \/ addRelation(t) \/ addRelationRefused(t)
  PROVE  TicksOK'
  <1> DEFINE s == tick[t]
  <1>0. lastCapture \in Nat /\ lastCapture' = lastCapture
    BY Sizes DEF RowsOK, upsertHub, upsert, addRelation, addRelationRefused, tables
  <1>1. s \in TickRow(lastCapture) /\ s.pc \in {"hub", "mention", "relate"} /\ s.mentions # 0
    BY DEF TicksOK, TickOK, At, upsertHub, upsert, addRelation, addRelationRefused
  <1>2. s.pc \in Working
    BY <1>1 DEF Working, Pc
  <1>3. wipes[User(t)] \in 0..MaxWipes /\ wipes[User(t)] \in 0..NoHub /\ NoHub \in 0..NoHub
    <2>1. User(t) \in Users
      BY <1>1, UserOK
    <2>2. wipes[User(t)] \in 0..MaxWipes
      BY <2>1 DEF HistoryOK
    <2>3. QED
      BY <2>2, Sizes
  <1>4. ASSUME upsertHub(t)
        PROVE  TicksOK'
    <2>1. PICK hub \in 0..NoHub : tick' = [tick EXCEPT ![t] = [s EXCEPT !.pc = "mention", !.hub = hub]]
      BY <1>3, <1>4 DEF upsertHub
    <2> DEFINE new == [s EXCEPT !.pc = "mention", !.hub = hub]
    <2>2. /\ new \in TickRow(lastCapture) /\ new.todo = s.todo /\ new.batch = s.batch
          /\ new.pc = "mention" /\ new.mentions = s.mentions
      BY <1>1 DEF TickRow, Pc
    <2> HIDE DEF new
    <2>3. QED
      BY <1>0, <1>1, <1>2, <2>1, <2>2, WorkStep DEF new, Working, Pc
  <1>5. ASSUME upsert(t)
        PROVE  TicksOK'
    <2>1. PICK name \in Names :
            /\ entities' = Upserted(User(t), name, Origin(t))
            /\ IF tick[t].hub = NoHub \/ (name = Main /\ tick[t].hub = wipes[User(t)])
               THEN NextMention(t)
               ELSE tick' = [tick EXCEPT ![t].pc = "relate", ![t].to = wipes[User(t)], ![t].name = name]
      BY <1>5 DEF upsert
    <2>2. CASE NextMention(t)
      BY <1>0, <1>5, <2>2, MentionOK DEF upsert, At
    <2>3. CASE tick' = [tick EXCEPT ![t].pc = "relate", ![t].to = wipes[User(t)], ![t].name = name]
      <3> DEFINE new == [s EXCEPT !.pc = "relate", !.to = wipes[User(t)], !.name = name]
      <3>1. /\ new \in TickRow(lastCapture) /\ new.todo = s.todo /\ new.batch = s.batch
            /\ new.pc = "relate" /\ new.mentions = s.mentions
        BY <1>1, <1>3 DEF TickRow, Pc
      <3>2. tick' = [tick EXCEPT ![t] = new]
        BY <2>3
      <3> HIDE DEF new
      <3>3. QED
        BY <1>0, <1>1, <1>2, <3>1, <3>2, WorkStep DEF Working, Pc
    <2>4. QED
      BY <2>1, <2>2, <2>3
  <1>6. ASSUME addRelation(t)
        PROVE  TicksOK'
    BY <1>0, <1>6, MentionOK DEF addRelation, At
  <1>7. ASSUME addRelationRefused(t)
        PROVE  TicksOK'
    BY <1>0, <1>2, <1>7, FailOK DEF addRelationRefused
  <1>8. QED
    BY <1>4, <1>5, <1>6, <1>7

LEMMA ReadTicks ==
  ASSUME TicksOK, RowsOK, NEW t \in Ticks,
         distillTick(t) \/ pendingForUser(t) \/ create(t) \/ getTier(t) \/ countActiveFacts(t)
  PROVE  TicksOK'
  <1> DEFINE s == tick[t]
  <1>0. lastCapture \in Nat /\ lastCapture' = lastCapture
    <2>1. lastCapture \in Nat
      BY Sizes DEF RowsOK
    <2>2. UNCHANGED tables
      BY Zenon DEF distillTick, pendingForUser, create, getTier, countActiveFacts
    <2>3. QED
      BY <2>1, <2>2 DEF tables
  <1>1. s \in TickRow(lastCapture) /\ TickOK(s, lastCapture)
    BY DEF TicksOK, TickOK
  <1>2. ASSUME distillTick(t)
        PROVE  TicksOK'
    <2>1. PICK queue \in OldestFirst(Backlog) :
            tick' = [tick EXCEPT ![t] = [Idle EXCEPT !.pc = "load", !.todo = AtMost(UsersPerTick, queue)]]
      BY <1>2 DEF distillTick
    <2>2. Backlog # {}
      BY <1>2 DEF distillTick
    <2>3. TickOK([Idle EXCEPT !.pc = "load", !.todo = AtMost(UsersPerTick, queue)], lastCapture)
      BY <1>0, <2>2, QueueOK, LoadingOK
    <2>4. QED
      BY <1>0, <2>1, <2>3, OneTick
  <1>3. ASSUME pendingForUser(t)
        PROVE  TicksOK'
    <2>1. CASE Batch(User(t)) = {}
      BY <1>0, <1>3, <2>1, NextUserOK DEF pendingForUser, At
    <2>2. CASE Batch(User(t)) # {}
      <3> DEFINE new == [s EXCEPT !.pc = "create", !.batch = Batch(User(t))]
      <3>1. tick' = [tick EXCEPT ![t] = new]
        BY <1>3, <2>2 DEF pendingForUser
      <3>2. Batch(User(t)) \subseteq 1..lastCapture /\ Cardinality(Batch(User(t))) <= CapturesPerBatch
        BY BatchOK
      <3>3. /\ new \in TickRow(lastCapture) /\ new.todo = s.todo /\ new.batch = Batch(User(t))
            /\ new.pc = "create"
        BY <1>1, <3>2 DEF TickRow, Pc
      <3>4. s.todo # <<>> /\ Len(s.todo) <= UsersPerTick
        BY <1>1, <1>3 DEF TickOK, pendingForUser, At
      <3> HIDE DEF new
      <3>5. TickOK(new, lastCapture)
        BY <2>2, <3>2, <3>3, <3>4 DEF TickOK, Working, Pc
      <3>6. QED
        BY <1>0, <3>1, <3>5, OneTick
    <2>3. QED
      BY <2>1, <2>2
  <1>4. ASSUME create(t)
        PROVE  TicksOK'
    <2>1. PICK n \in 0..MaxOps : tick' = [tick EXCEPT ![t] = [s EXCEPT !.pc = "getTier", !.ops = n]]
      BY <1>4 DEF create
    <2> DEFINE new == [s EXCEPT !.pc = "getTier", !.ops = n]
    <2>2. new \in TickRow(lastCapture) /\ new.todo = s.todo /\ new.batch = s.batch /\ new.pc = "getTier"
      BY <1>1 DEF TickRow, Pc
    <2>3. s.pc \in Working
      BY <1>4 DEF create, At, Working, Pc
    <2> HIDE DEF new
    <2>4. QED
      BY <1>0, <2>1, <2>2, <2>3, WorkStep DEF new, Working, Pc
  <1>5. ASSUME getTier(t)
        PROVE  TicksOK'
    <2> DEFINE new == [s EXCEPT !.pc = "count", !.cap = MemoryFacts(User(t))]
    <2>1. tick' = [tick EXCEPT ![t] = new]
      BY <1>5 DEF getTier
    <2>2. MemoryFacts(User(t)) \in {0, FactCap}
      BY DEF MemoryFacts
    <2>3. new \in TickRow(lastCapture) /\ new.todo = s.todo /\ new.batch = s.batch /\ new.pc = "count"
      BY <1>1, <2>2 DEF TickRow, Pc
    <2>4. s.pc \in Working
      BY <1>5 DEF getTier, At, Working, Pc
    <2> HIDE DEF new
    <2>5. QED
      BY <1>0, <2>1, <2>3, <2>4, WorkStep DEF Working, Pc
  <1>6. ASSUME countActiveFacts(t)
        PROVE  TicksOK'
    <2> DEFINE n == Cardinality(Active(User(t)))
               new == [s EXCEPT !.pc = "apply", !.count = n]
    <2>1. tick' = [tick EXCEPT ![t] = new]
      BY <1>6 DEF countActiveFacts
    <2>2. n \in Nat
      BY ActiveFinite
    <2> HIDE DEF n
    <2>3. new \in TickRow(lastCapture) /\ new.todo = s.todo /\ new.batch = s.batch /\ new.pc = "apply"
      BY <1>1, <2>2 DEF TickRow, Pc
    <2>4. s.pc \in Working
      BY <1>6 DEF countActiveFacts, At, Working, Pc
    <2> HIDE DEF new
    <2>5. QED
      BY <1>0, <2>1, <2>3, <2>4, WorkStep DEF Working, Pc
  <1>7. QED
    BY <1>2, <1>3, <1>4, <1>5, <1>6

LEMMA EndTicks ==
  ASSUME TicksOK, RowsOK, NEW t \in Ticks,
         \/ createFails(t) \/ insertFactRefused(t) \/ markDone(t) \/ markFailed(t)
         \/ StatementFails(t) \/ markFails(t)
  PROVE  TicksOK'
  <1>0. lastCapture \in Nat /\ lastCapture' = lastCapture
    BY Sizes DEF RowsOK, createFails, insertFactRefused, markDone, markFailed, StatementFails,
       markFails, tables
  <1>1. \/ tick[t].pc \in Working /\ Fail(t)
        \/ tick[t].pc # "idle" /\ NextUser(t)
    BY Zenon DEF createFails, insertFactRefused, markDone, markFailed, StatementFails, markFails,
       At, Working, Pc
  <1>2. QED
    BY <1>0, <1>1, FailOK, NextUserOK

(* The facts and captures a step writes have their type. *)
LEMMA DeactivatedRowsOK ==
  ASSUME FactRows(facts, lastFact, lastCapture), NEW u, NEW id
  PROVE  FactRows(Deactivated(u, id), lastFact, lastCapture)
  <1>1. CASE id \in DOMAIN facts /\ facts[id].user = u
    <2> DEFINE row == [facts[id] EXCEPT !.active = FALSE]
               new == [facts EXCEPT ![id] = row]
    <2>1. Deactivated(u, id) = new
      BY <1>1 DEF Deactivated
    <2>2. row \in FactRow(id, lastCapture)
      BY <1>1 DEF FactRows, FactRow
    <2> HIDE DEF row
    <2>3. /\ new = [f \in DOMAIN new |-> new[f]] /\ DOMAIN new = DOMAIN facts
          /\ \A f \in DOMAIN facts : new[f] = IF f = id THEN row ELSE facts[f]
      BY DEF FactRows
    <2> HIDE DEF new
    <2>4. QED
      BY <2>1, <2>2, <2>3 DEF FactRows
  <1>2. CASE ~(id \in DOMAIN facts /\ facts[id].user = u)
    BY <1>2 DEF Deactivated
  <1>3. QED
    BY <1>1, <1>2

LEMMA InsertedRowOK ==
  ASSUME NEW table, NEW n \in Nat, NEW m \in Nat, FactRows(table, n, m),
         NEW row \in FactRow(n + 1, m)
  PROVE  FactRows(With(table, n + 1, row), n + 1, m)
  <1> DEFINE new == With(table, n + 1, row)
  <1>1. /\ new = [f \in DOMAIN new |-> new[f]] /\ DOMAIN new = DOMAIN table \cup {n + 1}
        /\ \A f \in DOMAIN new : new[f] = IF f = n + 1 THEN row ELSE table[f]
    BY DEF With
  <1>2. DOMAIN table \subseteq 1..n /\ \A f \in DOMAIN table : table[f] \in FactRow(f, m)
    BY DEF FactRows
  <1> HIDE DEF new
  <1>3. DOMAIN new \subseteq 1..(n + 1)
    BY <1>1, <1>2
  <1>4. \A f \in DOMAIN new : new[f] \in FactRow(f, m)
    BY <1>1, <1>2
  <1>5. FactRows(new, n + 1, m)
    BY <1>1, <1>3, <1>4 DEF FactRows
  <1>6. QED
    BY <1>5 DEF new

LEMMA MarkedRowsOK ==
  ASSUME CaptureRows(captures, lastCapture), NEW batch, NEW status \in Status
  PROVE  CaptureRows(Marked(batch, status), lastCapture)
  <1> DEFINE new == Marked(batch, status)
  <1>1. /\ new = [c \in DOMAIN new |-> new[c]] /\ DOMAIN new = DOMAIN captures
        /\ \A c \in DOMAIN captures :
             new[c] = IF c \in batch THEN [captures[c] EXCEPT !.status = status] ELSE captures[c]
    BY DEF Marked
  <1> HIDE DEF new
  <1>2. \A c \in DOMAIN captures : captures[c] \in [user : Users, status : Status]
    BY DEF CaptureRows
  <1>3. \A c \in DOMAIN captures : new[c] \in [user : Users, status : Status]
    BY <1>1, <1>2
  <1>4. CaptureRows(new, lastCapture)
    BY <1>1, <1>3 DEF CaptureRows
  <1>5. QED
    BY <1>4 DEF new

LEMMA UpsertedOK ==
  ASSUME entities \subseteq EntityRow(lastCapture), NEW u \in Users, NEW name \in Names \cup {Main},
         NEW origin \in 1..lastCapture, wipes[u] \in 0..MaxWipes
  PROVE  Upserted(u, name, origin) \subseteq EntityRow(lastCapture)
  BY DEF Upserted, EntityRow

(* What the actions of a tick write into the tables has their type. *)
LEMMA StepRows ==
  ASSUME TypeInv, NEW t \in Ticks, Step(t)
  PROVE  RowsOK'
  <1>0. /\ lastCapture \in Nat /\ lastFact \in Nat
        /\ FactRows(facts, lastFact, lastCapture) /\ CaptureRows(captures, lastCapture)
        /\ RowsOK /\ TicksOK /\ HistoryOK
    BY Sizes DEF TypeInv, RowsOK
  <1>1. ASSUME UNCHANGED tables
        PROVE  RowsOK'
    BY <1>0, <1>1 DEF tables, RowsOK
  <1>2. ASSUME tick[t].pc \in Working
        PROVE  User(t) \in Users /\ Origin(t) \in 1..lastCapture
    BY <1>0, <1>2, UserOK, OriginOK DEF Working
  <1>3. ASSUME deactivateFact(t)
        PROVE  RowsOK'
    <2>1. PICK id \in 1..lastFact : facts' = Deactivated(User(t), id)
      BY <1>3 DEF deactivateFact
    <2>2. UNCHANGED <<premium, captures, entities, relations, lastCapture, lastFact>>
      BY <1>3 DEF deactivateFact
    <2>3. FactRows(facts', lastFact', lastCapture')
      BY <1>0, <2>1, <2>2, DeactivatedRowsOK
    <2>4. QED
      BY <1>0, <2>2, <2>3 DEF RowsOK
  <1>4. ASSUME supersedeFact(t)
        PROVE  RowsOK'
    <2> DEFINE row(old) == [user |-> User(t), active |-> TRUE, supersedes |-> old, origin |-> Origin(t)]
    <2>1. PICK old \in 1..lastFact :
            /\ lastFact' = lastFact + 1
            /\ facts' = With(Deactivated(User(t), old), lastFact', row(old))
      BY <1>4 DEF supersedeFact
    <2>2. lastFact < MaxFacts /\ UNCHANGED <<premium, captures, entities, relations, lastCapture>>
      BY <1>4 DEF supersedeFact
    <2>3. tick[t].pc \in Working
      BY <1>4 DEF supersedeFact, At, Working, Pc
    <2>4. row(old) \in FactRow(lastFact + 1, lastCapture)
      BY <1>0, <1>2, <2>3 DEF FactRow
    <2>5. FactRows(Deactivated(User(t), old), lastFact, lastCapture)
      BY <1>0, DeactivatedRowsOK
    <2> HIDE DEF row
    <2>6. FactRows(facts', lastFact', lastCapture')
      BY <1>0, <2>1, <2>2, <2>4, <2>5, InsertedRowOK
    <2>7. lastFact' \in 0..MaxFacts
      BY <1>0, <2>1, <2>2, Sizes
    <2>8. QED
      BY <1>0, <2>2, <2>6, <2>7 DEF RowsOK
  <1>5. ASSUME insertFact(t)
        PROVE  RowsOK'
    <2> DEFINE row == [user |-> User(t), active |-> TRUE, supersedes |-> 0, origin |-> Origin(t)]
    <2>1. lastFact' = lastFact + 1 /\ facts' = With(facts, lastFact', row)
      BY <1>5 DEF insertFact
    <2>2. lastFact < MaxFacts /\ UNCHANGED <<premium, captures, entities, relations, lastCapture>>
      BY <1>5 DEF insertFact
    <2>3. tick[t].pc \in Working
      BY <1>5 DEF insertFact, At, Working, Pc
    <2>4. row \in FactRow(lastFact + 1, lastCapture)
      BY <1>0, <1>2, <2>3 DEF FactRow
    <2> HIDE DEF row
    <2>5. FactRows(facts', lastFact', lastCapture')
      BY <1>0, <2>1, <2>2, <2>4, InsertedRowOK
    <2>6. lastFact' \in 0..MaxFacts
      BY <1>0, <2>1, <2>2, Sizes
    <2>7. QED
      BY <1>0, <2>2, <2>5, <2>6 DEF RowsOK
  <1>6. ASSUME upsertHub(t) \/ upsert(t)
        PROVE  RowsOK'
    <2>1. \/ UNCHANGED entities
          \/ \E name \in Names \cup {Main} : entities' = Upserted(User(t), name, Origin(t))
      BY <1>6 DEF upsertHub, upsert
    <2>2. UNCHANGED <<premium, captures, facts, relations, lastCapture, lastFact>>
      BY <1>6 DEF upsertHub, upsert
    <2>3. tick[t].pc \in Working
      BY <1>6 DEF upsertHub, upsert, At, Working, Pc
    <2>4. wipes[User(t)] \in 0..MaxWipes /\ entities \subseteq EntityRow(lastCapture)
      BY <1>0, <1>2, <2>3 DEF HistoryOK, RowsOK
    <2>5. entities' \subseteq EntityRow(lastCapture)
      BY <1>2, <2>1, <2>3, <2>4, UpsertedOK
    <2>6. QED
      BY <1>0, <2>2, <2>5 DEF RowsOK
  <1>7. ASSUME addRelation(t)
        PROVE  RowsOK'
    <2>1. /\ relations' = relations \cup {Relation(t)}
          /\ Relation(t) \in relations \/ EndsExist(t)
          /\ tick[t].pc = "relate"
      BY <1>7 DEF addRelation, At
    <2>2. UNCHANGED <<premium, captures, facts, entities, lastCapture, lastFact>>
      BY <1>7 DEF addRelation
    <2>3. User(t) \in Users /\ tick[t].name \in Names \cup {Main}
      BY <1>0, <1>2, <2>1 DEF Working, Pc, TicksOK, TickOK, TickRow
    <2>4. EndsExist(t) => Relation(t) \in RelationRow
      BY <1>0, <2>3 DEF EndsExist, Relation, RelationRow, HistoryOK
    <2>5. relations' \subseteq RelationRow
      BY <1>0, <2>1, <2>4 DEF RowsOK
    <2>6. QED
      BY <1>0, <2>2, <2>5 DEF RowsOK
  <1>8. ASSUME markDone(t) \/ markFailed(t)
        PROVE  RowsOK'
    <2>1. PICK status \in Status : captures' = Marked(tick[t].batch, status)
      BY <1>8 DEF markDone, markFailed, Status
    <2>2. UNCHANGED <<premium, facts, entities, relations, lastCapture, lastFact>>
      BY <1>8 DEF markDone, markFailed
    <2>3. CaptureRows(captures', lastCapture)
      BY <1>0, <2>1, MarkedRowsOK
    <2>4. QED
      BY <1>0, <2>2, <2>3 DEF RowsOK
  <1>9. QED
    <2>1. CASE \/ distillTick(t) \/ pendingForUser(t) \/ create(t) \/ createFails(t) \/ getTier(t)
               \/ countActiveFacts(t) \/ SkipOp(t) \/ insertFactRefused(t) \/ addRelationRefused(t)
      <3>1. UNCHANGED tables
        BY <2>1, Zenon DEF distillTick, pendingForUser, create, createFails, getTier,
           countActiveFacts, SkipOp, insertFactRefused, addRelationRefused
      <3>2. QED
        BY <1>1, <3>1
    <2>2. QED
      BY <1>3, <1>4, <1>5, <1>6, <1>7, <1>8, <2>1 DEF Step

(* The same for the other writers of the tables. *)
LEMMA WriteRows ==
  ASSUME TypeInv, NEW w \in Writers, insertStated(w)
  PROVE  RowsOK'
  <1> DEFINE row == [user |-> writer[w].user, active |-> TRUE, supersedes |-> 0, origin |-> 0]
  <1>0. /\ lastCapture \in Nat /\ lastFact \in Nat
        /\ FactRows(facts, lastFact, lastCapture) /\ RowsOK /\ WritersOK
    BY Sizes DEF TypeInv, RowsOK
  <1>1. lastFact' = lastFact + 1 /\ facts' = With(facts, lastFact', row)
    BY DEF insertStated
  <1>2. lastFact < MaxFacts /\ UNCHANGED <<premium, captures, entities, relations, lastCapture>>
    BY DEF insertStated
  <1>3. writer[w].user \in Users
    BY <1>0 DEF insertStated, WritersOK, NoWriter, WriterRow
  <1>4. row \in FactRow(lastFact + 1, lastCapture)
    BY <1>0, <1>3 DEF FactRow
  <1> HIDE DEF row
  <1>5. FactRows(facts', lastFact', lastCapture')
    BY <1>0, <1>1, <1>2, <1>4, InsertedRowOK
  <1>6. lastFact' \in 0..MaxFacts
    BY <1>0, <1>1, <1>2, Sizes
  <1>7. QED
    BY <1>0, <1>2, <1>5, <1>6 DEF RowsOK

LEMMA AppendRows ==
  ASSUME TypeInv, NEW u \in Users, Append1(u)
  PROVE  RowsOK' /\ lastCapture' = lastCapture + 1
  <1> DEFINE n == lastCapture + 1
             row == [user |-> u, status |-> "pending"]
  <1>0. lastCapture \in Nat /\ RowsOK
    BY Sizes DEF TypeInv, RowsOK
  <1>1. /\ lastCapture < MaxCaptures /\ lastCapture' = n /\ captures' = With(captures, n, row)
        /\ UNCHANGED <<premium, facts, entities, relations, lastFact>>
    BY DEF Append1
  <1>2. CaptureRows(captures', n)
    <2>1. row \in [user : Users, status : Status]
      BY DEF Status
    <2> HIDE DEF row
    <2>2. /\ captures' = [c \in DOMAIN captures' |-> captures'[c]]
          /\ DOMAIN captures' = DOMAIN captures \cup {n}
          /\ \A c \in DOMAIN captures' : captures'[c] = IF c = n THEN row ELSE captures[c]
      BY <1>1 DEF With
    <2>3. DOMAIN captures \subseteq 1..lastCapture
          /\ \A c \in DOMAIN captures : captures[c] \in [user : Users, status : Status]
      BY <1>0 DEF RowsOK, CaptureRows
    <2>4. DOMAIN captures' \subseteq 1..n
      BY <1>0, <2>2, <2>3
    <2>5. \A c \in DOMAIN captures' : captures'[c] \in [user : Users, status : Status]
      BY <2>1, <2>2, <2>3
    <2>6. QED
      BY <2>2, <2>4, <2>5 DEF CaptureRows
  <1>3. FactRows(facts, lastFact, n)
    BY <1>0 DEF RowsOK, FactRows, FactRow
  <1>4. entities \subseteq EntityRow(n)
    BY <1>0 DEF RowsOK, EntityRow
  <1>5. n \in 0..MaxCaptures
    BY <1>0, <1>1, Sizes
  <1>6. QED
    BY <1>0, <1>1, <1>2, <1>3, <1>4, <1>5 DEF RowsOK

LEMMA CommandRows ==
  ASSUME TypeInv, NEW u \in Users, Forget(u) \/ forgetEverything(u) \/ SetTier(u)
  PROVE  RowsOK' /\ lastCapture' = lastCapture
  <1>0. FactRows(facts, lastFact, lastCapture) /\ RowsOK
    BY DEF TypeInv, RowsOK
  <1>1. CASE Forget(u)
    <2>1. PICK id \in DOMAIN facts : facts' = Deactivated(u, id)
      BY <1>1 DEF Forget
    <2>2. UNCHANGED <<premium, captures, entities, relations, lastCapture, lastFact>>
      BY <1>1 DEF Forget
    <2>3. FactRows(facts', lastFact', lastCapture')
      BY <1>0, <2>1, <2>2, DeactivatedRowsOK
    <2>4. QED
      BY <1>0, <2>2, <2>3 DEF RowsOK
  <1>2. CASE forgetEverything(u)
    <2>1. /\ captures' = Without(captures, Mine(u, captures))
          /\ facts' = Without(facts, Mine(u, facts))
          /\ entities' \subseteq entities /\ relations' \subseteq relations
          /\ UNCHANGED <<premium, lastCapture, lastFact>>
      BY <1>2 DEF forgetEverything
    <2>2. CaptureRows(captures', lastCapture)
      BY <1>0, <2>1 DEF RowsOK, CaptureRows, Without
    <2>3. FactRows(facts', lastFact, lastCapture)
      BY <1>0, <2>1 DEF FactRows, Without
    <2>4. QED
      BY <1>0, <2>1, <2>2, <2>3 DEF RowsOK
  <1>3. CASE SetTier(u)
    BY <1>0, <1>3 DEF SetTier, RowsOK
  <1>4. QED
    BY <1>1, <1>2, <1>3

(* A tick that rests stays sound when a capture is appended. *)
LEMMA TicksRest ==
  ASSUME TicksOK, UNCHANGED tick, lastCapture \in Nat, lastCapture' \in Nat,
         lastCapture <= lastCapture'
  PROVE  TicksOK'
  <1>1. 1..lastCapture \subseteq 1..lastCapture'
    OBVIOUS
  <1>2. TickRow(lastCapture) \subseteq TickRow(lastCapture')
    BY <1>1 DEF TickRow
  <1>3. \A t \in Ticks : TickOK(tick[t], lastCapture')
    BY <1>2 DEF TicksOK, TickOK
  <1>4. QED
    BY <1>3 DEF TicksOK

LEMMA WriteWriters ==
  ASSUME WritersOK, NEW w \in Writers, Write(w) \/ WriterFails(w)
  PROVE  WritersOK'
  <1> DEFINE Fine(s) == s = NoWriter \/ s \in WriterRow
  <1>1. \E s : Fine(s) /\ writer' = [writer EXCEPT ![w] = s]
    <2>1. ASSUME NEW u \in Users, Begin(w, u)
          PROVE  \E s : Fine(s) /\ writer' = [writer EXCEPT ![w] = s]
      <3>1. MemoryFacts(u) = FactCap
        BY <2>1 DEF Begin, MemoryFacts
      <3>2. [pc |-> "count", user |-> u, cap |-> MemoryFacts(u)] \in WriterRow
        BY <3>1 DEF WriterRow
      <3>3. QED
        BY <2>1, <3>2 DEF Begin
    <2>2. ASSUME countForWriter(w) \/ insertStated(w) \/ appendRemembered(w) \/ WriterFails(w)
          PROVE  \E s : Fine(s) /\ writer' = [writer EXCEPT ![w] = s]
      <3>1. writer[w].pc = "count" \/ writer[w].pc = "insert"
            => /\ Fine([writer[w] EXCEPT !.pc = "insert"])
               /\ Fine([writer[w] EXCEPT !.pc = "append"])
        BY DEF WritersOK, WriterRow, NoWriter
      <3>2. Fine(NoWriter)
        OBVIOUS
      <3>3. CASE countForWriter(w)
        <4>1. \E s \in {NoWriter, [writer[w] EXCEPT !.pc = "insert"]} : writer' = [writer EXCEPT ![w] = s]
          BY <3>3 DEF countForWriter
        <4>2. QED
          BY <3>1, <3>2, <3>3, <4>1 DEF countForWriter
      <3>4. CASE insertStated(w)
        <4>1. \E s \in {NoWriter, [writer[w] EXCEPT !.pc = "append"]} : writer' = [writer EXCEPT ![w] = s]
          BY <3>4 DEF insertStated
        <4>2. QED
          BY <3>1, <3>2, <3>4, <4>1 DEF insertStated
      <3>5. CASE appendRemembered(w) \/ WriterFails(w)
        BY <3>2, <3>5 DEF appendRemembered, WriterFails
      <3>6. QED
        BY <2>2, <3>3, <3>4, <3>5
    <2>3. QED
      BY <2>1, <2>2 DEF Write
  <1>2. PICK s : Fine(s) /\ writer' = [writer EXCEPT ![w] = s]
    BY <1>1
  <1>3. writer' = [v \in Writers |-> IF v = w THEN s ELSE writer[v]]
    BY <1>2 DEF WritersOK
  <1>4. QED
    BY <1>2, <1>3 DEF WritersOK

(* The writers and the history stay typed. *)
LEMMA WritersRest ==
  ASSUME WritersOK, UNCHANGED writer
  PROVE  WritersOK'
  BY DEF WritersOK

LEMMA CallsOK ==
  ASSUME HistoryOK, NEW t
  PROVE  [c \in DOMAIN calls |-> IF c \in tick[t].batch THEN calls[c] + 1 ELSE calls[c]]
            \in [1..MaxCaptures -> Nat]
  BY DEF HistoryOK

LEMMA StepHistory ==
  ASSUME TypeInv, NEW t \in Ticks, Step(t)
  PROVE  HistoryOK' /\ UNCHANGED <<writer, wipes, lost>>
  <1>0. HistoryOK
    BY DEF TypeInv
  <1>1. UNCHANGED <<writer, wipes, lost>>
    BY Zenon DEF Step, distillTick, pendingForUser, create, createFails, getTier,
       countActiveFacts, SkipOp, insertFactRefused, upsertHub, upsert, addRelation,
       addRelationRefused, markDone, markFailed, deactivateFact, supersedeFact, insertFact, history
  <1>2. CASE create(t) \/ createFails(t)
    <2>1. calls' = [c \in DOMAIN calls |-> IF c \in tick[t].batch THEN calls[c] + 1 ELSE calls[c]]
      BY <1>2, Zenon DEF create, createFails
    <2>2. QED
      BY <1>0, <1>1, <2>1, CallsOK DEF HistoryOK
  <1>3. CASE ~(create(t) \/ createFails(t))
    <2>1. UNCHANGED calls
      BY <1>3, Zenon DEF Step, distillTick, pendingForUser, getTier,
         countActiveFacts, SkipOp, insertFactRefused, upsertHub, upsert, addRelation,
         addRelationRefused, markDone, markFailed, deactivateFact, supersedeFact, insertFact, history
    <2>2. QED
      BY <1>0, <1>1, <2>1 DEF HistoryOK
  <1>4. QED
    BY <1>2, <1>3

LEMMA StepTyped ==
  ASSUME TypeInv, NEW t \in Ticks, Step(t)
  PROVE  TypeInv'
  <1>1. RowsOK /\ TicksOK /\ WritersOK /\ HistoryOK
    BY DEF TypeInv
  <1>2. TicksOK'
    BY <1>1, ReadTicks, ApplyTicks, LinkTicks, EndTicks DEF Step
  <1>3. RowsOK'
    BY StepRows
  <1>4. HistoryOK' /\ WritersOK'
    BY <1>1, StepHistory, WritersRest
  <1>5. QED
    BY <1>2, <1>3, <1>4 DEF TypeInv

LEMMA WriteTyped ==
  ASSUME TypeInv, NEW w \in Writers, Write(w)
  PROVE  TypeInv'
  <1>1. RowsOK /\ TicksOK /\ WritersOK /\ HistoryOK /\ lastCapture \in Nat
    BY Sizes DEF TypeInv, RowsOK
  <1>2. WritersOK'
    BY <1>1, WriteWriters
  <1>3. UNCHANGED tick /\ HistoryOK'
    BY <1>1 DEF Write, Begin, countForWriter, insertStated, appendRemembered, Append1, history,
       HistoryOK
  <1>4. RowsOK' /\ lastCapture' \in Nat /\ lastCapture <= lastCapture'
    <2>1. CASE insertStated(w)
      <3>1. lastCapture' = lastCapture
        BY <2>1 DEF insertStated
      <3>2. QED
        BY <1>1, <2>1, <3>1, WriteRows
    <2>2. CASE appendRemembered(w)
      <3>1. writer[w].user \in Users
        BY <1>1, <2>2 DEF appendRemembered, WritersOK, NoWriter, WriterRow
      <3>2. Append1(writer[w].user)
        BY <2>2 DEF appendRemembered
      <3>3. QED
        BY <1>1, <3>1, <3>2, AppendRows
    <2>3. CASE \E u \in Users : Begin(w, u)
      <3>1. UNCHANGED tables
        BY <2>3, Zenon DEF Begin
      <3>2. QED
        BY <1>1, <3>1 DEF tables, RowsOK
    <2>4. CASE countForWriter(w)
      <3>1. UNCHANGED tables
        BY <2>4, Zenon DEF countForWriter
      <3>2. QED
        BY <1>1, <3>1 DEF tables, RowsOK
    <2>5. QED
      BY <2>1, <2>2, <2>3, <2>4 DEF Write
  <1>5. TicksOK'
    BY <1>1, <1>3, <1>4, TicksRest
  <1>6. QED
    BY <1>2, <1>3, <1>4, <1>5 DEF TypeInv

LEMMA CommandTyped ==
  ASSUME TypeInv, NEW u \in Users, Command(u)
  PROVE  TypeInv'
  <1>1. RowsOK /\ TicksOK /\ WritersOK /\ HistoryOK /\ lastCapture \in Nat
    BY Sizes DEF TypeInv, RowsOK
  <1>2. UNCHANGED <<tick, writer>>
    BY Zenon DEF Command, append, Append1, Forget, forgetEverything, SetTier
  <1>3. RowsOK' /\ lastCapture' \in Nat /\ lastCapture <= lastCapture'
    BY <1>1, AppendRows, CommandRows DEF Command, append
  <1>4. HistoryOK'
    <2>1. CASE forgetEverything(u)
      <3>1. wipes' = [wipes EXCEPT ![u] = wipes[u] + 1] /\ wipes[u] < MaxWipes /\ UNCHANGED <<calls, lost>>
        BY <2>1 DEF forgetEverything
      <3>2. QED
        BY <1>1, <3>1, Sizes DEF HistoryOK
    <2>2. CASE append(u) \/ Forget(u) \/ SetTier(u)
      BY <1>1, <2>2 DEF append, Append1, Forget, SetTier, history, HistoryOK
    <2>3. QED
      BY <2>1, <2>2 DEF Command
  <1>5. TicksOK' /\ WritersOK'
    BY <1>1, <1>2, <1>3, TicksRest, WritersRest
  <1>6. QED
    BY <1>3, <1>4, <1>5 DEF TypeInv

(* A batch under way is lost when the process ends. *)
LEMMA UnderWayFinite ==
    IsFiniteSet(UnderWay) /\ Cardinality(UnderWay) \in Nat
  <1>1. UnderWay \subseteq Ticks
    BY DEF UnderWay
  <1>2. QED
    BY <1>1, TicksAssumption, PartOf

LEMMA OutageTyped ==
  ASSUME TypeInv, Outage
  PROVE  TypeInv'
  <1>1. RowsOK /\ TicksOK /\ WritersOK /\ HistoryOK /\ lastCapture \in Nat
    BY Sizes DEF TypeInv, RowsOK
  <1>2. UNCHANGED tables
    BY Zenon DEF Outage, StatementFails, markFails, WriterFails, Restart
  <1>3. RowsOK' /\ lastCapture' = lastCapture
    BY <1>1, <1>2 DEF tables, RowsOK
  <1>4. HistoryOK'
    <2>1. lost' \in 0..MaxLost /\ UNCHANGED <<wipes, calls>>
      <3>1. lost \in 0..MaxLost
        BY <1>1 DEF HistoryOK
      <3>2. CASE Restart
        <4>1. lost + Cardinality(UnderWay) <= MaxLost /\ lost' = lost + Cardinality(UnderWay)
              /\ UNCHANGED <<wipes, calls>>
          BY <3>2 DEF Restart
        <4>2. QED
          BY <3>1, <4>1, UnderWayFinite, Sizes
      <3>3. CASE ~Restart
        BY <3>1, <3>3, Sizes DEF Outage, StatementFails, markFails, WriterFails, history
      <3>4. QED
        BY <3>2, <3>3
    <2>2. QED
      BY <1>1, <2>1 DEF HistoryOK
  <1>5. TicksOK' /\ WritersOK'
    <2>1. CASE \E t \in Ticks : StatementFails(t) \/ markFails(t)
      <3>1. UNCHANGED writer
        BY <2>1, Zenon DEF StatementFails, markFails
      <3>2. QED
        BY <1>1, <2>1, <3>1, EndTicks, WritersRest
    <2>2. CASE \E w \in Writers : WriterFails(w)
      <3>1. UNCHANGED tick
        BY <2>2, Zenon DEF WriterFails
      <3>2. QED
        BY <1>1, <1>3, <2>2, <3>1, TicksRest, WriteWriters
    <2>3. CASE Restart
      <3>1. tick' = [t \in Ticks |-> Idle] /\ writer' = [w \in Writers |-> NoWriter]
        BY <2>3 DEF Restart
      <3>2. TickOK(Idle, lastCapture')
        BY <1>1, <1>3, IdleOK
      <3> HIDE DEF Idle
      <3>3. QED
        BY <3>1, <3>2 DEF TicksOK, WritersOK
    <2>4. QED
      BY <2>1, <2>2, <2>3 DEF Outage
  <1>6. QED
    BY <1>3, <1>4, <1>5 DEF TypeInv

LEMMA InitTyped == Init => TypeInv
  <1> SUFFICES ASSUME Init PROVE TypeInv
    OBVIOUS
  <1>1. RowsOK
    BY Sizes DEF Init, RowsOK, CaptureRows, FactRows
  <1>2. TicksOK
    <2>1. tick = [t \in Ticks |-> Idle] /\ lastCapture = 0
      BY DEF Init
    <2>2. TickOK(Idle, 0)
      BY IdleOK
    <2> HIDE DEF Idle
    <2>3. QED
      BY <2>1, <2>2 DEF TicksOK
  <1>3. WritersOK /\ HistoryOK
    BY Sizes DEF Init, WritersOK, HistoryOK
  <1>4. QED
    BY <1>1, <1>2, <1>3 DEF TypeInv

LEMMA NextTyped == TypeInv /\ [Next]_vars => TypeInv'
  <1> SUFFICES ASSUME TypeInv, [Next]_vars PROVE TypeInv'
    OBVIOUS
  <1>1. CASE Work
    BY <1>1, StepTyped, WriteTyped, CommandTyped DEF Work
  <1>2. CASE Outage
    BY <1>2, OutageTyped
  <1>3. CASE UNCHANGED vars
    BY <1>3 DEF vars, tables, history, TypeInv, RowsOK, TicksOK, WritersOK, HistoryOK
  <1>4. QED
    BY <1>1, <1>2, <1>3 DEF Next

(* Every variable keeps its type: the ids in a row are of rows handed out before, a tick past
   its load holds a batch within CAPTURES_PER_BATCH of captures that existed, and a batch has
   no more operations and mentions than the answer of the model may have
   (distillService.ts:9-12, :133-148). *)
THEOREM TypeCorrect == Spec => []TypeOK
  <1>1. TypeInv => TypeOK
    <2> SUFFICES ASSUME TypeInv PROVE TypeOK
      OBVIOUS
    <2>1. RowsOK /\ TicksOK /\ WritersOK /\ HistoryOK
      BY DEF TypeInv
    <2>2. \A t \in Ticks :
            /\ tick[t].pc \in Pc
            /\ tick[t].pc # "idle" => tick[t].todo # <<>>
            /\ Len(tick[t].todo) <= UsersPerTick /\ ToSet(tick[t].todo) \subseteq Users
            /\ tick[t].pc \notin {"idle", "load"} => tick[t].batch # {}
            /\ Cardinality(tick[t].batch) <= CapturesPerBatch /\ tick[t].batch \subseteq 1..lastCapture
            /\ tick[t].ops \in 0..MaxOps
            /\ tick[t].pc \in {"mention", "relate"} => tick[t].mentions \in 1..MaxMentions
      <3> SUFFICES ASSUME NEW t \in Ticks
                   PROVE  /\ tick[t].pc \in Pc
                          /\ tick[t].pc # "idle" => tick[t].todo # <<>>
                          /\ Len(tick[t].todo) <= UsersPerTick /\ ToSet(tick[t].todo) \subseteq Users
                          /\ tick[t].pc \notin {"idle", "load"} => tick[t].batch # {}
                          /\ Cardinality(tick[t].batch) <= CapturesPerBatch /\ tick[t].batch \subseteq 1..lastCapture
                          /\ tick[t].ops \in 0..MaxOps
                          /\ tick[t].pc \in {"mention", "relate"} => tick[t].mentions \in 1..MaxMentions
        OBVIOUS
      <3>1. TickOK(tick[t], lastCapture)
        BY <2>1 DEF TicksOK
      <3>2. tick[t] \in TickRow(lastCapture)
        BY <3>1 DEF TickOK
      <3>3. ToSet(tick[t].todo) \subseteq Users
        BY <3>2, ElementOfSeq, LenProperties DEF TickRow, ToSet
      <3>4. tick[t].mentions # 0 => tick[t].mentions \in 1..MaxMentions
        BY <3>2, Sizes DEF TickRow
      <3>5. tick[t].pc \in Pc /\ tick[t].ops \in 0..MaxOps /\ tick[t].batch \subseteq 1..lastCapture
        BY <3>2 DEF TickRow
      <3>6. QED
        BY <3>1, <3>3, <3>4, <3>5 DEF TickOK, Working
    <2>3. \A w \in Writers : writer[w] = NoWriter \/ writer[w] \in WriterRow
      BY <2>1 DEF WritersOK
    <2>4. /\ premium \subseteq Users
          /\ DOMAIN captures \subseteq 1..lastCapture /\ lastCapture \in 0..MaxCaptures
          /\ \A c \in DOMAIN captures : captures[c] \in [user : Users, status : Status]
          /\ DOMAIN facts \subseteq 1..lastFact /\ lastFact \in 0..MaxFacts
          /\ \A f \in DOMAIN facts : facts[f] \in FactRow(f, lastCapture)
          /\ entities \subseteq EntityRow(lastCapture)
          /\ relations \subseteq RelationRow
      BY <2>1 DEF RowsOK, CaptureRows, FactRows
    <2>5. QED
      BY <2>1, <2>2, <2>3, <2>4 DEF TypeOK, HistoryOK, WriterRow, Status, FactRow, EntityRow, RelationRow
  <1>2. QED
    BY <1>1, InitTyped, NextTyped, PTL DEF Spec

-----------------------------------------------------------------------------
(* How a tick moves.  It carries its batch on, past the model's answer; it loads one; or it
   lets its batch go. *)
Carries(t) ==
    /\ tick[t].pc \in Working /\ tick'[t].pc \in Working \ {"create"}
    /\ tick'[t].batch = tick[t].batch /\ tick'[t].todo = tick[t].todo
Loads(t) ==
    /\ tick[t].pc = "load" /\ tick'[t].pc = "create"
    /\ tick'[t].batch = Batch(User(t)) /\ tick'[t].todo = tick[t].todo
LetsGo(t) == tick'[t].batch = {}

(* The outcomes of the three ways to rewrite the state of a tick. *)
LEMMA Moved ==
  ASSUME TicksOK, NEW t \in Ticks, NEW new, tick' = [tick EXCEPT ![t] = new]
  PROVE  tick'[t] = new /\ \A s \in Ticks \ {t} : tick'[s] = tick[s]
  BY DEF TicksOK

LEMMA NextUserMoves ==
  ASSUME TicksOK, NEW t \in Ticks, NextUser(t)
  PROVE  LetsGo(t) /\ tick'[t].pc \in {"idle", "load"} /\ \A s \in Ticks \ {t} : tick'[s] = tick[s]
  <1> DEFINE new == IF Len(tick[t].todo) > 1
                    THEN [Idle EXCEPT !.pc = "load", !.todo = Tail(tick[t].todo)] ELSE Idle
  <1>1. tick' = [tick EXCEPT ![t] = new]
    BY DEF NextUser
  <1>2. new.batch = {} /\ new.pc \in {"idle", "load"}
    BY DEF Idle
  <1> HIDE DEF new
  <1>3. QED
    BY <1>1, <1>2, Moved DEF LetsGo

LEMMA FailMoves ==
  ASSUME TicksOK, NEW t \in Ticks, tick[t].pc \in Working, Fail(t)
  PROVE  Carries(t) /\ tick'[t].pc = "failed" /\ \A s \in Ticks \ {t} : tick'[s] = tick[s]
  <1> DEFINE new == [Idle EXCEPT !.pc = "failed", !.todo = tick[t].todo, !.batch = tick[t].batch]
  <1>1. tick' = [tick EXCEPT ![t] = new]
    BY DEF Fail
  <1>2. new.batch = tick[t].batch /\ new.todo = tick[t].todo /\ new.pc = "failed"
    BY DEF Idle
  <1> HIDE DEF new
  <1>3. QED
    BY <1>1, <1>2, Moved DEF Carries, Working, Pc

(* The steps of a batch that only count, apply or link. *)
Applies(t) ==
    \/ create(t) \/ getTier(t) \/ countActiveFacts(t) \/ SkipOp(t) \/ deactivateFact(t)
    \/ supersedeFact(t) \/ insertFact(t) \/ upsertHub(t) \/ upsert(t) \/ addRelation(t)

LEMMA MentionMoves ==
  ASSUME TicksOK, NEW t \in Ticks, NextMention(t)
  PROVE  /\ tick'[t].pc \in {"mention", "apply"}
         /\ tick'[t].batch = tick[t].batch /\ tick'[t].todo = tick[t].todo
         /\ tick'[t].cap = tick[t].cap /\ tick'[t].count = tick[t].count
         /\ \A s \in Ticks \ {t} : tick'[s] = tick[s]
  <1> DEFINE s == tick[t]
             new == IF s.mentions > 1
                    THEN [s EXCEPT !.pc = "mention", !.mentions = s.mentions - 1]
                    ELSE [s EXCEPT !.pc = "apply", !.mentions = 0, !.fact = 0, !.hub = 0]
  <1>1. tick' = [tick EXCEPT ![t] = new]
    BY DEF NextMention
  <1>2. s \in TickRow(lastCapture)
    BY DEF TicksOK, TickOK
  <1>3. /\ new.pc \in {"mention", "apply"} /\ new.batch = s.batch /\ new.todo = s.todo
        /\ new.cap = s.cap /\ new.count = s.count
    BY <1>2 DEF TickRow
  <1> HIDE DEF new
  <1>4. QED
    BY <1>1, <1>3, Moved

(* Whatever else they do, the steps of a batch keep its user, and its limit and count too,
   but for the step that sets them. *)
LEMMA AppliesMoves ==
  ASSUME TicksOK, NEW t \in Ticks, Applies(t)
  PROVE  /\ Carries(t) /\ \A s \in Ticks \ {t} : tick'[s] = tick[s]
         /\ \/ getTier(t) /\ tick'[t].pc = "count"
            \/ create(t) /\ tick'[t].pc = "getTier"
            \/ countActiveFacts(t) /\ tick'[t].pc = "apply" /\ tick'[t].cap = tick[t].cap
               /\ tick'[t].count = Cardinality(Active(User(t)))
            \/ insertFact(t) /\ tick'[t].pc \in {"apply", "hub"} /\ tick'[t].cap = tick[t].cap
               /\ tick'[t].count = tick[t].count + 1
            \/ /\ SkipOp(t) \/ deactivateFact(t) \/ supersedeFact(t) \/ upsertHub(t) \/ upsert(t)
                  \/ addRelation(t)
               /\ tick[t].pc \in {"apply", "hub", "mention", "relate"}
               /\ tick'[t].pc \in {"apply", "hub", "mention", "relate"}
               /\ tick'[t].cap = tick[t].cap /\ tick'[t].count = tick[t].count
  <1> DEFINE s == tick[t]
  <1>1. s \in TickRow(lastCapture)
    BY DEF TicksOK, TickOK
  <1>2. CASE create(t)
    <2>1. PICK n \in 0..MaxOps : tick' = [tick EXCEPT ![t] = [s EXCEPT !.pc = "getTier", !.ops = n]]
      BY <1>2 DEF create
    <2> DEFINE new == [s EXCEPT !.pc = "getTier", !.ops = n]
    <2>2. new.batch = s.batch /\ new.todo = s.todo /\ new.pc = "getTier"
      BY <1>1 DEF TickRow
    <2>3. s.pc = "create"
      BY <1>2 DEF create, At
    <2>4. tick' = [tick EXCEPT ![t] = new]
      BY <2>1
    <2> HIDE DEF new
    <2>5. QED
      BY <1>2, <2>2, <2>3, <2>4, Moved DEF Carries, Working, Pc
  <1>3. CASE getTier(t)
    <2> DEFINE new == [s EXCEPT !.pc = "count", !.cap = MemoryFacts(User(t))]
    <2>1. tick' = [tick EXCEPT ![t] = new] /\ s.pc = "getTier"
      BY <1>3 DEF getTier, At
    <2>2. new.batch = s.batch /\ new.todo = s.todo /\ new.pc = "count"
      BY <1>1 DEF TickRow
    <2> HIDE DEF new
    <2>3. QED
      BY <1>3, <2>1, <2>2, Moved DEF Carries, Working, Pc
  <1>4. CASE countActiveFacts(t)
    <2> DEFINE n == Cardinality(Active(User(t)))
               new == [s EXCEPT !.pc = "apply", !.count = n]
    <2>1. tick' = [tick EXCEPT ![t] = new] /\ s.pc = "count"
      BY <1>4 DEF countActiveFacts, At
    <2>2. new.batch = s.batch /\ new.todo = s.todo /\ new.pc = "apply" /\ new.cap = s.cap /\ new.count = n
      BY <1>1 DEF TickRow
    <2> HIDE DEF new
    <2>3. QED
      BY <1>4, <2>1, <2>2, Moved DEF Carries, Working, Pc
  <1>5. CASE insertFact(t)
    <2>1. PICK mentions \in 0..MaxMentions :
            tick' = [tick EXCEPT ![t].pc = IF mentions = 0 THEN "apply" ELSE "hub",
                                 ![t].ops = tick[t].ops - 1, ![t].count = tick[t].count + 1,
                                 ![t].fact = IF mentions = 0 THEN 0 ELSE lastFact',
                                 ![t].mentions = mentions]
      BY <1>5 DEF insertFact
    <2> DEFINE pc == IF mentions = 0 THEN "apply" ELSE "hub"
               fact == IF mentions = 0 THEN 0 ELSE lastFact'
               new == [s EXCEPT !.pc = pc, !.ops = s.ops - 1, !.count = s.count + 1,
                                !.fact = fact, !.mentions = mentions]
    <2>2. tick' = [tick EXCEPT ![t] = new]
      BY <2>1
    <2>2a. s.pc = "apply"
      BY <1>5 DEF insertFact, At
    <2>3. pc \in {"apply", "hub"}
      OBVIOUS
    <2> HIDE DEF pc, fact
    <2>4. /\ new.batch = s.batch /\ new.todo = s.todo /\ new.pc = pc
          /\ new.cap = s.cap /\ new.count = s.count + 1
      BY <1>1 DEF TickRow
    <2> HIDE DEF new
    <2>5. QED
      BY <1>5, <2>2, <2>2a, <2>3, <2>4, Moved DEF Carries, Working, Pc
  <1>6. CASE SkipOp(t) \/ deactivateFact(t) \/ supersedeFact(t)
    <2> DEFINE new == [s EXCEPT !.ops = s.ops - 1]
    <2>1. tick' = [tick EXCEPT ![t] = new] /\ s.pc = "apply"
      BY <1>6 DEF SkipOp, deactivateFact, supersedeFact, OpDone, At
    <2>2. /\ new.batch = s.batch /\ new.todo = s.todo /\ new.pc = "apply"
          /\ new.cap = s.cap /\ new.count = s.count
      BY <1>1, <2>1 DEF TickRow
    <2> HIDE DEF new
    <2>3. tick'[t] = new /\ \A r \in Ticks \ {t} : tick'[r] = tick[r]
      BY <2>1, Moved
    <2>4. Carries(t)
      BY <2>1, <2>2, <2>3 DEF Carries, Working, Pc
    <2>5. /\ tick[t].pc \in {"apply", "hub", "mention", "relate"}
          /\ tick'[t].pc \in {"apply", "hub", "mention", "relate"}
          /\ tick'[t].cap = tick[t].cap /\ tick'[t].count = tick[t].count
      BY <2>1, <2>2, <2>3
    <2>6. QED
      BY <1>6, <2>3, <2>4, <2>5
  <1>7. CASE upsertHub(t)
    <2>1. PICK hub : tick' = [tick EXCEPT ![t] = [s EXCEPT !.pc = "mention", !.hub = hub]]
      BY <1>7 DEF upsertHub
    <2> DEFINE new == [s EXCEPT !.pc = "mention", !.hub = hub]
    <2>2. /\ new.batch = s.batch /\ new.todo = s.todo /\ new.pc = "mention"
          /\ new.cap = s.cap /\ new.count = s.count
      BY <1>1 DEF TickRow
    <2>3. s.pc = "hub"
      BY <1>7 DEF upsertHub, At
    <2>4. tick' = [tick EXCEPT ![t] = new]
      BY <2>1
    <2> HIDE DEF new
    <2>5. QED
      BY <1>7, <2>2, <2>3, <2>4, Moved DEF Carries, Working, Pc
  <1>8. CASE upsert(t) \/ addRelation(t)
    <2>1. s.pc \in {"mention", "relate"}
      BY <1>8 DEF upsert, addRelation, At
    <2>3. CASE NextMention(t)
      BY <1>8, <2>1, <2>3, MentionMoves DEF Carries, Working, Pc
    <2>4. CASE ~NextMention(t)
      <3>1. PICK name \in Names :
              /\ entities' = Upserted(User(t), name, Origin(t))
              /\ IF tick[t].hub = NoHub \/ (name = Main /\ tick[t].hub = wipes[User(t)])
                 THEN NextMention(t)
                 ELSE tick' = [tick EXCEPT ![t].pc = "relate", ![t].to = wipes[User(t)], ![t].name = name]
        BY <1>8, <2>4 DEF upsert, addRelation
      <3> DEFINE new == [s EXCEPT !.pc = "relate", !.to = wipes[User(t)], !.name = name]
      <3>2. tick' = [tick EXCEPT ![t] = new]
        BY <2>4, <3>1
      <3>3. /\ new.batch = s.batch /\ new.todo = s.todo /\ new.pc = "relate"
            /\ new.cap = s.cap /\ new.count = s.count
        BY <1>1 DEF TickRow
      <3> HIDE DEF new
      <3>4. QED
        BY <1>8, <2>1, <3>2, <3>3, Moved DEF Carries, Working, Pc
    <2>5. QED
      BY <2>3, <2>4
  <1>9. QED
    BY <1>2, <1>3, <1>4, <1>5, <1>6, <1>7, <1>8 DEF Applies

Ends(t) ==
    \/ createFails(t) \/ insertFactRefused(t) \/ addRelationRefused(t) \/ markDone(t)
    \/ markFailed(t) \/ StatementFails(t) \/ markFails(t)

LEMMA StepKinds ==
  ASSUME NEW t \in Ticks
  PROVE  (Step(t) \/ StatementFails(t) \/ markFails(t))
            <=> (distillTick(t) \/ pendingForUser(t) \/ Applies(t) \/ Ends(t))
  BY DEF Step, Applies, Ends

LEMMA EndsMoves ==
  ASSUME TicksOK, NEW t \in Ticks, Ends(t)
  PROVE  /\ \A s \in Ticks \ {t} : tick'[s] = tick[s]
         /\ \/ Carries(t) /\ tick'[t].pc = "failed" /\ UNCHANGED captures
            \/ LetsGo(t) /\ tick'[t].pc \in {"idle", "load"}
  <1>1. \/ tick[t].pc \in Working /\ Fail(t) /\ UNCHANGED captures
        \/ NextUser(t)
    BY DEF Ends, createFails, insertFactRefused, addRelationRefused, markDone, markFailed,
       StatementFails, markFails, At, Working, Pc, tables
  <1>2. QED
    BY <1>1, FailMoves, NextUserMoves

LEMMA LoadsMoves ==
  ASSUME TicksOK, NEW t \in Ticks, distillTick(t) \/ pendingForUser(t)
  PROVE  /\ \A s \in Ticks \ {t} : tick'[s] = tick[s]
         /\ (LetsGo(t) /\ tick'[t].pc \in {"idle", "load"}) \/ Loads(t)
         /\ UNCHANGED captures
         /\ tick[t].batch = {}
  <1>1. UNCHANGED captures
    BY DEF distillTick, pendingForUser, tables
  <1>2. tick[t] \in TickRow(lastCapture) /\ tick[t].batch = {}
    BY DEF TicksOK, TickOK, distillTick, pendingForUser, At, Working
  <1>3. CASE distillTick(t)
    <2>1. PICK queue \in OldestFirst(Backlog) :
            tick' = [tick EXCEPT ![t] = [Idle EXCEPT !.pc = "load", !.todo = AtMost(UsersPerTick, queue)]]
      BY <1>3 DEF distillTick
    <2> DEFINE new == [Idle EXCEPT !.pc = "load", !.todo = AtMost(UsersPerTick, queue)]
    <2>2. tick' = [tick EXCEPT ![t] = new]
      BY <2>1
    <2>3. new.batch = {} /\ new.pc = "load"
      BY DEF Idle
    <2> HIDE DEF new
    <2>4. QED
      BY <1>1, <1>2, <2>2, <2>3, Moved DEF LetsGo
  <1>4. CASE pendingForUser(t)
    <2>1. CASE NextUser(t)
      BY <1>1, <1>2, <2>1, NextUserMoves
    <2>2. CASE ~NextUser(t)
      <3> DEFINE new == [tick[t] EXCEPT !.pc = "create", !.batch = Batch(User(t))]
      <3>1. tick' = [tick EXCEPT ![t] = new]
        BY <1>4, <2>2 DEF pendingForUser
      <3>2. new.pc = "create" /\ new.batch = Batch(User(t)) /\ new.todo = tick[t].todo
        BY <1>2 DEF TickRow
      <3>3. tick[t].pc = "load"
        BY <1>4 DEF pendingForUser, At
      <3> HIDE DEF new
      <3>4. QED
        BY <1>1, <1>2, <3>1, <3>2, <3>3, Moved DEF Loads
    <2>3. QED
      BY <2>1, <2>2
  <1>5. QED
    BY <1>3, <1>4
-----------------------------------------------------------------------------
(* Forgetting.  A fact that stems from a capture belongs to the user of that capture, as do
   the captures of a batch, so a wipe takes the facts with the captures. *)
Stems(row, rows) == row.origin \in DOMAIN rows /\ rows[row.origin].user = row.user
FactsStem(table, rows) ==
    \A f \in DOMAIN table : table[f].origin # 0 /\ table[f].supersedes = 0 => Stems(table[f], rows)
BatchesOwned ==
    \A t \in Ticks : \A c \in tick[t].batch \cap DOMAIN captures : captures[c].user = User(t)
Owned == FactsStem(facts, captures) /\ BatchesOwned

LEMMA DeactivatedStem ==
  ASSUME FactRows(facts, lastFact, lastCapture), NEW rows, FactsStem(facts, rows), NEW u, NEW id
  PROVE  FactsStem(Deactivated(u, id), rows)
  <1>1. CASE id \in DOMAIN facts /\ facts[id].user = u
    <2> DEFINE row == [facts[id] EXCEPT !.active = FALSE]
               new == [facts EXCEPT ![id] = row]
    <2>1. Deactivated(u, id) = new
      BY <1>1 DEF Deactivated
    <2>2. row.user = facts[id].user /\ row.origin = facts[id].origin /\ row.supersedes = facts[id].supersedes
      BY <1>1 DEF FactRows, FactRow
    <2> HIDE DEF row
    <2>3. DOMAIN new = DOMAIN facts /\ \A f \in DOMAIN facts : new[f] = IF f = id THEN row ELSE facts[f]
      BY DEF FactRows
    <2> HIDE DEF new
    <2>4. QED
      BY <2>1, <2>2, <2>3 DEF FactsStem, Stems
  <1>2. CASE ~(id \in DOMAIN facts /\ facts[id].user = u)
    BY <1>2 DEF Deactivated
  <1>3. QED
    BY <1>1, <1>2

LEMMA InsertedStem ==
  ASSUME NEW table, NEW rows, FactsStem(table, rows), NEW n, NEW row,
         row.origin # 0 /\ row.supersedes = 0 => Stems(row, rows)
  PROVE  FactsStem(With(table, n, row), rows)
  <1> DEFINE new == With(table, n, row)
  <1>1. DOMAIN new = DOMAIN table \cup {n} /\ \A f \in DOMAIN new : new[f] = IF f = n THEN row ELSE table[f]
    BY DEF With
  <1> HIDE DEF new
  <1>2. FactsStem(new, rows)
    BY <1>1 DEF FactsStem, Stems
  <1>3. QED
    BY <1>2 DEF new

(* Captures that keep their users and disappear with the facts that stem from them. *)
LEMMA StepFactsStem ==
  ASSUME TypeInv, Owned, NEW t \in Ticks, Step(t)
  PROVE  FactsStem(facts', captures')
  <1>0. FactRows(facts, lastFact, lastCapture) /\ CaptureRows(captures, lastCapture)
        /\ TicksOK /\ lastCapture \in Nat /\ FactsStem(facts, captures)
    BY Sizes DEF TypeInv, RowsOK, Owned
  <1>1. CASE deactivateFact(t)
    <2>1. PICK id \in 1..lastFact : facts' = Deactivated(User(t), id)
      BY <1>1 DEF deactivateFact
    <2>2. UNCHANGED captures
      BY <1>1 DEF deactivateFact
    <2>3. QED
      BY <1>0, <2>1, <2>2, DeactivatedStem
  <1>2. CASE supersedeFact(t)
    <2> DEFINE row(old) == [user |-> User(t), active |-> TRUE, supersedes |-> old, origin |-> Origin(t)]
    <2>1. PICK old \in 1..lastFact : facts' = With(Deactivated(User(t), old), lastFact', row(old))
      BY <1>2 DEF supersedeFact
    <2>2. UNCHANGED captures
      BY <1>2 DEF supersedeFact
    <2>3. row(old).supersedes # 0
      OBVIOUS
    <2> HIDE DEF row
    <2>4. FactsStem(Deactivated(User(t), old), captures)
      BY <1>0, DeactivatedStem
    <2>5. QED
      BY <2>1, <2>2, <2>3, <2>4, InsertedStem
  <1>3. CASE insertFact(t)
    <2> DEFINE row == [user |-> User(t), active |-> TRUE, supersedes |-> 0, origin |-> Origin(t)]
    <2>1. facts' = With(facts, lastFact', row) /\ UNCHANGED captures
      BY <1>3 DEF insertFact
    <2>2. Origin(t) \in DOMAIN captures /\ tick[t].pc \in Working
      BY <1>3 DEF insertFact, At, Working, Pc
    <2>3. Origin(t) \in tick[t].batch
      BY <1>0, <2>2, OriginOK
    <2>4. captures[Origin(t)].user = User(t)
      BY <2>2, <2>3 DEF Owned, BatchesOwned
    <2>5. Stems(row, captures)
      BY <2>2, <2>4 DEF Stems
    <2> HIDE DEF row
    <2>6. QED
      BY <1>0, <2>1, <2>5, InsertedStem
  <1>4. CASE markDone(t) \/ markFailed(t)
    <2>1. PICK status : captures' = Marked(tick[t].batch, status)
      BY <1>4 DEF markDone, markFailed
    <2>2. UNCHANGED facts
      BY <1>4 DEF markDone, markFailed
    <2>3. DOMAIN captures' = DOMAIN captures /\ \A c \in DOMAIN captures : captures'[c].user = captures[c].user
      BY <1>0, <2>1 DEF Marked, CaptureRows
    <2>4. QED
      BY <1>0, <2>2, <2>3 DEF FactsStem, Stems
  <1>5. CASE ~(deactivateFact(t) \/ supersedeFact(t) \/ insertFact(t) \/ markDone(t) \/ markFailed(t))
    <2>1. UNCHANGED <<facts, captures>>
      BY <1>5 DEF Step, distillTick, pendingForUser, create, createFails, getTier,
         countActiveFacts, SkipOp, insertFactRefused, upsertHub, upsert, addRelation,
         addRelationRefused, tables
    <2>2. QED
      BY <1>0, <2>1
  <1>6. QED
    BY <1>1, <1>2, <1>3, <1>4, <1>5

LEMMA StepBatches ==
  ASSUME TypeInv, Owned, NEW t \in Ticks, Step(t) \/ StatementFails(t) \/ markFails(t)
  PROVE  BatchesOwned'
  <1>0. TicksOK /\ CaptureRows(captures, lastCapture)
    BY DEF TypeInv, RowsOK
  <1>1. DOMAIN captures' = DOMAIN captures /\ \A c \in DOMAIN captures : captures'[c].user = captures[c].user
    <2>1. CASE markDone(t) \/ markFailed(t)
      <3>1. PICK status : captures' = Marked(tick[t].batch, status)
        BY <2>1 DEF markDone, markFailed
      <3>2. QED
        BY <1>0, <3>1 DEF Marked, CaptureRows
    <2>2. CASE ~(markDone(t) \/ markFailed(t))
      <3>1. UNCHANGED captures
        BY <2>2 DEF Step, distillTick, pendingForUser, create, createFails, getTier,
           countActiveFacts, SkipOp, insertFactRefused, upsertHub, upsert, addRelation,
           addRelationRefused, deactivateFact, supersedeFact, insertFact, StatementFails,
           markFails, tables
      <3>2. QED
        BY <3>1
    <2>3. QED
      BY <2>1, <2>2
  <1>2. /\ \A s \in Ticks \ {t} : tick'[s] = tick[s]
        /\ Carries(t) \/ Loads(t) \/ LetsGo(t)
    BY <1>0, StepKinds, EndsMoves, LoadsMoves, AppliesMoves
  <1>3. ASSUME NEW s \in Ticks, NEW c \in tick'[s].batch \cap DOMAIN captures'
        PROVE  captures'[c].user = Head(tick'[s].todo)
    <2>1. CASE tick'[s].batch = tick[s].batch /\ tick'[s].todo = tick[s].todo
      BY <1>1, <1>3, <2>1 DEF Owned, BatchesOwned, User
    <2>2. CASE s = t /\ Loads(t)
      BY <1>1, <1>3, <2>2 DEF Loads, Batch, Pending, User
    <2>3. CASE s = t /\ LetsGo(t)
      BY <1>3, <2>3 DEF LetsGo
    <2>4. QED
      BY <1>2, <2>1, <2>2, <2>3 DEF Carries
  <1>4. QED
    BY <1>3 DEF BatchesOwned, User

(* Every other action leaves the batches alone or drops them all. *)
LEMMA OthersOwned ==
  ASSUME TypeInv, Owned,
         \/ \E w \in Writers : Write(w) \/ WriterFails(w)
         \/ \E u \in Users : Command(u)
         \/ Restart
  PROVE  Owned'
  <1>0. /\ FactRows(facts, lastFact, lastCapture) /\ CaptureRows(captures, lastCapture)
        /\ TicksOK /\ lastCapture \in Nat /\ FactsStem(facts, captures) /\ BatchesOwned
    BY Sizes DEF TypeInv, RowsOK, Owned
  <1>1. ASSUME UNCHANGED <<facts, captures, tick>>
        PROVE  Owned'
    BY <1>0, <1>1 DEF Owned, BatchesOwned, User
  <1>2. ASSUME NEW w \in Writers, insertStated(w)
        PROVE  Owned'
    <2> DEFINE row == [user |-> writer[w].user, active |-> TRUE, supersedes |-> 0, origin |-> 0]
    <2>1. facts' = With(facts, lastFact', row) /\ UNCHANGED <<captures, tick>>
      BY <1>2 DEF insertStated
    <2>2. row.origin = 0
      OBVIOUS
    <2> HIDE DEF row
    <2>3. FactsStem(facts', captures')
      BY <1>0, <2>1, <2>2, InsertedStem
    <2>4. QED
      BY <1>0, <2>1, <2>3 DEF Owned, BatchesOwned, User
  <1>3. ASSUME NEW u, Append1(u)
        PROVE  Owned'
    <2>1. /\ captures' = With(captures, lastCapture + 1, [user |-> u, status |-> "pending"])
          /\ UNCHANGED <<facts, tick>>
      BY <1>3 DEF Append1
    <2>2. /\ DOMAIN captures' = DOMAIN captures \cup {lastCapture + 1}
          /\ \A c \in DOMAIN captures : c # lastCapture + 1 /\ captures'[c] = captures[c]
      BY <1>0, <2>1 DEF With, CaptureRows
    <2>3. FactsStem(facts', captures')
      BY <1>0, <2>1, <2>2 DEF FactsStem, Stems
    <2>4. \A t \in Ticks : lastCapture + 1 \notin tick[t].batch
      BY <1>0 DEF TicksOK, TickOK, TickRow
    <2>5. BatchesOwned'
      BY <1>0, <2>1, <2>2, <2>4 DEF BatchesOwned, User
    <2>6. QED
      BY <2>3, <2>5 DEF Owned
  <1>4. ASSUME NEW u \in Users, Forget(u)
        PROVE  Owned'
    <2>1. PICK id \in DOMAIN facts : facts' = Deactivated(u, id)
      BY <1>4 DEF Forget
    <2>2. UNCHANGED <<captures, tick>>
      BY <1>4 DEF Forget
    <2>3. FactsStem(facts', captures')
      BY <1>0, <2>1, <2>2, DeactivatedStem
    <2>4. QED
      BY <1>0, <2>2, <2>3 DEF Owned, BatchesOwned, User
  <1>5. ASSUME NEW u \in Users, forgetEverything(u)
        PROVE  Owned'
    <2>1. /\ captures' = Without(captures, Mine(u, captures))
          /\ facts' = Without(facts, Mine(u, facts))
          /\ UNCHANGED tick
      BY <1>5 DEF forgetEverything
    <2>2. /\ DOMAIN captures' = {c \in DOMAIN captures : captures[c].user # u}
          /\ \A c \in DOMAIN captures' : captures'[c] = captures[c]
          /\ DOMAIN facts' = {f \in DOMAIN facts : facts[f].user # u}
          /\ \A f \in DOMAIN facts' : facts'[f] = facts[f]
      BY <2>1 DEF Without, Mine
    <2>3. FactsStem(facts', captures')
      BY <1>0, <2>2 DEF FactsStem, Stems
    <2>4. BatchesOwned'
      BY <1>0, <2>1, <2>2 DEF BatchesOwned, User
    <2>5. QED
      BY <2>3, <2>4 DEF Owned
  <1>6. CASE Restart
    <2>1. tick' = [t \in Ticks |-> Idle] /\ UNCHANGED <<facts, captures>>
      BY <1>6 DEF Restart, tables
    <2>2. BatchesOwned'
      BY <2>1 DEF BatchesOwned, Idle
    <2>3. QED
      BY <1>0, <2>1, <2>2 DEF Owned
  <1>7. ASSUME NEW w \in Writers, countForWriter(w) \/ WriterFails(w) \/ \E u \in Users : Begin(w, u)
        PROVE  Owned'
    BY <1>1, <1>7 DEF Begin, countForWriter, WriterFails, tables
  <1>8. ASSUME NEW u \in Users, SetTier(u)
        PROVE  Owned'
    BY <1>1, <1>8 DEF SetTier
  <1>9. QED
    BY <1>2, <1>3, <1>4, <1>5, <1>6, <1>7, <1>8 DEF Write, Command, append, appendRemembered

LEMMA NextOwned == TypeInv /\ Owned /\ [Next]_vars => Owned'
  <1> SUFFICES ASSUME TypeInv, Owned, [Next]_vars PROVE Owned'
    OBVIOUS
  <1>1. ASSUME NEW t \in Ticks, Step(t)
        PROVE  Owned'
    BY <1>1, StepFactsStem, StepBatches DEF Owned
  <1>2. ASSUME NEW t \in Ticks, StatementFails(t) \/ markFails(t)
        PROVE  Owned'
    <2>1. UNCHANGED <<facts, captures>>
      BY <1>2 DEF StatementFails, markFails, tables
    <2>2. QED
      BY <1>2, <2>1, StepBatches DEF Owned
  <1>3. CASE UNCHANGED vars
    BY <1>3 DEF vars, tables, Owned, BatchesOwned, User
  <1>4. QED
    BY <1>1, <1>2, <1>3, OthersOwned DEF Next, Work, Outage

(* A batch under way when its user is forgotten adds no fact of its own: what is inserted for a
   capture goes with that capture, whatever ticks, wipes and failures interleave
   (memoryRepository.ts:36-45 and :107-123). *)
THEOREM WipeIsFinal == Spec => []ForgottenAddsNoFact
  <1>1. Init => Owned
    BY DEF Init, Owned, FactsStem, BatchesOwned, Idle
  <1>2. Owned => ForgottenAddsNoFact
    BY DEF Owned, FactsStem, Stems, ForgottenAddsNoFact
  <1>3. QED
    BY <1>1, <1>2, InitTyped, NextTyped, NextOwned, PTL DEF Spec

-----------------------------------------------------------------------------
(* The calls of the model.  A capture that is still pending has been in a call of the ticks that
   have it past their answer, and of those whose batch was lost; one that no longer is can be in a
   call of the ticks only that already hold it. *)
Before(c) == {t \in Ticks : c \in tick[t].batch /\ tick[t].pc = "create"}
Past(c) == {t \in Ticks : c \in tick[t].batch /\ tick[t].pc # "create"}
Awaits(c) == c \in DOMAIN captures /\ captures[c].status = "pending"

CalledOK(c) ==
    /\ c > lastCapture => calls[c] = 0
    /\ Awaits(c) => calls[c] <= lost + Cardinality(Past(c))
    /\ calls[c] + Cardinality(Before(c)) <= lost + Cardinality(Ticks)
CalledInv == \A c \in 1..MaxCaptures : CalledOK(c)

(* Both sets are parts of Ticks, and have no tick in common. *)
LEMMA Holders ==
  ASSUME NEW c
  PROVE  /\ IsFiniteSet(Past(c)) /\ Cardinality(Past(c)) \in Nat
         /\ IsFiniteSet(Before(c)) /\ Cardinality(Before(c)) \in Nat
         /\ Cardinality(Ticks) \in Nat
         /\ Cardinality(Past(c)) + Cardinality(Before(c)) <= Cardinality(Ticks)
  <1>1. Past(c) \subseteq Ticks /\ Before(c) \subseteq Ticks /\ Past(c) \cap Before(c) = {}
    BY DEF Past, Before
  <1>2. /\ IsFiniteSet(Past(c)) /\ Cardinality(Past(c)) \in Nat
        /\ IsFiniteSet(Before(c)) /\ Cardinality(Before(c)) \in Nat
        /\ Cardinality(Ticks) \in Nat
    BY <1>1, TicksAssumption, PartOf
  <1>3. Cardinality(Past(c) \cup Before(c)) = Cardinality(Past(c)) + Cardinality(Before(c)) - Cardinality({})
    BY <1>1, <1>2, FS_Union
  <1>4. Cardinality(Past(c) \cup Before(c)) <= Cardinality(Ticks)
    BY <1>1, TicksAssumption, PartOf
  <1>5. QED
    BY <1>2, <1>3, <1>4, FS_EmptySet

(* The same for the sets of the next state. *)
LEMMA HoldersNext ==
  ASSUME NEW c
  PROVE  /\ IsFiniteSet(Past(c)') /\ Cardinality(Past(c)') \in Nat
         /\ IsFiniteSet(Before(c)') /\ Cardinality(Before(c)') \in Nat
         /\ Cardinality(Past(c)') + Cardinality(Before(c)') <= Cardinality(Ticks)
  <1>1. Past(c)' \subseteq Ticks /\ Before(c)' \subseteq Ticks /\ Past(c)' \cap Before(c)' = {}
    BY DEF Past, Before
  <1>2. /\ IsFiniteSet(Past(c)') /\ Cardinality(Past(c)') \in Nat
        /\ IsFiniteSet(Before(c)') /\ Cardinality(Before(c)') \in Nat
        /\ Cardinality(Ticks) \in Nat
    BY <1>1, TicksAssumption, PartOf
  <1>3. Cardinality(Past(c)' \cup Before(c)') = Cardinality(Past(c)') + Cardinality(Before(c)') - Cardinality({})
    BY <1>1, <1>2, FS_Union
  <1>4. Cardinality(Past(c)' \cup Before(c)') <= Cardinality(Ticks)
    BY <1>1, TicksAssumption, PartOf
  <1>5. QED
    BY <1>2, <1>3, <1>4, FS_EmptySet

(* A step without a call keeps the account if no batch gets lost or it counts it. *)
LEMMA NothingCalled ==
  ASSUME NEW c \in 1..MaxCaptures, CalledOK(c), calls[c] \in Nat, calls'[c] = calls[c],
         lost \in Nat, lost' \in Nat, lost <= lost',
         lastCapture \in Nat, lastCapture' \in Nat, lastCapture <= lastCapture',
         Awaits(c)' => Awaits(c) \/ c > lastCapture,
         Awaits(c)' => lost + Cardinality(Past(c)) <= lost' + Cardinality(Past(c)'),
         Before(c)' \subseteq Before(c)
  PROVE  CalledOK(c)'
  <1>1. /\ Cardinality(Past(c)) \in Nat /\ Cardinality(Past(c)') \in Nat
        /\ Cardinality(Ticks) \in Nat /\ Cardinality(Before(c)) \in Nat
        /\ IsFiniteSet(Before(c)) /\ Cardinality(Before(c)') \in Nat
    BY Holders, HoldersNext
  <1>2. Cardinality(Before(c)') <= Cardinality(Before(c))
    BY <1>1, PartOf
  <1>3. c > lastCapture' => calls'[c] = 0
    BY DEF CalledOK
  <1>4. Awaits(c)' => calls'[c] <= lost' + Cardinality(Past(c)')
    <2>1. ASSUME Awaits(c)
          PROVE  calls[c] <= lost + Cardinality(Past(c))
      BY <2>1 DEF CalledOK
    <2>2. ASSUME c > lastCapture
          PROVE  calls[c] = 0
      BY <2>2 DEF CalledOK
    <2>3. QED
      BY <1>1, <2>1, <2>2
  <1>5. calls'[c] + Cardinality(Before(c)') <= lost' + Cardinality(Ticks)
    <2>1. calls[c] + Cardinality(Before(c)) <= lost + Cardinality(Ticks)
      BY DEF CalledOK
    <2>2. QED
      BY <1>1, <1>2, <2>1
  <1>6. QED
    BY <1>3, <1>4, <1>5 DEF CalledOK

(* The model answers or its answer is lost: the tick has the batch behind it. *)
LEMMA CallStep ==
  ASSUME TypeInv, NEW t \in Ticks, create(t) \/ createFails(t), NEW c \in 1..MaxCaptures, CalledOK(c)
  PROVE  CalledOK(c)'
  <1>1. /\ TicksOK /\ calls \in [1..MaxCaptures -> Nat] /\ lost \in Nat /\ lastCapture \in Nat
        /\ tick[t].batch \subseteq 1..lastCapture
    <2>1. TicksOK /\ calls \in [1..MaxCaptures -> Nat] /\ lost \in Nat /\ lastCapture \in Nat
      BY Sizes DEF TypeInv, RowsOK, HistoryOK
    <2>2. tick[t].batch \subseteq 1..lastCapture
      BY <2>1 DEF TicksOK, TickOK, TickRow
    <2>3. QED
      BY <2>1, <2>2
  <1>2. /\ calls' = [d \in DOMAIN calls |-> IF d \in tick[t].batch THEN calls[d] + 1 ELSE calls[d]]
        /\ tick[t].pc = "create"
        /\ UNCHANGED <<captures, lastCapture, lost>>
    BY Zenon DEF create, createFails, At, tables
  <1>3. /\ \A s \in Ticks \ {t} : tick'[s] = tick[s]
        /\ tick'[t].batch = tick[t].batch /\ tick'[t].pc # "create"
    <2>1. Applies(t) \/ (Ends(t) /\ Fail(t) /\ tick[t].pc \in Working)
      BY <1>2, Zenon DEF Applies, Ends, createFails, Working, Pc
    <2>2. QED
      BY <1>1, <2>1, AppliesMoves, FailMoves DEF Carries
  <1>4. CASE c \in tick[t].batch
    <2>1. Past(c)' = Past(c) \cup {t} /\ t \notin Past(c)
      BY <1>2, <1>3, <1>4 DEF Past
    <2>2. t \in Before(c) /\ Before(c)' \subseteq Before(c) \ {t}
      BY <1>2, <1>3, <1>4 DEF Before
    <2>3. Cardinality(Past(c)') = Cardinality(Past(c)) + 1
      BY <2>1, Holders, FS_AddElement
    <2>4. Cardinality(Before(c)') <= Cardinality(Before(c)) - 1
      BY <2>2, Holders, OneLess
    <2>5. calls'[c] = calls[c] + 1 /\ calls[c] \in Nat
      BY <1>1, <1>2, <1>4
    <2>6. ~(c > lastCapture')
      BY <1>1, <1>2, <1>4
    <2>7. Awaits(c)' = Awaits(c)
      BY <1>2 DEF Awaits
    <2>8. Awaits(c)' => calls'[c] <= lost' + Cardinality(Past(c)')
      <3>1. Awaits(c) => calls[c] <= lost + Cardinality(Past(c))
        BY DEF CalledOK
      <3>2. QED
        BY <1>1, <1>2, <2>3, <2>5, <2>7, <3>1, Holders
    <2>9. calls'[c] + Cardinality(Before(c)') <= lost' + Cardinality(Ticks)
      <3>1. calls[c] + Cardinality(Before(c)) <= lost + Cardinality(Ticks)
        BY DEF CalledOK
      <3>2. QED
        BY <1>1, <1>2, <2>4, <2>5, <3>1, Holders, HoldersNext
    <2>10. QED
      BY <2>6, <2>8, <2>9 DEF CalledOK
  <1>5. CASE c \notin tick[t].batch
    <2>1. Past(c)' = Past(c) /\ Before(c)' = Before(c)
      BY <1>3, <1>5 DEF Past, Before
    <2>2. calls'[c] = calls[c]
      BY <1>1, <1>2, <1>5
    <2>3. QED
      BY <1>2, <2>1, <2>2 DEF CalledOK, Awaits
  <1>6. QED
    BY <1>4, <1>5

(* A batch is loaded of captures that are still pending. *)
LEMMA LoadStep ==
  ASSUME TypeInv, NEW t \in Ticks, distillTick(t) \/ pendingForUser(t), NEW c \in 1..MaxCaptures, CalledOK(c)
  PROVE  CalledOK(c)'
  <1>1. /\ TicksOK /\ calls \in [1..MaxCaptures -> Nat] /\ lost \in Nat /\ lastCapture \in Nat
    BY Sizes DEF TypeInv, RowsOK, HistoryOK
  <1>2. UNCHANGED <<captures, lastCapture, lost, calls>>
    BY Zenon DEF distillTick, pendingForUser, tables, history
  <1>3. /\ \A s \in Ticks \ {t} : tick'[s] = tick[s]
        /\ LetsGo(t) \/ Loads(t)
        /\ tick[t].batch = {}
    BY <1>1, LoadsMoves
  <1>4. Past(c)' = Past(c)
    BY <1>3 DEF Past, LetsGo, Loads
  <1>5. CASE Before(c)' \subseteq Before(c)
    <2>1. Awaits(c)' => Awaits(c)
      BY <1>2 DEF Awaits
    <2>2. lost + Cardinality(Past(c)) <= lost' + Cardinality(Past(c)')
      BY <1>1, <1>2, <1>4, Holders
    <2>3. calls[c] \in Nat /\ calls'[c] = calls[c] /\ lost' = lost /\ lastCapture' = lastCapture
      BY <1>1, <1>2
    <2>4. QED
      BY <1>1, <1>5, <2>1, <2>2, <2>3, NothingCalled
  <1>6. CASE ~(Before(c)' \subseteq Before(c))
    <2>1. c \in Batch(User(t))
      BY <1>3, <1>6 DEF Before, LetsGo, Loads
    <2>2. Awaits(c) /\ Awaits(c)'
      BY <1>2, <2>1 DEF Batch, Pending, Awaits
    <2>3. calls[c] <= lost + Cardinality(Past(c))
      BY <2>2 DEF CalledOK
    <2>4. calls'[c] <= lost' + Cardinality(Past(c)')
      BY <1>2, <1>4, <2>3
    <2>5. calls'[c] + Cardinality(Before(c)') <= lost' + Cardinality(Ticks)
      <3>1. calls'[c] <= lost' + Cardinality(Past(c)') /\ calls'[c] \in Nat /\ lost' \in Nat
        BY <1>1, <1>2, <2>4
      <3>2. QED
        BY <3>1, HoldersNext, TicksAssumption, FS_CardinalityType
    <2>6. c > lastCapture' => calls'[c] = 0
      BY <1>2 DEF CalledOK
    <2>7. QED
      BY <2>4, <2>5, <2>6 DEF CalledOK
  <1>7. QED
    BY <1>5, <1>6

(* The other steps of a tick: its batch is marked before it is let go, or counts as lost. *)
LEMMA OtherSteps ==
  ASSUME TypeInv, TypeInv', NEW t \in Ticks,
         (Applies(t) /\ ~create(t)) \/ (Ends(t) /\ ~createFails(t)),
         NEW c \in 1..MaxCaptures, CalledOK(c)
  PROVE  CalledOK(c)'
  <1>1. /\ TicksOK /\ calls \in [1..MaxCaptures -> Nat] /\ lost \in Nat /\ lastCapture \in Nat
        /\ lost' \in Nat /\ CaptureRows(captures, lastCapture) /\ TickOK(tick[t], lastCapture)
    <2>1. RowsOK /\ TicksOK /\ HistoryOK /\ HistoryOK'
      BY Zenon DEF TypeInv
    <2>2. calls \in [1..MaxCaptures -> Nat] /\ lost \in 0..MaxLost /\ lost' \in 0..MaxLost
      BY <2>1, Zenon DEF HistoryOK
    <2>3. lastCapture \in 0..MaxCaptures /\ CaptureRows(captures, lastCapture)
      BY <2>1, Zenon DEF RowsOK
    <2>4. TickOK(tick[t], lastCapture)
      BY <2>1, Zenon DEF TicksOK
    <2>5. QED
      BY <2>1, <2>2, <2>3, <2>4, Sizes
  <1>2. UNCHANGED <<lastCapture, calls>>
    BY Zenon DEF Applies, Ends, getTier, countActiveFacts, SkipOp, deactivateFact, supersedeFact,
       insertFact, upsertHub, upsert, addRelation, insertFactRefused, addRelationRefused, markDone,
       markFailed, StatementFails, markFails, tables, history
  <1>3. /\ \A s \in Ticks \ {t} : tick'[s] = tick[s]
        /\ Carries(t) \/ (LetsGo(t) /\ Ends(t) /\ tick'[t].pc # "create")
    BY <1>1, AppliesMoves, EndsMoves
  <1>4. Before(c)' \subseteq Before(c)
    BY <1>3 DEF Before, Carries
  <1>5. /\ Awaits(c)' => Awaits(c)
        /\ \/ lost' = lost /\ (Awaits(c)' => Past(c) \subseteq Past(c)')
           \/ lost' = lost + 1 /\ Past(c) \subseteq Past(c)' \cup {t}
    <2>1. CASE Carries(t) /\ ~markFails(t) /\ ~markDone(t) /\ ~markFailed(t)
      <3>1. UNCHANGED <<captures, lost>>
        BY <2>1, Zenon DEF Applies, Ends, getTier, countActiveFacts, SkipOp, deactivateFact,
           supersedeFact, insertFact, upsertHub, upsert, addRelation, insertFactRefused,
           addRelationRefused, StatementFails, tables, history
      <3>2. Past(c) \subseteq Past(c)'
        BY <1>3, <2>1 DEF Past, Carries
      <3>3. QED
        BY <3>1, <3>2 DEF Awaits
    <2>2. CASE markDone(t) \/ markFailed(t)
      <3>1. PICK status \in {"done", "failed"} : captures' = Marked(tick[t].batch, status)
        BY <2>2 DEF markDone, markFailed
      <3>2. lost' = lost
        BY <2>2, Zenon DEF markDone, markFailed, history
      <3>3. Awaits(c)' => Awaits(c) /\ c \notin tick[t].batch
        BY <1>1, <3>1 DEF Awaits, Marked, CaptureRows
      <3>4. c \notin tick[t].batch => Past(c) \subseteq Past(c)'
        BY <1>3 DEF Past
      <3>5. QED
        BY <3>2, <3>3, <3>4
    <2>3. CASE markFails(t)
      <3>1. lost' = lost + 1 /\ UNCHANGED captures
        BY <2>3 DEF markFails, tables
      <3>2. Past(c) \subseteq Past(c)' \cup {t}
        BY <1>3 DEF Past
      <3>3. QED
        BY <3>1, <3>2 DEF Awaits
    <2>4. CASE ~Carries(t) /\ ~markFails(t) /\ ~markDone(t) /\ ~markFailed(t)
      <3>1. Ends(t) /\ ~createFails(t)
        BY <1>1, <2>4, AppliesMoves
      <3>2. UNCHANGED <<captures, lost>>
        BY <2>4, <3>1, Zenon DEF Ends, insertFactRefused, addRelationRefused, StatementFails, tables, history
      <3>3. tick[t].pc = "load" \/ (Fail(t) /\ tick[t].pc \in Working)
        BY <2>4, <3>1 DEF Ends, insertFactRefused, addRelationRefused, StatementFails, At, Working, Pc
      <3>4. tick[t].batch = {}
        BY <1>1, <2>4, <3>3, FailMoves DEF TickOK, Working
      <3>5. Past(c) \subseteq Past(c)'
        BY <1>3, <3>4 DEF Past
      <3>6. QED
        BY <3>2, <3>5 DEF Awaits
    <2>5. QED
      BY <2>1, <2>2, <2>3, <2>4
  <1>6. Awaits(c)' => lost + Cardinality(Past(c)) <= lost' + Cardinality(Past(c)')
    <2>1. CASE Past(c) \subseteq Past(c)' /\ lost' = lost
      <3>1. Cardinality(Past(c)) <= Cardinality(Past(c)')
        BY <2>1, HoldersNext, PartOf
      <3>2. QED
        BY <1>1, <2>1, <3>1, Holders, HoldersNext
    <2>2. CASE Past(c) \subseteq Past(c)' \cup {t} /\ lost' = lost + 1
      <3>1. Cardinality(Past(c)) <= Cardinality(Past(c)') + 1
        BY <2>2, HoldersNext, OneMore
      <3>2. QED
        BY <1>1, <2>2, <3>1, Holders, HoldersNext
    <2>3. QED
      BY <1>5, <2>1, <2>2
  <1>7. calls[c] \in Nat /\ calls'[c] = calls[c] /\ lastCapture' = lastCapture
    BY <1>1, <1>2
  <1>8. lost <= lost'
    BY <1>1, <1>5
  <1>9. QED
    BY <1>1, <1>4, <1>5, <1>6, <1>7, <1>8, NothingCalled

(* What is not a step of a tick calls nothing; a restart counts every batch as lost. *)
LEMMA OthersCall ==
  ASSUME TypeInv, TypeInv',
         \/ \E w \in Writers : Write(w) \/ WriterFails(w)
         \/ \E u \in Users : Command(u)
         \/ Restart
         \/ UNCHANGED vars,
         NEW c \in 1..MaxCaptures, CalledOK(c)
  PROVE  CalledOK(c)'
  <1>1. /\ calls \in [1..MaxCaptures -> Nat] /\ lost \in Nat /\ lastCapture \in Nat
        /\ lost' \in Nat /\ lastCapture' \in Nat /\ CaptureRows(captures, lastCapture)
    BY Sizes DEF TypeInv, RowsOK, HistoryOK
  <1>2. calls' = calls /\ (lastCapture' = lastCapture \/ lastCapture' = lastCapture + 1)
    BY DEF Write, WriterFails, Command, Restart, Begin, countForWriter, insertStated,
       appendRemembered, append, Append1, Forget, forgetEverything, SetTier, vars, tables, history
  <1>3. Awaits(c)' => Awaits(c) \/ c > lastCapture
    <2>1. ASSUME NEW u, Append1(u)
          PROVE  Awaits(c)' => Awaits(c) \/ c > lastCapture
      <3> DEFINE row == [user |-> u, status |-> "pending"]
      <3>1. captures' = With(captures, lastCapture + 1, row)
        BY <2>1 DEF Append1
      <3> HIDE DEF row
      <3>2. c # lastCapture + 1 => (Awaits(c)' <=> Awaits(c))
        BY <3>1 DEF With, Awaits
      <3>3. QED
        BY <1>1, <3>2
    <2>2. ASSUME NEW u \in Users, forgetEverything(u)
          PROVE  Awaits(c)' => Awaits(c)
      BY <2>2 DEF forgetEverything, Without, Awaits
    <2>3. CASE UNCHANGED captures
      BY <2>3 DEF Awaits
    <2>4. \/ \E u : Append1(u)
          \/ \E u \in Users : forgetEverything(u)
          \/ UNCHANGED captures
      BY Zenon DEF Write, WriterFails, Command, Restart, Begin, countForWriter, insertStated,
         appendRemembered, append, Forget, SetTier, vars, tables
    <2>5. QED
      BY <2>1, <2>2, <2>3, <2>4
  <1>4. lost <= lost' /\ Before(c)' \subseteq Before(c)
        /\ lost + Cardinality(Past(c)) <= lost' + Cardinality(Past(c)')
    <2>1. CASE Restart
      <3>1. tick' = [t \in Ticks |-> Idle] /\ lost' = lost + Cardinality(UnderWay)
        BY <2>1 DEF Restart
      <3>2. Past(c) \subseteq UnderWay
        BY DEF Past, UnderWay
      <3>3. Before(c)' = {}
        BY <3>1 DEF Before, Idle
      <3>4. Cardinality(Past(c)) <= Cardinality(UnderWay)
        BY <3>2, UnderWayFinite, PartOf
      <3>5. QED
        BY <1>1, <3>1, <3>3, <3>4, UnderWayFinite, Holders, HoldersNext
    <2>2. CASE UNCHANGED <<tick, lost>>
      <3>1. Past(c)' = Past(c) /\ Before(c)' = Before(c)
        BY <2>2 DEF Past, Before
      <3>2. QED
        BY <1>1, <2>2, <3>1, Holders
    <2>3. ~Restart => UNCHANGED <<tick, lost>>
      BY DEF Write, WriterFails, Command, Begin, countForWriter, insertStated,
         appendRemembered, append, Append1, Forget, forgetEverything, SetTier, vars, history
    <2>4. QED
      BY <2>1, <2>2, <2>3
  <1>5. calls[c] \in Nat /\ calls'[c] = calls[c] /\ lastCapture <= lastCapture'
    BY <1>1, <1>2
  <1>6. QED
    BY <1>1, <1>3, <1>4, <1>5, NothingCalled

(* completions.create is called with a capture at most once per tick, and once more for each batch
   that was given up without a mark, however ticks overlap and whatever fails (distillService.ts:152
   reads what :172 marks).  The requests a call sends, its retries included, are not counted. *)
THEOREM CalledOncePerTick == Spec => []CallsBounded
  <1>1. Init /\ TypeInv => CalledInv
    <2> SUFFICES ASSUME Init, NEW c \in 1..MaxCaptures PROVE CalledOK(c)
      BY DEF CalledInv
    <2>1. calls[c] = 0 /\ lost = 0 /\ captures = <<>>
      BY DEF Init
    <2>2. Cardinality(Before(c)) <= Cardinality(Ticks)
      BY Holders
    <2>3. QED
      BY <2>1, <2>2, Holders DEF CalledOK, Awaits
  <1>2. TypeInv /\ TypeInv' /\ CalledInv /\ [Next]_vars => CalledInv'
    <2> SUFFICES ASSUME TypeInv, TypeInv', CalledInv, [Next]_vars, NEW c \in 1..MaxCaptures
                 PROVE  CalledOK(c)'
      BY DEF CalledInv
    <2>1. CalledOK(c)
      BY DEF CalledInv
    <2>2. ASSUME NEW t \in Ticks, Step(t) \/ StatementFails(t) \/ markFails(t)
          PROVE  CalledOK(c)'
      <3>1. distillTick(t) \/ pendingForUser(t) \/ Applies(t) \/ Ends(t)
        BY <2>2, StepKinds
      <3>2. QED
        BY <2>1, <3>1, CallStep, LoadStep, OtherSteps
    <2>3. QED
      BY <2>1, <2>2, OthersCall DEF Next, Work, Outage
  <1>3. TypeInv /\ CalledInv => CallsBounded
    <2> SUFFICES ASSUME TypeInv, CalledInv, NEW c \in DOMAIN calls
                 PROVE  calls[c] <= Cardinality(Ticks) + lost
      BY DEF CallsBounded
    <2>1. c \in 1..MaxCaptures /\ calls[c] \in Nat /\ lost \in Nat
      BY Sizes DEF TypeInv, HistoryOK
    <2>2. calls[c] + Cardinality(Before(c)) <= lost + Cardinality(Ticks)
      BY <2>1 DEF CalledInv, CalledOK
    <2>3. QED
      BY <2>1, <2>2, Holders
  <1>4. QED
    BY <1>1, <1>2, <1>3, InitTyped, NextTyped, PTL DEF Spec


-----------------------------------------------------------------------------
(* What may still be inserted.  A tick that has counted holds a room for every fact between its
   count and the cap, a writer that has counted holds one; an insertion takes one of the rooms,
   and only who has found the user below the cap makes new ones. *)
Counted == {"apply", "hub", "mention", "relate"}
Rooms(u) == {p \in Ticks \X (1..FactCap) :
    /\ tick[p[1]].pc \in Counted /\ User(p[1]) = u
    /\ tick[p[1]].count < p[2] /\ p[2] <= tick[p[1]].cap}
Inserting(u) == {w \in Writers : writer[w].pc = "insert" /\ writer[w].user = u}
AllRooms == Cardinality(Ticks) * FactCap
RoomLeft(u) ==
    Cardinality(Active(u)) + Cardinality(Rooms(u)) + Cardinality(Inserting(u))
        <= AllRooms + FactCap + Cardinality(Writers) - 1

(* The rooms and the writers that hold one can be counted. *)
LEMMA RoomsFinite ==
  ASSUME NEW R, R \subseteq Ticks \X (1..FactCap)
  PROVE  IsFiniteSet(R) /\ Cardinality(R) \in Nat /\ AllRooms \in Nat /\ Cardinality(R) <= AllRooms
  <1>1. IsFiniteSet(1..FactCap) /\ Cardinality(1..FactCap) = FactCap
    BY Sizes, FS_Interval
  <1>2. /\ IsFiniteSet(Ticks \X (1..FactCap))
        /\ Cardinality(Ticks \X (1..FactCap)) = AllRooms
    BY <1>1, TicksAssumption, FS_Product DEF AllRooms
  <1>3. QED
    BY <1>2, PartOf

LEMMA RoomsTyped ==
  ASSUME NEW u
  PROVE  /\ Rooms(u) \subseteq Ticks \X (1..FactCap) /\ Rooms(u)' \subseteq Ticks \X (1..FactCap)
         /\ IsFiniteSet(Inserting(u)) /\ Cardinality(Inserting(u)) \in Nat
         /\ IsFiniteSet(Inserting(u)') /\ Cardinality(Inserting(u)') \in Nat
         /\ Cardinality(Inserting(u)) <= Cardinality(Writers)
         /\ Cardinality(Inserting(u)') <= Cardinality(Writers) /\ Cardinality(Writers) \in Nat
  <1>1. Rooms(u) \subseteq Ticks \X (1..FactCap) /\ Rooms(u)' \subseteq Ticks \X (1..FactCap)
    BY DEF Rooms
  <1>2. Inserting(u) \subseteq Writers /\ Inserting(u)' \subseteq Writers
    BY DEF Inserting
  <1>3. QED
    BY <1>1, <1>2, TicksAssumption, PartOf

(* A step that makes no room and inserts no fact. *)
LEMMA NoneInserted ==
  ASSUME RowsOK, NEW u, RoomLeft(u), Active(u)' \subseteq Active(u),
         Rooms(u)' \subseteq Rooms(u), Inserting(u)' \subseteq Inserting(u)
  PROVE  RoomLeft(u)'
  <1>1. /\ Cardinality(Active(u)) \in Nat /\ Cardinality(Active(u)') \in Nat
        /\ Cardinality(Active(u)') <= Cardinality(Active(u))
    BY ActiveFinite, PartOf
  <1>2. /\ Cardinality(Rooms(u)) \in Nat /\ Cardinality(Rooms(u)') \in Nat
        /\ Cardinality(Rooms(u)') <= Cardinality(Rooms(u)) /\ AllRooms \in Nat
    BY RoomsTyped, RoomsFinite, PartOf
  <1>3. /\ Cardinality(Inserting(u)) \in Nat /\ Cardinality(Inserting(u)') \in Nat
        /\ Cardinality(Inserting(u)') <= Cardinality(Inserting(u)) /\ Cardinality(Writers) \in Nat
    BY RoomsTyped, PartOf
  <1>4. QED
    BY <1>1, <1>2, <1>3, Sizes DEF RoomLeft

(* A tick makes rooms only when it counts. *)
LEMMA RoomsShrink ==
  ASSUME TicksOK, NEW t \in Ticks, NEW u, \A s \in Ticks \ {t} : tick'[s] = tick[s],
         \/ tick'[t].pc \notin Counted
         \/ /\ tick[t].pc \in Counted /\ tick'[t].todo = tick[t].todo
            /\ tick'[t].cap = tick[t].cap
            /\ tick'[t].count = tick[t].count \/ tick'[t].count = tick[t].count + 1
  PROVE  Rooms(u)' \subseteq Rooms(u)
  <1> SUFFICES ASSUME NEW p \in Rooms(u)' PROVE p \in Rooms(u)
    OBVIOUS
  <1>1. p \in Ticks \X (1..FactCap) /\ p[1] \in Ticks /\ p[2] \in Nat
    BY RoomsTyped, Sizes
  <1>2. /\ tick'[p[1]].pc \in Counted /\ User(p[1])' = u
        /\ tick'[p[1]].count < p[2] /\ p[2] <= tick'[p[1]].cap
    BY DEF Rooms
  <1>3. tick[t].count \in Nat
    BY DEF TicksOK, TickOK, TickRow
  <1>4. /\ tick[p[1]].pc \in Counted /\ User(p[1]) = u
        /\ tick[p[1]].count < p[2] /\ p[2] <= tick[p[1]].cap
    <2>1. CASE p[1] # t
      BY <1>1, <1>2, <2>1 DEF User
    <2>2. CASE p[1] = t
      BY <1>1, <1>2, <1>3, <2>2 DEF User
    <2>3. QED
      BY <2>1, <2>2
  <1>5. QED
    BY <1>1, <1>4 DEF Rooms

(* The facts of a user after one more row. *)
LEMMA InsertedActive ==
  ASSUME NEW table, NEW n, NEW row, facts' = With(table, n, row), DOMAIN table = DOMAIN facts,
         NEW u, \A f \in DOMAIN table : table[f].user = facts[f].user /\ (table[f].active => facts[f].active)
  PROVE  /\ Active(u)' \subseteq {f \in Active(u) : table[f].active} \cup {n}
         /\ row.user # u /\ n \notin DOMAIN facts => Active(u)' \subseteq Active(u)
  <1>1. DOMAIN facts' = DOMAIN facts \cup {n}
        /\ \A f \in DOMAIN facts' : facts'[f] = IF f = n THEN row ELSE table[f]
    BY DEF With
  <1>2. QED
    BY <1>1 DEF Active

(* A statement that deactivates a fact leaves the rest of the rows as they are. *)
LEMMA Deactivates ==
  ASSUME RowsOK, NEW owner, NEW id
  PROVE  LET new == Deactivated(owner, id)
         IN  /\ DOMAIN new = DOMAIN facts
             /\ \A f \in DOMAIN facts : /\ new[f].user = facts[f].user
                                        /\ new[f].active => facts[f].active
             /\ id \in DOMAIN facts /\ facts[id].user = owner => ~new[id].active
  <1> DEFINE new == Deactivated(owner, id)
  <1>1. \A f \in DOMAIN facts : facts[f] \in FactRow(f, lastCapture)
    BY DEF RowsOK, FactRows
  <1>2. CASE id \in DOMAIN facts /\ facts[id].user = owner
    <2> DEFINE row == [facts[id] EXCEPT !.active = FALSE]
    <2>1. row.user = facts[id].user /\ ~row.active
      BY <1>1, <1>2 DEF FactRow
    <2> HIDE DEF row
    <2>2. new = [facts EXCEPT ![id] = row]
      BY <1>2 DEF Deactivated, row
    <2> HIDE DEF new
    <2>3. DOMAIN new = DOMAIN facts /\ \A f \in DOMAIN facts : new[f] = IF f = id THEN row ELSE facts[f]
      BY <2>2
    <2>4. QED
      BY <1>2, <2>1, <2>3 DEF new
  <1>3. CASE ~(id \in DOMAIN facts /\ facts[id].user = owner)
    <2>1. new = facts
      BY <1>3 DEF Deactivated
    <2> HIDE DEF new
    <2>2. QED
      BY <1>3, <2>1 DEF new
  <1>4. QED
    BY <1>2, <1>3

LEMMA DeactivatedActive ==
  ASSUME RowsOK, NEW owner, NEW id, facts' = Deactivated(owner, id), NEW u
  PROVE  Active(u)' \subseteq Active(u)
  <1>1. /\ DOMAIN facts' = DOMAIN facts
        /\ \A f \in DOMAIN facts : facts'[f].user = facts[f].user /\ (facts'[f].active => facts[f].active)
    BY Deactivates
  <1>2. QED
    BY <1>1 DEF Active

(* The steps of a tick, one kind after the other: the count makes the rooms, ... *)
LEMMA CountStep ==
  ASSUME TypeInv, NEW t \in Ticks, countActiveFacts(t), NEW u \in Users, RoomLeft(u)
  PROVE  RoomLeft(u)'
  <1>0. RowsOK /\ TicksOK
    BY DEF TypeInv
  <1>1. /\ \A s \in Ticks \ {t} : tick'[s] = tick[s]
        /\ tick'[t].pc = "apply" /\ tick'[t].cap = tick[t].cap /\ tick'[t].todo = tick[t].todo
        /\ tick'[t].count = Cardinality(Active(User(t)))
        /\ tick[t].pc = "count"
    <2>1. Applies(t) /\ tick[t].pc = "count"
      BY DEF Applies, countActiveFacts, At
    <2>2. Carries(t)
      BY <1>0, <2>1, AppliesMoves
    <2>3. tick[t].pc # "create" /\ tick[t].pc # "getTier" /\ tick[t].pc # "apply"
      BY <2>1
    <2>4. QED
      BY <1>0, <2>1, <2>2, <2>3, AppliesMoves DEF Carries, create, getTier, insertFact, At
  <1>2. Active(u)' = Active(u) /\ Inserting(u)' = Inserting(u)
    BY Zenon DEF countActiveFacts, tables, Active, Inserting
  <1>3. CASE User(t) # u \/ Cardinality(Active(u)) > FactCap
    <2>1. tick[t].cap <= FactCap /\ tick[t].cap \in Nat
      <3>1. tick[t] \in TickRow(lastCapture)
        BY <1>0 DEF TicksOK, TickOK
      <3>2. tick[t].cap \in {0, FactCap}
        BY <3>1 DEF TickRow
      <3>3. QED
        BY <3>2, Sizes
    <2>2. Rooms(u)' \subseteq Rooms(u)
      <3> SUFFICES ASSUME NEW p \in Rooms(u)' PROVE p \in Rooms(u)
        OBVIOUS
      <3>1. p \in Ticks \X (1..FactCap) /\ p[1] \in Ticks /\ p[2] \in Nat
        BY RoomsTyped, Sizes
      <3>2. /\ tick'[p[1]].pc \in Counted /\ User(p[1])' = u
            /\ tick'[p[1]].count < p[2] /\ p[2] <= tick'[p[1]].cap
        BY DEF Rooms
      <3>3. p[1] # t
        <4>1. User(t)' = User(t)
          BY <1>1 DEF User
        <4>2. Cardinality(Active(u)) \in Nat
          BY <1>0, ActiveFinite
        <4>3. ASSUME p[1] = t PROVE FALSE
          <5>1. User(t) = u /\ tick'[t].count < p[2] /\ p[2] <= tick'[t].cap
            BY <3>2, <4>1, <4>3
          <5>2. Cardinality(Active(u)) > FactCap
            BY <1>3, <5>1
          <5>3. tick'[t].count = Cardinality(Active(u)) /\ tick'[t].cap = tick[t].cap
            BY <1>1, <5>1
          <5>4. QED
            BY <2>1, <3>1, <4>2, <5>1, <5>2, <5>3, Sizes
        <4>4. QED
          BY <4>3
      <3>4. QED
        BY <1>1, <3>1, <3>2, <3>3 DEF Rooms, User
    <2>3. QED
      BY <1>0, <1>2, <2>2, NoneInserted
  <1>4. CASE User(t) = u /\ ~(Cardinality(Active(u)) > FactCap)
    <2> DEFINE n == Cardinality(Active(u))
               taken == {t} \X (1..n)
    <2>1. n \in Nat /\ n <= FactCap
      BY <1>0, <1>4, ActiveFinite, Sizes
    <2>2. IsFiniteSet(1..n) /\ Cardinality(1..n) = n
      BY <2>1, FS_Interval
    <2>3. IsFiniteSet({t}) /\ Cardinality({t}) = 1
      BY FS_Singleton
    <2>4. IsFiniteSet(taken) /\ Cardinality(taken) = n
      <3> HIDE DEF n
      <3>1. /\ IsFiniteSet({t} \X (1..n))
            /\ Cardinality({t} \X (1..n)) = Cardinality({t}) * Cardinality(1..n)
        BY <2>2, <2>3, FS_Product
      <3>1a. Cardinality(taken) = 1 * n
        BY <2>2, <2>3, <3>1
      <3>2. QED
        BY <2>1, <3>1, <3>1a
    <2>5. Rooms(u)' \cap taken = {}
      <3> SUFFICES ASSUME NEW p \in Rooms(u)', p \in taken PROVE FALSE
        OBVIOUS
      <3>1. p[1] = t /\ p[2] \in 1..n
        OBVIOUS
      <3>2. tick'[t].count < p[2]
        BY <3>1 DEF Rooms
      <3>3. QED
        BY <1>1, <1>4, <2>1, <3>1, <3>2
    <2>6. taken \subseteq Ticks \X (1..FactCap)
      BY <2>1, Sizes
    <2> HIDE DEF taken
    <2>7. /\ IsFiniteSet(Rooms(u)') /\ Cardinality(Rooms(u)') \in Nat
          /\ Cardinality(Rooms(u)' \cup taken) \in Nat /\ AllRooms \in Nat
          /\ Cardinality(Rooms(u)' \cup taken) <= AllRooms
      <3>1. Rooms(u)' \cup taken \subseteq Ticks \X (1..FactCap)
        BY <2>6, RoomsTyped
      <3>2. QED
        BY <3>1, RoomsTyped, RoomsFinite
    <2>8. Cardinality(Rooms(u)' \cup taken) = Cardinality(Rooms(u)') + Cardinality(taken) - Cardinality({})
      BY <2>4, <2>5, <2>7, FS_Union
    <2>9. Cardinality(Rooms(u)') + n <= AllRooms
      BY <2>1, <2>4, <2>7, <2>8, FS_EmptySet
    <2>10. Cardinality(Active(u)') = n /\ Cardinality(Inserting(u)') <= Cardinality(Writers)
           /\ Cardinality(Inserting(u)') \in Nat /\ Cardinality(Writers) \in Nat
      BY <1>2, RoomsTyped
    <2> HIDE DEF n
    <2>11. QED
      BY <2>1, <2>7, <2>9, <2>10, Sizes DEF RoomLeft
  <1>5. QED
    BY <1>3, <1>4

(* ... an insertion takes one, ... *)
LEMMA InsertStep ==
  ASSUME TypeInv, NEW t \in Ticks, insertFact(t), NEW u \in Users, RoomLeft(u)
  PROVE  RoomLeft(u)'
  <1> DEFINE row == [user |-> User(t), active |-> TRUE, supersedes |-> 0, origin |-> Origin(t)]
  <1>0. RowsOK /\ TicksOK
    BY DEF TypeInv
  <1>1. /\ \A s \in Ticks \ {t} : tick'[s] = tick[s]
        /\ tick'[t].cap = tick[t].cap /\ tick'[t].todo = tick[t].todo
        /\ tick'[t].count = tick[t].count + 1
        /\ tick[t].pc = "apply" /\ tick[t].count < tick[t].cap
    <2>1. Applies(t) /\ tick[t].pc = "apply" /\ tick[t].count < tick[t].cap
      BY DEF Applies, insertFact, At
    <2>2. Carries(t) /\ tick[t].pc # "create" /\ tick[t].pc # "getTier" /\ tick[t].pc # "count"
      BY <1>0, <2>1, AppliesMoves
    <2>3. ~create(t) /\ ~getTier(t) /\ ~countActiveFacts(t)
      BY <2>2 DEF create, getTier, countActiveFacts, At
    <2>4. ASSUME SkipOp(t) \/ deactivateFact(t) \/ supersedeFact(t) \/ upsertHub(t) \/ upsert(t)
                 \/ addRelation(t)
          PROVE  tick'[t].count = tick[t].count + 1
      <3>1. PICK mentions \in 0..MaxMentions :
              tick' = [tick EXCEPT ![t].pc = IF mentions = 0 THEN "apply" ELSE "hub",
                                   ![t].ops = tick[t].ops - 1, ![t].count = tick[t].count + 1,
                                   ![t].fact = IF mentions = 0 THEN 0 ELSE lastFact',
                                   ![t].mentions = mentions]
        BY DEF insertFact
      <3>2. t \in DOMAIN tick /\ "count" \in DOMAIN tick[t]
        BY <1>0 DEF TicksOK, TickOK, TickRow
      <3>3. QED
        BY <3>1, <3>2
    <2>5. \A s \in Ticks \ {t} : tick'[s] = tick[s]
      BY <1>0, <2>1, AppliesMoves
    <2>6. tick'[t].cap = tick[t].cap
      BY <1>0, <2>1, <2>3, AppliesMoves
    <2>7. tick'[t].count = tick[t].count + 1
      BY <1>0, <2>1, <2>3, <2>4, AppliesMoves
    <2>8. QED
      BY <2>1, <2>2, <2>5, <2>6, <2>7 DEF Carries
  <1>2. Rooms(u)' \subseteq Rooms(u)
    BY <1>0, <1>1, RoomsShrink DEF Counted
  <1>3. Inserting(u)' = Inserting(u)
    BY Zenon DEF insertFact, Inserting
  <1>4. facts' = With(facts, lastFact + 1, row)
    BY DEF insertFact
  <1>5. row.user = User(t)
    OBVIOUS
  <1> HIDE DEF row
  <1>6. CASE User(t) # u
    <2>1. lastFact + 1 \notin DOMAIN facts
      BY <1>0 DEF RowsOK, FactRows
    <2>2. Active(u)' \subseteq Active(u)
      BY <1>4, <1>5, <1>6, <2>1, InsertedActive
    <2>3. QED
      BY <1>0, <1>2, <1>3, <2>2, NoneInserted
  <1>7. CASE User(t) = u
    <2> DEFINE room == <<t, tick[t].count + 1>>
    <2>1. /\ tick[t].cap \in Nat /\ tick[t].count \in Nat /\ tick[t].cap <= FactCap
      <3>1. tick[t] \in TickRow(lastCapture)
        BY <1>0 DEF TicksOK, TickOK
      <3>2. tick[t].cap \in {0, FactCap} /\ tick[t].count \in Nat
        BY <3>1 DEF TickRow
      <3>3. QED
        BY <3>2, Sizes
    <2>2. room \in Rooms(u)
      BY <1>1, <1>7, <2>1, Sizes DEF Rooms, Counted
    <2>3. room \notin Rooms(u)'
      <3>1. ~(tick'[t].count < tick[t].count + 1)
        BY <1>1, <2>1
      <3>2. QED
        BY <3>1 DEF Rooms
    <2> HIDE DEF room
    <2>4. Rooms(u)' \subseteq Rooms(u) \ {room}
      BY <1>2, <2>3
    <2>5. /\ Cardinality(Rooms(u)) \in Nat /\ Cardinality(Rooms(u)') \in Nat
          /\ Cardinality(Rooms(u)') <= Cardinality(Rooms(u)) - 1 /\ AllRooms \in Nat
      BY <2>2, <2>4, RoomsTyped, RoomsFinite, OneLess
    <2>6. Active(u)' \subseteq Active(u) \cup {lastFact + 1}
      BY <1>4, InsertedActive
    <2>7. /\ Cardinality(Active(u)) \in Nat /\ Cardinality(Active(u)') \in Nat
          /\ Cardinality(Active(u)') <= Cardinality(Active(u)) + 1
      BY <1>0, <2>6, ActiveFinite, OneMore
    <2>8. Cardinality(Inserting(u)) \in Nat /\ Cardinality(Writers) \in Nat
          /\ Cardinality(Inserting(u)') = Cardinality(Inserting(u))
      BY <1>3, RoomsTyped
    <2>9. QED
      BY <2>5, <2>7, <2>8, Sizes DEF RoomLeft
  <1>8. QED
    BY <1>6, <1>7

(* ... a supersession exchanges a fact for another, and the rest inserts nothing. *)
LEMMA ExchangeStep ==
  ASSUME TypeInv, NEW t \in Ticks, supersedeFact(t), NEW u \in Users, RoomLeft(u),
         Rooms(u)' \subseteq Rooms(u)
  PROVE  RoomLeft(u)'
  <1> DEFINE row(old) == [user |-> User(t), active |-> TRUE, supersedes |-> old, origin |-> Origin(t)]
  <1>0. RowsOK
    BY DEF TypeInv
  <1>1. PICK old \in 1..lastFact :
          /\ old \in Active(User(t))
          /\ facts' = With(Deactivated(User(t), old), lastFact + 1, row(old))
    BY DEF supersedeFact
  <1> DEFINE table == Deactivated(User(t), old)
  <1>2. row(old).user = User(t)
    OBVIOUS
  <1> HIDE DEF row
  <1>3. old \in DOMAIN facts /\ facts[old].user = User(t)
    BY <1>1 DEF Active
  <1>4. /\ DOMAIN table = DOMAIN facts /\ ~table[old].active
        /\ \A f \in DOMAIN facts : table[f].user = facts[f].user /\ (table[f].active => facts[f].active)
    BY <1>0, <1>3, Deactivates
  <1>5. facts' = With(table, lastFact + 1, row(old))
    BY <1>1
  <1> HIDE DEF table
  <1>6. Inserting(u)' = Inserting(u)
    BY Zenon DEF supersedeFact, Inserting
  <1>7. CASE User(t) # u
    <2>1. lastFact + 1 \notin DOMAIN facts
      BY <1>0 DEF RowsOK, FactRows
    <2>2. Active(u)' \subseteq Active(u)
      BY <1>2, <1>4, <1>5, <1>7, <2>1, InsertedActive
    <2>3. QED
      BY <1>0, <1>6, <2>2, NoneInserted
  <1>8. CASE User(t) = u
    <2>1. Active(u)' \subseteq (Active(u) \ {old}) \cup {lastFact + 1}
      BY <1>4, <1>5, InsertedActive
    <2>2. /\ Cardinality(Active(u)) \in Nat /\ Cardinality(Active(u)') \in Nat
          /\ Cardinality(Active(u)') <= Cardinality(Active(u))
      BY <1>0, <1>1, <1>8, <2>1, ActiveFinite, Exchanged
    <2>3. /\ Cardinality(Rooms(u)) \in Nat /\ Cardinality(Rooms(u)') \in Nat
          /\ Cardinality(Rooms(u)') <= Cardinality(Rooms(u)) /\ AllRooms \in Nat
      BY RoomsTyped, RoomsFinite, PartOf
    <2>4. Cardinality(Inserting(u)) \in Nat /\ Cardinality(Writers) \in Nat
          /\ Cardinality(Inserting(u)') = Cardinality(Inserting(u))
      BY <1>6, RoomsTyped
    <2>5. QED
      BY <2>2, <2>3, <2>4, Sizes DEF RoomLeft
  <1>9. QED
    BY <1>7, <1>8

LEMMA TickRooms ==
  ASSUME TypeInv, NEW t \in Ticks, Step(t) \/ StatementFails(t) \/ markFails(t),
         NEW u \in Users, RoomLeft(u)
  PROVE  RoomLeft(u)'
  <1>0. RowsOK /\ TicksOK
    BY DEF TypeInv
  <1>1. CASE distillTick(t) \/ pendingForUser(t) \/ Ends(t)
    <2>1. /\ \A s \in Ticks \ {t} : tick'[s] = tick[s]
          /\ tick'[t].pc \notin Counted
      BY <1>0, <1>1, EndsMoves, LoadsMoves DEF Counted, Loads
    <2>2. Rooms(u)' \subseteq Rooms(u)
      BY <1>0, <2>1, RoomsShrink
    <2>3. UNCHANGED <<facts, writer>>
      BY <1>1, Zenon DEF distillTick, pendingForUser, Ends, createFails, insertFactRefused,
         addRelationRefused, markDone, markFailed, StatementFails, markFails, tables
    <2>4. Active(u)' = Active(u) /\ Inserting(u)' = Inserting(u)
      BY <2>3 DEF Active, Inserting
    <2>5. QED
      BY <1>0, <2>2, <2>4, NoneInserted
  <1>2. CASE create(t) \/ getTier(t)
    <2>1. Applies(t) /\ (tick[t].pc = "create" \/ tick[t].pc = "getTier")
      BY <1>2 DEF Applies, create, getTier, At
    <2>2. /\ \A s \in Ticks \ {t} : tick'[s] = tick[s]
          /\ tick'[t].pc \notin Counted
      <3>1. ~countActiveFacts(t) /\ ~insertFact(t) /\ tick[t].pc \notin {"apply", "hub", "mention", "relate"}
        BY <2>1 DEF countActiveFacts, insertFact, At
      <3>2. QED
        BY <1>0, <2>1, <3>1, AppliesMoves DEF Counted
    <2>3. Rooms(u)' \subseteq Rooms(u)
      BY <1>0, <2>2, RoomsShrink
    <2>4. UNCHANGED <<facts, writer>>
      BY <1>2, Zenon DEF create, getTier, tables
    <2>5. Active(u)' = Active(u) /\ Inserting(u)' = Inserting(u)
      BY <2>4 DEF Active, Inserting
    <2>6. QED
      BY <1>0, <2>3, <2>5, NoneInserted
  <1>3. CASE SkipOp(t) \/ deactivateFact(t) \/ supersedeFact(t) \/ upsertHub(t) \/ upsert(t) \/ addRelation(t)
    <2>1. Rooms(u)' \subseteq Rooms(u)
      <3>1. CASE insertFact(t) \/ countActiveFacts(t) \/ create(t) \/ getTier(t)
        <4>1. tick[t].pc \in {"apply", "hub", "mention", "relate"}
          BY <1>3 DEF SkipOp, deactivateFact, supersedeFact, upsertHub, upsert, addRelation, At
        <4>2. insertFact(t)
          BY <3>1, <4>1 DEF countActiveFacts, create, getTier, At
        <4>3. Applies(t) /\ ~create(t) /\ ~getTier(t) /\ ~countActiveFacts(t)
          BY <4>1, <4>2 DEF Applies, countActiveFacts, create, getTier, At
        <4>4. QED
          BY <1>0, <4>1, <4>3, AppliesMoves, RoomsShrink DEF Counted, Carries
      <3>2. CASE ~(insertFact(t) \/ countActiveFacts(t) \/ create(t) \/ getTier(t))
        <4>1. Applies(t)
          BY <1>3 DEF Applies
        <4>2. QED
          BY <1>0, <3>2, <4>1, AppliesMoves, RoomsShrink DEF Counted, Carries
      <3>3. QED
        BY <3>1, <3>2
    <2>2. CASE supersedeFact(t)
      BY <2>1, <2>2, ExchangeStep
    <2>3. CASE ~supersedeFact(t)
      <3>1. /\ UNCHANGED writer
            /\ UNCHANGED facts \/ deactivateFact(t)
        BY <1>3, <2>3, Zenon DEF SkipOp, deactivateFact, upsertHub, upsert, addRelation, tables
      <3>2. Active(u)' \subseteq Active(u)
        <4>1. CASE UNCHANGED facts
          BY <4>1 DEF Active
        <4>2. CASE deactivateFact(t)
          <5>1. PICK id \in 1..lastFact : facts' = Deactivated(User(t), id)
            BY <4>2 DEF deactivateFact
          <5>2. QED
            BY <1>0, <5>1, DeactivatedActive
        <4>3. QED
          BY <3>1, <4>1, <4>2
      <3>3. Inserting(u)' = Inserting(u)
        BY <3>1 DEF Inserting
      <3>4. QED
        BY <1>0, <2>1, <3>2, <3>3, NoneInserted
    <2>4. QED
      BY <2>2, <2>3
  <1>4. QED
    BY <1>1, <1>2, <1>3, CountStep, InsertStep, StepKinds DEF Applies

(* The steps of a writer: it counts, it inserts, or it makes no difference. *)
LEMMA WriterRooms ==
  ASSUME TypeInv, NEW w \in Writers, Write(w) \/ WriterFails(w), NEW u \in Users, RoomLeft(u)
  PROVE  RoomLeft(u)'
  <1>0. RowsOK /\ WritersOK
    BY DEF TypeInv
  <1>1. Rooms(u)' = Rooms(u)
    <2>1. UNCHANGED tick
      BY Zenon DEF Write, Begin, countForWriter, insertStated, appendRemembered, Append1, WriterFails
    <2>2. QED
      BY <2>1 DEF Rooms, User
  <1>2. /\ Cardinality(Rooms(u)) \in Nat /\ Cardinality(Rooms(u)) <= AllRooms /\ AllRooms \in Nat
    BY RoomsTyped, RoomsFinite
  <1>3. ASSUME NEW new, writer' = [writer EXCEPT ![w] = new]
        PROVE  /\ \A v \in Writers \ {w} : writer'[v] = writer[v]
               /\ writer'[w] = new
    BY <1>0, <1>3 DEF WritersOK
  <1>4. CASE countForWriter(w) /\ Cardinality(Active(writer[w].user)) < writer[w].cap
    <2>1. Active(u)' = Active(u)
      BY <1>4, Zenon DEF countForWriter, tables, Active
    <2>2. CASE writer[w].user = u
      <3>1. writer[w].cap = FactCap
        <4>1. writer[w] # NoWriter
          BY <1>4 DEF countForWriter, NoWriter
        <4>2. QED
          BY <1>0, <4>1 DEF WritersOK, WriterRow
      <3>2. Cardinality(Active(u)) \in Nat /\ Cardinality(Active(u)) < FactCap
        BY <1>0, <1>4, <2>2, <3>1, ActiveFinite
      <3>3. Cardinality(Active(u)') = Cardinality(Active(u))
            /\ Cardinality(Rooms(u)') = Cardinality(Rooms(u))
        BY <1>1, <2>1
      <3>4. QED
        BY <1>2, <3>2, <3>3, RoomsTyped, Sizes DEF RoomLeft
    <2>3. CASE writer[w].user # u
      <3>1. \E new : writer' = [writer EXCEPT ![w] = new] /\ (new.pc = "insert" => new.user # u)
        <4> DEFINE kept == [writer[w] EXCEPT !.pc = "insert"]
        <4>1. writer[w] # NoWriter
          BY <1>4 DEF countForWriter, NoWriter
        <4>2. kept.user = writer[w].user
          BY <1>0, <4>1 DEF WritersOK, WriterRow
        <4>3. NoWriter.pc # "insert"
          BY DEF NoWriter
        <4>4. writer' = [writer EXCEPT ![w] = kept] \/ writer' = [writer EXCEPT ![w] = NoWriter]
          BY <1>4 DEF countForWriter
        <4> HIDE DEF kept
        <4>5. QED
          BY <2>3, <4>2, <4>3, <4>4
      <3>2. Inserting(u)' \subseteq Inserting(u)
        BY <1>3, <3>1 DEF Inserting
      <3>3. QED
        BY <1>0, <1>1, <2>1, <3>2, NoneInserted
    <2>4. QED
      BY <2>2, <2>3
  <1>5. CASE insertStated(w)
    <2> DEFINE row == [user |-> writer[w].user, active |-> TRUE, supersedes |-> 0, origin |-> 0]
    <2>1. writer[w].pc = "insert" /\ facts' = With(facts, lastFact + 1, row) /\ row.user = writer[w].user
      BY <1>5 DEF insertStated
    <2> HIDE DEF row
    <2>2. \E new : writer' = [writer EXCEPT ![w] = new] /\ new.pc # "insert"
      <3> DEFINE kept == [writer[w] EXCEPT !.pc = "append"]
      <3>1. writer[w] # NoWriter
        BY <2>1 DEF NoWriter
      <3>2. kept.pc # "insert"
        BY <1>0, <3>1 DEF WritersOK, WriterRow
      <3>3. NoWriter.pc # "insert"
        BY DEF NoWriter
      <3>4. writer' = [writer EXCEPT ![w] = kept] \/ writer' = [writer EXCEPT ![w] = NoWriter]
        BY <1>5 DEF insertStated
      <3> HIDE DEF kept
      <3>5. QED
        BY <3>2, <3>3, <3>4
    <2>3. Inserting(u)' \subseteq Inserting(u) \ {w}
      BY <1>3, <2>2 DEF Inserting
    <2>4. CASE writer[w].user # u
      <3>1. lastFact + 1 \notin DOMAIN facts
        BY <1>0 DEF RowsOK, FactRows
      <3>2. Active(u)' \subseteq Active(u)
        BY <2>1, <2>4, <3>1, InsertedActive
      <3>3. QED
        BY <1>0, <1>1, <2>3, <3>2, NoneInserted
    <2>5. CASE writer[w].user = u
      <3>1. w \in Inserting(u)
        BY <2>1, <2>5 DEF Inserting
      <3>2. /\ Cardinality(Inserting(u)) \in Nat /\ Cardinality(Inserting(u)') \in Nat
            /\ Cardinality(Inserting(u)') <= Cardinality(Inserting(u)) - 1
        BY <2>3, <3>1, RoomsTyped, OneLess
      <3>3. Active(u)' \subseteq Active(u) \cup {lastFact + 1}
        BY <2>1, InsertedActive
      <3>4. /\ Cardinality(Active(u)) \in Nat /\ Cardinality(Active(u)') \in Nat
            /\ Cardinality(Active(u)') <= Cardinality(Active(u)) + 1
        BY <1>0, <3>3, ActiveFinite, OneMore
      <3>5. Cardinality(Rooms(u)') = Cardinality(Rooms(u)) /\ Cardinality(Writers) \in Nat
        BY <1>1, RoomsTyped
      <3>6. QED
        BY <1>2, <3>2, <3>4, <3>5, Sizes DEF RoomLeft
    <2>6. QED
      BY <2>4, <2>5
  <1>6. CASE ~insertStated(w) /\ ~(countForWriter(w) /\ Cardinality(Active(writer[w].user)) < writer[w].cap)
    <2>1. \E new : writer' = [writer EXCEPT ![w] = new] /\ new.pc # "insert"
      <3>1. NoWriter.pc # "insert"
        BY DEF NoWriter
      <3>2. ASSUME NEW v \in Users, Begin(w, v)
            PROVE  \E new : writer' = [writer EXCEPT ![w] = new] /\ new.pc # "insert"
        <4> DEFINE new == [pc |-> "count", user |-> v, cap |-> MemoryFacts(v)]
        <4>1. writer' = [writer EXCEPT ![w] = new] /\ new.pc # "insert"
          BY <3>2 DEF Begin
        <4> HIDE DEF new
        <4>2. QED
          BY <4>1
      <3>3. CASE countForWriter(w)
        <4>1. writer[w] # NoWriter
          BY <3>3 DEF countForWriter, NoWriter
        <4>2. writer[w].cap = FactCap
          BY <1>0, <4>1 DEF WritersOK, WriterRow
        <4>3. Cardinality(Active(writer[w].user)) \in Nat
          BY <1>0, ActiveFinite
        <4>4. Cardinality(Active(writer[w].user)) >= writer[w].cap
          BY <1>6, <3>3, <4>2, <4>3, Sizes
        <4>5. writer' = [writer EXCEPT ![w] = NoWriter]
          BY <3>3, <4>4 DEF countForWriter
        <4>6. QED
          BY <3>1, <4>5
      <3>4. CASE appendRemembered(w) \/ WriterFails(w)
        BY <3>1, <3>4 DEF appendRemembered, WriterFails
      <3>5. QED
        BY <1>6, <3>2, <3>3, <3>4 DEF Write
    <2>2. Inserting(u)' \subseteq Inserting(u)
      BY <1>3, <2>1 DEF Inserting
    <2>3. UNCHANGED facts
      BY <1>6, Zenon DEF Write, Begin, countForWriter, appendRemembered, Append1, WriterFails, tables
    <2>4. Active(u)' = Active(u)
      BY <2>3 DEF Active
    <2>5. QED
      BY <1>0, <1>1, <2>2, <2>4, NoneInserted
  <1>7. QED
    BY <1>4, <1>5, <1>6

(* A command of a user inserts nothing, and a restart ends all who could. *)
LEMMA OtherRooms ==
  ASSUME TypeInv, \/ \E v \in Users : Command(v)
                  \/ Restart
                  \/ UNCHANGED vars,
         NEW u \in Users, RoomLeft(u)
  PROVE  RoomLeft(u)'
  <1>0. RowsOK
    BY DEF TypeInv
  <1>1. Active(u)' \subseteq Active(u)
    <2>1. ASSUME NEW v \in Users, Forget(v)
          PROVE  Active(u)' \subseteq Active(u)
      <3>1. PICK id \in DOMAIN facts : facts' = Deactivated(v, id)
        BY <2>1 DEF Forget
      <3>2. QED
        BY <1>0, <3>1, DeactivatedActive
    <2>2. ASSUME NEW v \in Users, forgetEverything(v)
          PROVE  Active(u)' \subseteq Active(u)
      BY <2>2 DEF forgetEverything, Without, Active
    <2>3. CASE UNCHANGED facts
      BY <2>3 DEF Active
    <2>4. \/ \E v \in Users : Forget(v) \/ forgetEverything(v)
          \/ UNCHANGED facts
      BY Zenon DEF Command, append, Append1, SetTier, Restart, vars, tables
    <2>5. QED
      BY <2>1, <2>2, <2>3, <2>4
  <1>2. Rooms(u)' \subseteq Rooms(u) /\ Inserting(u)' \subseteq Inserting(u)
    <2>1. CASE Restart
      <3>1. tick' = [t \in Ticks |-> Idle] /\ writer' = [w \in Writers |-> NoWriter]
        BY <2>1 DEF Restart
      <3>2. Idle.pc \notin Counted /\ NoWriter.pc # "insert"
        BY DEF Idle, NoWriter, Counted
      <3> HIDE DEF Idle, NoWriter
      <3>3. Rooms(u)' = {}
        BY <3>1, <3>2 DEF Rooms
      <3>4. Inserting(u)' = {}
        BY <3>1, <3>2 DEF Inserting
      <3>5. QED
        BY <3>3, <3>4
    <2>2. CASE ~Restart
      <3>1. UNCHANGED <<tick, writer>>
        BY <2>2, Zenon DEF Command, append, Append1, Forget, forgetEverything, SetTier, vars
      <3>2. QED
        BY <3>1 DEF Rooms, Inserting, User
    <2>3. QED
      BY <2>1, <2>2
  <1>3. QED
    BY <1>0, <1>1, <1>2, NoneInserted

LEMMA InitRooms == Init => \A u \in Users : RoomLeft(u)
  <1> SUFFICES ASSUME Init, NEW u \in Users PROVE RoomLeft(u)
    OBVIOUS
  <1>1. Active(u) = {}
    BY DEF Init, Active
  <1>2. Rooms(u) = {} /\ Inserting(u) = {}
    <2>1. tick = [t \in Ticks |-> Idle] /\ writer = [w \in Writers |-> NoWriter]
      BY DEF Init
    <2>2. Idle.pc \notin Counted /\ NoWriter.pc # "insert"
      BY DEF Idle, NoWriter, Counted
    <2> HIDE DEF Idle, NoWriter
    <2>3. QED
      BY <2>1, <2>2 DEF Rooms, Inserting
  <1>3. AllRooms \in Nat /\ Cardinality(Writers) \in Nat /\ Cardinality({}) = 0
    BY RoomsFinite, RoomsTyped, FS_EmptySet
  <1>4. QED
    BY <1>1, <1>2, <1>3, Sizes DEF RoomLeft

(* However ticks, /goals and remember interleave, fail and restart, a user has at most a cap of
   facts more per tick that can be under way and one per writer (distillService.ts:182-210). *)
THEOREM OvershootIsBounded == Spec => []FactOvershootBounded
  <1> DEFINE Inv == TypeInv /\ \A u \in Users : RoomLeft(u)
  <1>1. Init => Inv
    BY InitTyped, InitRooms
  <1>2. Inv /\ [Next]_vars => Inv'
    <2> SUFFICES ASSUME Inv, [Next]_vars PROVE Inv'
      OBVIOUS
    <2>1. TypeInv'
      BY NextTyped
    <2>2. ASSUME NEW u \in Users PROVE RoomLeft(u)'
      BY <2>2, TickRooms, WriterRooms, OtherRooms DEF Next, Work, Outage
    <2>3. QED
      BY <2>1, <2>2
  <1>3. Inv => FactOvershootBounded
    <2> SUFFICES ASSUME Inv, NEW u \in Users
                 PROVE  Cardinality(Active(u)) <= FactCap * (Cardinality(Ticks) + 1) + Cardinality(Writers) - 1
      BY DEF FactOvershootBounded
    <2>1. Cardinality(Active(u)) \in Nat
      BY ActiveFinite DEF TypeInv
    <2>2. /\ Cardinality(Rooms(u)) \in Nat /\ Cardinality(Inserting(u)) \in Nat
          /\ AllRooms \in Nat /\ Cardinality(Writers) \in Nat
      BY RoomsTyped, RoomsFinite
    <2>3. Cardinality(Active(u)) <= AllRooms + FactCap + Cardinality(Writers) - 1
      BY <2>1, <2>2, Sizes DEF RoomLeft
    <2>4. Cardinality(Ticks) \in Nat
      BY TicksAssumption, FS_CardinalityType
    <2>5. FactCap * (Cardinality(Ticks) + 1) = AllRooms + FactCap
      BY <2>4, Sizes DEF AllRooms
    <2>6. QED
      BY <2>3, <2>5
  <1> HIDE DEF Inv
  <1>4. QED
    BY <1>1, <1>2, <1>3, PTL DEF Spec
=============================================================================
