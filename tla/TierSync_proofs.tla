--------------------------- MODULE TierSync_proofs ---------------------------
(***************************************************************************)
(* Proofs about TierSync, for every set of users, subscriptions, statuses, *)
(* overlapping runs and faults.                                            *)
(***************************************************************************)
EXTENDS TierSync, SequenceTheorems, FiniteSetTheorems, TLAPS

USE DEF Pc

LEMMA IdleType == Idle \in RunState
  BY EmptySeq DEF Idle, RunState

(* A worklist loses its head: what is left is a worklist, of fewer elements. *)
LEMMA TailType ==
  ASSUME NEW todo \in Seq(Subs), Len(todo) > 1
  PROVE  /\ Tail(todo) \in Seq(Subs)
         /\ Tail(todo) # <<>>
         /\ \A i \in DOMAIN Tail(todo) : i + 1 \in DOMAIN todo /\ Tail(todo)[i] = todo[i + 1]
  <1>1. todo # <<>>
    BY EmptySeq
  <1>2. QED
    BY <1>1, HeadTailProperties, LenProperties, EmptySeq

(* Where NextRow takes a run: to the end, or to the rest of its rows. *)
LEMMA NextRowEffect ==
  ASSUME NEW r \in Runs, TypeOK, NextRow(r)
  PROVE  /\ \A q \in Runs \ {r} : run'[q] = run[q]
         /\ \/ run'[r] = Idle
            \/ /\ run'[r] = [pc |-> "getSubscription", todo |-> Tail(run[r].todo),
                             answer |-> "none"]
               /\ Len(run[r].todo) > 1
         /\ run' \in [Runs -> RunState]
         /\ run'[r].pc \notin {"idle", "listSessions", "listPollable"} => run'[r].todo # <<>>
         /\ run'[r].pc # "markStatus"
  <1>1. run[r] \in RunState /\ run[r].todo \in Seq(Subs)
    BY DEF TypeOK, RunState
  <1>2. CASE Len(run[r].todo) > 1
    <2>1. run' = [run EXCEPT ![r] = [pc |-> "getSubscription", todo |-> Tail(run[r].todo),
                                     answer |-> "none"]]
      BY <1>2 DEF NextRow, TypeOK
    <2>2. Tail(run[r].todo) \in Seq(Subs) /\ Tail(run[r].todo) # <<>>
      BY <1>1, <1>2, TailType
    <2>3. QED
      BY <1>2, <2>1, <2>2 DEF TypeOK, RunState
  <1>3. CASE ~(Len(run[r].todo) > 1)
    <2>1. run' = [run EXCEPT ![r] = Idle]
      BY <1>3 DEF NextRow, TypeOK
    <2>2. QED
      BY <2>1, IdleType DEF TypeOK, Idle
  <1>4. QED
    BY <1>2, <1>3

LEMMA NextSessionEffect ==
  ASSUME NEW r \in Runs, TypeOK, NextSession(r), run[r].pc = "link"
  PROVE  /\ \A q \in Runs \ {r} : run'[q] = run[q]
         /\ \/ run'[r] = [Idle EXCEPT !.pc = "listPollable"]
            \/ /\ run'[r] = [run[r] EXCEPT !.todo = Tail(run[r].todo)]
               /\ Len(run[r].todo) > 1
         /\ run' \in [Runs -> RunState]
         /\ run'[r].pc \notin {"idle", "listSessions", "listPollable"} => run'[r].todo # <<>>
         /\ run'[r].pc # "markStatus"
  <1>1. run[r] \in RunState /\ run[r].todo \in Seq(Subs)
    BY DEF TypeOK, RunState
  <1>2. CASE Len(run[r].todo) > 1
    <2>1. run' = [run EXCEPT ![r] = [run[r] EXCEPT !.todo = Tail(run[r].todo)]]
      BY <1>2 DEF NextSession, TypeOK
    <2>2. Tail(run[r].todo) \in Seq(Subs) /\ Tail(run[r].todo) # <<>>
      BY <1>1, <1>2, TailType
    <2>3. [run[r] EXCEPT !.todo = Tail(run[r].todo)] \in RunState
      BY <1>1, <2>2 DEF RunState
    <2>4. QED
      BY <1>1, <1>2, <2>1, <2>2, <2>3 DEF TypeOK, RunState
  <1>3. CASE ~(Len(run[r].todo) > 1)
    <2>1. run' = [run EXCEPT ![r] = [Idle EXCEPT !.pc = "listPollable"]]
      BY <1>3 DEF NextSession, TypeOK
    <2>2. [Idle EXCEPT !.pc = "listPollable"] \in RunState
      BY EmptySeq DEF Idle, RunState
    <2>3. QED
      BY <2>1, <2>2 DEF TypeOK, Idle
  <1>4. QED
    BY <1>2, <1>3

(* The subscription a run is at. *)
LEMMA CurrentType ==
  ASSUME NEW r \in Runs, TypeOK, run[r].pc \notin {"idle", "listSessions", "listPollable"}
  PROVE  /\ Current(r) \in Subs
         /\ 1 \in DOMAIN run[r].todo
         /\ Current(r) = run[r].todo[1]
  <1>1. run[r].todo \in Seq(Subs) /\ run[r].todo # <<>>
    BY DEF TypeOK, RunState
  <1>2. QED
    BY <1>1, HeadTailProperties, EmptySeq, LenProperties DEF Current

LEMMA moveTierType ==
  ASSUME NEW u, NEW from \in Tiers, NEW to \in Tiers, TypeOK, moveTier(u, from, to)
  PROVE  tier' \in [Users -> Tiers] /\ setBy' \in [Users -> {"operator", "sync"}]
  BY DEF moveTier, TypeOK, tierVars


LEMMA TouchType ==
  ASSUME NEW s \in Subs, TypeOK, Touch(s)
  PROVE  updatedBefore' \in SUBSET (Subs \X Subs)
  BY DEF Touch, TypeOK, Rows

(* A page of the sessions is a worklist. *)
LEMMA PageType ==
  ASSUME TypeOK, NEW n \in Nat
  PROVE  n <= Len(sessions) => /\ SubSeq(sessions, 1, n) \in Seq(Subs)
                              /\ Elements(SubSeq(sessions, 1, n)) \subseteq Elements(sessions)
  <1>1. SUFFICES ASSUME n <= Len(sessions)
                 PROVE  /\ SubSeq(sessions, 1, n) \in Seq(Subs)
                        /\ Elements(SubSeq(sessions, 1, n)) \subseteq Elements(sessions)
    OBVIOUS
  <1>2. sessions \in Seq(Subs) /\ \A i \in 1 .. n : sessions[i] \in Subs
    BY <1>1, ElementOfSeq, LenProperties DEF TypeOK
  <1>3. /\ SubSeq(sessions, 1, n) \in Seq(Subs)
        /\ Len(SubSeq(sessions, 1, n)) = n
        /\ \A i \in 1 .. n : SubSeq(sessions, 1, n)[i] = sessions[i]
    BY <1>2, SubSeqProperties
  <1>4. DOMAIN SubSeq(sessions, 1, n) = 1 .. n /\ 1 .. n \subseteq DOMAIN sessions
    BY <1>1, <1>2, <1>3, LenProperties
  <1>5. QED
    BY <1>3, <1>4 DEF Elements

(* The worklist of stage 2 consists of the pollable rows. *)
LEMMA listPollableType ==
  ASSUME NEW rows \in listPollable
  PROVE  rows \in Seq(Subs) /\ Elements(rows) \subseteq Pollable
  <1>1. rows \in [1 .. Cardinality(Pollable) -> Pollable] /\ Pollable \subseteq Subs
    BY DEF listPollable, Pollable
  <1>2. Cardinality(Pollable) \in Nat
    BY <1>1, SubsAssumption, FS_Subset, FS_CardinalityType
  <1>3. QED
    BY <1>1, <1>2, IsASeq, SeqMonotonic DEF Elements

LEMMA InitType == Init => TypeOK
  BY EmptySeq, IdleType DEF Init, TypeOK, Idle, Tiers

LEMMA EnvironmentType == TypeOK /\ Environment => TypeOK'
  <1> SUFFICES ASSUME TypeOK, Environment
               PROVE  TypeOK'
    OBVIOUS
  <1> USE DEF TypeOK, tableVars, tierVars, stripeVars, historyVars
  <1>1. ASSUME NEW s \in Subs, Checkout(s)
        PROVE  TypeOK'
    <2>1. <<s>> \o sessions \in Seq(Subs)
      BY ConcatProperties
    <2>2. QED
      BY <1>1, <2>1 DEF Checkout, Remember
  <1>2. ASSUME NEW s \in Subs, StatusChange(s)
        PROVE  TypeOK'
    BY <1>2 DEF StatusChange, Remember
  <1>3. ASSUME SessionAges
        PROVE  TypeOK'
    <2>1. Len(sessions) - 1 \in Nat /\ Len(sessions) - 1 <= Len(sessions)
      BY <1>3, EmptySeq, LenProperties DEF SessionAges
    <2>2. SubSeq(sessions, 1, Len(sessions) - 1) \in Seq(Subs)
      BY <2>1, PageType
    <2>3. QED
      BY <1>3, <2>2 DEF SessionAges
  <1>4. ASSUME NEW u \in Users, NEW t \in OperatorTiers, setTier(u, t)
        PROVE  TypeOK'
    BY <1>4, TiersAssumption DEF setTier
  <1>5. QED
    BY <1>1, <1>2, <1>3, <1>4 DEF Environment

LEMMA StepType == TypeOK /\ (\E r \in Runs : Step(r)) => TypeOK'
  <1> SUFFICES ASSUME TypeOK, NEW r \in Runs, Step(r)
               PROVE  TypeOK'
    OBVIOUS
  <1> USE DEF tableVars, tierVars, stripeVars, historyVars
  <1>1. run[r] \in RunState
    BY DEF TypeOK
  <1>2. CASE runOnce(r)
    BY <1>1, <1>2 DEF runOnce, TypeOK, RunState
  <1>3. CASE listRecentCompletedSessions(r)
    <2> DEFINE page == IF Len(sessions) > SessionPage THEN SubSeq(sessions, 1, SessionPage)
                                                      ELSE sessions
    <2>1. page \in Seq(Subs)
      BY PageType, PageAssumption, LenProperties DEF TypeOK
    <2> DEFINE next == [pc |-> IF page = <<>> THEN "listPollable" ELSE "link",
                        todo |-> page, answer |-> "none"]
    <2>2. /\ next \in RunState /\ next.pc # "markStatus"
          /\ next.pc # "listPollable" => next.todo # <<>>
      BY <2>1 DEF RunState
    <2>3. run' = [run EXCEPT ![r] = next]
      BY <1>3 DEF listRecentCompletedSessions
    <2> HIDE DEF next
    <2>4. QED
      BY <1>3, <2>2, <2>3 DEF listRecentCompletedSessions, TypeOK
  <1>4. CASE LinkSession(r)
    <2>1. Current(r) \in Subs
      BY <1>4, CurrentType DEF LinkSession
    <2>2. /\ entitlement' \in [Subs -> {"absent", "pending", "active", "revoked"}]
          /\ updatedBefore' \in SUBSET (Subs \X Subs)
          /\ linked' \subseteq Subs
      BY <1>4, <2>1, TouchType DEF LinkSession, linkFromSession, TypeOK
    <2>3. QED
      BY <1>4, <2>2, NextSessionEffect DEF LinkSession, TypeOK
  <1>5. CASE ListRows(r)
    <2>1. PICK rows \in listPollable :
             run' = [run EXCEPT ![r] =
                IF rows = <<>> THEN Idle
                ELSE [pc |-> "getSubscription", todo |-> rows, answer |-> "none"]]
      BY <1>5 DEF ListRows
    <2>2. rows \in Seq(Subs)
      BY listPollableType
    <2>3. QED
      BY <1>5, <2>1, <2>2, IdleType DEF ListRows, TypeOK, RunState, Idle
  <1>6. CASE getSubscription(r)
    <2>1. \A status : ReportedStatus(status) \in {"pending", "active", "revoked"}
      BY DEF ReportedStatus, stripeStatusToEntitlement
    <2>2. QED
      BY <1>1, <1>6, <2>1 DEF getSubscription, TypeOK, RunState
  <1>7. CASE MarkRow(r)
    <2>1. Current(r) \in Subs
      BY <1>7, CurrentType DEF MarkRow
    <2>2. run[r].answer \in {"pending", "active", "revoked"}
      BY <1>1, <1>7 DEF RunState, MarkRow, TypeOK
    <2>3. /\ entitlement' \in [Subs -> {"absent", "pending", "active", "revoked"}]
          /\ updatedBefore' \in SUBSET (Subs \X Subs)
      BY <1>7, <2>1, <2>2, TouchType DEF MarkRow, markStatus, TypeOK
    <2>4. CASE NextRow(r)
      <3>1. /\ run' \in [Runs -> RunState]
            /\ \A q \in Runs \ {r} : run'[q] = run[q]
            /\ run'[r].pc \notin {"idle", "listSessions", "listPollable"} => run'[r].todo # <<>>
            /\ run'[r].pc # "markStatus"
        BY <2>4, NextRowEffect
      <3>2. UNCHANGED <<subscription, sessions, tier, setBy, paid, lapsed, linked>>
        BY <1>7 DEF MarkRow
      <3>3. QED
        BY <2>3, <3>1, <3>2 DEF TypeOK
    <2>5. ASSUME NEW pc \in {"grant", "revoke"}, run' = [run EXCEPT ![r].pc = pc]
          PROVE  TypeOK'
      <3>1. run' \in [Runs -> RunState]
        BY <1>1, <2>5 DEF TypeOK, RunState
      <3>2. /\ run'[r].pc = pc /\ run'[r].todo # <<>>
            /\ \A q \in Runs \ {r} : run'[q] = run[q]
        BY <1>1, <1>7, <2>5 DEF MarkRow, TypeOK, RunState
      <3>3. QED
        BY <1>7, <2>3, <3>1, <3>2 DEF MarkRow, TypeOK
    <2>6. QED
      BY <1>7, <2>4, <2>5 DEF MarkRow
  <1>8. CASE Grant(r)
    BY <1>8, NextRowEffect, moveTierType, ZenonT(30) DEF Grant, grantProFromEntitlement, TypeOK, Tiers
  <1>9. CASE Revoke(r)
    BY <1>9, NextRowEffect, moveTierType, ZenonT(30) DEF Revoke, revokeProFromEntitlement, TypeOK, Tiers
  <1>10. QED
    BY <1>2, <1>3, <1>4, <1>5, <1>6, <1>7, <1>8, <1>9 DEF Step

LEMMA FailureType == TypeOK /\ ((\E r \in Runs : Failure(r)) \/ Restart) => TypeOK'
  <1> USE DEF tableVars, tierVars, stripeVars, historyVars
  <1>1. ASSUME TypeOK, NEW r \in Runs, SignupsFail(r)
        PROVE  TypeOK'
    <2>1. [Idle EXCEPT !.pc = "listPollable"] \in RunState
      BY EmptySeq DEF Idle, RunState
    <2>2. QED
      BY <1>1, <2>1 DEF SignupsFail, TypeOK, Idle
  <1>2. ASSUME TypeOK, NEW r \in Runs, ListRowsFails(r)
        PROVE  TypeOK'
    BY <1>2, IdleType DEF ListRowsFails, TypeOK, Idle
  <1>3. ASSUME TypeOK, NEW r \in Runs, RowFails(r)
        PROVE  TypeOK'
    BY <1>3, NextRowEffect DEF RowFails, TypeOK
  <1>4. ASSUME TypeOK, Restart
        PROVE  TypeOK'
    BY <1>4, IdleType DEF Restart, TypeOK, Idle
  <1>5. QED
    BY <1>1, <1>2, <1>3, <1>4 DEF Failure

LEMMA NextType == TypeOK /\ [Next]_vars => TypeOK'
  <1>1. TypeOK /\ UNCHANGED vars => TypeOK'
    BY DEF TypeOK, vars, Pollable
  <1>2. QED
    BY <1>1, EnvironmentType, StepType, FailureType DEF Next

(* Type correctness: every variable keeps its type whatever runs overlap and
   whatever fails. *)
THEOREM TypeCorrect == Spec => []TypeOK
  BY InitType, NextType, PTL DEF Spec
-----------------------------------------------------------------------------
(* The inductive invariant. *)

LEMMA TailElements ==
  ASSUME NEW todo \in Seq(Subs), Len(todo) > 1
  PROVE  Elements(Tail(todo)) \subseteq Elements(todo)
  BY TailType DEF Elements

LEMMA CurrentElement ==
  ASSUME NEW r \in Runs, TypeOK, run[r].pc \notin {"idle", "listSessions", "listPollable"}
  PROVE  Current(r) \in Elements(run[r].todo)
  BY CurrentType DEF Elements

LEMMA IdleElements == Elements(Idle.todo) = {} /\ Elements(<<>>) = {}
  BY DEF Idle, Elements

(* What a step of the bot and a failure leave alone. *)
LEMMA BotFrame ==
  ASSUME TypeOK, (\E r \in Runs : Step(r) \/ Failure(r)) \/ Restart
  PROVE  UNCHANGED <<subscription, sessions, paid, lapsed>>
  BY DEF Step, Failure, Restart, runOnce, listRecentCompletedSessions, LinkSession, ListRows,
         getSubscription, MarkRow, Grant, Revoke, SignupsFail, ListRowsFails, RowFails,
         stripeVars, historyVars

(* The history only grows, and records what Stripe reports. *)
LEMMA HistoryStep ==
  ASSUME TypeOK, HistoryInv, [Next]_vars
  PROVE  /\ HistoryInv'
         /\ paid \subseteq paid' /\ lapsed \subseteq lapsed'
         /\ \A s \in Subs : Existed(s) => Existed(s)'
  <1>1. CASE UNCHANGED <<subscription, paid, lapsed>>
    BY <1>1 DEF HistoryInv, Existed, Paying
  <1>2. ASSUME NEW s \in Subs, NEW status,
               subscription' = [subscription EXCEPT ![s] = status], Remember(s, status)
        PROVE  /\ HistoryInv'
               /\ paid \subseteq paid' /\ lapsed \subseteq lapsed'
               /\ \A x \in Subs : Existed(x) => Existed(x)'
    <2>1. paid \subseteq paid' /\ lapsed \subseteq lapsed'
      BY <1>2 DEF Remember
    <2>2. subscription'[s] = status /\ \A x \in Subs \ {s} : subscription'[x] = subscription[x]
      BY <1>2 DEF TypeOK
    <2>3. ReportedStatus("none") = "revoked"
      BY DEF ReportedStatus
    <2>4. /\ ReportedStatus(status) = "active" => s \in paid'
          /\ ReportedStatus(status) = "revoked" => s \in lapsed'
      BY <1>2 DEF Remember
    <2>5. HistoryInv'
      BY <2>1, <2>2, <2>4 DEF HistoryInv, Paying
    <2>6. \A x \in Subs : Existed(x) => Existed(x)'
      BY <2>1, <2>2, <2>3, <2>4 DEF Existed
    <2>7. QED
      BY <2>1, <2>5, <2>6
  <1>3. CASE \E s \in Subs : Checkout(s) \/ StatusChange(s)
    BY <1>2, <1>3 DEF Checkout, StatusChange
  <1>4. CASE SessionAges \/ \E u \in Users, t \in OperatorTiers : setTier(u, t)
    BY <1>1, <1>4 DEF SessionAges, setTier, stripeVars, historyVars
  <1>5. CASE (\E r \in Runs : Step(r) \/ Failure(r)) \/ Restart
    BY <1>1, <1>5, BotFrame
  <1>6. CASE UNCHANGED vars
    BY <1>1, <1>6 DEF vars
  <1>7. QED
    BY <1>3, <1>4, <1>5, <1>6 DEF Next, Environment

(* What NextRow leaves of a worklist. *)
LEMMA NextRowElements ==
  ASSUME NEW r \in Runs, TypeOK, NextRow(r)
  PROVE  /\ \A q \in Runs \ {r} : run'[q] = run[q]
         /\ Elements(run'[r].todo) \subseteq Elements(run[r].todo)
         /\ run'[r].pc \in {"idle", "getSubscription"} /\ run'[r].answer = "none"
  <1>1. run[r].todo \in Seq(Subs)
    BY DEF TypeOK, RunState
  <1>2. CASE run'[r] = Idle
    <2>1. run'[r].todo = <<>> /\ run'[r].pc = "idle" /\ run'[r].answer = "none"
      BY <1>2 DEF Idle
    <2>2. QED
      BY <2>1, NextRowEffect, IdleElements
  <1>3. CASE run'[r] # Idle
    <2>1. run'[r].todo = Tail(run[r].todo) /\ Len(run[r].todo) > 1
          /\ run'[r].pc = "getSubscription" /\ run'[r].answer = "none"
      <3>1. /\ run'[r] = [pc |-> "getSubscription", todo |-> Tail(run[r].todo),
                          answer |-> "none"]
            /\ Len(run[r].todo) > 1
        BY <1>3, NextRowEffect
      <3>2. QED
        BY <3>1
    <2>2. Elements(Tail(run[r].todo)) \subseteq Elements(run[r].todo)
      BY <1>1, <2>1, TailElements
    <2>3. Elements(run'[r].todo) \subseteq Elements(run[r].todo)
      BY <2>1, <2>2
    <2>4. \A q \in Runs \ {r} : run'[q] = run[q]
      BY NextRowEffect
    <2>5. QED
      BY <2>1, <2>3, <2>4
  <1>4. QED
    BY <1>2, <1>3

(* Where the elements of a worklist come from: the sessions, the rows, or the
   worklist before.  In stage 2 they are rows. *)
LEMMA WorklistStep ==
  ASSUME TypeOK, NEW r \in Runs, Step(r) \/ Failure(r)
  PROVE  /\ \A q \in Runs \ {r} : run'[q] = run[q]
         /\ Elements(run'[r].todo) \subseteq Elements(run[r].todo) \cup Elements(sessions) \cup Rows
         /\ run'[r].pc \in RowSteps =>
                \/ Elements(run'[r].todo) \subseteq Rows
                \/ run[r].pc \in RowSteps /\ Elements(run'[r].todo) \subseteq Elements(run[r].todo)
  <1> DEFINE Goal ==
         /\ \A q \in Runs \ {r} : run'[q] = run[q]
         /\ Elements(run'[r].todo) \subseteq Elements(run[r].todo) \cup Elements(sessions) \cup Rows
         /\ run'[r].pc \in RowSteps =>
                \/ Elements(run'[r].todo) \subseteq Rows
                \/ run[r].pc \in RowSteps /\ Elements(run'[r].todo) \subseteq Elements(run[r].todo)
  <1>1. run[r] \in RunState /\ run[r].todo \in Seq(Subs) /\ run \in [Runs -> RunState]
    BY DEF TypeOK, RunState
  <1>2. ASSUME run[r].pc \in RowSteps, NextRow(r)
        PROVE  Goal
    BY <1>2, NextRowElements
  <1>3. ASSUME NEW pc \in Pc, NEW answer, run[r].pc \in RowSteps \/ pc \notin RowSteps,
               run' = [run EXCEPT ![r] = [pc |-> pc, todo |-> run[r].todo, answer |-> answer]]
        PROVE  Goal
    BY <1>1, <1>3
  <1>4. ASSUME NEW pc \in Pc \ RowSteps, run' = [run EXCEPT ![r] = [Idle EXCEPT !.pc = pc]]
        PROVE  Goal
    <2>1. run'[r].todo = <<>> /\ run'[r].pc = pc
      BY <1>1, <1>4 DEF Idle
    <2>2. QED
      BY <1>1, <1>4, <2>1, IdleElements
  <1>5. CASE runOnce(r)
    BY <1>1, <1>5 DEF runOnce, RowSteps
  <1>6. CASE listRecentCompletedSessions(r)
    <2> DEFINE page == IF Len(sessions) > SessionPage THEN SubSeq(sessions, 1, SessionPage)
                                                      ELSE sessions
    <2>1. Elements(page) \subseteq Elements(sessions)
      BY PageType, PageAssumption, LenProperties DEF TypeOK
    <2>2. run'[r].todo = page /\ run'[r].pc \notin RowSteps
      BY <1>1, <1>6 DEF listRecentCompletedSessions, RowSteps
    <2>3. \A q \in Runs \ {r} : run'[q] = run[q]
      BY <1>1, <1>6 DEF listRecentCompletedSessions
    <2>4. QED
      BY <2>1, <2>2, <2>3
  <1>7. CASE LinkSession(r)
    <2>1. NextSession(r) /\ run[r].pc = "link"
      BY <1>7 DEF LinkSession
    <2>2. /\ run'[r].pc \notin RowSteps
          /\ Elements(run'[r].todo) \subseteq Elements(run[r].todo)
      <3>1. CASE run'[r] = [Idle EXCEPT !.pc = "listPollable"]
        BY <3>1, IdleElements DEF Idle, RowSteps
      <3>2. CASE run'[r] = [run[r] EXCEPT !.todo = Tail(run[r].todo)] /\ Len(run[r].todo) > 1
        BY <1>1, <2>1, <3>2, TailElements DEF RowSteps, RunState
      <3>3. QED
        BY <2>1, <3>1, <3>2, NextSessionEffect
    <2>3. QED
      BY <2>1, <2>2, NextSessionEffect
  <1>8. CASE ListRows(r)
    <2>1. PICK rows \in listPollable :
             run' = [run EXCEPT ![r] =
                IF rows = <<>> THEN Idle
                ELSE [pc |-> "getSubscription", todo |-> rows, answer |-> "none"]]
      BY <1>8 DEF ListRows
    <2>2. Elements(rows) \subseteq Rows
      BY listPollableType DEF Pollable, Rows
    <2>3. QED
      BY <1>1, <2>1, <2>2, IdleElements DEF Idle, RowSteps
  <1>9. CASE getSubscription(r)
    BY <1>1, <1>9 DEF getSubscription, RowSteps, RunState
  <1>10. CASE MarkRow(r)
    <2>1. run[r].pc \in RowSteps
      BY <1>10 DEF MarkRow, RowSteps
    <2>2. ASSUME NEW pc \in Pc, run' = [run EXCEPT ![r].pc = pc]
          PROVE  Goal
      BY <1>1, <2>1, <2>2 DEF RunState
    <2>3. QED
      BY <1>2, <1>10, <2>1, <2>2 DEF MarkRow
  <1>11. CASE Grant(r) \/ Revoke(r) \/ RowFails(r)
    BY <1>2, <1>11 DEF Grant, Revoke, RowFails, RowSteps
  <1>12. CASE SignupsFail(r) \/ ListRowsFails(r)
    <2>1. CASE SignupsFail(r)
      BY <1>4, <2>1 DEF SignupsFail, RowSteps
    <2>2. CASE ListRowsFails(r)
      BY <1>1, <2>2, IdleElements DEF ListRowsFails, RowSteps, Idle
    <2>3. QED
      BY <1>12, <2>1, <2>2
  <1>13. QED
    BY <1>5, <1>6, <1>7, <1>8, <1>9, <1>10, <1>11, <1>12 DEF Step, Failure

(* Rows are never deleted; a new one has an owner and comes from a session. *)
LEMMA RowsStep ==
  ASSUME TypeOK, AttributionInv, NEW r \in Runs, Step(r) \/ Failure(r)
  PROVE  /\ Rows \subseteq Rows'
         /\ \A s \in Rows' \ Rows : Owner[s] \in Users /\ s \in Elements(run[r].todo)
  <1>1. CASE UNCHANGED entitlement
    BY <1>1 DEF Rows
  <1>2. CASE LinkSession(r)
    <2>1. Current(r) \in Subs /\ Current(r) \in Elements(run[r].todo)
      BY <1>2, CurrentType, CurrentElement DEF LinkSession
    <2>2. CASE Owner[Current(r)] = NoUser
      BY <1>1, <1>2, <2>2 DEF LinkSession, tableVars
    <2>3. CASE Owner[Current(r)] # NoUser
      <3>1. Owner[Current(r)] \in Users
        BY <2>1, <2>3, OwnerAssumption
      <3>2. entitlement' = [entitlement EXCEPT ![Current(r)] =
                IF entitlement[Current(r)] \in {"absent", "revoked"}
                THEN "pending" ELSE entitlement[Current(r)]]
        BY <1>2, <2>3 DEF LinkSession, linkFromSession
      <3>3. QED
        BY <2>1, <3>1, <3>2 DEF Rows, TypeOK
    <2>4. QED
      BY <2>2, <2>3
  <1>3. CASE MarkRow(r)
    <2>1. Current(r) \in Subs /\ Current(r) \in Rows
      BY <1>3, CurrentType, CurrentElement DEF MarkRow, AttributionInv, RowSteps
    <2>2. run[r].answer # "absent"
      BY <1>3 DEF MarkRow
    <2>3. entitlement' = [entitlement EXCEPT ![Current(r)] = run[r].answer]
      BY <1>3 DEF MarkRow, markStatus
    <2>4. QED
      BY <2>1, <2>2, <2>3 DEF Rows, TypeOK
  <1>4. QED
    BY <1>1, <1>2, <1>3 DEF Step, Failure, runOnce, listRecentCompletedSessions, ListRows,
         getSubscription, Grant, Revoke, SignupsFail, ListRowsFails, RowFails, tableVars

LEMMA ExistedStep ==
  ASSUME TypeOK, HistoryInv, ExistedInv, AttributionInv, [Next]_vars
  PROVE  ExistedInv'
  <1>1. \A s \in Subs : Existed(s) => Existed(s)'
    BY HistoryStep
  <1>2. sessions \in Seq(Subs) /\ Elements(sessions) \subseteq Subs /\ Rows \subseteq Subs
    BY ElementOfSeq, LenProperties DEF TypeOK, Elements, Rows
  <1>3. \A q \in Runs : Elements(run[q].todo) \subseteq Subs
    BY ElementOfSeq, LenProperties DEF TypeOK, RunState, Elements
  <1>4. ASSUME UNCHANGED <<entitlement, run>>, Elements(sessions') \subseteq Elements(sessions)
        PROVE  ExistedInv'
    BY <1>1, <1>2, <1>3, <1>4 DEF ExistedInv, Rows, Elements
  <1>5. ASSUME NEW s \in Subs, Checkout(s)
        PROVE  ExistedInv'
    <2>1. Existed(s)'
      BY <1>5 DEF Checkout, Existed, TypeOK
    <2>2. sessions' = <<s>> \o sessions /\ UNCHANGED <<entitlement, run>>
      BY <1>5 DEF Checkout, tableVars
    <2>3. Elements(<<s>> \o sessions) \subseteq {s} \cup Elements(sessions)
      <3>1. \A i \in 1 .. 1 + Len(sessions) :
               (<<s>> \o sessions)[i] = IF i <= 1 THEN s ELSE sessions[i - 1]
        BY <1>2, ConcatProperties
      <3>2. Len(<<s>> \o sessions) = 1 + Len(sessions) /\ <<s>> \o sessions \in Seq(Subs)
        BY <1>2, ConcatProperties
      <3>3. DOMAIN (<<s>> \o sessions) = 1 .. 1 + Len(sessions) /\ DOMAIN sessions = 1 .. Len(sessions)
        BY <1>2, <3>2, LenProperties
      <3>4. Len(sessions) \in Nat
        BY <1>2, LenProperties
      <3>5. QED
        BY <3>1, <3>3, <3>4 DEF Elements
    <2>4. QED
      BY <1>1, <1>2, <1>3, <2>1, <2>2, <2>3 DEF ExistedInv, Rows, Elements
  <1>6. CASE SessionAges
    <2>1. Len(sessions) - 1 \in Nat /\ Len(sessions) - 1 <= Len(sessions)
      BY <1>2, <1>6, EmptySeq, LenProperties DEF SessionAges
    <2>2. Elements(sessions') \subseteq Elements(sessions)
      BY <1>6, <2>1, PageType DEF SessionAges
    <2>3. QED
      BY <1>4, <1>6, <2>2 DEF SessionAges, tableVars
  <1>7. CASE (\E s \in Subs : StatusChange(s)) \/ \E u \in Users, t \in OperatorTiers : setTier(u, t)
    BY <1>4, <1>7 DEF StatusChange, setTier, stripeVars, tableVars
  <1>8. ASSUME NEW r \in Runs, Step(r) \/ Failure(r)
        PROVE  ExistedInv'
    <2>1. UNCHANGED sessions
      BY <1>8, BotFrame
    <2>2. \A s \in Rows' : s \in Rows \/ s \in Elements(run[r].todo)
      BY <1>8, RowsStep
    <2>3. /\ \A q \in Runs \ {r} : run'[q] = run[q]
          /\ Elements(run'[r].todo) \subseteq Elements(run[r].todo) \cup Elements(sessions) \cup Rows
      BY <1>8, WorklistStep
    <2>4. \A s \in Elements(sessions') \cup Rows' : Existed(s)'
      BY <1>1, <1>2, <1>3, <2>1, <2>2 DEF ExistedInv
    <2>5. \A q \in Runs : \A s \in Elements(run'[q].todo) : Existed(s)'
      <3>1. TAKE q \in Runs
      <3>2. CASE q = r
        BY <1>1, <1>2, <1>3, <2>3, <3>2 DEF ExistedInv
      <3>3. CASE q # r
        <4>1. run'[q] = run[q]
          BY <2>3, <3>3
        <4>2. QED
          BY <1>1, <1>3, <4>1 DEF ExistedInv
      <3>4. QED
        BY <3>2, <3>3
    <2>6. QED
      BY <2>4, <2>5 DEF ExistedInv, Elements
  <1>9. CASE Restart
    <2>1. UNCHANGED <<sessions, entitlement>> /\ run' = [q \in Runs |-> Idle]
      BY <1>9 DEF Restart, stripeVars, tableVars
    <2>2. \A q \in Runs : Elements(run'[q].todo) = {}
      BY <2>1, IdleElements
    <2>3. QED
      BY <1>1, <1>2, <2>1, <2>2 DEF ExistedInv, Rows, Elements
  <1>10. CASE UNCHANGED vars
    BY <1>4, <1>10 DEF vars
  <1>11. QED
    BY <1>5, <1>6, <1>7, <1>8, <1>9, <1>10 DEF Next, Environment

(* Stripe and the operator touch neither the rows nor the runs. *)
LEMMA EnvironmentFrame ==
  ASSUME Environment
  PROVE  UNCHANGED <<entitlement, updatedBefore, run>>
  BY DEF Environment, Checkout, StatusChange, SessionAges, setTier, tableVars

LEMMA AttributionStep ==
  ASSUME TypeOK, AttributionInv, [Next]_vars
  PROVE  AttributionInv'
  <1>1. ASSUME UNCHANGED <<entitlement, run>>
        PROVE  AttributionInv'
    BY <1>1 DEF AttributionInv, Rows, Elements
  <1>2. ASSUME NEW r \in Runs, Step(r) \/ Failure(r)
        PROVE  AttributionInv'
    <2>1. Rows \subseteq Rows' /\ \A s \in Rows' \ Rows : Owner[s] \in Users
      BY <1>2, RowsStep
    <2>2. \A s \in Rows' : Owner[s] \in Users
      BY <2>1 DEF AttributionInv
    <2>3. \A q \in Runs : run'[q].pc \in RowSteps => Elements(run'[q].todo) \subseteq Rows'
      <3>1. TAKE q \in Runs
      <3>2. CASE q = r
        <4>1. run'[r].pc \in RowSteps =>
                \/ Elements(run'[r].todo) \subseteq Rows
                \/ run[r].pc \in RowSteps /\ Elements(run'[r].todo) \subseteq Elements(run[r].todo)
          BY <1>2, WorklistStep
        <4>2. QED
          BY <2>1, <3>2, <4>1 DEF AttributionInv
      <3>3. CASE q # r
        <4>1. run'[q] = run[q]
          BY <1>2, <3>3, WorklistStep
        <4>2. QED
          BY <2>1, <4>1 DEF AttributionInv
      <3>4. QED
        BY <3>2, <3>3
    <2>4. QED
      BY <2>2, <2>3 DEF AttributionInv, Elements
  <1>3. CASE Restart
    <2>1. UNCHANGED entitlement /\ run' = [q \in Runs |-> Idle]
      BY <1>3 DEF Restart, tableVars
    <2>2. \A q \in Runs : run'[q].pc \notin RowSteps
      BY <2>1 DEF Idle, RowSteps
    <2>3. QED
      BY <2>1, <2>2 DEF AttributionInv, Rows
  <1>4. CASE Environment \/ UNCHANGED vars
    BY <1>1, <1>4, EnvironmentFrame DEF vars
  <1>5. QED
    BY <1>2, <1>3, <1>4 DEF Next

(* What AnswerInv says of one run. *)
LEMMA AnswerStep ==
  ASSUME IInv, [Next]_vars
  PROVE  AnswerInv'
  <1> DEFINE Ok(rn, p, l) ==
        /\ rn.pc = "grant" => rn.answer = "active"
        /\ rn.pc = "revoke" => rn.answer = "revoked"
        /\ rn.pc \in RowSteps /\ rn.answer = "active" => Head(rn.todo) \in p
        /\ rn.pc \in RowSteps /\ rn.answer = "revoked" => Head(rn.todo) \in l
  <1>1. AnswerInv <=> \A r \in Runs : Ok(run[r], paid, lapsed)
    BY DEF AnswerInv, Current
  <1>2. AnswerInv' <=> \A r \in Runs : Ok(run'[r], paid', lapsed')
    BY DEF AnswerInv, Current
  <1>3. paid \subseteq paid' /\ lapsed \subseteq lapsed'
    BY HistoryStep DEF IInv
  <1>4. ASSUME NEW q \in Runs, run'[q] = run[q]
        PROVE  Ok(run'[q], paid', lapsed')
    BY <1>1, <1>3, <1>4 DEF IInv
  <1>5. ASSUME NEW q \in Runs, run'[q].pc \notin RowSteps \/ run'[q].answer = "none",
               run'[q].pc \notin {"grant", "revoke"}
        PROVE  Ok(run'[q], paid', lapsed')
    BY <1>5 DEF RowSteps
  <1>6. ASSUME NEW r \in Runs, Step(r) \/ Failure(r)
        PROVE  Ok(run'[r], paid', lapsed')
    <2>1. TypeOK /\ run \in [Runs -> RunState] /\ run[r] \in RunState
      BY DEF IInv, TypeOK
    <2>2. CASE NextRow(r)
      BY <1>5, <2>1, <2>2, NextRowElements
    <2>3. CASE getSubscription(r)
      <3>1. /\ run'[r].pc = "markStatus" /\ run'[r].todo = run[r].todo
            /\ run'[r].answer = ReportedStatus(subscription[Current(r)])
        BY <2>1, <2>3 DEF getSubscription, RunState
      <3>2. Current(r) \in Subs /\ Existed(Current(r))
        BY <2>1, <2>3, CurrentType, CurrentElement DEF getSubscription, IInv, ExistedInv
      <3>3. UNCHANGED <<paid, lapsed>>
        BY <2>3 DEF getSubscription, historyVars
      <3>4. /\ ReportedStatus(subscription[Current(r)]) = "active" => Current(r) \in paid
            /\ ReportedStatus(subscription[Current(r)]) = "revoked" => Current(r) \in lapsed
        BY <3>2 DEF IInv, HistoryInv, Paying, Existed
      <3>5. QED
        BY <3>1, <3>3, <3>4 DEF Current
    <2>4. CASE MarkRow(r) /\ ~NextRow(r)
      <3>1. Ok(run[r], paid, lapsed) /\ run[r].pc \in RowSteps
        BY <1>1, <2>4 DEF MarkRow, RowSteps, IInv
      <3>2. /\ run'[r].todo = run[r].todo /\ run'[r].answer = run[r].answer
            /\ \/ run'[r].pc = "grant" /\ run[r].answer = "active"
               \/ run'[r].pc = "revoke" /\ run[r].answer = "revoked"
        BY <2>1, <2>4 DEF MarkRow, RunState
      <3>3. QED
        BY <1>3, <3>1, <3>2
    <2>5. CASE runOnce(r) \/ listRecentCompletedSessions(r) \/ SignupsFail(r) \/ ListRowsFails(r)
      <3>1. run'[r].pc \notin RowSteps
        BY <2>1, <2>5 DEF runOnce, listRecentCompletedSessions, SignupsFail, ListRowsFails, Idle,
             RowSteps, RunState
      <3>2. QED
        BY <1>5, <3>1 DEF RowSteps
    <2>6. CASE LinkSession(r)
      <3>1. NextSession(r) /\ run[r].pc = "link"
        BY <2>6 DEF LinkSession
      <3>2. run'[r] = [Idle EXCEPT !.pc = "listPollable"]
            \/ run'[r] = [run[r] EXCEPT !.todo = Tail(run[r].todo)]
        BY <2>1, <3>1, NextSessionEffect
      <3>3. run'[r].pc \in {"listPollable", "link"}
        BY <2>1, <3>1, <3>2 DEF Idle, RunState
      <3>4. QED
        BY <1>5, <3>3 DEF RowSteps
    <2>7. CASE ListRows(r)
      <3>1. /\ run'[r].pc \in {"idle", "getSubscription"}
            /\ run'[r].answer = "none"
        BY <2>1, <2>7 DEF ListRows, Idle, RunState
      <3>2. QED
        BY <1>5, <3>1
    <2>8. QED
      BY <1>6, <2>2, <2>3, <2>4, <2>5, <2>6, <2>7 DEF Step, Failure, Grant, Revoke, RowFails
  <1>7. CASE \E r \in Runs : Step(r) \/ Failure(r)
    <2>1. PICK r \in Runs : Step(r) \/ Failure(r)
      BY <1>7
    <2>2. \A q \in Runs \ {r} : run'[q] = run[q]
      BY <2>1, WorklistStep DEF IInv
    <2>3. QED
      BY <1>2, <1>4, <1>6, <2>1, <2>2
  <1>8. CASE Restart
    <2>1. \A q \in Runs : run'[q].pc = "idle"
      BY <1>8 DEF Restart, Idle
    <2>2. QED
      BY <1>2, <1>5, <2>1 DEF RowSteps
  <1>9. CASE Environment \/ UNCHANGED vars
    <2>1. run' = run
      BY <1>9, EnvironmentFrame DEF vars
    <2>2. QED
      BY <1>2, <1>4, <2>1
  <1>10. QED
    BY <1>7, <1>8, <1>9 DEF Next

LEMMA InitInv == Init => IInv
  <1> SUFFICES ASSUME Init
               PROVE  IInv
    OBVIOUS
  <1>1. TypeOK
    BY InitType
  <1>2. /\ \A s \in Subs : subscription[s] = "none" /\ entitlement[s] = "absent"
        /\ sessions = <<>>
        /\ \A r \in Runs : run[r] = Idle
    BY DEF Init
  <1>3. HistoryInv
    BY <1>2 DEF HistoryInv, Paying, ReportedStatus
  <1>4. ExistedInv
    BY <1>2, IdleElements DEF ExistedInv, Rows
  <1>5. AttributionInv /\ AnswerInv
    BY <1>2 DEF AttributionInv, AnswerInv, Rows, RowSteps, Idle
  <1>6. QED
    BY <1>1, <1>3, <1>4, <1>5 DEF IInv

LEMMA NextInv == IInv /\ [Next]_vars => IInv'
  BY NextType, HistoryStep, ExistedStep, AttributionStep, AnswerStep DEF IInv

(* The inductive invariant holds for all overlapping runs and all faults: rows
   have owners, and what a run is about to do was true of Stripe once. *)
THEOREM Invariance == Spec => []IInv
  BY InitInv, NextInv, PTL DEF Spec
-----------------------------------------------------------------------------
(* The refinement. *)

LEMMA OwnersMonotone ==
  ASSUME NEW S, NEW T, S \subseteq T
  PROVE  OwnersOf(S) \subseteq OwnersOf(T)
  BY DEF OwnersOf

LEMMA InitContract == Init => Contract!ContractInit
  BY DEF Init, Contract!ContractInit, OwnersOf

(* A write to a user's tier by the sync is a promotion or a demotion the user
   gave cause for. *)
LEMMA TierWriteContract ==
  ASSUME IInv, NEW r \in Runs, Grant(r) \/ Revoke(r)
  PROVE  [Contract!ContractNext]_(Contract!contractVars)
  <1> DEFINE s == Current(r)
             u == Owner[Current(r)]
  <1>1. run[r].pc \in {"grant", "revoke"} /\ UNCHANGED <<paid, lapsed>>
    BY DEF Grant, Revoke, historyVars
  <1>2. s \in Elements(run[r].todo) /\ s \in Subs
    BY <1>1, CurrentElement, CurrentType DEF IInv
  <1>3. u \in Users /\ u # NoUser
    BY <1>1, <1>2, OwnerAssumption DEF IInv, AttributionInv, RowSteps
  <1>4. UNCHANGED <<OwnersOf(paid), OwnersOf(lapsed)>>
    BY <1>1
  <1>5. CASE Grant(r)
    <2>1. s \in paid
      BY <1>5 DEF Grant, IInv, AnswerInv, RowSteps
    <2>2. u \in OwnersOf(paid)
      BY <1>3, <2>1 DEF OwnersOf
    <2>3. CASE tier[u] = "free"
      BY <1>3, <1>4, <1>5, <2>2, <2>3
         DEF Grant, grantProFromEntitlement, moveTier, Contract!ContractNext, Contract!Promote
    <2>4. CASE tier[u] # "free"
      BY <1>4, <1>5, <2>4
         DEF Grant, grantProFromEntitlement, moveTier, tierVars, Contract!contractVars
    <2>5. QED
      BY <2>3, <2>4
  <1>6. CASE Revoke(r)
    <2>1. s \in lapsed
      BY <1>6 DEF Revoke, IInv, AnswerInv, RowSteps
    <2>2. u \in OwnersOf(lapsed)
      BY <1>3, <2>1 DEF OwnersOf
    <2>3. CASE tier[u] = "pro"
      BY <1>3, <1>4, <1>6, <2>2, <2>3
         DEF Revoke, revokeProFromEntitlement, moveTier, Contract!ContractNext, Contract!Demote
    <2>4. CASE tier[u] # "pro"
      BY <1>4, <1>6, <2>4
         DEF Revoke, revokeProFromEntitlement, moveTier, tierVars, Contract!contractVars
    <2>5. QED
      BY <2>3, <2>4
  <1>7. QED
    BY <1>5, <1>6

LEMMA NextContract ==
  ASSUME IInv, [Next]_vars
  PROVE  [Contract!ContractNext]_(Contract!contractVars)
  <1>1. OwnersOf(paid) \subseteq OwnersOf(paid') /\ OwnersOf(lapsed) \subseteq OwnersOf(lapsed')
    BY HistoryStep, OwnersMonotone DEF IInv
  <1>2. CASE UNCHANGED <<tier, setBy>>
    BY <1>1, <1>2 DEF Contract!ContractNext, Contract!Report, OwnersOf
  <1>3. ASSUME NEW u \in Users, NEW t \in OperatorTiers, setTier(u, t)
        PROVE  Contract!Assign(u, t)
    BY <1>3 DEF setTier, historyVars, Contract!Assign, OwnersOf
  <1>4. CASE \E u \in Users, t \in OperatorTiers : setTier(u, t)
    BY <1>3, <1>4, TiersAssumption DEF Contract!ContractNext
  <1>5. CASE \E r \in Runs : Grant(r) \/ Revoke(r)
    BY <1>5, TierWriteContract
  <1>6. QED
    BY <1>2, <1>4, <1>5 DEF Next, Environment, Step, Failure, Restart, Checkout, StatusChange,
         SessionAges, runOnce, listRecentCompletedSessions, LinkSession, ListRows,
         getSubscription, MarkRow, SignupsFail, ListRowsFails, RowFails, tierVars, vars

(* TierSync implements TierContract, whatever overlaps and whatever fails: the
   sync never touches an operator's tier, promotes only users who have paid and
   demotes only users one of whose subscriptions has ended. *)
THEOREM ContractImplemented == Spec => ImplementsContract
  <1>1. Init => Contract!ContractInit
    BY InitContract
  <1>2. IInv /\ [Next]_vars => [Contract!ContractNext]_(Contract!contractVars)
    BY NextContract
  <1>3. QED
    BY <1>1, <1>2, Invariance, PTL DEF Spec, ImplementsContract, Contract!ContractSpec
-----------------------------------------------------------------------------
(* No stranded 'pro', when runs do not overlap and only Stripe fails. *)
OneRunAtATime == \A q, r \in Runs : q = r
OnlyStripeFails == Faults \subseteq {"stripe"}

StrandInv == IInv /\ NoStrandedPro /\ GrantBacked

(* A user the sync made 'pro' stays covered while pollable rows, the tiers and
   the runs about to revoke stay. *)
LEMMA CoverKept ==
  ASSUME IInv, NoStrandedPro,
         UNCHANGED <<tier, setBy>>, Pollable \subseteq Pollable',
         \A r \in Runs : run[r].pc = "revoke" => run'[r] = run[r]
  PROVE  NoStrandedPro'
  <1>1. SUFFICES ASSUME NEW u \in Users, tier[u] = "pro", setBy[u] = "sync"
                 PROVE  \/ \E s \in Pollable' : Owner[s] = u
                        \/ \E r \in Runs : run'[r].pc = "revoke" /\ Owner[Head(run'[r].todo)] = u
    BY DEF NoStrandedPro, Current
  <1>2. QED
    BY <1>1 DEF NoStrandedPro, Current

LEMMA StrandStep ==
  ASSUME OneRunAtATime, OnlyStripeFails, StrandInv, NEW r \in Runs, Step(r) \/ Failure(r)
  PROVE  NoStrandedPro' /\ GrantBacked'
  <1>1. /\ TypeOK /\ run \in [Runs -> RunState] /\ run[r] \in RunState
        /\ entitlement \in [Subs -> {"absent", "pending", "active", "revoked"}]
    BY DEF StrandInv, IInv, TypeOK
  <1>2. Runs = {r}
    BY DEF OneRunAtATime
  <1>3. ASSUME run[r].pc # "revoke", run'[r].pc # "grant", UNCHANGED <<tier, setBy>>,
               Pollable \subseteq Pollable'
        PROVE  NoStrandedPro' /\ GrantBacked'
    <2>1. NoStrandedPro'
      BY <1>2, <1>3, CoverKept DEF StrandInv
    <2>2. GrantBacked'
      BY <1>2, <1>3 DEF GrantBacked
    <2>3. QED
      BY <2>1, <2>2
  <1>4. CASE runOnce(r) \/ listRecentCompletedSessions(r) \/ ListRows(r) \/ getSubscription(r)
    <2>1. run[r].pc # "revoke" /\ run'[r].pc # "grant"
      BY <1>1, <1>4 DEF runOnce, listRecentCompletedSessions, ListRows, getSubscription, Idle,
           RunState
    <2>2. UNCHANGED <<tier, setBy>> /\ Pollable \subseteq Pollable'
      BY <1>4 DEF runOnce, listRecentCompletedSessions, ListRows, getSubscription, tierVars,
           tableVars, Pollable
    <2>3. QED
      BY <1>3, <2>1, <2>2
  <1>5. CASE LinkSession(r)
    <2>1. NextSession(r) /\ run[r].pc = "link" /\ UNCHANGED <<tier, setBy>>
      BY <1>5 DEF LinkSession, tierVars
    <2>2. Pollable \subseteq Pollable'
      <3>1. Current(r) \in Subs
        BY <1>1, <1>5, CurrentType DEF LinkSession
      <3>2. \/ entitlement' = entitlement
            \/ entitlement' = [entitlement EXCEPT ![Current(r)] =
                    IF entitlement[Current(r)] \in {"absent", "revoked"}
                    THEN "pending" ELSE entitlement[Current(r)]]
        BY <1>5 DEF LinkSession, linkFromSession, tableVars
      <3>3. QED
        BY <1>1, <3>1, <3>2 DEF Pollable
    <2>3. run'[r] = [Idle EXCEPT !.pc = "listPollable"]
          \/ run'[r] = [run[r] EXCEPT !.todo = Tail(run[r].todo)]
      BY <1>1, <2>1, NextSessionEffect
    <2>4. run'[r].pc \in {"listPollable", "link"}
      BY <1>1, <2>1, <2>3 DEF Idle, RunState
    <2>5. QED
      BY <1>3, <2>1, <2>2, <2>4
  <1>6. CASE MarkRow(r)
    <2>1. /\ run[r].pc = "markStatus" /\ UNCHANGED <<tier, setBy>>
          /\ Current(r) \in Subs /\ run[r].answer # "absent"
          /\ entitlement' = [entitlement EXCEPT ![Current(r)] = run[r].answer]
      BY <1>1, <1>6, CurrentType DEF MarkRow, markStatus, tierVars
    <2>2. CASE run[r].answer = "pending"
      <3>1. NextRow(r)
        BY <1>6, <2>2 DEF MarkRow
      <3>2. run'[r].pc # "grant"
        BY <1>1, <3>1, NextRowElements
      <3>3. Pollable \subseteq Pollable'
        BY <1>1, <2>1, <2>2 DEF Pollable
      <3>4. QED
        BY <1>3, <2>1, <3>2, <3>3
    <2>3. CASE run[r].answer = "active"
      <3>1. run'[r].pc = "grant" /\ run'[r].todo = run[r].todo
        BY <1>1, <1>6, <2>3 DEF MarkRow, RunState
      <3>2. Pollable \subseteq Pollable' /\ entitlement'[Current(r)] = "active"
        BY <1>1, <2>1, <2>3 DEF Pollable
      <3>3. NoStrandedPro'
        BY <1>2, <2>1, <3>2, CoverKept DEF StrandInv
      <3>4. GrantBacked'
        BY <1>2, <3>1, <3>2 DEF GrantBacked, Current
      <3>5. QED
        BY <3>3, <3>4
    <2>4. CASE run[r].answer = "revoked"
      <3>1. run'[r].pc = "revoke" /\ run'[r].todo = run[r].todo
        BY <1>1, <1>6, <2>4 DEF MarkRow, RunState
      <3>2. Pollable \ {Current(r)} \subseteq Pollable'
        BY <1>1, <2>1 DEF Pollable
      <3>3. GrantBacked'
        BY <1>2, <3>1 DEF GrantBacked
      <3>4. ASSUME NEW u \in Users, tier[u] = "pro", setBy[u] = "sync"
            PROVE  \/ \E s \in Pollable' : Owner[s] = u
                   \/ run'[r].pc = "revoke" /\ Owner[Head(run'[r].todo)] = u
        <4>1. PICK s \in Pollable : Owner[s] = u
          BY <1>2, <2>1, <3>4 DEF StrandInv, NoStrandedPro
        <4>2. QED
          BY <3>1, <3>2, <4>1 DEF Current
      <3>5. NoStrandedPro'
        BY <1>2, <2>1, <3>4 DEF NoStrandedPro, Current
      <3>6. QED
        BY <3>3, <3>5
    <2>5. QED
      BY <1>6, <2>2, <2>3, <2>4 DEF MarkRow
  <1>7. CASE Grant(r)
    <2>1. /\ run[r].pc = "grant" /\ NextRow(r) /\ entitlement' = entitlement
          /\ moveTier(Owner[Current(r)], "free", "pro")
      BY <1>7 DEF Grant, tableVars, grantProFromEntitlement
    <2>2. Current(r) \in Pollable /\ Pollable' = Pollable
      BY <1>1, <1>7, <2>1, CurrentType DEF Grant, StrandInv, GrantBacked, Pollable
    <2>3. run'[r].pc # "grant"
      BY <1>1, <2>1, NextRowElements
    <2>4. ASSUME NEW u \in Users, tier'[u] = "pro", setBy'[u] = "sync"
          PROVE  \E s \in Pollable' : Owner[s] = u
      <3>1. CASE u = Owner[Current(r)]
        BY <2>2, <3>1
      <3>2. CASE u # Owner[Current(r)]
        <4>1. tier[u] = "pro" /\ setBy[u] = "sync"
          BY <1>1, <2>1, <2>4, <3>2 DEF moveTier, tierVars, TypeOK
        <4>2. QED
          BY <1>2, <2>1, <2>2, <4>1 DEF StrandInv, NoStrandedPro
      <3>3. QED
        BY <3>1, <3>2
    <2>5. NoStrandedPro'
      BY <2>4 DEF NoStrandedPro
    <2>6. GrantBacked'
      BY <1>2, <2>3 DEF GrantBacked
    <2>7. QED
      BY <2>5, <2>6
  <1>8. CASE Revoke(r)
    <2>1. /\ run[r].pc = "revoke" /\ NextRow(r) /\ entitlement' = entitlement
          /\ moveTier(Owner[Current(r)], "pro", "free")
      BY <1>8 DEF Revoke, tableVars, revokeProFromEntitlement
    <2>2. run'[r].pc # "grant" /\ Pollable' = Pollable
      BY <1>1, <2>1, NextRowElements DEF Pollable
    <2>3. ASSUME NEW u \in Users, tier'[u] = "pro", setBy'[u] = "sync"
          PROVE  \E s \in Pollable' : Owner[s] = u
      <3>1. u # Owner[Current(r)] /\ tier[u] = "pro" /\ setBy[u] = "sync"
        BY <1>1, <2>1, <2>3 DEF moveTier, tierVars, TypeOK
      <3>2. QED
        BY <1>2, <2>2, <3>1 DEF StrandInv, NoStrandedPro
    <2>4. NoStrandedPro'
      BY <2>3 DEF NoStrandedPro
    <2>5. GrantBacked'
      BY <1>2, <2>2 DEF GrantBacked
    <2>6. QED
      BY <2>4, <2>5
  <1>9. CASE Failure(r)
    <2>1. /\ run[r].pc \in {"listSessions", "getSubscription"}
          /\ SignupsFail(r) \/ (RowFails(r) /\ NextRow(r))
      BY <1>9 DEF Failure, SignupsFail, ListRowsFails, RowFails, OnlyStripeFails
    <2>2. UNCHANGED <<tier, setBy>> /\ Pollable \subseteq Pollable'
      BY <2>1 DEF SignupsFail, RowFails, tierVars, tableVars, Pollable
    <2>3. CASE SignupsFail(r)
      <3>1. run'[r].pc # "grant"
        BY <1>1, <2>3 DEF SignupsFail, Idle
      <3>2. QED
        BY <1>3, <2>1, <2>2, <3>1
    <2>4. CASE NextRow(r)
      BY <1>1, <1>3, <2>1, <2>2, <2>4, NextRowElements
    <2>5. QED
      BY <2>1, <2>3, <2>4
  <1>10. QED
    BY <1>4, <1>5, <1>6, <1>7, <1>8, <1>9 DEF Step

(* If runs do not overlap and only Stripe fails, the sync can take back every
   'pro' it gave: the two hypotheses are what the findings show to be needed. *)
THEOREM NothingStranded ==
  ASSUME OneRunAtATime, OnlyStripeFails
  PROVE  Spec => []NoStrandedPro
  <1>1. Init => StrandInv
    BY InitInv DEF Init, StrandInv, NoStrandedPro, GrantBacked, Idle
  <1>2. StrandInv /\ [Next]_vars => StrandInv'
    <2> SUFFICES ASSUME StrandInv, [Next]_vars
                 PROVE  StrandInv'
      OBVIOUS
    <2>1. IInv'
      BY NextInv DEF StrandInv
    <2>2. CASE \E r \in Runs : Step(r) \/ Failure(r)
      BY <2>1, <2>2, StrandStep DEF StrandInv
    <2>3. CASE \E u \in Users, t \in OperatorTiers : setTier(u, t)
      <3>1. PICK u \in Users, t \in OperatorTiers : setTier(u, t)
        BY <2>3
      <3>2. UNCHANGED <<entitlement, run>> /\ setBy' = [setBy EXCEPT ![u] = "operator"]
            /\ tier' = [tier EXCEPT ![u] = t]
        BY <3>1 DEF setTier, tableVars
      <3>3. tier \in [Users -> Tiers] /\ setBy \in [Users -> {"operator", "sync"}]
        BY DEF StrandInv, IInv, TypeOK
      <3>4. \A v \in Users : setBy'[v] = "sync" => tier'[v] = tier[v] /\ setBy[v] = "sync"
        BY <3>2, <3>3
      <3>5. NoStrandedPro' /\ GrantBacked'
        BY <3>2, <3>4 DEF StrandInv, NoStrandedPro, GrantBacked, Pollable, Current
      <3>6. QED
        BY <2>1, <3>5 DEF StrandInv
    <2>4. CASE UNCHANGED <<entitlement, run, tier, setBy>>
      BY <2>1, <2>4 DEF StrandInv, NoStrandedPro, GrantBacked, Pollable, Current
    <2>5. CASE Restart
      BY <2>5 DEF Restart, OnlyStripeFails
    <2>6. CASE Environment
      BY <2>3, <2>4, <2>6 DEF Environment, Checkout, StatusChange, SessionAges, tableVars, tierVars
    <2>7. QED
      BY <2>2, <2>4, <2>5, <2>6 DEF Next, vars
  <1>3. StrandInv => NoStrandedPro
    BY DEF StrandInv
  <1>4. QED
    BY <1>1, <1>2, <1>3, PTL DEF Spec
-----------------------------------------------------------------------------
(* The tables agree, under the same two hypotheses.  A run that is about to revoke has found *)
(* its row ended: what it takes back, another active row of the user loses to that one.       *)

RevokeBacked ==
    \A r \in Runs : run[r].pc = "revoke" => entitlement[Current(r)] # "active"

(* What excuses an active row whose user is free. *)
Served(s) ==
    \/ tier[Owner[s]] # "free"
    \/ setBy[Owner[s]] = "operator"
    \/ \E other \in lapsed \ {s} : Owner[other] = Owner[s]
Granting(s) == \E r \in Runs : run[r].pc = "grant" /\ Current(r) = s

AgreeInv == IInv /\ ActiveRowHasTier /\ RevokeBacked

(* The tables as they were: who was served is served still. *)
LEMMA ServedStill ==
  ASSUME NEW s, Served(s), UNCHANGED <<tier, setBy>>, lapsed \subseteq lapsed'
  PROVE  Served(s)'
  BY DEF Served

(* Where a row is, it is excused. *)
LEMMA AgreeStep ==
  ASSUME OneRunAtATime, OnlyStripeFails, AgreeInv, NEW r \in Runs, Step(r) \/ Failure(r)
  PROVE  ActiveRowHasTier' /\ RevokeBacked'
  <1>1. /\ TypeOK /\ run \in [Runs -> RunState] /\ run[r] \in RunState
        /\ entitlement \in [Subs -> {"absent", "pending", "active", "revoked"}]
        /\ tier \in [Users -> Tiers] /\ setBy \in [Users -> {"operator", "sync"}]
    BY DEF AgreeInv, IInv, TypeOK
  <1>2. Runs = {r}
    BY DEF OneRunAtATime
  <1>3. UNCHANGED lapsed
    BY <1>1, BotFrame
  <1>4. \A s \in Subs : entitlement[s] = "active" => Served(s) \/ Granting(s)
    BY DEF AgreeInv, ActiveRowHasTier, Served, Granting
  <1>5. ASSUME \A s \in Subs : entitlement'[s] = "active" => Served(s)' \/ Granting(s)'
        PROVE  ActiveRowHasTier'
    BY <1>5 DEF ActiveRowHasTier, Served, Granting
  <1>6. ASSUME run[r].pc # "grant", run'[r].pc # "revoke", UNCHANGED <<tier, setBy>>,
               \A s \in Subs : entitlement'[s] = "active" => entitlement[s] = "active"
        PROVE  ActiveRowHasTier' /\ RevokeBacked'
    <2>1. ASSUME NEW s \in Subs, entitlement'[s] = "active" PROVE Served(s)'
      <3>1. Served(s)
        BY <1>2, <1>4, <1>6, <2>1 DEF Granting
      <3>2. QED
        BY <1>3, <1>6, <3>1, ServedStill
    <2>2. RevokeBacked'
      BY <1>2, <1>6 DEF RevokeBacked
    <2>3. QED
      BY <1>5, <2>1, <2>2
  <1>7. CASE runOnce(r) \/ listRecentCompletedSessions(r) \/ ListRows(r) \/ getSubscription(r)
    <2>1. run[r].pc # "grant" /\ run'[r].pc # "revoke"
      BY <1>1, <1>7 DEF runOnce, listRecentCompletedSessions, ListRows, getSubscription, Idle,
           RunState
    <2>2. UNCHANGED <<tier, setBy, entitlement>>
      BY <1>7 DEF runOnce, listRecentCompletedSessions, ListRows, getSubscription, tierVars,
           tableVars
    <2>3. QED
      BY <1>6, <2>1, <2>2
  <1>8. CASE LinkSession(r)
    <2>1. NextSession(r) /\ run[r].pc = "link" /\ UNCHANGED <<tier, setBy>>
      BY <1>8 DEF LinkSession, tierVars
    <2>2. \A s \in Subs : entitlement'[s] = "active" => entitlement[s] = "active"
      <3>1. Current(r) \in Subs
        BY <1>1, <1>8, CurrentType DEF LinkSession
      <3>2. \/ entitlement' = entitlement
            \/ entitlement' = [entitlement EXCEPT ![Current(r)] =
                    IF entitlement[Current(r)] \in {"absent", "revoked"}
                    THEN "pending" ELSE entitlement[Current(r)]]
        BY <1>8 DEF LinkSession, linkFromSession, tableVars
      <3>3. QED
        BY <1>1, <3>1, <3>2
    <2>3. run'[r] = [Idle EXCEPT !.pc = "listPollable"]
          \/ run'[r] = [run[r] EXCEPT !.todo = Tail(run[r].todo)]
      BY <1>1, <2>1, NextSessionEffect
    <2>4. run'[r].pc \in {"listPollable", "link"}
      BY <1>1, <2>1, <2>3 DEF Idle, RunState
    <2>5. QED
      BY <1>6, <2>1, <2>2, <2>4
  <1>9. CASE MarkRow(r)
    <2>1. /\ run[r].pc = "markStatus" /\ UNCHANGED <<tier, setBy>>
          /\ Current(r) \in Subs
          /\ entitlement' = [entitlement EXCEPT ![Current(r)] = run[r].answer]
      BY <1>1, <1>9, CurrentType DEF MarkRow, markStatus, tierVars
    <2>2. CASE run[r].answer = "pending"
      <3>1. NextRow(r)
        BY <1>9, <2>2 DEF MarkRow
      <3>2. run'[r].pc # "revoke"
        BY <1>1, <3>1, NextRowElements
      <3>3. \A s \in Subs : entitlement'[s] = "active" => entitlement[s] = "active"
        BY <1>1, <2>1, <2>2
      <3>4. QED
        BY <1>6, <2>1, <3>2, <3>3
    <2>3. CASE run[r].answer = "active"
      <3>1. run'[r].pc = "grant" /\ run'[r].todo = run[r].todo
        BY <1>1, <1>9, <2>3 DEF MarkRow, RunState
      <3>2. ASSUME NEW s \in Subs, entitlement'[s] = "active" PROVE Served(s)' \/ Granting(s)'
        <4>1. CASE s = Current(r)
          BY <3>1, <4>1 DEF Granting, Current
        <4>2. CASE s # Current(r)
          <5>1. Served(s)
            BY <1>1, <1>2, <1>4, <2>1, <3>2, <4>2 DEF Granting
          <5>2. QED
            BY <1>3, <2>1, <5>1, ServedStill
        <4>3. QED
          BY <4>1, <4>2
      <3>3. RevokeBacked'
        BY <1>2, <3>1 DEF RevokeBacked
      <3>4. QED
        BY <1>5, <3>2, <3>3
    <2>4. CASE run[r].answer = "revoked"
      <3>1. run'[r].pc = "revoke" /\ run'[r].todo = run[r].todo
        BY <1>1, <1>9, <2>4 DEF MarkRow, RunState
      <3>2. ASSUME NEW s \in Subs, entitlement'[s] = "active" PROVE Served(s)'
        <4>1. Served(s)
          BY <1>1, <1>2, <1>4, <2>1, <2>4, <3>2 DEF Granting
        <4>2. QED
          BY <1>3, <2>1, <4>1, ServedStill
      <3>3. entitlement'[Current(r)] = "revoked"
        BY <1>1, <2>1, <2>4
      <3>4. RevokeBacked'
        BY <1>2, <3>1, <3>3 DEF RevokeBacked, Current
      <3>5. QED
        BY <1>5, <3>2, <3>4
    <2>5. QED
      BY <1>9, <2>2, <2>3, <2>4 DEF MarkRow
  <1>10. CASE Grant(r)
    <2>1. /\ run[r].pc = "grant" /\ NextRow(r) /\ entitlement' = entitlement
          /\ moveTier(Owner[Current(r)], "free", "pro") /\ Owner[Current(r)] \in Users
      <3>1. Current(r) \in Rows
        BY <1>1, <1>10, CurrentElement DEF Grant, AgreeInv, IInv, AttributionInv, RowSteps
      <3>2. QED
        BY <1>10, <3>1 DEF Grant, tableVars, grantProFromEntitlement, AgreeInv, IInv, AttributionInv
    <2>2. run'[r].pc # "revoke"
      BY <1>1, <2>1, NextRowElements
    <2>3. /\ tier'[Owner[Current(r)]] # "free"
          /\ \A u \in Users \ {Owner[Current(r)]} : tier'[u] = tier[u] /\ setBy'[u] = setBy[u]
      BY <1>1, <2>1 DEF moveTier, tierVars
    <2>4. ASSUME NEW s \in Subs, entitlement'[s] = "active" PROVE Served(s)'
      <3>1. CASE Owner[s] = Owner[Current(r)]
        BY <2>3, <3>1 DEF Served
      <3>2. CASE Owner[s] # Owner[Current(r)]
        <4>1. Served(s) /\ Owner[s] \in Users
          BY <1>2, <1>4, <2>1, <2>4, <3>2 DEF Granting, AgreeInv, IInv, AttributionInv, Rows
        <4>2. QED
          BY <1>3, <2>3, <3>2, <4>1 DEF Served
      <3>3. QED
        BY <3>1, <3>2
    <2>5. RevokeBacked'
      BY <1>2, <2>2 DEF RevokeBacked
    <2>6. QED
      BY <1>5, <2>4, <2>5
  <1>11. CASE Revoke(r)
    <2>1. /\ run[r].pc = "revoke" /\ NextRow(r) /\ entitlement' = entitlement
          /\ moveTier(Owner[Current(r)], "pro", "free") /\ Owner[Current(r)] \in Users
      <3>1. Current(r) \in Rows
        BY <1>1, <1>11, CurrentElement DEF Revoke, AgreeInv, IInv, AttributionInv, RowSteps
      <3>2. QED
        BY <1>11, <3>1 DEF Revoke, tableVars, revokeProFromEntitlement, AgreeInv, IInv, AttributionInv
    <2>2. run'[r].pc # "revoke"
      BY <1>1, <2>1, NextRowElements
    <2>3. Current(r) \in lapsed /\ entitlement[Current(r)] # "active"
      <3>1. run[r].answer = "revoked"
        BY <2>1 DEF AgreeInv, IInv, AnswerInv
      <3>2. QED
        BY <2>1, <3>1 DEF AgreeInv, IInv, AnswerInv, RevokeBacked, RowSteps
    <2>4. \A u \in Users \ {Owner[Current(r)]} : tier'[u] = tier[u] /\ setBy'[u] = setBy[u]
      BY <1>1, <2>1 DEF moveTier, tierVars
    <2>5. ASSUME NEW s \in Subs, entitlement'[s] = "active" PROVE Served(s)'
      <3>1. CASE Owner[s] = Owner[Current(r)]
        <4>1. Current(r) \in lapsed' \ {s}
          BY <1>3, <2>1, <2>3, <2>5
        <4>2. PICK other : other = Current(r)
          OBVIOUS
        <4>3. QED
          BY <3>1, <4>1, <4>2 DEF Served
      <3>2. CASE Owner[s] # Owner[Current(r)]
        <4>1. Served(s) /\ Owner[s] \in Users
          BY <1>2, <1>4, <2>1, <2>5, <3>2 DEF Granting, AgreeInv, IInv, AttributionInv, Rows
        <4>2. QED
          BY <1>3, <2>4, <3>2, <4>1 DEF Served
      <3>3. QED
        BY <3>1, <3>2
    <2>6. RevokeBacked'
      BY <1>2, <2>2 DEF RevokeBacked
    <2>7. QED
      BY <1>5, <2>5, <2>6
  <1>12. CASE Failure(r)
    <2>1. /\ run[r].pc \in {"listSessions", "getSubscription"}
          /\ SignupsFail(r) \/ (RowFails(r) /\ NextRow(r))
      BY <1>12 DEF Failure, SignupsFail, ListRowsFails, RowFails, OnlyStripeFails
    <2>2. UNCHANGED <<tier, setBy, entitlement>>
      BY <2>1 DEF SignupsFail, RowFails, tierVars, tableVars
    <2>3. CASE SignupsFail(r)
      <3>1. run'[r].pc # "revoke"
        BY <1>1, <2>3 DEF SignupsFail, Idle
      <3>2. QED
        BY <1>6, <2>1, <2>2, <3>1
    <2>4. CASE NextRow(r)
      BY <1>1, <1>6, <2>1, <2>2, <2>4, NextRowElements
    <2>5. QED
      BY <2>1, <2>3, <2>4
  <1>13. QED
    BY <1>7, <1>8, <1>9, <1>10, <1>11, <1>12 DEF Step

(* If runs do not overlap and only Stripe fails, the two tables agree: an 'active' row's user     *)
(* has a tier, is about to get it, or lost it to the operator or to another subscription that     *)
(* ended (tierSyncService.ts:123 and :126).  Without them a grant can be lost between its two writes.   *)
THEOREM TablesAgree ==
  ASSUME OneRunAtATime, OnlyStripeFails
  PROVE  Spec => []ActiveRowHasTier
  <1>1. Init => AgreeInv
    BY InitInv DEF Init, AgreeInv, ActiveRowHasTier, RevokeBacked, Idle
  <1>2. AgreeInv /\ [Next]_vars => AgreeInv'
    <2> SUFFICES ASSUME AgreeInv, [Next]_vars
                 PROVE  AgreeInv'
      OBVIOUS
    <2>1. IInv' /\ lapsed \subseteq lapsed'
      BY NextInv, HistoryStep DEF AgreeInv, IInv
    <2>2. CASE \E r \in Runs : Step(r) \/ Failure(r)
      BY <2>1, <2>2, AgreeStep DEF AgreeInv
    <2>3. ASSUME UNCHANGED <<entitlement, run>>,
                 \A s \in Subs : entitlement[s] = "active" /\ Served(s) => Served(s)'
          PROVE  AgreeInv'
      <3>1. RevokeBacked'
        BY <2>3 DEF AgreeInv, RevokeBacked, Current
      <3>2. ActiveRowHasTier'
        BY <2>3 DEF AgreeInv, ActiveRowHasTier, Served, Current
      <3>3. QED
        BY <2>1, <3>1, <3>2 DEF AgreeInv
    <2>4. CASE \E u \in Users, t \in OperatorTiers : setTier(u, t)
      <3>1. PICK u \in Users, t \in OperatorTiers : setTier(u, t)
        BY <2>4
      <3>2. UNCHANGED <<entitlement, run, lapsed>> /\ setBy' = [setBy EXCEPT ![u] = "operator"]
            /\ tier' = [tier EXCEPT ![u] = t]
        BY <3>1 DEF setTier, tableVars, historyVars
      <3>3. tier \in [Users -> Tiers] /\ setBy \in [Users -> {"operator", "sync"}]
        BY DEF AgreeInv, IInv, TypeOK
      <3>4. \A s \in Subs : entitlement[s] = "active" => Owner[s] \in Users
        BY DEF AgreeInv, IInv, AttributionInv, Rows
      <3>5. \A s \in Subs : entitlement[s] = "active" /\ Served(s) => Served(s)'
        BY <3>2, <3>3, <3>4 DEF Served
      <3>6. QED
        BY <2>3, <3>2, <3>5
    <2>5. CASE UNCHANGED <<entitlement, run, tier, setBy>>
      <3>1. \A s \in Subs : Served(s) => Served(s)'
        BY <2>1, <2>5, ServedStill
      <3>2. QED
        BY <2>3, <2>5, <3>1
    <2>6. CASE Restart
      BY <2>6 DEF Restart, OnlyStripeFails
    <2>7. CASE Environment
      BY <2>4, <2>5, <2>7 DEF Environment, Checkout, StatusChange, SessionAges, tableVars, tierVars
    <2>8. QED
      BY <2>2, <2>5, <2>6, <2>7 DEF Next, vars
  <1>3. AgreeInv => ActiveRowHasTier
    BY DEF AgreeInv
  <1>4. QED
    BY <1>1, <1>2, <1>3, PTL DEF Spec
=============================================================================
