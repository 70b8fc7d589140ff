------------------------------ MODULE TierSync ------------------------------
(***************************************************************************)
(* Payments: how the bot keeps user_tiers in step with Stripe by polling.  *)
(*                                                                         *)
(* A run of TierSyncService.runOnce first lists the completed Checkout     *)
(* Sessions of the lookback window and links each to a Discord user, then  *)
(* polls every entitlement that is not revoked and grants or revokes the   *)
(* 'pro' tier.  Every await of runOnce is a step of its own: between two   *)
(* of them Stripe, the operator, another run (setInterval starts one even  *)
(* when the last has not ended) or a restart may intervene.                *)
(***************************************************************************)
EXTENDS Naturals, Sequences, FiniteSets

CONSTANTS
    Users,          \* Discord users
    Subs,           \* Stripe subscription ids
    Owner,          \* Owner[s]: the client_reference_id the session of s carries
    NoUser,         \* Owner[s] of a session opened outside the bot's flow
    Statuses,       \* what Stripe reports of a subscription; "none": it was deleted
    OperatorTiers,  \* the tiers the operator assigns
    Runs,           \* runs of runOnce that may overlap
    Faults,         \* what may fail, among "stripe", "database", "restart"
    SessionPage,    \* Checkout Sessions per listing (limit=100, no next page)
    MaxSessions     \* bound on the Checkout Sessions in the lookback window

ASSUME OwnerAssumption == Owner \in [Subs -> Users \cup {NoUser}] /\ NoUser \notin Users
ASSUME SubsAssumption == IsFiniteSet(Subs)
ASSUME PageAssumption == SessionPage \in Nat /\ MaxSessions \in Nat

Tiers == {"free", "pro", "guild_pro", "admin", "disabled"}
ASSUME TiersAssumption == OperatorTiers \subseteq Tiers

VARIABLES
    subscription,   \* Stripe: the status of each subscription, "none" when Stripe has none
    sessions,       \* Stripe: subscriptions of the sessions in the window, newest first
    entitlement,    \* entitlements.status by external_id, "absent" when there is no row
    updatedBefore,  \* the order of entitlements.updated_at: pairs <<earlier, later>>
    tier,           \* user_tiers.tier, 'free' when there is no row
    run             \* the local state of each run of runOnce

(* History: what the properties refer to and no code reads. *)
VARIABLES
    setBy,          \* who wrote each user's tier last
    paid,           \* subscriptions that have ever been paying
    lapsed,         \* subscriptions that have ever ended
    linked          \* subscriptions a run has linked since they were last over

stripeVars == <<subscription, sessions>>
tableVars == <<entitlement, updatedBefore>>
tierVars == <<tier, setBy>>
historyVars == <<paid, lapsed, linked>>
vars == <<subscription, sessions, entitlement, updatedBefore, tier, run,
          setBy, paid, lapsed, linked>>

stripeStatusToEntitlement(status) ==
    CASE status \in {"active", "trialing", "past_due"} -> "active"
      [] status \in {"canceled", "unpaid", "incomplete_expired", "paused"} -> "revoked"
      [] OTHER -> "pending"

(* getSubscription answers null for a deleted subscription: no longer paying. *)
ReportedStatus(status) ==
    IF status = "none" THEN "revoked" ELSE stripeStatusToEntitlement(status)

Paying(s) == ReportedStatus(subscription[s]) = "active"
Rows == {s \in Subs : entitlement[s] # "absent"}
Pollable == {s \in Subs : entitlement[s] \in {"pending", "active"}}

Idle == [pc |-> "idle", todo |-> <<>>, answer |-> "none"]
Pc == {"idle", "listSessions", "link", "listPollable", "getSubscription",
       "markStatus", "grant", "revoke"}

Init ==
    /\ subscription = [s \in Subs |-> "none"]
    /\ sessions = <<>>
    /\ entitlement = [s \in Subs |-> "absent"]
    /\ updatedBefore = {}
    /\ tier = [u \in Users |-> "free"]
    /\ run = [r \in Runs |-> Idle]
    /\ setBy = [u \in Users |-> "operator"]
    /\ paid = {}
    /\ lapsed = {}
    /\ linked = {}
-----------------------------------------------------------------------------
(* Stripe and the operator. *)

(* What the change of s to status adds to the history: a subscription that was
   over is, for the bot, to be linked anew. *)
Remember(s, status) ==
    /\ linked' = IF ReportedStatus(subscription[s]) = "revoked" THEN linked \ {s} ELSE linked
    /\ paid' = IF ReportedStatus(status) = "active" THEN paid \cup {s} ELSE paid
    /\ lapsed' = IF ReportedStatus(status) = "revoked" THEN lapsed \cup {s} ELSE lapsed

(* A user completes a checkout: a new subscription, or one that had ended and
   that the user takes up again. *)
Checkout(s) ==
    /\ Len(sessions) < MaxSessions
    /\ ReportedStatus(subscription[s]) = "revoked"
    /\ \E status \in Statuses \cap {"active", "trialing", "incomplete"} :
        /\ subscription' = [subscription EXCEPT ![s] = status]
        /\ Remember(s, status)
    /\ sessions' = <<s>> \o sessions
    /\ UNCHANGED <<tableVars, tierVars, run>>

(* A renewal, a failed charge, a pause, a resumption, a cancellation: none of
   them creates a session.  Canceled and expired subscriptions stay so. *)
StatusChange(s) ==
    /\ subscription[s] \notin {"none", "canceled", "incomplete_expired"}
    /\ \E status \in Statuses \ {subscription[s]} :
        /\ subscription' = [subscription EXCEPT ![s] = status]
        /\ Remember(s, status)
    /\ UNCHANGED <<sessions, tableVars, tierVars, run>>

(* The oldest session becomes older than lookbackMs. *)
SessionAges ==
    /\ sessions # <<>>
    /\ sessions' = SubSeq(sessions, 1, Len(sessions) - 1)
    /\ UNCHANGED <<subscription, tableVars, tierVars, run, historyVars>>

(* setTier: the operator path, which overwrites whatever is there. *)
setTier(u, t) ==
    /\ tier' = [tier EXCEPT ![u] = t]
    /\ setBy' = [setBy EXCEPT ![u] = "operator"]
    /\ UNCHANGED <<stripeVars, tableVars, run, historyVars>>
-----------------------------------------------------------------------------
(* The entitlements table. *)

(* updated_at = now() on row s: it becomes the latest of all rows. *)
Touch(s) ==
    updatedBefore' = {p \in updatedBefore : p[1] # s /\ p[2] # s}
                        \cup {<<t, s>> : t \in Rows \ {s}}

(* MUTANT: the upsert leaves status alone, so a revoked row is never re-armed. *)
linkFromSession_NeverRearms(s) ==
    /\ entitlement' = [entitlement EXCEPT ![s] = IF @ = "absent" THEN "pending" ELSE @]
    /\ Touch(s)

(* INSERT ... ON CONFLICT DO UPDATE: a new row is 'pending', a revoked one is
   re-armed, any other keeps its status; updated_at moves in every case. *)
linkFromSession(s) ==
    /\ entitlement' = [entitlement EXCEPT
            ![s] = IF @ \in {"absent", "revoked"} THEN "pending" ELSE @]
    /\ Touch(s)

(* UPDATE ... WHERE status IS DISTINCT FROM the new one. *)
markStatus(s, status) ==
    /\ entitlement' = [entitlement EXCEPT ![s] = status]
    /\ IF entitlement[s] # status THEN Touch(s) ELSE UNCHANGED updatedBefore

(* SELECT ... WHERE status IN ('pending', 'active') ORDER BY updated_at. *)
listPollable ==
    {rows \in [1..Cardinality(Pollable) -> Pollable] :
        \A i, j \in DOMAIN rows : i < j => <<rows[i], rows[j]>> \in updatedBefore}

(* MUTANT: no WHERE on the tier that is there. *)
moveTier_Unguarded(u, from, to) ==
    /\ tier' = [tier EXCEPT ![u] = to]
    /\ setBy' = [setBy EXCEPT ![u] = "sync"]

(* The user_tiers table: DO UPDATE ... WHERE tier = 'free', UPDATE ... WHERE
   tier = 'pro'; any other row is left as it is. *)
moveTier(u, from, to) ==
    IF tier[u] = from
    THEN /\ tier' = [tier EXCEPT ![u] = to]
         /\ setBy' = [setBy EXCEPT ![u] = "sync"]
    ELSE UNCHANGED tierVars

(* MUTANT: ON CONFLICT DO NOTHING, so that a row the sync once wrote stays. *)
grantProFromEntitlement_DoNothing(u) ==
    IF setBy[u] = "sync" THEN UNCHANGED tierVars ELSE moveTier(u, "free", "pro")

grantProFromEntitlement(u) == moveTier(u, "free", "pro")
revokeProFromEntitlement(u) == moveTier(u, "pro", "free")
-----------------------------------------------------------------------------
(* A run of runOnce: the subscription its loop is at. *)
Current(r) == Head(run[r].todo)

(* The next turn of the loop of syncSignups, stage 2 after the last. *)
NextSession(r) ==
    run' = [run EXCEPT ![r] =
        IF Len(run[r].todo) > 1 THEN [run[r] EXCEPT !.todo = Tail(run[r].todo)]
                                ELSE [Idle EXCEPT !.pc = "listPollable"]]

(* MUTANT: the loop of syncSubscriptions runs past its last row. *)
NextRow_NeverEnds(r) ==
    run' = [run EXCEPT ![r] =
        [pc |-> "getSubscription", todo |-> Tail(run[r].todo), answer |-> "none"]]

(* The next turn of the loop of syncSubscriptions, the end of the run after
   the last. *)
NextRow(r) ==
    run' = [run EXCEPT ![r] =
        IF Len(run[r].todo) > 1
        THEN [pc |-> "getSubscription", todo |-> Tail(run[r].todo), answer |-> "none"]
        ELSE Idle]

(* The timer fires: at boot and every TIER_SYNC_TICK_MS. *)
runOnce(r) ==
    /\ run[r].pc = "idle"
    /\ run' = [run EXCEPT ![r].pc = "listSessions"]
    /\ UNCHANGED <<stripeVars, tableVars, tierVars, historyVars>>

listRecentCompletedSessions(r) ==
    /\ run[r].pc = "listSessions"
    /\ LET page == IF Len(sessions) > SessionPage THEN SubSeq(sessions, 1, SessionPage)
                                                  ELSE sessions
       IN run' = [run EXCEPT ![r] =
            [pc |-> IF page = <<>> THEN "listPollable" ELSE "link",
             todo |-> page, answer |-> "none"]]
    /\ UNCHANGED <<stripeVars, tableVars, tierVars, historyVars>>

(* One turn of the loop of syncSignups.  A session without a Discord user is
   counted as unattributed and skipped. *)
LinkSession(r) ==
    /\ run[r].pc = "link"
    /\ IF Owner[Current(r)] = NoUser
       THEN UNCHANGED <<tableVars, linked>>
       ELSE /\ linkFromSession(Current(r))
            /\ linked' = linked \cup {Current(r)}
    /\ NextSession(r)
    /\ UNCHANGED <<stripeVars, tierVars, paid, lapsed>>

ListRows(r) ==
    /\ run[r].pc = "listPollable"
    /\ \E rows \in listPollable :
        run' = [run EXCEPT ![r] =
            IF rows = <<>> THEN Idle
            ELSE [pc |-> "getSubscription", todo |-> rows, answer |-> "none"]]
    /\ UNCHANGED <<stripeVars, tableVars, tierVars, historyVars>>

(* MUTANT: a subscription Stripe no longer knows stays pending. *)
getSubscription_NullIsPending(r) ==
    /\ run[r].pc = "getSubscription"
    /\ run' = [run EXCEPT ![r].pc = "markStatus",
                          ![r].answer = IF subscription[Current(r)] = "none" THEN "pending"
                                        ELSE ReportedStatus(subscription[Current(r)])]
    /\ UNCHANGED <<stripeVars, tableVars, tierVars, historyVars>>

getSubscription(r) ==
    /\ run[r].pc = "getSubscription"
    /\ run' = [run EXCEPT ![r].pc = "markStatus",
                          ![r].answer = ReportedStatus(subscription[Current(r)])]
    /\ UNCHANGED <<stripeVars, tableVars, tierVars, historyVars>>

(* MUTANT: the row is revoked and the tier is left. *)
MarkRow_KeepsTier(r) ==
    /\ run[r].pc = "markStatus"
    /\ markStatus(Current(r), run[r].answer)
    /\ \/ run[r].answer = "active" /\ run' = [run EXCEPT ![r].pc = "grant"]
       \/ run[r].answer \in {"revoked", "pending"} /\ NextRow(r)
    /\ UNCHANGED <<stripeVars, tierVars, historyVars>>

MarkRow(r) ==
    /\ run[r].pc = "markStatus"
    /\ markStatus(Current(r), run[r].answer)
    /\ \/ run[r].answer = "active" /\ run' = [run EXCEPT ![r].pc = "grant"]
       \/ run[r].answer = "revoked" /\ run' = [run EXCEPT ![r].pc = "revoke"]
       \/ run[r].answer = "pending" /\ NextRow(r)
    /\ UNCHANGED <<stripeVars, tierVars, historyVars>>

Grant(r) ==
    /\ run[r].pc = "grant"
    /\ grantProFromEntitlement(Owner[Current(r)])
    /\ NextRow(r)
    /\ UNCHANGED <<stripeVars, tableVars, historyVars>>

Revoke(r) ==
    /\ run[r].pc = "revoke"
    /\ revokeProFromEntitlement(Owner[Current(r)])
    /\ NextRow(r)
    /\ UNCHANGED <<stripeVars, tableVars, historyVars>>
-----------------------------------------------------------------------------
(* Failures.  A statement that commits and whose answer is lost is the same as
   one that succeeds followed by the failure of the next. *)

(* syncSignups throws: runOnce logs it and goes on with stage 2. *)
SignupsFail(r) ==
    /\ \/ run[r].pc = "listSessions" /\ "stripe" \in Faults
       \/ run[r].pc = "link" /\ "database" \in Faults
    /\ run' = [run EXCEPT ![r] = [Idle EXCEPT !.pc = "listPollable"]]
    /\ UNCHANGED <<stripeVars, tableVars, tierVars, historyVars>>

(* listPollable throws: the run is over. *)
ListRowsFails(r) ==
    /\ run[r].pc = "listPollable" /\ "database" \in Faults
    /\ run' = [run EXCEPT ![r] = Idle]
    /\ UNCHANGED <<stripeVars, tableVars, tierVars, historyVars>>

(* The catch inside the loop of syncSubscriptions: on to the next row. *)
RowFails(r) ==
    /\ \/ run[r].pc = "getSubscription" /\ "stripe" \in Faults
       \/ run[r].pc \in {"markStatus", "grant", "revoke"} /\ "database" \in Faults
    /\ NextRow(r)
    /\ UNCHANGED <<stripeVars, tableVars, tierVars, historyVars>>

(* The process ends and starts again; only the database survives. *)
Restart ==
    /\ "restart" \in Faults
    /\ \E r \in Runs : run[r].pc # "idle"
    /\ run' = [r \in Runs |-> Idle]
    /\ UNCHANGED <<stripeVars, tableVars, tierVars, historyVars>>
-----------------------------------------------------------------------------
Environment ==
    \/ \E s \in Subs : Checkout(s)
    \/ \E s \in Subs : StatusChange(s)
    \/ SessionAges
    \/ \E u \in Users, t \in OperatorTiers : setTier(u, t)

Step(r) ==
    \/ runOnce(r)
    \/ listRecentCompletedSessions(r)
    \/ LinkSession(r)
    \/ ListRows(r)
    \/ getSubscription(r)
    \/ MarkRow(r)
    \/ Grant(r)
    \/ Revoke(r)

Failure(r) ==
    \/ SignupsFail(r)
    \/ ListRowsFails(r)
    \/ RowFails(r)

Next ==
    \/ Environment
    \/ \E r \in Runs : Step(r)
    \/ \E r \in Runs : Failure(r)
    \/ Restart

Spec == Init /\ [][Next]_vars

(* The event loop resumes every await, setInterval starts runs for ever and
   outages end: from some time on no call fails and nothing restarts.  Nothing
   is assumed of Stripe, of the operator, or of what failed before. *)
Fairness ==
    /\ \A r \in Runs : WF_vars(Step(r))
    /\ <>[][Environment \/ \E r \in Runs : Step(r)]_vars

FairSpec == Spec /\ Fairness
-----------------------------------------------------------------------------
RunState == [pc : Pc, todo : Seq(Subs), answer : {"none", "pending", "active", "revoked"}]

(* The type of every variable; a run that is at an element has one, and marks
   a row with an answer. *)
TypeOK ==
    /\ subscription \in [Subs -> Statuses \cup {"none"}]
    /\ sessions \in Seq(Subs)
    /\ entitlement \in [Subs -> {"absent", "pending", "active", "revoked"}]
    /\ updatedBefore \in SUBSET (Subs \X Subs)
    /\ tier \in [Users -> Tiers]
    /\ setBy \in [Users -> {"operator", "sync"}]
    /\ run \in [Runs -> RunState]
    /\ paid \subseteq Subs /\ lapsed \subseteq Subs /\ linked \subseteq Subs
    /\ \A r \in Runs :
        /\ run[r].pc \notin {"idle", "listSessions", "listPollable"} => run[r].todo # <<>>
        /\ run[r].pc = "markStatus" => run[r].answer # "none"

(* The sync can take back every 'pro' it gave: a user it made 'pro' still has a
   row that stage 2 will poll, or a revocation is on its way.  Otherwise no
   later run can see the cancellation: the user keeps pro for ever. *)
NoStrandedPro ==
    \A u \in Users :
        tier[u] = "pro" /\ setBy[u] = "sync" =>
            \/ \E s \in Pollable : Owner[s] = u
            \/ \E r \in Runs : run[r].pc = "revoke" /\ Owner[Current(r)] = u

(* The two tables agree: the user of an 'active' row is not 'free', unless the
   grant is on its way, the operator chose so, or another subscription of the
   user has ended and took the tier with it. *)
ActiveRowHasTier ==
    \A s \in Subs :
        entitlement[s] = "active" =>
            \/ tier[Owner[s]] # "free"
            \/ setBy[Owner[s]] = "operator"
            \/ \E r \in Runs : run[r].pc = "grant" /\ Current(r) = s
            \/ \E other \in lapsed \ {s} : Owner[other] = Owner[s]

(* A subscriber who stays a paying one ends up with a tier and keeps it, if some
   run has linked a session of the subscription since it was last over.  One that
   is resumed when its session has left the window, or whose session leaves it
   unseen, is no row stage 2 polls, and stays without.  No session may be left in
   the window: until then that of another subscription of the user, cancelled
   since, is replayed at every tick. *)
SubscriberKeepsTier ==
    \A s \in Subs : Owner[s] # NoUser =>
        (<>[](Paying(s) /\ s \in linked /\ sessions = <<>>)
            => <>[](tier[Owner[s]] # "free"))

(* A user none of whose subscriptions is paying loses the 'pro' they gave. *)
Lapsed(u) ==
    \A s \in Subs : Owner[s] = u => ReportedStatus(subscription[s]) = "revoked"
LapsedSubscriberLosesPro ==
    \A u \in Users : <>[]Lapsed(u) => <>[](tier[u] # "pro")

(* Stranding is the only way to keep it: where no user is ever stranded, every
   lapsed subscriber loses it, whatever failed on the way. *)
LapsedLosesProUnlessStranded == []NoStrandedPro => LapsedSubscriberLosesPro

(* The sync implements the contract: only the operator sets an arbitrary tier,
   the sync moves users between 'free' and 'pro' and for a reason. *)
OwnersOf(S) == {Owner[s] : s \in S} \ {NoUser}
Contract == INSTANCE TierContract WITH payers <- OwnersOf(paid), lapsers <- OwnersOf(lapsed)
ImplementsContract == Contract!ContractSpec
-----------------------------------------------------------------------------
(* The inductive strengthening the proofs use. *)
Elements(q) == {q[i] : i \in DOMAIN q}
RowSteps == {"getSubscription", "markStatus", "grant", "revoke"}

(* What Stripe reports now, it has reported. *)
HistoryInv ==
    \A s \in Subs :
        /\ Paying(s) => s \in paid
        /\ subscription[s] # "none" /\ ReportedStatus(subscription[s]) = "revoked"
                => s \in lapsed

(* Every subscription the bot has heard of has existed. *)
Existed(s) == subscription[s] # "none" \/ s \in lapsed
ExistedInv ==
    /\ \A s \in Elements(sessions) \cup Rows : Existed(s)
    /\ \A r \in Runs : \A s \in Elements(run[r].todo) : Existed(s)

(* Rows have an owner, and stage 2 works on rows. *)
AttributionInv ==
    /\ \A s \in Rows : Owner[s] \in Users
    /\ \A r \in Runs : run[r].pc \in RowSteps => Elements(run[r].todo) \subseteq Rows

(* The answer a run holds was true once, and it acts on the answer it holds. *)
AnswerInv ==
    \A r \in Runs :
        /\ run[r].pc = "grant" => run[r].answer = "active"
        /\ run[r].pc = "revoke" => run[r].answer = "revoked"
        /\ run[r].pc \in RowSteps /\ run[r].answer = "active" => Current(r) \in paid
        /\ run[r].pc \in RowSteps /\ run[r].answer = "revoked" => Current(r) \in lapsed

IInv == TypeOK /\ HistoryInv /\ ExistedInv /\ AttributionInv /\ AnswerInv

(* With one run at a time, a grant on its way is backed by an active row. *)
GrantBacked ==
    \A r \in Runs : run[r].pc = "grant" => entitlement[Current(r)] = "active"
=============================================================================
