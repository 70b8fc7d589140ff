-------------------------------- MODULE Ask --------------------------------
(***************************************************************************)
(* The /ask command: rate limiter, daily quota, spend circuit breaker, the *)
(* agent loop behind them, metering, and the background spending that      *)
(* shares the daily cap.                                                   *)
(*                                                                         *)
(* Asks run concurrently on one event loop.  Every await of                *)
(* executeAskCommand and runAsk is a step of its own, so what an ask has   *)
(* read of the quota and of the spend is old when it is charged.  Time     *)
(* advances in units of the AI client's request timeout (one minute).      *)
(***************************************************************************)
EXTENDS Naturals, FiniteSets

CONSTANTS
    Users,
    Calls,          \* slots for asks in flight (a bound on TLC's instances only)
    TierNames,      \* the tiers a user may have
    Limit,          \* Limit[t]: aiQuestionsPerDay
    RateMax,        \* asks per user and window (3)
    RateWindow,     \* the sliding window, in units of time (1)
    MaxRounds,      \* MAX_ROUNDS of the agent loop (8)
    MaxTools,       \* bound on the tool calls of one response
    Attempts,       \* tries of one completions.create: 1 + MAX_RETRIES (3)
    MaxCost,        \* bound on the cost of one response
    Cap,            \* the daily spend cap
    UsersPerTick,   \* users distilled per tick (10)
    MaxBackground,  \* bound on the background AI calls under way
    Slow,           \* the steps of an ask that take time; the others are instantaneous
    Patience,       \* no ask takes longer than this
    Faults          \* what may fail, among "database", "discord", "provider", "restart"

ASSUME LimitAssumption == Limit \in [TierNames -> Nat]
ASSUME CallsAssumption == IsFiniteSet(Calls) /\ IsFiniteSet(TierNames)
ASSUME BoundsAssumption ==
    /\ {RateMax, RateWindow, MaxRounds, Attempts, Cap} \subseteq Nat \ {0}
    /\ {MaxTools, MaxCost, UsersPerTick, MaxBackground, Patience} \subseteq Nat

VARIABLES
    tier,           \* user_tiers.tier
    hits,           \* the rate limiter: ages of the hits in the window, by place
    call,           \* the asks in flight
    questions,      \* ai_usage.questions of today
    askSpend,       \* ai_usage.cost_usd_micros of today
    otherSpend,     \* ai_usage.distill_cost_usd_micros of today
    background      \* AI calls the running distill ticks and imports still have to make

(* History: what the properties refer to and no code reads. *)
VARIABLES
    told,           \* what Discord showed for the ask that ended last
    freeSpend       \* the part of askSpend that asks admitted as 'free' recorded

usageVars == <<questions, askSpend, otherSpend, freeSpend>>
vars == <<tier, hits, call, questions, askSpend, otherSpend, background, told, freeSpend>>

None == [pc |-> "none"]
NoHits == [place \in {} |-> 0]
InFlight == {c \in Calls : call[c].pc # "none"}
Spend == askSpend + otherSpend

Init ==
    /\ tier \in [Users -> TierNames]
    /\ hits = [u \in Users |-> NoHits]
    /\ call = [c \in Calls |-> None]
    /\ questions = [u \in Users |-> 0]
    /\ askSpend = 0
    /\ otherSpend = 0
    /\ background = 0
    /\ told = "nothing"
    /\ freeSpend = 0
-----------------------------------------------------------------------------
(* The ask of slot c goes on at pc, or ends with Discord showing what. *)
GoTo(c, pc) == call' = [call EXCEPT ![c].pc = pc] /\ UNCHANGED told
End(c, what) == call' = [call EXCEPT ![c] = None] /\ told' = what

(* MUTANT: an admitted ask leaves no hit. *)
check_LeavesNoHit(c, u) ==
    /\ call[c].pc = "none"
    /\ (1..RateMax) \ DOMAIN hits[u] # {}
    /\ call' = [call EXCEPT ![c] =
            [pc |-> "getTier", user |-> u, tier |-> tier[u], age |-> 0, round |-> 0,
             attempt |-> 0, waited |-> 0, tools |-> 0, cost |-> 0, charged |-> FALSE,
             lost |-> FALSE]]
    /\ UNCHANGED <<tier, hits, usageVars, background, told>>

(* rateLimiter.check, first thing and without an await: at most RateMax hits in
   the window, each kept in a place of its own until it leaves the window. *)
With(f, x, y) == [z \in DOMAIN f \cup {x} |-> IF z = x THEN y ELSE f[z]]
check(c, u) ==
    /\ call[c].pc = "none"
    /\ \E place \in (1..RateMax) \ DOMAIN hits[u] :
        hits' = [hits EXCEPT ![u] = With(hits[u], place, 0)]
    /\ call' = [call EXCEPT ![c] =
            [pc |-> "getTier", user |-> u, tier |-> tier[u], age |-> 0, round |-> 0,
             attempt |-> 0, waited |-> 0, tools |-> 0, cost |-> 0, charged |-> FALSE,
             lost |-> FALSE]]
    /\ UNCHANGED <<tier, usageVars, background, told>>

getTier(c) ==
    /\ call[c].pc = "getTier"
    /\ call' = [call EXCEPT ![c].pc = "aiQuestionsToday", ![c].tier = tier[call[c].user]]
    /\ UNCHANGED <<tier, hits, usageVars, background, told>>

(* MUTANT: one question more than the tier includes. *)
canAskAi_OffByOne(c) ==
    /\ call[c].pc = "aiQuestionsToday"
    /\ \/ questions[call[c].user] > Limit[call[c].tier] /\ End(c, "refusal")
       \/ questions[call[c].user] <= Limit[call[c].tier] /\ GoTo(c, "globalSpendToday")
    /\ UNCHANGED <<tier, hits, usageVars, background>>

(* The quota, read and decided upon; nothing is reserved. *)
canAskAi(c) ==
    /\ call[c].pc = "aiQuestionsToday"
    /\ \/ /\ questions[call[c].user] >= Limit[call[c].tier]
          /\ End(c, "refusal")
       \/ /\ questions[call[c].user] < Limit[call[c].tier]
          /\ GoTo(c, "globalSpendToday")
    /\ UNCHANGED <<tier, hits, usageVars, background>>

(* The circuit breaker: only 'free' asks are refused. *)
CapReached(c) == call[c].tier = "free" /\ Spend >= Cap
globalSpendToday(c) ==
    /\ call[c].pc = "globalSpendToday"
    /\ \/ CapReached(c) /\ End(c, "refusal")
       \/ ~CapReached(c) /\ GoTo(c, "deferReply")
    /\ UNCHANGED <<tier, hits, usageVars, background>>

(* MUTANT: the rounds are not counted. *)
NextRound_Uncounted(c) ==
    call' = [call EXCEPT ![c].pc = "create", ![c].attempt = 1, ![c].waited = 0, ![c].tools = 0]

(* deferReply, then buildUserContext, which only reads and whose failure is
   tolerated, then the first round of runAsk. *)
NextRound(c) ==
    IF call[c].round < MaxRounds
    THEN call' = [call EXCEPT ![c].pc = "create", ![c].round = call[c].round + 1,
                              ![c].attempt = 1, ![c].waited = 0, ![c].tools = 0]
    ELSE call' = [call EXCEPT ![c].pc = "record", ![c].tools = 0]

deferReply(c) ==
    /\ call[c].pc = "deferReply"
    /\ NextRound(c)
    /\ UNCHANGED <<tier, hits, usageVars, background, told>>
-----------------------------------------------------------------------------
(* The agent loop.  A response without a message or without tool calls ends it;
   its cost counts in any case. *)
create(c) ==
    /\ call[c].pc = "create"
    /\ \E cost \in 0..MaxCost, tools \in 0..MaxTools :
        call' = [call EXCEPT ![c].pc = IF tools = 0 THEN "record" ELSE "callTool",
                             ![c].tools = tools, ![c].cost = call[c].cost + cost]
    /\ UNCHANGED <<tier, hits, usageVars, background, told>>

(* An attempt fails or times out.  The SDK retries what can be retried; then the
   rejection ends runAsk, and what its rounds have cost is recorded nowhere. *)
createFails(c) ==
    /\ call[c].pc = "create" /\ "provider" \in Faults
    /\ \/ /\ call[c].attempt < Attempts
          /\ call' = [call EXCEPT ![c].attempt = call[c].attempt + 1, ![c].waited = 0]
          /\ UNCHANGED told
       \/ GoTo(c, "apologise")
    /\ UNCHANGED <<tier, hits, usageVars, background>>

(* answerToolCall answers one call, a thrown error included; after the last the
   next round starts, or the loop has run out of steps. *)
answerToolCall(c) ==
    /\ call[c].pc = "callTool"
    /\ IF call[c].tools > 1 THEN call' = [call EXCEPT ![c].tools = call[c].tools - 1]
                            ELSE NextRound(c)
    /\ UNCHANGED <<tier, hits, usageVars, background, told>>
-----------------------------------------------------------------------------
(* One statement charges the question and its cost to the day it commits on. *)
Charge(c) ==
    /\ questions' = [questions EXCEPT ![call[c].user] = @ + 1]
    /\ askSpend' = askSpend + call[c].cost
    /\ freeSpend' = IF call[c].tier = "free" THEN freeSpend + call[c].cost ELSE freeSpend
    /\ UNCHANGED otherSpend

(* The capture appended next is not awaited. *)
recordAiQuestion(c) ==
    /\ call[c].pc = "record"
    /\ Charge(c)
    /\ call' = [call EXCEPT ![c].pc = "editReply", ![c].charged = TRUE]
    /\ UNCHANGED <<tier, hits, background, told>>

editReply(c) ==
    /\ call[c].pc = "editReply"
    /\ End(c, "answer")
    /\ UNCHANGED <<tier, hits, usageVars, background>>

(* The catch block: "Something went wrong". *)
Apologise(c) ==
    /\ call[c].pc = "apologise"
    /\ End(c, "apology")
    /\ UNCHANGED <<tier, hits, usageVars, background>>

(* Before deferReply nothing catches: the promise rejects and the user hears
   nothing. *)
EarlyFailure(c) ==
    /\ \/ call[c].pc \in {"getTier", "aiQuestionsToday", "globalSpendToday"} /\ "database" \in Faults
       \/ call[c].pc = "deferReply" /\ "discord" \in Faults
    /\ End(c, "nothing")
    /\ UNCHANGED <<tier, hits, usageVars, background>>

(* MUTANT: a failure to record the usage is swallowed. *)
recordFails_Swallowed(c) ==
    /\ call[c].pc = "record" /\ "database" \in Faults
    /\ GoTo(c, "editReply")
    /\ UNCHANGED <<tier, hits, usageVars, background>>

(* The await of the charge rejects: the statement failed, or it has committed and
   its reply is lost.  The catch block cannot tell and apologises. *)
recordFails(c) ==
    /\ call[c].pc = "record" /\ "database" \in Faults
    /\ \/ GoTo(c, "apologise") /\ UNCHANGED usageVars
       \/ /\ Charge(c)
          /\ call' = [call EXCEPT ![c].pc = "apologise", ![c].charged = TRUE, ![c].lost = TRUE]
          /\ UNCHANGED told
    /\ UNCHANGED <<tier, hits, background>>

(* Discord rejects the answer, and the catch block apologises for it, or it
   rejects the apology. *)
EditFails(c) ==
    /\ "discord" \in Faults
    /\ \/ /\ call[c].pc = "editReply"
          /\ call' = [call EXCEPT ![c].pc = "apologise", ![c].lost = TRUE]
          /\ UNCHANGED told
       \/ call[c].pc = "apologise" /\ End(c, "unknown")
    /\ UNCHANGED <<tier, hits, usageVars, background>>
-----------------------------------------------------------------------------
(* The background work that spends from the same cap. *)

(* MUTANT: no look at the spend. *)
StartBackground_Unchecked ==
    /\ \E n \in {1, UsersPerTick} :
        /\ background + n <= MaxBackground
        /\ background' = background + n
    /\ UNCHANGED <<tier, hits, call, usageVars, told>>

(* distillTick reads the spend once, then serves up to UsersPerTick users; the
   quest importer reads it before every page.  Ticks may overlap. *)
StartBackground ==
    /\ Spend < Cap
    /\ \E n \in {1, UsersPerTick} :
        /\ background + n <= MaxBackground
        /\ background' = background + n
    /\ UNCHANGED <<tier, hits, call, usageVars, told>>

(* One AI call: recorded when it succeeds, forgotten when it fails. *)
recordDistillUsage ==
    /\ background > 0
    /\ background' = background - 1
    /\ \E cost \in 0..MaxCost : otherSpend' = otherSpend + cost
    /\ UNCHANGED <<tier, hits, call, questions, askSpend, told, freeSpend>>

(* Another user of the tier tables: the operator or the tier sync. *)
SetTier(u) ==
    /\ \E t \in TierNames \ {tier[u]} : tier' = [tier EXCEPT ![u] = t]
    /\ UNCHANGED <<hits, call, usageVars, background, told>>

(* CURRENT_DATE changes: the rows of the day before are no longer read. *)
Midnight ==
    /\ questions' = [u \in Users |-> 0]
    /\ askSpend' = 0 /\ otherSpend' = 0 /\ freeSpend' = 0
    /\ UNCHANGED <<tier, hits, call, background, told>>

(* The oldest hits leave the window; no attempt outlives the request timeout and
   no ask its patience. *)
Older(kept) == [place \in {p \in DOMAIN kept : kept[p] + 1 < RateWindow} |-> kept[place] + 1]
Tick ==
    /\ \A c \in InFlight :
        /\ call[c].pc \in Slow
        /\ call[c].age < Patience
        /\ call[c].pc = "create" => call[c].waited = 0
    /\ hits' = [u \in Users |-> Older(hits[u])]
    /\ call' = [c \in Calls |->
            IF c \in InFlight
            THEN [call[c] EXCEPT !.age = @ + 1,
                                 !.waited = IF call[c].pc = "create" THEN 1 ELSE @]
            ELSE None]
    /\ UNCHANGED <<tier, usageVars, background, told>>

(* The process ends: the rate limiter and every ask are gone, the rows stay. *)
Restart ==
    /\ "restart" \in Faults
    /\ hits' = [u \in Users |-> NoHits]
    /\ call' = [c \in Calls |-> None]
    /\ background' = 0
    /\ UNCHANGED <<tier, usageVars, told>>
-----------------------------------------------------------------------------
Step(c) ==
    \/ getTier(c)
    \/ canAskAi(c)
    \/ globalSpendToday(c)
    \/ deferReply(c)
    \/ create(c)
    \/ createFails(c)
    \/ answerToolCall(c)
    \/ recordAiQuestion(c)
    \/ recordFails(c)
    \/ editReply(c)
    \/ EditFails(c)
    \/ Apologise(c)
    \/ EarlyFailure(c)

Next ==
    \/ \E c \in Calls, u \in Users : check(c, u)
    \/ \E c \in Calls : Step(c)
    \/ StartBackground
    \/ recordDistillUsage
    \/ \E u \in Users : SetTier(u)
    \/ Midnight
    \/ Tick
    \/ Restart

Spec == Init /\ [][Next]_vars

(* Every await settles, by success or by failure. *)
FairSpec == Spec /\ \A c \in Calls : WF_vars(Step(c))
-----------------------------------------------------------------------------
(* createRateLimiter bounds how many asks of a user can be under way: RateMax for
   every window, or part of one, that an ask may last.  A restart forgets the
   hits, and the asks with them. *)
Burst == RateMax * ((Patience + RateWindow) \div RateWindow)
AsksOf(u) == {c \in InFlight : call[c].user = u}
BurstBounded == \A u \in Users : Cardinality(AsksOf(u)) <= Burst

(* The quota is checked long before it is charged, so asks under way together
   overshoot it, but by less than a burst, over tier changes, restarts and
   midnights. *)
HighestLimit == CHOOSE n \in {Limit[t] : t \in TierNames} : \A t \in TierNames : Limit[t] <= n
QuotaOvershootBounded == \A u \in Users : questions[u] < HighestLimit + Burst

(* The breaker is read once per ask and once per tick.  What is spent past the
   cap by anyone but premium users is what was under way when it was reached. *)
SpendOvershootBounded ==
    freeSpend + otherSpend < Cap + MaxCost * (MaxRounds * Cardinality(Calls) + MaxBackground)

(* What the user sees when an ask ends agrees with what was charged: an answer
   has been paid for, a refusal has not, and no deferred reply is left
   "thinking".  An ask can be charged and apologised for, but only if a reply was
   lost: Discord refused the answer, or the charge had committed and the database
   did not get to say so. *)
Ends(c) == call[c].pc # "none" /\ call'[c].pc = "none"
ReplyMatchesCharge ==
    [][\A c \in Calls : Ends(c) =>
        \/ Restart
        \/ told' = "answer" /\ call[c].charged
        \/ told' \in {"nothing", "refusal"} /\ ~call[c].charged
        \/ told' = "apology" /\ (call[c].charged => call[c].lost)
        \/ told' = "unknown"]_vars

(* Every ask ends, however the model keeps asking for tools and however the
   provider fails. *)
EveryAskEnds == \A c \in Calls : call[c].pc # "none" ~> call[c].pc = "none"

=============================================================================
