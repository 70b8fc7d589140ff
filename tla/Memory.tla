------------------------------- MODULE Memory -------------------------------
(***************************************************************************)
(* Long-term memory: captures, their distillation into facts, the writers  *)
(* of facts that do not wait for it (/goals, the remember tool), and       *)
(* forgetting.                                                             *)
(*                                                                         *)
(* The distill scheduler starts a tick every few minutes without waiting   *)
(* for the last, so ticks overlap.  Every statement is atomic; between two *)
(* of them anything may happen.  Ids are handed out in order, as BIGSERIAL *)
(* does, and never again.                                                  *)
(***************************************************************************)
EXTENDS Naturals, Sequences, FiniteSets, SequencesExt

CONSTANTS
    Users,
    Ticks,              \* distill ticks that may overlap
    Writers,            \* /goals set commands and remember calls under way
    Names,              \* game entities the model may mention
    Main,               \* the user's main character
    UsersPerTick,       \* USERS_PER_TICK (10)
    CapturesPerBatch,   \* CAPTURES_PER_BATCH (10)
    FactCap,            \* memoryFacts of a premium tier (1000)
    MaxOps,             \* operations in one answer of the model (20)
    MaxMentions,        \* entities of one operation (5)
    MaxCaptures, MaxFacts, MaxWipes,    \* bounds on the rows and wipes of an instance
    MaxLost,            \* bound on the batches lost
    Faults              \* what may fail, among "database", "provider", "restart"

ASSUME TicksAssumption == IsFiniteSet(Ticks) /\ IsFiniteSet(Writers)
ASSUME SizesAssumption ==
    /\ {UsersPerTick, CapturesPerBatch, FactCap} \subseteq Nat \ {0}
    /\ {MaxOps, MaxMentions, MaxCaptures, MaxFacts, MaxWipes, MaxLost} \subseteq Nat

VARIABLES
    premium,    \* users whose tier is 'pro' (or 'guild_pro')
    captures,   \* captures, by id: user and distill_status
    facts,      \* memory_facts, by id
    entities,   \* entities; its id is a generation, see upsert
    relations,  \* relations, by the ids of their two ends
    tick,       \* the distill ticks
    writer,     \* the /goals commands and remember calls
    lastCapture, lastFact   \* the sequences of the ids

(* History: what the properties refer to and no code reads. *)
VARIABLES
    wipes,      \* how often each user has been forgotten
    calls,      \* calls of completions.create with each capture
    lost        \* batches given up with their captures still pending

tables == <<premium, captures, facts, entities, relations, lastCapture, lastFact>>
history == <<wipes, calls, lost>>
vars == <<tables, tick, writer, history>>

Idle == [pc |-> "idle", todo |-> <<>>, batch |-> {}, ops |-> 0, cap |-> 0,
         count |-> 0, fact |-> 0, mentions |-> 0, hub |-> 0, to |-> 0, name |-> Main]
NoWriter == [pc |-> "none"]

User(t) == Head(tick[t].todo)
Earliest(S) == CHOOSE c \in S : \A d \in S : c <= d
Origin(t) == Earliest(tick[t].batch)
Active(u) == {f \in DOMAIN facts : facts[f].user = u /\ facts[f].active}
Pending(u) == {c \in DOMAIN captures : captures[c].user = u /\ captures[c].status = "pending"}
MemoryFacts(u) == IF u \in premium THEN FactCap ELSE 0

With(f, x, y) == [z \in DOMAIN f \cup {x} |-> IF z = x THEN y ELSE f[z]]
Without(f, S) == [z \in DOMAIN f \ S |-> f[z]]

Init ==
    /\ premium \in SUBSET Users
    /\ captures = <<>> /\ facts = <<>> /\ entities = {} /\ relations = {}
    /\ tick = [t \in Ticks |-> Idle]
    /\ writer = [w \in Writers |-> NoWriter]
    /\ lastCapture = 0 /\ lastFact = 0
    /\ wipes = [u \in Users |-> 0]
    /\ calls = [c \in 1..MaxCaptures |-> 0]
    /\ lost = 0
-----------------------------------------------------------------------------
(* A tick goes on with its next user, or ends. *)
NextUser(t) ==
    tick' = [tick EXCEPT ![t] = IF Len(tick[t].todo) > 1
                                THEN [Idle EXCEPT !.pc = "load", !.todo = Tail(tick[t].todo)]
                                ELSE Idle]
Fail(t) == tick' = [tick EXCEPT ![t] = [Idle EXCEPT !.pc = "failed", !.todo = tick[t].todo,
                                                    !.batch = tick[t].batch]]
At(t, pc) == tick[t].pc = pc

(* usersWithPendingCaptures: premium users, oldest backlog first.  A tick that
   finds no budget, no user or no database ends as it began. *)
Backlog == {u \in premium : Pending(u) # {}}
OldestFirst(S) ==
    {queue \in [1..Cardinality(S) -> S] : \A i, j \in DOMAIN queue :
        i < j => Earliest(Pending(queue[i])) < Earliest(Pending(queue[j]))}
AtMost(n, s) == SubSeq(s, 1, IF Len(s) < n THEN Len(s) ELSE n)

distillTick(t) ==
    /\ At(t, "idle")
    /\ Backlog # {}
    /\ \E queue \in OldestFirst(Backlog) :
        tick' = [tick EXCEPT ![t] = [Idle EXCEPT !.pc = "load", !.todo = AtMost(UsersPerTick, queue)]]
    /\ UNCHANGED <<tables, writer, history>>

(* The oldest captures that await their distillation. *)
Batch(u) == {c \in Pending(u) : Cardinality({d \in Pending(u) : d < c}) < CapturesPerBatch}
pendingForUser(t) ==
    /\ At(t, "load")
    /\ IF Batch(User(t)) = {}
       THEN NextUser(t)
       ELSE tick' = [tick EXCEPT ![t].pc = "create", ![t].batch = Batch(User(t))]
    /\ UNCHANGED <<tables, writer, history>>

(* The facts for the prompt are read and the model answers with operations, none
   if the answer is malformed.  The ids in them may be any, of other users too.
   One call of completions.create sends the batch up to 1 + MAX_RETRIES times: the
   client retries by itself, and the tick sees one answer or one failure. *)
create(t) ==
    /\ At(t, "create")
    /\ calls' = [c \in DOMAIN calls |-> IF c \in tick[t].batch THEN calls[c] + 1 ELSE calls[c]]
    /\ \E n \in 0..MaxOps :
        tick' = [tick EXCEPT ![t].pc = "getTier", ![t].ops = n]
    /\ UNCHANGED <<tables, writer, wipes, lost>>

(* applyOps reads the tier, then counts the facts, once. *)
getTier(t) ==
    /\ At(t, "getTier")
    /\ tick' = [tick EXCEPT ![t].pc = "count", ![t].cap = MemoryFacts(User(t))]
    /\ UNCHANGED <<tables, writer, history>>

countActiveFacts(t) ==
    /\ At(t, "count")
    /\ tick' = [tick EXCEPT ![t].pc = "apply", ![t].count = Cardinality(Active(User(t)))]
    /\ UNCHANGED <<tables, writer, history>>
-----------------------------------------------------------------------------
(* The operations, one statement each.  SkipOp is one that changes nothing: its
   text fails the sanitizer, or the cap is reached. *)
OpDone(t) == tick' = [tick EXCEPT ![t].ops = tick[t].ops - 1]
SkipOp(t) ==
    /\ At(t, "apply") /\ tick[t].ops > 0
    /\ OpDone(t)
    /\ UNCHANGED <<tables, writer, history>>

(* The statement of deactivateFact, for the distiller and for the commands. *)
Deactivated(u, id) ==
    IF id \in DOMAIN facts /\ facts[id].user = u
    THEN [facts EXCEPT ![id].active = FALSE]
    ELSE facts

deactivateFact(t) ==
    /\ At(t, "apply") /\ tick[t].ops > 0
    /\ \E id \in 1..lastFact : facts' = Deactivated(User(t), id)
    /\ OpDone(t)
    /\ UNCHANGED <<premium, captures, entities, relations, lastCapture, lastFact, writer, history>>

(* MUTANT: the statement without AND active. *)
supersedeFact_Inactive(t) ==
    /\ At(t, "apply") /\ tick[t].ops > 0 /\ lastFact < MaxFacts
    /\ \E old \in 1..lastFact :
        /\ old \in DOMAIN facts /\ facts[old].user = User(t)
        /\ lastFact' = lastFact + 1
        /\ facts' = With(Deactivated(User(t), old), lastFact',
                         [user |-> User(t), active |-> TRUE, supersedes |-> old,
                          origin |-> Origin(t)])
    /\ OpDone(t)
    /\ UNCHANGED <<premium, captures, entities, relations, lastCapture, writer, history>>

(* One statement deactivates the old fact and inserts its successor, if the old
   one is the user's and active; otherwise it changes nothing, like SkipOp. *)
supersedeFact(t) ==
    /\ At(t, "apply") /\ tick[t].ops > 0 /\ lastFact < MaxFacts
    /\ \E old \in 1..lastFact :
        /\ old \in Active(User(t))
        /\ lastFact' = lastFact + 1
        /\ facts' = With(Deactivated(User(t), old), lastFact',
                         [user |-> User(t), active |-> TRUE, supersedes |-> old,
                          origin |-> Origin(t)])
    /\ OpDone(t)
    /\ UNCHANGED <<premium, captures, entities, relations, lastCapture, writer, history>>

(* MUTANT: the fact does not name its capture. *)
insertFact_NoSource(t) ==
    /\ At(t, "apply") /\ tick[t].ops > 0 /\ lastFact < MaxFacts
    /\ tick[t].count < tick[t].cap
    /\ lastFact' = lastFact + 1
    /\ facts' = With(facts, lastFact', [user |-> User(t), active |-> TRUE, supersedes |-> 0,
                                        origin |-> Origin(t)])
    /\ tick' = [tick EXCEPT ![t].ops = tick[t].ops - 1, ![t].count = tick[t].count + 1]
    /\ UNCHANGED <<premium, captures, entities, relations, lastCapture, writer, history>>

(* MUTANT: the insertion is not counted. *)
insertFact_Uncounted(t) ==
    /\ At(t, "apply") /\ tick[t].ops > 0 /\ lastFact < MaxFacts
    /\ tick[t].count < tick[t].cap
    /\ Origin(t) \in DOMAIN captures
    /\ lastFact' = lastFact + 1
    /\ facts' = With(facts, lastFact', [user |-> User(t), active |-> TRUE, supersedes |-> 0,
                                        origin |-> Origin(t)])
    /\ tick' = [tick EXCEPT ![t].ops = tick[t].ops - 1]
    /\ UNCHANGED <<premium, captures, entities, relations, lastCapture, writer, history>>

(* MUTANT: linkEntities does not return when there is no mention. *)
insertFact_NoMention(t) ==
    /\ At(t, "apply") /\ tick[t].ops > 0 /\ lastFact < MaxFacts
    /\ tick[t].count < tick[t].cap
    /\ Origin(t) \in DOMAIN captures
    /\ lastFact' = lastFact + 1
    /\ facts' = With(facts, lastFact', [user |-> User(t), active |-> TRUE, supersedes |-> 0,
                                        origin |-> Origin(t)])
    /\ \E mentions \in 0..MaxMentions :
        tick' = [tick EXCEPT ![t].pc = "hub", ![t].mentions = mentions, ![t].fact = lastFact',
                             ![t].ops = tick[t].ops - 1, ![t].count = tick[t].count + 1]
    /\ UNCHANGED <<premium, captures, entities, relations, lastCapture, writer, history>>

(* The cap is compared with the count of this batch.  source_capture_id refers to
   the first capture of the batch: once that is deleted, the insert fails. *)
insertFact(t) ==
    /\ At(t, "apply") /\ tick[t].ops > 0 /\ lastFact < MaxFacts
    /\ tick[t].count < tick[t].cap
    /\ Origin(t) \in DOMAIN captures
    /\ lastFact' = lastFact + 1
    /\ facts' = With(facts, lastFact', [user |-> User(t), active |-> TRUE, supersedes |-> 0,
                                        origin |-> Origin(t)])
    /\ \E mentions \in 0..MaxMentions :
        tick' = [tick EXCEPT ![t].pc = IF mentions = 0 THEN "apply" ELSE "hub",
                             ![t].ops = tick[t].ops - 1, ![t].count = tick[t].count + 1,
                             ![t].fact = IF mentions = 0 THEN 0 ELSE lastFact',
                             ![t].mentions = mentions]
    /\ UNCHANGED <<premium, captures, entities, relations, lastCapture, writer, history>>

insertFactRefused(t) ==
    /\ At(t, "apply") /\ tick[t].ops > 0
    /\ tick[t].count < tick[t].cap
    /\ Origin(t) \notin DOMAIN captures
    /\ Fail(t)
    /\ UNCHANGED <<tables, writer, history>>
-----------------------------------------------------------------------------
(* linkEntities: the main character is the hub, if a link was verified when the links
   were read (they belong to another component), and every mention is upserted and
   related to it.  A wipe deletes all entities of a user
   at once, so the number of wipes before its insertion tells the id of a row of
   that user and name. *)
Upserted(u, name, origin) ==
    IF \E e \in entities : e.user = u /\ e.name = name
    THEN entities
    ELSE entities \cup {[user |-> u, name |-> name, id |-> wipes[u], origin |-> origin]}

NoHub == MaxWipes + 1
upsertHub(t) ==
    /\ At(t, "hub")
    /\ \/ entities' = Upserted(User(t), Main, Origin(t))
          /\ tick' = [tick EXCEPT ![t].pc = "mention", ![t].hub = wipes[User(t)]]
       \/ UNCHANGED entities
          /\ tick' = [tick EXCEPT ![t].pc = "mention", ![t].hub = NoHub]
    /\ UNCHANGED <<premium, captures, facts, relations, lastCapture, lastFact, writer, history>>

NextMention(t) ==
    tick' = [tick EXCEPT ![t] = IF tick[t].mentions > 1
        THEN [tick[t] EXCEPT !.pc = "mention", !.mentions = tick[t].mentions - 1]
        ELSE [tick[t] EXCEPT !.pc = "apply", !.mentions = 0, !.fact = 0, !.hub = 0]]

upsert(t) ==
    /\ At(t, "mention")
    /\ \E name \in Names :
        /\ entities' = Upserted(User(t), name, Origin(t))
        /\ IF tick[t].hub = NoHub \/ (name = Main /\ tick[t].hub = wipes[User(t)])
           THEN NextMention(t)
           ELSE tick' = [tick EXCEPT ![t].pc = "relate", ![t].to = wipes[User(t)], ![t].name = name]
    /\ UNCHANGED <<premium, captures, facts, relations, lastCapture, lastFact, writer, history>>

(* Nothing is inserted if the relation exists; otherwise both ends and the fact
   must. *)
Relation(t) == [user |-> User(t), from |-> tick[t].hub, name |-> tick[t].name, to |-> tick[t].to]
EndsExist(t) ==
    /\ tick[t].hub = wipes[User(t)] /\ tick[t].to = wipes[User(t)]
    /\ tick[t].fact \in DOMAIN facts
addRelation(t) ==
    /\ At(t, "relate")
    /\ \/ Relation(t) \in relations \/ EndsExist(t)
    /\ relations' = relations \cup {Relation(t)}
    /\ NextMention(t)
    /\ UNCHANGED <<premium, captures, facts, entities, lastCapture, lastFact, writer, history>>
addRelationRefused(t) ==
    /\ At(t, "relate")
    /\ Relation(t) \notin relations /\ ~EndsExist(t)
    /\ Fail(t)
    /\ UNCHANGED <<tables, writer, history>>
-----------------------------------------------------------------------------
(* The statement of setDistillStatus. *)
Marked(batch, status) ==
    [c \in DOMAIN captures |->
        IF c \in batch THEN [captures[c] EXCEPT !.status = status] ELSE captures[c]]

markDone(t) ==
    /\ At(t, "apply") /\ tick[t].ops = 0
    /\ captures' = Marked(tick[t].batch, "done")
    /\ NextUser(t)
    /\ UNCHANGED <<premium, facts, entities, relations, lastCapture, lastFact, writer, history>>

(* The catch block of distillUser. *)
markFailed(t) ==
    /\ At(t, "failed")
    /\ captures' = Marked(tick[t].batch, "failed")
    /\ NextUser(t)
    /\ UNCHANGED <<premium, facts, entities, relations, lastCapture, lastFact, writer, history>>

(* MUTANT: a failed answer of the model is not followed by a mark. *)
createFails_Swallowed(t) ==
    /\ At(t, "create") /\ "provider" \in Faults
    /\ NextUser(t)
    /\ UNCHANGED <<tables, writer, history>>

(* The call and all its retries fail; what the provider did with them is not known. *)
createFails(t) ==
    /\ At(t, "create") /\ "provider" \in Faults
    /\ calls' = [c \in DOMAIN calls |-> IF c \in tick[t].batch THEN calls[c] + 1 ELSE calls[c]]
    /\ Fail(t)
    /\ UNCHANGED <<tables, writer, wipes, lost>>

(* MUTANT: the catch block is missing. *)
StatementFails_Uncaught(t) ==
    /\ "database" \in Faults
    /\ tick[t].pc \in {"load", "create", "getTier", "count", "apply", "hub", "mention", "relate"}
    /\ NextUser(t)
    /\ UNCHANGED <<tables, writer, history>>

(* A statement fails: inside the try block the batch is marked as failed, before
   it the tick goes on with the next user. *)
StatementFails(t) ==
    /\ "database" \in Faults
    /\ \/ At(t, "load") /\ NextUser(t)
       \/ tick[t].pc \in {"create", "getTier", "count", "apply", "hub", "mention", "relate"}
          /\ Fail(t)
    /\ UNCHANGED <<tables, writer, history>>

(* The mark of the catch block fails too, and the captures stay pending. *)
markFails(t) ==
    /\ At(t, "failed") /\ "database" \in Faults /\ lost < MaxLost
    /\ lost' = lost + 1
    /\ NextUser(t)
    /\ UNCHANGED <<tables, writer, wipes, calls>>
-----------------------------------------------------------------------------
(* /goals set and the remember tool: the tier is known when they begin, then the
   facts are counted, then the fact is inserted; remember also appends a capture
   and does not wait for it. *)
Begin(w, u) ==
    /\ writer[w].pc = "none" /\ MemoryFacts(u) > 0
    /\ writer' = [writer EXCEPT ![w] = [pc |-> "count", user |-> u, cap |-> MemoryFacts(u)]]
    /\ UNCHANGED <<tables, tick, history>>

countForWriter(w) ==
    /\ writer[w].pc = "count"
    /\ writer' = [writer EXCEPT ![w] =
            IF Cardinality(Active(writer[w].user)) >= writer[w].cap
            THEN NoWriter ELSE [writer[w] EXCEPT !.pc = "insert"]]
    /\ UNCHANGED <<tables, tick, history>>

insertStated(w) ==
    /\ writer[w].pc = "insert" /\ lastFact < MaxFacts
    /\ lastFact' = lastFact + 1
    /\ facts' = With(facts, lastFact', [user |-> writer[w].user, active |-> TRUE,
                                        supersedes |-> 0, origin |-> 0])
    /\ \E next \in {NoWriter, [writer[w] EXCEPT !.pc = "append"]} :
        writer' = [writer EXCEPT ![w] = next]
    /\ UNCHANGED <<premium, captures, entities, relations, lastCapture, tick, history>>

WriterFails(w) ==
    /\ writer[w].pc # "none" /\ "database" \in Faults
    /\ writer' = [writer EXCEPT ![w] = NoWriter]
    /\ UNCHANGED <<tables, tick, history>>

(* append, of any kind of capture. *)
Append1(u) ==
    /\ lastCapture < MaxCaptures
    /\ lastCapture' = lastCapture + 1
    /\ captures' = With(captures, lastCapture', [user |-> u, status |-> "pending"])
    /\ UNCHANGED <<premium, facts, entities, relations, lastFact, tick, history>>
append(u) == Append1(u) /\ UNCHANGED writer
appendRemembered(w) ==
    /\ writer[w].pc = "append"
    /\ writer' = [writer EXCEPT ![w] = NoWriter]
    /\ Append1(writer[w].user)

(* /memory forget and /goals done, with any number the user types. *)
Forget(u) ==
    /\ \E id \in DOMAIN facts : facts' = Deactivated(u, id)
    /\ UNCHANGED <<premium, captures, entities, relations, lastCapture, lastFact,
                   tick, writer, history>>

(* /memory forget-all, confirmed: one statement. *)
Mine(u, f) == {x \in DOMAIN f : f[x].user = u}
forgetEverything(u) ==
    /\ wipes[u] < MaxWipes
    /\ wipes' = [wipes EXCEPT ![u] = @ + 1]
    /\ captures' = Without(captures, Mine(u, captures))
    /\ facts' = Without(facts, Mine(u, facts))
    /\ entities' = {e \in entities : e.user # u}
    /\ relations' = {r \in relations : r.user # u}
    /\ UNCHANGED <<premium, lastCapture, lastFact, tick, writer, calls, lost>>

(* The operator or the tier sync. *)
SetTier(u) ==
    /\ premium' = IF u \in premium THEN premium \ {u} ELSE premium \cup {u}
    /\ UNCHANGED <<captures, facts, entities, relations, lastCapture, lastFact,
                   tick, writer, history>>

(* The process ends, and every batch under way is lost. *)
UnderWay == {t \in Ticks : tick[t].batch # {}}
Restart ==
    /\ "restart" \in Faults
    /\ lost + Cardinality(UnderWay) <= MaxLost
    /\ lost' = lost + Cardinality(UnderWay)
    /\ tick' = [t \in Ticks |-> Idle]
    /\ writer' = [w \in Writers |-> NoWriter]
    /\ UNCHANGED <<tables, wipes, calls>>
-----------------------------------------------------------------------------
Step(t) ==
    \/ distillTick(t)
    \/ pendingForUser(t)
    \/ create(t)
    \/ createFails(t)
    \/ getTier(t)
    \/ countActiveFacts(t)
    \/ SkipOp(t)
    \/ deactivateFact(t)
    \/ supersedeFact(t)
    \/ insertFact(t)
    \/ insertFactRefused(t)
    \/ upsertHub(t)
    \/ upsert(t)
    \/ addRelation(t)
    \/ addRelationRefused(t)
    \/ markDone(t)
    \/ markFailed(t)

Outage ==
    \/ \E t \in Ticks : StatementFails(t) \/ markFails(t)
    \/ \E w \in Writers : WriterFails(w)
    \/ Restart

Write(w) ==
    \/ \E u \in Users : Begin(w, u)
    \/ countForWriter(w)
    \/ insertStated(w)
    \/ appendRemembered(w)

Command(u) ==
    \/ append(u)
    \/ Forget(u)
    \/ forgetEverything(u)
    \/ SetTier(u)

Work ==
    \/ \E t \in Ticks : Step(t)
    \/ \E w \in Writers : Write(w)
    \/ \E u \in Users : Command(u)

Next == Work \/ Outage

Spec == Init /\ [][Next]_vars

(* Ticks keep coming, their awaits settle, now and then one finds the daily budget
   not spent, and outages of the database end.  The provider may fail for ever. *)
FairSpec == Spec /\ (\A t \in Ticks : WF_vars(Step(t))) /\ <>[][Work]_vars
-----------------------------------------------------------------------------
Pc == {"idle", "load", "create", "getTier", "count", "apply", "hub", "mention", "relate", "failed"}

(* The type of every variable; a tick at work has a user, past the load a batch
   of limited size, and only operations the model can have sent. *)
TypeOK ==
    /\ premium \subseteq Users
    /\ DOMAIN captures \subseteq 1..lastCapture /\ lastCapture \in 0..MaxCaptures
    /\ \A c \in DOMAIN captures :
        captures[c] \in [user : Users, status : {"pending", "done", "failed"}]
    /\ DOMAIN facts \subseteq 1..lastFact /\ lastFact \in 0..MaxFacts
    /\ \A f \in DOMAIN facts :
        facts[f] \in [user : Users, active : BOOLEAN, supersedes : 0..(f - 1), origin : 0..lastCapture]
    /\ entities \subseteq [user : Users, name : Names \cup {Main}, id : 0..MaxWipes, origin : 1..lastCapture]
    /\ relations \subseteq [user : Users, from : 0..MaxWipes, name : Names \cup {Main}, to : 0..MaxWipes]
    /\ \A t \in Ticks :
        /\ tick[t].pc \in Pc
        /\ tick[t].pc # "idle" => tick[t].todo # <<>>
        /\ Len(tick[t].todo) <= UsersPerTick /\ ToSet(tick[t].todo) \subseteq Users
        /\ tick[t].pc \notin {"idle", "load"} => tick[t].batch # {}
        /\ Cardinality(tick[t].batch) <= CapturesPerBatch /\ tick[t].batch \subseteq 1..lastCapture
        /\ tick[t].ops \in 0..MaxOps
        /\ tick[t].pc \in {"mention", "relate"} => tick[t].mentions \in 1..MaxMentions
    /\ \A w \in Writers : writer[w] = NoWriter \/
        writer[w] \in [pc : {"count", "insert", "append"}, user : Users, cap : {FactCap}]
    /\ wipes \in [Users -> 0..MaxWipes] /\ calls \in [1..MaxCaptures -> Nat] /\ lost \in 0..MaxLost

(* However ticks, /goals and remember interleave, a user has at most FactCap facts
   more per tick under way, and one per writer: each counts once and then inserts
   up to the cap (distillService.ts:182-210). *)
FactOvershootBounded ==
    \A u \in Users :
        Cardinality(Active(u)) <= FactCap * (Cardinality(Ticks) + 1) + Cardinality(Writers) - 1

(* The history of a fact is a chain of one user's facts, even when two ticks update
   the same fact and the model names the ids of others: what has been superseded is
   inactive, and superseded once (memoryRepository.ts:47-67). *)
HistoryIsChain ==
    /\ \A f \in DOMAIN facts : facts[f].supersedes # 0 =>
        /\ facts[f].supersedes \in DOMAIN facts
        /\ ~facts[facts[f].supersedes].active
        /\ facts[facts[f].supersedes].user = facts[f].user
    /\ \A f, g \in DOMAIN facts :
        facts[f].supersedes = facts[g].supersedes /\ facts[f].supersedes # 0 => f = g

(* A batch under way when its user is forgotten adds no fact of its own: whatever it
   inserts stems from captures that are still there, by the foreign key of
   source_capture_id (memoryRepository.ts:36-45).  It may still write into a fact the
   user has stated since, because an update carries no such key. *)
ForgottenAddsNoFact ==
    \A f \in DOMAIN facts :
        facts[f].origin # 0 /\ facts[f].supersedes = 0 => facts[f].origin \in DOMAIN captures

(* The model is called with a capture at most once per tick that can hold it, and
   once more for each batch that was lost before it was marked: no tick calls again
   for what it has had an answer to.  What is billed may be more, by the client's
   retries within a call (ai/client.ts:21,28). *)
CallsBounded == \A c \in DOMAIN calls : calls[c] <= Cardinality(Ticks) + lost

(* The captures of a premium user are distilled or given up at last, whatever the
   provider does. *)
Settled(c) ==
    \/ c \notin DOMAIN captures
    \/ captures[c].status # "pending"
    \/ captures[c].user \notin premium
CapturesSettle == \A c \in 1..MaxCaptures : c <= lastCapture ~> Settled(c)
=============================================================================
