----------------------------- MODULE ProfileSync -----------------------------
(***************************************************************************)
(* The profile sync: every tick lists the links that are due and, one      *)
(* after the other, fetches the character, compares it with the last       *)
(* snapshot, writes a snapshot and tells of the change.  The scheduler     *)
(* does not wait for the last tick, so ticks overlap; the links come and   *)
(* go meanwhile, as LinkTable lets them.                                   *)
(*                                                                         *)
(* A character goes through versions: the hash covers everything that      *)
(* tells them apart, the level is what a player is told the change of.     *)
(***************************************************************************)
EXTENDS LinkTable, Sequences, SequencesExt

CONSTANTS
    Ticks,          \* ticks that may overlap
    DueLimit,       \* LIMIT of findDueForSync (50)
    Unreachable,    \* characters whose fetch always fails
    LevelOf,        \* the levels of the versions, a sequence
    MaxLinks,       \* bound on the links of an instance
    Faults          \* what may fail, among "fetch", "vanished", "database", "restart"

ASSUME SyncAssumption ==
    /\ DueLimit \in Nat \ {0} /\ Unreachable \subseteq Characters
    /\ MaxLinks \in Nat /\ LevelOf \in Seq(Nat \ {0}) /\ LevelOf # <<>>

VARIABLES
    world,      \* the characters as they are
    synced,     \* the links synced at least once, by last_synced_at
    recent,     \* those synced less than their cadence ago
    snapshots,  \* character_snapshots of a link, in order
    events,     \* captures of kind profile_event, by link
    tick

(* History. *)
VARIABLES
    overlapped, \* links two ticks worked on at once
    lost        \* links with an event that was never told

profile == <<synced, recent, snapshots>>
history == <<overlapped, lost>>
vars == <<table, world, profile, events, tick, history>>

Idle == [pc |-> "idle", todo |-> <<>>, seen |-> 0, told |-> <<>>]

Init ==
    /\ TableInit
    /\ world = [c \in Characters |-> 1]
    /\ synced = <<>> /\ recent = {} /\ snapshots = <<>>
    /\ events = [l \in 1..MaxLinks |-> <<>>]
    /\ tick = [t \in Ticks |-> Idle]
    /\ overlapped = {} /\ lost = {}

-----------------------------------------------------------------------------
(* The characters and their links. *)

(* What happens to an unreachable character is never seen. *)
Play(c) ==
    /\ world[c] < Len(LevelOf) /\ c \notin Unreachable
    /\ world' = [world EXCEPT ![c] = @ + 1]
    /\ UNCHANGED <<table, profile, events, tick, history>>

Linked(u, c) ==
    /\ lastLink < MaxLinks
    /\ Insert(u, c, Of(u) = {})
    /\ snapshots' = [l \in DOMAIN links' |-> IF l = lastLink' THEN <<>> ELSE snapshots[l]]
    /\ UNCHANGED <<world, synced, recent, events, tick, history>>

NowVerified(l) == Verify(l) /\ UNCHANGED <<world, profile, events, tick, history>>

(* The snapshots go with their link; what was told of it no longer matters here. *)
Removed(S) ==
    /\ Delete(S)
    /\ synced' = SelectSeq(synced, LAMBDA l : l \notin S)
    /\ recent' = recent \ S
    /\ snapshots' = Without(snapshots, S)
    /\ events' = [l \in 1..MaxLinks |-> IF l \in S THEN <<>> ELSE events[l]]
    /\ overlapped' = overlapped \ S /\ lost' = lost \ S
    /\ UNCHANGED <<world, tick>>

(* The cadence of a link's tier passes. *)
Elapse(l) ==
    /\ recent' = recent \ {l} /\ recent' # recent
    /\ UNCHANGED <<table, world, synced, snapshots, events, tick, history>>

-----------------------------------------------------------------------------
(* A tick. *)

At(t, pc) == tick[t].pc = pc
Link(t) == Head(tick[t].todo).id
Name(t) == Head(tick[t].todo).character
Goto(t, pc) == tick' = [tick EXCEPT ![t].pc = pc]
NextLink(t) ==
    tick' = [tick EXCEPT ![t] = IF Len(tick[t].todo) = 1 THEN Idle
                                ELSE [Idle EXCEPT !.pc = "fetch", !.todo = Tail(tick[t].todo)]]
Orders(S) == {s \in [1..Cardinality(S) -> S] : IsInjective(s)}

Due == Verified \ recent

(* The order of the list: a was synced, b never or longer ago. *)
After(a, b) == \E j \in DOMAIN synced : synced[j] = a /\ \A k \in j..Len(synced) : synced[k] # b

(* Those never synced first, in any order, then the longest ago. *)
findDueForSync(t) ==
    /\ At(t, "idle") /\ Due # {}
    /\ \E due \in Orders(Due) :
         /\ \A i, j \in DOMAIN due : i < j => ~After(due[i], due[j])
         /\ tick' = [tick EXCEPT ![t] = [Idle EXCEPT !.pc = "fetch",
                       !.todo = [i \in 1..(IF Cardinality(Due) < DueLimit THEN Cardinality(Due) ELSE DueLimit) |->
                                   [id |-> due[i], character |-> links[due[i]].character]]]]
    /\ UNCHANGED <<table, world, profile, events, history>>

Busy(l) == \E t \in Ticks : tick[t].pc \in {"latest", "insert", "append"} /\ Link(t) = l

(* The character as it was listed; its link may be gone. *)
getCharacterRaw(t) ==
    /\ At(t, "fetch") /\ Name(t) \notin Unreachable
    /\ tick' = [tick EXCEPT ![t].pc = "latest", ![t].seen = world[Name(t)]]
    /\ overlapped' = IF Busy(Link(t)) /\ Link(t) \in DOMAIN links THEN overlapped \cup {Link(t)} ELSE overlapped
    /\ UNCHANGED <<table, world, profile, events, lost>>

Latest(l) == IF l \in DOMAIN snapshots THEN snapshots[l] ELSE <<>>
Change(before, now) == IF before # <<>> /\ LevelOf[before[1]] # LevelOf[now] THEN <<<<LevelOf[before[1]], LevelOf[now]>>>> ELSE <<>>
Newest(s) == IF s = <<>> THEN <<>> ELSE <<s[Len(s)]>>
Oldest(s) == IF s = <<>> THEN <<>> ELSE <<s[1]>>

(* MUTANT: the first snapshot there is. *)
latestForLink_Oldest(t) ==
    LET before == Oldest(Latest(Link(t)))
    IN  /\ At(t, "latest")
        /\ IF before = <<tick[t].seen>>
           THEN Goto(t, "touch")
           ELSE tick' = [tick EXCEPT ![t].pc = "insert", ![t].told = Change(before, tick[t].seen)]
        /\ UNCHANGED <<table, world, profile, events, history>>

(* The hash is compared, the change computed. *)
latestForLink(t) ==
    LET before == Newest(Latest(Link(t)))
    IN  /\ At(t, "latest")
        /\ IF before = <<tick[t].seen>>
           THEN Goto(t, "touch")
           ELSE tick' = [tick EXCEPT ![t].pc = "insert", ![t].told = Change(before, tick[t].seen)]
        /\ UNCHANGED <<table, world, profile, events, history>>

(* Refused if the link is gone. *)
insert(t) ==
    /\ At(t, "insert") /\ Link(t) \in DOMAIN links
    /\ snapshots' = [snapshots EXCEPT ![Link(t)] = Append(@, tick[t].seen)]
    /\ Goto(t, IF tick[t].told = <<>> THEN "touch" ELSE "append")
    /\ UNCHANGED <<table, world, synced, recent, events, history>>

append(t) ==
    /\ At(t, "append")
    /\ events' = IF Link(t) \in DOMAIN links THEN [events EXCEPT ![Link(t)] = @ \o tick[t].told] ELSE events
    /\ Goto(t, "touch")
    /\ UNCHANGED <<table, world, profile, history>>

touchSynced(t) ==
    /\ At(t, "touch")
    /\ IF Link(t) \in DOMAIN links
       THEN /\ synced' = Append(SelectSeq(synced, LAMBDA l : l # Link(t)), Link(t))
            /\ recent' = recent \cup {Link(t)}
       ELSE UNCHANGED <<synced, recent>>
    /\ NextLink(t)
    /\ UNCHANGED <<table, world, snapshots, events, history>>

-----------------------------------------------------------------------------
(* Failures. *)

(* The character cannot be found: the link counts as synced. *)
vanished(t) ==
    /\ "vanished" \in Faults
    /\ At(t, "fetch")
    /\ Goto(t, "touch")
    /\ UNCHANGED <<table, world, profile, events, history>>

Failed(t) ==
    /\ NextLink(t)
    /\ lost' = IF At(t, "append") /\ Link(t) \in DOMAIN links THEN lost \cup {Link(t)} ELSE lost
    /\ UNCHANGED <<table, world, profile, events, overlapped>>

(* MUTANT: the tick ends. *)
unreachable_EndsTick(t) ==
    /\ At(t, "fetch") /\ Name(t) \in Unreachable
    /\ tick' = [tick EXCEPT ![t] = Idle]
    /\ UNCHANGED <<table, world, profile, events, history>>

(* The fetch of an unreachable character fails, whenever it is tried. *)
unreachable(t) ==
    /\ At(t, "fetch") /\ Name(t) \in Unreachable
    /\ Failed(t)

(* The insert of a snapshot of a link that is gone. *)
orphan(t) == At(t, "insert") /\ Link(t) \notin DOMAIN links /\ Failed(t)

fetchFails(t) == "fetch" \in Faults /\ At(t, "fetch") /\ Failed(t)
QueryFails(t) == "database" \in Faults /\ tick[t].pc \in {"latest", "insert", "append", "touch"} /\ Failed(t)

Restart ==
    /\ "restart" \in Faults
    /\ \E t \in Ticks : ~At(t, "idle")
    /\ tick' = [t \in Ticks |-> Idle]
    /\ lost' = lost \cup {l \in DOMAIN links : \E t \in Ticks : At(t, "append") /\ Link(t) = l}
    /\ UNCHANGED <<table, world, profile, events, overlapped>>

Step(t) ==
    \/ findDueForSync(t) \/ getCharacterRaw(t) \/ latestForLink(t) \/ insert(t) \/ append(t) \/ touchSynced(t)
    \/ unreachable(t) \/ orphan(t)

Outage == (\E t \in Ticks : vanished(t) \/ fetchFails(t) \/ QueryFails(t)) \/ Restart

Players ==
    \/ \E c \in Characters : Play(c) \/ \E u \in Users : Linked(u, c)
    \/ \E l \in DOMAIN links : NowVerified(l)
    \/ \E u \in Users : Removed(Of(u)) \/ \E l \in Of(u) : Removed({l})

Time == \E l \in recent : Elapse(l)

Work == Players \/ Time \/ \E t \in Ticks : Step(t)

Next == Work \/ Outage

Spec == Init /\ [][Next]_vars

(* The scheduler goes on ticking, each tick runs to its end, time passes, and every   *)
(* outage ends.                                                                       *)
FairSpec ==
    /\ Spec
    /\ \A t \in Ticks : WF_vars(Step(t))
    /\ \A l \in 1..MaxLinks : WF_vars(Elapse(l))
    /\ <>[][Work]_vars

-----------------------------------------------------------------------------
(* The snapshots at which the level changes to the next. *)
Jumps(s) == {i \in 1..(Len(s) - 1) : LevelOf[s[i]] # LevelOf[s[i + 1]]}

(* e tells of every jump of s, once and in order. *)
Tells(e, s) ==
    \E at \in [1..Len(e) -> Jumps(s)] :
      /\ \A j, k \in 1..Len(e) : j < k => at[j] < at[k]
      /\ \A i \in Jumps(s) : \E k \in 1..Len(e) : at[k] = i
      /\ \A k \in 1..Len(e) : e[k] = <<LevelOf[s[at[k]]], LevelOf[s[at[k] + 1]]>>
Pending(l) == UNION {ToSet(tick[t].told) : t \in {t \in Ticks : At(t, "append") /\ Link(t) = l}}

(* What a player's memory is told are the changes from snapshot to snapshot, each once   *)
(* and in order, and every snapshot is newer than the one before: unless two ticks had   *)
(* the same character in hand, or an event was lost between the snapshot and the capture *)
(* (profileSyncService.ts:65 and :76).                                                   *)
EventsMatchSnapshots ==
    \A l \in DOMAIN links \ (overlapped \cup lost) :
      /\ Tells(events[l], snapshots[l]) \/ \E p \in Pending(l) : Tells(Append(events[l], p), snapshots[l])
      /\ \A i \in 1..(Len(snapshots[l]) - 1) : snapshots[l][i] < snapshots[l][i + 1]

(* A link that stays verified ends up with a snapshot of its character as it is, although   *)
(* others can never be fetched, as long as they are fewer than a tick lists                 *)
(* (linkedCharacterRepository.ts:64).                                                       *)
Current(l) ==
    l \in Verified /\ links[l].character \notin Unreachable => Newest(snapshots[l]) = <<world[links[l].character]>>
SyncedInTheEnd == <>[](\A l \in DOMAIN links : Current(l))
=============================================================================
