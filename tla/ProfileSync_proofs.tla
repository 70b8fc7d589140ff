-------------------------- MODULE ProfileSync_proofs --------------------------
(***************************************************************************)
(* Proof that what memory is told of a character is what its snapshots     *)
(* say, for any users, characters, levels and overlapping ticks, whatever  *)
(* happens to the links meanwhile and whatever fails.                      *)
(***************************************************************************)
EXTENDS ProfileSync, Integers, FiniteSets, FiniteSetTheorems, SequenceTheorems, TLAPS

(* How many there can be: what one step adds to a finite set and takes from it. *)

(* A part of a finite set is finite and no larger. *)
LEMMA PartOf ==
  ASSUME NEW S, IsFiniteSet(S), NEW T, T \subseteq S
  PROVE  /\ IsFiniteSet(T) /\ Cardinality(T) \in Nat
         /\ Cardinality(S) \in Nat /\ Cardinality(T) <= Cardinality(S)
  <1>1. IsFiniteSet(T) /\ Cardinality(T) <= Cardinality(S)
    BY FS_Subset
  <1>2. QED
    BY <1>1, FS_CardinalityType

-----------------------------------------------------------------------------

Version == 1..Len(LevelOf)
Level == Nat \ {0}
LinkRow == [user : Users, character : Characters, main : BOOLEAN, verified : BOOLEAN]
Entry == [id : Nat, character : Characters]
TickState == [pc : {"idle", "fetch", "latest", "insert", "append", "touch"},
              todo : Seq(Entry), seen : Nat, told : Seq(Level \X Level)]

(* The tables; the id of a link to come has nothing. *)
TableOK ==
    /\ lastLink \in Nat
    /\ links \in [DOMAIN links -> LinkRow]
    /\ \A l \in DOMAIN links : l \in 1..MaxLinks /\ l <= lastLink
ProfileOK ==
    /\ world \in [Characters -> Version]
    /\ snapshots \in [DOMAIN links -> Seq(Version)]
    /\ \A l \in DOMAIN links : \A i \in DOMAIN snapshots[l] : snapshots[l][i] <= world[links[l].character]
    /\ events \in [1..MaxLinks -> Seq(Level \X Level)]
    /\ \A l \in 1..MaxLinks \ DOMAIN links : events[l] = <<>>

(* A tick has links of the table or links that have gone, and names their characters. *)
Known(e) == e.id <= lastLink /\ (e.id \in DOMAIN links => links[e.id].character = e.character)
TickOK(s) ==
    /\ s \in TickState
    /\ s.pc # "idle" => s.todo # <<>>
    /\ \A i \in DOMAIN s.todo : Known(s.todo[i])
    /\ s.pc \in {"latest", "insert", "append"} => s.seen \in Version /\ s.seen <= world[Head(s.todo).character]

(* s has the link l in hand, between the fetch and the touch. *)
Hands(s, l) == s.pc \in {"latest", "insert", "append"} /\ Head(s.todo).id = l

(* What a tick holds that is alone with a link fits what the link has. *)
HandOK(s, l) ==
    /\ \A i \in DOMAIN snapshots[l] : snapshots[l][i] <= s.seen
    /\ s.pc = "insert" => s.told = Change(Newest(snapshots[l]), s.seen) /\ Newest(snapshots[l]) # <<s.seen>>
    /\ s.pc = "append" /\ l \notin lost => Tells(events[l] \o s.told, snapshots[l]) /\ Len(s.told) = 1
Alone(l) ==
    /\ \A t, u \in Ticks : Hands(tick[t], l) /\ Hands(tick[u], l) => t = u
    /\ \A t \in Ticks : Hands(tick[t], l) => HandOK(tick[t], l)
    /\ \A i \in 1..(Len(snapshots[l]) - 1) : snapshots[l][i] < snapshots[l][i + 1]
    /\ \/ l \in lost \/ Tells(events[l], snapshots[l])
       \/ \E t \in Ticks : Hands(tick[t], l) /\ tick[t].pc = "append"

IInv ==
    /\ TableOK /\ ProfileOK
    /\ tick \in [Ticks -> TickState] /\ \A t \in Ticks : TickOK(tick[t])
    /\ \A l \in DOMAIN links \ overlapped : Alone(l)

-----------------------------------------------------------------------------
(* Sequences of versions, and what is told of them. *)

LEMMA LevelsOf == /\ Len(LevelOf) \in Nat /\ 1 \in Version /\ \A v \in Version : v \in Nat /\ LevelOf[v] \in Level
  BY SyncAssumption DEF Version, Level

(* A jump is a place of the sequence, and so is the next. *)
LEMMA JumpsIn ==
  ASSUME NEW s \in Seq(Version), NEW i \in Jumps(s)
  PROVE  /\ Len(s) \in Nat /\ i \in Nat /\ i >= 1 /\ i < Len(s) /\ i \in 1..Len(s) /\ i + 1 \in 1..Len(s)
         /\ s[i] \in Version /\ s[i + 1] \in Version /\ LevelOf[s[i]] # LevelOf[s[i + 1]]
  <1>1. Len(s) \in Nat /\ i \in 1..(Len(s) - 1) /\ LevelOf[s[i]] # LevelOf[s[i + 1]]
    BY DEF Jumps
  <1>2. QED
    BY <1>1

(* Of nothing there is nothing to tell. *)
LEMMA TellsNothing == Tells(<<>>, <<>>)
  <1>1. Len(<<>>) = 0 /\ 1..0 = {} /\ 1..(0 - 1) = {}
    OBVIOUS
  <1>2. Jumps(<<>>) = {}
    BY <1>1 DEF Jumps
  <1> DEFINE at == [k \in 1..0 |-> 0]
  <1>3. at \in [1..Len(<<>>) -> Jumps(<<>>)]
    BY <1>1
  <1>4. QED
    BY <1>1, <1>2, <1>3 DEF Tells

(* A version appended, seen from the places before it. *)
LEMMA AppendedAt ==
  ASSUME NEW T, NEW s \in Seq(T), NEW x \in T
  PROVE  /\ Append(s, x) \in Seq(T) /\ Len(Append(s, x)) = Len(s) + 1 /\ Len(s) \in Nat
         /\ \A i \in 1..Len(s) : Append(s, x)[i] = s[i]
         /\ Append(s, x)[Len(s) + 1] = x
  OBVIOUS

(* A version of the same level is no jump. *)
LEMMA TellsSame ==
  ASSUME NEW e, NEW s \in Seq(Version), NEW x \in Version, Tells(e, s),
         s = <<>> \/ LevelOf[s[Len(s)]] = LevelOf[x]
  PROVE  Tells(e, Append(s, x))
  <1> DEFINE n == Len(s)
             a == Append(s, x)
  <1>1. a \in Seq(Version) /\ Len(a) = n + 1 /\ n \in Nat /\ (\A i \in 1..n : a[i] = s[i]) /\ a[n + 1] = x
    BY AppendedAt
  <1>2. n = 0 \/ LevelOf[s[n]] = LevelOf[x]
    OBVIOUS
  <1> HIDE DEF n, a
  <1>3. \A i \in 1..n : i < n => i + 1 \in 1..n /\ a[i + 1] = s[i + 1]
    BY <1>1
  <1>4. ASSUME NEW i \in Jumps(s) PROVE i \in Jumps(a) /\ a[i] = s[i] /\ a[i + 1] = s[i + 1]
    <2>1. i \in 1..n /\ i < n /\ LevelOf[s[i]] # LevelOf[s[i + 1]]
      BY JumpsIn DEF n
    <2>2. i \in 1..(Len(a) - 1)
      BY <1>1, <2>1
    <2>3. QED
      BY <1>1, <1>3, <2>1, <2>2 DEF Jumps
  <1>5. ASSUME NEW i \in Jumps(a) PROVE i \in Jumps(s)
    <2>1. i \in 1..n /\ LevelOf[a[i]] # LevelOf[a[i + 1]]
      BY <1>1 DEF Jumps
    <2>2. i # n
      BY <1>1, <1>2, <2>1
    <2>3. i < n /\ i \in 1..(n - 1)
      BY <1>1, <2>1, <2>2
    <2>4. QED
      BY <1>1, <1>3, <2>1, <2>3 DEF Jumps, n
  <1>6. Jumps(a) = Jumps(s)
    BY <1>4, <1>5
  <1>7. PICK at \in [1..Len(e) -> Jumps(s)] :
          /\ \A j, k \in 1..Len(e) : j < k => at[j] < at[k]
          /\ \A i \in Jumps(s) : \E k \in 1..Len(e) : at[k] = i
          /\ \A k \in 1..Len(e) : e[k] = <<LevelOf[s[at[k]]], LevelOf[s[at[k] + 1]]>>
    BY DEF Tells
  <1>8. \A k \in 1..Len(e) : e[k] = <<LevelOf[a[at[k]]], LevelOf[a[at[k] + 1]]>>
    BY <1>4, <1>7
  <1>9. Tells(e, a)
    BY <1>6, <1>7, <1>8 DEF Tells
  <1>10. QED
    BY <1>9 DEF a

(* A version of another level is one more, and comes last. *)
LEMMA TellsMore ==
  ASSUME NEW T, NEW e \in Seq(T), NEW s \in Seq(Version), NEW x \in Version, Tells(e, s),
         s # <<>>, LevelOf[s[Len(s)]] # LevelOf[x], <<LevelOf[s[Len(s)]], LevelOf[x]>> \in T
  PROVE  Tells(Append(e, <<LevelOf[s[Len(s)]], LevelOf[x]>>), Append(s, x))
  <1> DEFINE n == Len(s)
             m == Len(e)
             a == Append(s, x)
             p == <<LevelOf[s[n]], LevelOf[x]>>
             d == Append(e, p)
  <1>1. a \in Seq(Version) /\ Len(a) = n + 1 /\ n \in Nat /\ (\A i \in 1..n : a[i] = s[i]) /\ a[n + 1] = x
    BY AppendedAt
  <1>2. n > 0
    BY <1>1
  <1>3. Len(d) = m + 1 /\ m \in Nat /\ (\A k \in 1..m : d[k] = e[k]) /\ d[m + 1] = p
    BY AppendedAt
  <1>17. p = <<LevelOf[s[n]], LevelOf[x]>> /\ LevelOf[s[n]] # LevelOf[x]
    OBVIOUS
  <1> HIDE DEF n, m, a, p, d
  <1>4. \A i \in 1..n : i < n => i + 1 \in 1..n /\ a[i + 1] = s[i + 1]
    BY <1>1
  <1>5. ASSUME NEW i \in Jumps(s) PROVE i \in Jumps(a) /\ i \in Nat /\ i < n /\ a[i] = s[i] /\ a[i + 1] = s[i + 1]
    <2>1. i \in 1..n /\ i < n /\ i \in Nat /\ LevelOf[s[i]] # LevelOf[s[i + 1]]
      BY JumpsIn DEF n
    <2>2. i \in 1..(Len(a) - 1)
      BY <1>1, <2>1
    <2>3. QED
      BY <1>1, <1>4, <2>1, <2>2 DEF Jumps
  <1>6. n \in Jumps(a) /\ a[n] = s[n]
    <2>1. n \in 1..(Len(a) - 1) /\ a[n] = s[n]
      BY <1>1, <1>2
    <2>2. QED
      BY <1>1, <1>17, <2>1 DEF Jumps
  <1>7. ASSUME NEW i \in Jumps(a), i # n PROVE i \in Jumps(s)
    <2>1. i \in 1..n /\ LevelOf[a[i]] # LevelOf[a[i + 1]]
      BY <1>1 DEF Jumps
    <2>2. i < n /\ i \in 1..(n - 1)
      BY <1>1, <1>7, <2>1
    <2>3. QED
      BY <1>1, <1>4, <2>1, <2>2 DEF Jumps, n
  <1>8. PICK at \in [1..m -> Jumps(s)] :
          /\ \A j, k \in 1..m : j < k => at[j] < at[k]
          /\ \A i \in Jumps(s) : \E k \in 1..m : at[k] = i
          /\ \A k \in 1..m : e[k] = <<LevelOf[s[at[k]]], LevelOf[s[at[k] + 1]]>>
    BY DEF Tells, m
  <1> DEFINE on == [k \in 1..(m + 1) |-> IF k = m + 1 THEN n ELSE at[k]]
  <1>9. \A k \in 1..(m + 1) : k = m + 1 \/ k \in 1..m
    BY <1>3
  <1>10. /\ m + 1 \in 1..(m + 1) /\ on[m + 1] = n
         /\ \A k \in 1..m : k \in 1..(m + 1) /\ on[k] = at[k] /\ at[k] \in Jumps(s) /\ k < m + 1
    BY <1>3, <1>8
  <1>11. on \in [1..(m + 1) -> Jumps(a)]
    <2>1. \A k \in 1..(m + 1) : (IF k = m + 1 THEN n ELSE at[k]) \in Jumps(a)
      BY <1>5, <1>6, <1>9, <1>10
    <2>2. QED
      BY <2>1
  <1> HIDE DEF on
  <1>12. ASSUME NEW j \in 1..(m + 1), NEW k \in 1..(m + 1), j < k PROVE on[j] < on[k]
    <2>1. j \in 1..m
      BY <1>3, <1>12
    <2>2. CASE k = m + 1
      BY <1>5, <1>10, <2>1, <2>2
    <2>3. CASE k \in 1..m
      BY <1>8, <1>10, <1>12, <2>1, <2>3
    <2>4. QED
      BY <1>9, <2>2, <2>3
  <1>13. ASSUME NEW i \in Jumps(a) PROVE \E k \in 1..(m + 1) : on[k] = i
    <2>1. CASE i = n
      BY <1>10, <2>1
    <2>2. CASE i # n
      BY <1>7, <1>8, <1>10, <2>2
    <2>3. QED
      BY <2>1, <2>2
  <1>14. ASSUME NEW k \in 1..(m + 1) PROVE d[k] = <<LevelOf[a[on[k]]], LevelOf[a[on[k] + 1]]>>
    <2>1. CASE k = m + 1
      <3>1. on[k] = n /\ d[k] = p
        BY <1>3, <1>10, <2>1
      <3>2. a[n] = s[n] /\ a[n + 1] = x
        BY <1>1, <1>6
      <3>3. QED
        BY <1>17, <3>1, <3>2
    <2>2. CASE k \in 1..m
      <3>1. PICK i \in Jumps(s) : i = at[k] /\ on[k] = i
        BY <1>10, <2>2
      <3>2. e[k] = <<LevelOf[s[i]], LevelOf[s[i + 1]]>> /\ d[k] = e[k]
        BY <1>3, <1>8, <2>2, <3>1
      <3>3. a[i] = s[i] /\ a[i + 1] = s[i + 1]
        BY <1>5
      <3>4. QED
        BY <3>1, <3>2, <3>3
    <2>3. QED
      BY <1>9, <2>1, <2>2
  <1>15. Tells(d, a)
    <2>1. Len(d) = m + 1
      BY <1>3
    <2>2. /\ on \in [1..Len(d) -> Jumps(a)]
          /\ \A j, k \in 1..Len(d) : j < k => on[j] < on[k]
          /\ \A i \in Jumps(a) : \E k \in 1..Len(d) : on[k] = i
          /\ \A k \in 1..Len(d) : d[k] = <<LevelOf[a[on[k]]], LevelOf[a[on[k] + 1]]>>
      BY <1>11, <1>12, <1>13, <1>14, <2>1
    <2>3. QED
      BY <2>2 DEF Tells
  <1>16. QED
    BY <1>15 DEF a, d, p, n

-----------------------------------------------------------------------------
(* A link about which no tick does anything: what it has stays, and who has it in hand had it   *)
(* before.                                                                                      *)
LEMMA AloneKept ==
  ASSUME NEW l, Alone(l),
         UNCHANGED <<snapshots[l], events[l]>>, l \notin lost' => l \notin lost,
         \A t \in Ticks : Hands(tick'[t], l) => tick'[t] = tick[t],
         \A t \in Ticks : Hands(tick[t], l) /\ tick[t].pc = "append" => tick'[t] = tick[t] \/ l \in lost'
  PROVE  Alone(l)'
  <1>1. \A t, u \in Ticks : Hands(tick'[t], l) /\ Hands(tick'[u], l) => t = u
    BY DEF Alone
  <1>2. ASSUME NEW t \in Ticks, Hands(tick[t], l)' PROVE HandOK(tick[t], l)'
    <2>1. PICK s : s = tick[t]
      OBVIOUS
    <2>2. tick'[t] = s /\ HandOK(s, l)
      BY <1>2, <2>1 DEF Alone, Hands
    <2>3. HandOK(s, l)'
      BY <2>2 DEF HandOK
    <2>4. QED
      BY <2>2, <2>3 DEF HandOK
  <1>3. \A i \in 1..(Len(snapshots'[l]) - 1) : snapshots'[l][i] < snapshots'[l][i + 1]
    BY DEF Alone
  <1>4. \/ l \in lost' \/ Tells(events'[l], snapshots'[l])
        \/ \E t \in Ticks : Hands(tick'[t], l) /\ tick'[t].pc = "append"
    <2> SUFFICES ASSUME l \notin lost' PROVE \/ Tells(events'[l], snapshots'[l])
                                             \/ \E t \in Ticks : Hands(tick'[t], l) /\ tick'[t].pc = "append"
      OBVIOUS
    <2>1. CASE Tells(events[l], snapshots[l])
      BY <2>1
    <2>2. ASSUME NEW t \in Ticks, Hands(tick[t], l), tick[t].pc = "append"
          PROVE  Hands(tick'[t], l) /\ tick'[t].pc = "append"
      BY <2>2
    <2>3. QED
      BY <2>1, <2>2 DEF Alone
  <1>5. QED
    BY <1>1, <1>2, <1>3, <1>4 DEF Alone, Hands

(* The links and their owners move on, no tick does. *)
LEMMA TableKeeps ==
  ASSUME IInv, TableOK', ProfileOK', UNCHANGED tick, lastLink <= lastLink',
         \A l \in DOMAIN links' : l <= lastLink =>
           /\ l \in DOMAIN links /\ links'[l].character = links[l].character
           /\ UNCHANGED <<snapshots[l], events[l]>>
           /\ l \notin overlapped' => l \notin overlapped
           /\ l \notin lost' => l \notin lost,
         \A l \in DOMAIN links' : ~(l <= lastLink) => snapshots'[l] = <<>> /\ events'[l] = <<>>,
         \A c \in Characters : world[c] <= world'[c]
  PROVE  IInv'
  <1>1. /\ lastLink \in Nat /\ lastLink' \in Nat /\ tick \in [Ticks -> TickState]
        /\ \A l \in DOMAIN links : l <= lastLink /\ links[l] \in LinkRow
        /\ \A l \in DOMAIN links' : l \in Nat
    BY DEF IInv, TableOK
  <1>2. ASSUME NEW t \in Ticks PROVE TickOK(tick[t])'
    <2>1. PICK s : s = tick[t]
      OBVIOUS
    <2>2. TickOK(s) /\ s \in TickState /\ s = tick'[t]
      BY <2>1 DEF IInv, TickOK
    <2>3. ASSUME NEW i \in DOMAIN s.todo PROVE Known(s.todo[i])'
      <3>1. PICK e \in Entry : e = s.todo[i]
        BY <2>2 DEF TickState
      <3>2. Known(e) /\ e.id \in Nat
        BY <2>2, <3>1 DEF TickOK, Entry
      <3>3. e.id <= lastLink'
        BY <1>1, <3>2 DEF Known
      <3>4. e.id \in DOMAIN links' => links'[e.id].character = e.character
        BY <3>2 DEF Known
      <3>5. QED
        BY <3>1, <3>3, <3>4 DEF Known
    <2>4. ASSUME s.pc \in {"latest", "insert", "append"}
          PROVE  s.seen \in Version /\ s.seen <= world'[Head(s.todo).character]
      <3>1. PICK c \in Characters : c = Head(s.todo).character
        <4>1. s.todo \in Seq(Entry) /\ s.todo # <<>>
          BY <2>2, <2>4 DEF TickOK, TickState
        <4>2. Head(s.todo) \in Entry
          BY <4>1
        <4>3. QED
          BY <4>2 DEF Entry
      <3>2. s.seen \in Version /\ s.seen <= world[c]
        BY <2>2, <2>4, <3>1 DEF TickOK
      <3>3. s.seen \in Nat /\ world[c] \in Nat /\ world'[c] \in Nat /\ world[c] <= world'[c]
        BY <3>2, LevelsOf DEF IInv, ProfileOK
      <3>4. QED
        BY <3>1, <3>2, <3>3
    <2>5. QED
      BY <2>2, <2>3, <2>4 DEF TickOK
  <1>3. ASSUME NEW t \in Ticks, NEW l, Hands(tick[t], l) PROVE l <= lastLink
    <2>1. PICK s : s = tick[t]
      OBVIOUS
    <2>2. TickOK(s) /\ s.pc # "idle" /\ Head(s.todo).id = l
      BY <1>3, <2>1 DEF IInv, Hands
    <2>3. s.todo \in Seq(Entry) /\ s.todo # <<>>
      BY <2>2 DEF TickOK, TickState
    <2>4. 1 \in DOMAIN s.todo /\ Head(s.todo) = s.todo[1]
      BY <2>3
    <2>5. QED
      BY <2>2, <2>4 DEF TickOK, Known
  <1>4. ASSUME NEW l \in DOMAIN links' \ overlapped' PROVE Alone(l)'
    <2>1. CASE l <= lastLink
      <3>1. l \in DOMAIN links \ overlapped
        BY <2>1
      <3>2. Alone(l) /\ UNCHANGED <<snapshots[l], events[l]>> /\ (l \notin lost' => l \notin lost)
        BY <2>1, <3>1 DEF IInv
      <3>3. \A t \in Ticks : tick'[t] = tick[t]
        OBVIOUS
      <3>4. QED
        BY <3>2, <3>3, AloneKept
    <2>2. CASE ~(l <= lastLink)
      <3>1. snapshots'[l] = <<>> /\ events'[l] = <<>>
        BY <2>2
      <3>2. \A t \in Ticks : ~Hands(tick'[t], l)
        BY <1>3, <2>2
      <3>3. Len(<<>>) = 0 /\ 1..(0 - 1) = {}
        OBVIOUS
      <3>4. QED
        BY <3>1, <3>2, <3>3, TellsNothing DEF Alone
    <2>3. QED
      BY <2>1, <2>2
  <1>5. QED
    BY <1>1, <1>2, <1>4 DEF IInv

(* A tick moves on: a link it deals with is alone with it afterwards too, of the others it has *)
(* none in hand and drops no event that is not counted as lost.                                *)
LEMMA TickKeeps ==
  ASSUME IInv, NEW t \in Ticks, NEW s \in TickState, tick' = [tick EXCEPT ![t] = s],
         UNCHANGED <<table, world>>, ProfileOK', TickOK(s), overlapped \subseteq overlapped',
         \A l \in DOMAIN links \ overlapped' :
           \/ Alone(l)'
           \/ /\ UNCHANGED <<snapshots[l], events[l]>> /\ (l \notin lost' => l \notin lost)
              /\ ~Hands(s, l) /\ (Hands(tick[t], l) /\ tick[t].pc = "append" => l \in lost')
  PROVE  IInv'
  <1>1. tick \in [Ticks -> TickState] /\ UNCHANGED <<links, lastLink>>
    BY DEF IInv, table
  <1>2. /\ tick' \in [Ticks -> TickState]
        /\ tick'[t] = s /\ \A u \in Ticks \ {t} : tick'[u] = tick[u]
    BY <1>1
  <1>3. \A u \in Ticks : TickOK(tick[u])'
    <2>1. \A u \in Ticks : TickOK(tick'[u])
      BY <1>2 DEF IInv
    <2>2. QED
      BY <1>1, <2>1 DEF TickOK, Known
  <1>4. TableOK'
    BY <1>1 DEF IInv, TableOK
  <1>5. ASSUME NEW l \in DOMAIN links' \ overlapped', ~Alone(l)' PROVE FALSE
    <2>1. l \in DOMAIN links \ overlapped /\ Alone(l)
      BY <1>1 DEF IInv
    <2>2. /\ UNCHANGED <<snapshots[l], events[l]>> /\ (l \notin lost' => l \notin lost)
          /\ ~Hands(s, l) /\ (Hands(tick[t], l) /\ tick[t].pc = "append" => l \in lost')
      BY <1>5, <2>1
    <2>3. \A u \in Ticks : Hands(tick'[u], l) => tick'[u] = tick[u]
      BY <1>2, <2>2
    <2>4. \A u \in Ticks : Hands(tick[u], l) /\ tick[u].pc = "append" => tick'[u] = tick[u] \/ l \in lost'
      BY <1>2, <2>2
    <2>5. QED
      BY <1>5, <2>1, <2>2, <2>3, <2>4, AloneKept
  <1>6. QED
    BY <1>2, <1>3, <1>4, <1>5 DEF IInv

-----------------------------------------------------------------------------
(* The steps of a tick. *)

(* What is known of a tick that is at work. *)
LEMMA AtWork ==
  ASSUME IInv, NEW t \in Ticks, tick[t].pc # "idle"
  PROVE  /\ tick[t] \in TickState /\ TickOK(tick[t])
         /\ tick[t].todo \in Seq(Entry) /\ tick[t].todo # <<>>
         /\ Head(tick[t].todo) \in Entry /\ Known(Head(tick[t].todo))
         /\ Link(t) \in Nat /\ Name(t) \in Characters /\ world[Name(t)] \in Version
         /\ Link(t) \in DOMAIN links => links[Link(t)].character = Name(t)
         /\ tick[t].pc \in {"latest", "insert", "append"} => tick[t].seen \in Version /\ tick[t].seen <= world[Name(t)]
  <1>1. PICK s : s = tick[t]
    OBVIOUS
  <1>2. s \in TickState /\ TickOK(s) /\ s.pc # "idle"
    BY <1>1 DEF IInv
  <1>3. s.todo \in Seq(Entry) /\ s.todo # <<>>
    BY <1>2 DEF TickOK, TickState
  <1>4. PICK e \in Entry : e = Head(s.todo) /\ e = s.todo[1] /\ 1 \in DOMAIN s.todo
    BY <1>3
  <1>5. Known(e)
    BY <1>2, <1>4 DEF TickOK
  <1>6. e.id \in Nat /\ e.character \in Characters /\ world[e.character] \in Version
    BY DEF Entry, IInv, ProfileOK
  <1>7. QED
    BY <1>1, <1>2, <1>3, <1>4, <1>5, <1>6 DEF Link, Name, Known, TickOK

(* A tick that goes on with the same list. *)
LEMMA SameList ==
  ASSUME NEW r \in TickState, TickOK(r), r.todo # <<>>, NEW s \in TickState, s.todo = r.todo,
         s.pc \in {"latest", "insert", "append"} => s.seen \in Version /\ s.seen <= world[Head(r.todo).character]
  PROVE  TickOK(s) /\ \A l : Hands(s, l) => Head(r.todo).id = l
  BY DEF TickOK, Hands

(* A tick that goes on to its next link, or ends. *)
LEMMA NextHolds ==
  ASSUME IInv, NEW t \in Ticks, tick[t].pc # "idle", NextLink(t)
  PROVE  \E s \in TickState : /\ tick' = [tick EXCEPT ![t] = s]
                              /\ TickOK(s) /\ \A l : ~Hands(s, l)
  <1>1. PICK r \in TickState : r = tick[t] /\ TickOK(r) /\ r.todo \in Seq(Entry) /\ r.todo # <<>>
    BY AtWork
  <1> DEFINE rest == Tail(r.todo)
             on == [Idle EXCEPT !.pc = "fetch", !.todo = rest]
  <1>2. tick' = [tick EXCEPT ![t] = IF Len(r.todo) = 1 THEN Idle ELSE on]
    BY <1>1 DEF NextLink
  <1>3. Idle \in TickState /\ Idle.pc = "idle" /\ Idle.todo = <<>>
    BY DEF Idle, TickState
  <1>4. Len(r.todo) # 1 => /\ rest \in Seq(Entry) /\ rest # <<>>
                           /\ \A i \in DOMAIN rest : i + 1 \in DOMAIN r.todo /\ rest[i] = r.todo[i + 1]
    <2>1. /\ rest \in Seq(Entry) /\ Len(rest) = Len(r.todo) - 1 /\ Len(r.todo) \in Nat \ {0}
          /\ \A i \in 1..Len(rest) : rest[i] = r.todo[i + 1]
      BY <1>1, HeadTailProperties, EmptySeq
    <2>2. DOMAIN rest = 1..Len(rest) /\ DOMAIN r.todo = 1..Len(r.todo) /\ Len(rest) \in Nat
      BY <1>1, <2>1
    <2> HIDE DEF rest
    <2>3. Len(r.todo) # 1 => rest # <<>>
      <3>1. rest = <<>> => Len(rest) = 0
        OBVIOUS
      <3>2. QED
        BY <2>1, <3>1
    <2>4. \A i \in 1..Len(rest) : i + 1 \in 1..Len(r.todo)
      BY <2>1, <2>2
    <2>5. QED
      BY <2>1, <2>2, <2>3, <2>4
  <1>5. CASE Len(r.todo) = 1
    <2>1. tick' = [tick EXCEPT ![t] = Idle]
      BY <1>2, <1>5
    <2>2. TickOK(Idle) /\ \A l : ~Hands(Idle, l)
      BY <1>3 DEF TickOK, Hands
    <2>3. QED
      BY <1>3, <2>1, <2>2
  <1>6. CASE Len(r.todo) # 1
    <2>1. \A i \in DOMAIN rest : Known(rest[i])
      BY <1>1, <1>4, <1>6 DEF TickOK
    <2>2. rest \in Seq(Entry) /\ rest # <<>>
      BY <1>4, <1>6
    <2> HIDE DEF rest
    <2>3. on \in TickState /\ on.pc = "fetch" /\ on.todo = rest
      BY <1>3, <2>2 DEF TickState
    <2>4. tick' = [tick EXCEPT ![t] = on]
      BY <1>2, <1>6
    <2> HIDE DEF on
    <2>5. TickOK(on) /\ \A l : ~Hands(on, l)
      BY <2>1, <2>2, <2>3 DEF TickOK, Hands
    <2>6. QED
      BY <2>3, <2>4, <2>5
  <1>7. QED
    BY <1>5, <1>6

(* The due list names links of the table by their characters. *)
LEMMA findDueKeeps == ASSUME IInv, NEW t \in Ticks, findDueForSync(t) PROVE IInv'
  <1> DEFINE n == IF Cardinality(Due) < DueLimit THEN Cardinality(Due) ELSE DueLimit
  <1>1. IsFiniteSet(Due) /\ Cardinality(Due) \in Nat /\ Due \subseteq DOMAIN links
    <2>1. Due \subseteq 1..MaxLinks /\ Due \subseteq DOMAIN links
      BY DEF Due, Verified, IInv, TableOK
    <2>2. IsFiniteSet(1..MaxLinks)
      BY SyncAssumption, FS_Interval
    <2>3. QED
      BY <2>1, <2>2, PartOf
  <1>2. n \in Nat /\ n <= Cardinality(Due)
    BY <1>1, SyncAssumption
  <1>3. PICK due \in Orders(Due) :
          tick' = [tick EXCEPT ![t] = [Idle EXCEPT !.pc = "fetch",
                    !.todo = [i \in 1..n |-> [id |-> due[i], character |-> links[due[i]].character]]]]
    BY DEF findDueForSync
  <1>4. due \in [1..Cardinality(Due) -> Due]
    BY DEF Orders
  <1> DEFINE listed == [i \in 1..n |-> [id |-> due[i], character |-> links[due[i]].character]]
             s == [Idle EXCEPT !.pc = "fetch", !.todo = listed]
  <1>5. tick[t].pc = "idle" /\ Due # {} /\ UNCHANGED <<table, world, snapshots, events, overlapped, lost>>
    BY DEF findDueForSync, At, profile, history
  <1>6. n # 0
    <2>1. Cardinality(Due) # 0
      BY <1>1, <1>5, FS_EmptySet
    <2>2. QED
      BY <2>1, SyncAssumption
  <1> HIDE DEF n
  <1>7. ASSUME NEW i \in 1..n
        PROVE  /\ [id |-> due[i], character |-> links[due[i]].character] \in Entry
               /\ Known([id |-> due[i], character |-> links[due[i]].character])
    <2>1. PICK l \in DOMAIN links : l = due[i]
      <3>1. i \in 1..Cardinality(Due)
        BY <1>1, <1>2
      <3>2. QED
        BY <1>1, <1>4, <3>1
    <2>2. links[l].character \in Characters /\ l \in Nat /\ l <= lastLink
      BY DEF IInv, TableOK, LinkRow
    <2>3. QED
      BY <2>1, <2>2 DEF Entry, Known
  <1>8. listed \in Seq(Entry) /\ listed # <<>> /\ \A i \in DOMAIN listed : Known(listed[i])
    <2>1. listed \in [1..n -> Entry] /\ DOMAIN listed = 1..n
      BY <1>7
    <2>2. listed \in Seq(Entry) /\ Len(listed) = n
      BY <1>2, <2>1, SeqDef
    <2>3. QED
      BY <1>6, <1>7, <2>1, <2>2
  <1>9. tick' = [tick EXCEPT ![t] = s]
    BY <1>3
  <1> HIDE DEF listed
  <1>10. s \in TickState /\ s.pc = "fetch" /\ s.todo = listed
    <2>1. Idle \in TickState
      BY DEF Idle, TickState
    <2>2. QED
      BY <1>8, <2>1 DEF TickState
  <1> HIDE DEF s
  <1>11. TickOK(s) /\ \A l : ~Hands(s, l) /\ ~Hands(tick[t], l)
    BY <1>5, <1>8, <1>10 DEF TickOK, Hands
  <1>12. ProfileOK' /\ overlapped \subseteq overlapped'
    BY <1>5 DEF IInv, ProfileOK, table
  <1>13. QED
    BY <1>5, <1>9, <1>10, <1>11, <1>12, TickKeeps

(* A fetch sees the character as it is, and no snapshot is newer. *)
LEMMA FetchKeeps == ASSUME IInv, NEW t \in Ticks, getCharacterRaw(t) PROVE IInv'
  <1>1. tick[t].pc = "fetch" /\ UNCHANGED <<table, links, lastLink, world, snapshots, events, lost>>
    BY DEF getCharacterRaw, At, profile, table
  <1>2. PICK r \in TickState, l0 \in Nat, c \in Characters :
          /\ r = tick[t] /\ l0 = Link(t) /\ c = Name(t) /\ TickOK(r) /\ r.todo # <<>> /\ l0 = Head(r.todo).id
          /\ c = Head(r.todo).character /\ world[c] \in Version /\ (l0 \in DOMAIN links => links[l0].character = c)
    BY <1>1, AtWork DEF Link, Name
  <1> DEFINE s == [r EXCEPT !.pc = "latest", !.seen = world[c]]
  <1>3. world[c] \in Nat
    BY <1>2, LevelsOf
  <1>4. tick' = [tick EXCEPT ![t] = s]
    BY <1>2 DEF getCharacterRaw, IInv
  <1>5. s \in TickState /\ s.pc = "latest" /\ s.seen = world[c] /\ s.todo = r.todo
    BY <1>3 DEF TickState
  <1> HIDE DEF s
  <1>6. TickOK(s) /\ \A l : Hands(s, l) => l0 = l
    BY <1>2, <1>3, <1>5, SameList
  <1>7. overlapped \subseteq overlapped' /\ ProfileOK'
    BY <1>1 DEF getCharacterRaw, IInv, ProfileOK
  <1>8. ASSUME NEW l \in DOMAIN links \ overlapped', l = l0 PROVE Alone(l)'
    <2>1. Alone(l) /\ links[l].character = c
      BY <1>2, <1>7, <1>8 DEF IInv
    <2>2. \A u \in Ticks : ~Hands(tick[u], l)
      BY <1>2, <1>8 DEF getCharacterRaw, Busy, Hands, Link
    <2>3. \A u \in Ticks : Hands(tick'[u], l) => u = t
      BY <1>4, <2>2 DEF IInv
    <2>4. tick'[t] = s
      BY <1>4 DEF IInv
    <2>5. \A i \in DOMAIN snapshots[l] : snapshots[l][i] <= s.seen
      BY <1>5, <2>1 DEF IInv, ProfileOK
    <2>6. HandOK(tick[t], l)'
      BY <1>1, <1>5, <2>4, <2>5 DEF HandOK
    <2>7. (l \in lost \/ Tells(events[l], snapshots[l])) /\ \A i \in 1..(Len(snapshots[l]) - 1) : snapshots[l][i] < snapshots[l][i + 1]
      BY <2>1, <2>2 DEF Alone
    <2>8. QED
      BY <1>1, <2>3, <2>6, <2>7 DEF Alone, Hands
  <1>9. ASSUME NEW l \in DOMAIN links \ overlapped', l # l0 PROVE ~Hands(s, l) /\ ~Hands(tick[t], l)
    BY <1>1, <1>6, <1>9 DEF Hands
  <1>10. QED
    BY <1>1, <1>4, <1>5, <1>6, <1>7, <1>8, <1>9, TickKeeps

(* Change is nothing or the one change of level. *)
LEMMA ChangeIs ==
  ASSUME NEW s \in Seq(Version), NEW x \in Version
  PROVE  /\ Change(Newest(s), x) \in Seq(Level \X Level)
         /\ Change(Newest(s), x) = <<>> => s = <<>> \/ LevelOf[s[Len(s)]] = LevelOf[x]
         /\ Change(Newest(s), x) # <<>> =>
              /\ s # <<>> /\ LevelOf[s[Len(s)]] # LevelOf[x]
              /\ <<LevelOf[s[Len(s)]], LevelOf[x]>> \in Level \X Level
              /\ Change(Newest(s), x) = <<<<LevelOf[s[Len(s)]], LevelOf[x]>>>>
  <1>1. CASE s = <<>>
    <2>1. Newest(s) = <<>>
      BY <1>1 DEF Newest
    <2>2. Change(Newest(s), x) = <<>>
      BY <2>1 DEF Change
    <2>3. <<>> \in Seq(Level \X Level)
      BY EmptySeq
    <2>4. QED
      BY <1>1, <2>2, <2>3
  <1>2. CASE s # <<>>
    <2>1. PICK y \in Version : y = s[Len(s)] /\ Newest(s) = <<y>>
      BY <1>2 DEF Newest
    <2>2. LevelOf[y] \in Level /\ LevelOf[x] \in Level
      BY LevelsOf
    <2>3. PICK p \in Level \X Level : p = <<LevelOf[y], LevelOf[x]>>
      BY <2>2
    <2>4. Change(<<y>>, x) = IF LevelOf[y] # LevelOf[x] THEN <<p>> ELSE <<>>
      BY <2>3 DEF Change
    <2>5. <<p>> \in Seq(Level \X Level) /\ <<p>> # <<>> /\ <<>> \in Seq(Level \X Level)
      OBVIOUS
    <2>6. CASE LevelOf[y] = LevelOf[x]
      BY <1>2, <2>1, <2>4, <2>5, <2>6
    <2>7. CASE LevelOf[y] # LevelOf[x]
      BY <1>2, <2>1, <2>3, <2>4, <2>5, <2>7
    <2>8. QED
      BY <2>6, <2>7
  <1>3. QED
    BY <1>1, <1>2

(* A tick that is at work on a link, and the link if it is still there and nobody else's. *)
LEMMA InHand ==
  ASSUME IInv, NEW t \in Ticks, tick[t].pc \in {"latest", "insert", "append"}
  PROVE  \E r \in TickState, l0 \in Nat :
           /\ r = tick[t] /\ l0 = Link(t) /\ l0 = Head(r.todo).id /\ TickOK(r) /\ r.todo # <<>>
           /\ \A l : Hands(r, l) <=> l = l0
           /\ r.seen \in Version /\ r.seen <= world[Head(r.todo).character]
           /\ l0 \in DOMAIN links => links[l0].character = Head(r.todo).character
           /\ l0 \in DOMAIN links \ overlapped =>
                /\ Alone(l0) /\ HandOK(r, l0) /\ snapshots[l0] \in Seq(Version) /\ events[l0] \in Seq(Level \X Level)
                /\ \A u \in Ticks : Hands(tick[u], l0) => u = t
  <1>1. PICK r \in TickState, l0 \in Nat : r = tick[t] /\ l0 = Link(t) /\ TickOK(r) /\ r.todo # <<>>
    BY AtWork
  <1>5. /\ r.seen \in Version /\ r.seen <= world[Head(r.todo).character]
        /\ l0 \in DOMAIN links => links[l0].character = Head(r.todo).character
    BY <1>1, AtWork DEF Name
  <1>2. l0 = Head(r.todo).id /\ \A l : Hands(r, l) <=> l = l0
    BY <1>1 DEF Link, Hands
  <1>3. ASSUME l0 \in DOMAIN links \ overlapped
        PROVE  /\ Alone(l0) /\ HandOK(r, l0) /\ snapshots[l0] \in Seq(Version) /\ events[l0] \in Seq(Level \X Level)
               /\ \A u \in Ticks : Hands(tick[u], l0) => u = t
    <2>1. Alone(l0) /\ l0 \in 1..MaxLinks
      BY <1>3 DEF IInv, TableOK
    <2>2. Hands(tick[t], l0) /\ HandOK(tick[t], l0) /\ \A u \in Ticks : Hands(tick[u], l0) => u = t
      BY <1>1, <1>2, <2>1 DEF Alone
    <2>3. QED
      BY <1>1, <1>3, <2>1, <2>2 DEF IInv, ProfileOK
  <1>4. QED
    BY <1>1, <1>2, <1>3, <1>5

(* The comparison with the last snapshot. *)
LEMMA LatestKeeps == ASSUME IInv, NEW t \in Ticks, latestForLink(t) PROVE IInv'
  <1>1. tick[t].pc = "latest" /\ UNCHANGED <<table, links, lastLink, world, snapshots, events, overlapped, lost>>
    BY DEF latestForLink, At, profile, history, table
  <1>2. PICK r \in TickState, l0 \in Nat :
           /\ r = tick[t] /\ l0 = Link(t) /\ l0 = Head(r.todo).id /\ TickOK(r) /\ r.todo # <<>>
           /\ \A l : Hands(r, l) <=> l = l0
           /\ r.seen \in Version /\ r.seen <= world[Head(r.todo).character]
           /\ l0 \in DOMAIN links => links[l0].character = Head(r.todo).character
           /\ l0 \in DOMAIN links \ overlapped =>
                /\ Alone(l0) /\ HandOK(r, l0) /\ snapshots[l0] \in Seq(Version) /\ events[l0] \in Seq(Level \X Level)
                /\ \A u \in Ticks : Hands(tick[u], l0) => u = t
    BY <1>1, InHand
  <1>3. ProfileOK' /\ overlapped \subseteq overlapped'
    BY <1>1 DEF IInv, ProfileOK
  <1>4. CASE tick' = [tick EXCEPT ![t].pc = "touch"]
    <2> DEFINE s == [r EXCEPT !.pc = "touch"]
    <2>1. s \in TickState /\ s.pc = "touch" /\ s.todo = r.todo
      BY DEF TickState
    <2>2. tick' = [tick EXCEPT ![t] = s]
      BY <1>2, <1>4
    <2> HIDE DEF s
    <2>3. TickOK(s) /\ \A l : ~Hands(s, l)
      BY <1>2, <2>1, SameList DEF Hands
    <2>4. QED
      BY <1>1, <1>3, <2>1, <2>2, <2>3, TickKeeps
  <1>5. CASE /\ tick' = [tick EXCEPT ![t].pc = "insert", ![t].told = Change(Newest(Latest(Link(t))), tick[t].seen)]
             /\ Newest(Latest(Link(t))) # <<tick[t].seen>>
    <2>1. PICK told : told = Change(Newest(Latest(l0)), r.seen)
      OBVIOUS
    <2> DEFINE s == [r EXCEPT !.pc = "insert", !.told = told]
    <2>2. tick' = [tick EXCEPT ![t] = s]
      BY <1>2, <1>5, <2>1
    <2>3. s.pc = "insert" /\ s.todo = r.todo /\ s.told = told /\ s.seen = r.seen
      BY DEF TickState
    <2>4. told \in Seq(Level \X Level)
      <3>1. Latest(l0) \in Seq(Version)
        BY DEF Latest, IInv, ProfileOK
      <3>2. QED
        BY <1>2, <2>1, <3>1, ChangeIs
    <2>5. s \in TickState
      BY <2>4 DEF TickState
    <2> HIDE DEF s
    <2>6. TickOK(s) /\ \A l : Hands(s, l) => l0 = l
      BY <1>2, <2>3, <2>5, SameList
    <2>7. ASSUME NEW l \in DOMAIN links \ overlapped', l = l0 PROVE Alone(l)'
      <3>1. /\ l0 \in DOMAIN links \ overlapped
            /\ Alone(l0) /\ HandOK(r, l0) /\ snapshots[l0] \in Seq(Version)
            /\ \A u \in Ticks : Hands(tick[u], l0) => u = t
        BY <1>2, <1>3, <2>7
      <3>2. tick'[t] = s /\ \A u \in Ticks : Hands(tick'[u], l0) => u = t
        BY <2>2, <3>1 DEF IInv
      <3>3. HandOK(tick[t], l0)'
        <4>1. s.told = Change(Newest(snapshots[l0]), s.seen) /\ Newest(snapshots[l0]) # <<s.seen>>
          BY <1>2, <1>5, <2>1, <2>3, <3>1 DEF Latest, IInv, ProfileOK
        <4>2. \A i \in DOMAIN snapshots[l0] : snapshots[l0][i] <= s.seen
          BY <2>3, <3>1 DEF HandOK
        <4>3. QED
          BY <1>1, <2>3, <3>2, <4>1, <4>2 DEF HandOK
      <3>4. l0 \in lost \/ Tells(events[l0], snapshots[l0])
        BY <1>1, <3>1 DEF Alone
      <3>5. \A i \in 1..(Len(snapshots[l0]) - 1) : snapshots[l0][i] < snapshots[l0][i + 1]
        BY <3>1 DEF Alone
      <3>6. QED
        BY <1>1, <2>7, <3>2, <3>3, <3>4, <3>5 DEF Alone, Hands
    <2>8. QED
      BY <1>1, <1>2, <1>3, <2>2, <2>5, <2>6, <2>7, TickKeeps
  <1>6. QED
    BY <1>4, <1>5 DEF latestForLink, Goto

(* The snapshot is the newest, and the event that goes with it is still to come. *)
LEMMA InsertKeeps == ASSUME IInv, NEW t \in Ticks, insert(t) PROVE IInv'
  <1>1. /\ tick[t].pc = "insert" /\ Link(t) \in DOMAIN links
        /\ UNCHANGED <<table, links, lastLink, world, events, overlapped, lost>>
        /\ snapshots' = [snapshots EXCEPT ![Link(t)] = Append(snapshots[Link(t)], tick[t].seen)]
        /\ tick' = [tick EXCEPT ![t].pc = IF tick[t].told = <<>> THEN "touch" ELSE "append"]
    BY DEF insert, At, Goto, history, table
  <1>2. PICK r \in TickState, l0 \in Nat :
           /\ r = tick[t] /\ l0 = Link(t) /\ l0 = Head(r.todo).id /\ TickOK(r) /\ r.todo # <<>>
           /\ \A l : Hands(r, l) <=> l = l0
           /\ r.seen \in Version /\ r.seen <= world[Head(r.todo).character]
           /\ l0 \in DOMAIN links => links[l0].character = Head(r.todo).character
           /\ l0 \in DOMAIN links \ overlapped =>
                /\ Alone(l0) /\ HandOK(r, l0) /\ snapshots[l0] \in Seq(Version) /\ events[l0] \in Seq(Level \X Level)
                /\ \A u \in Ticks : Hands(tick[u], l0) => u = t
    BY <1>1, InHand
  <1> DEFINE x == r.seen
             old == snapshots[l0]
             new == Append(old, x)
  <1>3. l0 \in DOMAIN links /\ snapshots \in [DOMAIN links -> Seq(Version)] /\ old \in Seq(Version)
    BY <1>1, <1>2 DEF IInv, ProfileOK
  <1>4. /\ new \in Seq(Version) /\ Len(new) = Len(old) + 1 /\ Len(old) \in Nat
        /\ \A i \in 1..Len(old) : new[i] = old[i]
        /\ new[Len(old) + 1] = x
    BY <1>2, <1>3, AppendedAt
  <1>5. /\ snapshots' \in [DOMAIN links -> Seq(Version)] /\ snapshots'[l0] = new
        /\ \A l \in DOMAIN links \ {l0} : snapshots'[l] = snapshots[l]
    BY <1>1, <1>2, <1>3, <1>4
  <1> DEFINE s == [r EXCEPT !.pc = IF r.told = <<>> THEN "touch" ELSE "append"]
  <1>6. tick' = [tick EXCEPT ![t] = s]
    BY <1>1, <1>2
  <1>7. /\ s \in TickState /\ s.todo = r.todo /\ s.told = r.told /\ s.seen = r.seen
        /\ s.pc = IF r.told = <<>> THEN "touch" ELSE "append"
    BY DEF TickState
  <1> HIDE DEF s, new, old, x
  <1>8. TickOK(s) /\ \A l : Hands(s, l) => l0 = l
    BY <1>2, <1>7, SameList
  <1>9. ProfileOK'
    <2>1. \A i \in DOMAIN new : i \in 1..Len(old) \/ i = Len(old) + 1
      BY <1>4
    <2>2. x <= world[links[l0].character]
      BY <1>2, <1>3 DEF x
    <2>3. \A i \in 1..Len(old) : old[i] <= world[links[l0].character]
      BY <1>3 DEF IInv, ProfileOK, old
    <2>4. \A i \in DOMAIN new : new[i] <= world[links[l0].character]
      BY <1>4, <2>1, <2>2, <2>3
    <2>5. \A l \in DOMAIN links : \A i \in DOMAIN snapshots'[l] : snapshots'[l][i] <= world[links[l].character]
      BY <1>5, <2>4 DEF IInv, ProfileOK
    <2>6. QED
      BY <1>1, <1>5, <2>5 DEF IInv, ProfileOK
  <1>10. ASSUME NEW l \in DOMAIN links \ overlapped', l = l0 PROVE Alone(l)'
    <2>1. /\ Alone(l0) /\ HandOK(r, l0) /\ events[l0] \in Seq(Level \X Level)
          /\ \A u \in Ticks : Hands(tick[u], l0) => u = t
      BY <1>1, <1>2, <1>10
    <2>2. tick'[t] = s /\ \A u \in Ticks : Hands(tick'[u], l0) => u = t
      BY <1>6, <2>1 DEF IInv
    <2>3. r.pc = "insert" /\ r.told = Change(Newest(old), x) /\ Newest(old) # <<x>> /\ \A i \in 1..Len(old) : old[i] <= x
      <3>1. r.pc = "insert"
        BY <1>1, <1>2
      <3>2. DOMAIN old = 1..Len(old)
        BY <1>3
      <3>3. QED
        BY <2>1, <3>1, <3>2 DEF HandOK, old, x
    <2>4. l0 \in lost \/ Tells(events[l0], old)
      <3>1. \A u \in Ticks : Hands(tick[u], l0) => tick[u].pc = "insert"
        BY <1>1, <2>1
      <3>2. QED
        BY <2>1, <3>1 DEF Alone, old
    <2>5. ASSUME NEW i \in 1..(Len(new) - 1) PROVE new[i] < new[i + 1]
      <3>1. i \in 1..Len(old) /\ new[i] = old[i]
        BY <1>4
      <3>2. CASE i = Len(old)
        <4>1. Newest(old) = <<old[i]>> /\ old[i] <= x /\ old[i] # x
          BY <1>3, <2>3, <3>1, <3>2 DEF Newest
        <4>2. QED
          BY <1>2, <1>3, <1>4, <3>1, <3>2, <4>1, LevelsOf DEF x
      <3>3. CASE i # Len(old)
        <4>1. i \in 1..(Len(old) - 1) /\ i + 1 \in 1..Len(old)
          BY <1>4, <3>1, <3>3
        <4>2. old[i] < old[i + 1]
          BY <2>1, <4>1 DEF Alone, old
        <4>3. QED
          BY <1>4, <3>1, <4>1, <4>2
      <3>4. QED
        BY <3>2, <3>3
    <2>6. /\ r.told = <<>> => old = <<>> \/ LevelOf[old[Len(old)]] = LevelOf[x]
          /\ r.told # <<>> =>
               /\ old # <<>> /\ LevelOf[old[Len(old)]] # LevelOf[x]
               /\ <<LevelOf[old[Len(old)]], LevelOf[x]>> \in Level \X Level
               /\ r.told = <<<<LevelOf[old[Len(old)]], LevelOf[x]>>>>
      <3>1. x \in Version
        BY <1>2 DEF x
      <3>2. QED
        BY <1>3, <2>3, <3>1, ChangeIs
    <2>7. ASSUME r.told = <<>>, l0 \notin lost PROVE Tells(events[l0], new)
      <3>1. x \in Version
        BY <1>2 DEF x
      <3>2. QED
        BY <1>3, <2>4, <2>6, <2>7, <3>1, TellsSame DEF new
    <2>8. ASSUME r.told # <<>>, l0 \notin lost PROVE Tells(events[l0] \o r.told, new) /\ Len(r.told) = 1
      <3>1. PICK p \in Level \X Level : p = <<LevelOf[old[Len(old)]], LevelOf[x]>> /\ r.told = <<p>>
        BY <2>6, <2>8
      <3>2. x \in Version
        BY <1>2 DEF x
      <3>3. Tells(Append(events[l0], p), new)
        BY <1>3, <2>1, <2>4, <2>6, <2>8, <3>1, <3>2, TellsMore DEF new
      <3>4. events[l0] \o <<p>> = Append(events[l0], p) /\ Len(<<p>>) = 1
        BY <2>1
      <3>5. QED
        BY <3>1, <3>3, <3>4
    <2>9. ASSUME Hands(tick[t], l0)' PROVE HandOK(tick[t], l0)'
      <3>1. s.pc = "append" /\ r.told # <<>>
        BY <1>7, <2>2, <2>9 DEF Hands
      <3>2. \A i \in DOMAIN new : new[i] <= s.seen
        <4>1. \A i \in DOMAIN new : i \in 1..Len(old) \/ i = Len(old) + 1
          BY <1>4
        <4>2. s.seen = x /\ x <= x
          BY <1>2, <1>7, LevelsOf DEF x
        <4>3. QED
          BY <1>4, <2>3, <4>1, <4>2
      <3>3. QED
        BY <1>1, <1>5, <1>7, <2>2, <2>8, <3>1, <3>2 DEF HandOK
    <2>10. \/ l0 \in lost' \/ Tells(events'[l0], snapshots'[l0])
           \/ Hands(tick'[t], l0) /\ tick'[t].pc = "append"
      <3>1. CASE r.told = <<>>
        BY <1>1, <1>5, <2>7, <3>1
      <3>2. CASE r.told # <<>>
        <4>1. s.pc = "append" /\ Head(s.todo).id = l0
          BY <1>2, <1>7, <3>2
        <4>2. QED
          BY <2>2, <4>1 DEF Hands
      <3>3. QED
        BY <3>1, <3>2
    <2>11. \A i \in 1..(Len(snapshots'[l0]) - 1) : snapshots'[l0][i] < snapshots'[l0][i + 1]
      BY <1>5, <2>5
    <2>12. QED
      BY <1>10, <2>2, <2>9, <2>10, <2>11 DEF Alone, Hands
  <1>11. ASSUME NEW l \in DOMAIN links \ overlapped', l # l0
         PROVE  UNCHANGED snapshots[l] /\ ~Hands(s, l) /\ ~Hands(tick[t], l)
    BY <1>2, <1>5, <1>8, <1>11
  <1>12. QED
    BY <1>1, <1>6, <1>7, <1>8, <1>9, <1>10, <1>11, TickKeeps

(* With the event, everything the snapshots say has been told. *)
LEMMA AppendKeeps == ASSUME IInv, NEW t \in Ticks, append(t) PROVE IInv'
  <1>1. /\ tick[t].pc = "append"
        /\ UNCHANGED <<table, links, lastLink, world, snapshots, overlapped, lost>>
        /\ events' = IF Link(t) \in DOMAIN links
                     THEN [events EXCEPT ![Link(t)] = events[Link(t)] \o tick[t].told] ELSE events
        /\ tick' = [tick EXCEPT ![t].pc = "touch"]
    BY DEF append, At, Goto, history, profile, table
  <1>2. PICK r \in TickState, l0 \in Nat :
           /\ r = tick[t] /\ l0 = Link(t) /\ l0 = Head(r.todo).id /\ TickOK(r) /\ r.todo # <<>>
           /\ \A l : Hands(r, l) <=> l = l0
           /\ l0 \in DOMAIN links \ overlapped =>
                /\ Alone(l0) /\ HandOK(r, l0) /\ snapshots[l0] \in Seq(Version) /\ events[l0] \in Seq(Level \X Level)
                /\ \A u \in Ticks : Hands(tick[u], l0) => u = t
    BY <1>1, InHand
  <1> DEFINE s == [r EXCEPT !.pc = "touch"]
  <1>3. tick' = [tick EXCEPT ![t] = s]
    BY <1>1, <1>2
  <1>4. s \in TickState /\ s.todo = r.todo /\ s.pc = "touch" /\ r.told \in Seq(Level \X Level)
    BY DEF TickState
  <1> HIDE DEF s
  <1>5. TickOK(s) /\ \A l : ~Hands(s, l)
    BY <1>2, <1>4, SameList DEF Hands
  <1>6. events \in [1..MaxLinks -> Seq(Level \X Level)] /\ DOMAIN links \subseteq 1..MaxLinks
    BY DEF IInv, TableOK, ProfileOK
  <1>7. /\ events' \in [1..MaxLinks -> Seq(Level \X Level)]
        /\ \A l \in 1..MaxLinks : l # l0 => events'[l] = events[l]
        /\ l0 \in DOMAIN links => events'[l0] = events[l0] \o r.told
        /\ l0 \notin DOMAIN links => events' = events
    <2>1. CASE l0 \in DOMAIN links
      <3>1. events[l0] \o r.told \in Seq(Level \X Level)
        BY <1>4, <1>6, <2>1
      <3>2. events' = [events EXCEPT ![l0] = events[l0] \o r.told]
        BY <1>1, <1>2, <2>1
      <3>3. QED
        BY <1>6, <2>1, <3>1, <3>2
    <2>2. CASE l0 \notin DOMAIN links
      BY <1>1, <1>2, <1>6, <2>2
    <2>3. QED
      BY <2>1, <2>2
  <1>8. ProfileOK'
    BY <1>1, <1>6, <1>7 DEF IInv, ProfileOK
  <1>9. ASSUME NEW l \in DOMAIN links \ overlapped', l = l0 PROVE Alone(l)'
    <2>1. /\ Alone(l0) /\ HandOK(r, l0) /\ \A u \in Ticks : Hands(tick[u], l0) => u = t
      BY <1>1, <1>2, <1>9
    <2>2. \A u \in Ticks : ~Hands(tick'[u], l0)
      BY <1>3, <1>5, <2>1 DEF IInv
    <2>3. l0 \in lost \/ Tells(events'[l0], snapshots[l0])
      BY <1>1, <1>2, <1>7, <1>9, <2>1 DEF HandOK
    <2>4. \A i \in 1..(Len(snapshots[l0]) - 1) : snapshots[l0][i] < snapshots[l0][i + 1]
      BY <2>1 DEF Alone
    <2>5. QED
      BY <1>1, <1>9, <2>2, <2>3, <2>4 DEF Alone, Hands
  <1>10. ASSUME NEW l \in DOMAIN links \ overlapped', l # l0
         PROVE  UNCHANGED events[l] /\ ~Hands(tick[t], l)
    BY <1>2, <1>6, <1>7, <1>10
  <1>11. QED
    BY <1>1, <1>3, <1>4, <1>5, <1>8, <1>9, <1>10, TickKeeps

(* The tick is done with its link. *)
LEMMA TouchKeeps == ASSUME IInv, NEW t \in Ticks, touchSynced(t) PROVE IInv'
  <1>1. tick[t].pc = "touch" /\ NextLink(t) /\ UNCHANGED <<table, world, snapshots, events, overlapped, lost>>
    BY DEF touchSynced, At, history
  <1>2. PICK s \in TickState : tick' = [tick EXCEPT ![t] = s] /\ TickOK(s) /\ \A l : ~Hands(s, l)
    BY <1>1, NextHolds
  <1>3. ProfileOK'
    BY <1>1 DEF IInv, ProfileOK, table
  <1>4. QED
    BY <1>1, <1>2, <1>3, TickKeeps

LEMMA VanishedKeeps == ASSUME IInv, NEW t \in Ticks, vanished(t) PROVE IInv'
  <1>1. /\ tick[t].pc = "fetch" /\ tick' = [tick EXCEPT ![t].pc = "touch"]
        /\ UNCHANGED <<table, world, snapshots, events, overlapped, lost>>
    BY DEF vanished, At, Goto, profile, history
  <1>2. PICK r \in TickState : r = tick[t] /\ TickOK(r) /\ r.todo # <<>>
    BY <1>1, AtWork
  <1> DEFINE s == [r EXCEPT !.pc = "touch"]
  <1>3. tick' = [tick EXCEPT ![t] = s]
    BY <1>1, <1>2
  <1>4. s \in TickState /\ s.todo = r.todo /\ s.pc = "touch"
    BY DEF TickState
  <1> HIDE DEF s
  <1>5. TickOK(s) /\ \A l : ~Hands(s, l)
    BY <1>2, <1>4, SameList DEF Hands
  <1>6. ProfileOK'
    BY <1>1 DEF IInv, ProfileOK, table
  <1>7. QED
    BY <1>1, <1>3, <1>4, <1>5, <1>6, TickKeeps

(* A failure costs at most the event that was to be told, and that counts as lost. *)
LEMMA FailedKeeps == ASSUME IInv, NEW t \in Ticks, tick[t].pc # "idle", Failed(t) PROVE IInv'
  <1>1. /\ NextLink(t) /\ UNCHANGED <<table, world, snapshots, events, overlapped>>
        /\ lost' = IF tick[t].pc = "append" /\ Link(t) \in DOMAIN links THEN lost \cup {Link(t)} ELSE lost
    BY DEF Failed, At, profile
  <1>2. PICK s \in TickState : tick' = [tick EXCEPT ![t] = s] /\ TickOK(s) /\ \A l : ~Hands(s, l)
    BY <1>1, NextHolds
  <1>3. ProfileOK'
    BY <1>1 DEF IInv, ProfileOK, table
  <1>4. ASSUME NEW l \in DOMAIN links, Hands(tick[t], l), tick[t].pc = "append" PROVE l \in lost'
    BY <1>1, <1>4 DEF Hands, Link
  <1>5. \A l : l \notin lost' => l \notin lost
    BY <1>1
  <1>6. QED
    BY <1>1, <1>2, <1>3, <1>4, <1>5, TickKeeps

LEMMA FailuresKeep ==
  ASSUME IInv, NEW t \in Ticks, unreachable(t) \/ orphan(t) \/ fetchFails(t) \/ QueryFails(t)
  PROVE  IInv'
  <1>1. Failed(t) /\ tick[t].pc # "idle"
    BY DEF unreachable, orphan, fetchFails, QueryFails, At
  <1>2. QED
    BY <1>1, FailedKeeps

(* With a restart no tick is left, and the events under way are lost. *)
LEMMA RestartKeeps == ASSUME IInv, Restart PROVE IInv'
  <1>1. /\ tick' = [t \in Ticks |-> Idle] /\ UNCHANGED <<table, links, lastLink, world, snapshots, events, overlapped>>
        /\ lost' = lost \cup {l \in DOMAIN links : \E t \in Ticks : tick[t].pc = "append" /\ Link(t) = l}
    BY DEF Restart, At, profile, table
  <1>2. Idle \in TickState /\ Idle.pc = "idle" /\ Idle.todo = <<>>
    BY DEF Idle, TickState
  <1>3. TickOK(Idle)' /\ \A l : ~Hands(Idle, l)
    BY <1>2 DEF TickOK, Hands
  <1>4. TableOK' /\ ProfileOK'
    BY <1>1 DEF IInv, TableOK, ProfileOK
  <1>5. tick' \in [Ticks -> TickState] /\ \A t \in Ticks : tick'[t] = Idle
    BY <1>1, <1>2
  <1>6. \A t \in Ticks : TickOK(tick[t])'
    BY <1>3, <1>5 DEF TickOK
  <1>7. ASSUME NEW l \in DOMAIN links' \ overlapped' PROVE Alone(l)'
    <2>1. Alone(l) /\ l \in DOMAIN links
      BY <1>1, <1>7 DEF IInv
    <2>2. \A t \in Ticks : ~Hands(tick'[t], l)
      BY <1>3, <1>5
    <2>3. \A t \in Ticks : Hands(tick[t], l) /\ tick[t].pc = "append" => l \in lost'
      BY <1>1, <2>1 DEF Hands, Link
    <2>4. QED
      BY <1>1, <2>1, <2>2, <2>3, AloneKept
  <1>8. QED
    BY <1>4, <1>5, <1>6, <1>7 DEF IInv

-----------------------------------------------------------------------------
(* The players, and the time. *)

LEMMA PlayKeeps == ASSUME IInv, NEW c \in Characters, Play(c) PROVE IInv'
  <1>1. /\ world' = [world EXCEPT ![c] = world[c] + 1] /\ world[c] < Len(LevelOf)
        /\ UNCHANGED <<links, lastLink, snapshots, events, tick, overlapped, lost>>
    BY DEF Play, table, profile, history
  <1>2. world \in [Characters -> Version] /\ \A d \in Characters : world[d] \in Nat
    BY LevelsOf DEF IInv, ProfileOK
  <1>3. world[c] + 1 \in Version
    BY <1>1, <1>2, LevelsOf DEF Version
  <1>4. world' \in [Characters -> Version] /\ \A d \in Characters : world[d] <= world'[d] /\ world'[d] \in Nat
    BY <1>1, <1>2, <1>3
  <1>5. TableOK'
    BY <1>1 DEF IInv, TableOK
  <1>6. ProfileOK'
    <2>1. ASSUME NEW l \in DOMAIN links, NEW i \in DOMAIN snapshots[l]
          PROVE  snapshots[l][i] <= world'[links[l].character]
      <3>1. PICK d \in Characters : d = links[l].character
        BY DEF IInv, TableOK, LinkRow
      <3>2. snapshots[l][i] \in Nat /\ snapshots[l][i] <= world[d]
        <4>1. snapshots[l] \in Seq(Version) /\ snapshots[l][i] <= world[d]
          BY <3>1 DEF IInv, ProfileOK
        <4>2. snapshots[l][i] \in Version
          BY <4>1
        <4>3. QED
          BY <4>1, <4>2, LevelsOf
      <3>3. QED
        BY <1>2, <1>4, <3>1, <3>2
    <2>2. QED
      BY <1>1, <1>4, <2>1 DEF IInv, ProfileOK
  <1>7. \A l \in DOMAIN links' : l <= lastLink
    BY <1>1 DEF IInv, TableOK
  <1>8. lastLink <= lastLink'
    BY <1>1 DEF IInv, TableOK
  <1>9. QED
    BY <1>1, <1>4, <1>5, <1>6, <1>7, <1>8, TableKeeps

LEMMA ElapseKeeps == ASSUME IInv, NEW l \in recent, Elapse(l) PROVE IInv'
  <1>1. UNCHANGED <<links, lastLink, world, snapshots, events, tick, overlapped, lost>>
    BY DEF Elapse, table, history
  <1>2. TableOK' /\ ProfileOK' /\ lastLink <= lastLink' /\ \A k \in DOMAIN links' : k <= lastLink
    BY <1>1 DEF IInv, TableOK, ProfileOK
  <1>3. \A c \in Characters : world[c] <= world'[c]
    <2>1. \A c \in Characters : world[c] \in Nat
      BY LevelsOf DEF IInv, ProfileOK
    <2>2. QED
      BY <1>1, <2>1
  <1>4. QED
    BY <1>1, <1>2, <1>3, TableKeeps

(* A new link is one of which nothing has been seen or told. *)
LEMMA LinkedKeeps == ASSUME IInv, NEW u \in Users, NEW c \in Characters, Linked(u, c) PROVE IInv'
  <1>1. /\ lastLink' = lastLink + 1 /\ lastLink < MaxLinks
        /\ UNCHANGED <<world, events, tick, overlapped, lost>>
        /\ snapshots' = [l \in DOMAIN links' |-> IF l = lastLink' THEN <<>> ELSE snapshots[l]]
        /\ \E main \in BOOLEAN :
             links' = [l \in DOMAIN links \cup {lastLink'} |->
                         IF l = lastLink' THEN [user |-> u, character |-> c, main |-> main, verified |-> FALSE]
                         ELSE links[l]]
    BY DEF Linked, Insert, history
  <1>2. PICK row \in LinkRow : links' = [l \in DOMAIN links \cup {lastLink'} |-> IF l = lastLink' THEN row ELSE links[l]]
    <2>1. PICK main \in BOOLEAN :
             links' = [l \in DOMAIN links \cup {lastLink'} |->
                         IF l = lastLink' THEN [user |-> u, character |-> c, main |-> main, verified |-> FALSE]
                         ELSE links[l]]
      BY <1>1
    <2>2. [user |-> u, character |-> c, main |-> main, verified |-> FALSE] \in LinkRow
      BY DEF LinkRow
    <2>3. QED
      BY <2>1, <2>2
  <1>3. /\ lastLink \in Nat /\ MaxLinks \in Nat /\ links \in [DOMAIN links -> LinkRow]
        /\ \A l \in DOMAIN links : l \in 1..MaxLinks /\ l <= lastLink
    BY SyncAssumption DEF IInv, TableOK
  <1>4. /\ lastLink' \in 1..MaxLinks /\ lastLink <= lastLink' /\ lastLink' \notin DOMAIN links
        /\ \A l \in DOMAIN links : l \in 1..MaxLinks /\ l <= lastLink'
    BY <1>1, <1>3
  <1>5. /\ DOMAIN links' = DOMAIN links \cup {lastLink'} /\ links' \in [DOMAIN links' -> LinkRow]
        /\ links'[lastLink'] = row /\ \A l \in DOMAIN links : links'[l] = links[l]
    BY <1>2, <1>3, <1>4
  <1>6. TableOK'
    <2>1. lastLink' \in Nat /\ lastLink' <= lastLink'
      BY <1>1, <1>3
    <2>2. \A l \in DOMAIN links' : l \in 1..MaxLinks /\ l <= lastLink'
      BY <1>4, <1>5, <2>1
    <2>3. QED
      BY <1>5, <2>1, <2>2 DEF TableOK
  <1>7. /\ snapshots' \in [DOMAIN links' -> Seq(Version)] /\ snapshots'[lastLink'] = <<>>
        /\ \A l \in DOMAIN links : snapshots'[l] = snapshots[l]
    <2>1. <<>> \in Seq(Version) /\ snapshots \in [DOMAIN links -> Seq(Version)]
      BY EmptySeq DEF IInv, ProfileOK
    <2>2. QED
      BY <1>1, <1>4, <1>5, <2>1
  <1>8. ProfileOK'
    <2>1. ASSUME NEW l \in DOMAIN links', NEW i \in DOMAIN snapshots'[l]
          PROVE  snapshots'[l][i] <= world[links'[l].character]
      <3>1. DOMAIN snapshots'[lastLink'] = {}
        BY <1>7
      <3>2. l \in DOMAIN links
        BY <1>5, <2>1, <3>1
      <3>3. QED
        BY <1>5, <1>7, <3>2 DEF IInv, ProfileOK
    <2>2. \A l \in 1..MaxLinks \ DOMAIN links' : events[l] = <<>>
      BY <1>5 DEF IInv, ProfileOK
    <2>3. QED
      BY <1>1, <1>7, <2>1, <2>2 DEF IInv, ProfileOK
  <1>9. ASSUME NEW l \in DOMAIN links', ~(l <= lastLink) PROVE snapshots'[l] = <<>> /\ events'[l] = <<>>
    <2>1. l = lastLink'
      BY <1>3, <1>5, <1>9
    <2>2. QED
      BY <1>1, <1>4, <1>7, <2>1 DEF IInv, ProfileOK
  <1>10. ASSUME NEW l \in DOMAIN links', l <= lastLink
         PROVE  l \in DOMAIN links /\ links'[l].character = links[l].character /\ UNCHANGED <<snapshots[l], events[l]>>
    <2>1. l \in DOMAIN links
      BY <1>1, <1>3, <1>5, <1>10
    <2>2. QED
      BY <1>1, <1>5, <1>7, <2>1
  <1>11. \A d \in Characters : world[d] <= world'[d]
    <2>1. \A d \in Characters : world[d] \in Nat
      BY LevelsOf DEF IInv, ProfileOK
    <2>2. QED
      BY <1>1, <2>1
  <1>12. QED
    BY <1>1, <1>4, <1>6, <1>8, <1>9, <1>10, <1>11, TableKeeps

LEMMA VerifiedKeeps == ASSUME IInv, NEW l \in DOMAIN links, NowVerified(l) PROVE IInv'
  <1> DEFINE row == [links[l] EXCEPT !.verified = TRUE]
  <1>1. links' = [links EXCEPT ![l] = row] /\ UNCHANGED <<lastLink, world, snapshots, events, tick, overlapped, lost>>
    BY DEF NowVerified, Verify, profile, history
  <1>2. links \in [DOMAIN links -> LinkRow] /\ lastLink \in Nat /\ \A k \in DOMAIN links : k <= lastLink
    BY DEF IInv, TableOK
  <1>3. row \in LinkRow /\ row.character = links[l].character
    BY <1>2 DEF LinkRow
  <1> HIDE DEF row
  <1>4. /\ DOMAIN links' = DOMAIN links /\ links' \in [DOMAIN links' -> LinkRow]
        /\ \A k \in DOMAIN links : links'[k].character = links[k].character
    <2>1. DOMAIN links' = DOMAIN links /\ \A k \in DOMAIN links : links'[k] = IF k = l THEN row ELSE links[k]
      BY <1>1
    <2>2. links' \in [DOMAIN links -> LinkRow]
      BY <1>1, <1>2, <1>3
    <2>3. QED
      BY <1>3, <2>1, <2>2
  <1>5. TableOK' /\ ProfileOK' /\ lastLink <= lastLink'
    BY <1>1, <1>4 DEF IInv, TableOK, ProfileOK
  <1>6. \A c \in Characters : world[c] <= world'[c]
    <2>1. \A c \in Characters : world[c] \in Nat
      BY LevelsOf DEF IInv, ProfileOK
    <2>2. QED
      BY <1>1, <2>1
  <1>7. QED
    BY <1>1, <1>2, <1>4, <1>5, <1>6, TableKeeps

(* What was seen and told of a link goes with it. *)
LEMMA RemovedKeeps == ASSUME IInv, NEW S, Removed(S) PROVE IInv'
  <1>1. /\ links' = [l \in DOMAIN links \ S |-> links[l]]
        /\ snapshots' = [l \in DOMAIN snapshots \ S |-> snapshots[l]]
        /\ events' = [l \in 1..MaxLinks |-> IF l \in S THEN <<>> ELSE events[l]]
        /\ overlapped' = overlapped \ S /\ lost' = lost \ S /\ UNCHANGED <<lastLink, world, tick>>
    BY DEF Removed, Delete, Without
  <1>2. /\ links \in [DOMAIN links -> LinkRow] /\ lastLink \in Nat
        /\ \A k \in DOMAIN links : k \in 1..MaxLinks /\ k <= lastLink
        /\ snapshots \in [DOMAIN links -> Seq(Version)] /\ events \in [1..MaxLinks -> Seq(Level \X Level)]
    BY DEF IInv, TableOK, ProfileOK
  <1>3. /\ DOMAIN links' = DOMAIN links \ S /\ links' \in [DOMAIN links' -> LinkRow]
        /\ \A k \in DOMAIN links' : k \in DOMAIN links /\ k \notin S /\ links'[k] = links[k]
    BY <1>1, <1>2
  <1>4. TableOK' /\ lastLink <= lastLink'
    BY <1>1, <1>2, <1>3 DEF TableOK
  <1>5. /\ snapshots' \in [DOMAIN links' -> Seq(Version)]
        /\ \A k \in DOMAIN links' : snapshots'[k] = snapshots[k] /\ events'[k] = events[k]
    BY <1>1, <1>2, <1>3
  <1>6. events' \in [1..MaxLinks -> Seq(Level \X Level)] /\ \A k \in 1..MaxLinks \ DOMAIN links' : events'[k] = <<>>
    <2>1. <<>> \in Seq(Level \X Level)
      BY EmptySeq
    <2>2. \A k \in 1..MaxLinks \ DOMAIN links' : k \in S \/ k \notin DOMAIN links
      BY <1>3
    <2>3. \A k \in 1..MaxLinks \ DOMAIN links : events[k] = <<>>
      BY DEF IInv, ProfileOK
    <2>4. QED
      BY <1>1, <1>2, <2>1, <2>2, <2>3
  <1>7. ProfileOK'
    BY <1>1, <1>3, <1>5, <1>6 DEF IInv, ProfileOK
  <1>8. \A c \in Characters : world[c] <= world'[c]
    <2>1. \A c \in Characters : world[c] \in Nat
      BY LevelsOf DEF IInv, ProfileOK
    <2>2. QED
      BY <1>1, <2>1
  <1>9. \A k \in DOMAIN links' : k <= lastLink /\ (k \notin overlapped' => k \notin overlapped) /\ (k \notin lost' => k \notin lost)
    BY <1>1, <1>2, <1>3
  <1>10. QED
    BY <1>1, <1>3, <1>4, <1>5, <1>7, <1>8, <1>9, TableKeeps

LEMMA PlayersKeep == ASSUME IInv, Players \/ Time PROVE IInv'
  <1>1. ASSUME NEW u \in Users, Removed(Of(u)) PROVE IInv'
    <2>1. PICK S : S = Of(u)
      OBVIOUS
    <2>2. Removed(S)
      BY <1>1, <2>1 DEF Removed, Delete, Without
    <2>3. QED
      BY <2>2, RemovedKeeps
  <1>2. ASSUME NEW u \in Users, NEW l \in Of(u), Removed({l}) PROVE IInv'
    <2>1. PICK S : S = {l}
      OBVIOUS
    <2>2. Removed(S)
      BY <1>2, <2>1 DEF Removed, Delete, Without
    <2>3. QED
      BY <2>2, RemovedKeeps
  <1>3. QED
    BY <1>1, <1>2, PlayKeeps, LinkedKeeps, VerifiedKeeps, ElapseKeeps DEF Players, Time

-----------------------------------------------------------------------------
LEMMA Begins == Init => IInv
  <1> SUFFICES ASSUME Init PROVE IInv
    OBVIOUS
  <1>1. /\ links = <<>> /\ lastLink = 0 /\ DOMAIN links = {} /\ snapshots = <<>>
        /\ world = [c \in Characters |-> 1] /\ tick = [t \in Ticks |-> Idle]
        /\ events = [l \in 1..MaxLinks |-> <<>>]
    BY DEF Init, TableInit
  <1>2. links \in [{} -> LinkRow] /\ snapshots \in [{} -> Seq(Version)]
    BY <1>1
  <1>3. <<>> \in Seq(Level \X Level) /\ 1 \in Version
    BY EmptySeq, LevelsOf
  <1>4. TableOK
    BY <1>1, <1>2 DEF TableOK
  <1>5. ProfileOK
    BY <1>1, <1>2, <1>3 DEF ProfileOK
  <1>6. Idle \in TickState /\ Idle.pc = "idle" /\ Idle.todo = <<>>
    BY DEF Idle, TickState
  <1>7. TickOK(Idle)
    BY <1>6 DEF TickOK
  <1>8. QED
    BY <1>1, <1>4, <1>5, <1>6, <1>7 DEF IInv

LEMMA Keeps == IInv /\ [Next]_vars => IInv'
  <1> SUFFICES ASSUME IInv, [Next]_vars PROVE IInv'
    OBVIOUS
  <1>1. CASE UNCHANGED vars
    <2>1. UNCHANGED <<links, lastLink, world, snapshots, events, tick, overlapped, lost>>
      BY <1>1 DEF vars, table, profile, history
    <2>2. TableOK' /\ ProfileOK' /\ lastLink <= lastLink' /\ \A k \in DOMAIN links' : k <= lastLink
      BY <2>1 DEF IInv, TableOK, ProfileOK
    <2>3. \A c \in Characters : world[c] <= world'[c]
      <3>1. \A c \in Characters : world[c] \in Nat
        BY LevelsOf DEF IInv, ProfileOK
      <3>2. QED
        BY <2>1, <3>1
    <2>4. QED
      BY <2>1, <2>2, <2>3, TableKeeps
  <1>2. ASSUME NEW t \in Ticks, Step(t) PROVE IInv'
    BY <1>2, findDueKeeps, FetchKeeps, LatestKeeps, InsertKeeps, AppendKeeps, TouchKeeps, FailuresKeep DEF Step
  <1>3. CASE Outage
    BY <1>3, VanishedKeeps, FailuresKeep, RestartKeeps DEF Outage
  <1>4. QED
    BY <1>1, <1>2, <1>3, PlayersKeep DEF Next, Work

(* The event under way is the one that is missing. *)
LEMMA InvImplies == IInv => EventsMatchSnapshots
  <1> SUFFICES ASSUME IInv, NEW l \in DOMAIN links \ (overlapped \cup lost)
               PROVE  /\ \/ Tells(events[l], snapshots[l])
                         \/ \E p \in Pending(l) : Tells(Append(events[l], p), snapshots[l])
                      /\ \A i \in 1..(Len(snapshots[l]) - 1) : snapshots[l][i] < snapshots[l][i + 1]
    BY DEF EventsMatchSnapshots
  <1>1. Alone(l) /\ l \notin lost /\ l \in 1..MaxLinks
    BY DEF IInv, TableOK
  <1>2. snapshots[l] \in Seq(Version) /\ events[l] \in Seq(Level \X Level)
    BY <1>1 DEF IInv, ProfileOK
  <1>3. \A i \in 1..(Len(snapshots[l]) - 1) : snapshots[l][i] < snapshots[l][i + 1]
    BY <1>1 DEF Alone
  <1>4. ASSUME NEW t \in Ticks, Hands(tick[t], l), tick[t].pc = "append"
        PROVE  \E p \in Pending(l) : Tells(Append(events[l], p), snapshots[l])
    <2>1. PICK r \in TickState : r = tick[t]
      BY DEF IInv
    <2>2. Tells(events[l] \o r.told, snapshots[l]) /\ Len(r.told) = 1 /\ r.told \in Seq(Level \X Level)
      BY <1>1, <1>4, <2>1 DEF Alone, HandOK, TickState
    <2>3. PICK p : p = r.told[1] /\ r.told = <<p>>
      BY <2>2
    <2>4. events[l] \o r.told = Append(events[l], p)
      BY <1>2, <2>2, <2>3
    <2>5. p \in ToSet(tick[t].told)
      BY <2>1, <2>2, <2>3 DEF ToSet
    <2>6. t \in {u \in Ticks : At(u, "append") /\ Link(u) = l}
      BY <1>4 DEF At, Link, Hands
    <2>7. p \in Pending(l)
      BY <2>5, <2>6 DEF Pending
    <2>8. QED
      BY <2>2, <2>4, <2>7
  <1>5. QED
    BY <1>1, <1>3, <1>4 DEF Alone

(* However ticks overlap, links come and go and calls fail: memory is told of the changes from   *)
(* snapshot to snapshot of a link, each once and in order, and snapshots only get newer, but for  *)
(* the links two ticks had in hand at once and those one of whose events was lost                 *)
(* (profileSyncService.ts:55-82).                                                                *)
THEOREM EventsAreTheChanges == Spec => []EventsMatchSnapshots
  <1>1. Init => IInv
    BY Begins
  <1>2. IInv /\ [Next]_vars => IInv'
    BY Keeps
  <1>3. IInv => EventsMatchSnapshots
    BY InvImplies
  <1>4. QED
    BY <1>1, <1>2, <1>3, PTL DEF Spec
=============================================================================
