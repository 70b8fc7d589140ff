---------------------------- MODULE Links_proofs ----------------------------
(***************************************************************************)
(* Proofs about Links, for any users, characters, overlapping commands,    *)
(* caps, trades and new names, and with every statement and call failing   *)
(* at will: a verified user has owned the character, who is told of a      *)
(* verification has it, who adds in turn stays within the cap, and the     *)
(* commands together implement LinkTable.                                  *)
(***************************************************************************)
EXTENDS Links, Integers, FiniteSets, FiniteSetTheorems, TLAPS

(* How many there can be: what one step adds to a finite set and takes from it. *)

(* A part of a finite set is finite and no larger. *)
LEMMA PartOf ==
  ASSUME NEW S, IsFiniteSet(S), NEW T, T \subseteq S
  PROVE  /\ IsFiniteSet(T) /\ Cardinality(T) \in Nat
         /\ Cardinality(S) \in Nat /\ Cardinality(T) <= Cardinality(S)
  <1>1. IsFiniteSet(T) /\ Cardinality(T) <= Cardinality(S)
    BY FS_Subset
  <1>2. QED
    BY <1>1, FS_CardinalityType

(* What gains at most one element counts at most one more. *)
LEMMA OneMore ==
  ASSUME NEW S, IsFiniteSet(S), NEW x, NEW T, T \subseteq S \cup {x}
  PROVE  /\ IsFiniteSet(T) /\ Cardinality(T) \in Nat
         /\ Cardinality(S) \in Nat /\ Cardinality(T) <= Cardinality(S) + 1
  <1>1. /\ IsFiniteSet(S \cup {x})
        /\ Cardinality(S \cup {x}) = IF x \in S THEN Cardinality(S) ELSE Cardinality(S) + 1
    BY FS_AddElement
  <1>2. Cardinality(S) \in Nat
    BY FS_CardinalityType
  <1>3. /\ IsFiniteSet(T) /\ Cardinality(T) \in Nat
        /\ Cardinality(T) <= Cardinality(S \cup {x})
    BY <1>1, PartOf
  <1>4. QED
    BY <1>1, <1>2, <1>3

(* What loses an element counts one less. *)
LEMMA OneLess ==
  ASSUME NEW S, IsFiniteSet(S), NEW x \in S, NEW T, T \subseteq S \ {x}
  PROVE  /\ IsFiniteSet(T) /\ Cardinality(T) \in Nat
         /\ Cardinality(S) \in Nat /\ Cardinality(T) <= Cardinality(S) - 1
  <1>1. /\ IsFiniteSet(S \ {x})
        /\ Cardinality(S \ {x}) = Cardinality(S) - 1
    BY FS_RemoveElement
  <1>2. Cardinality(S) \in Nat
    BY FS_CardinalityType
  <1>3. /\ IsFiniteSet(T) /\ Cardinality(T) \in Nat
        /\ Cardinality(T) <= Cardinality(S \ {x})
    BY <1>1, PartOf
  <1>4. QED
    BY <1>1, <1>2, <1>3

-----------------------------------------------------------------------------

Pcs == {"none", "count", "fetch", "recount", "upsert", "comment", "mark", "verified"}
Link == [user : Users, character : Characters, main : BOOLEAN, verified : BOOLEAN]
RunningCommand == [pc : Pcs, user : Users, character : Characters, existing : BOOLEAN, main : BOOLEAN,
                   code : Nat, disturbed : BOOLEAN]

TypeInv ==
    /\ links \in [DOMAIN links -> Link]
    /\ lastLink \in Nat /\ DOMAIN links \subseteq 1..lastLink
    /\ lastCode \in Nat
    /\ codes \in [DOMAIN links -> 0..lastCode]
    /\ name \in [Avatars -> Characters] /\ \A a \in Avatars : AvatarOf[name[a]] = a
    /\ known \subseteq Characters
    /\ issued \in [1..lastCode -> Users \X Avatars]
    /\ comment \in [Avatars -> 0..lastCode]
    /\ owner \in [Avatars -> Users]
    /\ owned \in [Avatars -> SUBSET Users]
    /\ command \in [Commands -> RunningCommand \cup {NoCommand}]

IssuedTo(code, u, a) == code \in 1..lastCode /\ issued[code] = <<u, a>>

(* A comment holds nothing, or a code issued to somebody who has owned the avatar. *)
CommentSound(a) ==
    /\ owner[a] \in owned[a]
    /\ comment[a] # 0 => \E u \in owned[a] : IssuedTo(comment[a], u, a)

(* The code of an unverified link was issued for its avatar. *)
LinkSound(l) ==
    IF links[l].verified THEN links[l].user \in owned[AvatarOf[links[l].character]]
    ELSE IssuedTo(codes[l], links[l].user, AvatarOf[links[l].character])

(* A user links a name once. *)
OneLinkEach ==
    \A k, l \in DOMAIN links : links[k].user = links[l].user /\ links[k].character = links[l].character => k = l

(* What a command has read holds when it acts on it, whatever happened to the link. *)
CommandSound(m) ==
    /\ m.pc = "comment" => IssuedTo(m.code, m.user, AvatarOf[m.character])
    /\ m.pc \in {"mark", "verified"} => m.user \in owned[AvatarOf[m.character]]
    /\ m.pc \in {"comment", "mark"} /\ ~m.disturbed => LinkOf(m.user, m.character) # {}
    /\ m.pc = "verified" /\ ~m.disturbed => LinkOf(m.user, m.character) \cap Verified # {}

IInv ==
    /\ TypeInv
    /\ \A a \in Avatars : CommentSound(a)
    /\ \A l \in DOMAIN links : LinkSound(l)
    /\ OneLinkEach
    /\ \A w \in Commands : CommandSound(command[w])

(* Every name leads to an avatar. *)
LEMMA OfAnAvatar == \A c \in Characters : AvatarOf[c] \in Avatars
  BY LinksAssumption

-----------------------------------------------------------------------------
LEMMA InitSound == Init => IInv /\ TableInit
  <1> SUFFICES ASSUME Init PROVE IInv /\ TableInit
    OBVIOUS
  <1>1. DOMAIN links = {} /\ links \in [{} -> Link] /\ codes \in [{} -> 0..lastCode] /\ lastLink = 0
    BY DEF Init, TableInit
  <1>2. issued \in [1..lastCode -> Users \X Avatars]
    BY DEF Init
  <1>3. TypeInv
    BY <1>1, <1>2 DEF TypeInv, Init
  <1>4. \A w \in Commands : CommandSound(command[w])
    BY DEF Init, CommandSound, NoCommand
  <1>5. QED
    BY <1>1, <1>3, <1>4 DEF IInv, Init, CommentSound, OneLinkEach

(* A command that only reads and goes on, with what is sound. *)
LEMMA ReadKeeps ==
  ASSUME IInv, NEW w \in Commands, Reads, NEW m \in RunningCommand \cup {NoCommand}, CommandSound(m),
         command' = [command EXCEPT ![w] = m]
  PROVE  IInv'
  <1> USE DEF Reads, table, world
  <1>1. TypeInv'
    BY DEF IInv, TypeInv
  <1>2. \A a \in Avatars : CommentSound(a)'
    BY DEF IInv, CommentSound, IssuedTo
  <1>3. \A l \in DOMAIN links' : LinkSound(l)'
    BY DEF IInv, LinkSound, IssuedTo
  <1>4. \A v \in Commands : CommandSound(command[v])'
    <2> SUFFICES ASSUME NEW v \in Commands PROVE CommandSound(command[v])'
      OBVIOUS
    <2>1. CommandSound(command'[v])
      BY DEF IInv, TypeInv
    <2>2. QED
      BY <2>1 DEF CommandSound, IssuedTo, LinkOf, Of, Verified
  <1>5. QED
    BY <1>1, <1>2, <1>3, <1>4 DEF IInv, OneLinkEach

LEMMA EndKeeps == ASSUME IInv, NEW w \in Commands, Reads, End(w) PROVE IInv'
  <1>1. NoCommand.pc = "none"
    BY DEF NoCommand
  <1>2. CommandSound(NoCommand)
    BY <1>1 DEF CommandSound
  <1>3. QED
    BY <1>2, ReadKeeps DEF End

(* To a step at which nothing is claimed. *)
Quiet == {"count", "fetch", "recount", "upsert"}

LEMMA GotoKeeps ==
  ASSUME IInv, NEW w \in Commands, command[w].pc # "none", NEW pc \in Quiet, Reads, Goto(w, pc)
  PROVE  IInv'
  <1> DEFINE m == [command[w] EXCEPT !.pc = pc]
  <1>1. command[w] \in RunningCommand
    BY DEF IInv, TypeInv, NoCommand
  <1>2. m \in RunningCommand /\ m.pc = pc
    BY <1>1 DEF RunningCommand, Quiet, Pcs
  <1>3. CommandSound(m)
    BY <1>2 DEF CommandSound, Quiet
  <1>4. command' = [command EXCEPT ![w] = m]
    BY DEF Goto
  <1>5. QED
    BY <1>2, <1>3, <1>4, ReadKeeps

-----------------------------------------------------------------------------
LEMMA AddKeeps == ASSUME IInv, NEW w \in Commands, NEW u \in Users, NEW c \in Characters, add(w, u, c) PROVE IInv'
  <1> DEFINE pc == IF LinkOf(u, c) = {} THEN "count" ELSE "fetch"
             m == [Command(pc, u, c) EXCEPT !.existing = LinkOf(u, c) # {}]
  <1>1. m \in RunningCommand /\ m.pc \in Quiet
    BY DEF RunningCommand, Command, Quiet, Pcs
  <1>2. CommandSound(m)
    BY <1>1 DEF CommandSound, Quiet
  <1>3. command' = [command EXCEPT ![w] = m] /\ Reads
    BY DEF add
  <1>4. QED
    BY <1>1, <1>2, <1>3, ReadKeeps

LEMMA VerifyKeeps == ASSUME IInv, NEW w \in Commands, NEW u \in Users, NEW c \in Characters, verify(w, u, c) PROVE IInv'
  <1>1. PICK l \in LinkOf(u, c) \ Verified :
           command' = [command EXCEPT ![w] = [Command("comment", u, c) EXCEPT !.code = codes[l]]]
    BY DEF verify
  <1> DEFINE m == [Command("comment", u, c) EXCEPT !.code = codes[l]]
  <1>2. l \in DOMAIN links /\ links[l].user = u /\ links[l].character = c /\ ~links[l].verified
    BY DEF LinkOf, Of, Verified
  <1>3. codes[l] \in Nat /\ IssuedTo(codes[l], u, AvatarOf[c])
    BY <1>2 DEF IInv, TypeInv, LinkSound
  <1>4. /\ m \in RunningCommand /\ m.pc = "comment"
        /\ m.user = u /\ m.character = c /\ m.code = codes[l]
    BY <1>3 DEF RunningCommand, Command, Pcs
  <1>5. CommandSound(m)
    BY <1>3, <1>4 DEF CommandSound
  <1>6. QED
    BY <1>1, <1>4, <1>5, ReadKeeps DEF verify

LEMMA CountKeeps == ASSUME IInv, NEW w \in Commands, countForUser(w) PROVE IInv'
  BY EndKeeps, GotoKeeps DEF countForUser, At, Quiet

LEMMA CharacterKeeps == ASSUME IInv, NEW w \in Commands, getCharacter(w) PROVE IInv'
  <1>1. CASE Character(w) \notin known
    BY <1>1, EndKeeps DEF getCharacter
  <1>2. CASE Character(w) \in known
    <2> DEFINE m == [command[w] EXCEPT !.pc = IF command[w].existing THEN "upsert" ELSE "recount",
                                       !.character = name[Avatar(w)]]
    <2>1. command[w] \in RunningCommand
      BY DEF IInv, TypeInv, NoCommand, getCharacter, At
    <2>2. name[Avatar(w)] \in Characters
      BY <2>1, OfAnAvatar DEF IInv, TypeInv, Avatar, Character, RunningCommand
    <2>3. m \in RunningCommand /\ m.pc \in Quiet
      BY <2>1, <2>2 DEF RunningCommand, Pcs, Quiet
    <2>4. CommandSound(m)
      BY <2>3 DEF CommandSound, Quiet
    <2>5. command' = [command EXCEPT ![w] = m] /\ Reads
      BY <1>2 DEF getCharacter
    <2>6. QED
      BY <2>3, <2>4, <2>5, ReadKeeps
  <1>3. QED
    BY <1>1, <1>2

LEMMA RecountKeeps == ASSUME IInv, NEW w \in Commands, recount(w) PROVE IInv'
  <1> DEFINE m == [command[w] EXCEPT !.pc = "upsert", !.main = (Of(User(w)) = {})]
  <1>1. command[w] \in RunningCommand
    BY DEF IInv, TypeInv, NoCommand, recount, At
  <1>2. m \in RunningCommand /\ m.pc = "upsert"
    BY <1>1 DEF RunningCommand, Pcs
  <1>3. CommandSound(m)
    BY <1>2 DEF CommandSound
  <1>4. command' = [command EXCEPT ![w] = m] /\ Reads
    BY DEF recount
  <1>5. QED
    BY <1>2, <1>3, <1>4, ReadKeeps

(* The comment holds the code: whoever put it there has owned the character and is the one it was issued to. *)
LEMMA CommentKeeps == ASSUME IInv, NEW w \in Commands, getComment(w) PROVE IInv'
  <1>1. CASE comment[Avatar(w)] # command[w].code
    BY <1>1, EndKeeps DEF getComment
  <1>2. CASE comment[Avatar(w)] = command[w].code
    <2> DEFINE m == [command[w] EXCEPT !.pc = "mark"]
    <2>1. command[w] \in RunningCommand /\ command[w].pc = "comment"
      BY DEF IInv, TypeInv, NoCommand, getComment, At
    <2>2. /\ m \in RunningCommand /\ m.pc = "mark"
          /\ m.user = User(w) /\ m.character = Character(w) /\ m.disturbed = command[w].disturbed
      BY <2>1 DEF RunningCommand, Pcs, User, Character
    <2>3. User(w) \in Users /\ Character(w) \in Characters /\ CommandSound(command[w]) /\ CommentSound(Avatar(w))
      BY <2>1, OfAnAvatar DEF IInv, RunningCommand, User, Character, Avatar
    <2>4. IssuedTo(command[w].code, User(w), Avatar(w))
      BY <2>1, <2>3 DEF CommandSound, User, Character, Avatar
    <2>5. comment[Avatar(w)] # 0
      BY <1>2, <2>4 DEF IssuedTo
    <2>6. PICK u \in owned[Avatar(w)] : IssuedTo(comment[Avatar(w)], u, Avatar(w))
      BY <2>3, <2>5 DEF CommentSound
    <2>7. u = User(w)
      BY <1>2, <2>4, <2>6 DEF IssuedTo
    <2>8. ~command[w].disturbed => LinkOf(User(w), Character(w)) # {}
      BY <2>1, <2>3 DEF CommandSound, User, Character
    <2>9. CommandSound(m)
      BY <2>2, <2>6, <2>7, <2>8 DEF CommandSound, Avatar
    <2>10. QED
      BY <1>2, <2>2, <2>9, ReadKeeps DEF getComment, Goto
  <1>3. QED
    BY <1>1, <1>2

LEMMA FailsKeeps == ASSUME IInv, NEW w \in Commands, CommandFails(w) \/ reply(w) PROVE IInv'
  BY EndKeeps DEF CommandFails, reply

-----------------------------------------------------------------------------
(* The writes. *)

(* A new code: the old ones stay issued to whom they were. *)
LEMMA CodeKeeps ==
  ASSUME IInv, NEW w \in Commands, command[w] \in RunningCommand, NewCode(w), UNCHANGED world
  PROVE  /\ lastCode' \in Nat /\ issued' \in [1..lastCode' -> Users \X Avatars]
         /\ lastCode' = lastCode + 1
         /\ \A code, u, c : IssuedTo(code, u, c) => IssuedTo(code, u, c)'
         /\ lastCode' \in 1..lastCode' /\ issued'[lastCode'] = <<User(w), Avatar(w)>>
         /\ \A a \in Avatars : CommentSound(a)'
  <1>1. User(w) \in Users /\ Avatar(w) \in Avatars
    BY OfAnAvatar DEF User, Character, Avatar, RunningCommand
  <1>2. lastCode' = lastCode + 1 /\ lastCode' \in Nat
    BY DEF NewCode, IInv, TypeInv
  <1>3. issued' \in [1..lastCode' -> Users \X Avatars]
    BY <1>1, <1>2 DEF NewCode, IInv, TypeInv
  <1>4. \A code \in 1..lastCode : code \in 1..lastCode' /\ issued'[code] = issued[code]
    BY <1>2 DEF NewCode, IInv, TypeInv
  <1>5. \A code, u, c : IssuedTo(code, u, c) => IssuedTo(code, u, c)'
    BY <1>4 DEF IssuedTo
  <1>6. issued'[lastCode'] = <<User(w), Avatar(w)>> /\ lastCode' \in 1..lastCode'
    BY <1>2 DEF NewCode, IInv, TypeInv
  <1>8. ASSUME NEW a \in Avatars PROVE CommentSound(a)'
    <2>1. CommentSound(a)
      BY DEF IInv
    <2>2. QED
      BY <1>5, <2>1 DEF CommentSound, world
  <1>9. QED
    BY <1>2, <1>3, <1>5, <1>6, <1>8

(* The other commands, while links are added or verified and codes issued. *)
LEMMA OthersKeep ==
  ASSUME IInv, NEW w \in Commands, \A v \in Commands \ {w} : command'[v] = command[v], UNCHANGED owned,
         \A code, u, c : IssuedTo(code, u, c) => IssuedTo(code, u, c)',
         \A l \in DOMAIN links : /\ l \in DOMAIN links' /\ links'[l].user = links[l].user
                                 /\ links'[l].character = links[l].character
                                 /\ links[l].verified => links'[l].verified
  PROVE  \A v \in Commands \ {w} : CommandSound(command[v])'
  <1> SUFFICES ASSUME NEW v \in Commands \ {w} PROVE CommandSound(command[v])'
    OBVIOUS
  <1>1. CommandSound(command[v]) /\ command'[v] = command[v]
    BY DEF IInv
  <1>2. LinkOf(command[v].user, command[v].character) \subseteq LinkOf(command[v].user, command[v].character)'
    BY <1>1 DEF LinkOf, Of
  <1>3. Verified \subseteq Verified'
    BY DEF Verified
  <1>4. command[v].pc = "comment" => IssuedTo(command[v].code, command[v].user, AvatarOf[command[v].character])'
    <2>1. command[v].pc = "comment" => IssuedTo(command[v].code, command[v].user, AvatarOf[command[v].character])
      BY <1>1 DEF CommandSound
    <2>2. command[v].pc = "comment" =>
             /\ command[v].code \in 1..lastCode'
             /\ issued'[command[v].code] = <<command[v].user, AvatarOf[command[v].character]>>
      BY <2>1 DEF IssuedTo
    <2>3. QED
      BY <1>1, <2>2 DEF IssuedTo
  <1>5. QED
    BY <1>1, <1>2, <1>3, <1>4 DEF CommandSound

LEMMA InsertSound ==
  ASSUME IInv, NEW u \in Users, NEW c \in Characters, NEW main \in BOOLEAN, Insert(u, c, main)
  PROVE  /\ links' \in [DOMAIN links' -> Link] /\ lastLink' \in Nat /\ DOMAIN links' \subseteq 1..lastLink'
         /\ DOMAIN links' = DOMAIN links \cup {lastLink'} /\ lastLink' \notin DOMAIN links
         /\ links'[lastLink'] = [user |-> u, character |-> c, main |-> main, verified |-> FALSE]
         /\ \A l \in DOMAIN links : links'[l] = links[l]
  BY DEF IInv, TypeInv, Insert, Link

LEMMA UpsertKeeps == ASSUME IInv, NEW w \in Commands, upsert(w) PROVE IInv' /\ [TableNext]_table
  <1> DEFINE u == User(w)
             c == Character(w)
  <1>1. command[w] \in RunningCommand
    BY DEF IInv, TypeInv, NoCommand, upsert, At
  <1>2. u \in Users /\ c \in Characters /\ command[w].main \in BOOLEAN
    BY <1>1 DEF RunningCommand, User, Character
  <1>3. NewCode(w) /\ UNCHANGED world /\ End(w)
    BY DEF upsert
  <1>4. /\ lastCode' \in Nat /\ issued' \in [1..lastCode' -> Users \X Avatars] /\ lastCode' = lastCode + 1
        /\ \A code, v, d : IssuedTo(code, v, d) => IssuedTo(code, v, d)'
        /\ lastCode' \in 1..lastCode' /\ issued'[lastCode'] = <<u, AvatarOf[c]>>
        /\ \A a \in Avatars : CommentSound(a)'
    BY <1>1, <1>3, CodeKeeps DEF Avatar
  <1>5. /\ comment' \in [Avatars -> 0..lastCode'] /\ owner' \in [Avatars -> Users]
        /\ owned' \in [Avatars -> SUBSET Users] /\ owned' = owned
        /\ name' = name /\ known' = known
        /\ command' \in [Commands -> RunningCommand \cup {NoCommand}]
        /\ command'[w] = NoCommand /\ \A v \in Commands \ {w} : command'[v] = command[v]
    BY <1>3, <1>4 DEF world, IInv, TypeInv, End
  <1>6. CommandSound(command[w])'
    BY <1>5 DEF CommandSound, NoCommand
  <1>7. CASE LinkOf(u, c) = {}
    <2>1. Insert(u, c, command[w].main) /\ codes' = [l \in DOMAIN links' |-> IF l = lastLink' THEN lastCode' ELSE codes[l]]
      BY <1>7 DEF upsert
    <2>2. /\ links' \in [DOMAIN links' -> Link] /\ lastLink' \in Nat /\ DOMAIN links' \subseteq 1..lastLink'
          /\ DOMAIN links' = DOMAIN links \cup {lastLink'} /\ lastLink' \notin DOMAIN links
          /\ links'[lastLink'] = [user |-> u, character |-> c, main |-> command[w].main, verified |-> FALSE]
          /\ \A l \in DOMAIN links : links'[l] = links[l]
      BY <1>2, <2>1, InsertSound
    <2>3. codes' \in [DOMAIN links' -> 0..lastCode']
      BY <1>4, <2>1, <2>2 DEF IInv, TypeInv
    <2>4. ASSUME NEW l \in DOMAIN links' PROVE LinkSound(l)'
      <3>1. CASE l = lastLink'
        BY <1>4, <2>1, <2>2, <3>1 DEF LinkSound, IssuedTo
      <3>2. CASE l \in DOMAIN links
        <4>1. LinkSound(l) /\ links'[l] = links[l] /\ codes'[l] = codes[l]
          BY <2>1, <2>2, <3>2 DEF IInv
        <4>2. ~links[l].verified => IssuedTo(codes[l], links[l].user, AvatarOf[links[l].character])
          BY <4>1 DEF LinkSound
        <4>3. ~links[l].verified => /\ codes[l] \in 1..lastCode'
                                    /\ issued'[codes[l]] = <<links[l].user, AvatarOf[links[l].character]>>
          BY <1>4, <4>2 DEF IssuedTo
        <4>4. QED
          BY <1>5, <4>1, <4>3 DEF LinkSound, IssuedTo
      <3>3. QED
        BY <2>2, <3>1, <3>2
    <2>5. \A v \in Commands \ {w} : CommandSound(command[v])'
      BY <1>4, <1>5, <2>2, OthersKeep
    <2>6. OneLinkEach'
      BY <1>7, <2>2 DEF IInv, OneLinkEach, LinkOf, Of
    <2>7. TableNext
      BY <1>2, <2>1 DEF TableNext
    <2>8. QED
      BY <1>4, <1>5, <1>6, <2>2, <2>3, <2>4, <2>5, <2>6, <2>7 DEF IInv, TypeInv
  <1>8. CASE LinkOf(u, c) # {}
    <2>1. /\ UNCHANGED table
          /\ codes' = [l \in DOMAIN codes |-> IF l \in LinkOf(u, c) \ Verified THEN lastCode' ELSE codes[l]]
      BY <1>8 DEF upsert
    <2>2. codes' \in [DOMAIN links' -> 0..lastCode']
      BY <1>4, <2>1 DEF IInv, TypeInv, table
    <2>3. ASSUME NEW l \in DOMAIN links' PROVE LinkSound(l)'
      <3>1. LinkSound(l) /\ l \in DOMAIN links /\ links' = links /\ l \in DOMAIN codes
        BY <2>1 DEF IInv, TypeInv, table
      <3>2. CASE l \in LinkOf(u, c) \ Verified
        <4>1. links[l].user = u /\ links[l].character = c /\ ~links[l].verified /\ codes'[l] = lastCode'
          BY <2>1, <3>1, <3>2 DEF LinkOf, Of, Verified
        <4>2. QED
          BY <1>4, <3>1, <4>1 DEF LinkSound, IssuedTo
      <3>3. CASE l \notin LinkOf(u, c) \ Verified
        <4>1. codes'[l] = codes[l]
          BY <2>1, <3>1, <3>3
        <4>2. ~links[l].verified => IssuedTo(codes[l], links[l].user, AvatarOf[links[l].character])
          BY <3>1 DEF LinkSound
        <4>3. ~links[l].verified => /\ codes[l] \in 1..lastCode'
                                    /\ issued'[codes[l]] = <<links[l].user, AvatarOf[links[l].character]>>
          BY <1>4, <4>2 DEF IssuedTo
        <4>4. QED
          BY <1>5, <3>1, <4>1, <4>3 DEF LinkSound, IssuedTo
      <3>4. QED
        BY <3>2, <3>3
    <2>4. \A v \in Commands \ {w} : CommandSound(command[v])'
      BY <1>4, <1>5, <2>1, OthersKeep DEF table
    <2>5. QED
      BY <1>4, <1>5, <1>6, <2>1, <2>2, <2>3, <2>4 DEF IInv, TypeInv, table, OneLinkEach
  <1>9. QED
    BY <1>7, <1>8

LEMMA MarkKeeps == ASSUME IInv, NEW w \in Commands, markVerified(w) PROVE IInv' /\ [TableNext]_table
  <1> DEFINE u == User(w)
             c == Character(w)
             mine == LinkOf(u, c)
             m == [command[w] EXCEPT !.pc = "verified"]
  <1>1. /\ command[w] \in RunningCommand /\ command[w].pc = "mark"
        /\ u = command[w].user /\ c = command[w].character
    BY DEF IInv, TypeInv, NoCommand, markVerified, At, User, Character
  <1>2. u \in Users /\ c \in Characters /\ CommandSound(command[w])
    BY <1>1 DEF IInv, RunningCommand
  <1>3. u \in owned[AvatarOf[c]] /\ (~command[w].disturbed => mine # {})
    BY <1>1, <1>2 DEF CommandSound
  <1>4. m \in RunningCommand /\ m.pc = "verified" /\ m.user = u /\ m.character = c /\ m.disturbed = command[w].disturbed
    BY <1>1 DEF RunningCommand, Pcs
  <1>5. UNCHANGED <<lastCode, world, issued, raced>>
    BY DEF markVerified
  <1>6. CASE mine \cap Verified = {} /\ mine # {} /\ Holders(c) = {}
    <2>1. /\ \E l \in mine : Verify(l)
          /\ codes' = [l \in DOMAIN codes |-> IF l \in mine THEN 0 ELSE codes[l]]
          /\ command' = [command EXCEPT ![w] = m]
      BY <1>6 DEF markVerified, Goto
    <2>2. PICK l \in mine : Verify(l)
      BY <2>1
    <2>3. l \in DOMAIN links /\ links[l] \in Link /\ links[l].user = u /\ links[l].character = c
      BY DEF LinkOf, Of, IInv, TypeInv
    <2>4. /\ DOMAIN links' = DOMAIN links /\ lastLink' = lastLink
          /\ links'[l] = [links[l] EXCEPT !.verified = TRUE]
          /\ \A k \in DOMAIN links \ {l} : links'[k] = links[k]
          /\ links' \in [DOMAIN links' -> Link]
      BY <2>2, <2>3 DEF Verify, IInv, TypeInv, Link
    <2>5. links'[l].user = u /\ links'[l].character = c /\ links'[l].verified
      BY <2>3, <2>4 DEF Link
    <2>6. \A k \in mine : k = l
      BY <2>3 DEF IInv, OneLinkEach, LinkOf, Of
    <2>7. codes' \in [DOMAIN links' -> 0..lastCode'] /\ \A k \in DOMAIN links \ {l} : codes'[k] = codes[k]
      BY <1>5, <2>1, <2>4, <2>6 DEF IInv, TypeInv
    <2>8. ASSUME NEW k \in DOMAIN links' PROVE LinkSound(k)'
      <3>1. CASE k = l
        BY <1>3, <1>5, <2>5, <3>1 DEF LinkSound, world
      <3>2. CASE k # l
        <4>1. LinkSound(k) /\ links'[k] = links[k] /\ codes'[k] = codes[k]
          BY <2>4, <2>7, <3>2 DEF IInv
        <4>2. QED
          BY <1>5, <4>1 DEF LinkSound, IssuedTo, world
      <3>3. QED
        BY <3>1, <3>2
    <2>9. OneLinkEach'
      <3>1. \A k \in DOMAIN links : links'[k].user = links[k].user /\ links'[k].character = links[k].character
        BY <2>3, <2>4, <2>5
      <3>2. QED
        BY <2>4, <3>1 DEF IInv, OneLinkEach
    <2>10. command' \in [Commands -> RunningCommand \cup {NoCommand}] /\ command'[w] = m
           /\ \A v \in Commands \ {w} : command'[v] = command[v]
      BY <1>4, <2>1 DEF IInv, TypeInv
    <2>11. l \in (LinkOf(u, c) \cap Verified)'
      <3>1. l \in DOMAIN links' /\ links'[l].user = command'[w].user /\ links'[l].character = command'[w].character
        BY <1>4, <2>3, <2>4, <2>5, <2>10
      <3>2. QED
        BY <2>5, <3>1 DEF LinkOf, Of, Verified, User, Character
    <2>12. CommandSound(command[w])'
      BY <1>3, <1>4, <1>5, <2>10, <2>11 DEF CommandSound, User, Character, world
    <2>13. \A v \in Commands \ {w} : CommandSound(command[v])'
      <3>1. \A code, v, d : IssuedTo(code, v, d) => IssuedTo(code, v, d)'
        BY <1>5 DEF IssuedTo
      <3>2. \A k \in DOMAIN links : /\ k \in DOMAIN links' /\ links'[k].user = links[k].user
                                    /\ links'[k].character = links[k].character
                                    /\ links[k].verified => links'[k].verified
        BY <2>3, <2>4, <2>5
      <3>3. QED
        BY <1>5, <2>10, <3>1, <3>2, OthersKeep DEF world
    <2>14. \A a \in Avatars : CommentSound(a)'
      BY <1>5 DEF IInv, CommentSound, IssuedTo, world
    <2>15. TypeInv'
      BY <1>5, <2>4, <2>7, <2>10 DEF IInv, TypeInv, world
    <2>16. TableNext
      BY <2>2, <2>3 DEF TableNext
    <2>17. QED
      BY <2>8, <2>9, <2>12, <2>13, <2>14, <2>15, <2>16 DEF IInv
  <1>7. CASE mine \cap Verified = {} /\ mine # {} /\ Holders(c) # {}
    <2>1. Reads /\ End(w)
      BY <1>5, <1>7 DEF markVerified, Reads
    <2>2. QED
      BY <2>1, EndKeeps DEF Reads
  <1>8. CASE ~(mine \cap Verified = {} /\ mine # {})
    <2>1. Reads /\ command' = [command EXCEPT ![w] = m]
      BY <1>5, <1>8 DEF markVerified, Reads, Goto
    <2>2. CommandSound(m)
      BY <1>3, <1>4, <1>8 DEF CommandSound
    <2>3. QED
      BY <1>4, <2>1, <2>2, ReadKeeps DEF Reads
  <1>9. QED
    BY <1>6, <1>7, <1>8

(* Links go with their codes; a command under way that meant one of them is marked. *)
LEMMA RemovedKeeps == ASSUME IInv, NEW S, Removed(S) PROVE IInv' /\ TableNext
  <1>1. PICK u \in Users : S \subseteq Of(u)
    BY DEF Removed, Delete
  <1>2. S \in SUBSET DOMAIN links
    BY <1>1 DEF Of
  <1>3. TableNext
    BY <1>2 DEF Removed, TableNext
  <1>4. UNCHANGED <<lastLink, lastCode, world, issued, raced>>
    BY DEF Removed, Delete
  <1>5. /\ links' = [l \in DOMAIN links \ S |-> links[l]]
        /\ codes' = [l \in DOMAIN codes \ S |-> codes[l]]
    BY DEF Removed, Delete, Without
  <1>6. /\ DOMAIN links' = DOMAIN links \ S /\ links' \in [DOMAIN links' -> Link]
        /\ codes' \in [DOMAIN links' -> 0..lastCode']
        /\ \A l \in DOMAIN links' : links'[l] = links[l] /\ codes'[l] = codes[l]
    BY <1>4, <1>5 DEF IInv, TypeInv
  <1>7. \A l \in DOMAIN links' : LinkSound(l)'
    BY <1>4, <1>6 DEF IInv, LinkSound, IssuedTo, world
  <1>8. OneLinkEach'
    BY <1>6 DEF IInv, OneLinkEach
  <1>9. \A a \in Avatars : CommentSound(a)'
    BY <1>4 DEF IInv, CommentSound, IssuedTo, world
  <1>10. ASSUME NEW v \in Commands PROVE command'[v] \in RunningCommand \cup {NoCommand} /\ CommandSound(command[v])'
    <2>1. command[v] \in RunningCommand \cup {NoCommand} /\ CommandSound(command[v])
      BY DEF IInv, TypeInv
    <2> DEFINE mine == LinkOf(command[v].user, command[v].character)
    <2>2. CASE command[v] = NoCommand
      <3>1. command'[v] = NoCommand
        BY <2>2 DEF Removed
      <3>2. QED
        BY <3>1 DEF CommandSound, NoCommand
    <2>3. CASE command[v] # NoCommand /\ mine \cap S # {}
      <3>1. command'[v] = [command[v] EXCEPT !.disturbed = TRUE]
        BY <2>3 DEF Removed, User, Character
      <3>2. /\ command'[v] \in RunningCommand /\ command'[v].disturbed /\ command'[v].pc = command[v].pc
            /\ command'[v].user = command[v].user /\ command'[v].character = command[v].character
            /\ command'[v].code = command[v].code
        BY <2>1, <2>3, <3>1 DEF RunningCommand
      <3>3. QED
        BY <1>4, <2>1, <3>2 DEF CommandSound, IssuedTo, world
    <2>4. CASE command[v] # NoCommand /\ mine \cap S = {}
      <3>1. command'[v] = command[v]
        BY <2>4 DEF Removed, User, Character
      <3>2. LinkOf(command[v].user, command[v].character)' = mine
        BY <1>6, <2>4, <3>1 DEF LinkOf, Of
      <3>3. (LinkOf(command[v].user, command[v].character) \cap Verified)' = mine \cap Verified
        BY <1>6, <2>4, <3>2 DEF Verified
      <3>4. QED
        BY <1>4, <2>1, <3>1, <3>2, <3>3 DEF CommandSound, IssuedTo, world
    <2>5. QED
      BY <2>2, <2>3, <2>4
  <1>11. command' \in [Commands -> RunningCommand \cup {NoCommand}]
    BY <1>10 DEF Removed
  <1>12. TypeInv'
    BY <1>4, <1>6, <1>11 DEF IInv, TypeInv, world
  <1>13. QED
    BY <1>3, <1>7, <1>8, <1>9, <1>10, <1>12 DEF IInv

-----------------------------------------------------------------------------
(* The owners: a code in a comment was issued to its owner; whoever gets the character has it too. *)

LEMMA OwnersKeep == ASSUME IInv, NEW a \in Avatars, Owners(a) PROVE IInv' /\ UNCHANGED table
  <1>1. UNCHANGED <<table, codes, lastCode, issued, command>>
    BY DEF Owners, WriteComment, Trade, Rename
  <1>2. \A b \in Avatars : owned[b] \subseteq owned'[b]
    <2>1. owned \in [Avatars -> SUBSET Users]
      BY DEF IInv, TypeInv
    <2>2. owned' = owned \/ \E u \in Users : owned' = [owned EXCEPT ![a] = owned[a] \cup {u}]
      BY DEF Owners, WriteComment, Trade, Rename
    <2>3. QED
      BY <2>1, <2>2
  <1>3. TypeInv' /\ \A b \in Avatars : CommentSound(b)'
    <2>1. CASE WriteComment(a)
      <3>1. PICK code \in 1..lastCode :
               issued[code] = <<owner[a], a>> /\ comment' = [comment EXCEPT ![a] = code]
        BY <2>1 DEF WriteComment
      <3>2. UNCHANGED <<name, known, owner, owned>>
        BY <2>1 DEF WriteComment
      <3>3. TypeInv'
        BY <1>1, <3>1, <3>2 DEF IInv, TypeInv, table
      <3>4. ASSUME NEW b \in Avatars PROVE CommentSound(b)'
        BY <1>1, <3>1, <3>2 DEF IInv, TypeInv, CommentSound, IssuedTo
      <3>5. QED
        BY <3>3, <3>4
    <2>2. CASE \E u \in Users : Trade(a, u)
      <3>1. PICK u \in Users : Trade(a, u)
        BY <2>2
      <3>2. /\ UNCHANGED <<name, known, comment>>
            /\ owner' = [owner EXCEPT ![a] = u] /\ owned' = [owned EXCEPT ![a] = owned[a] \cup {u}]
        BY <3>1 DEF Trade
      <3>3. TypeInv'
        BY <1>1, <3>2 DEF IInv, TypeInv, table
      <3>4. ASSUME NEW b \in Avatars PROVE CommentSound(b)'
        BY <1>1, <3>2 DEF IInv, TypeInv, CommentSound, IssuedTo
      <3>5. QED
        BY <3>3, <3>4
    <2>3. CASE \E c \in Characters : Rename(a, c)
      <3>1. PICK c \in Characters : Rename(a, c)
        BY <2>3
      <3>2. /\ UNCHANGED <<comment, owner, owned>> /\ AvatarOf[c] = a
            /\ name' = [name EXCEPT ![a] = c] /\ known' = known \cup {c}
        BY <3>1 DEF Rename
      <3>3. name' \in [Avatars -> Characters] /\ \A b \in Avatars : AvatarOf[name'[b]] = b
        BY <3>2 DEF IInv, TypeInv
      <3>4. TypeInv'
        BY <1>1, <3>2, <3>3 DEF IInv, TypeInv, table
      <3>5. ASSUME NEW b \in Avatars PROVE CommentSound(b)'
        BY <1>1, <3>2 DEF IInv, CommentSound, IssuedTo
      <3>6. QED
        BY <3>4, <3>5
    <2>4. QED
      BY <2>1, <2>2, <2>3 DEF Owners
  <1>4. ASSUME NEW l \in DOMAIN links' PROVE LinkSound(l)'
    <2>1. LinkSound(l) /\ AvatarOf[links[l].character] \in Avatars
      BY <1>1, OfAnAvatar DEF IInv, TypeInv, table, Link
    <2>2. QED
      BY <1>1, <1>2, <2>1 DEF LinkSound, IssuedTo, table
  <1>5. ASSUME NEW w \in Commands PROVE CommandSound(command[w])'
    <2>1. CommandSound(command[w]) /\ command[w] \in RunningCommand \cup {NoCommand}
      BY DEF IInv, TypeInv
    <2>2. command[w].pc \in {"mark", "verified"} => AvatarOf[command[w].character] \in Avatars
      BY <2>1, OfAnAvatar DEF RunningCommand, NoCommand
    <2>3. QED
      BY <1>1, <1>2, <2>1, <2>2 DEF CommandSound, IssuedTo, LinkOf, Of, Verified, table
  <1>6. QED
    BY <1>1, <1>3, <1>4, <1>5 DEF IInv, OneLinkEach, table

-----------------------------------------------------------------------------
(* What reads leaves the table alone. *)
LEMMA ReadingKeeps ==
  ASSUME IInv, NEW w \in Commands,
         countForUser(w) \/ getCharacter(w) \/ recount(w) \/ getComment(w) \/ reply(w) \/ CommandFails(w)
  PROVE  IInv' /\ UNCHANGED table
  <1>1. IInv'
    BY CountKeeps, CharacterKeeps, RecountKeeps, CommentKeeps, FailsKeeps
  <1>2. UNCHANGED table
    BY DEF countForUser, getCharacter, recount, getComment, reply, CommandFails, Reads
  <1>3. QED
    BY <1>1, <1>2

LEMMA StepSound == ASSUME IInv, Next PROVE IInv' /\ [TableNext]_table
  <1>1. ASSUME NEW w \in Commands, Step(w) PROVE IInv' /\ [TableNext]_table
    BY <1>1, ReadingKeeps, UpsertKeeps, MarkKeeps DEF Step
  <1>2. ASSUME NEW w \in Commands, NEW u \in Users, NEW c \in Characters, Start(w, u, c)
        PROVE  IInv' /\ [TableNext]_table
    <2>1. IInv'
      BY <1>2, AddKeeps, VerifyKeeps DEF Start
    <2>2. UNCHANGED table
      BY <1>2 DEF Start, add, verify, Reads
    <2>3. QED
      BY <2>1, <2>2
  <1>3. ASSUME NEW u \in Users, forgetEverything(u) \/ \E c \in Characters : remove(u, c)
        PROVE  IInv' /\ [TableNext]_table
    BY <1>3, RemovedKeeps DEF forgetEverything, remove
  <1>4. ASSUME NEW a \in Avatars, Owners(a) PROVE IInv' /\ [TableNext]_table
    BY <1>4, OwnersKeep
  <1>5. QED
    BY <1>1, <1>2, <1>3, <1>4 DEF Next

LEMMA StutterSound == ASSUME IInv, UNCHANGED vars PROVE IInv' /\ UNCHANGED table
  <1> USE DEF vars, table, world
  <1>1. TypeInv' /\ OneLinkEach'
    BY DEF IInv, TypeInv, OneLinkEach
  <1>2. \A a \in Avatars : CommentSound(a)'
    BY DEF IInv, CommentSound, IssuedTo
  <1>3. \A l \in DOMAIN links' : LinkSound(l)'
    BY DEF IInv, LinkSound, IssuedTo
  <1>4. \A w \in Commands : CommandSound(command[w])'
    BY DEF IInv, CommandSound, IssuedTo, LinkOf, Of, Verified
  <1>5. QED
    BY <1>1, <1>2, <1>3, <1>4 DEF IInv

(* The inductive invariant: codes were issued to who they are stored, read and       *)
(* published for, whatever the character's name, and a command that has seen the code in the comment is one of a    *)
(* user who has owned the character (linkService.ts:54-75).                          *)
THEOREM InductiveInvariant == Spec => []IInv
  <1>1. Init => IInv
    BY InitSound
  <1>2. IInv /\ [Next]_vars => IInv'
    BY StepSound, StutterSound
  <1>3. QED
    BY <1>1, <1>2, PTL DEF Spec

(* A verified user has owned the character (linkService.ts:63). *)
THEOREM VerifiedHasOwned == Spec => []OnlyOwnersVerify
  <1>1. IInv => OnlyOwnersVerify
    BY DEF IInv, LinkSound, OnlyOwnersVerify, Verified
  <1>2. QED
    BY <1>1, InductiveInvariant, PTL

(* Who is told of a verification has a verified link, unless it was removed in between (linkService.ts:69). *)
THEOREM ToldIsTrue == Spec => []ToldVerifiedIsVerified
  <1>1. IInv => ToldVerifiedIsVerified
    BY DEF IInv, CommandSound, ToldVerifiedIsVerified, At, User, Character
  <1>2. QED
    BY <1>1, InductiveInvariant, PTL

(* All the commands together keep what LinkTable promises its readers (003_second_brain_core.sql:19). *)
THEOREM LinksImplementTable == Spec => ImplementsTable
  <1>1. Init => TableInit
    BY InitSound
  <1>2. IInv /\ [Next]_vars => [TableNext]_table
    BY StepSound, StutterSound
  <1>3. QED
    BY <1>1, <1>2, InductiveInvariant, PTL DEF Spec, ImplementsTable, TableSpec
-----------------------------------------------------------------------------
(* The cap.  Who has counted has room for one more avatar as long as no other add inserts one; *)
(* who has found a link has the room of its avatar even when the link goes or the name changes. *)

Mains(u) == {l \in Of(u) : links[l].main}
Linked(u) == {AvatarOf[links[l].character] : l \in Of(u)}
Room(u, c) == Cardinality(Linked(u) \ {AvatarOf[c]}) < LinkCap[u]
CapOK(u) == Cardinality(Linked(u)) <= LinkCap[u] /\ Cardinality(Mains(u)) <= 1

AddSound(m) ==
    /\ m.pc \in {"count", "recount"} => ~m.existing
    /\ m.pc \in Quiet /\ m.existing => ~m.main
    /\ m.pc \in Quiet \ {"count"} /\ m.user \notin raced => Room(m.user, m.character)
    /\ m.pc = "upsert" /\ m.main /\ m.user \notin raced => Of(m.user) = {}

CapInv ==
    /\ IInv
    /\ \A u \in Users \ raced : CapOK(u)
    /\ \A w \in Commands : AddSound(command[w])

(* The links of a user are finitely many, and so are their avatars. *)
LEMMA FewLinks ==
  ASSUME IInv, NEW u \in Users
  PROVE  /\ IsFiniteSet(Of(u)) /\ Cardinality(Of(u)) \in Nat
         /\ IsFiniteSet(Mains(u)) /\ Cardinality(Mains(u)) \in Nat
         /\ IsFiniteSet(Linked(u)) /\ Cardinality(Linked(u)) \in Nat
         /\ Cardinality(Linked(u)) <= Cardinality(Of(u))
         /\ LinkCap[u] \in Nat
  <1>1. IsFiniteSet(1..lastLink) /\ Of(u) \subseteq 1..lastLink
    <2>1. 1 \in Int /\ lastLink \in Int /\ DOMAIN links \subseteq 1..lastLink
      BY DEF IInv, TypeInv
    <2>2. QED
      BY <2>1, FS_Interval DEF Of
  <1>2. IsFiniteSet(Of(u)) /\ Cardinality(Of(u)) \in Nat
    BY <1>1, PartOf
  <1>3. IsFiniteSet(Mains(u)) /\ Cardinality(Mains(u)) \in Nat
    <2>1. Mains(u) \subseteq Of(u)
      BY DEF Mains
    <2>2. QED
      BY <1>2, <2>1, PartOf
  <1>4. /\ IsFiniteSet(Linked(u)) /\ Cardinality(Linked(u)) \in Nat
        /\ Cardinality(Linked(u)) <= Cardinality(Of(u))
    <2> DEFINE f == [l \in Of(u) |-> AvatarOf[links[l].character]]
    <2>1. f \in Surjection(Of(u), Linked(u))
      BY DEF Surjection, Linked
    <2>2. IsFiniteSet(Linked(u)) /\ Cardinality(Linked(u)) <= Cardinality(Of(u))
      BY <1>2, <2>1, FS_Surjection
    <2>3. QED
      BY <2>2, FS_CardinalityType
  <1>5. LinkCap[u] \in Nat
    BY LinksAssumption
  <1>6. QED
    BY <1>2, <1>3, <1>4, <1>5

(* Where no avatar is added and no link becomes the main one, everything fits as it did. *)
LEMMA FitsStill ==
  ASSUME IInv, NEW u \in Users, Linked(u)' \subseteq Linked(u), Mains(u)' \subseteq Mains(u)
  PROVE  /\ CapOK(u) => CapOK(u)'
         /\ \A c : Room(u, c) => Room(u, c)'
         /\ Of(u) = {} => Of(u)' = {}
  <1>1. /\ IsFiniteSet(Linked(u)) /\ LinkCap[u] \in Nat
        /\ IsFiniteSet(Mains(u))
    BY FewLinks
  <1>2. /\ Cardinality(Linked(u)) \in Nat /\ Cardinality(Linked(u)') \in Nat
        /\ Cardinality(Linked(u)') <= Cardinality(Linked(u))
    BY <1>1, PartOf
  <1>3. /\ Cardinality(Mains(u)) \in Nat /\ Cardinality(Mains(u)') \in Nat
        /\ Cardinality(Mains(u)') <= Cardinality(Mains(u))
    BY <1>1, PartOf
  <1>4. CapOK(u) => CapOK(u)'
    BY <1>1, <1>2, <1>3 DEF CapOK
  <1>5. ASSUME NEW c, Room(u, c) PROVE Room(u, c)'
    <2> DEFINE S == Linked(u) \ {AvatarOf[c]}
               T == Linked(u)' \ {AvatarOf[c]}
    <2>1. IsFiniteSet(S) /\ T \subseteq S
      BY <1>1, FS_Subset
    <2>2. Cardinality(T) \in Nat /\ Cardinality(S) \in Nat /\ Cardinality(T) <= Cardinality(S)
      BY <2>1, PartOf
    <2>3. QED
      BY <1>1, <1>5, <2>2 DEF Room
  <1>6. Of(u) = {} => Of(u)' = {}
    BY DEF Linked
  <1>7. QED
    BY <1>4, <1>5, <1>6

(* Links that stay, or go. *)
LEMMA FewerLinks ==
  ASSUME NEW u,
         \A l \in Of(u)' : /\ l \in Of(u) /\ links'[l].character = links[l].character
                           /\ links'[l].main = links[l].main
  PROVE  Linked(u)' \subseteq Linked(u) /\ Mains(u)' \subseteq Mains(u)
  BY DEF Linked, Mains

(* A command while its user's links at most go. *)
LEMMA AddFitsStill ==
  ASSUME IInv, NEW m \in RunningCommand \cup {NoCommand}, AddSound(m), raced \subseteq raced',
         m \in RunningCommand /\ m.user \notin raced' =>
           Linked(m.user)' \subseteq Linked(m.user) /\ Mains(m.user)' \subseteq Mains(m.user)
  PROVE  AddSound(m)'
  <1>1. CASE m = NoCommand
    BY <1>1 DEF AddSound, NoCommand, Quiet
  <1>2. CASE m \in RunningCommand
    <2>1. m.user \in Users
      BY <1>2 DEF RunningCommand
    <2>2. m.user \notin raced' => /\ Room(m.user, m.character) => Room(m.user, m.character)'
                                  /\ Of(m.user) = {} => Of(m.user)' = {}
      BY <1>2, <2>1, FitsStill
    <2>3. QED
      BY <2>2 DEF AddSound
  <1>3. QED
    BY <1>1, <1>2

(* A command that reads and goes on. *)
LEMMA ReadFits ==
  ASSUME CapInv, IInv', NEW w \in Commands, Reads, NEW m, AddSound(m), command' = [command EXCEPT ![w] = m]
  PROVE  CapInv'
  <1>1. UNCHANGED <<links, raced>>
    BY DEF Reads, table
  <1>2. \A u : CapOK(u)' <=> CapOK(u)
    BY <1>1 DEF CapOK, Mains, Linked, Of
  <1>3. ASSUME NEW v \in Commands PROVE AddSound(command[v])'
    <2>1. PICK n : n = command'[v]
      OBVIOUS
    <2>2. AddSound(n)
      BY <2>1 DEF CapInv, IInv, TypeInv
    <2>3. AddSound(n)'
      BY <1>1, <2>2 DEF AddSound, Room, Linked, Of
    <2>4. QED
      BY <2>1, <2>3 DEF AddSound
  <1>4. QED
    BY <1>1, <1>2, <1>3 DEF CapInv

LEMMA EndFits == ASSUME CapInv, IInv', NEW w \in Commands, Reads, End(w) PROVE CapInv'
  <1>1. AddSound(NoCommand)
    BY DEF AddSound, NoCommand, Quiet
  <1>2. PICK m : m = NoCommand
    OBVIOUS
  <1>3. QED
    BY <1>1, <1>2, ReadFits DEF End

(* A new add finds its link, within the cap, or none and has everything to count. *)
LEMMA AddFits ==
  ASSUME CapInv, IInv', NEW w \in Commands, NEW u \in Users, NEW c \in Characters, add(w, u, c)
  PROVE  CapInv'
  <1> DEFINE m == [Command(IF LinkOf(u, c) = {} THEN "count" ELSE "fetch", u, c) EXCEPT !.existing = LinkOf(u, c) # {}]
  <1>1. /\ m.pc = IF LinkOf(u, c) = {} THEN "count" ELSE "fetch"
        /\ m.user = u /\ m.character = c /\ ~m.main /\ m.existing = (LinkOf(u, c) # {})
    BY DEF Command
  <1>2. Reads /\ command' = [command EXCEPT ![w] = m]
    BY DEF add
  <1>3. PICK n : n = m
    OBVIOUS
  <1> HIDE DEF m
  <1>4. LinkOf(u, c) # {} /\ u \notin raced => Room(u, c)
    <2> SUFFICES ASSUME LinkOf(u, c) # {}, u \notin raced PROVE Room(u, c)
      OBVIOUS
    <2>1. AvatarOf[c] \in Linked(u)
      BY DEF LinkOf, Linked
    <2>2. IsFiniteSet(Linked(u)) /\ LinkCap[u] \in Nat /\ Cardinality(Linked(u)) <= LinkCap[u]
      BY FewLinks DEF CapInv, CapOK
    <2>3. /\ Cardinality(Linked(u) \ {AvatarOf[c]}) \in Nat /\ Cardinality(Linked(u)) \in Nat
          /\ Cardinality(Linked(u) \ {AvatarOf[c]}) <= Cardinality(Linked(u)) - 1
      BY <2>1, <2>2, OneLess
    <2>4. QED
      BY <2>2, <2>3 DEF Room
  <1>5. AddSound(n)
    BY <1>1, <1>3, <1>4 DEF AddSound, Quiet
  <1>6. QED
    BY <1>2, <1>3, <1>5, ReadFits

(* To verify claims nothing of the cap. *)
LEMMA VerifyFits ==
  ASSUME CapInv, IInv', NEW w \in Commands, NEW u \in Users, NEW c \in Characters, verify(w, u, c)
  PROVE  CapInv'
  <1>1. PICK l \in LinkOf(u, c) \ Verified :
           command' = [command EXCEPT ![w] = [Command("comment", u, c) EXCEPT !.code = codes[l]]]
    BY DEF verify
  <1>2. PICK n : n = [Command("comment", u, c) EXCEPT !.code = codes[l]]
    OBVIOUS
  <1>3. n.pc = "comment"
    BY <1>2 DEF Command
  <1>4. AddSound(n)
    BY <1>3 DEF AddSound, Quiet
  <1>5. QED
    BY <1>1, <1>2, <1>4, ReadFits DEF verify

(* Who finds fewer than the cap has room. *)
LEMMA CountFits == ASSUME CapInv, IInv', NEW w \in Commands, countForUser(w) PROVE CapInv'
  <1>1. CASE End(w)
    BY <1>1, EndFits DEF countForUser
  <1>2. CASE Goto(w, "fetch") /\ ~(Cardinality(Of(User(w))) >= LinkCap[User(w)])
    <2>1. PICK m : m = command[w]
      OBVIOUS
    <2>2. m \in RunningCommand /\ m.pc = "count" /\ AddSound(m) /\ m.user \in Users
      <3>1. m \in RunningCommand /\ m.pc = "count"
        BY <2>1 DEF CapInv, IInv, TypeInv, NoCommand, countForUser, At
      <3>2. AddSound(m)
        BY <2>1 DEF CapInv
      <3>3. QED
        BY <3>1, <3>2 DEF RunningCommand
    <2>3. PICK n : n = [m EXCEPT !.pc = "fetch"]
      OBVIOUS
    <2>4. /\ n.pc = "fetch" /\ n.user = m.user /\ n.character = m.character
          /\ n.existing = m.existing /\ n.main = m.main
      BY <2>2, <2>3 DEF RunningCommand
    <2>5. Room(m.user, m.character)
      <3>1. /\ IsFiniteSet(Linked(m.user)) /\ Cardinality(Linked(m.user)) \in Nat
            /\ Cardinality(Of(m.user)) \in Nat /\ Cardinality(Linked(m.user)) <= Cardinality(Of(m.user))
            /\ LinkCap[m.user] \in Nat /\ Cardinality(Of(m.user)) < LinkCap[m.user]
        BY <1>2, <2>1, <2>2, FewLinks DEF User, CapInv
      <3>2. Linked(m.user) \ {AvatarOf[m.character]} \subseteq Linked(m.user)
        OBVIOUS
      <3>3. /\ Cardinality(Linked(m.user) \ {AvatarOf[m.character]}) \in Nat
            /\ Cardinality(Linked(m.user) \ {AvatarOf[m.character]}) <= Cardinality(Linked(m.user))
        BY <3>1, <3>2, PartOf
      <3>4. QED
        BY <3>1, <3>3 DEF Room
    <2>6. AddSound(n)
      BY <2>2, <2>4, <2>5 DEF AddSound, Quiet
    <2>7. command' = [command EXCEPT ![w] = n] /\ Reads
      BY <1>2, <2>1, <2>3 DEF Goto, countForUser
    <2>8. QED
      BY <2>6, <2>7, ReadFits
  <1>3. QED
    BY <1>1, <1>2 DEF countForUser

(* The present name is one of the same avatar. *)
LEMMA CharacterFits == ASSUME CapInv, IInv', NEW w \in Commands, getCharacter(w) PROVE CapInv'
  <1>1. CASE Character(w) \notin known
    BY <1>1, EndFits DEF getCharacter
  <1>2. CASE Character(w) \in known
    <2>1. PICK m : m = command[w]
      OBVIOUS
    <2>2. m \in RunningCommand /\ m.pc = "fetch" /\ AddSound(m)
      BY <2>1 DEF CapInv, IInv, TypeInv, NoCommand, getCharacter, At, RunningCommand
    <2>3. PICK n : n = [m EXCEPT !.pc = IF m.existing THEN "upsert" ELSE "recount", !.character = name[Avatar(w)]]
      OBVIOUS
    <2>4. /\ n.pc = IF m.existing THEN "upsert" ELSE "recount"
          /\ n.user = m.user /\ n.character = name[Avatar(w)] /\ n.existing = m.existing /\ n.main = m.main
      BY <2>2, <2>3 DEF RunningCommand
    <2>5. AvatarOf[n.character] = AvatarOf[m.character]
      BY <2>1, <2>2, <2>4, OfAnAvatar DEF Avatar, Character, RunningCommand, CapInv, IInv, TypeInv
    <2>6. Room(m.user, m.character) => Room(n.user, n.character)
      BY <2>4, <2>5 DEF Room
    <2>7. AddSound(n)
      BY <2>2, <2>4, <2>6 DEF AddSound, Quiet
    <2>8. command' = [command EXCEPT ![w] = n] /\ Reads
      BY <1>2, <2>1, <2>3 DEF getCharacter
    <2>9. QED
      BY <2>7, <2>8, ReadFits
  <1>3. QED
    BY <1>1, <1>2

(* The main character is the one added where there is none. *)
LEMMA RecountFits == ASSUME CapInv, IInv', NEW w \in Commands, recount(w) PROVE CapInv'
  <1>1. PICK m : m = command[w]
    OBVIOUS
  <1>2. m \in RunningCommand /\ m.pc = "recount" /\ AddSound(m)
    <2>1. command[w] \in RunningCommand \cup {NoCommand} /\ command[w].pc = "recount"
      BY DEF CapInv, IInv, TypeInv, recount, At
    <2>2. AddSound(m)
      BY <1>1 DEF CapInv
    <2>3. QED
      BY <1>1, <2>1, <2>2 DEF NoCommand
  <1>3. PICK n : n = [m EXCEPT !.pc = "upsert", !.main = (Of(m.user) = {})]
    OBVIOUS
  <1>4. /\ n.pc = "upsert" /\ n.user = m.user /\ n.character = m.character
        /\ n.existing = m.existing /\ n.main = (Of(m.user) = {})
    BY <1>2, <1>3 DEF RunningCommand
  <1>5. AddSound(n)
    BY <1>2, <1>4 DEF AddSound, Quiet
  <1>6. command' = [command EXCEPT ![w] = n] /\ Reads
    BY <1>1, <1>3 DEF recount, User
  <1>7. QED
    BY <1>5, <1>6, ReadFits

LEMMA CommentFits == ASSUME CapInv, IInv', NEW w \in Commands, getComment(w) PROVE CapInv'
  <1>1. CASE End(w)
    BY <1>1, EndFits DEF getComment
  <1>2. CASE Goto(w, "mark")
    <2>1. PICK n : n = [command[w] EXCEPT !.pc = "mark"]
      OBVIOUS
    <2>2. n.pc = "mark"
      BY <2>1 DEF CapInv, IInv, TypeInv, NoCommand, getComment, At, RunningCommand
    <2>3. AddSound(n)
      BY <2>2 DEF AddSound, Quiet
    <2>4. QED
      BY <1>2, <2>1, <2>3, ReadFits DEF Goto, getComment
  <1>3. QED
    BY <1>1, <1>2 DEF getComment

LEMMA FailsFits == ASSUME CapInv, IInv', NEW w \in Commands, CommandFails(w) \/ reply(w) PROVE CapInv'
  BY EndFits DEF CommandFails, reply

(* A row that is inserted: the user had room for its avatar, and any other add of that user either *)
(* makes the two a race or is for an avatar that counts already; where the row is one more of an   *)
(* avatar that has one, nothing counts more than it did.                                           *)
LEMMA InsertFits ==
  ASSUME CapInv, IInv', NEW w \in Commands, upsert(w), LinkOf(User(w), Character(w)) = {}
  PROVE  CapInv'
  <1>1. PICK m : m = command[w]
    OBVIOUS
  <1>2. m \in RunningCommand /\ m.pc = "upsert" /\ AddSound(m)
    <2>1. command[w] \in RunningCommand \cup {NoCommand} /\ command[w].pc = "upsert"
      BY DEF CapInv, IInv, TypeInv, upsert, At
    <2>2. AddSound(m)
      BY <1>1 DEF CapInv
    <2>3. QED
      BY <1>1, <2>1, <2>2 DEF NoCommand
  <1>3. PICK u \in Users, c \in Characters, main \in BOOLEAN : u = m.user /\ c = m.character /\ main = m.main
    BY <1>2 DEF RunningCommand
  <1>4. PICK a : a = AvatarOf[c]
    OBVIOUS
  <1>5. /\ Insert(u, c, main) /\ End(w)
        /\ raced' = IF SameAvatar(u, a) = {} /\ Racing(w) THEN raced \cup {u} ELSE raced
    BY <1>1, <1>3, <1>4 DEF upsert, NewCode, User, Character, Avatar
  <1>6. PICK n : n = lastLink'
    OBVIOUS
  <1>7. /\ DOMAIN links' = DOMAIN links \cup {n} /\ n \notin DOMAIN links
        /\ links'[n] = [user |-> u, character |-> c, main |-> main, verified |-> FALSE]
        /\ \A l \in DOMAIN links : links'[l] = links[l]
    BY <1>5, <1>6, InsertSound DEF CapInv
  <1>8. Of(u)' = Of(u) \cup {n} /\ \A p \in Users \ {u} : Of(p)' = Of(p)
    BY <1>7 DEF Of
  <1>9. Linked(u)' = Linked(u) \cup {a}
    BY <1>4, <1>7, <1>8 DEF Linked, Of
  <1>10. ASSUME u \notin raced' PROVE CapOK(u)'
    <2>1. u \notin raced
      BY <1>5, <1>10
    <2>2. /\ IsFiniteSet(Linked(u)) /\ LinkCap[u] \in Nat
          /\ IsFiniteSet(Mains(u)) /\ Cardinality(Mains(u)) \in Nat /\ Cardinality(Mains(u)) <= 1
      BY <2>1, FewLinks DEF CapInv, CapOK
    <2>3. Cardinality(Linked(u)') <= LinkCap[u]
      <3>1. PICK S : S = Linked(u) \ {a}
        OBVIOUS
      <3>2. Cardinality(S) < LinkCap[u]
        BY <1>2, <1>3, <1>4, <2>1, <3>1 DEF AddSound, Quiet, Room
      <3>3. IsFiniteSet(S) /\ Linked(u)' \subseteq S \cup {a}
        BY <1>9, <2>2, <3>1, FS_Subset
      <3>4. /\ Cardinality(S) \in Nat /\ Cardinality(Linked(u)') \in Nat
            /\ Cardinality(Linked(u)') <= Cardinality(S) + 1
        BY <3>3, OneMore
      <3>5. QED
        BY <2>2, <3>2, <3>4
    <2>4. Cardinality(Mains(u)') <= 1
      <3>1. CASE main
        <4>1. Of(u) = {}
          BY <1>2, <1>3, <2>1, <3>1 DEF AddSound
        <4>2. Mains(u)' \subseteq {} \cup {n}
          BY <1>8, <4>1 DEF Mains
        <4>3. IsFiniteSet({}) /\ Cardinality({}) = 0
          BY FS_EmptySet
        <4>4. Cardinality(Mains(u)') \in Nat /\ Cardinality(Mains(u)') <= Cardinality({}) + 1
          BY <4>2, <4>3, OneMore
        <4>5. QED
          BY <4>3, <4>4
      <3>2. CASE ~main
        <4>1. Mains(u)' \subseteq Mains(u)
          BY <1>7, <1>8, <3>2 DEF Mains, Of
        <4>2. Cardinality(Mains(u)') \in Nat /\ Cardinality(Mains(u)') <= Cardinality(Mains(u))
          BY <2>2, <4>1, PartOf
        <4>3. QED
          BY <2>2, <4>2
      <3>3. QED
        BY <3>1, <3>2
    <2>5. QED
      BY <2>3, <2>4 DEF CapOK
  <1>11. ASSUME NEW p \in Users, p # u
         PROVE  /\ CapOK(p) => CapOK(p)'
                /\ \A d : Room(p, d) => Room(p, d)'
                /\ Of(p) = {} => Of(p)' = {}
    <2>1. \A l \in Of(p)' : /\ l \in Of(p) /\ links'[l].character = links[l].character
                            /\ links'[l].main = links[l].main
      BY <1>7, <1>8, <1>11 DEF Of
    <2>2. Linked(p)' \subseteq Linked(p) /\ Mains(p)' \subseteq Mains(p)
      BY <2>1, FewerLinks
    <2>3. QED
      BY <2>2, FitsStill DEF CapInv
  <1>12. \A p \in Users \ raced' : CapOK(p)'
    BY <1>5, <1>10, <1>11 DEF CapInv
  <1>13. ASSUME NEW v \in Commands PROVE AddSound(command[v])'
    <2>1. PICK k : k = command'[v]
      OBVIOUS
    <2>2. CASE v = w
      <3>1. k = NoCommand
        BY <1>5, <2>1, <2>2 DEF End, CapInv, IInv, TypeInv
      <3>2. AddSound(k)'
        BY <3>1 DEF AddSound, NoCommand, Quiet
      <3>3. QED
        BY <2>1, <3>2 DEF AddSound
    <2>3. CASE v # w
      <3>1. k = command[v] /\ k \in RunningCommand \cup {NoCommand}
        BY <1>5, <2>1, <2>3 DEF End, CapInv, IInv, TypeInv
      <3>2. AddSound(k)
        BY <3>1 DEF CapInv
      <3>3. CASE k.pc \notin Quiet
        BY <2>1, <3>3 DEF AddSound, Quiet
      <3>4. CASE k.pc \in Quiet /\ k.user # u
        <4>1. k.user \in Users
          BY <3>1, <3>4 DEF RunningCommand, NoCommand, Quiet
        <4>2. k.user \notin raced' => k.user \notin raced
          BY <1>5
        <4>3. AddSound(k)'
          BY <1>11, <3>2, <3>4, <4>1, <4>2 DEF AddSound
        <4>4. QED
          BY <2>1, <4>3 DEF AddSound
      <3>5. CASE k.pc \in Quiet /\ k.user = u /\ u \in raced'
        <4>1. AddSound(k)'
          BY <3>2, <3>5 DEF AddSound
        <4>2. QED
          BY <2>1, <4>1 DEF AddSound
      <3>6. CASE k.pc \in Quiet /\ k.user = u /\ u \notin raced' /\ SameAvatar(u, a) # {}
        <4>1. a \in Linked(u) /\ Of(u) # {}
          BY <3>6 DEF SameAvatar, Linked
        <4>2. u \notin raced
          BY <1>5, <3>6
        <4>3. Linked(u)' = Linked(u)
          BY <1>9, <4>1
        <4>4. \A d : Room(u, d) => Room(u, d)'
          BY <4>3 DEF Room
        <4>5. AddSound(k)'
          BY <3>2, <3>6, <4>1, <4>2, <4>4 DEF AddSound
        <4>6. QED
          BY <2>1, <4>5 DEF AddSound
      <3>7. CASE k.pc \in Quiet /\ k.user = u /\ u \notin raced' /\ SameAvatar(u, a) = {}
        <4>1. ~Racing(w)
          BY <1>5, <3>7
        <4>2. PICK b : b = AvatarOf[k.character]
          OBVIOUS
        <4>3. k.existing /\ SameAvatar(u, b) # {}
          <5>1. Adding(v) /\ User(v) = u /\ Avatar(v) = b /\ User(w) = u
            BY <1>1, <1>3, <3>1, <3>7, <4>2 DEF Adding, Quiet, User, Character, Avatar
          <5>2. QED
            BY <2>3, <3>1, <4>1, <5>1 DEF Racing
        <4>4. b \in Linked(u)'
          <5>1. b \in Linked(u)
            BY <4>3 DEF SameAvatar, Linked
          <5>2. QED
            BY <1>9, <5>1
        <4>5. IsFiniteSet(Linked(u)') /\ Cardinality(Linked(u)') <= LinkCap[u] /\ LinkCap[u] \in Nat
          <5>1. IsFiniteSet(Linked(u)) /\ LinkCap[u] \in Nat
            BY FewLinks DEF CapInv
          <5>2. IsFiniteSet(Linked(u)')
            BY <1>9, <5>1, OneMore
          <5>3. QED
            BY <1>10, <3>7, <5>1, <5>2 DEF CapOK
        <4>6. /\ Cardinality(Linked(u)' \ {b}) \in Nat /\ Cardinality(Linked(u)') \in Nat
              /\ Cardinality(Linked(u)' \ {b}) <= Cardinality(Linked(u)') - 1
          BY <4>4, <4>5, OneLess
        <4>7. Room(u, k.character)'
          BY <4>2, <4>5, <4>6 DEF Room
        <4>8. ~k.main /\ k.pc \notin {"count", "recount"}
          BY <3>2, <3>7, <4>3 DEF AddSound, Quiet
        <4>9. AddSound(k)'
          BY <3>7, <4>7, <4>8 DEF AddSound
        <4>10. QED
          BY <2>1, <4>9 DEF AddSound
      <3>8. QED
        BY <3>3, <3>4, <3>5, <3>6, <3>7
    <2>4. QED
      BY <2>2, <2>3
  <1>14. QED
    BY <1>12, <1>13 DEF CapInv

(* No link comes and none becomes the main one; the commands stand as soundly as before. *)
LEMMA NoInsertFits ==
  ASSUME CapInv, IInv', raced \subseteq raced',
         \A u \in Users : \A l \in Of(u)' : /\ l \in Of(u) /\ links'[l].character = links[l].character
                                            /\ links'[l].main = links[l].main,
         \A v \in Commands : /\ command'[v] \in RunningCommand \cup {NoCommand}
                             /\ AddSound(command'[v])
  PROVE  CapInv'
  <1>1. ASSUME NEW u \in Users PROVE Linked(u)' \subseteq Linked(u) /\ Mains(u)' \subseteq Mains(u)
    BY FewerLinks
  <1>2. ASSUME NEW u \in Users \ raced' PROVE CapOK(u)'
    <2>1. CapOK(u)
      BY DEF CapInv
    <2>2. QED
      BY <1>1, <2>1, FitsStill DEF CapInv
  <1>3. ASSUME NEW v \in Commands PROVE AddSound(command[v])'
    <2>1. PICK m : m = command'[v]
      OBVIOUS
    <2>2. m \in RunningCommand \cup {NoCommand} /\ AddSound(m)
      BY <2>1
    <2>3. m \in RunningCommand => m.user \in Users
      BY DEF RunningCommand
    <2>4. AddSound(m)'
      BY <1>1, <2>2, <2>3, AddFitsStill DEF CapInv
    <2>5. QED
      BY <2>1, <2>4 DEF AddSound
  <1>4. QED
    BY <1>2, <1>3 DEF CapInv

(* A code issued again, and a link found verified. *)
LEMMA RewriteFits ==
  ASSUME CapInv, IInv', NEW w \in Commands,
         (upsert(w) /\ LinkOf(User(w), Character(w)) # {}) \/ markVerified(w)
  PROVE  CapInv'
  <1>1. raced \subseteq raced'
    BY DEF upsert, NewCode, markVerified
  <1>2. UNCHANGED links \/ \E l \in DOMAIN links : Verify(l)
    <2>1. CASE upsert(w) /\ LinkOf(User(w), Character(w)) # {}
      BY <2>1 DEF upsert, table
    <2>2. CASE markVerified(w)
      BY <2>2 DEF markVerified, table, LinkOf, Of
    <2>3. QED
      BY <2>1, <2>2
  <1>3. \A u \in Users : \A l \in Of(u)' : /\ l \in Of(u) /\ links'[l].character = links[l].character
                                          /\ links'[l].main = links[l].main
    <2>1. CASE UNCHANGED links
      BY <2>1 DEF Of
    <2>2. CASE \E l \in DOMAIN links : Verify(l)
      <3>1. PICK l \in DOMAIN links : Verify(l)
        BY <2>2
      <3>2. /\ DOMAIN links' = DOMAIN links /\ links[l] \in Link
            /\ links'[l] = [links[l] EXCEPT !.verified = TRUE]
            /\ \A k \in DOMAIN links \ {l} : links'[k] = links[k]
        BY <3>1 DEF Verify, CapInv, IInv, TypeInv
      <3>3. /\ links'[l].user = links[l].user /\ links'[l].character = links[l].character
            /\ links'[l].main = links[l].main
        BY <3>2 DEF Link
      <3>4. QED
        BY <3>2, <3>3 DEF Of
    <2>3. QED
      BY <1>2, <2>1, <2>2
  <1>4. ASSUME NEW v \in Commands PROVE AddSound(command'[v])
    <2>1. PICK k : k = command'[v]
      OBVIOUS
    <2>2. CASE k = command[v]
      BY <2>1, <2>2 DEF CapInv
    <2>3. CASE k = NoCommand
      BY <2>1, <2>3 DEF AddSound, NoCommand, Quiet
    <2>4. CASE markVerified(w) /\ Goto(w, "verified") /\ v = w
      <3>1. command[w] \in RunningCommand
        BY <2>4 DEF CapInv, IInv, TypeInv, NoCommand, markVerified, At
      <3>2. k.pc = "verified"
        BY <2>1, <2>4, <3>1 DEF Goto, RunningCommand, CapInv, IInv, TypeInv
      <3>3. QED
        BY <2>1, <3>2 DEF AddSound, Quiet
    <2>5. QED
      BY <2>1, <2>2, <2>3, <2>4 DEF upsert, markVerified, Goto, End, CapInv, IInv, TypeInv
  <1>5. \A v \in Commands : command'[v] \in RunningCommand \cup {NoCommand}
    BY DEF IInv, TypeInv
  <1>6. QED
    BY <1>1, <1>3, <1>4, <1>5, NoInsertFits

(* Links that go make room. *)
LEMMA RemovedFits == ASSUME CapInv, IInv', NEW S, Removed(S) PROVE CapInv'
  <1>1. UNCHANGED raced /\ links' = [l \in DOMAIN links \ S |-> links[l]]
    BY DEF Removed, Delete, Without
  <1>2. \A u \in Users : \A l \in Of(u)' : /\ l \in Of(u) /\ links'[l].character = links[l].character
                                          /\ links'[l].main = links[l].main
    BY <1>1 DEF Of
  <1>3. \A v \in Commands : command'[v] \in RunningCommand \cup {NoCommand}
    BY DEF IInv, TypeInv
  <1>4. ASSUME NEW v \in Commands PROVE AddSound(command'[v])
    <2>1. PICK m : m = command[v]
      OBVIOUS
    <2>2. m \in RunningCommand \cup {NoCommand} /\ AddSound(m)
      BY <2>1 DEF CapInv, IInv, TypeInv
    <2>3. PICK n : n = command'[v]
      OBVIOUS
    <2>4. n = m \/ (m # NoCommand /\ n = [m EXCEPT !.disturbed = TRUE])
      BY <2>1, <2>3 DEF Removed
    <2>5. CASE n = m
      BY <2>2, <2>3, <2>5
    <2>6. CASE m # NoCommand /\ n = [m EXCEPT !.disturbed = TRUE]
      <3>1. /\ n.pc = m.pc /\ n.user = m.user /\ n.character = m.character
            /\ n.existing = m.existing /\ n.main = m.main
        BY <2>2, <2>6 DEF RunningCommand
      <3>2. AddSound(n)
        BY <2>2, <3>1 DEF AddSound
      <3>3. QED
        BY <2>3, <3>2
    <2>7. QED
      BY <2>4, <2>5, <2>6
  <1>5. QED
    BY <1>1, <1>2, <1>3, <1>4, NoInsertFits

(* What leaves the links and the commands alone. *)
LEMMA StutterFits == ASSUME CapInv, IInv', UNCHANGED <<links, command, raced>> PROVE CapInv'
  <1>1. \A u \in Users : \A l \in Of(u)' : /\ l \in Of(u) /\ links'[l].character = links[l].character
                                          /\ links'[l].main = links[l].main
    BY DEF Of
  <1>2. \A v \in Commands : command'[v] \in RunningCommand \cup {NoCommand} /\ AddSound(command'[v])
    BY DEF CapInv, IInv, TypeInv
  <1>3. QED
    BY <1>1, <1>2, NoInsertFits

LEMMA InitFits == Init => CapInv
  <1> SUFFICES ASSUME Init PROVE CapInv
    OBVIOUS
  <1>1. IInv /\ links = <<>>
    BY InitSound DEF TableInit
  <1>2. \A w \in Commands : AddSound(command[w])
    BY DEF Init, AddSound, NoCommand, Quiet
  <1>3. ASSUME NEW u \in Users PROVE CapOK(u)
    <2>1. Linked(u) = {} /\ Mains(u) = {}
      BY <1>1 DEF Of, Linked, Mains
    <2>2. QED
      BY <2>1, FS_EmptySet, LinksAssumption DEF CapOK
  <1>4. QED
    BY <1>1, <1>2, <1>3 DEF CapInv

LEMMA StepFits == ASSUME CapInv, IInv', [Next]_vars PROVE CapInv'
  <1>1. ASSUME NEW w \in Commands, Step(w) PROVE CapInv'
    BY <1>1, CountFits, CharacterFits, RecountFits, InsertFits, RewriteFits, CommentFits, FailsFits DEF Step
  <1>2. ASSUME NEW w \in Commands, NEW u \in Users, NEW c \in Characters, Start(w, u, c) PROVE CapInv'
    BY <1>2, AddFits, VerifyFits DEF Start
  <1>3. ASSUME NEW u \in Users, forgetEverything(u) \/ \E c \in Characters : remove(u, c) PROVE CapInv'
    BY <1>3, RemovedFits DEF forgetEverything, remove
  <1>4. ASSUME NEW a \in Avatars, Owners(a) PROVE CapInv'
    BY <1>4, StutterFits DEF Owners, WriteComment, Trade, Rename, table
  <1>5. CASE UNCHANGED vars
    BY <1>5, StutterFits DEF vars, table
  <1>6. QED
    BY <1>1, <1>2, <1>3, <1>4, <1>5 DEF Next

(* Whose adds run one after the other has no more characters than the cap, and one main one,     *)
(* however many other commands, removals, new names and failures go on (linkService.ts:38, :46). *)
THEOREM CapHoldsInTurn == Spec => []AddsInTurn
  <1>1. CapInv /\ IInv' /\ [Next]_vars => CapInv'
    BY StepFits
  <1>2. CapInv => AddsInTurn
    BY DEF CapInv, CapOK, Linked, Mains, AddsInTurn
  <1>3. QED
    BY <1>1, <1>2, InitFits, InductiveInvariant, PTL DEF Spec
=============================================================================
