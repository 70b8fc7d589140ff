-------------------------------- MODULE Links --------------------------------
(***************************************************************************)
(* /link add, verify and remove, and what /memory forget does to links.    *)
(* A command is a sequence of statements and one call of TibiaData; others *)
(* run between any two of them.  Codes are random and taken to be all      *)
(* different; the comment of a character is the code in it, if any.  The   *)
(* table knows characters by name: an avatar is a character of tibia.com,  *)
(* which its owner may rename, and TibiaData finds it by any name it has   *)
(* had and answers with the present one.                                   *)
(***************************************************************************)
EXTENDS LinkTable

CONSTANTS
    Avatars, AvatarOf,  \* the characters themselves; whose a name is, was or will be: nobody takes over another's
    Commands,           \* commands under way
    LinkCap,            \* linkedCharacters of the tier of each user
    MaxLinks, MaxCodes, MaxTrades   \* bounds of an instance

ASSUME LinksAssumption ==
    /\ IsFiniteSet(Commands)
    /\ AvatarOf \in [Characters -> Avatars] /\ \A a \in Avatars : \E c \in Characters : AvatarOf[c] = a
    /\ LinkCap \in [Users -> Nat] /\ MaxLinks \in Nat /\ MaxCodes \in Nat /\ MaxTrades \in Nat

VARIABLES
    codes,      \* verify_code of a link, 0 for null
    lastCode,   \* codes handed out
    name,       \* of an avatar, at present
    known,      \* the names TibiaData finds an avatar by
    comment,    \* the code in the comment of an avatar
    owner,      \* whose avatar it is
    command

(* History. *)
VARIABLES
    issued,     \* the user and the avatar a code was issued for
    owned,      \* everybody who has owned an avatar
    raced       \* users who got a row of one more avatar while another add was under way

world == <<name, known, comment, owner, owned>>
vars == <<table, codes, lastCode, world, issued, raced, command>>

NoCommand == [pc |-> "none"]
Command(pc, u, c) == [pc |-> pc, user |-> u, character |-> c, existing |-> FALSE, main |-> FALSE,
                      code |-> 0, disturbed |-> FALSE]

Init ==
    /\ TableInit
    /\ codes = <<>> /\ lastCode = 0
    /\ name \in [Avatars -> Characters] /\ \A a \in Avatars : AvatarOf[name[a]] = a
    /\ known = {name[a] : a \in Avatars}
    /\ comment = [a \in Avatars |-> 0]
    /\ owner \in [Avatars -> Users]
    /\ owned = [a \in Avatars |-> {owner[a]}]
    /\ issued = <<>> /\ raced = {}
    /\ command = [w \in Commands |-> NoCommand]

-----------------------------------------------------------------------------
(* The owners of avatars. *)

(* The owner puts a code of one's own in the comment.  To take it out again allows nothing new. *)
WriteComment(a) ==
    /\ \E code \in 1..lastCode :
         /\ issued[code] = <<owner[a], a>>
         /\ comment' = [comment EXCEPT ![a] = code]
    /\ UNCHANGED <<table, codes, lastCode, name, known, owner, owned, issued, raced, command>>

(* The avatar changes hands, its comment with it. *)
Trade(a, u) ==
    /\ u \notin owned[a] /\ Cardinality({b \in Avatars : Cardinality(owned[b]) > 1}) < MaxTrades
    /\ owner' = [owner EXCEPT ![a] = u]
    /\ owned' = [owned EXCEPT ![a] = owned[a] \cup {u}]
    /\ UNCHANGED <<table, codes, lastCode, name, known, comment, issued, raced, command>>

(* The avatar gets another name; links keep the old one. *)
Rename(a, c) ==
    /\ AvatarOf[c] = a /\ c \notin known
    /\ name' = [name EXCEPT ![a] = c]
    /\ known' = known \cup {c}
    /\ UNCHANGED <<table, codes, lastCode, comment, owner, owned, issued, raced, command>>

-----------------------------------------------------------------------------
(* Commands. *)

At(w, pc) == command[w].pc = pc
User(w) == command[w].user
Character(w) == command[w].character
Goto(w, pc) == command' = [command EXCEPT ![w].pc = pc]
End(w) == command' = [command EXCEPT ![w] = NoCommand]
Avatar(w) == AvatarOf[Character(w)]
Reads == UNCHANGED <<table, codes, lastCode, world, issued, raced>>

(* The links of a user to an avatar, whatever name they have for it. *)
SameAvatar(u, a) == {l \in Of(u) : AvatarOf[links[l].character] = a}

(* findByName, with the name that was typed *)
add(w, u, c) ==
    /\ At(w, "none")
    /\ LinkOf(u, c) \cap Verified = {}
    /\ command' = [command EXCEPT ![w] = [Command(IF LinkOf(u, c) = {} THEN "count" ELSE "fetch", u, c)
                                            EXCEPT !.existing = LinkOf(u, c) # {}]]
    /\ Reads

(* MUTANT: one too many. *)
countForUser_OffByOne(w) ==
    /\ At(w, "count")
    /\ IF Cardinality(Of(User(w))) > LinkCap[User(w)] THEN End(w) ELSE Goto(w, "fetch")
    /\ Reads

countForUser(w) ==
    /\ At(w, "count")
    /\ IF Cardinality(Of(User(w))) >= LinkCap[User(w)] THEN End(w) ELSE Goto(w, "fetch")
    /\ Reads

(* From here on the command has the present name, not the one that was typed. *)
getCharacter(w) ==
    /\ At(w, "fetch")
    /\ IF Character(w) \in known
       THEN command' = [command EXCEPT ![w] = [@ EXCEPT !.pc = IF command[w].existing THEN "upsert" ELSE "recount",
                                                        !.character = name[Avatar(w)]]]
       ELSE End(w)
    /\ Reads

recount(w) ==
    /\ At(w, "recount")
    /\ command' = [command EXCEPT ![w] = [@ EXCEPT !.pc = "upsert", !.main = (Of(User(w)) = {})]]
    /\ Reads

Adding(v) == command[v].pc \in {"count", "fetch", "recount", "upsert"}

(* Another add of the same user that may insert a row of one more avatar as well: one that has  *)
(* counted the links or is about to, or one that has not because there was a row, which has     *)
(* gone meanwhile.                                                                              *)
Racing(w) == \E v \in Commands \ {w} :
                /\ Adding(v) /\ User(v) = User(w)
                /\ command[v].existing => SameAvatar(User(v), Avatar(v)) = {}

NewCode(w) ==
    /\ raced' = IF SameAvatar(User(w), Avatar(w)) = {} /\ Racing(w) THEN raced \cup {User(w)} ELSE raced
    /\ lastCode < MaxCodes
    /\ lastCode' = lastCode + 1
    /\ issued' = [k \in 1..lastCode' |-> IF k = lastCode' THEN <<User(w), Avatar(w)>> ELSE issued[k]]

(* MUTANT: the proof starts again. *)
upsert_Unverifies(w) ==
    /\ At(w, "upsert")
    /\ NewCode(w)
    /\ IF LinkOf(User(w), Character(w)) = {}
       THEN /\ lastLink < MaxLinks
            /\ Insert(User(w), Character(w), command[w].main)
            /\ codes' = [l \in DOMAIN links' |-> IF l = lastLink' THEN lastCode' ELSE codes[l]]
       ELSE /\ links' = [l \in DOMAIN links |-> IF l \in LinkOf(User(w), Character(w))
                                                THEN [links[l] EXCEPT !.verified = FALSE] ELSE links[l]]
            /\ codes' = [l \in DOMAIN codes |-> IF l \in LinkOf(User(w), Character(w)) THEN lastCode' ELSE codes[l]]
            /\ UNCHANGED lastLink
    /\ End(w)
    /\ UNCHANGED world

(* A link that is there keeps everything but its code, and if verified that too. *)
upsert(w) ==
    /\ At(w, "upsert")
    /\ NewCode(w)
    /\ IF LinkOf(User(w), Character(w)) = {}
       THEN /\ lastLink < MaxLinks
            /\ Insert(User(w), Character(w), command[w].main)
            /\ codes' = [l \in DOMAIN links' |-> IF l = lastLink' THEN lastCode' ELSE codes[l]]
       ELSE /\ codes' = [l \in DOMAIN codes |-> IF l \in LinkOf(User(w), Character(w)) \ Verified
                                                THEN lastCode' ELSE codes[l]]
            /\ UNCHANGED table
    /\ End(w)
    /\ UNCHANGED world

(* findByName *)
verify(w, u, c) ==
    /\ At(w, "none")
    /\ \E l \in LinkOf(u, c) \ Verified :
         command' = [command EXCEPT ![w] = [Command("comment", u, c) EXCEPT !.code = codes[l]]]
    /\ Reads

(* MUTANT: any comment will do. *)
getComment_Unchecked(w) ==
    /\ At(w, "comment")
    /\ Goto(w, "mark")
    /\ Reads

getComment(w) ==
    /\ At(w, "comment")
    /\ IF comment[Avatar(w)] = command[w].code THEN Goto(w, "mark") ELSE End(w)
    /\ Reads

(* MUTANT: the unique index refuses, and nobody hears of it. *)
markVerified_RefusalSwallowed(w) ==
    LET mine == LinkOf(User(w), Character(w))
    IN  /\ At(w, "mark")
        /\ IF mine \cap Verified = {} /\ mine # {} /\ Holders(Character(w)) = {}
           THEN /\ \E l \in mine : Verify(l)
                /\ codes' = [l \in DOMAIN codes |-> IF l \in mine THEN 0 ELSE codes[l]]
           ELSE UNCHANGED <<table, codes>>
        /\ Goto(w, "verified")
        /\ UNCHANGED <<lastCode, world, issued, raced>>

(* The row there is now, whatever its code; none, or one that is verified already, is
   no error.  The unique index refuses if another user holds the character. *)
markVerified(w) ==
    LET mine == LinkOf(User(w), Character(w))
    IN  /\ At(w, "mark")
        /\ IF mine \cap Verified = {} /\ mine # {}
           THEN IF Holders(Character(w)) = {}
                THEN /\ \E l \in mine : Verify(l)
                     /\ codes' = [l \in DOMAIN codes |-> IF l \in mine THEN 0 ELSE codes[l]]
                     /\ Goto(w, "verified")
                ELSE End(w) /\ UNCHANGED <<table, codes>>
           ELSE Goto(w, "verified") /\ UNCHANGED <<table, codes>>
        /\ UNCHANGED <<lastCode, world, issued, raced>>

reply(w) ==
    /\ At(w, "verified")
    /\ End(w)
    /\ Reads

(* A statement or the call fails, or TibiaData knows no such character. *)
CommandFails(w) ==
    /\ command[w].pc \in {"count", "fetch", "recount", "upsert", "comment", "mark"}
    /\ End(w)
    /\ Reads

(* One link, or all: the commands under way do not notice. *)
Removed(S) ==
    /\ Delete(S)
    /\ codes' = Without(codes, S)
    /\ command' = [w \in Commands |->
                     IF command[w] # NoCommand /\ LinkOf(User(w), Character(w)) \cap S # {}
                     THEN [command[w] EXCEPT !.disturbed = TRUE] ELSE command[w]]
    /\ UNCHANGED <<lastCode, world, issued, raced>>

remove(u, c) == Removed(LinkOf(u, c))
forgetEverything(u) == Removed(Of(u))

Start(w, u, c) == add(w, u, c) \/ verify(w, u, c)
Step(w) ==
    \/ countForUser(w) \/ getCharacter(w) \/ recount(w) \/ upsert(w)
    \/ getComment(w) \/ markVerified(w) \/ reply(w) \/ CommandFails(w)
Owners(a) == WriteComment(a) \/ (\E u \in Users : Trade(a, u)) \/ (\E c \in Characters : Rename(a, c))

Next ==
    \/ \E w \in Commands : Step(w) \/ \E u \in Users, c \in Characters : Start(w, u, c)
    \/ \E u \in Users : forgetEverything(u) \/ \E c \in Characters : remove(u, c)
    \/ \E a \in Avatars : Owners(a)

Spec == Init /\ [][Next]_vars

-----------------------------------------------------------------------------
(* Whatever the commands do to each other, their readers see the table of LinkTable: one  *)
(* verified owner, no link unverified or taken over (003_second_brain_core.sql:19).        *)
ImplementsTable == TableSpec

(* A user with a verified link has owned the character, under whatever name: the code in *)
(* the comment was issued to that user, even if the link was removed and added again     *)
(* meanwhile (linkService.ts:63).                                                        *)
OnlyOwnersVerify == \A l \in Verified : links[l].user \in owned[AvatarOf[links[l].character]]

(* Who is told that a character is verified has it verified, unless the link was       *)
(* removed while the command ran (linkService.ts:69 ignores what markVerified says).   *)
ToldVerifiedIsVerified ==
    \A w \in Commands :
      At(w, "verified") /\ ~command[w].disturbed => LinkOf(User(w), Character(w)) \cap Verified # {}

(* Whose adds run one after the other has no more characters than the cap, and one main one,   *)
(* even if a link goes while its code is issued again (linkService.ts:38 and :46 check what     *)
(* :47 writes two awaits later, and check nothing if there was a row).  The characters count,   *)
(* not the rows: who adds a character under its former name a second time gets a second row.    *)
AddsInTurn ==
    \A u \in Users \ raced :
      /\ Cardinality({AvatarOf[links[l].character] : l \in Of(u)}) <= LinkCap[u]
      /\ Cardinality({l \in Of(u) : links[l].main}) <= 1
=============================================================================
