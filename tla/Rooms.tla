------------------------------- MODULE Rooms -------------------------------
(***************************************************************************)
(* The rooms of EIRBCHAT (rooms and nicknames in server_utils.c): what     *)
(* /create, /join, /quit <room> and the registration of a nickname do to   *)
(* the list of rooms, to their members and to the room each nickname is    *)
(* recorded in.                                                            *)
(*                                                                         *)
(* A handler's whole command is one step here: what overlapping threads do *)
(* to such a list is the subject of NickList.                              *)
(*                                                                         *)
(* The code compares names in three ways: whole; without the last one or   *)
(* two characters (joinRoom); and, where a buffer is filled by strncpy()   *)
(* without its '\0' (exist_room, getnick), followed by whatever was in the *)
(* buffer.  The constants say which names such comparisons mistake for     *)
(* which; whether the leftover bytes are there is a choice of each call.   *)
(***************************************************************************)
EXTENDS Integers, Sequences, FiniteSets, SequencesExt

CONSTANTS Client,     \* descriptors of clients
          Name,       \* names of rooms
          MAINROOM,
          Nick,       \* nicknames clients choose
          EIRBADMIN,  \* the server's own
          AlikeBare,  \* pairs of names that agree but for the last two characters of the first
          AlikeLine,  \* pairs that agree but for its last one
          Extends,    \* pairs of which the second begins with the first
          AlikeNick,  \* as AlikeBare, for nicknames, the server's included: such pairs
                      \* for each number of bytes left after the first of the two
          MaxNodes    \* bound: nodes of the two lists

ASSUME RoomsAssumption ==
    /\ Client \subseteq Nat \ (0 .. 3)
    /\ MAINROOM \in Name
    /\ \A alike \in {AlikeBare, AlikeLine, Extends} :
          alike \subseteq Name \X Name /\ \A n \in Name : <<n, n>> \in alike
    /\ Extends \subseteq AlikeLine
    /\ EIRBADMIN \notin Nick
    /\ \A alike \in AlikeNick, n \in Nick \cup {EIRBADMIN} : <<n, n>> \in alike
    /\ MaxNodes \in Nat

\* A room as it is typed: /create cuts the '\n' off, /join and /quit leave it.
Bare(r) == [name |-> r, line |-> FALSE]
Line(r) == [name |-> r, line |-> TRUE]
Text == [name : Name, line : BOOLEAN]

VARIABLES rooms,      \* the list: names and members (active_users)
          nicknames,  \* the list: nick, fd and current_salon
          online,     \* descriptors of connected clients
          crashed     \* was the process killed by SIGSEGV?

vars == <<rooms, nicknames, online, crashed>>

-----------------------------------------------------------------------------
Named(rs, r) == {k \in DOMAIN rs : rs[k].name = r}
FirstOf(s) == CHOOSE k \in s : \A j \in s : k <= j

\* addRoom: the new room is the last, and empty.  supprRoom: the first goes.
addRoom(rs, r) == Append(rs, [name |-> r, active |-> {}])
supprRoom(rs, r) == RemoveAt(rs, FirstOf(Named(rs, r)))

\* exist_room(name): there is a room of that name, or of one that the bytes
\* left in name_trunc make of it; the same bytes can also hide the room.
ExistRoom(r) == \E k \in DOMAIN rooms : <<r, rooms[k].name>> \in Extends

Alike(text, r) == <<text.name, r>> \in (IF text.line THEN AlikeLine ELSE AlikeBare)

\* Mutants of Joined: the table of members is indexed by the slot of the
\* client; the text is compared whole, '\n' included.
JoinedSlot(rs, text, f) ==
    [k \in DOMAIN rs |->
        IF Alike(text, rs[k].name) THEN [rs[k] EXCEPT !.active = @ \cup {f - 3}] ELSE rs[k]]

JoinedWhole(rs, text, f) ==
    [k \in DOMAIN rs |->
        IF text = Bare(rs[k].name) THEN [rs[k] EXCEPT !.active = @ \cup {f}] ELSE rs[k]]

\* joinRoom, first part: the client becomes a member of every room the text is
\* taken for.
Joined(rs, text, f) ==
    [k \in DOMAIN rs |->
        IF Alike(text, rs[k].name) THEN [rs[k] EXCEPT !.active = @ \cup {f}] ELSE rs[k]]

\* Mutant of QuitRoom: MAINROOM is not spared.
QuitAnyRoom(rs, f, text) ==
    IF text.line \/ Named(rs, text.name) = {} THEN {rs}
    ELSE LET k == FirstOf(Named(rs, text.name))
             left == [rs EXCEPT ![k].active = @ \ {f}]
         IN  {left, supprRoom(left, text.name)}

\* Mutant of QuitRoom: the table of members is cleared, not the client's entry.
QuitRoomCleared(rs, f, text) ==
    IF text.line \/ Named(rs, text.name) = {} THEN {rs}
    ELSE LET k == FirstOf(Named(rs, text.name))
             left == [rs EXCEPT ![k].active = {}]
         IN  {left} \cup IF text.name # MAINROOM THEN {supprRoom(left, text.name)} ELSE {}

\* quitRoom: the client leaves the first room of exactly that name, which is
\* then deleted or not: the sum of its members starts from an uninitialized
\* variable and goes one entry past the table.
QuitRoom(rs, f, text) ==
    IF text.line \/ Named(rs, text.name) = {} THEN {rs}
    ELSE LET k == FirstOf(Named(rs, text.name))
             left == [rs EXCEPT ![k].active = @ \ {f}]
         IN  {left} \cup IF text.name # MAINROOM THEN {supprRoom(left, text.name)} ELSE {}

\* joinRoom, second part: the node it may take for the client's, the first of a
\* nickname like the first the client registered.
Mine(f) == {k \in DOMAIN nicknames : nicknames[k].fd = f}
LikeNick(nick, alike) == {k \in DOMAIN nicknames : <<nick, nicknames[k].nick>> \in alike}
TakenFor(f) ==
    IF Mine(f) = {} THEN {}
    ELSE {FirstOf(LikeNick(nicknames[FirstOf(Mine(f))].nick, alike)) : alike \in AlikeNick}

\* joinRoom(rs, text, f): the room recorded in the node it found is quitted
\* and replaced.  With no room, no node, or bytes left in nick_user, it fails
\* after the first part.
JoinRoom(rs, text, f) ==
    \/ /\ rooms' = Joined(rs, text, f)
       /\ UNCHANGED nicknames
    \/ /\ \E k \in DOMAIN rs : Alike(text, rs[k].name)
       /\ \E k \in TakenFor(f) :
            /\ rooms' \in QuitRoom(Joined(rs, text, f), f, nicknames[k].salon)
            /\ nicknames' = [nicknames EXCEPT ![k].salon = text]

-----------------------------------------------------------------------------
Accept(f) ==
    /\ f \notin online
    /\ online' = online \cup {f}
    /\ UNCHANGED <<rooms, nicknames, crashed>>

\* /nick: addNick joins MAINROOM, then appends the node.  A nickname in use is
\* refused.
AddNick(f, n) ==
    /\ Len(rooms) + Len(nicknames) < MaxNodes
    /\ \A k \in DOMAIN nicknames : nicknames[k].nick # n
    /\ rooms' = Joined(rooms, Bare(MAINROOM), f)
    /\ nicknames' = Append(nicknames, [nick |-> n, fd |-> f, salon |-> Bare(MAINROOM)])
    /\ UNCHANGED <<online, crashed>>

\* When joinRoom does find a node, the client's second nickname, it writes its
\* answer over the string constant "MAINROOM".
Crash(f, n) ==
    /\ \A k \in DOMAIN nicknames : nicknames[k].nick # n
    /\ TakenFor(f) # {}
    /\ crashed' = TRUE
    /\ UNCHANGED <<rooms, nicknames, online>>

\* /create r, exist_room() having found none, or missed it: the creator joins
\* the new room.
Create(f, r) ==
    /\ Len(rooms) + Len(nicknames) < MaxNodes
    /\ JoinRoom(addRoom(rooms, r), Bare(r), f)
    /\ UNCHANGED <<online, crashed>>

Join(f, r) ==
    /\ ExistRoom(r)
    /\ JoinRoom(rooms, Line(r), f)
    /\ UNCHANGED <<online, crashed>>

\* /quit r: quitRoom, then joinRoom of the same r.
Quit(f, r) ==
    /\ ExistRoom(r)
    /\ \E rs \in QuitRoom(rooms, f, Bare(r)) : JoinRoom(rs, Line(r), f)
    /\ UNCHANGED <<online, crashed>>

\* main() on a hangup: slot + 1 = f - 2 nicknames of f are removed, its
\* memberships stay.
Hangup(f) ==
    /\ online' = online \ {f}
    /\ LET gone == {k \in Mine(f) : Cardinality({j \in Mine(f) : j <= k}) <= f - 2}
           stay == DOMAIN nicknames \ gone
       IN  \E kept \in [1 .. Cardinality(stay) -> stay] :
             /\ \A j, k \in DOMAIN kept : j < k => kept[j] < kept[k]
             /\ nicknames' = [k \in DOMAIN kept |-> nicknames[kept[k]]]
    /\ UNCHANGED <<rooms, crashed>>

Init ==
    /\ rooms = <<[name |-> MAINROOM, active |-> {}]>>
    /\ nicknames = <<[nick |-> EIRBADMIN, fd |-> 0, salon |-> Bare(MAINROOM)]>>
    /\ online = {}
    /\ crashed = FALSE

Command(f) ==
    \/ \E n \in Nick : AddNick(f, n) \/ Crash(f, n)
    \/ \E r \in Name : Create(f, r) \/ Join(f, r) \/ Quit(f, r)
    \/ Hangup(f)

Next ==
    /\ ~ crashed
    /\ \/ \E f \in Client : Accept(f)
       \/ \E f \in online : Command(f)

Spec == Init /\ [][Next]_vars

-----------------------------------------------------------------------------
(***************************************************************************)
(* Properties.                                                             *)
(***************************************************************************)

\* Every variable has its type.
TypeOK ==
    /\ rooms \in Seq([name : Name, active : SUBSET Client])
    /\ nicknames \in Seq([nick : Nick \cup {EIRBADMIN}, fd : Client \cup {0}, salon : Text])
    /\ online \subseteq Client
    /\ crashed \in BOOLEAN

\* Whatever the clients create, join and quit, and however their names are
\* mistaken for others, MAINROOM stays and stays the first.
MainroomKept == rooms # <<>> /\ rooms[1].name = MAINROOM

\* A room but for what it is to f; the rooms a command of f may quit: the one it
\* names, or one recorded in a node it takes for its client's.
Others(room, f) == [room EXCEPT !.active = @ \ {f}]
Quits(f, r) == Quit(f, r) \/ \E k \in TakenFor(f) : nicknames[k].salon = Bare(r)

\* A command changes the memberships of its client alone.  A room that is there
\* after it was there before with the same other members, or is the last of the
\* list and has no others.  A room that was there before is still there with
\* them, unless the client quits it, and it is not MAINROOM: then it may be
\* deleted, whoever is in it.  (Which room is recorded as a client's is another
\* matter: TakenFor may be another client's node.)
OwnMembershipOnly ==
    [][\E f \in online :
          /\ \A k \in DOMAIN rooms' :
                \/ \E j \in DOMAIN rooms : Others(rooms'[k], f) = Others(rooms[j], f)
                \/ k = Len(rooms') /\ rooms'[k].active \subseteq {f}
          /\ \A k \in DOMAIN rooms :
                \/ \E j \in DOMAIN rooms' : Others(rooms'[j], f) = Others(rooms[k], f)
                \/ rooms[k].name # MAINROOM /\ Quits(f, rooms[k].name)]_rooms

In(f, r) == \E k \in DOMAIN rooms : f \in rooms[k].active /\ Alike(Line(r), rooms[k].name)

\* A client that is told it joined a room is in one its text is taken for,
\* unless such a room is recorded in a node taken for the client's: joinRoom()
\* then quits what it has just joined.
JoinedUnlessRecorded ==
    [][\A f \in online, r \in Name : Join(f, r) =>
          \/ In(f, r)'
          \/ \E k \in TakenFor(f) : /\ ~ nicknames[k].salon.line
                                    /\ Alike(Line(r), nicknames[k].salon.name)]_vars

-----------------------------------------------------------------------------
\* "getting him back to mainroom" (server_utils.c, line 1196): a client that
\* quits its room is in MAINROOM again.  joinRoom() is given the room quitted.
BackInMainroom ==
    [][\A f \in online, r \in Name \ {MAINROOM} :
          Quit(f, r) /\ (\E k \in Mine(f) : nicknames[k].salon.name = r)
            => f \in rooms'[1].active]_vars
=============================================================================
