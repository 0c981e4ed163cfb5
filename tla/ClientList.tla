----------------------------- MODULE ClientList -----------------------------
(***************************************************************************)
(* The list of connected clients of EIRBCHAT (client_list), node by node,  *)
(* and the global message wilcard: main() adds and removes clients         *)
(* (addNode, suppr) and fills wilcard for the welcome message, while the   *)
(* handlers walk the list for /msgall (proc_msg) and /whois (proc_who),    *)
(* and fill wilcard for the answer to the latter.  Nothing is locked.      *)
(*                                                                         *)
(* Clients are numbered in the order in which main() accepts them.  Only   *)
(* main() writes to the list: each of its writes is a step, its own walks  *)
(* are not.  Every access of a handler's walk is a step.  How nicknames    *)
(* are kept is left to NickList; here a client registers one of its own.   *)
(***************************************************************************)
EXTENDS Integers, Sequences, FiniteSets, SequencesExt

CONSTANTS NConn,   \* bound: clients ever accepted
          NoFile,  \* RLIMIT_NOFILE of the server process
          MaxNick, \* bound: clients that ask for a nickname
          MaxOp    \* bound: /msgall and /whois served

ASSUME ClientListAssumption == {NConn, NoFile, MaxNick, MaxOp} \subseteq Nat

Conn == 1 .. NConn
None == 0                \* no client
Fd == 4 .. NoFile - 1    \* 0, 1, 2 are the terminal and 3 is sfd
JunkFd == -2             \* what free() leaves of a node's fd
Junk == -1               \* and of the rest

Anchor == 0              \* the global variable itself, used as a node
Root == 1                \* the node of "root", fd 0
Null == -1
Node == 0 .. NConn + 1

VARIABLES
    next, fd, conn,  \* the fields of the nodes; conn is the client whose port and
                     \* time of connection they hold (addr points to the buffer
                     \* of inet_ntoa() in all of them: it tells of the last client
                     \* accepted, and nothing here depends on it)
    used,            \* the last node malloc() took from fresh memory
    cache,           \* freed nodes; malloc() takes the one freed last
    file,            \* the descriptor table of the process
    fdOf,            \* the descriptor each client's handler was given
    accepted,        \* clients accepted so far
    serving,         \* those with a handler, not reaped yet
    nicknames,       \* the clients with a nickname
    asked,           \* those that have asked for one
    main,            \* main(): control point, client it deals with, its node
    wilcard,         \* the message: for whom each part of it was written
    written,         \* the parts each filler has written since its memset()
    op,              \* what each client's handler is doing
    ops,             \* operations begun so far
    dead,            \* the client whose handler crashed the process
    overlap          \* history: the clients wilcard is being filled for, each
                     \* with those for whom it was written to meanwhile

list == <<next, fd, conn, used, cache>>
process == <<file, fdOf, accepted, serving>>
names == <<nicknames, asked>>
vars == <<next, fd, conn, used, cache, file, fdOf, accepted, serving, nicknames,
          asked, main, wilcard, written, op, ops, dead, overlap>>

\* The fields of wilcard, a write each (the text in infos counts as one).
Part == {"type", "nick_sender", "infos", "pld_len"}
Empty == [p \in Part |-> None]    \* wilcard after memset()

\* The order in which main() writes them, and the handler that answers /whois.
WelcomeOrder == <<"type", "nick_sender", "infos", "pld_len">>
AnswerOrder == <<"infos", "type", "pld_len", "nick_sender">>

Idle == [at |-> "poll", c |-> None, node |-> Null]

\* A handler's operation: control point, node reached, nodes counted or left
\* to visit, descriptor to write to or to look for, client asked about.  The
\* rest is history: the clients listed since the operation began, the copies
\* each of them was sent, has one been unlisted, has a freed node been used again?
Quiet == [at |-> "recv", cur |-> Null, n |-> 0, fd |-> JunkFd, who |-> None,
          got |-> [c \in Conn |-> 0], stayed |-> {}, left |-> FALSE, reused |-> FALSE]

\* The nodes of the list, in order.
Chain[n \in Node] == <<n>> \o (IF next[n] = Null THEN <<>> ELSE Chain[next[n]])
Listed == {conn[n] : n \in ToSet(Chain[Anchor])} \cap Conn
Busy(h) == op[h].at \notin {"recv", "nick"}

-----------------------------------------------------------------------------
(***************************************************************************)
(* wilcard, written by w.                                                  *)
(***************************************************************************)

Flush(w) ==
    /\ wilcard' = Empty
    /\ written' = [written EXCEPT ![w] = 0]
    /\ overlap' = [x \in DOMAIN overlap \cup {w} |->
                     IF x = w THEN {} ELSE overlap[x] \cup {w}]

Write(w, order) ==
    /\ wilcard' = [wilcard EXCEPT ![order[written[w] + 1]] = w]
    /\ written' = [written EXCEPT ![w] = @ + 1]
    /\ overlap' = [x \in DOMAIN overlap |-> IF x = w THEN overlap[x] ELSE overlap[x] \cup {w}]

Filled(w) == written'[w] = Len(WelcomeOrder)

Sent(w) == overlap' = [x \in DOMAIN overlap \ {w} |-> overlap[x]]

-----------------------------------------------------------------------------
(***************************************************************************)
(* main(): a new client is welcomed, then listed; its handler is started.  *)
(***************************************************************************)

\* accept() gives the lowest free descriptor; then memset() of wilcard.
Accept ==
    /\ main.at = "poll"
    /\ accepted < NConn
    /\ \E f \in Fd :
        /\ file[f] = None /\ \A g \in Fd : g < f => file[g] # None
        /\ file' = [file EXCEPT ![f] = accepted + 1]
        /\ fdOf' = [fdOf EXCEPT ![accepted + 1] = f]
    /\ main' = [at |-> "fill", c |-> accepted + 1, node |-> Null]
    /\ Flush(accepted + 1)
    /\ accepted' = accepted + 1
    /\ UNCHANGED <<list, serving, names, op, ops, dead>>

Fill ==
    /\ main.at = "fill"
    /\ Write(main.c, WelcomeOrder)
    /\ main' = IF Filled(main.c) THEN [main EXCEPT !.at = "welcome"] ELSE main
    /\ UNCHANGED <<list, process, names, op, ops, dead>>

\* send() of wilcard.
Welcome ==
    /\ main.at = "welcome"
    /\ Sent(main.c)
    /\ main' = [main EXCEPT !.at = "list"]
    /\ UNCHANGED <<list, process, names, wilcard, written, op, ops, dead>>

\* addNode: a node, from the cache if there is one.
List ==
    /\ main.at = "list"
    /\ LET n == IF cache = <<>> THEN used + 1 ELSE Head(cache)
       IN  /\ next' = [next EXCEPT ![n] = Null]
           /\ fd' = [fd EXCEPT ![n] = fdOf[main.c]]
           /\ conn' = [conn EXCEPT ![n] = main.c]
           /\ main' = [main EXCEPT !.at = "link", !.node = n]
    /\ IF cache = <<>> THEN used' = used + 1 /\ UNCHANGED <<cache, op>>
       ELSE /\ cache' = Tail(cache)
            /\ op' = [h \in Conn |-> [op[h] EXCEPT !.reused = Busy(h)]]
            /\ UNCHANGED used
    /\ UNCHANGED <<process, names, wilcard, written, ops, dead, overlap>>

\* It follows the last one; main() goes on to start the client's handler.
Link ==
    /\ main.at = "link"
    /\ next' = [next EXCEPT ![Last(Chain[Anchor])] = main.node]
    /\ serving' = serving \cup {main.c}
    /\ main' = Idle
    /\ UNCHANGED <<fd, conn, used, cache, file, fdOf, accepted, names, wilcard, written, op, ops,
                   dead, overlap>>

(***************************************************************************)
(* main(): a client has hung up.                                           *)
(***************************************************************************)

\* suppr: its node is unlinked,
Unlink(c) ==
    /\ main.at = "poll"
    /\ c \in serving
    /\ \E p, n \in Node :
        /\ {p, n} \subseteq ToSet(Chain[Anchor])
        /\ next[p] = n /\ fd[n] = fdOf[c]
        /\ next' = [next EXCEPT ![p] = next[n]]
        /\ main' = [at |-> "free", c |-> c, node |-> n]
    /\ op' = [h \in Conn |-> IF ~ Busy(h) THEN op[h]
             ELSE [op[h] EXCEPT !.stayed = @ \ {c}, !.got[c] = 0, !.left = TRUE]]
    /\ UNCHANGED <<fd, conn, used, cache, process, names, wilcard, written, ops, dead, overlap>>

\* then freed: its first fields, fd, port and addr, are written over, not its next;
Release ==
    /\ main.at = "free"
    /\ fd' = [fd EXCEPT ![main.node] = JunkFd]
    /\ conn' = [conn EXCEPT ![main.node] = Junk]
    /\ cache' = <<main.node>> \o cache
    /\ main' = [main EXCEPT !.at = "close", !.node = Null]
    /\ UNCHANGED <<next, used, process, names, wilcard, written, op, ops, dead, overlap>>

\* slot + 1 nicknames of its descriptor, whichever come first, go, and the
\* descriptor.
Close ==
    /\ main.at = "close"
    /\ LET f == fdOf[main.c]
           mine == {c \in nicknames : fdOf[c] = f}
       IN  /\ \E gone \in SUBSET mine :
                /\ gone = mine \/ Cardinality(gone) = f - 2
                /\ Cardinality(gone) <= f - 2
                /\ nicknames' = nicknames \ gone
           /\ file' = [file EXCEPT ![f] = None]
    /\ serving' = serving \ {main.c}
    /\ main' = Idle
    /\ UNCHANGED <<list, fdOf, accepted, asked, wilcard, written, op, ops, dead, overlap>>

-----------------------------------------------------------------------------
(***************************************************************************)
(* Handlers.                                                               *)
(***************************************************************************)

At(h, p) == op[h].at = p
Goto(h, new) == op' = [op EXCEPT ![h] = new]
Die(h) == dead' = h /\ UNCHANGED op

\* /nick: a nickname of its own; the client may have been reaped meanwhile.
AskNick(h) ==
    /\ At(h, "recv") /\ h \in serving
    /\ h \notin asked /\ Cardinality(asked) < MaxNick
    /\ asked' = asked \cup {h}
    /\ Goto(h, [Quiet EXCEPT !.at = "nick"])
    /\ UNCHANGED <<list, process, nicknames, main, wilcard, written, ops, dead, overlap>>

AddNick(h) ==
    /\ At(h, "nick")
    /\ nicknames' = nicknames \cup {h}
    /\ Goto(h, Quiet)
    /\ UNCHANGED <<list, process, asked, main, wilcard, written, ops, dead, overlap>>

Begin(h) ==
    /\ At(h, "recv") /\ h \in serving
    /\ ops < MaxOp
    /\ ops' = ops + 1
    /\ UNCHANGED <<list, process, names, main, wilcard, written, dead, overlap>>

\* /msgall, when a nickname is registered: count() the nodes,
Msgall(h) ==
    /\ nicknames # {}
    /\ Begin(h)
    /\ Goto(h, [Quiet EXCEPT !.at = "count", !.cur = Anchor, !.stayed = Listed])

Counting(h, less) ==
    /\ At(h, "count")
    /\ Goto(h, IF op[h].cur # Null
               THEN [op[h] EXCEPT !.n = @ + 1, !.cur = next[@]]
               ELSE [op[h] EXCEPT !.n = @ - less, !.cur = next[Anchor], !.at = "load"])
    /\ UNCHANGED <<list, process, names, main, wilcard, written, ops, dead, overlap>>

\* Mutants of Count: the anchor is visited too; the first node, or the client
\* itself, is not counted.
CountAll(h) == Counting(h, 0)
CountClients(h) == Counting(h, 2)
CountOthers(h) == Counting(h, 3)

Count(h) == Counting(h, 1)

\* then visit as many, less one: that of the anchor is not visited.
Load(h) ==
    /\ At(h, "load")
    /\ \/ /\ op[h].n = 0
          /\ Goto(h, Quiet) /\ UNCHANGED dead
       \/ /\ op[h].n > 0 /\ op[h].cur # Null
          /\ Goto(h, [op[h] EXCEPT !.at = "send", !.fd = fd[op[h].cur]]) /\ UNCHANGED dead
       \/ /\ op[h].n > 0 /\ op[h].cur = Null
          /\ Die(h)
    /\ UNCHANGED <<list, process, names, main, wilcard, written, ops, overlap>>

\* Mutant of Send: after the last node comes the first.
SendAround(h) ==
    /\ At(h, "send")
    /\ LET to == IF op[h].fd \in Fd THEN file[op[h].fd] ELSE None
       IN  Goto(h, [op[h] EXCEPT !.at = "load", !.n = @ - 1,
                                 !.cur = IF next[@] = Null THEN next[Anchor] ELSE next[@],
                                 !.got = [c \in Conn |->
                    IF c = to /\ c \in op[h].stayed THEN @[c] + 1 ELSE @[c]]])
    /\ UNCHANGED <<list, process, names, main, wilcard, written, ops, dead, overlap>>

\* echo2client writes to whoever has the descriptor now.
Send(h) ==
    /\ At(h, "send")
    /\ LET to == IF op[h].fd \in Fd THEN file[op[h].fd] ELSE None
       IN  Goto(h, [op[h] EXCEPT !.at = "load", !.n = @ - 1, !.cur = next[@],
                                 !.got = [c \in Conn |->
                    IF c = to /\ c \in op[h].stayed THEN @[c] + 1 ELSE @[c]]])
    /\ UNCHANGED <<list, process, names, main, wilcard, written, ops, dead, overlap>>

\* /whois of a nickname that exist_user() finds; it is asked again,
Whois(h, who) ==
    /\ who \in nicknames
    /\ Begin(h)
    /\ Goto(h, [Quiet EXCEPT !.at = "again", !.who = who, !.stayed = Listed])

Again(h) ==
    /\ At(h, "again")
    /\ Goto(h, [op[h] EXCEPT !.at = "seek", !.cur = Anchor,
                  !.fd = IF op[h].who \in nicknames THEN fdOf[op[h].who] ELSE -1])
    /\ UNCHANGED <<list, process, names, main, wilcard, written, ops, dead, overlap>>

\* Mutant of Seek: the list is taken for sorted.
SeekFrom(h) ==
    /\ At(h, "seek")
    /\ \/ op[h].cur = Null /\ Die(h)
       \/ /\ op[h].cur # Null
          /\ Goto(h, IF fd[op[h].cur] >= op[h].fd THEN [op[h] EXCEPT !.at = "read"]
                     ELSE [op[h] EXCEPT !.cur = next[@]])
          /\ UNCHANGED dead
    /\ UNCHANGED <<list, process, names, main, wilcard, written, ops, overlap>>

\* then adresselist() looks for the descriptor.  It may return NULL, which
\* proc_who uses.
Seek(h) ==
    /\ At(h, "seek")
    /\ \/ op[h].cur = Null /\ Die(h)
       \/ /\ op[h].cur # Null
          /\ Goto(h, IF fd[op[h].cur] = op[h].fd THEN [op[h] EXCEPT !.at = "read"]
                     ELSE [op[h] EXCEPT !.cur = next[@]])
          /\ UNCHANGED dead
    /\ UNCHANGED <<list, process, names, main, wilcard, written, ops, overlap>>

\* The node is read, and the string addr points to: that of a freed node points
\* nowhere.  Then memset() of wilcard.
ReadNode(h) ==
    /\ At(h, "read")
    /\ IF conn[op[h].cur] = Junk THEN Die(h) /\ UNCHANGED <<wilcard, written, overlap>>
       ELSE /\ Goto(h, [op[h] EXCEPT !.at = "write", !.n = conn[op[h].cur]])
            /\ Flush(h)
            /\ UNCHANGED dead
    /\ UNCHANGED <<list, process, names, main, ops>>

\* Mutant of WriteAnswer: memset() comes last.
WriteAnswerFlushed(h) ==
    /\ At(h, "write")
    /\ wilcard' = Empty /\ UNCHANGED <<written, overlap>>
    /\ Goto(h, [op[h] EXCEPT !.at = "answer"])
    /\ UNCHANGED <<list, process, names, main, ops, dead>>

WriteAnswer(h) ==
    /\ At(h, "write")
    /\ Write(h, AnswerOrder)
    /\ Goto(h, IF Filled(h) THEN [op[h] EXCEPT !.at = "answer"] ELSE op[h])
    /\ UNCHANGED <<list, process, names, main, ops, dead>>

Answer(h) ==
    /\ At(h, "answer")
    /\ Sent(h)
    /\ Goto(h, Quiet)
    /\ UNCHANGED <<list, process, names, main, wilcard, written, ops, dead>>

-----------------------------------------------------------------------------
Init ==
    /\ next = [n \in Node |-> IF n = Anchor THEN Root ELSE Null]
    /\ fd = [n \in Node |-> 0]
    /\ conn = [n \in Node |-> None]
    /\ used = Root /\ cache = <<>>
    /\ file = [f \in Fd |-> None]
    /\ fdOf = [c \in Conn |-> 0]
    /\ accepted = 0 /\ serving = {}
    /\ nicknames = {} /\ asked = {}
    /\ main = Idle
    /\ wilcard = Empty
    /\ written = [c \in Conn |-> 0]
    /\ op = [h \in Conn |-> Quiet]
    /\ ops = 0
    /\ dead = None
    /\ overlap = [x \in {} |-> {}]

Serve(h) == \/ AddNick(h) \/ Count(h) \/ Load(h) \/ Send(h)
            \/ Again(h) \/ Seek(h) \/ ReadNode(h) \/ WriteAnswer(h) \/ Answer(h)

Next ==
    /\ dead = None
    /\ \/ Accept \/ Fill \/ Welcome \/ List \/ Link
       \/ Release \/ Close \/ \E c \in Conn : Unlink(c)
       \/ \E h \in Conn : AskNick(h) \/ Msgall(h) \/ Serve(h) \/ \E who \in Conn : Whois(h, who)

Spec == Init /\ [][Next]_vars

-----------------------------------------------------------------------------
(***************************************************************************)
(* Properties.                                                             *)
(***************************************************************************)

Step == {"poll", "fill", "welcome", "list", "link", "free", "close"}
Operation == [at : {"recv", "nick", "count", "load", "send", "again", "seek", "read", "write",
                    "answer"},
              cur : Node \cup {Null}, n : Nat, fd : Fd \cup {0, -1, JunkFd},
              who : Conn \cup {None}, got : [Conn -> Nat],
              stayed : SUBSET Conn, left : BOOLEAN, reused : BOOLEAN]

\* Every variable has its type.
TypeOK ==
    /\ next \in [Node -> Node \cup {Null}]
    /\ fd \in [Node -> Fd \cup {0, JunkFd}]
    /\ conn \in [Node -> Conn \cup {None, Junk}]
    /\ used \in Node
    /\ cache \in Seq(Node)
    /\ file \in [Fd -> Conn \cup {None}]
    /\ fdOf \in [Conn -> Fd \cup {0}]
    /\ accepted \in 0 .. NConn /\ serving \subseteq 1 .. accepted
    /\ nicknames \subseteq asked /\ asked \subseteq Conn
    /\ main \in [at : Step, c : Conn \cup {None}, node : Node \cup {Null}]
    /\ wilcard \in [Part -> Conn \cup {None}]
    /\ written \in [Conn -> 0 .. Len(WelcomeOrder)]
    /\ op \in [Conn -> Operation]
    /\ ops \in 0 .. MaxOp
    /\ dead \in Conn \cup {None}
    /\ DOMAIN overlap \subseteq Conn /\ \A x \in DOMAIN overlap : overlap[x] \subseteq Conn

\* A /msgall ends, or crashes, once it has been sent to each client that was
\* listed all along, whoever came or left meanwhile; unless a node it may have
\* stood on was given to a new client (server_utils.c, lines 1265 to 1275).
Visiting(h) == op[h].at \in {"count", "load", "send"}
ReachesStayers ==
    [][\A h \in Conn :
        Visiting(h) /\ (op'[h] = Quiet \/ dead' = h) /\ ~ op[h].reused
            => \A c \in op[h].stayed : op[h].got[c] = 1]_vars

\* No such client is ever sent it twice.
NeverTwice == \A h \in Conn : \A c \in op[h].stayed : op[h].got[c] <= 1

\* A handler that walks the list crashes only because of a departure: a client
\* was unlisted since its command began, or was not listed any more although
\* its nickname, which is asked about, is.  New clients alone do no harm.
DiesOfDeparture == dead # None => op[dead].left \/ op[dead].who \notin op[dead].stayed \cup {None}

\* /whois of a client that is listed all along tells of that client, and does
\* not crash; with the same exception.
WhoisFinds ==
    [][\A h \in Conn :
        op[h].who \in op[h].stayed /\ ~ op[h].reused
            => /\ dead' # h
               /\ op'[h].at = "write" => op'[h].n = op[h].who]_vars

\* The welcome message or answer that is sent is, in every part, the one written
\* for that client, unless wilcard was written to for others meanwhile: then
\* each part is the client's own, one of those others' or empty, whatever the
\* writes overlap; never one written before.
OwnMessage ==
    [][\A c \in DOMAIN overlap \ DOMAIN overlap' : \A p \in Part :
        wilcard[p] \in IF overlap[c] = {} THEN {c} ELSE overlap[c] \cup {c, None}]_vars
=============================================================================
