------------------------------- MODULE Server -------------------------------
(***************************************************************************)
(* The server process of EIRBCHAT (server_poll2.c) with the handler        *)
(* threads it starts (main_thread in server_utils.c), over the part of the *)
(* kernel's socket layer they rely on.                                     *)
(*                                                                         *)
(* One thread, "main", owns the poll() table fds and the list client_list: *)
(* it accepts, starts one handler thread for each connection, and reaps a  *)
(* connection on which poll() reports POLLHUP or POLLERR.  Handlers block  *)
(* in recv() and write to any descriptor, without any lock.                *)
(*                                                                         *)
(* A chat command is abstracted to the descriptors its handler writes to   *)
(* and, for FILE_REQUEST, the descriptor it then reads from.  The list of  *)
(* nicknames is the subject of NickList: here a nickname resolves to any   *)
(* descriptor.  Every thread step between two system calls is atomic.      *)
(***************************************************************************)
EXTENDS Integers, Sequences, FiniteSets

CONSTANTS Conn,       \* connections, one for each run of a client
          NoConn,     \* no connection
          MAXCLI,     \* number of entries of the poll() table (common.h)
          NoFile,     \* RLIMIT_NOFILE of the server process
          Commands,   \* commands clients type, beside /quit
          MaxSay      \* bound: commands the clients send, /quit aside

ASSUME ServerAssumption ==
    /\ NoConn \notin Conn
    /\ MAXCLI \in Nat \ {0, 1}
    /\ NoFile \in Nat
    /\ Commands \subseteq {"echo", "say", "all", "file", "yes", "no"}
    /\ MaxSay \in Nat

Slots == 1 .. MAXCLI - 1     \* fds[0] is the listening socket
Fd == 4 .. NoFile - 1        \* 0, 1, 2 are the terminal and 3 is sfd
Unused == -1

VARIABLES
    \* the clients and the network
    peer,        \* idle, open, leaving (/quit typed, close() not yet called), closed
    said,        \* number of commands typed so far
    inq,         \* commands received by the server's socket and not yet read
    unread,      \* does the client's socket hold bytes the client has not read?
    fin,         \* has the client's FIN reached the server?
    rst,         \* its RST: none, flight, arrived
    backlog,     \* connections established and not yet accepted
    \* the server process
    file,        \* its descriptor table: descriptor -> connection
    fds,         \* the poll() table: slot -> descriptor or Unused
    revents,     \* what poll() reported: none, in, hup
    main,        \* control point of main()
    i,           \* the slot being opened or closed, 0 if none
    client_list, \* nodes of the list of clients; conn stands for port, addr, time
    threads      \* the handlers started so far

network == <<peer, said, inq, unread, fin, rst>>
table == <<fds, revents, i, client_list>>
vars == <<peer, said, inq, unread, fin, rst, backlog,
          file, fds, revents, main, i, client_list, threads>>

Running == main \in {"poll", "scan", "welcome", "close"}
Online == {file[f] : f \in Fd} \ {NoConn}
Waiting == {backlog[n] : n \in DOMAIN backlog}

\* A handler: the descriptor it was given, the connection that descriptor
\* named at that time (a history field, the code has only fd), its control
\* point, the connection its recv() is blocked on, the command it serves,
\* the descriptors it still has to write to, the one it asked a file of.
Handler(f, c) == [fd |-> f, owner |-> c, pc |-> "loop", on |-> NoConn,
                  cmd |-> "none", todo |-> {}, asked |-> f]

-----------------------------------------------------------------------------
(***************************************************************************)
(* Clients.  A client that types /quit sends it and closes its socket      *)
(* without another read; any client may also die, which closes its socket. *)
(***************************************************************************)

Connect(c) ==
    /\ peer[c] = "idle"
    /\ peer' = [peer EXCEPT ![c] = "open"]
    /\ backlog' = Append(backlog, c)
    /\ UNCHANGED <<said, inq, unread, fin, rst, file, table, main, threads>>

Say(c) ==
    /\ peer[c] = "open"
    /\ said < MaxSay
    /\ \E cmd \in Commands : inq' = [inq EXCEPT ![c] = Append(@, cmd)]
    /\ said' = said + 1
    /\ UNCHANGED <<peer, unread, fin, rst, backlog, file, table, main, threads>>

Read(c) ==
    /\ peer[c] = "open"
    /\ unread[c]
    /\ unread' = [unread EXCEPT ![c] = FALSE]
    /\ UNCHANGED <<peer, said, inq, fin, rst, backlog, file, table, main, threads>>

Quit(c) ==
    /\ peer[c] = "open"
    /\ peer' = [peer EXCEPT ![c] = "leaving"]
    /\ inq' = [inq EXCEPT ![c] = Append(@, "quit")]
    /\ UNCHANGED <<said, unread, fin, rst, backlog, file, table, main, threads>>

\* Closing a TCP socket with unread bytes sends RST, otherwise FIN.
Close(c) ==
    /\ peer[c] \in {"open", "leaving"}
    /\ peer' = [peer EXCEPT ![c] = "closed"]
    /\ IF unread[c]
       THEN rst' = [rst EXCEPT ![c] = "flight"] /\ UNCHANGED fin
       ELSE fin' = [fin EXCEPT ![c] = TRUE] /\ UNCHANGED rst
    /\ unread' = [unread EXCEPT ![c] = FALSE]
    /\ UNCHANGED <<said, inq, backlog, file, table, main, threads>>

Reset(c) ==
    /\ rst[c] = "flight"
    /\ rst' = [rst EXCEPT ![c] = "arrived"]
    /\ UNCHANGED <<peer, said, inq, unread, fin, backlog, file, table, main, threads>>

-----------------------------------------------------------------------------
(***************************************************************************)
(* send(f, ...).  A descriptor that is closed makes it fail; data for a    *)
(* client that closed its socket is answered with RST; on a connection     *)
(* that was reset it fails, or raises SIGPIPE, which nothing handles.      *)
(***************************************************************************)

Send(f) ==
    LET c == file[f]
    IN  \/ /\ c = NoConn \/ (c # NoConn /\ rst[c] = "arrived")
           /\ UNCHANGED <<unread, rst>>
        \/ /\ c # NoConn
           /\ rst[c] # "arrived"
           /\ IF peer[c] = "closed"
              THEN rst' = [rst EXCEPT ![c] = "flight"] /\ UNCHANGED unread
              ELSE unread' = [unread EXCEPT ![c] = TRUE] /\ UNCHANGED rst

RaisesSIGPIPE(f) == file[f] # NoConn /\ rst[file[f]] = "arrived"

-----------------------------------------------------------------------------
(***************************************************************************)
(* main(): poll(), then one pass over the table.                           *)
(***************************************************************************)

\* Mutants of Ready: POLLIN is polled for on the clients too, and taken for a
\* hangup or for a new client.
ReadyHangup(k) ==
    IF k = 0 THEN IF backlog # <<>> THEN "in" ELSE "none"
    ELSE IF fds[k] # Unused /\ file[fds[k]] # NoConn /\ inq[file[fds[k]]] # <<>>
         THEN "hup" ELSE "none"

ReadyInput(k) ==
    IF k = 0 THEN IF backlog # <<>> THEN "in" ELSE "none"
    ELSE IF fds[k] # Unused /\ file[fds[k]] # NoConn /\ inq[file[fds[k]]] # <<>>
         THEN "in" ELSE "none"

\* events is POLLIN for the listening socket and 0 for every client, so that
\* poll() reports nothing of a client but POLLHUP and POLLERR.
Ready(k) ==
    IF k = 0 THEN IF backlog # <<>> THEN "in" ELSE "none"
    ELSE IF fds[k] # Unused /\ file[fds[k]] # NoConn /\ rst[file[fds[k]]] = "arrived"
         THEN "hup" ELSE "none"

Poll ==
    /\ main = "poll"
    /\ \E k \in 0 .. MAXCLI - 1 : Ready(k) # "none"
    /\ revents' = [k \in 0 .. MAXCLI - 1 |-> Ready(k)]
    /\ main' = "scan"
    /\ UNCHANGED <<network, backlog, file, fds, i, client_list, threads>>

\* The pass goes through the slots in order and does nothing at those poll()
\* reported nothing of.  It leaves revents as it is; here the entry it has
\* handled is cleared, since poll() writes it again before it is read.
At(k) == /\ main = "scan"
         /\ revents[k] # "none"
         /\ \A j \in 0 .. k - 1 : revents[j] = "none"

\* Mutant of Pass: main() does not go back to poll().
PassForever(k) ==
    /\ revents' = [revents EXCEPT ![k] = "none"]
    /\ main' = "scan"

Pass(k) ==
    /\ revents' = [revents EXCEPT ![k] = "none"]
    /\ main' = IF \E j \in k + 1 .. MAXCLI - 1 : revents[j] # "none" THEN "scan" ELSE "poll"

LowestFree(f) ==
    /\ file[f] = NoConn
    /\ \A g \in Fd : file[g] = NoConn => f <= g

FirstUnused(k) ==
    /\ fds[k] = Unused
    /\ \A j \in Slots : fds[j] = Unused => k <= j

\* accept() takes the lowest free descriptor; the search for a free slot has
\* no bound, and past the end of the table it reads and writes other memory.
Accept ==
    /\ At(0)
    /\ \E f \in Fd :
        /\ LowestFree(f)
        /\ file' = [file EXCEPT ![f] = Head(backlog)]
        /\ \/ \E k \in Slots :
                /\ FirstUnused(k)
                /\ fds' = [fds EXCEPT ![k] = f]
                /\ revents' = [revents EXCEPT ![k] = "in", ![0] = "none"]
                /\ i' = k
                /\ main' = "welcome"
           \/ /\ \A k \in Slots : fds[k] # Unused
              /\ main' = "overrun"
              /\ UNCHANGED <<fds, revents, i>>
    /\ backlog' = Tail(backlog)
    /\ UNCHANGED <<network, client_list, threads>>

\* accept() fails when no descriptor is left, and main() returns.
AcceptFails ==
    /\ At(0)
    /\ \A f \in Fd : file[f] # NoConn
    /\ main' = "exited"
    /\ UNCHANGED <<network, backlog, file, table, threads>>

\* The list of clients.  A descriptor has one node at most.
addNode(f, c) == client_list \cup {[fd |-> f, conn |-> c]}
adresselist(f) == {n \in client_list : n.fd = f}

\* suppr() unlinks the first node with the descriptor, if there is one.
suppr(f) ==
    \/ \E n \in adresselist(f) : client_list' = client_list \ {n}
    \/ adresselist(f) = {} /\ UNCHANGED client_list

\* The welcome message, then addNode, for the slot the new client was given.
Welcome ==
    /\ main = "welcome"
    /\ Send(fds[i])
    /\ client_list' = addNode(fds[i], file[fds[i]])
    /\ i' = 0
    /\ main' = "scan"
    /\ UNCHANGED <<peer, said, inq, fin, backlog, file, fds, revents, threads>>

Spawn ==
    \E k \in Slots :
        /\ At(k)
        /\ revents[k] = "in"
        /\ threads' = Append(threads, Handler(fds[k], file[fds[k]]))
        /\ Pass(k)
        /\ UNCHANGED <<network, backlog, file, fds, i, client_list>>

\* Mutants of Unlist: the slot is looked for in the list instead of its
\* descriptor; the slot is emptied before its descriptor is closed.
UnlistSlot ==
    \E k \in Slots :
        /\ At(k)
        /\ revents[k] = "hup"
        /\ client_list' = {n \in client_list : n.fd # k}
        /\ i' = k
        /\ main' = "close"
        /\ UNCHANGED <<network, backlog, file, fds, revents, threads>>

UnlistEmptied ==
    \E k \in Slots :
        /\ At(k)
        /\ revents[k] = "hup"
        /\ client_list' = {n \in client_list : n.fd # fds[k]}
        /\ fds' = [fds EXCEPT ![k] = Unused]
        /\ i' = k
        /\ main' = "close"
        /\ UNCHANGED <<network, backlog, file, revents, threads>>

\* A hangup: the client leaves the list (and the nicknames, see NickList).
Unlist ==
    \E k \in Slots :
        /\ At(k)
        /\ revents[k] = "hup"
        /\ suppr(fds[k])
        /\ i' = k
        /\ main' = "close"
        /\ UNCHANGED <<network, backlog, file, fds, revents, threads>>

\* Mutants of CloseSlot: the slot keeps the closed descriptor, or gets 0.
CloseSlotKept ==
    /\ main = "close"
    /\ file' = [file EXCEPT ![fds[i]] = NoConn]
    /\ Pass(i)
    /\ i' = 0
    /\ UNCHANGED <<network, backlog, fds, client_list, threads>>

CloseSlotZero ==
    /\ main = "close"
    /\ file' = [file EXCEPT ![fds[i]] = NoConn]
    /\ fds' = [fds EXCEPT ![i] = 0]
    /\ Pass(i)
    /\ i' = 0
    /\ UNCHANGED <<network, backlog, client_list, threads>>

CloseSlot ==
    /\ main = "close"
    /\ file' = [file EXCEPT ![fds[i]] = NoConn]
    /\ fds' = [fds EXCEPT ![i] = Unused]
    /\ Pass(i)
    /\ i' = 0
    /\ UNCHANGED <<network, backlog, client_list, threads>>

Main == Poll \/ Accept \/ AcceptFails \/ Welcome \/ Spawn \/ Unlist \/ CloseSlot

-----------------------------------------------------------------------------
(***************************************************************************)
(* main_thread(sockfd).  recv() resolves the descriptor when it is called  *)
(* and keeps the socket it found.                                          *)
(***************************************************************************)

Step(t, from) == Running /\ t \in DOMAIN threads /\ threads[t].pc = from

Recv(t) ==
    /\ Step(t, "loop")
    /\ LET c == file[threads[t].fd]
       IN  threads' = [threads EXCEPT ![t] =
                [@ EXCEPT !.on = c, !.pc = IF c = NoConn THEN "done" ELSE "recv"]]
    /\ UNCHANGED <<network, backlog, file, table, main>>

\* Mutant of Targets: no farewell.
TargetsNoFarewell(cmd, own) ==
    CASE cmd = "echo" -> {{own}}
      [] cmd \in {"say", "file"} -> {{f} : f \in Fd}
      [] cmd = "all" -> {{n.fd : n \in client_list}}
      [] OTHER -> {{}}

\* The descriptors a command makes its handler write to: its own (most commands,
\* and any that names an unknown nickname), the one a nickname resolves to, or
\* that of every node of client_list.  Several writes to one count as one.
Targets(cmd, own) ==
    CASE cmd \in {"quit", "echo"} -> {{own}}
      [] cmd \in {"say", "file"} -> {{f} : f \in Fd}
      [] cmd = "all" -> {{n.fd : n \in client_list}}
      [] OTHER -> {{}}

Received(t) ==
    /\ Step(t, "recv")
    /\ LET c == threads[t].on
           cmd == Head(inq[c])
       IN  /\ inq[c] # <<>>
           /\ inq' = [inq EXCEPT ![c] = Tail(@)]
           /\ \E targets \in Targets(cmd, threads[t].fd) :
              \E asked \in IF cmd = "file" THEN targets ELSE {threads[t].fd} :
                threads' = [threads EXCEPT ![t] =
                    IF targets = {} THEN Handler(@.fd, @.owner)
                    ELSE [@ EXCEPT !.on = NoConn, !.cmd = cmd, !.todo = targets,
                                   !.asked = asked, !.pc = "send"]]
    /\ UNCHANGED <<peer, said, unread, fin, rst, backlog, file, table, main>>

HungUp(c) == inq[c] = <<>> /\ (fin[c] \/ rst[c] = "arrived")

EndOfStream(t) ==
    /\ Step(t, "recv")
    /\ HungUp(threads[t].on)
    /\ threads' = [threads EXCEPT ![t] = [@ EXCEPT !.on = NoConn, !.pc = "done"]]
    /\ UNCHANGED <<network, backlog, file, table, main>>

\* Mutant of Deliver: the handler ends with the first command it has served.
DeliverOnce(t) ==
    /\ Step(t, "send")
    /\ \E f \in threads[t].todo :
        /\ Send(f)
        /\ threads' = [threads EXCEPT ![t] =
                IF @.todo # {f} THEN [@ EXCEPT !.todo = threads[t].todo \ {f}]
                ELSE [@ EXCEPT !.todo = {}, !.pc = "done"]]
    /\ UNCHANGED <<peer, said, inq, fin, backlog, file, table, main>>

\* One send() of the handler; after the last it returns to recv(), or, for
\* FILE_REQUEST, waits for the receiver's answer.
Deliver(t) ==
    /\ Step(t, "send")
    /\ \E f \in threads[t].todo :
        /\ Send(f)
        /\ threads' = [threads EXCEPT ![t] =
                IF @.todo # {f} THEN [@ EXCEPT !.todo = threads[t].todo \ {f}]
                ELSE IF @.cmd = "file" THEN [@ EXCEPT !.todo = {}, !.pc = "ask"]
                ELSE Handler(@.fd, @.owner)]
    /\ UNCHANGED <<peer, said, inq, fin, backlog, file, table, main>>

\* proc_p2p reads the answer from the receiver's own descriptor.
Reply(h) == [h EXCEPT !.on = NoConn, !.cmd = "reply", !.todo = {h.fd}, !.pc = "send"]

Ask(t) ==
    /\ Step(t, "ask")
    /\ LET c == file[threads[t].asked]
       IN  threads' = [threads EXCEPT ![t] =
                IF c = NoConn THEN Reply(@) ELSE [@ EXCEPT !.on = c, !.pc = "await"]]
    /\ UNCHANGED <<network, backlog, file, table, main>>

\* Whatever arrived is consumed.  Only FILE_ACCEPT and FILE_REJECT are passed
\* on; FILE_ACCEPT reads the receiver's node, NULL when it is not listed.
Answered(t) ==
    /\ Step(t, "await")
    /\ LET c == threads[t].on
       IN  /\ inq[c] # <<>>
           /\ inq' = [inq EXCEPT ![c] = Tail(@)]
           /\ threads' = [threads EXCEPT ![t] =
                IF Head(inq[c]) \in {"yes", "no"} THEN Reply(@) ELSE Handler(@.fd, @.owner)]
           /\ main' = IF Head(inq[c]) = "yes" /\ adresselist(threads[t].asked) = {}
                      THEN "dead" ELSE main
    /\ UNCHANGED <<peer, said, unread, fin, rst, backlog, file, table>>

NoAnswer(t) ==
    /\ Step(t, "await")
    /\ HungUp(threads[t].on)
    /\ threads' = [threads EXCEPT ![t] = Reply(@)]
    /\ UNCHANGED <<network, backlog, file, table, main>>

Handle(t) == Recv(t) \/ Received(t) \/ EndOfStream(t) \/ Deliver(t)
                \/ Ask(t) \/ Answered(t) \/ NoAnswer(t)

\* A send() on a connection that was reset may kill the process.
Killed ==
    /\ Running
    /\ \/ main = "welcome" /\ RaisesSIGPIPE(fds[i])
       \/ \E t \in DOMAIN threads :
            threads[t].pc = "send" /\ \E f \in threads[t].todo : RaisesSIGPIPE(f)
    /\ main' = "dead"
    /\ UNCHANGED <<network, backlog, file, table, threads>>

-----------------------------------------------------------------------------
Init ==
    /\ peer = [c \in Conn |-> "idle"]
    /\ said = 0
    /\ inq = [c \in Conn |-> <<>>]
    /\ unread = [c \in Conn |-> FALSE]
    /\ fin = [c \in Conn |-> FALSE]
    /\ rst = [c \in Conn |-> "none"]
    /\ backlog = <<>>
    /\ file = [f \in Fd |-> NoConn]
    /\ fds = [k \in Slots |-> Unused]
    /\ revents = [k \in 0 .. MAXCLI - 1 |-> "none"]
    /\ main = "poll"
    /\ i = 0
    /\ client_list = {}
    /\ threads = <<>>

Client(c) == Connect(c) \/ Say(c) \/ Read(c) \/ Quit(c) \/ Close(c) \/ Reset(c)

Next ==
    \/ \E c \in Conn : Running /\ Client(c)
    \/ Main
    \/ \E t \in DOMAIN threads : Handle(t)
    \/ Killed

Spec == Init /\ [][Next]_vars

\* The kernel schedules every thread and delivers every segment; a client
\* that typed /quit closes its socket at once.  Nothing makes a client type.
Fairness ==
    /\ WF_vars(Main)
    /\ \A t \in 1 .. Cardinality(Conn) : WF_vars(t \in DOMAIN threads /\ Handle(t))
    /\ \A c \in Conn : /\ WF_vars(Running /\ Reset(c))
                       /\ WF_vars(Running /\ peer[c] = "leaving" /\ Close(c))

FairSpec == Spec /\ Fairness

-----------------------------------------------------------------------------
(***************************************************************************)
(* Properties.                                                             *)
(***************************************************************************)

Pc == {"loop", "recv", "send", "ask", "await", "done"}
Cmd == Commands \cup {"quit"}

Threads == [fd : Fd, owner : Conn, pc : Pc, on : Conn \cup {NoConn},
            cmd : Cmd \cup {"none", "reply"}, todo : SUBSET Fd, asked : Fd]

\* Every variable has its type.
TypeOK ==
    /\ peer \in [Conn -> {"idle", "open", "leaving", "closed"}]
    /\ said \in 0 .. MaxSay
    /\ inq \in [Conn -> Seq(Cmd)]
    /\ unread \in [Conn -> BOOLEAN]
    /\ fin \in [Conn -> BOOLEAN]
    /\ rst \in [Conn -> {"none", "flight", "arrived"}]
    /\ backlog \in Seq(Conn)
    /\ file \in [Fd -> Conn \cup {NoConn}]
    /\ fds \in [Slots -> Fd \cup {Unused}]
    /\ revents \in [0 .. MAXCLI - 1 -> {"none", "in", "hup"}]
    /\ main \in {"poll", "scan", "welcome", "close", "dead", "exited", "overrun"}
    /\ i \in 0 .. MAXCLI - 1
    /\ client_list \subseteq [fd : Fd, conn : Conn]
    /\ threads \in Seq(Threads)

\* The poll() table and the process's descriptors stay in step: slot k holds
\* descriptor k + 3, which is open, or nothing, and every open descriptor is
\* polled.  Nothing in the code says so: it follows from the order in which
\* main() accepts, searches a slot and closes (server_poll2.c, lines 96 to 107
\* and 155), both searches taking the lowest.
TableMatchesKernel ==
    /\ \A k \in Slots : fds[k] # Unused => fds[k] = k + 3 /\ file[fds[k]] # NoConn
    /\ main # "overrun" =>
          \A f \in Fd : file[f] # NoConn => f - 3 \in Slots /\ fds[f - 3] = f

\* Whatever poll() reported is about a slot that is still in use when main()
\* comes to it, and so is the slot it opens or closes: a pass never starts a
\* handler for a slot it has emptied, closes one twice or accepts from an empty
\* queue.
EventsAreCurrent ==
    /\ \A k \in Slots : revents[k] # "none" => fds[k] # Unused
    /\ revents[0] # "hup"
    /\ main # "overrun" /\ revents[0] = "in" => backlog # <<>>
    /\ main \in {"welcome", "close"} => i \in Slots /\ fds[i] # Unused
    /\ \A t \in DOMAIN threads : threads[t].pc \in {"recv", "await"} => threads[t].on # NoConn

\* The unbounded search for a free slot (server_poll2.c, line 103) never
\* leaves the table, as long as the process may not open more descriptors
\* than the table has entries.
NeverOverrun == NoFile <= MAXCLI + 3 => main # "overrun"

\* main()'s list of clients has exactly one node for each polled connection,
\* outside the two places where one of them is being changed.
ListMatchesTable ==
    Running =>
        client_list = {[fd |-> f, conn |-> file[f]] :
            f \in {g \in Fd : /\ file[g] # NoConn
                             /\ ~ (main \in {"welcome", "close"} /\ fds[i] = g)}}

\* While its client is there a connection has one handler that was started for
\* it and has not ended, or main() is about to start it in the same pass: no
\* client is left without an answer, whichever descriptors were closed and
\* reused meanwhile, and no client gets two.
ServedWhileOpen ==
    Running => \A f \in Fd : file[f] # NoConn /\ peer[file[f]] # "closed" =>
        LET own == {t \in DOMAIN threads : threads[t].owner = file[f]}
        IN  \/ own = {} /\ revents[f - 3] = "in"
            \/ \E t \in own : own = {t} /\ threads[t].fd = f /\ threads[t].pc # "done"

\* The server is a queue of arrivals served up to the limit of descriptors:
\* first come first admitted, only a client that left is dropped, and never
\* twice.
Departed == {c \in Conn : peer[c] = "closed"}
Admitted == {c \in Conn : peer[c] # "idle"} \ Waiting

S == INSTANCE Sessions WITH Capacity <- IF NoFile < 4 THEN 0 ELSE NoFile - 4,
                            line <- backlog,
                            online <- Online,
                            left <- Departed,
                            dropped <- Admitted \ Online
ServesSessions == S!Spec

Down == ~ Running

\* The handler of c waits for the answer to a file request; some handler waits
\* for c's answer to one.
Waits(c) == \E t \in DOMAIN threads : threads[t].owner = c /\ threads[t].pc = "await"
Asked(c) == \E t \in DOMAIN threads : threads[t].on = c /\ threads[t].pc = "await"

\* A client that typed /quit is dropped by the server: its farewell makes the
\* closed socket answer with RST, the only thing main() polls for.  Two things
\* can prevent the farewell, both from proc_p2p reading an answer itself
\* (server_utils.c, line 774): the client's handler waits for an answer that
\* never comes, or one that waits for the client's answer takes the /quit.
QuitUnread(c) == \E n \in DOMAIN inq[c] : inq[c][n] = "quit"
QuitterReaped ==
    \A c \in Conn : QuitUnread(c)
                     ~> Down \/ c \in Admitted \ Online \/ Asked(c) \/ []Waits(c)

\* Whoever waits to be accepted is, unless the server stops: at the limit of
\* descriptors it does (server_poll2.c, line 99).
AcceptedEventually ==
    \A c \in Conn : c \in Waiting ~> Down \/ c \notin Waiting

\* What a connected client sent is eventually read by some handler, unless its
\* own waits for ever for the answer to a file request.
CommandsServed ==
    \A c \in Conn : c \in Online /\ inq[c] # <<>>
                     ~> Down \/ c \notin Online \/ inq[c] = <<>> \/ []Waits(c)

-----------------------------------------------------------------------------
(***************************************************************************)
(* What the comments promise and the code does not do.                     *)
(***************************************************************************)

\* "The server keeps track of connected clients" (README.md, line 58): one
\* that is gone does not stay connected.  A plain close sends FIN, which
\* main() does not poll for.
DepartedReaped ==
    \A c \in Conn : c \in Departed /\ c \in Online ~> Down \/ c \notin Online

\* "creation de MAXCLI threads pour chaque fd dispo" (server_poll2.c, line 67):
\* one thread reads a descriptor.  One that is not blocked in recv() while its
\* descriptor is closed and given again, because it has just been started or
\* serves a command, calls recv() on the next client's.
OneReaderPerConnection ==
    \A t \in DOMAIN threads :
        threads[t].pc = "recv" => threads[t].on = threads[t].owner

\* "file accept sent from receiver deliver response to sender"
\* (server_utils.c, line 781): the handler that waits for the answer gets it.
\* The receiver's own handler is blocked on the same socket and may take it.
AnswerReachesRequester ==
    [][\A s, t \in DOMAIN threads :
            /\ threads[s].pc = "await"
            /\ threads[t].pc = "recv"
            /\ threads[t].on = threads[s].on
            /\ inq[threads[s].on] # <<>>
            /\ Head(inq[threads[s].on]) = "yes"
            => threads'[t] = threads[t]]_vars
=============================================================================
