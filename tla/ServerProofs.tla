---------------------------- MODULE ServerProofs ----------------------------
(***************************************************************************)
(* Proofs about Server, for every number of clients, of table entries, of  *)
(* descriptors and of commands.                                            *)
(***************************************************************************)
EXTENDS Server, SequenceTheorems, TLAPS

\* What every step relies on: the types, the table and the pass over it.
IndInv == TypeOK /\ TableMatchesKernel /\ EventsAreCurrent

-----------------------------------------------------------------------------
\* A handler that starts, or starts over, has the type of one.
LEMMA HandlerType ==
    ASSUME NEW f \in Fd, NEW c \in Conn
    PROVE  Handler(f, c) \in Threads
BY DEF Handler, Threads, Pc

LEMMA InitType == Init => TypeOK
<1> SUFFICES ASSUME Init PROVE TypeOK
  OBVIOUS
<1>. USE ServerAssumption
<1>1. 0 \in 0 .. MAXCLI - 1 /\ 0 \in 0 .. MaxSay
  OBVIOUS
<1>. QED BY <1>1 DEF Init, TypeOK, Unused

\* The steps of the clients and the network preserve the types.
LEMMA ClientType ==
    ASSUME TypeOK, NEW c \in Conn, Client(c)
    PROVE  TypeOK'
<1>. USE ServerAssumption
<1>1. CASE Connect(c)
  BY <1>1 DEF TypeOK, Connect, table
<1>2. CASE Say(c)
  <2>1. PICK cmd \in Commands : inq' = [inq EXCEPT ![c] = Append(@, cmd)]
    BY <1>2 DEF Say
  <2>2. inq' \in [Conn -> Seq(Cmd)]
    BY <2>1 DEF TypeOK, Cmd
  <2>. QED BY <1>2, <2>2 DEF TypeOK, Say, table
<1>3. CASE Read(c)
  BY <1>3 DEF TypeOK, Read, table
<1>4. CASE Quit(c)
  <2>1. inq' \in [Conn -> Seq(Cmd)]
    BY <1>4 DEF TypeOK, Quit, Cmd
  <2>. QED BY <1>4, <2>1 DEF TypeOK, Quit, table
<1>5. CASE Close(c)
  BY <1>5 DEF TypeOK, Close, table
<1>6. CASE Reset(c)
  BY <1>6 DEF TypeOK, Reset, table
<1>. QED BY <1>1, <1>2, <1>3, <1>4, <1>5, <1>6 DEF Client

-----------------------------------------------------------------------------
\* send() touches only the receiving connection, and keeps the types.
LEMMA SendType ==
    ASSUME TypeOK, NEW f \in Fd, Send(f)
    PROVE  /\ unread' \in [Conn -> BOOLEAN]
           /\ rst' \in [Conn -> {"none", "flight", "arrived"}]
<1>1. CASE UNCHANGED <<unread, rst>>
  BY <1>1 DEF TypeOK
<1>2. CASE /\ file[f] # NoConn
           /\ IF peer[file[f]] = "closed"
              THEN rst' = [rst EXCEPT ![file[f]] = "flight"] /\ UNCHANGED unread
              ELSE unread' = [unread EXCEPT ![file[f]] = TRUE] /\ UNCHANGED rst
  BY <1>2 DEF TypeOK
<1>. QED BY <1>1, <1>2 DEF Send

\* The steps of main() preserve the types.
LEMMA MainType ==
    ASSUME IndInv, Main
    PROVE  TypeOK'
<1>. USE ServerAssumption DEF IndInv
<1>1. CASE Poll
  <2>1. \A k \in 0 .. MAXCLI - 1 : Ready(k) \in {"none", "in", "hup"}
    BY DEF Ready
  <2>. QED BY <1>1, <2>1 DEF TypeOK, Poll, network
<1>2. CASE Accept
  <2>1. PICK f \in Fd :
            /\ file' = [file EXCEPT ![f] = Head(backlog)]
            /\ \/ \E k \in Slots :
                    /\ fds' = [fds EXCEPT ![k] = f]
                    /\ revents' = [revents EXCEPT ![k] = "in", ![0] = "none"]
                    /\ i' = k
                    /\ main' = "welcome"
               \/ /\ main' = "overrun"
                  /\ UNCHANGED <<fds, revents, i>>
    BY <1>2 DEF Accept
  <2>2. Head(backlog) \in Conn /\ Tail(backlog) \in Seq(Conn)
    BY <1>2 DEF TypeOK, EventsAreCurrent, Accept, At
  <2>3. file' \in [Fd -> Conn \cup {NoConn}]
    BY <2>1, <2>2 DEF TypeOK
  <2>4. /\ fds' \in [Slots -> Fd \cup {Unused}]
        /\ revents' \in [0 .. MAXCLI - 1 -> {"none", "in", "hup"}]
        /\ i' \in 0 .. MAXCLI - 1
        /\ main' \in {"welcome", "overrun"}
    <3>1. CASE UNCHANGED <<fds, revents, i>> /\ main' = "overrun"
      BY <3>1 DEF TypeOK
    <3>2. ASSUME NEW k \in Slots,
                 fds' = [fds EXCEPT ![k] = f],
                 revents' = [revents EXCEPT ![k] = "in", ![0] = "none"],
                 i' = k,
                 main' = "welcome"
          PROVE  <2>4!:
      BY <3>2 DEF TypeOK, Slots
    <3>. QED BY <2>1, <3>1, <3>2
  <2>. QED BY <1>2, <2>2, <2>3, <2>4 DEF TypeOK, Accept, network
<1>3. CASE AcceptFails
  BY <1>3 DEF TypeOK, AcceptFails, network, table
<1>4. CASE Welcome
  <2>1. fds[i] \in Fd /\ file[fds[i]] \in Conn
    BY <1>4 DEF TypeOK, TableMatchesKernel, EventsAreCurrent, Welcome
  <2>2. client_list' \subseteq [fd : Fd, conn : Conn]
    BY <1>4, <2>1 DEF TypeOK, Welcome, addNode
  <2>. QED BY <1>4, <2>1, <2>2, SendType DEF TypeOK, Welcome
<1>5. CASE Spawn
  <2>1. PICK k \in Slots : /\ revents[k] = "in"
                           /\ threads' = Append(threads, Handler(fds[k], file[fds[k]]))
                           /\ Pass(k)
    BY <1>5 DEF Spawn
  <2>2. fds[k] \in Fd /\ file[fds[k]] \in Conn
    BY <2>1 DEF TypeOK, TableMatchesKernel, EventsAreCurrent
  <2>3. threads' \in Seq(Threads)
    BY <2>1, <2>2, HandlerType DEF TypeOK
  <2>4. /\ revents' \in [0 .. MAXCLI - 1 -> {"none", "in", "hup"}]
        /\ main' \in {"scan", "poll"}
    BY <2>1 DEF TypeOK, Pass
  <2>. QED BY <1>5, <2>3, <2>4 DEF TypeOK, Spawn, network
<1>6. CASE Unlist
  <2>1. client_list' \subseteq client_list /\ i' \in Slots /\ main' = "close"
    BY <1>6 DEF Unlist, suppr, adresselist
  <2>. QED BY <1>6, <2>1 DEF TypeOK, Unlist, network, Slots
<1>7. CASE CloseSlot
  <2>1. i \in Slots /\ fds[i] \in Fd
    BY <1>7 DEF TypeOK, EventsAreCurrent, CloseSlot
  <2>2. /\ file' \in [Fd -> Conn \cup {NoConn}]
        /\ fds' \in [Slots -> Fd \cup {Unused}]
    BY <1>7, <2>1 DEF TypeOK, CloseSlot
  <2>3. /\ revents' \in [0 .. MAXCLI - 1 -> {"none", "in", "hup"}]
        /\ main' \in {"scan", "poll"}
        /\ i' \in 0 .. MAXCLI - 1
    BY <1>7, <2>1 DEF TypeOK, CloseSlot, Pass
  <2>. QED BY <1>7, <2>2, <2>3 DEF TypeOK, CloseSlot, network
<1>. QED BY <1>1, <1>2, <1>3, <1>4, <1>5, <1>6, <1>7 DEF Main

-----------------------------------------------------------------------------
\* The descriptors a command is written to are descriptors.
LEMMA TargetsType ==
    ASSUME TypeOK, NEW cmd, NEW own \in Fd, NEW targets \in Targets(cmd, own)
    PROVE  targets \subseteq Fd
<1>1. CASE cmd \in {"quit", "echo"}
  BY <1>1 DEF Targets
<1>2. CASE cmd \in {"say", "file"}
  BY <1>2 DEF Targets
<1>3. CASE cmd = "all"
  BY <1>3 DEF Targets, TypeOK
<1>4. CASE cmd \notin {"quit", "echo", "say", "file", "all"}
  BY <1>4 DEF Targets
<1>. QED BY <1>1, <1>2, <1>3, <1>4

\* Replacing one handler by another keeps the sequence of handlers typed.
LEMMA OneHandler ==
    ASSUME TypeOK, NEW t \in DOMAIN threads, NEW h \in Threads,
           threads' = [threads EXCEPT ![t] = h]
    PROVE  threads' \in Seq(Threads)
BY DEF TypeOK

\* The steps of the handlers preserve the types.
LEMMA HandleType ==
    ASSUME IndInv, NEW t \in DOMAIN threads, Handle(t)
    PROVE  TypeOK'
<1>. USE ServerAssumption DEF IndInv
<1>. DEFINE h == threads[t]
<1>0. h \in Threads
  BY DEF TypeOK
<1>6. Reply(h) \in Threads
  BY <1>0 DEF Reply, Threads, Pc
<1>1. CASE Recv(t)
  <2>1. [h EXCEPT !.on = file[h.fd],
                  !.pc = IF file[h.fd] = NoConn THEN "done" ELSE "recv"] \in Threads
    BY <1>0 DEF TypeOK, Threads, Pc
  <2>. QED BY <1>1, <2>1, OneHandler DEF TypeOK, Recv, network, table
<1>2. CASE Received(t)
  <2>. DEFINE c == h.on  cmd == Head(inq[c])
  <2>1. c \in Conn
    BY <1>0, <1>2 DEF Received, Step, Threads, EventsAreCurrent
  <2>2. cmd \in Cmd /\ inq' \in [Conn -> Seq(Cmd)]
    BY <1>2, <2>1 DEF Received, TypeOK
  <2>3. PICK targets \in Targets(cmd, h.fd) :
            \E asked \in IF cmd = "file" THEN targets ELSE {h.fd} :
                threads' = [threads EXCEPT ![t] =
                    IF targets = {} THEN Handler(h.fd, h.owner)
                    ELSE [h EXCEPT !.on = NoConn, !.cmd = cmd, !.todo = targets,
                                   !.asked = asked, !.pc = "send"]]
    BY <1>2 DEF Received
  <2>4. targets \subseteq Fd
    BY <1>0, <2>3, TargetsType DEF Threads
  <2>5. CASE targets = {}
    <3>1. Handler(h.fd, h.owner) \in Threads
      BY <1>0, HandlerType DEF Threads
    <3>2. threads' = [threads EXCEPT ![t] = Handler(h.fd, h.owner)]
      BY <2>3, <2>5
    <3>3. threads' \in Seq(Threads)
      BY <3>1, <3>2, OneHandler
    <3>. QED BY <1>2, <2>2, <3>3 DEF TypeOK, Received, table
  <2>6. CASE targets # {}
    <3>1. PICK asked \in IF cmd = "file" THEN targets ELSE {h.fd} :
            threads' = [threads EXCEPT ![t] =
                [h EXCEPT !.on = NoConn, !.cmd = cmd, !.todo = targets,
                          !.asked = asked, !.pc = "send"]]
      BY <2>3, <2>6
    <3>2. asked \in Fd
      BY <1>0, <2>4 DEF Threads
    <3>3. [h EXCEPT !.on = NoConn, !.cmd = cmd, !.todo = targets,
                    !.asked = asked, !.pc = "send"] \in Threads
      BY <1>0, <2>2, <2>4, <3>2 DEF Threads, Pc
    <3>. QED BY <1>2, <2>2, <3>1, <3>3, OneHandler DEF TypeOK, Received, table
  <2>. QED BY <2>5, <2>6
<1>3. CASE EndOfStream(t)
  <2>1. [h EXCEPT !.on = NoConn, !.pc = "done"] \in Threads
    BY <1>0 DEF Threads, Pc
  <2>. QED BY <1>3, <2>1, OneHandler DEF TypeOK, EndOfStream, network, table
<1>4. CASE Deliver(t)
  <2>1. PICK f \in h.todo :
            /\ Send(f)
            /\ threads' = [threads EXCEPT ![t] =
                    IF h.todo # {f} THEN [h EXCEPT !.todo = h.todo \ {f}]
                    ELSE IF h.cmd = "file" THEN [h EXCEPT !.todo = {}, !.pc = "ask"]
                    ELSE Handler(h.fd, h.owner)]
    BY <1>4 DEF Deliver
  <2>2. f \in Fd
    BY <1>0, <2>1 DEF Threads
  <2>3. /\ [h EXCEPT !.todo = h.todo \ {f}] \in Threads
        /\ [h EXCEPT !.todo = {}, !.pc = "ask"] \in Threads
        /\ Handler(h.fd, h.owner) \in Threads
    BY <1>0, HandlerType DEF Threads, Pc
  <2>4. threads' \in Seq(Threads)
    BY <2>1, <2>3, OneHandler
  <2>. QED BY <1>4, <2>1, <2>2, <2>4, SendType DEF TypeOK, Deliver, table
<1>5. CASE Ask(t)
  <2>. DEFINE c == file[h.asked]
  <2>1. [h EXCEPT !.on = c, !.pc = "await"] \in Threads
    BY <1>0 DEF TypeOK, Threads, Pc
  <2>. QED BY <1>5, <1>6, <2>1, OneHandler DEF TypeOK, Ask, network, table
<1>7. CASE Answered(t)
  <2>1. h.on \in Conn
    BY <1>0, <1>7 DEF Answered, Step, Threads, EventsAreCurrent
  <2>2. inq' \in [Conn -> Seq(Cmd)]
    BY <1>7, <2>1 DEF Answered, TypeOK
  <2>3. threads' \in Seq(Threads)
    BY <1>0, <1>6, <1>7, HandlerType, OneHandler DEF Answered, Threads
  <2>. QED BY <1>7, <2>2, <2>3 DEF TypeOK, Answered, table
<1>8. CASE NoAnswer(t)
  BY <1>6, <1>8, OneHandler DEF TypeOK, NoAnswer, network, table
<1>. QED BY <1>1, <1>2, <1>3, <1>4, <1>5, <1>7, <1>8 DEF Handle

-----------------------------------------------------------------------------
\* Whatever a step does, it does not touch the table, the pass over it or the
\* control point of main(): the state the table's invariant is about.
Still == UNCHANGED <<backlog, file, table, main>>

\* A handler blocked in recv() is blocked on a connection.
Blocked(th) == \A t \in DOMAIN th : th[t].pc \in {"recv", "await"} => th[t].on # NoConn

\* The table's invariant survives every step that leaves the table alone.
LEMMA StillInv ==
    ASSUME IndInv, TypeOK', Still, Blocked(threads')
    PROVE  IndInv'
<1>1. TableMatchesKernel'
  BY DEF IndInv, TableMatchesKernel, Still, table
<1>2. EventsAreCurrent'
  BY DEF IndInv, EventsAreCurrent, Still, table, Blocked
<1>. QED BY <1>1, <1>2 DEF IndInv

\* The clients preserve the invariant: they only lengthen the backlog.
LEMMA ClientInv ==
    ASSUME IndInv, NEW c \in Conn, Client(c)
    PROVE  IndInv'
<1>1. TypeOK'
  BY ClientType DEF IndInv
<1>2. CASE Connect(c)
  <2>1. backlog' # <<>>
    <3>1. backlog \in Seq(Conn)
      BY DEF IndInv, TypeOK
    <3>2. Append(backlog, c) # <<>>
      BY <3>1, AppendProperties
    <3>. QED BY <1>2, <3>2 DEF Connect
  <2>2. UNCHANGED <<file, table, main, threads>>
    BY <1>2 DEF Connect
  <2>. QED BY <1>1, <2>1, <2>2 DEF IndInv, TableMatchesKernel, EventsAreCurrent, table
<1>3. CASE Say(c) \/ Read(c) \/ Quit(c) \/ Close(c) \/ Reset(c)
  <2>1. Still /\ UNCHANGED threads
    BY <1>3 DEF Say, Read, Quit, Close, Reset, Still
  <2>. QED BY <1>1, <2>1, StillInv DEF IndInv, EventsAreCurrent, Blocked
<1>. QED BY <1>2, <1>3 DEF Client

\* A handler that is not blocked, or is blocked on a connection, may replace
\* any other.
LEMMA BlockedUpdate ==
    ASSUME TypeOK, EventsAreCurrent, NEW t \in DOMAIN threads, NEW h,
           threads' = [threads EXCEPT ![t] = h],
           h.pc \in {"recv", "await"} => h.on # NoConn
    PROVE  Blocked(threads')
BY DEF TypeOK, EventsAreCurrent, Blocked

\* The handlers preserve it: they never touch the table.
LEMMA HandleInv ==
    ASSUME IndInv, NEW t \in DOMAIN threads, Handle(t)
    PROVE  IndInv'
<1>1. TypeOK'
  BY HandleType
<1>2. Blocked(threads')
  <2>. DEFINE h == threads[t]
  <2>. USE BlockedUpdate DEF IndInv
  <2>1. CASE Recv(t)
    <3>. DEFINE new == [h EXCEPT !.on = file[h.fd],
                                 !.pc = IF file[h.fd] = NoConn THEN "done" ELSE "recv"]
    <3>1. threads' = [threads EXCEPT ![t] = new] /\ h \in Threads
      BY <2>1 DEF TypeOK, Recv
    <3>2. new.pc \in {"recv", "await"} => new.on # NoConn
      BY <3>1 DEF Threads
    <3>. HIDE DEF new
    <3>. QED BY <3>1, <3>2
  <2>0. h \in Threads
    BY DEF TypeOK
  <2>4. Reply(h).pc = "send" /\ Handler(h.fd, h.owner).pc = "loop"
    BY <2>0 DEF Threads, Reply, Handler
  <2>2. CASE Received(t)
    <3>. DEFINE new(targets, asked) == [h EXCEPT !.on = NoConn, !.cmd = Head(inq[h.on]),
                                                 !.todo = targets, !.asked = asked,
                                                 !.pc = "send"]
    <3>1. PICK targets, asked :
            \/ threads' = [threads EXCEPT ![t] = Handler(h.fd, h.owner)]
            \/ threads' = [threads EXCEPT ![t] = new(targets, asked)]
      BY <2>2 DEF Received
    <3>2. new(targets, asked).pc = "send"
      BY <2>0 DEF Threads
    <3>. HIDE DEF new
    <3>. QED BY <2>4, <3>1, <3>2
  <2>7. CASE Deliver(t)
    <3>. DEFINE rest(f) == [h EXCEPT !.todo = h.todo \ {f}]
                ask == [h EXCEPT !.todo = {}, !.pc = "ask"]
    <3>1. PICK f : \/ threads' = [threads EXCEPT ![t] = rest(f)]
                   \/ threads' = [threads EXCEPT ![t] = ask]
                   \/ threads' = [threads EXCEPT ![t] = Handler(h.fd, h.owner)]
      BY <2>7 DEF Deliver
    <3>2. rest(f).pc = "send" /\ ask.pc = "ask"
      BY <2>0, <2>7 DEF Threads, Deliver, Step
    <3>. HIDE DEF rest, ask
    <3>. QED BY <2>4, <3>1, <3>2
  <2>3. CASE EndOfStream(t)
    <3>. DEFINE new == [h EXCEPT !.on = NoConn, !.pc = "done"]
    <3>1. threads' = [threads EXCEPT ![t] = new] /\ h \in Threads
      BY <2>3 DEF TypeOK, EndOfStream
    <3>2. new.pc = "done"
      BY <3>1 DEF Threads
    <3>. QED BY <3>1, <3>2
  <2>5. CASE Ask(t)
    <3>. DEFINE c == file[h.asked]
                new == IF c = NoConn THEN Reply(h) ELSE [h EXCEPT !.on = c, !.pc = "await"]
    <3>1. threads' = [threads EXCEPT ![t] = new]
      BY <2>5 DEF Ask
    <3>2. new.pc \in {"recv", "await"} => new.on # NoConn
      BY <2>0, <2>4 DEF Threads
    <3>. QED BY <3>1, <3>2
  <2>6. CASE Answered(t) \/ NoAnswer(t)
    <3>1. \/ threads' = [threads EXCEPT ![t] = Reply(h)]
          \/ threads' = [threads EXCEPT ![t] = Handler(h.fd, h.owner)]
      BY <2>6 DEF Answered, NoAnswer
    <3>. QED BY <2>4, <3>1
  <2>. QED BY <2>1, <2>2, <2>3, <2>5, <2>6, <2>7 DEF Handle
<1>3. CASE Still
  BY <1>1, <1>2, <1>3, StillInv
<1>4. CASE UNCHANGED <<backlog, file, table>> /\ main' = "dead"
  <2>1. main # "overrun"
    BY DEF Handle, Recv, Received, EndOfStream, Deliver, Ask, Answered, adresselist, NoAnswer,
           Step, Running
  <2>2. TableMatchesKernel'
    BY <1>4, <2>1 DEF IndInv, TableMatchesKernel, table
  <2>3. EventsAreCurrent'
    BY <1>2, <1>4, <2>1 DEF IndInv, EventsAreCurrent, table, Blocked
  <2>. QED BY <1>1, <2>2, <2>3 DEF IndInv
<1>5. Still \/ (UNCHANGED <<backlog, file, table>> /\ main' = "dead")
  BY DEF Handle, Recv, Received, EndOfStream, Deliver, Ask, Answered, adresselist, NoAnswer, Still
<1>. QED BY <1>3, <1>4, <1>5

-----------------------------------------------------------------------------
\* The lowest free descriptor and the first unused slot go together, and past
\* the end of the table there is none free that the table has no slot for.
LEMMA SlotOfDescriptor ==
    ASSUME TypeOK, TableMatchesKernel, main # "overrun",
           NEW f \in Fd, LowestFree(f), NEW k \in Slots, FirstUnused(k)
    PROVE  f = k + 3
<1>. USE ServerAssumption DEF Slots, Fd
<1>1. ASSUME f < k + 3 PROVE FALSE
  <2>1. f - 3 \in Slots /\ f - 3 < k
    BY <1>1
  <2>2. fds[f - 3] # Unused
    BY <2>1 DEF FirstUnused
  <2>. QED BY <2>1, <2>2 DEF TableMatchesKernel, LowestFree
<1>2. ASSUME k + 3 < f PROVE FALSE
  <2>1. k + 3 \in Fd
    BY <1>2
  <2>2. file[k + 3] # NoConn
    BY <1>2, <2>1 DEF LowestFree
  <2>3. fds[(k + 3) - 3] = k + 3
    BY <2>1, <2>2 DEF TableMatchesKernel
  <2>. QED BY <2>3 DEF FirstUnused, Unused
<1>. QED BY <1>1, <1>2

\* main()'s steps preserve the invariant.
LEMMA MainInv ==
    ASSUME IndInv, Main
    PROVE  IndInv'
<1>. USE ServerAssumption
<1>0. TypeOK'
  BY MainType
<1>1. CASE Poll
  <2>1. \A k \in Slots : Ready(k) # "none" => fds[k] # Unused
    BY DEF Ready, Slots
  <2>2. Ready(0) # "hup" /\ (Ready(0) = "in" => backlog # <<>>)
    BY DEF Ready
  <2>3. revents' = [k \in 0 .. MAXCLI - 1 |-> Ready(k)] /\ main' = "scan"
    BY <1>1 DEF Poll
  <2>. QED BY <1>0, <1>1, <2>1, <2>2, <2>3
           DEF IndInv, TableMatchesKernel, EventsAreCurrent, Poll, Slots
<1>2. CASE AcceptFails
  <2>1. TableMatchesKernel'
    BY <1>2 DEF IndInv, TableMatchesKernel, AcceptFails, At, table
  <2>2. EventsAreCurrent'
    BY <1>2 DEF IndInv, EventsAreCurrent, AcceptFails, At, table
  <2>. QED BY <1>0, <2>1, <2>2 DEF IndInv
<1>3. CASE Welcome
  <2>1. TableMatchesKernel'
    BY <1>3 DEF IndInv, TableMatchesKernel, Welcome
  <2>2. EventsAreCurrent'
    BY <1>3 DEF IndInv, EventsAreCurrent, Welcome
  <2>. QED BY <1>0, <2>1, <2>2 DEF IndInv
<1>4. CASE Accept
  <2>1. Head(backlog) \in Conn
    BY <1>4 DEF IndInv, TypeOK, EventsAreCurrent, Accept, At
  <2>2. PICK f \in Fd : /\ LowestFree(f)
                        /\ file' = [file EXCEPT ![f] = Head(backlog)]
                        /\ \/ \E k \in Slots :
                                /\ FirstUnused(k)
                                /\ fds' = [fds EXCEPT ![k] = f]
                                /\ revents' = [revents EXCEPT ![k] = "in", ![0] = "none"]
                                /\ i' = k
                                /\ main' = "welcome"
                           \/ /\ \A k \in Slots : fds[k] # Unused
                              /\ main' = "overrun"
                              /\ UNCHANGED <<fds, revents, i>>
    BY <1>4 DEF Accept
  <2>3. CASE /\ main' = "overrun"
             /\ UNCHANGED <<fds, revents, i>>
    <3>1. TableMatchesKernel'
      BY <2>1, <2>2, <2>3 DEF IndInv, TypeOK, TableMatchesKernel
    <3>2. EventsAreCurrent'
      BY <1>4, <2>3 DEF IndInv, EventsAreCurrent, Accept
    <3>. QED BY <1>0, <3>1, <3>2 DEF IndInv
  <2>4. ASSUME NEW k \in Slots,
               FirstUnused(k),
               fds' = [fds EXCEPT ![k] = f],
               revents' = [revents EXCEPT ![k] = "in", ![0] = "none"],
               i' = k,
               main' = "welcome"
        PROVE  IndInv'
    <3>1. f = k + 3
      BY <1>4, <2>2, <2>4, SlotOfDescriptor DEF IndInv, Accept, At
    <3>2. TableMatchesKernel'
      <4>1. main # "overrun" /\ Head(backlog) # NoConn /\ k \in Nat
        BY <1>4, <2>1 DEF Accept, At, Slots
      <4>2. ASSUME NEW j \in Slots, fds'[j] # Unused
            PROVE  fds'[j] = j + 3 /\ file'[fds'[j]] # NoConn
        <5>1. CASE j = k
          <6>1. fds'[j] = f /\ file'[f] = Head(backlog)
            BY <2>2, <2>4, <5>1 DEF IndInv, TypeOK
          <6>. QED BY <3>1, <4>1, <5>1, <6>1
        <5>2. CASE j # k
          <6>1. fds'[j] = fds[j] /\ fds[j] = j + 3 /\ fds[j] \in Fd /\ file[fds[j]] # NoConn
            BY <2>4, <4>2, <5>2 DEF IndInv, TypeOK, TableMatchesKernel
          <6>. QED BY <2>2, <4>1, <6>1 DEF IndInv, TypeOK
        <5>. QED BY <5>1, <5>2
      <4>3. ASSUME NEW g \in Fd, file'[g] # NoConn
            PROVE  g - 3 \in Slots /\ fds'[g - 3] = g
        <5>1. CASE g = f
          BY <2>4, <3>1, <4>1, <5>1 DEF IndInv, TypeOK
        <5>2. CASE g # f
          <6>1. g - 3 \in Slots /\ fds[g - 3] = g
            BY <2>2, <4>1, <4>3, <5>2 DEF IndInv, TypeOK, TableMatchesKernel
          <6>2. g - 3 # k
            BY <3>1, <4>1, <5>2 DEF Fd
          <6>. QED BY <2>4, <6>1, <6>2 DEF IndInv, TypeOK
        <5>. QED BY <5>1, <5>2
      <4>. QED BY <4>2, <4>3 DEF TableMatchesKernel
    <3>3. EventsAreCurrent'
      <4>1. k # 0 /\ f # Unused /\ 0 \in 0 .. MAXCLI - 1 /\ k \in 0 .. MAXCLI - 1
        BY DEF Slots, Fd, Unused
      <4>2. revents'[0] = "none" /\ fds'[i'] # Unused /\ i' \in Slots
        BY <2>4, <4>1 DEF IndInv, TypeOK
      <4>3. \A j \in Slots : revents'[j] # "none" => fds'[j] # Unused
        BY <2>4, <4>1 DEF IndInv, TypeOK, EventsAreCurrent, Slots
      <4>. QED BY <1>4, <4>2, <4>3 DEF IndInv, EventsAreCurrent, Accept
    <3>. QED BY <1>0, <3>2, <3>3 DEF IndInv
  <2>. QED BY <2>2, <2>3, <2>4
<1>5. CASE Spawn
  <2>1. PICK k \in Slots : /\ At(k)
                           /\ revents[k] = "in"
                           /\ threads' = Append(threads, Handler(fds[k], file[fds[k]]))
                           /\ Pass(k)
    BY <1>5 DEF Spawn
  <2>2. TableMatchesKernel'
    BY <1>5, <2>1 DEF IndInv, TableMatchesKernel, Spawn, Pass, At
  <2>3. Handler(fds[k], file[fds[k]]).pc = "loop"
    BY DEF Handler
  <2>4. Blocked(threads')
    BY <2>1, <2>3 DEF IndInv, TypeOK, EventsAreCurrent, Blocked
  <2>5. revents'[0] = "none"
    BY <2>1 DEF At, Pass, Slots, IndInv, TypeOK
  <2>6. EventsAreCurrent'
    BY <1>5, <2>1, <2>4, <2>5 DEF IndInv, TypeOK, EventsAreCurrent, Blocked, Spawn, Pass, Slots
  <2>. QED BY <1>0, <2>2, <2>6 DEF IndInv
<1>6. CASE Unlist
  <2>1. TableMatchesKernel'
    BY <1>6 DEF IndInv, TableMatchesKernel, Unlist, At
  <2>2. EventsAreCurrent'
    BY <1>6 DEF IndInv, EventsAreCurrent, Unlist, At
  <2>. QED BY <1>0, <2>1, <2>2 DEF IndInv
<1>7. CASE CloseSlot
  <2>1. i \in Slots /\ fds[i] \in Fd /\ fds[i] = i + 3
    BY <1>7 DEF IndInv, TypeOK, TableMatchesKernel, EventsAreCurrent, CloseSlot
  <2>2. TableMatchesKernel'
    <3>1. /\ \A k \in Slots : fds'[k] = IF k = i THEN Unused ELSE fds[k]
          /\ \A f \in Fd : file'[f] = IF f = i + 3 THEN NoConn ELSE file[f]
          /\ main # "overrun"
      BY <1>7, <2>1 DEF IndInv, TypeOK, CloseSlot
    <3>2. \A k \in Slots : fds[k] # Unused => fds[k] \in Fd
      BY DEF IndInv, TypeOK
    <3>. QED BY <2>1, <3>1, <3>2 DEF IndInv, TableMatchesKernel, Slots, Fd
  <2>3. EventsAreCurrent'
    <3>1. revents[0] # "hup" /\ main # "overrun" /\ main' \in {"scan", "poll"}
      BY <1>7 DEF IndInv, EventsAreCurrent, CloseSlot, Pass
    <3>2. \A k \in Slots : revents'[k] # "none" => fds'[k] # Unused
      BY <1>7, <2>1 DEF IndInv, TypeOK, EventsAreCurrent, CloseSlot, Pass, Slots
    <3>3. revents'[0] = revents[0] /\ UNCHANGED <<backlog, threads>>
      BY <1>7, <2>1 DEF IndInv, TypeOK, CloseSlot, Pass, Slots
    <3>. QED BY <3>1, <3>2, <3>3 DEF IndInv, EventsAreCurrent
  <2>. QED BY <1>0, <2>2, <2>3 DEF IndInv
<1>. QED BY <1>1, <1>2, <1>3, <1>4, <1>5, <1>6, <1>7 DEF Main

-----------------------------------------------------------------------------
\* The invariant is inductive.
LEMMA Invariance == Spec => []IndInv
<1>1. Init => IndInv
  <2>1. Init => TableMatchesKernel
    BY ServerAssumption DEF Init, TableMatchesKernel
  <2>2. Init => EventsAreCurrent
    BY ServerAssumption DEF Init, EventsAreCurrent, Slots
  <2>. QED BY <2>1, <2>2, InitType DEF IndInv
<1>2. IndInv /\ [Next]_vars => IndInv'
  <2> SUFFICES ASSUME IndInv, [Next]_vars PROVE IndInv'
    OBVIOUS
  <2>1. CASE \E c \in Conn : Running /\ Client(c)
    BY <2>1, ClientInv
  <2>2. CASE Main
    BY <2>2, MainInv
  <2>3. CASE \E t \in DOMAIN threads : Handle(t)
    BY <2>3, HandleInv
  <2>4. CASE Killed
    <3>1. TypeOK'
      BY <2>4 DEF IndInv, TypeOK, Killed, network, table
    <3>2. TableMatchesKernel'
      BY <2>4 DEF IndInv, TableMatchesKernel, Killed, Running, table
    <3>3. EventsAreCurrent'
      BY <2>4 DEF IndInv, EventsAreCurrent, Killed, Running, table
    <3>. QED BY <3>1, <3>2, <3>3 DEF IndInv
  <2>5. CASE UNCHANGED vars
    BY <2>5 DEF IndInv, TypeOK, TableMatchesKernel, EventsAreCurrent, vars
  <2>. QED BY <2>1, <2>2, <2>3, <2>4, <2>5 DEF Next
<1>. QED BY <1>1, <1>2, PTL DEF Spec

\* Every variable keeps its type.
THEOREM TypeCorrect == Spec => []TypeOK
BY Invariance, PTL DEF IndInv

\* The poll() table and the process's descriptors stay in step, whatever the
\* order of arrivals and departures (server_poll2.c, lines 96 to 107 and 155).
THEOREM TableCorrect == Spec => []TableMatchesKernel
BY Invariance, PTL DEF IndInv

\* What poll() reported is still true when main() comes to it.
THEOREM EventsCorrect == Spec => []EventsAreCurrent
BY Invariance, PTL DEF IndInv

-----------------------------------------------------------------------------
\* The unbounded search for a slot never leaves the table of a process that
\* may open at most MAXCLI + 3 descriptors (server_poll2.c, line 103).
THEOREM SearchStaysInTable == Spec => []NeverOverrun
<1>. USE ServerAssumption
<1>1. Init => NeverOverrun
  BY DEF Init, NeverOverrun
<1>2. IndInv /\ NeverOverrun /\ [Next]_vars => NeverOverrun'
  <2> SUFFICES ASSUME IndInv, NeverOverrun, [Next]_vars, NoFile <= MAXCLI + 3
               PROVE  main' # "overrun"
    BY DEF NeverOverrun
  <2>1. CASE Accept
    <3>1. SUFFICES ASSUME NEW f \in Fd, LowestFree(f),
                          \A k \in Slots : fds[k] # Unused
                   PROVE  FALSE
      BY <2>1 DEF Accept
    <3>2. f - 3 \in Slots
      BY DEF Fd, Slots
    <3>3. fds[f - 3] = (f - 3) + 3 /\ file[fds[f - 3]] # NoConn
      BY <3>1, <3>2 DEF IndInv, TableMatchesKernel
    <3>. QED BY <3>1, <3>3 DEF LowestFree, Fd
  <2>2. CASE Next /\ ~ Accept
    BY <2>2 DEF NeverOverrun, Next, Client, Connect, Say, Read, Quit, Close, Reset, Main,
                Poll, AcceptFails, Welcome, addNode, Spawn, Unlist, suppr, adresselist,
                CloseSlot, Pass, Handle, Recv, Received, EndOfStream, Deliver, Ask, Answered, NoAnswer, Killed
  <2>3. CASE UNCHANGED vars
    BY <2>3 DEF NeverOverrun, vars
  <2>. QED BY <2>1, <2>2, <2>3
<1>. QED BY <1>1, <1>2, Invariance, PTL DEF Spec

-----------------------------------------------------------------------------
\* The connections that should be listed.
Listed == {g \in Fd : /\ file[g] # NoConn
                      /\ ~ (main \in {"welcome", "close"} /\ fds[i] = g)}
Node(f) == [fd |-> f, conn |-> file[f]]

\* A step of main() keeps the list and the table together.
LEMMA MainList ==
    ASSUME IndInv, Running, Running', client_list = {Node(f) : f \in Listed}, Main
    PROVE  client_list' = {Node(f) : f \in Listed}'
<1>. USE DEF IndInv
<1>1. CASE Poll \/ Spawn
  <2>1. /\ UNCHANGED <<client_list, file>>
        /\ main \in {"poll", "scan"}
        /\ main' \in {"poll", "scan"}
    BY <1>1 DEF Poll, Spawn, At, Pass
  <2>2. Listed' = Listed /\ \A f : Node(f)' = Node(f)
    BY <2>1 DEF Listed, Node
  <2>. QED BY <2>1, <2>2
<1>2. CASE Accept
  <2>1. PICK f \in Fd, k \in Slots :
            /\ LowestFree(f)
            /\ file' = [file EXCEPT ![f] = Head(backlog)]
            /\ fds' = [fds EXCEPT ![k] = f]
            /\ i' = k
            /\ main' = "welcome"
    BY <1>2 DEF Accept, Running
  <2>2. main = "scan" /\ client_list' = client_list
    BY <1>2 DEF Accept, At
  <2>3. fds'[i'] = f /\ f \notin Listed
    BY <2>1 DEF TypeOK, Listed, LowestFree
  <2>4. \A g \in Fd : g # f => file'[g] = file[g]
    BY <2>1 DEF TypeOK
  <2>5. Listed' = Listed
    BY <2>1, <2>2, <2>3, <2>4 DEF Listed
  <2>6. \A g \in Listed : Node(g)' = Node(g)
    BY <2>3, <2>4 DEF Node, Listed
  <2>. QED BY <2>2, <2>5, <2>6
<1>3. CASE AcceptFails
  BY <1>3 DEF AcceptFails, Running
<1>4. CASE Welcome
  <2>1. fds[i] \in Fd /\ file[fds[i]] # NoConn
    BY <1>4 DEF TypeOK, TableMatchesKernel, EventsAreCurrent, Welcome
  <2>2. Listed' = Listed \cup {fds[i]}
    BY <1>4, <2>1 DEF Listed, Welcome
  <2>3. client_list' = client_list \cup {Node(fds[i])} /\ \A f : Node(f)' = Node(f)
    BY <1>4 DEF Welcome, addNode, Node
  <2>. QED BY <2>2, <2>3
<1>5. CASE Unlist
  <2>1. PICK k \in Slots :
            /\ revents[k] # "none"
            /\ \/ \E n \in client_list : n.fd = fds[k] /\ client_list' = client_list \ {n}
               \/ \A n \in client_list : n.fd # fds[k]
            /\ i' = k
    BY <1>5 DEF Unlist, suppr, adresselist
  <2>2. main = "scan" /\ main' = "close" /\ UNCHANGED <<file, fds>>
    BY <1>5 DEF Unlist, At
  <2>3. fds[k] \in Listed
    BY <2>1, <2>2 DEF TypeOK, TableMatchesKernel, EventsAreCurrent, Listed
  <2>4. Node(fds[k]) \in client_list /\ Node(fds[k]).fd = fds[k]
    BY <2>3 DEF Node
  <2>5. PICK n \in client_list : n.fd = fds[k] /\ client_list' = client_list \ {n}
    BY <2>1, <2>4
  <2>6. n = Node(fds[k])
    BY <2>5 DEF Node
  <2>7. Listed' = Listed \ {fds[k]} /\ \A f : Node(f)' = Node(f)
    BY <2>1, <2>2 DEF Listed, Node
  <2>8. \A f \in Listed : Node(f) = Node(fds[k]) <=> f = fds[k]
    BY DEF Node
  <2>. QED BY <2>5, <2>6, <2>7, <2>8
<1>6. CASE CloseSlot
  <2>1. fds[i] \in Fd /\ fds[i] \notin Listed
    BY <1>6 DEF TypeOK, EventsAreCurrent, CloseSlot, Listed
  <2>2. /\ main = "close" /\ main' \in {"poll", "scan"} /\ client_list' = client_list
        /\ file' = [file EXCEPT ![fds[i]] = NoConn]
    BY <1>6 DEF CloseSlot, Pass
  <2>3. \A g \in Fd : file'[g] = IF g = fds[i] THEN NoConn ELSE file[g]
    BY <2>2 DEF TypeOK
  <2>4. Listed' = Listed
    BY <2>1, <2>2, <2>3 DEF Listed
  <2>5. \A g \in Listed : Node(g)' = Node(g)
    BY <2>1, <2>3 DEF Node, Listed
  <2>. QED BY <2>2, <2>4, <2>5
<1>. QED BY <1>1, <1>2, <1>3, <1>4, <1>5, <1>6 DEF Main

\* main()'s list has exactly one node for each polled connection, outside the
\* two places where one of them is being changed.
THEOREM ListCorrect == Spec => []ListMatchesTable
<1>. DEFINE Inv == Running => client_list = {Node(f) : f \in Listed}
<1>1. Init => Inv
  BY DEF Init, Listed
<1>2. IndInv /\ Inv /\ [Next]_vars => Inv'
  <2> SUFFICES ASSUME IndInv, Inv, [Next]_vars, Running' PROVE Inv'
    OBVIOUS
  <2>1. CASE Main
    <3>1. Running
      BY <2>1 DEF Main, Poll, Accept, AcceptFails, Welcome, Spawn, Unlist, CloseSlot, At, Running
    <3>. QED BY <2>1, <3>1, MainList
  <2>2. CASE \/ \E c \in Conn : Running /\ Client(c)
             \/ \E t \in DOMAIN threads : Handle(t)
             \/ Killed
             \/ UNCHANGED vars
    <3>1. UNCHANGED <<file, table, main>>
      <4>1. CASE \E c \in Conn : Running /\ Client(c)
        BY <4>1 DEF Client, Connect, Say, Read, Quit, Close, Reset
      <4>2. CASE \E t \in DOMAIN threads : Handle(t)
        BY <4>2 DEF Handle, Recv, Received, EndOfStream, Deliver, Ask, Answered,
                    NoAnswer, Running
      <4>. QED BY <2>2, <4>1, <4>2 DEF Killed, Running, vars, table
    <3>2. Listed' = Listed /\ \A f : Node(f)' = Node(f)
      BY <3>1 DEF Listed, Node, table
    <3>. QED BY <3>1, <3>2 DEF Running, table
  <2>. QED BY <2>1, <2>2 DEF Next
<1>3. Inv => ListMatchesTable
  BY DEF ListMatchesTable, Listed, Node
<1>. QED BY <1>1, <1>2, <1>3, Invariance, PTL DEF Spec
=============================================================================
