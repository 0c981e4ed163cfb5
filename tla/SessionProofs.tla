--------------------------- MODULE SessionProofs ----------------------------
(***************************************************************************)
(* The life of a connection in Server, from accept() to close(), proved    *)
(* for every value of the constants: the server implements Sessions, and   *)
(* a client that is there has exactly one handler that serves it.          *)
(***************************************************************************)
EXTENDS ServerProofs, FiniteSetTheorems

\* Each connection is in one place: waiting once, or named by one descriptor.
OnePlace ==
    /\ \A m, n \in DOMAIN backlog : backlog[m] = backlog[n] => m = n
    /\ \A f, g \in Fd : file[f] # NoConn /\ file[f] = file[g] => f = g
    /\ \A n \in DOMAIN backlog, f \in Fd : file[f] # backlog[n]

\* Only a client that has connected is in one, and only one that has closed its
\* socket makes the kernel report anything.
Sincere ==
    /\ \A n \in DOMAIN backlog : peer[backlog[n]] # "idle"
    /\ \A f \in Fd : file[f] # NoConn => peer[file[f]] # "idle"
    /\ \A c \in Conn : fin[c] \/ rst[c] # "none" => peer[c] = "closed"

\* main() reaps departed clients only: between poll() and close() the slot that
\* poll() reported keeps its connection.
ReapsDeparted ==
    /\ \A k \in Slots : revents[k] = "hup" => peer[file[fds[k]]] = "closed"
    /\ main = "close" => peer[file[fds[i]]] = "closed"

SessionInv == OnePlace /\ Sincere /\ ReapsDeparted

\* The pass handles the slots in order and ends when nothing is left.
PassInOrder ==
    /\ main = "poll" => \A k \in 0 .. MAXCLI - 1 : revents[k] = "none"
    /\ main = "close" => \A k \in 0 .. i - 1 : revents[k] = "none"

\* A handler was started for a connection that was accepted, with the
\* descriptor that names it for as long as it is open, and no other handler was.
OwnHandler ==
    /\ \A t \in DOMAIN threads : peer[threads[t].owner] # "idle"
    /\ \A t \in DOMAIN threads, n \in DOMAIN backlog : threads[t].owner # backlog[n]
    /\ \A t \in DOMAIN threads, f \in Fd : file[f] = threads[t].owner => threads[t].fd = f
    /\ \A s, t \in DOMAIN threads : threads[s].owner = threads[t].owner => s = t

\* A connection has its handler, or the pass is yet to come to its slot.
Served ==
    /\ \A k \in Slots, t \in DOMAIN threads :
            revents[k] = "in" => threads[t].owner # file[fds[k]]
    /\ Running => \A f \in Fd : file[f] # NoConn =>
            \/ revents[f - 3] = "in"
            \/ \E t \in DOMAIN threads : threads[t].owner = file[f]

\* While its descriptor names its own connection a handler reads that one, and
\* ends only when the client has closed it.
Faithful ==
    \A t \in DOMAIN threads :
        file[threads[t].fd] = threads[t].owner =>
            /\ threads[t].pc = "recv" => threads[t].on = threads[t].owner
            /\ threads[t].pc = "done" => peer[threads[t].owner] = "closed"

HandlerInv == PassInOrder /\ OwnHandler /\ Served /\ Faithful

-----------------------------------------------------------------------------
\* send() makes a peer answer with RST only if it has closed its socket.
LEMMA SendResets ==
    ASSUME TypeOK, NEW f \in Fd, Send(f), NEW c \in Conn, rst'[c] # "none"
    PROVE  rst[c] # "none" \/ peer[c] = "closed"
BY DEF Send, TypeOK

\* A handler changes nothing a connection's place depends on.
LEMMA HandleFrame ==
    ASSUME TypeOK, NEW t \in DOMAIN threads, Handle(t)
    PROVE  /\ UNCHANGED <<peer, fin, backlog, file, table>>
           /\ main \in {"poll", "scan", "welcome", "close"} /\ main' \in {main, "dead"}
           /\ \A c \in Conn : rst'[c] # "none" => rst[c] # "none" \/ peer[c] = "closed"
<1>1. CASE Deliver(t)
  <2>1. PICK f \in threads[t].todo : Send(f)
    BY <1>1 DEF Deliver
  <2>2. threads[t] \in Threads
    BY DEF TypeOK
  <2>3. f \in Fd
    BY <2>1, <2>2 DEF Threads
  <2>. QED BY <1>1, <2>1, <2>3, SendResets DEF Deliver, Step, Running
<1>2. CASE Recv(t) \/ Received(t) \/ EndOfStream(t) \/ Ask(t) \/ Answered(t) \/ NoAnswer(t)
  BY <1>2 DEF Recv, Received, EndOfStream, Ask, Answered, NoAnswer, network, Step, Running
<1>. QED BY <1>1, <1>2 DEF Handle

\* Steps that move no connection keep each one in its place.
LEMMA Unmoved ==
    ASSUME OnePlace, Sincere, UNCHANGED <<backlog, file, peer, fin>>,
           \A c \in Conn : rst'[c] # "none" => rst[c] # "none" \/ peer[c] = "closed"
    PROVE  OnePlace' /\ Sincere'
BY DEF OnePlace, Sincere

\* What main() has still to reap stays reapable while it does other things.
LEMMA StillReaps ==
    ASSUME ReapsDeparted, UNCHANGED <<peer, file, fds>>, i' = i \/ main' # "close",
           \A k \in Slots : revents'[k] = "hup" => revents[k] = "hup",
           main' = "close" => main = "close"
    PROVE  ReapsDeparted'
BY DEF ReapsDeparted

\* A slot that is in use names a connection by a descriptor of its own.
LEMMA SlotInUse ==
    ASSUME TypeOK, TableMatchesKernel, NEW k \in Slots, fds[k] # Unused
    PROVE  fds[k] \in Fd /\ fds[k] = k + 3 /\ file[fds[k]] \in Conn
BY DEF TypeOK, TableMatchesKernel

\* The clients' steps preserve the invariant.
LEMMA ClientSession ==
    ASSUME IndInv, SessionInv, NEW c \in Conn, Client(c)
    PROVE  SessionInv'
<1>. USE DEF IndInv, SessionInv
<1>1. CASE Connect(c)
  <2>1. /\ backlog \in Seq(Conn)
        /\ backlog' = Append(backlog, c)
        /\ peer[c] = "idle"
        /\ \A d \in Conn : peer'[d] = IF d = c THEN "open" ELSE peer[d]
        /\ UNCHANGED <<file, fin, rst, fds, revents, i, main>>
    BY <1>1 DEF TypeOK, Connect, table
  <2>2. /\ \A n \in DOMAIN backlog' :
              \/ n \in DOMAIN backlog /\ backlog'[n] = backlog[n]
              \/ n = Len(backlog) + 1 /\ backlog'[n] = c
        /\ \A n \in DOMAIN backlog : backlog[n] \in Conn /\ n # Len(backlog) + 1
    BY <2>1
  <2>3. \A n \in DOMAIN backlog : backlog[n] # c
    BY <2>1, <2>2 DEF Sincere
  <2>4. \A f \in Fd : file[f] # c /\ file[f] \in Conn \cup {NoConn}
    BY <2>1, ServerAssumption DEF Sincere, TypeOK
  <2>5. OnePlace'
    BY <2>1, <2>2, <2>3, <2>4 DEF OnePlace
  <2>6. Sincere'
    <3>1. \A n \in DOMAIN backlog' : peer'[backlog'[n]] # "idle"
      BY <2>1, <2>2, <2>3 DEF Sincere
    <3>2. \A f \in Fd : file'[f] # NoConn => peer'[file'[f]] # "idle"
      BY <2>1, <2>4 DEF Sincere
    <3>3. \A d \in Conn : fin'[d] \/ rst'[d] # "none" => peer'[d] = "closed"
      BY <2>1 DEF Sincere
    <3>. QED BY <3>1, <3>2, <3>3 DEF Sincere
  <2>7. \A k \in Slots : fds[k] # Unused => file[fds[k]] \in Conn /\ file[fds[k]] # c
    BY <2>4, SlotInUse
  <2>8. ReapsDeparted'
    BY <2>1, <2>7 DEF ReapsDeparted, EventsAreCurrent
  <2>. QED BY <2>5, <2>6, <2>8
<1>2. CASE Quit(c) \/ Close(c)
  <2>1. /\ UNCHANGED <<backlog, file, fds, revents, i, main>>
        /\ peer[c] # "closed"
        /\ \A d \in Conn : \/ d # c /\ peer'[d] = peer[d]
                           \/ d = c /\ peer'[d] \in {"leaving", "closed"}
        /\ \A d \in Conn : fin'[d] \/ rst'[d] # "none" =>
                fin[d] \/ rst[d] # "none" \/ peer'[d] = "closed"
    BY <1>2 DEF TypeOK, Quit, Close, table
  <2>2. \A d \in Conn : /\ peer[d] # "idle" => peer'[d] # "idle"
                        /\ peer[d] = "closed" => peer'[d] = "closed"
    BY <2>1
  <2>3. OnePlace'
    BY <2>1 DEF OnePlace
  <2>4. Sincere'
    BY <2>1, <2>2 DEF Sincere, TypeOK
  <2>5. \A k \in Slots : fds[k] # Unused => file[fds[k]] \in Conn
    BY SlotInUse
  <2>6. ReapsDeparted'
    BY <2>1, <2>2, <2>5 DEF ReapsDeparted, EventsAreCurrent
  <2>. QED BY <2>3, <2>4, <2>6
<1>3. CASE Say(c) \/ Read(c) \/ Reset(c)
  <2>1. /\ UNCHANGED <<backlog, file, peer, fin, table, main>>
        /\ \A d \in Conn : rst'[d] # "none" => rst[d] # "none"
    BY <1>3 DEF TypeOK, Say, Read, Reset
  <2>. QED BY <2>1, Unmoved, StillReaps DEF table
<1>. QED BY <1>1, <1>2, <1>3 DEF Client

\* accept() takes the oldest connection off the backlog and names it with a
\* descriptor that named none.
LEMMA AcceptMoves ==
    ASSUME IndInv, Accept
    PROVE  \E f \in Fd :
            /\ file[f] = NoConn
            /\ backlog # <<>> /\ backlog' = Tail(backlog)
            /\ Head(backlog) \in Conn
            /\ file' = [file EXCEPT ![f] = Head(backlog)]
            /\ UNCHANGED <<network, threads>>
            /\ main' \in {"welcome", "overrun"}
            /\ \/ \E k \in Slots : /\ fds[k] = Unused
                                   /\ fds' = [fds EXCEPT ![k] = f]
                                   /\ revents' = [revents EXCEPT ![k] = "in", ![0] = "none"]
                                   /\ i' = k
               \/ main' = "overrun" /\ UNCHANGED <<fds, revents, i>>
<1>1. backlog # <<>> /\ Head(backlog) \in Conn
  <2>1. main = "scan" /\ revents[0] # "none"
    BY DEF Accept, At
  <2>2. revents[0] \in {"none", "in", "hup"}
    BY ServerAssumption DEF IndInv, TypeOK
  <2>. QED BY <2>1, <2>2 DEF IndInv, TypeOK, EventsAreCurrent
<1>. QED BY <1>1 DEF Accept, LowestFree, FirstUnused

LEMMA AcceptSession ==
    ASSUME IndInv, SessionInv, Accept
    PROVE  SessionInv'
<1>. USE DEF IndInv, SessionInv
<1>1. PICK f \in Fd :
            /\ file[f] = NoConn
            /\ backlog # <<>> /\ backlog' = Tail(backlog)
            /\ Head(backlog) \in Conn
            /\ file' = [file EXCEPT ![f] = Head(backlog)]
            /\ UNCHANGED <<network, threads>>
            /\ main' \in {"welcome", "overrun"}
            /\ \/ \E k \in Slots : /\ fds[k] = Unused
                                   /\ fds' = [fds EXCEPT ![k] = f]
                                   /\ revents' = [revents EXCEPT ![k] = "in", ![0] = "none"]
                                   /\ i' = k
               \/ main' = "overrun" /\ UNCHANGED <<fds, revents, i>>
  BY AcceptMoves
<1>2. /\ 1 \in DOMAIN backlog /\ Head(backlog) = backlog[1]
      /\ \A n \in DOMAIN backlog' : n + 1 \in DOMAIN backlog /\ backlog'[n] = backlog[n + 1]
      /\ \A n \in DOMAIN backlog' : n \in Nat \ {0}
  BY <1>1 DEF TypeOK
<1>3. \A g \in Fd : file'[g] = IF g = f THEN backlog[1] ELSE file[g]
  BY <1>1, <1>2 DEF TypeOK
<1>4. OnePlace'
  <2>1. \A m, n \in DOMAIN backlog' : backlog'[m] = backlog'[n] => m = n
    <3>1. SUFFICES ASSUME NEW m \in DOMAIN backlog', NEW n \in DOMAIN backlog',
                          backlog'[m] = backlog'[n]
                   PROVE  m = n
      OBVIOUS
    <3>2. m + 1 = n + 1
      BY <1>2, <3>1 DEF OnePlace
    <3>. QED BY <1>2, <3>2
  <2>2. \A g, h \in Fd : file'[g] # NoConn /\ file'[g] = file'[h] => g = h
    BY <1>2, <1>3 DEF OnePlace
  <2>3. \A n \in DOMAIN backlog', g \in Fd : file'[g] # backlog'[n]
    <3>1. \A n \in DOMAIN backlog' : n + 1 # 1 /\ backlog[n + 1] # backlog[1]
      BY <1>2 DEF OnePlace
    <3>. QED BY <1>2, <1>3, <3>1 DEF OnePlace
  <2>. QED BY <2>1, <2>2, <2>3 DEF OnePlace
<1>5. Sincere'
  <2>1. UNCHANGED <<peer, fin, rst>>
    BY <1>1 DEF network
  <2>. QED BY <1>2, <1>3, <2>1 DEF Sincere
<1>6. ReapsDeparted'
  <2>1. ASSUME NEW k \in Slots, revents'[k] = "hup"
        PROVE  revents[k] = "hup" /\ fds'[k] = fds[k]
    BY <1>1, <2>1, ServerAssumption DEF TypeOK, Slots
  <2>2. \A k \in Slots : fds[k] # Unused => fds[k] \in Fd /\ file[fds[k]] # NoConn
    BY SlotInUse, ServerAssumption
  <2>3. UNCHANGED peer
    BY <1>1 DEF network
  <2>. QED BY <1>1, <1>3, <2>1, <2>2, <2>3 DEF ReapsDeparted, EventsAreCurrent
<1>. QED BY <1>4, <1>5, <1>6

\* main()'s steps preserve it.
LEMMA MainSession ==
    ASSUME IndInv, SessionInv, Main
    PROVE  SessionInv'
<1>. USE DEF IndInv, SessionInv
<1>1. CASE Poll
  <2>1. /\ UNCHANGED <<backlog, file, fds, peer, fin, rst>>
        /\ main' = "scan"
        /\ revents' = [k \in 0 .. MAXCLI - 1 |-> Ready(k)]
    BY <1>1 DEF Poll, network
  <2>2. ASSUME NEW k \in Slots, revents'[k] = "hup"
        PROVE  peer[file[fds[k]]] = "closed"
    <3>1. k # 0 /\ Ready(k) = "hup"
      BY <2>1, <2>2 DEF Slots
    <3>2. fds[k] # Unused /\ rst[file[fds[k]]] = "arrived"
      BY <3>1 DEF Ready
    <3>3. file[fds[k]] \in Conn
      BY <3>2, SlotInUse
    <3>. QED BY <3>2, <3>3 DEF Sincere
  <2>. QED BY <2>1, <2>2, Unmoved DEF ReapsDeparted
<1>2. CASE Accept
  BY <1>2, AcceptSession
<1>3. CASE AcceptFails \/ Spawn
  <2>1. UNCHANGED <<backlog, file, fds, peer, fin, rst, i>> /\ main' # "close"
    BY <1>3 DEF AcceptFails, Spawn, Pass, network, table
  <2>2. \A k \in Slots : revents'[k] = "hup" => revents[k] = "hup"
    <3>1. \/ revents' = revents
          \/ \E j \in Slots : revents' = [revents EXCEPT ![j] = "none"]
      BY <1>3 DEF AcceptFails, Spawn, Pass, table
    <3>2. \A k \in Slots : k \in 0 .. MAXCLI - 1
      BY DEF Slots
    <3>. QED BY <3>1, <3>2 DEF TypeOK
  <2>. QED BY <2>1, <2>2, Unmoved, StillReaps
<1>4. CASE Welcome
  <2>1. fds[i] \in Fd
    BY <1>4, SlotInUse DEF EventsAreCurrent, Welcome
  <2>2. \A c \in Conn : rst'[c] # "none" => rst[c] # "none" \/ peer[c] = "closed"
    BY <1>4, <2>1, SendResets DEF Welcome
  <2>3. UNCHANGED <<backlog, file, fds, peer, fin, revents>> /\ main' = "scan"
    BY <1>4 DEF Welcome
  <2>. QED BY <2>2, <2>3, Unmoved, StillReaps
<1>5. CASE Unlist
  <2>1. PICK k \in Slots : revents[k] = "hup" /\ i' = k
    BY <1>5 DEF Unlist
  <2>2. UNCHANGED <<backlog, file, fds, peer, fin, rst, revents>>
    BY <1>5 DEF Unlist, network
  <2>. QED BY <2>1, <2>2, Unmoved DEF ReapsDeparted
<1>6. CASE CloseSlot
  <2>1. i \in Slots /\ fds[i] = i + 3 /\ fds[i] \in Fd
    BY <1>6, SlotInUse DEF EventsAreCurrent, CloseSlot
  <2>2. /\ UNCHANGED <<backlog, peer, fin, rst>>
        /\ main' # "close"
        /\ \A g \in Fd : file'[g] = IF g = fds[i] THEN NoConn ELSE file[g]
        /\ \A k \in Slots : fds'[k] = IF k = i THEN Unused ELSE fds[k]
        /\ \A k \in Slots : revents'[k] = IF k = i THEN "none" ELSE revents[k]
    BY <1>6, <2>1 DEF CloseSlot, Pass, network, TypeOK, Slots
  <2>3. OnePlace'
    <3>1. \A n \in DOMAIN backlog : backlog[n] # NoConn
      BY ServerAssumption DEF TypeOK
    <3>. QED BY <2>2, <3>1 DEF OnePlace
  <2>4. Sincere'
    BY <2>2 DEF Sincere
  <2>5. ASSUME NEW k \in Slots, revents'[k] = "hup"
        PROVE  peer[file'[fds'[k]]] = "closed"
    <3>1. k # i /\ revents[k] = "hup" /\ fds'[k] = fds[k]
      BY <2>2, <2>5
    <3>2. fds[k] = k + 3 /\ fds[k] \in Fd
      BY <3>1, SlotInUse DEF EventsAreCurrent
    <3>3. fds[k] # fds[i]
      BY <2>1, <3>1, <3>2 DEF Slots
    <3>. QED BY <2>2, <3>1, <3>2, <3>3 DEF ReapsDeparted
  <2>. QED BY <2>2, <2>3, <2>4, <2>5 DEF ReapsDeparted
<1>. QED BY <1>1, <1>2, <1>3, <1>4, <1>5, <1>6 DEF Main

\* The invariant is inductive.
LEMMA SessionStep ==
    ASSUME IndInv, SessionInv, [Next]_vars
    PROVE  SessionInv'
<1>. USE DEF SessionInv
<1>1. CASE \E c \in Conn : Running /\ Client(c)
  BY <1>1, ClientSession
<1>2. CASE Main
  BY <1>2, MainSession
<1>3. CASE \E t \in DOMAIN threads : Handle(t)
  <2>1. PICK t \in DOMAIN threads : Handle(t)
    BY <1>3
  <2>2. /\ UNCHANGED <<peer, fin, backlog, file, fds, revents, i>>
        /\ main' \in {main, "dead"}
        /\ \A c \in Conn : rst'[c] # "none" => rst[c] # "none" \/ peer[c] = "closed"
    BY <2>1, HandleFrame DEF IndInv, table
  <2>. QED BY <2>2, Unmoved, StillReaps
<1>4. CASE Killed
  <2>1. UNCHANGED <<peer, fin, rst, backlog, file, fds, revents, i>> /\ main' = "dead"
    BY <1>4 DEF Killed, network, table
  <2>. QED BY <2>1, Unmoved, StillReaps
<1>5. CASE UNCHANGED vars
  BY <1>5, Unmoved, StillReaps DEF vars
<1>. QED BY <1>1, <1>2, <1>3, <1>4, <1>5 DEF Next

LEMMA SessionInvariance == Spec => [](IndInv /\ SessionInv)
<1>1. Init => SessionInv
  <2>1. Init => OnePlace
    BY DEF Init, OnePlace
  <2>2. Init => Sincere
    BY DEF Init, Sincere
  <2>3. Init => ReapsDeparted
    BY DEF Init, ReapsDeparted, Slots
  <2>. QED BY <2>1, <2>2, <2>3 DEF SessionInv
<1>2. IndInv /\ SessionInv /\ [Next]_vars => SessionInv'
  BY SessionStep
<1>. QED BY <1>1, <1>2, Invariance, PTL DEF Spec

-----------------------------------------------------------------------------
(***************************************************************************)
(* The server implements Sessions.                                         *)
(***************************************************************************)

Capacity == IF NoFile < 4 THEN 0 ELSE NoFile - 4

\* While a descriptor is free the server is below its capacity.
LEMMA RoomLeft ==
    ASSUME TypeOK, NEW f \in Fd, file[f] = NoConn
    PROVE  Cardinality(Online) < Capacity
<1>. DEFINE Used == {g \in Fd : file[g] # NoConn}
            Names == [g \in Used |-> file[g]]
<1>1. IsFiniteSet(Fd) /\ Cardinality(Fd) = NoFile - 4 /\ NoFile - 4 \in Nat /\ Capacity = NoFile - 4
  <2>1. 4 \in Int /\ NoFile - 1 \in Int /\ ~ (NoFile < 4) /\ ~ (4 > NoFile - 1)
    BY ServerAssumption DEF Fd
  <2>2. IsFiniteSet(4 .. NoFile - 1) /\ Cardinality(4 .. NoFile - 1) = (NoFile - 1) - 4 + 1
    BY <2>1, FS_Interval, Zenon
  <2>. QED BY <2>1, <2>2, ServerAssumption DEF Fd, Capacity
<1>2. IsFiniteSet(Fd \ {f}) /\ Cardinality(Fd \ {f}) = NoFile - 5
  <2>1. IsFiniteSet(Fd \ {f}) /\ Cardinality(Fd \ {f}) = Cardinality(Fd) - 1
    BY <1>1, FS_RemoveElement
  <2>. QED BY <1>1, <2>1, ServerAssumption
<1>3. Used \in SUBSET (Fd \ {f})
  OBVIOUS
<1>4. IsFiniteSet(Used) /\ Cardinality(Used) <= NoFile - 5
  BY <1>2, <1>3, FS_Subset
<1>5. Names \in Surjection(Used, Online)
  BY DEF Online, Surjection
<1>6. IsFiniteSet(Online) /\ Cardinality(Online) <= Cardinality(Used)
  BY <1>4, <1>5, FS_Surjection
<1>7. Cardinality(Online) \in Nat /\ Cardinality(Used) \in Nat
  BY <1>4, <1>6, FS_CardinalityType
<1>. QED BY <1>1, <1>4, <1>6, <1>7, ServerAssumption

\* Steps that move no connection and let no client connect or leave stutter.
LEMMA Stutters ==
    ASSUME UNCHANGED <<backlog, file>>,
           \A c \in Conn : /\ peer'[c] = "idle" <=> peer[c] = "idle"
                           /\ peer'[c] = "closed" <=> peer[c] = "closed"
    PROVE  UNCHANGED S!vars
<1>1. Online' = Online /\ Waiting' = Waiting
  BY DEF Online, Waiting
<1>2. Departed' = Departed /\ Admitted' = Admitted
  BY <1>1 DEF Departed, Admitted
<1>. QED BY <1>1, <1>2 DEF S!vars

-----------------------------------------------------------------------------
\* What the four steps that move a connection do to the queue and to those
\* being served.
LEMMA ConnectMoves ==
    ASSUME TypeOK, NEW c \in Conn, Connect(c)
    PROVE  Waiting' = Waiting \cup {c} /\ Online' = Online
<1>1. backlog' = Append(backlog, c) /\ file' = file /\ backlog \in Seq(Conn)
  BY DEF Connect, TypeOK
<1>2. /\ Len(backlog') = Len(backlog) + 1
      /\ \A n \in 1 .. Len(backlog) : backlog'[n] = backlog[n]
      /\ backlog'[Len(backlog) + 1] = c
  BY <1>1
<1>3. DOMAIN backlog' = DOMAIN backlog \cup {Len(backlog) + 1}
  BY <1>1
<1>. QED BY <1>1, <1>2, <1>3 DEF Waiting, Online

LEMMA AcceptServes ==
    ASSUME IndInv, OnePlace, Accept
    PROVE  \E c \in Waiting : /\ c = Head(backlog) /\ backlog # <<>> /\ backlog' = Tail(backlog)
                              /\ Cardinality(Online) < Capacity
                              /\ UNCHANGED peer
                              /\ Waiting' = Waiting \ {c}
                              /\ Online' = Online \cup {c}
<1>. USE DEF IndInv
<1>1. PICK f \in Fd :
            /\ file[f] = NoConn
            /\ backlog # <<>> /\ backlog' = Tail(backlog)
            /\ Head(backlog) \in Conn
            /\ file' = [file EXCEPT ![f] = Head(backlog)]
            /\ UNCHANGED network
  BY AcceptMoves
<1>2. /\ 1 \in DOMAIN backlog /\ Head(backlog) = backlog[1]
      /\ \A n \in DOMAIN backlog' : n + 1 \in DOMAIN backlog /\ backlog'[n] = backlog[n + 1]
      /\ \A n \in DOMAIN backlog : n # 1 => n - 1 \in DOMAIN backlog' /\ (n - 1) + 1 = n
      /\ \A n \in DOMAIN backlog' : n + 1 # 1
  <2>1. backlog \in Seq(Conn)
    BY DEF TypeOK
  <2>2. /\ Len(backlog) \in Nat /\ Len(backlog) > 0 /\ DOMAIN backlog = 1 .. Len(backlog)
        /\ Head(backlog) = backlog[1]
    BY <1>1, <2>1
  <2>3. /\ DOMAIN backlog' = 1 .. Len(backlog) - 1
        /\ \A n \in 1 .. Len(backlog) - 1 : backlog'[n] = backlog[n + 1]
    BY <1>1, <2>1, <2>2
  <2>. QED BY <2>2, <2>3
<1>3. Waiting' = Waiting \ {Head(backlog)}
  BY <1>2 DEF Waiting, OnePlace
<1>4. \A g \in Fd : file'[g] = IF g = f THEN Head(backlog) ELSE file[g]
  BY <1>1 DEF TypeOK
<1>5. Online' = Online \cup {Head(backlog)}
  BY <1>1, <1>4, ServerAssumption DEF Online
<1>6. Cardinality(Online) < Capacity
  BY <1>1, RoomLeft
<1>. QED BY <1>1, <1>2, <1>3, <1>5, <1>6 DEF network, Waiting

LEMMA CloseSlotDrops ==
    ASSUME IndInv, SessionInv, CloseSlot
    PROVE  \E c \in Online : /\ peer[c] = "closed"
                             /\ UNCHANGED <<peer, backlog>>
                             /\ Waiting' = Waiting
                             /\ Online' = Online \ {c}
<1>. USE DEF IndInv, SessionInv
<1>1. i \in Slots /\ fds[i] \in Fd /\ file[fds[i]] \in Conn
  BY SlotInUse DEF EventsAreCurrent, CloseSlot
<1>2. \A g \in Fd : file'[g] = IF g = fds[i] THEN NoConn ELSE file[g]
  BY <1>1 DEF CloseSlot, TypeOK
<1>3. peer[file[fds[i]]] = "closed" /\ UNCHANGED <<peer, backlog>>
  BY DEF ReapsDeparted, CloseSlot, network
<1>4. file[fds[i]] \in Online
  BY <1>1, ServerAssumption DEF Online
<1>5. Online' = Online \ {file[fds[i]]}
  BY <1>1, <1>2 DEF Online, OnePlace
<1>. QED BY <1>3, <1>4, <1>5 DEF Waiting

\* Every other step leaves the queue, the descriptors and who has left alone.
LEMMA OtherSteps ==
    ASSUME IndInv, [Next]_vars, ~ Accept, ~ CloseSlot,
           \A c \in Conn : ~ Connect(c) /\ ~ Close(c)
    PROVE  /\ UNCHANGED <<backlog, file>>
           /\ \A c \in Conn : /\ peer'[c] = "idle" <=> peer[c] = "idle"
                              /\ peer'[c] = "closed" <=> peer[c] = "closed"
<1>1. CASE \E c \in Conn : Client(c)
  BY <1>1 DEF IndInv, TypeOK, Client, Say, Read, Quit, Reset
<1>2. CASE Main
  BY <1>2 DEF Main, Poll, AcceptFails, Welcome, Spawn, Unlist, network
<1>3. CASE \E t \in DOMAIN threads : Handle(t)
  BY <1>3, HandleFrame DEF IndInv
<1>4. CASE Killed \/ UNCHANGED vars
  BY <1>4 DEF Killed, network, vars
<1>. QED BY <1>1, <1>2, <1>3, <1>4 DEF Next

\* Whoever has connected and not left waits or is served.
Present == \A c \in Conn : peer[c] \notin {"idle", "closed"} => c \in Waiting \cup Online

LEMMA PresentStep ==
    ASSUME IndInv, SessionInv, Present, [Next]_vars
    PROVE  Present'
<1>. USE DEF IndInv, SessionInv
<1>1. CASE \E c \in Conn : Connect(c)
  <2>1. PICK c \in Conn : Connect(c)
    BY <1>1
  <2>2. Waiting' = Waiting \cup {c} /\ Online' = Online
    BY <2>1, ConnectMoves
  <2>3. \A d \in Conn : d # c => peer'[d] = peer[d]
    BY <2>1 DEF Connect, TypeOK
  <2>. QED BY <2>2, <2>3 DEF Present
<1>2. CASE \E c \in Conn : Close(c)
  <2>1. PICK c \in Conn : Close(c)
    BY <1>2
  <2>2. Waiting' = Waiting /\ Online' = Online
    BY <2>1 DEF Close, Waiting, Online
  <2>3. \A d \in Conn : peer'[d] = IF d = c THEN "closed" ELSE peer[d]
    BY <2>1 DEF Close, TypeOK
  <2>. QED BY <2>2, <2>3 DEF Present
<1>3. CASE Accept
  BY <1>3, AcceptServes DEF Present
<1>4. CASE CloseSlot
  BY <1>4, CloseSlotDrops DEF Present
<1>5. CASE ~ Accept /\ ~ CloseSlot /\ \A c \in Conn : ~ Connect(c) /\ ~ Close(c)
  <2>1. /\ UNCHANGED <<backlog, file>>
        /\ \A c \in Conn : /\ peer'[c] = "idle" <=> peer[c] = "idle"
                           /\ peer'[c] = "closed" <=> peer[c] = "closed"
    BY <1>5, OtherSteps
  <2>2. Waiting' = Waiting /\ Online' = Online
    BY <2>1 DEF Waiting, Online
  <2>. QED BY <2>1, <2>2 DEF Present
<1>. QED BY <1>1, <1>2, <1>3, <1>4, <1>5

LEMMA PresentInvariance == Spec => []Present
<1>1. Init => Present
  BY DEF Init, Present
<1>2. IndInv /\ SessionInv /\ Present /\ [Next]_vars => Present'
  BY PresentStep
<1>. QED BY <1>1, <1>2, SessionInvariance, PTL DEF Spec

-----------------------------------------------------------------------------
\* Every step of the server is one of Sessions, or changes nothing it can see.
LEMMA StepServes ==
    ASSUME IndInv, SessionInv, Present, [Next]_vars
    PROVE  [S!Next]_S!vars
<1>. USE DEF IndInv, SessionInv
<1>0. S!InLine = Waiting
  BY DEF S!InLine, Waiting
<1>1. CASE \E c \in Conn : Connect(c)
  <2>1. PICK c \in Conn : Connect(c)
    BY <1>1
  <2>2. /\ peer[c] = "idle" /\ backlog' = Append(backlog, c)
        /\ \A d \in Conn : peer'[d] = IF d = c THEN "open" ELSE peer[d]
    BY <2>1 DEF Connect, TypeOK
  <2>3. Waiting' = Waiting \cup {c} /\ Online' = Online
    BY <2>1, ConnectMoves
  <2>4. c \notin Waiting /\ c \notin Online /\ c \notin Departed /\ c \notin Admitted
    BY <2>2 DEF Sincere, Waiting, Online, Departed, Admitted
  <2>5. Departed' = Departed /\ Admitted' = Admitted
    BY <2>2, <2>3, <2>4 DEF Departed, Admitted
  <2>6. S!Arrive(c)
    BY <1>0, <2>2, <2>3, <2>4, <2>5 DEF S!Arrive
  <2>. QED BY <2>6 DEF S!Next
<1>2. CASE \E c \in Conn : Close(c)
  <2>1. PICK c \in Conn : Close(c)
    BY <1>2
  <2>2. /\ peer[c] \notin {"idle", "closed"} /\ UNCHANGED backlog
        /\ \A d \in Conn : peer'[d] = IF d = c THEN "closed" ELSE peer[d]
    BY <2>1 DEF Close, TypeOK
  <2>3. Waiting' = Waiting /\ Online' = Online
    BY <2>1 DEF Close, Waiting, Online
  <2>4. c \in Waiting \cup Online /\ c \notin Departed
    BY <2>2 DEF Present, Departed
  <2>5. Departed' = Departed \cup {c} /\ Admitted' = Admitted
    BY <2>2, <2>3 DEF Departed, Admitted
  <2>6. S!Leave(c)
    BY <1>0, <2>2, <2>3, <2>4, <2>5 DEF S!Leave
  <2>. QED BY <2>6 DEF S!Next
<1>3. CASE Accept
  <2>1. PICK c \in Waiting : /\ c = Head(backlog) /\ backlog # <<>> /\ backlog' = Tail(backlog)
                             /\ Cardinality(Online) < Capacity
                             /\ UNCHANGED peer
                             /\ Waiting' = Waiting \ {c}
                             /\ Online' = Online \cup {c}
    BY <1>3, AcceptServes
  <2>2. c \in Conn /\ peer[c] # "idle"
    BY DEF Waiting, Sincere, TypeOK
  <2>3. Departed' = Departed /\ Admitted' = Admitted \cup {c}
    BY <2>1, <2>2 DEF Departed, Admitted
  <2>4. c \notin Admitted
    BY DEF Admitted
  <2>5. (Admitted \ Online)' = Admitted \ Online
    BY <2>1, <2>3, <2>4
  <2>6. S!Cardinality(Online) = Cardinality(Online)
    BY Zenon DEF S!Cardinality, Cardinality, S!IsFiniteSet, IsFiniteSet
  <2>7. S!Admit
    BY <2>1, <2>3, <2>5, <2>6 DEF S!Admit, Capacity
  <2>. QED BY <2>7 DEF S!Next
<1>4. CASE CloseSlot
  <2>1. PICK c \in Online : /\ peer[c] = "closed"
                            /\ UNCHANGED <<peer, backlog>>
                            /\ Waiting' = Waiting
                            /\ Online' = Online \ {c}
    BY <1>4, CloseSlotDrops
  <2>2. c \in Conn /\ c \notin Waiting
    BY DEF Online, Waiting, OnePlace, TypeOK
  <2>3. Departed' = Departed /\ Admitted' = Admitted /\ c \in Departed /\ c \in Admitted
    BY <2>1, <2>2 DEF Departed, Admitted
  <2>4. (Admitted \ Online)' = (Admitted \ Online) \cup {c}
    BY <2>1, <2>3
  <2>5. S!Drop(c)
    BY <2>1, <2>3, <2>4 DEF S!Drop
  <2>. QED BY <2>2, <2>5 DEF S!Next
<1>5. CASE ~ Accept /\ ~ CloseSlot /\ \A c \in Conn : ~ Connect(c) /\ ~ Close(c)
  BY <1>5, OtherSteps, Stutters
<1>. QED BY <1>1, <1>2, <1>3, <1>4, <1>5

\* The server serves its clients as Sessions promises: first come first
\* admitted, up to the limit of descriptors, only a client that left is dropped,
\* and never twice (server_poll2.c, lines 95 to 107 and 133 to 157).
THEOREM SessionsImplemented == Spec => ServesSessions
<1>1. Init => S!Init
  BY DEF Init, S!Init, Online, Departed, Admitted
<1>2. IndInv /\ SessionInv /\ Present /\ [Next]_vars => [S!Next]_S!vars
  BY StepServes
<1>. QED BY <1>1, <1>2, SessionInvariance, PresentInvariance, PTL DEF Spec, ServesSessions, S!Spec

-----------------------------------------------------------------------------
(***************************************************************************)
(* A client that is there has one handler.                                 *)
(***************************************************************************)

LEMMA HandlerFields ==
    ASSUME TypeOK, NEW t \in DOMAIN threads
    PROVE  threads[t].owner \in Conn /\ threads[t].fd \in Fd
<1>1. threads[t] \in Threads
  BY DEF TypeOK
<1>. QED BY <1>1 DEF Threads

\* A step of a handler keeps the descriptor and the connection it was started
\* for; recv() resolves the descriptor, and the handler ends when that is closed
\* or the connection it is blocked on is.
LEMMA HandlerStep ==
    ASSUME TypeOK, NEW t \in DOMAIN threads, Handle(t)
    PROVE  \E h : /\ threads' = [threads EXCEPT ![t] = h]
                  /\ h.fd = threads[t].fd /\ h.owner = threads[t].owner
                  /\ h.pc = "recv" => h.on = file[h.fd]
                  /\ h.pc = "done" => \/ file[h.fd] = NoConn
                                      \/ threads[t].pc = "recv" /\ HungUp(threads[t].on)
<1>. DEFINE h == threads[t]
            Good(new) == /\ new.fd = h.fd /\ new.owner = h.owner
                         /\ new.pc = "recv" => new.on = file[new.fd]
                         /\ new.pc = "done" => \/ file[new.fd] = NoConn
                                               \/ h.pc = "recv" /\ HungUp(h.on)
<1>0. h \in Threads
  BY DEF TypeOK
<1>1. Good(Handler(h.fd, h.owner)) /\ Good(Reply(h))
  BY <1>0 DEF Handler, Reply, Threads
<1>2. CASE Recv(t)
  <2>. DEFINE new == [h EXCEPT !.on = file[h.fd],
                               !.pc = IF file[h.fd] = NoConn THEN "done" ELSE "recv"]
  <2>1. threads' = [threads EXCEPT ![t] = new]
    BY <1>2 DEF Recv
  <2>2. Good(new)
    BY <1>0 DEF Threads
  <2>. QED BY <2>1, <2>2
<1>3. CASE Received(t)
  <2>. DEFINE new(targets, asked) == [h EXCEPT !.on = NoConn, !.cmd = Head(inq[h.on]),
                                               !.todo = targets, !.asked = asked,
                                               !.pc = "send"]
  <2>1. PICK targets, asked :
            \/ threads' = [threads EXCEPT ![t] = Handler(h.fd, h.owner)]
            \/ threads' = [threads EXCEPT ![t] = new(targets, asked)]
    BY <1>3 DEF Received
  <2>2. Good(new(targets, asked))
    BY <1>0 DEF Threads
  <2>. QED BY <1>1, <2>1, <2>2
<1>4. CASE EndOfStream(t)
  <2>. DEFINE new == [h EXCEPT !.on = NoConn, !.pc = "done"]
  <2>1. threads' = [threads EXCEPT ![t] = new] /\ h.pc = "recv" /\ HungUp(h.on)
    BY <1>4 DEF EndOfStream, Step
  <2>2. Good(new)
    BY <1>0, <2>1 DEF Threads
  <2>. QED BY <2>1, <2>2
<1>5. CASE Deliver(t)
  <2>. DEFINE rest(f) == [h EXCEPT !.todo = h.todo \ {f}]
              ask == [h EXCEPT !.todo = {}, !.pc = "ask"]
  <2>1. PICK f : \/ threads' = [threads EXCEPT ![t] = rest(f)]
                 \/ threads' = [threads EXCEPT ![t] = ask]
                 \/ threads' = [threads EXCEPT ![t] = Handler(h.fd, h.owner)]
    BY <1>5 DEF Deliver
  <2>2. h.pc = "send"
    BY <1>5 DEF Deliver, Step
  <2>3. Good(rest(f)) /\ Good(ask)
    BY <1>0, <2>2 DEF Threads
  <2>. QED BY <1>1, <2>1, <2>3
<1>6. CASE Ask(t)
  <2>. DEFINE new == [h EXCEPT !.on = file[h.asked], !.pc = "await"]
  <2>1. \/ threads' = [threads EXCEPT ![t] = Reply(h)]
        \/ threads' = [threads EXCEPT ![t] = new]
    BY <1>6 DEF Ask
  <2>2. Good(new)
    BY <1>0 DEF Threads
  <2>. QED BY <1>1, <2>1, <2>2
<1>7. CASE Answered(t) \/ NoAnswer(t)
  <2>1. \/ threads' = [threads EXCEPT ![t] = Reply(h)]
        \/ threads' = [threads EXCEPT ![t] = Handler(h.fd, h.owner)]
    BY <1>7 DEF Answered, NoAnswer
  <2>. QED BY <1>1, <2>1
<1>. QED BY <1>2, <1>3, <1>4, <1>5, <1>6, <1>7 DEF Handle

\* The handlers' steps preserve the invariant.
LEMMA HandleServes ==
    ASSUME IndInv, SessionInv, HandlerInv, NEW t \in DOMAIN threads, Handle(t)
    PROVE  HandlerInv'
<1>. USE DEF IndInv, SessionInv, HandlerInv
<1>1. PICK h : /\ threads' = [threads EXCEPT ![t] = h]
               /\ h.fd = threads[t].fd /\ h.owner = threads[t].owner
               /\ h.pc = "recv" => h.on = file[h.fd]
               /\ h.pc = "done" => \/ file[h.fd] = NoConn
                                   \/ threads[t].pc = "recv" /\ HungUp(threads[t].on)
  BY HandlerStep
<1>2. /\ UNCHANGED <<peer, fin, backlog, file, fds, revents, i>>
      /\ main' \in {main, "dead"}
  BY HandleFrame DEF table
<1>3. /\ DOMAIN threads' = DOMAIN threads
      /\ \A s \in DOMAIN threads : threads'[s] = IF s = t THEN h ELSE threads[s]
      /\ \A s \in DOMAIN threads : threads[s] \in Threads
  BY <1>1 DEF TypeOK
<1>4. \A s \in DOMAIN threads : threads'[s].fd = threads[s].fd /\ threads'[s].owner = threads[s].owner
  BY <1>1, <1>3
<1>5. PassInOrder'
  BY <1>2 DEF PassInOrder
<1>6. OwnHandler'
  BY <1>2, <1>3, <1>4 DEF OwnHandler
<1>7. Served'
  BY <1>2, <1>3, <1>4 DEF Served, Running
<1>8. Faithful'
  <2>1. ASSUME file[threads[t].fd] = threads[t].owner, h.pc = "done"
        PROVE  peer[threads[t].owner] = "closed"
    <3>1. threads[t].owner \in Conn
      BY <1>3 DEF Threads
    <3>2. threads[t].pc = "recv" /\ HungUp(threads[t].on)
      BY <1>1, <2>1, <3>1, ServerAssumption
    <3>3. threads[t].on = threads[t].owner
      BY <2>1, <3>2 DEF Faithful
    <3>4. fin[threads[t].owner] \/ rst[threads[t].owner] # "none"
      BY <3>2, <3>3 DEF HungUp
    <3>. QED BY <3>1, <3>4 DEF Sincere
  <2>. QED BY <1>1, <1>2, <1>3, <1>4, <2>1 DEF Faithful
<1>. QED BY <1>5, <1>6, <1>7, <1>8

\* So do the clients': they start no handler and reopen no connection.
LEMMA ClientServes ==
    ASSUME IndInv, SessionInv, HandlerInv, NEW c \in Conn, Client(c)
    PROVE  HandlerInv'
<1>. USE DEF IndInv, SessionInv, HandlerInv
<1>1. UNCHANGED <<file, fds, revents, i, main, threads>>
  BY DEF Client, Connect, Say, Read, Quit, Close, Reset, table
<1>2. \A d \in Conn : /\ peer[d] # "idle" => peer'[d] # "idle"
                      /\ peer[d] = "closed" => peer'[d] = "closed"
  BY DEF TypeOK, Client, Connect, Say, Read, Quit, Close, Reset
<1>3. \A t \in DOMAIN threads : threads[t].owner \in Conn
  BY HandlerFields
<1>4. \A n \in DOMAIN backlog' : \/ n \in DOMAIN backlog /\ backlog'[n] = backlog[n]
                                 \/ peer[backlog'[n]] = "idle"
  <2>1. CASE Connect(c)
    BY <2>1 DEF TypeOK, Connect
  <2>2. CASE UNCHANGED backlog
    BY <2>2
  <2>. QED BY <2>1, <2>2 DEF Client, Say, Read, Quit, Close, Reset
<1>5. PassInOrder' /\ Served'
  BY <1>1 DEF PassInOrder, Served, Running
<1>6. OwnHandler'
  <2>1. \A t \in DOMAIN threads, n \in DOMAIN backlog' : threads[t].owner # backlog'[n]
    BY <1>4 DEF OwnHandler
  <2>. QED BY <1>1, <1>2, <1>3, <2>1 DEF OwnHandler
<1>7. Faithful'
  BY <1>1, <1>2, <1>3 DEF Faithful
<1>. QED BY <1>5, <1>6, <1>7

\* A pass that has handled slot k, with nothing before it, goes on or is over.
LEMMA PassEnds ==
    ASSUME TypeOK, NEW k \in Slots, Pass(k), \A j \in 0 .. k - 1 : revents[j] = "none"
    PROVE  /\ main' \in {"scan", "poll"}
           /\ main' = "poll" => \A j \in 0 .. MAXCLI - 1 : revents'[j] = "none"
           /\ revents'[k] = "none"
           /\ \A j \in Slots : j # k => revents'[j] = revents[j]
<1>1. \A j \in 0 .. MAXCLI - 1 : revents'[j] = IF j = k THEN "none" ELSE revents[j]
  BY DEF Pass, TypeOK
<1>2. ASSUME main' = "poll", NEW j \in 0 .. MAXCLI - 1, j # k
      PROVE  revents[j] = "none"
  <2>1. j \in 0 .. k - 1 \/ j \in k + 1 .. MAXCLI - 1
    BY <1>2, ServerAssumption DEF Slots
  <2>. QED BY <1>2, <2>1 DEF Pass
<1>. QED BY <1>1, <1>2 DEF Pass, Slots

LEMMA AcceptHands ==
    ASSUME IndInv, SessionInv, HandlerInv, Accept
    PROVE  HandlerInv'
<1>. USE DEF IndInv, SessionInv, HandlerInv
<1>1. PICK f \in Fd :
            /\ file[f] = NoConn
            /\ backlog # <<>> /\ backlog' = Tail(backlog)
            /\ Head(backlog) \in Conn
            /\ file' = [file EXCEPT ![f] = Head(backlog)]
            /\ UNCHANGED <<network, threads>>
            /\ main' \in {"welcome", "overrun"}
            /\ \/ \E k \in Slots : /\ fds[k] = Unused
                                   /\ fds' = [fds EXCEPT ![k] = f]
                                   /\ revents' = [revents EXCEPT ![k] = "in", ![0] = "none"]
                                   /\ i' = k
               \/ main' = "overrun" /\ UNCHANGED <<fds, revents, i>>
  BY AcceptMoves
<1>2. /\ 1 \in DOMAIN backlog /\ Head(backlog) = backlog[1]
      /\ \A n \in DOMAIN backlog' : n + 1 \in DOMAIN backlog /\ backlog'[n] = backlog[n + 1]
  BY <1>1 DEF TypeOK
<1>3. \A g \in Fd : file'[g] = IF g = f THEN backlog[1] ELSE file[g]
  BY <1>1, <1>2 DEF TypeOK
<1>4. UNCHANGED <<peer, threads>>
  BY <1>1 DEF network
<1>5. \A t \in DOMAIN threads : threads[t].owner # backlog[1] /\ threads[t].fd \in Fd
  BY <1>2, HandlerFields DEF OwnHandler
<1>6. IndInv'
  BY MainInv DEF Main
<1>7. PassInOrder'
  BY <1>1 DEF PassInOrder
<1>8. OwnHandler'
  BY <1>2, <1>3, <1>4, <1>5 DEF OwnHandler
<1>9. Faithful'
  BY <1>3, <1>4, <1>5 DEF Faithful
<1>10. Served'
  <2>1. \A k \in Slots : fds[k] # Unused => fds[k] \in Fd /\ file[fds[k]] # NoConn
    BY SlotInUse, ServerAssumption
  <2>2. CASE main' = "overrun" /\ UNCHANGED <<fds, revents, i>>
    <3>1. \A k \in Slots : revents[k] = "in" => fds[k] \in Fd /\ fds[k] # f
      BY <1>1, <2>1 DEF EventsAreCurrent
    <3>. QED BY <1>3, <1>4, <2>2, <3>1 DEF Served, Running
  <2>3. ASSUME NEW k \in Slots,
               fds[k] = Unused,
               fds' = [fds EXCEPT ![k] = f],
               revents' = [revents EXCEPT ![k] = "in", ![0] = "none"],
               i' = k
        PROVE  Served'
    <3>1. /\ \A j \in Slots : revents'[j] = IF j = k THEN "in" ELSE revents[j]
          /\ \A j \in Slots : fds'[j] = IF j = k THEN f ELSE fds[j]
      BY <2>3, ServerAssumption DEF TypeOK, Slots
    <3>2. \A j \in Slots, t \in DOMAIN threads :
              revents'[j] = "in" => threads[t].owner # file'[fds'[j]]
      <4>1. SUFFICES ASSUME NEW j \in Slots, NEW t \in DOMAIN threads, revents'[j] = "in"
                     PROVE  threads[t].owner # file'[fds'[j]]
        OBVIOUS
      <4>2. CASE j = k
        BY <1>3, <1>5, <3>1, <4>2
      <4>3. CASE j # k
        <5>1. revents[j] = "in" /\ fds'[j] = fds[j]
          BY <3>1, <4>1, <4>3
        <5>2. fds[j] \in Fd /\ fds[j] # f
          BY <1>1, <2>1, <5>1 DEF EventsAreCurrent
        <5>. QED BY <1>3, <5>1, <5>2 DEF Served
      <4>. QED BY <4>2, <4>3
    <3>3. f = k + 3
      BY <1>6, <3>1 DEF TableMatchesKernel, Fd, Unused
    <3>4. ASSUME NEW g \in Fd, file'[g] # NoConn
          PROVE  \/ revents'[g - 3] = "in"
                 \/ \E t \in DOMAIN threads : threads[t].owner = file'[g]
      <4>1. CASE g = f
        <5>1. g - 3 = k
          BY <3>3, <4>1 DEF Slots
        <5>. QED BY <3>1, <5>1
      <4>2. CASE g # f
        <5>1. file'[g] = file[g] /\ Running /\ main # "overrun"
          BY <1>3, <4>2 DEF Accept, At, Running
        <5>2. g - 3 \in Slots
          BY <3>4, <5>1 DEF TableMatchesKernel
        <5>. QED BY <3>1, <3>4, <5>1, <5>2 DEF Served
      <4>. QED BY <4>1, <4>2
    <3>. QED BY <1>4, <3>2, <3>4 DEF Served
  <2>. QED BY <1>1, <2>2, <2>3
<1>. QED BY <1>7, <1>8, <1>9, <1>10

\* main()'s steps preserve it: it starts the handler of a connection it has
\* accepted before it polls again.
LEMMA MainServes ==
    ASSUME IndInv, SessionInv, HandlerInv, Main
    PROVE  HandlerInv'
<1>. USE DEF IndInv, SessionInv, HandlerInv
<1>0. \A t \in DOMAIN threads : threads[t].owner \in Conn /\ threads[t].fd \in Fd
  BY HandlerFields
<1>1. CASE Poll
  <2>1. UNCHANGED <<peer, backlog, file, fds, i, threads>> /\ main = "poll" /\ main' = "scan"
    BY <1>1 DEF Poll, network
  <2>2. \A k \in Slots : revents'[k] # "in"
    BY <1>1 DEF Poll, Ready, Slots
  <2>3. \A f \in Fd : file[f] # NoConn => f - 3 \in Slots
    BY <2>1 DEF TableMatchesKernel
  <2>4. \A f \in Fd : file[f] # NoConn => \E t \in DOMAIN threads : threads[t].owner = file[f]
    BY <2>1, <2>3 DEF Served, PassInOrder, Running, Slots
  <2>5. Served'
    BY <2>1, <2>2, <2>4 DEF Served
  <2>6. PassInOrder' /\ OwnHandler' /\ Faithful'
    BY <2>1 DEF PassInOrder, OwnHandler, Faithful
  <2>. QED BY <2>5, <2>6
<1>2. CASE Accept
  BY <1>2, AcceptHands
<1>3. CASE AcceptFails \/ Welcome
  <2>1. /\ UNCHANGED <<peer, backlog, file, fds, revents, threads>>
        /\ Running /\ main' \in {"exited", "scan"}
    BY <1>3 DEF AcceptFails, Welcome, At, network, table, Running
  <2>. QED BY <2>1 DEF PassInOrder, OwnHandler, Served, Faithful
<1>4. CASE Spawn
  <2>1. PICK k \in Slots : /\ At(k) /\ revents[k] = "in"
                           /\ threads' = Append(threads, Handler(fds[k], file[fds[k]]))
                           /\ Pass(k)
    BY <1>4 DEF Spawn
  <2>2. PICK f, c : f = fds[k] /\ c = file[fds[k]]
    OBVIOUS
  <2>3. f \in Fd /\ f = k + 3 /\ c = file[f] /\ c \in Conn
    BY <2>1, <2>2, SlotInUse DEF EventsAreCurrent
  <2>4. UNCHANGED <<peer, backlog, file, fds>> /\ Running
    BY <1>4, <2>1 DEF Spawn, network, At, Running
  <2>5. /\ main' \in {"scan", "poll"}
        /\ main' = "poll" => \A j \in 0 .. MAXCLI - 1 : revents'[j] = "none"
        /\ revents'[k] = "none"
        /\ \A j \in Slots : j # k => revents'[j] = revents[j]
    BY <2>1, PassEnds DEF At
  <2>. DEFINE n == Len(threads) + 1
  <2>6. /\ DOMAIN threads' = DOMAIN threads \cup {n} /\ n \notin DOMAIN threads
        /\ \A t \in DOMAIN threads : threads'[t] = threads[t]
        /\ threads'[n] = Handler(f, c)
    BY <2>1, <2>2 DEF TypeOK
  <2>7. threads'[n].fd = f /\ threads'[n].owner = c /\ threads'[n].pc = "loop"
    BY <2>6 DEF Handler
  <2>. HIDE DEF n
  <2>8. \A t \in DOMAIN threads : threads[t].owner # c
    BY <2>1, <2>2 DEF Served
  <2>9. PassInOrder'
    BY <2>5 DEF PassInOrder
  <2>10. OwnHandler'
    <3>1. peer[c] # "idle" /\ (\A m \in DOMAIN backlog : backlog[m] # c)
          /\ (\A g \in Fd : file[g] = c => g = f)
      BY <2>3, ServerAssumption DEF OnePlace, Sincere
    <3>. QED BY <2>4, <2>6, <2>7, <2>8, <3>1 DEF OwnHandler
  <2>11. Served'
    <3>1. \A j \in Slots : j # k /\ revents[j] = "in" => c # file[fds[j]]
      <4>1. SUFFICES ASSUME NEW j \in Slots, j # k, revents[j] = "in", c = file[fds[j]]
                     PROVE  FALSE
        OBVIOUS
      <4>2. fds[j] \in Fd /\ fds[j] = j + 3
        BY <4>1, SlotInUse DEF EventsAreCurrent
      <4>3. fds[j] = f
        BY <2>3, <4>1, <4>2, ServerAssumption DEF OnePlace
      <4>. QED BY <2>3, <4>1, <4>2, <4>3 DEF Slots
    <3>2. \A j \in Slots, t \in DOMAIN threads' :
              revents'[j] = "in" => threads'[t].owner # file'[fds'[j]]
      BY <2>4, <2>5, <2>6, <2>7, <3>1 DEF Served
    <3>3. \A g \in Fd : file[g] # NoConn /\ g # f => g - 3 \in Slots /\ g - 3 # k
      BY <2>1, <2>3 DEF TableMatchesKernel, At, Fd, Slots
    <3>4. \A g \in Fd : file[g] # NoConn =>
              revents'[g - 3] = "in" \/ \E t \in DOMAIN threads' : threads'[t].owner = file[g]
      BY <2>3, <2>4, <2>5, <2>6, <2>7, <3>3 DEF Served
    <3>. QED BY <2>4, <3>2, <3>4 DEF Served
  <2>12. Faithful'
    BY <2>4, <2>6, <2>7 DEF Faithful
  <2>. QED BY <2>9, <2>10, <2>11, <2>12
<1>5. CASE Unlist
  <2>1. /\ UNCHANGED <<peer, backlog, file, fds, revents, threads>> /\ Running
        /\ main' = "close" /\ \A j \in 0 .. i' - 1 : revents'[j] = "none"
    BY <1>5 DEF Unlist, At, network, Running
  <2>. QED BY <2>1 DEF PassInOrder, OwnHandler, Served, Faithful
<1>6. CASE CloseSlot
  <2>1. i \in Slots /\ fds[i] = i + 3 /\ fds[i] \in Fd
    BY <1>6, SlotInUse DEF EventsAreCurrent, CloseSlot
  <2>2. /\ main' \in {"scan", "poll"}
        /\ main' = "poll" => \A j \in 0 .. MAXCLI - 1 : revents'[j] = "none"
        /\ revents'[i] = "none"
        /\ \A j \in Slots : j # i => revents'[j] = revents[j]
    <3>1. Pass(i) /\ \A j \in 0 .. i - 1 : revents[j] = "none"
      BY <1>6 DEF CloseSlot, PassInOrder
    <3>. QED BY <2>1, <3>1, PassEnds
  <2>3. /\ UNCHANGED <<peer, backlog, threads>> /\ Running /\ main # "overrun"
        /\ \A g \in Fd : file'[g] = IF g = fds[i] THEN NoConn ELSE file[g]
        /\ \A k \in Slots : fds'[k] = IF k = i THEN Unused ELSE fds[k]
    BY <1>6, <2>1 DEF CloseSlot, network, TypeOK, Running
  <2>4. \A g \in Fd : file'[g] # NoConn => g # fds[i] /\ file'[g] = file[g]
    BY <2>3
  <2>5. PassInOrder'
    BY <2>2 DEF PassInOrder
  <2>6. OwnHandler' /\ Faithful'
    BY <1>0, <2>3, <2>4, ServerAssumption DEF OwnHandler, Faithful
  <2>7. Served'
    <3>1. \A j \in Slots : revents'[j] = "in" => /\ revents[j] = "in" /\ fds'[j] = fds[j]
                                                 /\ fds[j] = j + 3 /\ fds[j] \in Fd /\ j # i
      BY <2>2, <2>3, SlotInUse DEF EventsAreCurrent
    <3>2. \A j \in Slots : revents'[j] = "in" => file'[fds'[j]] = file[fds[j]]
      BY <2>1, <2>3, <3>1 DEF Slots
    <3>3. \A g \in Fd : file'[g] # NoConn => g - 3 \in Slots /\ g - 3 # i
      BY <2>1, <2>3, <2>4 DEF TableMatchesKernel, Slots, Fd
    <3>. QED BY <2>2, <2>3, <2>4, <3>1, <3>2, <3>3 DEF Served
  <2>. QED BY <2>5, <2>6, <2>7
<1>. QED BY <1>1, <1>2, <1>3, <1>4, <1>5, <1>6 DEF Main

\* The invariant is inductive.
LEMMA HandlerInvariance == Spec => [](IndInv /\ HandlerInv)
<1>1. Init => HandlerInv
  <2>1. Init => PassInOrder /\ OwnHandler /\ Faithful
    BY DEF Init, PassInOrder, OwnHandler, Faithful
  <2>2. Init => Served
    BY DEF Init, Served, Slots
  <2>. QED BY <2>1, <2>2 DEF HandlerInv
<1>2. IndInv /\ SessionInv /\ HandlerInv /\ [Next]_vars => HandlerInv'
  <2>. SUFFICES ASSUME IndInv, SessionInv, HandlerInv, [Next]_vars PROVE HandlerInv'
    OBVIOUS
  <2>1. CASE \E c \in Conn : Running /\ Client(c)
    BY <2>1, ClientServes
  <2>2. CASE Main
    BY <2>2, MainServes
  <2>3. CASE \E t \in DOMAIN threads : Handle(t)
    BY <2>3, HandleServes
  <2>4. CASE Killed \/ UNCHANGED vars
    <3>1. /\ UNCHANGED <<peer, backlog, file, fds, revents, i, threads>>
          /\ main' \in {main, "dead"}
      BY <2>4 DEF Killed, network, table, vars
    <3>. QED BY <3>1 DEF HandlerInv, PassInOrder, OwnHandler, Served, Faithful, Running
  <2>. QED BY <2>1, <2>2, <2>3, <2>4 DEF Next
<1>. QED BY <1>1, <1>2, SessionInvariance, PTL DEF Spec

\* While its client is there a connection has one handler that was started for
\* it and has not ended, or is about to be started (server_poll2.c, lines 95 to
\* 131; server_utils.c, main_thread).
THEOREM EachClientServed == Spec => []ServedWhileOpen
<1>1. IndInv /\ HandlerInv => ServedWhileOpen
  <2>. SUFFICES ASSUME IndInv, HandlerInv, Running,
                       NEW f \in Fd, file[f] # NoConn, peer[file[f]] # "closed"
                PROVE  LET own == {t \in DOMAIN threads : threads[t].owner = file[f]}
                       IN  \/ own = {} /\ revents[f - 3] = "in"
                           \/ \E t \in own : own = {t} /\ threads[t].fd = f /\ threads[t].pc # "done"
    BY DEF ServedWhileOpen
  <2>. DEFINE own == {t \in DOMAIN threads : threads[t].owner = file[f]}
  <2>1. CASE own = {}
    BY <2>1 DEF HandlerInv, Served
  <2>2. ASSUME NEW t \in own
        PROVE  own = {t} /\ threads[t].fd = f /\ threads[t].pc # "done"
    BY <2>2 DEF HandlerInv, OwnHandler, Faithful
  <2>. QED BY <2>1, <2>2
<1>. QED BY <1>1, HandlerInvariance, PTL
=============================================================================
