# Verification of EIRBCHAT

TLA+ models of the EIRBCHAT server and of its client, the TLC configurations
that check them on small instances, and proofs, checked by TLAPS, of their
safety properties for every size of the system.
The files named below without a directory are those of `src/`.

| File | Contents |
| --- | --- |
| `Sessions.tla` | what the server promises about connections (abstract) |
| `Server.tla`, `MCServer.tla`, `Server*.cfg` | main loop, handler threads, list of clients, kernel sockets |
| `ServerProofs.tla` | theorems about `Server`: the table, the descriptors, the list |
| `SessionProofs.tla` | theorems about `Server`: the life of a connection, `Sessions` implemented |
| `NickList.tla`, `MCNickList.tla`, `NickList*.cfg` | the list of nicknames, one memory access at a time |
| `NickListProofs.tla` | theorems about `NickList`: its shape |
| `RegistrationProofs.tla` | theorems about `NickList`: duplicates, removals |
| `ClientList.tla`, `MCClientList.tla`, `ClientList.cfg` | the list of connected clients, one memory access at a time, and the global message `wilcard` |
| `ClientListProofs.tla` | theorems about `ClientList`: types, `wilcard` |
| `WalkProofs.tla` | theorems about `ClientList`: its walks |
| `Client.tla`, `MCClient.tla`, `Client.cfg` | a client, its command parser, its handler and the bytes between them |
| `ClientProofs.tla` | theorems about `Client` |
| `Rooms.tla`, `MCRooms.tla`, `Rooms*.cfg` | rooms, members, the room each nickname is in |
| `RoomsProofs.tla` | theorems about `Rooms` |

## The system

The server is one process. `main()` (`server_poll2.c`) polls the listening
socket and the connected clients, accepts, starts one detached thread
(`main_thread` in `server_utils.c`) for each connection, and cleans up after a
connection on which `poll()` reports an error or a hangup. A thread receives a
message, serves it and returns to `recv()`. There is no lock anywhere.

| Component | State | Operations | Correct when |
| --- | --- | --- | --- |
| Server loop (`server_poll2.c:28-174`) | table `fds[MAXCLI]` with `revents`, the kernel's descriptor table | `poll`, accept + welcome, start a thread, reap | table, list and descriptors stay in step; events are current; whoever connects is served, whoever leaves is reaped |
| Handler threads (`main_thread`) | `fd` on their stack, the message being served | `recv`, dispatch, `send`, end | one per connection; every message is served |
| List of clients (`client_list`) | linked list of (fd, port, address, time) | `addNode`, `suppr`, `count`, `adresselist`, the walk of /msgall | one node per connection; a walk meets whoever is listed all along, once |
| List of nicknames (`nicknames`) | linked list of (nick, fd, current room) | `proc_nick`, `exist_user`, `addNick`, `supprUser` | no cycle, no freed node reachable, a listed nickname is refused, an appended one stays, a client leaves with its nicknames |
| Rooms (`rooms`) | linked list of (name, table of members by descriptor) | `/create`, `/join`, `/quit`, `joinRoom`, `quitRoom`, `addRoom`, `supprRoom` | MAINROOM stays; a command changes its own client's memberships and record; whoever joined is a member; a room with members stays |
| Private messages, files (`proc_p2p`) | none of its own | forward; for a file request, wait for the receiver's answer | the answer reaches whoever asked |
| Queries (/who, /whois, /channel_list) | the global `wilcard` | read the lists, answer | each client gets its own answer, about whom it asked |
| Message framing (`msg_struct.h`) | bytes in the sockets | single `send`/`recv` of 264 bytes, raw texts shorter than that | both sides agree where a message starts |
| Client (`client_poll.c`, `client_utils.c`) | its socket, stdin and the buffer of stdio | poll stdin and socket, read a line, send, read and show, /quit | every line typed is sent; every message shown; it stops with its server |
| Command parser (`message_parser`) | none | a line to a message | the server does what the line means |
| Display, socket set-up | | printing; `getaddrinfo`, `bind`, `connect` | |

They interact in four ways: bytes on the sockets between clients and handlers;
shared lists between the handlers and `main()`; the descriptor number, which
`main()` gives to a handler and closes without telling it; and descriptors
again, since a handler writes to, and for a file request reads from, those of
other clients.

What is hard here:

- **interleavings on lists**: look-up then append, append against append,
  append and walk against `main()`'s removals and `free()`;
- **descriptor reuse**: `close()` in `main()` while a thread uses the number;
- **who hears of a departure**: a client's slot has `events = 0`, so `poll()`
  reports `POLLHUP`/`POLLERR` only. A client is noticed because the farewell
  sent to it reaches a closed socket, which answers with RST;
- **limits**: the search for a slot is unbounded, `accept()` failing ends
  `main()`, a `send()` to a reset connection raises SIGPIPE;
- **names**: prefixes are compared, and buffers filled by `strncpy` without an
  end, so that one room or nickname is taken for another;
- **sequences of commands** whose second half relies on what the first left.

`PROJECT.json` lists each of these hazards at its line, with the properties
that would catch it.

## The models

### Server

`Server` is `main()`, the threads, and as much of TCP and of the descriptor
table as they depend on.

| Model | Code |
| --- | --- |
| `file` | the process's descriptor table, 4 .. `NoFile` - 1 (3 is the listening socket) |
| `fds`, `revents`, `i`, `main` | `main()`'s locals and control point |
| `client_list` | the list, as a set: a node is a descriptor and its connection |
| `threads[t]` | a handler: `fd`, control point, the socket its blocked `recv()` holds, descriptors left to write to |
| `peer`, `inq`, `unread`, `fin`, `rst`, `backlog` | a client's socket and the segments under way |
| `Poll`, `Accept`, `AcceptFails`, `Welcome`, `Spawn`, `Unlist`, `CloseSlot` | one pass of the loop, `server_poll2.c:74-158` |
| `Recv`, `Received`, `EndOfStream`, `Deliver` | the loop of `main_thread` |
| `Ask`, `Answered`, `NoAnswer` | `proc_p2p` waiting for the answer to a file request |
| `Killed` | SIGPIPE |
| `Connect`, `Say`, `Read`, `Quit`, `Close`, `Reset` | the client and the network (what the client code does, and the kernel's FIN/RST rules) |

A command is abstracted to the descriptors its handler writes to. `quit` and
`echo` write to their own (so do /who, /whois, /create and every command that
names an unknown user); `say` and `file` write to the descriptor of a nickname,
which may be any, stale or not; `all` writes to each node of `client_list`;
`yes` and `no` answer a file request and write nothing when the client's own
handler receives them. Several writes to one descriptor count as one. The walk
of `all` is one step. `RaisesSIGPIPE` is a possibility and not a certainty:
`send()` returns `ECONNRESET` the first time and raises the signal later.

`recv()` keeps the socket it found when it was called: closing the descriptor
does not wake it. This is the difference between `threads[t].fd` and
`threads[t].on`, and what the stale readers come from.

`owner` in a thread's record is a history field; no guard reads it.

A handler that has asked for a file to be accepted waits in `recv()` on the
receiver's descriptor (`server_utils.c:774`), without a limit, and reads nothing
of its own client meanwhile. `Waits(c)` says that the handler of c is there,
`Asked(c)` that some handler waits for the answer of c and may take what c sends,
its /quit included. The liveness properties name both.

The lists begin at the address of a global pointer (`&client_list`,
`&nicknames`, `&rooms`), whose 8 bytes the code uses as a node. The fields past
its end, `next` among them, are in whatever the linker placed there, `wilcard`
possibly. All models take that memory for the anchor's own.

`Sessions` is the abstract view: a queue of arrivals, admitted in order up to a
capacity; only who left is dropped; no connection is admitted twice. `Server`
maps `backlog` to the line, the range of `file` to those online, and implements
it, with capacity `NoFile` - 4.

### NickList

Nodes are numbers in order of allocation. Node 0, `Anchor`, is the global
variable `nicknames` itself: the code passes `&nicknames` around and uses the
variable's own memory as the first node, so that the first true node, the
administrator's, is `next` of it. Its other fields read 0, the descriptor of no
client.

Each read or write of a `next` field is a step. A `/nick` is `Ask`, then
look-ups (`Walk`, `Decide`: `exist_user` is called up to three times), `Create`,
`Append` (the walk to the last node) and `Link`. `main()`'s removal is `Hangup`,
then, as many times as the slot plus one, `Find`, `Load`, `Store`, `Free`, or
`NotFound`; the last pass closes the descriptor. What `Create` stores is
`Stored(w)`, the nickname cut after its first word by `strtok`
(`server_utils.c:884`), while the look-ups have compared it whole; the constant
`FirstWord` gives the first word of each. (The client refuses such nicknames
after /nick, and sends one itself, `NULL PAYLOAD`, for a /msg or /send without a
text.) A node is listed when it is reachable from the anchor, that is, in every
set of nodes that has the anchor and the `next` of each of its members. `links`,
`began`, `linked`, `checked`, `cut`, `shortened`, and `since` and `had` of the
removal, are history: no guard reads them. `shortened` keeps the nodes whose
nickname was cut. `cut` keeps the nodes that an append which overlapped another
has cut off the list: those the node it wrote to had led to, and its own if that
one was no longer listed. Freed nodes hold `Junk`; their `next` is kept, since
`free()` writes over the first bytes of a node, the descriptor and the beginning
of the nickname. They are not allocated again: the C library keeps the first few
chunks of a size that a thread frees in that thread's own cache, and `main()`,
which alone frees nicknames, allocates only the administrator's.

### Rooms

A command is one step. What two threads do to such a list at once is studied on
`NickList`, whose code it shares almost word for word; `Rooms` is about what
commands do one after the other. The constants say which names the comparisons
confuse: `AlikeBare` and `AlikeLine` when `joinRoom` drops the last two
characters or the last one of its text, `Extends` when `exist_room` fills a
buffer without ending it. Whether the leftover bytes are there is a choice of
each call. `AlikeNick` is a set of relations, one for each number of bytes left
after the nickname that `getnick` copies: under each of them `joinRoom` takes
for its client's the first node, in the order of the list, with a nickname like
the client's (`TakenFor`), which may be another client's. A text typed with
/join or /quit keeps its newline, which is why a room recorded by /join is never
the exact name `quitRoom` looks for. `quitRoom` may delete the room it leaves or
keep it, empty or not: the sum of its members starts from an uninitialized
variable. A second nickname of one client makes `joinRoom` write its answer over
a string constant, which kills the server: `Crash`.

### ClientList

Each write of `main()` to the list and each access of a handler's walk is a step.

| Model | Code |
| --- | --- |
| `next`, `fd`, `conn`, `cache`, `used` | the nodes; those `suppr` freed, which `malloc` gives again to `addNode`, the last first, since both are called by `main()` |
| `Accept`, `Fill`, `Welcome`, `List`, `Link` | `main()` accepts, fills `wilcard` and sends it, `addNode` (`server_poll2.c:92-140`) |
| `Unlink`, `Release`, `Close` | `main()` on a hangup: `suppr`, the nicknames, `close` |
| `Msgall`, `Count`, `Load`, `Send` | /msgall: `count`, then as many links followed as nodes counted |
| `Whois`, `Again`, `Seek`, `ReadNode`, `WriteAnswer`, `Answer` | /whois: `exist_user` twice, `adresselist`, the node read, `wilcard` cleared, filled, sent |
| `dead` | a NULL pointer followed, or a freed node's string printed: the process is killed |

`adresselist` may return NULL, and its result is used unseen; the node may be
freed before it is read. How nicknames are kept is left to `NickList`: here each
client registers one of its own, and a hangup removes slot + 1 of its
descriptor. `wilcard` keeps for each part of the structure for whom it was
written, and each part is a write of its own: `main()` fills it in
`WelcomeOrder`, a handler in `AnswerOrder`. The copy of a text by `strcpy` is one
write: that a text may itself be half of another is left out, the fields of a
message may each be of another. `written` counts the parts done. `overlap` (who wrote to `wilcard` while a message was put together)
and the last four fields of an operation are history. All nodes point to the
same buffer of `inet_ntoa()`, so that the address /whois shows is that of the
client accepted last, whoever is asked about; the model leaves addresses out.

### Client

One client, its handler, and what other handlers do to its socket. A typed line
is a command, the number of words after it, and whether the first begins with
white space, as the newline does after a command and a space; `message_parser`
has one branch for each command of the C function, by what `strtok` leaves.
Messages are a type (the numbers of `enum msg_type`) and what matters of the
text. Towards the client bytes are counted in units, four to a structure,
because the handler also sends raw texts (the echo of gibberish and the
farewell), shorter than half a structure.

| Model | Code |
| --- | --- |
| `keyboard`, `stdio`, `ReadLine` | lines in the kernel and in the buffer of stdin: `getchar()` takes one line of a terminal, all there is of a pipe; `poll()` sees the kernel's only |
| `FromStdin`, `AtEndOfInput`, `Disconnect`, `FromServer` | the loop of `client_poll.c:53-153`; stdin goes first; at the end of a terminal's input the inner loop runs past its buffer (`overrun`) |
| `Read` | `read()` of a structure, shown from the place of `infos` |
| `Serve`, `Dispatch`, `Replies` | the loop and switch of `main_thread`, the number of messages each command answers |
| `Request`, `Answered`, `OwnAnswer` | a file request: its handler waits for another client's answer, or for its own client's |
| `TakeAnswer` | the handler of a client that sent this one a file request reads this client's socket |
| `Type`, `EndOfInput`, `ServerGone`, `Other`, `Ask` | the user, the server's end, messages of other handlers |

`typed`, `sent`, `batch` and `shown` are history. Some lines mean what nobody
would expect and the model has them mean it: /msg or /send with a name and no
text gives a structure of zeros, a request for the nickname "NULL". The raw
texts are never displayed as messages, and the bytes after them are out of step
until the client has read all there is: `MessagesShown` says precisely until when
messages are shown. Lines that arrive at once on a pipe may stay in the buffer
of stdio for ever, so `LinesSent` is about terminals.

## What is checked

No run checks for deadlock: a server nobody talks to waits in `poll()`, a client
may stop, and in `Server` and `ClientList` a process may also have died.

| Run | Instance | Shows |
| --- | --- | --- |
| `ServerSafety` | 3 clients, 2 slots, 2 descriptors, no command but /quit | types; slot k holds descriptor k + 3; what `poll()` reported is about slots that are still in use when the pass comes to them; the slot search stays in the table; the list matches the table; `Sessions` is implemented |
| `ServerCommands` | 2 clients, 2 commands among all, file, yes | each connected client keeps exactly one handler of its own; `Sessions` is implemented |
| `ServerLiveness` | 2 clients, 1 private message or file request | who connects is accepted; what is sent is read, unless the client's handler waits for ever for an answer; who quits is reaped, unless its handler waits so or another one waits for its answer |
| `NickList` | nicknames of one word, 3 handlers on 2 descriptors, 3 nodes beside the anchor and the administrator's | types; no cycle; administrator first; no freed node linked; duplicates only from overlapping look-ups, or where an append cut a node off; a departure removes the nicknames listed when it began, as many as slot + 1 |
| `NickListLiveness` | nicknames `NULL` and `NULL PAYLOA` (what the server makes of `NULL PAYLOAD`), 2 handlers, 2 nodes | every /nick ends; what `DuplicatesOverlap` says, of nicknames cut and not cut |
| `ClientList` | 3 connections, descriptors 4 and 5, 1 nickname, 2 commands | types; who is listed all along gets a /msgall exactly once and is found by /whois, unless a node was used again under the walk; only departures make a walk crash; each part of what is sent from `wilcard` is one's own unless someone wrote there meanwhile |
| `Client` | 19 lines, one or more for each branch of the parser; 2 typed, 1 message of others | types; messages are shown until a raw text comes between; the server does what a line means; lines are sent and served; the client stops with its server |
| `Rooms` | 2 clients, names room, room1, MAINROOM, nicknames toto1, toto2, 5 nodes | types; MAINROOM stays; a command changes its own client's memberships only, but may delete a room that it quits; who is told it joined is a member, unless the room was recorded as the one it was in |

Four runs show a disagreement between the code and what it or its documentation
says; each checks one property and ends with a counterexample.

| Run | Property | What happens |
| --- | --- | --- |
| `ServerGhost` | `DepartedReaped` | a client that had read everything and closes without /quit sends FIN, which is not polled for: its slot, descriptor and node stay |
| `ServerStale` | `OneReaderPerConnection` | a handler that is not blocked in `recv()` while its descriptor is closed and given again calls `recv()` on the next client's socket; in the trace it has been started and has not called `recv()` yet, and one that serves a command does the same |
| `ServerAnswer` | `AnswerReachesRequester` | the receiver's own handler, blocked in `recv()` on the same socket, takes the FILE_ACCEPT that `proc_p2p` waits for |
| `RoomsBack` | `BackInMainroom` | `/quit room` puts the client back in the room it quitted |

Other things the code does that its documents do not say, or that contradict
them; the models have them, and the properties above except them by name.

- Two clients can have the same nickname, in spite of "Nickname taken"
  (`server_utils.c:872`): `proc_nick` looks it up, then appends it
  (`server_utils.c:870-891`), and looks up more than it appends when the nickname
  has several words. Two clients that type /msg x without a text both register
  as `NULL`, one long after the other. `DuplicatesOverlap` says when.
- Two appends that found the same last node lose the first one
  (`server_utils.c:162`): its client was welcomed and is in no list.
- Who joins a room recorded as the one it is in leaves it: `joinRoom` makes it a
  member, then quits the recorded room, the same one (`server_utils.c:567`,
  `601`). After /nick, /join MAINROOM takes the client out of MAINROOM, and tells
  it that it joined. `JoinedUnlessRecorded` has this as its exception.
- `joinRoom` records the room in the first node whose nickname begins like the
  client's (`server_utils.c:598`): toto2's /join in the node of toto1. The
  memberships of toto1 are not touched (`OwnMembershipOnly`); toto2 leaves the room
  that was recorded there, not its own.
- A room may be deleted with members in it, since `quitRoom` adds them up from an
  uninitialized variable (`server_utils.c:529-534`), and "see if theres still
  someone in room" (`server_utils.c:1198`) fails. `OwnMembershipOnly` says that
  it is one the client quits, and not MAINROOM.
- With more descriptors than slots the search for a slot leaves the table
  (`server_poll2.c:103`): `NeverOverrun` has the opposite as its condition.
- /msgall goes to every connected client, whatever its room.

`DuplicatesOverlap` excepts a nickname that was cut after its look-up (TLC
refutes the property without this exception on the instance of
`NickListLiveness`) and a node that an append has cut off the list. The need for
the latter was met in the proof, in larger instances than those that are run
(where the property holds without the exception); the look-ups that let the
second client in begin after the first one was linked.

- *Linked again.* Two handlers have both found node a the last one while
  `main()` removes a. One links x to it; `main()` reads x as the successor of a;
  the other one links y over x. The nickname of x is now looked up, found free
  and registered by a third client; then `main()` links x again
  (`server_utils.c:162`, `249`).
- *Cut under a look-up.* A look-up stands on a node that was removed, and whose
  `next` still leads on into the list. An append that had found that node the
  last one, before others came after it, now writes its `next`. The look-up
  ends there, and misses a nickname that was listed all along.

The bounds.

- `Server`: three connections on two slots are the least in which a descriptor is
  reused while another stays open and a third client waits; two handlers can then
  be stale on different descriptors. Two commands are a file request and its
  answer, or two requests that wait for each other. In `ServerLiveness` one client
  sends a message or asks for a file and both may quit, which is enough for a
  /quit that nobody reads and for one that the wrong handler reads. With two
  connections on two descriptors `accept()` cannot fail there; it can in
  `ServerSafety`. Connections are interchangeable, and the safety runs use this as
  a symmetry; the liveness runs do not.
- `NickList`: three handlers, two of them on one descriptor, let two appends and
  one removal overlap and a descriptor change hands; with three nodes to
  allocate, a lost append is followed by another. No run has a client with more
  nicknames than its slot plus one: that `NicknamesRemoved` holds then is shown by
  its theorem alone. Two nicknames with the same first word, one of them that word
  alone, are enough for each to be stored under a look-up of the other.
- `ClientList`: three connections on two descriptors are the least again: two are
  listed while a third takes over the node and the descriptor of one that left;
  two commands can overlap each other and the welcome of a third client. One
  nickname is enough for /whois, which asks about a single one, and makes /msgall
  possible.
- `Client`: two lines and one message of others let a raw text be followed by a
  message, a second line wait in the buffer of stdio, and a file request's answer
  be taken by another handler or by the wrong one; each line stands for its branch
  of the parser, two of them for its check for white space.
- `Rooms`: two rooms beside MAINROOM, one name the beginning of the other,
  exercise each comparison; five nodes (for the two lists together, MAINROOM and
  the administrator included) allow each client a nickname and a room of its own,
  or one client two.

Fairness. `Server`: `main()` and each thread run (weak fairness: the kernel
schedules them and nothing in their loops can be taken away once enabled), a RST
under way arrives, and a client that typed /quit closes its socket, the next
statement of `client_poll.c`. Nothing makes a client type, read or die.
`NickList`: the threads run; nothing makes a client ask or leave. `Client`: the
client's loop and its handler run; nothing makes a user type, the server stop, or
another client answer a file request, which is why `LinesServed` excepts a
handler that waits for ever.
All liveness properties of `Server` say "or the process stops", since it may: a
failed `accept()` ends it, and so does SIGPIPE. With them, and with `Sessions`,
which is about safety alone, nothing is said against the server stopping: it does
stop, in the model as in the code.

## What is proved

For any number of clients, slots, descriptors, commands, handlers and nodes, and
any lines typed:

| Theorem | Property | Rests on |
| --- | --- | --- |
| `ServerProofs!TypeCorrect`, `TableCorrect`, `EventsCorrect` | `TypeOK`, `TableMatchesKernel`, `EventsAreCurrent` | their conjunction `IndInv`, which is inductive |
| `ServerProofs!SearchStaysInTable` | `NeverOverrun` | `IndInv`: if no slot is unused, slot k holds k + 3, so the free descriptor would be at least MAXCLI + 3 |
| `ServerProofs!ListCorrect` | `ListMatchesTable` | `IndInv` |
| `SessionProofs!SessionsImplemented` | `ServesSessions`, that is `Sessions!Spec` | `IndInv` and `SessionInv` below |
| `SessionProofs!EachClientServed` | `ServedWhileOpen` | `IndInv`, `SessionInv` and `HandlerInv` below |
| `NickListProofs!TypeCorrect`, `ForwardCorrect`, `AdminCorrect`, `NoFreedCorrect` | `TypeOK`, `ForwardLinks`, `AdminFirst`, `NoFreedLinked` | `IndInv` below |
| `RegistrationProofs!DuplicatesOnlyOverlap` | `DuplicatesOverlap` | `RegInv` below |
| `RegistrationProofs!NicknamesLeave` | `NicknamesRemoved` | `RegInv` and `DueInv` below |
| `ClientListProofs!TypeCorrect`, `OwnMessageCorrect` | `TypeOK`, `OwnMessage` | types, `MainInv`, `HandlerInv`, `WilcardInv` below |
| `WalkProofs!SentOnce`, `StayersReached`, `DeathByDeparture`, `WhoisCorrect` | `NeverTwice`, `ReachesStayers`, `DiesOfDeparture`, `WhoisFinds` | `MainInv`, `HandlerInv` and `WalkInv` below |
| `ClientProofs!TypeCorrect`, `UnderstandsCorrect` | `TypeOK`, `ServerUnderstands` | types, `Paired`, `Buffered` below |
| `ClientProofs!ShownCorrect` | `MessagesShown` | types, `ShownInv` below |
| `RoomsProofs!TypeCorrect`, `MainroomCorrect`, `OwnMembershipCorrect`, `JoinedCorrect` | `TypeOK`, `MainroomKept`, `OwnMembershipOnly`, `JoinedUnlessRecorded` | `TypeOK /\ MainroomKept`, and `Like` below |

None of the three invariants of `Server` is inductive without the others. Where
`Accept` finds the first unused slot and the lowest free descriptor, both are
the same position only because the table corresponds already; `CloseSlot` closes
the descriptor of slot `i`, which is in use only because the events are current;
and the types of `Spawn`'s handler need both.

`SessionInv` says that a connection waits in the queue once or is named by one
descriptor (`OnePlace`), that only who connected is in either place and only who
closed its socket sends FIN or RST (`Sincere`), and that the connection `main()`
is about to close is one whose client has left (`ReapsDeparted`). Each step of
`Server` is then one of `Sessions`, under the mapping, or a stutter: `Connect`
an arrival, `Accept` an admission, possible because a free descriptor means that
the capacity is not reached, `CloseSlot` a drop of somebody who left, which is
where `ReapsDeparted` is needed.

`HandlerInv` follows a connection from `accept()` to its handler. A pass
takes the slots in order and leaves nothing behind it (`PassInOrder`); the
descriptor a handler was started with is the one that names its connection as
long as there is one, and nobody else's handler was started for it
(`OwnHandler`); a connection has its handler or its slot is still to come
(`Served`); and the handler reads its own connection, and ends only when the
client has closed it (`Faithful`). `Faithful` does not survive the reuse of
the descriptor, as the run `ServerStale` shows, which is why it has a condition.

`NickList`'s `IndInv` adds to the four properties: `NodesInv` (a node never
linked has no successor and is not freed), `HandlersInv` (a handler that appends
owns its node and stands on one that was linked, never on the anchor when it
links; one that serves /nick has a nickname to look up), `ReaperInv` (where
`main()` stands: the node to remove follows only `prev`, the successor it read
comes after it), and `UniquePrevious` (no two live nodes have the same
successor). The argument is that `linked`, the moment a node was linked, grows
along `next`: an append links a node linked now, and a removal short-cuts a
path. `NoFreedLinked` then needs that the removed node had one predecessor,
which is `UniquePrevious`, and that no handler can link another node to it,
since a handler writes `next` of the node it found last and only its own new
node there.

`RegInv` relates a look-up to the list under it. `LookInv`: the nodes it has to
meet (`ToMeet`: the nickname asked for, listed when it began, not cut off) are on
the way from where it stands, and when it found the nickname free there are
none. `CleanInv`: what `main()` may link again when it has removed a node is
listed, or was cut off. `PairInv` is the property, of nodes out of the list as
well, since `main()` may bring one back. A removal shortens the way from a node
by one node only, which nobody has to meet since it leaves the list; an append
takes away what the node it writes to led to, all of which goes to `cut`.
`NameInv` ties the look-up to the node: it has the nickname that was looked up,
unless it is one of `shortened`, of which `PairInv` says nothing.

`DueInv` counts what a removal has left to do. `Due` are the nodes of the
client that leaves, linked before the removal began, in the list or about to
be put back to it by `main()`. They are ahead of `main()` while it looks for
one, so that it finds one if there is one left; the one found is among them; and
as long as some are left, their number and that of the passes done add up to
what there was at the beginning at most. Nothing adds to them: what is linked
now is too young, and what comes back was counted.

`ClientList`'s `WilcardInv` has three parts. `FillerInv`: who fills `wilcard` has
parts left to write, who is about to send it has none. `MixInv`: while a message
is put together, each part of `wilcard` is empty, its own, or written by somebody
since it was cleared. `OwnInv`: when nobody else wrote there, the parts it has
written so far are still its own. It needs that `main()` and a handler are never
at work on a message for the same client:
`MainInv` says that the client being welcomed has no handler yet, and that
`main()` took no more nodes than it accepted clients; `HandlerInv` says where a
handler may stand (`Count` has counted a node before it reaches the end, so that
the number of links to follow is never negative).

`WalkInv` is about walks over nodes that are unlinked, freed and given to other
clients. It rests on an order that the code never mentions: clients are listed
in the order in which they were accepted, since `main()` alone accepts and
appends. A *rank* is the number of the client a node was last taken for, which
the node itself forgets when it is freed; there is such a function in each state
(`ListInvariant`), it rises along every `next`, of freed nodes too, and so no walk
meets a client twice, or comes to one it has passed. For each walk there is a
set of nodes it may come to (`Ahead`), the list and what was unlinked since it
began, closed under `next`; from it no `next` jumps over somebody who stays,
unless one of its nodes was given to another client. `Counted` and `Visited`
compare the number of links that /msgall follows with the nodes before and
after it: enough of them to come to all who stay, and, if nobody left, not one
too many, which is what it crashes on. `Sought` is the same for /whois: whom it
asks about is ahead of it, or is the one found.

`Client`'s `Paired` says that, as long as the server is up, the lines not served
yet are those whose messages are on their way, then those in the buffer of
stdio, then those in the kernel, in this order, and that each message is one
that the parser makes of its line. `Buffered` keeps the second part empty at a
terminal, where `ReadLine` takes its line from the kernel. `ShownInv` says that
the first entries of `batch` are messages, up to a raw text or the end, and that
those not shown yet are the units to be read next, each at its place: nothing
else may come before them, and all of them are there. Two lemmas, by cases on
the command, then say that what the parser makes is a message (`ParsedType`),
and that the handler does for it what the line means (`Understood`).

A command on `Rooms` is `quitRoom` and `joinRoom` in turn, in one order or the
other. `Like(rs2, rs1, f)` says that each room of `rs2` is one of `rs1` but for
what client `f` is to it; `Stay(rs2, rs1, f, gone)` the converse, that each room of
`rs1` is still there but for what `f` is to it, or has a name in `gone`. Both hold of
what each of the two functions makes of a list (`JoinedKept`, `QuitKept`, and
`RemoveKept` for a room that is deleted, after which the indices of the others
change), and both compose. `gone` is then the room named in a /quit and those
recorded in the nodes taken for the client's (`Recorded`). With the type and
`MainroomKept`, which say that the first room is never the one deleted, this gives
`OwnMembershipOnly`. For `JoinedUnlessRecorded`, the room that `exist_room` found is
one that `joinRoom` finds (`Extends` lies within `AlikeLine`), the client is a
member of it after the first part, and `QuitKept` says that the second part
leaves it alone unless it has the name recorded.

The assumptions are those of the modules: at least one slot (`MAXCLI` > 1),
descriptors of clients above 3, names that are taken for themselves at least
(and `Extends` within the looser comparisons), lines made of known commands and
a number of words, bounds natural numbers.

Every invariant and every action property that a passing run checks is a theorem,
and so is the refinement of `Sessions`. Only model-checked: liveness
(`QuitterReaped`, `AcceptedEventually`, `CommandsServed`, `RegistrationEnds`,
`LinesSent`, `LinesServed`, `EndsWithServer`), since the prover supports neither
fairness nor ENABLED.

## What is not modelled

- The texts of answers: what /who and /channel_list put together, in a buffer
  of 128 bytes that a few names fill, and the pieces of a long /who, each of
  which is the beginning of the text. `Client` knows their number only.
- Lines longer than the buffers they are copied to.
- A `recv()` or `read()` that returns part of a structure because the rest has
  not arrived: what one `send()` is given arrives whole, as on the loopback
  interface, and only the raw texts put the two sides out of step.
- The use that the handler of an accepted file request makes of `adresselist`
  (`server_utils.c:795`): the same walk and the same unseen result as /whois.
- Display and logging: text out.
- Socket set-up: it happens once, before anything concurrent.
- File contents: FILE_SEND and FILE_ACK are declared and never used.
- The memory after the end of `fds` once the search has left it: the model stops
  there (`overrun`), and so does `Client` where a line's buffer ends.
- The reuse of a freed nickname node by a later `malloc`, once `main()`'s cache
  of free chunks is full; and two threads on the list of rooms: a room is larger
  than what that cache takes, and what a freed one reads as depends on the
  allocator's other clients.

## Plan

Done: `Server` over `Sessions`, `NickList`, `ClientList`, `Client`, `Rooms`, and
the proofs above. Left:

1. `Client` as a refinement of the client actions of `Server`.
2. Two commands at once on the list of rooms.
