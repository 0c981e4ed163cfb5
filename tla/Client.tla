------------------------------- MODULE Client -------------------------------
(***************************************************************************)
(* One client of EIRBCHAT (the loop of client_poll.c and message_parser in *)
(* client_utils.c) with the handler that serves it (main_thread in         *)
(* server_utils.c) and the bytes between them.                             *)
(*                                                                         *)
(* A typed line is a command, the number of words the parser finds after   *)
(* it, and whether the first of them begins with white space (the newline  *)
(* itself, after "/nick ", is such a word).  A message is its type and     *)
(* what matters of its text.  Towards the client bytes are counted in      *)
(* units, four for a struct message, since the handler also sends raw      *)
(* texts, which are shorter than the two units that precede the field      *)
(* infos.  What a send() is given arrives whole, as                        *)
(* on the loopback interface.                                              *)
(***************************************************************************)
EXTENDS Integers, Sequences, SequencesExt

CONSTANTS Lines,     \* the lines users type
          MaxTyped,  \* bound: lines typed
          MaxOther   \* bound: messages from other handlers

Commands == {"/nick", "/who", "/whois", "/msgall", "/msg", "/create", "/join", "/quit",
             "/channel_list", "/send", "yes", "no", "other"}

ASSUME ClientAssumption ==
    /\ Lines \subseteq [cmd : Commands, words : Nat, blank : BOOLEAN]
    /\ MaxTyped \in Nat /\ MaxOther \in Nat

VARIABLES
    source,    \* what stdin is: a terminal, which gives a line for each read() and
               \* stays readable at its end, or a pipe, which gives all there is
    keyboard,  \* lines typed that the kernel holds
    stdio,     \* lines in the buffer of stdin, which poll() does not see
    eof,       \* has the input ended?
    client,    \* poll, leaving (/quit sent), ended, killed (SIGPIPE), overrun
    up,        \* messages on their way to the handler
    handler,   \* recv, or the answer to a file request it waits for: another
               \* client's (wait), or its own client's (own)
    asking,    \* does another handler read this client's socket for an answer?
    server,    \* up, or gone: it has closed the connection, or died
    down,      \* units on their way to the client: <<entry of batch, position>>
    others,    \* messages from other handlers
    \* history
    typed,     \* the lines whose messages are not served yet
    sent,      \* how many lines the client has sent
    batch,     \* what was sent to the client since its socket was last empty:
               \* messages, numbered, and raw texts, 0
    shown      \* the messages of batch it has shown

input == <<source, keyboard, stdio, eof>>
upward == <<up, handler, asking, typed>>
downward == <<down, batch, shown>>
vars == <<source, keyboard, stdio, eof, client, up, handler, asking, server, down, others,
          typed, sent, batch, shown>>

-----------------------------------------------------------------------------
(***************************************************************************)
(* message_parser, one branch for each command, by what strtok() leaves.   *)
(* Types are those of enum msg_type.                                       *)
(***************************************************************************)

Msg(type, text) == [type |-> type, text |-> text]
Error == Msg(3, "junk")     \* wildcard_err, infos not initialized
Echo == Msg(3, "line")      \* "You need to type a command first"

\* Mutants of Named: white space is a name; the next type is taken.
NamedBlank(type, l) ==
    IF l.words = 0 THEN {Echo} ELSE IF l.words > 2 THEN {Error} ELSE {Msg(type, "name")}
NamedBefore(type, l) ==
    IF l.words = 0 THEN {Echo}
    ELSE IF l.words > 2 \/ l.blank THEN {Error} ELSE {Msg(type - 1, "name")}

\* One name, which does not begin with white space; a second word is joined to
\* it, a third is refused.
Named(type, l) ==
    IF l.words = 0 THEN {Echo}
    ELSE IF l.words > 2 \/ l.blank THEN {Error} ELSE {Msg(type, "name")}

\* The newline belongs to the command, which must stand alone.
Alone(type, text, words) == IF words = 0 THEN {Msg(type, text)} ELSE {Echo}

Worded(type, words) == IF words = 0 THEN {Echo} ELSE {Msg(type, "line")}

\* A name and a text.  Without the latter the structure is returned as it is,
\* full of zeros but for infos.
Addressed(type, texts, words) ==
    CASE words = 0 -> {Echo}
      [] words = 1 -> {Msg(0, "NULL")}
      [] OTHER -> {Msg(type, t) : t \in texts}

message_parser(l) ==
    CASE l.cmd = "/nick" -> Named(0, l)
      [] l.cmd = "/who" -> Alone(1, "blank", l.words)
      [] l.cmd = "/whois" -> Named(2, l)
      [] l.cmd = "/msgall" -> Worded(5, l.words)
      [] l.cmd = "/join" -> Worded(8, l.words)
      [] l.cmd = "/msg" -> Addressed(4, {"line"}, l.words)
      [] l.cmd = "/create" -> Named(6, l)
      [] l.cmd = "/quit" /\ l.words > 0 -> Named(10, l)
      [] l.cmd = "/quit" /\ l.words = 0 -> {Msg(3, "/quit")}
      [] l.cmd = "/channel_list" -> Alone(7, "blank", l.words)
      [] l.cmd = "/send" -> Addressed(11, {"file", "missing"}, l.words)
      [] l.cmd = "yes" -> Alone(12, "line", l.words)
      [] l.cmd = "no" -> Alone(13, "line", l.words)
      [] OTHER -> {Echo}

-----------------------------------------------------------------------------
(***************************************************************************)
(* Bytes to the client: n messages, or a raw text of len units.  Nothing   *)
(* reaches a client that has gone.                                         *)
(***************************************************************************)

Here == client \in {"poll", "leaving"}
Backlog == IF down = <<>> THEN <<>> ELSE batch
Frame(m) == [k \in 1 .. 4 |-> <<m, k>>]

Receives(new, units) ==
    IF ~ Here THEN UNCHANGED downward
    ELSE /\ down' = down \o units
         /\ batch' = Backlog \o new
         /\ shown' = IF down = <<>> /\ new # <<>> THEN <<>> ELSE shown

Messages(n) ==
    Receives([k \in 1 .. n |-> Len(Backlog) + k],
             [u \in 1 .. 4 * n |-> <<Len(Backlog) + (u + 3) \div 4, ((u - 1) % 4) + 1>>])

RawText == \E len \in 1 .. 2 : Receives(<<0>>, [k \in 1 .. len |-> <<0, k>>])

-----------------------------------------------------------------------------
(***************************************************************************)
(* The user, the server process and the other handlers.                    *)
(***************************************************************************)

Count == sent + Len(stdio) + Len(keyboard)

Type(l) ==
    /\ Here /\ ~ eof /\ Count < MaxTyped
    /\ keyboard' = Append(keyboard, l)
    /\ typed' = Append(typed, l)
    /\ UNCHANGED <<source, stdio, eof, client, up, handler, asking, server, downward,
                   others, sent>>

EndOfInput ==
    /\ Here /\ ~ eof
    /\ eof' = TRUE
    /\ UNCHANGED <<source, keyboard, stdio, client, upward, server, downward, others, sent>>

ServerGone ==
    /\ server = "up"
    /\ server' = "gone"
    /\ UNCHANGED <<input, client, upward, downward, others, sent>>

\* A message to this client: of /msg or /msgall,
Other ==
    /\ server = "up" /\ others < MaxOther
    /\ others' = others + 1
    /\ Messages(1)
    /\ UNCHANGED <<input, client, upward, server, sent>>

\* or a file request, whose handler then reads this client's socket.
Ask ==
    /\ server = "up" /\ others < MaxOther
    /\ others' = others + 1
    /\ asking' = TRUE
    /\ Messages(1)
    /\ UNCHANGED <<input, client, up, handler, typed, server, sent>>

-----------------------------------------------------------------------------
(***************************************************************************)
(* The client's loop.                                                      *)
(***************************************************************************)

\* Does poll() report stdin?  It does not see the buffer of stdio; at the end of
\* a pipe it reports POLLHUP alone.
Readable == keyboard # <<>> \/ (eof /\ source = "tty")

\* Mutant of ReadLine: stdin is always buffered as a pipe is.
ReadLineBuffered ==
    IF stdio # <<>> THEN stdio' = Tail(stdio) /\ UNCHANGED keyboard
    ELSE stdio' = Tail(keyboard) /\ keyboard' = <<>>

\* getchar(): from the buffer, which is filled when empty.
ReadLine ==
    IF source = "tty" THEN keyboard' = Tail(keyboard) /\ UNCHANGED stdio
    ELSE IF stdio # <<>> THEN stdio' = Tail(stdio) /\ UNCHANGED keyboard
    ELSE stdio' = Tail(keyboard) /\ keyboard' = <<>>

\* A line is parsed and sent; after /quit the connection is closed.  Without a
\* server, what is sent is lost and send() may raise SIGPIPE.
FromStdin ==
    /\ client = "poll" /\ keyboard # <<>>
    /\ ReadLine
    /\ LET l == Head(stdio \o keyboard)
           then == IF l.cmd = "/quit" /\ l.words = 0 THEN "leaving" ELSE "poll"
       IN  \E m \in message_parser(l) :
             IF server = "up" THEN up' = Append(up, m) /\ client' = then
             ELSE client' \in {then, "killed"} /\ UNCHANGED up
    /\ sent' = sent + 1
    /\ UNCHANGED <<source, eof, handler, asking, typed, server, downward, others>>

\* At the end of input getchar() returns EOF for ever, into buff.
AtEndOfInput ==
    /\ client = "poll" /\ keyboard = <<>> /\ Readable
    /\ client' = "overrun"
    /\ UNCHANGED <<input, upward, server, downward, others, sent>>

Disconnect ==
    /\ client = "leaving"
    /\ client' = "ended"
    /\ UNCHANGED <<input, upward, server, downward, others, sent>>

\* A read() of sizeof(struct message) at most shows what it finds in place of
\* infos: a message, if it is one.
ReadUpTo(len) ==
    LET got == SubSeq(down, 1, IF len < Len(down) THEN len ELSE Len(down))
        m == got[1][1]
    IN  /\ down' = SubSeq(down, Len(got) + 1, Len(down))
        /\ shown' = IF m # 0 /\ got = Frame(m) THEN Append(shown, m) ELSE shown

\* Mutant of Read: MSG_LEN bytes, the size of buf_fromserver, are read.
ReadBuffer == ReadUpTo(15)

Read == ReadUpTo(4)

\* Mutant of FromServer: only a read() of -1 ends the loop.
FromServerOnly ==
    /\ client = "poll" /\ ~ Readable
    /\ down # <<>> /\ Read /\ UNCHANGED client
    /\ UNCHANGED <<input, upward, server, batch, others, sent>>

\* stdin goes first.  A read() of nothing ends the loop.
FromServer ==
    /\ client = "poll" /\ ~ Readable
    /\ \/ down # <<>> /\ Read /\ UNCHANGED client
       \/ down = <<>> /\ server = "gone" /\ client' = "ended" /\ UNCHANGED <<down, shown>>
    /\ UNCHANGED <<input, upward, server, batch, others, sent>>

-----------------------------------------------------------------------------
(***************************************************************************)
(* The handler.                                                            *)
(***************************************************************************)

\* The switch of main_thread.
Dispatch(m) ==
    CASE m.type = 0 -> "nick"
      [] m.type = 1 -> "who"
      [] m.type = 2 -> "whois"
      [] m.type = 3 -> IF m.text = "/quit" THEN "farewell" ELSE "echo"
      [] m.type = 4 -> "msg"
      [] m.type = 5 -> "msgall"
      [] m.type = 6 -> "create"
      [] m.type = 7 -> "channel_list"
      [] m.type = 8 -> "join"
      [] m.type = 10 -> "quit"
      [] m.type = 11 -> IF m.text = "file" THEN "request" ELSE "nothing"
      [] OTHER -> "nothing"

\* The messages a command sends to its own client: the one whose nickname it
\* asks for again gets none, nor does the sender of a /msg; a long /who takes
\* several.
Replies(service) ==
    CASE service = "nothing" -> {0}
      [] service \in {"nick", "msg"} -> {0, 1}
      [] service = "who" -> {1, 2}
      [] OTHER -> {1}

\* A file request goes to an unknown user, to the client itself or to another.
Request ==
    \/ Messages(1) /\ handler' \in {"recv", "own"}
    \/ handler' = "wait" /\ UNCHANGED downward

Taken ==
    /\ server = "up" /\ up # <<>>
    /\ up' = Tail(up)
    /\ typed' = Tail(typed)
    /\ UNCHANGED <<input, client, server, others, sent>>

\* Mutant of Serve: what is not served ends the loop.
ServeKnown ==
    /\ handler = "recv" /\ up # <<>>
    /\ LET service == Dispatch(Head(up))
       IN  /\ Taken
           /\ \/ service = "request" /\ Request
              \/ service \in {"echo", "farewell"} /\ RawText /\ UNCHANGED handler
              \/ /\ service \notin {"request", "echo", "farewell"}
                 /\ \E n \in Replies(service) : Messages(n)
                 /\ handler' = IF service = "nothing" THEN "ended" ELSE handler
    /\ UNCHANGED asking

Serve ==
    /\ handler = "recv" /\ up # <<>>
    /\ LET service == Dispatch(Head(up))
       IN  /\ Taken
           /\ \/ service = "request" /\ Request
              \/ service \in {"echo", "farewell"} /\ RawText /\ UNCHANGED handler
              \/ /\ service \notin {"request", "echo", "farewell"}
                 /\ \E n \in Replies(service) : Messages(n)
                 /\ UNCHANGED handler
    /\ UNCHANGED asking

\* The other client's answer, or the end of its connection.
Answered ==
    /\ server = "up" /\ handler = "wait"
    /\ handler' = "recv"
    /\ \E n \in 0 .. 2 : Messages(n)
    /\ UNCHANGED <<input, client, up, asking, typed, server, others, sent>>

\* A client that asked itself: what it sends next is the answer.
OwnAnswer ==
    /\ handler = "own"
    /\ Taken
    /\ handler' = "recv"
    /\ Messages(CASE Head(up).type = 12 -> 2 [] Head(up).type = 13 -> 1 [] OTHER -> 0)
    /\ UNCHANGED asking

\* The handler of a client that asked this one takes whatever comes first.
TakeAnswer ==
    /\ asking
    /\ Taken
    /\ asking' = FALSE
    /\ UNCHANGED <<handler, downward>>

-----------------------------------------------------------------------------
\* The welcome message is on its way.
Init ==
    /\ source \in {"tty", "pipe"}
    /\ keyboard = <<>> /\ stdio = <<>> /\ eof = FALSE
    /\ client = "poll" /\ server = "up"
    /\ up = <<>> /\ handler = "recv" /\ asking = FALSE
    /\ down = Frame(1) /\ batch = <<1>> /\ shown = <<>>
    /\ others = 0
    /\ typed = <<>> /\ sent = 0

Loop == FromStdin \/ AtEndOfInput \/ Disconnect \/ FromServer
Handle == Serve \/ OwnAnswer

Next ==
    \/ \E l \in Lines : Type(l)
    \/ EndOfInput \/ ServerGone \/ Other \/ Ask
    \/ Loop
    \/ Handle \/ Answered \/ TakeAnswer

\* The client's process and the handler run.  Nothing makes a user type, a
\* server stop or another client answer.
Fairness == WF_vars(Loop) /\ WF_vars(Handle)
Spec == Init /\ [][Next]_vars /\ Fairness

-----------------------------------------------------------------------------
(***************************************************************************)
(* Properties.                                                             *)
(***************************************************************************)

Message == [type : (0 .. 13) \ {9},
            text : {"junk", "line", "name", "blank", "/quit", "file", "missing", "NULL"}]

\* Every variable has its type; no message has the types the server does not
\* know (9, 14, 15).
TypeOK ==
    /\ source \in {"tty", "pipe"} /\ eof \in BOOLEAN /\ asking \in BOOLEAN
    /\ {keyboard, stdio, typed} \subseteq Seq(Lines)
    /\ client \in {"poll", "leaving", "ended", "killed", "overrun"}
    /\ up \in Seq(Message)
    /\ handler \in {"recv", "wait", "own"}
    /\ server \in {"up", "gone"}
    /\ down \in Seq(Nat \X (1 .. 4))
    /\ others \in 0 .. MaxOther
    /\ sent \in 0 .. MaxTyped /\ Len(up) <= Len(typed)
    /\ {batch, shown} \subseteq Seq(Nat)

\* What each command asks for, and how many words it takes.  A name does not
\* begin with white space.
Known == [c \in Commands \ {"other"} |->
    CASE c = "/nick" -> <<"nick", {1, 2}>>
      [] c = "/who" -> <<"who", {0}>>
      [] c = "/whois" -> <<"whois", {1, 2}>>
      [] c = "/msgall" -> <<"msgall", Nat \ {0}>>
      [] c = "/msg" -> <<"msg", Nat \ {0, 1}>>
      [] c = "/create" -> <<"create", {1, 2}>>
      [] c = "/join" -> <<"join", Nat \ {0}>>
      [] c = "/quit" -> <<"quit", {1, 2}>>
      [] c = "/channel_list" -> <<"channel_list", {0}>>
      [] c = "/send" -> <<"request", Nat \ {0, 1}>>
      [] c \in {"yes", "no"} -> <<"nothing", {0}>>]

Means(l) ==
    IF l.cmd = "/quit" /\ l.words = 0 THEN {"farewell"}
    ELSE IF l.cmd \in {"/msg", "/send"} /\ l.words = 1 THEN {"nick"}
    ELSE IF l.cmd = "other" \/ l.words \notin Known[l.cmd][2] THEN {"echo"}
    ELSE IF l.cmd \in {"/nick", "/whois", "/create", "/quit"} /\ l.blank THEN {"echo"}
    ELSE IF l.cmd = "/send" THEN {"request", "nothing"}
    ELSE {Known[l.cmd][1]}

\* A handler that serves the next message of its client does what the next line
\* typed means, whatever other handlers took for an answer before.  Two lines mean
\* what nobody would expect: /msg and /send with a name alone ask for a nickname
\* (client_utils.c, lines 210 to 215 and 368 to 373).
ServerUnderstands ==
    [][handler = "recv" /\ Len(typed') < Len(typed) /\ asking' = asking
           => Dispatch(Head(up)) \in Means(Head(typed))]_vars

\* Until a raw text, which is shorter than a message, is sent before the client
\* has read the rest, it shows the messages sent to it, all and in order
\* (client_poll.c, line 126).
MessagesShown ==
    LET Raw == {k \in DOMAIN batch : batch[k] = 0}
        clean == IF Raw = {} THEN batch
                 ELSE SubSeq(batch, 1, (CHOOSE k \in Raw : \A j \in Raw : k <= j) - 1)
    IN  /\ IsPrefix(shown, clean) \/ IsPrefix(clean, shown)
        /\ down = <<>> => IsPrefix(clean, shown)

\* What is typed at a terminal is sent, whatever the server sends meanwhile,
\* unless the client stops first.  (Of lines that a pipe gives at once the last
\* ones may stay in the buffer of stdio.)
LinesSent == (source = "tty" /\ Count > sent) ~> (Count = sent \/ client # "poll")

\* What is sent is taken by a handler, unless the server stops or another client
\* never answers a file request of this one.
LinesServed == (up # <<>>) ~> (up = <<>> \/ server = "gone" \/ [](handler = "wait"))

\* A client stops when its server does, whatever was under way.
EndsWithServer == (server = "gone") ~> ~ Here
=============================================================================
