---------------------------- MODULE ClientProofs ----------------------------
(***************************************************************************)
(* Proofs about Client, for any set of lines and any bounds.               *)
(***************************************************************************)
EXTENDS Client, SequenceTheorems, TLAPS

\* While the server is up, the lines whose messages are not served are those on
\* their way, then those in the buffer of stdio, then those in the kernel; and
\* the messages are what the parser made of them.
Paired ==
    server = "up" =>
        /\ Len(typed) = Len(up) + Len(stdio) + Len(keyboard)
        /\ \A k \in 1 .. Len(up) : up[k] \in message_parser(typed[k])
        /\ \A k \in 1 .. Len(stdio) : stdio[k] = typed[Len(up) + k]
        /\ \A k \in 1 .. Len(keyboard) : keyboard[k] = typed[Len(up) + Len(stdio) + k]

\* Nothing waits in the buffer of a terminal; no more lines than the bound.
Buffered == (source = "tty" => stdio = <<>>) /\ Count <= MaxTyped

IndInv == TypeOK /\ Paired /\ Buffered

-----------------------------------------------------------------------------
\* Whatever the parser makes of a line is a message the server knows.
LEMMA ParsedType ==
    ASSUME NEW l \in Lines, NEW m \in message_parser(l)
    PROVE  m \in Message
<1>1. l.cmd \in Commands /\ l.words \in Nat /\ l.blank \in BOOLEAN
  BY ClientAssumption
<1>. USE DEF message_parser, Named, Alone, Worded, Addressed, Msg, Error, Echo, Message
<1>2. CASE l.cmd \in {"/nick", "/who", "/whois", "/msgall", "/join"}
  BY <1>1, <1>2
<1>3. CASE l.cmd \in {"/msg", "/create"}
  BY <1>1, <1>3
<1>4. CASE l.cmd = "/quit"
  BY <1>1, <1>4
<1>5. CASE l.cmd \in {"/channel_list", "/send", "yes", "no", "other"}
  BY <1>1, <1>5
<1>. QED BY <1>1, <1>2, <1>3, <1>4, <1>5 DEF Commands

\* And the handler does for it what the line means.
LEMMA Understood ==
    ASSUME NEW l \in Lines, NEW m \in message_parser(l)
    PROVE  Dispatch(m) \in Means(l)
<1>1. l.cmd \in Commands /\ l.words \in Nat /\ l.blank \in BOOLEAN
  BY ClientAssumption
<1>. USE DEF message_parser, Named, Alone, Worded, Addressed, Msg, Error, Echo,
             Dispatch, Means, Known, Commands
<1>2. CASE l.cmd \in {"/nick", "/whois", "/create"}
  BY <1>1, <1>2
<1>3. CASE l.cmd \in {"/who", "/channel_list", "yes", "no"}
  BY <1>1, <1>3
<1>4. CASE l.cmd \in {"/msgall", "/join"}
  BY <1>1, <1>4
<1>5. CASE l.cmd = "/msg"
  BY <1>1, <1>5
<1>6. CASE l.cmd = "/quit"
  BY <1>1, <1>6
<1>7. CASE l.cmd = "/send"
  BY <1>1, <1>7
<1>8. CASE l.cmd = "other"
  BY <1>1, <1>8
<1>. QED BY <1>1, <1>2, <1>3, <1>4, <1>5, <1>6, <1>7, <1>8

-----------------------------------------------------------------------------
\* What is sent to the client keeps the types of what is on its way.
DownType == down \in Seq(Nat \X (1 .. 4)) /\ batch \in Seq(Nat) /\ shown \in Seq(Nat)

LEMMA ReceivesType ==
    ASSUME DownType, NEW new \in Seq(Nat), NEW units \in Seq(Nat \X (1 .. 4)),
           Receives(new, units)
    PROVE  DownType'
<1>1. CASE ~ Here
  BY <1>1 DEF Receives, DownType, downward
<1>2. CASE Here
  <2>1. down' \in Seq(Nat \X (1 .. 4))
    BY <1>2, ConcatProperties DEF Receives, DownType
  <2>2. batch' \in Seq(Nat)
    <3>1. Backlog \in Seq(Nat)
      BY DEF DownType, Backlog
    <3>2. batch' = Backlog \o new
      BY <1>2 DEF Receives
    <3>. QED BY <3>1, <3>2, ConcatProperties
  <2>3. shown' \in Seq(Nat)
    BY <1>2 DEF Receives, DownType
  <2>. QED BY <2>1, <2>2, <2>3 DEF DownType
<1>. QED BY <1>1, <1>2

LEMMA MessagesType ==
    ASSUME DownType, NEW n \in Nat, Messages(n)
    PROVE  DownType'
<1>1. Len(Backlog) \in Nat
  BY DEF DownType, Backlog
<1>2. [k \in 1 .. n |-> Len(Backlog) + k] \in Seq(Nat)
  BY <1>1
<1>3. \A u \in 1 .. 4 * n :
        <<Len(Backlog) + (u + 3) \div 4, ((u - 1) % 4) + 1>> \in Nat \X (1 .. 4)
  BY <1>1
<1>4. [u \in 1 .. 4 * n |-> <<Len(Backlog) + (u + 3) \div 4, ((u - 1) % 4) + 1>>]
        \in Seq(Nat \X (1 .. 4))
  BY <1>3
<1>. QED BY <1>2, <1>4, ReceivesType DEF Messages

LEMMA RawTextType == DownType /\ RawText => DownType'
<1> SUFFICES ASSUME DownType, RawText PROVE DownType'
  OBVIOUS
<1>1. PICK len \in 1 .. 2 : Receives(<<0>>, [k \in 1 .. len |-> <<0, k>>])
  BY DEF RawText
<1>2. [k \in 1 .. len |-> <<0, k>>] \in Seq(Nat \X (1 .. 4))
  OBVIOUS
<1>3. <<0>> \in Seq(Nat)
  OBVIOUS
<1>. QED BY <1>1, <1>2, <1>3, ReceivesType

\* And so does a read() by the client.
LEMMA ReadType ==
    ASSUME DownType, down # <<>>, Read
    PROVE  down' \in Seq(Nat \X (1 .. 4)) /\ shown' \in Seq(Nat)
<1> DEFINE len == IF 4 < Len(down) THEN 4 ELSE Len(down)
           got == SubSeq(down, 1, len)
<1>1. Len(down) \in Nat \ {0} /\ len \in 1 .. Len(down)
  BY EmptySeq, LenProperties DEF DownType
<1>2. got \in Seq(Nat \X (1 .. 4)) /\ Len(got) = len /\ got[1] = down[1]
  BY <1>1, SubSeqProperties DEF DownType
<1>3. down[1] \in Nat \X (1 .. 4)
  BY <1>1 DEF DownType
<1>4. got[1][1] \in Nat
  BY <1>2, <1>3
<1>5. down' = SubSeq(down, len + 1, Len(down))
  BY <1>2 DEF Read, ReadUpTo
<1>6. down' \in Seq(Nat \X (1 .. 4))
  BY <1>1, <1>5, SubSeqProperties DEF DownType
<1>7. shown' \in Seq(Nat)
  BY <1>4 DEF Read, ReadUpTo, DownType
<1>. QED BY <1>6, <1>7

-----------------------------------------------------------------------------
\* The steps that take a message from the way to the handler keep the rest in
\* correspondence.
LEMMA TakenPaired ==
    ASSUME IndInv, Taken
    PROVE  /\ Paired'
           /\ up' \in Seq(Message) /\ typed' \in Seq(Lines)
           /\ Len(up') <= Len(typed')
<1>1. /\ up \in Seq(Message) /\ up # <<>> /\ typed \in Seq(Lines) /\ typed # <<>>
      /\ stdio \in Seq(Lines) /\ keyboard \in Seq(Lines)
  BY EmptySeq DEF IndInv, TypeOK, Taken
<1>2. /\ up' = Tail(up) /\ typed' = Tail(typed) /\ stdio' = stdio /\ keyboard' = keyboard
      /\ server' = server /\ server = "up"
  BY DEF Taken, input
<1>3. /\ up' \in Seq(Message) /\ Len(up') = Len(up) - 1
      /\ \A k \in 1 .. Len(up') : up'[k] = up[k + 1]
  BY <1>1, <1>2, HeadTailProperties
<1>4. /\ typed' \in Seq(Lines) /\ Len(typed') = Len(typed) - 1
      /\ \A k \in 1 .. Len(typed') : typed'[k] = typed[k + 1]
  BY <1>1, <1>2, HeadTailProperties
<1>5. /\ Len(up) \in Nat \ {0} /\ Len(typed) \in Nat
      /\ Len(stdio) \in Nat /\ Len(keyboard) \in Nat
  BY <1>1, EmptySeq, LenProperties
<1>6. /\ Len(typed) = Len(up) + Len(stdio) + Len(keyboard)
      /\ \A k \in 1 .. Len(up) : up[k] \in message_parser(typed[k])
      /\ \A k \in 1 .. Len(stdio) : stdio[k] = typed[Len(up) + k]
      /\ \A k \in 1 .. Len(keyboard) : keyboard[k] = typed[Len(up) + Len(stdio) + k]
  BY <1>2 DEF IndInv, Paired
<1>7. ASSUME NEW k \in 1 .. Len(up')
      PROVE  up'[k] \in message_parser(typed'[k])
  <2>1. k + 1 \in 1 .. Len(up) /\ k \in 1 .. Len(typed')
    BY <1>3, <1>4, <1>5, <1>6
  <2>2. up'[k] = up[k + 1] /\ typed'[k] = typed[k + 1]
    BY <1>3, <1>4, <2>1
  <2>. QED BY <1>6, <2>1, <2>2
<1>8. ASSUME NEW k \in 1 .. Len(stdio)
      PROVE  stdio[k] = typed'[Len(up') + k]
  <2>1. Len(up') + k \in 1 .. Len(typed')
    BY <1>3, <1>4, <1>5, <1>6
  <2>2. typed'[Len(up') + k] = typed[Len(up') + k + 1]
    BY <1>4, <2>1
  <2>3. Len(up') + k + 1 = Len(up) + k
    BY <1>3, <1>5
  <2>. QED BY <1>6, <2>2, <2>3
<1>9. ASSUME NEW k \in 1 .. Len(keyboard)
      PROVE  keyboard[k] = typed'[Len(up') + Len(stdio) + k]
  <2>1. Len(up') + Len(stdio) + k \in 1 .. Len(typed')
    BY <1>3, <1>4, <1>5, <1>6
  <2>2. typed'[Len(up') + Len(stdio) + k] = typed[Len(up') + Len(stdio) + k + 1]
    BY <1>4, <2>1
  <2>3. Len(up') + Len(stdio) + k + 1 = Len(up) + Len(stdio) + k
    BY <1>3, <1>5
  <2>. QED BY <1>6, <2>2, <2>3
<1>10. Len(typed') = Len(up') + Len(stdio) + Len(keyboard) /\ Len(up') <= Len(typed')
  BY <1>3, <1>4, <1>5, <1>6
<1>11. Paired'
  BY <1>2, <1>7, <1>8, <1>9, <1>10 DEF Paired
<1>. QED BY <1>3, <1>4, <1>10, <1>11

\* A step that leaves the lines, the messages and the server alone.
LEMMA Elsewhere ==
    ASSUME IndInv, UNCHANGED <<source, keyboard, stdio, up, server, typed, sent>>
    PROVE  Paired' /\ Buffered'
BY DEF IndInv, Paired, Buffered, Count

\* The user's steps.
LEMMA UserInv ==
    ASSUME IndInv, (\E l \in Lines : Type(l)) \/ EndOfInput
    PROVE  IndInv'
<1>1. CASE EndOfInput
  BY <1>1, Elsewhere DEF IndInv, TypeOK, EndOfInput, upward, downward
<1>2. ASSUME NEW l \in Lines, Type(l) PROVE IndInv'
  <2>1. /\ keyboard \in Seq(Lines) /\ typed \in Seq(Lines)
        /\ up \in Seq(Message) /\ stdio \in Seq(Lines)
        /\ Len(keyboard) \in Nat /\ Len(typed) \in Nat /\ Len(up) \in Nat /\ Len(stdio) \in Nat
    BY LenProperties DEF IndInv, TypeOK
  <2>2. /\ keyboard' = Append(keyboard, l) /\ keyboard' \in Seq(Lines)
        /\ Len(keyboard') = Len(keyboard) + 1
        /\ \A k \in 1 .. Len(keyboard) : keyboard'[k] = keyboard[k]
        /\ keyboard'[Len(keyboard) + 1] = l
    BY <1>2, <2>1, AppendProperties DEF Type
  <2>3. /\ typed' = Append(typed, l) /\ typed' \in Seq(Lines) /\ Len(typed') = Len(typed) + 1
        /\ \A k \in 1 .. Len(typed) : typed'[k] = typed[k]
        /\ typed'[Len(typed) + 1] = l
    BY <1>2, <2>1, AppendProperties DEF Type
  <2>4. UNCHANGED <<source, stdio, eof, client, up, handler, asking, server, down, batch,
                    shown, others, sent>>
    BY <1>2 DEF Type, downward
  <2>5. TypeOK'
    BY <2>1, <2>2, <2>3, <2>4 DEF IndInv, TypeOK
  <2>6. Paired'
    <3>1. SUFFICES ASSUME server = "up"
                   PROVE  Paired'
      BY <2>4 DEF Paired
    <3>2. /\ Len(typed) = Len(up) + Len(stdio) + Len(keyboard)
          /\ \A k \in 1 .. Len(up) : up[k] \in message_parser(typed[k])
          /\ \A k \in 1 .. Len(stdio) : stdio[k] = typed[Len(up) + k]
          /\ \A k \in 1 .. Len(keyboard) : keyboard[k] = typed[Len(up) + Len(stdio) + k]
      BY <3>1 DEF IndInv, Paired
    <3>3. \A k \in 1 .. Len(stdio) : stdio[k] = typed'[Len(up) + k]
      BY <2>1, <2>3, <3>2
    <3>4. ASSUME NEW k \in 1 .. Len(keyboard')
          PROVE  keyboard'[k] = typed'[Len(up) + Len(stdio) + k]
      <4>1. CASE k \in 1 .. Len(keyboard)
        <5>1. Len(up) + Len(stdio) + k \in 1 .. Len(typed)
          BY <2>1, <3>2, <4>1
        <5>. QED BY <2>2, <2>3, <3>2, <4>1, <5>1
      <4>2. CASE k = Len(keyboard) + 1
        <5>1. Len(up) + Len(stdio) + k = Len(typed) + 1
          BY <2>1, <3>2, <4>2
        <5>. QED BY <2>2, <2>3, <4>2, <5>1
      <4>. QED BY <2>1, <2>2, <4>1, <4>2
    <3>5. Len(typed') = Len(up) + Len(stdio) + Len(keyboard')
      BY <2>1, <2>2, <2>3, <3>2
    <3>6. UNCHANGED <<up, stdio, server>>
      BY <2>4
    <3>7. \A k \in 1 .. Len(up) : up[k] \in message_parser(typed'[k])
      BY <2>1, <2>3, <3>2
    <3>. QED BY <3>3, <3>4, <3>5, <3>6, <3>7 DEF Paired
  <2>7. Buffered'
    BY <1>2, <2>1, <2>2, <2>4, ClientAssumption DEF IndInv, TypeOK, Type, Buffered, Count
  <2>. QED BY <2>5, <2>6, <2>7 DEF IndInv
<1>. QED BY <1>1, <1>2

\* The steps of others, which may send to the client.
LEMMA OthersInv ==
    ASSUME IndInv, ServerGone \/ Other \/ Ask \/ Answered
    PROVE  IndInv'
<1>1. DownType
  BY DEF IndInv, TypeOK, DownType
<1>2. DownType'
  BY <1>1, MessagesType DEF DownType, ServerGone, Other, Ask, Answered, downward
<1>3. TypeOK'
  <2>1. UNCHANGED <<input, client, up, typed, sent>> /\ handler' \in {"recv", "wait", "own"}
        /\ asking' \in BOOLEAN /\ server' \in {"up", "gone"} /\ others' \in 0 .. MaxOther
    <3>1. CASE ServerGone
      BY <3>1 DEF IndInv, TypeOK, ServerGone, upward
    <3>2. CASE Other \/ Ask
      <4>1. others' \in 0 .. MaxOther
        BY <3>2, ClientAssumption DEF IndInv, TypeOK, Other, Ask
      <4>. QED BY <3>2, <4>1 DEF IndInv, TypeOK, Other, Ask, upward
    <3>3. CASE Answered
      BY <3>3 DEF IndInv, TypeOK, Answered
    <3>. QED BY <3>1, <3>2, <3>3
  <2>. QED BY <1>2, <2>1 DEF IndInv, TypeOK, DownType, input
<1>4. Buffered'
  BY DEF IndInv, Buffered, Count, ServerGone, Other, Ask, Answered, input
<1>5. Paired'
  <2>1. CASE ServerGone
    BY <2>1 DEF ServerGone, Paired
  <2>2. CASE Other \/ Ask \/ Answered
    BY <2>2, Elsewhere DEF Other, Ask, Answered, input, upward
  <2>. QED BY <2>1, <2>2
<1>. QED BY <1>3, <1>4, <1>5 DEF IndInv

\* The handler's steps, and those of the handlers it is asked by.
LEMMA HandlersInv ==
    ASSUME IndInv, Serve \/ OwnAnswer \/ TakeAnswer
    PROVE  IndInv'
<1>1. Taken
  BY DEF Serve, OwnAnswer, TakeAnswer
<1>2. DownType
  BY DEF IndInv, TypeOK, DownType
<1>3. DownType' /\ handler' \in {"recv", "wait", "own"} /\ asking' \in BOOLEAN
  <2>1. CASE Serve
    <3>1. CASE Request
      BY <1>2, <2>1, <3>1, MessagesType DEF Serve, Request, DownType, downward, IndInv, TypeOK
    <3>2. CASE RawText /\ UNCHANGED handler
      BY <1>2, <2>1, <3>2, RawTextType DEF Serve, IndInv, TypeOK
    <3>3. CASE (\E n \in Replies(Dispatch(Head(up))) : Messages(n)) /\ UNCHANGED handler
      <4>1. Replies(Dispatch(Head(up))) \subseteq Nat
        BY DEF Replies
      <4>. QED BY <1>2, <2>1, <3>3, <4>1, MessagesType DEF Serve, IndInv, TypeOK
    <3>. QED BY <2>1, <3>1, <3>2, <3>3 DEF Serve
  <2>2. CASE OwnAnswer
    <3>1. PICK n \in {0, 1, 2} : Messages(n)
      BY <2>2 DEF OwnAnswer
    <3>. QED BY <1>2, <2>2, <3>1, MessagesType DEF OwnAnswer, IndInv, TypeOK
  <2>3. CASE TakeAnswer
    BY <1>2, <2>3 DEF TakeAnswer, DownType, downward, IndInv, TypeOK
  <2>. QED BY <2>1, <2>2, <2>3
<1>4. Paired' /\ up' \in Seq(Message) /\ typed' \in Seq(Lines) /\ Len(up') <= Len(typed')
  BY <1>1, TakenPaired
<1>5. UNCHANGED <<input, client, server, others, sent>>
  BY <1>1 DEF Taken
<1>6. TypeOK'
  BY <1>3, <1>4, <1>5 DEF IndInv, TypeOK, DownType, input
<1>7. Buffered'
  BY <1>5 DEF IndInv, Buffered, Count, input
<1>. QED BY <1>4, <1>6, <1>7 DEF IndInv

\* The client's steps.
LEMMA FromStdinInv ==
    ASSUME IndInv, FromStdin
    PROVE  IndInv'
<1> DEFINE l == Head(stdio \o keyboard)
<1>1. /\ keyboard \in Seq(Lines) /\ keyboard # <<>> /\ stdio \in Seq(Lines)
      /\ typed \in Seq(Lines) /\ up \in Seq(Message)
      /\ source \in {"tty", "pipe"} /\ (source = "tty" => stdio = <<>>)
  BY DEF IndInv, TypeOK, Buffered, FromStdin
<1>2. /\ Len(keyboard) \in Nat \ {0} /\ Len(stdio) \in Nat
      /\ Len(typed) \in Nat /\ Len(up) \in Nat
  BY <1>1, EmptySeq, LenProperties
<1>3. /\ stdio \o keyboard \in Seq(Lines) /\ Len(stdio \o keyboard) = Len(stdio) + Len(keyboard)
      /\ l = (stdio \o keyboard)[1] /\ l \in Lines
      /\ \A k \in 1 .. Len(stdio) : (stdio \o keyboard)[k] = stdio[k]
      /\ \A k \in 1 .. Len(keyboard) : (stdio \o keyboard)[Len(stdio) + k] = keyboard[k]
  BY <1>1, <1>2, ConcatProperties
\* The lines that wait are the same, in the same order, but for the first.
<1>4. /\ stdio' \in Seq(Lines) /\ keyboard' \in Seq(Lines)
      /\ Len(stdio') \in Nat /\ Len(keyboard') \in Nat
      /\ Len(stdio') + Len(keyboard') = Len(stdio) + Len(keyboard) - 1
      /\ \A k \in 1 .. Len(stdio') : stdio'[k] = (stdio \o keyboard)[k + 1]
      /\ \A k \in 1 .. Len(keyboard') : keyboard'[k] = (stdio \o keyboard)[Len(stdio') + k + 1]
      /\ source = "tty" => stdio' = <<>>
  <2>1. CASE stdio = <<>>
    <3>1. /\ Tail(keyboard) \in Seq(Lines) /\ Len(Tail(keyboard)) = Len(keyboard) - 1
          /\ \A k \in 1 .. Len(keyboard) - 1 : Tail(keyboard)[k] = keyboard[k + 1]
      BY <1>1, HeadTailProperties
    <3>2. stdio \o keyboard = keyboard /\ Len(stdio) = 0
      BY <1>1, <2>1, ConcatEmptySeq
    <3>3. CASE source = "tty"
      <4>1. keyboard' = Tail(keyboard) /\ stdio' = <<>>
        BY <2>1, <3>3 DEF FromStdin, ReadLine
      <4>. QED BY <1>1, <1>2, <3>1, <3>2, <4>1
    <3>4. CASE source = "pipe"
      <4>1. stdio' = Tail(keyboard) /\ keyboard' = <<>>
        BY <2>1, <3>4 DEF FromStdin, ReadLine
      <4>. QED BY <1>1, <1>2, <3>1, <3>2, <3>4, <4>1
    <3>. QED BY <1>1, <3>3, <3>4
  <2>2. CASE stdio # <<>>
    <3>1. stdio' = Tail(stdio) /\ keyboard' = keyboard /\ source # "tty"
      BY <1>1, <2>2 DEF FromStdin, ReadLine
    <3>2. /\ Tail(stdio) \in Seq(Lines) /\ Len(Tail(stdio)) = Len(stdio) - 1
          /\ \A k \in 1 .. Len(stdio) - 1 : Tail(stdio)[k] = stdio[k + 1]
          /\ Len(stdio) > 0
      BY <1>1, <1>2, <2>2, HeadTailProperties, EmptySeq
    <3>. QED BY <1>1, <1>2, <1>3, <3>1, <3>2
  <2>. QED BY <2>1, <2>2
<1>5. UNCHANGED <<source, eof, handler, asking, typed, server, down, batch, shown, others>>
      /\ sent' = sent + 1
  BY DEF FromStdin, downward
<1>6. PICK m \in message_parser(l) :
        /\ client' \in {"poll", "leaving", "killed"}
        /\ IF server = "up" THEN up' = Append(up, m) ELSE UNCHANGED up
  BY DEF FromStdin
<1>7. m \in Message
  BY <1>3, ParsedType
<1>8. up' \in Seq(Message) /\ (server = "up" =>
        /\ Len(up') = Len(up) + 1 /\ up'[Len(up) + 1] = m
        /\ \A k \in 1 .. Len(up) : up'[k] = up[k])
  <2>1. CASE server = "up"
    <3>1. up' = Append(up, m)
      BY <1>6, <2>1
    <3>. QED BY <1>1, <1>7, <3>1, AppendProperties
  <2>2. CASE server # "up"
    BY <1>1, <1>6, <2>2
  <2>. QED BY <2>1, <2>2
<1>9. ASSUME server = "up" PROVE Paired' /\ Len(up') <= Len(typed')
  <2>1. /\ Len(typed) = Len(up) + Len(stdio) + Len(keyboard)
        /\ \A k \in 1 .. Len(up) : up[k] \in message_parser(typed[k])
        /\ \A k \in 1 .. Len(stdio) : stdio[k] = typed[Len(up) + k]
        /\ \A k \in 1 .. Len(keyboard) : keyboard[k] = typed[Len(up) + Len(stdio) + k]
    BY <1>9 DEF IndInv, Paired
  <2>2. ASSUME NEW k \in 1 .. Len(stdio) + Len(keyboard)
        PROVE  (stdio \o keyboard)[k] = typed[Len(up) + k]
    <3>1. CASE k <= Len(stdio)
      BY <1>2, <1>3, <2>1, <3>1
    <3>2. CASE k > Len(stdio)
      <4> DEFINE j == k - Len(stdio)
      <4>1. j \in 1 .. Len(keyboard) /\ k = Len(stdio) + j
        BY <1>2, <3>2
      <4>2. (stdio \o keyboard)[k] = keyboard[j]
        BY <1>3, <4>1
      <4>3. Len(up) + k = Len(up) + Len(stdio) + j
        BY <1>2, <4>1
      <4>. QED BY <2>1, <4>1, <4>2, <4>3
    <3>. QED BY <1>2, <3>1, <3>2
  <2>3. typed[Len(up) + 1] = l
    BY <1>2, <1>3, <2>2
  <2>4. /\ Len(up') = Len(up) + 1 /\ Len(typed') = Len(typed)
        /\ Len(stdio') \in Nat /\ Len(keyboard') \in Nat
        /\ Len(stdio') + Len(keyboard') = Len(stdio) + Len(keyboard) - 1
        /\ Len(typed) = Len(up) + Len(stdio) + Len(keyboard)
    BY <1>4, <1>5, <1>8, <1>9, <2>1
  <2>5. Len(typed') = Len(up') + Len(stdio') + Len(keyboard') /\ Len(up') <= Len(typed')
    BY <1>2, <2>4
  <2>6. ASSUME NEW k \in 1 .. Len(up')
        PROVE  up'[k] \in message_parser(typed'[k])
    <3>1. CASE k \in 1 .. Len(up)
      BY <1>5, <1>8, <1>9, <2>1, <3>1
    <3>2. CASE k = Len(up) + 1
      BY <1>5, <1>6, <1>8, <1>9, <2>3, <3>2
    <3>. QED BY <1>2, <1>8, <1>9, <3>1, <3>2
  <2>7. ASSUME NEW k \in 1 .. Len(stdio')
        PROVE  stdio'[k] = typed'[Len(up') + k]
    <3>1. k + 1 \in 1 .. Len(stdio) + Len(keyboard) /\ Len(up') + k = Len(up) + (k + 1)
      BY <1>2, <2>4
    <3>. QED BY <1>4, <1>5, <2>2, <3>1
  <2>8. ASSUME NEW k \in 1 .. Len(keyboard')
        PROVE  keyboard'[k] = typed'[Len(up') + Len(stdio') + k]
    <3>1. /\ Len(stdio') + k + 1 \in 1 .. Len(stdio) + Len(keyboard)
          /\ Len(up') + Len(stdio') + k = Len(up) + (Len(stdio') + k + 1)
      BY <1>2, <2>4
    <3>. QED BY <1>4, <1>5, <2>2, <3>1
  <2>. QED BY <2>5, <2>6, <2>7, <2>8 DEF Paired
<1>10. ASSUME server # "up" PROVE Paired' /\ Len(up') <= Len(typed')
  BY <1>5, <1>6, <1>10 DEF IndInv, TypeOK, Paired
<1>11. Count' = Count /\ sent' \in 0 .. MaxTyped
  <2>1. Count <= MaxTyped /\ sent \in Nat /\ MaxTyped \in Nat
    BY ClientAssumption DEF IndInv, TypeOK, Buffered
  <2>2. /\ Len(stdio') \in Nat /\ Len(keyboard') \in Nat /\ sent' = sent + 1
        /\ Len(stdio') + Len(keyboard') = Len(stdio) + Len(keyboard) - 1
    BY <1>4, <1>5
  <2>. QED BY <1>2, <2>1, <2>2 DEF Count
<1>12. TypeOK'
  BY <1>4, <1>5, <1>6, <1>8, <1>9, <1>10, <1>11 DEF IndInv, TypeOK
<1>13. Buffered'
  BY <1>4, <1>5, <1>11 DEF IndInv, Buffered
<1>. QED BY <1>9, <1>10, <1>12, <1>13 DEF IndInv

LEMMA LoopInv ==
    ASSUME IndInv, Loop
    PROVE  IndInv'
<1>1. CASE FromStdin
  BY <1>1, FromStdinInv
<1>2. CASE AtEndOfInput \/ Disconnect
  <2>1. Paired' /\ Buffered'
    BY <1>2, Elsewhere DEF AtEndOfInput, Disconnect, input, upward
  <2>2. TypeOK'
    BY <1>2 DEF IndInv, TypeOK, AtEndOfInput, Disconnect, input, upward, downward
  <2>. QED BY <2>1, <2>2 DEF IndInv
<1>3. CASE FromServer
  <2>1. Paired' /\ Buffered'
    BY <1>3, Elsewhere DEF FromServer, input, upward
  <2>2. DownType /\ batch' = batch
    BY <1>3 DEF IndInv, TypeOK, DownType, FromServer
  <2>3. DownType'
    BY <1>3, <2>2, ReadType DEF FromServer, DownType
  <2>4. TypeOK'
    BY <1>3, <2>3 DEF IndInv, TypeOK, DownType, FromServer, input, upward
  <2>. QED BY <2>1, <2>4 DEF IndInv
<1>. QED BY <1>1, <1>2, <1>3 DEF Loop

-----------------------------------------------------------------------------
LEMMA InitInv == Init => IndInv
<1> SUFFICES ASSUME Init PROVE IndInv
  OBVIOUS
<1>1. DownType
  <2>1. Frame(1) \in Seq(Nat \X (1 .. 4))
    BY DEF Frame
  <2>. QED BY <2>1 DEF Init, DownType
<1>2. TypeOK
  <2>1. asking \in BOOLEAN /\ eof \in BOOLEAN
    BY DEF Init
  <2>2. /\ keyboard \in Seq(Lines) /\ stdio \in Seq(Lines) /\ typed \in Seq(Lines)
        /\ up \in Seq(Message) /\ Len(up) = 0 /\ Len(typed) = 0
    BY EmptySeq DEF Init
  <2>3. others \in 0 .. MaxOther /\ sent \in 0 .. MaxTyped
    BY ClientAssumption DEF Init
  <2>. QED BY <1>1, <2>1, <2>2, <2>3 DEF Init, TypeOK, DownType
<1>3. Paired /\ Buffered
  BY ClientAssumption DEF Init, Paired, Buffered, Count
<1>. QED BY <1>2, <1>3 DEF IndInv

LEMMA NextInv == IndInv /\ [Next]_vars => IndInv'
<1>1. ASSUME IndInv, Next PROVE IndInv'
  BY <1>1, UserInv, OthersInv, HandlersInv, LoopInv DEF Next, Handle
<1>2. ASSUME IndInv, UNCHANGED vars PROVE IndInv'
  BY <1>2 DEF vars, IndInv, TypeOK, Paired, Buffered, Count
<1>. QED BY <1>1, <1>2

LEMMA Inductive == Spec => []IndInv
BY InitInv, NextInv, PTL DEF Spec

\* Every variable has its type, whatever is typed and sent: in particular the
\* parser makes no message that main_thread does not know.
THEOREM TypeCorrect == Spec => []TypeOK
<1>1. IndInv => TypeOK
  BY DEF IndInv
<1>. QED BY <1>1, Inductive, PTL

\* What the handler does of a message is what the line it was made from means,
\* for any lines, any number of them, any interleaving with other handlers.
THEOREM UnderstandsCorrect == Spec => ServerUnderstands
<1> DEFINE A == handler = "recv" /\ Len(typed') < Len(typed) /\ asking' = asking
                  => Dispatch(Head(up)) \in Means(Head(typed))
<1>1. ASSUME IndInv, [Next]_vars PROVE A
  <2>1. SUFFICES ASSUME handler = "recv", Len(typed') < Len(typed), asking' = asking
                 PROVE  Dispatch(Head(up)) \in Means(Head(typed))
    OBVIOUS
  <2>2. typed \in Seq(Lines) /\ Len(typed) \in Nat
    BY <1>1 DEF IndInv, TypeOK
  <2>3. typed' # typed
    BY <2>1, <2>2
  <2>4. ASSUME NEW l \in Lines PROVE ~ Type(l)
    BY <2>1, <2>2, AppendProperties DEF Type
  <2>5. Serve
    BY <1>1, <2>1, <2>3, <2>4
       DEF Next, vars, EndOfInput, ServerGone, Other, Ask, Loop, FromStdin, AtEndOfInput,
           Disconnect, FromServer, Handle, OwnAnswer, Answered, TakeAnswer, upward
  <2>6. server = "up" /\ up \in Seq(Message) /\ up # <<>>
    BY <1>1, <2>5 DEF Serve, Taken, IndInv, TypeOK
  <2>7. Len(up) \in Nat \ {0} /\ Len(up) <= Len(typed)
    BY <1>1, <2>6, EmptySeq DEF IndInv, TypeOK
  <2>8. Head(up) = up[1] /\ Head(typed) = typed[1] /\ typed[1] \in Lines
    BY <2>2, <2>6, <2>7
  <2>9. up[1] \in message_parser(typed[1])
    BY <1>1, <2>6, <2>7 DEF IndInv, Paired
  <2>. QED BY <2>8, <2>9, Understood
<1>2. ServerUnderstands <=> [][A]_vars
  BY DEF ServerUnderstands
<1>. QED BY <1>1, <1>2, Inductive, PTL DEF Spec

-----------------------------------------------------------------------------
(***************************************************************************)
(* Messages shown.                                                         *)
(***************************************************************************)

\* The u-th unit of messages sent one after the other.
Unit(u) == <<(u + 3) \div 4, ((u - 1) % 4) + 1>>

\* The first e entries of batch are messages, and what comes after them is a raw
\* text, or nothing.  Those of the e not shown yet are the next to be read, and
\* all there is to read if no raw text follows.
InStep(e) ==
    LET left == 4 * (e - Len(shown))
    IN  /\ \A k \in 1 .. e : batch[k] = k
        /\ e < Len(batch) => batch[e + 1] = 0
        /\ \A k \in 1 .. Len(shown) : k <= e => shown[k] = k
        /\ Len(shown) < e =>
            /\ left <= Len(down)
            /\ \A j \in 1 .. left : down[j] = Unit(4 * Len(shown) + j)
        /\ e = Len(batch) => Len(down) = IF Len(shown) < e THEN left ELSE 0

ShownInv == \E e \in 0 .. Len(batch) : InStep(e)

\* Units of messages that come after b others, or at the start.
LEMMA Units ==
    ASSUME NEW b \in Nat, NEW u \in Nat \ {0}
    PROVE  /\ <<b + (u + 3) \div 4, ((u - 1) % 4) + 1>> \in Nat \X (1 .. 4)
           /\ <<b + (u + 3) \div 4, ((u - 1) % 4) + 1>> = Unit(4 * b + u)
           /\ u <= 4 => Unit(4 * b + u) = <<b + 1, u>>
<1>1. (u + 3) \div 4 \in Nat /\ ((u - 1) % 4) + 1 \in 1 .. 4
  OBVIOUS
<1>2. ((4 * b + u) + 3) \div 4 = b + (u + 3) \div 4
  OBVIOUS
<1>3. ((4 * b + u) - 1) % 4 = (u - 1) % 4
  OBVIOUS
<1>4. u <= 4 => (u + 3) \div 4 = 1 /\ ((u - 1) % 4) + 1 = u
  OBVIOUS
<1>. QED BY <1>1, <1>2, <1>3, <1>4 DEF Unit

\* What follows what.
LEMMA Joined ==
    ASSUME NEW S, NEW s \in Seq(S), NEW t \in Seq(S)
    PROVE  /\ s \o t \in Seq(S) /\ Len(s \o t) = Len(s) + Len(t)
           /\ \A k \in 1 .. Len(s) : (s \o t)[k] = s[k]
           /\ \A k \in 1 .. Len(t) : (s \o t)[Len(s) + k] = t[k]
<1>1. Len(s) \in Nat /\ Len(t) \in Nat
  OBVIOUS
<1>2. ASSUME NEW k \in 1 .. Len(t) PROVE (s \o t)[Len(s) + k] = t[k]
  <2>1. Len(s) + k \in 1 .. Len(s) + Len(t) /\ ~ (Len(s) + k <= Len(s)) /\ Len(s) + k - Len(s) = k
    BY <1>1
  <2>. QED BY <2>1, ConcatProperties
<1>3. ASSUME NEW k \in 1 .. Len(s) PROVE (s \o t)[k] = s[k]
  <2>1. k \in 1 .. Len(s) + Len(t) /\ k <= Len(s)
    BY <1>1
  <2>. QED BY <2>1, ConcatProperties
<1>. QED BY <1>2, <1>3, ConcatProperties

\* What is sent to a client that has read everything is a new batch.
LEMMA FreshBatch ==
    ASSUME DownType, Here, down = <<>>, NEW new \in Seq(Nat), NEW units \in Seq(Nat \X (1 .. 4)),
           Receives(new, units)
    PROVE  /\ batch' = new /\ down' = units
           /\ new # <<>> => shown' = <<>>
           /\ new = <<>> => shown' = shown
<1>1. batch' = <<>> \o new /\ down' = <<>> \o units
  BY DEF Receives, Backlog
<1>. QED BY <1>1, ConcatEmptySeq DEF Receives

\* Messages that follow messages go on with their numbers and their units.
LEMMA MessagesInStep ==
    ASSUME DownType, ShownInv, NEW n \in Nat, Messages(n)
    PROVE  ShownInv'
<1>. DEFINE b == Len(Backlog)
            new == [k \in 1 .. n |-> b + k]
            units == [u \in 1 .. 4 * n |-> <<b + (u + 3) \div 4, ((u - 1) % 4) + 1>>]
<1>1. /\ b \in Nat /\ Receives(new, units)
      /\ batch \in Seq(Nat) /\ shown \in Seq(Nat) /\ down \in Seq(Nat \X (1 .. 4))
      /\ Len(batch) \in Nat /\ Len(shown) \in Nat /\ Len(down) \in Nat
  BY LenProperties DEF Messages, DownType, Backlog
<1>2. /\ new \in Seq(Nat) /\ Len(new) = n /\ \A k \in 1 .. n : new[k] = b + k
  BY <1>1
<1>3. \A u \in 1 .. 4 * n :
        /\ <<b + (u + 3) \div 4, ((u - 1) % 4) + 1>> \in Nat \X (1 .. 4)
        /\ <<b + (u + 3) \div 4, ((u - 1) % 4) + 1>> = Unit(4 * b + u)
  <2>. HIDE DEF b
  <2>1. \A u \in 1 .. 4 * n : u \in Nat \ {0}
    OBVIOUS
  <2>. QED BY <1>1, <2>1, Units
<1>4. /\ units \in Seq(Nat \X (1 .. 4)) /\ Len(units) = 4 * n
      /\ \A u \in 1 .. 4 * n : units[u] = Unit(4 * b + u)
  <2>1. units \in Seq(Nat \X (1 .. 4)) /\ Len(units) = 4 * n
    BY <1>3
  <2>. QED BY <1>3, <2>1
<1>. HIDE DEF new, units
<1>5. CASE ~ Here
  BY <1>1, <1>5 DEF Receives, downward, ShownInv, InStep
<1>6. CASE Here /\ down = <<>>
  <2>1. /\ b = 0 /\ batch' = new /\ down' = units
        /\ (new # <<>> => shown' = <<>>) /\ (new = <<>> => shown' = shown)
    BY <1>1, <1>2, <1>4, <1>6, FreshBatch DEF Backlog, DownType
  <2>2. CASE n = 0
    <3>1. Len(batch') = 0 /\ Len(down') = 0 /\ Len(shown') \in Nat
      <4>1. new = <<>>
        BY <1>2, <2>2, EmptySeq
      <4>. QED BY <1>1, <1>2, <1>4, <1>6, <2>1, <2>2, <4>1, FreshBatch DEF DownType
    <3>2. InStep(0)'
      BY <3>1 DEF InStep
    <3>. QED BY <3>1, <3>2 DEF ShownInv
  <2>3. CASE n # 0
    <3>1. new # <<>>
      BY <1>2, <2>3, EmptySeq
    <3>2. shown' = <<>> /\ Len(shown') = 0 /\ Len(batch') = n /\ Len(down') = 4 * n
      BY <1>1, <1>2, <1>4, <1>6, <2>1, <3>1, FreshBatch DEF DownType
    <3>3. /\ \A k \in 1 .. n : batch'[k] = k
          /\ \A j \in 1 .. 4 * n : down'[j] = Unit(j)
      BY <1>2, <1>4, <2>1
    <3>4. InStep(n)'
      BY <3>2, <3>3 DEF InStep
    <3>. QED BY <3>2, <3>4 DEF ShownInv
  <2>. QED BY <2>2, <2>3
<1>7. CASE Here /\ down # <<>>
  <2>1. PICK e \in 0 .. Len(batch) : InStep(e)
    BY DEF ShownInv
  <2>. DEFINE r == Len(shown)
  <2>2. b = Len(batch) /\ batch' = batch \o new /\ down' = down \o units /\ shown' = shown
    BY <1>1, <1>7 DEF Receives, Backlog
  <2>3. /\ Len(batch') = Len(batch) + n
        /\ \A k \in 1 .. Len(batch) : batch'[k] = batch[k]
        /\ \A k \in 1 .. n : batch'[Len(batch) + k] = Len(batch) + k
    <3>1. /\ Len(batch \o new) = Len(batch) + Len(new)
          /\ \A k \in 1 .. Len(batch) : (batch \o new)[k] = batch[k]
          /\ \A k \in 1 .. Len(new) : (batch \o new)[Len(batch) + k] = new[k]
      <4>1. batch \in Seq(Nat) /\ new \in Seq(Nat)
        BY <1>1, <1>2
      <4>. QED BY <4>1, Joined
    <3>. QED BY <1>2, <2>2, <3>1
  <2>4. /\ Len(down') = Len(down) + 4 * n
        /\ \A j \in 1 .. Len(down) : down'[j] = down[j]
        /\ \A u \in 1 .. 4 * n : down'[Len(down) + u] = Unit(4 * Len(batch) + u)
    <3>1. /\ Len(down \o units) = Len(down) + Len(units)
          /\ \A j \in 1 .. Len(down) : (down \o units)[j] = down[j]
          /\ \A u \in 1 .. Len(units) : (down \o units)[Len(down) + u] = units[u]
      <4>1. down \in Seq(Nat \X (1 .. 4)) /\ units \in Seq(Nat \X (1 .. 4))
        BY <1>1, <1>4
      <4>. QED BY <4>1, Joined
    <3>. QED BY <1>4, <2>2, <3>1
  <2>. HIDE DEF b
  <2>5. CASE e < Len(batch)
    <3>1. /\ \A k \in 1 .. e : batch'[k] = k
          /\ batch'[e + 1] = 0 /\ e < Len(batch')
      <4>1. /\ \A k \in 1 .. e : batch[k] = k /\ k \in 1 .. Len(batch)
            /\ batch[e + 1] = 0 /\ e + 1 \in 1 .. Len(batch)
        BY <1>1, <2>1, <2>5 DEF InStep
      <4>2. Len(batch') \in Nat /\ Len(batch') >= Len(batch)
        BY <1>1, <2>3
      <4>3. \A k \in 1 .. e : batch'[k] = k
        BY <2>3, <4>1
      <4>4. batch'[e + 1] = 0
        BY <2>3, <4>1
      <4>. QED BY <1>1, <2>5, <4>2, <4>3, <4>4
    <3>2. /\ \A k \in 1 .. Len(shown') : k <= e => shown'[k] = k
          /\ Len(shown') < e =>
              /\ 4 * (e - Len(shown')) <= Len(down')
              /\ \A j \in 1 .. 4 * (e - Len(shown')) : down'[j] = Unit(4 * Len(shown') + j)
      <4>. DEFINE left == 4 * (e - Len(shown))
      <4>1. /\ \A k \in 1 .. Len(shown) : k <= e => shown[k] = k
            /\ Len(shown) < e =>
                left <= Len(down) /\ \A j \in 1 .. left : down[j] = Unit(4 * Len(shown) + j)
        BY <2>1 DEF InStep
      <4>2. left \in Int /\ left <= Len(down) =>
                left <= Len(down') /\ \A j \in 1 .. left : j \in 1 .. Len(down)
        BY <1>1, <2>4
      <4>3. left \in Int
        BY <1>1
      <4>. QED BY <2>2, <2>4, <4>1, <4>2, <4>3
    <3>3. InStep(e)'
      BY <3>1, <3>2 DEF InStep
    <3>. QED BY <1>1, <2>3, <3>3 DEF ShownInv
  <2>6. CASE e = Len(batch)
    <3>1. r < e /\ Len(down) = 4 * (e - r)
      <4>1. Len(down) # 0
        BY <1>1, <1>7, EmptySeq
      <4>. QED BY <2>1, <2>6, <4>1 DEF InStep
    <3>2. ASSUME NEW k \in 1 .. e + n PROVE batch'[k] = k
      <4>1. CASE k \in 1 .. e
        BY <2>1, <2>3, <2>6, <4>1 DEF InStep
      <4>2. CASE k \notin 1 .. e
        <5>1. k - e \in 1 .. n /\ k = e + (k - e)
          BY <1>1, <4>2
        <5>. QED BY <2>3, <2>6, <5>1
      <4>. QED BY <4>1, <4>2
    <3>3. ASSUME NEW j \in 1 .. 4 * (e + n - r) PROVE down'[j] = Unit(4 * r + j)
      <4>1. CASE j \in 1 .. Len(down)
        BY <2>1, <2>4, <3>1, <4>1 DEF InStep
      <4>2. CASE j \notin 1 .. Len(down)
        <5>1. /\ j - Len(down) \in 1 .. 4 * n /\ j = Len(down) + (j - Len(down))
              /\ 4 * e + (j - Len(down)) = 4 * r + j
          BY <1>1, <3>1, <4>2
        <5>. QED BY <2>4, <2>6, <5>1
      <4>. QED BY <4>1, <4>2
    <3>4. \A k \in 1 .. Len(shown') : k <= e + n => shown'[k] = k
      BY <1>1, <2>1, <2>2, <3>1 DEF InStep
    <3>5. /\ Len(shown') = r /\ r < e + n /\ Len(batch') = e + n
          /\ Len(down') = 4 * (e + n - r)
      BY <1>1, <2>2, <2>3, <2>4, <2>6, <3>1
    <3>6. InStep(e + n)'
      BY <1>1, <3>2, <3>3, <3>4, <3>5 DEF InStep
    <3>. QED BY <1>1, <3>5, <3>6 DEF ShownInv
  <2>. QED BY <1>1, <2>5, <2>6
<1>. QED BY <1>5, <1>6, <1>7

\* A raw text ends the part of the batch that is shown.
LEMMA RawTextInStep == ASSUME DownType, ShownInv, RawText PROVE ShownInv'
<1>1. PICK len \in 1 .. 2 : Receives(<<0>>, [k \in 1 .. len |-> <<0, k>>])
  BY DEF RawText
<1>. DEFINE units == [k \in 1 .. len |-> <<0, k>>]
<1>2. units \in Seq(Nat \X (1 .. 4)) /\ <<0>> \in Seq(Nat) /\ <<0>> # <<>> /\ Len(<<0>>) = 1
  OBVIOUS
<1>3. /\ batch \in Seq(Nat) /\ shown \in Seq(Nat) /\ down \in Seq(Nat \X (1 .. 4))
      /\ Len(batch) \in Nat /\ Len(shown) \in Nat /\ Len(down) \in Nat /\ Len(units) \in Nat
  BY <1>2, LenProperties DEF DownType
<1>. HIDE DEF units
<1>4. CASE ~ Here
  BY <1>1, <1>4 DEF Receives, downward, ShownInv, InStep
<1>5. CASE Here /\ down = <<>>
  <2>1. batch' = <<0>> /\ shown' = <<>>
    BY <1>1, <1>2, <1>5, FreshBatch DEF units
  <2>2. Len(batch') = 1 /\ batch'[1] = 0 /\ Len(shown') = 0
    BY <2>1
  <2>3. InStep(0)'
    BY <2>2 DEF InStep
  <2>. QED BY <2>2, <2>3 DEF ShownInv
<1>6. CASE Here /\ down # <<>>
  <2>1. PICK e \in 0 .. Len(batch) : InStep(e)
    BY DEF ShownInv
  <2>2. batch' = batch \o <<0>> /\ down' = down \o units /\ shown' = shown
    BY <1>1, <1>6 DEF Receives, Backlog, units
  <2>3. /\ Len(batch') = Len(batch) + 1
        /\ \A k \in 1 .. Len(batch) : batch'[k] = batch[k]
        /\ batch'[Len(batch) + 1] = 0
    BY <1>2, <1>3, <2>2, Joined DEF DownType
  <2>4. /\ Len(down') >= Len(down)
        /\ \A j \in 1 .. Len(down) : down'[j] = down[j]
    BY <1>2, <1>3, <2>2, Joined DEF DownType
  <2>5. /\ \A k \in 1 .. e : batch'[k] = k
        /\ batch'[e + 1] = 0 /\ e < Len(batch') /\ Len(batch') \in Nat
    <3>1. /\ \A k \in 1 .. e : batch[k] = k /\ k \in 1 .. Len(batch)
          /\ e < Len(batch) => batch[e + 1] = 0 /\ e + 1 \in 1 .. Len(batch)
      BY <1>3, <2>1 DEF InStep
    <3>2. Len(batch') \in Nat /\ e < Len(batch')
      BY <1>3, <2>3
    <3>3. \A k \in 1 .. e : batch'[k] = k
      BY <2>3, <3>1
    <3>4. e < Len(batch) \/ e = Len(batch)
      BY <1>3
    <3>5. batch'[e + 1] = 0
      BY <2>3, <3>1, <3>4
    <3>. QED BY <3>2, <3>3, <3>5
  <2>6. Len(down') \in Nat
    BY <1>2, <1>3, <2>2, Joined
  <2>7. /\ \A k \in 1 .. Len(shown') : k <= e => shown'[k] = k
        /\ Len(shown') < e =>
            /\ 4 * (e - Len(shown')) <= Len(down')
            /\ \A j \in 1 .. 4 * (e - Len(shown')) : down'[j] = Unit(4 * Len(shown') + j)
    BY <1>3, <2>1, <2>2, <2>4, <2>6 DEF InStep
  <2>8. InStep(e)'
    BY <2>5, <2>7 DEF InStep
  <2>. QED BY <2>5, <2>8 DEF ShownInv
<1>. QED BY <1>4, <1>5, <1>6

\* The client reads the next message, or has been shown all it could be.
LEMMA ReadInStep ==
    ASSUME DownType, ShownInv, down # <<>>, Read, batch' = batch
    PROVE  ShownInv'
<1>1. PICK e \in 0 .. Len(batch) : InStep(e)
  BY DEF ShownInv
<1>. DEFINE r == Len(shown)
            len == IF 4 < Len(down) THEN 4 ELSE Len(down)
            got == SubSeq(down, 1, len)
<1>2. /\ shown \in Seq(Nat) /\ down \in Seq(Nat \X (1 .. 4)) /\ Len(batch) \in Nat
      /\ r \in Nat /\ Len(down) \in Nat \ {0} /\ len \in 1 .. Len(down)
  BY EmptySeq, LenProperties DEF DownType
<1>3. /\ got \in Seq(Nat \X (1 .. 4)) /\ Len(got) = len
      /\ \A j \in 1 .. len : got[j] = down[j]
  BY <1>2, SubSeqProperties
<1>4. /\ down' = SubSeq(down, len + 1, Len(down))
      /\ shown' = IF got[1][1] # 0 /\ got = Frame(got[1][1]) THEN Append(shown, got[1][1])
                  ELSE shown
  BY <1>3 DEF Read, ReadUpTo
<1>. HIDE DEF len
<1>5. /\ Len(down') = Len(down) - len
      /\ \A j \in 1 .. Len(down) - len : down'[j] = down[len + j]
  <2>1. \A j \in len + 1 .. Len(down) : down[j] \in Nat \X (1 .. 4)
    BY <1>2
  <2>2. len + 1 \in Int /\ Len(down) \in Int
    BY <1>2
  <2>3. /\ Len(down') = IF len + 1 <= Len(down) THEN Len(down) - (len + 1) + 1 ELSE 0
        /\ \A j \in 1 .. Len(down) - (len + 1) + 1 : down'[j] = down[len + 1 + j - 1]
    BY <1>4, <2>1, <2>2, SubSeqProperties
  <2>4. \A j \in 1 .. Len(down) - len : len + 1 + j - 1 = len + j
    BY <1>2
  <2>. QED BY <1>2, <2>3, <2>4
<1>6. CASE r < e
  <2>1. /\ 4 * (e - r) <= Len(down) /\ \A j \in 1 .. 4 * (e - r) : down[j] = Unit(4 * r + j)
    BY <1>1, <1>6 DEF InStep
  <2>2. len = 4 /\ 1 .. 4 \subseteq 1 .. 4 * (e - r)
    <3>1. e - r >= 1 /\ e - r \in Int
      BY <1>2, <1>6
    <3>2. 4 * (e - r) >= 4
      BY <3>1
    <3>3. Len(down) >= 4
      BY <1>2, <2>1, <3>1, <3>2
    <3>4. len = 4
      <4>1. Len(down) \in Nat
        BY <1>2
      <4>2. 4 < Len(down) \/ Len(down) = 4
        <5>. HIDE DEF len, got, r
        <5>1. \A x \in Nat : x >= 4 => 4 < x \/ x = 4
          OBVIOUS
        <5>. QED BY <3>3, <4>1, <5>1
      <4>. QED BY <4>2 DEF len
    <3>. QED BY <3>1, <3>2, <3>4
  <2>3. got = Frame(r + 1)
    <3>1. ASSUME NEW j \in 1 .. 4 PROVE Unit(4 * r + j) = <<r + 1, j>>
      <4>1. j \in Nat \ {0} /\ j <= 4
        OBVIOUS
      <4>. QED BY <1>2, <4>1, Units
    <3>2. \A j \in 1 .. 4 : got[j] = <<r + 1, j>>
      BY <1>3, <2>1, <2>2, <3>1
    <3>3. Frame(r + 1) \in Seq(Nat \X (1 .. 4)) /\ Len(Frame(r + 1)) = 4
      BY <1>2 DEF Frame
    <3>4. \A j \in 1 .. 4 : Frame(r + 1)[j] = <<r + 1, j>>
      BY DEF Frame
    <3>. HIDE DEF got
    <3>5. got \in Seq(Nat \X (1 .. 4)) /\ Len(got) = 4
      BY <1>3, <2>2
    <3>6. Len(got) = Len(Frame(r + 1)) /\ \A j \in 1 .. Len(got) : got[j] = Frame(r + 1)[j]
      BY <3>2, <3>3, <3>4, <3>5
    <3>. QED BY <3>3, <3>5, <3>6, SeqEqual
  <2>4. got[1][1] = r + 1
    <3>1. Frame(r + 1)[1] = <<r + 1, 1>>
      BY DEF Frame
    <3>2. got[1] = <<r + 1, 1>>
      BY <2>3, <3>1
    <3>. HIDE DEF got
    <3>. QED BY <3>2
  <2>5. shown' = Append(shown, r + 1)
    BY <1>2, <1>4, <2>3, <2>4
  <2>6. /\ Len(shown') = r + 1 /\ shown'[r + 1] = r + 1
        /\ \A k \in 1 .. r : shown'[k] = shown[k]
    BY <1>2, <2>5, AppendProperties
  <2>. HIDE DEF got, len
  <2>7. \A k \in 1 .. Len(shown') : k <= e => shown'[k] = k
    <3>1. \A k \in 1 .. r : k <= e => shown[k] = k
      BY <1>1 DEF InStep
    <3>2. \A k \in 1 .. r + 1 : k \in 1 .. r \/ k = r + 1
      BY <1>2
    <3>. QED BY <2>6, <3>1, <3>2
  <2>8. Len(down') = Len(down) - 4 /\ 4 * (e - (r + 1)) = 4 * (e - r) - 4
    BY <1>2, <1>5, <2>2
  <2>9. ASSUME NEW j \in 1 .. 4 * (e - (r + 1)) PROVE down'[j] = Unit(4 * (r + 1) + j)
    <3>1. /\ 4 + j \in 1 .. 4 * (e - r) /\ 4 * r + (4 + j) = 4 * (r + 1) + j
          /\ j \in 1 .. Len(down) - 4
      BY <1>2, <2>1, <2>8
    <3>2. down[4 + j] = Unit(4 * r + (4 + j))
      BY <2>1, <3>1
    <3>. QED BY <1>5, <2>2, <3>1, <3>2
  <2>10. e = Len(batch) => Len(down') = IF r + 1 < e THEN 4 * (e - (r + 1)) ELSE 0
    <3>. SUFFICES ASSUME e = Len(batch)
                  PROVE  Len(down') = IF r + 1 < e THEN 4 * (e - (r + 1)) ELSE 0
      OBVIOUS
    <3>1. Len(down) = 4 * (e - r)
      BY <1>1, <1>6 DEF InStep
    <3>. QED BY <1>2, <1>6, <2>8, <3>1
  <2>11. 4 * (e - (r + 1)) <= Len(down')
    BY <1>2, <2>1, <2>8
  <2>12. InStep(e)'
    BY <1>1, <2>6, <2>7, <2>9, <2>10, <2>11 DEF InStep
  <2>. QED BY <2>12 DEF ShownInv
<1>7. CASE ~ (r < e)
  <2>1. e < Len(batch)
    BY <1>1, <1>2, <1>7 DEF InStep
  <2>2. shown' = shown \/ \E x \in Nat : shown' = Append(shown, x)
    <3>1. got[1] \in Nat \X (1 .. 4)
      BY <1>2, <1>3
    <3>. QED BY <1>4, <3>1
  <2>3. /\ Len(shown') \in Nat /\ Len(shown') >= r
        /\ \A k \in 1 .. r : shown'[k] = shown[k]
    <3>1. CASE shown' = shown
      BY <1>2, <3>1
    <3>2. ASSUME NEW x \in Nat, shown' = Append(shown, x)
          PROVE  /\ Len(shown') \in Nat /\ Len(shown') >= r
                 /\ \A k \in 1 .. r : shown'[k] = shown[k]
      BY <1>2, <3>2, AppendProperties
    <3>. QED BY <2>2, <3>1, <3>2
  <2>. HIDE DEF got, len
  <2>4. ~ (Len(shown') < e)
    BY <1>2, <1>7, <2>3
  <2>5. \A k \in 1 .. Len(shown') : k <= e => shown'[k] = k
    <3>1. \A k \in 1 .. r : k <= e => shown[k] = k
      BY <1>1 DEF InStep
    <3>2. \A k \in 1 .. Len(shown') : k <= e => k \in 1 .. r
      BY <1>2, <1>7, <2>3
    <3>. QED BY <2>3, <3>1, <3>2
  <2>6. InStep(e)'
    BY <1>1, <2>1, <2>4, <2>5 DEF InStep
  <2>. QED BY <2>6 DEF ShownInv
<1>. QED BY <1>6, <1>7

LEMMA NextShown == IndInv /\ ShownInv /\ [Next]_vars => ShownInv'
<1>. SUFFICES ASSUME IndInv, ShownInv, [Next]_vars PROVE ShownInv'
  OBVIOUS
<1>1. DownType
  BY DEF IndInv, TypeOK, DownType
<1>2. ASSUME UNCHANGED downward PROVE ShownInv'
  BY <1>2 DEF downward, ShownInv, InStep
<1>3. CASE UNCHANGED vars \/ EndOfInput \/ ServerGone \/ TakeAnswer \/ \E l \in Lines : Type(l)
  BY <1>2, <1>3 DEF vars, downward, EndOfInput, ServerGone, TakeAnswer, Type
<1>4. CASE Other \/ Ask \/ Answered \/ OwnAnswer
  <2>1. PICK n \in Nat : Messages(n)
    BY <1>4 DEF Other, Ask, Answered, OwnAnswer
  <2>. QED BY <1>1, <2>1, MessagesInStep
<1>5. CASE Serve
  <2>1. CASE Request
    BY <1>1, <1>2, <2>1, MessagesInStep DEF Request
  <2>2. CASE RawText
    BY <1>1, <2>2, RawTextInStep
  <2>3. CASE \E n \in Replies(Dispatch(Head(up))) : Messages(n)
    <3>1. Replies(Dispatch(Head(up))) \subseteq Nat
      BY DEF Replies
    <3>. QED BY <1>1, <2>3, <3>1, MessagesInStep
  <2>. QED BY <1>5, <2>1, <2>2, <2>3 DEF Serve
<1>6. CASE FromStdin \/ AtEndOfInput \/ Disconnect
  BY <1>2, <1>6 DEF FromStdin, AtEndOfInput, Disconnect
<1>7. CASE FromServer
  <2>1. CASE down # <<>> /\ Read
    BY <1>1, <1>7, <2>1, ReadInStep DEF FromServer
  <2>2. CASE UNCHANGED <<down, shown>>
    BY <1>2, <1>7, <2>2 DEF FromServer, downward
  <2>. QED BY <1>7, <2>1, <2>2 DEF FromServer
<1>. QED BY <1>3, <1>4, <1>5, <1>6, <1>7 DEF Next, Loop, Handle

\* Sequences that agree as far as the first goes.
LEMMA Prefix ==
    ASSUME NEW s \in Seq(Nat), NEW t \in Seq(Nat), Len(s) <= Len(t),
           \A k \in 1 .. Len(s) : s[k] = t[k]
    PROVE  IsPrefix(s, t)
<1>1. Len(s) \in Nat /\ Len(t) \in Nat
  OBVIOUS
<1>2. CASE Len(s) = 0
  <2>1. SubSeq(s, 1, 0) = <<>> /\ SubSeq(t, 1, 0) = <<>>
    BY SubSeqEmpty
  <2>. QED BY <1>2, <2>1 DEF IsPrefix
<1>3. CASE Len(s) # 0
  <2>1. /\ SubSeq(s, 1, Len(s)) \in Seq(Nat) /\ Len(SubSeq(s, 1, Len(s))) = Len(s)
        /\ \A k \in 1 .. Len(s) : SubSeq(s, 1, Len(s))[k] = s[k]
    BY <1>1, <1>3, SubSeqProperties
  <2>2. /\ SubSeq(t, 1, Len(s)) \in Seq(Nat) /\ Len(SubSeq(t, 1, Len(s))) = Len(s)
        /\ \A k \in 1 .. Len(s) : SubSeq(t, 1, Len(s))[k] = t[k]
    BY <1>1, <1>3, SubSeqProperties
  <2>3. SubSeq(s, 1, Len(s)) = SubSeq(t, 1, Len(s))
    BY <2>1, <2>2, SeqEqual
  <2>. QED BY <2>3 DEF IsPrefix
<1>. QED BY <1>2, <1>3

\* The client shows what it is sent, all and in order, until a raw text comes
\* before it has read the rest, for any lines and any number of messages.
THEOREM ShownCorrect == Spec => []MessagesShown
<1>1. ASSUME IndInv, ShownInv PROVE MessagesShown
  <2>. DEFINE Raw == {k \in DOMAIN batch : batch[k] = 0}
              clean == IF Raw = {} THEN batch
                       ELSE SubSeq(batch, 1, (CHOOSE k \in Raw : \A j \in Raw : k <= j) - 1)
  <2>1. PICK e \in 0 .. Len(batch) : InStep(e)
    BY <1>1 DEF ShownInv
  <2>2. /\ batch \in Seq(Nat) /\ shown \in Seq(Nat) /\ down \in Seq(Nat \X (1 .. 4))
        /\ Len(batch) \in Nat /\ Len(shown) \in Nat /\ Len(down) \in Nat
        /\ DOMAIN batch = 1 .. Len(batch)
    BY <1>1, LenProperties DEF IndInv, TypeOK
  <2>3. clean \in Seq(Nat) /\ Len(clean) = e /\ \A k \in 1 .. e : clean[k] = k
    <3>1. \A k \in 1 .. e : batch[k] = k /\ k \notin Raw
      BY <2>1 DEF InStep
    <3>2. CASE e = Len(batch)
      <4>1. Raw = {}
        BY <2>2, <3>1, <3>2
      <4>2. clean = batch
        BY <4>1
      <4>. QED BY <2>2, <3>1, <3>2, <4>2
    <3>3. CASE e < Len(batch)
      <4>1. e + 1 \in Raw /\ \A j \in Raw : e + 1 <= j
        <5>1. batch[e + 1] = 0 /\ e + 1 \in DOMAIN batch
          <6>1. batch[e + 1] = 0
            BY <2>1, <3>3 DEF InStep
          <6>. QED BY <2>2, <3>3, <6>1
        <5>2. \A j \in Raw : j \in 1 .. Len(batch) /\ j \notin 1 .. e
          BY <2>2, <3>1
        <5>3. \A j \in 1 .. Len(batch) : j \notin 1 .. e => e + 1 <= j
          BY <2>2
        <5>. QED BY <5>1, <5>2, <5>3
      <4>2. Raw \subseteq Nat
        BY <2>2
      <4>. HIDE DEF Raw
      <4>3. \A k \in Raw : (\A j \in Raw : k <= j) => k = e + 1
        BY <4>1, <4>2
      <4>4. (CHOOSE k \in Raw : \A j \in Raw : k <= j) = e + 1
        BY <4>1, <4>3
      <4>5. clean = SubSeq(batch, 1, e)
        <5>1. Raw # {} /\ (e + 1) - 1 = e
          BY <4>1
        <5>. QED BY <4>4, <5>1
      <4>. HIDE DEF clean
      <4>6. CASE e = 0
        <5>1. clean = <<>>
          BY <4>5, <4>6, SubSeqEmpty
        <5>. QED BY <4>6, <5>1, EmptySeq
      <4>7. CASE e # 0
        BY <2>2, <3>1, <3>3, <4>5, <4>7, SubSeqProperties
      <4>. QED BY <4>6, <4>7
    <3>. HIDE DEF clean
    <3>4. e = Len(batch) \/ e < Len(batch)
      <4>1. Len(batch) \in Nat /\ e \in 0 .. Len(batch)
        BY <2>2
      <4>. QED BY <4>1
    <3>. QED BY <3>2, <3>3, <3>4
  <2>4. MessagesShown <=> /\ IsPrefix(shown, clean) \/ IsPrefix(clean, shown)
                          /\ down = <<>> => IsPrefix(clean, shown)
    BY DEF MessagesShown
  <2>. HIDE DEF clean
  <2>5. \A k \in 1 .. Len(shown) : k <= e => shown[k] = k
    BY <2>1 DEF InStep
  <2>6. ASSUME Len(shown) <= e PROVE IsPrefix(shown, clean)
    <3>1. \A k \in 1 .. Len(shown) : k \in 1 .. e /\ k <= e
      BY <2>2, <2>6
    <3>2. Len(shown) <= Len(clean) /\ \A k \in 1 .. Len(shown) : shown[k] = clean[k]
      BY <2>3, <2>5, <2>6, <3>1
    <3>. QED BY <2>2, <2>3, <3>2, Prefix
  <2>7. ASSUME e <= Len(shown) PROVE IsPrefix(clean, shown)
    <3>1. \A k \in 1 .. e : k \in 1 .. Len(shown) /\ k <= e
      BY <2>2, <2>7
    <3>2. Len(clean) <= Len(shown) /\ \A k \in 1 .. Len(clean) : clean[k] = shown[k]
      BY <2>3, <2>5, <2>7, <3>1
    <3>. QED BY <2>2, <2>3, <3>2, Prefix
  <2>8. down = <<>> => e <= Len(shown)
    <3>. SUFFICES ASSUME Len(down) = 0, Len(shown) < e PROVE FALSE
      BY <2>2, EmptySeq
    <3>1. 4 * (e - Len(shown)) <= 0
      BY <2>1 DEF InStep
    <3>. QED BY <2>2, <3>1
  <2>9. Len(shown) <= e \/ e <= Len(shown)
    BY <2>2
  <2>. QED BY <2>4, <2>6, <2>7, <2>8, <2>9
<1>2. Init => ShownInv
  <2>. SUFFICES ASSUME Init PROVE ShownInv
    OBVIOUS
  <2>1. /\ Len(batch) = 1 /\ batch[1] = 1 /\ Len(shown) = 0 /\ Len(down) = 4
        /\ \A j \in 1 .. 4 : down[j] = <<1, j>>
    BY DEF Init, Frame
  <2>2. ASSUME NEW j \in 1 .. 4 PROVE Unit(j) = <<1, j>>
    <3>1. 0 \in Nat /\ j \in Nat \ {0} /\ j <= 4 /\ 4 * 0 + j = j /\ 0 + 1 = 1
      OBVIOUS
    <3>. QED BY <3>1, Units
  <2>3. InStep(1)
    BY <2>1, <2>2 DEF InStep
  <2>. QED BY <2>1, <2>3 DEF ShownInv
<1>. QED BY <1>1, <1>2, NextShown, Inductive, PTL DEF Spec
=============================================================================
