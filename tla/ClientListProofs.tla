-------------------------- MODULE ClientListProofs --------------------------
(***************************************************************************)
(* Proofs about ClientList, for any number of clients, of descriptors and  *)
(* of operations.                                                          *)
(***************************************************************************)
EXTENDS ClientList, SequenceTheorems, TLAPS

\* main() takes one node for each client, after it was accepted; a client that
\* is being accepted has no handler yet.
Arriving == main.at \in {"fill", "welcome", "list", "link"}
MainInv ==
    /\ used + (IF main.at \in {"fill", "welcome", "list"} THEN 1 ELSE 0) <= accepted + 1
    /\ main.at # "poll" => main.c \in 1 .. accepted
    /\ main.at \in {"link", "free"} => main.node \in Node
    /\ Arriving => main.c = accepted /\ main.c \notin serving /\ op[main.c].at = "recv"

\* Where a handler that does o stands.
Stands(h, o) ==
    /\ o.at # "recv" => h \in 1 .. accepted
    /\ o.at = "nick" => h \in asked
    /\ o.at = "count" => o.n > 0 \/ o.cur = Anchor
    /\ o.at = "send" => o.n > 0 /\ o.cur \in Node
    /\ o.at = "read" => o.cur \in Node
    /\ o.at = "write" => o.n \in Conn \cup {None}
HandlerInv == \A h \in Conn : Stands(h, op[h])

\* Who fills wilcard has parts left to write; who sends it has none.
FillerInv ==
    /\ main.at = "fill" => written[main.c] < 4
    /\ main.at = "welcome" => written[main.c] = 4
    /\ \A h \in Conn : /\ op[h].at = "write" => written[h] < 4
                       /\ op[h].at = "answer" => written[h] = 4

\* What wilcard holds was written since the memset() of each that fills it.
MixInv ==
    \A c \in DOMAIN overlap : \A p \in Part : wilcard[p] \in overlap[c] \cup {c, None}

\* Whom nobody disturbed finds there the parts it has written so far.
Own(c, order) == \A j \in 1 .. written[c] : wilcard[order[j]] = c
OwnInv ==
    \A c \in DOMAIN overlap :
        overlap[c] = {} =>
            /\ main.at \in {"fill", "welcome"} /\ main.c = c => Own(c, WelcomeOrder)
            /\ op[c].at \in {"write", "answer"} => Own(c, AnswerOrder)

WilcardInv == FillerInv /\ MixInv /\ OwnInv

IndInv == TypeOK /\ MainInv /\ HandlerInv /\ WilcardInv

-----------------------------------------------------------------------------
LEMMA ConnType == NConn \in Nat /\ MaxOp \in Nat /\ NoFile \in Nat
BY ClientListAssumption

\* Each order writes each part, at one of four places.
LEMMA Orders ==
    /\ Len(WelcomeOrder) = 4 /\ Len(AnswerOrder) = 4
    /\ \A order \in {WelcomeOrder, AnswerOrder} :
        /\ \A j \in 1 .. 4 : order[j] \in Part
        /\ \A p \in Part : \E j \in 1 .. 4 : order[j] = p
<1>1. Len(WelcomeOrder) = 4 /\ Len(AnswerOrder) = 4
  BY DEF WelcomeOrder, AnswerOrder
<1>2. /\ WelcomeOrder[1] = "type" /\ WelcomeOrder[2] = "nick_sender"
      /\ WelcomeOrder[3] = "infos" /\ WelcomeOrder[4] = "pld_len"
  BY DEF WelcomeOrder
<1>3. /\ AnswerOrder[1] = "infos" /\ AnswerOrder[2] = "type"
      /\ AnswerOrder[3] = "pld_len" /\ AnswerOrder[4] = "nick_sender"
  BY DEF AnswerOrder
<1>. HIDE DEF WelcomeOrder, AnswerOrder
<1>4. \A j \in 1 .. 4 : j = 1 \/ j = 2 \/ j = 3 \/ j = 4
  OBVIOUS
<1>5. \A j \in 1 .. 4 : WelcomeOrder[j] \in Part /\ AnswerOrder[j] \in Part
  BY <1>2, <1>3, <1>4 DEF Part
<1>6. \A p \in Part : /\ \E j \in 1 .. 4 : WelcomeOrder[j] = p
                      /\ \E j \in 1 .. 4 : AnswerOrder[j] = p
  BY <1>2, <1>3 DEF Part
<1>. QED BY <1>1, <1>5, <1>6

LEMMA QuietType == Quiet \in Operation
BY DEF Quiet, Operation

LEMMA InitInv == Init => IndInv
<1> SUFFICES ASSUME Init PROVE IndInv
  OBVIOUS
<1>. USE ConnType
<1>1. TypeOK
  <2>1. /\ next \in [Node -> Node \cup {Null}]
        /\ fd \in [Node -> Fd \cup {0, JunkFd}]
        /\ conn \in [Node -> Conn \cup {None, Junk}]
        /\ used \in Node /\ cache \in Seq(Node)
    BY EmptySeq DEF Init, Node, Root, Anchor, Null, None, Conn
  <2>2. /\ file \in [Fd -> Conn \cup {None}] /\ fdOf \in [Conn -> Fd \cup {0}]
        /\ accepted \in 0 .. NConn /\ serving \subseteq 1 .. accepted
        /\ nicknames \subseteq asked /\ asked \subseteq Conn /\ ops \in 0 .. MaxOp
        /\ dead \in Conn \cup {None}
        /\ DOMAIN overlap \subseteq Conn /\ \A x \in DOMAIN overlap : overlap[x] \subseteq Conn
    BY DEF Init
  <2>3. /\ main \in [at : Step, c : Conn \cup {None}, node : Node \cup {Null}]
        /\ wilcard \in [Part -> Conn \cup {None}]
        /\ written \in [Conn -> 0 .. Len(WelcomeOrder)]
    BY Orders DEF Init, Idle, Empty, Step
  <2>4. op \in [Conn -> Operation]
    BY QuietType DEF Init
  <2>. QED BY <2>1, <2>2, <2>3, <2>4 DEF TypeOK
<1>2. MainInv
  BY DEF Init, MainInv, Idle, Arriving, Root
<1>3. HandlerInv
  BY DEF Init, HandlerInv, Stands, Quiet
<1>4. WilcardInv
  BY DEF Init, WilcardInv, FillerInv, MixInv, OwnInv, Idle, Quiet
<1>. QED BY <1>1, <1>2, <1>3, <1>4 DEF IndInv

-----------------------------------------------------------------------------
(***************************************************************************)
(* main()                                                                  *)
(***************************************************************************)

\* After memset(), whoever fills wilcard is disturbed but w, that has written nothing.
LEMMA FlushInv ==
    ASSUME TypeOK, NEW w \in Conn, Flush(w)
    PROVE  /\ wilcard' \in [Part -> Conn \cup {None}]
           /\ written' \in [Conn -> 0 .. Len(WelcomeOrder)]
           /\ written'[w] = 0 /\ \A x \in Conn : x # w => written'[x] = written[x]
           /\ DOMAIN overlap' \subseteq Conn
           /\ \A x \in DOMAIN overlap' : overlap'[x] \subseteq Conn /\ (x # w => overlap'[x] # {})
           /\ MixInv'
<1>1. written' = [written EXCEPT ![w] = 0] /\ wilcard' = [p \in Part |-> None]
  BY DEF Flush, Empty
<1>2. written \in [Conn -> 0 .. 4]
  BY Orders DEF TypeOK
<1>3. written' \in [Conn -> 0 .. Len(WelcomeOrder)]
  BY <1>1, <1>2, Orders
<1>4. /\ DOMAIN overlap' \subseteq Conn
      /\ \A x \in DOMAIN overlap' : overlap'[x] \subseteq Conn /\ (x # w => overlap'[x] # {})
  BY DEF TypeOK, Flush
<1>. QED BY <1>1, <1>2, <1>3, <1>4 DEF MixInv

\* A part that w writes is disturbance to the others, and its own.
LEMMA WriteInv ==
    ASSUME TypeOK, MixInv, NEW w \in Conn, written[w] < 4,
           NEW order \in {WelcomeOrder, AnswerOrder}, Write(w, order)
    PROVE  /\ wilcard' \in [Part -> Conn \cup {None}]
           /\ written' \in [Conn -> 0 .. Len(WelcomeOrder)]
           /\ written'[w] = written[w] + 1 /\ \A x \in Conn : x # w => written'[x] = written[x]
           /\ DOMAIN overlap' = DOMAIN overlap
           /\ \A x \in DOMAIN overlap' : overlap'[x] \subseteq Conn /\ (x # w => w \in overlap'[x])
           /\ w \in DOMAIN overlap => overlap'[w] = overlap[w]
           /\ MixInv'
           /\ Own(w, order) => Own(w, order)'
<1>. DEFINE i == written[w] + 1
<1>0. written \in [Conn -> 0 .. 4] /\ wilcard \in [Part -> Conn \cup {None}]
  BY Orders DEF TypeOK
<1>1. i \in 1 .. 4 /\ order[i] \in Part
  BY <1>0, Orders
<1>2. written' = [written EXCEPT ![w] = i] /\ wilcard' = [wilcard EXCEPT ![order[i]] = w]
  BY DEF Write
<1>3. written' \in [Conn -> 0 .. Len(WelcomeOrder)]
  BY <1>0, <1>1, <1>2, Orders
<1>4. overlap' = [x \in DOMAIN overlap |-> IF x = w THEN overlap[x] ELSE overlap[x] \cup {w}]
  BY DEF Write
<1>5. \A x \in DOMAIN overlap' : overlap'[x] \subseteq Conn /\ (x # w => w \in overlap'[x])
  BY <1>4 DEF TypeOK
<1>6. MixInv'
  <2>. SUFFICES ASSUME NEW x \in DOMAIN overlap, NEW p \in Part
                PROVE  wilcard'[p] \in overlap'[x] \cup {x, None}
    BY <1>4 DEF MixInv
  <2>1. wilcard'[p] = w \/ wilcard'[p] = wilcard[p]
    BY <1>0, <1>1, <1>2
  <2>2. wilcard[p] \in overlap[x] \cup {x, None}
    BY DEF MixInv
  <2>. QED BY <1>4, <2>1, <2>2
<1>7. ASSUME Own(w, order) PROVE Own(w, order)'
  <2>. SUFFICES ASSUME NEW j \in 1 .. i PROVE wilcard'[order[j]] = w
    BY <1>0, <1>2 DEF Own
  <2>1. CASE j = i
    BY <1>0, <1>1, <1>2, <2>1
  <2>2. CASE j # i
    <3>1. j \in 1 .. written[w] /\ order[j] \in Part
      BY <1>0, <1>1, <2>2, Orders
    <3>2. wilcard[order[j]] = w
      BY <1>7, <3>1 DEF Own
    <3>. QED BY <1>0, <1>2, <3>1, <3>2
  <2>. QED BY <2>1, <2>2
<1>. QED BY <1>0, <1>1, <1>2, <1>3, <1>4, <1>5, <1>6, <1>7

\* Nothing else that happens to the list, to main() or to a handler disturbs wilcard.
LEMMA WilcardKept ==
    ASSUME IndInv, UNCHANGED <<wilcard, written, overlap>>, DOMAIN overlap \subseteq Conn,
           main'.at \in {"fill", "welcome"} => UNCHANGED main,
           \A h \in Conn : op'[h].at \in {"write", "answer"} => op'[h].at = op[h].at
    PROVE  WilcardInv'
BY DEF IndInv, WilcardInv, FillerInv, MixInv, OwnInv, Own

LEMMA SentInv ==
    ASSUME TypeOK, NEW w \in Conn, Sent(w)
    PROVE  /\ DOMAIN overlap' = DOMAIN overlap \ {w}
           /\ \A x \in DOMAIN overlap' : overlap'[x] = overlap[x] /\ overlap'[x] \subseteq Conn
BY DEF TypeOK, Sent

\* What main() does to the operations under way is to their history.
Recorded ==
    \A h \in Conn : /\ op'[h] \in Operation
                    /\ op'[h].at = op[h].at /\ op'[h].cur = op[h].cur /\ op'[h].n = op[h].n

LEMMA RecordedInv ==
    ASSUME IndInv, Recorded, op' \in [Conn -> Operation], UNCHANGED <<accepted, asked>>
    PROVE  HandlerInv'
BY DEF IndInv, HandlerInv, Stands, Recorded

LEMMA AcceptInv == IndInv /\ Accept => IndInv'
<1> SUFFICES ASSUME IndInv, Accept PROVE IndInv'
  OBVIOUS
<1>. USE ConnType
<1>. DEFINE c == accepted + 1
<1>1. c \in Conn /\ accepted' = c /\ op[c].at = "recv" /\ c \notin serving
  BY DEF IndInv, TypeOK, HandlerInv, Stands, Accept, Conn
<1>2. /\ wilcard' \in [Part -> Conn \cup {None}]
      /\ written' \in [Conn -> 0 .. Len(WelcomeOrder)]
      /\ written'[c] = 0 /\ \A x \in Conn : x # c => written'[x] = written[x]
      /\ DOMAIN overlap' \subseteq Conn
      /\ \A x \in DOMAIN overlap' : overlap'[x] \subseteq Conn /\ (x # c => overlap'[x] # {})
      /\ MixInv'
  BY <1>1, FlushInv DEF IndInv, Accept
<1>3. TypeOK'
  <2>1. /\ file' \in [Fd -> Conn \cup {None}] /\ fdOf' \in [Conn -> Fd \cup {0}]
        /\ accepted' \in 0 .. NConn /\ serving' \subseteq 1 .. accepted'
    BY <1>1 DEF IndInv, TypeOK, Accept, process, Conn
  <2>2. main' \in [at : Step, c : Conn \cup {None}, node : Node \cup {Null}]
    BY <1>1 DEF Accept, Step
  <2>. QED BY <1>2, <2>1, <2>2 DEF IndInv, TypeOK, Accept, list, names
<1>4. MainInv'
  BY <1>1 DEF IndInv, TypeOK, MainInv, Accept, Arriving, list, Node
<1>5. HandlerInv'
  BY <1>1 DEF IndInv, TypeOK, HandlerInv, Stands, Accept, names
<1>6. WilcardInv'
  <2>1. main'.at = "fill" /\ main'.c = c /\ op' = op
    BY DEF Accept
  <2>2. FillerInv'
    BY <1>1, <1>2, <2>1 DEF IndInv, WilcardInv, FillerInv
  <2>3. OwnInv'
    BY <1>1, <1>2, <2>1 DEF OwnInv, Own
  <2>. QED BY <1>2, <2>2, <2>3 DEF WilcardInv
<1>. QED BY <1>3, <1>4, <1>5, <1>6 DEF IndInv

LEMMA FillInv == IndInv /\ Fill => IndInv'
<1> SUFFICES ASSUME IndInv, Fill PROVE IndInv'
  OBVIOUS
<1>. USE ConnType
<1>1. main.c \in Conn /\ op[main.c].at = "recv" /\ written[main.c] < 4
  BY DEF IndInv, TypeOK, MainInv, Arriving, WilcardInv, FillerInv, Fill, Conn
<1>2. Write(main.c, WelcomeOrder) /\ UNCHANGED <<op, accepted, asked>>
  BY DEF Fill, process, names
<1>3. /\ wilcard' \in [Part -> Conn \cup {None}]
      /\ written' \in [Conn -> 0 .. Len(WelcomeOrder)]
      /\ written'[main.c] = written[main.c] + 1
      /\ \A x \in Conn : x # main.c => written'[x] = written[x]
      /\ DOMAIN overlap' = DOMAIN overlap
      /\ \A x \in DOMAIN overlap' : overlap'[x] \subseteq Conn
                                    /\ (x # main.c => main.c \in overlap'[x])
      /\ main.c \in DOMAIN overlap => overlap'[main.c] = overlap[main.c]
      /\ MixInv'
      /\ Own(main.c, WelcomeOrder) => Own(main.c, WelcomeOrder)'
  <2>1. PICK w \in Conn : w = main.c
    BY <1>1
  <2>2. written[w] < 4 /\ Write(w, WelcomeOrder) /\ TypeOK /\ MixInv
    BY <1>1, <1>2, <2>1 DEF IndInv, WilcardInv
  <2>3. main'.c = w
    BY <2>1 DEF IndInv, TypeOK, Fill
  <2>. QED BY <2>1, <2>2, <2>3, WriteInv
<1>4. /\ main' \in [at : Step, c : Conn \cup {None}, node : Node \cup {Null}]
      /\ main'.c = main.c
      /\ main'.at = IF written[main.c] + 1 = 4 THEN "welcome" ELSE "fill"
  <2>1. main.at = "fill" /\ main \in [at : Step, c : Conn \cup {None}, node : Node \cup {Null}]
    BY DEF IndInv, TypeOK, Fill
  <2>2. main' = IF written[main.c] + 1 = 4 THEN [main EXCEPT !.at = "welcome"] ELSE main
    BY <1>3, Orders DEF Fill, Filled
  <2>. HIDE DEF Node, Conn
  <2>. QED BY <2>1, <2>2 DEF Step
<1>5. TypeOK'
  BY <1>3, <1>4 DEF IndInv, TypeOK, Fill, list, process, names
<1>6. MainInv' /\ HandlerInv'
  BY <1>4 DEF IndInv, MainInv, HandlerInv, Stands, Arriving, Fill, list, process, names
<1>7. WilcardInv'
  <2>1. FillerInv'
    <3>1. written[main.c] \in 0 .. 4
      BY <1>1, Orders DEF IndInv, TypeOK
    <3>2. \A h \in Conn : op[h].at # "recv" => written'[h] = written[h]
      BY <1>1, <1>3
    <3>. QED BY <1>1, <1>2, <1>3, <1>4, <3>1, <3>2 DEF IndInv, WilcardInv, FillerInv
  <2>2. OwnInv'
    <3>. SUFFICES ASSUME NEW c \in DOMAIN overlap, overlap'[c] = {}
                  PROVE  /\ main'.c = c => Own(c, WelcomeOrder)'
                         /\ op'[c].at \in {"write", "answer"} => Own(c, AnswerOrder)'
      BY <1>3 DEF OwnInv
    <3>1. c = main.c
      BY <1>3
    <3>2. overlap[c] = {} /\ main.at = "fill"
      BY <1>3, <3>1 DEF Fill
    <3>3. Own(main.c, WelcomeOrder)
      BY <3>1, <3>2 DEF IndInv, WilcardInv, OwnInv
    <3>. QED BY <1>1, <1>2, <1>3, <3>1, <3>3
  <2>. QED BY <1>3, <2>1, <2>2 DEF WilcardInv
<1>. QED BY <1>5, <1>6, <1>7 DEF IndInv

LEMMA WelcomeInv == IndInv /\ Welcome => IndInv'
<1> SUFFICES ASSUME IndInv, Welcome PROVE IndInv'
  OBVIOUS
<1>. USE ConnType
<1>1. main.c \in Conn
  BY DEF IndInv, TypeOK, MainInv, Welcome, Conn
<1>2. /\ DOMAIN overlap' = DOMAIN overlap \ {main.c}
      /\ \A x \in DOMAIN overlap' : overlap'[x] = overlap[x] /\ overlap'[x] \subseteq Conn
  BY <1>1, SentInv DEF IndInv, Welcome
<1>3. main' = [at |-> "list", c |-> main.c, node |-> main.node]
  BY DEF IndInv, TypeOK, Welcome
<1>4. TypeOK'
  BY <1>2, <1>3 DEF IndInv, TypeOK, Welcome, list, process, names, Step
<1>5. MainInv' /\ HandlerInv'
  BY <1>3 DEF IndInv, MainInv, HandlerInv, Stands, Arriving, Welcome, list, process, names
<1>6. WilcardInv'
  BY <1>2, <1>3 DEF IndInv, WilcardInv, FillerInv, MixInv, OwnInv, Own, Welcome
<1>. QED BY <1>4, <1>5, <1>6 DEF IndInv

LEMMA ListInv == IndInv /\ List => IndInv'
<1> SUFFICES ASSUME IndInv, List PROVE IndInv'
  OBVIOUS
<1>. USE ConnType
<1>. DEFINE n == IF cache = <<>> THEN used + 1 ELSE Head(cache)
<1>1. main.c \in Conn /\ n \in Node
  <2>1. CASE cache = <<>>
    BY <2>1 DEF IndInv, TypeOK, MainInv, List, Conn, Node
  <2>2. CASE cache # <<>>
    BY <2>2, HeadTailProperties DEF IndInv, TypeOK, MainInv, List, Conn
  <2>. QED BY <2>1, <2>2
<1>2. main' = [at |-> "link", c |-> main.c, node |-> n]
  BY DEF IndInv, TypeOK, List
<1>3. /\ used' \in Node /\ used' <= accepted + 1 /\ cache' \in Seq(Node)
      /\ Recorded /\ op' \in [Conn -> Operation]
  <2>1. CASE cache = <<>>
    BY <1>1, <2>1 DEF IndInv, TypeOK, MainInv, List, Recorded, Node
  <2>2. CASE cache # <<>>
    <3>1. used' = used /\ cache' = Tail(cache)
          /\ op' = [h \in Conn |-> [op[h] EXCEPT !.reused = Busy(h)]]
      BY <2>2 DEF List
    <3>2. \A h \in Conn : Busy(h) \in BOOLEAN
      BY DEF Busy
    <3>3. ASSUME NEW h \in Conn
          PROVE  /\ op'[h] \in Operation
                 /\ op'[h].at = op[h].at /\ op'[h].cur = op[h].cur /\ op'[h].n = op[h].n
      <4>1. op[h] \in Operation
        BY DEF IndInv, TypeOK
      <4>2. op'[h] = [op[h] EXCEPT !.reused = Busy(h)]
        BY <3>1
      <4>. HIDE DEF Busy
      <4>. QED BY <3>2, <4>1, <4>2 DEF Operation
    <3>4. used <= accepted + 1
      BY DEF IndInv, TypeOK, MainInv, List, Node
    <3>. QED BY <2>2, <3>1, <3>3, <3>4, HeadTailProperties DEF IndInv, TypeOK, Recorded
  <2>. QED BY <2>1, <2>2
<1>4. /\ next' \in [Node -> Node \cup {Null}]
      /\ fd' \in [Node -> Fd \cup {0, JunkFd}]
      /\ conn' \in [Node -> Conn \cup {None, Junk}]
  BY <1>1 DEF IndInv, TypeOK, List
<1>5. main' \in [at : Step, c : Conn \cup {None}, node : Node \cup {Null}]
  BY <1>1, <1>2 DEF Step
<1>6. TypeOK'
  BY <1>3, <1>4, <1>5 DEF IndInv, TypeOK, List, process, names
<1>7. MainInv'
  <2>1. main.at = "list" /\ UNCHANGED <<accepted, serving>>
    BY DEF List, process
  <2>2. /\ main.c \in 1 .. accepted /\ main.c = accepted
        /\ main.c \notin serving /\ op[main.c].at = "recv"
    BY <2>1 DEF IndInv, MainInv, Arriving
  <2>3. op'[main.c].at = "recv"
    BY <1>1, <1>3, <2>2 DEF Recorded
  <2>. QED BY <1>1, <1>2, <1>3, <2>1, <2>2, <2>3 DEF MainInv, Arriving, Node
<1>8. HandlerInv'
  BY <1>3, RecordedInv DEF List, process, names
<1>9. WilcardInv'
  BY <1>2, <1>3, WilcardKept DEF IndInv, TypeOK, List, Recorded
<1>. QED BY <1>6, <1>7, <1>8, <1>9 DEF IndInv

LEMMA LinkInv == IndInv /\ Link => IndInv'
<1> SUFFICES ASSUME IndInv, Link PROVE IndInv'
  OBVIOUS
<1>. USE ConnType
<1>1. main.c \in 1 .. accepted /\ main.node \in Node /\ main' = Idle
  BY DEF IndInv, MainInv, Link
<1>2. next' \in [Node -> Node \cup {Null}] /\ serving' \subseteq 1 .. accepted
  BY <1>1 DEF IndInv, TypeOK, Link
<1>3. main' \in [at : Step, c : Conn \cup {None}, node : Node \cup {Null}]
  BY <1>1 DEF Idle, Step
<1>4. TypeOK'
  BY <1>2, <1>3 DEF IndInv, TypeOK, Link, names
<1>5. MainInv'
  BY <1>1 DEF IndInv, TypeOK, MainInv, Arriving, Link, Idle, Node
<1>6. HandlerInv'
  BY <1>1 DEF IndInv, HandlerInv, Stands, Link, Idle, names
<1>7. WilcardInv'
  BY <1>1, WilcardKept DEF IndInv, TypeOK, Link, Idle
<1>. QED BY <1>4, <1>5, <1>6, <1>7 DEF IndInv

LEMMA UnlinkInv == ASSUME IndInv, NEW c \in Conn, Unlink(c) PROVE IndInv'
<1>. USE ConnType
<1>1. PICK p, n \in Node : /\ next' = [next EXCEPT ![p] = next[n]]
                           /\ main' = [at |-> "free", c |-> c, node |-> n]
  BY DEF Unlink
<1>2. c \in 1 .. accepted
  BY DEF IndInv, TypeOK, Unlink
<1>3. Recorded /\ op' \in [Conn -> Operation]
  <2>. SUFFICES ASSUME NEW h \in Conn
                PROVE  /\ op'[h] \in Operation
                       /\ op'[h].at = op[h].at /\ op'[h].cur = op[h].cur /\ op'[h].n = op[h].n
    BY DEF Unlink, Recorded
  <2>1. op[h] \in Operation
    BY DEF IndInv, TypeOK
  <2>2. op'[h] = IF ~ Busy(h) THEN op[h]
                 ELSE [op[h] EXCEPT !.stayed = @ \ {c}, !.got[c] = 0, !.left = TRUE]
    BY DEF Unlink
  <2>3. CASE ~ Busy(h)
    BY <2>1, <2>2, <2>3
  <2>4. CASE Busy(h)
    <3>1. op'[h] = [op[h] EXCEPT !.stayed = op[h].stayed \ {c},
                                 !.got = [op[h].got EXCEPT ![c] = 0], !.left = TRUE]
      BY <2>2, <2>4
    <3>2. [op[h].got EXCEPT ![c] = 0] \in [Conn -> Nat]
      BY <2>1 DEF Operation
    <3>3. op[h].stayed \ {c} \in SUBSET Conn
      BY <2>1 DEF Operation
    <3>. HIDE DEF Conn
    <3>. QED BY <2>1, <3>1, <3>2, <3>3 DEF Operation
  <2>. QED BY <2>3, <2>4
<1>4. next' \in [Node -> Node \cup {Null}]
  BY <1>1 DEF IndInv, TypeOK
<1>5. TypeOK'
  BY <1>1, <1>3, <1>4 DEF IndInv, TypeOK, Unlink, process, names, Step
<1>6. MainInv'
  BY <1>1, <1>2 DEF IndInv, TypeOK, MainInv, Arriving, Unlink, process
<1>7. HandlerInv'
  BY <1>3, RecordedInv DEF Unlink, process, names
<1>8. WilcardInv'
  <2>1. UNCHANGED <<wilcard, written, overlap>> /\ main'.at = "free"
    BY <1>1 DEF Unlink
  <2>. QED BY <1>3, <2>1, WilcardKept DEF IndInv, TypeOK, Recorded
<1>. QED BY <1>5, <1>6, <1>7, <1>8 DEF IndInv

LEMMA ReleaseInv == IndInv /\ Release => IndInv'
<1> SUFFICES ASSUME IndInv, Release PROVE IndInv'
  OBVIOUS
<1>. USE ConnType
<1>1. main' = [at |-> "close", c |-> main.c, node |-> Null] /\ main.node \in Node
  BY DEF IndInv, TypeOK, MainInv, Release
<1>2. /\ fd' \in [Node -> Fd \cup {0, JunkFd}]
      /\ conn' \in [Node -> Conn \cup {None, Junk}]
      /\ cache' \in Seq(Node)
  BY <1>1 DEF IndInv, TypeOK, Release
<1>3. TypeOK'
  BY <1>1, <1>2 DEF IndInv, TypeOK, Release, process, names, Step
<1>4. MainInv' /\ HandlerInv'
  BY <1>1 DEF IndInv, TypeOK, MainInv, HandlerInv, Stands, Arriving, Release, process, names
<1>5. WilcardInv'
  BY <1>1, WilcardKept DEF IndInv, TypeOK, Release
<1>. QED BY <1>3, <1>4, <1>5 DEF IndInv

LEMMA CloseInv == IndInv /\ Close => IndInv'
<1> SUFFICES ASSUME IndInv, Close PROVE IndInv'
  OBVIOUS
<1>. USE ConnType
<1>1. main' = Idle /\ main.c \in Conn
  BY DEF IndInv, TypeOK, MainInv, Close, Conn
<1>2. file' \in [Fd -> Conn \cup {None}] /\ serving' \subseteq 1 .. accepted
  BY DEF IndInv, TypeOK, Close
<1>3. nicknames' \subseteq asked
  BY DEF IndInv, TypeOK, Close
<1>4. TypeOK'
  BY <1>1, <1>2, <1>3 DEF IndInv, TypeOK, Close, list, Idle, Step
<1>5. MainInv' /\ HandlerInv'
  BY <1>1 DEF IndInv, TypeOK, MainInv, HandlerInv, Stands, Arriving, Close, Idle, list, Node
<1>6. WilcardInv'
  BY <1>1, WilcardKept DEF IndInv, TypeOK, Close, Idle
<1>. QED BY <1>4, <1>5, <1>6 DEF IndInv

-----------------------------------------------------------------------------
(***************************************************************************)
(* Handlers                                                                *)
(***************************************************************************)

\* main() is not accepting the client of a handler that does something.
LEMMA HandlerThere ==
    ASSUME IndInv, NEW h \in Conn, op[h].at # "recv" \/ h \in serving
    PROVE  h \in 1 .. accepted /\ (Arriving => main.c # h)
BY DEF IndInv, TypeOK, MainInv, HandlerInv, Stands

\* Any step of a handler to a place where it may stand.
LEMMA GotoInv ==
    ASSUME IndInv, NEW h \in Conn, op[h].at # "recv" \/ h \in serving,
           NEW new \in Operation, Goto(h, new), Stands(h, new)',
           UNCHANGED <<used, accepted, serving, main>>, asked \subseteq asked'
    PROVE  op' \in [Conn -> Operation] /\ MainInv' /\ HandlerInv'
<1>1. op' = [op EXCEPT ![h] = new] /\ op \in [Conn -> Operation]
  BY DEF Goto, IndInv, TypeOK
<1>2. Arriving => main.c # h
  BY HandlerThere
<1>3. MainInv'
  <2>1. Arriving' <=> Arriving
    BY DEF Arriving
  <2>2. ASSUME Arriving PROVE main.c = accepted /\ main.c \notin serving /\ op'[main.c].at = "recv"
    BY <1>1, <1>2, <2>2 DEF IndInv, MainInv, Arriving
  <2>. QED BY <2>1, <2>2 DEF IndInv, MainInv
<1>4. HandlerInv'
  BY <1>1 DEF IndInv, HandlerInv, Stands
<1>. QED BY <1>1, <1>3, <1>4

\* One that leaves wilcard alone.
LEMMA QuietStep ==
    ASSUME IndInv, NEW h \in Conn, op[h].at # "recv" \/ h \in serving,
           NEW new \in Operation, Goto(h, new), Stands(h, new)',
           new.at \notin {"write", "answer"},
           UNCHANGED <<list, process, main, wilcard, written, dead, overlap>>,
           nicknames' \subseteq asked', asked \subseteq asked', asked' \subseteq Conn,
           ops' \in 0 .. MaxOp
    PROVE  IndInv'
<1>1. op' \in [Conn -> Operation] /\ MainInv' /\ HandlerInv'
  BY GotoInv DEF list, process
<1>2. TypeOK'
  BY <1>1 DEF IndInv, TypeOK, list, process
<1>3. WilcardInv'
  <2>1. \A c \in Conn : op'[c].at \in {"write", "answer"} => op'[c].at = op[c].at
    BY DEF IndInv, TypeOK, Goto
  <2>. QED BY <2>1, WilcardKept DEF IndInv, TypeOK
<1>. QED BY <1>1, <1>2, <1>3 DEF IndInv

\* One that crashes the process.
LEMMA DieInv ==
    ASSUME IndInv, NEW h \in Conn, Die(h),
           UNCHANGED <<list, process, names, main, wilcard, written, ops, overlap>>
    PROVE  IndInv'
<1>1. TypeOK' /\ MainInv' /\ HandlerInv'
  BY DEF IndInv, TypeOK, MainInv, Arriving, HandlerInv, Stands, Die, list, process, names
<1>2. WilcardInv'
  BY WilcardKept DEF IndInv, TypeOK, Die
<1>. QED BY <1>1, <1>2 DEF IndInv

LEMMA AskNickInv == ASSUME IndInv, NEW h \in Conn, AskNick(h) PROVE IndInv'
<1>. DEFINE new == [Quiet EXCEPT !.at = "nick"]
<1>1. new \in Operation /\ new.at = "nick"
  BY QuietType DEF Quiet, Operation
<1>2. h \in serving /\ Goto(h, new) /\ asked' = asked \cup {h}
  BY DEF AskNick
<1>3. Stands(h, new)'
  BY <1>1, <1>2, HandlerThere DEF Stands, AskNick, process
<1>4. /\ nicknames' \subseteq asked' /\ asked \subseteq asked' /\ asked' \subseteq Conn
      /\ ops' \in 0 .. MaxOp
  BY <1>2 DEF IndInv, TypeOK, AskNick
<1>. HIDE DEF new
<1>. QED BY <1>1, <1>2, <1>3, <1>4, QuietStep DEF AskNick

LEMMA AddNickInv == ASSUME IndInv, NEW h \in Conn, AddNick(h) PROVE IndInv'
<1>1. op[h].at = "nick" /\ h \in asked
  BY DEF IndInv, HandlerInv, Stands, AddNick, At
<1>2. Stands(h, Quiet)' /\ Quiet.at \notin {"write", "answer"}
  BY DEF Stands, Quiet
<1>3. /\ nicknames' \subseteq asked' /\ asked \subseteq asked' /\ asked' \subseteq Conn
      /\ ops' \in 0 .. MaxOp
  BY <1>1 DEF IndInv, TypeOK, AddNick
<1>. QED BY <1>1, <1>2, <1>3, QuietType, QuietStep DEF AddNick

\* A new command.
LEMMA BeginInv ==
    ASSUME IndInv, NEW h \in Conn, Begin(h), NEW new \in Operation, Goto(h, new),
           new.at \in {"count", "again"}, new.at = "count" => new.cur = Anchor
    PROVE  IndInv'
<1>. USE ConnType
<1>1. h \in serving
  BY DEF Begin
<1>2. Stands(h, new)'
  BY <1>1, HandlerThere DEF Stands, Begin, process
<1>3. /\ nicknames' \subseteq asked' /\ asked \subseteq asked' /\ asked' \subseteq Conn
      /\ ops' \in 0 .. MaxOp
  BY DEF IndInv, TypeOK, Begin, names
<1>. QED BY <1>1, <1>2, <1>3, QuietStep DEF Begin

LEMMA ListedType == Listed \subseteq Conn
BY DEF Listed

LEMMA MsgallInv == ASSUME IndInv, NEW h \in Conn, Msgall(h) PROVE IndInv'
<1>. USE ConnType
<1>. DEFINE new == [Quiet EXCEPT !.at = "count", !.cur = Anchor, !.stayed = Listed]
<1>1. new \in Operation /\ new.at = "count" /\ new.cur = Anchor
  <2>1. Anchor \in Node /\ Listed \in SUBSET Conn
    BY ListedType DEF Anchor, Node
  <2>. HIDE DEF Listed, Node
  <2>. QED BY <2>1, QuietType DEF Quiet, Operation
<1>2. Begin(h) /\ Goto(h, new)
  BY DEF Msgall
<1>. HIDE DEF new
<1>. QED BY <1>1, <1>2, BeginInv

LEMMA WhoisInv == ASSUME IndInv, NEW h \in Conn, NEW who \in Conn, Whois(h, who) PROVE IndInv'
<1>. DEFINE new == [Quiet EXCEPT !.at = "again", !.who = who, !.stayed = Listed]
<1>1. new \in Operation /\ new.at = "again"
  BY QuietType, ListedType DEF Quiet, Operation
<1>2. Begin(h) /\ Goto(h, new)
  BY DEF Whois
<1>. HIDE DEF new
<1>. QED BY <1>1, <1>2, BeginInv

\* A command goes on.
LEMMA ServeStep ==
    ASSUME IndInv, NEW h \in Conn, op[h].at # "recv", NEW new \in Operation, Goto(h, new),
           Stands(h, new), new.at \notin {"write", "answer"},
           UNCHANGED <<list, process, names, main, wilcard, written, ops, dead, overlap>>
    PROVE  IndInv'
<1>1. Stands(h, new)'
  BY DEF Stands, process, names
<1>2. /\ nicknames' \subseteq asked' /\ asked \subseteq asked' /\ asked' \subseteq Conn
      /\ ops' \in 0 .. MaxOp
  BY DEF IndInv, TypeOK, names
<1>. QED BY <1>1, <1>2, QuietStep

LEMMA CountInv == ASSUME IndInv, NEW h \in Conn, Count(h) PROVE IndInv'
<1>. USE ConnType
<1>. DEFINE o == op[h]
            new == IF o.cur # Null THEN [o EXCEPT !.n = o.n + 1, !.cur = next[o.cur]]
                   ELSE [o EXCEPT !.n = o.n - 1, !.cur = next[Anchor], !.at = "load"]
<1>1. o \in Operation /\ o.at = "count" /\ h \in 1 .. accepted /\ (o.n > 0 \/ o.cur = Anchor)
  BY DEF IndInv, TypeOK, HandlerInv, Stands, Count, Counting, At
<1>2. Goto(h, new)
  BY DEF Count, Counting
<1>3. next[Anchor] \in Node \cup {Null} /\ (o.cur # Null => next[o.cur] \in Node \cup {Null})
  BY <1>1 DEF IndInv, TypeOK, Operation, Anchor, Node
<1>4. new \in Operation /\ Stands(h, new) /\ new.at \notin {"write", "answer"}
  <2>1. CASE o.cur # Null
    <3>1. o.n + 1 \in Nat /\ o.n + 1 > 0
      BY <1>1 DEF Operation
    <3>2. new = [o EXCEPT !.n = o.n + 1, !.cur = next[o.cur]]
      BY <2>1
    <3>3. new \in Operation
      BY <1>1, <1>3, <2>1, <3>1, <3>2 DEF Operation
    <3>. QED BY <1>1, <3>1, <3>2, <3>3 DEF Operation, Stands
  <2>2. CASE o.cur = Null
    <3>1. o.n - 1 \in Nat
      BY <1>1, <2>2 DEF Operation, Null, Anchor
    <3>2. new = [o EXCEPT !.n = o.n - 1, !.cur = next[Anchor], !.at = "load"]
      BY <2>2
    <3>3. new \in Operation
      BY <1>1, <1>3, <3>1, <3>2 DEF Operation
    <3>. QED BY <1>1, <3>2, <3>3 DEF Operation, Stands
  <2>. QED BY <2>1, <2>2
<1>. HIDE DEF new
<1>. QED BY <1>1, <1>2, <1>4, ServeStep DEF Count, Counting

LEMMA LoadInv == ASSUME IndInv, NEW h \in Conn, Load(h) PROVE IndInv'
<1>1. op[h] \in Operation /\ op[h].at = "load" /\ h \in 1 .. accepted
  BY DEF IndInv, TypeOK, HandlerInv, Stands, Load, At
<1>2. CASE Goto(h, Quiet) /\ UNCHANGED dead
  <2>1. Stands(h, Quiet) /\ Quiet.at \notin {"write", "answer"}
    BY DEF Stands, Quiet
  <2>. QED BY <1>1, <1>2, <2>1, QuietType, ServeStep DEF Load
<1>3. CASE /\ op[h].n > 0 /\ op[h].cur # Null
           /\ Goto(h, [op[h] EXCEPT !.at = "send", !.fd = fd[op[h].cur]]) /\ UNCHANGED dead
  <2>. DEFINE new == [op[h] EXCEPT !.at = "send", !.fd = fd[op[h].cur]]
  <2>1. op[h].cur \in Node /\ fd[op[h].cur] \in Fd \cup {0, -1, JunkFd}
    BY <1>1, <1>3 DEF IndInv, TypeOK, Operation
  <2>2. new \in Operation /\ Stands(h, new) /\ new.at \notin {"write", "answer"}
    BY <1>1, <1>3, <2>1 DEF Operation, Stands
  <2>3. Goto(h, new)
    BY <1>3
  <2>. HIDE DEF new
  <2>. QED BY <1>1, <1>3, <2>2, <2>3, ServeStep DEF Load
<1>4. CASE Die(h)
  BY <1>4, DieInv DEF Load
<1>. QED BY <1>2, <1>3, <1>4 DEF Load

LEMMA SendInv == ASSUME IndInv, NEW h \in Conn, Send(h) PROVE IndInv'
<1>. USE ConnType
<1>. DEFINE o == op[h]
            to == IF o.fd \in Fd THEN file[o.fd] ELSE None
            got == [c \in Conn |-> IF c = to /\ c \in o.stayed THEN o.got[c] + 1 ELSE o.got[c]]
            new == [o EXCEPT !.at = "load", !.n = o.n - 1, !.cur = next[o.cur], !.got = got]
<1>1. o \in Operation /\ o.at = "send" /\ h \in 1 .. accepted /\ o.n > 0 /\ o.cur \in Node
  BY DEF IndInv, TypeOK, HandlerInv, Stands, Send, At
<1>2. Goto(h, new)
  BY DEF Send
<1>3. next[o.cur] \in Node \cup {Null} /\ got \in [Conn -> Nat]
  <2>1. next[o.cur] \in Node \cup {Null}
    BY <1>1 DEF IndInv, TypeOK
  <2>2. got \in [Conn -> Nat]
    BY <1>1 DEF Operation
  <2>. QED BY <2>1, <2>2
<1>. HIDE DEF got
<1>4. new \in Operation /\ Stands(h, new) /\ new.at \notin {"write", "answer"}
  <2>1. o.n - 1 \in Nat
    BY <1>1 DEF Operation
  <2>2. new \in Operation
    BY <1>1, <1>3, <2>1 DEF Operation
  <2>. QED BY <1>1, <2>2 DEF Operation, Stands
<1>. HIDE DEF new
<1>. QED BY <1>1, <1>2, <1>4, ServeStep DEF Send

LEMMA AgainInv == ASSUME IndInv, NEW h \in Conn, Again(h) PROVE IndInv'
<1>. DEFINE o == op[h]
            f == IF o.who \in nicknames THEN fdOf[o.who] ELSE -1
            new == [o EXCEPT !.at = "seek", !.cur = Anchor, !.fd = f]
<1>1. o \in Operation /\ o.at = "again" /\ h \in 1 .. accepted
  BY DEF IndInv, TypeOK, HandlerInv, Stands, Again, At
<1>2. Goto(h, new)
  BY DEF Again
<1>3. f \in Fd \cup {0, -1, JunkFd}
  BY <1>1 DEF IndInv, TypeOK
<1>4. Anchor \in Node
  BY ConnType DEF Anchor, Node
<1>. HIDE DEF f
<1>5. new \in Operation /\ Stands(h, new) /\ new.at \notin {"write", "answer"}
  BY <1>1, <1>3, <1>4 DEF Operation, Stands
<1>. HIDE DEF new
<1>. QED BY <1>1, <1>2, <1>5, ServeStep DEF Again

LEMMA SeekInv == ASSUME IndInv, NEW h \in Conn, Seek(h) PROVE IndInv'
<1>. DEFINE o == op[h]
            new == IF fd[o.cur] = o.fd THEN [o EXCEPT !.at = "read"]
                   ELSE [o EXCEPT !.cur = next[o.cur]]
<1>1. o \in Operation /\ o.at = "seek" /\ h \in 1 .. accepted
  BY DEF IndInv, TypeOK, HandlerInv, Stands, Seek, At
<1>2. CASE Die(h)
  BY <1>2, DieInv DEF Seek
<1>3. CASE o.cur # Null /\ Goto(h, new) /\ UNCHANGED dead
  <2>1. o.cur \in Node /\ next[o.cur] \in Node \cup {Null}
    BY <1>1, <1>3 DEF IndInv, TypeOK, Operation
  <2>2. new \in Operation /\ Stands(h, new) /\ new.at \notin {"write", "answer"}
    BY <1>1, <2>1 DEF Operation, Stands
  <2>. HIDE DEF new
  <2>. QED BY <1>1, <1>3, <2>2, ServeStep DEF Seek
<1>. QED BY <1>2, <1>3 DEF Seek

LEMMA ReadNodeInv == ASSUME IndInv, NEW h \in Conn, ReadNode(h) PROVE IndInv'
<1>. USE ConnType
<1>. DEFINE o == op[h]
            o2 == [o EXCEPT !.at = "write", !.n = conn[o.cur]]
<1>1. o \in Operation /\ o.at = "read" /\ h \in 1 .. accepted /\ o.cur \in Node
  BY DEF IndInv, TypeOK, HandlerInv, Stands, ReadNode, At
<1>2. CASE Die(h) /\ UNCHANGED <<wilcard, written, overlap>>
  BY <1>2, DieInv DEF ReadNode
<1>3. CASE conn[o.cur] # Junk /\ Goto(h, o2) /\ Flush(h) /\ UNCHANGED dead
  <2>1. conn[o.cur] \in Conn \cup {None}
    BY <1>1, <1>3 DEF IndInv, TypeOK
  <2>2. PICK new \in Operation : Stands(h, new) /\ new.at = "write" /\ Goto(h, new)
    <3>1. conn[o.cur] \in Nat
      BY <2>1 DEF Conn, None
    <3>2. o2 \in Operation
      BY <1>1, <3>1 DEF Operation
    <3>3. Stands(h, o2) /\ o2.at = "write"
      BY <1>1, <2>1 DEF Operation, Stands
    <3>. HIDE DEF o2
    <3>. QED BY <1>3, <3>2, <3>3
  <2>. HIDE DEF o2
  <2>3. Stands(h, new)' /\ asked \subseteq asked' /\ UNCHANGED <<used, accepted, serving, main>>
    BY <2>2 DEF Stands, ReadNode, list, process, names
  <2>4. op' \in [Conn -> Operation] /\ MainInv' /\ HandlerInv'
    BY <1>1, <1>3, <2>2, <2>3, GotoInv
  <2>5. /\ wilcard' \in [Part -> Conn \cup {None}]
        /\ written' \in [Conn -> 0 .. Len(WelcomeOrder)]
        /\ written'[h] = 0 /\ \A x \in Conn : x # h => written'[x] = written[x]
        /\ DOMAIN overlap' \subseteq Conn
        /\ \A x \in DOMAIN overlap' : overlap'[x] \subseteq Conn /\ (x # h => overlap'[x] # {})
        /\ MixInv'
    BY <1>3, FlushInv DEF IndInv
  <2>6. TypeOK'
    BY <1>3, <2>4, <2>5 DEF IndInv, TypeOK, ReadNode, list, process, names
  <2>7. WilcardInv'
    <3>1. op'[h].at = "write" /\ \A x \in Conn : x # h => op'[x] = op[x]
      BY <1>3, <2>2 DEF Goto, IndInv, TypeOK
    <3>2. main.at \in {"fill", "welcome"} => main.c # h /\ main.c \in Conn
      BY <1>1, HandlerThere DEF Arriving, IndInv, TypeOK, MainInv, Conn
    <3>3. FillerInv'
      BY <2>3, <2>5, <3>1, <3>2 DEF IndInv, WilcardInv, FillerInv
    <3>4. OwnInv'
      BY <2>5 DEF OwnInv, Own
    <3>. QED BY <2>5, <3>3, <3>4 DEF WilcardInv
  <2>. QED BY <2>4, <2>6, <2>7 DEF IndInv
<1>. QED BY <1>2, <1>3 DEF ReadNode

LEMMA WriteAnswerInv == ASSUME IndInv, NEW h \in Conn, WriteAnswer(h) PROVE IndInv'
<1>. DEFINE o2 == IF written[h] + 1 = 4 THEN [op[h] EXCEPT !.at = "answer"] ELSE op[h]
<1>1. /\ op[h] \in Operation /\ op[h].at = "write" /\ h \in 1 .. accepted
      /\ op[h].n \in Conn \cup {None} /\ written[h] < 4
  BY DEF IndInv, TypeOK, HandlerInv, Stands, WilcardInv, FillerInv, WriteAnswer, At
<1>2. /\ wilcard' \in [Part -> Conn \cup {None}]
      /\ written' \in [Conn -> 0 .. Len(WelcomeOrder)]
      /\ written'[h] = written[h] + 1 /\ \A x \in Conn : x # h => written'[x] = written[x]
      /\ DOMAIN overlap' = DOMAIN overlap
      /\ \A x \in DOMAIN overlap' : overlap'[x] \subseteq Conn /\ (x # h => h \in overlap'[x])
      /\ h \in DOMAIN overlap => overlap'[h] = overlap[h]
      /\ MixInv'
      /\ Own(h, AnswerOrder) => Own(h, AnswerOrder)'
  BY <1>1, WriteInv DEF IndInv, WilcardInv, WriteAnswer
<1>3. PICK new \in Operation : /\ Stands(h, new) /\ Goto(h, new)
                               /\ new.at = IF written[h] + 1 = 4 THEN "answer" ELSE "write"
  <2>1. Goto(h, o2)
    BY <1>2, Orders DEF WriteAnswer, Filled
  <2>2. CASE written[h] + 1 = 4
    BY <1>1, <2>1, <2>2 DEF Operation, Stands
  <2>3. CASE written[h] + 1 # 4
    <3>1. Stands(h, op[h])
      BY DEF IndInv, HandlerInv
    <3>. QED BY <1>1, <2>1, <2>3, <3>1
  <2>. QED BY <2>2, <2>3
<1>. HIDE DEF o2
<1>4. Stands(h, new)' /\ asked \subseteq asked' /\ UNCHANGED <<used, accepted, serving, main>>
  BY <1>3 DEF Stands, WriteAnswer, list, process, names
<1>5. op' \in [Conn -> Operation] /\ MainInv' /\ HandlerInv'
  BY <1>1, <1>3, <1>4, GotoInv
<1>6. TypeOK'
  BY <1>2, <1>5 DEF IndInv, TypeOK, WriteAnswer, list, process, names
<1>7. WilcardInv'
  <2>1. op'[h] = new /\ \A x \in Conn : x # h => op'[x] = op[x]
    BY <1>3 DEF Goto, IndInv, TypeOK
  <2>2. main.at \in {"fill", "welcome"} => main.c # h /\ main.c \in Conn
    <3>1. main.at \in {"fill", "welcome"} => main.c \in 1 .. accepted /\ main.c # h
      BY <1>1, HandlerThere DEF Arriving, IndInv, MainInv
    <3>. QED BY <3>1, ConnType DEF IndInv, TypeOK, Conn
  <2>3. FillerInv'
    <3>1. written[h] \in 0 .. 4
      BY Orders DEF IndInv, TypeOK
    <3>2. /\ new.at = "write" => written'[h] < 4
          /\ new.at = "answer" => written'[h] = 4
      BY <1>1, <1>2, <1>3, <3>1
    <3>3. /\ main'.at = "fill" => written'[main'.c] < 4
          /\ main'.at = "welcome" => written'[main'.c] = 4
      BY <1>2, <1>4, <2>2 DEF IndInv, WilcardInv, FillerInv
    <3>4. \A x \in Conn : x # h => /\ op'[x].at = "write" => written'[x] < 4
                                   /\ op'[x].at = "answer" => written'[x] = 4
      BY <1>2, <2>1 DEF IndInv, WilcardInv, FillerInv
    <3>. QED BY <2>1, <3>2, <3>3, <3>4 DEF FillerInv
  <2>4. OwnInv'
    <3>. SUFFICES ASSUME NEW c \in DOMAIN overlap, overlap'[c] = {}
                  PROVE  /\ main'.at \in {"fill", "welcome"} => main'.c # c
                         /\ Own(c, AnswerOrder)'
      BY <1>2 DEF OwnInv
    <3>1. c = h /\ overlap[h] = {}
      BY <1>2
    <3>2. Own(h, AnswerOrder)
      BY <1>1, <3>1 DEF IndInv, WilcardInv, OwnInv
    <3>. QED BY <1>2, <1>4, <2>2, <3>1, <3>2
  <2>. QED BY <1>2, <2>3, <2>4 DEF WilcardInv
<1>. QED BY <1>5, <1>6, <1>7 DEF IndInv

LEMMA AnswerInv == ASSUME IndInv, NEW h \in Conn, Answer(h) PROVE IndInv'
<1>1. op[h].at = "answer" /\ Goto(h, Quiet)
  BY DEF Answer, At
<1>2. Stands(h, Quiet)' /\ asked \subseteq asked' /\ UNCHANGED <<used, accepted, serving, main>>
  BY DEF Stands, Quiet, Answer, list, process, names
<1>3. op' \in [Conn -> Operation] /\ MainInv' /\ HandlerInv'
  BY <1>1, <1>2, QuietType, GotoInv
<1>4. /\ DOMAIN overlap' = DOMAIN overlap \ {h}
      /\ \A x \in DOMAIN overlap' : overlap'[x] = overlap[x] /\ overlap'[x] \subseteq Conn
  BY SentInv DEF IndInv, Answer
<1>5. TypeOK'
  BY <1>3, <1>4 DEF IndInv, TypeOK, Answer, list, process, names
<1>6. WilcardInv'
  <2>1. \A c \in DOMAIN overlap' : c \in Conn /\ op'[c] = op[c]
    BY <1>1, <1>4 DEF IndInv, TypeOK, Goto
  <2>2. UNCHANGED <<wilcard, written, main>>
    BY DEF Answer
  <2>3. FillerInv'
    <3>1. op'[h].at = "recv" /\ \A x \in Conn : x # h => op'[x] = op[x]
      BY <1>1 DEF IndInv, TypeOK, Goto, Quiet
    <3>. QED BY <2>2, <3>1 DEF IndInv, WilcardInv, FillerInv
  <2>4. MixInv' /\ OwnInv'
    BY <1>4, <2>1, <2>2 DEF IndInv, WilcardInv, MixInv, OwnInv, Own
  <2>. QED BY <2>3, <2>4 DEF WilcardInv
<1>. QED BY <1>3, <1>5, <1>6 DEF IndInv

-----------------------------------------------------------------------------
(***************************************************************************)
(* The theorems                                                            *)
(***************************************************************************)

LEMMA StutterInv == IndInv /\ UNCHANGED vars => IndInv'
<1> SUFFICES ASSUME IndInv, UNCHANGED vars PROVE IndInv'
  OBVIOUS
<1>1. TypeOK'
  BY DEF vars, IndInv, TypeOK
<1>2. MainInv' /\ HandlerInv'
  BY DEF vars, IndInv, MainInv, Arriving, HandlerInv, Stands
<1>3. FillerInv' /\ MixInv'
  BY DEF vars, IndInv, WilcardInv, FillerInv, MixInv
<1>4. OwnInv'
  BY DEF vars, IndInv, WilcardInv, OwnInv, Own
<1>. QED BY <1>1, <1>2, <1>3, <1>4 DEF IndInv, WilcardInv

LEMMA NextInv == IndInv /\ [Next]_vars => IndInv'
<1> SUFFICES ASSUME IndInv, Next PROVE IndInv'
  BY StutterInv
<1>1. CASE Accept \/ Fill \/ Welcome \/ List \/ Link \/ Release \/ Close
  BY <1>1, AcceptInv, FillInv, WelcomeInv, ListInv, LinkInv, ReleaseInv, CloseInv
<1>2. CASE \E c \in Conn : Unlink(c)
  BY <1>2, UnlinkInv
<1>3. ASSUME NEW h \in Conn, AskNick(h) \/ Msgall(h) \/ \E who \in Conn : Whois(h, who)
      PROVE  IndInv'
  BY <1>3, AskNickInv, MsgallInv, WhoisInv
<1>4. ASSUME NEW h \in Conn, Serve(h) PROVE IndInv'
  BY <1>4, AddNickInv, CountInv, LoadInv, SendInv, AgainInv, SeekInv, ReadNodeInv,
     WriteAnswerInv, AnswerInv DEF Serve
<1>. QED BY <1>1, <1>2, <1>3, <1>4 DEF Next

LEMMA Inductive == Spec => []IndInv
<1>. QED BY InitInv, NextInv, PTL DEF Spec

\* Every variable keeps its type, whatever clients come, leave, ask about each
\* other and write to all.
THEOREM TypeCorrect == Spec => []TypeOK
<1>1. IndInv => TypeOK
  BY DEF IndInv
<1>. QED BY <1>1, Inductive, PTL

\* Every part of what main() or a handler sends from wilcard is what it wrote
\* there, unless another one wrote to it meanwhile; then each part is its own, one
\* of theirs or empty: for any number of clients being welcomed or answered at
\* once, and any interleaving of the writes of the parts.
THEOREM OwnMessageCorrect == Spec => OwnMessage
<1>1. ASSUME IndInv, [Next]_vars
      PROVE  [\A c \in DOMAIN overlap \ DOMAIN overlap' : \A p \in Part :
                 wilcard[p] \in IF overlap[c] = {} THEN {c} ELSE overlap[c] \cup {c, None}]_vars
  <2>1. CASE UNCHANGED vars
    BY <2>1 DEF vars
  <2>. SUFFICES ASSUME Next, NEW c \in DOMAIN overlap \ DOMAIN overlap', NEW p \in Part
                PROVE  wilcard[p] \in IF overlap[c] = {} THEN {c} ELSE overlap[c] \cup {c, None}
    BY <1>1, <2>1
  <2>2. \/ main.at = "welcome" /\ main.c = c
        \/ op[c].at = "answer"
    <3>1. ASSUME NEW w \in Conn, Flush(w) PROVE FALSE
      BY <3>1 DEF Flush
    <3>2. ASSUME NEW w \in Conn, NEW order, Write(w, order) PROVE FALSE
      BY <3>2 DEF Write
    <3>3. overlap' # overlap
      OBVIOUS
    <3>4. CASE Accept
      <4>1. accepted + 1 \in Conn
        BY <1>1, <3>4, ConnType DEF IndInv, TypeOK, Accept, Conn
      <4>. QED BY <3>1, <3>4, <4>1 DEF Accept
    <3>5. CASE Fill
      <4>1. main.c \in Conn
        BY <1>1, <3>5, ConnType DEF IndInv, TypeOK, MainInv, Fill, Conn
      <4>. QED BY <3>2, <3>5, <4>1 DEF Fill
    <3>6. CASE Welcome
      BY <3>6 DEF Welcome, Sent
    <3>7. CASE List \/ Link \/ Release \/ Close \/ \E x \in Conn : Unlink(x)
      BY <3>3, <3>7 DEF List, Link, Release, Close, Unlink
    <3>8. ASSUME NEW h \in Conn, AskNick(h) \/ Msgall(h) \/ \E who \in Conn : Whois(h, who)
          PROVE  FALSE
      BY <3>3, <3>8 DEF AskNick, Msgall, Whois, Begin
    <3>9. ASSUME NEW h \in Conn, \/ AddNick(h) \/ Count(h) \/ Load(h) \/ Send(h)
                                 \/ Again(h) \/ Seek(h)
          PROVE  FALSE
      BY <3>3, <3>9 DEF AddNick, Count, Counting, Load, Send, Again, Seek
    <3>10. ASSUME NEW h \in Conn, ReadNode(h) PROVE FALSE
      BY <3>1, <3>3, <3>10 DEF ReadNode
    <3>11. ASSUME NEW h \in Conn, WriteAnswer(h) PROVE FALSE
      BY <3>2, <3>11 DEF WriteAnswer
    <3>12. ASSUME NEW h \in Conn, Answer(h) PROVE op[c].at = "answer"
      BY <3>12 DEF Answer, Sent, At
    <3>. QED BY <3>4, <3>5, <3>6, <3>7, <3>8, <3>9, <3>10, <3>11, <3>12 DEF Next, Serve
  <2>3. CASE overlap[c] = {}
    <3>1. PICK order \in {WelcomeOrder, AnswerOrder} : Own(c, order) /\ written[c] = 4
      BY <1>1, <2>2, <2>3 DEF IndInv, TypeOK, WilcardInv, FillerInv, OwnInv
    <3>2. PICK j \in 1 .. 4 : order[j] = p
      BY Orders
    <3>. QED BY <2>3, <3>1, <3>2 DEF Own
  <2>4. CASE overlap[c] # {}
    BY <1>1, <2>4 DEF IndInv, WilcardInv, MixInv
  <2>. QED BY <2>3, <2>4
<1>. QED BY <1>1, Inductive, PTL DEF Spec, OwnMessage
=============================================================================
