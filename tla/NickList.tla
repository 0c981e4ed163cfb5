------------------------------ MODULE NickList ------------------------------
(***************************************************************************)
(* The list of nicknames of EIRBCHAT (nicknames in server_utils.c), node   *)
(* by node, used by several threads at once without a lock: the handlers   *)
(* that serve /nick (proc_nick, with exist_user and addNick) look a        *)
(* nickname up and append to the list, while main() removes the nicknames  *)
(* of a client that has left (supprUser).                                  *)
(*                                                                         *)
(* Each read or write of a next field is a step.  The list starts at       *)
(* Anchor, the memory of the global variable itself, which the code uses   *)
(* as a node; the first true node is that of EIRBADMIN.  What addNick does *)
(* to the rooms is left to Rooms.                                          *)
(***************************************************************************)
EXTENDS Integers, FiniteSets

CONSTANTS Handler,    \* the handler threads
          FdOf,       \* the descriptor each is started with
          Nick,       \* the nicknames clients choose
          FirstWord,  \* what strtok() leaves of each, before its first space
          Null, Junk, \* no node; what a freed node holds
          MaxNick,    \* bound: nicknames asked of one handler
          MaxNode     \* bound: nodes ever allocated

ASSUME NickListAssumption ==
    /\ FdOf \in [Handler -> Nat \ (0 .. 3)]
    /\ Junk \notin Nick
    /\ FirstWord \in [Nick -> Nick]
    /\ MaxNick \in Nat
    /\ MaxNode \in Nat \ {0}
    /\ Null \notin 0 .. MaxNode

Anchor == 0
Admin == 1
Node == 0 .. MaxNode

VARIABLES
    next, nick, fd,  \* the fields of the nodes
    used,            \* the last node allocated
    freed,           \* the nodes given back by free()
    open,            \* the descriptors of connected clients
    serving,         \* the handlers that have started and not ended
    asked,           \* nicknames asked of each handler so far
    pc, cur, want, mine,  \* the handlers: control point, node reached,
                          \* nickname asked, node to append
    reaper,          \* main(): the descriptor it cleans up after, and where it is
                     \* (since and had are history: the links made and the
                     \* nicknames of that descriptor listed when it began)
    \* history: when a node was linked, and when the last look-up that found
    \* its nickname free began, counted in links made; the nodes that appends
    \* have cut off; those whose nickname was looked up with more words
    links, began, linked, checked, cut, shortened

memory == <<next, nick, fd, used, freed>>
handlers == <<serving, asked, pc, cur, want, mine>>
history == <<links, began, linked, checked, cut, shortened>>
vars == <<next, nick, fd, used, freed, open, serving, asked, pc, cur, want, mine,
          reaper, links, began, linked, checked, cut, shortened>>

Idle == [at |-> "idle", fd |-> 0, left |-> 0, prev |-> Null, temp |-> Null, succ |-> Null,
         since |-> 0, had |-> 0]

\* The nodes a walk meets that starts at n: those in every set that has n and
\* what follows each of its nodes.
Closed(S) == \A n \in S : next[n] # Null => next[n] \in S
From(n) ==
    LET walks == {S \in SUBSET Node : {n} \ {Null} \subseteq S /\ Closed(S)}
    IN  {m \in Node : \A S \in walks : m \in S}
Listed == From(Anchor) \ {Anchor, Admin}

-----------------------------------------------------------------------------
(***************************************************************************)
(* Handlers: proc_nick.                                                    *)
(***************************************************************************)

At(h, p) == h \in serving /\ pc[h] = p

Goto(h, p, n) ==
    /\ pc' = [pc EXCEPT ![h] = p]
    /\ cur' = [cur EXCEPT ![h] = n]

\* main() accepts a client and starts its handler.
Start(h) ==
    /\ h \notin serving /\ asked[h] = 0
    /\ FdOf[h] \notin open
    /\ reaper.at = "idle"
    /\ open' = open \cup {FdOf[h]}
    /\ serving' = serving \cup {h}
    /\ UNCHANGED <<memory, asked, pc, cur, want, mine, reaper, history>>

\* /nick w: proc_nick calls exist_user(), which skips the first node.
Ask(h, w) ==
    /\ At(h, "recv")
    /\ FdOf[h] \in open
    /\ asked[h] < MaxNick
    /\ asked' = [asked EXCEPT ![h] = @ + 1]
    /\ want' = [want EXCEPT ![h] = w]
    /\ Goto(h, "mine?", next[Anchor])
    /\ UNCHANGED <<memory, open, serving, mine, reaper, history>>

Checks == {"mine?", "taken?", "new?"}
Looking(h) == h \in serving /\ pc[h] \in Checks

\* Mutant of Match: a nickname is taken only when it is the client's own.
MatchOwn(h) == cur[h] # Null /\ nick[cur[h]] = want[h] /\ fd[cur[h]] = FdOf[h]

Match(h) == cur[h] # Null /\ nick[cur[h]] = want[h]

Walk(h) ==
    /\ Looking(h)
    /\ cur[h] # Null /\ ~ Match(h)
    /\ cur' = [cur EXCEPT ![h] = next[cur[h]]]
    /\ UNCHANGED <<memory, open, serving, asked, pc, want, mine, reaper, history>>

\* Mutant of Decide: a nickname that is not another client's is not looked up
\* again.
DecideOnce(h) ==
    /\ Looking(h)
    /\ cur[h] = Null \/ Match(h)
    /\ \/ /\ pc[h] = "mine?"
          /\ Goto(h, IF Match(h) /\ fd[cur[h]] = FdOf[h] THEN "new?" ELSE "taken?",
                  next[Anchor])
       \/ /\ pc[h] = "taken?"
          /\ IF Match(h) THEN Goto(h, "recv", Null) ELSE Goto(h, "new?", next[Anchor])
       \/ /\ pc[h] = "new?"
          /\ Goto(h, "create", Null)
    /\ began' = IF pc'[h] = "new?" THEN [began EXCEPT ![h] = links] ELSE began
    /\ UNCHANGED <<memory, open, serving, asked, want, mine, reaper, links, linked, checked,
                   cut, shortened>>

\* exist_user() returned.  It is called up to three times: is the nickname
\* another client's, is there one at all, and, past that, is it new?
Decide(h) ==
    /\ Looking(h)
    /\ cur[h] = Null \/ Match(h)
    /\ \/ /\ pc[h] = "mine?"
          /\ Goto(h, IF Match(h) /\ fd[cur[h]] = FdOf[h] THEN "new?" ELSE "taken?",
                  next[Anchor])
       \/ /\ pc[h] = "taken?"
          /\ IF Match(h) THEN Goto(h, "recv", Null) ELSE Goto(h, "new?", next[Anchor])
       \/ /\ pc[h] = "new?"
          /\ Goto(h, IF Match(h) THEN "recv" ELSE "create", Null)
    /\ began' = IF pc'[h] = "new?" THEN [began EXCEPT ![h] = links] ELSE began
    /\ UNCHANGED <<memory, open, serving, asked, want, mine, reaper, links, linked, checked,
                   cut, shortened>>

\* proc_nick cuts the nickname it has looked up after its first word.  (Without
\* any word strtok() returns NULL and nothing is cut; the client has no command
\* that sends such a nickname.)
Stored(w) == FirstWord[w]

\* addNick: a new node, then a walk to the last node, from the first one.
Create(h) ==
    /\ At(h, "create")
    /\ used < MaxNode
    /\ used' = used + 1
    /\ nick' = [nick EXCEPT ![used + 1] = Stored(want[h])]
    /\ fd' = [fd EXCEPT ![used + 1] = FdOf[h]]
    /\ mine' = [mine EXCEPT ![h] = used + 1]
    /\ shortened' = IF Stored(want[h]) = want[h] THEN shortened ELSE shortened \cup {used + 1}
    /\ Goto(h, "append", Anchor)
    /\ UNCHANGED <<next, freed, open, serving, asked, want, reaper, links, began, linked,
                   checked, cut>>

\* Mutant of Append: stops one node too early.
AppendEarly(h) ==
    /\ At(h, "append")
    /\ IF next[cur[h]] # Null /\ next[next[cur[h]]] # Null
       THEN Goto(h, "append", next[cur[h]]) ELSE Goto(h, "link", cur[h])
    /\ UNCHANGED <<memory, open, serving, asked, want, mine, reaper, history>>

Append(h) ==
    /\ At(h, "append")
    /\ IF next[cur[h]] # Null THEN Goto(h, "append", next[cur[h]])
                              ELSE Goto(h, "link", cur[h])
    /\ UNCHANGED <<memory, open, serving, asked, want, mine, reaper, history>>

\* Mutant of Link: the new node is not the last, its next was set to the first.
LinkCircular(h) ==
    /\ At(h, "link")
    /\ next' = [next EXCEPT ![cur[h]] = mine[h], ![mine[h]] = Admin]
    /\ links' = links + 1
    /\ linked' = [linked EXCEPT ![mine[h]] = links + 1]
    /\ checked' = [checked EXCEPT ![mine[h]] = began[h]]
    /\ mine' = [mine EXCEPT ![h] = Null]
    /\ Goto(h, "recv", Null)
    /\ UNCHANGED <<nick, fd, used, freed, open, serving, asked, want, reaper, began, cut, shortened>>

\* Cut off by linking n after c: what c led to before, since c was no longer the
\* last; and n, if c itself is not in the list any more.
CutOff(n, c) == From(next[c]) \cup IF c \in From(Anchor) THEN {} ELSE {n}

\* The new node becomes the next of the node found last; the client is welcomed.
Link(h) ==
    /\ At(h, "link")
    /\ next' = [next EXCEPT ![cur[h]] = mine[h]]
    /\ links' = links + 1
    /\ linked' = [linked EXCEPT ![mine[h]] = links + 1]
    /\ checked' = [checked EXCEPT ![mine[h]] = began[h]]
    /\ cut' = cut \cup CutOff(mine[h], cur[h])
    /\ mine' = [mine EXCEPT ![h] = Null]
    /\ Goto(h, "recv", Null)
    /\ UNCHANGED <<nick, fd, used, freed, open, serving, asked, want, reaper, began, shortened>>

\* Back in recv() on a descriptor that main() has closed, the handler ends.
End(h) ==
    /\ At(h, "recv")
    /\ FdOf[h] \notin open
    /\ serving' = serving \ {h}
    /\ UNCHANGED <<memory, open, asked, pc, cur, want, mine, reaper, history>>

Register(h) == Walk(h) \/ Decide(h) \/ Create(h) \/ Append(h) \/ Link(h)

-----------------------------------------------------------------------------
(***************************************************************************)
(* main(): on a hangup, as many passes of supprUser(f) as the slot of f,   *)
(* which is f - 3, plus one.  Each removes the first node of f it meets.   *)
(***************************************************************************)

\* A pass of supprUser(f), of which left are to do.
PassOver(f, left, since, had) ==
    [Idle EXCEPT !.at = "find", !.fd = f, !.left = left, !.temp = Anchor,
                 !.since = since, !.had = had]

Removal(f, passes) == PassOver(f, passes, links, Cardinality({n \in Listed : fd[n] = f}))

\* Mutant of Hangup: i passes.
HangupShort(f) ==
    /\ reaper.at = "idle"
    /\ f \in open
    /\ reaper' = Removal(f, f - 3)
    /\ UNCHANGED <<memory, open, handlers, history>>

Hangup(f) ==
    /\ reaper.at = "idle"
    /\ f \in open
    /\ reaper' = Removal(f, f - 2)
    /\ UNCHANGED <<memory, open, handlers, history>>

Find ==
    /\ reaper.at = "find"
    /\ reaper.temp # Null
    /\ reaper' = IF fd[reaper.temp] = reaper.fd THEN [reaper EXCEPT !.at = "load"]
                 ELSE [reaper EXCEPT !.prev = reaper.temp, !.temp = next[reaper.temp]]
    /\ UNCHANGED <<memory, open, handlers, history>>

\* prev->next = temp->next is a read and a write.
Load ==
    /\ reaper.at = "load"
    /\ reaper' = [reaper EXCEPT !.succ = next[reaper.temp], !.at = "store"]
    /\ UNCHANGED <<memory, open, handlers, history>>

\* Mutant of Store: the node is freed without being unlinked.
StoreNothing ==
    /\ reaper.at = "store"
    /\ reaper' = [reaper EXCEPT !.at = "free"]
    /\ UNCHANGED <<memory, open, handlers, history>>

Store ==
    /\ reaper.at = "store"
    /\ next' = [next EXCEPT ![reaper.prev] = reaper.succ]
    /\ reaper' = [reaper EXCEPT !.at = "free"]
    /\ UNCHANGED <<nick, fd, used, freed, open, handlers, history>>

\* Mutant of EndOfPass: while (l >= 0).
EndOfPassLate ==
    IF reaper.left > 0
    THEN /\ reaper' = PassOver(reaper.fd, reaper.left - 1, reaper.since, reaper.had)
         /\ UNCHANGED <<open, serving>>
    ELSE /\ reaper' = Idle
         /\ open' = open \ {reaper.fd}
         /\ serving' = {h \in serving : FdOf[h] # reaper.fd \/ pc[h] # "recv"}

\* After the last pass main() closes the descriptor: the handlers waiting in
\* recv() end, the others go on with what they are doing.
EndOfPass ==
    IF reaper.left > 1
    THEN /\ reaper' = PassOver(reaper.fd, reaper.left - 1, reaper.since, reaper.had)
         /\ UNCHANGED <<open, serving>>
    ELSE /\ reaper' = Idle
         /\ open' = open \ {reaper.fd}
         /\ serving' = {h \in serving : FdOf[h] # reaper.fd \/ pc[h] # "recv"}

\* free() writes over the first bytes of the node, its fd and nickname.  Its
\* memory is not allocated again: a few such nodes stay in the cache of the
\* thread that frees, main(), and only handlers allocate new ones.
Free ==
    /\ reaper.at = "free"
    /\ freed' = freed \cup {reaper.temp}
    /\ nick' = [nick EXCEPT ![reaper.temp] = Junk]
    /\ fd' = [fd EXCEPT ![reaper.temp] = -1]
    /\ EndOfPass
    /\ UNCHANGED <<next, used, asked, pc, cur, want, mine, history>>

NotFound ==
    /\ reaper.at = "find"
    /\ reaper.temp = Null
    /\ EndOfPass
    /\ UNCHANGED <<memory, asked, pc, cur, want, mine, history>>

Reap == Find \/ Load \/ Store \/ Free \/ NotFound

-----------------------------------------------------------------------------
Init ==
    /\ next = [n \in Node |-> IF n = Anchor THEN Admin ELSE Null]
    /\ nick = [n \in Node |-> Junk]    \* no client can type the administrator's
    /\ fd = [n \in Node |-> 0]
    /\ used = Admin
    /\ freed = {}
    /\ open = {}
    /\ serving = {}
    /\ asked = [h \in Handler |-> 0]
    /\ pc = [h \in Handler |-> "recv"]
    /\ cur = [h \in Handler |-> Null]
    /\ want = [h \in Handler |-> Junk]
    /\ mine = [h \in Handler |-> Null]
    /\ reaper = Idle
    /\ links = 1
    /\ began = [h \in Handler |-> 0]
    /\ linked = [n \in Node |-> IF n = Admin THEN 1 ELSE 0]
    /\ checked = [n \in Node |-> 0]
    /\ cut = {}
    /\ shortened = {}

Next ==
    \/ \E h \in Handler : Start(h) \/ End(h) \/ Register(h) \/ \E w \in Nick : Ask(h, w)
    \/ \E f \in open : Hangup(f)
    \/ Reap

Spec == Init /\ [][Next]_vars

\* Every thread runs; nothing makes a client ask, or leave.
FairSpec == Spec /\ WF_vars(Reap) /\ \A h \in Handler : WF_vars(Register(h))

-----------------------------------------------------------------------------
(***************************************************************************)
(* Properties.                                                             *)
(***************************************************************************)

Pointer == Node \cup {Null}
Cleanup == [at : {"idle", "find", "load", "store", "free"}, fd : Nat, left : Nat,
            prev : Pointer, temp : Pointer, succ : Pointer, since : Nat, had : Nat]

\* Every variable has its type.
TypeOK ==
    /\ next \in [Node -> Pointer]
    /\ nick \in [Node -> Nick \cup {Junk}]
    /\ fd \in [Node -> Int]
    /\ used \in Node
    /\ freed \subseteq Node
    /\ open \subseteq {FdOf[h] : h \in Handler}
    /\ serving \subseteq Handler
    /\ asked \in [Handler -> 0 .. MaxNick]
    /\ pc \in [Handler -> Checks \cup {"recv", "create", "append", "link"}]
    /\ cur \in [Handler -> Pointer]
    /\ want \in [Handler -> Nick \cup {Junk}]
    /\ mine \in [Handler -> Pointer]
    /\ reaper \in Cleanup
    /\ reaper.at = "idle" <=> reaper.left = 0
    /\ links \in Nat
    /\ began \in [Handler -> Nat]
    /\ linked \in [Node -> Nat]
    /\ checked \in [Node -> Nat]
    /\ cut \subseteq Node
    /\ shortened \subseteq Node

\* Whatever appends and removals overlap, and whichever of them are lost, a
\* node only ever points to one linked after it: the list cannot become
\* circular, every walk over it ends.
ForwardLinks == \A n \in Node : next[n] # Null => linked[n] < linked[next[n]]

\* The node of EIRBADMIN stays the first (getnick() counts on it: it skips two).
AdminFirst == next[Anchor] = Admin /\ Admin \notin freed

\* No node in use points to a freed one, and main() works on none: it never
\* frees a node twice.
NoFreedLinked ==
    /\ \A n \in Node \ freed : next[n] \notin freed
    /\ reaper.temp \notin freed /\ reaper.prev \notin freed

\* Two clients have the same nickname only when each was linked after the
\* other's last look-up had begun: whoever asks for a nickname that is listed
\* already is refused (server_utils.c, lines 870 and 880), whatever main()
\* removes meanwhile.  Two exceptions: an append that overlapped another cut one
\* of them off; or the later nickname was looked up whole and stored shorter.
DuplicatesOverlap ==
    \A m, n \in Listed :
        m # n /\ nick[m] = nick[n] /\ m \notin cut /\ n \notin shortened
            => linked[m] > checked[n]

\* When main() closes a descriptor, the nicknames that were listed for it when
\* the removal began are gone, whatever was appended or lost meanwhile, but for
\* those beyond slot + 1 (server_poll2.c, lines 147 to 152): one left would name
\* the next client on that descriptor.
NicknamesRemoved ==
    [][\A f \in open \ open' :
        LET left == {n \in Listed' : fd'[n] = f /\ linked[n] <= reaper.since}
        IN  left = {} \/ Cardinality(left) + (f - 2) <= reaper.had]_vars

\* Every /nick is done with, one way or the other.
RegistrationEnds == \A h \in Handler : pc[h] # "recv" ~> pc[h] = "recv"

=============================================================================
