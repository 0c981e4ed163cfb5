--------------------------- MODULE NickListProofs ---------------------------
(***************************************************************************)
(* Proofs about NickList, for every number of handlers and of nodes: no    *)
(* interleaving of appends and removals makes the list circular, unlinks   *)
(* the administrator or leads main() to memory it has freed.               *)
(***************************************************************************)
EXTENDS NickList, FiniteSetTheorems, TLAPS

\* The nodes that are neither freed nor, unlinked already, about to be.
Live == Node \ (freed \cup IF reaper.at = "free" THEN {reaper.temp} ELSE {})

\* A node that was never linked is the last of nothing and follows nothing.
NodesInv ==
    /\ linked[Anchor] = 0 /\ fd[Anchor] = 0
    /\ linked[Admin] = 1 /\ fd[Admin] = 0 /\ Admin <= used
    /\ \A n \in Node :
        /\ linked[n] <= links
        /\ linked[n] = 0 => (n # Anchor => next[n] = Null) /\ n \notin freed
        /\ n > used => linked[n] = 0

\* A handler that appends has a node of its own, not linked yet, and has
\* reached a linked one; it never links to Anchor.  One that serves /nick has a
\* nickname to look up.
Appending(h) == pc[h] \in {"append", "link"}
HandlersInv ==
    /\ \A h \in Handler : Appending(h) =>
        /\ mine[h] \in Node /\ mine[h] # Anchor /\ mine[h] <= used /\ linked[mine[h]] = 0
        /\ cur[h] \in Node /\ (cur[h] # Anchor => linked[cur[h]] > 0)
        /\ pc[h] = "link" => cur[h] # Anchor
    /\ \A g, h \in Handler : Appending(g) /\ Appending(h) /\ mine[g] = mine[h] => g = h
    /\ \A h \in Handler : pc[h] # "recv" => want[h] \in Nick

\* main() is between two nodes of which the second follows only the first; the
\* one it removes is a client's, and what follows it follows nothing else.
ReaperInv ==
    reaper.at # "idle" =>
    /\ reaper.fd > 0
    /\ reaper.temp \in Node \cup {Null}
    /\ reaper.prev = Null => reaper.temp = Anchor /\ reaper.at = "find"
    /\ reaper.prev # Null =>
        /\ reaper.prev # Anchor => linked[reaper.prev] > 0
        /\ reaper.prev = Anchor => reaper.temp = Admin
        /\ reaper.temp # Null => linked[reaper.prev] < linked[reaper.temp]
    /\ reaper.temp # Null /\ reaper.at \in {"find", "load", "store"} =>
        \A q \in Node \ freed : next[q] = reaper.temp => q = reaper.prev
    /\ reaper.at \in {"load", "store", "free"} =>
        reaper.temp # Null /\ fd[reaper.temp] = reaper.fd
    /\ reaper.at = "store" /\ reaper.succ # Null =>
        /\ linked[reaper.temp] < linked[reaper.succ]
        /\ reaper.succ \notin freed
        /\ \A q \in Node \ freed : next[q] = reaper.succ => q = reaper.temp
    /\ reaper.at = "free" => \A q \in Node \ freed : next[q] # reaper.temp

\* Two nodes are never followed by the same one.
UniquePrevious ==
    \A p, q \in Live : next[p] = next[q] /\ next[p] # Null => p = q

IndInv == /\ TypeOK /\ ForwardLinks /\ AdminFirst /\ NoFreedLinked
          /\ NodesInv /\ HandlersInv /\ ReaperInv /\ UniquePrevious

-----------------------------------------------------------------------------
\* The two fixed nodes are nodes, and nodes are numbers.
LEMMA Nodes == Anchor \in Node /\ Admin \in Node /\ Null \notin Node /\ Node \subseteq Nat
BY NickListAssumption DEF Anchor, Admin, Node

\* Nothing was linked before Anchor.
LEMMA NotNegative == \A x \in Nat : ~ (x < 0)
OBVIOUS

\* The list of the administrator alone.
LEMMA InitInv == Init => IndInv
<1> SUFFICES ASSUME Init PROVE IndInv
  OBVIOUS
<1>. USE NickListAssumption, Nodes DEF Init
<1>1. TypeOK
  BY DEF TypeOK, Pointer, Checks, Idle, Cleanup, Admin
<1>2. ForwardLinks /\ AdminFirst
  BY DEF ForwardLinks, AdminFirst, Anchor, Admin
<1>3. NoFreedLinked /\ UniquePrevious
  BY DEF NoFreedLinked, UniquePrevious, Live, Idle
<1>4. NodesInv /\ HandlersInv /\ ReaperInv
  BY DEF NodesInv, HandlersInv, ReaperInv, Appending, Idle, Anchor, Admin, Node
<1>. QED BY <1>1, <1>2, <1>3, <1>4 DEF IndInv

\* A step that touches neither the nodes nor main() has only the handlers'
\* part of the invariant to keep.
LEMMA HandlerStep ==
    ASSUME IndInv, TypeOK', HandlersInv',
           UNCHANGED <<next, fd, used, freed, links, linked, reaper>>
    PROVE  IndInv'
BY DEF IndInv, ForwardLinks, AdminFirst, NoFreedLinked, NodesInv, ReaperInv, UniquePrevious, Live

\* The handlers' look-ups and the start and end of handlers.
LEMMA LookUps ==
    ASSUME IndInv, NEW h \in Handler,
           Start(h) \/ End(h) \/ Walk(h) \/ Decide(h) \/ \E w \in Nick : Ask(h, w)
    PROVE  IndInv'
<1>. USE Nodes, NickListAssumption
<1>1. UNCHANGED <<next, nick, fd, used, freed, links, linked, checked, cut, shortened, reaper, mine>>
  BY DEF Start, End, Walk, Decide, Ask, memory, history
<1>2. TypeOK'
  <2>1. CASE Start(h)
    BY <2>1 DEF IndInv, TypeOK, Start, memory, history
  <2>2. CASE End(h)
    BY <2>2 DEF IndInv, TypeOK, End, memory, history
  <2>3. CASE Walk(h)
    BY <2>3 DEF IndInv, TypeOK, Pointer, Walk, memory, history
  <2>4. CASE Decide(h)
    <3>1. /\ pc' \in [Handler -> Checks \cup {"recv", "create", "append", "link"}]
          /\ cur' \in [Handler -> Pointer]
      BY <2>4 DEF IndInv, TypeOK, Pointer, Decide, Goto, Checks
    <3>2. began' \in [Handler -> Nat]
      BY <2>4 DEF IndInv, TypeOK, Decide
    <3>. QED BY <1>1, <2>4, <3>1, <3>2 DEF IndInv, TypeOK, Decide
  <2>5. ASSUME NEW w \in Nick, Ask(h, w) PROVE TypeOK'
    <3>1. /\ pc' \in [Handler -> Checks \cup {"recv", "create", "append", "link"}]
          /\ cur' \in [Handler -> Pointer]
      BY <2>5 DEF IndInv, TypeOK, Pointer, Ask, Goto, Checks
    <3>2. asked' \in [Handler -> 0 .. MaxNick]
      BY <2>5 DEF IndInv, TypeOK, Ask
    <3>3. want' \in [Handler -> Nick \cup {Junk}]
      BY <2>5 DEF IndInv, TypeOK, Ask
    <3>4. UNCHANGED <<open, serving, began>>
      BY <2>5 DEF Ask, history
    <3>. QED BY <1>1, <3>1, <3>2, <3>3, <3>4 DEF IndInv, TypeOK
  <2>. QED BY <2>1, <2>2, <2>3, <2>4, <2>5
<1>3. HandlersInv'
  <2>1. CASE Start(h) \/ End(h)
    BY <1>1, <2>1 DEF Start, End, IndInv, HandlersInv, Appending, memory
  <2>2. CASE Walk(h) \/ Decide(h) \/ \E w \in Nick : Ask(h, w)
    <3>1. ~ Appending(h)'
      BY <2>2 DEF IndInv, TypeOK, Walk, Decide, Ask, Looking, Goto, Checks, Appending
    <3>2. \A g \in Handler : g # h => pc'[g] = pc[g] /\ cur'[g] = cur[g]
      BY <2>2 DEF IndInv, TypeOK, Walk, Decide, Ask, Goto
    <3>3. \A g \in Handler : pc'[g] # "recv" => want'[g] \in Nick
      BY <2>2, <3>2 DEF IndInv, TypeOK, HandlersInv, Walk, Decide, Ask, Looking, Checks
    <3>. QED BY <1>1, <3>1, <3>2, <3>3 DEF IndInv, HandlersInv, Appending
  <2>. QED BY <2>1, <2>2
<1>. QED BY <1>1, <1>2, <1>3, HandlerStep

\* A handler that walks to the end of the list stays on linked nodes, and only
\* stops at one that is not the first.
LEMMA Appends == ASSUME IndInv, NEW h \in Handler, Append(h) PROVE IndInv'
<1>. USE Nodes DEF IndInv
<1>1. UNCHANGED <<next, nick, fd, used, freed, links, linked, checked, cut, shortened, reaper, mine>>
  BY DEF Append, memory, history
<1>2. /\ pc' \in [Handler -> Checks \cup {"recv", "create", "append", "link"}]
      /\ cur' \in [Handler -> Pointer]
      /\ \A g \in Handler : g # h => pc'[g] = pc[g] /\ cur'[g] = cur[g]
  BY DEF TypeOK, Pointer, Append, Goto, HandlersInv, Appending, At
<1>3. TypeOK'
  BY <1>2 DEF TypeOK, Append, memory, history
<1>4. Appending(h) /\ cur[h] \in Node
  BY DEF Append, At, Appending, HandlersInv
<1>5. \/ cur'[h] = next[cur[h]] /\ next[cur[h]] # Null /\ pc'[h] = "append"
      \/ cur'[h] = cur[h] /\ next[cur[h]] = Null /\ pc'[h] = "link"
  BY DEF TypeOK, Append, Goto
<1>6. /\ cur'[h] \in Node /\ (cur'[h] # Anchor => linked[cur'[h]] > 0)
      /\ pc'[h] = "link" => cur'[h] # Anchor
  <2>1. CASE cur'[h] = next[cur[h]] /\ next[cur[h]] # Null /\ pc'[h] = "append"
    <3>1. cur'[h] \in Node /\ linked[cur[h]] < linked[cur'[h]]
      BY <1>4, <2>1 DEF TypeOK, Pointer, ForwardLinks
    <3>2. linked[cur[h]] \in Nat /\ linked[cur'[h]] \in Nat
      BY <1>4, <3>1 DEF TypeOK
    <3>. QED BY <2>1, <3>1, <3>2
  <2>2. CASE cur'[h] = cur[h] /\ next[cur[h]] = Null /\ pc'[h] = "link"
    BY <1>4, <2>2 DEF HandlersInv, AdminFirst
  <2>. QED BY <1>5, <2>1, <2>2
<1>7. HandlersInv'
  <2>. SUFFICES ASSUME NEW g \in Handler, Appending(g)'
                PROVE  /\ Appending(g)
                       /\ cur'[g] \in Node /\ (cur'[g] # Anchor => linked[cur'[g]] > 0)
                       /\ pc'[g] = "link" => cur'[g] # Anchor
    <3>1. \A g \in Handler : pc'[g] # "recv" => want'[g] \in Nick
      BY <1>2 DEF HandlersInv, Append, At
    <3>. QED BY <1>1, <3>1 DEF HandlersInv, Appending
  <2>. QED BY <1>2, <1>4, <1>6 DEF HandlersInv, Appending
<1>. QED BY <1>1, <1>3, <1>7, HandlerStep

\* A new node is nobody else's, follows nothing and is linked nowhere.
LEMMA Creates == ASSUME IndInv, NEW h \in Handler, Create(h) PROVE IndInv'
<1>. USE Nodes, NickListAssumption DEF IndInv
<1>. DEFINE n == used + 1
<1>1. n \in Node /\ n > used /\ n # Anchor /\ n # Admin
  BY DEF Create, TypeOK, Node, NodesInv, Anchor, Admin
<1>2. linked[n] = 0 /\ n \notin freed
  BY <1>1 DEF NodesInv
<1>3. UNCHANGED <<next, freed, links, linked, reaper>>
  BY DEF Create
<1>4. /\ pc' = [pc EXCEPT ![h] = "append"]
      /\ cur' = [cur EXCEPT ![h] = Anchor]
      /\ mine' = [mine EXCEPT ![h] = n]
      /\ fd' = [fd EXCEPT ![n] = FdOf[h]]
      /\ used' = n
  BY DEF Create, Goto
<1>5. TypeOK'
  <2>1. nick' \in [Node -> Nick \cup {Junk}]
    <3>1. Stored(want[h]) \in Nick
      BY DEF Create, At, HandlersInv, Stored
    <3>. QED BY <1>1, <3>1 DEF Create, TypeOK
  <2>2. fd' \in [Node -> Int] /\ mine' \in [Handler -> Pointer]
    BY <1>1, <1>4 DEF TypeOK, Pointer
  <2>3. /\ pc' \in [Handler -> Checks \cup {"recv", "create", "append", "link"}]
        /\ cur' \in [Handler -> Pointer]
    BY <1>4 DEF TypeOK, Pointer
  <2>4. shortened' \subseteq Node
    BY <1>1 DEF Create, TypeOK
  <2>. QED BY <1>1, <1>3, <1>4, <2>1, <2>2, <2>3, <2>4 DEF Create, TypeOK
<1>6. NodesInv'
  <2>1. fd'[Anchor] = 0 /\ fd'[Admin] = 0
    BY <1>1, <1>4 DEF TypeOK, NodesInv
  <2>2. \A m \in Node : m > n => m > used
    BY DEF TypeOK, Node
  <2>3. Admin <= n
    BY DEF TypeOK, NodesInv, Node, Admin
  <2>. QED BY <1>3, <1>4, <2>1, <2>2, <2>3 DEF NodesInv
<1>7. HandlersInv'
  <2>1. ASSUME NEW g \in Handler, g # h, Appending(g)'
        PROVE  Appending(g) /\ mine'[g] = mine[g] /\ cur'[g] = cur[g] /\ pc'[g] = pc[g]
    BY <1>4, <2>1 DEF TypeOK, Appending
  <2>2. /\ mine'[h] = n /\ cur'[h] = Anchor /\ pc'[h] = "append"
    BY <1>4 DEF TypeOK
  <2>3. \A g \in Handler : g # h /\ Appending(g)' => mine'[g] # n /\ mine[g] <= n
    <3>1. TAKE g \in Handler
    <3>2. HAVE g # h /\ Appending(g)'
    <3>3. mine[g] \in Node /\ mine[g] <= used /\ mine'[g] = mine[g]
      BY <2>1, <3>2 DEF HandlersInv
    <3>4. used \in Nat /\ mine[g] \in Nat
      BY <3>3 DEF TypeOK
    <3>5. mine[g] # n /\ mine[g] <= n
      BY <3>3, <3>4
    <3>. QED BY <3>3, <3>5
  <2>4. \A g \in Handler : Appending(g)' =>
            /\ mine'[g] \in Node /\ mine'[g] # Anchor /\ mine'[g] <= used' /\ linked'[mine'[g]] = 0
            /\ cur'[g] \in Node /\ (cur'[g] # Anchor => linked'[cur'[g]] > 0)
            /\ pc'[g] = "link" => cur'[g] # Anchor
    <3>1. TAKE g \in Handler
    <3>2. CASE g = h
      BY <1>1, <1>2, <1>3, <1>4, <2>2, <3>2 DEF TypeOK, Node
    <3>3. CASE g # h
      BY <1>3, <1>4, <2>1, <2>3, <3>3 DEF HandlersInv
    <3>. QED BY <3>2, <3>3
  <2>5. \A g1, g2 \in Handler :
            Appending(g1)' /\ Appending(g2)' /\ mine'[g1] = mine'[g2] => g1 = g2
    BY <2>1, <2>2, <2>3 DEF HandlersInv
  <2>6. \A g \in Handler : pc'[g] # "recv" => want'[g] \in Nick
    BY <1>4 DEF TypeOK, HandlersInv, Create, At
  <2>. QED BY <2>4, <2>5, <2>6 DEF HandlersInv
<1>8. ReaperInv'
  <2>1. reaper.at \in {"load", "store", "free"} => reaper.temp # n
    <3>. SUFFICES ASSUME reaper.at \in {"load", "store", "free"} PROVE reaper.temp # n
      OBVIOUS
    <3>1. /\ reaper.temp \in Node /\ reaper.prev \in Node
          /\ linked[reaper.prev] < linked[reaper.temp]
      BY DEF ReaperInv, TypeOK, Cleanup, Pointer
    <3>2. linked[reaper.prev] \in Nat /\ linked[reaper.temp] \in Nat
      BY <3>1 DEF TypeOK
    <3>. QED BY <1>2, <3>1, <3>2
  <2>2. reaper.at \in {"load", "store", "free"} => fd'[reaper.temp] = fd[reaper.temp]
    BY <1>4, <2>1 DEF TypeOK, ReaperInv
  <2>. QED BY <1>3, <2>2 DEF ReaperInv
<1>9. ForwardLinks' /\ AdminFirst' /\ NoFreedLinked' /\ UniquePrevious'
  BY <1>3 DEF ForwardLinks, AdminFirst, NoFreedLinked, UniquePrevious, Live
<1>. QED BY <1>5, <1>6, <1>7, <1>8, <1>9

\* Linking the new node after a node that had no next one: it is the last
\* linked, and nothing else is before it.
LEMMA Links == ASSUME IndInv, NEW h \in Handler, Link(h) PROVE IndInv'
<1>. USE Nodes DEF IndInv
<1>. DEFINE n == mine[h]  c == cur[h]
<1>1. /\ n \in Node /\ n # Anchor /\ n <= used /\ linked[n] = 0 /\ n \notin freed
      /\ c \in Node /\ c # Anchor /\ linked[c] > 0 /\ next[n] = Null
  BY DEF Link, At, HandlersInv, Appending, NodesInv
<1>2. n # c /\ n # Admin
  BY <1>1 DEF NodesInv
<1>3. /\ next' = [next EXCEPT ![c] = n]
      /\ links' = links + 1
      /\ linked' = [linked EXCEPT ![n] = links + 1]
      /\ mine' = [mine EXCEPT ![h] = Null]
      /\ pc' = [pc EXCEPT ![h] = "recv"]
      /\ cur' = [cur EXCEPT ![h] = Null]
      /\ UNCHANGED <<fd, used, freed, reaper>>
  BY DEF Link, Goto
<1>4. TypeOK'
  <2>1. next' \in [Node -> Pointer] /\ linked' \in [Node -> Nat] /\ links' \in Nat
    BY <1>1, <1>3 DEF TypeOK, Pointer
  <2>2. checked' \in [Node -> Nat]
    BY <1>1 DEF Link, TypeOK
  <2>3. /\ mine' \in [Handler -> Pointer] /\ cur' \in [Handler -> Pointer]
        /\ pc' \in [Handler -> Checks \cup {"recv", "create", "append", "link"}]
    BY <1>3 DEF TypeOK, Pointer
  <2>4. cut' \subseteq Node
    BY <1>1 DEF Link, TypeOK, CutOff, From
  <2>. QED BY <1>3, <2>1, <2>2, <2>3, <2>4 DEF Link, TypeOK
<1>5. /\ \A m \in Node : next'[m] = IF m = c THEN n ELSE next[m]
      /\ \A m \in Node : linked'[m] = IF m = n THEN links + 1 ELSE linked[m]
  BY <1>1, <1>3 DEF TypeOK
<1>6. \A m \in Node : linked[m] \in Nat /\ linked[m] <= links /\ links \in Nat
  BY DEF TypeOK, NodesInv
<1>7. \A m \in Node : next[m] # n
  <2>. SUFFICES ASSUME NEW m \in Node, next[m] = n PROVE FALSE
    OBVIOUS
  <2>1. linked[m] < linked[n]
    BY <1>1 DEF ForwardLinks
  <2>. QED BY <1>1, <1>6, <2>1
<1>8. ForwardLinks'
  <2>. SUFFICES ASSUME NEW m \in Node, next'[m] # Null
                PROVE  linked'[m] < linked'[next'[m]]
    BY DEF ForwardLinks
  <2>1. CASE m = c
    <3>1. next'[m] = n /\ linked'[m] = linked[c] /\ linked'[n] = links + 1
      BY <1>1, <1>2, <1>5, <2>1
    <3>2. linked[c] \in Nat /\ linked[c] <= links /\ links \in Nat
      BY <1>1, <1>6
    <3>. HIDE DEF n, c
    <3>. QED BY <3>1, <3>2
  <2>2. CASE m # c
    <3>1. m # n /\ next'[m] = next[m] /\ next[m] \in Node /\ next[m] # n
      BY <1>1, <1>5, <1>7, <2>2 DEF TypeOK, Pointer
    <3>. QED BY <1>5, <3>1 DEF ForwardLinks
  <2>. QED BY <2>1, <2>2
<1>9. AdminFirst' /\ NoFreedLinked'
  BY <1>1, <1>3, <1>5 DEF AdminFirst, NoFreedLinked
<1>10. NodesInv'
  <2>1. linked'[Anchor] = 0 /\ linked'[Admin] = 1
    BY <1>1, <1>2, <1>5 DEF NodesInv
  <2>2. ASSUME NEW m \in Node
        PROVE  /\ linked'[m] <= links'
               /\ linked'[m] = 0 => (m # Anchor => next'[m] = Null) /\ m \notin freed'
               /\ m > used' => linked'[m] = 0
    <3>1. CASE m = n
      <4>1. linked'[m] = links + 1 /\ links \in Nat /\ links' = links + 1
        BY <1>1, <1>3, <1>5, <1>6, <3>1
      <4>2. m \in Nat /\ used' \in Nat /\ m <= used'
        BY <1>1, <1>3, <3>1 DEF TypeOK
      <4>. QED BY <4>1, <4>2
    <3>2. CASE m # n
      BY <1>1, <1>3, <1>5, <1>6, <3>2 DEF NodesInv
    <3>. QED BY <3>1, <3>2
  <2>. QED BY <1>3, <2>1, <2>2 DEF NodesInv
<1>11. HandlersInv'
  <2>1. ~ Appending(h)'
    BY <1>3 DEF TypeOK, Appending
  <2>2. \A g \in Handler : g # h =>
            pc'[g] = pc[g] /\ cur'[g] = cur[g] /\ mine'[g] = mine[g]
    BY <1>3 DEF TypeOK
  <2>3. \A g \in Handler : g # h /\ Appending(g) => mine[g] # n
    BY DEF HandlersInv, Link, At, Appending
  <2>4. \A g \in Handler : pc'[g] # "recv" => want'[g] \in Nick
    BY <1>3, <2>2 DEF TypeOK, HandlersInv, Link
  <2>. QED BY <1>1, <1>3, <1>5, <1>6, <2>1, <2>2, <2>3, <2>4 DEF HandlersInv, Appending
<1>12. UniquePrevious'
  <2>. SUFFICES ASSUME NEW p \in Live, NEW q \in Live, next'[p] = next'[q], next'[p] # Null
                PROVE  p = q
    BY <1>3 DEF UniquePrevious, Live
  <2>1. p \in Node /\ q \in Node
    BY DEF Live
  <2>. QED BY <1>5, <1>7, <2>1 DEF UniquePrevious
<1>13. ReaperInv'
  <2>. SUFFICES ASSUME reaper.at # "idle" PROVE ReaperInv'
    BY <1>3 DEF ReaperInv
  <2>1. /\ reaper.prev # Null => reaper.prev \in Node /\ reaper.prev # n
        /\ reaper.temp # Null => reaper.temp \in Node /\ reaper.temp # n
        /\ reaper.at = "store" /\ reaper.succ # Null => reaper.succ \in Node /\ reaper.succ # n
    <3>1. reaper.prev # Null => reaper.prev \in Node /\ reaper.prev # n
      BY <1>1 DEF ReaperInv, TypeOK, Cleanup, Pointer
    <3>2. reaper.temp # Null => reaper.temp \in Node /\ reaper.temp # n
      <4>. SUFFICES ASSUME reaper.temp # Null, reaper.temp # Anchor
                    PROVE  reaper.temp \in Node /\ reaper.temp # n
        BY <1>1
      <4>1. reaper.temp \in Node /\ reaper.prev \in Node
            /\ linked[reaper.prev] < linked[reaper.temp]
        BY DEF ReaperInv, TypeOK, Cleanup, Pointer
      <4>2. linked[reaper.prev] \in Nat /\ linked[reaper.temp] \in Nat
        BY <1>6, <4>1
      <4>. QED BY <1>1, <4>1, <4>2
    <3>3. reaper.at = "store" /\ reaper.succ # Null => reaper.succ \in Node /\ reaper.succ # n
      <4>. SUFFICES ASSUME reaper.at = "store", reaper.succ # Null
                    PROVE  reaper.succ \in Node /\ reaper.succ # n
        OBVIOUS
      <4>1. reaper.temp \in Node /\ reaper.succ \in Node
            /\ linked[reaper.temp] < linked[reaper.succ]
        BY DEF ReaperInv, TypeOK, Cleanup, Pointer
      <4>2. linked[reaper.temp] \in Nat /\ linked[reaper.succ] \in Nat
        BY <1>6, <4>1
      <4>. QED BY <1>1, <4>1, <4>2
    <3>. QED BY <3>1, <3>2, <3>3
  <2>2. \A q \in Node : next'[q] = IF q = c THEN n ELSE next[q]
    BY <1>5
  <2>. QED BY <1>1, <1>3, <1>5, <2>1, <2>2 DEF ReaperInv
<1>. QED BY <1>4, <1>8, <1>9, <1>10, <1>11, <1>12, <1>13

-----------------------------------------------------------------------------
\* A step of main() that writes no node has its own part of the invariant to
\* keep, and that of the nodes about to be freed.
LEMMA ReaperStep ==
    ASSUME IndInv, TypeOK', ReaperInv', NoFreedLinked', UniquePrevious',
           UNCHANGED <<next, fd, used, freed, links, linked, pc, cur, want, mine>>
    PROVE  IndInv'
BY DEF IndInv, ForwardLinks, AdminFirst, NodesInv, HandlersInv, Appending

\* What main() starts each pass from, and what it leaves after the last.
LEMMA StartOfPass ==
    ASSUME TypeOK', NodesInv', ForwardLinks',
           \/ reaper' = Idle
           \/ \E f \in Nat, k \in Nat \ {0}, s \in Nat, d \in Nat :
                    f > 0 /\ reaper' = PassOver(f, k, s, d)
    PROVE  /\ ReaperInv' /\ reaper'.at \in {"idle", "find"}
           /\ reaper'.temp \notin freed' /\ reaper'.prev \notin freed'
<1>. USE Nodes
<1>1. Null \notin freed' /\ Anchor \notin freed'
  BY DEF TypeOK, NodesInv
<1>2. CASE reaper' = Idle
  BY <1>1, <1>2 DEF Idle, ReaperInv
<1>3. ASSUME NEW f \in Nat, NEW k \in Nat \ {0}, NEW s \in Nat, NEW d \in Nat, f > 0,
             reaper' = PassOver(f, k, s, d)
      PROVE  /\ ReaperInv' /\ reaper'.at \in {"idle", "find"}
             /\ reaper'.temp \notin freed' /\ reaper'.prev \notin freed'
  <2>1. /\ reaper'.at = "find" /\ reaper'.fd = f /\ reaper'.temp = Anchor
        /\ reaper'.prev = Null
    BY <1>3 DEF PassOver, Idle
  <2>2. \A q \in Node : next'[q] # Anchor
    <3>. SUFFICES ASSUME NEW q \in Node, next'[q] = Anchor PROVE FALSE
      OBVIOUS
    <3>1. linked'[q] < linked'[next'[q]]
      BY DEF ForwardLinks
    <3>2. linked'[Anchor] = 0
      BY DEF NodesInv
    <3>3. linked'[q] < 0
      BY <3>1, <3>2
    <3>4. linked'[q] \in Nat
      BY DEF TypeOK
    <3>. QED BY <3>3, <3>4, NotNegative, Zenon
  <2>. QED BY <1>1, <1>3, <2>1, <2>2 DEF ReaperInv
<1>. QED BY <1>2, <1>3

\* The same, for the two steps that end a pass.
LEMMA Ends ==
    ASSUME IndInv, reaper.at # "idle", EndOfPass
    PROVE  /\ \/ reaper' = Idle
              \/ \E f \in Nat, k \in Nat \ {0}, s \in Nat, d \in Nat :
                    f > 0 /\ reaper' = PassOver(f, k, s, d)
           /\ open' \subseteq open /\ serving' \subseteq serving
           /\ reaper' \in Cleanup
           /\ reaper'.at = "idle" <=> reaper'.left = 0
<1>. USE Nodes DEF IndInv
<1>1. reaper.fd \in Nat /\ reaper.fd > 0
  BY DEF TypeOK, Cleanup, ReaperInv
<1>2. CASE reaper.left > 1
  <2>1. reaper' = PassOver(reaper.fd, reaper.left - 1, reaper.since, reaper.had)
    BY <1>2 DEF EndOfPass
  <2>2. open' = open /\ serving' = serving
    BY <1>2 DEF EndOfPass
  <2>3. reaper.left - 1 \in Nat /\ reaper.left - 1 > 0
    BY <1>1, <1>2 DEF TypeOK, Cleanup
  <2>4. reaper'.at = "find" /\ reaper'.left = reaper.left - 1
    BY <2>1 DEF PassOver, Idle
  <2>5. reaper'.at # "idle" /\ reaper'.left # 0
    BY <2>3, <2>4
  <2>6. reaper.left - 1 \in Nat \ {0} /\ reaper.fd \in Nat /\ reaper.fd > 0
    BY <1>1, <2>3
  <2>7. reaper' \in Cleanup
    <3>1. reaper.since \in Nat /\ reaper.had \in Nat
      BY DEF TypeOK, Cleanup
    <3>. QED BY <2>1, <2>6, <3>1 DEF PassOver, Idle, Pointer, Cleanup
  <2>8. \E f \in Nat, k \in Nat \ {0}, s \in Nat, d \in Nat :
            f > 0 /\ reaper' = PassOver(f, k, s, d)
    BY <2>1, <2>6 DEF TypeOK, Cleanup
  <2>. QED BY <2>2, <2>5, <2>7, <2>8
<1>3. CASE ~ (reaper.left > 1)
  <2>1. reaper' = Idle
    BY <1>3 DEF EndOfPass
  <2>2. open' = open \ {reaper.fd}
    BY <1>3 DEF EndOfPass
  <2>3. serving' = {h \in serving : FdOf[h] # reaper.fd \/ pc[h] # "recv"}
    BY <1>3 DEF EndOfPass
  <2>4. open' \subseteq open
    BY <2>2
  <2>5. serving' \subseteq serving
    BY <2>3
  <2>. QED BY <2>1, <2>4, <2>5 DEF Idle, Pointer, Cleanup
<1>. QED BY <1>2, <1>3

\* A pass begins at Anchor, which nothing points to.
LEMMA Hangups == ASSUME IndInv, NEW f \in open, Hangup(f) PROVE IndInv'
<1>. USE Nodes, NickListAssumption DEF IndInv
<1>1. f \in Nat /\ f - 2 \in Nat \ {0} /\ f > 0
  BY DEF TypeOK
<1>. DEFINE d == Cardinality({n \in Listed : fd[n] = f})
<1>2. reaper' = PassOver(f, f - 2, links, d) /\ links \in Nat /\ d \in Nat
  <2>1. IsFiniteSet(Node)
    BY FS_Interval DEF Node
  <2>2. {n \in Listed : fd[n] = f} \in SUBSET Node
    BY DEF Listed, From
  <2>3. d \in Nat
    BY <2>1, <2>2, FS_Subset, FS_CardinalityType
  <2>. QED BY <2>3 DEF Hangup, Removal, TypeOK
<1>. HIDE DEF d
<1>3. UNCHANGED <<next, nick, fd, used, freed, open, serving, asked, pc, cur, want, mine,
                  links, began, linked, checked, cut, shortened>>
  BY DEF Hangup, memory, handlers, history
<1>4. TypeOK'
  BY <1>1, <1>2, <1>3 DEF TypeOK, Pointer, PassOver, Idle, Cleanup
<1>5. NodesInv' /\ ForwardLinks'
  BY <1>3 DEF NodesInv, ForwardLinks
<1>6. /\ ReaperInv' /\ reaper'.at \in {"idle", "find"}
      /\ reaper'.temp \notin freed' /\ reaper'.prev \notin freed'
  BY <1>1, <1>2, <1>4, <1>5, StartOfPass
<1>7. NoFreedLinked'
  BY <1>3, <1>6 DEF NoFreedLinked
<1>8. UniquePrevious'
  BY <1>3, <1>6 DEF UniquePrevious, Live, Hangup
<1>. QED BY <1>3, <1>4, <1>6, <1>7, <1>8, ReaperStep

\* One node further, or the node to remove is found; it is not Anchor, whose
\* descriptor is 0.
LEMMA Finds == ASSUME IndInv, Find PROVE IndInv'
<1>. USE Nodes DEF IndInv
<1>. DEFINE t == reaper.temp
<1>1. /\ t \in Node /\ t \notin freed /\ reaper.fd > 0 /\ reaper.at = "find"
      /\ reaper \in Cleanup
  BY DEF Find, TypeOK, Cleanup, Pointer, NoFreedLinked, ReaperInv
<1>2. UNCHANGED <<next, nick, fd, used, freed, open, serving, asked, pc, cur, want, mine,
                  links, began, linked, checked, cut, shortened>>
  BY DEF Find, memory, handlers, history
<1>3. CASE fd[t] = reaper.fd
  <2>1. reaper' = [reaper EXCEPT !.at = "load"]
    BY <1>3 DEF Find
  <2>2. t # Anchor
    BY <1>1, <1>3 DEF NodesInv
  <2>3. TypeOK'
    BY <1>1, <1>2, <2>1 DEF TypeOK, Cleanup
  <2>4. /\ reaper'.at = "load" /\ reaper'.fd = reaper.fd /\ reaper'.temp = t
        /\ reaper'.prev = reaper.prev /\ reaper'.succ = reaper.succ
    BY <1>1, <2>1
  <2>5. ReaperInv'
    BY <1>1, <1>2, <1>3, <2>2, <2>4 DEF ReaperInv
  <2>6. NoFreedLinked' /\ UniquePrevious'
    BY <1>1, <1>2, <2>4 DEF NoFreedLinked, UniquePrevious, Live
  <2>. QED BY <1>2, <2>3, <2>5, <2>6, ReaperStep
<1>4. CASE fd[t] # reaper.fd
  <2>1. reaper' = [reaper EXCEPT !.prev = t, !.temp = next[t]]
    BY <1>4 DEF Find
  <2>2. next[t] \in Pointer /\ next[t] \notin freed
    BY <1>1 DEF TypeOK, NoFreedLinked
  <2>3. TypeOK'
    BY <1>1, <1>2, <2>1, <2>2 DEF TypeOK, Cleanup, Pointer
  <2>4. /\ reaper'.at = "find" /\ reaper'.fd = reaper.fd /\ reaper'.temp = next[t]
        /\ reaper'.prev = t
    BY <1>1, <2>1
  <2>5. next[t] # Null => \A q \in Node \ freed : next[q] = next[t] => q = t
    BY <1>1 DEF UniquePrevious, Live
  <2>6. /\ t # Anchor => linked[t] > 0
        /\ t = Anchor => next[t] = Admin
        /\ next[t] # Null => linked[t] < linked[next[t]]
    <3>1. t # Anchor => reaper.prev \in Node /\ linked[reaper.prev] < linked[t]
      BY <1>1 DEF ReaperInv, TypeOK, Cleanup, Pointer
    <3>2. t # Anchor => linked[reaper.prev] \in Nat /\ linked[t] \in Nat
      BY <1>1, <3>1 DEF TypeOK
    <3>3. t # Anchor => linked[t] > 0
      BY <3>1, <3>2
    <3>4. t = Anchor => next[t] = Admin
      BY DEF AdminFirst
    <3>5. next[t] # Null => linked[t] < linked[next[t]]
      BY <1>1 DEF ForwardLinks
    <3>. QED BY <3>3, <3>4, <3>5
  <2>7. ReaperInv'
    BY <1>1, <1>2, <2>2, <2>4, <2>5, <2>6 DEF ReaperInv, Pointer
  <2>8. NoFreedLinked' /\ UniquePrevious'
    BY <1>1, <1>2, <2>2, <2>4 DEF NoFreedLinked, UniquePrevious, Live
  <2>. QED BY <1>2, <2>3, <2>7, <2>8, ReaperStep
<1>. QED BY <1>3, <1>4

\* What follows the node to remove follows nothing else.
LEMMA Loads == ASSUME IndInv, Load PROVE IndInv'
<1>. USE Nodes DEF IndInv
<1>. DEFINE t == reaper.temp
<1>1. /\ t \in Node /\ t \notin freed /\ reaper.fd > 0 /\ reaper.at = "load"
      /\ reaper \in Cleanup
  BY DEF Load, TypeOK, Cleanup, Pointer, NoFreedLinked, ReaperInv
<1>2. UNCHANGED <<next, nick, fd, used, freed, open, serving, asked, pc, cur, want, mine,
                  links, began, linked, checked, cut, shortened>>
  BY DEF Load, memory, handlers, history
<1>3. reaper' = [reaper EXCEPT !.succ = next[t], !.at = "store"]
  BY DEF Load
<1>4. next[t] \in Pointer /\ next[t] \notin freed
  BY <1>1 DEF TypeOK, NoFreedLinked
<1>5. TypeOK'
  BY <1>1, <1>2, <1>3, <1>4 DEF TypeOK, Cleanup
<1>6. /\ reaper'.at = "store" /\ reaper'.fd = reaper.fd /\ reaper'.temp = t
      /\ reaper'.prev = reaper.prev /\ reaper'.succ = next[t]
  BY <1>1, <1>3
<1>7. next[t] # Null => /\ linked[t] < linked[next[t]]
                        /\ \A q \in Node \ freed : next[q] = next[t] => q = t
  BY <1>1 DEF ForwardLinks, UniquePrevious, Live
<1>8. ReaperInv'
  BY <1>1, <1>2, <1>4, <1>6, <1>7 DEF ReaperInv
<1>9. NoFreedLinked' /\ UniquePrevious'
  BY <1>1, <1>2, <1>6 DEF NoFreedLinked, UniquePrevious, Live
<1>. QED BY <1>2, <1>5, <1>8, <1>9, ReaperStep

\* The node to remove is unlinked: nothing that stays points to it any more,
\* and what followed it follows the node before it, alone.
LEMMA Stores == ASSUME IndInv, Store PROVE IndInv'
<1>. USE Nodes DEF IndInv
<1>. DEFINE t == reaper.temp  p == reaper.prev  s == reaper.succ
<1>1. /\ t \in Node /\ t \notin freed /\ p \notin freed /\ reaper.fd > 0
      /\ reaper.at = "store" /\ p # Null /\ fd[t] = reaper.fd
      /\ linked[p] < linked[t]
      /\ s \in Pointer
      /\ reaper \in Cleanup
  BY DEF Store, TypeOK, Cleanup, Pointer, NoFreedLinked, ReaperInv
<1>2. p \in Node /\ p # t
  <2>1. p \in Node
    BY <1>1 DEF Pointer, Cleanup
  <2>2. linked[p] \in Nat /\ linked[t] \in Nat
    BY <1>1, <2>1 DEF TypeOK
  <2>. QED BY <1>1, <2>1, <2>2
<1>3. t # Admin /\ p # Anchor /\ linked[p] > 0 /\ t # Anchor
  BY <1>1 DEF NodesInv, ReaperInv
<1>4. /\ next' = [next EXCEPT ![p] = s]
      /\ reaper' = [reaper EXCEPT !.at = "free"]
      /\ UNCHANGED <<nick, fd, used, freed, open, serving, asked, pc, cur, want, mine,
                     links, began, linked, checked, cut, shortened>>
  BY DEF Store, handlers, history
<1>5. \A q \in Node : next'[q] = IF q = p THEN s ELSE next[q]
  BY <1>2, <1>4 DEF TypeOK
<1>6. TypeOK'
  BY <1>1, <1>2, <1>4 DEF TypeOK, Cleanup
<1>7. /\ reaper'.at = "free" /\ reaper'.fd = reaper.fd /\ reaper'.temp = t
      /\ reaper'.prev = p /\ reaper'.succ = s
  BY <1>1, <1>4
<1>8. s # Null => /\ s \in Node /\ s \notin freed /\ linked[t] < linked[s]
                  /\ \A q \in Node \ freed : next[q] = s => q = t
  BY <1>1 DEF ReaperInv, Pointer
<1>9. s # Null => s # t /\ linked[p] < linked[s]
  <2>. SUFFICES ASSUME s # Null PROVE s # t /\ linked[p] < linked[s]
    OBVIOUS
  <2>1. linked[p] \in Nat /\ linked[t] \in Nat /\ linked[s] \in Nat
    BY <1>1, <1>2, <1>8 DEF TypeOK
  <2>2. linked[p] < linked[t] /\ linked[t] < linked[s]
    BY <1>1, <1>8
  <2>3. s # t
    BY <2>1, <2>2
  <2>. HIDE DEF t, p, s
  <2>. QED BY <2>1, <2>2, <2>3
<1>10. ForwardLinks' /\ AdminFirst'
  BY <1>3, <1>4, <1>5, <1>9 DEF ForwardLinks, AdminFirst
<1>11. \A q \in Node \ freed : next[q] = t => q = p
  BY <1>1 DEF ReaperInv
<1>12. \A q \in Node \ freed : next'[q] # t
  BY <1>1, <1>5, <1>9, <1>11
<1>13. ReaperInv'
  BY <1>1, <1>3, <1>4, <1>7, <1>12 DEF ReaperInv
<1>14. NoFreedLinked'
  <2>1. Null \notin freed
    BY DEF TypeOK
  <2>. QED BY <1>1, <1>4, <1>5, <1>7, <1>8, <2>1 DEF NoFreedLinked
<1>15. NodesInv'
  BY <1>1, <1>3, <1>4, <1>5 DEF NodesInv
<1>16. HandlersInv'
  BY <1>4 DEF HandlersInv, Appending
<1>17. UniquePrevious'
  <2>. SUFFICES ASSUME NEW m \in Live', NEW n \in Live', next'[m] = next'[n], next'[m] # Null
                PROVE  m = n
    BY DEF UniquePrevious
  <2>1. m \in Node \ freed /\ n \in Node \ freed /\ m # t /\ n # t
    BY <1>4, <1>7 DEF Live
  <2>2. CASE m = p \/ n = p
    BY <1>5, <1>8, <2>1, <2>2
  <2>3. CASE m # p /\ n # p
    <3>1. m \in Live /\ n \in Live /\ next[m] = next[n] /\ next[m] # Null
      BY <1>1, <1>5, <2>1, <2>3 DEF Live
    <3>. QED BY <3>1 DEF UniquePrevious
  <2>. QED BY <2>2, <2>3
<1>. QED BY <1>6, <1>10, <1>13, <1>14, <1>15, <1>16, <1>17

\* The removed node is given back: nothing in use points to it.
LEMMA Frees == ASSUME IndInv, Free PROVE IndInv'
<1>. USE Nodes DEF IndInv
<1>. DEFINE t == reaper.temp
<1>1. /\ t \in Node /\ t \notin freed /\ reaper.fd > 0 /\ reaper.at = "free"
      /\ fd[t] = reaper.fd /\ reaper.prev # Null
      /\ linked[reaper.prev] < linked[t] /\ reaper.prev \in Node
      /\ \A q \in Node \ freed : next[q] # t
  BY DEF Free, TypeOK, Cleanup, Pointer, NoFreedLinked, ReaperInv
<1>2. linked[t] > 0 /\ t # Anchor /\ t # Admin
  <2>1. linked[reaper.prev] \in Nat /\ linked[t] \in Nat
    BY <1>1 DEF TypeOK
  <2>2. linked[t] > 0
    BY <1>1, <2>1
  <2>. QED BY <1>1, <2>2 DEF NodesInv
<1>3. /\ freed' = freed \cup {t}
      /\ nick' = [nick EXCEPT ![t] = Junk]
      /\ fd' = [fd EXCEPT ![t] = -1]
      /\ UNCHANGED <<next, used, asked, pc, cur, want, mine, links, began, linked, checked, cut, shortened>>
      /\ EndOfPass
  BY DEF Free, history
<1>4. /\ \/ reaper' = Idle
         \/ \E f \in Nat, k \in Nat \ {0}, s \in Nat, d \in Nat :
                    f > 0 /\ reaper' = PassOver(f, k, s, d)
      /\ open' \subseteq open /\ serving' \subseteq serving
      /\ reaper' \in Cleanup
      /\ reaper'.at = "idle" <=> reaper'.left = 0
  BY <1>1, <1>3, Ends
<1>5. TypeOK'
  <2>1. freed' \subseteq Node
    BY <1>1, <1>3 DEF TypeOK
  <2>2. nick' \in [Node -> Nick \cup {Junk}]
    BY <1>1, <1>3 DEF TypeOK
  <2>3. fd' \in [Node -> Int]
    BY <1>1, <1>3 DEF TypeOK
  <2>4. open' \subseteq {FdOf[h] : h \in Handler} /\ serving' \subseteq Handler
    BY <1>4 DEF TypeOK
  <2>. QED BY <1>3, <1>4, <2>1, <2>2, <2>3, <2>4 DEF TypeOK
<1>6. NodesInv' /\ ForwardLinks'
  BY <1>1, <1>2, <1>3 DEF NodesInv, ForwardLinks, TypeOK
<1>7. /\ ReaperInv' /\ reaper'.at \in {"idle", "find"}
      /\ reaper'.temp \notin freed' /\ reaper'.prev \notin freed'
  BY <1>4, <1>5, <1>6, StartOfPass
<1>8. NoFreedLinked' /\ AdminFirst'
  BY <1>1, <1>2, <1>3, <1>7 DEF NoFreedLinked, AdminFirst
<1>9. HandlersInv'
  BY <1>3 DEF HandlersInv, Appending
<1>10. UniquePrevious'
  <2>1. Live' = Live
    BY <1>1, <1>3, <1>7 DEF Live
  <2>. QED BY <1>3, <2>1 DEF UniquePrevious
<1>. QED BY <1>5, <1>6, <1>7, <1>8, <1>9, <1>10

\* A pass that found nothing.
LEMMA NotFounds == ASSUME IndInv, NotFound PROVE IndInv'
<1>. USE Nodes DEF IndInv
<1>1. /\ reaper.at = "find" /\ EndOfPass
      /\ UNCHANGED <<next, nick, fd, used, freed, asked, pc, cur, want, mine,
                     links, began, linked, checked, cut, shortened>>
  BY DEF NotFound, memory, history
<1>2. /\ \/ reaper' = Idle
         \/ \E f \in Nat, k \in Nat \ {0}, s \in Nat, d \in Nat :
                    f > 0 /\ reaper' = PassOver(f, k, s, d)
      /\ open' \subseteq open /\ serving' \subseteq serving
      /\ reaper' \in Cleanup
      /\ reaper'.at = "idle" <=> reaper'.left = 0
  BY <1>1, Ends
<1>3. TypeOK'
  BY <1>1, <1>2 DEF TypeOK
<1>4. NodesInv' /\ ForwardLinks'
  BY <1>1 DEF NodesInv, ForwardLinks
<1>5. /\ ReaperInv' /\ reaper'.at \in {"idle", "find"}
      /\ reaper'.temp \notin freed' /\ reaper'.prev \notin freed'
  BY <1>2, <1>3, <1>4, StartOfPass
<1>6. NoFreedLinked' /\ UniquePrevious'
  BY <1>1, <1>5 DEF NoFreedLinked, UniquePrevious, Live
<1>. QED BY <1>1, <1>3, <1>5, <1>6, ReaperStep

-----------------------------------------------------------------------------
\* The invariant, whatever the threads do and in whatever order.
THEOREM Invariance == Spec => []IndInv
<1>1. IndInv /\ [Next]_vars => IndInv'
  <2>. SUFFICES ASSUME IndInv, [Next]_vars PROVE IndInv'
    OBVIOUS
  <2>1. CASE UNCHANGED vars
    BY <2>1 DEF vars, IndInv, TypeOK, ForwardLinks, AdminFirst, NoFreedLinked, NodesInv,
                HandlersInv, Appending, ReaperInv, UniquePrevious, Live
  <2>2. ASSUME NEW h \in Handler, Start(h) \/ End(h) \/ Walk(h) \/ Decide(h)
                                  \/ \E w \in Nick : Ask(h, w)
        PROVE  IndInv'
    BY <2>2, LookUps
  <2>3. ASSUME NEW h \in Handler, Create(h) \/ Append(h) \/ Link(h)
        PROVE  IndInv'
    BY <2>3, Creates, Appends, Links
  <2>4. ASSUME NEW f \in open, Hangup(f) PROVE IndInv'
    BY <2>4, Hangups
  <2>5. CASE Reap
    BY <2>5, Finds, Loads, Stores, Frees, NotFounds DEF Reap
  <2>. QED BY <2>1, <2>2, <2>3, <2>4, <2>5 DEF Next, Register
<1>. QED BY <1>1, InitInv, PTL DEF Spec

\* Every variable has its type.
THEOREM TypeCorrect == Spec => []TypeOK
BY Invariance, PTL DEF IndInv

\* The list never becomes circular: every node points to one linked later.
THEOREM ForwardCorrect == Spec => []ForwardLinks
BY Invariance, PTL DEF IndInv

\* The administrator's node is never unlinked and stays the first.
THEOREM AdminCorrect == Spec => []AdminFirst
BY Invariance, PTL DEF IndInv

\* main() never works on a node it has freed, and no node in use leads to one.
THEOREM NoFreedCorrect == Spec => []NoFreedLinked
BY Invariance, PTL DEF IndInv
=============================================================================
