------------------------- MODULE RegistrationProofs -------------------------
(***************************************************************************)
(* When two clients may have the same nickname, and which nicknames a      *)
(* client leaves behind, proved for every number of handlers and of nodes. *)
(* A look-up meets every node that was listed when it began, whatever      *)
(* main() removes under it, unless an append has cut that node off; and    *)
(* main() meets, pass after pass, what is left to remove.                  *)
(***************************************************************************)
EXTENDS NickListProofs

-----------------------------------------------------------------------------
(***************************************************************************)
(* From, as an operator of the function that it follows, so that a step    *)
(* and the state after it can be compared.                                 *)
(***************************************************************************)
ClosedUnder(nx, S) == \A k \in S : nx[k] # Null => nx[k] \in S
Way(nx, n) ==
    {m \in Node : \A S \in SUBSET Node : {n} \ {Null} \subseteq S /\ ClosedUnder(nx, S) => m \in S}

\* The nodes whose nickname a handler asks for, listed when it began its last
\* look-up and not cut off: the look-up has to meet them.
ToMeet(h) == {m \in Listed \ cut : nick[m] = want[h] /\ linked[m] <= began[h]}

\* They are ahead of a handler that looks, and there are none once it has found
\* the nickname free.
LookInv ==
    \A h \in Handler :
        /\ began[h] <= links
        /\ pc[h] = "new?" => ToMeet(h) \subseteq Way(next, cur[h])
        /\ pc[h] \in {"create", "append", "link"} => ToMeet(h) = {}

\* What main() may link again is listed already, or was cut off.
CleanInv ==
    /\ reaper.at \in {"find", "load"} => Way(next, reaper.temp) \subseteq Way(next, Anchor) \cup cut
    /\ reaper.at = "store" => Way(next, reaper.succ) \subseteq Way(next, Anchor) \cup cut

\* A node that is not in the list may come back to it.
PairInv ==
    /\ \A n \in Node : checked[n] <= links
    /\ \A m \in Listed \ cut : \A n \in Node \ (freed \cup shortened \cup {m, Admin}) :
            linked[n] > 0 /\ nick[m] = nick[n] => linked[m] > checked[n]

\* The node of a handler that appends has the nickname asked for, unless this
\* was cut after its first word.
NameInv ==
    \A h \in Handler : Appending(h) /\ mine[h] \notin shortened => nick[mine[h]] = want[h]

RegInv == IndInv /\ NameInv /\ LookInv /\ CleanInv /\ PairInv

LEMMA FromWay == ASSUME NEW n PROVE From(n) = Way(next, n)
BY DEF From, Way, Closed, ClosedUnder

LEMMA ListedWay ==
    /\ Listed = Way(next, Anchor) \ {Anchor, Admin}
    /\ Listed' = Way(next', Anchor) \ {Anchor, Admin}
BY DEF Listed, Anchor, From, Way, Closed, ClosedUnder

\* A closed set that has the start has the whole way.
LEMMA WayLeast ==
    ASSUME NEW nx, NEW n, NEW S \in SUBSET Node, {n} \ {Null} \subseteq S, ClosedUnder(nx, S)
    PROVE  Way(nx, n) \subseteq S
BY DEF Way

\* A way starts with its start, then goes on from what follows it.
LEMMA WayIs ==
    ASSUME NEW nx \in [Node -> Node \cup {Null}], NEW n \in Node
    PROVE  /\ n \in Way(nx, n) /\ Way(nx, n) \subseteq Node
           /\ ClosedUnder(nx, Way(nx, n))
           /\ Way(nx, n) = {n} \cup Way(nx, nx[n])
<1>1. n \in Way(nx, n) /\ Way(nx, n) \subseteq Node
  BY Nodes DEF Way
<1>2. ASSUME NEW k \in Node \cup {Null} PROVE ClosedUnder(nx, Way(nx, k))
  <2>. SUFFICES ASSUME NEW m \in Way(nx, k), nx[m] # Null PROVE nx[m] \in Way(nx, k)
    BY DEF ClosedUnder
  <2>1. m \in Node /\ nx[m] \in Node
    BY DEF Way
  <2>2. ASSUME NEW S \in SUBSET Node, {k} \ {Null} \subseteq S, ClosedUnder(nx, S)
        PROVE  nx[m] \in S
    <3>1. m \in S
      BY <2>2 DEF Way
    <3>. QED BY <2>2, <3>1 DEF ClosedUnder
  <2>. QED BY <2>1, <2>2 DEF Way
<1>3. Way(nx, nx[n]) \subseteq Way(nx, n)
  <2>1. ClosedUnder(nx, Way(nx, n))
    BY <1>2
  <2>2. {nx[n]} \ {Null} \subseteq Way(nx, n)
    BY <1>1, <2>1 DEF ClosedUnder
  <2>. QED BY <1>1, <2>1, <2>2, WayLeast
<1>4. Way(nx, n) \subseteq {n} \cup Way(nx, nx[n])
  <2>. DEFINE S == {n} \cup Way(nx, nx[n])
  <2>1. S \in SUBSET Node
    BY DEF Way
  <2>2. nx[n] # Null => nx[n] \in Way(nx, nx[n])
    BY DEF Way
  <2>3. ClosedUnder(nx, Way(nx, nx[n]))
    BY <1>2
  <2>4. ClosedUnder(nx, S)
    BY <2>2, <2>3 DEF ClosedUnder
  <2>. QED BY <2>1, <2>4, WayLeast
<1>. QED BY <1>1, <1>2, <1>3, <1>4

LEMMA WayOfNothing == ASSUME NEW nx PROVE Way(nx, Null) = {}
<1>1. ClosedUnder(nx, {})
  BY DEF ClosedUnder
<1>. QED BY <1>1, WayLeast

LEMMA WayWithin ==
    ASSUME NEW nx \in [Node -> Node \cup {Null}], NEW n \in Node \cup {Null}, NEW m \in Way(nx, n)
    PROVE  n \in Node /\ m \in Node /\ Way(nx, m) \subseteq Way(nx, n)
<1>1. n # Null
  BY WayOfNothing
<1>2. m \in Node /\ n \in Node
  BY <1>1 DEF Way
<1>3. ClosedUnder(nx, Way(nx, n)) /\ Way(nx, n) \in SUBSET Node
  BY <1>2, WayIs
<1>. QED BY <1>2, <1>3, WayLeast

\* With another node d after c, one reaches no more than before and d's way,
LEMMA WayGrows ==
    ASSUME NEW nx \in [Node -> Node \cup {Null}], NEW c \in Node, NEW d \in Node \cup {Null},
           NEW n \in Node \cup {Null}
    PROVE  /\ Way([nx EXCEPT ![c] = d], n) \subseteq Way(nx, n) \cup Way(nx, d)
           /\ c \notin Way(nx, n) => Way([nx EXCEPT ![c] = d], n) \subseteq Way(nx, n)
<1>. DEFINE ny == [nx EXCEPT ![c] = d]
<1>1. \A k \in Node : ny[k] = IF k = c THEN d ELSE nx[k]
  OBVIOUS
<1>. HIDE DEF ny
<1>2. ASSUME NEW k \in Node \cup {Null}
      PROVE  /\ Way(nx, k) \in SUBSET Node /\ ClosedUnder(nx, Way(nx, k))
             /\ {k} \ {Null} \subseteq Way(nx, k)
  <2>1. CASE k = Null
    BY <2>1, WayOfNothing DEF ClosedUnder
  <2>2. CASE k # Null
    BY <2>2, WayIs
  <2>. QED BY <2>1, <2>2
<1>3. Way(ny, n) \subseteq Way(nx, n) \cup Way(nx, d)
  <2>1. ClosedUnder(ny, Way(nx, n) \cup Way(nx, d))
    BY <1>1, <1>2 DEF ClosedUnder
  <2>. QED BY <1>2, <2>1, WayLeast
<1>4. ASSUME c \notin Way(nx, n) PROVE Way(ny, n) \subseteq Way(nx, n)
  <2>1. ClosedUnder(ny, Way(nx, n))
    BY <1>1, <1>2, <1>4 DEF ClosedUnder
  <2>. QED BY <1>2, <2>1, WayLeast
<1>. QED BY <1>3, <1>4 DEF ny

\* and as much, but for what is only reached by the former next of c.
LEMMA WayStays ==
    ASSUME NEW nx \in [Node -> Node \cup {Null}], NEW c \in Node, NEW d \in Node \cup {Null},
           NEW n \in Node \cup {Null}, NEW m \in Way(nx, n), m \notin Way(nx, nx[c])
    PROVE  m \in Way([nx EXCEPT ![c] = d], n)
<1>. DEFINE ny == [nx EXCEPT ![c] = d]
<1>1. \A k \in Node : k # c => ny[k] = nx[k]
  OBVIOUS
<1>. HIDE DEF ny
<1>2. Way(nx, nx[c]) \in SUBSET Node /\ ClosedUnder(nx, Way(nx, nx[c]))
      /\ {nx[c]} \ {Null} \subseteq Way(nx, nx[c])
  <2>1. CASE nx[c] = Null
    BY <2>1, WayOfNothing DEF ClosedUnder
  <2>2. CASE nx[c] # Null
    BY <2>2, WayIs
  <2>. QED BY <2>1, <2>2
<1>3. ASSUME NEW S \in SUBSET Node, {n} \ {Null} \subseteq S, ClosedUnder(ny, S)
      PROVE  m \in S
  <2>1. ClosedUnder(nx, S \cup Way(nx, nx[c]))
    BY <1>1, <1>2, <1>3 DEF ClosedUnder
  <2>2. m \in S \cup Way(nx, nx[c])
    BY <1>2, <1>3, <2>1, WayLeast
  <2>. QED BY <2>2
<1>4. m \in Node
  BY DEF Way
<1>. QED BY <1>3, <1>4 DEF Way, ny

\* A way that does not pass c does not depend on what follows it.
LEMMA WayApart ==
    ASSUME NEW nx \in [Node -> Node \cup {Null}], NEW c \in Node, NEW d \in Node \cup {Null},
           NEW n \in Node, c \notin Way(nx, n)
    PROVE  Way(nx, n) \subseteq Way([nx EXCEPT ![c] = d], n)
<1>. DEFINE ny == [nx EXCEPT ![c] = d]
<1>1. \A k \in Node : k # c => ny[k] = nx[k]
  OBVIOUS
<1>. HIDE DEF ny
<1>2. Way(nx, n) \in SUBSET Node /\ ClosedUnder(nx, Way(nx, n)) /\ n \in Way(nx, n)
  BY WayIs
<1>3. ASSUME NEW S \in SUBSET Node, {n} \ {Null} \subseteq S, ClosedUnder(ny, S)
      PROVE  Way(nx, n) \subseteq S
  <2>1. ClosedUnder(nx, S \cap Way(nx, n))
    BY <1>1, <1>2, <1>3 DEF ClosedUnder
  <2>2. Way(nx, n) \subseteq S \cap Way(nx, n)
    BY <1>2, <1>3, <2>1, WayLeast
  <2>. QED BY <2>2
<1>. QED BY <1>2, <1>3 DEF Way, ny

-----------------------------------------------------------------------------
(***************************************************************************)
(* The list.                                                               *)
(***************************************************************************)
LEMMA NextType == ASSUME IndInv PROVE next \in [Node -> Node \cup {Null}]
BY DEF IndInv, TypeOK, Pointer

\* Ways lead to nodes linked later.
LEMMA WayForward ==
    ASSUME IndInv, NEW n \in Node, NEW m \in Way(next, n)
    PROVE  m \in Node /\ (m = n \/ linked[n] < linked[m])
<1>. DEFINE S == {k \in Node : k = n \/ linked[n] < linked[k]}
<1>1. ASSUME NEW k \in S, next[k] # Null PROVE next[k] \in S
  <2>1. next[k] \in Node /\ linked[k] < linked[next[k]]
    BY <1>1, NextType DEF IndInv, ForwardLinks
  <2>2. linked[n] \in Nat /\ linked[k] \in Nat /\ linked[next[k]] \in Nat
    BY <2>1 DEF IndInv, TypeOK
  <2>. QED BY <2>1, <2>2
<1>2. S \in SUBSET Node /\ ClosedUnder(next, S) /\ {n} \ {Null} \subseteq S
  BY <1>1 DEF ClosedUnder
<1>. HIDE DEF S
<1>3. m \in S
  BY <1>2, WayLeast
<1>. QED BY <1>3 DEF S

\* Listed nodes were linked, and none was freed.
LEMMA ListedIs ==
    ASSUME IndInv, NEW m \in Way(next, Anchor)
    PROVE  m \in Node /\ m \notin freed /\ (m # Anchor => linked[m] > 0)
<1>. DEFINE S == {k \in Node \ freed : k # Anchor => linked[k] > 0}
<1>1. Anchor \in S
  BY Nodes DEF IndInv, NodesInv
<1>2. ASSUME NEW k \in S, next[k] # Null PROVE next[k] \in S
  <2>1. next[k] \in Node /\ linked[k] < linked[next[k]] /\ next[k] \notin freed
    BY <1>2, NextType DEF IndInv, ForwardLinks, NoFreedLinked
  <2>2. linked[k] \in Nat /\ linked[next[k]] \in Nat
    BY <2>1 DEF IndInv, TypeOK
  <2>. QED BY <2>1, <2>2
<1>3. S \in SUBSET Node /\ ClosedUnder(next, S) /\ {Anchor} \ {Null} \subseteq S
  BY <1>1, <1>2 DEF ClosedUnder
<1>. HIDE DEF S
<1>4. m \in S
  BY <1>3, WayLeast
<1>. QED BY <1>4 DEF S

\* A node in use that is not listed leads to none that is.
LEMMA Apart ==
    ASSUME IndInv, reaper.at # "free",
           NEW k \in Node \ freed, k \notin Way(next, Anchor)
    PROVE  \A m \in Way(next, k) : m \notin Way(next, Anchor)
<1>. DEFINE R == Way(next, Anchor)
            S == {j \in Node \ freed : j \notin R}
<1>1. R \in SUBSET Node /\ Anchor \in R /\ ClosedUnder(next, R)
  BY Nodes, NextType, WayIs
<1>. HIDE DEF R
<1>2. ASSUME NEW j \in S, next[j] # Null, next[j] \in R PROVE FALSE
  <2>. DEFINE x == next[j]
  <2>1. x \in Node /\ linked[j] < linked[x] /\ linked[j] \in Nat /\ linked[x] \in Nat
    BY <1>2, NextType DEF IndInv, ForwardLinks, TypeOK
  <2>2. x # Anchor
    BY <2>1 DEF IndInv, NodesInv
  <2>3. \E i \in R : next[i] = x
    <3>. SUFFICES ASSUME \A i \in R : next[i] # x PROVE FALSE
      OBVIOUS
    <3>1. ClosedUnder(next, R \ {x})
      BY <1>1 DEF ClosedUnder
    <3>2. R \subseteq R \ {x}
      BY <1>1, <2>2, <3>1, WayLeast DEF R
    <3>. QED BY <1>2, <3>2
  <2>4. PICK i \in R : next[i] = x
    BY <2>3
  <2>5. i \in Live /\ j \in Live
    BY <2>4, ListedIs DEF R, Live
  <2>6. i = j
    BY <1>2, <2>4, <2>5 DEF IndInv, UniquePrevious
  <2>. QED BY <2>4, <2>6
<1>3. S \in SUBSET Node /\ ClosedUnder(next, S)
  <2>1. ASSUME NEW j \in S, next[j] # Null PROVE next[j] \in S
    BY <1>2, <2>1, NextType DEF IndInv, NoFreedLinked
  <2>. QED BY <2>1 DEF ClosedUnder
<1>4. k \in S
  BY DEF R
<1>5. Way(next, k) \subseteq S
  BY <1>3, <1>4, WayLeast
<1>. QED BY <1>5 DEF R

\* Unlinking a node takes nothing listed from the way of a walk that is on its
\* way there, even if it is not in the list itself.
LEMMA Unlinking ==
    ASSUME IndInv, Store, NEW n \in Node, NEW m \in Way(next, n),
           m \in Way(next, Anchor), m \in Way(next', Anchor)
    PROVE  m \in Way(next', n)
<1>. DEFINE p == reaper.prev  s == reaper.succ  t == reaper.temp
<1>1. /\ reaper.at = "store" /\ next' = [next EXCEPT ![p] = s]
      /\ p \in Node /\ p \notin freed /\ s \in Node \cup {Null}
      /\ s # Null => linked[p] < linked[s]
  <2>1. /\ reaper.at = "store" /\ next' = [next EXCEPT ![p] = s]
        /\ p \in Node \cup {Null} /\ s \in Node \cup {Null} /\ t \in Node \cup {Null}
    BY DEF Store, IndInv, TypeOK, Cleanup, Pointer
  <2>2. p # Null /\ t # Null /\ linked[p] < linked[t] /\ p \notin freed
        /\ (s # Null => linked[t] < linked[s])
    BY <2>1 DEF IndInv, ReaperInv, NoFreedLinked
  <2>3. s # Null => linked[p] < linked[s]
    <3>1. \A k \in Node : linked[k] \in Nat
      BY DEF IndInv, TypeOK
    <3>2. linked[p] \in Nat /\ linked[t] \in Nat /\ (s # Null => linked[s] \in Nat)
      BY <2>1, <2>2, <3>1
    <3>. HIDE DEF p, s, t
    <3>. QED BY <2>2, <3>2
  <2>. QED BY <2>1, <2>2, <2>3
<1>. HIDE DEF p, s, t
<1>. DEFINE ny == [next EXCEPT ![p] = s]
<1>2. /\ ny \in [Node -> Node \cup {Null}] /\ ny[p] = s
      /\ \A k \in Node : k # p => ny[k] = next[k]
  BY <1>1, NextType
<1>3. m \in Way(ny, Anchor)
  BY <1>1
<1>. HIDE DEF ny
<1>4. CASE m \notin Way(next, next[p])
  BY <1>1, <1>4, NextType, WayStays DEF ny
<1>5. CASE p \notin Way(next, n)
  BY <1>1, <1>5, NextType, WayApart DEF ny
<1>6. CASE p \in Way(next, n) /\ m \in Way(next, next[p])
  <2>1. linked[p] < linked[m] /\ m \in Way(next, p) /\ m \in Node
    <3>1. next[p] # Null
      BY <1>6, WayOfNothing
    <3>2. next[p] \in Node /\ linked[p] < linked[next[p]]
      BY <1>1, <3>1, NextType DEF IndInv, ForwardLinks
    <3>3. m \in Node /\ (m = next[p] \/ linked[next[p]] < linked[m])
      BY <1>6, <3>2, WayForward
    <3>4. linked[p] \in Nat /\ linked[m] \in Nat /\ linked[next[p]] \in Nat
      BY <1>1, <3>2, <3>3 DEF IndInv, TypeOK
    <3>5. linked[p] < linked[m]
      BY <3>2, <3>3, <3>4
    <3>. QED BY <1>1, <1>6, <3>3, <3>5, NextType, WayIs
  <2>2. p \in Way(next, Anchor)
    BY <1>1, <2>1, Apart
  <2>3. \A k \in Way(next, s) : k \in Node /\ k # p
    <3>1. CASE s = Null
      BY <3>1, WayOfNothing
    <3>2. CASE s # Null
      <4>1. \A k \in Way(next, s) : k \in Node /\ (k = s \/ linked[s] < linked[k])
        BY <1>1, <3>2, WayForward
      <4>2. linked[p] \in Nat /\ linked[s] \in Nat
        BY <1>1, <3>2 DEF IndInv, TypeOK
      <4>. QED BY <1>1, <3>2, <4>1, <4>2
    <3>. QED BY <3>1, <3>2
  <2>4. m \in Way(next, s)
    <3>. DEFINE S == {k \in Node : p \in Way(next, k)} \cup Way(next, s)
    <3>1. ASSUME NEW k \in S, ny[k] # Null PROVE ny[k] \in S
      <4>1. CASE k = p
        BY <1>1, <1>2, <3>1, <4>1, NextType, WayIs
      <4>2. CASE k # p /\ k \in Way(next, s)
        <5>1. ny[k] = next[k] /\ s \in Node
          BY <1>1, <1>2, <2>3, <4>2, WayOfNothing
        <5>2. ClosedUnder(next, Way(next, s))
          BY <5>1, NextType, WayIs
        <5>. QED BY <3>1, <4>2, <5>1, <5>2 DEF ClosedUnder
      <4>3. CASE k # p /\ k \in Node /\ p \in Way(next, k)
        <5>1. p \in Way(next, next[k]) /\ ny[k] = next[k]
          BY <1>2, <4>3, NextType, WayIs
        <5>2. next[k] \in Node
          BY <3>1, <4>3, <5>1, NextType
        <5>. QED BY <5>1, <5>2
      <4>. QED BY <4>1, <4>2, <4>3
    <3>2. S \in SUBSET Node /\ ClosedUnder(ny, S) /\ {Anchor} \ {Null} \subseteq S
      BY <2>2, <2>3, <3>1, Nodes DEF ClosedUnder
    <3>3. m \in S
      BY <1>3, <3>2, WayLeast
    <3>4. p \notin Way(next, m)
      <4>1. p \in Way(next, m) => p = m \/ linked[m] < linked[p]
        BY <2>1, WayForward
      <4>2. linked[p] \in Nat /\ linked[m] \in Nat
        BY <1>1, <2>1 DEF IndInv, TypeOK
      <4>. QED BY <2>1, <4>1, <4>2
    <3>. QED BY <3>3, <3>4
  <2>5. s \in Node
    BY <1>1, <2>4, WayOfNothing
  <2>6. m \in Way(ny, s)
    BY <1>1, <2>3, <2>4, <2>5, NextType, WayApart DEF ny
  <2>7. p \in Way(ny, n)
    <3>1. p \notin Way(next, next[p])
      <4>. SUFFICES ASSUME p \in Way(next, next[p]) PROVE FALSE
        OBVIOUS
      <4>1. next[p] \in Node /\ linked[p] < linked[next[p]]
        BY <1>1, WayOfNothing, NextType DEF IndInv, ForwardLinks
      <4>2. p = next[p] \/ linked[next[p]] < linked[p]
        BY <4>1, WayForward
      <4>3. linked[p] \in Nat /\ linked[next[p]] \in Nat
        BY <1>1, <4>1 DEF IndInv, TypeOK
      <4>. QED BY <4>1, <4>2, <4>3
    <3>. QED BY <1>1, <1>6, <3>1, NextType, WayStays DEF ny
  <2>8. s \in Way(ny, n)
    BY <1>2, <2>5, <2>7, WayIs, Nodes DEF ClosedUnder
  <2>9. Way(ny, s) \subseteq Way(ny, n)
    BY <1>2, <2>8, WayWithin
  <2>. QED BY <1>1, <2>6, <2>9 DEF ny
<1>. QED BY <1>1, <1>4, <1>5, <1>6 DEF ny

-----------------------------------------------------------------------------
(***************************************************************************)
(* The steps.                                                              *)
(***************************************************************************)
LEMMA ListedNodes ==
    ASSUME IndInv, NEW m \in Listed
    PROVE  /\ m \in Node \ freed /\ m # Anchor /\ m # Admin /\ linked[m] > 0
           /\ m \in Way(next, Anchor)
BY ListedWay, ListedIs

\* While the links are the same, so is all that is listed and ahead.
LEMMA SameLinks ==
    ASSUME next' = next
    PROVE  Listed' = Listed
BY ListedWay

\* Only Create writes a node's nickname before it is linked.
LEMMA NameKept == ASSUME IndInv, NameInv, Next PROVE NameInv'
<1>1. ASSUME NEW h \in Handler, Create(h) PROVE NameInv'
  <2>1. /\ nick' = [nick EXCEPT ![used + 1] = Stored(want[h])] /\ want' = want
        /\ shortened' = IF Stored(want[h]) = want[h] THEN shortened ELSE shortened \cup {used + 1}
        /\ mine' = [mine EXCEPT ![h] = used + 1] /\ used < MaxNode
        /\ \A g \in Handler : g # h => pc'[g] = pc[g]
    BY <1>1 DEF Create, Goto, IndInv, TypeOK
  <2>2. used \in Nat /\ used + 1 \in Node
    BY <2>1, NickListAssumption DEF IndInv, TypeOK, Node
  <2>3. ASSUME NEW g \in Handler, Appending(g)', mine'[g] \notin shortened'
        PROVE  nick'[mine'[g]] = want'[g]
    <3>1. CASE g = h
      BY <2>3, <2>1, <2>2, <3>1 DEF IndInv, TypeOK
    <3>2. CASE g # h
      <4>1. Appending(g) /\ mine'[g] = mine[g] /\ mine[g] \notin shortened
        BY <2>1, <2>3, <3>2 DEF Appending, IndInv, TypeOK
      <4>2. mine[g] \in Node /\ mine[g] <= used
        BY <4>1 DEF IndInv, HandlersInv
      <4>3. mine[g] # used + 1
        BY <2>2, <4>2, Nodes
      <4>. QED BY <2>1, <4>1, <4>2, <4>3 DEF NameInv, IndInv, TypeOK
    <3>. QED BY <3>1, <3>2
  <2>. QED BY <2>3 DEF NameInv
<1>2. CASE Free
  <2>1. /\ nick' = [nick EXCEPT ![reaper.temp] = Junk] /\ UNCHANGED <<pc, want, mine, shortened>>
        /\ reaper.at = "free"
    BY <1>2 DEF Free, history
  <2>2. reaper.temp \in Node /\ linked[reaper.temp] > 0
    <3>1. /\ reaper.temp \in Node /\ reaper.prev \in Node
          /\ linked[reaper.prev] < linked[reaper.temp]
      BY <2>1 DEF IndInv, TypeOK, ReaperInv, Cleanup, Pointer
    <3>2. linked[reaper.temp] \in Nat /\ linked[reaper.prev] \in Nat
      BY <3>1 DEF IndInv, TypeOK
    <3>. QED BY <3>1, <3>2
  <2>3. ASSUME NEW g \in Handler, Appending(g), mine[g] \notin shortened
        PROVE  nick'[mine[g]] = want[g]
    <3>1. mine[g] \in Node /\ mine[g] # reaper.temp
      BY <2>2, <2>3 DEF IndInv, HandlersInv
    <3>. QED BY <2>1, <2>3, <3>1 DEF NameInv, IndInv, TypeOK
  <2>. QED BY <2>1, <2>3 DEF NameInv, Appending
<1>3. ASSUME NEW h \in Handler, Append(h) PROVE NameInv'
  BY <1>3 DEF Append, At, Goto, NameInv, Appending, memory, history, IndInv, TypeOK
<1>4. ASSUME NEW h \in Handler,
             Start(h) \/ End(h) \/ Walk(h) \/ Decide(h) \/ Link(h) \/ \E w \in Nick : Ask(h, w)
      PROVE  NameInv'
  <2>1. nick' = nick /\ shortened' = shortened /\ \A g \in Handler : g # h =>
            pc'[g] = pc[g] /\ mine'[g] = mine[g] /\ want'[g] = want[g]
    BY <1>4 DEF Start, End, Walk, Decide, Link, Ask, Goto, memory, history, IndInv, TypeOK
  <2>2. ~ Appending(h)' \/ UNCHANGED <<pc, mine, want>>
    BY <1>4 DEF Start, End, Walk, Decide, Link, Ask, Looking, Checks, Goto, Appending, IndInv, TypeOK
  <2>. QED BY <2>1, <2>2 DEF NameInv, Appending
<1>5. CASE Find \/ Load \/ Store \/ NotFound \/ \E f \in open : Hangup(f)
  BY <1>5 DEF Find, Load, Store, NotFound, Hangup, NameInv, Appending, memory, handlers, history
<1>. QED BY <1>1, <1>2, <1>3, <1>4, <1>5 DEF Next, Register, Reap

\* A step of one handler that changes nothing of the list.
LEMMA OneHandler ==
    ASSUME RegInv, NEW h \in Handler, IndInv', NameInv',
           UNCHANGED <<next, nick, freed, links, linked, checked, cut, shortened, reaper>>,
           \A g \in Handler : g # h =>
               pc'[g] = pc[g] /\ cur'[g] = cur[g] /\ want'[g] = want[g] /\ began'[g] = began[g],
           began'[h] <= links,
           pc'[h] = "new?" => ToMeet(h)' \subseteq Way(next, cur'[h]),
           pc'[h] \in {"create", "append", "link"} => ToMeet(h)' = {}
    PROVE  RegInv'
<1>1. Listed' = Listed
  BY SameLinks
<1>2. CleanInv' /\ PairInv'
  BY <1>1 DEF RegInv, CleanInv, PairInv
<1>3. LookInv'
  <2>1. ASSUME NEW g \in Handler
        PROVE  /\ began'[g] <= links'
               /\ pc'[g] = "new?" => ToMeet(g)' \subseteq Way(next', cur'[g])
               /\ pc'[g] \in {"create", "append", "link"} => ToMeet(g)' = {}
    <3>1. CASE g = h
      BY <3>1
    <3>2. CASE g # h
      <4>1. ToMeet(g)' = ToMeet(g)
        BY <1>1, <3>2 DEF ToMeet
      <4>. QED BY <3>2, <4>1 DEF RegInv, LookInv
    <3>. QED BY <3>1, <3>2
  <2>. QED BY <2>1 DEF LookInv
<1>. QED BY <1>2, <1>3 DEF RegInv

\* A handler that has begun to look starts where all that it has to meet is
\* ahead, and passes a node only if it has another nickname.
LEMMA LookUpsMeet ==
    ASSUME RegInv, NEW h \in Handler, IndInv', NameInv',
           Start(h) \/ End(h) \/ Walk(h) \/ Decide(h) \/ \E w \in Nick : Ask(h, w)
    PROVE  RegInv'
<1>1. UNCHANGED <<next, nick, freed, links, linked, checked, cut, shortened, reaper>>
  BY DEF Start, End, Walk, Decide, Ask, memory, history
<1>2. Listed' = Listed
  BY <1>1, SameLinks
<1>3. /\ pc \in [Handler -> Checks \cup {"recv", "create", "append", "link"}]
      /\ cur \in [Handler -> Node \cup {Null}] /\ want \in [Handler -> Nick \cup {Junk}]
      /\ began \in [Handler -> Nat] /\ links \in Nat
  BY DEF RegInv, IndInv, TypeOK, Pointer
<1>4. /\ began[h] <= links
      /\ pc[h] = "new?" => ToMeet(h) \subseteq Way(next, cur[h])
      /\ pc[h] \in {"create", "append", "link"} => ToMeet(h) = {}
  BY DEF RegInv, LookInv
<1>5. CASE Start(h) \/ End(h)
  <2>1. UNCHANGED <<pc, cur, want, began>>
    BY <1>5 DEF Start, End, history
  <2>2. ToMeet(h)' = ToMeet(h)
    BY <1>1, <1>2, <2>1 DEF ToMeet
  <2>. QED BY <1>1, <1>4, <2>1, <2>2, OneHandler
<1>6. ASSUME NEW w \in Nick, Ask(h, w) PROVE RegInv'
  <2>1. /\ want' = [want EXCEPT ![h] = w] /\ pc' = [pc EXCEPT ![h] = "mine?"]
        /\ cur' = [cur EXCEPT ![h] = next[Anchor]] /\ began' = began
    BY <1>6 DEF Ask, Goto, history
  <2>2. pc'[h] = "mine?"
    BY <1>3, <2>1
  <2>3. \A g \in Handler : g # h =>
               pc'[g] = pc[g] /\ cur'[g] = cur[g] /\ want'[g] = want[g] /\ began'[g] = began[g]
    BY <1>3, <2>1
  <2>. QED BY <1>1, <1>4, <2>1, <2>2, <2>3, OneHandler
<1>7. CASE Walk(h)
  <2>1. /\ cur' = [cur EXCEPT ![h] = next[cur[h]]] /\ UNCHANGED <<pc, want, began>>
        /\ pc[h] \in Checks /\ cur[h] # Null /\ nick[cur[h]] # want[h]
    BY <1>7 DEF Walk, Looking, Match, history
  <2>2. cur[h] \in Node /\ cur'[h] = next[cur[h]]
        /\ pc[h] # "recv" /\ pc[h] \notin {"create", "append", "link"}
    BY <1>3, <2>1 DEF Checks
  <2>3. pc[h] = "new?" => ToMeet(h)' \subseteq Way(next, cur'[h])
    <3>. SUFFICES ASSUME pc[h] = "new?", NEW m \in ToMeet(h)' PROVE m \in Way(next, cur'[h])
      OBVIOUS
    <3>1. ToMeet(h)' = ToMeet(h)
      BY <1>1, <1>2, <2>1 DEF ToMeet
    <3>2. m \in Way(next, cur[h]) /\ nick[m] = want[h]
      BY <1>4, <3>1 DEF ToMeet
    <3>3. m # cur[h]
      BY <2>1, <3>2
    <3>. QED BY <2>2, <3>2, <3>3, WayIs, NextType DEF RegInv
  <2>4. \A g \in Handler : g # h => cur'[g] = cur[g]
    BY <1>3, <2>1
  <2>. QED BY <1>1, <1>4, <2>1, <2>2, <2>3, <2>4, OneHandler
<1>8. CASE Decide(h)
  <2>1. /\ want' = want /\ (cur[h] = Null \/ Match(h))
        /\ pc[h] \in Checks
    BY <1>8 DEF Decide, Looking
  <2>2. \E p, n : /\ pc' = [pc EXCEPT ![h] = p] /\ cur' = [cur EXCEPT ![h] = n]
                  /\ p \in {"recv", "taken?", "new?", "create"}
                  /\ p = "new?" => n = next[Anchor]
                  /\ p = "create" => pc[h] = "new?" /\ ~ Match(h)
    <3>1. CASE pc[h] = "mine?"
      BY <1>8, <3>1 DEF Decide, Goto
    <3>2. CASE pc[h] = "taken?"
      BY <1>8, <3>2 DEF Decide, Goto
    <3>3. CASE pc[h] = "new?"
      BY <1>8, <3>3 DEF Decide, Goto
    <3>. QED BY <2>1, <3>1, <3>2, <3>3 DEF Checks
  <2>3. PICK p, n : /\ pc' = [pc EXCEPT ![h] = p] /\ cur' = [cur EXCEPT ![h] = n]
                    /\ p \in {"recv", "taken?", "new?", "create"}
                    /\ p = "new?" => n = next[Anchor]
                    /\ p = "create" => pc[h] = "new?" /\ ~ Match(h)
    BY <2>2
  <2>4. pc'[h] = p /\ cur'[h] = n /\ \A g \in Handler : g # h => pc'[g] = pc[g] /\ cur'[g] = cur[g]
    BY <1>3, <2>3
  <2>5. began' = IF p = "new?" THEN [began EXCEPT ![h] = links] ELSE began
    BY <1>8, <2>4 DEF Decide
  <2>6. /\ began'[h] <= links /\ \A g \in Handler : g # h => began'[g] = began[g]
        /\ p # "new?" => began'[h] = began[h]
    BY <1>3, <1>4, <2>5
  <2>7. p = "new?" => ToMeet(h)' \subseteq Way(next, n)
    <3>. SUFFICES ASSUME p = "new?", NEW m \in ToMeet(h)' PROVE m \in Way(next, next[Anchor])
      BY <2>3
    <3>1. m \in Listed
      BY <1>2 DEF ToMeet
    <3>2. m \in Way(next, Anchor) /\ m # Anchor
      BY <3>1, ListedNodes DEF RegInv
    <3>. QED BY <3>2, WayIs, NextType, Nodes DEF RegInv
  <2>8. p = "create" => ToMeet(h)' = {}
    <3>. SUFFICES ASSUME p = "create" PROVE ToMeet(h)' = {}
      OBVIOUS
    <3>1. cur[h] = Null /\ pc[h] = "new?"
      BY <2>1, <2>3
    <3>2. ToMeet(h) = {}
      BY <1>4, <3>1, WayOfNothing
    <3>3. ToMeet(h)' = ToMeet(h)
      BY <1>1, <1>2, <2>1, <2>6 DEF ToMeet
    <3>. QED BY <3>2, <3>3
  <2>. QED BY <1>1, <2>1, <2>3, <2>4, <2>6, <2>7, <2>8, OneHandler
<1>. QED BY <1>5, <1>6, <1>7, <1>8

LEMMA AppendsMeet ==
    ASSUME RegInv, NEW h \in Handler, IndInv', NameInv', Append(h)
    PROVE  RegInv'
<1>1. UNCHANGED <<next, nick, freed, links, linked, checked, cut, shortened, reaper, want, began>>
  BY DEF Append, memory, history
<1>2. /\ pc[h] = "append" /\ pc'[h] \in {"append", "link"}
      /\ \A g \in Handler : g # h => pc'[g] = pc[g] /\ cur'[g] = cur[g]
  BY DEF Append, At, Goto, RegInv, IndInv, TypeOK
<1>3. ToMeet(h)' = ToMeet(h)
  BY <1>1, SameLinks DEF ToMeet
<1>. QED BY <1>1, <1>2, <1>3, OneHandler DEF RegInv, LookInv

\* A new node is not linked: it is neither met nor a duplicate yet.
LEMMA CreatesMeet ==
    ASSUME RegInv, NEW h \in Handler, IndInv', NameInv', Create(h)
    PROVE  RegInv'
<1>1. /\ UNCHANGED <<next, freed, links, linked, checked, cut, reaper, want, began>>
      /\ nick' = [nick EXCEPT ![used + 1] = Stored(want[h])] /\ used < MaxNode
      /\ shortened \subseteq shortened'
  BY DEF Create
<1>2. /\ pc[h] = "create" /\ pc'[h] = "append"
      /\ \A g \in Handler : g # h => pc'[g] = pc[g] /\ cur'[g] = cur[g]
  BY DEF Create, At, Goto, RegInv, IndInv, TypeOK
<1>3. linked[used + 1] = 0
  BY <1>1, NickListAssumption DEF RegInv, IndInv, TypeOK, NodesInv, Node
<1>4. \A n \in Node : linked[n] > 0 => nick'[n] = nick[n]
  BY <1>1, <1>3 DEF RegInv, IndInv, TypeOK
<1>5. Listed' = Listed /\ \A m \in Listed : nick'[m] = nick[m]
  BY <1>1, <1>4, SameLinks, ListedNodes DEF RegInv
<1>6. \A g \in Handler : ToMeet(g)' = ToMeet(g)
  BY <1>1, <1>5 DEF ToMeet
<1>7. CleanInv'
  BY <1>1 DEF RegInv, CleanInv
<1>8. PairInv'
  BY <1>1, <1>4, <1>5 DEF RegInv, PairInv
<1>9. LookInv'
  <2>1. ASSUME NEW g \in Handler
        PROVE  /\ began'[g] <= links'
               /\ pc'[g] = "new?" => ToMeet(g)' \subseteq Way(next', cur'[g])
               /\ pc'[g] \in {"create", "append", "link"} => ToMeet(g)' = {}
    BY <1>1, <1>2, <1>6 DEF RegInv, LookInv
  <2>. QED BY <2>1 DEF LookInv
<1>. QED BY <1>7, <1>8, <1>9 DEF RegInv

\* Linking a node after another: what was reached and is not cut off still is,
\* and the new node is, or is cut off itself.
LEMMA LinksMeet ==
    ASSUME RegInv, NEW h \in Handler, IndInv', NameInv', Link(h)
    PROVE  RegInv'
<1>. DEFINE n == mine[h]  c == cur[h]  R == Way(next, Anchor)
<1>1. /\ n \in Node /\ n # Anchor /\ n # Admin /\ n # c /\ linked[n] = 0 /\ next[n] = Null
      /\ c \in Node /\ c # Anchor /\ linked[c] > 0 /\ (n \notin shortened => nick[n] = want[h])
  BY DEF Link, At, RegInv, IndInv, HandlersInv, Appending, NodesInv, NameInv
<1>2. /\ next' = [next EXCEPT ![c] = n] /\ links' = links + 1
      /\ linked' = [linked EXCEPT ![n] = links + 1] /\ checked' = [checked EXCEPT ![n] = began[h]]
      /\ cut' = cut \cup Way(next, next[c]) \cup (IF c \in R THEN {} ELSE {n})
      /\ UNCHANGED <<nick, freed, shortened, reaper, want, began>>
  BY FromWay DEF Link, CutOff
<1>3. /\ pc[h] = "link" /\ pc'[h] = "recv"
      /\ \A g \in Handler : g # h => pc'[g] = pc[g] /\ cur'[g] = cur[g]
  BY DEF Link, At, Goto, RegInv, IndInv, TypeOK
<1>4. /\ next'[c] = n /\ next' \in [Node -> Node \cup {Null}] /\ next \in [Node -> Node \cup {Null}]
      /\ links \in Nat /\ linked \in [Node -> Nat] /\ checked \in [Node -> Nat]
      /\ began \in [Handler -> Nat] /\ \A x \in Node : linked[x] <= links
      /\ linked'[n] = links + 1 /\ \A x \in Node : x # n => linked'[x] = linked[x]
      /\ checked'[n] = began[h] /\ \A x \in Node : x # n => checked'[x] = checked[x]
  BY <1>1, <1>2, NextType DEF RegInv, IndInv, TypeOK, NodesInv
<1>. HIDE DEF n, c, R
<1>5. ASSUME NEW k \in Node \cup {Null} PROVE Way(next', k) \subseteq Way(next, k) \cup {n}
  <2>1. Way(next, n) = {n}
    BY <1>1, <1>4, WayIs, WayOfNothing
  <2>. QED BY <1>1, <1>2, <1>4, <2>1, WayGrows
<1>6. ASSUME NEW k \in Node \cup {Null}, NEW m \in Way(next, k), m \notin cut'
      PROVE  m \in Way(next', k)
  BY <1>1, <1>2, <1>4, <1>6, WayStays
<1>7. n \in Way(next', Anchor) \cup cut'
  <2>1. CASE c \in R
    <3>1. c \notin Way(next, next[c])
      <4>. SUFFICES ASSUME c \in Way(next, next[c]) PROVE FALSE
        OBVIOUS
      <4>1. next[c] \in Node
        BY <1>1, <1>4, WayOfNothing
      <4>2. linked[c] < linked[next[c]]
        BY <1>1, <4>1, Nodes DEF RegInv, IndInv, ForwardLinks
      <4>3. c = next[c] \/ linked[next[c]] < linked[c]
        BY <4>1, WayForward DEF RegInv
      <4>4. linked[c] \in Nat /\ linked[next[c]] \in Nat
        BY <1>1, <1>4, <4>1
      <4>. QED BY <4>2, <4>3, <4>4
    <3>2. c \in Way(next', Anchor)
      BY <1>1, <1>2, <1>4, <2>1, <3>1, WayStays, Nodes DEF R
    <3>. QED BY <1>1, <1>4, <3>2, WayIs, Nodes DEF ClosedUnder
  <2>2. CASE c \notin R
    BY <1>2, <2>2
  <2>. QED BY <2>1, <2>2
<1>8. ASSUME NEW k \in Node \cup {Null}, Way(next, k) \subseteq Way(next, Anchor) \cup cut
      PROVE  Way(next', k) \subseteq Way(next', Anchor) \cup cut'
  <2>. SUFFICES ASSUME NEW m \in Way(next', k), m \notin cut' PROVE m \in Way(next', Anchor)
    OBVIOUS
  <2>1. CASE m = n
    BY <1>7, <2>1
  <2>2. CASE m # n
    <3>1. m \in Way(next, Anchor)
      BY <1>2, <1>5, <1>8, <2>2
    <3>. QED BY <1>6, <3>1, Nodes
  <2>. QED BY <2>1, <2>2
<1>9. CleanInv'
  <2>1. reaper.temp \in Node \cup {Null} /\ reaper.succ \in Node \cup {Null}
    BY DEF RegInv, IndInv, TypeOK, Cleanup, Pointer
  <2>2. reaper.at \in {"find", "load"} => Way(next', reaper.temp) \subseteq Way(next', Anchor) \cup cut'
    BY <1>8, <2>1 DEF RegInv, CleanInv
  <2>3. reaper.at = "store" => Way(next', reaper.succ) \subseteq Way(next', Anchor) \cup cut'
    BY <1>8, <2>1 DEF RegInv, CleanInv
  <2>. QED BY <1>2, <2>2, <2>3 DEF CleanInv
<1>10. ASSUME NEW m \in Listed' \ cut', m # n PROVE m \in Listed \ cut /\ m \in Node
  <2>1. m \in Way(next', Anchor) /\ m # Anchor /\ m # Admin
    BY ListedWay
  <2>2. m \in Way(next, Anchor)
    BY <1>5, <1>10, <2>1, Nodes
  <2>3. m \in Listed
    BY <2>1, <2>2, ListedWay
  <2>. QED BY <1>2, <2>2, <2>3, ListedIs DEF RegInv
<1>11. PairInv'
  <2>1. ASSUME NEW x \in Node PROVE checked'[x] <= links'
    <3>1. CASE x = n
      BY <1>2, <1>4, <3>1 DEF RegInv, LookInv
    <3>2. CASE x # n
      BY <1>2, <1>4, <3>2 DEF RegInv, PairInv
    <3>. QED BY <3>1, <3>2
  <2>2. ASSUME NEW m \in Listed' \ cut', NEW x \in Node \ (freed \cup shortened \cup {m, Admin}),
               linked'[x] > 0, nick[m] = nick[x]
        PROVE  linked'[m] > checked'[x]
    <3>1. CASE m = n
      <4>1. checked'[x] = checked[x] /\ checked[x] <= links /\ checked[x] \in Nat
        BY <1>4, <3>1 DEF RegInv, PairInv
      <4>. QED BY <1>4, <3>1, <4>1
    <3>2. CASE m # n /\ x = n
      <4>1. m \in Listed \ cut /\ linked'[m] = linked[m] /\ m \in Node
        BY <1>4, <1>10, <3>2
      <4>2. m \notin ToMeet(h)
        BY <1>3 DEF RegInv, LookInv
      <4>3. ~ (linked[m] <= began[h])
        BY <1>1, <2>2, <3>2, <4>1, <4>2 DEF ToMeet
      <4>. QED BY <1>4, <3>2, <4>1, <4>3
    <3>3. CASE m # n /\ x # n
      <4>1. m \in Listed \ cut /\ linked'[m] = linked[m] /\ linked'[x] = linked[x]
            /\ checked'[x] = checked[x]
        BY <1>4, <1>10, <3>3
      <4>. QED BY <2>2, <4>1 DEF RegInv, PairInv
    <3>. QED BY <3>1, <3>2, <3>3
  <2>. QED BY <1>2, <2>1, <2>2 DEF PairInv
<1>12. LookInv'
  <2>1. ASSUME NEW g \in Handler
        PROVE  /\ began'[g] <= links'
               /\ pc'[g] = "new?" => ToMeet(g)' \subseteq Way(next', cur'[g])
               /\ pc'[g] \in {"create", "append", "link"} => ToMeet(g)' = {}
    <3>1. began[g] <= links /\ began[g] \in Nat
      BY <1>4 DEF RegInv, LookInv
    <3>2. began'[g] <= links'
      BY <1>2, <1>4, <3>1
    <3>3. CASE g = h
      BY <1>3, <3>2, <3>3
    <3>4. CASE g # h
      <4>1. pc'[g] = pc[g] /\ cur'[g] = cur[g] /\ cur[g] \in Node \cup {Null}
        BY <1>3, <3>4 DEF RegInv, IndInv, TypeOK, Pointer
      <4>2. ASSUME NEW m \in ToMeet(g)' PROVE m \in ToMeet(g)
        <5>1. m \in Listed' \ cut' /\ nick[m] = want[g] /\ linked'[m] <= began[g]
          BY <1>2 DEF ToMeet
        <5>2. m # n
          BY <1>4, <3>1, <5>1
        <5>3. m \in Listed \ cut /\ linked'[m] = linked[m]
          BY <1>4, <1>10, <5>1, <5>2
        <5>. QED BY <5>1, <5>3 DEF ToMeet
      <4>3. ASSUME pc[g] = "new?", NEW m \in ToMeet(g)' PROVE m \in Way(next', cur[g])
        <5>1. m \in Way(next, cur[g])
          BY <4>2, <4>3 DEF RegInv, LookInv
        <5>2. m \notin cut'
          BY DEF ToMeet
        <5>. QED BY <1>6, <4>1, <5>1, <5>2
      <4>4. pc[g] \in {"create", "append", "link"} => ToMeet(g) = {}
        BY DEF RegInv, LookInv
      <4>. QED BY <1>2, <3>2, <4>1, <4>2, <4>3, <4>4
    <3>. QED BY <3>3, <3>4
  <2>. QED BY <2>1 DEF LookInv
<1>. QED BY <1>9, <1>11, <1>12 DEF RegInv

\* main() moves without changing the list.
LEMMA ReaperMeets ==
    ASSUME RegInv, IndInv', NameInv', CleanInv',
           UNCHANGED <<next, nick, freed, links, linked, checked, cut, shortened, pc, cur, want, began>>
    PROVE  RegInv'
<1>1. Listed' = Listed
  BY SameLinks
<1>2. PairInv'
  BY <1>1 DEF RegInv, PairInv
<1>3. \A g \in Handler : ToMeet(g)' = ToMeet(g)
  BY <1>1 DEF ToMeet
<1>4. LookInv'
  BY <1>3 DEF RegInv, LookInv
<1>. QED BY <1>2, <1>4 DEF RegInv

LEMMA PassMeets ==
    ASSUME \/ reaper' = Idle
           \/ \E f \in Nat, k \in Nat, s \in Nat, d \in Nat : reaper' = PassOver(f, k, s, d)
    PROVE  CleanInv'
<1>1. CASE reaper' = Idle
  BY <1>1 DEF Idle, CleanInv
<1>2. ASSUME NEW f \in Nat, NEW k \in Nat, NEW s \in Nat, NEW d \in Nat,
             reaper' = PassOver(f, k, s, d)
      PROVE  CleanInv'
  <2>1. reaper'.at = "find" /\ reaper'.temp = Anchor
    BY <1>2 DEF Idle, PassOver
  <2>. QED BY <2>1 DEF CleanInv
<1>. QED BY <1>1, <1>2

\* main() sets out, looks for a node to remove, and finds what follows it.
LEMMA FindsMeet ==
    ASSUME RegInv, IndInv', NameInv', Find \/ Load \/ NotFound \/ \E f \in open : Hangup(f)
    PROVE  RegInv'
<1>1. UNCHANGED <<next, nick, freed, links, linked, checked, cut, shortened, pc, cur, want, began>>
  BY DEF Find, Load, NotFound, Hangup, memory, handlers, history
<1>2. reaper \in Cleanup /\ next \in [Node -> Node \cup {Null}]
  BY NextType DEF RegInv, IndInv, TypeOK
<1>3. ASSUME NEW f \in open, Hangup(f) PROVE CleanInv'
  <2>1. reaper'.at = "find" /\ reaper'.temp = Anchor
    BY <1>3 DEF Hangup, Removal, PassOver, Idle
  <2>. QED BY <2>1 DEF CleanInv
<1>4. ASSUME NotFound PROVE CleanInv'
  <2>1. reaper.at # "idle" /\ EndOfPass
    BY <1>4 DEF NotFound
  <2>2. \/ reaper' = Idle
        \/ \E f \in Nat, k \in Nat, s \in Nat, d \in Nat : reaper' = PassOver(f, k, s, d)
    BY <2>1, Ends DEF RegInv
  <2>. QED BY <2>2, PassMeets
<1>5. ASSUME Find \/ Load PROVE CleanInv'
  <2>1. reaper.temp \in Node
    <3>1. reaper.temp # Null
      BY <1>5 DEF Find, Load, RegInv, IndInv, ReaperInv
    <3>. QED BY <1>2, <3>1 DEF Cleanup, Pointer
  <2>2. /\ Way(next, next[reaper.temp]) \subseteq Way(next, reaper.temp)
        /\ Way(next, reaper.temp) \subseteq Way(next, Anchor) \cup cut
    BY <1>2, <1>5, <2>1, WayIs DEF Find, Load, RegInv, CleanInv
  <2>3. CASE Find
    <3>1. reaper'.at # "store" /\ reaper'.temp \in {reaper.temp, next[reaper.temp]}
      BY <1>2, <2>3 DEF Find, Cleanup
    <3>2. Way(next, reaper'.temp) \subseteq Way(next, Anchor) \cup cut
      BY <2>2, <3>1
    <3>. QED BY <1>1, <3>1, <3>2 DEF CleanInv
  <2>4. CASE Load
    <3>1. reaper'.at = "store" /\ reaper'.succ = next[reaper.temp]
      BY <1>2, <2>4 DEF Load, Cleanup
    <3>2. Way(next, reaper'.succ) \subseteq Way(next, Anchor) \cup cut
      BY <2>2, <3>1
    <3>. QED BY <1>1, <3>1, <3>2 DEF CleanInv
  <2>. QED BY <1>5, <2>3, <2>4
<1>. QED BY <1>1, <1>3, <1>4, <1>5, ReaperMeets

\* Nothing comes back to the list that was not cut off, and nothing that stays
\* is lost to a walk.
LEMMA StoresMeet ==
    ASSUME RegInv, IndInv', NameInv', Store
    PROVE  RegInv'
<1>1. /\ UNCHANGED <<nick, freed, links, linked, checked, cut, shortened, pc, cur, want, began>>
      /\ reaper.at = "store" /\ next' = [next EXCEPT ![reaper.prev] = reaper.succ]
      /\ reaper'.at = "free"
  BY DEF Store, handlers, history, RegInv, IndInv, TypeOK, Cleanup
<1>2. /\ reaper.prev \in Node /\ reaper.succ \in Node \cup {Null}
      /\ next \in [Node -> Node \cup {Null}]
  <2>1. reaper.prev # Null
    BY <1>1 DEF RegInv, IndInv, ReaperInv
  <2>. QED BY <2>1, NextType DEF RegInv, IndInv, TypeOK, Cleanup, Pointer
<1>3. ASSUME NEW m \in Listed' \ cut PROVE m \in Listed
  <2>1. m \in Way(next', Anchor) /\ m # Anchor /\ m # Admin
    BY ListedWay
  <2>2. m \in Way(next, Anchor) \cup Way(next, reaper.succ)
    BY <1>1, <1>2, <2>1, WayGrows, Nodes
  <2>3. m \in Way(next, Anchor)
    BY <1>1, <1>3, <2>2 DEF RegInv, CleanInv
  <2>. QED BY <2>1, <2>3, ListedWay
<1>4. CleanInv'
  BY <1>1 DEF CleanInv
<1>5. PairInv'
  BY <1>1, <1>3 DEF RegInv, PairInv
<1>6. LookInv'
  <2>1. ASSUME NEW g \in Handler
        PROVE  /\ began'[g] <= links'
               /\ pc'[g] = "new?" => ToMeet(g)' \subseteq Way(next', cur'[g])
               /\ pc'[g] \in {"create", "append", "link"} => ToMeet(g)' = {}
    <3>1. ASSUME NEW m \in ToMeet(g)' PROVE m \in ToMeet(g)
      BY <1>1, <1>3, <3>1 DEF ToMeet
    <3>2. ASSUME pc[g] = "new?", NEW m \in ToMeet(g)' PROVE m \in Way(next', cur[g])
      <4>1. m \in ToMeet(g) /\ m \in Way(next, cur[g])
        BY <3>1, <3>2 DEF RegInv, LookInv
      <4>2. cur[g] \in Node
        BY <1>2, <4>1, WayWithin DEF RegInv, IndInv, TypeOK, Pointer
      <4>3. m \in Way(next, Anchor) /\ m \in Way(next', Anchor)
        BY <4>1, ListedWay DEF ToMeet
      <4>. QED BY <4>1, <4>2, <4>3, Unlinking DEF RegInv
    <3>. QED BY <1>1, <3>1, <3>2 DEF RegInv, LookInv
  <2>. QED BY <2>1 DEF LookInv
<1>. QED BY <1>4, <1>5, <1>6 DEF RegInv

\* The node that main() gives back is unlinked.
LEMMA GivenBack ==
    ASSUME IndInv, reaper.at = "free"
    PROVE  reaper.temp \in Node /\ reaper.temp # Anchor /\ reaper.temp \notin Way(next, Anchor)
<1>. DEFINE t == reaper.temp  R == Way(next, Anchor)
<1>1. t \in Node /\ t # Anchor /\ \A q \in Node \ freed : next[q] # t
  <2>1. /\ t \in Node /\ reaper.prev \in Node /\ linked[reaper.prev] < linked[t]
        /\ \A q \in Node \ freed : next[q] # t
    BY DEF IndInv, ReaperInv, TypeOK, Cleanup, Pointer
  <2>2. linked[reaper.prev] \in Nat /\ linked[t] \in Nat
    BY <2>1 DEF IndInv, TypeOK
  <2>3. linked[t] # 0
    BY <2>1, <2>2
  <2>. QED BY <2>1, <2>3 DEF IndInv, NodesInv
<1>2. t \notin R
  <2>1. R \in SUBSET Node /\ Anchor \in R /\ ClosedUnder(next, R)
    BY Nodes, NextType, WayIs
  <2>2. \A k \in R : k \notin freed
    BY ListedIs
  <2>. HIDE DEF R, t
  <2>3. ClosedUnder(next, R \ {t})
    BY <1>1, <2>1, <2>2 DEF ClosedUnder
  <2>4. {Anchor} \ {Null} \subseteq R \ {t}
    BY <1>1, <2>1
  <2>5. R \subseteq R \ {t}
    BY <2>1, <2>3, <2>4, WayLeast DEF R
  <2>. QED BY <2>5
<1>. QED BY <1>1, <1>2

\* The node given back is not listed.
LEMMA FreesMeet ==
    ASSUME RegInv, IndInv', NameInv', Free
    PROVE  RegInv'
<1>. DEFINE t == reaper.temp  R == Way(next, Anchor)
<1>1. /\ UNCHANGED <<next, links, linked, checked, cut, shortened, pc, cur, want, began>>
      /\ nick' = [nick EXCEPT ![t] = Junk] /\ freed' = freed \cup {t}
      /\ reaper.at = "free" /\ EndOfPass
  BY DEF Free, history
<1>3. t \notin R
  BY <1>1, GivenBack DEF RegInv
<1>4. Listed' = Listed /\ \A m \in Listed : m # t /\ m \in Node
  BY <1>1, <1>3, SameLinks, ListedNodes DEF RegInv
<1>5. \A m \in Node : m # t => nick'[m] = nick[m]
  BY <1>1 DEF RegInv, IndInv, TypeOK
<1>6. \A g \in Handler : ToMeet(g)' = ToMeet(g)
  BY <1>1, <1>4, <1>5 DEF ToMeet
<1>7. LookInv'
  BY <1>1, <1>6 DEF RegInv, LookInv
<1>8. PairInv'
  <2>1. ASSUME NEW m \in Listed \ cut, NEW x \in Node \ (freed' \cup shortened \cup {m, Admin}),
               linked[x] > 0, nick'[m] = nick'[x]
        PROVE  linked[m] > checked[x]
    <3>1. x # t /\ x \notin freed /\ nick[m] = nick[x]
      BY <1>1, <1>4, <1>5, <2>1
    <3>. QED BY <2>1, <3>1 DEF RegInv, PairInv
  <2>2. \A x \in Node : checked[x] <= links
    BY DEF RegInv, PairInv
  <2>. QED BY <1>1, <1>4, <2>1, <2>2 DEF PairInv
<1>9. CleanInv'
  BY <1>1, Ends, PassMeets DEF RegInv
<1>. QED BY <1>7, <1>8, <1>9 DEF RegInv

-----------------------------------------------------------------------------
LEMMA InitMeets == Init => RegInv
<1>. SUFFICES ASSUME Init PROVE RegInv
  OBVIOUS
<1>1. NameInv /\ LookInv /\ CleanInv
  BY DEF Init, NameInv, Appending, LookInv, CleanInv, Idle
<1>2. PairInv
  <2>1. IndInv
    BY InitInv
  <2>2. ASSUME NEW m \in Listed PROVE FALSE
    <3>1. m \in Node /\ m # Anchor /\ m # Admin /\ linked[m] > 0
      BY <2>1, ListedNodes
    <3>2. linked[m] = 0
      BY <3>1 DEF Init
    <3>. QED BY <3>1, <3>2
  <2>3. \A n \in Node : checked[n] <= links
    BY DEF Init
  <2>. QED BY <2>2, <2>3 DEF PairInv
<1>. QED BY <1>1, <1>2, InitInv DEF RegInv

LEMMA NextMeets == RegInv /\ IndInv' /\ [Next]_vars => RegInv'
<1>. SUFFICES ASSUME RegInv, IndInv', [Next]_vars PROVE RegInv'
  OBVIOUS
<1>1. CASE UNCHANGED vars
  <2>1. UNCHANGED <<next, nick, freed, links, linked, checked, cut, shortened, pc, cur, want, began, mine, reaper>>
    BY <1>1 DEF vars
  <2>2. NameInv' /\ CleanInv'
    BY <2>1 DEF RegInv, NameInv, Appending, CleanInv
  <2>. QED BY <2>1, <2>2, ReaperMeets
<1>2. CASE Next
  <2>1. NameInv'
    BY <1>2, NameKept DEF RegInv
  <2>2. ASSUME NEW h \in Handler, Start(h) \/ End(h) \/ Register(h) \/ \E w \in Nick : Ask(h, w)
        PROVE  RegInv'
    BY <2>1, <2>2, LookUpsMeet, CreatesMeet, AppendsMeet, LinksMeet DEF Register
  <2>3. CASE Reap \/ \E f \in open : Hangup(f)
    BY <2>1, <2>3, FindsMeet, StoresMeet, FreesMeet DEF Reap
  <2>. QED BY <1>2, <2>2, <2>3 DEF Next
<1>. QED BY <1>1, <1>2

\* Whoever asks for a nickname that is listed is refused, whatever main()
\* removes meanwhile and whoever registers, unless an append cut its node off:
\* two clients have the same one only when neither was linked before the last
\* look-up of the other began; or when the later one was looked up with more
\* words than the code then keeps.
THEOREM DuplicatesOnlyOverlap == Spec => []DuplicatesOverlap
<1>1. RegInv => DuplicatesOverlap
  <2>. SUFFICES ASSUME RegInv, NEW m \in Listed, NEW n \in Listed,
                       m # n, nick[m] = nick[n], m \notin cut, n \notin shortened
                PROVE  linked[m] > checked[n]
    BY DEF DuplicatesOverlap
  <2>1. n \in Node \ (freed \cup shortened \cup {m, Admin}) /\ linked[n] > 0
    BY ListedNodes DEF RegInv
  <2>. QED BY <2>1 DEF RegInv, PairInv
<1>. QED BY <1>1, InitMeets, NextMeets, Invariance, PTL DEF Spec

-----------------------------------------------------------------------------
(***************************************************************************)
(* The nicknames of a client that leaves.                                  *)
(***************************************************************************)

\* The nodes that are listed or that main() is about to list again, with the
\* one it removes.
Reach ==
    Way(next, Anchor) \cup
        IF reaper.at \in {"find", "load"} THEN Way(next, reaper.temp)
        ELSE {reaper.temp} \cup IF reaper.at = "store" THEN Way(next, reaper.succ) ELSE {}

\* Those that main() has to remove: the client's, linked before it began.
Due(S) == {n \in S \ {Anchor, Admin} : fd[n] = reaper.fd /\ linked[n] \in 1 .. reaper.since}

\* They are ahead of main() as long as it looks for one; the one it has found is
\* among them, if there are any; and each pass done so far has removed one.
DueInv ==
    reaper.at # "idle" =>
    /\ reaper.since <= links /\ reaper.left <= reaper.fd - 2
    /\ reaper.at = "find" => Due(Way(next, Anchor)) \subseteq Way(next, reaper.temp)
    /\ reaper.at # "find" /\ Due(Reach) # {} => linked[reaper.temp] <= reaper.since
    /\ Due(Reach) # {} => Cardinality(Due(Reach)) + (reaper.fd - 2 - reaper.left) <= reaper.had

\* What main() leaves behind when it closes a descriptor.
Removed ==
    \A f \in open \ open' :
        LET left == {n \in Listed' : fd'[n] = f /\ linked[n] <= reaper.since}
        IN  left = {} \/ Cardinality(left) + (f - 2) <= reaper.had

LEMMA Fewer ==
    ASSUME NEW T \in SUBSET Node, NEW S \in SUBSET T
    PROVE  /\ Cardinality(S) \in Nat /\ Cardinality(T) \in Nat
           /\ Cardinality(S) <= Cardinality(T)
           /\ \A x \in T \ S : Cardinality(S) < Cardinality(T)
<1>1. IsFiniteSet(Node)
  BY NickListAssumption, FS_Interval DEF Node
<1>2. IsFiniteSet(T)
  BY <1>1, FS_Subset
<1>3. IsFiniteSet(S) /\ Cardinality(S) <= Cardinality(T) /\ (Cardinality(S) = Cardinality(T) => S = T)
  BY <1>2, FS_Subset
<1>4. Cardinality(S) \in Nat /\ Cardinality(T) \in Nat
  BY <1>2, <1>3, FS_CardinalityType
<1>. QED BY <1>3, <1>4

LEMMA ReachNodes == ASSUME IndInv, reaper.at # "idle" PROVE Reach \in SUBSET Node
<1>1. reaper.at \notin {"find", "load"} => reaper.temp \in Node
  BY DEF IndInv, TypeOK, Cleanup, Pointer, ReaperInv
<1>. QED BY <1>1 DEF Reach, Way

LEMMA DueNodes ==
    ASSUME IndInv, reaper.at # "idle"
    PROVE  Due(Reach) \in SUBSET Node /\ Due(Way(next, Anchor)) \subseteq Due(Reach)
BY ReachNodes DEF Due, Reach, Way

\* A step that leaves no more to remove than before.
LEMMA StillDue ==
    ASSUME IndInv, DueInv, IndInv', reaper.at # "idle", reaper'.at # "idle",
           reaper'.fd = reaper.fd, reaper'.left = reaper.left,
           reaper'.since = reaper.since, reaper'.had = reaper.had, links' \in {links, links + 1},
           Due(Reach)' \subseteq Due(Reach),
           reaper'.at = "find" => Due(Way(next, Anchor))' \subseteq Way(next', reaper'.temp),
           reaper'.at # "find" /\ Due(Reach) # {} => linked'[reaper'.temp] <= reaper.since
    PROVE  DueInv'
<1>1. /\ links \in Nat /\ reaper.since \in Nat /\ reaper.had \in Nat /\ reaper.fd \in Nat
      /\ reaper.left \in Nat
  BY DEF IndInv, TypeOK, Cleanup
<1>2. /\ Cardinality(Due(Reach)') \in Nat /\ Cardinality(Due(Reach)) \in Nat
      /\ Cardinality(Due(Reach)') <= Cardinality(Due(Reach))
  BY DueNodes, Fewer
<1>3. reaper.since <= links' /\ reaper.left <= reaper.fd - 2
  BY <1>1 DEF DueInv
<1>4. Due(Reach)' # {} => Cardinality(Due(Reach)') + (reaper.fd - 2 - reaper.left) <= reaper.had
  BY <1>1, <1>2 DEF DueInv
<1>5. Due(Reach)' # {} => Due(Reach) # {}
  OBVIOUS
<1>. HIDE DEF Due, Reach
<1>. QED BY <1>3, <1>4, <1>5 DEF DueInv

\* A step that touches neither main() nor the links.
LEMMA SameDue ==
    ASSUME DueInv, UNCHANGED <<next, reaper, links, linked>>,
           \A n \in Node : linked[n] > 0 => fd'[n] = fd[n], IndInv
    PROVE  DueInv'
<1>1. CASE reaper.at = "idle"
  BY <1>1 DEF DueInv
<1>2. CASE reaper.at # "idle"
  <2>1. Reach' = Reach
    BY DEF Reach
  <2>2. Way(next, Anchor) \in SUBSET Node /\ linked \in [Node -> Nat] /\ reaper.since \in Nat
    BY DEF Way, IndInv, TypeOK, Cleanup
  <2>3. Due(Way(next, Anchor))' = Due(Way(next, Anchor))
    BY <2>2 DEF Due
  <2>4. Reach \in SUBSET Node
    BY <1>2, ReachNodes
  <2>5. Due(Reach)' = Due(Reach)
    BY <2>1, <2>2, <2>4 DEF Due
  <2>. QED BY <1>2, <2>3, <2>5 DEF DueInv
<1>. QED BY <1>1, <1>2

\* Linking a node after one that is on the way of main(): what the list keeps,
\* main() still meets.
LEMMA LinkingKeeps ==
    ASSUME IndInv, NEW h \in Handler, Link(h), reaper.at # "free",
           NEW k \in Node \ freed, NEW m \in Way(next, k),
           m \in Way(next, Anchor), m \in Way(next', Anchor)
    PROVE  m \in Way(next', k)
<1>. DEFINE n == mine[h]  c == cur[h]
<1>1. /\ n \in Node /\ n # Anchor /\ n # c /\ linked[n] = 0 /\ next[n] = Null
      /\ c \in Node /\ c # Anchor /\ linked[c] > 0 /\ next' = [next EXCEPT ![c] = n]
  BY DEF Link, At, IndInv, HandlersInv, Appending, NodesInv
<1>. HIDE DEF n, c
<1>2. /\ next \in [Node -> Node \cup {Null}] /\ next' \in [Node -> Node \cup {Null}]
      /\ next'[c] = n /\ next'[n] = Null /\ \A j \in Node : j # c => next'[j] = next[j]
  BY <1>1, NextType
<1>3. CASE c \notin Way(next, k)
  BY <1>1, <1>2, <1>3, WayApart
<1>4. CASE m \notin Way(next, next[c])
  BY <1>1, <1>2, <1>4, WayStays
<1>5. CASE c \in Way(next, k) /\ m \in Way(next, next[c])
  <2>1. next[c] \in Node /\ linked[c] < linked[next[c]]
    BY <1>1, <1>2, <1>5, WayOfNothing DEF IndInv, ForwardLinks
  <2>2. m \in Node /\ (m = next[c] \/ linked[next[c]] < linked[m])
    BY <1>5, <2>1, WayForward
  <2>3. linked[c] \in Nat /\ linked[next[c]] \in Nat /\ linked[m] \in Nat
    BY <1>1, <2>1, <2>2 DEF IndInv, TypeOK
  <2>4. linked[c] < linked[m]
    BY <2>1, <2>2, <2>3
  <2>5. c \notin freed
    <3>. DEFINE S == Node \ freed
    <3>1. S \in SUBSET Node /\ ClosedUnder(next, S) /\ {k} \ {Null} \subseteq S
      BY <1>2 DEF ClosedUnder, IndInv, NoFreedLinked
    <3>2. Way(next, k) \subseteq S
      BY <3>1, WayLeast
    <3>. QED BY <1>5, <3>2
  <2>6. m \in Way(next, c)
    BY <1>1, <1>2, <1>5, WayIs
  <2>7. c \in Way(next, Anchor)
    BY <1>1, <2>5, <2>6, Apart
  <2>8. m \in {j \in Node : c \in Way(next, j)} \cup {n}
    <3>. DEFINE S == {j \in Node : c \in Way(next, j)} \cup {n}
    <3>1. ASSUME NEW j \in S, next'[j] # Null PROVE next'[j] \in S
      <4>1. CASE j = c
        BY <1>2, <4>1
      <4>2. CASE j = n
        BY <1>2, <3>1, <4>2
      <4>3. CASE j # c /\ j # n
        <5>1. j \in Node /\ c \in Way(next, j) /\ next'[j] = next[j]
          BY <1>2, <4>3
        <5>2. c \in Way(next, next[j])
          BY <1>2, <4>3, <5>1, WayIs
        <5>. QED BY <1>2, <3>1, <5>1, <5>2
      <4>. QED BY <4>1, <4>2, <4>3
    <3>2. S \in SUBSET Node /\ ClosedUnder(next', S) /\ {Anchor} \ {Null} \subseteq S
      BY <1>1, <2>7, <3>1, Nodes DEF ClosedUnder
    <3>. HIDE DEF S
    <3>3. m \in S
      BY <3>2, WayLeast
    <3>. QED BY <3>3 DEF S
  <2>9. m # n
    BY <1>1, <2>3, <2>4
  <2>10. c = m \/ linked[m] < linked[c]
    BY <2>2, <2>8, <2>9, WayForward
  <2>. QED BY <2>3, <2>4, <2>10
<1>. QED BY <1>3, <1>4, <1>5

\* Linking adds nothing to remove.
LEMMA LinksDue ==
    ASSUME IndInv, DueInv, IndInv', NEW h \in Handler, Link(h)
    PROVE  DueInv'
<1>. DEFINE n == mine[h]  c == cur[h]
<1>1. /\ n \in Node /\ n # Anchor /\ n # c /\ linked[n] = 0 /\ next[n] = Null
      /\ c \in Node /\ c # Anchor /\ linked[c] > 0 /\ next' = [next EXCEPT ![c] = n]
      /\ links' = links + 1 /\ linked' = [linked EXCEPT ![n] = links + 1]
      /\ UNCHANGED <<fd, reaper>>
  BY DEF Link, At, IndInv, HandlersInv, Appending, NodesInv
<1>. HIDE DEF n, c
<1>2. /\ next \in [Node -> Node \cup {Null}] /\ next' \in [Node -> Node \cup {Null}]
      /\ links \in Nat /\ linked \in [Node -> Nat] /\ reaper \in Cleanup
      /\ linked'[n] = links + 1 /\ \A j \in Node : j # n => linked'[j] = linked[j]
  BY <1>1, NextType DEF IndInv, TypeOK
<1>3. CASE reaper.at = "idle"
  BY <1>1, <1>3 DEF DueInv
<1>4. CASE reaper.at # "idle"
  <2>1. ASSUME NEW k \in Node \cup {Null} PROVE Way(next', k) \subseteq Way(next, k) \cup {n}
    <3>1. Way(next, n) = {n}
      BY <1>1, <1>2, WayIs, WayOfNothing
    <3>. QED BY <1>1, <1>2, <3>1, WayGrows
  <2>2. reaper.temp \in Node \cup {Null} /\ reaper.succ \in Node \cup {Null}
    BY <1>2 DEF Cleanup, Pointer
  <2>3. Reach' \subseteq Reach \cup {n}
    BY <1>1, <2>1, <2>2, Nodes DEF Reach
  <2>4. ~ (linked'[n] \in 1 .. reaper.since)
    BY <1>2, <1>4 DEF DueInv, Cleanup
  <2>6. Reach \in SUBSET Node
    BY <1>4, ReachNodes
  <2>7. Due(Reach)' \subseteq Due(Reach)
    BY <1>1, <1>2, <2>3, <2>4, <2>6 DEF Due
  <2>8. ASSUME reaper.at = "find", NEW m \in Due(Way(next, Anchor))'
        PROVE  m \in Way(next', reaper.temp)
    <3>1. m \in Way(next', Anchor) /\ m \in Way(next, Anchor) \cup {n}
      BY <2>1, Nodes DEF Due
    <3>2. m # n
      BY <1>1, <2>4 DEF Due
    <3>3. m \in Way(next, Anchor) /\ m \in Node
      BY <3>1, <3>2 DEF Way
    <3>4. m \in Due(Way(next, Anchor))
      BY <1>1, <1>2, <3>2, <3>3 DEF Due
    <3>5. m \in Way(next, reaper.temp)
      BY <1>4, <2>8, <3>4 DEF DueInv
    <3>6. reaper.temp \in Node \ freed
      BY <2>2, <3>5, WayOfNothing DEF IndInv, NoFreedLinked
    <3>. QED BY <2>8, <3>1, <3>3, <3>5, <3>6, LinkingKeeps
  <2>9. reaper.at # "find" /\ Due(Reach) # {} => linked'[reaper.temp] <= reaper.since
    <3>. SUFFICES ASSUME reaper.at # "find", Due(Reach) # {} PROVE linked'[reaper.temp] <= reaper.since
      OBVIOUS
    <3>1. reaper.temp \in Node /\ reaper.temp # n
      <4>1. /\ reaper.temp # Null /\ reaper.prev # Null /\ linked[reaper.prev] < linked[reaper.temp]
            /\ reaper.prev \in Node
        BY <1>2, <1>4 DEF IndInv, ReaperInv, Cleanup, Pointer
      <4>2. reaper.temp \in Node /\ linked[reaper.prev] \in Nat
        BY <1>2, <2>2, <4>1
      <4>. QED BY <1>1, <1>2, <4>1, <4>2
    <3>. QED BY <1>2, <1>4, <3>1 DEF DueInv
  <2>. QED BY <1>1, <1>4, <2>7, <2>8, <2>9, StillDue
<1>. QED BY <1>3, <1>4

\* What main() starts each pass with.
LEMMA PassDue ==
    ASSUME NEW f \in Nat, NEW k \in Nat, NEW s \in Nat, NEW d \in Nat,
           reaper' = PassOver(f, k, s, d), s <= links', k <= f - 2,
           Due(Way(next, Anchor))' # {} => Cardinality(Due(Way(next, Anchor))') + (f - 2 - k) <= d
    PROVE  DueInv'
<1>1. /\ reaper'.at = "find" /\ reaper'.temp = Anchor /\ reaper'.fd = f /\ reaper'.left = k
      /\ reaper'.since = s /\ reaper'.had = d
  BY DEF PassOver, Idle
<1>2. Reach' = Way(next, Anchor)'
  BY <1>1 DEF Reach
<1>3. Due(Reach)' = Due(Way(next, Anchor))'
  BY <1>2 DEF Due
<1>4. Due(Way(next, Anchor))' \subseteq Way(next', reaper'.temp)
  BY <1>1 DEF Due
<1>. HIDE DEF Due, Reach, Way
<1>. QED BY <1>1, <1>3, <1>4 DEF DueInv

\* On a hangup all the nicknames of the client are to be removed.
LEMMA HangsUpDue ==
    ASSUME IndInv, IndInv', NEW f \in open, Hangup(f)
    PROVE  DueInv'
<1>. DEFINE had == Cardinality({n \in Listed : fd[n] = f})
<1>1. /\ UNCHANGED <<next, fd, links, linked>>
      /\ reaper' = PassOver(f, f - 2, links, had)
  BY DEF Hangup, Removal, memory, history
<1>2. f \in Nat /\ f - 2 \in Nat /\ links \in Nat
  BY NickListAssumption DEF IndInv, TypeOK
<1>3. Listed \in SUBSET Node
  BY DEF Listed, From
<1>4. had \in Nat
  BY <1>3, Fewer
<1>5. reaper'.fd = f /\ reaper'.since = links
  BY <1>1 DEF PassOver, Idle
<1>6. Due(Way(next, Anchor))' = {n \in Listed : fd[n] = f}
  <2>1. \A n \in Listed : linked[n] \in 1 .. links
    <3>. SUFFICES ASSUME NEW n \in Listed PROVE linked[n] \in 1 .. links
      OBVIOUS
    <3>1. n \in Node /\ linked[n] > 0
      BY ListedNodes
    <3>2. linked[n] \in Nat /\ linked[n] <= links
      BY <3>1 DEF IndInv, TypeOK, NodesInv
    <3>. QED BY <1>2, <3>1, <3>2
  <2>. QED BY <1>1, <1>5, <2>1, ListedWay DEF Due
<1>7. links <= links' /\ f - 2 <= f - 2 /\ had + (f - 2 - (f - 2)) <= had
  BY <1>1, <1>2, <1>4
<1>. HIDE DEF had, Due
<1>8. Cardinality(Due(Way(next, Anchor))') = had
  BY <1>6 DEF had
<1>. QED BY <1>1, <1>2, <1>4, <1>7, <1>8, PassDue

\* main() looks on, and finds the first node of the client, or what follows it.
LEMMA FindsDue ==
    ASSUME IndInv, DueInv, IndInv', Find \/ Load
    PROVE  DueInv'
<1>. DEFINE t == reaper.temp
<1>1. /\ UNCHANGED <<next, fd, links, linked>> /\ reaper \in Cleanup
      /\ next \in [Node -> Node \cup {Null}] /\ reaper.at \in {"find", "load"}
  BY NextType DEF Find, Load, memory, history, IndInv, TypeOK
<1>2. /\ reaper'.fd = reaper.fd /\ reaper'.left = reaper.left
      /\ reaper'.since = reaper.since /\ reaper'.had = reaper.had
  BY <1>1 DEF Find, Load, Cleanup
<1>3. t \in Node /\ Way(next, t) = {t} \cup Way(next, next[t])
  <2>1. t # Null
    BY DEF Find, Load, IndInv, ReaperInv
  <2>. QED BY <1>1, <2>1, WayIs DEF Cleanup, Pointer
<1>4. Reach = Way(next, Anchor) \cup Way(next, t)
  BY <1>1 DEF Reach
<1>5. /\ Reach \in SUBSET Node /\ linked \in [Node -> Nat] /\ reaper.since \in Nat
  BY <1>1, <1>4 DEF Way, IndInv, TypeOK, Cleanup
<1>6. Reach' \subseteq Reach => Due(Reach)' \subseteq Due(Reach)
  BY <1>1, <1>2 DEF Due
<1>7. CASE Load
  <2>1. reaper'.at = "store" /\ reaper'.succ = next[t] /\ reaper'.temp = t /\ reaper.at = "load"
    BY <1>1, <1>7 DEF Load, Cleanup
  <2>2. Reach' = Way(next, Anchor) \cup ({t} \cup Way(next, next[t]))
    BY <1>1, <2>1 DEF Reach
  <2>3. Due(Reach)' \subseteq Due(Reach)
    BY <1>3, <1>4, <1>6, <2>2
  <2>4. Due(Reach) # {} => linked'[reaper'.temp] <= reaper.since
    BY <1>1, <2>1 DEF DueInv
  <2>. QED BY <1>1, <1>2, <2>1, <2>3, <2>4, StillDue
<1>8. CASE Find /\ fd[t] = reaper.fd
  <2>1. reaper'.at = "load" /\ reaper'.temp = t /\ reaper.at = "find"
    BY <1>1, <1>8 DEF Find, Cleanup
  <2>2. Reach' = Reach
    BY <1>1, <1>4, <2>1 DEF Reach
  <2>3. Due(Reach) # {} => linked'[reaper'.temp] <= reaper.since
    <3>. SUFFICES ASSUME NEW m \in Due(Reach) PROVE linked[t] <= reaper.since
      BY <1>1, <2>1
    <3>1. m \in Way(next, t)
      BY <1>4, <2>1 DEF DueInv, Due
    <3>2. m \in Node /\ (m = t \/ linked[t] < linked[m])
      BY <1>3, <3>1, WayForward
    <3>3. linked[m] <= reaper.since
      BY DEF Due
    <3>. QED BY <1>3, <1>5, <3>2, <3>3
  <2>. QED BY <1>1, <1>2, <1>6, <2>1, <2>2, <2>3, StillDue
<1>9. CASE Find /\ fd[t] # reaper.fd
  <2>1. reaper'.at = "find" /\ reaper'.temp = next[t] /\ reaper.at = "find"
    BY <1>1, <1>9 DEF Find, Cleanup
  <2>2. Reach' \subseteq Reach
    BY <1>1, <1>3, <1>4, <2>1 DEF Reach
  <2>3. ASSUME NEW m \in Due(Way(next, Anchor))' PROVE m \in Way(next, next[t])
    <3>1. m \in Due(Way(next, Anchor)) /\ m # t
      BY <1>1, <1>2, <1>9 DEF Due
    <3>2. m \in Way(next, t)
      BY <2>1, <3>1 DEF DueInv
    <3>. QED BY <1>3, <3>1, <3>2
  <2>. QED BY <1>1, <1>2, <1>6, <2>1, <2>2, <2>3, StillDue
<1>. QED BY <1>7, <1>8, <1>9

\* What comes back to the list was counted already.
LEMMA StoresDue ==
    ASSUME IndInv, DueInv, IndInv', Store
    PROVE  DueInv'
<1>1. /\ UNCHANGED <<fd, links, linked>> /\ reaper \in Cleanup
      /\ reaper.at = "store" /\ next' = [next EXCEPT ![reaper.prev] = reaper.succ]
      /\ reaper' = [reaper EXCEPT !.at = "free"]
  BY DEF Store, handlers, history, IndInv, TypeOK
<1>2. /\ reaper'.at = "free" /\ reaper'.fd = reaper.fd /\ reaper'.left = reaper.left
      /\ reaper'.since = reaper.since /\ reaper'.had = reaper.had /\ reaper'.temp = reaper.temp
  BY <1>1 DEF Cleanup
<1>3. /\ reaper.prev \in Node /\ reaper.succ \in Node \cup {Null}
      /\ next \in [Node -> Node \cup {Null}]
  <2>1. reaper.prev # Null
    BY <1>1 DEF IndInv, ReaperInv
  <2>. QED BY <1>1, <2>1, NextType DEF Cleanup, Pointer
<1>4. Way(next', Anchor) \subseteq Way(next, Anchor) \cup Way(next, reaper.succ)
  BY <1>1, <1>3, WayGrows, Nodes
<1>5. Reach' \subseteq Reach
  BY <1>1, <1>2, <1>4 DEF Reach
<1>6. Due(Reach)' \subseteq Due(Reach)
  BY <1>1, <1>2, <1>5 DEF Due
<1>7. Due(Reach) # {} => linked'[reaper'.temp] <= reaper.since
  BY <1>1, <1>2 DEF DueInv
<1>. QED BY <1>1, <1>2, <1>6, <1>7, StillDue

\* A pass ends, with the node given back or none found: one less to remove, or
\* none.
LEMMA PassesDue ==
    ASSUME IndInv, DueInv, IndInv', Free \/ NotFound
    PROVE  DueInv' /\ Removed
<1>. DEFINE W == Way(next, Anchor)
            D == Due(W)
            done == reaper.fd - 2 - reaper.left
<1>1. /\ UNCHANGED <<next, links, linked>> /\ reaper \in Cleanup
      /\ reaper.at # "idle" /\ EndOfPass
  BY DEF Free, NotFound, memory, history, IndInv, TypeOK
<1>2. /\ reaper.fd \in Nat /\ reaper.since \in Nat /\ reaper.had \in Nat /\ links \in Nat
      /\ reaper.left \in Nat /\ reaper.left # 0 /\ done \in Nat /\ reaper.since <= links
      /\ linked \in [Node -> Nat] /\ W \in SUBSET Node
  BY <1>1 DEF Cleanup, DueInv, IndInv, TypeOK, Way
<1>3. D # {} => Cardinality(D) + (done + 1) <= reaper.had
  <2>1. CASE NotFound
    <3>1. reaper.at = "find" /\ reaper.temp = Null
      BY <2>1 DEF NotFound
    <3>2. D \subseteq {}
      BY <3>1, WayOfNothing DEF DueInv
    <3>. QED BY <3>2
  <2>2. CASE Free
    <3>. SUFFICES ASSUME D # {} PROVE Cardinality(D) + (done + 1) <= reaper.had
      OBVIOUS
    <3>1. reaper.at = "free" /\ reaper.temp \in Node /\ reaper.temp # Anchor /\ reaper.temp \notin W
      BY <2>2, GivenBack DEF Free
    <3>2. D \subseteq Due(Reach) /\ Due(Reach) # {} /\ Due(Reach) \in SUBSET Node
      BY <1>1, DueNodes
    <3>3. reaper.temp \in Due(Reach)
      <4>1. linked[reaper.temp] <= reaper.since /\ reaper.temp \in Reach
        BY <1>1, <3>1, <3>2 DEF DueInv, Reach
      <4>2. reaper.fd > 0 /\ fd[reaper.temp] = reaper.fd
        BY <1>1, <3>1 DEF IndInv, ReaperInv
      <4>3. reaper.temp # Admin
        BY <4>2 DEF IndInv, NodesInv
      <4>4. linked[reaper.temp] > 0
        <5>1. /\ reaper.prev \in Node /\ linked[reaper.prev] < linked[reaper.temp]
          BY <1>1, <3>1 DEF IndInv, ReaperInv, Cleanup, Pointer
        <5>. QED BY <1>2, <3>1, <5>1
      <4>. QED BY <1>2, <3>1, <4>1, <4>2, <4>3, <4>4 DEF Due
    <3>4. /\ Cardinality(D) \in Nat /\ Cardinality(Due(Reach)) \in Nat
          /\ Cardinality(D) < Cardinality(Due(Reach))
      <4>1. reaper.temp \in Due(Reach) \ D
        BY <3>1, <3>3 DEF Due
      <4>. HIDE DEF D
      <4>. QED BY <3>2, <4>1, Fewer
    <3>5. Cardinality(Due(Reach)) + done <= reaper.had
      BY <1>1, <3>2 DEF DueInv
    <3>. QED BY <1>2, <3>4, <3>5
  <2>. QED BY <2>1, <2>2
<1>4. ASSUME NEW n \in W PROVE fd'[n] = fd[n]
  <2>1. CASE NotFound
    BY <2>1 DEF NotFound, memory
  <2>2. CASE Free
    <3>1. fd' = [fd EXCEPT ![reaper.temp] = -1] /\ reaper.temp \notin W
      BY <2>2, GivenBack DEF Free
    <3>. QED BY <1>2, <3>1 DEF IndInv, TypeOK
  <2>. QED BY <2>1, <2>2
<1>5. Way(next, Anchor)' = W
  BY <1>1
<1>. HIDE DEF W
<1>6. CASE reaper.left > 1
  <2>1. reaper' = PassOver(reaper.fd, reaper.left - 1, reaper.since, reaper.had) /\ open' = open
    BY <1>1, <1>6 DEF EndOfPass
  <2>2. reaper'.fd = reaper.fd /\ reaper'.since = reaper.since
    BY <2>1 DEF PassOver, Idle
  <2>3. Due(Way(next, Anchor))' = D
    BY <1>1, <1>4, <1>5, <2>2 DEF Due
  <2>4. /\ reaper.left - 1 \in Nat /\ reaper.left - 1 <= reaper.fd - 2
        /\ reaper.fd - 2 - (reaper.left - 1) = done + 1 /\ reaper.since <= links'
    BY <1>1, <1>2, <1>6
  <2>. HIDE DEF D
  <2>5. DueInv'
    BY <1>2, <1>3, <2>1, <2>3, <2>4, PassDue
  <2>6. Removed
    BY <2>1 DEF Removed
  <2>. QED BY <2>5, <2>6
<1>7. CASE ~ (reaper.left > 1)
  <2>1. reaper' = Idle /\ open' = open \ {reaper.fd}
    BY <1>1, <1>7 DEF EndOfPass
  <2>2. done + 1 = reaper.fd - 2
    BY <1>2, <1>7
  <2>3. {n \in Listed' : fd'[n] = reaper.fd /\ linked[n] <= reaper.since} = D
    <3>1. Listed' = W \ {Anchor, Admin} /\ Listed = Listed'
      BY <1>5, <1>1, ListedWay
    <3>2. \A n \in Listed' : fd'[n] = fd[n] /\ linked[n] \in Nat /\ linked[n] > 0
      BY <1>2, <1>4, <3>1, ListedNodes
    <3>. QED BY <1>2, <3>1, <3>2 DEF Due
  <2>. HIDE DEF D
  <2>4. Removed
    BY <1>3, <2>1, <2>2, <2>3 DEF Removed
  <2>5. DueInv'
    BY <2>1 DEF Idle, DueInv
  <2>. QED BY <2>4, <2>5
<1>. QED BY <1>6, <1>7

LEMMA NextDue == IndInv /\ DueInv /\ IndInv' /\ [Next]_vars => DueInv' /\ [Removed]_vars
<1>. SUFFICES ASSUME IndInv, DueInv, IndInv', [Next]_vars PROVE DueInv' /\ (Removed \/ UNCHANGED vars)
  OBVIOUS
<1>1. CASE UNCHANGED vars
  <2>1. UNCHANGED <<next, reaper, links, linked, fd>>
    BY <1>1 DEF vars
  <2>. QED BY <1>1, <2>1, SameDue
<1>2. ASSUME NEW h \in Handler, Start(h) \/ End(h) \/ Register(h) \/ \E w \in Nick : Ask(h, w)
      PROVE  DueInv' /\ Removed
  <2>1. open \subseteq open'
    BY <1>2 DEF Start, End, Register, Walk, Decide, Create, Append, Link, Ask
  <2>2. Removed
    BY <2>1 DEF Removed
  <2>3. CASE Link(h)
    BY <2>2, <2>3, LinksDue
  <2>4. CASE Create(h)
    <3>1. /\ UNCHANGED <<next, reaper, links, linked>> /\ used < MaxNode
          /\ fd' = [fd EXCEPT ![used + 1] = FdOf[h]]
      BY <2>4 DEF Create, history
    <3>2. linked[used + 1] = 0
      BY <3>1, NickListAssumption DEF IndInv, TypeOK, NodesInv, Node
    <3>3. \A n \in Node : linked[n] > 0 => fd'[n] = fd[n]
      BY <3>1, <3>2 DEF IndInv, TypeOK
    <3>. QED BY <2>2, <3>1, <3>3, SameDue
  <2>5. CASE ~ Link(h) /\ ~ Create(h)
    <3>1. UNCHANGED <<next, reaper, links, linked, fd>>
      BY <1>2, <2>5 DEF Start, End, Register, Walk, Decide, Append, Ask, memory, history
    <3>. QED BY <2>2, <3>1, SameDue
  <2>. QED BY <2>3, <2>4, <2>5
<1>3. ASSUME NEW f \in open, Hangup(f) PROVE DueInv' /\ Removed
  <2>1. open' = open
    BY <1>3 DEF Hangup
  <2>2. Removed
    BY <2>1 DEF Removed
  <2>. QED BY <1>3, <2>2, HangsUpDue
<1>4. CASE Find \/ Load \/ Store
  <2>1. open' = open
    BY <1>4 DEF Find, Load, Store
  <2>2. Removed
    BY <2>1 DEF Removed
  <2>. QED BY <1>4, <2>2, FindsDue, StoresDue
<1>5. CASE Free \/ NotFound
  BY <1>5, PassesDue
<1>. QED BY <1>1, <1>2, <1>3, <1>4, <1>5 DEF Next, Reap

\* When main() closes a descriptor it has removed the nicknames of its client
\* that were listed when it began, or as many of them as the slot plus one,
\* whatever was appended, lost and linked again meanwhile.
THEOREM NicknamesLeave == Spec => NicknamesRemoved
<1>1. Init => DueInv
  BY DEF Init, DueInv, Idle
<1>2. [Removed]_vars <=> [\A f \in open \ open' :
        LET left == {n \in Listed' : fd'[n] = f /\ linked[n] <= reaper.since}
        IN  left = {} \/ Cardinality(left) + (f - 2) <= reaper.had]_vars
  BY DEF Removed
<1>. QED BY <1>1, <1>2, NextDue, Invariance, PTL DEF Spec, NicknamesRemoved
=============================================================================
