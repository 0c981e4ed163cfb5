----------------------------- MODULE WalkProofs -----------------------------
(***************************************************************************)
(* What a handler that walks the list of clients can rely on while main()  *)
(* unlinks, frees and reuses the nodes under it, proved for every number   *)
(* of clients, of descriptors and of walks: /msgall reaches whoever stays  *)
(* exactly once, /whois finds its client, and a crash has a departure for  *)
(* its cause.                                                              *)
(***************************************************************************)
EXTENDS ClientListProofs, FiniteSetTheorems, WellFoundedInduction

\* The nodes in the list.
Linked == ToSet(Chain[Anchor])

(***************************************************************************)
(* The argument needs the rank of a node: the number of the client it was  *)
(* last taken for, which a freed node has forgotten.  Since clients are    *)
(* listed in the order of their numbers, ranks rise along next, from a     *)
(* freed node too.  rank is not part of the state: there is such a         *)
(* function in every state, and each step says how it changes.             *)
(***************************************************************************)

\* Ranks rise along next, whether a node is listed or not.
Rising(nx, rank, max) ==
    /\ \A k \in Node : rank[k] \in -2 .. max
    /\ \A k \in Node : nx[k] # Null => rank[k] < rank[nx[k]]

\* From a node of S the next one leads no further than the least of C that is
\* after it.
NoGap(nx, rank, S, C) ==
    \A k \in S, c \in C : rank[k] < c => nx[k] # Null /\ rank[nx[k]] <= c

\* The list is in the order of the clients' numbers, leaves none out, and holds
\* for each the descriptor that names it.
ListOrder(rank) ==
    /\ rank[Anchor] = -1 /\ rank[Root] = 0 /\ Root \in Linked
    /\ fd[Anchor] = 0 /\ fd[Root] = 0 /\ conn[Anchor] = None /\ conn[Root] = None
    /\ \A k \in Linked \ {Anchor} : conn[k] = rank[k]
    /\ \A k \in Linked \ {Anchor, Root} :
            /\ conn[k] \in Conn
            /\ fd[k] \in Fd /\ fd[k] = fdOf[conn[k]] /\ file[fd[k]] = conn[k]
    /\ \A k \in Node, x \in Linked : rank[k] = rank[x] => k = x
    /\ NoGap(next, rank, Linked, {rank[x] : x \in Linked})

\* The nodes outside the list: free, in main()'s hands, or never taken.
Outside(rank) ==
    /\ Linked \subseteq 0 .. used
    /\ \A k \in 0 .. used : rank[k] >= -1
    /\ \A m \in DOMAIN cache : cache[m] \in 2 .. used /\ cache[m] \notin Linked
    /\ \A m, n \in DOMAIN cache : cache[m] = cache[n] => m = n
    /\ \A k \in Node \ Linked :
            fd[k] \in Fd => main.at \in {"link", "free"} /\ k = main.node /\ fd[k] = fdOf[main.c]
    /\ main.at \in {"link", "free"} =>
            /\ main.node \in 2 .. used /\ main.node \notin Linked
            /\ \A m \in DOMAIN cache : cache[m] # main.node

\* The clients with a handler, and the one main() deals with.
Dealt(rank) ==
    /\ \A c \in serving : fdOf[c] \in Fd /\ file[fdOf[c]] = c
    /\ main.at # "poll" => /\ fdOf[main.c] \in Fd /\ file[fdOf[main.c]] = main.c
                           /\ main.c \notin Listed
    /\ Arriving => \A k \in Node : main.at # "link" \/ k # main.node => rank[k] < main.c
    /\ main.at = "link" => /\ next[main.node] = Null /\ rank[main.node] = main.c
                           /\ conn[main.node] = main.c /\ fd[main.node] = fdOf[main.c]

ListInvariant(rank) ==
    Rising(next, rank, accepted) /\ ListOrder(rank) /\ Outside(rank) /\ Dealt(rank)

(***************************************************************************)
(* A walk: o is what its handler is doing, S the nodes it may come to.     *)
(***************************************************************************)
Active(o) == o.at \notin {"recv", "nick"}

\* Whom an operation is to reach: all of the list up to the last of them.
Stayers(o) ==
    /\ ~ Active(o) => o.stayed = {}
    /\ o.stayed \subseteq Listed
    /\ \A c \in o.stayed, x \in Listed : x < c => x \in o.stayed

\* No copy was sent to a client the walk has not passed.
Passed(rank, o) ==
    /\ o.at \notin {"load", "send"} => \A c \in Conn : o.got[c] = 0
    /\ \A c \in o.stayed :
            /\ o.got[c] <= 1
            /\ o.got[c] = 1 => o.cur = Null \/ c < rank[o.cur]
    /\ o.at = "send" /\ o.fd \in Fd /\ file[o.fd] \in o.stayed => file[o.fd] = rank[o.cur]

\* The nodes a walk may come to are those listed at some time since it began,
\* unless one of them was given to a new client.
Sound(o) == Active(o) /\ (~ o.reused \/ ~ o.left)
Ahead(rank, S, o) ==
    Sound(o) =>
        /\ Linked \subseteq S /\ S \subseteq 0 .. used
        /\ ~ o.left => S = Linked
        /\ \A k \in S : next[k] # Null => next[k] \in S
        /\ NoGap(next, rank, S, o.stayed \cup {0})
        /\ o.at \in {"count", "load", "send", "seek", "read"} /\ o.cur # Null => o.cur \in S

\* Counting: as many as the stayers passed, and no more than there are nodes
\* while nobody leaves.
Before(rank, S, o) == {k \in S : o.cur = Null \/ rank[k] < rank[o.cur]}
ToCount(rank, o) == {k \in Linked : rank[k] \in o.stayed \cup {-1, 0}}
Counted(rank, o) ==
    o.at = "count" =>
        /\ Sound(o) => Cardinality(Before(rank, ToCount(rank, o), o)) <= o.n
        /\ ~ o.left => o.n <= Cardinality(Before(rank, Linked, o))

\* Visiting: who was not sent a copy is still ahead, within the nodes counted.
Unsent(o) == {c \in o.stayed : o.got[c] = 0}
Rest(rank, S, o) == {k \in S : o.cur # Null /\ rank[o.cur] <= rank[k]}
ToVisit(rank, S, o) == {k \in Rest(rank, S, o) : \E c \in Unsent(o) : rank[k] <= c}
Visited(rank, S, o) ==
    o.at \in {"load", "send"} =>
        /\ Sound(o) =>
            /\ \A c \in Unsent(o) : o.cur # Null /\ rank[o.cur] <= c
            /\ o.at = "send" /\ rank[o.cur] \in o.stayed => o.fd = fdOf[rank[o.cur]]
            /\ Cardinality(ToVisit(rank, S, o)) <= o.n
        /\ ~ o.left => o.n <= Cardinality(Rest(rank, Linked, o))

\* Looking for a client: it is ahead, or found.
Sought(rank, o) ==
    /\ o.at \in {"count", "load", "send"} => o.who = None
    /\ o.at \in {"again", "seek", "read", "write", "answer"} => o.who \in Conn
    /\ o.who \in o.stayed =>
        /\ o.who \in nicknames
        /\ Sound(o) /\ o.at = "seek" => o.cur # Null /\ rank[o.cur] <= o.who /\ o.fd = fdOf[o.who]
        /\ Sound(o) /\ o.at = "read" => rank[o.cur] = o.who
        /\ Sound(o) /\ o.at = "write" => o.n = o.who

Walk(rank, S, o) ==
    /\ Stayers(o) /\ Passed(rank, o) /\ Ahead(rank, S, o)
    /\ Counted(rank, o) /\ Visited(rank, S, o) /\ Sought(rank, o)

WalkInv ==
    \E rank \in [Node -> Int] :
        ListInvariant(rank) /\ \A h \in Conn : \E S \in SUBSET Node : Walk(rank, S, op[h])

-----------------------------------------------------------------------------
\* The nodes.
LEMMA NodeFacts ==
    /\ Anchor \in Node /\ Root \in Node /\ Null \notin Node /\ Anchor # Root
    /\ Node \subseteq Nat /\ \A k \in Node : k # Anchor /\ k # Root => k >= 2
BY ConnType DEF Anchor, Root, Null, Node

LEMMA Lowest ==
    ASSUME NEW s \in SUBSET Nat, s # {}
    PROVE  \E k \in s : \A j \in s : k <= j
<1>1. PICK k \in s : \A j \in s : ~ (<<j, k>> \in OpToRel(<, Nat))
  BY WFMin, NatLessThanWellFounded
<1>2. ASSUME NEW j \in s PROVE k <= j
  <2>1. j < k => <<j, k>> \in OpToRel(<, Nat)
    <3>. SUFFICES ASSUME j < k PROVE <<j, k>> \in {ss \in Nat \X Nat : ss[1] < ss[2]}
      BY DEF OpToRel
    <3>. QED OBVIOUS
  <2>2. ~ (j < k)
    BY <1>1, <2>1, Zenon
  <2>. QED BY <2>2
<1>. QED BY <1>2

\* Of some nodes, one is first and one is last.
LEMMA FirstNode ==
    ASSUME NEW nx, NEW rank \in [Node -> Int], NEW max \in Int, Rising(nx, rank, max),
           NEW B \in SUBSET Node, B # {}
    PROVE  \E x \in B : \A y \in B : rank[x] <= rank[y]
<1>. DEFINE D == {rank[x] + 2 : x \in B}
<1>1. D \in SUBSET Nat /\ D # {}
  BY DEF Rising
<1>2. PICK d \in D : \A e \in D : d <= e
  BY <1>1, Lowest
<1>3. PICK x \in B : d = rank[x] + 2
  OBVIOUS
<1>4. ASSUME NEW y \in B PROVE rank[x] <= rank[y]
  <2>1. rank[y] + 2 \in D
    OBVIOUS
  <2>. QED BY <1>2, <1>3, <2>1
<1>. QED BY <1>4

LEMMA LastNode ==
    ASSUME NEW nx, NEW rank \in [Node -> Int], NEW max \in Int, Rising(nx, rank, max),
           NEW B \in SUBSET Node, B # {}
    PROVE  \E x \in B : \A y \in B : rank[y] <= rank[x]
<1>. DEFINE D == {max - rank[x] : x \in B}
<1>1. D \in SUBSET Nat /\ D # {}
  BY DEF Rising
<1>2. PICK d \in D : \A e \in D : d <= e
  BY <1>1, Lowest
<1>3. PICK x \in B : d = max - rank[x]
  OBVIOUS
<1>4. ASSUME NEW y \in B PROVE rank[y] <= rank[x]
  <2>1. d <= max - rank[y] /\ rank[x] \in Int /\ rank[y] \in Int
    BY <1>2
  <2>. QED BY <1>3, <2>1
<1>. QED BY <1>4

-----------------------------------------------------------------------------
(***************************************************************************)
(* Following next from a node: p is what one goes through.                 *)
(***************************************************************************)
Path(nx, p, x) ==
    /\ p \in Seq(Node) /\ p # <<>> /\ p[1] = x
    /\ \A i \in 1 .. Len(p) - 1 : nx[p[i]] = p[i + 1]
    /\ nx[p[Len(p)]] = Null

LEMMA PathEnds ==
    ASSUME NEW nx \in [Node -> Node \cup {Null}], NEW x \in Node, nx[x] = Null
    PROVE  Path(nx, <<x>>, x) /\ \A p : Path(nx, p, x) => p = <<x>>
<1>1. Path(nx, <<x>>, x)
  BY DEF Path
<1>2. ASSUME NEW p, Path(nx, p, x) PROVE p = <<x>>
  <2>1. p \in Seq(Node) /\ Len(p) \in Nat /\ Len(p) > 0 /\ p[1] = x
    BY <1>2 DEF Path
  <2>2. ASSUME Len(p) # 1 PROVE FALSE
    <3>1. Len(p) >= 2
      <4>1. \A n \in Nat : n > 0 /\ n # 1 => n >= 2
        OBVIOUS
      <4>. QED BY <2>1, <2>2, <4>1, Zenon
    <3>2. nx[p[1]] = p[1 + 1] /\ p[2] \in Node
      BY <1>2, <2>1, <3>1 DEF Path
    <3>. QED BY <2>1, <3>2, NodeFacts
  <2>3. <<x>> \in Seq(Node) /\ Len(<<x>>) = 1 /\ <<x>>[1] = x
    OBVIOUS
  <2>. QED BY <2>1, <2>2, <2>3, SeqEqual
<1>. QED BY <1>1, <1>2

LEMMA PathGoesOn ==
    ASSUME NEW nx \in [Node -> Node \cup {Null}], NEW x \in Node, nx[x] # Null
    PROVE  /\ \A q : Path(nx, q, nx[x]) => Path(nx, <<x>> \o q, x)
           /\ \A p : Path(nx, p, x) => \E q : Path(nx, q, nx[x]) /\ p = <<x>> \o q
<1>1. ASSUME NEW q, Path(nx, q, nx[x]) PROVE Path(nx, <<x>> \o q, x)
  <2>. DEFINE p == <<x>> \o q
  <2>1. q \in Seq(Node) /\ Len(q) \in Nat /\ Len(q) > 0 /\ q[1] = nx[x]
    BY <1>1 DEF Path
  <2>2. /\ p \in Seq(Node) /\ Len(p) = Len(q) + 1 /\ p[1] = x
        /\ \A i \in 1 .. Len(q) : p[i + 1] = q[i]
    <3>1. <<x>> \in Seq(Node) /\ Len(<<x>>) = 1 /\ <<x>>[1] = x
      OBVIOUS
    <3>2. /\ p \in Seq(Node) /\ Len(p) = 1 + Len(q)
          /\ \A i \in 1 .. 1 + Len(q) : p[i] = IF i <= 1 THEN <<x>>[i] ELSE q[i - 1]
      BY <2>1, <3>1, ConcatProperties
    <3>. HIDE DEF p
    <3>. QED BY <2>1, <3>1, <3>2
  <2>. HIDE DEF p
  <2>3. ASSUME NEW i \in 1 .. Len(p) - 1 PROVE nx[p[i]] = p[i + 1]
    <3>1. CASE i = 1
      BY <2>1, <2>2, <3>1
    <3>2. CASE i # 1
      <4>1. i - 1 \in 1 .. Len(q) - 1 /\ i - 1 \in 1 .. Len(q) /\ i \in 1 .. Len(q)
            /\ (i - 1) + 1 = i
        BY <2>1, <2>2, <3>2
      <4>2. nx[q[i - 1]] = q[i]
        BY <1>1, <4>1 DEF Path
      <4>. QED BY <2>2, <4>1, <4>2
    <3>. QED BY <3>1, <3>2
  <2>4. p # <<>> /\ nx[p[Len(p)]] = Null
    <3>1. Len(q) \in 1 .. Len(q)
      BY <2>1
    <3>. QED BY <1>1, <2>1, <2>2, <3>1 DEF Path
  <2>5. p \in Seq(Node) /\ p # <<>> /\ p[1] = x
    BY <2>2, <2>4, Zenon
  <2>6. Path(nx, p, x)
    BY <2>3, <2>4, <2>5, Zenon DEF Path
  <2>. QED BY <2>6 DEF p
<1>2. ASSUME NEW p, Path(nx, p, x) PROVE \E q : Path(nx, q, nx[x]) /\ p = <<x>> \o q
  <2>. DEFINE q == Tail(p)
  <2>1. p \in Seq(Node) /\ Len(p) \in Nat /\ Len(p) > 0 /\ p[1] = x
    BY <1>2 DEF Path
  <2>2. Len(p) > 1
    <3>1. nx[p[Len(p)]] = Null
      BY <1>2 DEF Path
    <3>2. Len(p) # 1
      BY <2>1, <3>1
    <3>3. \A n \in Nat : n > 0 /\ n # 1 => n > 1
      OBVIOUS
    <3>. QED BY <2>1, <3>2, <3>3, Zenon
  <2>3. /\ q \in Seq(Node) /\ Len(q) = Len(p) - 1
        /\ \A i \in 1 .. Len(q) : q[i] = p[i + 1]
    BY <2>1
  <2>4. p = <<x>> \o q
    <3>1. /\ <<x>> \in Seq(Node) /\ Len(<<x>>) = 1 /\ <<x>>[1] = x
      OBVIOUS
    <3>2. /\ <<x>> \o q \in Seq(Node) /\ Len(<<x>> \o q) = 1 + Len(q)
          /\ \A i \in 1 .. 1 + Len(q) : (<<x>> \o q)[i] = IF i <= 1 THEN <<x>>[i] ELSE q[i - 1]
      BY <2>3, <3>1, ConcatProperties
    <3>. HIDE DEF q
    <3>3. ASSUME NEW i \in 1 .. Len(p) PROVE p[i] = (<<x>> \o q)[i]
      BY <2>1, <2>3, <3>1, <3>2
    <3>4. Len(p) = Len(<<x>> \o q)
      BY <2>1, <2>3, <3>2
    <3>. QED BY <2>1, <3>2, <3>3, <3>4, SeqEqual
  <2>. HIDE DEF q
  <2>5. q # <<>> /\ q[1] = nx[x]
    <3>1. 1 \in 1 .. Len(p) - 1 /\ 1 \in 1 .. Len(q)
      BY <2>1, <2>2, <2>3
    <3>2. nx[p[1]] = p[1 + 1] /\ q[1] = p[1 + 1]
      BY <1>2, <2>3, <3>1 DEF Path
    <3>. QED BY <2>1, <2>2, <2>3, <3>2
  <2>6. ASSUME NEW i \in 1 .. Len(q) - 1 PROVE nx[q[i]] = q[i + 1]
    <3>1. i \in 1 .. Len(q) /\ i + 1 \in 1 .. Len(q) /\ i + 1 \in 1 .. Len(p) - 1
      BY <2>1, <2>3
    <3>2. nx[p[i + 1]] = p[(i + 1) + 1]
      BY <1>2, <3>1 DEF Path
    <3>. QED BY <2>3, <3>1, <3>2
  <2>7. nx[q[Len(q)]] = Null
    <3>1. Len(q) \in 1 .. Len(q) /\ Len(q) + 1 = Len(p)
      BY <2>1, <2>2, <2>3
    <3>2. q[Len(q)] = p[Len(p)]
      BY <2>3, <3>1
    <3>. QED BY <1>2, <3>2 DEF Path
  <2>. QED BY <2>3, <2>4, <2>5, <2>6, <2>7 DEF Path
<1>. QED BY <1>1, <1>2

LEMMA OnePath ==
    ASSUME NEW nx \in [Node -> Node \cup {Null}],
           NEW rank \in [Node -> Int], NEW max \in Int, Rising(nx, rank, max),
           NEW x \in Node
    PROVE  \E p : Path(nx, p, x) /\ \A q : Path(nx, q, x) => q = p
<1>. DEFINE Has(y) == \E p : Path(nx, p, y) /\ \A q : Path(nx, q, y) => q = p
            B == {y \in Node : ~ Has(y)}
<1>1. SUFFICES ASSUME B # {} PROVE FALSE
  OBVIOUS
<1>2. PICK y \in B : \A z \in B : rank[z] <= rank[y]
  BY <1>1, LastNode
<1>3. CASE nx[y] = Null
  <2>1. Has(y)
    BY <1>3, PathEnds
  <2>. QED BY <2>1
<1>4. CASE nx[y] # Null
  <2>1. nx[y] \in Node /\ rank[y] < rank[nx[y]] /\ rank[y] \in Int /\ rank[nx[y]] \in Int
    BY <1>4 DEF Rising
  <2>2. nx[y] \notin B
    BY <1>2, <2>1
  <2>3. Has(nx[y])
    BY <2>1, <2>2
  <2>4. PICK p : Path(nx, p, nx[y]) /\ \A q : Path(nx, q, nx[y]) => q = p
    BY <2>3
  <2>5. Path(nx, <<y>> \o p, y)
    BY <1>4, <2>4, PathGoesOn
  <2>6. ASSUME NEW q, Path(nx, q, y) PROVE q = <<y>> \o p
    BY <1>4, <2>4, <2>6, PathGoesOn
  <2>. QED BY <2>5, <2>6
<1>. QED BY <1>3, <1>4

(***************************************************************************)
(* The function Chain, for any next.                                       *)
(***************************************************************************)
ChainOf(nx) ==
    CHOOSE f : f = [n \in Node |-> <<n>> \o (IF nx[n] = Null THEN <<>> ELSE f[nx[n]])]
LinkedBy(nx) == ToSet(ChainOf(nx)[Anchor])

LEMMA ChainIs == Chain = ChainOf(next) /\ Linked = LinkedBy(next)
BY DEF Chain, ChainOf, Linked, LinkedBy

LEMMA ChainIsPath ==
    ASSUME NEW nx \in [Node -> Node \cup {Null}],
           NEW rank \in [Node -> Int], NEW max \in Int, Rising(nx, rank, max),
           NEW x \in Node
    PROVE  Path(nx, ChainOf(nx)[x], x)
<1>. DEFINE F == [n \in Node |-> CHOOSE p : Path(nx, p, n)]
            Next1(f) == [n \in Node |-> <<n>> \o (IF nx[n] = Null THEN <<>> ELSE f[nx[n]])]
            C == ChainOf(nx)
            B == {y \in Node : ~ Path(nx, C[y], y)}
<1>1. \A n \in Node : Path(nx, F[n], n) /\ \A q : Path(nx, q, n) => q = F[n]
  <2>. SUFFICES ASSUME NEW n \in Node
                PROVE  Path(nx, F[n], n) /\ \A q : Path(nx, q, n) => q = F[n]
    OBVIOUS
  <2>1. PICK p : Path(nx, p, n) /\ \A q : Path(nx, q, n) => q = p
    BY OnePath
  <2>. QED BY <2>1
<1>. HIDE DEF F
<1>2. F = Next1(F)
  <2>1. ASSUME NEW n \in Node
        PROVE  F[n] = <<n>> \o (IF nx[n] = Null THEN <<>> ELSE F[nx[n]])
    <3>1. CASE nx[n] = Null
      <4>1. F[n] = <<n>>
        BY <1>1, <3>1, PathEnds
      <4>2. <<n>> \o <<>> = <<n>>
        OBVIOUS
      <4>. QED BY <3>1, <4>1, <4>2
    <3>2. CASE nx[n] # Null
      <4>1. nx[n] \in Node
        BY <3>2
      <4>2. Path(nx, <<n>> \o F[nx[n]], n)
        BY <1>1, <3>2, <4>1, PathGoesOn
      <4>3. F[n] = <<n>> \o F[nx[n]]
        BY <1>1, <4>2
      <4>. QED BY <3>2, <4>3
    <3>. QED BY <3>1, <3>2
  <2>2. F = [n \in Node |-> F[n]]
    BY DEF F
  <2>. QED BY <2>1, <2>2
<1>3. C = Next1(C)
  BY <1>2 DEF ChainOf
<1>. HIDE DEF C
<1>4. \A n \in Node : C[n] = <<n>> \o (IF nx[n] = Null THEN <<>> ELSE C[nx[n]])
  BY <1>3
<1>5. SUFFICES ASSUME B # {} PROVE FALSE
  BY DEF C
<1>6. PICK y \in B : \A z \in B : rank[z] <= rank[y]
  BY <1>5, LastNode
<1>7. CASE nx[y] = Null
  <2>1. C[y] = <<y>> \o <<>>
    BY <1>4, <1>7, Zenon
  <2>2. <<y>> \o <<>> = <<y>>
    OBVIOUS
  <2>. QED BY <1>7, <2>1, <2>2, PathEnds
<1>8. CASE nx[y] # Null
  <2>1. nx[y] \in Node /\ rank[y] < rank[nx[y]] /\ rank[y] \in Int /\ rank[nx[y]] \in Int
    BY <1>8 DEF Rising
  <2>2. Path(nx, C[nx[y]], nx[y])
    BY <1>6, <2>1
  <2>3. Path(nx, <<y>> \o C[nx[y]], y)
    BY <1>8, <2>2, PathGoesOn
  <2>4. C[y] = <<y>> \o C[nx[y]]
    BY <1>4, <1>8
  <2>. QED BY <2>3, <2>4
<1>. QED BY <1>7, <1>8

\* What is reached from Anchor: the list.
LEMMA LinkedFacts ==
    ASSUME NEW nx \in [Node -> Node \cup {Null}],
           NEW rank \in [Node -> Int], NEW max \in Int, Rising(nx, rank, max)
    PROVE  /\ Anchor \in LinkedBy(nx) /\ LinkedBy(nx) \subseteq Node
           /\ \A k \in LinkedBy(nx) : nx[k] # Null => nx[k] \in LinkedBy(nx)
           /\ \A x \in LinkedBy(nx) \ {Anchor} : \E k \in LinkedBy(nx) : nx[k] = x
           /\ Last(ChainOf(nx)[Anchor]) \in LinkedBy(nx)
           /\ nx[Last(ChainOf(nx)[Anchor])] = Null
<1>. DEFINE p == ChainOf(nx)[Anchor]
            L == {p[i] : i \in 1 .. Len(p)}
<1>1. Path(nx, p, Anchor)
  BY NodeFacts, ChainIsPath
<1>. HIDE DEF p
<1>2. p \in Seq(Node) /\ Len(p) \in Nat /\ Len(p) > 0 /\ p[1] = Anchor
  BY <1>1 DEF Path
<1>3. LinkedBy(nx) = L
  BY <1>2 DEF LinkedBy, ToSet, p
<1>4. \A i \in 1 .. Len(p) : p[i] \in L /\ p[i] \in Node
  BY <1>2
<1>5. 1 \in 1 .. Len(p) /\ Len(p) \in 1 .. Len(p)
  BY <1>2
<1>6. Anchor \in L /\ L \subseteq Node
  BY <1>2, <1>4, <1>5
<1>7. Last(p) = p[Len(p)] /\ nx[p[Len(p)]] = Null
  BY <1>1 DEF Last, Path
<1>8. ASSUME NEW k \in L, nx[k] # Null PROVE nx[k] \in L
  <2>1. PICK i \in 1 .. Len(p) : k = p[i]
    OBVIOUS
  <2>2. i # Len(p)
    BY <1>7, <1>8, <2>1
  <2>3. i \in 1 .. Len(p) - 1 /\ i + 1 \in 1 .. Len(p)
    BY <1>2, <2>2
  <2>4. nx[p[i]] = p[i + 1]
    BY <1>1, <2>3 DEF Path
  <2>. QED BY <1>4, <2>1, <2>3, <2>4
<1>9. ASSUME NEW x \in L \ {Anchor} PROVE \E k \in L : nx[k] = x
  <2>1. PICK i \in 1 .. Len(p) : x = p[i]
    OBVIOUS
  <2>2. i # 1
    BY <1>2, <2>1
  <2>3. i - 1 \in 1 .. Len(p) - 1 /\ i - 1 \in 1 .. Len(p) /\ (i - 1) + 1 = i
    BY <1>2, <2>2
  <2>4. nx[p[i - 1]] = p[i]
    BY <1>1, <2>3 DEF Path
  <2>. QED BY <1>4, <2>1, <2>3, <2>4
<1>. HIDE DEF L
<1>. QED BY <1>3, <1>4, <1>5, <1>6, <1>7, <1>8, <1>9 DEF p

\* Nothing else is: a set that next does not lead out of, and into which only
\* Anchor comes from nowhere.
LEMMA LinkedIs ==
    ASSUME NEW nx \in [Node -> Node \cup {Null}],
           NEW rank \in [Node -> Int], NEW max \in Int, Rising(nx, rank, max),
           NEW S \in SUBSET Node, Anchor \in S,
           \A k \in S : nx[k] # Null => nx[k] \in S,
           \A x \in S \ {Anchor} : \E k \in S : nx[k] = x
    PROVE  LinkedBy(nx) = S
<1>. DEFINE L == LinkedBy(nx)
<1>1. /\ Anchor \in L /\ L \subseteq Node
      /\ \A k \in L : nx[k] # Null => nx[k] \in L
      /\ \A x \in L \ {Anchor} : \E k \in L : nx[k] = x
  BY LinkedFacts
<1>. HIDE DEF L
<1>2. ASSUME NEW A \in SUBSET Node, NEW B \in SUBSET Node, Anchor \in B,
             \A k \in B : nx[k] # Null => nx[k] \in B,
             \A x \in A \ {Anchor} : \E k \in A : nx[k] = x,
             A \ B # {}
      PROVE  FALSE
  <2>1. PICK x \in A \ B : \A y \in A \ B : rank[x] <= rank[y]
    BY <1>2, FirstNode
  <2>2. PICK k \in A : nx[k] = x
    BY <1>2, <2>1
  <2>3. nx[k] # Null /\ rank[k] < rank[x] /\ rank[k] \in Int /\ rank[x] \in Int
    BY <2>1, <2>2, NodeFacts DEF Rising
  <2>4. k \notin B
    BY <1>2, <2>1, <2>2, <2>3
  <2>. QED BY <2>1, <2>3, <2>4
<1>3. L \ S = {} /\ S \ L = {}
  BY <1>1, <1>2
<1>. QED BY <1>3 DEF L

-----------------------------------------------------------------------------
(***************************************************************************)
(* The list                                                                *)
(***************************************************************************)

\* The node of a client that is listed.
LEMMA ListFacts ==
    ASSUME IndInv, NEW rank \in [Node -> Int], ListInvariant(rank)
    PROVE  /\ Anchor \in Linked /\ Linked \subseteq Node
           /\ \A k \in Linked : next[k] # Null => next[k] \in Linked
           /\ \A x \in Linked \ {Anchor} : \E k \in Linked : next[k] = x
           /\ Last(Chain[Anchor]) \in Linked /\ next[Last(Chain[Anchor])] = Null
           /\ \A k \in Linked : rank[k] \in -1 .. accepted
           /\ \A k \in Linked : rank[k] \in Conn <=> k \notin {Anchor, Root}
<1>1. /\ next \in [Node -> Node \cup {Null}] /\ accepted \in Int
      /\ Rising(next, rank, accepted)
  BY ConnType DEF IndInv, TypeOK, ListInvariant
<1>2. /\ Anchor \in Linked /\ Linked \subseteq Node
      /\ \A k \in Linked : next[k] # Null => next[k] \in Linked
      /\ \A x \in Linked \ {Anchor} : \E k \in Linked : next[k] = x
      /\ Last(Chain[Anchor]) \in Linked /\ next[Last(Chain[Anchor])] = Null
  BY <1>1, LinkedFacts, ChainIs
<1>3. \A k \in Linked : rank[k] \in Conn <=> k \notin {Anchor, Root}
  BY <1>2, ConnType DEF ListInvariant, ListOrder, Conn
<1>4. \A k \in Linked : rank[k] \in -1 .. accepted
  BY <1>1, <1>2, <1>3 DEF ListInvariant, ListOrder, Rising, Conn
<1>. QED BY <1>2, <1>3, <1>4

LEMMA ListedFacts ==
    ASSUME IndInv, NEW rank \in [Node -> Int], ListInvariant(rank)
    PROVE  /\ Listed \subseteq Conn
           /\ \A c \in Listed : c <= accepted /\ \E k \in Linked : rank[k] = c
           /\ \A k \in Linked : rank[k] \in Conn =>
                /\ rank[k] \in Listed /\ conn[k] = rank[k]
                /\ fd[k] \in Fd /\ fd[k] = fdOf[rank[k]] /\ file[fd[k]] = rank[k]
<1>1. Listed = {conn[n] : n \in Linked} \cap Conn
  BY DEF Listed, Linked
<1>2. ASSUME NEW c \in Listed PROVE c <= accepted /\ \E k \in Linked : rank[k] = c
  <2>1. PICK k \in Linked : conn[k] = c
    BY <1>1
  <2>2. c \in Conn /\ k # Anchor
    BY <1>1, <2>1, ConnType DEF ListInvariant, ListOrder, Conn, None
  <2>3. rank[k] = c
    BY <2>1, <2>2 DEF ListInvariant, ListOrder
  <2>4. rank[k] \in -1 .. accepted
    BY ListFacts
  <2>. QED BY <2>3, <2>4
<1>3. ASSUME NEW k \in Linked, rank[k] \in Conn
      PROVE  /\ rank[k] \in Listed /\ conn[k] = rank[k]
             /\ fd[k] \in Fd /\ fd[k] = fdOf[rank[k]] /\ file[fd[k]] = rank[k]
  <2>1. k \notin {Anchor, Root}
    BY <1>3, ListFacts
  <2>. QED BY <1>1, <1>3, <2>1 DEF ListInvariant, ListOrder
<1>. QED BY <1>1, <1>2, <1>3

LEMMA LinkedStays == UNCHANGED next => Linked' = Linked
BY DEF Linked, Chain

LEMMA ListedStays == UNCHANGED <<next, conn>> => Linked' = Linked /\ Listed' = Listed
BY DEF Linked, Listed, Chain

LEMMA HandlerList ==
    ASSUME NEW rank, ListInvariant(rank), UNCHANGED <<list, process, main>>
    PROVE  ListInvariant(rank)'
<1>1. /\ UNCHANGED <<next, fd, conn, used, cache, file, fdOf, accepted, serving, main>>
      /\ Linked' = Linked /\ Listed' = Listed
  BY ListedStays DEF list, process
<1>. QED BY <1>1 DEF ListInvariant, ListOrder, Outside, Dealt, Arriving

LEMMA AcceptList ==
    ASSUME IndInv, NEW rank \in [Node -> Int], ListInvariant(rank), Accept
    PROVE  ListInvariant(rank)'
<1>1. /\ UNCHANGED <<next, fd, conn, used, cache, serving>> /\ main.at = "poll"
      /\ Linked' = Linked /\ Listed' = Listed
  BY ListedStays DEF Accept, list
<1>2. PICK f \in Fd : /\ file[f] = None
                      /\ file' = [file EXCEPT ![f] = accepted + 1]
                      /\ fdOf' = [fdOf EXCEPT ![accepted + 1] = f]
  BY DEF Accept
<1>3. /\ accepted' = accepted + 1 /\ accepted \in Nat /\ accepted + 1 \in Conn
      /\ main' = [at |-> "fill", c |-> accepted + 1, node |-> Null]
  BY ConnType DEF Accept, IndInv, TypeOK, Conn
<1>4. /\ \A g \in Fd : g # f => file'[g] = file[g]
      /\ \A c \in Conn : c # accepted + 1 => fdOf'[c] = fdOf[c]
      /\ file'[f] = accepted + 1 /\ fdOf'[accepted + 1] = f
  BY <1>2, <1>3 DEF IndInv, TypeOK
<1>5. /\ Linked \subseteq Node /\ Listed \subseteq Conn /\ accepted + 1 \notin Listed
      /\ \A k \in Linked : rank[k] \in Conn <=> k \notin {Anchor, Root}
      /\ \A c \in Listed : c <= accepted
  BY <1>3, ListFacts, ListedFacts
<1>6. Rising(next, rank, accepted)'
  BY <1>1, <1>3 DEF ListInvariant, Rising
<1>7. ListOrder(rank)'
  <2>1. ASSUME NEW k \in Linked \ {Anchor, Root}
        PROVE  fd[k] = fdOf'[conn[k]] /\ file'[fd[k]] = conn[k]
    <3>1. /\ conn[k] \in Conn /\ fd[k] \in Fd /\ fd[k] = fdOf[conn[k]] /\ file[fd[k]] = conn[k]
          /\ conn[k] \in Listed
      BY <1>5, ListedFacts DEF ListInvariant, ListOrder
    <3>2. fd[k] # f /\ conn[k] # accepted + 1
      BY <1>2, <1>5, <3>1 DEF Conn, None
    <3>. QED BY <1>4, <3>1, <3>2
  <2>. QED BY <1>1, <2>1 DEF ListInvariant, ListOrder
<1>8. Outside(rank)'
  BY <1>1, <1>3 DEF ListInvariant, Outside
<1>9. Dealt(rank)'
  <2>1. ASSUME NEW c \in serving PROVE fdOf'[c] \in Fd /\ file'[fdOf'[c]] = c
    <3>1. c \in Conn /\ c # accepted + 1
      BY <1>3, ConnType DEF IndInv, TypeOK, Conn
    <3>2. fdOf[c] \in Fd /\ file[fdOf[c]] = c
      BY DEF ListInvariant, Dealt
    <3>. QED BY <1>2, <1>4, <3>1, <3>2 DEF Conn, None
  <2>2. \A k \in Node : rank[k] < accepted + 1
    BY <1>3 DEF ListInvariant, Rising
  <2>. QED BY <1>1, <1>3, <1>4, <1>5, <2>1, <2>2 DEF Dealt, Arriving
<1>. QED BY <1>6, <1>7, <1>8, <1>9 DEF ListInvariant

LEMMA FillWelcomeList ==
    ASSUME IndInv, NEW rank \in [Node -> Int], ListInvariant(rank), Fill \/ Welcome
    PROVE  ListInvariant(rank)'
<1>1. /\ UNCHANGED <<next, fd, conn, used, cache, file, fdOf, accepted, serving>>
      /\ Linked' = Linked /\ Listed' = Listed
  BY ListedStays DEF Fill, Welcome, list, process
<1>2. /\ main.at \in {"fill", "welcome"} /\ main'.at \in {"fill", "welcome", "list"}
      /\ main'.c = main.c
  BY DEF Fill, Welcome, IndInv, TypeOK
<1>. QED BY <1>1, <1>2 DEF ListInvariant, ListOrder, Outside, Dealt, Arriving

LEMMA CloseList ==
    ASSUME IndInv, NEW rank \in [Node -> Int], ListInvariant(rank), Close
    PROVE  /\ ListInvariant(rank)' /\ main.c \notin Listed
           /\ \A c \in Listed : fdOf[c] # fdOf[main.c]
<1>. DEFINE f == fdOf[main.c]
<1>1. /\ UNCHANGED <<next, fd, conn, used, cache, fdOf, accepted>> /\ main.at = "close"
      /\ Linked' = Linked /\ Listed' = Listed
      /\ file' = [file EXCEPT ![f] = None] /\ serving' = serving \ {main.c}
      /\ main' = Idle
  BY ListedStays DEF Close, list
<1>2. f \in Fd /\ file[f] = main.c /\ main.c \notin Listed
  BY <1>1 DEF ListInvariant, Dealt
<1>3. \A g \in Fd : g # f => file'[g] = file[g]
  BY <1>1 DEF IndInv, TypeOK
<1>4. ASSUME NEW k \in Linked \ {Anchor, Root}
      PROVE  fd[k] # f /\ file'[fd[k]] = conn[k]
  <2>1. /\ fd[k] \in Fd /\ file[fd[k]] = conn[k] /\ conn[k] \in Listed
    BY ListFacts, ListedFacts DEF ListInvariant, ListOrder
  <2>. QED BY <1>2, <1>3, <2>1
<1>5. ASSUME NEW c \in Listed PROVE fdOf[c] # f
  BY <1>4, ListFacts, ListedFacts
<1>6. ListOrder(rank)'
  BY <1>1, <1>4 DEF ListInvariant, ListOrder
<1>7. Outside(rank)'
  BY <1>1 DEF ListInvariant, Outside, Idle
<1>8. Dealt(rank)'
  <2>1. ASSUME NEW c \in serving \ {main.c} PROVE fdOf[c] \in Fd /\ file'[fdOf[c]] = c
    BY <1>2, <1>3 DEF ListInvariant, Dealt
  <2>. QED BY <1>1, <2>1 DEF Dealt, Arriving, Idle
<1>. QED BY <1>1, <1>2, <1>5, <1>6, <1>7, <1>8 DEF ListInvariant

LEMMA ReleaseList ==
    ASSUME IndInv, NEW rank \in [Node -> Int], ListInvariant(rank), Release
    PROVE  ListInvariant(rank)' /\ Linked' = Linked /\ Listed' = Listed
<1>1. /\ UNCHANGED <<next, used, file, fdOf, accepted, serving>> /\ main.at = "free"
      /\ fd' = [fd EXCEPT ![main.node] = JunkFd] /\ conn' = [conn EXCEPT ![main.node] = Junk]
      /\ cache' = <<main.node>> \o cache
      /\ main'.at = "close" /\ main'.c = main.c
  BY DEF Release, process, IndInv, TypeOK
<1>2. main.node \in Node /\ main.node \in 2 .. used /\ main.node \notin Linked
  BY <1>1 DEF IndInv, MainInv, ListInvariant, Outside
<1>3. /\ Linked' = Linked /\ Linked \subseteq Node /\ Anchor \in Linked
      /\ \A k \in Node \ {main.node} : fd'[k] = fd[k] /\ conn'[k] = conn[k]
      /\ fd'[main.node] = JunkFd
  BY <1>1, <1>2, LinkedStays, ListFacts DEF IndInv, TypeOK
<1>4. Listed' = Listed
  <2>1. Listed = {conn[n] : n \in Linked} \cap Conn /\ Listed' = {conn'[n] : n \in Linked'} \cap Conn
    BY DEF Listed, Linked
  <2>. QED BY <1>2, <1>3, <2>1
<1>5. main.node \notin {Anchor, Root}
  BY <1>2 DEF Anchor, Root
<1>6. ListOrder(rank)'
  BY <1>1, <1>2, <1>3, <1>5 DEF ListInvariant, ListOrder
<1>7. Outside(rank)'
  <2>. DEFINE n == main.node
  <2>1. cache \in Seq(Node) /\ cache' \in Seq(Node)
    BY <1>1, <1>2 DEF IndInv, TypeOK
  <2>2. \A m \in DOMAIN cache' :
            \/ cache'[m] = n /\ m = 1
            \/ m - 1 \in DOMAIN cache /\ m # 1 /\ cache'[m] = cache[m - 1]
    <3>1. <<n>> \in Seq(Node) /\ Len(<<n>>) = 1 /\ <<n>>[1] = n
      BY <1>2
    <3>2. /\ Len(cache') = 1 + Len(cache) /\ Len(cache) \in Nat
          /\ \A m \in 1 .. 1 + Len(cache) :
                cache'[m] = IF m <= 1 THEN <<n>>[m] ELSE cache[m - 1]
      BY <1>1, <2>1, <3>1, ConcatProperties
    <3>3. DOMAIN cache' = 1 .. 1 + Len(cache) /\ DOMAIN cache = 1 .. Len(cache)
      BY <2>1, <3>2
    <3>. HIDE DEF n
    <3>4. ASSUME NEW m \in 1 .. 1 + Len(cache)
          PROVE  \/ cache'[m] = n /\ m = 1
                 \/ m - 1 \in 1 .. Len(cache) /\ m # 1 /\ cache'[m] = cache[m - 1]
      <4>1. cache'[m] = IF m <= 1 THEN <<n>>[m] ELSE cache[m - 1]
        BY <3>2
      <4>2. CASE m = 1
        BY <3>1, <4>1, <4>2
      <4>3. CASE m # 1
        <5>1. m - 1 \in 1 .. Len(cache) /\ ~ (m <= 1)
          BY <3>2, <4>3
        <5>. QED BY <4>1, <4>3, <5>1
      <4>. QED BY <4>2, <4>3
    <3>. QED BY <3>3, <3>4
  <2>3. \A m \in DOMAIN cache' : m \in Int
    BY <2>1
  <2>. HIDE DEF n
  <2>4. \A m \in DOMAIN cache : cache[m] \in 2 .. used /\ cache[m] \notin Linked /\ cache[m] # n
    BY <1>1 DEF ListInvariant, Outside, n
  <2>5. \A m \in DOMAIN cache' : cache'[m] \in 2 .. used /\ cache'[m] \notin Linked
    BY <1>2, <2>2, <2>4 DEF n
  <2>6. ASSUME NEW m1 \in DOMAIN cache', NEW m2 \in DOMAIN cache', cache'[m1] = cache'[m2]
        PROVE  m1 = m2
    <3>1. \A m, l \in DOMAIN cache : cache[m] = cache[l] => m = l
      BY DEF ListInvariant, Outside
    <3>. QED BY <2>2, <2>3, <2>4, <2>6, <3>1
  <2>7. \A k \in Node \ Linked : fd'[k] \notin Fd
    BY <1>1, <1>3 DEF ListInvariant, Outside, Fd, JunkFd
  <2>8. /\ Linked \subseteq 0 .. used /\ \A k \in 0 .. used : rank[k] >= -1
    BY DEF ListInvariant, Outside
  <2>. QED BY <1>1, <1>3, <2>5, <2>6, <2>7, <2>8 DEF Outside
<1>8. Dealt(rank)'
  BY <1>1, <1>4 DEF ListInvariant, Dealt, Arriving
<1>9. Rising(next, rank, accepted)'
  BY <1>1 DEF ListInvariant, Rising
<1>. QED BY <1>3, <1>4, <1>6, <1>7, <1>8, <1>9 DEF ListInvariant

\* addNode: the node was not listed, and none has a rank like that of the client.
LEMMA ListList ==
    ASSUME IndInv, NEW rank \in [Node -> Int], ListInvariant(rank), List
    PROVE  \E n \in Node \ Linked, c \in Conn :
              /\ main.c = c /\ \A k \in Node : rank[k] < c
              /\ cache = <<>> => n = used + 1
              /\ next' = [next EXCEPT ![n] = Null] /\ used <= used'
              /\ Linked' = Linked /\ Listed' = Listed
              /\ ListInvariant([rank EXCEPT ![n] = c])'
<1>1. /\ UNCHANGED <<file, fdOf, accepted, serving>> /\ main.at = "list"
      /\ accepted \in Nat /\ used \in Nat /\ cache \in Seq(Node)
  BY ConnType DEF List, process, IndInv, TypeOK, Node
<1>2. PICK n \in Node :
            /\ n = IF cache = <<>> THEN used + 1 ELSE Head(cache)
            /\ next' = [next EXCEPT ![n] = Null]
            /\ fd' = [fd EXCEPT ![n] = fdOf[main.c]] /\ conn' = [conn EXCEPT ![n] = main.c]
            /\ main' = [main EXCEPT !.at = "link", !.node = n]
  <2>1. (IF cache = <<>> THEN used + 1 ELSE Head(cache)) \in Node
    <3>1. CASE cache = <<>>
      BY <1>1, <3>1, ConnType DEF IndInv, TypeOK, MainInv, Node
    <3>2. CASE cache # <<>>
      BY <1>1, <3>2
    <3>. QED BY <3>1, <3>2
  <2>. QED BY <2>1 DEF List
<1>3. PICK c \in Conn : c = main.c /\ c = accepted
  BY <1>1, ConnType DEF IndInv, TypeOK, MainInv, Arriving, Conn
<1>4. /\ Anchor \in Linked /\ Root \in Linked /\ Linked \subseteq Node
      /\ Linked \subseteq 0 .. used /\ used >= 1
      /\ \A k \in Linked : next[k] # Null => next[k] \in Linked
      /\ \A x \in Linked \ {Anchor} : \E k \in Linked : next[k] = x
  <2>1. Linked \subseteq 0 .. used /\ Root \in Linked
    BY DEF ListInvariant, Outside, ListOrder
  <2>2. used >= 1
    BY <1>1, <2>1 DEF Root
  <2>. QED BY <2>1, <2>2, ListFacts
<1>5. /\ n \notin Linked /\ n \in 2 .. used' /\ used <= used' /\ used' \in Nat
      /\ \A k \in used + 1 .. used' : k = n
      /\ \A m \in DOMAIN cache' : m + 1 \in DOMAIN cache /\ cache'[m] = cache[m + 1] /\ m \in Nat
      /\ \A m \in DOMAIN cache' : cache'[m] # n
  <2>1. CASE cache = <<>>
    <3>1. n = used + 1 /\ used' = used + 1 /\ cache' = <<>>
      BY <1>2, <2>1 DEF List
    <3>2. DOMAIN cache' = {}
      BY <3>1
    <3>. QED BY <1>1, <1>4, <3>1, <3>2
  <2>2. CASE cache # <<>>
    <3>1. n = cache[1] /\ used' = used /\ cache' = Tail(cache) /\ 1 \in DOMAIN cache
      BY <1>1, <1>2, <2>2 DEF List
    <3>2. n \notin Linked /\ n \in 2 .. used
      BY <3>1 DEF ListInvariant, Outside
    <3>3. \A m \in DOMAIN cache' : m + 1 \in DOMAIN cache /\ cache'[m] = cache[m + 1] /\ m \in Nat
                                   /\ m + 1 # 1
      BY <1>1, <2>2, <3>1
    <3>4. \A m, l \in DOMAIN cache : cache[m] = cache[l] => m = l
      BY DEF ListInvariant, Outside
    <3>5. \A m \in DOMAIN cache' : cache'[m] # n
      BY <3>1, <3>3, <3>4
    <3>. QED BY <1>1, <3>1, <3>2, <3>3, <3>5
  <2>. QED BY <2>1, <2>2
<1>6. /\ \A k \in Node : rank[k] < c /\ rank[k] \in -2 .. c
      /\ \A k \in Node : next[k] # Null => rank[k] < rank[next[k]] /\ next[k] \in Node
  <2>1. \A k \in Node : rank[k] < c /\ rank[k] \in -2 .. c
    BY <1>1, <1>3 DEF ListInvariant, Rising, Dealt, Arriving
  <2>. QED BY <2>1 DEF ListInvariant, Rising, IndInv, TypeOK
<1>. DEFINE r == [rank EXCEPT ![n] = c]
<1>7. /\ r \in [Node -> Int] /\ r[n] = c /\ \A k \in Node : k # n => r[k] = rank[k]
  BY <1>3 DEF Conn
<1>8. /\ next' \in [Node -> Node \cup {Null}] /\ next'[n] = Null
      /\ \A k \in Node : k # n => next'[k] = next[k]
  BY <1>2 DEF IndInv, TypeOK
<1>. HIDE DEF r
<1>9. Rising(next', r, c)
  <2>1. ASSUME NEW k \in Node, next'[k] # Null PROVE r[k] < r[next'[k]]
    <3>1. k # n /\ next'[k] = next[k] /\ r[k] = rank[k]
      BY <1>7, <1>8, <2>1
    <3>2. rank[k] < rank[next[k]] /\ next[k] \in Node /\ rank[k] < c
      BY <1>6, <2>1, <3>1
    <3>. QED BY <1>7, <3>1, <3>2
  <2>2. \A k \in Node : r[k] \in -2 .. c
    BY <1>3, <1>6, <1>7 DEF Conn
  <2>. QED BY <2>1, <2>2 DEF Rising
<1>10. Linked' = Linked
  <2>1. LinkedBy(next') = Linked
    <3>1. \A k \in Linked : next'[k] = next[k]
      BY <1>4, <1>5, <1>8
    <3>2. c \in Int
      BY DEF Conn
    <3>. QED BY <1>4, <1>7, <1>8, <1>9, <3>1, <3>2, LinkedIs
  <2>. QED BY <2>1 DEF Linked, Chain, LinkedBy, ChainOf
<1>11. /\ \A k \in Node : k # n => fd'[k] = fd[k] /\ conn'[k] = conn[k]
       /\ fd'[n] = fdOf[c] /\ conn'[n] = c
  BY <1>2, <1>3 DEF IndInv, TypeOK
<1>12. \A k \in Linked : k # n /\ k \in Node /\ r[k] = rank[k] /\ next'[k] = next[k]
                       /\ fd'[k] = fd[k] /\ conn'[k] = conn[k]
  BY <1>4, <1>5, <1>7, <1>8, <1>11
<1>13. Listed' = Listed
  <2>1. Listed = {conn[k] : k \in Linked} \cap Conn /\ Listed' = {conn'[k] : k \in Linked'} \cap Conn
    BY DEF Listed, Linked
  <2>. QED BY <1>10, <1>12, <2>1
<1>14. main'.at = "link" /\ main'.c = c /\ main'.node = n
  BY <1>2, <1>3 DEF IndInv, TypeOK
<1>15. ListOrder(r)'
  <2>1. \A k \in Node, x \in Linked : r[k] = r[x] => k = x
    <3>1. \A k \in Node, x \in Linked : rank[k] = rank[x] => k = x
      BY DEF ListInvariant, ListOrder
    <3>. QED BY <1>6, <1>7, <1>12, <3>1
  <2>2. NoGap(next', r, Linked, {r[x] : x \in Linked})
    <3>1. {r[x] : x \in Linked} = {rank[x] : x \in Linked}
      BY <1>12
    <3>2. NoGap(next, rank, Linked, {rank[x] : x \in Linked})
      BY DEF ListInvariant, ListOrder
    <3>. QED BY <1>4, <1>12, <3>1, <3>2 DEF NoGap
  <2>3. /\ r[Anchor] = -1 /\ r[Root] = 0 /\ Root \in Linked
        /\ fd'[Anchor] = 0 /\ fd'[Root] = 0 /\ conn'[Anchor] = None /\ conn'[Root] = None
    BY <1>4, <1>12 DEF ListInvariant, ListOrder
  <2>4. /\ \A k \in Linked \ {Anchor} : conn'[k] = r[k]
        /\ \A k \in Linked \ {Anchor, Root} :
              /\ conn'[k] \in Conn
              /\ fd'[k] \in Fd /\ fd'[k] = fdOf[conn'[k]] /\ file[fd'[k]] = conn'[k]
    BY <1>12 DEF ListInvariant, ListOrder
  <2>. QED BY <1>1, <1>10, <2>1, <2>2, <2>3, <2>4 DEF ListOrder
<1>16. Outside(r)'
  <2>1. \A k \in 0 .. used' : r[k] >= -1
    <3>1. \A k \in 0 .. used : rank[k] >= -1
      BY DEF ListInvariant, Outside
    <3>2. 0 .. used' \subseteq Node
      <4>1. IndInv'
        BY <1>1, ListInv
      <4>2. used' \in Node
        BY <4>1 DEF IndInv, TypeOK
      <4>. QED BY <4>2, ConnType DEF Node
    <3>3. ASSUME NEW k \in 0 .. used' PROVE r[k] >= -1
      <4>1. CASE k = n
        BY <1>7, <4>1 DEF Conn
      <4>2. CASE k # n
        <5>1. k \in 0 .. used
          <6>1. ~ (k \in used + 1 .. used')
            BY <1>5, <4>2
          <6>2. used \in Nat /\ used' \in Nat
            BY <1>1, <1>5
          <6>. QED BY <6>1, <6>2
        <5>. QED BY <1>7, <3>1, <3>2, <4>2, <5>1
      <4>. QED BY <4>1, <4>2
    <3>. QED BY <3>3
  <2>2. \A m \in DOMAIN cache : cache[m] \in 2 .. used /\ cache[m] \notin Linked
    BY DEF ListInvariant, Outside
  <2>3. \A m \in DOMAIN cache' : cache'[m] \in 2 .. used' /\ cache'[m] \notin Linked
    BY <1>1, <1>5, <2>2
  <2>4. \A m, l \in DOMAIN cache' : cache'[m] = cache'[l] => m = l
    <3>1. \A m, l \in DOMAIN cache : cache[m] = cache[l] => m = l
      BY DEF ListInvariant, Outside
    <3>2. ASSUME NEW m \in DOMAIN cache', NEW l \in DOMAIN cache', cache'[m] = cache'[l]
          PROVE  m = l
      <4>1. /\ m + 1 \in DOMAIN cache /\ cache'[m] = cache[m + 1] /\ m \in Nat
            /\ l + 1 \in DOMAIN cache /\ cache'[l] = cache[l + 1] /\ l \in Nat
        BY <1>5
      <4>2. m + 1 = l + 1
        BY <3>1, <3>2, <4>1
      <4>. QED BY <4>1, <4>2
    <3>. QED BY <3>2
  <2>5. \A k \in Node \ Linked : fd'[k] \in Fd => k = n
    BY <1>1, <1>11 DEF ListInvariant, Outside
  <2>6. Linked \subseteq 0 .. used'
    BY <1>1, <1>4, <1>5
  <2>. QED BY <1>1, <1>5, <1>10, <1>11, <1>14, <2>1, <2>3, <2>4, <2>5, <2>6 DEF Outside
<1>17. Dealt(r)'
  <2>1. /\ \A x \in serving : fdOf[x] \in Fd /\ file[fdOf[x]] = x
        /\ fdOf[c] \in Fd /\ file[fdOf[c]] = c /\ c \notin Listed
    BY <1>1, <1>3 DEF ListInvariant, Dealt
  <2>. QED BY <1>1, <1>6, <1>7, <1>8, <1>11, <1>13, <1>14, <2>1 DEF Dealt
<1>18. Rising(next, r, accepted)'
  BY <1>1, <1>3, <1>9
<1>19. ListInvariant(r)'
  BY <1>15, <1>16, <1>17, <1>18 DEF ListInvariant
<1>. QED BY <1>2, <1>3, <1>5, <1>6, <1>10, <1>13, <1>19 DEF r

\* The node is linked after the last one.
LEMMA LinkList ==
    ASSUME IndInv, NEW rank \in [Node -> Int], ListInvariant(rank), Link
    PROVE  \E n \in Node \ Linked, l \in Linked, c \in Conn :
              /\ rank[n] = c /\ c = accepted /\ c \notin Listed /\ n \in 2 .. used
              /\ \A k \in Linked : rank[k] < c
              /\ next[l] = Null /\ next[n] = Null
              /\ next' = [next EXCEPT ![l] = n]
              /\ Linked' = Linked \cup {n} /\ Listed' = Listed \cup {c}
              /\ ListInvariant(rank)'
<1>1. /\ UNCHANGED <<fd, conn, used, cache, file, fdOf, accepted>> /\ main.at = "link"
      /\ accepted \in Nat /\ main' = Idle /\ serving' = serving \cup {main.c}
  BY ConnType DEF Link, IndInv, TypeOK
<1>2. /\ Anchor \in Linked /\ Root \in Linked /\ Linked \subseteq Node
      /\ \A k \in Linked : next[k] # Null => next[k] \in Linked
      /\ \A x \in Linked \ {Anchor} : \E k \in Linked : next[k] = x
      /\ Last(Chain[Anchor]) \in Linked /\ next[Last(Chain[Anchor])] = Null
  <2>1. Root \in Linked
    BY DEF ListInvariant, ListOrder
  <2>. QED BY <2>1, ListFacts
<1>3. PICK n \in Node, l \in Linked, c \in Conn :
            /\ n = main.node /\ l = Last(Chain[Anchor]) /\ c = main.c /\ c = accepted
            /\ next' = [next EXCEPT ![l] = n] /\ next[l] = Null
  <2>1. main.node \in Node /\ main.c = accepted /\ accepted \in 1 .. accepted
    BY <1>1 DEF IndInv, MainInv, Arriving
  <2>2. main.c \in Conn
    BY <2>1, ConnType DEF IndInv, TypeOK, Conn
  <2>. QED BY <1>2, <2>1, <2>2 DEF Link
<1>4. /\ n \notin Linked /\ n \in 2 .. used /\ n \notin {Anchor, Root}
      /\ next[n] = Null /\ rank[n] = c /\ conn[n] = c /\ fd[n] = fdOf[c]
      /\ fdOf[c] \in Fd /\ file[fdOf[c]] = c /\ c \notin Listed
      /\ \A k \in Node : k # n => rank[k] < c
  <2>1. /\ n \notin Linked /\ n \in 2 .. used
        /\ next[n] = Null /\ rank[n] = c /\ conn[n] = c /\ fd[n] = fdOf[c]
        /\ fdOf[c] \in Fd /\ file[fdOf[c]] = c /\ c \notin Listed
        /\ \A k \in Node : k # n => rank[k] < c
    BY <1>1, <1>3 DEF ListInvariant, Outside, Dealt, Arriving
  <2>. QED BY <2>1 DEF Anchor, Root
<1>5. /\ next \in [Node -> Node \cup {Null}] /\ next' \in [Node -> Node \cup {Null}] /\ next'[l] = n
      /\ \A k \in Node : k # l => next'[k] = next[k]
  BY <1>2, <1>3 DEF IndInv, TypeOK
<1>6. /\ \A k \in Node : rank[k] \in -2 .. accepted /\ rank[k] \in Int
      /\ \A k \in Node : next[k] # Null => rank[k] < rank[next[k]]
  BY DEF ListInvariant, Rising
<1>7. n \in Node \ Linked /\ l \in Node /\ l # n /\ rank[l] < c
  BY <1>2, <1>4
<1>8. Rising(next', rank, accepted)
  <2>1. ASSUME NEW k \in Node, next'[k] # Null PROVE rank[k] < rank[next'[k]]
    BY <1>4, <1>5, <1>6, <1>7, <2>1
  <2>. QED BY <1>6, <2>1 DEF Rising
<1>. DEFINE L == Linked \cup {n}
<1>9. Linked' = L
  <2>1. \A k \in L : next'[k] # Null => next'[k] \in L
    BY <1>2, <1>4, <1>5
  <2>2. ASSUME NEW x \in L \ {Anchor} PROVE \E k \in L : next'[k] = x
    <3>1. CASE x = n
      BY <1>5, <3>1
    <3>2. CASE x # n
      <4>1. PICK k \in Linked : next[k] = x
        BY <1>2, <3>2
      <4>2. k # l
        BY <1>2, <1>3, <4>1, NodeFacts
      <4>. QED BY <1>2, <1>5, <4>1, <4>2
    <3>. QED BY <3>1, <3>2
  <2>3. L \in SUBSET Node /\ Anchor \in L /\ accepted \in Int
    BY <1>1, <1>2
  <2>. HIDE DEF L
  <2>4. LinkedBy(next') = L
    BY <1>5, <1>8, <2>1, <2>2, <2>3, LinkedIs
  <2>. QED BY <2>4 DEF Linked, Chain, LinkedBy, ChainOf
<1>10. Listed' = Listed \cup {c}
  <2>1. Listed = {conn[k] : k \in Linked} \cap Conn /\ Listed' = {conn'[k] : k \in Linked'} \cap Conn
    BY DEF Listed, Linked
  <2>. QED BY <1>1, <1>4, <1>9, <2>1
<1>11. ListOrder(rank)'
  <2>1. NoGap(next', rank, L, {rank[x] : x \in L})
    <3>1. \A k \in Linked, x \in Linked : rank[k] < rank[x] => next[k] # Null /\ rank[next[k]] <= rank[x]
      BY DEF ListInvariant, ListOrder, NoGap
    <3>2. ASSUME NEW k \in Linked, k # l PROVE next[k] # Null
      <4>1. rank[k] # rank[l]
        BY <1>2, <3>2 DEF ListInvariant, ListOrder
      <4>2. rank[k] < rank[l] \/ rank[l] < rank[k]
        BY <1>2, <1>6, <4>1
      <4>. QED BY <1>3, <3>1, <4>2
    <3>3. ASSUME NEW k \in L, NEW x \in L, rank[k] < rank[x]
          PROVE  next'[k] # Null /\ rank[next'[k]] <= rank[x]
      <4>1. CASE k = n
        BY <1>2, <1>4, <1>6, <3>3, <4>1
      <4>2. CASE k = l
        <5>1. x = n
          BY <1>3, <3>1, <3>3, <4>2
        <5>. QED BY <1>4, <1>5, <4>2, <5>1, NodeFacts DEF Conn
      <4>3. CASE k # n /\ k # l
        <5>1. k \in Linked /\ next'[k] = next[k] /\ next[k] # Null /\ next[k] \in Linked
          BY <1>2, <1>5, <3>2, <4>3
        <5>2. CASE x = n
          <6>1. next[k] \in Node /\ next[k] # n /\ next'[k] # Null
            BY <1>2, <1>4, <5>1
          <6>2. rank[next[k]] < c /\ rank[next[k]] \in Int /\ c \in Int
            BY <1>4, <1>6, <6>1 DEF Conn
          <6>. QED BY <1>4, <5>1, <5>2, <6>1, <6>2
        <5>3. CASE x # n
          BY <3>1, <3>3, <5>1, <5>3
        <5>. QED BY <5>2, <5>3
      <4>. QED BY <4>1, <4>2, <4>3
    <3>. HIDE DEF L
    <3>. QED BY <3>3 DEF NoGap
  <2>2. \A k \in Node, x \in L : rank[k] = rank[x] => k = x
    <3>1. \A k \in Node, x \in Linked : rank[k] = rank[x] => k = x
      BY DEF ListInvariant, ListOrder
    <3>2. ASSUME NEW k \in Node, rank[k] = rank[n] PROVE k = n
      BY <1>4, <1>6, <3>2
    <3>. QED BY <3>1, <3>2
  <2>3. /\ \A k \in L \ {Anchor} : conn[k] = rank[k]
        /\ \A k \in L \ {Anchor, Root} :
              /\ conn[k] \in Conn
              /\ fd[k] \in Fd /\ fd[k] = fdOf[conn[k]] /\ file[fd[k]] = conn[k]
    BY <1>4 DEF ListInvariant, ListOrder
  <2>4. /\ rank[Anchor] = -1 /\ rank[Root] = 0 /\ Root \in L
        /\ fd[Anchor] = 0 /\ fd[Root] = 0 /\ conn[Anchor] = None /\ conn[Root] = None
    BY DEF ListInvariant, ListOrder
  <2>. HIDE DEF L
  <2>. QED BY <1>1, <1>9, <2>1, <2>2, <2>3, <2>4 DEF ListOrder
<1>12. Outside(rank)'
  <2>1. main'.at = "poll"
    BY <1>1 DEF Idle
  <2>2. L \subseteq 0 .. used
    <3>1. Linked \subseteq 0 .. used /\ 2 .. used \subseteq 0 .. used
      BY DEF ListInvariant, Outside
    <3>. QED BY <1>4, <3>1
  <2>3. \A k \in 0 .. used : rank[k] >= -1
    BY DEF ListInvariant, Outside
  <2>4. \A m \in DOMAIN cache : cache[m] \in 2 .. used /\ cache[m] \notin L
    BY <1>1, <1>3 DEF ListInvariant, Outside
  <2>5. \A m, k \in DOMAIN cache : cache[m] = cache[k] => m = k
    BY DEF ListInvariant, Outside
  <2>6. \A k \in Node \ L : fd[k] \notin Fd
    BY <1>3 DEF ListInvariant, Outside
  <2>. HIDE DEF L
  <2>. QED BY <1>1, <1>9, <2>1, <2>2, <2>3, <2>4, <2>5, <2>6 DEF Outside
<1>13. Dealt(rank)'
  <2>1. \A x \in serving : fdOf[x] \in Fd /\ file[fdOf[x]] = x
    BY DEF ListInvariant, Dealt
  <2>. QED BY <1>1, <1>3, <1>4, <2>1 DEF Dealt, Arriving, Idle
<1>14. ListInvariant(rank)'
  BY <1>1, <1>8, <1>11, <1>12, <1>13 DEF ListInvariant
<1>15. \A k \in Linked : rank[k] < c
  BY <1>2, <1>4
<1>. HIDE DEF ListInvariant, Linked, Listed
<1>. QED BY <1>3, <1>4, <1>7, <1>9, <1>10, <1>14, <1>15

\* suppr: the node of the client is passed over.
LEMMA UnlinkList ==
    ASSUME IndInv, NEW rank \in [Node -> Int], ListInvariant(rank), NEW c \in Conn, Unlink(c)
    PROVE  \E p, n \in Linked :
              /\ rank[n] = c /\ next[p] = n /\ next' = [next EXCEPT ![p] = next[n]]
              /\ Linked' = Linked \ {n} /\ Listed' = Listed \ {c}
              /\ ListInvariant(rank)'
<1>1. /\ UNCHANGED <<fd, conn, used, cache, file, fdOf, accepted, serving>> /\ main.at = "poll"
      /\ accepted \in Nat /\ c \in serving
  <2>1. accepted \in Nat
    BY ConnType DEF IndInv, TypeOK
  <2>. QED BY <2>1 DEF Unlink, process
<1>2. /\ Anchor \in Linked /\ Root \in Linked /\ Linked \subseteq Node
      /\ \A k \in Linked : next[k] # Null => next[k] \in Linked
      /\ \A x \in Linked \ {Anchor} : \E k \in Linked : next[k] = x
      /\ \A k \in Linked : rank[k] \in Conn <=> k \notin {Anchor, Root}
  <2>1. Root \in Linked
    BY DEF ListInvariant, ListOrder
  <2>. QED BY <2>1, ListFacts
<1>3. PICK p \in Linked, n \in Linked :
            /\ next[p] = n /\ fd[n] = fdOf[c] /\ next' = [next EXCEPT ![p] = next[n]]
            /\ main' = [at |-> "free", c |-> c, node |-> n]
  BY DEF Unlink, Linked
<1>4. /\ fdOf[c] \in Fd /\ file[fdOf[c]] = c /\ n \notin {Anchor, Root}
      /\ conn[n] = c /\ rank[n] = c /\ n \in 2 .. used
  <2>1. fdOf[c] \in Fd /\ file[fdOf[c]] = c
    BY <1>1 DEF ListInvariant, Dealt
  <2>2. n \notin {Anchor, Root}
    BY <1>3, <2>1 DEF ListInvariant, ListOrder, Fd
  <2>3. conn[n] = c /\ rank[n] = c
    BY <1>3, <2>1, <2>2 DEF ListInvariant, ListOrder
  <2>4. n \in 2 .. used
    <3>1. n \in 0 .. used
      BY DEF ListInvariant, Outside
    <3>2. n \in Node /\ n >= 2
      BY <1>2, <2>2, NodeFacts
    <3>. QED BY <3>1, <3>2
  <2>. QED BY <2>1, <2>2, <2>3, <2>4
<1>5. /\ next \in [Node -> Node \cup {Null}] /\ next' \in [Node -> Node \cup {Null}]
      /\ next'[p] = next[n] /\ \A k \in Node : k # p => next'[k] = next[k]
  BY <1>2, <1>3 DEF IndInv, TypeOK
<1>6. /\ \A k \in Node : rank[k] \in -2 .. accepted /\ rank[k] \in Int
      /\ \A k \in Node : next[k] # Null => rank[k] < rank[next[k]] /\ next[k] \in Node
  BY <1>5 DEF ListInvariant, Rising
<1>7. rank[p] < rank[n] /\ p # n /\ (next[n] # Null => rank[n] < rank[next[n]])
  BY <1>2, <1>3, <1>6, NodeFacts
<1>8. Rising(next', rank, accepted)
  <2>1. ASSUME NEW k \in Node, next'[k] # Null PROVE rank[k] < rank[next'[k]]
    <3>1. CASE k = p
      <4>1. next[n] \in Node /\ rank[next[n]] \in Int /\ rank[p] \in Int /\ rank[n] \in Int
        BY <1>2, <1>5, <1>6, <2>1, <3>1
      <4>. QED BY <1>5, <1>7, <2>1, <3>1, <4>1
    <3>2. CASE k # p
      BY <1>5, <1>6, <2>1, <3>2
    <3>. QED BY <3>1, <3>2
  <2>. QED BY <1>6, <2>1 DEF Rising
<1>9. /\ \A k \in Linked, x \in Linked : rank[k] < rank[x] => next[k] # Null /\ rank[next[k]] <= rank[x]
      /\ \A k \in Node, x \in Linked : rank[k] = rank[x] => k = x
  BY DEF ListInvariant, ListOrder, NoGap
<1>10. ASSUME NEW k \in Linked, next[k] = n PROVE k = p
  <2>1. rank[k] \in Int /\ rank[p] \in Int /\ rank[n] \in Int /\ rank[k] < rank[n]
    BY <1>2, <1>6, <1>10, NodeFacts
  <2>2. ~ (rank[k] < rank[p]) /\ ~ (rank[p] < rank[k])
    BY <1>3, <1>7, <1>9, <1>10, <2>1
  <2>3. rank[k] = rank[p]
    BY <2>1, <2>2
  <2>. QED BY <1>2, <1>9, <2>3
<1>. DEFINE L == Linked \ {n}
<1>11. Linked' = L
  <2>1. ASSUME NEW k \in L, next'[k] # Null PROVE next'[k] \in L
    <3>1. CASE k = p
      <4>1. next[n] # Null /\ next[n] \in Linked /\ next'[k] = next[n]
        BY <1>2, <1>5, <2>1, <3>1
      <4>2. next[n] # n
        BY <1>2, <1>6, <4>1
      <4>. QED BY <4>1, <4>2
    <3>2. CASE k # p
      BY <1>2, <1>5, <1>10, <2>1, <3>2
    <3>. QED BY <3>1, <3>2
  <2>2. ASSUME NEW x \in L \ {Anchor} PROVE \E k \in L : next'[k] = x
    <3>1. PICK k \in Linked : next[k] = x
      BY <1>2
    <3>2. CASE k = n
      BY <1>5, <1>7, <3>1, <3>2
    <3>3. CASE k # n
      <4>1. k # p
        BY <1>3, <3>1
      <4>. QED BY <1>2, <1>5, <3>1, <3>3, <4>1
    <3>. QED BY <3>2, <3>3
  <2>3. L \in SUBSET Node /\ Anchor \in L /\ accepted \in Int
    <3>1. accepted \in Int
      BY <1>1
    <3>. QED BY <1>2, <1>4, <3>1
  <2>. HIDE DEF L
  <2>4. LinkedBy(next') = L
    BY <1>5, <1>8, <2>1, <2>2, <2>3, LinkedIs
  <2>. QED BY <2>4 DEF Linked, Chain, LinkedBy, ChainOf
<1>12. Listed' = Listed \ {c}
  <2>1. Listed = {conn[k] : k \in Linked} \cap Conn /\ Listed' = {conn'[k] : k \in Linked'} \cap Conn
    BY DEF Listed, Linked
  <2>2. ASSUME NEW k \in L, conn[k] = c PROVE FALSE
    <3>1. k # Anchor
      BY <2>2 DEF ListInvariant, ListOrder, Conn, None
    <3>2. rank[k] = c
      BY <2>2, <3>1 DEF ListInvariant, ListOrder
    <3>. QED BY <1>2, <1>4, <1>9, <3>2
  <2>. QED BY <1>1, <1>4, <1>11, <2>1, <2>2
<1>13. ListOrder(rank)'
  <2>1. NoGap(next', rank, L, {rank[x] : x \in L})
    <3>1. ASSUME NEW k \in L, NEW x \in L, rank[k] < rank[x]
          PROVE  next'[k] # Null /\ rank[next'[k]] <= rank[x]
      <4>1. CASE k = p
        <5>1. rank[n] <= rank[x] /\ rank[n] # rank[x] /\ rank[n] \in Int /\ rank[x] \in Int
          BY <1>2, <1>3, <1>6, <1>9, <3>1, <4>1
        <5>. QED BY <1>5, <1>9, <4>1, <5>1
      <4>2. CASE k # p
        BY <1>2, <1>5, <1>9, <3>1, <4>2
      <4>. QED BY <4>1, <4>2
    <3>. HIDE DEF L
    <3>. QED BY <3>1 DEF NoGap
  <2>2. /\ \A k \in L \ {Anchor} : conn[k] = rank[k]
        /\ \A k \in L \ {Anchor, Root} :
              /\ conn[k] \in Conn
              /\ fd[k] \in Fd /\ fd[k] = fdOf[conn[k]] /\ file[fd[k]] = conn[k]
        /\ \A k \in Node, x \in L : rank[k] = rank[x] => k = x
    BY DEF ListInvariant, ListOrder
  <2>3. /\ rank[Anchor] = -1 /\ rank[Root] = 0 /\ Root \in L
        /\ fd[Anchor] = 0 /\ fd[Root] = 0 /\ conn[Anchor] = None /\ conn[Root] = None
    BY <1>4 DEF ListInvariant, ListOrder
  <2>. HIDE DEF L
  <2>. QED BY <1>1, <1>11, <2>1, <2>2, <2>3 DEF ListOrder
<1>14. main'.at = "free" /\ main'.c = c /\ main'.node = n
  BY <1>3
<1>15. Outside(rank)'
  <2>1. /\ L \subseteq 0 .. used /\ n \notin L
        /\ \A k \in 0 .. used : rank[k] >= -1
        /\ \A m \in DOMAIN cache : cache[m] \in 2 .. used /\ cache[m] \notin L /\ cache[m] # n
        /\ \A m, k \in DOMAIN cache : cache[m] = cache[k] => m = k
    BY DEF ListInvariant, Outside
  <2>2. \A k \in Node \ L : fd[k] \in Fd => k = n
    BY <1>1 DEF ListInvariant, Outside
  <2>. HIDE DEF L
  <2>. QED BY <1>1, <1>3, <1>4, <1>11, <1>14, <2>1, <2>2 DEF Outside
<1>16. Dealt(rank)'
  <2>1. \A x \in serving : fdOf[x] \in Fd /\ file[fdOf[x]] = x
    BY DEF ListInvariant, Dealt
  <2>. QED BY <1>1, <1>4, <1>12, <1>14, <2>1 DEF Dealt, Arriving
<1>17. ListInvariant(rank)'
  BY <1>1, <1>8, <1>13, <1>15, <1>16 DEF ListInvariant
<1>. HIDE DEF ListInvariant, Linked, Listed
<1>. QED BY <1>3, <1>4, <1>11, <1>12, <1>17

-----------------------------------------------------------------------------
(***************************************************************************)
(* The walks                                                               *)
(***************************************************************************)

\* What a walk relies on: nodes it may come to, descriptors and nicknames of
\* the clients listed.
LEMMA WalkStays ==
    ASSUME NEW rank, NEW S, NEW o, Walk(rank, S, o),
           UNCHANGED <<next, used>>, Linked' = Linked, Listed' = Listed,
           \A c \in Listed : fdOf'[c] = fdOf[c] /\ (c \in nicknames => c \in nicknames'),
           \A f \in Fd : file'[f] \in Listed => file'[f] = file[f]
    PROVE  Walk(rank, S, o)'
<1>1. Stayers(o)' /\ Ahead(rank, S, o)' /\ Counted(rank, o)' /\ o.stayed \subseteq Listed
  BY DEF Walk, Stayers, Ahead, Counted, Before, ToCount
<1>2. Passed(rank, o)' /\ Sought(rank, o)'
  BY <1>1 DEF Walk, Passed, Sought
<1>3. Visited(rank, S, o)'
  BY <1>1 DEF Walk, Visited, ToVisit, Rest, Unsent
<1>. QED BY <1>1, <1>2, <1>3 DEF Walk

\* What a handler is doing, by another name.
LEMMA WalkOf ==
    ASSUME NEW rank, NEW S, NEW h, NEW o, op'[h] = o, Walk(rank, S, o)'
    PROVE  Walk(rank, S, op[h])'
<1>1. Stayers(op[h])'
  BY DEF Walk, Stayers, Active
<1>2. Passed(rank, op[h])'
  BY DEF Walk, Passed
<1>3. Ahead(rank, S, op[h])'
  BY DEF Walk, Ahead, Sound, Active
<1>4. Counted(rank, op[h])'
  BY DEF Walk, Counted, Before, ToCount, Sound, Active
<1>5. Visited(rank, S, op[h])'
  BY DEF Walk, Visited, ToVisit, Rest, Unsent, Sound, Active
<1>6. Sought(rank, op[h])'
  BY DEF Walk, Sought, Sound, Active
<1>. QED BY <1>1, <1>2, <1>3, <1>4, <1>5, <1>6 DEF Walk

Walks(rank) == \A h \in Conn : \E S \in SUBSET Node : Walk(rank, S, op[h])

\* The same, for a step of main() that moves nothing a walk relies on.
LEMMA WalksStay ==
    ASSUME NEW rank, Walks(rank), UNCHANGED op,
           UNCHANGED <<next, used>>, Linked' = Linked, Listed' = Listed,
           \A c \in Listed : fdOf'[c] = fdOf[c] /\ (c \in nicknames => c \in nicknames'),
           \A f \in Fd : file'[f] \in Listed => file'[f] = file[f]
    PROVE  Walks(rank)'
<1>. SUFFICES ASSUME NEW h \in Conn PROVE \E S \in SUBSET Node : Walk(rank, S, op[h])'
  BY DEF Walks
<1>1. PICK o : o = op[h]
  OBVIOUS
<1>2. PICK S \in SUBSET Node : Walk(rank, S, o)
  BY <1>1, Zenon DEF Walks
<1>3. Walk(rank, S, o)'
  BY <1>2, WalkStays
<1>4. op'[h] = o
  BY <1>1
<1>. QED BY <1>3, <1>4, WalkOf

\* And for a step of the handler h.
LEMMA HandlerWalk ==
    ASSUME IndInv, NEW rank \in [Node -> Int], ListInvariant(rank), Walks(rank),
           NEW h \in Conn, NEW new, NEW T \in SUBSET Node, Walk(rank, T, new), Goto(h, new),
           UNCHANGED <<list, process, main>>, nicknames \subseteq nicknames'
    PROVE  WalkInv'
<1>1. ListInvariant(rank)'
  BY HandlerList
<1>2. /\ UNCHANGED <<next, used, fdOf, file>> /\ Linked' = Linked /\ Listed' = Listed
  BY ListedStays DEF list, process
<1>3. ASSUME NEW k \in Conn PROVE \E S \in SUBSET Node : Walk(rank, S, op[k])'
  <2>1. PICK o : o = op'[k]
    OBVIOUS
  <2>2. PICK S \in SUBSET Node : Walk(rank, S, o)
    <3>1. CASE k = h
      <4>1. o = new
        BY <2>1, <3>1 DEF IndInv, TypeOK, Goto
      <4>. QED BY <4>1
    <3>2. CASE k # h
      <4>1. o = op[k]
        BY <2>1, <3>2 DEF IndInv, TypeOK, Goto
      <4>. QED BY <4>1, Zenon DEF Walks
    <3>. QED BY <3>1, <3>2
  <2>3. Walk(rank, S, o)'
    BY <1>2, <2>2, WalkStays
  <2>. QED BY <2>1, <2>3, WalkOf
<1>. QED BY <1>1, <1>3 DEF WalkInv

\* A handler with nothing to do, or with a nickname to add.
LEMMA QuietWalk ==
    ASSUME NEW rank, NEW S, NEW o, ~ Active(o), o.stayed = {}, o.who = None,
           \A c \in Conn : o.got[c] = 0
    PROVE  Walk(rank, S, o)
BY ConnType DEF Walk, Stayers, Passed, Ahead, Counted, Visited, Sought, Active, Sound, None, Conn

LEMMA AcceptWalk ==
    ASSUME IndInv, NEW rank \in [Node -> Int], ListInvariant(rank), Walks(rank),
           Accept \/ Fill \/ Welcome \/ Close \/ Release
    PROVE  WalkInv'
<1>1. CASE Accept
  <2>1. ListInvariant(rank)'
    BY <1>1, AcceptList
  <2>2. PICK f \in Fd : /\ file' = [file EXCEPT ![f] = accepted + 1]
                        /\ fdOf' = [fdOf EXCEPT ![accepted + 1] = f]
    BY <1>1 DEF Accept
  <2>3. UNCHANGED <<op, next, used, nicknames>> /\ Linked' = Linked /\ Listed' = Listed
    BY <1>1, ListedStays DEF Accept, list, names
  <2>4. Listed \subseteq Conn /\ \A c \in Listed : c <= accepted /\ c # accepted + 1
    <3>1. accepted \in Nat /\ Listed \subseteq Conn /\ \A c \in Listed : c <= accepted
      <4>1. accepted \in Nat
        BY ConnType DEF IndInv, TypeOK
      <4>. QED BY <4>1, ListedFacts
    <3>. QED BY <3>1 DEF Conn
  <2>5. /\ \A c \in Listed : fdOf'[c] = fdOf[c]
        /\ \A g \in Fd : file'[g] \in Listed => file'[g] = file[g]
    BY <2>2, <2>4 DEF IndInv, TypeOK
  <2>. QED BY <2>1, <2>3, <2>5, WalksStay DEF WalkInv, Walks
<1>2. CASE Fill \/ Welcome
  <2>1. ListInvariant(rank)'
    BY <1>2, FillWelcomeList
  <2>2. /\ UNCHANGED <<op, next, used, nicknames, fdOf, file>>
        /\ Linked' = Linked /\ Listed' = Listed
    BY <1>2, ListedStays DEF Fill, Welcome, list, process, names
  <2>. QED BY <2>1, <2>2, WalksStay DEF WalkInv, Walks
<1>3. CASE Close
  <2>. DEFINE f == fdOf[main.c]
  <2>1. ListInvariant(rank)' /\ \A c \in Listed : fdOf[c] # f
    BY <1>3, CloseList
  <2>2. UNCHANGED <<op, next, used, fdOf>> /\ Linked' = Linked /\ Listed' = Listed
    BY <1>3, ListedStays DEF Close, list
  <2>3. file' = [file EXCEPT ![f] = None] /\ None \notin Listed
    BY <1>3 DEF Close, Listed, Conn, None
  <2>4. \A g \in Fd : file'[g] \in Listed => file'[g] = file[g]
    BY <2>3 DEF IndInv, TypeOK
  <2>5. \A c \in Listed : c \in nicknames => c \in nicknames'
    <3>1. PICK gone \in SUBSET {c \in nicknames : fdOf[c] = f} : nicknames' = nicknames \ gone
      BY <1>3 DEF Close
    <3>. QED BY <2>1, <3>1
  <2>. QED BY <2>1, <2>2, <2>4, <2>5, WalksStay DEF WalkInv, Walks
<1>4. CASE Release
  <2>1. ListInvariant(rank)' /\ Linked' = Linked /\ Listed' = Listed
    BY <1>4, ReleaseList
  <2>2. UNCHANGED <<op, next, used, fdOf, file, nicknames>>
    BY <1>4 DEF Release, process, names
  <2>. QED BY <2>1, <2>2, WalksStay DEF WalkInv, Walks
<1>. QED BY <1>1, <1>2, <1>3, <1>4

\* Counting nodes.
LEMMA SizeLe ==
    ASSUME NEW A \in SUBSET Node, NEW B \in SUBSET A
    PROVE  /\ Cardinality(A) \in Nat /\ Cardinality(B) \in Nat
           /\ Cardinality(B) <= Cardinality(A)
<1>1. IsFiniteSet(Node)
  <2>1. NConn + 1 \in Int
    BY ConnType
  <2>. QED BY <2>1, FS_Interval DEF Node
<1>2. IsFiniteSet(A)
  BY <1>1, FS_Subset
<1>3. IsFiniteSet(B) /\ Cardinality(B) <= Cardinality(A)
  BY <1>2, FS_Subset
<1>. QED BY <1>2, <1>3, FS_CardinalityType

LEMMA SizeAdd ==
    ASSUME NEW A \in SUBSET Node, NEW x \in Node
    PROVE  /\ Cardinality(A) \in Nat
           /\ Cardinality(A \cup {x}) = IF x \in A THEN Cardinality(A) ELSE Cardinality(A) + 1
           /\ Cardinality(A \ {x}) = IF x \in A THEN Cardinality(A) - 1 ELSE Cardinality(A)
<1>1. IsFiniteSet(Node)
  <2>1. NConn + 1 \in Int
    BY ConnType
  <2>. QED BY <2>1, FS_Interval DEF Node
<1>2. IsFiniteSet(A)
  BY <1>1, FS_Subset
<1>. QED BY <1>2, FS_CardinalityType, FS_AddElement, FS_RemoveElement

\* List: a walk that stands on the node now stands before a new client.
LEMMA ListWalk ==
    ASSUME IndInv, NEW rank \in [Node -> Int], ListInvariant(rank), Walks(rank), List
    PROVE  WalkInv'
<1>1. PICK n \in Node \ Linked, c \in Conn :
              /\ main.c = c /\ \A k \in Node : rank[k] < c
              /\ cache = <<>> => n = used + 1
              /\ next' = [next EXCEPT ![n] = Null] /\ used <= used'
              /\ Linked' = Linked /\ Listed' = Listed
              /\ ListInvariant([rank EXCEPT ![n] = c])'
  BY ListList
<1>. DEFINE r == [rank EXCEPT ![n] = c]
<1>2. r \in [Node -> Int] /\ r[n] = c /\ \A k \in Node : k # n => r[k] = rank[k]
  BY DEF Conn
<1>3. \A k \in Node : k # n => next'[k] = next[k]
  BY <1>1 DEF IndInv, TypeOK
<1>4. ListInvariant(r)'
  BY <1>1
<1>. HIDE DEF r
<1>5. /\ UNCHANGED <<fdOf, file, nicknames>> /\ used' \in Nat /\ used \in Nat
  BY ListInv, ConnType DEF List, process, names, IndInv, TypeOK, Node
<1>6. /\ Linked \subseteq Node /\ \A k \in Linked : k # n
      /\ \A k \in Linked : rank[k] \in -1 .. accepted
  BY <1>1, ListFacts
<1>7. ASSUME NEW h \in Conn PROVE \E S \in SUBSET Node : Walk(r, S, op[h])'
  <2>1. PICK o, new : o = op[h] /\ new = op'[h]
    OBVIOUS
  <2>2. PICK S \in SUBSET Node : Walk(rank, S, o)
    BY <2>1, Zenon DEF Walks
  <2>3. /\ o \in Operation /\ new \in Operation
        /\ \/ new = o /\ cache = <<>>
           \/ /\ new.at = o.at /\ new.cur = o.cur /\ new.n = o.n /\ new.fd = o.fd /\ new.who = o.who
              /\ new.got = o.got /\ new.stayed = o.stayed /\ new.left = o.left
              /\ Active(o) => new.reused
    <3>1. o \in Operation
      BY <2>1 DEF IndInv, TypeOK
    <3>2. CASE cache = <<>>
      BY <2>1, <3>1, <3>2 DEF List
    <3>3. CASE cache # <<>>
      <4>1. new = [o EXCEPT !.reused = Busy(h)]
        BY <2>1, <3>3 DEF List
      <4>2. Busy(h) \in BOOLEAN /\ (Active(o) => Busy(h))
        BY <2>1 DEF Busy, Active
      <4>. HIDE DEF Busy
      <4>3. new \in Operation
        BY <3>1, <4>1, <4>2 DEF Operation
      <4>. QED BY <3>1, <4>1, <4>2, <4>3 DEF Operation
    <3>. QED BY <3>2, <3>3
  <2>4. /\ new.at = o.at /\ new.cur = o.cur /\ new.n = o.n /\ new.fd = o.fd /\ new.who = o.who
        /\ new.got = o.got /\ new.stayed = o.stayed /\ new.left = o.left
        /\ Sound(new) => Sound(o) /\ (Linked \subseteq S) /\ n \notin S
    <3>1. CASE new = o /\ cache = <<>>
      <4>1. Sound(o) => Linked \subseteq S /\ S \subseteq 0 .. used
        BY <2>2 DEF Walk, Ahead
      <4>. QED BY <1>1, <1>5, <3>1, <4>1
    <3>2. CASE ~ (new = o /\ cache = <<>>)
      <4>1. Sound(new) => Sound(o) /\ ~ o.left
        BY <2>3, <3>2 DEF Sound, Active, Operation
      <4>2. Sound(o) /\ ~ o.left => S = Linked
        BY <2>2 DEF Walk, Ahead
      <4>. QED BY <2>3, <3>2, <4>1, <4>2
    <3>. QED BY <3>1, <3>2
  <2>5. /\ o.cur \in Node \cup {Null} /\ o.stayed \subseteq Conn /\ o.stayed \subseteq Listed
        /\ o.got \in [Conn -> Nat] /\ o.left \in BOOLEAN /\ (Active(new) <=> Active(o))
    BY <2>2, <2>3, <2>4 DEF Operation, Walk, Stayers, Active
  <2>6. (Sound(new) /\ o.at \in {"count", "load", "send", "seek", "read"} /\ o.cur # Null)
            => /\ o.cur \in S /\ o.cur # n /\ r[o.cur] = rank[o.cur]
    BY <1>2, <2>2, <2>4, <2>5 DEF Walk, Ahead
  <2>7. \A x \in Listed : x <= accepted /\ \E k \in Linked : rank[k] = x
    BY ListedFacts
  <2>8. Stayers(new)'
    BY <1>1, <2>2, <2>4, <2>5 DEF Walk, Stayers
  <2>9. Passed(r, new)'
    <3>1. new.at = "send" /\ new.fd \in Fd /\ file[new.fd] \in new.stayed => file[new.fd] = r[new.cur]
      <4>. SUFFICES ASSUME o.at = "send", o.fd \in Fd, file[o.fd] \in o.stayed
                    PROVE  file[o.fd] = r[o.cur]
        BY <2>4
      <4>1. file[o.fd] = rank[o.cur] /\ o.cur \in Node
        BY <2>1, <2>2 DEF Walk, Passed, IndInv, HandlerInv, Stands
      <4>2. PICK k \in Linked : rank[k] = file[o.fd]
        BY <2>5, <2>7
      <4>3. o.cur = k
        BY <4>1, <4>2 DEF ListInvariant, ListOrder
      <4>. QED BY <1>2, <1>6, <4>1, <4>3
    <3>2. ASSUME NEW x \in new.stayed, new.got[x] = 1, new.cur # Null PROVE x < r[new.cur]
      <4>1. x < rank[o.cur] /\ o.cur \in Node
        BY <2>2, <2>4, <2>5, <3>2 DEF Walk, Passed
      <4>2. CASE o.cur = n
        BY <1>1, <1>2, <2>4, <2>5, <4>1, <4>2 DEF Conn
      <4>3. CASE o.cur # n
        BY <1>2, <2>4, <4>1, <4>3
      <4>. QED BY <4>2, <4>3
    <3>3. /\ new.at \notin {"load", "send"} => \A x \in Conn : new.got[x] = 0
          /\ \A x \in new.stayed : new.got[x] <= 1
      BY <2>2, <2>4 DEF Walk, Passed
    <3>. QED BY <1>5, <3>1, <3>2, <3>3 DEF Passed
  <2>10. Ahead(r, S, new)'
    <3>. SUFFICES ASSUME Sound(new) PROVE Ahead(r, S, new)'
      BY DEF Ahead
    <3>1. /\ Linked \subseteq S /\ S \subseteq 0 .. used /\ (~ o.left => S = Linked)
          /\ \A k \in S : next[k] # Null => next[k] \in S
          /\ NoGap(next, rank, S, o.stayed \cup {0})
          /\ n \notin S
      BY <2>2, <2>4 DEF Walk, Ahead
    <3>2. \A k \in S : next'[k] = next[k] /\ r[k] = rank[k]
      BY <1>2, <1>3, <3>1
    <3>3. NoGap(next', r, S, o.stayed \cup {0})
      BY <3>1, <3>2 DEF NoGap
    <3>4. S \subseteq 0 .. used'
      BY <1>1, <1>5, <3>1
    <3>. QED BY <1>1, <2>4, <2>6, <3>1, <3>2, <3>3, <3>4 DEF Ahead
  <2>11. Counted(r, new)'
    <3>. SUFFICES ASSUME o.at = "count" PROVE Counted(r, new)'
      BY <2>4 DEF Counted
    <3>1. Sound(new) => /\ Before(r, ToCount(r, new)', new) = Before(rank, ToCount(rank, o), o)
      BY <1>1, <1>2, <1>6, <2>4, <2>6 DEF Before, ToCount
    <3>2. ~ o.left => Sound(new)
      BY <2>4, <2>5 DEF Sound, Active
    <3>3. Sound(new) => Before(r, Linked', new) = Before(rank, Linked, o)
      BY <1>1, <1>2, <1>6, <2>4, <2>6 DEF Before
    <3>. QED BY <2>2, <2>4, <3>1, <3>2, <3>3 DEF Walk, Counted
  <2>12. Visited(r, S, new)'
    <3>. SUFFICES ASSUME o.at \in {"load", "send"} PROVE Visited(r, S, new)'
      BY <2>4 DEF Visited
    <3>1. Unsent(new) = Unsent(o)
      BY <2>4 DEF Unsent
    <3>2. Sound(new) => /\ ToVisit(r, S, new) = ToVisit(rank, S, o)
                        /\ Rest(r, Linked', new) = Rest(rank, Linked, o)
      <4>. SUFFICES ASSUME Sound(new)
                    PROVE  /\ Rest(r, S, new) = Rest(rank, S, o)
                           /\ ToVisit(r, S, new) = ToVisit(rank, S, o)
                           /\ Rest(r, Linked', new) = Rest(rank, Linked, o)
        OBVIOUS
      <4>1. \A k \in S : r[k] = rank[k]
        BY <1>2, <2>4
      <4>2. o.cur # Null => r[o.cur] = rank[o.cur]
        BY <2>6
      <4>3. Rest(r, S, new) = Rest(rank, S, o)
        BY <2>4, <4>1, <4>2 DEF Rest
      <4>4. Rest(r, Linked', new) = Rest(rank, Linked, o)
        BY <1>1, <2>4, <4>1, <4>2 DEF Rest
      <4>5. ToVisit(r, S, new) = ToVisit(rank, S, o)
        BY <3>1, <4>1, <4>3 DEF ToVisit, Rest
      <4>. QED BY <4>3, <4>4, <4>5
    <3>3. ~ o.left => Sound(new)
      BY <2>4, <2>5 DEF Sound, Active
    <3>4. Sound(new) => /\ \A x \in Unsent(new) : new.cur # Null /\ r[new.cur] <= x
                        /\ new.at = "send" /\ r[new.cur] \in new.stayed => new.fd = fdOf[r[new.cur]]
                        /\ Cardinality(ToVisit(r, S, new)) <= new.n
      <4>. SUFFICES ASSUME Sound(new)
                    PROVE  /\ \A x \in Unsent(o) : o.cur # Null /\ r[o.cur] <= x
                           /\ o.at = "send" /\ r[o.cur] \in o.stayed => o.fd = fdOf[r[o.cur]]
                           /\ Cardinality(ToVisit(rank, S, o)) <= o.n
        BY <2>4, <3>1, <3>2
      <4>1. /\ \A x \in Unsent(o) : o.cur # Null /\ rank[o.cur] <= x
            /\ o.at = "send" /\ rank[o.cur] \in o.stayed => o.fd = fdOf[rank[o.cur]]
            /\ Cardinality(ToVisit(rank, S, o)) <= o.n
        BY <2>2, <2>4 DEF Walk, Visited
      <4>2. o.at = "send" => o.cur # Null
        BY <2>1, NodeFacts DEF IndInv, HandlerInv, Stands
      <4>. QED BY <2>6, <4>1, <4>2
    <3>5. ~ o.left => new.n <= Cardinality(Rest(r, Linked', new))
      BY <2>2, <2>4, <3>2, <3>3 DEF Walk, Visited
    <3>. QED BY <1>5, <2>4, <3>4, <3>5 DEF Visited, ToVisit, Rest, Unsent
  <2>13. Sought(r, new)'
    <3>1. o.at = "read" => o.cur # Null
      BY <2>1, NodeFacts DEF IndInv, HandlerInv, Stands
    <3>. QED BY <1>5, <2>2, <2>4, <2>6, <3>1 DEF Walk, Sought
  <2>14. Walk(r, S, new)'
    BY <2>8, <2>9, <2>10, <2>11, <2>12, <2>13 DEF Walk
  <2>. QED BY <2>1, <2>14, WalkOf
<1>. QED BY <1>2, <1>4, <1>7 DEF WalkInv

\* Link: a walk may come to the new node, after all those it has to reach.
LEMMA LinkWalk ==
    ASSUME IndInv, NEW rank \in [Node -> Int], ListInvariant(rank), Walks(rank), Link
    PROVE  WalkInv'
<1>1. PICK n \in Node \ Linked, l \in Linked, c \in Conn :
              /\ rank[n] = c /\ c = accepted /\ c \notin Listed /\ n \in 2 .. used
              /\ \A k \in Linked : rank[k] < c
              /\ next[l] = Null /\ next[n] = Null
              /\ next' = [next EXCEPT ![l] = n]
              /\ Linked' = Linked \cup {n} /\ Listed' = Listed \cup {c}
              /\ ListInvariant(rank)'
  BY LinkList
<1>2. /\ UNCHANGED <<op, used, fdOf, file, nicknames>>
  BY DEF Link, names
<1>3. /\ Linked \subseteq Node /\ l \in Node /\ l # n /\ next'[l] = n
      /\ \A k \in Node : k # l => next'[k] = next[k]
  BY <1>1, ListFacts DEF IndInv, TypeOK
<1>4. \A x \in Listed : x < c /\ x \in Conn
  <2>1. \A x \in Listed : x \in Conn /\ x <= c /\ x # c
    BY <1>1, ListedFacts
  <2>. QED BY <2>1 DEF Conn
<1>5. \A k \in Node : rank[k] \in Int /\ rank[k] <= c
  BY <1>1 DEF ListInvariant, Rising
<1>6. ASSUME NEW h \in Conn PROVE \E S \in SUBSET Node : Walk(rank, S, op[h])'
  <2>1. PICK o : o = op[h]
    OBVIOUS
  <2>2. PICK S \in SUBSET Node : Walk(rank, S, o)
    BY <2>1, Zenon DEF Walks
  <2>. DEFINE T == S \cup {n}
  <2>3. /\ o \in Operation /\ o.cur \in Node \cup {Null} /\ o.stayed \subseteq Listed
        /\ o.left \in BOOLEAN /\ o.n \in Nat
    BY <2>1, <2>2 DEF IndInv, TypeOK, Operation, Walk, Stayers
  <2>4. Stayers(o)'
    <3>1. ASSUME NEW y \in o.stayed, NEW x \in Listed', x < y PROVE x \in o.stayed
      <4>1. y < c /\ y \in Int /\ c \in Int
        BY <1>4, <2>3 DEF Conn
      <4>2. x # c
        BY <3>1, <4>1
      <4>3. x \in Listed
        BY <1>1, <4>2
      <4>. QED BY <2>2, <3>1, <4>3 DEF Walk, Stayers
    <3>. QED BY <1>1, <2>2, <3>1 DEF Walk, Stayers
  <2>5. Passed(rank, o)'
    BY <1>2, <2>2 DEF Walk, Passed
  <2>6. Ahead(rank, T, o)'
    <3>. SUFFICES ASSUME Sound(o) PROVE Ahead(rank, T, o)'
      BY DEF Ahead
    <3>1. /\ Linked \subseteq S /\ S \subseteq 0 .. used /\ (~ o.left => S = Linked)
          /\ \A k \in S : next[k] # Null => next[k] \in S
          /\ \A k \in S, x \in o.stayed \cup {0} : rank[k] < x => next[k] # Null /\ rank[next[k]] <= x
          /\ o.at \in {"count", "load", "send", "seek", "read"} /\ o.cur # Null => o.cur \in S
      BY <2>2 DEF Walk, Ahead, NoGap
    <3>2. T \subseteq 0 .. used
      <4>1. 2 .. used \subseteq 0 .. used
        OBVIOUS
      <4>. QED BY <1>1, <3>1, <4>1
    <3>3. \A k \in T : next'[k] # Null => next'[k] \in T
      BY <1>1, <1>3, <3>1
    <3>4. ASSUME NEW k \in T, NEW x \in o.stayed \cup {0}, rank[k] < x
          PROVE  next'[k] # Null /\ rank[next'[k]] <= x
      <4>1. x < c /\ x \in Int
        BY <1>4, <2>3 DEF Conn
      <4>2. k # n
        BY <1>1, <3>4, <4>1 DEF Conn
      <4>3. k \in S /\ next[k] # Null /\ rank[next[k]] <= x
        BY <3>1, <3>4, <4>2
      <4>4. k # l
        BY <1>1, <4>3
      <4>. QED BY <1>3, <4>3, <4>4
    <3>5. NoGap(next', rank, T, o.stayed \cup {0})
      <4>. HIDE DEF T
      <4>. QED BY <3>4 DEF NoGap
    <3>. QED BY <1>1, <1>2, <3>1, <3>2, <3>3, <3>5 DEF Ahead
  <2>7. Counted(rank, o)'
    <3>. SUFFICES ASSUME o.at = "count" PROVE Counted(rank, o)'
      BY DEF Counted
    <3>1. ToCount(rank, o)' = ToCount(rank, o)
      <4>1. rank[n] \notin o.stayed \cup {-1, 0}
        BY <1>1, <2>3 DEF Conn
      <4>. QED BY <1>1, <4>1 DEF ToCount
    <3>2. Before(rank, Linked, o) \subseteq Before(rank, Linked', o) /\ Linked' \subseteq Node
      BY <1>1, <1>3 DEF Before
    <3>3. Before(rank, Linked', o) \in SUBSET Node
      BY <3>2 DEF Before
    <3>4. Cardinality(Before(rank, Linked, o)) <= Cardinality(Before(rank, Linked', o))
          /\ Cardinality(Before(rank, Linked, o)) \in Nat
          /\ Cardinality(Before(rank, Linked', o)) \in Nat
      BY <3>2, <3>3, SizeLe
    <3>5. ~ o.left => o.n <= Cardinality(Before(rank, Linked', o))
      BY <2>2, <2>3, <3>4 DEF Walk, Counted
    <3>6. Sound(o) => Cardinality(Before(rank, ToCount(rank, o)', o)) <= o.n
      BY <2>2, <3>1 DEF Walk, Counted
    <3>. QED BY <3>5, <3>6 DEF Counted, Before
  <2>8. Visited(rank, T, o)'
    <3>. SUFFICES ASSUME o.at \in {"load", "send"} PROVE Visited(rank, T, o)'
      BY DEF Visited
    <3>1. ToVisit(rank, T, o) = ToVisit(rank, S, o)
      <4>1. ~ \E x \in Unsent(o) : rank[n] <= x
        BY <1>1, <1>4, <2>3 DEF Unsent, Conn
      <4>. QED BY <4>1 DEF ToVisit, Rest
    <3>2. Rest(rank, Linked, o) \subseteq Rest(rank, Linked', o) /\ Linked' \subseteq Node
      BY <1>1, <1>3 DEF Rest
    <3>3. Rest(rank, Linked', o) \in SUBSET Node
      BY <3>2 DEF Rest
    <3>4. Cardinality(Rest(rank, Linked, o)) <= Cardinality(Rest(rank, Linked', o))
          /\ Cardinality(Rest(rank, Linked, o)) \in Nat
          /\ Cardinality(Rest(rank, Linked', o)) \in Nat
      BY <3>2, <3>3, SizeLe
    <3>5. ~ o.left => o.n <= Cardinality(Rest(rank, Linked', o))
      BY <2>2, <2>3, <3>4 DEF Walk, Visited
    <3>6. Sound(o) => /\ \A x \in Unsent(o) : o.cur # Null /\ rank[o.cur] <= x
                      /\ o.at = "send" /\ rank[o.cur] \in o.stayed => o.fd = fdOf[rank[o.cur]]
                      /\ Cardinality(ToVisit(rank, T, o)) <= o.n
      BY <2>2, <3>1 DEF Walk, Visited
    <3>. HIDE DEF T
    <3>. QED BY <1>2, <3>5, <3>6 DEF Visited, Rest, ToVisit, Unsent
  <2>9. Sought(rank, o)'
    BY <1>2, <2>2 DEF Walk, Sought
  <2>10. Walk(rank, T, o)'
    BY <2>4, <2>5, <2>6, <2>7, <2>8, <2>9 DEF Walk
  <2>11. T \in SUBSET Node /\ op'[h] = o
    BY <1>2, <2>1
  <2>. HIDE DEF T
  <2>. QED BY <2>10, <2>11, WalkOf
<1>. QED BY <1>1, <1>6 DEF WalkInv

\* Unlink: one that had come to the node goes on from there.
LEMMA UnlinkWalk ==
    ASSUME IndInv, NEW rank \in [Node -> Int], ListInvariant(rank), Walks(rank),
           NEW c \in Conn, Unlink(c)
    PROVE  WalkInv'
<1>1. PICK p, n \in Linked :
              /\ rank[n] = c /\ next[p] = n /\ next' = [next EXCEPT ![p] = next[n]]
              /\ Linked' = Linked \ {n} /\ Listed' = Listed \ {c}
              /\ ListInvariant(rank)'
  BY UnlinkList
<1>2. UNCHANGED <<used, fdOf, file, nicknames>>
  BY DEF Unlink, process, names
<1>3. /\ Linked \subseteq Node /\ p \in Node /\ n \in Node /\ next'[p] = next[n]
      /\ \A k \in Node : k # p => next'[k] = next[k]
  BY <1>1, ListFacts DEF IndInv, TypeOK
<1>4. \A k \in Node : rank[k] \in Int
  OBVIOUS
<1>5. ASSUME NEW h \in Conn PROVE \E S \in SUBSET Node : Walk(rank, S, op[h])'
  <2>1. PICK o, new : o = op[h] /\ new = op'[h]
    OBVIOUS
  <2>2. PICK S \in SUBSET Node : Walk(rank, S, o)
    BY <2>1, Zenon DEF Walks
  <2>3. o \in Operation
    BY <2>1 DEF IndInv, TypeOK
  <2>4. /\ new.at = o.at /\ new.cur = o.cur /\ new.n = o.n /\ new.fd = o.fd /\ new.who = o.who
        /\ new.stayed = o.stayed \ {c} /\ new.reused = o.reused
        /\ \A x \in Conn : new.got[x] = o.got[x] \/ new.got[x] = 0
        /\ \A x \in new.stayed : new.got[x] = o.got[x]
        /\ Active(o) => new.left
    <3>1. o.stayed \subseteq Conn /\ o.got \in [Conn -> Nat] /\ (~ Active(o) => o.stayed = {})
      BY <2>2, <2>3 DEF Operation, Walk, Stayers
    <3>2. new = IF ~ Busy(h) THEN o
                ELSE [o EXCEPT !.stayed = @ \ {c}, !.got[c] = 0, !.left = TRUE]
      BY <2>1 DEF Unlink
    <3>3. Busy(h) <=> Active(o)
      BY <2>1 DEF Busy, Active
    <3>4. CASE ~ Active(o)
      BY <3>1, <3>2, <3>3, <3>4
    <3>5. CASE Active(o)
      <4>1. new = [o EXCEPT !.stayed = o.stayed \ {c}, !.got = [o.got EXCEPT ![c] = 0],
                            !.left = TRUE]
        BY <3>2, <3>3, <3>5
      <4>2. new.got = [o.got EXCEPT ![c] = 0] /\ new.stayed = o.stayed \ {c}
        BY <2>3, <4>1 DEF Operation
      <4>. QED BY <2>3, <3>1, <3>5, <4>1, <4>2 DEF Operation
    <3>. QED BY <3>4, <3>5
  <2>5. /\ o.cur \in Node \cup {Null} /\ o.stayed \subseteq Listed /\ o.n \in Nat
        /\ (Active(new) <=> Active(o)) /\ (Sound(new) => Sound(o))
        /\ new.stayed \subseteq o.stayed
    BY <2>2, <2>3, <2>4 DEF Operation, Walk, Stayers, Active, Sound
  <2>6. Stayers(new)'
    BY <1>1, <2>2, <2>4, <2>5 DEF Walk, Stayers
  <2>7. Passed(rank, new)'
    BY <1>2, <2>2, <2>4, <2>5 DEF Walk, Passed
  <2>8. Ahead(rank, S, new)'
    <3>. SUFFICES ASSUME Sound(new) PROVE Ahead(rank, S, new)'
      BY DEF Ahead
    <3>1. /\ Linked \subseteq S /\ S \subseteq 0 .. used
          /\ \A k \in S : next[k] # Null => next[k] \in S
          /\ \A k \in S, x \in o.stayed \cup {0} : rank[k] < x => next[k] # Null /\ rank[next[k]] <= x
          /\ o.at \in {"count", "load", "send", "seek", "read"} /\ o.cur # Null => o.cur \in S
      BY <2>2, <2>5 DEF Walk, Ahead, NoGap
    <3>2. n \in S /\ new.left
      BY <2>4, <2>5, <3>1 DEF Sound
    <3>3. \A k \in S : next'[k] # Null => next'[k] \in S
      BY <1>3, <3>1, <3>2
    <3>4. ASSUME NEW k \in S, NEW x \in new.stayed \cup {0}, rank[k] < x
          PROVE  next'[k] # Null /\ rank[next'[k]] <= x
      <4>1. next[k] # Null /\ rank[next[k]] <= x /\ x \in Int /\ x # c
        <5>1. x \in o.stayed \cup {0} /\ x # c /\ x \in Int
          <6>1. c \in Int /\ c # 0 /\ Conn \subseteq Int
            BY DEF Conn
          <6>2. \A y \in o.stayed : y \in Int
            <7>1. o.stayed \subseteq Conn
              BY <2>5, ListedType, Zenon
            <7>2. \A y \in Conn : y \in Int
              BY <6>1
            <7>. QED BY <7>1, <7>2, Zenon
          <6>3. x \in (o.stayed \ {c}) \cup {0}
            BY <2>4
          <6>. HIDE DEF Conn
          <6>. QED BY <6>1, <6>2, <6>3
        <5>. QED BY <3>1, <3>4, <5>1
      <4>2. CASE k = p
        <5>1. rank[n] < x
          BY <1>1, <1>3, <4>1, <4>2
        <5>. QED BY <1>3, <2>5, <3>1, <3>2, <4>2, <5>1
      <4>3. CASE k # p
        BY <1>3, <4>1, <4>3
      <4>. QED BY <4>2, <4>3
    <3>5. NoGap(next', rank, S, new.stayed \cup {0})
      BY <3>4 DEF NoGap
    <3>. QED BY <1>1, <1>2, <2>4, <3>1, <3>2, <3>3, <3>5 DEF Ahead
  <2>9. Counted(rank, new)'
    <3>. SUFFICES ASSUME o.at = "count" PROVE Counted(rank, new)'
      BY <2>4 DEF Counted
    <3>. DEFINE A == Before(rank, ToCount(rank, o), o)
                B == Before(rank, ToCount(rank, new)', new)
    <3>1. A \in SUBSET Node /\ B \in SUBSET A
      BY <1>1, <1>3, <2>4, <2>5 DEF Before, ToCount
    <3>2. Cardinality(A) \in Nat /\ Cardinality(B) \in Nat /\ Cardinality(B) <= Cardinality(A)
      BY <3>1, SizeLe
    <3>3. Sound(o) => Cardinality(A) <= o.n
      BY <2>2 DEF Walk, Counted
    <3>4. Sound(new) => Cardinality(B) <= new.n
      <4>. HIDE DEF A, B
      <4>. QED BY <2>4, <2>5, <3>2, <3>3
    <3>5. new.left
      BY <2>4 DEF Active
    <3>. QED BY <3>4, <3>5 DEF Counted, Before
  <2>10. Visited(rank, S, new)'
    <3>. SUFFICES ASSUME o.at \in {"load", "send"} PROVE Visited(rank, S, new)'
      BY <2>4 DEF Visited
    <3>. DEFINE A == ToVisit(rank, S, o)
                B == ToVisit(rank, S, new)
    <3>1. Unsent(new) \subseteq Unsent(o)
      BY <2>4, <2>5 DEF Unsent
    <3>2. A \in SUBSET Node /\ B \in SUBSET A
      BY <2>4, <3>1 DEF ToVisit, Rest
    <3>3. Cardinality(A) \in Nat /\ Cardinality(B) \in Nat /\ Cardinality(B) <= Cardinality(A)
      BY <3>2, SizeLe
    <3>4. Sound(o) => /\ \A x \in Unsent(o) : o.cur # Null /\ rank[o.cur] <= x
                      /\ o.at = "send" /\ rank[o.cur] \in o.stayed => o.fd = fdOf[rank[o.cur]]
                      /\ Cardinality(A) <= o.n
      BY <2>2 DEF Walk, Visited
    <3>5. Sound(new) => /\ \A x \in Unsent(new) : new.cur # Null /\ rank[new.cur] <= x
                        /\ new.at = "send" /\ rank[new.cur] \in new.stayed => new.fd = fdOf[rank[new.cur]]
                        /\ Cardinality(B) <= new.n
      <4>. HIDE DEF A, B
      <4>. QED BY <2>4, <2>5, <3>1, <3>3, <3>4
    <3>6. new.left
      BY <2>4 DEF Active
    <3>. QED BY <1>2, <3>5, <3>6 DEF Visited, Rest, ToVisit, Unsent
  <2>11. Sought(rank, new)'
    BY <1>2, <2>2, <2>4, <2>5 DEF Walk, Sought
  <2>12. Walk(rank, S, new)'
    BY <2>6, <2>7, <2>8, <2>9, <2>10, <2>11 DEF Walk
  <2>. QED BY <2>1, <2>12, WalkOf
<1>. QED BY <1>1, <1>5 DEF WalkInv

-----------------------------------------------------------------------------
(***************************************************************************)
(* The steps of a walk.                                                    *)
(***************************************************************************)

\* The list as it is has no gap.
LEMMA AheadLinked ==
    ASSUME IndInv, NEW rank \in [Node -> Int], ListInvariant(rank),
           NEW o, o.stayed \subseteq Listed, o.cur # Null => o.cur \in Linked
    PROVE  Ahead(rank, Linked, o)
<1>1. /\ \A k \in Linked : next[k] # Null => next[k] \in Linked
      /\ Linked \subseteq 0 .. used /\ Root \in Linked /\ rank[Root] = 0
      /\ NoGap(next, rank, Linked, {rank[x] : x \in Linked})
  BY ListFacts DEF ListInvariant, Outside, ListOrder
<1>2. o.stayed \cup {0} \subseteq {rank[x] : x \in Linked}
  BY <1>1, ListedFacts
<1>3. NoGap(next, rank, Linked, o.stayed \cup {0})
  BY <1>1, <1>2 DEF NoGap
<1>. QED BY <1>1, <1>3 DEF Ahead

\* From Anchor the first node is Root.
LEMMA FirstIsRoot ==
    ASSUME IndInv, NEW rank \in [Node -> Int], ListInvariant(rank)
    PROVE  next[Anchor] = Root /\ \A k \in Linked : k # Anchor => rank[k] >= 0
<1>1. /\ Anchor \in Linked /\ Root \in Linked /\ Linked \subseteq Node
      /\ rank[Anchor] = -1 /\ rank[Root] = 0
      /\ NoGap(next, rank, Linked, {rank[x] : x \in Linked})
      /\ \A k \in Node, x \in Linked : rank[k] = rank[x] => k = x
      /\ \A k \in Linked : next[k] # Null => next[k] \in Linked
      /\ \A k \in Linked : rank[k] \in -1 .. accepted
  BY ListFacts DEF ListInvariant, ListOrder
<1>2. \A k \in Linked : k # Anchor => rank[k] >= 0
  BY <1>1
<1>3. next[Anchor] # Null /\ rank[next[Anchor]] <= 0
  BY <1>1 DEF NoGap
<1>4. rank[Anchor] < rank[next[Anchor]]
  BY <1>1, <1>3 DEF ListInvariant, Rising
<1>5. next[Anchor] \in Linked /\ rank[next[Anchor]] = 0
  BY <1>1, <1>3, <1>4
<1>. QED BY <1>1, <1>2, <1>5

\* A nickname is asked for or added, an answer is sent, a /msgall is over.
LEMMA IdleWalk ==
    ASSUME IndInv, NEW rank \in [Node -> Int], ListInvariant(rank), Walks(rank),
           NEW h \in Conn,
           \/ AskNick(h) \/ AddNick(h) \/ Answer(h)
           \/ Goto(h, Quiet) /\ UNCHANGED <<list, process, main, nicknames>>
    PROVE  WalkInv'
<1>1. \E new \in {Quiet, [Quiet EXCEPT !.at = "nick"]} : Goto(h, new)
  BY DEF AskNick, AddNick, Answer
<1>2. PICK new \in {Quiet, [Quiet EXCEPT !.at = "nick"]} : Goto(h, new)
  BY <1>1
<1>3. ~ Active(new) /\ new.stayed = {} /\ new.who = None /\ \A c \in Conn : new.got[c] = 0
  BY <1>2 DEF Quiet, Active
<1>4. Walk(rank, {}, new)
  BY <1>3, QuietWalk
<1>5. UNCHANGED <<list, process, main>> /\ nicknames \subseteq nicknames'
  BY DEF AskNick, AddNick, Answer, names
<1>6. {} \in SUBSET Node
  OBVIOUS
<1>. QED BY <1>2, <1>4, <1>5, <1>6, HandlerWalk

\* A walk begins: whoever is listed stays, as yet.
LEMMA MsgallWalk ==
    ASSUME IndInv, NEW rank \in [Node -> Int], ListInvariant(rank), Walks(rank),
           NEW h \in Conn, Msgall(h)
    PROVE  WalkInv'
<1>. DEFINE new == [Quiet EXCEPT !.at = "count", !.cur = Anchor, !.stayed = Listed]
<1>1. /\ new.at = "count" /\ new.cur = Anchor /\ new.n = 0 /\ new.who = None
      /\ new.stayed = Listed /\ new.left = FALSE /\ \A c \in Conn : new.got[c] = 0
  BY DEF Quiet
<1>2. Goto(h, new) /\ UNCHANGED <<list, process, main, nicknames>>
  BY DEF Msgall, Begin, names
<1>. HIDE DEF new
<1>3. /\ Anchor \in Linked /\ Linked \subseteq Node
      /\ \A k \in Linked : rank[k] >= -1 /\ rank[k] \in Int /\ rank[Anchor] = -1
  BY ListFacts DEF ListInvariant, ListOrder
<1>4. Stayers(new) /\ Passed(rank, new) /\ Visited(rank, Linked, new) /\ Sought(rank, new)
  <2>1. Stayers(new) /\ Visited(rank, Linked, new)
    BY <1>1 DEF Stayers, Visited, Active
  <2>2. Passed(rank, new)
    BY <1>1, ListedType DEF Passed
  <2>3. None \notin Listed
    BY ListedType DEF None, Conn
  <2>4. Sought(rank, new)
    BY <1>1, <2>3 DEF Sought
  <2>. QED BY <2>1, <2>2, <2>4
<1>5. Ahead(rank, Linked, new)
  BY <1>1, <1>3, AheadLinked
<1>6. Counted(rank, new)
  <2>1. Before(rank, ToCount(rank, new), new) = {} /\ Before(rank, Linked, new) = {}
    <3>1. ASSUME NEW k \in Linked PROVE ~ (new.cur = Null \/ rank[k] < rank[new.cur])
      BY <1>1, <1>3, NodeFacts
    <3>. QED BY <3>1 DEF Before, ToCount
  <2>. QED BY <1>1, <2>1, FS_EmptySet DEF Counted
<1>7. Walk(rank, Linked, new)
  BY <1>4, <1>5, <1>6 DEF Walk
<1>8. PICK T \in SUBSET Node : Walk(rank, T, new)
  BY <1>3, <1>7
<1>. QED BY <1>2, <1>8, HandlerWalk

LEMMA WhoisWalk ==
    ASSUME IndInv, NEW rank \in [Node -> Int], ListInvariant(rank), Walks(rank),
           NEW h \in Conn, NEW who \in Conn, Whois(h, who)
    PROVE  WalkInv'
<1>. DEFINE new == [Quiet EXCEPT !.at = "again", !.who = who, !.stayed = Listed]
<1>1. /\ new.at = "again" /\ new.cur = Null /\ new.who = who
      /\ new.stayed = Listed /\ new.left = FALSE /\ \A c \in Conn : new.got[c] = 0
  BY DEF Quiet
<1>2. Goto(h, new) /\ UNCHANGED <<list, process, main, nicknames>> /\ who \in nicknames
  BY DEF Whois, Begin, names
<1>. HIDE DEF new
<1>3. Stayers(new) /\ Passed(rank, new) /\ Visited(rank, Linked, new) /\ Sought(rank, new)
      /\ Counted(rank, new)
  BY <1>1, <1>2, ListedType DEF Stayers, Passed, Visited, Counted, Sought, Active
<1>4. Linked \subseteq Node /\ Ahead(rank, Linked, new)
  BY <1>1, ListFacts, AheadLinked
<1>5. Walk(rank, Linked, new)
  BY <1>3, <1>4 DEF Walk
<1>6. PICK T \in SUBSET Node : Walk(rank, T, new)
  BY <1>4, <1>5
<1>. QED BY <1>2, <1>6, HandlerWalk

\* Counting goes on.
LEMMA CountWalk ==
    ASSUME IndInv, NEW rank \in [Node -> Int], ListInvariant(rank), Walks(rank),
           NEW h \in Conn, Count(h), op[h].cur # Null
    PROVE  WalkInv'
<1>1. PICK o : o = op[h]
  OBVIOUS
<1>2. PICK S \in SUBSET Node : Walk(rank, S, o)
  BY <1>1, Zenon DEF Walks
<1>. DEFINE new == [o EXCEPT !.n = o.n + 1, !.cur = next[o.cur]]
<1>3. /\ o \in Operation /\ o.at = "count" /\ o.cur \in Node /\ o.n \in Nat
      /\ o.stayed \subseteq Listed
  BY <1>1, <1>2 DEF Count, Counting, At, IndInv, TypeOK, Operation, Walk, Stayers
<1>4. Goto(h, new) /\ UNCHANGED <<list, process, main, nicknames>>
  BY <1>1 DEF Count, Counting, names
<1>5. /\ new.at = "count" /\ new.cur = next[o.cur] /\ new.n = o.n + 1 /\ new.who = o.who
      /\ new.stayed = o.stayed /\ new.left = o.left /\ new.reused = o.reused /\ new.got = o.got
      /\ (Sound(new) <=> Sound(o))
  BY <1>3 DEF Operation, Sound, Active
<1>. HIDE DEF new
<1>6. Stayers(new) /\ Visited(rank, S, new) /\ Sought(rank, new)
  BY <1>2, <1>3, <1>5 DEF Walk, Stayers, Visited, Sought, Active
<1>7. Passed(rank, new)
  BY <1>2, <1>3, <1>5, ListedType DEF Walk, Passed
<1>8. Ahead(rank, S, new)
  BY <1>2, <1>3, <1>5, NodeFacts DEF Walk, Ahead
<1>9. /\ Linked \subseteq Node
      /\ \A k \in Linked : rank[k] >= -1 /\ rank[k] \in Int
      /\ \A k \in Node, x \in Linked : rank[k] = rank[x] => k = x
      /\ rank[Anchor] = -1 /\ rank[o.cur] \in Int
      /\ next[o.cur] # Null => /\ rank[o.cur] < rank[next[o.cur]] /\ rank[next[o.cur]] \in Int
  <2>1. /\ Linked \subseteq Node /\ \A k \in Linked : rank[k] \in -1 .. accepted
    BY ListFacts
  <2>2. next[o.cur] # Null => next[o.cur] \in Node /\ rank[o.cur] < rank[next[o.cur]]
    BY <1>3 DEF ListInvariant, Rising, IndInv, TypeOK
  <2>3. \A k \in Node, x \in Linked : rank[k] = rank[x] => k = x
    BY DEF ListInvariant, ListOrder
  <2>4. rank[Anchor] = -1
    BY DEF ListInvariant, ListOrder
  <2>. QED BY <1>3, <2>1, <2>2, <2>3, <2>4
<1>10. ASSUME Sound(new) PROVE Cardinality(Before(rank, ToCount(rank, new), new)) <= new.n
  <2>. DEFINE A == Before(rank, ToCount(rank, o), o)
              B == Before(rank, ToCount(rank, new), new)
  <2>1. /\ o.cur \in S /\ S \subseteq 0 .. used
        /\ \A k \in S, x \in o.stayed \cup {0} : rank[k] < x => next[k] # Null /\ rank[next[k]] <= x
    BY <1>2, <1>3, <1>5, <1>10, NodeFacts DEF Walk, Ahead, NoGap
  <2>2. rank[o.cur] >= -1
    BY <2>1 DEF ListInvariant, Outside
  <2>3. ASSUME NEW k \in B PROVE k \in A \cup {o.cur}
    <3>1. k \in Linked /\ rank[k] \in o.stayed \cup {-1, 0}
          /\ (next[o.cur] = Null \/ rank[k] < rank[next[o.cur]])
      BY <1>5 DEF Before, ToCount
    <3>2. CASE rank[k] < rank[o.cur]
      BY <3>1, <3>2 DEF Before, ToCount
    <3>3. CASE rank[k] = rank[o.cur]
      BY <1>3, <1>9, <3>1, <3>3
    <3>4. CASE rank[o.cur] < rank[k]
      <4>1. rank[k] \in o.stayed \cup {0}
        BY <1>9, <2>2, <3>1, <3>4
      <4>2. next[o.cur] # Null /\ rank[next[o.cur]] <= rank[k]
        BY <2>1, <3>4, <4>1
      <4>. QED BY <1>9, <3>1, <4>2
    <3>. QED BY <1>9, <3>1, <3>2, <3>3, <3>4
  <2>4. A \in SUBSET Node /\ B \in SUBSET (A \cup {o.cur})
    BY <1>9, <2>3 DEF Before, ToCount
  <2>5. Cardinality(A) <= o.n
    BY <1>2, <1>3, <1>5, <1>10 DEF Walk, Counted
  <2>. HIDE DEF A, B
  <2>6. /\ Cardinality(A) \in Nat /\ Cardinality(A \cup {o.cur}) \in Nat
        /\ Cardinality(A \cup {o.cur}) <= Cardinality(A) + 1
    <3>1. /\ Cardinality(A) \in Nat
          /\ \/ Cardinality(A \cup {o.cur}) = Cardinality(A)
             \/ Cardinality(A \cup {o.cur}) = Cardinality(A) + 1
      BY <1>3, <2>4, SizeAdd, Zenon
    <3>. QED BY <3>1
  <2>7. A \cup {o.cur} \in SUBSET Node
    BY <1>3, <2>4
  <2>8. Cardinality(B) \in Nat /\ Cardinality(B) <= Cardinality(A \cup {o.cur})
    BY <2>4, <2>7, SizeLe
  <2>9. Cardinality(B) <= new.n
    BY <1>3, <1>5, <2>5, <2>6, <2>8
  <2>. QED BY <2>9 DEF B
<1>11. ASSUME ~ new.left PROVE new.n <= Cardinality(Before(rank, Linked, new))
  <2>. DEFINE A == Before(rank, Linked, o)
              B == Before(rank, Linked, new)
  <2>1. Sound(o)
    BY <1>3, <1>5, <1>11 DEF Sound, Active
  <2>2. o.cur \in Linked
    BY <1>2, <1>3, <1>5, <1>11, <2>1, NodeFacts DEF Walk, Ahead
  <2>3. A \cup {o.cur} \subseteq B
    <3>1. \A k \in A : k \in Linked /\ rank[k] < rank[o.cur]
      BY <1>3, NodeFacts DEF Before
    <3>. QED BY <1>5, <1>9, <2>2, <3>1 DEF Before
  <2>4. o.cur \notin A /\ A \in SUBSET Node /\ B \in SUBSET Node
    <3>1. o.cur # Null /\ ~ (rank[o.cur] < rank[o.cur])
      BY <1>3, <1>9, NodeFacts
    <3>. QED BY <1>9, <3>1 DEF Before
  <2>5. o.n <= Cardinality(A)
    BY <1>2, <1>3, <1>5, <1>11 DEF Walk, Counted
  <2>. HIDE DEF A, B
  <2>6. Cardinality(A) \in Nat /\ Cardinality(A \cup {o.cur}) = Cardinality(A) + 1
    BY <1>3, <2>4, SizeAdd
  <2>7. Cardinality(B) \in Nat /\ Cardinality(A \cup {o.cur}) <= Cardinality(B)
    BY <2>3, <2>4, SizeLe
  <2>8. new.n <= Cardinality(B)
    BY <1>3, <1>5, <2>5, <2>6, <2>7
  <2>. QED BY <2>8 DEF B
<1>12. Counted(rank, new)
  BY <1>10, <1>11 DEF Counted
<1>13. Walk(rank, S, new)
  BY <1>6, <1>7, <1>8, <1>12 DEF Walk
<1>. QED BY <1>4, <1>13, HandlerWalk

\* All nodes are counted, and the one of Anchor is not to be visited.
LEMMA CountedWalk ==
    ASSUME IndInv, NEW rank \in [Node -> Int], ListInvariant(rank), Walks(rank),
           NEW h \in Conn, Count(h), op[h].cur = Null
    PROVE  WalkInv'
<1>1. PICK o : o = op[h]
  OBVIOUS
<1>2. PICK S \in SUBSET Node : Walk(rank, S, o)
  BY <1>1, Zenon DEF Walks
<1>. DEFINE new == [o EXCEPT !.n = o.n - 1, !.cur = next[Anchor], !.at = "load"]
<1>3. /\ o \in Operation /\ o.at = "count" /\ o.cur = Null /\ o.n \in Nat /\ o.n > 0
      /\ o.stayed \subseteq Listed /\ o.stayed \subseteq Conn
  <2>1. o \in Operation /\ o.at = "count" /\ o.cur = Null /\ (o.n > 0 \/ o.cur = Anchor)
    BY <1>1 DEF Count, Counting, At, IndInv, TypeOK, HandlerInv, Stands
  <2>2. o.n > 0
    BY <2>1, NodeFacts
  <2>. QED BY <1>2, <2>1, <2>2, ListedType DEF Operation, Walk, Stayers
<1>4. Goto(h, new) /\ UNCHANGED <<list, process, main, nicknames>>
  BY <1>1, <1>3 DEF Count, Counting, names
<1>5. next[Anchor] = Root /\ \A k \in Linked : k # Anchor => rank[k] >= 0
  BY FirstIsRoot
<1>6. /\ new.at = "load" /\ new.cur = Root /\ new.n = o.n - 1 /\ new.who = o.who
      /\ new.stayed = o.stayed /\ new.left = o.left /\ new.reused = o.reused /\ new.got = o.got
      /\ (Sound(new) <=> Sound(o))
  BY <1>3, <1>5 DEF Operation, Sound, Active
<1>. HIDE DEF new
<1>7. /\ Anchor \in Linked /\ Root \in Linked /\ Linked \subseteq Node
      /\ \A k \in Linked : rank[k] \in Int
      /\ rank[Anchor] = -1 /\ rank[Root] = 0
      /\ \A k \in Linked : rank[k] \in Conn <=> k \notin {Anchor, Root}
  BY ListFacts DEF ListInvariant, ListOrder
<1>8. Stayers(new) /\ Sought(rank, new)
  BY <1>2, <1>3, <1>6 DEF Walk, Stayers, Sought, Active
<1>9. Passed(rank, new)
  BY <1>2, <1>3, <1>6 DEF Walk, Passed
<1>10. Ahead(rank, Linked, new)
  BY <1>3, <1>6, <1>7, AheadLinked
<1>11. Counted(rank, new)
  BY <1>6 DEF Counted
<1>12. ASSUME Sound(new)
       PROVE  /\ \A c \in Unsent(new) : new.cur # Null /\ rank[new.cur] <= c
              /\ Cardinality(ToVisit(rank, Linked, new)) <= new.n
  <2>. DEFINE A == Before(rank, ToCount(rank, o), o)
              B == ToVisit(rank, Linked, new)
  <2>1. A = ToCount(rank, o)
    BY <1>3 DEF Before, ToCount
  <2>2. Cardinality(A) <= o.n
    BY <1>2, <1>3, <1>6, <1>12 DEF Walk, Counted
  <2>3. ASSUME NEW k \in B PROVE k \in A \ {Anchor}
    <3>1. PICK c \in o.stayed : k \in Linked /\ 0 <= rank[k] /\ rank[k] <= c
      BY <1>6, <1>7 DEF ToVisit, Rest, Unsent
    <3>2. k # Anchor
      BY <1>7, <3>1
    <3>3. CASE k = Root
      BY <1>7, <2>1, <3>2, <3>3 DEF ToCount
    <3>4. CASE k # Root
      <4>1. rank[k] \in Conn /\ rank[k] \in Listed
        BY <1>7, <3>1, <3>2, <3>4, ListedFacts
      <4>2. rank[k] < c \/ rank[k] = c
        BY <1>3, <1>7, <3>1 DEF Conn
      <4>3. rank[k] \in o.stayed
        BY <1>2, <4>1, <4>2 DEF Walk, Stayers
      <4>. QED BY <2>1, <3>1, <3>2, <4>3 DEF ToCount
    <3>. QED BY <3>3, <3>4
  <2>4. Anchor \in A /\ A \in SUBSET Node
    BY <1>7, <2>1 DEF ToCount
  <2>5. \A c \in Unsent(new) : rank[new.cur] <= c
    BY <1>3, <1>6, <1>7 DEF Unsent, Conn
  <2>. HIDE DEF A, B
  <2>6. Cardinality(A) \in Nat /\ Cardinality(A \ {Anchor}) = Cardinality(A) - 1
    BY <2>4, NodeFacts, SizeAdd
  <2>7. Cardinality(B) \in Nat /\ Cardinality(B) <= Cardinality(A \ {Anchor})
    BY <2>3, <2>4, SizeLe
  <2>8. Cardinality(B) <= new.n
    BY <1>3, <1>6, <2>2, <2>6, <2>7
  <2>. QED BY <1>6, <2>5, <2>8, NodeFacts DEF B
<1>13. ASSUME ~ new.left PROVE new.n <= Cardinality(Rest(rank, Linked, new))
  <2>1. Before(rank, Linked, o) = Linked
    BY <1>3 DEF Before
  <2>2. Rest(rank, Linked, new) = Linked \ {Anchor}
    BY <1>5, <1>6, <1>7, NodeFacts DEF Rest
  <2>3. o.n <= Cardinality(Linked)
    BY <1>2, <1>3, <1>6, <1>13, <2>1 DEF Walk, Counted
  <2>4. Cardinality(Linked) \in Nat /\ Cardinality(Linked \ {Anchor}) = Cardinality(Linked) - 1
    BY <1>7, NodeFacts, SizeAdd
  <2>. QED BY <1>3, <1>6, <2>2, <2>3, <2>4
<1>14. Visited(rank, Linked, new)
  BY <1>6, <1>12, <1>13 DEF Visited
<1>15. Walk(rank, Linked, new)
  BY <1>8, <1>9, <1>10, <1>11, <1>14 DEF Walk
<1>16. PICK T \in SUBSET Node : Walk(rank, T, new)
  BY <1>7, <1>15
<1>. QED BY <1>4, <1>16, HandlerWalk

\* A node that is listed holds the descriptor of the client of its rank, and one
\* that is not, none of those to reach.
LEMMA NodeHolds ==
    ASSUME IndInv, NEW rank \in [Node -> Int], ListInvariant(rank), NEW k \in Node
    PROVE  /\ rank[k] \in Listed => /\ fd[k] \in Fd /\ fd[k] = fdOf[rank[k]] /\ conn[k] = rank[k]
                                    /\ file[fd[k]] = rank[k]
           /\ fd[k] \in Fd /\ file[fd[k]] \in Listed => file[fd[k]] = rank[k]
<1>1. ASSUME rank[k] \in Listed
      PROVE  /\ fd[k] \in Fd /\ fd[k] = fdOf[rank[k]] /\ conn[k] = rank[k]
             /\ file[fd[k]] = rank[k]
  <2>1. PICK x \in Linked : rank[x] = rank[k]
    BY <1>1, ListedFacts
  <2>2. k = x
    BY <2>1 DEF ListInvariant, ListOrder
  <2>. QED BY <1>1, <2>1, <2>2, ListedFacts
<1>2. ASSUME fd[k] \in Fd, file[fd[k]] \in Listed PROVE file[fd[k]] = rank[k]
  <2>1. CASE k \in Linked
    <3>1. k \notin {Anchor, Root}
      BY <1>2 DEF ListInvariant, ListOrder, Fd
    <3>. QED BY <2>1, <3>1 DEF ListInvariant, ListOrder
  <2>2. CASE k \notin Linked
    <3>1. main.at \in {"link", "free"} /\ fd[k] = fdOf[main.c]
      BY <1>2, <2>2 DEF ListInvariant, Outside
    <3>2. file[fd[k]] = main.c /\ main.c \notin Listed
      BY <3>1 DEF ListInvariant, Dealt
    <3>. QED BY <1>2, <3>2
  <2>. QED BY <2>1, <2>2
<1>. QED BY <1>1, <1>2

\* A crash moves nothing.
LEMMA DieWalk ==
    ASSUME NEW rank \in [Node -> Int], ListInvariant(rank), Walks(rank), NEW h \in Conn, Die(h),
           UNCHANGED <<list, process, main, nicknames>>
    PROVE  WalkInv' /\ UNCHANGED op
<1>1. UNCHANGED <<op, next, used, fdOf, file>> /\ Linked' = Linked /\ Listed' = Listed
  BY ListedStays DEF Die, list, process
<1>2. ListInvariant(rank)' /\ Walks(rank)'
  BY <1>1, HandlerList, WalksStay
<1>. QED BY <1>1, <1>2 DEF WalkInv, Walks

\* A node's descriptor is read.
LEMMA LoadWalk ==
    ASSUME IndInv, NEW rank \in [Node -> Int], ListInvariant(rank), Walks(rank),
           NEW h \in Conn, Load(h)
    PROVE  WalkInv'
<1>0. UNCHANGED <<list, process, main, nicknames>> /\ op[h].at = "load"
  BY DEF Load, names, At
<1>1. CASE Goto(h, Quiet)
  BY <1>0, <1>1, IdleWalk
<1>2. CASE Die(h)
  BY <1>0, <1>2, DieWalk
<1>3. CASE /\ op[h].n > 0 /\ op[h].cur # Null
           /\ Goto(h, [op[h] EXCEPT !.at = "send", !.fd = fd[op[h].cur]])
  <2>1. PICK o : o = op[h]
    OBVIOUS
  <2>2. PICK S \in SUBSET Node : Walk(rank, S, o)
    BY <2>1, Zenon DEF Walks
  <2>. DEFINE new == [o EXCEPT !.at = "send", !.fd = fd[o.cur]]
  <2>3. o \in Operation /\ o.at = "load" /\ o.cur \in Node /\ o.stayed \subseteq Listed
    BY <1>0, <1>3, <2>1, <2>2 DEF IndInv, TypeOK, Operation, Walk, Stayers
  <2>4. /\ new.at = "send" /\ new.fd = fd[o.cur] /\ new.cur = o.cur /\ new.n = o.n
        /\ new.who = o.who /\ new.stayed = o.stayed /\ new.left = o.left
        /\ new.reused = o.reused /\ new.got = o.got /\ (Sound(new) <=> Sound(o))
    BY <2>3 DEF Operation, Sound, Active
  <2>5. Goto(h, new)
    BY <1>3, <2>1
  <2>. HIDE DEF new
  <2>6. Stayers(new) /\ Sought(rank, new) /\ Counted(rank, new)
    BY <2>2, <2>3, <2>4 DEF Walk, Stayers, Sought, Counted, Active
  <2>7. Ahead(rank, S, new)
    BY <2>2, <2>3, <2>4 DEF Walk, Ahead
  <2>8. Passed(rank, new)
    <3>1. new.fd \in Fd /\ file[new.fd] \in new.stayed => file[new.fd] = rank[new.cur]
      BY <2>3, <2>4, NodeHolds
    <3>. QED BY <2>2, <2>3, <2>4, <3>1 DEF Walk, Passed
  <2>9. Visited(rank, S, new)
    <3>1. rank[new.cur] \in new.stayed => new.fd = fdOf[rank[new.cur]]
      BY <2>3, <2>4, NodeHolds
    <3>2. /\ Unsent(new) = Unsent(o) /\ ToVisit(rank, S, new) = ToVisit(rank, S, o)
          /\ Rest(rank, Linked, new) = Rest(rank, Linked, o)
      BY <2>4 DEF ToVisit, Rest, Unsent
    <3>. QED BY <2>2, <2>3, <2>4, <3>1, <3>2 DEF Walk, Visited
  <2>10. Walk(rank, S, new)
    BY <2>6, <2>7, <2>8, <2>9 DEF Walk
  <2>. QED BY <1>0, <2>5, <2>10, HandlerWalk
<1>. QED BY <1>1, <1>2, <1>3 DEF Load

\* Who is sent a copy is the client of the node's rank, if it has to be reached.
LEMMA SendTo ==
    ASSUME IndInv, NEW rank \in [Node -> Int], ListInvariant(rank),
           NEW S, NEW o \in Operation, Walk(rank, S, o), o.at = "send", o.cur \in Node,
           NEW to, to = IF o.fd \in Fd THEN file[o.fd] ELSE None
    PROVE  /\ to \in o.stayed => to = rank[o.cur] /\ o.got[to] = 0
           /\ Sound(o) /\ rank[o.cur] \in o.stayed => to = rank[o.cur]
<1>1. o.stayed \subseteq Conn /\ o.stayed \subseteq Listed /\ o.got \in [Conn -> Nat]
  BY ListedType DEF Operation, Walk, Stayers
<1>2. ASSUME to \in o.stayed PROVE to = rank[o.cur] /\ o.got[to] = 0
  <2>1. o.fd \in Fd /\ to = file[o.fd]
    BY <1>1, <1>2 DEF None, Conn
  <2>2. to = rank[o.cur]
    BY <1>2, <2>1 DEF Walk, Passed
  <2>3. o.cur # Null /\ ~ (to < rank[o.cur])
    BY <2>2, NodeFacts
  <2>4. o.got[to] # 1 /\ o.got[to] <= 1 /\ o.got[to] \in Nat
    BY <1>1, <1>2, <2>3 DEF Walk, Passed
  <2>. QED BY <2>2, <2>4
<1>3. ASSUME Sound(o), rank[o.cur] \in o.stayed PROVE to = rank[o.cur]
  <2>1. o.fd = fdOf[rank[o.cur]]
    BY <1>3 DEF Walk, Visited
  <2>2. fd[o.cur] \in Fd /\ fd[o.cur] = fdOf[rank[o.cur]] /\ file[fd[o.cur]] = rank[o.cur]
    BY <1>1, <1>3, NodeHolds
  <2>. QED BY <2>1, <2>2
<1>. QED BY <1>2, <1>3

\* A copy is sent.
LEMMA SendWalk ==
    ASSUME IndInv, NEW rank \in [Node -> Int], ListInvariant(rank), Walks(rank),
           NEW h \in Conn, Send(h)
    PROVE  WalkInv'
<1>1. PICK o : o = op[h]
  OBVIOUS
<1>2. PICK S \in SUBSET Node : Walk(rank, S, o)
  BY <1>1, Zenon DEF Walks
<1>. DEFINE to == IF o.fd \in Fd THEN file[o.fd] ELSE None
            got == [c \in Conn |-> IF c = to /\ c \in o.stayed THEN o.got[c] + 1 ELSE o.got[c]]
            new == [o EXCEPT !.at = "load", !.n = o.n - 1, !.cur = next[o.cur], !.got = got]
<1>3. /\ o \in Operation /\ o.at = "send" /\ o.cur \in Node /\ o.n \in Nat /\ o.n > 0
      /\ o.stayed \subseteq Listed /\ o.stayed \subseteq Conn /\ o.got \in [Conn -> Nat]
  BY <1>1, <1>2, ListedType
     DEF Send, At, IndInv, TypeOK, HandlerInv, Stands, Operation, Walk, Stayers
<1>4. Goto(h, new) /\ UNCHANGED <<list, process, main, nicknames>>
  BY <1>1 DEF Send, names
<1>5. /\ new.at = "load" /\ new.cur = next[o.cur] /\ new.n = o.n - 1 /\ new.who = o.who
      /\ new.stayed = o.stayed /\ new.left = o.left /\ new.reused = o.reused /\ new.got = got
      /\ (Sound(new) <=> Sound(o))
  BY <1>3 DEF Operation, Sound, Active
<1>6. /\ to \in o.stayed => to = rank[o.cur] /\ o.got[to] = 0
      /\ Sound(o) /\ rank[o.cur] \in o.stayed => to = rank[o.cur]
  BY <1>2, <1>3, SendTo
<1>. HIDE DEF new, to
<1>7. \A c \in o.stayed : new.got[c] = IF c = to THEN o.got[c] + 1 ELSE o.got[c]
  BY <1>3, <1>5
<1>. HIDE DEF got
<1>8. /\ Linked \subseteq Node
      /\ \A k \in Node : rank[k] \in Int
      /\ \A k \in Node, x \in Linked : rank[k] = rank[x] => k = x
      /\ next[o.cur] # Null => rank[o.cur] < rank[next[o.cur]] /\ next[o.cur] \in Node
  <2>1. Linked \subseteq Node
    BY ListFacts
  <2>2. next[o.cur] # Null => next[o.cur] \in Node /\ rank[o.cur] < rank[next[o.cur]]
    BY <1>3 DEF ListInvariant, Rising, IndInv, TypeOK
  <2>3. \A k \in Node, x \in Linked : rank[k] = rank[x] => k = x
    BY DEF ListInvariant, ListOrder
  <2>. QED BY <2>1, <2>2, <2>3
<1>9. Stayers(new) /\ Sought(rank, new) /\ Counted(rank, new)
  BY <1>2, <1>3, <1>5 DEF Walk, Stayers, Sought, Counted, Active
<1>10. Passed(rank, new)
  <2>1. ASSUME NEW c \in o.stayed
        PROVE  new.got[c] <= 1 /\ (new.got[c] = 1 => next[o.cur] = Null \/ c < rank[next[o.cur]])
    <3>1. c \in Int /\ o.got[c] <= 1 /\ (o.got[c] = 1 => c < rank[o.cur])
      BY <1>2, <1>3, NodeFacts DEF Walk, Passed, Conn
    <3>2. CASE c = to
      BY <1>6, <1>7, <1>8, <3>1, <3>2
    <3>3. CASE c # to
      BY <1>3, <1>7, <1>8, <3>1, <3>3
    <3>. QED BY <3>2, <3>3
  <2>. QED BY <1>5, <2>1 DEF Passed
<1>11. Ahead(rank, S, new)
  BY <1>2, <1>3, <1>5, NodeFacts DEF Walk, Ahead
<1>12. Unsent(new) = Unsent(o) \ {to}
  BY <1>3, <1>5, <1>6, <1>7 DEF Unsent
<1>13. ASSUME Sound(new)
       PROVE  /\ \A c \in Unsent(new) : new.cur # Null /\ rank[new.cur] <= c
              /\ Cardinality(ToVisit(rank, S, new)) <= new.n
  <2>1. /\ o.cur \in S
        /\ \A k \in S, x \in o.stayed \cup {0} : rank[k] < x => next[k] # Null /\ rank[next[k]] <= x
        /\ \A c \in Unsent(o) : rank[o.cur] <= c
        /\ Cardinality(ToVisit(rank, S, o)) <= o.n
    BY <1>2, <1>3, <1>5, <1>13, NodeFacts DEF Walk, Ahead, NoGap, Visited
  <2>2. ASSUME NEW c \in Unsent(new) PROVE next[o.cur] # Null /\ rank[next[o.cur]] <= c
    <3>1. c \in o.stayed /\ c \in Int /\ c # to /\ rank[o.cur] <= c
      BY <1>3, <1>12, <2>1 DEF Unsent, Conn
    <3>2. rank[o.cur] # c
      BY <1>5, <1>6, <1>13, <3>1
    <3>3. rank[o.cur] < c
      BY <1>3, <1>8, <3>1, <3>2
    <3>. QED BY <2>1, <3>1, <3>3
  <2>. DEFINE A == ToVisit(rank, S, o)
              B == ToVisit(rank, S, new)
  <2>3. A \in SUBSET Node /\ B \in SUBSET Node
    BY DEF ToVisit, Rest
  <2>4. CASE Unsent(new) = {}
    <3>1. B = {}
      BY <2>4 DEF ToVisit
    <3>2. Cardinality(B) = 0
      BY <3>1, FS_EmptySet
    <3>. QED BY <1>3, <1>5, <2>4, <3>2
  <2>5. CASE Unsent(new) # {}
    <3>1. PICK c \in Unsent(new) : TRUE
      BY <2>5
    <3>2. o.cur \in A
      <4>1. c \in Unsent(o) /\ rank[o.cur] <= c
        BY <1>12, <2>1, <3>1
      <4>2. o.cur # Null /\ rank[o.cur] <= rank[o.cur]
        BY <1>3, <1>8, NodeFacts
      <4>. QED BY <2>1, <4>1, <4>2 DEF ToVisit, Rest
    <3>3. ASSUME NEW k \in B PROVE k \in A \ {o.cur}
      <4>1. /\ k \in S /\ next[o.cur] # Null /\ rank[next[o.cur]] <= rank[k]
            /\ \E x \in Unsent(o) : rank[k] <= x
        BY <1>5, <1>12 DEF ToVisit, Rest
      <4>2. rank[o.cur] < rank[k]
        BY <1>3, <1>8, <4>1
      <4>3. rank[o.cur] <= rank[k] /\ k # o.cur
        BY <1>3, <1>8, <4>1, <4>2
      <4>. QED BY <1>3, <4>1, <4>3, NodeFacts DEF ToVisit, Rest
    <3>. HIDE DEF A, B
    <3>4. Cardinality(A) \in Nat /\ Cardinality(A \ {o.cur}) = Cardinality(A) - 1
      BY <1>3, <2>3, <3>2, SizeAdd
    <3>5. Cardinality(B) \in Nat /\ Cardinality(B) <= Cardinality(A \ {o.cur})
      BY <2>3, <3>3, SizeLe
    <3>6. Cardinality(A) <= o.n
      BY <2>1 DEF A
    <3>7. Cardinality(B) <= new.n
      BY <1>3, <1>5, <3>4, <3>5, <3>6
    <3>. QED BY <1>5, <2>2, <3>7 DEF B
  <2>. QED BY <2>4, <2>5
<1>14. ASSUME ~ new.left PROVE new.n <= Cardinality(Rest(rank, Linked, new))
  <2>. DEFINE A == Rest(rank, Linked, o)
              B == Rest(rank, Linked, new)
  <2>1. Sound(o)
    BY <1>3, <1>5, <1>14 DEF Sound, Active
  <2>2. o.cur \in Linked
    BY <1>2, <1>3, <1>5, <1>14, <2>1, NodeFacts DEF Walk, Ahead
  <2>3. o.n <= Cardinality(A)
    BY <1>2, <1>3, <1>5, <1>14 DEF Walk, Visited
  <2>4. ASSUME NEW k \in A PROVE k \in B \cup {o.cur}
    <3>1. k \in Linked /\ rank[o.cur] <= rank[k]
      BY DEF Rest
    <3>2. CASE rank[o.cur] = rank[k]
      BY <1>3, <1>8, <3>1, <3>2
    <3>3. CASE rank[o.cur] # rank[k]
      <4>1. rank[o.cur] < rank[k]
        BY <1>3, <1>8, <3>1, <3>3
      <4>2. next[o.cur] # Null /\ rank[next[o.cur]] <= rank[k]
        BY <2>2, <3>1, <4>1 DEF ListInvariant, ListOrder, NoGap
      <4>. QED BY <1>5, <3>1, <4>2 DEF Rest
    <3>. QED BY <3>2, <3>3
  <2>5. B \in SUBSET Node /\ B \cup {o.cur} \in SUBSET Node
    BY <1>3, <1>8 DEF Rest
  <2>. HIDE DEF A, B
  <2>6. /\ Cardinality(B) \in Nat
        /\ \/ Cardinality(B \cup {o.cur}) = Cardinality(B)
           \/ Cardinality(B \cup {o.cur}) = Cardinality(B) + 1
    BY <1>3, <2>5, SizeAdd, Zenon
  <2>7. Cardinality(A) \in Nat /\ Cardinality(A) <= Cardinality(B \cup {o.cur})
    BY <2>4, <2>5, SizeLe
  <2>8. new.n <= Cardinality(B)
    BY <1>3, <1>5, <2>3, <2>6, <2>7
  <2>. QED BY <2>8 DEF B
<1>15. Visited(rank, S, new)
  BY <1>5, <1>13, <1>14 DEF Visited
<1>16. Walk(rank, S, new)
  BY <1>9, <1>10, <1>11, <1>15 DEF Walk
<1>. QED BY <1>4, <1>16, HandlerWalk

\* /whois: the descriptor to look for.
LEMMA AgainWalk ==
    ASSUME IndInv, NEW rank \in [Node -> Int], ListInvariant(rank), Walks(rank),
           NEW h \in Conn, Again(h)
    PROVE  WalkInv'
<1>1. PICK o : o = op[h]
  OBVIOUS
<1>2. PICK S \in SUBSET Node : Walk(rank, S, o)
  BY <1>1, Zenon DEF Walks
<1>. DEFINE f == IF o.who \in nicknames THEN fdOf[o.who] ELSE -1
            new == [o EXCEPT !.at = "seek", !.cur = Anchor, !.fd = f]
<1>3. /\ o \in Operation /\ o.at = "again" /\ o.stayed \subseteq Listed /\ o.stayed \subseteq Conn
  BY <1>1, <1>2, ListedType DEF Again, At, IndInv, TypeOK, Walk, Stayers
<1>4. Goto(h, new) /\ UNCHANGED <<list, process, main, nicknames>>
  BY <1>1 DEF Again, names
<1>. HIDE DEF f
<1>5. /\ new.at = "seek" /\ new.cur = Anchor /\ new.n = o.n /\ new.who = o.who /\ new.fd = f
      /\ new.stayed = o.stayed /\ new.left = o.left /\ new.reused = o.reused /\ new.got = o.got
      /\ (Sound(new) <=> Sound(o))
  BY <1>3 DEF Operation, Sound, Active
<1>. HIDE DEF new
<1>6. Stayers(new) /\ Visited(rank, S, new) /\ Counted(rank, new)
  BY <1>2, <1>3, <1>5 DEF Walk, Stayers, Visited, Counted, Active
<1>7. Passed(rank, new)
  BY <1>2, <1>3, <1>5 DEF Walk, Passed
<1>8. Ahead(rank, S, new)
  BY <1>2, <1>3, <1>5, ListFacts DEF Walk, Ahead
<1>9. Sought(rank, new)
  <2>1. rank[Anchor] = -1 /\ \A c \in o.stayed : -1 <= c
    BY <1>3 DEF ListInvariant, ListOrder, Conn
  <2>2. o.who \in Conn /\ (o.who \in o.stayed => o.who \in nicknames)
    BY <1>2, <1>3 DEF Walk, Sought
  <2>. QED BY <1>5, <2>1, <2>2, NodeFacts DEF Sought, f
<1>10. Walk(rank, S, new)
  BY <1>6, <1>7, <1>8, <1>9 DEF Walk
<1>. QED BY <1>4, <1>10, HandlerWalk

\* The node that is looked for is found before the end is reached.
LEMMA SeekWalk ==
    ASSUME IndInv, NEW rank \in [Node -> Int], ListInvariant(rank), Walks(rank),
           NEW h \in Conn, Seek(h)
    PROVE  WalkInv'
<1>0. UNCHANGED <<list, process, main, nicknames>> /\ op[h].at = "seek"
  BY DEF Seek, names, At
<1>1. PICK o : o = op[h]
  OBVIOUS
<1>2. PICK S \in SUBSET Node : Walk(rank, S, o)
  BY <1>1, Zenon DEF Walks
<1>3. o \in Operation /\ o.at = "seek" /\ o.stayed \subseteq Listed /\ o.stayed \subseteq Conn
  BY <1>0, <1>1, <1>2, ListedType DEF IndInv, TypeOK, Walk, Stayers
<1>4. CASE Die(h)
  BY <1>0, <1>4, DieWalk
<1>5. CASE o.cur # Null /\ fd[o.cur] = o.fd /\ Goto(h, [o EXCEPT !.at = "read"])
  <2>. DEFINE new == [o EXCEPT !.at = "read"]
  <2>1. /\ new.at = "read" /\ new.cur = o.cur /\ new.n = o.n /\ new.who = o.who /\ new.fd = o.fd
        /\ new.stayed = o.stayed /\ new.left = o.left /\ new.reused = o.reused /\ new.got = o.got
        /\ (Sound(new) <=> Sound(o)) /\ o.cur \in Node
    BY <1>3, <1>5 DEF Operation, Sound, Active
  <2>2. Goto(h, new)
    BY <1>5
  <2>. HIDE DEF new
  <2>3. Stayers(new) /\ Visited(rank, S, new) /\ Counted(rank, new)
    BY <1>2, <1>3, <2>1 DEF Walk, Stayers, Visited, Counted, Active
  <2>4. Passed(rank, new) /\ Ahead(rank, S, new)
    BY <1>2, <1>3, <2>1 DEF Walk, Passed, Ahead
  <2>5. ASSUME o.who \in o.stayed, Sound(o) PROVE rank[o.cur] = o.who
    <3>1. o.fd = fdOf[o.who]
      BY <1>2, <1>3, <2>5 DEF Walk, Sought
    <3>2. PICK k \in Linked : rank[k] = o.who
      BY <1>3, <2>5, ListedFacts
    <3>3. fdOf[o.who] \in Fd /\ file[fdOf[o.who]] = o.who
      BY <1>3, <2>5, <3>2, ListedFacts
    <3>. QED BY <1>3, <1>5, <2>1, <2>5, <3>1, <3>3, NodeHolds
  <2>6. Sought(rank, new)
    BY <1>2, <1>3, <2>1, <2>5 DEF Walk, Sought
  <2>7. Walk(rank, S, new)
    BY <2>3, <2>4, <2>6 DEF Walk
  <2>. QED BY <1>0, <2>2, <2>7, HandlerWalk
<1>6. CASE o.cur # Null /\ fd[o.cur] # o.fd /\ Goto(h, [o EXCEPT !.cur = next[o.cur]])
  <2>. DEFINE new == [o EXCEPT !.cur = next[o.cur]]
  <2>1. /\ new.at = "seek" /\ new.cur = next[o.cur] /\ new.n = o.n /\ new.who = o.who
        /\ new.fd = o.fd /\ new.stayed = o.stayed /\ new.left = o.left /\ new.reused = o.reused
        /\ new.got = o.got /\ (Sound(new) <=> Sound(o)) /\ o.cur \in Node
    BY <1>3, <1>6 DEF Operation, Sound, Active
  <2>2. Goto(h, new)
    BY <1>6
  <2>. HIDE DEF new
  <2>3. Stayers(new) /\ Visited(rank, S, new) /\ Counted(rank, new)
    BY <1>2, <1>3, <2>1 DEF Walk, Stayers, Visited, Counted, Active
  <2>4. Passed(rank, new)
    BY <1>2, <1>3, <2>1 DEF Walk, Passed
  <2>5. Ahead(rank, S, new)
    BY <1>2, <1>3, <1>6, <2>1 DEF Walk, Ahead
  <2>6. ASSUME o.who \in o.stayed, Sound(o) PROVE next[o.cur] # Null /\ rank[next[o.cur]] <= o.who
    <3>1. rank[o.cur] <= o.who /\ o.fd = fdOf[o.who] /\ o.cur \in S
          /\ \A k \in S, x \in o.stayed \cup {0} : rank[k] < x => next[k] # Null /\ rank[next[k]] <= x
      BY <1>2, <1>3, <1>6, <2>6 DEF Walk, Sought, Ahead, NoGap
    <3>2. rank[o.cur] # o.who
      BY <1>3, <1>6, <2>1, <2>6, <3>1, NodeHolds
    <3>3. rank[o.cur] < o.who
      BY <1>3, <2>1, <2>6, <3>1, <3>2 DEF Conn
    <3>. QED BY <2>6, <3>1, <3>3
  <2>7. Sought(rank, new)
    BY <1>2, <1>3, <2>1, <2>6 DEF Walk, Sought
  <2>8. Walk(rank, S, new)
    BY <2>3, <2>4, <2>5, <2>7 DEF Walk
  <2>. QED BY <1>0, <2>2, <2>8, HandlerWalk
<1>. QED BY <1>1, <1>4, <1>5, <1>6 DEF Seek

\* The node that was found is read, and the answer is written.
LEMMA ReadNodeWalk ==
    ASSUME IndInv, NEW rank \in [Node -> Int], ListInvariant(rank), Walks(rank),
           NEW h \in Conn, ReadNode(h)
    PROVE  WalkInv'
<1>0. UNCHANGED <<list, process, main, nicknames>> /\ op[h].at = "read"
  BY DEF ReadNode, names, At
<1>1. PICK o : o = op[h]
  OBVIOUS
<1>2. PICK S \in SUBSET Node : Walk(rank, S, o)
  BY <1>1, Zenon DEF Walks
<1>3. o \in Operation /\ o.at = "read" /\ o.cur \in Node /\ o.stayed \subseteq Listed
  BY <1>0, <1>1, <1>2 DEF IndInv, TypeOK, HandlerInv, Stands, Walk, Stayers
<1>4. CASE Die(h)
  BY <1>0, <1>4, DieWalk
<1>5. CASE Goto(h, [o EXCEPT !.at = "write", !.n = conn[o.cur]])
  <2>. DEFINE new == [o EXCEPT !.at = "write", !.n = conn[o.cur]]
  <2>1. /\ new.at = "write" /\ new.cur = o.cur /\ new.n = conn[o.cur] /\ new.who = o.who
        /\ new.stayed = o.stayed /\ new.left = o.left /\ new.reused = o.reused /\ new.got = o.got
        /\ (Sound(new) <=> Sound(o))
    BY <1>3 DEF Operation, Sound, Active
  <2>2. Goto(h, new)
    BY <1>5
  <2>. HIDE DEF new
  <2>3. Stayers(new) /\ Visited(rank, S, new) /\ Counted(rank, new)
    BY <1>2, <1>3, <2>1 DEF Walk, Stayers, Visited, Counted, Active
  <2>4. Passed(rank, new) /\ Ahead(rank, S, new)
    BY <1>2, <1>3, <2>1 DEF Walk, Passed, Ahead
  <2>5. rank[o.cur] \in o.stayed => conn[o.cur] = rank[o.cur]
    BY <1>3, NodeHolds
  <2>6. Sought(rank, new)
    BY <1>2, <1>3, <2>1, <2>5 DEF Walk, Sought
  <2>7. Walk(rank, S, new)
    BY <2>3, <2>4, <2>6 DEF Walk
  <2>. QED BY <1>0, <2>2, <2>7, HandlerWalk
<1>. QED BY <1>1, <1>4, <1>5 DEF ReadNode

LEMMA WriteAnswerWalk ==
    ASSUME IndInv, NEW rank \in [Node -> Int], ListInvariant(rank), Walks(rank),
           NEW h \in Conn, WriteAnswer(h)
    PROVE  WalkInv'
<1>0. UNCHANGED <<list, process, main, nicknames>> /\ op[h].at = "write"
  BY DEF WriteAnswer, names, At
<1>1. PICK o : o = op[h]
  OBVIOUS
<1>2. PICK S \in SUBSET Node : Walk(rank, S, o)
  BY <1>1, Zenon DEF Walks
<1>3. o \in Operation /\ o.at = "write"
  BY <1>0, <1>1 DEF IndInv, TypeOK
<1>4. CASE Goto(h, o)
  BY <1>0, <1>2, <1>4, HandlerWalk
<1>5. CASE Goto(h, [o EXCEPT !.at = "answer"])
  <2>. DEFINE new == [o EXCEPT !.at = "answer"]
  <2>1. /\ new.at = "answer" /\ new.cur = o.cur /\ new.n = o.n /\ new.who = o.who
        /\ new.stayed = o.stayed /\ new.left = o.left /\ new.reused = o.reused /\ new.got = o.got
        /\ (Sound(new) <=> Sound(o))
    BY <1>3 DEF Operation, Sound, Active
  <2>2. Goto(h, new)
    BY <1>5
  <2>. HIDE DEF new
  <2>3. Stayers(new) /\ Visited(rank, S, new) /\ Counted(rank, new) /\ Sought(rank, new)
    BY <1>2, <1>3, <2>1 DEF Walk, Stayers, Visited, Counted, Sought, Active
  <2>4. Passed(rank, new) /\ Ahead(rank, S, new)
    BY <1>2, <1>3, <2>1 DEF Walk, Passed, Ahead
  <2>5. Walk(rank, S, new)
    BY <2>3, <2>4 DEF Walk
  <2>. QED BY <1>0, <2>2, <2>5, HandlerWalk
<1>. QED BY <1>1, <1>4, <1>5 DEF WriteAnswer

-----------------------------------------------------------------------------
(***************************************************************************)
(* The invariant                                                           *)
(***************************************************************************)

LEMMA WalkInit == Init => WalkInv
<1>. SUFFICES ASSUME Init PROVE WalkInv
  OBVIOUS
<1>. DEFINE r == [k \in Node |-> IF k = Anchor THEN -1 ELSE IF k = Root THEN 0 ELSE -2]
<1>1. r \in [Node -> Int] /\ r[Anchor] = -1 /\ r[Root] = 0
      /\ \A k \in Node : k \notin {Anchor, Root} => r[k] = -2
  BY NodeFacts
<1>. HIDE DEF r
<1>2. next \in [Node -> Node \cup {Null}] /\ next[Anchor] = Root
      /\ \A k \in Node : k # Anchor => next[k] = Null
  BY NodeFacts DEF Init
<1>3. accepted = 0 /\ used = 1 /\ cache = <<>> /\ serving = {} /\ main.at = "poll"
  BY DEF Init, Idle, Root
<1>4. Rising(next, r, accepted)
  BY <1>1, <1>2, <1>3, NodeFacts DEF Rising
<1>5. Linked = {Anchor, Root}
  <2>1. LinkedBy(next) = {Anchor, Root}
    <3>. DEFINE S == {Anchor, Root}
    <3>1. S \in SUBSET Node /\ Anchor \in S /\ accepted \in Int
      BY <1>3, NodeFacts
    <3>2. \A k \in S : next[k] # Null => next[k] \in S
      BY <1>2, NodeFacts
    <3>3. \A x \in S \ {Anchor} : \E k \in S : next[k] = x
      BY <1>2
    <3>. HIDE DEF S
    <3>4. LinkedBy(next) = S
      BY <1>1, <1>2, <1>4, <3>1, <3>2, <3>3, LinkedIs
    <3>. QED BY <3>4 DEF S
  <2>. QED BY <2>1, ChainIs
<1>6. fd = [n \in Node |-> 0] /\ conn = [n \in Node |-> None]
  BY DEF Init
<1>7. ListOrder(r)
  <2>1. NoGap(next, r, Linked, {r[x] : x \in Linked})
    BY <1>1, <1>2, <1>5, NodeFacts DEF NoGap
  <2>2. \A k \in Node, x \in Linked : r[k] = r[x] => k = x
    BY <1>1, <1>5, NodeFacts
  <2>. QED BY <1>1, <1>5, <1>6, <2>1, <2>2, NodeFacts DEF ListOrder, None
<1>8. Outside(r)
  <2>1. DOMAIN cache = {}
    BY <1>3
  <2>2. Linked \subseteq 0 .. used /\ \A k \in 0 .. used : k \in {Anchor, Root}
    BY <1>3, <1>5 DEF Anchor, Root
  <2>3. \A k \in Node : fd[k] \notin Fd
    BY <1>6 DEF Fd
  <2>. QED BY <1>1, <1>3, <2>1, <2>2, <2>3 DEF Outside
<1>9. Dealt(r)
  BY <1>3 DEF Dealt, Arriving
<1>10. ASSUME NEW h \in Conn PROVE \E S \in SUBSET Node : Walk(r, S, op[h])
  <2>1. ~ Active(Quiet) /\ Quiet.stayed = {} /\ Quiet.who = None /\ \A c \in Conn : Quiet.got[c] = 0
    BY DEF Quiet, Active
  <2>2. Walk(r, {}, Quiet)
    BY <2>1, QuietWalk
  <2>3. op[h] = Quiet
    BY DEF Init
  <2>. QED BY <2>2, <2>3
<1>. QED BY <1>1, <1>4, <1>7, <1>8, <1>9, <1>10 DEF WalkInv, ListInvariant

LEMMA WalkNext == IndInv /\ WalkInv /\ [Next]_vars => WalkInv'
<1>. SUFFICES ASSUME IndInv, WalkInv, [Next]_vars PROVE WalkInv'
  OBVIOUS
<1>1. PICK rank \in [Node -> Int] : ListInvariant(rank) /\ Walks(rank)
  BY DEF WalkInv, Walks
<1>2. CASE UNCHANGED vars
  <2>1. UNCHANGED <<next, used, fdOf, file, nicknames, op>> /\ UNCHANGED <<list, process, main>>
        /\ Linked' = Linked /\ Listed' = Listed
    BY <1>2, ListedStays DEF vars, list, process
  <2>2. ListInvariant(rank)' /\ Walks(rank)'
    BY <1>1, <2>1, HandlerList, WalksStay
  <2>. QED BY <2>2 DEF WalkInv, Walks
<1>3. CASE Accept \/ Fill \/ Welcome \/ Close \/ Release
  BY <1>1, <1>3, AcceptWalk
<1>4. CASE List \/ Link
  BY <1>1, <1>4, ListWalk, LinkWalk
<1>5. CASE \E c \in Conn : Unlink(c)
  BY <1>1, <1>5, UnlinkWalk
<1>6. ASSUME NEW h \in Conn, AskNick(h) \/ Msgall(h) \/ \E who \in Conn : Whois(h, who)
      PROVE  WalkInv'
  BY <1>1, <1>6, IdleWalk, MsgallWalk, WhoisWalk
<1>7. ASSUME NEW h \in Conn, Serve(h) PROVE WalkInv'
  <2>1. CASE Count(h)
    BY <1>1, <2>1, CountWalk, CountedWalk
  <2>2. CASE AddNick(h) \/ Answer(h)
    BY <1>1, <2>2, IdleWalk
  <2>3. CASE Load(h) \/ Send(h)
    BY <1>1, <2>3, LoadWalk, SendWalk
  <2>4. CASE Again(h) \/ Seek(h) \/ ReadNode(h) \/ WriteAnswer(h)
    BY <1>1, <2>4, AgainWalk, SeekWalk, ReadNodeWalk, WriteAnswerWalk
  <2>. QED BY <1>7, <2>1, <2>2, <2>3, <2>4 DEF Serve
<1>. QED BY <1>2, <1>3, <1>4, <1>5, <1>6, <1>7 DEF Next

LEMMA WalkInvariance == Spec => [](IndInv /\ WalkInv)
<1>. QED BY InitInv, WalkInit, NextInv, WalkNext, PTL DEF Spec

-----------------------------------------------------------------------------
(***************************************************************************)
(* The theorems                                                            *)
(***************************************************************************)

\* A handler's operation goes on by its own steps; main()'s change its history.
LEMMA OwnSteps ==
    ASSUME IndInv, Next, NEW h \in Conn
    PROVE  \/ op'[h].at = op[h].at /\ op'[h].n = op[h].n
           \/ AskNick(h) \/ Msgall(h) \/ Serve(h) \/ \E who \in Conn : Whois(h, who)
<1>1. op \in [Conn -> Operation] /\ op[h] \in Operation
  BY DEF IndInv, TypeOK
<1>2. CASE Accept \/ Fill \/ Welcome \/ Link \/ Release \/ Close
  BY <1>2 DEF Accept, Fill, Welcome, Link, Release, Close
<1>3. CASE List
  <2>1. CASE cache = <<>>
    BY <1>3, <2>1 DEF List
  <2>2. CASE cache # <<>>
    <3>1. op'[h] = [op[h] EXCEPT !.reused = Busy(h)]
      BY <1>3, <2>2 DEF List
    <3>. HIDE DEF Busy
    <3>. QED BY <1>1, <3>1 DEF Operation
  <2>. QED BY <2>1, <2>2
<1>4. ASSUME NEW c \in Conn, Unlink(c)
      PROVE  op'[h].at = op[h].at /\ op'[h].n = op[h].n
  <2>1. op'[h] = IF ~ Busy(h) THEN op[h]
                 ELSE [op[h] EXCEPT !.stayed = @ \ {c}, !.got[c] = 0, !.left = TRUE]
    BY <1>4 DEF Unlink
  <2>2. CASE ~ Busy(h)
    BY <2>1, <2>2
  <2>3. CASE Busy(h)
    <3>1. op'[h] = [op[h] EXCEPT !.stayed = op[h].stayed \ {c},
                                 !.got = [op[h].got EXCEPT ![c] = 0], !.left = TRUE]
      BY <2>1, <2>3
    <3>. QED BY <1>1, <3>1 DEF Operation
  <2>. QED BY <2>2, <2>3
<1>5. ASSUME NEW k \in Conn, k # h,
             AskNick(k) \/ Msgall(k) \/ Serve(k) \/ \E who \in Conn : Whois(k, who)
      PROVE  op'[h] = op[h]
  <2>1. (\E new : Goto(k, new)) \/ Die(k)
    BY <1>5 DEF AskNick, Msgall, Whois, Serve, AddNick, Count, Counting, Load, Send, Again, Seek,
                ReadNode, WriteAnswer, Answer
  <2>. QED BY <1>1, <1>5, <2>1 DEF Goto, Die
<1>. QED BY <1>2, <1>3, <1>4, <1>5 DEF Next

\* What a handler is about to do when it crashes the process.
LEMMA Crashes ==
    ASSUME Next, NEW h \in Conn, dead' = h
    PROVE  /\ op' = op
           /\ \/ op[h].at = "load" /\ op[h].n > 0 /\ op[h].cur = Null
              \/ op[h].at = "seek" /\ op[h].cur = Null
              \/ op[h].at = "read" /\ conn[op[h].cur] = Junk
<1>1. dead = None /\ dead' # dead
  BY DEF Next, None, Conn
<1>2. PICK k \in Conn : Load(k) \/ Seek(k) \/ ReadNode(k)
  BY <1>1 DEF Next, Accept, Fill, Welcome, List, Link, Release, Close, Unlink, AskNick, Msgall,
              Whois, Begin, Serve, AddNick, Count, Counting, Send, Again, WriteAnswer, Answer
<1>. QED BY <1>1, <1>2 DEF Load, Seek, ReadNode, Die, At

\* It has a departure for its cause, and whoever stayed has been sent a copy.
LEMMA CrashCause ==
    ASSUME IndInv, WalkInv, Next, NEW h \in Conn, dead' = h
    PROVE  /\ op' = op
           /\ op[h].left \/ op[h].who \notin op[h].stayed \cup {None}
           /\ op[h].who \in op[h].stayed => op[h].reused
           /\ Visiting(h) /\ ~ op[h].reused => \A c \in op[h].stayed : op[h].got[c] = 1
<1>1. PICK rank \in [Node -> Int], S \in SUBSET Node, o \in {op[h]} :
            o = op[h] /\ ListInvariant(rank) /\ Walk(rank, S, o)
  BY DEF WalkInv
<1>2. /\ o \in Operation /\ o.left \in BOOLEAN /\ o.stayed \subseteq Listed
      /\ o.stayed \subseteq Conn /\ o.got \in [Conn -> Nat] /\ None \notin o.stayed
  <2>1. o \in Operation
    BY <1>1 DEF IndInv, TypeOK
  <2>2. o.left \in BOOLEAN /\ o.got \in [Conn -> Nat] /\ o.stayed \subseteq Conn
    BY <2>1 DEF Operation
  <2>3. o.stayed \subseteq Listed
    BY <1>1 DEF Walk, Stayers
  <2>4. None \notin o.stayed
    BY <2>2 DEF None, Conn
  <2>. QED BY <2>1, <2>2, <2>3, <2>4
<1>3. /\ op' = op
      /\ \/ o.at = "load" /\ o.n > 0 /\ o.cur = Null
         \/ o.at = "seek" /\ o.cur = Null
         \/ o.at = "read" /\ conn[o.cur] = Junk
  BY <1>1, Crashes
<1>4. Active(o) /\ (~ o.left => Sound(o)) /\ (~ o.reused => Sound(o))
  BY <1>3 DEF Active, Sound
<1>5. CASE o.at = "load"
  <2>1. o.n > 0 /\ o.cur = Null /\ o.who = None
    BY <1>1, <1>3, <1>5 DEF Walk, Sought
  <2>2. o.left
    <3>1. Rest(rank, Linked, o) = {}
      BY <2>1 DEF Rest
    <3>2. o.n \in Nat /\ (~ o.left => o.n <= Cardinality(Rest(rank, Linked, o)))
      BY <1>1, <1>2, <1>5 DEF Walk, Visited, Operation
    <3>. QED BY <2>1, <3>1, <3>2, FS_EmptySet
  <2>3. ASSUME ~ o.reused, NEW c \in o.stayed PROVE o.got[c] = 1
    <3>1. o.got[c] # 0
      BY <1>1, <1>4, <1>5, <2>1, <2>3 DEF Walk, Visited, Unsent
    <3>2. o.got[c] <= 1 /\ o.got[c] \in Nat
      BY <1>1, <1>2 DEF Walk, Passed
    <3>. QED BY <3>1, <3>2
  <2>. QED BY <1>1, <1>2, <1>3, <2>1, <2>2, <2>3
<1>6. CASE o.at \in {"seek", "read"}
  <2>1. ASSUME Sound(o), o.who \in o.stayed PROVE FALSE
    <3>1. CASE o.at = "seek"
      BY <1>1, <1>3, <2>1, <3>1 DEF Walk, Sought
    <3>2. CASE o.at = "read"
      <4>1. rank[o.cur] = o.who /\ o.cur \in Node
        BY <1>1, <2>1, <3>2 DEF Walk, Sought, IndInv, HandlerInv, Stands
      <4>2. conn[o.cur] = o.who
        BY <1>1, <1>2, <2>1, <4>1, NodeHolds
      <4>. QED BY <1>2, <1>3, <2>1, <3>2, <4>2 DEF Junk, Conn
    <3>. QED BY <1>6, <3>1, <3>2
  <2>2. o.who # None
    BY <1>1, <1>6 DEF Walk, Sought, None, Conn
  <2>. QED BY <1>1, <1>2, <1>3, <1>4, <1>6, <2>1, <2>2 DEF Visiting
<1>. QED BY <1>3, <1>5, <1>6

\* The walk of a /msgall ends where no node is left to visit.
LEMMA Ends ==
    ASSUME IndInv, Next, NEW h \in Conn, Visiting(h), op'[h] = Quiet
    PROVE  op[h].at = "load" /\ op[h].n = 0
<1>1. op \in [Conn -> Operation] /\ op[h] \in Operation /\ Quiet.at = "recv"
  BY DEF IndInv, TypeOK, Quiet
<1>2. op'[h].at # op[h].at
  BY <1>1 DEF Visiting
<1>3. Count(h) \/ Load(h) \/ Send(h)
  BY <1>2, OwnSteps DEF Visiting, AskNick, Msgall, Whois, Begin, Serve, AddNick, Again, Seek,
                        ReadNode, WriteAnswer, Answer, At
<1>4. ~ Count(h)
  <2>. SUFFICES ASSUME Count(h) PROVE FALSE
    OBVIOUS
  <2>1. CASE op[h].cur # Null
    <3>1. op'[h] = [op[h] EXCEPT !.n = @ + 1, !.cur = next[@]] /\ op[h].at = "count"
      BY <1>1, <2>1 DEF Count, Counting, Goto, At
    <3>. QED BY <1>1, <3>1 DEF Operation
  <2>2. CASE op[h].cur = Null
    <3>1. op'[h] = [op[h] EXCEPT !.n = @ - 1, !.cur = next[Anchor], !.at = "load"]
      BY <1>1, <2>2 DEF Count, Counting, Goto, At
    <3>. QED BY <1>1, <3>1 DEF Operation
  <2>. QED BY <2>1, <2>2
<1>5. ~ Send(h)
  <2>. SUFFICES ASSUME Send(h) PROVE FALSE
    OBVIOUS
  <2>1. PICK got : op'[h] = [op[h] EXCEPT !.at = "load", !.n = op[h].n - 1,
                                          !.cur = next[op[h].cur], !.got = got]
    BY <1>1 DEF Send, Goto
  <2>. QED BY <1>1, <2>1 DEF Operation
<1>6. Load(h) /\ op[h].at = "load"
  BY <1>3, <1>4, <1>5 DEF Load, At
<1>7. ASSUME Goto(h, [op[h] EXCEPT !.at = "send", !.fd = fd[op[h].cur]]) PROVE FALSE
  <2>1. op'[h] = [op[h] EXCEPT !.at = "send", !.fd = fd[op[h].cur]]
    BY <1>1, <1>7 DEF Goto
  <2>. QED BY <1>1, <2>1 DEF Operation
<1>8. ~ Die(h)
  BY <1>2 DEF Die
<1>. QED BY <1>6, <1>7, <1>8 DEF Load

\* By then whoever stayed has been sent a copy.
LEMMA EndReached ==
    ASSUME IndInv, WalkInv, NEW h \in Conn, op[h].at = "load", op[h].n = 0, ~ op[h].reused
    PROVE  \A c \in op[h].stayed : op[h].got[c] = 1
<1>1. PICK rank \in [Node -> Int], S \in SUBSET Node, o \in {op[h]} :
            o = op[h] /\ ListInvariant(rank) /\ Walk(rank, S, o)
  BY DEF WalkInv
<1>2. o \in Operation /\ o.cur \in Node \cup {Null} /\ o.got \in [Conn -> Nat] /\ Sound(o)
      /\ o.stayed \subseteq Conn
  BY <1>1 DEF IndInv, TypeOK, Operation, Sound, Active
<1>3. ASSUME NEW c \in Unsent(o) PROVE FALSE
  <2>1. /\ o.cur # Null /\ rank[o.cur] <= c /\ o.cur \in S
        /\ Cardinality(ToVisit(rank, S, o)) <= 0
    BY <1>1, <1>2 DEF Walk, Visited, Ahead
  <2>2. o.cur \in ToVisit(rank, S, o)
    BY <1>2, <2>1 DEF ToVisit, Rest
  <2>. DEFINE A == ToVisit(rank, S, o)
  <2>3. A \in SUBSET Node
    BY DEF ToVisit, Rest
  <2>. HIDE DEF A
  <2>4. /\ Cardinality(A) \in Nat /\ Cardinality(A \ {o.cur}) = Cardinality(A) - 1
    <3>1. o.cur \in Node /\ o.cur \in A
      BY <1>2, <2>1, <2>2 DEF A
    <3>2. /\ Cardinality(A) \in Nat
          /\ Cardinality(A \ {o.cur}) = IF o.cur \in A THEN Cardinality(A) - 1 ELSE Cardinality(A)
      BY ONLY <2>3, <3>1, SizeAdd
    <3>. QED BY <3>1, <3>2
  <2>5. Cardinality(A \ {o.cur}) \in Nat
    BY <2>3, SizeLe
  <2>. QED BY <2>1, <2>4, <2>5 DEF A
<1>4. ASSUME NEW c \in o.stayed PROVE o.got[c] = 1
  <2>1. o.got[c] # 0 /\ o.got[c] <= 1 /\ o.got[c] \in Nat
    BY <1>1, <1>2, <1>3 DEF Unsent, Walk, Passed
  <2>. QED BY <2>1
<1>. QED BY <1>1, <1>4

\* proc_msg never sends the same /msgall twice to a client that is listed all
\* along, whatever main() does to the list meanwhile.
THEOREM SentOnce == Spec => []NeverTwice
<1>1. IndInv /\ WalkInv => NeverTwice
  <2>. SUFFICES ASSUME IndInv, WalkInv, NEW h \in Conn, NEW c \in op[h].stayed
                PROVE  op[h].got[c] <= 1
    BY DEF NeverTwice
  <2>. QED BY DEF WalkInv, Walk, Passed
<1>. QED BY <1>1, WalkInvariance, PTL

\* And it is over only once it was sent to each of them, unless a node was used
\* again under the walk: for any number of clients that come and leave.
THEOREM StayersReached == Spec => ReachesStayers
<1>1. ASSUME IndInv, WalkInv, [Next]_vars
      PROVE  [\A h \in Conn :
                 Visiting(h) /\ (op'[h] = Quiet \/ dead' = h) /\ ~ op[h].reused
                     => \A c \in op[h].stayed : op[h].got[c] = 1]_vars
  <2>. SUFFICES ASSUME Next, NEW h \in Conn, Visiting(h), op'[h] = Quiet \/ dead' = h,
                       ~ op[h].reused
                PROVE  \A c \in op[h].stayed : op[h].got[c] = 1
    BY <1>1
  <2>1. CASE op'[h] = Quiet
    BY <1>1, <2>1, Ends, EndReached
  <2>2. CASE dead' = h
    BY <1>1, <2>2, CrashCause
  <2>. QED BY <2>1, <2>2
<1>. QED BY <1>1, WalkInvariance, PTL DEF Spec, ReachesStayers

\* The walk of a handler crashes the process only after somebody has left.
THEOREM DeathByDeparture == Spec => []DiesOfDeparture
<1>1. Init => DiesOfDeparture
  BY DEF Init, DiesOfDeparture
<1>2. IndInv /\ WalkInv /\ DiesOfDeparture /\ [Next]_vars => DiesOfDeparture'
  <2>. SUFFICES ASSUME IndInv, WalkInv, DiesOfDeparture, [Next]_vars PROVE DiesOfDeparture'
    OBVIOUS
  <2>1. CASE UNCHANGED vars
    BY <2>1 DEF vars, DiesOfDeparture
  <2>2. CASE Next /\ dead' # None
    <3>1. dead' \in Conn
      BY <2>2, NextInv DEF IndInv, TypeOK
    <3>2. PICK h \in Conn : h = dead'
      BY <3>1
    <3>. QED BY <2>2, <3>2, CrashCause DEF DiesOfDeparture
  <2>. QED BY <2>1, <2>2 DEF DiesOfDeparture
<1>. QED BY <1>1, <1>2, WalkInvariance, PTL DEF Spec

\* /whois of a client that is listed all along comes to that client's node and
\* reads it, unless a node was used again under the walk.
THEOREM WhoisCorrect == Spec => WhoisFinds
<1>1. ASSUME IndInv, WalkInv, [Next]_vars
      PROVE  [\A h \in Conn :
                 op[h].who \in op[h].stayed /\ ~ op[h].reused
                     => /\ dead' # h
                        /\ op'[h].at = "write" => op'[h].n = op[h].who]_vars
  <2>. SUFFICES ASSUME Next, NEW h \in Conn, op[h].who \in op[h].stayed, ~ op[h].reused
                PROVE  dead' # h /\ (op'[h].at = "write" => op'[h].n = op[h].who)
    BY <1>1
  <2>1. dead' # h
    BY <1>1, CrashCause
  <2>2. PICK rank \in [Node -> Int], S \in SUBSET Node, o \in {op[h]} :
              o = op[h] /\ ListInvariant(rank) /\ Walk(rank, S, o)
    BY <1>1 DEF WalkInv
  <2>3. o \in Operation /\ Active(o) /\ Sound(o) /\ o.stayed \subseteq Listed
    BY <1>1, <2>2 DEF IndInv, TypeOK, Walk, Stayers, Sound
  <2>4. ASSUME op'[h].at = "write" PROVE op'[h].n = o.who
    <3>1. CASE op'[h].at = op[h].at /\ op'[h].n = op[h].n
      BY <2>2, <2>3, <2>4, <3>1 DEF Walk, Sought
    <3>2. CASE ReadNode(h)
      <4>1. op'[h] = [o EXCEPT !.at = "write", !.n = conn[o.cur]] /\ o.at = "read"
        BY <1>1, <2>1, <2>2, <3>2 DEF ReadNode, Die, Goto, At, IndInv, TypeOK
      <4>2. op'[h].n = conn[o.cur]
        BY <2>3, <4>1 DEF Operation
      <4>3. rank[o.cur] = o.who /\ o.cur \in Node
        BY <1>1, <2>2, <2>3, <4>1 DEF Walk, Sought, IndInv, HandlerInv, Stands
      <4>. QED BY <1>1, <2>2, <2>3, <4>2, <4>3, NodeHolds
    <3>3. CASE ~ ReadNode(h) /\ ~ (op'[h].at = op[h].at /\ op'[h].n = op[h].n)
      <4>1. \/ AskNick(h) \/ Msgall(h) \/ AddNick(h) \/ Count(h) \/ Load(h) \/ Send(h)
            \/ Again(h) \/ Seek(h) \/ WriteAnswer(h) \/ Answer(h) \/ \E who \in Conn : Whois(h, who)
        BY <1>1, <3>3, OwnSteps DEF Serve
      <4>2. PICK new : op'[h] = new /\ new.at # "write"
        <5>1. ASSUME NEW new, Goto(h, new), new.at # "write" PROVE \E x : op'[h] = x /\ x.at # "write"
          BY <1>1, <5>1 DEF Goto, IndInv, TypeOK
        <5>2. /\ Quiet.at # "write" /\ [Quiet EXCEPT !.at = "nick"].at # "write"
              /\ [Quiet EXCEPT !.at = "count", !.cur = Anchor, !.stayed = Listed].at # "write"
              /\ \A who : [Quiet EXCEPT !.at = "again", !.who = who, !.stayed = Listed].at # "write"
          BY DEF Quiet
        <5>3. CASE AskNick(h) \/ Msgall(h) \/ AddNick(h) \/ Answer(h) \/ \E who \in Conn : Whois(h, who)
          BY <5>1, <5>2, <5>3 DEF AskNick, Msgall, AddNick, Answer, Whois
        <5>4. CASE Count(h)
          <6>1. /\ [o EXCEPT !.n = o.n + 1, !.cur = next[o.cur]].at = o.at
                /\ [o EXCEPT !.n = o.n - 1, !.cur = next[Anchor], !.at = "load"].at = "load"
            BY <2>3 DEF Operation
          <6>. QED BY <2>2, <5>1, <5>4, <6>1 DEF Count, Counting, At
        <5>5. CASE Load(h)
          <6>1. [o EXCEPT !.at = "send", !.fd = fd[o.cur]].at = "send"
            BY <2>3 DEF Operation
          <6>2. (op'[h] = o /\ o.at = "load") \/ \E x : Goto(h, x) /\ x.at # "write"
            BY <2>2, <5>2, <5>5, <6>1 DEF Load, Die, At
          <6>. QED BY <5>1, <6>2
        <5>6. CASE Send(h)
          <6>1. PICK got : Goto(h, [o EXCEPT !.at = "load", !.n = o.n - 1, !.cur = next[o.cur],
                                             !.got = got])
            BY <2>2, <5>6 DEF Send
          <6>2. [o EXCEPT !.at = "load", !.n = o.n - 1, !.cur = next[o.cur], !.got = got].at = "load"
            BY <2>3 DEF Operation
          <6>. QED BY <5>1, <6>1, <6>2
        <5>7. CASE Again(h)
          <6>1. PICK f : Goto(h, [o EXCEPT !.at = "seek", !.cur = Anchor, !.fd = f])
            BY <2>2, <5>7 DEF Again
          <6>2. [o EXCEPT !.at = "seek", !.cur = Anchor, !.fd = f].at = "seek"
            BY <2>3 DEF Operation
          <6>. QED BY <5>1, <6>1, <6>2
        <5>8. CASE Seek(h)
          <6>1. /\ [o EXCEPT !.at = "read"].at = "read" /\ [o EXCEPT !.cur = next[o.cur]].at = o.at
            BY <2>3 DEF Operation
          <6>2. (op'[h] = o /\ o.at = "seek") \/ \E x : Goto(h, x) /\ x.at # "write"
            BY <2>2, <5>8, <6>1 DEF Seek, Die, At
          <6>. QED BY <5>1, <6>2
        <5>9. CASE WriteAnswer(h)
          <6>1. [o EXCEPT !.at = "answer"].at = "answer"
            BY <2>3 DEF Operation
          <6>2. ~ Goto(h, o)
            BY <1>1, <2>2, <3>3 DEF Goto, IndInv, TypeOK
          <6>. QED BY <2>2, <5>1, <5>9, <6>1, <6>2 DEF WriteAnswer
        <5>. QED BY <4>1, <5>3, <5>4, <5>5, <5>6, <5>7, <5>8, <5>9
      <4>. QED BY <2>4, <4>2
    <3>. QED BY <3>1, <3>2, <3>3
  <2>. QED BY <2>1, <2>2, <2>4
<1>. QED BY <1>1, WalkInvariance, PTL DEF Spec, WhoisFinds
=============================================================================
