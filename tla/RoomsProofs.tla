---------------------------- MODULE RoomsProofs ----------------------------
(***************************************************************************)
(* Proofs about Rooms, for any set of clients, of names and of nicknames,  *)
(* and whatever names the comparisons mistake for others.                  *)
(***************************************************************************)
EXTENDS Rooms, SequenceTheorems, FiniteSetTheorems, WellFoundedInduction, TLAPS

Room == [name : Name, active : SUBSET Client]
Nickname == [nick : Nick \cup {EIRBADMIN}, fd : Client \cup {0}, salon : Text]

\* A list of rooms whose first is MAINROOM.
Kept(rs) == rs \in Seq(Room) /\ rs # <<>> /\ rs[1].name = MAINROOM

IndInv == TypeOK /\ MainroomKept

\* Each room of rs2 is one of rs1, but for what f is to it; the last of rs1
\* can only be the last of rs2.
Like(rs2, rs1, f) ==
    \A k \in DOMAIN rs2 : \E j \in DOMAIN rs1 :
        /\ Others(rs2[k], f) = Others(rs1[j], f)
        /\ j = Len(rs1) => k = Len(rs2)

\* Each room of rs1 is one of rs2, but for what f is to it, unless it has a name
\* in gone.
Stay(rs2, rs1, f, gone) ==
    \A k \in DOMAIN rs1 :
        \/ \E j \in DOMAIN rs2 : Others(rs2[j], f) = Others(rs1[k], f)
        \/ rs1[k].name \in gone

\* The rooms recorded in the nodes taken for f's.
Recorded(f) == {nicknames[k].salon.name : k \in {j \in TakenFor(f) : ~ nicknames[j].salon.line}}

-----------------------------------------------------------------------------
\* FirstOf takes the least of a set of numbers.
LEMMA FirstIn ==
    ASSUME NEW s \in SUBSET Nat, s # {}
    PROVE  FirstOf(s) \in s
<1>1. PICK k \in s : \A j \in s : ~ (<<j, k>> \in OpToRel(<, Nat))
  BY WFMin, NatLessThanWellFounded
<1>2. ASSUME NEW j \in s PROVE k <= j
  <2>1. j < k => <<j, k>> \in OpToRel(<, Nat)
    <3>. SUFFICES ASSUME j < k PROVE <<j, k>> \in {ss \in Nat \X Nat : ss[1] < ss[2]}
      BY DEF OpToRel
    <3>. QED OBVIOUS
  <2>2. ~ (j < k)
    BY <1>1, <2>1, Zenon
  <2>. QED BY <2>2
<1>. QED BY <1>2 DEF FirstOf

\* What is left of a sequence after its i-th element.
LEMMA RestOf ==
    ASSUME NEW S, NEW s \in Seq(S), NEW i \in Nat, i <= Len(s)
    PROVE  /\ SubSeq(s, i + 1, Len(s)) \in Seq(S)
           /\ Len(SubSeq(s, i + 1, Len(s))) = Len(s) - i
           /\ \A k \in 1 .. Len(s) - i : SubSeq(s, i + 1, Len(s))[k] = s[i + k]
<1>1. Len(s) \in Nat /\ \A k \in i + 1 .. Len(s) : s[k] \in S
  BY LenProperties
<1>. DEFINE m == i + 1
            rest == SubSeq(s, m, Len(s))
<1>2. m \in Int /\ Len(s) \in Int
  BY <1>1
<1>3. \A k \in m .. Len(s) : s[k] \in S
  BY <1>1
<1>. HIDE DEF m
<1>4. /\ rest \in Seq(S)
      /\ Len(rest) = IF m <= Len(s) THEN Len(s) - m + 1 ELSE 0
      /\ \A k \in 1 .. Len(s) - m + 1 : rest[k] = s[m + k - 1]
  BY <1>2, <1>3, SubSeqProperties
<1>. HIDE DEF rest
<1>5. Len(rest) = Len(s) - i
  BY <1>1, <1>4 DEF m
<1>6. ASSUME NEW k \in 1 .. Len(s) - i PROVE rest[k] = s[i + k]
  <2>1. k \in 1 .. Len(s) - m + 1 /\ m + k - 1 = i + k
    BY <1>1 DEF m
  <2>. QED BY <1>4, <2>1
<1>. QED BY <1>4, <1>5, <1>6 DEF m, rest

LEMMA LikeSelf ==
    ASSUME NEW rs, NEW f
    PROVE  Like(rs, rs, f)
BY DEF Like

LEMMA LikeThen ==
    ASSUME NEW rs1, NEW rs2, NEW rs3, NEW f, Like(rs2, rs1, f), Like(rs3, rs2, f)
    PROVE  Like(rs3, rs1, f)
BY DEF Like

LEMMA StaySelf ==
    ASSUME NEW rs, NEW f, NEW gone
    PROVE  Stay(rs, rs, f, gone)
BY DEF Stay

LEMMA StayMore ==
    ASSUME NEW rs1, NEW rs2, NEW f, NEW gone, NEW more, Stay(rs2, rs1, f, gone), gone \subseteq more
    PROVE  Stay(rs2, rs1, f, more)
BY DEF Stay

LEMMA StayThen ==
    ASSUME NEW rs1, NEW rs2, NEW rs3, NEW f, NEW gone, rs1 \in Seq(Room), rs2 \in Seq(Room),
           Stay(rs2, rs1, f, gone), Stay(rs3, rs2, f, gone)
    PROVE  Stay(rs3, rs1, f, gone)
<1>. SUFFICES ASSUME NEW k \in DOMAIN rs1, rs1[k].name \notin gone
              PROVE  \E j \in DOMAIN rs3 : Others(rs3[j], f) = Others(rs1[k], f)
  BY DEF Stay
<1>1. PICK i \in DOMAIN rs2 : Others(rs2[i], f) = Others(rs1[k], f)
  BY DEF Stay
<1>2. rs1[k] \in Room /\ rs2[i] \in Room
  BY ElementOfSeq, LenProperties
<1>3. rs2[i].name = rs1[k].name
  <2>1. \A room \in Room : Others(room, f).name = room.name
    BY DEF Others, Room
  <2>. QED BY <1>1, <1>2, <2>1
<1>. QED BY <1>1, <1>3 DEF Stay

\* The first part of joinRoom() touches the client's own entries.
LEMMA JoinedKept ==
    ASSUME NEW rs, Kept(rs), NEW text, NEW f \in Client
    PROVE  /\ Kept(Joined(rs, text, f)) /\ Like(Joined(rs, text, f), rs, f)
           /\ Stay(Joined(rs, text, f), rs, f, {})
<1>. DEFINE new == Joined(rs, text, f)
<1>1. rs \in Seq(Room) /\ DOMAIN rs = 1 .. Len(rs) /\ Len(rs) \in Nat \ {0}
  BY LenProperties, EmptySeq DEF Kept
<1>2. new = [k \in 1 .. Len(rs) |->
               IF Alike(text, rs[k].name) THEN [rs[k] EXCEPT !.active = @ \cup {f}] ELSE rs[k]]
  BY <1>1 DEF Joined
<1>. HIDE DEF new
<1>3. ASSUME NEW k \in 1 .. Len(rs)
      PROVE  /\ new[k] \in Room /\ new[k].name = rs[k].name
             /\ Others(new[k], f) = Others(rs[k], f)
  <2>1. rs[k] \in Room
    BY <1>1
  <2>2. CASE Alike(text, rs[k].name)
    <3>1. new[k] = [rs[k] EXCEPT !.active = rs[k].active \cup {f}]
      BY <1>2, <2>2
    <3>2. (rs[k].active \cup {f}) \ {f} = rs[k].active \ {f}
      OBVIOUS
    <3>. QED BY <2>1, <3>1, <3>2 DEF Room, Others
  <2>3. CASE ~ Alike(text, rs[k].name)
    BY <1>2, <2>1, <2>3
  <2>. QED BY <2>2, <2>3
<1>4. new \in Seq(Room) /\ Len(new) = Len(rs) /\ DOMAIN new = 1 .. Len(rs)
  BY <1>1, <1>2, <1>3, LenProperties
<1>5. Kept(new)
  BY <1>1, <1>3, <1>4, EmptySeq DEF Kept
<1>6. Like(new, rs, f)
  BY <1>1, <1>3, <1>4 DEF Like
<1>7. Stay(new, rs, f, {})
  BY <1>1, <1>3, <1>4 DEF Stay
<1>. QED BY <1>5, <1>6, <1>7 DEF new

\* supprRoom() takes away the first room of a name, which is not the first of
\* the list unless the name is MAINROOM's.
LEMMA RemoveKept ==
    ASSUME NEW rs, Kept(rs), NEW r, r # MAINROOM, Named(rs, r) # {}, NEW f
    PROVE  /\ Kept(supprRoom(rs, r)) /\ Like(supprRoom(rs, r), rs, f)
           /\ \A k \in DOMAIN rs : k # FirstOf(Named(rs, r)) =>
                \E j \in DOMAIN supprRoom(rs, r) : supprRoom(rs, r)[j] = rs[k]
<1>. DEFINE i == FirstOf(Named(rs, r))
            new == supprRoom(rs, r)
<1>1. rs \in Seq(Room) /\ DOMAIN rs = 1 .. Len(rs) /\ Len(rs) \in Nat \ {0}
  BY LenProperties, EmptySeq DEF Kept
<1>2. i \in 2 .. Len(rs)
  <2>1. i \in Named(rs, r)
    <3>1. Named(rs, r) \in SUBSET Nat
      BY <1>1 DEF Named
    <3>. QED BY <3>1, FirstIn
  <2>. QED BY <1>1, <2>1 DEF Named, Kept
<1>. DEFINE before == SubSeq(rs, 1, i - 1)
            after == SubSeq(rs, i + 1, Len(rs))
<1>3. new = before \o after
  BY DEF supprRoom, RemoveAt
<1>. HIDE DEF i, new
<1>4. /\ before \in Seq(Room) /\ Len(before) = i - 1
      /\ \A k \in 1 .. i - 1 : before[k] = rs[k]
  BY <1>1, <1>2
<1>5. /\ after \in Seq(Room) /\ Len(after) = Len(rs) - i
      /\ \A k \in 1 .. Len(rs) - i : after[k] = rs[i + k]
  <2>1. i \in Nat /\ i <= Len(rs)
    BY <1>1, <1>2
  <2>. QED BY <1>1, <2>1, RestOf
<1>. HIDE DEF before, after
<1>6. /\ new \in Seq(Room) /\ Len(new) = Len(rs) - 1
      /\ \A k \in 1 .. i - 1 : new[k] = rs[k]
      /\ \A k \in i .. Len(rs) - 1 : new[k] = rs[k + 1]
  <2>1. /\ new \in Seq(Room) /\ Len(new) = Len(before) + Len(after)
        /\ \A k \in 1 .. Len(before) + Len(after) :
              new[k] = IF k <= Len(before) THEN before[k] ELSE after[k - Len(before)]
    BY <1>3, <1>4, <1>5, ConcatProperties, Zenon
  <2>2. Len(new) = Len(rs) - 1
    BY <1>1, <1>2, <1>4, <1>5, <2>1
  <2>3. ASSUME NEW k \in 1 .. i - 1 PROVE new[k] = rs[k]
    <3>1. k \in 1 .. Len(before) + Len(after) /\ k <= Len(before)
      BY <1>1, <1>2, <1>4, <1>5
    <3>. QED BY <1>4, <2>1, <3>1
  <2>4. ASSUME NEW k \in i .. Len(rs) - 1 PROVE new[k] = rs[k + 1]
    <3>1. k - (i - 1) \in 1 .. Len(rs) - i /\ i + (k - (i - 1)) = k + 1
      BY <1>1, <1>2
    <3>2. new[k] = after[k - (i - 1)]
      <4>1. k \in 1 .. Len(before) + Len(after) /\ ~ (k <= Len(before))
        BY <1>1, <1>2, <1>4, <1>5
      <4>. QED BY <1>4, <2>1, <4>1
    <3>. QED BY <1>5, <3>1, <3>2
  <2>. QED BY <2>1, <2>2, <2>3, <2>4
<1>7. DOMAIN new = 1 .. Len(rs) - 1
  BY <1>6, LenProperties
<1>8. Kept(new)
  BY <1>1, <1>2, <1>6, EmptySeq DEF Kept
<1>9. Like(new, rs, f)
  <2>1. ASSUME NEW k \in DOMAIN new, k < i
        PROVE  k \in DOMAIN rs /\ new[k] = rs[k] /\ k # Len(rs)
    BY <1>1, <1>2, <1>6, <1>7, <2>1
  <2>2. ASSUME NEW k \in DOMAIN new, k >= i
        PROVE  k + 1 \in DOMAIN rs /\ new[k] = rs[k + 1] /\ (k + 1 = Len(rs) => k = Len(new))
    <3>1. k \in i .. Len(rs) - 1
      BY <1>1, <1>2, <1>7, <2>2
    <3>2. k + 1 \in 1 .. Len(rs) /\ (k + 1 = Len(rs) => k = Len(rs) - 1)
      BY <1>1, <1>2, <3>1
    <3>3. new[k] = rs[k + 1]
      BY <1>6, <3>1
    <3>. QED BY <1>1, <1>6, <3>2, <3>3
  <2>3. \A k \in DOMAIN new : k < i \/ k >= i
    BY <1>1, <1>2, <1>7
  <2>. QED BY <2>1, <2>2, <2>3 DEF Like
<1>10. ASSUME NEW k \in DOMAIN rs, k # i PROVE \E j \in DOMAIN new : new[j] = rs[k]
  <2>1. CASE k < i
    <3>1. k \in 1 .. i - 1 /\ k \in 1 .. Len(rs) - 1
      BY <1>1, <1>2, <2>1
    <3>. QED BY <1>6, <1>7, <3>1
  <2>2. CASE k > i
    <3>1. k - 1 \in i .. Len(rs) - 1 /\ k - 1 \in 1 .. Len(rs) - 1 /\ (k - 1) + 1 = k
      BY <1>1, <1>2, <2>2
    <3>. QED BY <1>6, <1>7, <3>1
  <2>. QED BY <1>1, <1>2, <1>10, <2>1, <2>2
<1>. QED BY <1>8, <1>9, <1>10 DEF new, i

\* quitRoom() touches the client's own entry, and takes no other room away than
\* the one it quits, which is not MAINROOM.
LEMMA QuitKept ==
    ASSUME NEW rs, Kept(rs), NEW text, NEW f \in Client, NEW new \in QuitRoom(rs, f, text)
    PROVE  /\ Kept(new) /\ Like(new, rs, f)
           /\ \A k \in DOMAIN rs : \/ \E j \in DOMAIN new : new[j] = rs[k]
                                   \/ ~ text.line /\ rs[k].name = text.name
           /\ Stay(new, rs, f, IF text.line THEN {} ELSE {text.name} \ {MAINROOM})
<1>1. rs \in Seq(Room) /\ DOMAIN rs = 1 .. Len(rs) /\ Len(rs) \in Nat \ {0}
  BY LenProperties, EmptySeq DEF Kept
<1>2. CASE text.line \/ Named(rs, text.name) = {}
  BY <1>2, LikeSelf, StaySelf DEF QuitRoom
<1>3. CASE ~ (text.line \/ Named(rs, text.name) = {})
  <2>. DEFINE i == FirstOf(Named(rs, text.name))
              left == [rs EXCEPT ![i].active = @ \ {f}]
  <2>1. i \in DOMAIN rs /\ Named(rs, text.name) # {} /\ rs[i].name = text.name
    <3>1. Named(rs, text.name) \in SUBSET Nat
      BY <1>1 DEF Named
    <3>2. i \in Named(rs, text.name)
      BY <1>3, <3>1, FirstIn
    <3>. QED BY <1>3, <3>2 DEF Named
  <2>2. new = left \/ (text.name # MAINROOM /\ new = supprRoom(left, text.name))
    BY <1>3 DEF QuitRoom
  <2>. HIDE DEF i
  <2>3. /\ left = [rs EXCEPT ![i] = [rs[i] EXCEPT !.active = rs[i].active \ {f}]]
        /\ rs[i] \in Room
    BY <1>1, <2>1
  <2>. HIDE DEF left
  <2>4. /\ left \in Seq(Room) /\ Len(left) = Len(rs) /\ DOMAIN left = DOMAIN rs
        /\ \A k \in DOMAIN rs : /\ left[k].name = rs[k].name
                                /\ Others(left[k], f) = Others(rs[k], f)
    <3>. DEFINE room == [rs[i] EXCEPT !.active = rs[i].active \ {f}]
    <3>1. room \in Room /\ room.name = rs[i].name /\ Others(room, f) = Others(rs[i], f)
      <4>1. (rs[i].active \ {f}) \ {f} = rs[i].active \ {f}
        OBVIOUS
      <4>. QED BY <2>3, <4>1 DEF Room, Others
    <3>2. left = [rs EXCEPT ![i] = room]
      BY <2>3
    <3>. HIDE DEF room
    <3>. QED BY <1>1, <2>1, <3>1, <3>2, ExceptSeq
  <2>5. Kept(left) /\ Like(left, rs, f) /\ Stay(left, rs, f, {})
    BY <1>1, <2>4, EmptySeq DEF Kept, Like, Stay
  <2>6. Named(left, text.name) # {} /\ Named(left, text.name) = Named(rs, text.name)
    BY <2>1, <2>4 DEF Named
  <2>7. /\ rs[i].name = text.name /\ ~ text.line
        /\ \A k \in DOMAIN rs : k # i => left[k] = rs[k]
    BY <1>3, <2>1, <2>3
  <2>8. CASE new = left
    BY <2>4, <2>5, <2>7, <2>8, StayMore
  <2>9. CASE text.name # MAINROOM /\ new = supprRoom(left, text.name)
    <3>1. /\ Kept(new) /\ Like(new, left, f)
          /\ \A k \in DOMAIN left : k # i => \E j \in DOMAIN new : new[j] = left[k]
      BY <2>5, <2>6, <2>9, RemoveKept DEF i
    <3>2. Like(new, rs, f)
      BY <2>5, <3>1, LikeThen
    <3>3. Stay(new, rs, f, {text.name})
      <4>1. Stay(new, left, f, {text.name})
        BY <2>4, <2>7, <3>1 DEF Stay
      <4>2. Stay(left, rs, f, {text.name})
        BY <2>5, StayMore
      <4>. QED BY <1>1, <2>4, <4>1, <4>2, StayThen
    <3>4. {text.name} = {text.name} \ {MAINROOM}
      BY <2>9
    <3>. QED BY <2>4, <2>7, <3>1, <3>2, <3>3, <3>4
  <2>. QED BY <2>2, <2>8, <2>9
<1>. QED BY <1>2, <1>3

\* A node taken for the client's is in the list.
LEMMA TakenIn ==
    ASSUME NEW f, nicknames \in Seq(Nickname)
    PROVE  TakenFor(f) \subseteq DOMAIN nicknames
<1>1. DOMAIN nicknames = 1 .. Len(nicknames) /\ Len(nicknames) \in Nat
  BY LenProperties
<1>. SUFFICES ASSUME NEW k \in TakenFor(f) PROVE k \in DOMAIN nicknames
  OBVIOUS
<1>. DEFINE own == FirstOf(Mine(f))
            nick == nicknames[own].nick
<1>2. Mine(f) # {} /\ \E alike \in AlikeNick : k = FirstOf(LikeNick(nick, alike))
  BY DEF TakenFor
<1>3. PICK alike \in AlikeNick : k = FirstOf(LikeNick(nick, alike))
  BY <1>2
<1>4. own \in DOMAIN nicknames
  <2>1. Mine(f) \in SUBSET Nat /\ Mine(f) \subseteq DOMAIN nicknames
    BY <1>1 DEF Mine
  <2>. QED BY <1>2, <2>1, FirstIn
<1>5. nick \in Nick \cup {EIRBADMIN}
  <2>. HIDE DEF own
  <2>1. nicknames[own] \in Nickname
    BY <1>1, <1>4, ElementOfSeq
  <2>. QED BY <2>1 DEF Nickname
<1>. HIDE DEF own
<1>6. own \in LikeNick(nick, alike) /\ LikeNick(nick, alike) \subseteq DOMAIN nicknames
  BY <1>4, <1>5, RoomsAssumption DEF LikeNick
<1>7. LikeNick(nick, alike) \in SUBSET Nat
  BY <1>1, <1>6
<1>. HIDE DEF nick
<1>8. FirstOf(LikeNick(nick, alike)) \in LikeNick(nick, alike)
  BY <1>6, <1>7, FirstIn
<1>. QED BY <1>3, <1>6, <1>8

\* joinRoom() as a whole.
LEMMA JoinRoomKept ==
    ASSUME NEW rs, Kept(rs), NEW text \in Text, NEW f \in Client,
           nicknames \in Seq(Nickname), JoinRoom(rs, text, f)
    PROVE  /\ Kept(rooms') /\ Like(rooms', rs, f) /\ nicknames' \in Seq(Nickname)
           /\ Stay(rooms', rs, f, Recorded(f) \ {MAINROOM})
<1>. DEFINE gone == Recorded(f) \ {MAINROOM}
<1>1. /\ Kept(Joined(rs, text, f)) /\ Like(Joined(rs, text, f), rs, f)
      /\ Stay(Joined(rs, text, f), rs, f, gone)
  BY JoinedKept, StayMore
<1>2. CASE rooms' = Joined(rs, text, f) /\ UNCHANGED nicknames
  BY <1>1, <1>2
<1>3. ASSUME NEW k \in TakenFor(f),
             rooms' \in QuitRoom(Joined(rs, text, f), f, nicknames[k].salon),
             nicknames' = [nicknames EXCEPT ![k].salon = text]
      PROVE  /\ Kept(rooms') /\ Like(rooms', rs, f) /\ nicknames' \in Seq(Nickname)
             /\ Stay(rooms', rs, f, gone)
  <2>. DEFINE salon == nicknames[k].salon
              quit == IF salon.line THEN {} ELSE {salon.name} \ {MAINROOM}
  <2>1. /\ Kept(rooms') /\ Like(rooms', rs, f)
        /\ Stay(rooms', Joined(rs, text, f), f, quit)
    BY <1>1, <1>3, QuitKept, LikeThen
  <2>2. k \in 1 .. Len(nicknames)
    BY <1>3, TakenIn, LenProperties
  <2>4. quit \subseteq gone
    BY <1>3 DEF Recorded
  <2>5. Stay(rooms', rs, f, gone)
    <3>1. Stay(rooms', Joined(rs, text, f), f, gone)
      BY <2>1, <2>4, StayMore
    <3>. QED BY <1>1, <3>1, StayThen DEF Kept
  <2>3. [nicknames[k] EXCEPT !.salon = text] \in Nickname
    <3>1. nicknames[k] \in Nickname
      BY <2>2, ElementOfSeq
    <3>. QED BY <3>1 DEF Nickname
  <2>6. nicknames' \in Seq(Nickname)
    BY <1>3, <2>2, <2>3, ExceptSeq
  <2>. QED BY <2>1, <2>5, <2>6
<1>. QED BY <1>2, <1>3 DEF JoinRoom

-----------------------------------------------------------------------------
(***************************************************************************)
(* The steps.  Owned is what OwnMembershipOnly says of one.                *)
(***************************************************************************)

OldOrNew(f) ==
    \A k \in DOMAIN rooms' :
        \/ \E j \in DOMAIN rooms : Others(rooms'[k], f) = Others(rooms[j], f)
        \/ k = Len(rooms') /\ rooms'[k].active \subseteq {f}
StillThere(f) ==
    \A k \in DOMAIN rooms :
        \/ \E j \in DOMAIN rooms' : Others(rooms'[j], f) = Others(rooms[k], f)
        \/ rooms[k].name # MAINROOM /\ Quits(f, rooms[k].name)
Owned(f) == OldOrNew(f) /\ StillThere(f)

LEMMA IndInvIs == IndInv <=> /\ Kept(rooms) /\ nicknames \in Seq(Nickname)
                             /\ online \subseteq Client /\ crashed \in BOOLEAN
BY DEF IndInv, TypeOK, MainroomKept, Kept, Room, Nickname

LEMMA LikeOwned == ASSUME NEW f, Like(rooms', rooms, f) PROVE OldOrNew(f)
BY DEF Like, OldOrNew

\* What is recorded in a node taken for the client's is quitted.
LEMMA RecordedQuits ==
    ASSUME nicknames \in Seq(Nickname), NEW f, NEW r \in Recorded(f)
    PROVE  Quits(f, r)
<1>1. PICK k \in TakenFor(f) : ~ nicknames[k].salon.line /\ r = nicknames[k].salon.name
  BY DEF Recorded
<1>2. nicknames[k] \in Nickname
  BY <1>1, TakenIn, ElementOfSeq, LenProperties
<1>3. nicknames[k].salon = Bare(r)
  BY <1>1, <1>2 DEF Nickname, Text, Bare
<1>. QED BY <1>1, <1>3 DEF Quits

LEMMA StayStill ==
    ASSUME nicknames \in Seq(Nickname), NEW f, Stay(rooms', rooms, f, Recorded(f) \ {MAINROOM})
    PROVE  StillThere(f)
BY RecordedQuits DEF Stay, StillThere

LEMMA InitInv == Init => IndInv
<1> SUFFICES ASSUME Init PROVE IndInv
  OBVIOUS
<1>. DEFINE room == [name |-> MAINROOM, active |-> {}]
            admin == [nick |-> EIRBADMIN, fd |-> 0, salon |-> Bare(MAINROOM)]
<1>1. room \in Room /\ admin \in Nickname
  BY RoomsAssumption DEF Room, Nickname, Bare, Text
<1>2. rooms = <<room>> /\ nicknames = <<admin>> /\ room.name = MAINROOM
  BY DEF Init
<1>. HIDE DEF room, admin
<1>3. rooms \in Seq(Room) /\ rooms # <<>> /\ rooms[1] = room /\ nicknames \in Seq(Nickname)
  BY <1>1, <1>2
<1>. QED BY <1>2, <1>3, IndInvIs DEF Init, Kept

LEMMA AddNickInv ==
    ASSUME IndInv, NEW f \in online, NEW n \in Nick, AddNick(f, n)
    PROVE  IndInv' /\ Owned(f)
<1>. DEFINE new == [nick |-> n, fd |-> f, salon |-> Bare(MAINROOM)]
<1>1. Kept(rooms) /\ nicknames \in Seq(Nickname) /\ f \in Client
  BY IndInvIs
<1>2. Kept(rooms') /\ Like(rooms', rooms, f) /\ Stay(rooms', rooms, f, {})
  BY <1>1, JoinedKept DEF AddNick
<1>3. new \in Nickname
  BY <1>1, RoomsAssumption DEF Nickname, Bare, Text
<1>4. nicknames' = Append(nicknames, new)
  BY DEF AddNick
<1>. HIDE DEF new
<1>5. nicknames' \in Seq(Nickname)
  BY <1>1, <1>3, <1>4, AppendProperties
<1>6. IndInv'
  BY <1>2, <1>5, IndInvIs DEF AddNick, Kept, IndInv, TypeOK, MainroomKept, Room, Nickname
<1>7. StillThere(f)
  BY <1>2 DEF Stay, StillThere
<1>. QED BY <1>2, <1>6, <1>7, LikeOwned DEF Owned

\* A step of joinRoom() on rs, the other variables being left alone.
LEMMA JoinRoomInv ==
    ASSUME IndInv, NEW rs, Kept(rs), NEW text \in Text, NEW f \in online,
           JoinRoom(rs, text, f), UNCHANGED <<online, crashed>>
    PROVE  IndInv' /\ Like(rooms', rs, f) /\ Stay(rooms', rs, f, Recorded(f) \ {MAINROOM})
<1>1. nicknames \in Seq(Nickname) /\ f \in Client
  BY IndInvIs
<1>2. /\ Kept(rooms') /\ Like(rooms', rs, f) /\ nicknames' \in Seq(Nickname)
      /\ Stay(rooms', rs, f, Recorded(f) \ {MAINROOM})
  BY <1>1, JoinRoomKept
<1>. QED BY <1>2 DEF Kept, IndInv, TypeOK, MainroomKept, Room, Nickname

LEMMA TextType == ASSUME NEW r \in Name PROVE Bare(r) \in Text /\ Line(r) \in Text
BY DEF Bare, Line, Text

LEMMA CreateInv ==
    ASSUME IndInv, NEW f \in online, NEW r \in Name, Create(f, r)
    PROVE  IndInv' /\ Owned(f)
<1>. DEFINE new == [name |-> r, active |-> {}]
            rs == Append(rooms, new)
<1>1. /\ rooms \in Seq(Room) /\ rooms # <<>> /\ rooms[1].name = MAINROOM
      /\ Len(rooms) \in Nat /\ Len(rooms) > 0 /\ DOMAIN rooms = 1 .. Len(rooms)
  BY IndInvIs, LenProperties, EmptySeq DEF Kept
<1>2. new \in Room /\ new.active = {}
  BY DEF Room
<1>. HIDE DEF new
<1>3. /\ rs \in Seq(Room) /\ Len(rs) = Len(rooms) + 1
      /\ \A k \in 1 .. Len(rooms) : rs[k] = rooms[k]
      /\ rs[Len(rooms) + 1] = new
  BY <1>1, <1>2, AppendProperties
<1>4. JoinRoom(rs, Bare(r), f)
  BY DEF Create, addRoom, new
<1>. HIDE DEF rs
<1>5. Kept(rs)
  BY <1>1, <1>3, EmptySeq DEF Kept
<1>6. IndInv' /\ Like(rooms', rs, f) /\ Stay(rooms', rs, f, Recorded(f) \ {MAINROOM})
  BY <1>4, <1>5, TextType, JoinRoomInv DEF Create
<1>7. ASSUME NEW k \in DOMAIN rooms'
      PROVE  \/ \E j \in DOMAIN rooms : Others(rooms'[k], f) = Others(rooms[j], f)
             \/ k = Len(rooms') /\ rooms'[k].active \subseteq {f}
  <2>1. PICK j \in 1 .. Len(rs) : /\ Others(rooms'[k], f) = Others(rs[j], f)
                                  /\ j = Len(rs) => k = Len(rooms')
    BY <1>3, <1>6, LenProperties DEF Like
  <2>2. CASE j \in 1 .. Len(rooms)
    BY <1>1, <1>3, <2>1, <2>2
  <2>3. CASE j = Len(rooms) + 1
    <3>1. Others(rooms'[k], f) = Others(new, f) /\ k = Len(rooms')
      BY <1>3, <2>1, <2>3
    <3>2. rooms'[k] \in Room
      BY <1>6, ElementOfSeq, LenProperties DEF IndInv, TypeOK, Room
    <3>3. rooms'[k].active \ {f} = {}
      BY <1>2, <3>1, <3>2 DEF Others, Room
    <3>. QED BY <3>1, <3>3
  <2>. QED BY <1>1, <1>3, <2>2, <2>3
<1>8. StillThere(f)
  <2>1. Stay(rs, rooms, f, Recorded(f) \ {MAINROOM})
    BY <1>1, <1>3, LenProperties DEF Stay
  <2>2. Stay(rooms', rooms, f, Recorded(f) \ {MAINROOM})
    BY <1>1, <1>3, <1>6, <2>1, StayThen
  <2>. QED BY <2>2, StayStill, IndInvIs
<1>. QED BY <1>6, <1>7, <1>8 DEF Owned, OldOrNew

LEMMA JoinInv ==
    ASSUME IndInv, NEW f \in online, NEW r \in Name, Join(f, r)
    PROVE  IndInv' /\ Owned(f)
<1>1. Kept(rooms) /\ nicknames \in Seq(Nickname)
  BY IndInvIs
<1>. QED BY <1>1, TextType, JoinRoomInv, LikeOwned, StayStill DEF Join, Owned

LEMMA QuitInv ==
    ASSUME IndInv, NEW f \in online, NEW r \in Name, Quit(f, r)
    PROVE  IndInv' /\ Owned(f)
<1>1. Kept(rooms) /\ f \in Client
  BY IndInvIs
<1>2. PICK rs \in QuitRoom(rooms, f, Bare(r)) : JoinRoom(rs, Line(r), f)
  BY DEF Quit
<1>3. Kept(rs) /\ Like(rs, rooms, f) /\ Stay(rs, rooms, f, {r} \ {MAINROOM})
  <2>1. Bare(r).name = r /\ ~ Bare(r).line
    BY DEF Bare
  <2>. QED BY <1>1, <2>1, QuitKept
<1>4. IndInv' /\ Like(rooms', rs, f) /\ Stay(rooms', rs, f, Recorded(f) \ {MAINROOM})
  BY <1>2, <1>3, TextType, JoinRoomInv DEF Quit
<1>5. Like(rooms', rooms, f)
  BY <1>3, <1>4, LikeThen
<1>6. StillThere(f)
  <2>. DEFINE gone == (Recorded(f) \cup {r}) \ {MAINROOM}
  <2>1. Stay(rs, rooms, f, gone) /\ Stay(rooms', rs, f, gone)
    <3>1. {r} \ {MAINROOM} \subseteq gone /\ Recorded(f) \ {MAINROOM} \subseteq gone
      OBVIOUS
    <3>. QED BY <1>3, <1>4, <3>1, StayMore
  <2>2. Stay(rooms', rooms, f, gone)
    BY <1>1, <1>3, <2>1, StayThen DEF Kept
  <2>3. \A x \in gone : x # MAINROOM /\ Quits(f, x)
    BY RecordedQuits, IndInvIs DEF Quits
  <2>. QED BY <2>2, <2>3 DEF Stay, StillThere
<1>. QED BY <1>4, <1>5, <1>6, LikeOwned DEF Owned

LEMMA HangupInv ==
    ASSUME IndInv, NEW f \in online, Hangup(f)
    PROVE  IndInv'
<1>1. nicknames \in Seq(Nickname) /\ DOMAIN nicknames = 1 .. Len(nicknames)
      /\ Len(nicknames) \in Nat
  BY IndInvIs, LenProperties
<1>2. PICK stay \in SUBSET DOMAIN nicknames : \E kept \in [1 .. Cardinality(stay) -> stay] :
          nicknames' = [k \in DOMAIN kept |-> nicknames[kept[k]]]
  BY DEF Hangup
<1>3. Cardinality(stay) \in Nat
  <2>1. IsFiniteSet(DOMAIN nicknames)
    BY <1>1, FS_Interval
  <2>2. IsFiniteSet(stay)
    BY <2>1, FS_Subset
  <2>. QED BY <2>2, FS_CardinalityType
<1>4. \A k \in DOMAIN nicknames : nicknames[k] \in Nickname
  BY <1>1
<1>5. nicknames' \in Seq(Nickname)
  BY <1>2, <1>3, <1>4, IsASeq
<1>. QED BY <1>5 DEF Hangup, IndInv, TypeOK, MainroomKept, Nickname

\* A step keeps the invariant, and is its client's.
LEMMA NextInv ==
    ASSUME IndInv, Next
    PROVE  IndInv' /\ (UNCHANGED rooms \/ \E f \in online : Owned(f))
<1>1. ASSUME NEW f \in Client, Accept(f) PROVE IndInv' /\ UNCHANGED rooms
  BY <1>1 DEF Accept, IndInv, TypeOK, MainroomKept
<1>2. ASSUME NEW f \in online, NEW n \in Nick, Crash(f, n) PROVE IndInv' /\ UNCHANGED rooms
  BY <1>2 DEF Crash, IndInv, TypeOK, MainroomKept
<1>3. ASSUME NEW f \in online, Hangup(f) PROVE IndInv' /\ UNCHANGED rooms
  BY <1>3, HangupInv DEF Hangup
<1>4. ASSUME NEW f \in online, NEW n \in Nick, AddNick(f, n) PROVE IndInv' /\ Owned(f)
  BY <1>4, AddNickInv
<1>5. ASSUME NEW f \in online, NEW r \in Name, Create(f, r) \/ Join(f, r) \/ Quit(f, r)
      PROVE  IndInv' /\ Owned(f)
  BY <1>5, CreateInv, JoinInv, QuitInv
<1>. QED BY <1>1, <1>2, <1>3, <1>4, <1>5 DEF Next, Command

LEMMA Inductive == Spec => []IndInv
<1>1. IndInv /\ UNCHANGED vars => IndInv'
  BY DEF vars, IndInv, TypeOK, MainroomKept
<1>2. IndInv /\ [Next]_vars => IndInv'
  BY <1>1, NextInv
<1>. QED BY <1>2, InitInv, PTL DEF Spec

-----------------------------------------------------------------------------
\* Every variable keeps its type, whatever commands follow each other.
THEOREM TypeCorrect == Spec => []TypeOK
<1>1. IndInv => TypeOK
  BY DEF IndInv
<1>. QED BY <1>1, Inductive, PTL

\* MAINROOM stays the first room, for any names and whichever are mistaken for
\* others.
THEOREM MainroomCorrect == Spec => []MainroomKept
<1>1. IndInv => MainroomKept
  BY DEF IndInv
<1>. QED BY <1>1, Inductive, PTL

\* A command changes the memberships of its client alone, and deletes a room
\* only where that client quits one of its name, never MAINROOM.
THEOREM OwnMembershipCorrect == Spec => OwnMembershipOnly
<1>. DEFINE A == \E f \in online :
                    /\ \A k \in DOMAIN rooms' :
                          \/ \E j \in DOMAIN rooms : Others(rooms'[k], f) = Others(rooms[j], f)
                          \/ k = Len(rooms') /\ rooms'[k].active \subseteq {f}
                    /\ \A k \in DOMAIN rooms :
                          \/ \E j \in DOMAIN rooms' : Others(rooms'[j], f) = Others(rooms[k], f)
                          \/ rooms[k].name # MAINROOM /\ Quits(f, rooms[k].name)
<1>1. IndInv /\ [Next]_vars => [A]_rooms
  <2>. SUFFICES ASSUME IndInv, Next, rooms' # rooms PROVE A
    BY DEF vars
  <2>. QED BY NextInv DEF Owned, OldOrNew, StillThere
<1>2. OwnMembershipOnly <=> [][A]_rooms
  BY DEF OwnMembershipOnly
<1>. QED BY <1>1, <1>2, Inductive, PTL DEF Spec

\* Whoever is told it joined a room is in one its text is taken for, unless such
\* a room is recorded in a node taken for the client's.
THEOREM JoinedCorrect == Spec => JoinedUnlessRecorded
<1>. DEFINE InOrOut(f, r) ==
              \/ In(f, r)'
              \/ \E k \in TakenFor(f) : /\ ~ nicknames[k].salon.line
                                        /\ Alike(Line(r), nicknames[k].salon.name)
            A == \A f \in online, r \in Name : Join(f, r) => InOrOut(f, r)
<1>1. ASSUME IndInv, NEW f \in online, NEW r \in Name, Join(f, r) PROVE InOrOut(f, r)
  <2>. DEFINE rs == Joined(rooms, Line(r), f)
  <2>1. Kept(rooms) /\ f \in Client
    BY <1>1, IndInvIs
  <2>2. Kept(rs)
    BY <2>1, JoinedKept
  <2>3. PICK k \in DOMAIN rooms : <<r, rooms[k].name>> \in Extends
    BY <1>1 DEF Join, ExistRoom
  <2>4. k \in DOMAIN rs /\ f \in rs[k].active /\ Alike(Line(r), rs[k].name)
    <3>1. Alike(Line(r), rooms[k].name)
      BY <2>3, RoomsAssumption DEF Alike, Line
    <3>2. rooms[k] \in Room
      BY <2>1, <2>3, ElementOfSeq, LenProperties DEF Kept
    <3>3. k \in DOMAIN rs /\ rs[k] = [rooms[k] EXCEPT !.active = rooms[k].active \cup {f}]
      BY <2>3, <3>1 DEF Joined
    <3>. QED BY <3>1, <3>2, <3>3 DEF Room
  <2>. HIDE DEF rs
  <2>5. CASE rooms' = rs
    BY <2>4, <2>5 DEF In, Alike, Line
  <2>6. ASSUME NEW m \in TakenFor(f), rooms' \in QuitRoom(rs, f, nicknames[m].salon)
        PROVE  InOrOut(f, r)
    <3>1. \/ \E j \in DOMAIN rooms' : rooms'[j] = rs[k]
          \/ ~ nicknames[m].salon.line /\ rs[k].name = nicknames[m].salon.name
      BY <2>1, <2>2, <2>4, <2>6, QuitKept
    <3>2. ASSUME NEW j \in DOMAIN rooms', rooms'[j] = rs[k] PROVE In(f, r)'
      BY <2>4, <3>2 DEF In, Alike, Line
    <3>. QED BY <2>4, <2>6, <3>1, <3>2
  <2>. QED BY <1>1, <2>5, <2>6 DEF Join, JoinRoom, rs
<1>2. IndInv /\ [Next]_vars => [A]_vars
  BY <1>1
<1>3. JoinedUnlessRecorded <=> [][A]_vars
  BY DEF JoinedUnlessRecorded
<1>. QED BY <1>2, <1>3, Inductive, PTL DEF Spec
=============================================================================
