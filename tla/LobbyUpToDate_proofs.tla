------------------------ MODULE LobbyUpToDate_proofs ------------------------
(* What a peer has announced is what the others list: UpToDate, for every    *)
(* set of nodes, every set of rooms and every bound.                         *)
EXTENDS GroupLobby_proofs

-----------------------------------------------------------------------------
(* What handlers do to the rooms of a house *)

\* Rooms of h go in g, but only those of n.
Shrinks(g, h, n) ==
    \A x \in Room : \/ g.rooms[x] = h.rooms[x]
                    \/ g.rooms[x] = Absent /\ h.rooms[x] = n

LEMMA ClosedRooms ==
    ASSUME NEW h \in House, NEW n \in Node, NEW r
    PROVE  \A x \in Room :
              \/ RoomClosedUpdate(h, n, r).rooms[x] = h.rooms[x]
              \/ /\ RoomClosedUpdate(h, n, r).rooms[x] = Absent
                 /\ x = r /\ h.rooms[x] = n
  BY DEF RoomClosedUpdate, RoomErase, WithRoom, ListedIn, House

LEMMA RemovedRooms ==
    ASSUME NEW h \in House, NEW n \in Node
    PROVE  Shrinks(NodeRemovedFrom(h, n), h, n)
  BY ClosedRooms
     DEF Shrinks, NodeRemovedFrom, UserErase, WithUser, UserErased

\* A user update closes no room but the one its sender was listed in, and
\* that only when he leaves it or was started again.
LEMMA UpdatedRooms ==
    ASSUME NEW h \in House, NEW n \in Node, NEW u \in UserEntry, KnownIn(h, n),
           NEW x \in Room
    PROVE  LET g == UserUpdate(h, n, u)
           IN  \/ g.rooms[x] = h.rooms[x]
               \/ /\ g.rooms[x] = Absent /\ h.rooms[x] = n
                  /\ x = h.users[n].room
                  /\ u.room # x \/ u.id # h.users[n].id
  <1> DEFINE b == BeforeRoomCheck(h, n, u)
             c == IF LeavesRoom(h, n, u)
                  THEN RoomClosedUpdate(b, n, h.users[n].room) ELSE b
  <1>1. /\ b \in House
        /\ \/ b.rooms[x] = h.rooms[x]
           \/ /\ b.rooms[x] = Absent /\ h.rooms[x] = n
              /\ x = h.users[n].room /\ u.id # h.users[n].id
    BY UserErasedType, ClosedRooms DEF BeforeRoomCheck, UserErased, Reincarnated
  <1> HIDE DEF b
  <1>2. \/ c.rooms[x] = b.rooms[x]
        \/ /\ c.rooms[x] = Absent /\ b.rooms[x] = n
           /\ x = h.users[n].room /\ u.room # x
    BY <1>1, ClosedRooms DEF LeavesRoom
  <1>3. UserUpdate(h, n, u).rooms = c.rooms
    BY DEF UserUpdate, WithUser, b
  <1> HIDE DEF c
  <1> QED  BY <1>1, <1>2, <1>3, HandlerAssumption

\* A user update lists what it carries.
LEMMA UpdatedEntry ==
    ASSUME NEW h \in House, NEW n \in Node, NEW u \in UserEntry, KnownIn(h, n),
           h.users[n].id <= u.id
    PROVE  UserUpdate(h, n, u).users[n] = u
  <1> DEFINE g == UserUpdate(h, n, u)
  <1>1. /\ g \in House /\ KnownIn(g, n) /\ g.users[n].room = u.room
        /\ Entry(g, n) = u.id
    BY UserUpdateType, UserUpdateEntry
  <1> HIDE DEF g
  <1>2. g.users[n] \in UserEntry /\ g.users[n].id = u.id
    BY <1>1 DEF House, KnownIn, Entry
  <1> QED  BY <1>1, <1>2 DEF UserEntry, g

\* A room update lists the room, as its sender's if it was not listed.
LEMMA RoomUpdated ==
    ASSUME NEW h \in House, NEW n \in Node, NEW r \in Room, KnownIn(h, n),
           NEW x \in Room
    PROVE  LET g == RecvRoomUpdate(h, n, r)
           IN  /\ x # r => g.rooms[x] = h.rooms[x]
               /\ g.rooms[r] = IF h.rooms[r] = Absent THEN n ELSE h.rooms[r]
  BY HandlerAssumption DEF RecvRoomUpdate, ListedIn, WithRoom, House

\* A user who was not listed is entered: the own one as he is, another with
\* nothing known of him.  No room closes.
LEMMA HouseWithUnknown ==
    ASSUME TypeOK, NEW p \in Node, NEW n \in Node, ~KnownIn(house[p], n)
    PROVE  LET g == HouseWith(house[p], p, n)
           IN  /\ g.rooms = house[p].rooms
               /\ g.users[n] = IF n = p THEN Self(p)
                               ELSE [id |-> NoId, room |-> NoRoom]
  <1> DEFINE i == UserInsert(house[p], n)
             e == [id |-> NoId, room |-> NoRoom]
  <1>1. /\ i \in House /\ KnownIn(i, n) /\ i.rooms = house[p].rooms
        /\ i.users[n] = e
    <2>1. house[p] \in House
      BY DEF TypeOK
    <2>2. i = WithUser(house[p], n, e)
      BY DEF UserInsert
    <2>3. i.users[n] = e
      BY <2>1, <2>2 DEF WithUser, House
    <2> HIDE DEF e
    <2> QED  BY <2>1, <2>3, UserInsertType
  <1>2. Self(p) \in UserEntry /\ i.users[n].id = NoId
        /\ i.users[n].room = NoRoom
    BY <1>1, SelfType
  <1> HIDE DEF i, e
  <1>3. UserUpdate(i, n, Self(p)).users[n] = Self(p)
    BY <1>1, <1>2, UpdatedEntry DEF UserEntry, NoId
  <1>4. UserUpdate(i, n, Self(p)).rooms = i.rooms
    BY <1>2 DEF UserUpdate, LeavesRoom, BeforeRoomCheck, Reincarnated, WithUser
  <1> QED  BY <1>1, <1>3, <1>4 DEF HouseWith, i, e

-----------------------------------------------------------------------------
(* How a link changes in a step *)

\* What a sends in this step is his present state, or a room he opened.
Sends(m, a) ==
    /\ m \in Pdu
    /\ m.kind = "user" => m.user = [id |-> inc'[a], room |-> selfRoom'[a]]
    /\ m.kind = "room" => opener'[m.room] = a

\* Of s the first k go, and a sends more.
Follows(t, s, k, a) ==
    /\ Len(t) \in Nat /\ Len(s) - k <= Len(t)
    /\ \A i \in 1..Len(t) : IF i <= Len(s) - k THEN t[i] = s[i + k]
                            ELSE Sends(t[i], a)

LEMMA FollowsSame ==
    ASSUME NEW s \in Seq(Pdu), NEW a
    PROVE  Follows(s, s, 0, a)
  BY DEF Follows

LEMMA FollowsSent ==
    ASSUME NEW s \in Seq(Pdu), NEW a, NEW t \in Seq(Pdu),
           \A i \in 1..Len(t) : Sends(t[i], a)
    PROVE  Follows(s \o t, s, 0, a)
  BY ConcatProperties, LenProperties DEF Follows

LEMMA FollowsAppended ==
    ASSUME NEW s \in Seq(Pdu), NEW a, NEW m, Sends(m, a)
    PROVE  Follows(Append(s, m), s, 0, a)
  BY DEF Follows, Sends

LEMMA FollowsTaken ==
    ASSUME NEW s \in Seq(Pdu), s # <<>>, NEW a
    PROVE  Follows(Tail(s), s, 1, a)
  BY HeadTailProperties, EmptySeq, LenProperties DEF Follows

LEMMA FollowsTakenSent ==
    ASSUME NEW s \in Seq(Pdu), s # <<>>, NEW a, NEW t \in Seq(Pdu),
           \A i \in 1..Len(t) : Sends(t[i], a)
    PROVE  Follows(Tail(s) \o t, s, 1, a)
  <1> DEFINE b == Tail(s)
  <1>1. b \in Seq(Pdu) /\ Follows(b, s, 1, a)
    BY HeadTailProperties, FollowsTaken
  <1>2. Len(s) \in Nat \ {0} /\ Len(b) = Len(s) - 1 /\ Len(t) \in Nat
    BY HeadTailProperties, EmptySeq, LenProperties
  <1>3. Follows(b \o t, b, 0, a)
    BY <1>1, FollowsSent
  <1> HIDE DEF b
  <1>4. Follows(b \o t, s, 1, a)
    BY <1>1, <1>2, <1>3 DEF Follows
  <1> QED  BY <1>4 DEF b

-----------------------------------------------------------------------------
(* Members, and programs that do not run *)

\* Listed are those whom the group has announced and who are not blocked.
MemberInv ==
    \A q, n \in Node :
        KnownIn(house[q], n) <=> n \in member[q] /\ n \notin blocked[q]

\* A program that does not run is in no room, and nothing is sent to it, nor
\* by a program to itself before the group has announced it.
DownInv ==
    \A p \in Node :
        /\ p \notin up => /\ selfRoom[p] = NoRoom
                          /\ missed[p] = Node
                          /\ \A a \in Node : p \in missed[a]
        /\ p \notin member[p] => link[p][p] = <<>>

\* A room is there when somebody has opened it.
Opened(r) == r = NoRoom \/ opener[r] \in Node

\* Whoever opened a room announces it and is listed as its owner; no other
\* room is named.
OpenerInv ==
    /\ \A p \in Node : /\ hosted[p] # NoRoom => opener[hosted[p]] = p
                       /\ Opened(selfRoom[p])
    /\ \A p, q \in Node :
          /\ \A i \in 1..Len(link[p][q]) :
                /\ link[p][q][i].kind = "user"
                      => Opened(link[p][q][i].user.room)
                /\ link[p][q][i].kind = "room"
                      => opener[link[p][q][i].room] = p
          /\ KnownIn(house[q], p) => Opened(house[q].users[p].room)
    /\ \A q \in Node, r \in Room :
          house[q].rooms[r] # Absent
          => house[q].rooms[r] = opener[r] /\ opener[r] \in Node

-----------------------------------------------------------------------------
(* What each step does to the links *)

\* The answer is the user, and his room when he hosts it.
LEMMA AnswerSends ==
    ASSUME TypeOK, OpenerInv, NEW p \in Node,
           UNCHANGED <<inc, selfRoom, opener>>
    PROVE  /\ Answer(p) \in Seq(Pdu) /\ Len(Answer(p)) \in {1, 2}
           /\ \A i \in 1..Len(Answer(p)) : Sends(Answer(p)[i], p)
           /\ Answer(p)[1] = UserPdu(Self(p))
           /\ selfRoom[p] # NoRoom /\ selfRoom[p] = hosted[p]
                => Len(Answer(p)) = 2 /\ Answer(p)[2] = RoomPdu(hosted[p])
  <1> DEFINE u == UserPdu(Self(p))
             r == RoomPdu(hosted[p])
  <1>1. u \in Pdu /\ Sends(u, p)
    BY SelfType, PduType DEF Sends, UserPdu, Self
  <1>2. CASE selfRoom[p] # NoRoom /\ selfRoom[p] = hosted[p]
    <2>1. r \in Pdu /\ Sends(r, p)
      BY <1>2, PduType DEF TypeOK, OpenerInv, Sends, RoomPdu
    <2>2. Answer(p) = <<u>> \o <<r>>
      BY <1>2 DEF Answer
    <2>3. r = RoomPdu(hosted[p]) /\ u = UserPdu(Self(p))
      OBVIOUS
    <2> HIDE DEF u, r
    <2>4. /\ <<u>> \in Seq(Pdu) /\ Len(<<u>>) = 1 /\ <<u>>[1] = u
          /\ <<r>> \in Seq(Pdu) /\ Len(<<r>>) = 1 /\ <<r>>[1] = r
      BY <1>1, <2>1
    <2> DEFINE s == <<u>>
               t == <<r>>
    <2>5. s \o t \in Seq(Pdu) /\ Len(s \o t) = 2
          /\ (s \o t)[1] = u /\ (s \o t)[2] = r
      <3>1. s \in Seq(Pdu) /\ Len(s) = 1 /\ s[1] = u
            /\ t \in Seq(Pdu) /\ Len(t) = 1 /\ t[1] = r
        BY <2>4
      <3> HIDE DEF s, t
      <3> QED  BY <3>1, ConcatProperties
    <2>6. Answer(p) = s \o t
      BY <2>2
    <2> HIDE DEF s, t
    <2>7. \A i \in 1..2 : Sends((s \o t)[i], p)
      BY <1>1, <2>1, <2>5
    <2> QED  BY <1>1, <2>1, <2>3, <2>5, <2>6, <2>7
  <1>3. CASE ~(selfRoom[p] # NoRoom /\ selfRoom[p] = hosted[p])
    <2>1. Answer(p) = <<u>> \o << >>
      BY <1>3 DEF Answer
    <2> HIDE DEF u, r
    <2>2. Answer(p) = <<u>>
      BY <1>1, <2>1
    <2> QED  BY <1>1, <1>3, <2>2 DEF u
  <1> QED  BY <1>2, <1>3

\* Every link goes on as it was, or loses its oldest PDU to its receiver, or
\* all of them when its receiver is not told what is sent.
LinksMove ==
    \A a, b \in Node :
        \/ Follows(link'[a][b], link[a][b], 0, a)
        \/ /\ Receive(b, a) /\ link[a][b] # <<>>
           /\ Follows(link'[a][b], link[a][b], 1, a)
        \/ link'[a][b] = <<>> /\ b \in missed'[a]

LEMMA SameLinks ==
    ASSUME TypeOK, NEW a \in Node, NEW b \in Node, link'[a][b] = link[a][b]
    PROVE  Follows(link'[a][b], link[a][b], 0, a)
  BY FollowsSame DEF TypeOK

LEMMA SentLinks ==
    ASSUME TypeOK, NEW p \in Node, NEW n \in Node, NEW t \in Seq(Pdu),
           \A i \in 1..Len(t) : Sends(t[i], p),
           link' = SendTo(link, p, n, t)
    PROVE  \A a, b \in Node : Follows(link'[a][b], link[a][b], 0, a)
  <1> SUFFICES ASSUME NEW a \in Node, NEW b \in Node
               PROVE  Follows(link'[a][b], link[a][b], 0, a)
    OBVIOUS
  <1>1. link[a][b] \in Seq(Pdu)
    BY DEF TypeOK
  <1>2. \/ link'[a][b] = link[a][b]
        \/ a = p /\ link'[a][b] = link[a][b] \o t
    BY DEF SendTo, TypeOK
  <1> QED  BY <1>1, <1>2, FollowsSame, FollowsSent

LEMMA BroadcastLinks ==
    ASSUME TypeOK, NEW p \in Node, NEW m, Sends(m, p),
           link' = Broadcast(link, p, m)
    PROVE  \A a, b \in Node :
              /\ Follows(link'[a][b], link[a][b], 0, a)
              /\ link'[a][b] = IF a = p /\ b \in member[p] \cap up
                               THEN Append(link[a][b], m) ELSE link[a][b]
  <1> SUFFICES ASSUME NEW a \in Node, NEW b \in Node
               PROVE  /\ Follows(link'[a][b], link[a][b], 0, a)
                      /\ link'[a][b] = IF a = p /\ b \in member[p] \cap up
                                       THEN Append(link[a][b], m)
                                       ELSE link[a][b]
    OBVIOUS
  <1>1. link[a][b] \in Seq(Pdu)
    BY DEF TypeOK
  <1>2. link'[a][b] = IF a = p /\ b \in member[p] \cap up
                      THEN Append(link[a][b], m) ELSE link[a][b]
    BY DEF Broadcast, TypeOK
  <1> QED  BY <1>1, <1>2, FollowsSame, FollowsAppended

LEMMA OneSends ==
    ASSUME NEW m, NEW a, Sends(m, a)
    PROVE  <<m>> \in Seq(Pdu) /\ \A i \in 1..Len(<<m>>) : Sends(<<m>>[i], a)
  BY DEF Sends

LEMMA UpdateUserSends ==
    ASSUME TypeOK, NEW p \in Node, NEW r \in Room \cup {NoRoom},
           UpdateUser(p, r), inc' = inc
    PROVE  LET m == UserPdu([id |-> inc[p], room |-> r])
           IN  Sends(m, p) /\ link' = Broadcast(link, p, m)
  BY PduType DEF UpdateUser, Announce, Sends, UserPdu, TypeOK, UserEntry

LEMMA RefreshLinks ==
    ASSUME TypeOK, NEW p \in Node, Refresh(p), NEW a \in Node, NEW b \in Node
    PROVE  Follows(link'[a][b], link[a][b], 0, a)
  <1>1. link[a][b] \in Seq(Pdu) /\ Sends(Req, a)
    BY PduType DEF TypeOK, Sends, Req
  <1>2. \/ link'[a][b] = link[a][b]
        \/ link'[a][b] = Append(link[a][b], Req)
    BY DEF Refresh, TypeOK
  <1> QED  BY <1>1, <1>2, FollowsSame, FollowsAppended

\* What is received is taken; only a request is answered.
LEMMA ReceiveLinks ==
    ASSUME TypeOK, OpenerInv, NEW p \in Node, NEW n \in Node, Receive(p, n),
           NEW a \in Node, NEW b \in Node
    PROVE  /\ link[n][p] # <<>>
           /\ IF a = n /\ b = p THEN Follows(link'[a][b], link[a][b], 1, a)
              ELSE Follows(link'[a][b], link[a][b], 0, a)
  <1>1. /\ link[n][p] # <<>> /\ link[a][b] \in Seq(Pdu)
        /\ UNCHANGED <<inc, selfRoom, opener>>
    BY DEF Receive, ReceiveFromBlocked, ReceiveUserReq, ReceiveUserUpdate,
           ReceiveRoomUpdate, ReceiveData, Receivable, TypeOK
  <1> DEFINE k == Taken(p, n)
             t == Answer(p)
  <1>2. k[a][b] = IF a = n /\ b = p THEN Tail(link[a][b]) ELSE link[a][b]
    BY DEF Taken, TypeOK
  <1>3. Tail(link[n][p]) \in Seq(Pdu)
    BY <1>1, HeadTailProperties DEF TypeOK
  <1>4. /\ k \in Links /\ t \in Seq(Pdu)
        /\ \A i \in 1..Len(t) : Sends(t[i], p)
    <2>1. k \in Links
      BY <1>3 DEF Taken, Links, TypeOK
    <2>2. t \in Seq(Pdu) /\ \A i \in 1..Len(t) : Sends(t[i], p)
      BY <1>1, AnswerSends
    <2> QED  BY <2>1, <2>2
  <1>5. \/ link' = k
        \/ link' = SendTo(k, p, n, t)
    BY DEF Receive, ReceiveFromBlocked, ReceiveUserReq, ReceiveUserUpdate,
           ReceiveRoomUpdate, ReceiveData
  <1> HIDE DEF k, t
  <1>6. \/ link'[a][b] = k[a][b]
        \/ a = p /\ link'[a][b] = k[a][b] \o t
    <2>1. CASE link' = k
      BY <2>1
    <2>2. CASE link' = SendTo(k, p, n, t)
      <3>1. CASE n \in up /\ a = p /\ b = n
        BY <1>4, <2>2, <3>1 DEF SendTo, Links
      <3>2. CASE ~(n \in up /\ a = p /\ b = n)
        BY <1>4, <2>2, <3>2 DEF SendTo, Links
      <3> QED  BY <3>1, <3>2
    <2> QED  BY <1>5, <2>1, <2>2
  <1>7. CASE a = n /\ b = p
    <2>1. k[a][b] = Tail(link[a][b]) /\ link[a][b] # <<>>
      BY <1>1, <1>2, <1>7
    <2>2. CASE link'[a][b] = k[a][b]
      BY <1>1, <1>7, <2>1, <2>2, FollowsTaken
    <2>3. CASE a = p /\ link'[a][b] = k[a][b] \o t
      BY <1>1, <1>4, <1>7, <2>1, <2>3, FollowsTakenSent
    <2> QED  BY <1>6, <2>2, <2>3
  <1>8. CASE ~(a = n /\ b = p)
    <2>1. k[a][b] = link[a][b]
      BY <1>2, <1>8
    <2>2. CASE link'[a][b] = k[a][b]
      BY <1>1, <1>8, <2>1, <2>2, FollowsSame
    <2>3. CASE a = p /\ link'[a][b] = k[a][b] \o t
      BY <1>1, <1>4, <1>8, <2>1, <2>3, FollowsSent
    <2> QED  BY <1>6, <2>2, <2>3
  <1> QED  BY <1>1, <1>7, <1>8

LEMMA NextLinks ==
    ASSUME TypeOK, OpenerInv, [Next]_vars
    PROVE  LinksMove
  <1>1. ASSUME \A a, b \in Node : Follows(link'[a][b], link[a][b], 0, a)
        PROVE  LinksMove
    BY <1>1 DEF LinksMove
  <1>2. ASSUME link' = link
        PROVE  LinksMove
    BY <1>1, <1>2, SameLinks
  <1>3. ASSUME NEW p \in Node, NEW n \in Node, NEW m \in {Req, BlockedPdu},
               link' = link \/ link' = SendTo(link, p, n, <<m>>)
        PROVE  LinksMove
    <2>1. Sends(m, p)
      BY <1>3, PduType DEF Sends, Req, BlockedPdu
    <2> QED  BY <1>1, <1>2, <1>3, <2>1, OneSends, SentLinks
  <1>4. ASSUME NEW p \in Node, NEW n \in Node, NodeAdded(p, n)
        PROVE  LinksMove
    <2>1. link' = link \/ link' = SendTo(link, p, n, <<Req>>)
      BY <1>4 DEF NodeAdded
    <2> QED  BY <1>3, <2>1
  <1>5. ASSUME NEW p \in Node, NEW n \in Node, NodeRemoved(p, n)
        PROVE  LinksMove
    <2>1. ASSUME NEW a \in Node, NEW b \in Node
          PROVE  \/ link'[a][b] = link[a][b]
                 \/ link'[a][b] = <<>> /\ b \in missed'[a]
      BY <1>5 DEF NodeRemoved, TypeOK
    <2> QED  BY <2>1, SameLinks DEF LinksMove
  <1>6. ASSUME NEW p \in Node, NEW n \in Node, Receive(p, n)
        PROVE  LinksMove
    BY <1>6, ReceiveLinks DEF LinksMove
  <1>7. ASSUME NEW p \in Node, NEW n \in Node, Block(p, n)
        PROVE  LinksMove
    <2>1. link' = link \/ link' = SendTo(link, p, n, <<BlockedPdu>>)
      BY <1>7 DEF Block
    <2> QED  BY <1>3, <2>1
  <1>8. ASSUME NEW p \in Node, NEW r \in Room \cup {NoRoom},
               UpdateUser(p, r), inc' = inc
        PROVE  LinksMove
    BY <1>1, <1>8, UpdateUserSends, BroadcastLinks
  <1>9. ASSUME NEW p \in Node, AcceptRoomSettings(p)
        PROVE  LinksMove
    <2>1. /\ Sends(RoomPdu(selfRoom[p]), p)
          /\ link' = Broadcast(link, p, RoomPdu(selfRoom[p]))
      BY <1>9, PduType
         DEF AcceptRoomSettings, Announce, Sends, RoomPdu, TypeOK
    <2> QED  BY <1>1, <2>1, BroadcastLinks
  <1>10. ASSUME NEW p \in Node, Refresh(p)
         PROVE  LinksMove
    BY <1>1, <1>10, RefreshLinks
  <1>11. ASSUME NEW p \in Node, Crash(p)
         PROVE  LinksMove
    <2>1. ASSUME NEW a \in Node, NEW b \in Node
          PROVE  \/ link'[a][b] = link[a][b]
                 \/ link'[a][b] = <<>> /\ b \in missed'[a]
      BY <1>11 DEF Crash, TypeOK
    <2> QED  BY <2>1, SameLinks DEF LinksMove
  <1>12. ASSUME NEW p \in Node,
                \/ OpenRoomSettings(p) \/ EnterRoom(p) \/ LeaveRoom(p)
         PROVE  LinksMove
    <2>1. inc' = inc /\ \E r \in Room \cup {NoRoom} : UpdateUser(p, r)
      BY <1>12 DEF OpenRoomSettings, EnterRoom, LeaveRoom
    <2> QED  BY <1>8, <2>1
  <1>13. ASSUME NEW p \in Node, Restart(p)
         PROVE  LinksMove
    BY <1>2, <1>13 DEF Restart
  <1>14. CASE UNCHANGED vars
    BY <1>2, <1>14 DEF vars
  <1> QED
    BY <1>4, <1>5, <1>6, <1>7, <1>9, <1>10, <1>11, <1>12, <1>13, <1>14 DEF Next

-----------------------------------------------------------------------------
(* How what a peer lists changes in a step *)

\* Whoever is no longer told of p has not been sent p's state, or blocks p.
CutOff(q, p) == q \in missed'[p] \/ p \in blocked'[q]

EntryMoves(q, p) ==
    \/ house'[q].users[p] = house[q].users[p]
    \/ house'[q].users[p] = Absent /\ CutOff(q, p)
    \/ ReceiveUserUpdate(q, p) /\ house'[q].users[p] = Head(link[p][q]).user
    \/ /\ NodeAdded(q, p) /\ ~KnownIn(house[q], p)
       /\ house'[q].users[p] = IF p = q THEN Self(p)
                               ELSE [id |-> NoId, room |-> NoRoom]

\* p closes the room he is listed in: he is elsewhere or was started again.
Closes(q, p, x) ==
    /\ ReceiveUserUpdate(q, p)
    /\ x = house[q].users[p].room /\ KnownIn(house[q], p)
    /\ \/ Head(link[p][q]).user.room # x
       \/ Head(link[p][q]).user.id # house[q].users[p].id

RoomMoves(q, x) ==
    \/ house'[q].rooms[x] = house[q].rooms[x]
    \/ /\ house'[q].rooms[x] = Absent /\ house[q].rooms[x] \in Node
       /\ \/ CutOff(q, house[q].rooms[x])
          \/ Closes(q, house[q].rooms[x], x)
    \/ /\ house[q].rooms[x] = Absent
       /\ \E p \in Node : /\ ReceiveRoomUpdate(q, p)
                          /\ x = Head(link[p][q]).room
                          /\ house'[q].rooms[x] = p

HouseMoves == \A q \in Node : /\ \A p \in Node : EntryMoves(q, p)
                              /\ \A x \in Room : RoomMoves(q, x)

\* The user PDU taken is what is listed next.
LEMMA TakenUserListed ==
    ASSUME TypeOK, IdInv, MemberInv, NEW q \in Node, NEW p \in Node,
           ReceiveUserUpdate(q, p)
    PROVE  LET u == Head(link[p][q]).user
           IN  /\ KnownIn(house[q], p) /\ u \in UserEntry
               /\ house[q].users[p].id <= u.id
               /\ house' = [house EXCEPT ![q] = UserUpdate(house[q], p, u)]
               /\ house'[q].users[p] = u
  <1> DEFINE s == link[p][q]
             u == Head(s).user
             h == house[q]
  <1>1. /\ s \in Seq(Pdu) /\ s # <<>> /\ Head(s).kind = "user"
        /\ Receivable(q, p) /\ inc[p] \in Nat /\ h \in House
    BY DEF ReceiveUserUpdate, Receivable, TypeOK
  <1>2. u \in UserEntry
    BY <1>1, HeadType, PduKinds
  <1>3. KnownIn(h, p)
    BY DEF MemberInv, ReceiveUserUpdate, Receivable, NotBlocked
  <1>4. Entry(h, p) \in Nat /\ Ordered(s, Entry(h, p), inc[p])
    BY EntryType DEF IdInv
  <1>5. h.users[p].id <= u.id
    <2> HIDE DEF s
    <2>1. Entry(h, p) <= Head(s).user.id
      BY <1>1, <1>4, OrderedTail
    <2> QED  BY <1>3, <2>1 DEF Entry
  <1>6. house' = [house EXCEPT ![q] = UserUpdate(h, p, u)]
    BY <1>3 DEF ReceiveUserUpdate, RecvUserUpdate
  <1> HIDE DEF u
  <1>7. UserUpdate(h, p, u).users[p] = u
    BY <1>1, <1>2, <1>3, <1>5, UpdatedEntry
  <1>8. house'[q] = UserUpdate(h, p, u)
    BY <1>6 DEF TypeOK
  <1> QED  BY <1>2, <1>3, <1>5, <1>6, <1>7, <1>8 DEF u

\* The room PDU taken is listed next, as its sender's.
LEMMA TakenRoomListed ==
    ASSUME TypeOK, MemberInv, OpenerInv, NEW q \in Node, NEW p \in Node,
           ReceiveRoomUpdate(q, p)
    PROVE  LET r == Head(link[p][q]).room
           IN  /\ r \in Room
               /\ house' = [house EXCEPT ![q] = RecvRoomUpdate(house[q], p, r)]
               /\ \A x \in Room \ {r} :
                     house'[q].rooms[x] = house[q].rooms[x]
               /\ house'[q].rooms[r] = p /\ opener[r] = p
               /\ house[q].rooms[r] \in {p, Absent}
               /\ house'[q].users = house[q].users
  <1> DEFINE s == link[p][q]
             r == Head(s).room
             h == house[q]
  <1>1. /\ s \in Seq(Pdu) /\ s # <<>> /\ Head(s).kind = "room"
        /\ Receivable(q, p) /\ h \in House
    BY DEF ReceiveRoomUpdate, Receivable, TypeOK
  <1>2. r \in Room
    BY <1>1, HeadType, PduKinds
  <1>3. KnownIn(h, p)
    BY DEF MemberInv, ReceiveRoomUpdate, Receivable, NotBlocked
  <1>4. Head(s) = s[1] /\ 1 \in 1..Len(s)
    BY <1>1, HeadTailProperties, EmptySeq
  <1>5. opener[r] = p
    BY <1>1, <1>4 DEF OpenerInv
  <1>6. h.rooms[r] \in {p, Absent}
    BY <1>2, <1>5 DEF OpenerInv
  <1>7. house' = [house EXCEPT ![q] = RecvRoomUpdate(h, p, r)]
    BY DEF ReceiveRoomUpdate
  <1> HIDE DEF r
  <1>8. house'[q] = RecvRoomUpdate(h, p, r)
    BY <1>7 DEF TypeOK
  <1>9. \A x \in Room : /\ x # r => house'[q].rooms[x] = h.rooms[x]
                        /\ house'[q].rooms[r] =
                              IF h.rooms[r] = Absent THEN p ELSE h.rooms[r]
    BY <1>1, <1>2, <1>3, <1>8, RoomUpdated
  <1>10. house'[q].users = h.users
    BY <1>1, <1>2, <1>8, RecvRoomUpdateType
  <1> QED  BY <1>2, <1>5, <1>6, <1>7, <1>9, <1>10 DEF r

\* A user taken off a house closes no room but his own.
LEMMA RemovedMoves ==
    ASSUME TypeOK, NEW q \in Node, NEW n \in Node, CutOff(q, n),
           house' = [house EXCEPT ![q] = NodeRemovedFrom(house[q], n)]
    PROVE  HouseMoves
  <1> DEFINE g == NodeRemovedFrom(house[q], n)
  <1>1. /\ g \in House /\ ~KnownIn(g, n) /\ Shrinks(g, house[q], n)
        /\ \A m \in Node \ {n} : g.users[m] = house[q].users[m]
    BY NodeRemovedFromType, RemovedRooms DEF TypeOK
  <1> HIDE DEF g
  <1>2. \A b \in Node : house'[b] = IF b = q THEN g ELSE house[b]
    BY DEF TypeOK, g
  <1>3. \A b \in Node, m \in Node : EntryMoves(b, m)
    BY <1>1, <1>2 DEF EntryMoves, KnownIn
  <1>4. \A b \in Node, x \in Room : RoomMoves(b, x)
    BY <1>1, <1>2 DEF RoomMoves, Shrinks
  <1> QED  BY <1>3, <1>4 DEF HouseMoves

LEMMA AddedMoves ==
    ASSUME TypeOK, MemberInv, NEW q \in Node, NEW n \in Node, NodeAdded(q, n)
    PROVE  HouseMoves
  <1>1. CASE house' = house
    BY <1>1 DEF HouseMoves, EntryMoves, RoomMoves
  <1>2. CASE house' = [house EXCEPT ![q] = HouseWith(house[q], q, n)]
    <2> DEFINE g == HouseWith(house[q], q, n)
    <2>1. ~KnownIn(house[q], n)
      BY DEF MemberInv, NodeAdded
    <2>2. /\ g.rooms = house[q].rooms
          /\ g.users[n] = IF n = q THEN Self(q)
                          ELSE [id |-> NoId, room |-> NoRoom]
          /\ \A m \in Node \ {n} : g.users[m] = house[q].users[m]
      BY <2>1, HouseWithUnknown, HouseWithType
    <2> HIDE DEF g
    <2>3. \A b \in Node : house'[b] = IF b = q THEN g ELSE house[b]
      BY <1>2 DEF TypeOK, g
    <2>4. \A b \in Node, x \in Room : RoomMoves(b, x)
      BY <2>2, <2>3 DEF RoomMoves
    <2>5. ASSUME NEW b \in Node, NEW m \in Node
          PROVE  EntryMoves(b, m)
      BY <2>1, <2>2, <2>3 DEF EntryMoves
    <2> QED  BY <2>4, <2>5 DEF HouseMoves
  <1> QED  BY <1>1, <1>2 DEF NodeAdded

LEMMA UserTakenMoves ==
    ASSUME TypeOK, IdInv, MemberInv, NEW q \in Node, NEW p \in Node,
           ReceiveUserUpdate(q, p)
    PROVE  HouseMoves
  <1> DEFINE u == Head(link[p][q]).user
             g == UserUpdate(house[q], p, u)
  <1>1. /\ KnownIn(house[q], p) /\ u \in UserEntry /\ house[q] \in House
        /\ house' = [house EXCEPT ![q] = g] /\ house'[q].users[p] = u
    BY TakenUserListed DEF TypeOK
  <1> HIDE DEF u
  <1>2. /\ \A m \in Node \ {p} : g.users[m] = house[q].users[m]
        /\ \A x \in Room :
              \/ g.rooms[x] = house[q].rooms[x]
              \/ /\ g.rooms[x] = Absent /\ house[q].rooms[x] = p
                 /\ x = house[q].users[p].room
                 /\ u.room # x \/ u.id # house[q].users[p].id
    BY <1>1, UserUpdateType, UpdatedRooms
  <1> HIDE DEF g
  <1>3. \A b \in Node : house'[b] = IF b = q THEN g ELSE house[b]
    BY <1>1 DEF TypeOK
  <1>4. \A b \in Node, m \in Node : EntryMoves(b, m)
    BY <1>1, <1>2, <1>3 DEF EntryMoves, u
  <1>5. ASSUME NEW b \in Node, NEW x \in Room
        PROVE  RoomMoves(b, x)
    <2>1. CASE house'[b].rooms[x] = house[b].rooms[x]
      BY <2>1 DEF RoomMoves
    <2>2. CASE house'[b].rooms[x] # house[b].rooms[x]
      <3>1. /\ b = q /\ house'[q].rooms[x] = Absent /\ house[q].rooms[x] = p
            /\ x = house[q].users[p].room
            /\ u.room # x \/ u.id # house[q].users[p].id
        BY <1>2, <1>3, <2>2
      <3>2. Closes(q, p, x)
        BY <1>1, <3>1 DEF Closes, u
      <3> QED  BY <3>1, <3>2 DEF RoomMoves
    <2> QED  BY <2>1, <2>2
  <1> QED  BY <1>4, <1>5 DEF HouseMoves

LEMMA RoomTakenMoves ==
    ASSUME TypeOK, MemberInv, OpenerInv, NEW q \in Node, NEW p \in Node,
           ReceiveRoomUpdate(q, p)
    PROVE  HouseMoves
  <1> DEFINE r == Head(link[p][q]).room
  <1>1. /\ r \in Room
        /\ house' = [house EXCEPT ![q] = RecvRoomUpdate(house[q], p, r)]
        /\ \A x \in Room \ {r} : house'[q].rooms[x] = house[q].rooms[x]
        /\ house'[q].rooms[r] = p
        /\ house[q].rooms[r] \in {p, Absent}
        /\ house'[q].users = house[q].users
    BY TakenRoomListed
  <1> HIDE DEF r
  <1>2. \A b \in Node \ {q} : house'[b] = house[b]
    BY <1>1 DEF TypeOK
  <1>3. \A b \in Node, m \in Node : EntryMoves(b, m)
    BY <1>1, <1>2 DEF EntryMoves
  <1>4. ASSUME NEW b \in Node, NEW x \in Room
        PROVE  RoomMoves(b, x)
    <2>1. CASE b = q /\ x = r /\ house[q].rooms[r] = Absent
      BY <1>1, <2>1 DEF RoomMoves, r
    <2>2. CASE ~(b = q /\ x = r /\ house[q].rooms[r] = Absent)
      BY <1>1, <1>2, <2>2 DEF RoomMoves
    <2> QED  BY <2>1, <2>2
  <1> QED  BY <1>3, <1>4 DEF HouseMoves

LEMMA NextHouses ==
    ASSUME TypeOK, IdInv, MemberInv, OpenerInv, [Next]_vars
    PROVE  HouseMoves
  <1>1. ASSUME house' = house
        PROVE  HouseMoves
    BY <1>1 DEF HouseMoves, EntryMoves, RoomMoves
  <1>2. ASSUME NEW p \in Node, NEW n \in Node, NodeRemoved(p, n)
        PROVE  HouseMoves
    <2>1. CutOff(p, n)
      BY <1>2 DEF NodeRemoved, CutOff, TypeOK
    <2> QED  BY <1>2, <2>1, RemovedMoves DEF NodeRemoved
  <1>3. ASSUME NEW p \in Node, NEW n \in Node, Block(p, n)
        PROVE  HouseMoves
    <2>1. CutOff(p, n)
      BY <1>3 DEF Block, CutOff, TypeOK
    <2> QED  BY <1>3, <2>1, RemovedMoves DEF Block
  <1>4. ASSUME NEW p \in Node, NEW n \in Node, Receive(p, n)
        PROVE  HouseMoves
    BY <1>1, <1>4, UserTakenMoves, RoomTakenMoves
       DEF Receive, ReceiveFromBlocked, ReceiveUserReq, ReceiveData
  <1>5. ASSUME NEW p \in Node, Crash(p)
        PROVE  HouseMoves
    <2>1. \A b \in Node : house'[b] = IF b = p THEN EmptyHouse ELSE house[b]
      BY <1>5 DEF Crash, TypeOK
    <2>2. \A n \in Node : CutOff(p, n)
      BY <1>5 DEF Crash, CutOff
    <2>3. ASSUME NEW b \in Node, NEW m \in Node
          PROVE  EntryMoves(b, m)
      BY <2>1, <2>2 DEF EntryMoves, EmptyHouse
    <2>4. ASSUME NEW b \in Node, NEW x \in Room
          PROVE  RoomMoves(b, x)
      <3>1. house[b].rooms[x] = Absent \/ house[b].rooms[x] \in Node
        BY DEF OpenerInv
      <3> QED  BY <2>1, <2>2, <3>1 DEF RoomMoves, EmptyHouse
    <2> QED  BY <2>3, <2>4 DEF HouseMoves
  <1>6. ASSUME NEW p \in Node,
               \/ OpenRoomSettings(p) \/ AcceptRoomSettings(p) \/ EnterRoom(p)
               \/ LeaveRoom(p) \/ Refresh(p) \/ Restart(p)
        PROVE  HouseMoves
    BY <1>1, <1>6 DEF OpenRoomSettings, AcceptRoomSettings, EnterRoom,
                      LeaveRoom, Refresh, Restart
  <1>7. CASE UNCHANGED vars
    BY <1>1, <1>7 DEF vars
  <1> QED
    BY <1>2, <1>3, <1>4, <1>5, <1>6, <1>7, AddedMoves DEF Next

-----------------------------------------------------------------------------
(* The parts of the invariant hold on *)

LEMMA NextMembers ==
    ASSUME TypeOK, IdInv, MemberInv, [Next]_vars
    PROVE  MemberInv'
  <1>1. ASSUME UNCHANGED <<member, blocked>>,
               \A q, n \in Node : KnownIn(house'[q], n) <=> KnownIn(house[q], n)
        PROVE  MemberInv'
    BY <1>1 DEF MemberInv
  <1>2. ASSUME NEW p \in Node, NEW n \in Node, NodeAdded(p, n)
        PROVE  MemberInv'
    <2>1. /\ blocked' = blocked
          /\ \A q \in Node : member'[q] = IF q = p THEN member[q] \cup {n}
                                          ELSE member[q]
      BY <1>2 DEF NodeAdded, TypeOK
    <2>2. CASE n \in blocked[p]
      <3>1. house' = house
        BY <1>2, <2>2 DEF NodeAdded, NotBlocked
      <3> QED  BY <2>1, <2>2, <3>1 DEF MemberInv
    <2>3. CASE n \notin blocked[p]
      <3> DEFINE g == HouseWith(house[p], p, n)
      <3>1. /\ KnownIn(g, n)
            /\ \A m \in Node \ {n} : g.users[m] = house[p].users[m]
        <4>1. ~KnownIn(house[p], n)
          BY <1>2 DEF MemberInv, NodeAdded
        <4>2. /\ Self(p) \in UserEntry
              /\ [id |-> NoId, room |-> NoRoom] \in UserEntry
          BY SelfType DEF UserEntry, NoId
        <4> QED
          BY <4>1, <4>2, HouseWithUnknown, HouseWithType, HandlerAssumption
             DEF KnownIn
      <3> HIDE DEF g
      <3>2. \A q \in Node : house'[q] = IF q = p THEN g ELSE house[q]
        BY <1>2, <2>3 DEF NodeAdded, NotBlocked, TypeOK, g
      <3> SUFFICES ASSUME NEW q \in Node, NEW m \in Node
                   PROVE  KnownIn(house'[q], m)
                             <=> m \in member'[q] /\ m \notin blocked'[q]
        BY DEF MemberInv
      <3>3. CASE q = p /\ m = n
        BY <2>1, <2>3, <3>1, <3>2, <3>3
      <3>4. CASE ~(q = p /\ m = n)
        <4>1. /\ KnownIn(house'[q], m) <=> KnownIn(house[q], m)
              /\ m \in member'[q] <=> m \in member[q]
          BY <2>1, <3>1, <3>2, <3>4 DEF KnownIn
        <4> QED  BY <2>1, <4>1 DEF MemberInv
      <3> QED  BY <3>3, <3>4
    <2> QED  BY <2>2, <2>3
  <1>3. ASSUME NEW p \in Node, NEW n \in Node,
               NodeRemoved(p, n) \/ Block(p, n)
        PROVE  MemberInv'
    <2> DEFINE g == NodeRemovedFrom(house[p], n)
    <2>1. /\ ~KnownIn(g, n)
          /\ \A m \in Node \ {n} : g.users[m] = house[p].users[m]
      BY NodeRemovedFromType DEF TypeOK
    <2> HIDE DEF g
    <2>2. \A q \in Node : house'[q] = IF q = p THEN g ELSE house[q]
      BY <1>3 DEF NodeRemoved, Block, TypeOK, g
    <2>3. \A q, m \in Node :
             /\ m \in member'[q] /\ m \notin blocked'[q]
             <=> /\ m \in member[q] /\ m \notin blocked[q]
                 /\ ~(q = p /\ m = n)
      <3>1. CASE NodeRemoved(p, n)
        BY <3>1 DEF NodeRemoved, TypeOK
      <3>2. CASE Block(p, n)
        BY <3>2 DEF Block, TypeOK
      <3> QED  BY <1>3, <3>1, <3>2
    <2>4. \A q, m \in Node :
             KnownIn(house'[q], m) <=> KnownIn(house[q], m)
                                       /\ ~(q = p /\ m = n)
      BY <2>1, <2>2 DEF KnownIn
    <2> QED  BY <2>3, <2>4 DEF MemberInv
  <1>4. ASSUME NEW p \in Node, NEW n \in Node, ReceiveUserUpdate(p, n)
        PROVE  MemberInv'
    <2> DEFINE u == Head(link[n][p]).user
               g == UserUpdate(house[p], n, u)
    <2>1. /\ KnownIn(house[p], n) /\ u \in UserEntry /\ house[p] \in House
          /\ house' = [house EXCEPT ![p] = g]
      BY <1>4, TakenUserListed DEF TypeOK
    <2> HIDE DEF u
    <2>2. KnownIn(g, n) /\ \A m \in Node \ {n} : g.users[m] = house[p].users[m]
      BY <2>1, UserUpdateType
    <2> HIDE DEF g
    <2>3. \A q \in Node : house'[q] = IF q = p THEN g ELSE house[q]
      BY <2>1 DEF TypeOK
    <2> QED
      BY <1>1, <1>4, <2>1, <2>2, <2>3 DEF ReceiveUserUpdate, KnownIn
  <1>5. ASSUME NEW p \in Node, NEW n \in Node, ReceiveRoomUpdate(p, n)
        PROVE  MemberInv'
    <2> DEFINE r == Head(link[n][p]).room
               g == RecvRoomUpdate(house[p], n, r)
    <2>1. r \in Room /\ house[p] \in House
      BY <1>5, HeadType, PduKinds DEF ReceiveRoomUpdate, TypeOK
    <2> HIDE DEF r
    <2>2. g.users = house[p].users
      BY <2>1, RecvRoomUpdateType
    <2> HIDE DEF g
    <2>3. \A q \in Node : house'[q] = IF q = p THEN g ELSE house[q]
      BY <1>5 DEF ReceiveRoomUpdate, TypeOK, g, r
    <2> QED
      BY <1>1, <1>5, <2>2, <2>3 DEF ReceiveRoomUpdate, KnownIn
  <1>6. ASSUME UNCHANGED <<house, member, blocked>>
        PROVE  MemberInv'
    BY <1>1, <1>6
  <1>7. ASSUME NEW p \in Node, NEW n \in Node, Receive(p, n)
        PROVE  MemberInv'
    BY <1>4, <1>5, <1>6, <1>7
       DEF Receive, ReceiveFromBlocked, ReceiveUserReq, ReceiveData
  <1>8. ASSUME NEW p \in Node, Crash(p)
        PROVE  MemberInv'
    <2>1. \A q \in Node : q # p => /\ house'[q] = house[q]
                                   /\ member'[q] = member[q]
                                   /\ blocked'[q] = blocked[q]
      BY <1>8 DEF Crash, TypeOK
    <2>2. member'[p] = {} /\ \A n \in Node : ~KnownIn(house'[p], n)
      BY <1>8 DEF Crash, TypeOK, EmptyHouse, KnownIn
    <2> QED  BY <2>1, <2>2 DEF MemberInv
  <1>9. ASSUME NEW p \in Node,
               \/ OpenRoomSettings(p) \/ AcceptRoomSettings(p) \/ EnterRoom(p)
               \/ LeaveRoom(p) \/ Refresh(p) \/ Restart(p)
        PROVE  MemberInv'
    BY <1>6, <1>9 DEF OpenRoomSettings, AcceptRoomSettings, EnterRoom,
                      LeaveRoom, Refresh, Restart
  <1>10. CASE UNCHANGED vars
    BY <1>6, <1>10 DEF vars
  <1> QED
    BY <1>2, <1>3, <1>7, <1>8, <1>9, <1>10 DEF Next

LEMMA NextDown ==
    ASSUME TypeOK, MemberInv, DownInv, [Next]_vars
    PROVE  DownInv'
  <1> DEFINE NotSent == \A p \in Node : p \notin up' =>
                           /\ selfRoom'[p] = NoRoom /\ missed'[p] = Node
                           /\ \A a \in Node : p \in missed'[a]
             NoneToSelf == \A p \in Node : p \notin member'[p]
                                              => link'[p][p] = <<>>
  <1>0. NotSent /\ NoneToSelf => DownInv'
    BY DEF DownInv
  <1>a. UNCHANGED <<up, selfRoom, missed>> => NotSent
    BY DEF DownInv
  <1>b. UNCHANGED <<member, link>> => NoneToSelf
    BY DEF DownInv
  <1>1. ASSUME NEW p \in Node, NEW n \in Node, NodeAdded(p, n)
        PROVE  DownInv'
    <2>1. UNCHANGED <<up, selfRoom, missed>>
      BY <1>1 DEF NodeAdded
    <2>2. \A q \in Node : member'[q] = IF q = p THEN member[q] \cup {n}
                                       ELSE member[q]
      BY <1>1 DEF NodeAdded, TypeOK
    <2>3. \A q \in Node : ~(q = p /\ n = p) => link'[q][q] = link[q][q]
      BY <1>1 DEF NodeAdded, SendTo, TypeOK
    <2>4. NotSent
      BY <1>a, <2>1
    <2>5. ASSUME NEW q \in Node, q \notin member'[q]
          PROVE  link'[q][q] = <<>>
      <3>1. q \notin member[q] /\ ~(q = p /\ n = p)
        BY <2>2, <2>5
      <3> QED  BY <2>3, <3>1 DEF DownInv
    <2> QED  BY <1>0, <2>4, <2>5
  <1>2. ASSUME NEW p \in Node, NEW n \in Node, NodeRemoved(p, n)
        PROVE  DownInv'
    <2>1. /\ UNCHANGED <<up, selfRoom>>
          /\ \A q \in Node : missed[q] \subseteq missed'[q]
          /\ missed' \in [Node -> SUBSET Node]
      BY <1>2 DEF NodeRemoved, TypeOK
    <2>2. NotSent
      BY <2>1 DEF DownInv, TypeOK
    <2>3. \A q \in Node : /\ link'[q][q] = link[q][q]
                          /\ q \notin member'[q] => q \notin member[q]
      BY <1>2 DEF NodeRemoved, TypeOK
    <2> QED  BY <1>0, <2>2, <2>3 DEF DownInv
  <1>3. ASSUME NEW p \in Node, NEW n \in Node, Receive(p, n)
        PROVE  DownInv'
    <2>1. /\ UNCHANGED <<up, selfRoom, member>> /\ p \in up
          /\ n \in member[p] /\ link[n][p] # <<>>
      BY <1>3 DEF Receive, ReceiveFromBlocked, ReceiveUserReq, ReceiveData,
                  ReceiveUserUpdate, ReceiveRoomUpdate, Receivable
    <2>2. \/ missed' = missed
          \/ missed' = [missed EXCEPT ![p] = @ \ ({n} \cap up)]
      BY <1>3 DEF Receive, ReceiveFromBlocked, ReceiveUserReq, ReceiveData,
                  ReceiveUserUpdate, ReceiveRoomUpdate
    <2>3. NotSent
      <3>1. \A a \in Node : \/ missed'[a] = missed[a]
                            \/ missed'[a] = missed[a] \ ({n} \cap up)
        BY <2>2 DEF TypeOK
      <3>2. \A a \in Node, q \in Node : q \notin up =>
               /\ q \in missed'[a] <=> q \in missed[a]
               /\ q # p
        BY <2>1, <3>1
      <3>3. \A q \in Node : q # p => missed'[q] = missed[q]
        BY <2>2 DEF TypeOK
      <3> QED  BY <2>1, <3>2, <3>3 DEF DownInv
    <2>4. \A q \in Node : q # p \/ n # p => Taken(p, n)[q][q] = link[q][q]
      BY DEF Taken, TypeOK
    <2>5. Taken(p, n) \in Links
      <3>1. Tail(link[n][p]) \in Seq(Pdu)
        BY <2>1, HeadTailProperties DEF TypeOK
      <3> QED  BY <3>1 DEF Taken, Links, TypeOK
    <2>6. \A q \in Node : q # p \/ n # p => link'[q][q] = link[q][q]
      BY <1>3, <2>4, <2>5
         DEF Receive, ReceiveFromBlocked, ReceiveUserReq, ReceiveData, SendTo,
             ReceiveUserUpdate, ReceiveRoomUpdate, Links
    <2> QED  BY <1>0, <2>1, <2>3, <2>6 DEF DownInv
  <1>4. ASSUME NEW p \in Node, NEW n \in Node, Block(p, n)
        PROVE  DownInv'
    <2>1. UNCHANGED <<up, selfRoom, missed, member>>
      BY <1>4 DEF Block
    <2>2. \A q \in Node : link'[q][q] = link[q][q]
      BY <1>4 DEF Block, SendTo, TypeOK
    <2> QED  BY <1>0, <1>a, <2>1, <2>2 DEF DownInv
  <1>5. ASSUME NEW p \in Node, p \in up, NEW m, Announce(p, m),
               UNCHANGED <<up, member>>,
               \A q \in Node \ {p} : selfRoom'[q] = selfRoom[q]
        PROVE  DownInv'
    <2>1. \A q \in Node : /\ missed[q] \subseteq missed'[q]
                          /\ missed'[q] \subseteq Node
      BY <1>5 DEF Announce, TypeOK
    <2>2. ASSUME NEW q \in Node, q \notin up'
          PROVE  /\ selfRoom'[q] = NoRoom /\ missed'[q] = Node
                 /\ \A a \in Node : q \in missed'[a]
      <3>1. q # p /\ q \notin up
        BY <1>5, <2>2
      <3>2. /\ selfRoom[q] = NoRoom /\ missed[q] = Node
            /\ \A a \in Node : q \in missed[a]
        BY <3>1 DEF DownInv
      <3> QED  BY <1>5, <2>1, <3>1, <3>2
    <2>3. \A q \in Node : q \notin member[q] => link'[q][q] = link[q][q]
      BY <1>5 DEF Announce, Broadcast, TypeOK
    <2> QED  BY <1>0, <1>5, <2>2, <2>3 DEF DownInv
  <1>6. ASSUME NEW p \in Node, NEW r \in Room \cup {NoRoom}, p \in up,
               UpdateUser(p, r), UNCHANGED <<up, member>>
        PROVE  DownInv'
    <2>1. \A q \in Node \ {p} : selfRoom'[q] = selfRoom[q]
      BY <1>6 DEF UpdateUser, TypeOK
    <2> QED  BY <1>5, <1>6, <2>1 DEF UpdateUser
  <1>7. ASSUME NEW p \in Node,
               OpenRoomSettings(p) \/ EnterRoom(p) \/ LeaveRoom(p)
        PROVE  DownInv'
    <2>1. /\ p \in up /\ UNCHANGED <<up, member>>
          /\ \E r \in Room \cup {NoRoom} : UpdateUser(p, r)
      BY <1>7 DEF OpenRoomSettings, EnterRoom, LeaveRoom
    <2> QED  BY <1>6, <2>1
  <1>8. ASSUME NEW p \in Node, AcceptRoomSettings(p)
        PROVE  DownInv'
    BY <1>5, <1>8 DEF AcceptRoomSettings
  <1>9. ASSUME NEW p \in Node, Refresh(p)
        PROVE  DownInv'
    <2>1. UNCHANGED <<up, selfRoom, missed, member>>
      BY <1>9 DEF Refresh
    <2>2. \A q \in Node : q \notin member[q] => link'[q][q] = link[q][q]
      BY <1>9 DEF Refresh, TypeOK, MemberInv
    <2> QED  BY <1>0, <1>a, <2>1, <2>2 DEF DownInv
  <1>10. ASSUME NEW p \in Node, Crash(p)
         PROVE  DownInv'
    <2>1. /\ up' = up \ {p} /\ selfRoom'[p] = NoRoom /\ missed'[p] = Node
          /\ \A q \in Node \ {p} : /\ selfRoom'[q] = selfRoom[q]
                                   /\ missed'[q] = missed[q] \cup {p}
                                   /\ member'[q] = member[q]
                                   /\ link'[q][q] = link[q][q]
          /\ link'[p][p] = <<>>
      BY <1>10 DEF Crash, TypeOK
    <2>2. NotSent
      <3>1. ASSUME NEW q \in Node, q \notin up', q # p
            PROVE  /\ selfRoom'[q] = NoRoom /\ missed'[q] = Node
                   /\ \A a \in Node : q \in missed'[a]
        <4>1. /\ selfRoom[q] = NoRoom /\ missed[q] = Node
              /\ \A a \in Node : q \in missed[a]
          BY <2>1, <3>1 DEF DownInv
        <4>2. missed'[q] = Node \cup {p} /\ selfRoom'[q] = NoRoom
          BY <2>1, <3>1, <4>1
        <4>3. ASSUME NEW a \in Node
              PROVE  q \in missed'[a]
          <5>1. CASE a = p
            BY <2>1, <5>1
          <5>2. CASE a # p
            BY <2>1, <4>1, <5>2
          <5> QED  BY <5>1, <5>2
        <4> QED  BY <4>2, <4>3
      <3>2. \A a \in Node : p \in missed'[a]
        BY <2>1
      <3> QED  BY <2>1, <3>1, <3>2
    <2>3. NoneToSelf
      BY <2>1 DEF DownInv
    <2> QED  BY <1>0, <2>2, <2>3
  <1>11. ASSUME NEW p \in Node, Restart(p)
         PROVE  DownInv'
    BY <1>0, <1>b, <1>11 DEF Restart, DownInv
  <1>12. CASE UNCHANGED vars
    BY <1>0, <1>a, <1>b, <1>12 DEF vars
  <1> QED
    BY <1>1, <1>2, <1>3, <1>4, <1>7, <1>8, <1>9, <1>10, <1>11, <1>12 DEF Next

\* Who opened a room stays the one who did.
LEMMA OpenersStay ==
    ASSUME TypeOK, [Next]_vars, NEW r \in Room, opener[r] # NoNode
    PROVE  opener'[r] = opener[r]
  <1>1. ASSUME NEW p \in Node, OpenRoomSettings(p)
        PROVE  opener'[r] = opener[r]
    BY <1>1 DEF OpenRoomSettings, TypeOK
  <1>2. ASSUME NEW p \in Node, NEW n \in Node, Receive(p, n)
        PROVE  opener' = opener
    BY <1>2 DEF Receive, ReceiveFromBlocked, ReceiveUserReq, ReceiveData,
                ReceiveUserUpdate, ReceiveRoomUpdate
  <1> QED
    BY <1>1, <1>2
       DEF Next, vars, NodeAdded, NodeRemoved, Block, AcceptRoomSettings,
           EnterRoom, LeaveRoom, Refresh, Crash, Restart

\* What changes the own user of p.
OwnUserMoves(p) ==
    \/ /\ selfRoom'[p] = selfRoom[p] /\ inc'[p] = inc[p]
       /\ hosted'[p] = hosted[p]
    \/ AcceptRoomSettings(p) \/ Crash(p) \/ Restart(p)
    \/ OpenRoomSettings(p) \/ EnterRoom(p) \/ LeaveRoom(p)

LEMMA NextOwnUser ==
    ASSUME TypeOK, [Next]_vars, NEW p \in Node
    PROVE  OwnUserMoves(p)
  <1>1. ASSUME UNCHANGED <<selfRoom, inc, hosted>>
        PROVE  OwnUserMoves(p)
    BY <1>1 DEF OwnUserMoves
  <1>2. ASSUME NEW q \in Node, NEW n \in Node, Receive(q, n)
        PROVE  OwnUserMoves(p)
    BY <1>1, <1>2 DEF Receive, ReceiveFromBlocked, ReceiveUserReq, ReceiveData,
                      ReceiveUserUpdate, ReceiveRoomUpdate
  <1>3. ASSUME NEW q \in Node, NEW n \in Node,
               NodeAdded(q, n) \/ NodeRemoved(q, n) \/ Block(q, n)
        PROVE  OwnUserMoves(p)
    BY <1>1, <1>3 DEF NodeAdded, NodeRemoved, Block
  <1>4. ASSUME NEW q \in Node, q # p,
               \/ OpenRoomSettings(q) \/ AcceptRoomSettings(q) \/ EnterRoom(q)
               \/ LeaveRoom(q) \/ Crash(q) \/ Restart(q)
        PROVE  OwnUserMoves(p)
    <2>1. CASE OpenRoomSettings(q) \/ EnterRoom(q) \/ LeaveRoom(q)
      <3>1. /\ \E r \in Room \cup {NoRoom} : UpdateUser(q, r)
            /\ UNCHANGED <<inc, hosted>>
        BY <2>1 DEF OpenRoomSettings, EnterRoom, LeaveRoom
      <3>2. selfRoom'[p] = selfRoom[p]
        BY <1>4, <3>1 DEF UpdateUser, TypeOK
      <3> QED  BY <3>1, <3>2 DEF OwnUserMoves
    <2>2. CASE AcceptRoomSettings(q) \/ Crash(q)
      BY <1>4, <2>2 DEF AcceptRoomSettings, Crash, TypeOK, OwnUserMoves
    <2>3. CASE Restart(q)
      BY <1>4, <2>3 DEF Restart, TypeOK, OwnUserMoves
    <2> QED  BY <1>4, <2>1, <2>2, <2>3
  <1>5. ASSUME NEW q \in Node, Refresh(q)
        PROVE  OwnUserMoves(p)
    BY <1>1, <1>5 DEF Refresh
  <1>6. CASE UNCHANGED vars
    BY <1>1, <1>6 DEF vars
  <1> QED
    BY <1>2, <1>3, <1>4, <1>5, <1>6 DEF Next, OwnUserMoves

\* A PDU of a link was on it before, or is sent in this step.
LEMMA LinkElement ==
    ASSUME TypeOK, LinksMove, NEW a \in Node, NEW b \in Node,
           NEW i \in 1..Len(link'[a][b])
    PROVE  \/ \E j \in 1..Len(link[a][b]) : link'[a][b][i] = link[a][b][j]
           \/ Sends(link'[a][b][i], a)
  <1> DEFINE s == link[a][b]
             t == link'[a][b]
  <1>1. Len(s) \in Nat
    BY DEF TypeOK
  <1>2. ASSUME NEW k \in {0, 1}, Follows(t, s, k, a)
        PROVE  (\E j \in 1..Len(s) : t[i] = s[j]) \/ Sends(t[i], a)
    <2> HIDE DEF s, t
    <2> USE DEF t
    <2>1. CASE i <= Len(s) - k
      <3>1. i + k \in 1..Len(s) /\ t[i] = s[i + k]
        BY <1>1, <1>2, <2>1 DEF Follows
      <3> QED  BY <3>1
    <2> QED  BY <1>1, <1>2, <2>1 DEF Follows
  <1>3. CASE t = <<>>
    BY <1>3
  <1> HIDE DEF s, t
  <1> QED  BY <1>2, <1>3 DEF LinksMove, s, t

LEMMA NextOpeners ==
    ASSUME TypeOK, TypeOK', IdInv, MemberInv, OpenerInv, [Next]_vars
    PROVE  OpenerInv'
  <1>1. LinksMove /\ HouseMoves
    BY NextLinks, NextHouses
  <1>2. \A r \in Room : opener[r] \in Node => opener'[r] = opener[r]
    BY OpenersStay, HandlerAssumption
  <1>3. \A r \in Room \cup {NoRoom} :
           Opened(r) => r = NoRoom \/ opener'[r] \in Node
    BY <1>2 DEF Opened
  <1>4. ASSUME NEW p \in Node
        PROVE  /\ hosted'[p] # NoRoom => opener'[hosted'[p]] = p
               /\ selfRoom'[p] = NoRoom \/ opener'[selfRoom'[p]] \in Node
    <2>1. /\ hosted[p] \in Room \cup {NoRoom}
          /\ selfRoom[p] \in Room \cup {NoRoom}
          /\ hosted[p] # NoRoom => opener[hosted[p]] = p
          /\ Opened(selfRoom[p])
      BY DEF TypeOK, OpenerInv
    <2>2. /\ hosted[p] # NoRoom => opener'[hosted[p]] = p
          /\ selfRoom[p] = NoRoom \/ opener'[selfRoom[p]] \in Node
      BY <1>2, <1>3, <2>1
    <2>3. CASE selfRoom'[p] = selfRoom[p] /\ hosted'[p] = hosted[p]
      BY <2>2, <2>3
    <2>4. CASE AcceptRoomSettings(p)
      BY <2>2, <2>4 DEF AcceptRoomSettings, TypeOK
    <2>5. CASE Crash(p)
      BY <2>5 DEF Crash, TypeOK
    <2>6. CASE OpenRoomSettings(p)
      <3>1. PICK r \in Room : /\ opener' = [opener EXCEPT ![r] = p]
                              /\ UpdateUser(p, r) /\ hosted' = hosted
        BY <2>6 DEF OpenRoomSettings
      <3>2. selfRoom'[p] = r /\ opener'[r] = p
        BY <3>1 DEF UpdateUser, TypeOK
      <3> QED  BY <2>2, <3>1, <3>2
    <2>7. CASE EnterRoom(p)
      <3>1. PICK r \in Room : /\ ListedIn(house[p], r)
                              /\ UpdateUser(p, r) /\ hosted' = hosted
        BY <2>7 DEF EnterRoom
      <3>2. selfRoom'[p] = r
        BY <3>1 DEF UpdateUser, TypeOK
      <3>3. opener[r] \in Node
        BY <3>1 DEF OpenerInv, ListedIn
      <3> QED  BY <1>2, <2>2, <3>1, <3>2, <3>3
    <2>8. CASE LeaveRoom(p)
      <3>1. selfRoom'[p] = NoRoom /\ hosted' = hosted
        BY <2>8 DEF LeaveRoom, UpdateUser, TypeOK
      <3> QED  BY <2>2, <3>1
    <2>9. CASE Restart(p)
      BY <2>2, <2>9 DEF Restart
    <2> QED
      BY <2>3, <2>4, <2>5, <2>6, <2>7, <2>8, <2>9, NextOwnUser
         DEF OwnUserMoves
  <1>5. ASSUME NEW p \in Node, NEW q \in Node, NEW i \in 1..Len(link'[p][q])
        PROVE  LET m == link'[p][q][i]
               IN  /\ m.kind = "user" => \/ m.user.room = NoRoom
                                         \/ opener'[m.user.room] \in Node
                   /\ m.kind = "room" => opener'[m.room] = p
    <2> DEFINE m == link'[p][q][i]
    <2>1. m \in Pdu
      BY DEF TypeOK
    <2>2. CASE Sends(m, p)
      <3>1. m.kind = "user" => m.user.room = selfRoom'[p]
        BY <2>2 DEF Sends
      <3> QED  BY <1>4, <2>2, <3>1 DEF Sends
    <2>3. CASE \E j \in 1..Len(link[p][q]) : m = link[p][q][j]
      <3>1. /\ m.kind = "user" => Opened(m.user.room)
            /\ m.kind = "room" => opener[m.room] = p
        BY <2>3 DEF OpenerInv
      <3>2. /\ m.kind = "user" => m.user.room \in Room \cup {NoRoom}
            /\ m.kind = "room" => m.room \in Room
        BY <2>1, PduKinds DEF UserEntry
      <3> HIDE DEF m
      <3>3. /\ m.kind = "user" => \/ m.user.room = NoRoom
                                  \/ opener'[m.user.room] \in Node
            /\ m.kind = "room" => opener'[m.room] = p
        BY <1>2, <1>3, <3>1, <3>2
      <3> QED  BY <3>3 DEF m
    <2> QED  BY <1>1, <2>2, <2>3, LinkElement
  <1>6. ASSUME NEW p \in Node, NEW q \in Node, KnownIn(house'[q], p)
        PROVE  LET r == house'[q].users[p].room
               IN  r = NoRoom \/ opener'[r] \in Node
    <2>1. CASE house'[q].users[p] = house[q].users[p]
      <3>1. /\ Opened(house[q].users[p].room)
            /\ house[q].users[p] \in UserEntry
        BY <1>6, <2>1 DEF OpenerInv, KnownIn, TypeOK, House
      <3> QED  BY <1>3, <2>1, <3>1 DEF UserEntry
    <2>2. CASE /\ ReceiveUserUpdate(q, p)
               /\ house'[q].users[p] = Head(link[p][q]).user
      <3> DEFINE s == link[p][q]
      <3>1. /\ s \in Seq(Pdu) /\ s # <<>> /\ Head(s).kind = "user"
            /\ Receivable(q, p)
        BY <2>2 DEF ReceiveUserUpdate, Receivable, TypeOK
      <3>2. Head(s) = s[1] /\ 1 \in 1..Len(s) /\ s[1] \in Pdu
        BY <3>1, HeadTailProperties, EmptySeq
      <3>3. /\ Opened(Head(s).user.room)
            /\ Head(s).user \in UserEntry
        BY <3>1, <3>2, PduKinds DEF OpenerInv
      <3> QED  BY <1>3, <2>2, <3>3 DEF UserEntry
    <2>3. CASE /\ NodeAdded(q, p)
               /\ house'[q].users[p] = IF p = q THEN Self(p)
                                       ELSE [id |-> NoId, room |-> NoRoom]
      <3>1. selfRoom' = selfRoom
        BY <2>3 DEF NodeAdded
      <3> QED  BY <1>4, <2>3, <3>1 DEF Self
    <2> QED
      BY <1>1, <1>6, <2>1, <2>2, <2>3 DEF HouseMoves, EntryMoves, KnownIn
  <1>7. ASSUME NEW q \in Node, NEW r \in Room, house'[q].rooms[r] # Absent
        PROVE  /\ house'[q].rooms[r] = opener'[r]
               /\ opener'[r] \in Node
    <2>1. CASE house'[q].rooms[r] = house[q].rooms[r]
      BY <1>2, <1>7, <2>1 DEF OpenerInv
    <2>2. ASSUME NEW p \in Node, ReceiveRoomUpdate(q, p),
                 r = Head(link[p][q]).room, house'[q].rooms[r] = p
          PROVE  house'[q].rooms[r] = opener'[r] /\ opener'[r] \in Node
      <3>1. opener[r] = p
        BY <2>2, TakenRoomListed
      <3> QED  BY <1>2, <2>2, <3>1
    <2> QED  BY <1>1, <1>7, <2>1, <2>2 DEF HouseMoves, RoomMoves
  <1> QED
    BY <1>4, <1>5, <1>6, <1>7 DEF OpenerInv, Opened

-----------------------------------------------------------------------------
(* Nobody who is in his own room was listed as being in it by an earlier    *)
(* start, or leaves it again in what is under way                           *)

Own(p) == selfRoom[p] # NoRoom /\ opener[selfRoom[p]] = p

\* User PDUs of s that name r carry this id, and only such follow them.
StaysIn(s, r, id) ==
    \A i \in 1..Len(s) :
        (s[i].kind = "user" /\ s[i].user.room = r)
        => /\ s[i].user.id = id
           /\ \A j \in i..Len(s) : s[j].kind = "user" => s[j].user.room = r

AllIn(s, r) == \A i \in 1..Len(s) : s[i].kind = "user" => s[i].user.room = r

OwnInv ==
    \A p, q \in Node : Own(p) =>
        /\ StaysIn(link[p][q], selfRoom[p], inc[p])
        /\ (/\ KnownIn(house[q], p)
            /\ house[q].users[p].room = selfRoom[p])
           => /\ house[q].users[p].id = inc[p]
              /\ AllIn(link[p][q], selfRoom[p])

LEMMA FollowsStaysIn ==
    ASSUME NEW s \in Seq(Pdu), NEW t, NEW k \in {0, 1}, NEW a,
           Follows(t, s, k, a)
    PROVE  /\ StaysIn(s, selfRoom'[a], inc'[a])
                => StaysIn(t, selfRoom'[a], inc'[a])
           /\ AllIn(s, selfRoom'[a]) => AllIn(t, selfRoom'[a])
  <1> DEFINE r == selfRoom'[a]
  <1>1. Len(s) \in Nat /\ Len(t) \in Nat
    BY DEF Follows
  <1>2. \A i \in 1..Len(t) :
           IF i <= Len(s) - k THEN t[i] = s[i + k] /\ i + k \in 1..Len(s)
           ELSE t[i].kind = "user"
                => t[i].user.room = r /\ t[i].user.id = inc'[a]
    BY <1>1 DEF Follows, Sends
  <1>3. ASSUME AllIn(s, r)
        PROVE  AllIn(t, r)
    BY <1>1, <1>2, <1>3 DEF AllIn
  <1>4. ASSUME StaysIn(s, r, inc'[a]),
               NEW i \in 1..Len(t), t[i].kind = "user", t[i].user.room = r
        PROVE  /\ t[i].user.id = inc'[a]
               /\ \A j \in i..Len(t) : t[j].kind = "user" => t[j].user.room = r
    <2>1. t[i].user.id = inc'[a]
      BY <1>1, <1>2, <1>4 DEF StaysIn
    <2>2. ASSUME NEW j \in i..Len(t), t[j].kind = "user"
          PROVE  t[j].user.room = r
      <3>1. CASE j <= Len(s) - k
        <4>1. /\ i \in 1..Len(t) /\ j \in 1..Len(t) /\ i <= j
              /\ i <= Len(s) - k
          BY <1>1, <3>1
        <4>2. /\ t[i] = s[i + k] /\ t[j] = s[j + k]
              /\ i + k \in 1..Len(s) /\ j + k \in (i + k)..Len(s)
          BY <1>1, <1>2, <3>1, <4>1
        <4> QED  BY <1>4, <2>2, <4>2 DEF StaysIn
      <3>2. CASE ~(j <= Len(s) - k)
        BY <1>1, <1>2, <2>2, <3>2
      <3> QED  BY <3>1, <3>2
    <2> QED  BY <2>1, <2>2
  <1>5. StaysIn(s, r, inc'[a]) => StaysIn(t, r, inc'[a])
    BY <1>4 DEF StaysIn
  <1> QED  BY <1>3, <1>5

\* Who is in his own room next was in it, or opens it now.
LEMMA NextOwn ==
    ASSUME TypeOK, DownInv, [Next]_vars, NEW p \in Node, Own(p)'
    PROVE  \/ /\ Own(p) /\ selfRoom'[p] = selfRoom[p] /\ inc'[p] = inc[p]
           \/ /\ opener[selfRoom'[p]] = NoNode /\ house' = house
              /\ inc' = inc /\ selfRoom'[p] \in Room
  <1>0. /\ selfRoom'[p] # NoRoom /\ opener'[selfRoom'[p]] = p
    BY DEF Own
  <1>1. ASSUME selfRoom'[p] = selfRoom[p], inc'[p] = inc[p], opener' = opener
        PROVE  Own(p)
    BY <1>0, <1>1 DEF Own
  <1>2. CASE OpenRoomSettings(p)
    <2>1. PICK r \in Room : opener[r] = NoNode /\ UpdateUser(p, r)
      BY <1>2 DEF OpenRoomSettings
    <2>2. selfRoom'[p] = r
      BY <2>1 DEF UpdateUser, TypeOK
    <2> QED  BY <1>2, <2>1, <2>2 DEF OpenRoomSettings
  <1>3. CASE EnterRoom(p)
    <2>1. PICK r \in Room : opener[r] # p /\ UpdateUser(p, r)
      BY <1>3 DEF EnterRoom
    <2>2. selfRoom'[p] = r /\ opener' = opener
      BY <1>3, <2>1 DEF UpdateUser, EnterRoom, TypeOK
    <2> QED  BY <1>0, <2>1, <2>2
  <1>4. CASE LeaveRoom(p)
    BY <1>0, <1>4 DEF LeaveRoom, UpdateUser, TypeOK
  <1>5. CASE Crash(p)
    BY <1>0, <1>5 DEF Crash, TypeOK
  <1>6. CASE Restart(p)
    BY <1>0, <1>6 DEF Restart, DownInv
  <1>7. CASE AcceptRoomSettings(p)
    BY <1>1, <1>7 DEF AcceptRoomSettings
  <1>8. CASE ~OpenRoomSettings(p) /\ selfRoom'[p] = selfRoom[p]
             /\ inc'[p] = inc[p]
    <2>1. selfRoom[p] \in Room
      BY <1>0, <1>8 DEF TypeOK
    <2>2. opener[selfRoom[p]] # NoNode
          => opener'[selfRoom[p]] = opener[selfRoom[p]]
      BY <2>1, OpenersStay
    <2>3. ASSUME opener[selfRoom[p]] = NoNode
          PROVE  FALSE
      <3>1. opener' # opener
        BY <1>0, <1>8, <2>3, HandlerAssumption
      <3>2. PICK q \in Node : OpenRoomSettings(q)
        BY <3>1
           DEF Next, vars, NodeAdded, NodeRemoved, Block, AcceptRoomSettings,
               EnterRoom, LeaveRoom, Refresh, Crash, Restart, Receive,
               ReceiveFromBlocked, ReceiveUserReq, ReceiveData,
               ReceiveUserUpdate, ReceiveRoomUpdate
      <3>3. q # p
        BY <1>8, <3>2
      <3>4. PICK r \in Room : opener' = [opener EXCEPT ![r] = q]
        BY <3>2 DEF OpenRoomSettings
      <3>5. opener'[selfRoom[p]] \in {q, NoNode}
        BY <2>1, <2>3, <3>4 DEF TypeOK
      <3> QED  BY <1>0, <1>8, <3>3, <3>5, HandlerAssumption
    <2> QED  BY <1>0, <1>8, <2>2, <2>3 DEF Own
  <1> QED
    BY <1>2, <1>3, <1>4, <1>5, <1>6, <1>7, <1>8, NextOwnUser
       DEF OwnUserMoves

\* A room nobody had opened is named nowhere.
LEMMA UnopenedUnnamed ==
    ASSUME TypeOK, OpenerInv, NEW r \in Room, opener[r] = NoNode,
           NEW p \in Node, NEW q \in Node
    PROVE  /\ \A i \in 1..Len(link[p][q]) :
                 link[p][q][i].kind = "user" => link[p][q][i].user.room # r
           /\ KnownIn(house[q], p) => house[q].users[p].room # r
  BY HandlerAssumption DEF OpenerInv, Opened

LEMMA NextOwnRooms ==
    ASSUME TypeOK, IdInv, MemberInv, DownInv, OpenerInv, OwnInv, [Next]_vars
    PROVE  OwnInv'
  <1> SUFFICES ASSUME NEW p \in Node, NEW q \in Node, Own(p)'
               PROVE  /\ StaysIn(link'[p][q], selfRoom'[p], inc'[p])
                      /\ (/\ KnownIn(house'[q], p)
                          /\ house'[q].users[p].room = selfRoom'[p])
                         => /\ house'[q].users[p].id = inc'[p]
                            /\ AllIn(link'[p][q], selfRoom'[p])
    BY DEF OwnInv
  <1> DEFINE s == link[p][q]
             t == link'[p][q]
             r == selfRoom'[p]
  <1>1. LinksMove /\ HouseMoves
    BY NextLinks, NextHouses
  <1>2. s \in Seq(Pdu)
    BY DEF TypeOK
  <1>3. /\ StaysIn(s, r, inc'[p]) => StaysIn(t, r, inc'[p])
        /\ AllIn(s, r) => AllIn(t, r)
    <2>1. CASE \E k \in {0, 1} : Follows(t, s, k, p)
      BY <1>2, <2>1, FollowsStaysIn
    <2>2. CASE t = <<>>
      BY <2>2 DEF StaysIn, AllIn
    <2> QED  BY <1>1, <2>1, <2>2 DEF LinksMove
  <1>4. CASE /\ opener[r] = NoNode /\ house' = house
             /\ inc' = inc /\ r \in Room
    <2>1. /\ \A i \in 1..Len(s) : s[i].kind = "user" => s[i].user.room # r
          /\ KnownIn(house[q], p) => house[q].users[p].room # r
      BY <1>4, UnopenedUnnamed
    <2>2. StaysIn(s, r, inc'[p])
      BY <2>1 DEF StaysIn
    <2> QED  BY <1>3, <1>4, <2>1, <2>2
  <1>5. CASE Own(p) /\ r = selfRoom[p] /\ inc'[p] = inc[p]
    <2>1. /\ StaysIn(s, r, inc'[p])
          /\ (KnownIn(house[q], p) /\ house[q].users[p].room = r)
             => house[q].users[p].id = inc'[p] /\ AllIn(s, r)
      BY <1>5 DEF OwnInv
    <2>2. ASSUME KnownIn(house'[q], p), house'[q].users[p].room = r
          PROVE  house'[q].users[p].id = inc'[p] /\ AllIn(t, r)
      <3>1. CASE house'[q].users[p] = house[q].users[p]
        BY <1>3, <2>1, <2>2, <3>1 DEF KnownIn
      <3>2. CASE /\ ReceiveUserUpdate(q, p)
                 /\ house'[q].users[p] = Head(s).user
        <4>1. s # <<>> /\ Head(s).kind = "user"
          BY <3>2 DEF ReceiveUserUpdate, Receivable
        <4>2. Head(s) = s[1] /\ 1 \in 1..Len(s)
          BY <1>2, <4>1, HeadTailProperties, EmptySeq
        <4>3. s[1].user.id = inc'[p] /\ AllIn(s, r)
          BY <2>1, <2>2, <3>2, <4>1, <4>2 DEF StaysIn, AllIn
        <4> QED  BY <1>3, <3>2, <4>2, <4>3
      <3>3. CASE /\ NodeAdded(q, p)
                 /\ house'[q].users[p] = IF p = q THEN Self(p)
                                         ELSE [id |-> NoId, room |-> NoRoom]
        <4>1. r # NoRoom
          BY DEF Own
        <4>2. p = q /\ house'[q].users[p] = Self(p)
          BY <2>2, <3>3, <4>1
        <4>3. s = <<>>
          BY <3>3, <4>2 DEF NodeAdded, DownInv
        <4>4. AllIn(s, r)
          BY <4>3 DEF AllIn
        <4> QED  BY <1>3, <1>5, <4>2, <4>4 DEF Self
      <3> QED
        BY <1>1, <2>2, <3>1, <3>2, <3>3 DEF HouseMoves, EntryMoves, KnownIn
    <2> QED  BY <1>3, <2>1, <2>2
  <1> QED  BY <1>4, <1>5, NextOwn

-----------------------------------------------------------------------------
(* Whoever was sent a peer's state has it listed, or will have it when he   *)
(* has taken what is under way                                              *)

NoUser(s) == \A i \in 1..Len(s) : s[i].kind # "user"

\* The last user PDU of s, if any, carries u.
LastUserIs(s, u) ==
    \A i \in 1..Len(s) :
        (s[i].kind = "user" /\ \A j \in (i + 1)..Len(s) : s[j].kind # "user")
        => s[i].user = u

HasRoom(s, r) == \E i \in 1..Len(s) : s[i] = RoomPdu(r)

SentInv ==
    \A p, q \in Node : (q \notin missed[p] /\ p \notin blocked[q]) =>
        /\ LastUserIs(link[p][q], Self(p))
        /\ NoUser(link[p][q]) => house[q].users[p] = Self(p)
        /\ (selfRoom[p] # NoRoom /\ selfRoom[p] = hosted[p])
           => house[q].rooms[hosted[p]] = p \/ HasRoom(link[p][q], hosted[p])

LEMMA FollowsLast ==
    ASSUME NEW s \in Seq(Pdu), NEW t, NEW k \in {0, 1}, NEW a,
           Follows(t, s, k, a),
           LastUserIs(s, [id |-> inc'[a], room |-> selfRoom'[a]])
    PROVE  LastUserIs(t, [id |-> inc'[a], room |-> selfRoom'[a]])
  <1> DEFINE u == [id |-> inc'[a], room |-> selfRoom'[a]]
  <1>1. Len(s) \in Nat /\ Len(t) \in Nat /\ Len(s) - k <= Len(t)
    BY DEF Follows
  <1>2. \A i \in 1..Len(t) :
           IF i <= Len(s) - k THEN t[i] = s[i + k] /\ i + k \in 1..Len(s)
           ELSE t[i].kind = "user" => t[i].user = u
    BY <1>1 DEF Follows, Sends
  <1> HIDE DEF u
  <1>3. ASSUME NEW i \in 1..Len(t), t[i].kind = "user",
               \A j \in (i + 1)..Len(t) : t[j].kind # "user"
        PROVE  t[i].user = u
    <2>1. CASE i <= Len(s) - k
      <3>1. ASSUME NEW j \in (i + k + 1)..Len(s)
            PROVE  s[j].kind # "user"
        <4>1. /\ j - k \in (i + 1)..Len(t) /\ j - k \in 1..Len(t)
              /\ j - k <= Len(s) - k /\ (j - k) + k = j
          BY <1>1
        <4>2. t[j - k] = s[j]
          BY <1>2, <4>1
        <4> QED  BY <1>3, <4>1, <4>2
      <3>2. t[i] = s[i + k] /\ i + k \in 1..Len(s)
        BY <1>2, <2>1
      <3> QED  BY <1>3, <3>1, <3>2 DEF LastUserIs, u
    <2>2. CASE ~(i <= Len(s) - k)
      BY <1>2, <1>3, <2>2
    <2> QED  BY <2>1, <2>2
  <1>4. LastUserIs(t, u)
    BY <1>3 DEF LastUserIs
  <1> QED  BY <1>4 DEF u

LEMMA FollowsNoUser ==
    ASSUME NEW s \in Seq(Pdu), NEW t, NEW k \in {0, 1}, NEW a,
           Follows(t, s, k, a), NoUser(t)
    PROVE  \A i \in (k + 1)..Len(s) : s[i].kind # "user"
  <1> SUFFICES ASSUME NEW i \in (k + 1)..Len(s)
               PROVE  s[i].kind # "user"
    OBVIOUS
  <1>1. /\ Len(s) \in Nat /\ Len(t) \in Nat
        /\ i - k \in 1..Len(t) /\ i - k <= Len(s) - k /\ (i - k) + k = i
    BY DEF Follows
  <1>2. t[i - k] = s[i]
    BY <1>1 DEF Follows
  <1> QED  BY <1>1, <1>2 DEF NoUser

LEMMA FollowsHasRoom ==
    ASSUME NEW s \in Seq(Pdu), NEW t, NEW k \in {0, 1}, NEW a,
           Follows(t, s, k, a), NEW r, HasRoom(s, r)
    PROVE  HasRoom(t, r) \/ (k = 1 /\ s[1] = RoomPdu(r))
  <1>1. PICK i \in 1..Len(s) : s[i] = RoomPdu(r)
    BY DEF HasRoom
  <1>2. CASE i <= k
    BY <1>1, <1>2
  <1>3. CASE ~(i <= k)
    <2>1. /\ Len(s) \in Nat /\ Len(t) \in Nat
          /\ i - k \in 1..Len(t) /\ i - k <= Len(s) - k /\ (i - k) + k = i
      BY <1>3 DEF Follows
    <2>2. t[i - k] = s[i]
      BY <2>1 DEF Follows
    <2> QED  BY <1>1, <2>1, <2>2 DEF HasRoom
  <1> QED  BY <1>2, <1>3

\* Only a request of q makes up for what he was not sent.
LEMMA MissedStays ==
    ASSUME TypeOK, [Next]_vars, NEW p \in Node, NEW q \in Node,
           q \in missed[p], q \notin missed'[p]
    PROVE  ReceiveUserReq(p, q) /\ q \in up
  <1>1. ASSUME NEW a \in Node, NEW n \in Node, ReceiveUserReq(a, n)
        PROVE  ReceiveUserReq(p, q) /\ q \in up
    <2>1. missed' = [missed EXCEPT ![a] = @ \ ({n} \cap up)]
      BY <1>1 DEF ReceiveUserReq
    <2>2. a = p /\ n = q /\ q \in up
      BY <2>1 DEF TypeOK
    <2> QED  BY <1>1, <2>2
  <1>2. ASSUME NEW a \in Node, NEW n \in Node, NodeRemoved(a, n)
        PROVE  FALSE
    BY <1>2 DEF NodeRemoved, TypeOK
  <1>3. ASSUME NEW a \in Node, NEW m, Announce(a, m)
        PROVE  FALSE
    BY <1>3 DEF Announce, TypeOK
  <1>4. ASSUME NEW a \in Node,
               \/ OpenRoomSettings(a) \/ AcceptRoomSettings(a) \/ EnterRoom(a)
               \/ LeaveRoom(a)
        PROVE  FALSE
    BY <1>3, <1>4 DEF OpenRoomSettings, AcceptRoomSettings, EnterRoom,
                      LeaveRoom, UpdateUser
  <1>5. ASSUME NEW a \in Node, Crash(a)
        PROVE  FALSE
    BY <1>5 DEF Crash, TypeOK
  <1> QED
    BY <1>1, <1>2, <1>4, <1>5
       DEF Next, vars, NodeAdded, Block, Refresh, Restart, Receive,
           ReceiveFromBlocked, ReceiveData, ReceiveUserUpdate,
           ReceiveRoomUpdate

\* A crash of q alone unblocks an address, and then q was sent nothing.
LEMMA BlockedStays ==
    ASSUME TypeOK, [Next]_vars, NEW p \in Node, NEW q \in Node,
           p \in blocked[q], q \notin missed'[p]
    PROVE  p \in blocked'[q]
  <1>1. ASSUME NEW a \in Node, NEW n \in Node, Block(a, n)
        PROVE  p \in blocked'[q]
    BY <1>1 DEF Block, TypeOK
  <1>2. ASSUME NEW a \in Node, Crash(a)
        PROVE  p \in blocked'[q]
    <2>1. a # q
      BY <1>2 DEF Crash, TypeOK
    <2> QED  BY <1>2, <2>1 DEF Crash, TypeOK
  <1> QED
    BY <1>1, <1>2
       DEF Next, vars, NodeAdded, NodeRemoved, Receive, Refresh, Restart,
           ReceiveFromBlocked, ReceiveUserReq, ReceiveData, ReceiveUserUpdate,
           ReceiveRoomUpdate, OpenRoomSettings, AcceptRoomSettings, EnterRoom,
           LeaveRoom

\* What has to hold next of the link from p to q and of what q lists.
Told(p, q) ==
    LET u == [id |-> inc'[p], room |-> selfRoom'[p]]
        r == hosted'[p]
        t == link'[p][q]
    IN  /\ LastUserIs(t, u)
        /\ NoUser(t) => house'[q].users[p] = u
        /\ (selfRoom'[p] # NoRoom /\ selfRoom'[p] = r)
           => house'[q].rooms[r] = p \/ HasRoom(t, r)

\* An answer makes up for everything.
LEMMA AnsweredTold ==
    ASSUME TypeOK, OpenerInv, NEW p \in Node, NEW q \in Node,
           ReceiveUserReq(p, q), q \in up
    PROVE  Told(p, q)
  <1> DEFINE k == Taken(p, q)
             s == k[p][q]
             t == Answer(p)
             u == Self(p)
             l == link'[p][q]
  <1>1. UNCHANGED <<inc, selfRoom, hosted, opener>> /\ Receivable(p, q)
    BY DEF ReceiveUserReq
  <1>2. /\ t \in Seq(Pdu) /\ Len(t) \in {1, 2} /\ t[1] = UserPdu(u)
        /\ (selfRoom[p] # NoRoom /\ selfRoom[p] = hosted[p])
              => Len(t) = 2 /\ t[2] = RoomPdu(hosted[p])
        /\ \A i \in 1..Len(t) : Sends(t[i], p)
    BY <1>1, AnswerSends
  <1>3. k \in Links /\ s \in Seq(Pdu) /\ Len(s) \in Nat
    <2>1. k \in Links
      BY <1>1, HeadType
    <2> HIDE DEF k
    <2> QED  BY <2>1 DEF Links
  <1>4. l = s \o t
    <2>1. link' = SendTo(k, p, q, t)
      BY DEF ReceiveUserReq
    <2> HIDE DEF k, t
    <2> QED  BY <1>3, <2>1 DEF SendTo, Links
  <1> HIDE DEF k, s, t, l
  <1>5. /\ Len(l) = Len(s) + Len(t)
        /\ \A i \in 1..Len(l) : i > Len(s) => l[i] = t[i - Len(s)]
    BY <1>2, <1>3, <1>4, ConcatProperties
  <1>6. /\ Len(s) + 1 \in 1..Len(l) /\ l[Len(s) + 1].kind = "user"
        /\ l[Len(s) + 1] = UserPdu(u)
    BY <1>2, <1>3, <1>5 DEF UserPdu
  <1>7. ~NoUser(l)
    BY <1>6 DEF NoUser
  <1>8. u = [id |-> inc'[p], room |-> selfRoom'[p]]
    BY <1>1 DEF Self
  <1>9. LastUserIs(l, u)
    <2> SUFFICES ASSUME NEW i \in 1..Len(l), l[i].kind = "user",
                        \A j \in (i + 1)..Len(l) : l[j].kind # "user"
                 PROVE  l[i].user = u
      BY DEF LastUserIs
    <2>1. i > Len(s)
      BY <1>3, <1>5, <1>6
    <2>2. i - Len(s) \in 1..Len(t) /\ l[i] = t[i - Len(s)]
      BY <1>2, <1>3, <1>5, <2>1
    <2> QED  BY <1>2, <1>8, <2>2 DEF Sends
  <1>10. (selfRoom[p] # NoRoom /\ selfRoom[p] = hosted[p])
         => HasRoom(l, hosted[p])
    <2> SUFFICES ASSUME Len(t) = 2, t[2] = RoomPdu(hosted[p])
                 PROVE  HasRoom(l, hosted[p])
      BY <1>2
    <2>1. Len(s) + 2 \in 1..Len(l) /\ l[Len(s) + 2] = RoomPdu(hosted[p])
      BY <1>3, <1>5
    <2> QED  BY <2>1 DEF HasRoom
  <1> QED  BY <1>1, <1>7, <1>8, <1>9, <1>10 DEF Told, l

\* So does the broadcast of a user who moves, for those it is sent to.
LEMMA MovedTold ==
    ASSUME TypeOK, OpenerInv, DownInv, NEW p \in Node, NEW q \in Node,
           q \notin missed[p], q \notin missed'[p],
           NEW r \in Room \cup {NoRoom}, UpdateUser(p, r),
           UNCHANGED <<inc, hosted>>,
           r = NoRoom \/ r # hosted[p]
    PROVE  Told(p, q)
  <1> DEFINE s == link[p][q]
             t == link'[p][q]
             u == [id |-> inc[p], room |-> r]
  <1>1. q \in member[p] /\ q \in up
    BY DEF UpdateUser, Announce, TypeOK, DownInv
  <1>2. selfRoom'[p] = r
    BY DEF UpdateUser, TypeOK
  <1>3. s \in Seq(Pdu) /\ t = Append(s, UserPdu(u))
    <2> DEFINE m == UserPdu(u)
    <2>1. Sends(m, p) /\ link' = Broadcast(link, p, m)
      BY UpdateUserSends
    <2> HIDE DEF m
    <2>2. t = IF p = p /\ q \in member[p] \cap up THEN Append(s, m) ELSE s
      BY <2>1, BroadcastLinks
    <2> QED  BY <1>1, <2>2 DEF TypeOK, m
  <1> HIDE DEF s, t, u
  <1>4. /\ Len(s) \in Nat /\ Len(t) = Len(s) + 1
        /\ t[Len(t)] = UserPdu(u)
    BY <1>3, AppendProperties
  <1>5. UserPdu(u).kind = "user" /\ UserPdu(u).user = u
    BY DEF UserPdu
  <1>6. LastUserIs(t, u)
    <2> SUFFICES ASSUME NEW i \in 1..Len(t), t[i].kind = "user",
                        \A j \in (i + 1)..Len(t) : t[j].kind # "user"
                 PROVE  t[i].user = u
      BY DEF LastUserIs
    <2>1. i = Len(t)
      BY <1>4, <1>5
    <2> QED  BY <1>4, <1>5, <2>1
  <1>7. ~NoUser(t)
    BY <1>4, <1>5 DEF NoUser
  <1>8. u = [id |-> inc'[p], room |-> selfRoom'[p]]
    BY <1>2 DEF u
  <1> QED  BY <1>2, <1>6, <1>7, <1>8 DEF Told, t

\* The broadcast of a room tells of it.
LEMMA RoomTold ==
    ASSUME TypeOK, DownInv, SentInv, NEW p \in Node, NEW q \in Node,
           q \notin missed[p], q \notin missed'[p], p \notin blocked[q],
           AcceptRoomSettings(p)
    PROVE  Told(p, q)
  <1> DEFINE s == link[p][q]
             t == link'[p][q]
             m == RoomPdu(selfRoom[p])
  <1>1. q \in member[p] /\ q \in up
    BY DEF AcceptRoomSettings, Announce, TypeOK, DownInv
  <1>2. /\ UNCHANGED <<inc, selfRoom, house, opener>>
        /\ hosted'[p] = selfRoom[p] /\ selfRoom[p] \in Room
        /\ opener[selfRoom[p]] = p
    BY DEF AcceptRoomSettings, TypeOK
  <1>3. Sends(m, p)
    BY <1>2, PduType DEF Sends, RoomPdu
  <1>4. s \in Seq(Pdu) /\ t = Append(s, m)
    <2>1. link' = Broadcast(link, p, m)
      BY DEF AcceptRoomSettings, Announce
    <2> HIDE DEF m
    <2>2. t = IF p = p /\ q \in member[p] \cap up THEN Append(s, m) ELSE s
      BY <1>3, <2>1, BroadcastLinks
    <2> QED  BY <1>1, <2>2 DEF TypeOK
  <1>5. Follows(t, s, 0, p)
    <2> HIDE DEF m, t
    <2> QED  BY <1>3, <1>4, FollowsAppended
  <1>6. /\ LastUserIs(s, Self(p))
        /\ NoUser(s) => house[q].users[p] = Self(p)
    BY DEF SentInv
  <1>7. Self(p) = [id |-> inc'[p], room |-> selfRoom'[p]]
    BY <1>2 DEF Self
  <1> HIDE DEF s, t, m
  <1>8. LastUserIs(t, Self(p))
    BY <1>4, <1>5, <1>6, <1>7, FollowsLast
  <1>9. NoUser(t) => NoUser(s)
    BY <1>4, <1>5, FollowsNoUser DEF NoUser
  <1>10. HasRoom(t, hosted'[p])
    <2>1. Len(t) \in 1..Len(t) /\ t[Len(t)] = m
      BY <1>4, AppendProperties
    <2> QED  BY <1>2, <2>1 DEF HasRoom, m
  <1> QED  BY <1>2, <1>6, <1>7, <1>8, <1>9, <1>10 DEF Told, t

\* While p's own state stays, those it was sent to take it, and keep it.
LEMMA KeptTold ==
    ASSUME TypeOK, IdInv, MemberInv, OpenerInv, OwnInv, SentInv, [Next]_vars,
           NEW p \in Node, NEW q \in Node,
           q \notin missed[p], q \notin missed'[p],
           p \notin blocked[q], p \notin blocked'[q],
           selfRoom'[p] = selfRoom[p], inc'[p] = inc[p], hosted'[p] = hosted[p]
    PROVE  Told(p, q)
  <1> DEFINE s == link[p][q]
             t == link'[p][q]
             u == Self(p)
             r == hosted[p]
  <1>1. /\ LinksMove /\ EntryMoves(q, p) /\ \A x \in Room : RoomMoves(q, x)
        /\ ~CutOff(q, p)
    BY NextLinks, NextHouses DEF HouseMoves, CutOff
  <1>2. /\ s \in Seq(Pdu) /\ Len(s) \in Nat /\ r \in Room \cup {NoRoom}
        /\ u = [id |-> inc'[p], room |-> selfRoom'[p]]
    BY DEF TypeOK, Self
  <1>3. /\ LastUserIs(s, u)
        /\ NoUser(s) => house[q].users[p] = u
        /\ (selfRoom[p] # NoRoom /\ selfRoom[p] = r)
              => house[q].rooms[r] = p \/ HasRoom(s, r)
    BY DEF SentInv
  <1>4. PICK k \in {0, 1} :
           /\ Follows(t, s, k, p)
           /\ k = 1 => Receive(q, p) /\ s # <<>>
    BY <1>1 DEF LinksMove, CutOff
  <1>5. s # <<>> => Head(s) = s[1] /\ 1 \in 1..Len(s)
    BY <1>2, HeadTailProperties, EmptySeq
  <1>6. Receive(q, p) => /\ s # <<>> /\ p \in member[q]
                         /\ s[1].kind = "user" => ReceiveUserUpdate(q, p)
                         /\ s[1].kind = "room" => ReceiveRoomUpdate(q, p)
    BY <1>5 DEF Receive, ReceiveFromBlocked, ReceiveUserReq, ReceiveUserUpdate,
                ReceiveRoomUpdate, ReceiveData, Receivable, NotBlocked
  <1>7. LastUserIs(t, u)
    <2> HIDE DEF s, t, u, r
    <2> QED  BY <1>2, <1>3, <1>4, FollowsLast
  <1>8. ASSUME NoUser(t)
        PROVE  house'[q].users[p] = u
    <2>1. \A i \in (k + 1)..Len(s) : s[i].kind # "user"
      <3> HIDE DEF s, t
      <3> QED  BY <1>2, <1>4, <1>8, FollowsNoUser
    <2>2. CASE s # <<>> /\ s[1].kind = "user"
      <3>1. k = 1 /\ ReceiveUserUpdate(q, p)
        BY <1>4, <1>5, <1>6, <2>1, <2>2
      <3>2. s[1].user = u
        <4>1. \A j \in 2..Len(s) : s[j].kind # "user"
          BY <2>1, <3>1
        <4> HIDE DEF s, u
        <4> QED  BY <1>3, <1>5, <2>2, <4>1 DEF LastUserIs
      <3> QED  BY <1>5, <2>2, <3>1, <3>2, TakenUserListed
    <2>3. CASE ~(s # <<>> /\ s[1].kind = "user")
      <3>1. NoUser(s)
        <4>1. \A i \in 1..Len(s) : i = 1 \/ i \in (k + 1)..Len(s)
          BY <1>2
        <4>2. ASSUME NEW i \in 1..Len(s)
              PROVE  s[i].kind # "user"
          <5>1. s # <<>>
            BY <1>2, <4>2, EmptySeq
          <5> QED  BY <2>1, <2>3, <4>1, <4>2, <5>1
        <4> QED  BY <4>2 DEF NoUser
      <3>2. house[q].users[p] = u /\ KnownIn(house[q], p)
        <4>1. u \in UserEntry
          BY SelfType
        <4> QED  BY <1>3, <3>1, <4>1, HandlerAssumption DEF KnownIn
      <3>3. ~ReceiveUserUpdate(q, p)
        BY <1>5, <2>3 DEF ReceiveUserUpdate, Receivable
      <3> QED  BY <1>1, <3>2, <3>3 DEF EntryMoves
    <2> QED  BY <2>2, <2>3
  <1>9. ASSUME selfRoom[p] # NoRoom, selfRoom[p] = r
        PROVE  house'[q].rooms[r] = p \/ HasRoom(t, r)
    <2>1. /\ r \in Room /\ opener[r] = p /\ Own(p)
      BY <1>2, <1>9 DEF OpenerInv, Own
    <2>2. CASE house[q].rooms[r] = p
      <3>1. p # Absent /\ p \in Node
        BY HandlerAssumption
      <3>2. ~Closes(q, p, r)
        <4> SUFFICES ASSUME ReceiveUserUpdate(q, p), KnownIn(house[q], p),
                            r = house[q].users[p].room
                     PROVE  /\ Head(s).user.room = r
                            /\ Head(s).user.id = house[q].users[p].id
          BY DEF Closes
        <4>1. s # <<>> /\ Head(s).kind = "user"
          BY DEF ReceiveUserUpdate, Receivable
        <4>2. /\ house[q].users[p].id = inc[p] /\ AllIn(s, r)
              /\ StaysIn(s, r, inc[p])
          BY <1>9, <2>1 DEF OwnInv
        <4>3. s[1].kind = "user" /\ Head(s) = s[1] /\ 1 \in 1..Len(s)
          BY <1>5, <4>1
        <4>4. s[1].user.room = r
          BY <4>2, <4>3 DEF AllIn
        <4>5. s[1].user.id = inc[p]
          BY <4>2, <4>3, <4>4 DEF StaysIn
        <4> QED  BY <4>2, <4>3, <4>4, <4>5
      <3> QED  BY <1>1, <2>1, <2>2, <3>1, <3>2 DEF RoomMoves
    <2>3. CASE HasRoom(s, r)
      <3>1. HasRoom(t, r) \/ (k = 1 /\ s[1] = RoomPdu(r))
        <4> HIDE DEF s, t, r
        <4> QED  BY <1>2, <1>4, <2>3, FollowsHasRoom
      <3>2. CASE k = 1 /\ s[1] = RoomPdu(r)
        <4>1. ReceiveRoomUpdate(q, p) /\ Head(s).room = r
          BY <1>4, <1>5, <1>6, <3>2 DEF RoomPdu
        <4> QED  BY <4>1, TakenRoomListed
      <3> QED  BY <3>1, <3>2
    <2> QED  BY <1>3, <1>9, <2>2, <2>3
  <1> HIDE DEF s, t, u, r
  <1>10. hosted'[p] = r
    BY DEF r
  <1>11. (selfRoom'[p] # NoRoom /\ selfRoom'[p] = r)
         => house'[q].rooms[r] = p \/ HasRoom(t, r)
    BY <1>9
  <1> QED  BY <1>2, <1>7, <1>8, <1>10, <1>11 DEF Told, t

LEMMA NextSent ==
    ASSUME TypeOK, IdInv, MemberInv, DownInv, OpenerInv, OwnInv, SentInv,
           [Next]_vars
    PROVE  SentInv'
  <1>1. ASSUME NEW p \in Node, NEW q \in Node,
               q \notin missed'[p], p \notin blocked'[q]
        PROVE  Told(p, q)
    <2>1. p \notin blocked[q]
      BY <1>1, BlockedStays
    <2>2. CASE q \in missed[p]
      BY <1>1, <2>2, MissedStays, AnsweredTold
    <2>3. CASE q \notin missed[p]
      <3>1. p \in up
        BY <2>3 DEF DownInv
      <3>2. CASE Crash(p) \/ Restart(p)
        BY <1>1, <3>1, <3>2 DEF Crash, Restart, TypeOK
      <3>3. CASE AcceptRoomSettings(p)
        BY <1>1, <2>1, <2>3, <3>3, RoomTold
      <3>4. CASE OpenRoomSettings(p) \/ EnterRoom(p) \/ LeaveRoom(p)
        <4>1. hosted[p] # NoRoom => opener[hosted[p]] = p
          BY DEF OpenerInv
        <4>2. PICK r \in Room \cup {NoRoom} :
                 UpdateUser(p, r) /\ (r = NoRoom \/ opener[r] # p)
          BY <3>4, HandlerAssumption
             DEF OpenRoomSettings, EnterRoom, LeaveRoom
        <4>3. r = NoRoom \/ r # hosted[p]
          BY <4>1, <4>2
        <4>4. UNCHANGED <<inc, hosted>>
          BY <3>4 DEF OpenRoomSettings, EnterRoom, LeaveRoom
        <4> QED  BY <1>1, <2>3, <4>2, <4>3, <4>4, MovedTold
      <3>5. CASE /\ selfRoom'[p] = selfRoom[p] /\ inc'[p] = inc[p]
                 /\ hosted'[p] = hosted[p]
        BY <1>1, <2>1, <2>3, <3>5, KeptTold
      <3> QED
        BY <3>2, <3>3, <3>4, <3>5, NextOwnUser DEF OwnUserMoves
    <2> QED  BY <2>2, <2>3
  <1> QED  BY <1>1 DEF SentInv, Told, Self

-----------------------------------------------------------------------------
(* The theorem *)

LobbyInv == /\ IdInv
            /\ MemberInv
            /\ DownInv
            /\ OpenerInv
            /\ OwnInv
            /\ SentInv

LEMMA InitLobbyInv == Init => LobbyInv
  <1> SUFFICES ASSUME Init
               PROVE  LobbyInv
    OBVIOUS
  <1>1. /\ up = Node
        /\ \A p \in Node : /\ selfRoom[p] = NoRoom /\ hosted[p] = NoRoom
                           /\ member[p] = {} /\ missed[p] = Node
        /\ \A p, q \in Node : /\ link[p][q] = <<>>
                              /\ ~KnownIn(house[q], p)
        /\ \A q \in Node, r \in Room : house[q].rooms[r] = Absent
    BY DEF Init, EmptyHouse, KnownIn
  <1>2. IdInv
    BY InitIds
  <1>3. MemberInv /\ DownInv
    BY <1>1 DEF MemberInv, DownInv
  <1>4. OpenerInv
    BY <1>1 DEF OpenerInv, Opened
  <1>5. OwnInv
    BY <1>1 DEF OwnInv, Own
  <1>6. SentInv
    BY <1>1 DEF SentInv
  <1> QED  BY <1>2, <1>3, <1>4, <1>5, <1>6 DEF LobbyInv

LEMMA NextLobbyInv ==
    ASSUME TypeOK, TypeOK', LobbyInv, [Next]_vars
    PROVE  LobbyInv'
  <1>1. IdInv /\ MemberInv /\ DownInv /\ OpenerInv /\ OwnInv /\ SentInv
    BY DEF LobbyInv
  <1> QED
    BY <1>1, NextIds, NextMembers, NextDown, NextOpeners, NextOwnRooms,
       NextSent DEF LobbyInv

\* Whoever was sent a peer's present state and has taken what was under way
\* lists him with his present id and room, and the room he hosts as his: in
\* every lobby, with any number of faults (UpToDate).
THEOREM SentIsListed == Spec => []UpToDate
  <1>1. TypeOK /\ LobbyInv => UpToDate
    <2> SUFFICES ASSUME LobbyInv, NEW p \in Node, NEW q \in Node,
                        q \notin missed[p], p \notin blocked[q],
                        link[p][q] = <<>>
                 PROVE  /\ house[q].users[p] = Self(p)
                        /\ (selfRoom[p] # NoRoom /\ selfRoom[p] = hosted[p])
                              => house[q].rooms[hosted[p]] = p
      BY DEF UpToDate
    <2>1. NoUser(link[p][q]) /\ ~HasRoom(link[p][q], hosted[p])
      BY DEF NoUser, HasRoom
    <2> QED  BY <2>1 DEF LobbyInv, SentInv
  <1>2. Init => LobbyInv
    BY InitLobbyInv
  <1>3. TypeOK /\ TypeOK' /\ LobbyInv /\ [Next]_vars => LobbyInv'
    BY NextLobbyInv
  <1> QED  BY <1>1, <1>2, <1>3, TypeCorrect, PTL DEF Spec
=============================================================================
