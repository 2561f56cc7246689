-------------------------- MODULE GroupLobby_proofs --------------------------
(* Theorems about GroupHandler and GroupLobby, for every set of nodes, every *)
(* set of rooms and every bound.                                             *)
EXTENDS GroupLobby, SequenceTheorems, TLAPS

-----------------------------------------------------------------------------
(* The operators of the handler keep the shape of the house. *)

\* Closing a room changes the list of rooms only.
LEMMA RoomClosedUpdateType ==
    ASSUME NEW h \in House, NEW n \in Node, NEW r
    PROVE  /\ RoomClosedUpdate(h, n, r) \in House
           /\ RoomClosedUpdate(h, n, r).users = h.users
  BY HandlerAssumption
     DEF House, RoomClosedUpdate, RoomErase, WithRoom, ListedIn

\* user_erased drops no entry itself.
LEMMA UserErasedType ==
    ASSUME NEW h \in House, NEW n \in Node
    PROVE  /\ UserErased(h, n) \in House
           /\ UserErased(h, n).users = h.users
  BY RoomClosedUpdateType DEF UserErased

\* node_added enters n with nothing known of him.
LEMMA UserInsertType ==
    ASSUME NEW h \in House, NEW n \in Node
    PROVE  /\ UserInsert(h, n) \in House
           /\ KnownIn(UserInsert(h, n), n)
           /\ UserInsert(h, n).rooms = h.rooms
           /\ \A m \in Node \ {n} : UserInsert(h, n).users[m] = h.users[m]
           /\ KnownIn(h, n) => UserInsert(h, n) = h
  BY HandlerAssumption
     DEF House, UserInsert, WithUser, KnownIn, UserEntry, NoId

\* node_removed drops the entry of n and no other.
LEMMA NodeRemovedFromType ==
    ASSUME NEW h \in House, NEW n \in Node
    PROVE  /\ NodeRemovedFrom(h, n) \in House
           /\ ~KnownIn(NodeRemovedFrom(h, n), n)
           /\ \A m \in Node \ {n} :
                 NodeRemovedFrom(h, n).users[m] = h.users[m]
  <1> DEFINE e == UserErased(h, n)
  <1>1. e \in House /\ e.users = h.users
    BY UserErasedType
  <1> HIDE DEF e
  <1>2. /\ UserErase(e, n) \in House
        /\ ~KnownIn(UserErase(e, n), n)
        /\ \A m \in Node \ {n} : UserErase(e, n).users[m] = h.users[m]
    BY <1>1 DEF House, UserErase, WithUser, KnownIn
  <1> QED
    BY <1>2 DEF NodeRemovedFrom, e, KnownIn

\* user_update changes the entry of n and no other.
LEMMA UserUpdateType ==
    ASSUME NEW h \in House, NEW n \in Node, NEW u \in UserEntry, KnownIn(h, n)
    PROVE  /\ UserUpdate(h, n, u) \in House
           /\ KnownIn(UserUpdate(h, n, u), n)
           /\ UserUpdate(h, n, u).users[n].room = u.room
           /\ \A m \in Node \ {n} :
                 UserUpdate(h, n, u).users[m] = h.users[m]
  <1> DEFINE b == BeforeRoomCheck(h, n, u)
             c == IF LeavesRoom(h, n, u)
                  THEN RoomClosedUpdate(b, n, h.users[n].room) ELSE b
             e == [id   |-> IF u.id = NoId THEN h.users[n].id ELSE u.id,
                   room |-> u.room]
  <1>1. b \in House /\ b.users = h.users
    BY UserErasedType DEF BeforeRoomCheck
  <1>2. c \in House /\ c.users = h.users
    <2> HIDE DEF b
    <2> QED  BY <1>1, RoomClosedUpdateType
  <1>3. e \in UserEntry
    BY DEF UserEntry, House, KnownIn
  <1>4. UserUpdate(h, n, u) = WithUser(c, n, e)
    BY DEF UserUpdate
  <1>5. e.room = u.room
    OBVIOUS
  <1> HIDE DEF c, e
  <1> QED
    BY <1>2, <1>3, <1>4, <1>5, HandlerAssumption DEF House, KnownIn, WithUser

\* A room update touches no user.
LEMMA RecvRoomUpdateType ==
    ASSUME NEW h \in House, NEW n \in Node, NEW r \in Room
    PROVE  /\ RecvRoomUpdate(h, n, r) \in House
           /\ RecvRoomUpdate(h, n, r).users = h.users
  BY DEF House, RecvRoomUpdate, ListedIn, WithRoom

-----------------------------------------------------------------------------
(* Sending keeps the links sequences of PDUs. *)

Links == [Node -> [Node -> Seq(Pdu)]]

LEMMA SendToType ==
    ASSUME NEW l \in Links, NEW p \in Node, NEW q \in Node,
           NEW pdus \in Seq(Pdu)
    PROVE  SendTo(l, p, q, pdus) \in Links
  BY DEF SendTo, Links

LEMMA BroadcastType ==
    ASSUME NEW l \in Links, NEW p \in Node, NEW pdu \in Pdu
    PROVE  Broadcast(l, p, pdu) \in Links
  BY DEF Broadcast, Links

LEMMA SelfType ==
    ASSUME TypeOK, NEW p \in Node
    PROVE  Self(p) \in UserEntry /\ Self(p).room = selfRoom[p]
  BY DEF TypeOK, Self, UserEntry

LEMMA PduType ==
    /\ Req \in Pdu /\ BlockedPdu \in Pdu
    /\ \A u \in UserEntry : UserPdu(u) \in Pdu
    /\ \A r \in Room : RoomPdu(r) \in Pdu
  BY DEF Pdu, Req, BlockedPdu, UserPdu, RoomPdu

LEMMA AnswerType ==
    ASSUME TypeOK, NEW p \in Node
    PROVE  Answer(p) \in Seq(Pdu)
  <1>1. UserPdu(Self(p)) \in Pdu
    BY SelfType, PduType
  <1>2. selfRoom[p] # NoRoom /\ selfRoom[p] = hosted[p]
          => RoomPdu(hosted[p]) \in Pdu
    BY PduType DEF TypeOK
  <1> QED  BY <1>1, <1>2 DEF Answer

\* What the head of a link is when its kind is known.
LEMMA HeadType ==
    ASSUME TypeOK, NEW p \in Node, NEW n \in Node, Receivable(p, n)
    PROVE  /\ Taken(p, n) \in Links
           /\ Head(link[n][p]) \in Pdu
  BY DEF TypeOK, Receivable, Taken, Links

LEMMA PduKinds ==
    ASSUME NEW m \in Pdu
    PROVE  /\ m.kind = "user" => m.user \in UserEntry
           /\ m.kind = "room" => m.room \in Room
  BY DEF Pdu, Req, BlockedPdu

\* Who is listed after the group announced n to p.
LEMMA HouseWithType ==
    ASSUME TypeOK, NEW p \in Node, NEW n \in Node
    PROVE  LET h == HouseWith(house[p], p, n)
           IN  /\ h \in House
               /\ \A m \in Node \ {n} : h.users[m] = house[p].users[m]
  <1> DEFINE i == UserInsert(house[p], n)
  <1>1. house[p] \in House
    BY DEF TypeOK
  <1>2. /\ i \in House /\ KnownIn(i, n)
        /\ \A m \in Node \ {n} : i.users[m] = house[p].users[m]
    BY <1>1, UserInsertType
  <1> HIDE DEF i
  <1>3. /\ UserUpdate(i, n, Self(p)) \in House
        /\ \A m \in Node \ {n} :
              UserUpdate(i, n, Self(p)).users[m] = i.users[m]
    BY <1>2, SelfType, UserUpdateType
  <1> QED  BY <1>2, <1>3 DEF HouseWith, i

LEMMA RecvUserUpdateType ==
    ASSUME NEW h \in House, NEW n \in Node, NEW u \in UserEntry
    PROVE  /\ RecvUserUpdate(h, n, u) \in House
           /\ \A m \in Node \ {n} :
                 RecvUserUpdate(h, n, u).users[m] = h.users[m]
  BY UserUpdateType DEF RecvUserUpdate

-----------------------------------------------------------------------------
(* Type correctness *)

LEMMA EmptyHouseType == EmptyHouse \in House
  BY DEF EmptyHouse, House

LEMMA InitTypeOK == Init => TypeOK
  BY EmptyHouseType DEF Init, TypeOK, FirstId

LEMMA UpdateUserType ==
    ASSUME TypeOK, NEW p \in Node, NEW r \in Room \cup {NoRoom},
           UpdateUser(p, r)
    PROVE  /\ selfRoom' \in [Node -> Room \cup {NoRoom}]
           /\ link' \in Links
           /\ missed' \in [Node -> SUBSET Node]
  <1> DEFINE u == [id |-> inc[p], room |-> r]
  <1>1. UserPdu(u) \in Pdu
    BY PduType DEF TypeOK, UserEntry
  <1>2. link' \in Links
    BY <1>1, BroadcastType DEF UpdateUser, Announce, TypeOK, Links
  <1> QED  BY <1>2 DEF TypeOK, UpdateUser, Announce

LEMMA NextTypeOK ==
    ASSUME TypeOK, [Next]_vars
    PROVE  TypeOK'
  <1> USE DEF TypeOK
  <1>1. ASSUME NEW p \in Node, NEW n \in Node, NodeAdded(p, n)
        PROVE  TypeOK'
    <2>1. HouseWith(house[p], p, n) \in House
      BY HouseWithType
    <2>2. house' \in [Node -> House]
      BY <1>1, <2>1 DEF NodeAdded
    <2>3. link \in Links /\ <<Req>> \in Seq(Pdu)
      BY PduType DEF Links
    <2>4. link' \in Links
      <3>1. SendTo(link, p, n, <<Req>>) \in Links
        BY <2>3, SendToType
      <3> QED  BY <1>1, <2>3, <3>1 DEF NodeAdded
    <2> QED  BY <1>1, <2>2, <2>4 DEF NodeAdded, Links
  <1>2. ASSUME NEW p \in Node, NEW n \in Node, NodeRemoved(p, n)
        PROVE  TypeOK'
    <2>1. house' \in [Node -> House]
      BY <1>2, NodeRemovedFromType DEF NodeRemoved
    <2>2. link' \in Links
      BY <1>2 DEF NodeRemoved, Links
    <2> QED  BY <1>2, <2>1, <2>2 DEF NodeRemoved, Links
  <1>3. ASSUME NEW p \in Node, NEW n \in Node, Receive(p, n)
        PROVE  TypeOK'
    <2>1. CASE ReceiveFromBlocked(p, n) \/ ReceiveData(p, n)
      <3>1. link' \in Links
        BY <2>1, HeadType DEF ReceiveFromBlocked, ReceiveData
      <3> QED  BY <2>1, <3>1 DEF ReceiveFromBlocked, ReceiveData, Links
    <2>2. CASE ReceiveUserReq(p, n)
      <3>1. link' \in Links
        BY <2>2, HeadType, AnswerType, SendToType DEF ReceiveUserReq
      <3> QED  BY <2>2, <3>1 DEF ReceiveUserReq, Links
    <2>3. CASE ReceiveUserUpdate(p, n)
      <3>1. link' \in Links
        BY <2>3, HeadType DEF ReceiveUserUpdate
      <3>2. Head(link[n][p]).user \in UserEntry
        BY <2>3, HeadType, PduKinds DEF ReceiveUserUpdate
      <3>3. house' \in [Node -> House]
        BY <2>3, <3>2, RecvUserUpdateType DEF ReceiveUserUpdate
      <3> QED  BY <2>3, <3>1, <3>3 DEF ReceiveUserUpdate, Links
    <2>4. CASE ReceiveRoomUpdate(p, n)
      <3>1. link' \in Links
        BY <2>4, HeadType DEF ReceiveRoomUpdate
      <3>2. Head(link[n][p]).room \in Room
        BY <2>4, HeadType, PduKinds DEF ReceiveRoomUpdate
      <3>3. house' \in [Node -> House]
        BY <2>4, <3>2, RecvRoomUpdateType DEF ReceiveRoomUpdate
      <3> QED  BY <2>4, <3>1, <3>3 DEF ReceiveRoomUpdate, Links
    <2> QED  BY <1>3, <2>1, <2>2, <2>3, <2>4 DEF Receive
  <1>4. ASSUME NEW p \in Node, NEW n \in Node, Block(p, n)
        PROVE  TypeOK'
    <2>1. house' \in [Node -> House]
      BY <1>4, NodeRemovedFromType DEF Block
    <2>2. link \in Links /\ <<BlockedPdu>> \in Seq(Pdu)
      BY PduType DEF Links
    <2>3. link' \in Links
      BY <1>4, <2>2, SendToType DEF Block
    <2>4. blocked' \in [Node -> SUBSET Node] /\ faults' \in Nat
      BY <1>4 DEF Block
    <2> QED  BY <1>4, <2>1, <2>3, <2>4 DEF Block, Links
  <1>5. ASSUME NEW p \in Node, OpenRoomSettings(p)
        PROVE  TypeOK'
    <2>1. PICK r \in Room : /\ opener' = [opener EXCEPT ![r] = p]
                            /\ UpdateUser(p, r)
      BY <1>5 DEF OpenRoomSettings
    <2> QED  BY <1>5, <2>1, UpdateUserType DEF OpenRoomSettings, Links
  <1>6. ASSUME NEW p \in Node, AcceptRoomSettings(p)
        PROVE  TypeOK'
    <2>1. RoomPdu(selfRoom[p]) \in Pdu
      BY <1>6, PduType DEF AcceptRoomSettings
    <2>2. link' \in Links
      BY <1>6, <2>1, BroadcastType DEF AcceptRoomSettings, Announce, Links
    <2> QED  BY <1>6, <2>2 DEF AcceptRoomSettings, Announce, Links
  <1>7. ASSUME NEW p \in Node, EnterRoom(p)
        PROVE  TypeOK'
    <2>1. PICK r \in Room : UpdateUser(p, r)
      BY <1>7 DEF EnterRoom
    <2> QED  BY <1>7, <2>1, UpdateUserType DEF EnterRoom, Links
  <1>8. ASSUME NEW p \in Node, LeaveRoom(p)
        PROVE  TypeOK'
    BY <1>8, UpdateUserType DEF LeaveRoom, Links
  <1>9. ASSUME NEW p \in Node, Refresh(p)
        PROVE  TypeOK'
    <2>1. link' \in Links
      BY <1>9, PduType DEF Refresh, Links
    <2> QED  BY <1>9, <2>1 DEF Refresh, Links
  <1>10. ASSUME NEW p \in Node, Crash(p)
         PROVE  TypeOK'
    BY <1>10, EmptyHouseType DEF Crash
  <1>11. ASSUME NEW p \in Node, Restart(p)
         PROVE  TypeOK'
    BY <1>11 DEF Restart
  <1>12. CASE UNCHANGED vars
    BY <1>12 DEF vars
  <1> QED
    BY <1>1, <1>2, <1>3, <1>4, <1>5, <1>6, <1>7, <1>8, <1>9, <1>10, <1>11,
       <1>12 DEF Next

\* Every reachable state of every lobby is well typed.
THEOREM TypeCorrect == Spec => []TypeOK
  <1>1. Init => TypeOK
    BY InitTypeOK
  <1>2. TypeOK /\ [Next]_vars => TypeOK'
    BY NextTypeOK
  <1> QED  BY <1>1, <1>2, PTL DEF Spec

-----------------------------------------------------------------------------
(* Blocked users *)

\* BlockedGone is inductive on its own: only two steps add an entry to a
\* house, and both look at the list of blocked addresses first.
LEMMA NextBlockedGone ==
    ASSUME TypeOK, BlockedGone, [Next]_vars
    PROVE  BlockedGone'
  <1> USE DEF TypeOK, BlockedGone
  <1>1. ASSUME NEW p \in Node, NEW n \in Node, NodeAdded(p, n)
        PROVE  BlockedGone'
    <2>1. CASE NotBlocked(p, n)
      <3> DEFINE h == HouseWith(house[p], p, n)
      <3>1. \A m \in Node \ {n} : h.users[m] = house[p].users[m]
        BY HouseWithType
      <3> HIDE DEF h
      <3>2. house' = [house EXCEPT ![p] = h] /\ blocked' = blocked
        BY <1>1, <2>1 DEF NodeAdded, h
      <3> QED  BY <2>1, <3>1, <3>2 DEF KnownIn, NotBlocked
    <2>2. CASE ~NotBlocked(p, n)
      BY <1>1, <2>2 DEF NodeAdded
    <2> QED  BY <2>1, <2>2
  <1>2. ASSUME NEW p \in Node, NEW n \in Node, NodeRemoved(p, n)
        PROVE  BlockedGone'
    <2>1. /\ ~KnownIn(NodeRemovedFrom(house[p], n), n)
          /\ \A m \in Node \ {n} : NodeRemovedFrom(house[p], n).users[m]
                                   = house[p].users[m]
      BY NodeRemovedFromType
    <2> QED  BY <1>2, <2>1 DEF NodeRemoved, KnownIn
  <1>3. ASSUME NEW p \in Node, NEW n \in Node, Receive(p, n)
        PROVE  BlockedGone'
    <2>1. CASE ReceiveUserUpdate(p, n)
      <3> DEFINE h == RecvUserUpdate(house[p], n, Head(link[n][p]).user)
      <3>1. Head(link[n][p]).user \in UserEntry
        BY <2>1, HeadType, PduKinds DEF ReceiveUserUpdate
      <3>2. \A m \in Node \ {n} : h.users[m] = house[p].users[m]
        BY <3>1, RecvUserUpdateType
      <3> HIDE DEF h
      <3>3. /\ house' = [house EXCEPT ![p] = h]
            /\ blocked' = blocked /\ n \notin blocked[p]
        BY <2>1 DEF ReceiveUserUpdate, NotBlocked, h
      <3> QED  BY <3>2, <3>3 DEF KnownIn
    <2>2. CASE ReceiveRoomUpdate(p, n)
      <3>1. Head(link[n][p]).room \in Room
        BY <2>2, HeadType, PduKinds DEF ReceiveRoomUpdate
      <3>2. RecvRoomUpdate(house[p], n, Head(link[n][p]).room).users
              = house[p].users
        BY <3>1, RecvRoomUpdateType
      <3> QED  BY <2>2, <3>2 DEF ReceiveRoomUpdate, KnownIn
    <2>3. CASE UNCHANGED <<house, blocked>>
      BY <2>3
    <2> QED
      BY <1>3, <2>1, <2>2, <2>3
         DEF Receive, ReceiveFromBlocked, ReceiveUserReq, ReceiveData
  <1>4. ASSUME NEW p \in Node, NEW n \in Node, Block(p, n)
        PROVE  BlockedGone'
    <2>1. /\ ~KnownIn(NodeRemovedFrom(house[p], n), n)
          /\ \A m \in Node \ {n} : NodeRemovedFrom(house[p], n).users[m]
                                   = house[p].users[m]
      BY NodeRemovedFromType
    <2> QED  BY <1>4, <2>1 DEF Block, KnownIn
  <1>5. ASSUME NEW p \in Node, Crash(p)
        PROVE  BlockedGone'
    BY <1>5 DEF Crash
  <1>6. CASE UNCHANGED <<house, blocked>>
    BY <1>6
  <1> QED
    BY <1>1, <1>2, <1>3, <1>4, <1>5, <1>6
       DEF Next, vars, OpenRoomSettings, AcceptRoomSettings, EnterRoom,
           LeaveRoom, Refresh, Restart

\* No peer lists a user at an address it blocks, in any lobby.
THEOREM BlockedStayGone == Spec => []BlockedGone
  <1>1. Init => BlockedGone
    BY DEF Init, BlockedGone
  <1>2. TypeOK /\ BlockedGone /\ [Next]_vars => BlockedGone'
    BY NextBlockedGone
  <1> QED  BY <1>1, <1>2, TypeCorrect, PTL DEF Spec

-----------------------------------------------------------------------------
(* A room closes with its owner *)

\* n is listed as the owner of r, and as being in it.
Attached(h, n, r) ==
    /\ KnownIn(h, n)
    /\ h.users[n].room = r
    /\ h.rooms[r] = n

\* From house h to house g, no room is left behind by an owner who was in it.
ClosesAttached(h, g) ==
    \A n \in Node, r \in Room :
        (Attached(h, n, r) /\ (KnownIn(g, n) => g.users[n].room # r))
        => ~ListedIn(g, r)

LEMMA SameUsersCloses ==
    ASSUME NEW h, NEW g, g.users = h.users
    PROVE  ClosesAttached(h, g)
  BY DEF ClosesAttached, Attached, KnownIn

\* An entry made for a user who was not listed takes him out of no room.
LEMMA UserInsertCloses ==
    ASSUME NEW h \in House, NEW n \in Node
    PROVE  ClosesAttached(h, UserInsert(h, n))
  <1>1. CASE KnownIn(h, n)
    BY <1>1, UserInsertType, SameUsersCloses
  <1>2. CASE ~KnownIn(h, n)
    BY <1>2, UserInsertType DEF ClosesAttached, Attached, KnownIn
  <1> QED  BY <1>1, <1>2

\* user_erased closes the room the user hosts.
LEMMA UserErasedCloses ==
    ASSUME NEW h \in House, NEW n \in Node, NEW r \in Room,
           Attached(h, n, r)
    PROVE  ~ListedIn(UserErased(h, n), r)
  BY HandlerAssumption
     DEF UserErased, RoomClosedUpdate, RoomErase, WithRoom, ListedIn,
         Attached, House

LEMMA NodeRemovedFromCloses ==
    ASSUME NEW h \in House, NEW n \in Node
    PROVE  ClosesAttached(h, NodeRemovedFrom(h, n))
  <1> SUFFICES ASSUME NEW m \in Node, NEW r \in Room, Attached(h, m, r),
                      KnownIn(NodeRemovedFrom(h, n), m)
                        => NodeRemovedFrom(h, n).users[m].room # r
               PROVE  ~ListedIn(NodeRemovedFrom(h, n), r)
    BY DEF ClosesAttached
  <1>1. m = n
    BY NodeRemovedFromType DEF Attached, KnownIn
  <1>2. ~ListedIn(UserErased(h, n), r) /\ KnownIn(h, n)
    BY <1>1, UserErasedCloses DEF Attached
  <1> QED
    BY <1>2 DEF NodeRemovedFrom, UserErase, WithUser, ListedIn

\* user_update closes the room whose owner names another one, and his old
\* room when he was started again.
LEMMA UserUpdateCloses ==
    ASSUME NEW h \in House, NEW n \in Node, NEW u \in UserEntry,
           KnownIn(h, n)
    PROVE  ClosesAttached(h, UserUpdate(h, n, u))
  <1> SUFFICES ASSUME NEW m \in Node, NEW r \in Room, Attached(h, m, r),
                      KnownIn(UserUpdate(h, n, u), m)
                        => UserUpdate(h, n, u).users[m].room # r
               PROVE  ~ListedIn(UserUpdate(h, n, u), r)
    BY DEF ClosesAttached
  <1> DEFINE b == BeforeRoomCheck(h, n, u)
             c == IF LeavesRoom(h, n, u)
                  THEN RoomClosedUpdate(b, n, h.users[n].room) ELSE b
  <1>1. m = n /\ u.room # r
    BY UserUpdateType DEF Attached, KnownIn
  <1>2. LeavesRoom(h, n, u) /\ h.users[n].room = r
    BY <1>1, HandlerAssumption DEF LeavesRoom, Attached
  <1>3. b \in House /\ (b.rooms[r] = n \/ ~ListedIn(b, r))
    <2>1. CASE Reincarnated(h, n, u)
      BY <1>1, <2>1, UserErasedCloses, UserErasedType DEF BeforeRoomCheck
    <2>2. CASE ~Reincarnated(h, n, u)
      BY <1>1, <2>2 DEF BeforeRoomCheck, Attached
    <2> QED  BY <2>1, <2>2
  <1> HIDE DEF b
  <1>4. ~ListedIn(RoomClosedUpdate(b, n, r), r)
    BY <1>3 DEF RoomClosedUpdate, RoomErase, WithRoom, ListedIn, House
  <1>5. ~ListedIn(c, r)
    BY <1>2, <1>4
  <1> HIDE DEF c
  <1>6. UserUpdate(h, n, u).rooms = c.rooms
    BY DEF UserUpdate, WithUser, c, b
  <1> QED  BY <1>5, <1>6 DEF ListedIn

\* When the own node is added, the entry is made and filled in one step.
LEMMA HouseWithCloses ==
    ASSUME TypeOK, NEW p \in Node, NEW n \in Node
    PROVE  ClosesAttached(house[p], HouseWith(house[p], p, n))
  <1> DEFINE h == house[p]
             i == UserInsert(h, n)
  <1>1. h \in House
    BY DEF TypeOK
  <1> HIDE DEF h
  <1>2. CASE n # p
    BY <1>1, <1>2, UserInsertCloses DEF HouseWith, h
  <1>3. CASE n = p /\ KnownIn(h, n)
    <2>1. i = h
      BY <1>1, <1>3, UserInsertType
    <2>2. ClosesAttached(h, UserUpdate(h, n, Self(p)))
      BY <1>1, <1>3, SelfType, UserUpdateCloses
    <2> QED  BY <1>3, <2>1, <2>2 DEF HouseWith, h
  <1>4. CASE n = p /\ ~KnownIn(h, n)
    <2>1. i \in House /\ KnownIn(i, n)
      BY <1>1, UserInsertType
    <2>2. \A m \in Node \ {n} : i.users[m] = h.users[m]
      BY <1>1, UserInsertType
    <2> HIDE DEF i
    <2>3. \A m \in Node \ {n} :
             UserUpdate(i, n, Self(p)).users[m] = h.users[m]
      BY <2>1, <2>2, SelfType, UserUpdateType
    <2>4. ClosesAttached(h, UserUpdate(i, n, Self(p)))
      BY <1>4, <2>3 DEF ClosesAttached, Attached, KnownIn
    <2> QED  BY <1>4, <2>4 DEF HouseWith, h, i
  <1> QED  BY <1>2, <1>3, <1>4

RoomsClose == \A q \in up : ClosesAttached(house[q], house'[q])

LEMMA NextRoomsClose ==
    ASSUME TypeOK, [Next]_vars
    PROVE  RoomsClose
  <1> USE DEF TypeOK
  <1>1. \A h : ClosesAttached(h, h)
    BY SameUsersCloses
  <1>2. ASSUME NEW p \in Node, NEW g, house' = [house EXCEPT ![p] = g],
               ClosesAttached(house[p], g)
        PROVE  RoomsClose
    BY <1>1, <1>2 DEF RoomsClose
  <1>3. CASE UNCHANGED house
    BY <1>1, <1>3 DEF RoomsClose
  <1>4. ASSUME NEW p \in Node, NEW n \in Node, NodeAdded(p, n)
        PROVE  RoomsClose
    BY <1>2, <1>3, <1>4, HouseWithCloses DEF NodeAdded
  <1>5. ASSUME NEW p \in Node, NEW n \in Node,
               NodeRemoved(p, n) \/ Block(p, n)
        PROVE  RoomsClose
    BY <1>2, <1>5, NodeRemovedFromCloses DEF NodeRemoved, Block
  <1>6. ASSUME NEW p \in Node, NEW n \in Node, Receive(p, n)
        PROVE  RoomsClose
    <2>1. CASE ReceiveUserUpdate(p, n)
      <3>1. Head(link[n][p]).user \in UserEntry
        BY <2>1, HeadType, PduKinds DEF ReceiveUserUpdate
      <3>2. ClosesAttached(house[p],
                RecvUserUpdate(house[p], n, Head(link[n][p]).user))
        BY <1>1, <3>1, UserUpdateCloses DEF RecvUserUpdate
      <3> QED  BY <1>2, <2>1, <3>2 DEF ReceiveUserUpdate
    <2>2. CASE ReceiveRoomUpdate(p, n)
      <3>1. Head(link[n][p]).room \in Room
        BY <2>2, HeadType, PduKinds DEF ReceiveRoomUpdate
      <3>2. ClosesAttached(house[p],
                RecvRoomUpdate(house[p], n, Head(link[n][p]).room))
        BY <3>1, RecvRoomUpdateType, SameUsersCloses
      <3> QED  BY <1>2, <2>2, <3>2 DEF ReceiveRoomUpdate
    <2> QED
      BY <1>3, <1>6, <2>1, <2>2
         DEF Receive, ReceiveFromBlocked, ReceiveUserReq, ReceiveData
  <1>7. ASSUME NEW p \in Node, Crash(p)
        PROVE  RoomsClose
    <2>1. ClosesAttached(house[p], EmptyHouse)
      BY DEF ClosesAttached, EmptyHouse, ListedIn
    <2> QED  BY <1>2, <1>7, <2>1 DEF Crash
  <1> QED
    BY <1>3, <1>4, <1>5, <1>6, <1>7
       DEF Next, vars, OpenRoomSettings, AcceptRoomSettings, EnterRoom,
           LeaveRoom, Refresh, Restart

\* In every lobby a room closes in the step that takes its owner out of it.
THEOREM RoomsCloseWithOwner == Spec => AttachedRoomCloses
  <1> DEFINE A == \A q \in up, n \in Node, r \in Room :
                    (/\ KnownIn(house[q], n)
                     /\ house[q].users[n].room = r
                     /\ house[q].rooms[r] = n
                     /\ KnownIn(house'[q], n) => house'[q].users[n].room # r)
                    => ~ListedIn(house'[q], r)
  <1>1. TypeOK /\ [Next]_vars => A
    BY NextRoomsClose DEF RoomsClose, ClosesAttached, Attached
  <1>2. TypeOK /\ [Next]_vars => [A]_vars
    BY <1>1
  <1>3. AttachedRoomCloses <=> [][A]_vars
    BY DEF AttachedRoomCloses
  <1> HIDE DEF A
  <1> QED  BY <1>2, <1>3, TypeCorrect, PTL DEF Spec

-----------------------------------------------------------------------------
(* Ids never regress *)

\* The id listed for n, if any.
Entry(h, n) == IF KnownIn(h, n) THEN h.users[n].id ELSE NoId

\* The ids that the user PDUs of s carry grow from lo to hi.
Ordered(s, lo, hi) ==
    \A i \in 1..Len(s) :
        s[i].kind = "user"
        => /\ lo <= s[i].user.id
           /\ s[i].user.id <= hi
           /\ \A j \in i..Len(s) :
                 s[j].kind = "user" => s[i].user.id <= s[j].user.id

\* Every user PDU of s carries this id.
Fresh(s, id) == \A i \in 1..Len(s) : s[i].kind = "user" => s[i].user.id = id

\* What is listed of a user, what is under way from him and his present id
\* grow in this order.  From himself only his present id is under way, as a
\* crash loses that link.
IdInv ==
    \A p \in Node :
        /\ \A q \in Node : /\ Entry(house[q], p) <= inc[p]
                           /\ Ordered(link[p][q], Entry(house[q], p), inc[p])
        /\ Fresh(link[p][p], inc[p])
        /\ p \notin up => link[p][p] = <<>>

LEMMA PduIds ==
    ASSUME NEW m \in Pdu, m.kind = "user"
    PROVE  m.user.id \in Nat
  BY PduKinds DEF UserEntry

LEMMA SeqIds ==
    ASSUME NEW s \in Seq(Pdu), NEW i \in 1..Len(s), s[i].kind = "user"
    PROVE  s[i].user.id \in Nat
  BY PduIds

LEMMA OrderedFromLower ==
    ASSUME NEW s \in Seq(Pdu), NEW lo \in Nat, NEW hi \in Nat,
           NEW low \in Nat, low <= lo, Ordered(s, lo, hi)
    PROVE  Ordered(s, low, hi)
  BY SeqIds DEF Ordered

LEMMA OrderedToHigher ==
    ASSUME NEW s \in Seq(Pdu), NEW lo \in Nat, NEW hi \in Nat,
           NEW high \in Nat, hi <= high, Ordered(s, lo, hi)
    PROVE  Ordered(s, lo, high)
  BY SeqIds DEF Ordered

LEMMA OrderedWhenFresh ==
    ASSUME NEW s \in Seq(Pdu), NEW id \in Nat, NEW lo \in 0..id, Fresh(s, id)
    PROVE  Ordered(s, lo, id)
  BY SeqIds DEF Ordered, Fresh

\* Taking the oldest PDU leaves what comes after it.
LEMMA OrderedTail ==
    ASSUME NEW s \in Seq(Pdu), s # <<>>, NEW lo \in Nat, NEW hi \in Nat,
           Ordered(s, lo, hi)
    PROVE  /\ Ordered(Tail(s), lo, hi)
           /\ Head(s).kind = "user"
                => /\ lo <= Head(s).user.id
                   /\ Head(s).user.id <= hi
                   /\ Ordered(Tail(s), Head(s).user.id, hi)
  <1>1. /\ Len(s) \in Nat \ {0} /\ Len(Tail(s)) = Len(s) - 1
        /\ Head(s) = s[1]
        /\ \A i \in 1..Len(Tail(s)) : Tail(s)[i] = s[i + 1]
    BY HeadTailProperties, EmptySeq
  <1>2. Ordered(Tail(s), lo, hi)
    BY <1>1 DEF Ordered
  <1>3. ASSUME Head(s).kind = "user"
        PROVE  /\ lo <= Head(s).user.id
               /\ Head(s).user.id <= hi
               /\ Ordered(Tail(s), Head(s).user.id, hi)
    BY <1>1, <1>3 DEF Ordered
  <1> QED  BY <1>2, <1>3

LEMMA FreshTail ==
    ASSUME NEW s \in Seq(Pdu), s # <<>>, NEW id \in Nat, Fresh(s, id)
    PROVE  /\ Fresh(Tail(s), id)
           /\ Head(s).kind = "user" => Head(s).user.id = id
  <1>1. /\ Len(s) \in Nat \ {0} /\ Len(Tail(s)) = Len(s) - 1
        /\ Head(s) = s[1]
        /\ \A i \in 1..Len(Tail(s)) : Tail(s)[i] = s[i + 1]
    BY HeadTailProperties, EmptySeq
  <1> QED  BY <1>1 DEF Fresh

\* Sending the present state keeps the order.
LEMMA OrderedConcat ==
    ASSUME NEW s \in Seq(Pdu), NEW t \in Seq(Pdu),
           NEW id \in Nat, NEW lo \in 0..id, Ordered(s, lo, id), Fresh(t, id)
    PROVE  Ordered(s \o t, lo, id)
  <1>1. /\ s \o t \in Seq(Pdu) /\ Len(s \o t) = Len(s) + Len(t)
        /\ \A i \in 1..Len(s \o t) :
              (s \o t)[i] = IF i <= Len(s) THEN s[i] ELSE t[i - Len(s)]
        /\ Len(s) \in Nat /\ Len(t) \in Nat
    BY ConcatProperties
  <1> DEFINE c == s \o t
  <1> HIDE DEF c
  <1>2. \A i \in 1..Len(c) : c[i].kind = "user"
          => /\ lo <= c[i].user.id
             /\ c[i].user.id <= id
             /\ i > Len(s) => c[i].user.id = id
    BY <1>1 DEF Ordered, Fresh, c
  <1>3. ASSUME NEW i \in 1..Len(c), c[i].kind = "user",
               NEW j \in i..Len(c), c[j].kind = "user"
        PROVE  c[i].user.id <= c[j].user.id
    <2>1. CASE j > Len(s)
      BY <1>1, <1>2, <1>3, <2>1 DEF c
    <2>2. CASE j <= Len(s)
      BY <1>1, <1>3, <2>2 DEF c, Ordered
    <2> QED  BY <1>1, <2>1, <2>2 DEF c
  <1>4. Ordered(c, lo, id)
    BY <1>2, <1>3 DEF Ordered
  <1> QED  BY <1>4 DEF c

LEMMA FreshConcat ==
    ASSUME NEW s \in Seq(Pdu), NEW t \in Seq(Pdu), NEW id \in Nat,
           Fresh(s, id), Fresh(t, id)
    PROVE  Fresh(s \o t, id)
  BY ConcatProperties DEF Fresh

\* From s to t nothing but the present id was added.
Moved(s, t, id) ==
    /\ \A lo \in 0..id : Ordered(s, lo, id) => Ordered(t, lo, id)
    /\ Fresh(s, id) => Fresh(t, id)

LEMMA MovedAppended ==
    ASSUME NEW s \in Seq(Pdu), NEW t \in Seq(Pdu), NEW id \in Nat,
           Fresh(t, id)
    PROVE  Moved(s, s \o t, id)
  BY OrderedConcat, FreshConcat DEF Moved

LEMMA MovedTaken ==
    ASSUME NEW s \in Seq(Pdu), s # <<>>, NEW id \in Nat
    PROVE  Moved(s, Tail(s), id)
  BY OrderedTail, FreshTail DEF Moved

LEMMA MovedLost ==
    ASSUME NEW s \in Seq(Pdu), NEW id \in Nat
    PROVE  Moved(s, <<>>, id)
  BY DEF Moved, Ordered, Fresh

LEMMA MovedSame ==
    ASSUME NEW s, NEW id
    PROVE  Moved(s, s, id)
  BY DEF Moved

\* A PDU that is of no user, or of one with this id.
LEMMA FreshOne ==
    ASSUME NEW m \in Pdu, NEW id \in Nat, m.kind = "user" => m.user.id = id
    PROVE  <<m>> \in Seq(Pdu) /\ Fresh(<<m>>, id)
  BY DEF Fresh

LEMMA AnswerFresh ==
    ASSUME TypeOK, NEW p \in Node
    PROVE  Answer(p) \in Seq(Pdu) /\ Fresh(Answer(p), inc[p])
  <1>1. UserPdu(Self(p)) \in Pdu /\ UserPdu(Self(p)).user.id = inc[p]
    BY SelfType, PduType DEF UserPdu, Self
  <1>2. CASE selfRoom[p] # NoRoom /\ selfRoom[p] = hosted[p]
    <2> DEFINE u == UserPdu(Self(p))
               r == RoomPdu(hosted[p])
    <2>1. r \in Pdu /\ r.kind # "user"
      BY <1>2, PduType DEF TypeOK, RoomPdu
    <2>2. u \in Pdu /\ u.user.id = inc[p]
      BY <1>1
    <2>3. Answer(p) = <<u>> \o <<r>>
      BY <1>2 DEF Answer
    <2> HIDE DEF u, r
    <2>4. inc[p] \in Nat
      BY DEF TypeOK
    <2>5. /\ <<u>> \in Seq(Pdu) /\ Fresh(<<u>>, inc[p])
          /\ <<r>> \in Seq(Pdu) /\ Fresh(<<r>>, inc[p])
      BY <2>1, <2>2, <2>4, FreshOne
    <2> QED  BY <2>3, <2>4, <2>5, FreshConcat, ConcatProperties
  <1>3. CASE ~(selfRoom[p] # NoRoom /\ selfRoom[p] = hosted[p])
    <2>1. inc[p] \in Nat
      BY DEF TypeOK
    <2>2. <<UserPdu(Self(p))>> \in Seq(Pdu)
          /\ Fresh(<<UserPdu(Self(p))>>, inc[p])
      BY <1>1, <2>1, FreshOne
    <2>3. Answer(p) = <<UserPdu(Self(p))>> \o << >>
      BY <1>3 DEF Answer
    <2> QED  BY <2>2, <2>3, ConcatEmptySeq
  <1> QED  BY <1>2, <1>3

\* Sending such PDUs moves a link, and only when its receiver runs.
LEMMA SendToMoves ==
    ASSUME NEW l \in Links, NEW p \in Node, NEW q \in Node,
           NEW id \in Nat, NEW pdus \in Seq(Pdu), Fresh(pdus, id)
    PROVE  /\ Moved(l[p][q], SendTo(l, p, q, pdus)[p][q], id)
           /\ \A a, b \in Node : <<a, b>> # <<p, q>> =>
                 SendTo(l, p, q, pdus)[a][b] = l[a][b]
           /\ SendTo(l, p, q, pdus) \in Links
  BY MovedAppended, MovedSame, SendToType DEF SendTo, Links

LEMMA BroadcastMoves ==
    ASSUME NEW l \in Links, NEW p \in Node, NEW q \in Node,
           NEW id \in Nat, NEW m \in Pdu, m.kind = "user" => m.user.id = id
    PROVE  /\ Moved(l[p][q], Broadcast(l, p, m)[p][q], id)
           /\ \A a \in Node \ {p} : Broadcast(l, p, m)[a] = l[a]
  <1>1. l[p][q] \in Seq(Pdu)
    BY DEF Links
  <1>2. Append(l[p][q], m) = l[p][q] \o <<m>>
    BY <1>1
  <1>3. Moved(l[p][q], Append(l[p][q], m), id)
    BY <1>1, <1>2, FreshOne, MovedAppended
  <1> QED  BY <1>3, MovedSame DEF Broadcast, Links

-----------------------------------------------------------------------------
(* What the handler does to the entries *)

\* user_update lists the id that was sent, unless none was.
LEMMA UserUpdateEntry ==
    ASSUME NEW h \in House, NEW n \in Node, NEW u \in UserEntry, KnownIn(h, n),
           h.users[n].id <= u.id
    PROVE  Entry(UserUpdate(h, n, u), n) = u.id
  <1> DEFINE b == BeforeRoomCheck(h, n, u)
             c == IF LeavesRoom(h, n, u)
                  THEN RoomClosedUpdate(b, n, h.users[n].room) ELSE b
             e == [id   |-> IF u.id = NoId THEN h.users[n].id ELSE u.id,
                   room |-> u.room]
  <1>1. c \in House
    <2>1. b \in House
      BY UserErasedType DEF BeforeRoomCheck
    <2> HIDE DEF b
    <2> QED  BY <2>1, RoomClosedUpdateType
  <1>2. UserUpdate(h, n, u) = WithUser(c, n, e)
    BY DEF UserUpdate
  <1>3. e.id = u.id /\ e \in UserEntry
    BY DEF UserEntry, House, KnownIn, NoId
  <1> HIDE DEF c, e
  <1> QED
    BY <1>1, <1>2, <1>3, HandlerAssumption DEF Entry, KnownIn, WithUser, House

\* When a user is entered, the own one has his id and another none.
LEMMA HouseWithEntry ==
    ASSUME TypeOK, IdInv, NEW p \in Node, NEW n \in Node
    PROVE  LET h == HouseWith(house[p], p, n)
           IN  /\ \A m \in Node \ {n} : Entry(h, m) = Entry(house[p], m)
               /\ n = p => Entry(h, n) = inc[p]
               /\ n # p => Entry(h, n) = Entry(house[p], n)
  <1> DEFINE h == HouseWith(house[p], p, n)
             i == UserInsert(house[p], n)
  <1>1. house[p] \in House
    BY DEF TypeOK
  <1>2. \A m \in Node \ {n} : Entry(h, m) = Entry(house[p], m)
    <2>1. \A m \in Node \ {n} : h.users[m] = house[p].users[m]
      BY HouseWithType
    <2> HIDE DEF h
    <2> QED  BY <2>1 DEF Entry, KnownIn
  <1>3. /\ i \in House /\ KnownIn(i, n)
        /\ Entry(i, n) = Entry(house[p], n)
    BY <1>1, UserInsertType, HandlerAssumption
       DEF Entry, UserInsert, WithUser, KnownIn, House, NoId, UserEntry
  <1> HIDE DEF i
  <1>4. CASE n # p
    BY <1>2, <1>3, <1>4 DEF HouseWith, i
  <1>5. CASE n = p
    <2>1. Self(p) \in UserEntry /\ Self(p).id = inc[p]
      BY SelfType DEF Self
    <2>2. i.users[n].id <= Self(p).id
      BY <1>3, <1>5, <2>1 DEF IdInv, Entry
    <2>3. Entry(UserUpdate(i, n, Self(p)), n) = inc[p]
      BY <1>3, <2>1, <2>2, UserUpdateEntry
    <2> QED  BY <1>2, <1>5, <2>3 DEF HouseWith, i
  <1> QED  BY <1>4, <1>5

LEMMA NodeRemovedFromEntry ==
    ASSUME NEW h \in House, NEW n \in Node
    PROVE  /\ Entry(NodeRemovedFrom(h, n), n) = NoId
           /\ \A m \in Node \ {n} :
                 Entry(NodeRemovedFrom(h, n), m) = Entry(h, m)
  BY NodeRemovedFromType DEF Entry, KnownIn

LEMMA EntryType ==
    ASSUME TypeOK, NEW p \in Node, NEW q \in Node
    PROVE  Entry(house[q], p) \in Nat
  BY DEF TypeOK, Entry, KnownIn, House, UserEntry, NoId

\* The invariant holds on where links move and entries stay or go.
LEMMA MovesKeepIds ==
    ASSUME TypeOK, TypeOK', IdInv, inc' = inc,
           \A a, b \in Node : Moved(link[a][b], link'[a][b], inc[a]),
           \A a, b \in Node : \/ Entry(house'[b], a) = Entry(house[b], a)
                              \/ Entry(house'[b], a) = NoId
                              \/ a = b /\ Entry(house'[b], a) = inc[a],
           \A a \in Node : a \notin up' => link'[a][a] = <<>>
    PROVE  IdInv'
  <1> SUFFICES ASSUME NEW a \in Node
               PROVE  /\ \A b \in Node :
                            /\ Entry(house'[b], a) <= inc[a]
                            /\ Ordered(link'[a][b], Entry(house'[b], a), inc[a])
                      /\ Fresh(link'[a][a], inc[a])
    BY DEF IdInv
  <1>1. inc[a] \in Nat /\ Fresh(link'[a][a], inc[a])
    BY DEF TypeOK, IdInv, Moved
  <1>2. ASSUME NEW b \in Node
        PROVE  /\ Entry(house'[b], a) <= inc[a]
               /\ Ordered(link'[a][b], Entry(house'[b], a), inc[a])
    <2>1. /\ Entry(house[b], a) \in Nat
          /\ Entry(house[b], a) <= inc[a]
          /\ Ordered(link[a][b], Entry(house[b], a), inc[a])
      BY EntryType DEF IdInv
    <2>2. Ordered(link'[a][b], Entry(house[b], a), inc[a])
      BY <1>1, <2>1 DEF Moved
    <2>3. link'[a][b] \in Seq(Pdu)
      BY DEF TypeOK
    <2>4. CASE Entry(house'[b], a) = Entry(house[b], a)
      BY <2>1, <2>2, <2>4
    <2>5. CASE Entry(house'[b], a) = NoId
      BY <1>1, <2>1, <2>2, <2>3, <2>5, OrderedFromLower DEF NoId
    <2>6. CASE a = b /\ Entry(house'[b], a) = inc[a]
      BY <1>1, <2>3, <2>6, OrderedWhenFresh
    <2> QED  BY <2>4, <2>5, <2>6
  <1> QED  BY <1>1, <1>2

\* Sending such PDUs to one node moves the links as the invariant needs.
LEMMA OneLinkMoves ==
    ASSUME TypeOK, IdInv, NEW p \in up, p \in Node, NEW n \in Node,
           NEW t \in Seq(Pdu), Fresh(t, inc[p]),
           link' = link \/ link' = SendTo(link, p, n, t)
    PROVE  /\ \A a, b \in Node : Moved(link[a][b], link'[a][b], inc[a])
           /\ \A a \in Node : a \notin up => link'[a][a] = <<>>
  <1>1. link \in Links /\ inc[p] \in Nat
    BY DEF TypeOK, Links
  <1>2. /\ Moved(link[p][n], SendTo(link, p, n, t)[p][n], inc[p])
        /\ \A a, b \in Node : <<a, b>> # <<p, n>> =>
              SendTo(link, p, n, t)[a][b] = link[a][b]
    BY <1>1, SendToMoves
  <1>3. \A a, b \in Node : Moved(link[a][b], link'[a][b], inc[a])
    BY <1>2, MovedSame
  <1>4. \A a \in Node : a \notin up => link'[a][a] = <<>>
    BY <1>2 DEF IdInv
  <1> QED  BY <1>3, <1>4

\* No user's id is smaller in the next state.
IdsGrow ==
    \A q, n \in Node :
        (KnownIn(house[q], n) /\ KnownIn(house'[q], n))
        => house[q].users[n].id <= house'[q].users[n].id

LEMMA MovesGrow ==
    ASSUME TypeOK, IdInv,
           \A a, b \in Node : \/ Entry(house'[b], a) = Entry(house[b], a)
                              \/ ~KnownIn(house'[b], a)
                              \/ a = b /\ Entry(house'[b], a) = inc[a]
    PROVE  IdsGrow
  <1> SUFFICES ASSUME NEW b \in Node, NEW a \in Node,
                      KnownIn(house[b], a), KnownIn(house'[b], a)
               PROVE  house[b].users[a].id <= house'[b].users[a].id
    BY DEF IdsGrow
  <1>1. /\ Entry(house[b], a) = house[b].users[a].id
        /\ Entry(house'[b], a) = house'[b].users[a].id
    BY DEF Entry
  <1>2. Entry(house[b], a) \in Nat /\ Entry(house[b], a) <= inc[a]
    BY EntryType DEF IdInv
  <1> QED  BY <1>1, <1>2

LEMMA NextIds ==
    ASSUME TypeOK, TypeOK', IdInv, [Next]_vars
    PROVE  IdInv' /\ IdsGrow
  <1> DEFINE Moves == \A a, b \in Node : Moved(link[a][b], link'[a][b], inc[a])
             DownEmpty == \A a \in Node : a \notin up' => link'[a][a] = <<>>
             OwnKept == \A a, b \in Node :
                           \/ Entry(house'[b], a) = Entry(house[b], a)
                           \/ Entry(house'[b], a) = NoId /\ ~KnownIn(house'[b], a)
                           \/ a = b /\ Entry(house'[b], a) = inc[a]
  <1>0. ASSUME inc' = inc, Moves, DownEmpty, OwnKept
        PROVE  IdInv' /\ IdsGrow
    BY <1>0, MovesKeepIds, MovesGrow
  <1>a. house' = house => OwnKept
    OBVIOUS
  <1>b. link' = link /\ up' = up => Moves /\ DownEmpty
    BY MovedSame DEF IdInv
  <1>c. \A p \in Node : p \in up => /\ inc[p] \in Nat
                                    /\ house[p] \in House
    BY DEF TypeOK
  <1>1. ASSUME NEW p \in Node, NEW n \in Node, NodeAdded(p, n)
        PROVE  IdInv' /\ IdsGrow
    <2>1. /\ p \in up /\ inc' = inc /\ up' = up
      BY <1>1 DEF NodeAdded
    <2>2. <<Req>> \in Seq(Pdu) /\ Fresh(<<Req>>, inc[p])
      BY <1>c, <2>1, PduType, FreshOne DEF Req
    <2>3. link' = link \/ link' = SendTo(link, p, n, <<Req>>)
      BY <1>1 DEF NodeAdded
    <2>4. Moves /\ DownEmpty
      BY <2>1, <2>2, <2>3, OneLinkMoves
    <2>5. CASE house' = house
      BY <1>0, <1>a, <2>1, <2>4, <2>5
    <2>6. CASE house' = [house EXCEPT ![p] = HouseWith(house[p], p, n)]
      <3> DEFINE h == HouseWith(house[p], p, n)
      <3>1. /\ \A m \in Node \ {n} : Entry(h, m) = Entry(house[p], m)
            /\ n = p => Entry(h, n) = inc[p]
            /\ n # p => Entry(h, n) = Entry(house[p], n)
        BY HouseWithEntry
      <3> HIDE DEF h
      <3>2. \A b \in Node : house'[b] = IF b = p THEN h ELSE house[b]
        BY <2>6 DEF h, TypeOK
      <3>3. OwnKept
        BY <3>1, <3>2
      <3> QED  BY <1>0, <2>1, <2>4, <3>3
    <2> QED  BY <1>1, <2>5, <2>6 DEF NodeAdded
  <1>2. ASSUME NEW p \in Node, NEW n \in Node, NodeRemoved(p, n)
        PROVE  IdInv' /\ IdsGrow
    <2>1. \A a, b \in Node :
             link'[a][b] = IF a = n /\ b = p THEN <<>> ELSE link[a][b]
      BY <1>2 DEF NodeRemoved, TypeOK
    <2>2. link[n][p] \in Seq(Pdu) /\ inc[n] \in Nat
      BY DEF TypeOK
    <2>3. Moves
      BY <2>1, <2>2, MovedLost, MovedSame
    <2>4. DownEmpty
      BY <1>2, <2>1 DEF NodeRemoved, IdInv
    <2> DEFINE h == NodeRemovedFrom(house[p], n)
    <2>5. /\ Entry(h, n) = NoId /\ ~KnownIn(h, n)
          /\ \A m \in Node \ {n} : Entry(h, m) = Entry(house[p], m)
      BY <1>2, <1>c, NodeRemovedFromEntry, NodeRemovedFromType DEF NodeRemoved
    <2> HIDE DEF h
    <2>6. \A b \in Node : house'[b] = IF b = p THEN h ELSE house[b]
      BY <1>2 DEF NodeRemoved, TypeOK, h
    <2>7. OwnKept
      BY <2>5, <2>6
    <2> QED  BY <1>0, <1>2, <2>3, <2>4, <2>7 DEF NodeRemoved
  <1>3. ASSUME NEW p \in Node, NEW n \in Node, Receive(p, n)
        PROVE  IdInv' /\ IdsGrow
    <2> DEFINE s == link[n][p]
               k == Taken(p, n)
    <2>1. /\ p \in up /\ s # <<>> /\ inc' = inc /\ up' = up
          /\ Receivable(p, n)
      BY <1>3 DEF Receive, ReceiveFromBlocked, ReceiveUserReq, ReceiveData,
                  ReceiveUserUpdate, ReceiveRoomUpdate, Receivable
    <2>2. /\ s \in Seq(Pdu) /\ k \in Links
          /\ inc[n] \in Nat /\ inc[p] \in Nat
      BY <2>1, HeadType DEF TypeOK
    <2>3. \A a, b \in Node :
             k[a][b] = IF a = n /\ b = p THEN Tail(s) ELSE link[a][b]
      BY DEF Taken, TypeOK
    <2> HIDE DEF k
    <2>4. \A a, b \in Node : Moved(link[a][b], k[a][b], inc[a])
      BY <2>1, <2>2, <2>3, MovedTaken, MovedSame
    <2>5. \A a \in Node : a \notin up => k[a][a] = <<>>
      BY <2>1, <2>3 DEF IdInv
    <2>6. link' = k => Moves /\ DownEmpty
      BY <2>1, <2>4, <2>5
    <2>7. CASE ReceiveFromBlocked(p, n) \/ ReceiveData(p, n)
      BY <1>0, <1>a, <2>1, <2>6, <2>7
         DEF ReceiveFromBlocked, ReceiveData, k
    <2>8. CASE ReceiveUserReq(p, n)
      <3> DEFINE t == Answer(p)
      <3>1. t \in Seq(Pdu) /\ Fresh(t, inc[p])
        BY AnswerFresh
      <3> HIDE DEF t
      <3>2. link' = SendTo(k, p, n, t)
        BY <2>8 DEF ReceiveUserReq, k, t
      <3>3. /\ Moved(k[p][n], link'[p][n], inc[p])
            /\ \A a, b \in Node : <<a, b>> # <<p, n>> => link'[a][b] = k[a][b]
        BY <2>2, <3>1, <3>2, SendToMoves
      <3>4. Moves
        BY <2>4, <3>3 DEF Moved
      <3>5. DownEmpty
        BY <2>1, <2>5, <3>3
      <3> QED  BY <1>0, <1>a, <2>1, <2>8, <3>4, <3>5 DEF ReceiveUserReq
    <2>9. CASE ReceiveUserUpdate(p, n)
      <3> DEFINE u == Head(s).user
                 h == RecvUserUpdate(house[p], n, u)
      <3>1. /\ u \in UserEntry /\ Head(s).kind = "user" /\ u.id \in Nat
            /\ link' = k
        BY <2>1, <2>9, HeadType, PduKinds DEF ReceiveUserUpdate, UserEntry, k
      <3>2. \A b \in Node : house'[b] = IF b = p THEN h ELSE house[b]
        BY <2>9 DEF ReceiveUserUpdate, TypeOK
      <3>3. /\ Entry(house[p], n) \in Nat
            /\ Entry(house[p], n) <= u.id /\ u.id <= inc[n]
            /\ Ordered(Tail(s), u.id, inc[n])
        BY <2>1, <2>2, <3>1, EntryType, OrderedTail DEF IdInv
      <3>4. /\ house[p] \in House
            /\ \A m \in Node \ {n} : h.users[m] = house[p].users[m]
        BY <1>c, <2>1, <3>1, RecvUserUpdateType
      <3>5. KnownIn(house[p], n) => Entry(h, n) = u.id
        BY <3>1, <3>3, <3>4, UserUpdateEntry DEF RecvUserUpdate, Entry
      <3>6. ~KnownIn(house[p], n) => Entry(h, n) = NoId /\ ~KnownIn(h, n)
        BY DEF RecvUserUpdate, Entry
      <3> HIDE DEF h
      <3>7. \A m \in Node \ {n} : Entry(h, m) = Entry(house[p], m)
        BY <3>4 DEF Entry, KnownIn
      <3>8. CASE ~KnownIn(house[p], n)
        <4>1. OwnKept
          BY <3>2, <3>6, <3>7, <3>8
        <4> QED  BY <1>0, <2>1, <2>6, <3>1, <4>1
      <3>9. CASE KnownIn(house[p], n)
        <4>1. \A a, b \in Node : <<a, b>> # <<n, p>> =>
                 /\ Entry(house'[b], a) = Entry(house[b], a)
                 /\ KnownIn(house'[b], a) <=> KnownIn(house[b], a)
          BY <3>2, <3>4, <3>7 DEF KnownIn
        <4>2. ASSUME NEW a \in Node, NEW b \in Node
              PROVE  /\ Entry(house'[b], a) <= inc[a]
                     /\ Ordered(link'[a][b], Entry(house'[b], a), inc[a])
          <5>1. CASE a = n /\ b = p
            BY <2>3, <3>1, <3>2, <3>3, <3>5, <3>9, <5>1
          <5>2. CASE <<a, b>> # <<n, p>>
            BY <2>3, <3>1, <4>1, <5>2 DEF IdInv
          <5> QED  BY <5>1, <5>2
        <4>3. \A a \in Node : Fresh(link'[a][a], inc[a])
          BY <2>4, <3>1 DEF IdInv, Moved
        <4>4. IdInv'
          BY <2>1, <2>5, <3>1, <4>2, <4>3 DEF IdInv
        <4>5. ASSUME NEW b \in Node, NEW a \in Node,
                     KnownIn(house[b], a), KnownIn(house'[b], a)
              PROVE  house[b].users[a].id <= house'[b].users[a].id
          <5>1. Entry(house[b], a) <= Entry(house'[b], a)
            <6>1. CASE a = n /\ b = p
              BY <3>2, <3>3, <3>5, <3>9, <6>1
            <6>2. CASE <<a, b>> # <<n, p>>
              BY <4>1, <6>2, EntryType
            <6> QED  BY <6>1, <6>2
          <5> QED  BY <4>5, <5>1 DEF Entry
        <4> QED  BY <4>4, <4>5 DEF IdsGrow
      <3> QED  BY <3>8, <3>9
    <2>10. CASE ReceiveRoomUpdate(p, n)
      <3> DEFINE h == RecvRoomUpdate(house[p], n, Head(s).room)
      <3>1. h.users = house[p].users
        <4>1. Head(s).room \in Room
          BY <2>1, <2>10, HeadType, PduKinds DEF ReceiveRoomUpdate
        <4> QED  BY <1>c, <2>1, <4>1, RecvRoomUpdateType
      <3>2. \A b \in Node : house'[b] = IF b = p THEN h ELSE house[b]
        BY <2>10 DEF ReceiveRoomUpdate, TypeOK
      <3> HIDE DEF h
      <3>3. OwnKept
        BY <3>1, <3>2 DEF Entry, KnownIn
      <3> QED
        BY <1>0, <2>1, <2>6, <2>10, <3>3 DEF ReceiveRoomUpdate, k
    <2> QED  BY <1>3, <2>7, <2>8, <2>9, <2>10 DEF Receive
  <1>4. ASSUME NEW p \in Node, NEW n \in Node, Block(p, n)
        PROVE  IdInv' /\ IdsGrow
    <2>1. p \in up /\ inc' = inc /\ up' = up
      BY <1>4 DEF Block
    <2>2. <<BlockedPdu>> \in Seq(Pdu) /\ Fresh(<<BlockedPdu>>, inc[p])
      BY <1>c, <2>1, PduType, FreshOne DEF BlockedPdu
    <2>3. link' = link \/ link' = SendTo(link, p, n, <<BlockedPdu>>)
      BY <1>4 DEF Block
    <2>4. Moves /\ DownEmpty
      BY <2>1, <2>2, <2>3, OneLinkMoves
    <2> DEFINE h == NodeRemovedFrom(house[p], n)
    <2>5. /\ Entry(h, n) = NoId /\ ~KnownIn(h, n)
          /\ \A m \in Node \ {n} : Entry(h, m) = Entry(house[p], m)
      BY <2>1, <1>c, NodeRemovedFromEntry, NodeRemovedFromType
    <2> HIDE DEF h
    <2>6. \A b \in Node : house'[b] = IF b = p THEN h ELSE house[b]
      BY <1>4 DEF Block, TypeOK, h
    <2>7. OwnKept
      BY <2>5, <2>6
    <2> QED  BY <1>0, <2>1, <2>4, <2>7
  <1>5. ASSUME NEW p \in Node, p \in up, NEW m \in Pdu,
               m.kind = "user" => m.user.id = inc[p],
               link' = Broadcast(link, p, m),
               UNCHANGED <<up, inc, house>>
        PROVE  IdInv' /\ IdsGrow
    <2>1. link \in Links /\ inc[p] \in Nat
      BY DEF TypeOK, Links
    <2>2. \A q \in Node : Moved(link[p][q], link'[p][q], inc[p])
      BY <1>5, <2>1, BroadcastMoves
    <2>3. \A a \in Node \ {p} : link'[a] = link[a]
      BY <1>5 DEF Broadcast, TypeOK
    <2>4. Moves
      BY <2>2, <2>3, MovedSame
    <2>5. DownEmpty
      BY <1>5, <2>3 DEF IdInv
    <2> QED  BY <1>0, <1>a, <1>5, <2>4, <2>5
  <1>6. ASSUME NEW p \in Node, p \in up, NEW r \in Room \cup {NoRoom},
               UpdateUser(p, r), UNCHANGED <<up, inc, house>>
        PROVE  IdInv' /\ IdsGrow
    <2> DEFINE m == UserPdu([id |-> inc[p], room |-> r])
    <2>1. m \in Pdu /\ m.user.id = inc[p]
      BY PduType DEF TypeOK, UserEntry, UserPdu
    <2>2. link' = Broadcast(link, p, m)
      BY <1>6 DEF UpdateUser, Announce
    <2> HIDE DEF m
    <2> QED  BY <1>5, <1>6, <2>1, <2>2
  <1>7. ASSUME NEW p \in Node, OpenRoomSettings(p)
        PROVE  IdInv' /\ IdsGrow
    BY <1>6, <1>7 DEF OpenRoomSettings
  <1>8. ASSUME NEW p \in Node, AcceptRoomSettings(p)
        PROVE  IdInv' /\ IdsGrow
    <2> DEFINE m == RoomPdu(selfRoom[p])
    <2>1. m \in Pdu /\ m.kind # "user"
      BY <1>8, PduType DEF AcceptRoomSettings, TypeOK, RoomPdu
    <2>2. /\ link' = Broadcast(link, p, m) /\ p \in up
          /\ UNCHANGED <<up, inc, house>>
      BY <1>8 DEF AcceptRoomSettings, Announce
    <2> HIDE DEF m
    <2> QED  BY <1>5, <2>1, <2>2
  <1>9. ASSUME NEW p \in Node, EnterRoom(p)
        PROVE  IdInv' /\ IdsGrow
    BY <1>6, <1>9 DEF EnterRoom
  <1>10. ASSUME NEW p \in Node, LeaveRoom(p)
         PROVE  IdInv' /\ IdsGrow
    BY <1>6, <1>10 DEF LeaveRoom
  <1>11. ASSUME NEW p \in Node, Refresh(p)
         PROVE  IdInv' /\ IdsGrow
    <2>1. p \in up /\ UNCHANGED <<up, inc, house>> /\ inc[p] \in Nat
      BY <1>11 DEF Refresh, TypeOK
    <2>2. \A a, b \in Node : \/ link'[a][b] = link[a][b]
                             \/ a = p /\ link'[a][b] = Append(link[a][b], Req)
      BY <1>11 DEF Refresh, TypeOK
    <2>3. \A b \in Node : Moved(link[p][b], Append(link[p][b], Req), inc[p])
      <3>1. \A b \in Node : /\ link[p][b] \in Seq(Pdu)
                            /\ Append(link[p][b], Req) = link[p][b] \o <<Req>>
        BY DEF TypeOK
      <3>2. <<Req>> \in Seq(Pdu) /\ Fresh(<<Req>>, inc[p])
        BY <2>1, PduType, FreshOne DEF Req
      <3> QED  BY <2>1, <3>1, <3>2, MovedAppended
    <2>4. ASSUME NEW a \in Node, NEW b \in Node
          PROVE  Moved(link[a][b], link'[a][b], inc[a])
      <3>1. CASE link'[a][b] = link[a][b]
        BY <3>1, MovedSame
      <3>2. CASE a = p /\ link'[a][b] = Append(link[a][b], Req)
        BY <2>3, <3>2
      <3> QED  BY <2>2, <3>1, <3>2
    <2>5. DownEmpty
      BY <2>1, <2>2 DEF IdInv
    <2> QED  BY <1>0, <1>a, <2>1, <2>4, <2>5
  <1>12. ASSUME NEW p \in Node, Crash(p)
         PROVE  IdInv' /\ IdsGrow
    <2>1. \A a, b \in Node :
             link'[a][b] = IF b = p THEN <<>> ELSE link[a][b]
      BY <1>12 DEF Crash, TypeOK
    <2>2. \A a \in Node : link[a][p] \in Seq(Pdu) /\ inc[a] \in Nat
      BY DEF TypeOK
    <2>3. Moves
      BY <2>1, <2>2, MovedLost, MovedSame
    <2>4. DownEmpty
      BY <1>12, <2>1 DEF Crash, IdInv
    <2>5. \A b \in Node : house'[b] = IF b = p THEN EmptyHouse ELSE house[b]
      BY <1>12 DEF Crash, TypeOK
    <2>6. \A a \in Node : Entry(EmptyHouse, a) = NoId /\ ~KnownIn(EmptyHouse, a)
      BY DEF Entry, EmptyHouse, KnownIn
    <2>7. OwnKept
      BY <2>5, <2>6
    <2> QED  BY <1>0, <1>12, <2>3, <2>4, <2>7 DEF Crash
  <1>13. ASSUME NEW p \in Node, Restart(p)
         PROVE  IdInv' /\ IdsGrow
    <2>1. /\ p \notin up /\ up' = up \cup {p}
          /\ house' = house /\ link' = link
          /\ \A a \in Node : /\ inc[a] \in Nat /\ inc'[a] \in Nat
                             /\ inc[a] <= inc'[a]
                             /\ a # p => inc'[a] = inc[a]
      BY <1>13 DEF Restart, TypeOK
    <2>2. ASSUME NEW a \in Node, NEW b \in Node
          PROVE  /\ Entry(house[b], a) <= inc'[a]
                 /\ Ordered(link[a][b], Entry(house[b], a), inc'[a])
      <3> DEFINE e == Entry(house[b], a)
                 s == link[a][b]
      <3>1. /\ e \in Nat /\ s \in Seq(Pdu) /\ e <= inc[a]
            /\ Ordered(s, e, inc[a])
        <4>1. e \in Nat
          BY EntryType DEF TypeOK
        <4>2. s \in Seq(Pdu)
          BY DEF TypeOK
        <4>3. e <= inc[a] /\ Ordered(s, e, inc[a])
          BY DEF IdInv
        <4> QED  BY <4>1, <4>2, <4>3
      <3>2. inc[a] \in Nat /\ inc'[a] \in Nat /\ inc[a] <= inc'[a]
        BY <2>1
      <3> HIDE DEF e, s
      <3>3. Ordered(s, e, inc'[a]) /\ e <= inc'[a]
        BY <3>1, <3>2, OrderedToHigher
      <3> QED  BY <3>3 DEF e, s
    <2>3. \A a \in Node : Fresh(link[a][a], inc'[a])
      BY <2>1 DEF IdInv, Fresh
    <2>4. IdInv'
      BY <2>1, <2>2, <2>3 DEF IdInv
    <2>5. IdsGrow
      BY <2>1, <1>a, MovesGrow
    <2> QED  BY <2>4, <2>5
  <1>14. CASE UNCHANGED vars
    BY <1>0, <1>a, <1>b, <1>14 DEF vars
  <1> QED
    BY <1>1, <1>2, <1>3, <1>4, <1>7, <1>8, <1>9, <1>10, <1>11, <1>12, <1>13,
       <1>14 DEF Next

LEMMA InitIds == Init => IdInv
  <1> SUFFICES ASSUME Init, NEW p \in Node, NEW q \in Node
               PROVE  /\ Entry(house[q], p) <= inc[p]
                      /\ Ordered(link[p][q], Entry(house[q], p), inc[p])
                      /\ Fresh(link[p][p], inc[p])
                      /\ p \in up
    BY DEF IdInv
  <1>1. Entry(house[q], p) = 0 /\ inc[p] = 1 /\ p \in up
    BY DEF Init, Entry, KnownIn, EmptyHouse, NoId, FirstId
  <1>2. link[p][q] = <<>> /\ link[p][p] = <<>>
    BY DEF Init
  <1> QED  BY <1>1, <1>2 DEF Ordered, Fresh

\* In every lobby, with any number of restarts, a replaced id stays replaced.
THEOREM IdsNeverRegress == Spec => IdNeverRegresses
  <1> DEFINE A == \A q \in up, n \in Node :
                    (KnownIn(house[q], n) /\ KnownIn(house'[q], n))
                    => house'[q].users[n].id >= house[q].users[n].id
  <1>1. TypeOK /\ TypeOK' /\ IdInv /\ [Next]_vars => IdInv' /\ [A]_vars
    <2>1. TypeOK /\ TypeOK' /\ IdInv /\ [Next]_vars => IdInv' /\ IdsGrow
      BY NextIds
    <2>2. TypeOK /\ TypeOK' /\ IdsGrow => A
      <3> SUFFICES ASSUME TypeOK, TypeOK', IdsGrow,
                          NEW q \in up, NEW n \in Node,
                          KnownIn(house[q], n), KnownIn(house'[q], n)
                   PROVE  house'[q].users[n].id >= house[q].users[n].id
        OBVIOUS
      <3>1. q \in Node
        BY DEF TypeOK
      <3>2. /\ house[q].users[n].id \in Nat
            /\ house'[q].users[n].id \in Nat
        BY <3>1 DEF TypeOK, House, UserEntry, KnownIn
      <3> QED  BY <3>1, <3>2 DEF IdsGrow
    <2> QED  BY <2>1, <2>2
  <1>2. IdNeverRegresses <=> [][A]_vars
    BY DEF IdNeverRegresses
  <1> HIDE DEF A
  <1> QED  BY <1>1, <1>2, InitIds, TypeCorrect, PTL DEF Spec
=============================================================================
