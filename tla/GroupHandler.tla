---------------------------- MODULE GroupHandler ----------------------------
(***************************************************************************)
(* The house a networking thread keeps for one group of peers, and what    *)
(* the group handler does to it: the pure part of                          *)
(* chat/house.h, chat/comm/netcomgrp_adapter.h and                         *)
(* networking/impl/group_handler_base.cpp.                                 *)
(*                                                                         *)
(* A house lists users by the group node they sit at (user_key compares    *)
(* nodes only) and rooms by their id.  A user entry has the user's id      *)
(* string, a number here that grows with every start of his program, and   *)
(* the id of the room he says he is in.  A room entry has its owner's      *)
(* node.  Everything else in them is payload.                              *)
(***************************************************************************)
EXTENDS Naturals

CONSTANTS Node,     \* addresses a peer can have in the group
          Room,     \* room ids
          NoRoom,   \* the empty room id: the user is in no room
          NoNode,   \* the null node: a room whose owner was not found
          Absent    \* not listed in the house

NoId == 0           \* the empty id string, before the first user update

UserEntry == [id : Nat, room : Room \cup {NoRoom}]

ASSUME HandlerAssumption ==
    /\ NoRoom \notin Room
    /\ NoNode \notin Node
    /\ Absent \notin Node \cup {NoNode}
    /\ Absent \notin UserEntry

House == [users : [Node -> UserEntry \cup {Absent}],
          rooms : [Room -> Node \cup {NoNode, Absent}]]

EmptyHouse == [users |-> [n \in Node |-> Absent],
               rooms |-> [r \in Room |-> Absent]]

KnownIn(h, n)  == h.users[n] # Absent
ListedIn(h, r) == r \in Room /\ h.rooms[r] # Absent

WithUser(h, n, u) == [users |-> [h.users EXCEPT ![n] = u], rooms |-> h.rooms]
WithRoom(h, r, o) == [users |-> h.users, rooms |-> [h.rooms EXCEPT ![r] = o]]

-----------------------------------------------------------------------------
(* chat::house *)

UserInsert(h, n) ==
    IF KnownIn(h, n) THEN h
    ELSE WithUser(h, n, [id |-> NoId, room |-> NoRoom])

UserErase(h, n) == WithUser(h, n, Absent)

RoomErase(h, r) == WithRoom(h, r, Absent)

-----------------------------------------------------------------------------
(* group_handler_base, the callbacks of the adapter *)

\* The room r goes when its owner n leaves it.
RoomClosedUpdate(h, n, r) ==
    IF ListedIn(h, r) /\ h.rooms[r] = n THEN RoomErase(h, r) ELSE h

\* Faulty: the room outlives its owner.
UserErased_KeepsRoom(h, n) == h

\* user_erased: the callback only closes the room, the caller drops the entry.
UserErased(h, n) == RoomClosedUpdate(h, n, h.users[n].room)

\* The id string of n changed: his program was started again.
Reincarnated(h, n, u) ==
    /\ h.users[n].id # NoId
    /\ u.id # NoId
    /\ h.users[n].id # u.id

\* The house in which user_update looks the room left behind up.
BeforeRoomCheck(h, n, u) ==
    IF Reincarnated(h, n, u) THEN UserErased(h, n) ELSE h

LeavesRoom(h, n, u) ==
    /\ h.users[n].room # NoRoom
    /\ h.users[n].room # u.room

\* user_update uses the iterator room_find returned without comparing it
\* with room_end: this is when there is no room behind it.
DereferencesEnd(h, n, u) ==
    /\ KnownIn(h, n)
    /\ LeavesRoom(h, n, u)
    /\ ~ListedIn(BeforeRoomCheck(h, n, u), h.users[n].room)

\* Faulty: a user who was started again is entered anew, with no id.
UserUpdate_Reset(h, n, u) ==
    WithUser(BeforeRoomCheck(h, n, u), n,
             [id   |-> IF Reincarnated(h, n, u) THEN NoId ELSE u.id,
              room |-> u.room])

\* user_update.  When there is no room behind the iterator, what the
\* comparison reads decides nothing: the room is looked up again and is not
\* there (or the process dies on the read).
UserUpdate(h, n, u) ==
    LET closed == IF LeavesRoom(h, n, u)
                  THEN RoomClosedUpdate(BeforeRoomCheck(h, n, u), n,
                                        h.users[n].room)
                  ELSE BeforeRoomCheck(h, n, u)
        newId  == IF u.id = NoId THEN h.users[n].id ELSE u.id
    IN  WithUser(closed, n, [id |-> newId, room |-> u.room])

-----------------------------------------------------------------------------
(* netcomgrp_adapter, the events of the group *)

NodeRemovedFrom(h, n) ==
    IF KnownIn(h, n) THEN UserErase(UserErased(h, n), n) ELSE h

\* Faulty: only a user whose id is known is updated.
RecvUserUpdate_IdKnown(h, n, u) ==
    IF KnownIn(h, n) /\ h.users[n].id # NoId THEN UserUpdate(h, n, u) ELSE h

RecvUserUpdate(h, n, u) == IF KnownIn(h, n) THEN UserUpdate(h, n, u) ELSE h

\* A room nobody had listed is entered by whoever tells of it, and belongs
\* to the sender if he is known.  Of a listed room only its owner's updates
\* are taken, and those change its payload alone.
RecvRoomUpdate(h, n, r) ==
    IF r = NoRoom \/ ListedIn(h, r) THEN h
    ELSE WithRoom(h, r, IF KnownIn(h, n) THEN n ELSE NoNode)
=============================================================================
