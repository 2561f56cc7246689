----------------------------- MODULE GroupLobby -----------------------------
(***************************************************************************)
(* The peers of one group and what each lists of the others.               *)
(*                                                                         *)
(* A peer runs one group handler over a house.  When the group tells it of *)
(* a node it enters a user it knows nothing of yet and asks him who he is; *)
(* later changes come as broadcasts: a "user" PDU carries the whole state  *)
(* of its sender, a "room" PDU the room its sender hosts.  No PDU says     *)
(* that a room is gone: a receiver closes it when its owner says he is     *)
(* somewhere else, or is gone himself.                                     *)
(*                                                                         *)
(* The group itself (netcomgrp over reudp) is not part of the repository.  *)
(* It is taken to deliver what one node sends to another in order, to hand *)
(* over data of the nodes it has announced only, to deliver a broadcast to *)
(* the sender too, and to lose what is under way when a link goes down.    *)
(***************************************************************************)
EXTENDS GroupHandler, Sequences

CONSTANTS MaxFaults,  \* crashes, lost links and blocked users, together
          MaxFlight   \* PDUs under way on the links of a peer whose user acts

ASSUME LobbyAssumption == MaxFaults \in Nat /\ MaxFlight \in Nat

VARIABLES
    up,        \* the nodes whose program runs
    inc,       \* inc[p]: how often it was started, the id of its user
    selfRoom,  \* selfRoom[p]: the room its own user is in  (_self_user)
    hosted,    \* hosted[p]: the last room it announced      (_self_room)
    member,    \* member[p]: the nodes the group has announced to p
    house,     \* house[p]: what p lists
    blocked,   \* blocked[p]: the addresses p blocks
    link,      \* link[p][q]: PDUs from p to q, oldest first
    opener,    \* opener[r]: the node that generated the room id r
    faults,
    missed     \* history: missed[p] are the nodes p's present state was not
               \* sent to, who know of it only when they ask

vars == <<up, inc, selfRoom, hosted, member, house, blocked, link, opener,
          faults, missed>>

-----------------------------------------------------------------------------
(* PDUs and sending *)

Req        == [kind |-> "req"]
UserPdu(u) == [kind |-> "user", user |-> u]
RoomPdu(r) == [kind |-> "room", room |-> r]
BlockedPdu == [kind |-> "blocked"]

Pdu == {Req, BlockedPdu}
         \cup [kind : {"user"}, user : UserEntry]
         \cup [kind : {"room"}, room : Room]

Self(p) == [id |-> inc[p], room |-> selfRoom[p]]

\* Faulty: the room is left out of the answer.
Answer_UserOnly(p) == <<UserPdu(Self(p))>>

\* The answer to a request: the user, and his room when he hosts it.
Answer(p) ==
    <<UserPdu(Self(p))>> \o
    IF selfRoom[p] # NoRoom /\ selfRoom[p] = hosted[p]
    THEN <<RoomPdu(hosted[p])>> ELSE <<>>

\* What p sends reaches only programs that run.
SendTo(l, p, q, pdus) ==
    IF q \in up THEN [l EXCEPT ![p][q] = @ \o pdus] ELSE l

Broadcast(l, p, pdu) ==
    [l EXCEPT ![p] = [q \in Node |-> IF q \in member[p] \cap up
                                     THEN Append(@[q], pdu) ELSE @[q]]]


-----------------------------------------------------------------------------

\* Faulty: the users connect before their ids are generated.
FirstId_None == NoId

\* generate_id comes before net_connect.
FirstId == 1

Init == /\ up = Node
        /\ inc = [p \in Node |-> FirstId]
        /\ selfRoom = [p \in Node |-> NoRoom]
        /\ hosted = [p \in Node |-> NoRoom]
        /\ member = [p \in Node |-> {}]
        /\ house = [p \in Node |-> EmptyHouse]
        /\ blocked = [p \in Node |-> {}]
        /\ link = [p \in Node |-> [q \in Node |-> <<>>]]
        /\ opener = [r \in Room |-> NoNode]
        /\ faults = 0
        /\ missed = [p \in Node |-> Node]

-----------------------------------------------------------------------------
(* Events of the group *)

\* Faulty: the list of blocked addresses is not looked at.
NotBlocked_Always(p, n) == TRUE

\* Events and data of blocked addresses are ignored.
NotBlocked(p, n) == n \notin blocked[p]

\* Entering a user and asking him who he is; the own user is told, not asked,
\* though the request goes out all the same.
HouseWith(h, p, n) ==
    IF n = p THEN UserUpdate(UserInsert(h, n), n, Self(p))
    ELSE UserInsert(h, n)

NodeAdded(p, n) ==
    /\ p \in up /\ n \in up /\ n \notin member[p]
    /\ member' = [member EXCEPT ![p] = @ \cup {n}]
    /\ IF NotBlocked(p, n)
       THEN /\ house' = [house EXCEPT ![p] = HouseWith(@, p, n)]
            /\ link' = IF KnownIn(house[p], n) THEN link
                       ELSE SendTo(link, p, n, <<Req>>)
       ELSE UNCHANGED <<house, link>>
    /\ UNCHANGED <<up, inc, selfRoom, hosted, blocked, opener, faults,
                   missed>>

\* A time-out of the link, or the group noticing that n is gone.  What n had
\* under way to p is lost.
NodeRemoved(p, n) ==
    /\ p \in up /\ n \in member[p] /\ n # p
    /\ n \in up => faults < MaxFaults
    /\ member' = [member EXCEPT ![p] = @ \ {n}]
    /\ house' = [house EXCEPT ![p] = NodeRemovedFrom(@, n)]
    /\ link' = [link EXCEPT ![n][p] = <<>>]
    /\ faults' = IF n \in up THEN faults + 1 ELSE faults
    /\ missed' = [missed EXCEPT ![n] = @ \cup {p}]
    /\ UNCHANGED <<up, inc, selfRoom, hosted, blocked, opener>>

\* p takes the oldest PDU of n: data_received.
Receivable(p, n) == p \in up /\ n \in member[p] /\ link[n][p] # <<>>

Taken(p, n) == [link EXCEPT ![n][p] = Tail(@)]

ReceiveFromBlocked(p, n) ==
    /\ Receivable(p, n)
    /\ ~NotBlocked(p, n)
    /\ link' = Taken(p, n)
    /\ UNCHANGED <<up, inc, selfRoom, hosted, member, house, blocked, opener,
                   faults, missed>>

ReceiveUserReq(p, n) ==
    /\ Receivable(p, n)
    /\ NotBlocked(p, n)
    /\ Head(link[n][p]).kind = "req"
    /\ link' = SendTo(Taken(p, n), p, n, Answer(p))
    /\ missed' = [missed EXCEPT ![p] = @ \ ({n} \cap up)]
    /\ UNCHANGED <<up, inc, selfRoom, hosted, member, house, blocked, opener,
                   faults>>

ReceiveUserUpdate(p, n) ==
    /\ Receivable(p, n)
    /\ NotBlocked(p, n)
    /\ Head(link[n][p]).kind = "user"
    /\ house' = [house EXCEPT
                   ![p] = RecvUserUpdate(@, n, Head(link[n][p]).user)]
    /\ link' = Taken(p, n)
    /\ UNCHANGED <<up, inc, selfRoom, hosted, member, blocked, opener, faults,
                   missed>>

ReceiveRoomUpdate(p, n) ==
    /\ Receivable(p, n)
    /\ NotBlocked(p, n)
    /\ Head(link[n][p]).kind = "room"
    /\ house' = [house EXCEPT
                   ![p] = RecvRoomUpdate(@, n, Head(link[n][p]).room)]
    /\ link' = Taken(p, n)
    /\ UNCHANGED <<up, inc, selfRoom, hosted, member, blocked, opener, faults,
                   missed>>

\* Payload for the GUI: the house keeps nothing of it.
ReceiveData(p, n) ==
    /\ Receivable(p, n)
    /\ NotBlocked(p, n)
    /\ Head(link[n][p]).kind = "blocked"
    /\ link' = Taken(p, n)
    /\ UNCHANGED <<up, inc, selfRoom, hosted, member, house, blocked, opener,
                   faults, missed>>

-----------------------------------------------------------------------------
(* Messages of the GUI to the networking thread *)

RoomToSend(p) == \A q \in Node : /\ Len(link[p][q]) < MaxFlight
                                 /\ Len(link[q][p]) < MaxFlight

Announce(p, pdu) ==
    /\ link' = Broadcast(link, p, pdu)
    /\ missed' = [missed EXCEPT ![p] = @ \cup (Node \ member[p])]

\* group_handler_base::update(user): the own user is in room r from now on.
UpdateUser(p, r) ==
    /\ selfRoom' = [selfRoom EXCEPT ![p] = r]
    /\ Announce(p, UserPdu([id |-> inc[p], room |-> r]))

\* The room settings open for a new room.
OpenRoomSettings(p) ==
    /\ p \in up /\ selfRoom[p] = NoRoom /\ RoomToSend(p)
    /\ \E r \in Room : /\ opener[r] = NoNode
                       /\ opener' = [opener EXCEPT ![r] = p]
                       /\ UpdateUser(p, r)
    /\ UNCHANGED <<up, inc, hosted, member, house, blocked, faults>>

\* The settings are accepted, for a new room or for the one already hosted:
\* group_handler_base::update(room).
AcceptRoomSettings(p) ==
    /\ p \in up /\ selfRoom[p] # NoRoom /\ RoomToSend(p)
    /\ opener[selfRoom[p]] = p
    /\ hosted' = [hosted EXCEPT ![p] = selfRoom[p]]
    /\ Announce(p, RoomPdu(selfRoom[p]))
    /\ UNCHANGED <<up, inc, selfRoom, member, house, blocked, opener, faults>>

\* A guest enters a room he has listed.
EnterRoom(p) ==
    /\ p \in up /\ selfRoom[p] = NoRoom /\ RoomToSend(p)
    /\ \E r \in Room : /\ ListedIn(house[p], r)
                       /\ opener[r] # p
                       /\ UpdateUser(p, r)
    /\ UNCHANGED <<up, inc, hosted, member, house, blocked, opener, faults>>

\* The room window closes, or the settings of a new room are cancelled.
LeaveRoom(p) ==
    /\ p \in up /\ selfRoom[p] # NoRoom /\ RoomToSend(p)
    /\ UpdateUser(p, NoRoom)
    /\ UNCHANGED <<up, inc, hosted, member, house, blocked, opener, faults>>

\* refresh: ask every known user again.
Refresh(p) ==
    /\ p \in up /\ RoomToSend(p)
    /\ link' = [link EXCEPT ![p] =
                  [q \in Node |-> IF KnownIn(house[p], q) /\ q \in up
                                  THEN Append(@[q], Req) ELSE @[q]]]
    /\ UNCHANGED <<up, inc, selfRoom, hosted, member, house, blocked, opener,
                   faults, missed>>

\* handle_block_users: the address is on the list, its user is told and goes.
Block(p, n) ==
    /\ p \in up /\ n # p /\ n \notin blocked[p] /\ RoomToSend(p)
    /\ faults < MaxFaults
    /\ faults' = faults + 1
    /\ blocked' = [blocked EXCEPT ![p] = @ \cup {n}]
    /\ house' = [house EXCEPT ![p] = NodeRemovedFrom(@, n)]
    /\ link' = IF KnownIn(house[p], n)
               THEN SendTo(link, p, n, <<BlockedPdu>>) ELSE link
    /\ UNCHANGED <<up, inc, selfRoom, hosted, member, opener, missed>>

-----------------------------------------------------------------------------
(* The program dies and is started again, at the same address.  What it had *)
(* sent is still under way; its user gets a new id.                         *)

Crash(p) ==
    /\ p \in up /\ faults < MaxFaults
    /\ faults' = faults + 1
    /\ up' = up \ {p}
    /\ selfRoom' = [selfRoom EXCEPT ![p] = NoRoom]
    /\ hosted' = [hosted EXCEPT ![p] = NoRoom]
    /\ member' = [member EXCEPT ![p] = {}]
    /\ house' = [house EXCEPT ![p] = EmptyHouse]
    /\ blocked' = [blocked EXCEPT ![p] = {}]
    /\ link' = [q \in Node |-> [link[q] EXCEPT ![p] = <<>>]]
    /\ missed' = [q \in Node |-> IF q = p THEN Node ELSE missed[q] \cup {p}]
    /\ UNCHANGED <<inc, opener>>

Restart(p) ==
    /\ p \notin up
    /\ up' = up \cup {p}
    /\ inc' = [inc EXCEPT ![p] = @ + 1]
    /\ UNCHANGED <<selfRoom, hosted, member, house, blocked, link, opener,
                   faults, missed>>

-----------------------------------------------------------------------------

Receive(p, n) ==
    \/ ReceiveFromBlocked(p, n)
    \/ ReceiveUserReq(p, n)
    \/ ReceiveUserUpdate(p, n)
    \/ ReceiveRoomUpdate(p, n)
    \/ ReceiveData(p, n)

Next ==
    \/ \E p, n \in Node : \/ NodeAdded(p, n)
                          \/ NodeRemoved(p, n)
                          \/ Receive(p, n)
                          \/ Block(p, n)
    \/ \E p \in Node : \/ OpenRoomSettings(p)
                       \/ AcceptRoomSettings(p)
                       \/ EnterRoom(p)
                       \/ LeaveRoom(p)
                       \/ Refresh(p)
                       \/ Crash(p)
                       \/ Restart(p)

\* The networking thread takes what arrives, and the group announces the
\* nodes it has found.
Fairness == \A p, n \in Node : /\ WF_vars(Receive(p, n))
                               /\ WF_vars(NodeAdded(p, n))

Spec == Init /\ [][Next]_vars /\ Fairness

-----------------------------------------------------------------------------
(* Properties *)

\* Every variable keeps its shape; every user has an id by the time he is
\* announced.
TypeOK ==
    /\ up \subseteq Node
    /\ inc \in [Node -> Nat \ {0}]
    /\ selfRoom \in [Node -> Room \cup {NoRoom}]
    /\ hosted \in [Node -> Room \cup {NoRoom}]
    /\ member \in [Node -> SUBSET Node]
    /\ house \in [Node -> House]
    /\ blocked \in [Node -> SUBSET Node]
    /\ link \in [Node -> [Node -> Seq(Pdu)]]
    /\ opener \in [Room -> Node \cup {NoNode}]
    /\ faults \in Nat
    /\ missed \in [Node -> SUBSET Node]

\* A user at a blocked address is not listed: neither a group event that
\* announces him nor a PDU that was under way when he was blocked brings him
\* back (group_handler_base::node_added, data_received, handle_block_users).
BlockedGone ==
    \A p \in Node : \A n \in blocked[p] : ~KnownIn(house[p], n)

\* What a peer announced is listed by everyone it was sent to who has taken
\* it: the user with his present id and room, and the room he hosts, with
\* him as the owner.  Requests, answers and broadcasts that cross, restarts
\* and lost links leave no one behind who was not left out of a broadcast
\* (_recv_user_req, user_update, _recv_room_update).
UpToDate ==
    \A p, q \in Node :
        (/\ p \in up /\ q \in up
         /\ q \notin missed[p]
         /\ p \notin blocked[q]
         /\ link[p][q] = <<>>)
        => /\ house[q].users[p] = Self(p)
           /\ (selfRoom[p] # NoRoom /\ selfRoom[p] = hosted[p])
                => house[q].rooms[hosted[p]] = p

\* A room whose owner is listed as being in it closes in the very step in
\* which the owner is listed elsewhere, or not at all (user_erased,
\* user_update, _room_closed_update).
AttachedRoomCloses ==
    [][\A q \in up, n \in Node, r \in Room :
          (/\ KnownIn(house[q], n)
           /\ house[q].users[n].room = r
           /\ house[q].rooms[r] = n
           /\ KnownIn(house'[q], n) => house'[q].users[n].room # r)
          => ~ListedIn(house'[q], r)]_vars

\* An id that a later start of the same user's program has replaced never
\* comes back, whatever is still under way from the earlier one
\* (user_update's third special case).
IdNeverRegresses ==
    [][\A q \in up, n \in Node :
          (KnownIn(house[q], n) /\ KnownIn(house'[q], n))
          => house'[q].users[n].id >= house[q].users[n].id]_vars

\* A listed user nothing is known of is known, or gone, in the end: the
\* request that went out when the group announced him is answered, unless a
\* link goes down or a program dies meanwhile.  (Once that has happened, the
\* answer is owed to a request under way only: a program that restarts before
\* its absence is noticed is asked again by a refresh alone.)
\* node_added, _recv_user_req, user_update.
Unknown(q, n) ==
    /\ q \in up /\ n \in up
    /\ q \notin blocked[n]
    /\ KnownIn(house[q], n)
    /\ house[q].users[n].id = NoId

Asked(q, n) == faults > 0 => \E i \in DOMAIN link[q][n] : link[q][n][i] = Req

RequestAnswered ==
    \A q, n \in Node : \A k \in 0..MaxFaults :
        (Unknown(q, n) /\ Asked(q, n) /\ faults = k)
            ~> (~Unknown(q, n) \/ faults # k)

\* "Check if the user's update will close some room"
\* (group_handler_base.cpp:591): the room is there to be checked.
RoomCheckedExists ==
    \A p, n \in Node :
        (/\ Receivable(p, n)
         /\ NotBlocked(p, n)
         /\ Head(link[n][p]).kind = "user")
        => ~DereferencesEnd(house[p], n, Head(link[n][p]).user)
=============================================================================
