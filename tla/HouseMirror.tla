----------------------------- MODULE HouseMirror -----------------------------
(***************************************************************************)
(* From the groups to the screen: two group handlers of the networking     *)
(* thread tell the GUI what changes in their houses, the GUI enters it in  *)
(* its model of the house, and the lists of users and rooms follow         *)
(* (gui/house_app.cpp, model/house.cpp, multi_feed, gui/view).             *)
(*                                                                         *)
(* The GUI keeps the model twice: the views are given the new one, and     *)
(* find what it was before in the previous one, which follows when they    *)
(* are done.  The room window of a host shows an alert when it opens for   *)
(* the first time; messages go on being handled under the alert, and the   *)
(* previous model of the message that opened it follows after theirs.      *)
(***************************************************************************)
EXTENDS HouseViews, Sequences

CONSTANTS Peer,      \* the addresses that peers have in each group
          Self,      \* the id of the user, who may host
          Hosted,    \* the room he hosts when he does
          MaxUnder   \* bound on the messages that are handled under the alert

ASSUME MirrorAssumption == /\ Peer \subseteq Group \X Node
                           /\ Self \in Id /\ Hosted \in Room
                           /\ MaxUnder \in Nat

VARIABLES
    handler,   \* the houses of the group handlers
    queue,     \* messages to the GUI
    house,     \* the model                              (house_model)
    prev,      \* the model before the message           (house_model_prev)
    outer,     \* the message whose handler shows the alert, if one does
    alerted,   \* the alert was shown                    (one_time_alert/send_ip)
    users,     \* the list of users in the house window
    inRoom,    \* the list of users of a room window
    rooms,     \* the list of rooms in the house window
    past       \* history, for the properties

vars == <<handler, queue, house, prev, outer, alerted, users, inRoom, rooms, past>>

Message == [kind : {"user", "user_left", "room", "room_remove"}, grp : Group,
            node : Node, id : Id \cup {NoId}, room : Room \cup {NoRoom},
            sameTopic : BOOLEAN]

ASSUME MessageAssumption == NoItem \notin Message

Msg(kind, g, n, i, r) == [kind |-> kind, grp |-> g, node |-> n, id |-> i,
                          room |-> r, sameTopic |-> FALSE]

\*   twins      ids that two nodes of one group have had at a time
\*   uncounted  rooms whose players changed by news of a group that does not
\*              list them, since the list of rooms last counted
\*   under      the messages that were handled under the alert: the previous
\*              model lags behind then, and is told them in another order
Past == [twins : SUBSET Id, uncounted : SUBSET Room, under : 0..MaxUnder]

Lagged == past.under > 0

NoMessage == NoItem

Init == /\ handler = [g \in Group |-> EmptyHouse]
        /\ queue = <<>>
        /\ house = [g \in Group |-> EmptyModel]
        /\ prev = house
        /\ outer = NoMessage
        /\ alerted \in BOOLEAN
        /\ users = NewUsersView(NoRoom)
        /\ inRoom = NewUsersView(Hosted)
        /\ rooms = [r \in Room |-> NoItem]
        /\ past = [twins |-> {}, uncounted |-> {}, under |-> 0]

-----------------------------------------------------------------------------
(* The networking thread. *)

\* _room_closed_update
ClosedMsgs(h, g, n, r) ==
    IF ListedIn(h, r) /\ h.rooms[r] = n
    THEN <<Msg("room_remove", g, n, NoId, r)>> ELSE <<>>

\* Faulty: the GUI is not told that the room of who left closed.
ErasedMsgs_Quiet(h, g, n) == <<Msg("user_left", g, n, h.users[n].id, NoRoom)>>

\* user_erased
ErasedMsgs(h, g, n) ==
    ClosedMsgs(h, g, n, h.users[n].room)
        \o <<Msg("user_left", g, n, h.users[n].id, NoRoom)>>

\* user_update
UpdateMsgs(h, g, n, u) ==
    (IF Reincarnated(h, n, u) THEN ErasedMsgs(h, g, n) ELSE <<>>)
        \o (IF LeavesRoom(h, n, u)
            THEN ClosedMsgs(BeforeRoomCheck(h, n, u), g, n, h.users[n].room) ELSE <<>>)
        \o <<Msg("user", g, n, u.id, u.room)>>

Tells(g, h, msgs) ==
    /\ queue = <<>>
    /\ handler' = [handler EXCEPT ![g] = h]
    /\ queue' = msgs
    /\ UNCHANGED <<house, prev, outer, alerted, users, inRoom, rooms>>

\* node_added, and user_inserted
NodeAdded(g, n) ==
    /\ <<g, n>> \in Peer /\ ~KnownIn(handler[g], n)
    /\ Tells(g, UserInsert(handler[g], n), <<Msg("user", g, n, NoId, NoRoom)>>)
    /\ UNCHANGED past

\* The id is given to two nodes of the group.
Twins(h, n, i) == \E m \in Node \ {n} : KnownIn(h, m) /\ h.users[m].id = i

\* A user update.  A program connects with its id known.
UserUpdated(g, n, i, r) ==
    /\ KnownIn(handler[g], n)
    /\ LET u == [id |-> i, room |-> r]
       IN Tells(g, RecvUserUpdate(handler[g], n, u), UpdateMsgs(handler[g], g, n, u))
    /\ past' = IF Twins(handler[g], n, i) THEN [past EXCEPT !.twins = @ \cup {i}] ELSE past

\* node_removed, and user_erased
NodeRemoved(g, n) ==
    /\ KnownIn(handler[g], n)
    /\ Tells(g, NodeRemovedFrom(handler[g], n), ErasedMsgs(handler[g], g, n))
    /\ UNCHANGED past

\* A room update, which its owner sends; his id may not have come yet.
RoomUpdated(g, n, r) ==
    LET h == handler[g]
    IN /\ KnownIn(h, n)
       /\ r = Hosted => h.users[n].id \in {NoId, Self}
       /\ ListedIn(h, r) => h.rooms[r] = n
       /\ \E same \in BOOLEAN :
            /\ same => ListedIn(h, r)
            /\ Tells(g, RecvRoomUpdate(h, n, r),
                     <<[Msg("room", g, n, NoId, r) EXCEPT !.sameTopic = same]>>)
       /\ UNCHANGED past

-----------------------------------------------------------------------------
(* The GUI thread. *)

\* _handle_model_update
Entered(hs, m) ==
    CASE m.kind = "user"        -> [hs EXCEPT ![m.grp] = ModelUserUpdate(@, m.node, m.id, m.room)]
      [] m.kind = "user_left"   -> [hs EXCEPT ![m.grp] = ModelUserErase(@, m.node, m.id)]
      [] m.kind = "room"        -> [hs EXCEPT ![m.grp] = ModelRoomUpdate(@, m.room)]
      [] m.kind = "room_remove" -> [hs EXCEPT ![m.grp] = ModelRoomErase(@, m.room)]

\* view::users::handle_message
UsersAfter(v, hs, m) ==
    CASE m.kind = "user"      -> UpdateUser(v, hs, m.grp, m.node)
      [] m.kind = "user_left" -> RemoveUser(v, hs, m.grp, m.node, m.id)
      [] m.kind = "room"      -> RoomUpdate(v, hs, prev, m.grp, m.room, m.sameTopic)
      [] m.kind = "room_remove" -> v

\* view::rooms::handle_message
RoomsAfter(rv, hs, m) ==
    CASE m.kind \in {"user", "user_left"} -> RoomsUserUpdate(rv, hs, prev, m.grp, m.node)
      [] m.kind = "room"        -> UpdateRoom(rv, hs, m.grp, m.room)
      [] m.kind = "room_remove" -> RemoveRoom(rv, hs, m.grp, m.room)

\* What _cond_open_room_window asks of the group the message is of: the user
\* is in a room of his own that the group lists.
OpensRoomWindow(hs, m) ==
    LET self == FindByName(hs[m.grp], Self)
    IN /\ m.kind \in {"user", "room"}
       /\ self # NoNode
       /\ hs[m.grp].users[self].room = Hosted
       /\ Hosted \in hs[m.grp].rooms

ShownPlayers(rv, r) == IF rv[r] = NoItem THEN 0 ELSE rv[r].players

\* The rooms whose players the message changes without their being counted.
Uncounted(hs, rv, m) ==
    {r \in Room : /\ ShownPlayers(rv, r) # Players(hs, r)
                  /\ \/ r \in past.uncounted
                     \/ /\ Players(hs, r) # Players(house, r)
                        /\ r \notin hs[m.grp].rooms}

\* _handle_messenger, one message.  Its handler may show the alert.
HandleMessage ==
    /\ queue # <<>>
    /\ outer # NoMessage => past.under < MaxUnder
    /\ LET m  == Head(queue)
           hs == Entered(house, m)
       IN /\ house' = hs
          /\ users' = UsersAfter(users, hs, m)
          /\ inRoom' = UsersAfter(inRoom, hs, m)
          /\ rooms' = RoomsAfter(rooms, hs, m)
          /\ past' = [past EXCEPT !.uncounted = Uncounted(hs, rooms', m),
                                    !.under = IF outer = NoMessage THEN @ ELSE @ + 1]
          /\ \/ prev' = Entered(prev, m) /\ UNCHANGED <<outer, alerted>>
             \/ /\ OpensRoomWindow(hs, m) /\ ~alerted
                /\ outer' = m /\ alerted' = TRUE
                /\ UNCHANGED prev
    /\ queue' = Tail(queue)
    /\ UNCHANGED handler

CloseAlert ==
    /\ outer # NoMessage
    /\ prev' = Entered(prev, outer)
    /\ outer' = NoMessage
    /\ UNCHANGED <<handler, queue, house, alerted, users, inRoom, rooms, past>>

Next ==
    \/ \E g \in Group, n \in Node :
          \/ NodeAdded(g, n) \/ NodeRemoved(g, n)
          \/ \E i \in Id, r \in Room \cup {NoRoom} : UserUpdated(g, n, i, r)
          \/ \E r \in Room : RoomUpdated(g, n, r)
    \/ HandleMessage
    \/ CloseAlert

Spec == Init /\ [][Next]_vars

-----------------------------------------------------------------------------

TypeOK ==
    /\ handler \in [Group -> House]
    /\ queue \in Seq(Message)
    /\ house \in [Group -> Model]
    /\ prev \in [Group -> Model]
    /\ outer \in Message \cup {NoMessage}
    /\ alerted \in BOOLEAN
    /\ users \in UsersView /\ inRoom \in UsersView
    /\ rooms \in [Room -> RoomItem \cup {NoItem}]
    /\ past \in Past

\* When the GUI has handled all it was told, its model has the users and the
\* rooms that the handlers have (model/house.cpp, house_app.cpp:255-350).
Mirrors ==
    queue = <<>> => \A g \in Group :
        /\ house[g].users = handler[g].users
        /\ house[g].rooms = {r \in Room : handler[g].rooms[r] \in Node}

\* Who is found by an id has it, also when a node went that had the same id;
\* and a user who is known by his id is found by it (_grp_str_map), unless two
\* nodes of a group have had it.
NamesFound ==
    \A g \in Group, i \in Id :
        LET n == FindByName(house[g], i)
        IN /\ n # NoNode => house[g].users[n].id = i
           /\ i \notin past.twins /\ n = NoNode =>
                 \A m \in Node : Has(house[g], m) => house[g].users[m].id # i

Listed(v, hs) ==
    {i \in Id : \E g \in Group, n \in Node :
        Has(hs[g], n) /\ hs[g].users[n].id = i
                      /\ v.room \in {NoRoom, hs[g].users[n].room}}

ConnectedBy(hs, i) ==
    {g \in Group : \E n \in Node : Has(hs[g], n) /\ hs[g].users[n].id = i}

\* The house window lists every user once, under his id when it is known,
\* with the groups he is connected by and in the right part of the list; a
\* room window lists those who are in its room by any of the groups
\* (view/users.cpp:390-546, multi_feed/user_map.h).  Ids that two nodes of a
\* group have had are left out.
UsersShown ==
    /\ users.unids = {x \in Group \X Node : Has(house[x[1]], x[2])
                                            /\ house[x[1]].users[x[2]].id = NoId}
    /\ \A i \in Id \ past.twins :
        /\ IF users.ids[i] = NoItem THEN i \notin Listed(users, house)
           ELSE /\ i \in Listed(users, house)
                /\ users.ids[i].conn = ConnectedBy(house, i)
                /\ users.ids[i].waiting =
                      (\E r \in Room : i \in PlayersOf(house, r))
        /\ (inRoom.ids[i] # NoItem) = (i \in Listed(inRoom, house))

\* A room is listed when a group that lists it has somebody in it, unless news
\* came under the alert, and is fed by groups that list it
\* (view/rooms.cpp:242-312, multi_feed/room_map.h).
RoomsShown ==
    \A r \in Room, g \in Group :
        /\ rooms[r] # NoItem /\ g \in rooms[r].feeds => r \in house[g].rooms
        /\ /\ r \in house[g].rooms
           /\ \E n \in Node : Has(house[g], n) /\ house[g].users[n].room = r
           /\ ~Lagged
           => rooms[r] # NoItem /\ g \in rooms[r].feeds

\* The number of players shown is the number the model has, unless it changed
\* by news of a group that does not list the room, or news came under the
\* alert: the list then looks in the wrong room for who left it
\* (view/rooms.cpp:212-240, house_app.cpp:255-350).
PlayersFresh ==
    \A r \in Room \ past.uncounted :
        rooms[r] # NoItem /\ ~Lagged => rooms[r].players = Players(house, r)
=============================================================================
