----------------------------- MODULE HouseViews -----------------------------
(***************************************************************************)
(* The lists of users and of rooms that the windows show: gui/view/users,  *)
(* gui/view/rooms and the maps under them, multi_feed, as operators.       *)
(*                                                                         *)
(* A list merges the groups: a user has one item, found by the string of   *)
(* his id, with the nodes that feed it from each group; one without an id  *)
(* has an item of his own until the id is known.  Qt's trees are external. *)
(***************************************************************************)
EXTENDS HouseModel, FiniteSets

CONSTANTS Group, NoItem

\* An item of a user: the nodes that feed it (_user_feed), and what it shows,
\* the groups he is connected by and whether he waits in a room.
UserItem == [feeds : [Group -> Node \cup {NoNode}], conn : SUBSET Group,
             waiting : BOOLEAN]

\*   room    shows the users of this room, or of all   (_room_id)
\*   ids     the items by id                           (user_map::_id_map)
\*   unids   the users without an id that have an item (user_map::_unid_list)
UsersView == [room : Room \cup {NoRoom}, ids : [Id -> UserItem \cup {NoItem}],
              unids : SUBSET (Group \X Node)]

NewUsersView(r) == [room |-> r, ids |-> [i \in Id |-> NoItem], unids |-> {}]

NewUserItem == [feeds |-> [g \in Group |-> NoNode], conn |-> {}, waiting |-> FALSE]

\* resolve_user_state: what the model says of those who feed the item.
Resolved(item, house) ==
    LET heard == {g \in Group : item.feeds[g] # NoNode /\ Has(house[g], item.feeds[g])}
    IN [item EXCEPT !.conn = heard,
                    !.waiting = \E g \in heard :
                                   house[g].users[item.feeds[g]].room # NoRoom]

Fed(item, house, g, n) == Resolved([item EXCEPT !.feeds[g] = n], house)

\* user_remove and what users::_remove_user does then
UserRemoved(item, house, g) ==
    LET left == [item EXCEPT !.feeds[g] = NoNode]
    IN IF \A h \in Group : left.feeds[h] = NoNode THEN NoItem ELSE Resolved(left, house)

\* users::_remove_user
RemoveUser(v, house, g, n, i) ==
    IF i = NoId THEN [v EXCEPT !.unids = @ \ {<<g, n>>}]
    ELSE IF v.ids[i] = NoItem THEN v
    ELSE LET item == UserRemoved(v.ids[i], house, g)
         IN [v EXCEPT !.ids[i] = item, !.unids = @ \ {<<g, n>>}]

\* Faulty: the item from before the id was known stays.
Identified_Keeps(v, g, n) == v

\* user_map::resolve
Identified(v, g, n) == [v EXCEPT !.unids = @ \ {<<g, n>>}]

\* users::_update_user with what the model has of the user.
UpdateUser(v, house, g, n) ==
    LET u       == house[g].users[n]
        belongs == v.room \in {NoRoom, u.room}
    IN IF u = Absent THEN v
       ELSE IF u.id = NoId
       THEN IF belongs THEN [v EXCEPT !.unids = @ \cup {<<g, n>>}]
            ELSE RemoveUser(v, house, g, n, NoId)
       ELSE IF belongs
       THEN LET item == IF v.ids[u.id] = NoItem THEN NewUserItem ELSE v.ids[u.id]
            IN Identified([v EXCEPT !.ids[u.id] = Fed(item, house, g, n)], g, n)
       ELSE RemoveUser(v, house, g, n, u.id)

\* users::_update_users, one after the other: each changes what is his.  Of two
\* with one id it is the last, whoever that is.
UpdateUsers(v, house, g, r) ==
    LET there    == {n \in Node : Has(house[g], n) /\ house[g].users[n].room = r}
        named(i) == {n \in there : house[g].users[n].id = i}
        after(n) == UpdateUser(v, house, g, n)
    IN [v EXCEPT !.ids = [i \in Id |-> IF named(i) = {} THEN v.ids[i]
                                       ELSE after(CHOOSE n \in named(i) : TRUE).ids[i]],
                 !.unids = {x \in Group \X Node :
                               x \in IF x[1] = g /\ x[2] \in there
                                     THEN after(x[2]).unids ELSE v.unids}]

\* users::_room_update: a room that was there with the same topic is no news.
RoomUpdate(v, house, prev, g, r, sameTopic) ==
    IF r \in house[g].rooms /\ r \in prev[g].rooms /\ sameTopic THEN v
    ELSE UpdateUsers(v, house, g, r)

-----------------------------------------------------------------------------
(* gui/view/rooms.cpp *)

\* An item of a room: the groups that feed it and the number of players shown.
RoomItem == [feeds : SUBSET Group, players : 0..Cardinality(Id)]

ASSUME ViewAssumption == IsFiniteSet(Id) /\ NoItem \notin UserItem \cup RoomItem

\* Faulty: a user is counted in each group.
Players_EachGroup(house, r) ==
    Cardinality({x \in Group \X Node :
                    Has(house[x[1]], x[2]) /\ house[x[1]].users[x[2]].room = r})

\* multi_feed::util::players_slash_max: the group does not matter.
Players(house, r) == Cardinality(PlayersOf(house, r))

\* rooms::_update_room: only a room with players is listed, and stays.
UpdateRoom(rv, house, g, r) ==
    IF r \notin house[g].rooms THEN rv
    ELSE IF rv[r] # NoItem
    THEN [rv EXCEPT ![r] = [feeds |-> @.feeds \cup {g}, players |-> Players(house, r)]]
    ELSE IF Players(house, r) = 0 THEN rv
    ELSE [rv EXCEPT ![r] = [feeds |-> {g}, players |-> Players(house, r)]]

\* Faulty: only the room he is in is counted.
RoomsUserUpdate_NewOnly(rv, house, prev, g, n) ==
    IF Has(house[g], n) THEN UpdateRoom(rv, house, g, house[g].users[n].room) ELSE rv

\* rooms::_handle_user_update: the room he was in and the one he is in.
RoomsUserUpdate(rv, house, prev, g, n) ==
    LET was == prev[g].users[n]
        is  == house[g].users[n]
    IN IF was # Absent /\ is # Absent
       THEN IF was.room = is.room THEN rv
            ELSE UpdateRoom(UpdateRoom(rv, house, g, was.room), house, g, is.room)
       ELSE IF was # Absent THEN UpdateRoom(rv, house, g, was.room)
       ELSE IF is # Absent THEN UpdateRoom(rv, house, g, is.room)
       ELSE rv

\* Faulty: the room goes with the first group that closes it.
RemoveRoom_AnyGroup(rv, house, g, r) == [rv EXCEPT ![r] = NoItem]

\* rooms::_remove_room
RemoveRoom(rv, house, g, r) ==
    IF rv[r] = NoItem THEN rv
    ELSE IF rv[r].feeds \subseteq {g} THEN [rv EXCEPT ![r] = NoItem]
    ELSE [rv EXCEPT ![r] = [feeds |-> @.feeds \ {g}, players |-> Players(house, r)]]
=============================================================================
