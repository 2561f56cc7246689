----------------------------- MODULE HouseModel -----------------------------
(***************************************************************************)
(* What the GUI knows of the house: model/house.cpp on top of chat/house.h *)
(* and chat_gaming/user_key.h, as operators on one group of it.            *)
(*                                                                         *)
(* A user is kept under the node his news come from.  names finds him by   *)
(* the string of his id: answers, kicks and private messages name him so.  *)
(***************************************************************************)
EXTENDS GroupHandler

CONSTANT Id      \* the strings of ids, but the empty one

ASSUME IdAssumption == Id \subseteq Nat \ {NoId}

\*   users   the users, by node               (_house_map, chat::house::_users)
\*   names   the node of an id, or none       (_grp_str_map)
\*   rooms   the rooms                        (_house_map, chat::house::_rooms)
Model == [users : [Node -> [id : Id \cup {NoId}, room : Room \cup {NoRoom}] \cup {Absent}],
          names : [Id -> Node \cup {NoNode}],
          rooms : SUBSET Room]

EmptyModel == [users |-> [n \in Node |-> Absent],
               names |-> [i \in Id |-> NoNode],
               rooms |-> {}]

Has(m, n) == m.users[n] # Absent

\* An entry of the map is not replaced.
Named(names, i, n) ==
    IF i # NoId /\ names[i] = NoNode THEN [names EXCEPT ![i] = n] ELSE names

Unnamed(names, i) == IF i = NoId THEN names ELSE [names EXCEPT ![i] = NoNode]

WithEntry(m, n, i, r) == [m EXCEPT !.users[n] = [id |-> i, room |-> r]]

\* user_update
ModelUserUpdate(m, n, i, r) ==
    IF ~Has(m, n) THEN [WithEntry(m, n, i, r) EXCEPT !.names = Named(@, i, n)]
    ELSE IF i = NoId THEN m
    ELSE IF m.users[n].id = i THEN WithEntry(m, n, i, r)
    ELSE [WithEntry(m, n, i, r) EXCEPT !.names = Named(Unnamed(@, m.users[n].id), i, n)]

\* Faulty: the string is still found.
ModelUserErase_KeepsName(m, n, i) == [m EXCEPT !.users[n] = Absent]

\* user_erase: the string goes, whichever node it stands for.
ModelUserErase(m, n, i) ==
    [m EXCEPT !.users[n] = Absent, !.names = Unnamed(@, i)]

ModelRoomUpdate(m, r) == [m EXCEPT !.rooms = @ \cup {r}]

ModelRoomErase(m, r) == [m EXCEPT !.rooms = @ \ {r}]

\* user_find with a string: the node, if it is a user's.
FindByName(m, i) ==
    IF m.names[i] # NoNode /\ Has(m, m.names[i]) THEN m.names[i] ELSE NoNode

\* room_size: the players of a room by the strings of their ids, in all groups.
PlayersOf(house, r) ==
    {i \in Id : \E g \in DOMAIN house, n \in Node :
                    /\ Has(house[g], n)
                    /\ house[g].users[n].id = i
                    /\ house[g].users[n].room = r}
=============================================================================
