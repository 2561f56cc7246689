------------------------- MODULE HouseMirror_proofs -------------------------
(***************************************************************************)
(* Theorems of HouseMirror, for any groups, peers, rooms and ids, and any  *)
(* number of messages under the alert.                                     *)
(*                                                                         *)
(* The definitions speak of handlers hd, of the model hs, of a queue q, of *)
(* a list of users v and of one of rooms rv.                               *)
(***************************************************************************)
EXTENDS HouseMirror, FiniteSetTheorems, SequenceTheorems, TLAPS

-----------------------------------------------------------------------------
(* The invariant *)

\* A user is in no room before his id is known, a room is its owner's, and
\* two nodes of a group that have one id are twins.
HandlerInv(hd, twins) ==
    /\ hd \in [Group -> House]
    /\ \A g \in Group, n \in Node : KnownIn(hd[g], n) =>
          /\ hd[g].users[n].id \in Id \cup {NoId}
          /\ hd[g].users[n].id = NoId => hd[g].users[n].room = NoRoom
    /\ \A g \in Group, r \in Room : hd[g].rooms[r] # NoNode
    /\ \A g \in Group, i \in Id \ twins, n, m \in Node :
          (/\ KnownIn(hd[g], n) /\ hd[g].users[n].id = i
           /\ KnownIn(hd[g], m) /\ hd[g].users[m].id = i) => n = m

\* Who is found by an id has it, be there twins or not.
NamesTrue(hs) == \A g \in Group, i \in Id, n \in Node :
    hs[g].names[i] = n => Has(hs[g], n) /\ hs[g].users[n].id = i

\* Who has an id is found by it.
ModelInv(hs, twins) ==
    /\ hs \in [Group -> Model]
    /\ \A g \in Group, n \in Node :
          Has(hs[g], n) /\ hs[g].users[n].id = NoId => hs[g].users[n].room = NoRoom
    /\ \A g \in Group, i \in Id \ twins, n \in Node :
          hs[g].names[i] = n <=> Has(hs[g], n) /\ hs[g].users[n].id = i
    /\ NamesTrue(hs)

UsersMatch(hs, hd, but) == \A g \in Group, n \in Node :
    <<g, n>> \notin but => hs[g].users[n] = hd[g].users[n]
RoomsMatch(hs, hd, but) == \A g \in Group, r \in Room :
    <<g, r>> \notin but => (r \in hs[g].rooms <=> hd[g].rooms[r] # Absent)

Place(m) == <<m.grp, m.node>>
Spot(m)  == <<m.grp, m.room>>

\* What the message says is what the handler has.
News(hd, m) == /\ m.kind = "user"
               /\ hd[m.grp].users[m.node] = [id |-> m.id, room |-> m.room]

\* The model takes it: the user is new to it, or keeps or gets his id.
Taken(hs, m) == Has(hs[m.grp], m.node) =>
                   /\ m.id # NoId
                   /\ hs[m.grp].users[m.node].id \in {NoId, m.id}

Leaves(hs, m) == /\ m.kind = "user_left"
                 /\ Has(hs[m.grp], m.node)
                 /\ hs[m.grp].users[m.node].id = m.id

\* Messages about one user: his news, that he left, or both.
UserDue(hs, hd, q) ==
    /\ q # <<>>
    /\ \/ Tail(q) = <<>> /\ News(hd, Head(q)) /\ Taken(hs, Head(q))
       \/ /\ Tail(q) = <<>> /\ Leaves(hs, Head(q))
          /\ hd[Head(q).grp].users[Head(q).node] = Absent
       \/ /\ Leaves(hs, Head(q)) /\ Tail(q) # <<>> /\ Tail(Tail(q)) = <<>>
          /\ News(hd, Head(Tail(q))) /\ Place(Head(Tail(q))) = Place(Head(q))

\* The model is what the handlers are when the queue is handled.
QueueInv(hs, hd, q) ==
    \/ q = <<>> /\ UsersMatch(hs, hd, {}) /\ RoomsMatch(hs, hd, {})
    \/ /\ q # <<>> /\ Tail(q) = <<>> /\ Head(q).kind = "room" /\ Head(q).room \in Room
       /\ UsersMatch(hs, hd, {}) /\ RoomsMatch(hs, hd, {Spot(Head(q))})
       /\ hd[Head(q).grp].rooms[Head(q).room] # Absent
    \/ /\ UserDue(hs, hd, q)
       /\ UsersMatch(hs, hd, {Place(Head(q))}) /\ RoomsMatch(hs, hd, {})
    \/ /\ q # <<>> /\ Head(q).kind = "room_remove" /\ Head(q).room \in Room
       /\ UserDue(hs, hd, Tail(q))
       /\ UsersMatch(hs, hd, {Place(Head(Tail(q)))})
       /\ RoomsMatch(hs, hd, {Spot(Head(q))})
       /\ hd[Head(q).grp].rooms[Head(q).room] = Absent

\* The user of id i belongs in the list by the news of node n of group g.
Shows(v, hs, g, n, i) == /\ Has(hs[g], n) /\ hs[g].users[n].id = i
                         /\ v.room \in {NoRoom, hs[g].users[n].room}

FedBy(item, v, hs, i) ==
    \A g \in Group, n \in Node : item.feeds[g] = n <=> Shows(v, hs, g, n, i)

\* What the item shows is what those say who feed it.
ItemSays(item, hs) ==
    /\ item.conn = {g \in Group : item.feeds[g] # NoNode}
    /\ item.waiting <=> \E g \in Group : /\ item.feeds[g] # NoNode
                                         /\ hs[g].users[item.feeds[g]].room # NoRoom

ItemInv(v, hs, i) ==
    IF v.ids[i] = NoItem THEN \A g \in Group, n \in Node : ~Shows(v, hs, g, n, i)
    ELSE /\ FedBy(v.ids[i], v, hs, i) /\ ItemSays(v.ids[i], hs)
         /\ \E g \in Group : v.ids[i].feeds[g] # NoNode

ListInv(v, hs, twins) == /\ v \in UsersView
                         /\ \A i \in Id \ twins : ItemInv(v, hs, i)

UnidsInv(v, hs) == v.unids = {x \in Group \X Node : /\ Has(hs[x[1]], x[2])
                                                    /\ hs[x[1]].users[x[2]].id = NoId}

RoomsView == [Room -> RoomItem \cup {NoItem}]

FeedsListed(rv, hs) == \A r \in Room, g \in Group :
    rv[r] # NoItem /\ g \in rv[r].feeds => r \in hs[g].rooms

PeopledShown(rv, hs) == \A r \in Room, g \in Group, n \in Node :
    r \in hs[g].rooms /\ Has(hs[g], n) /\ hs[g].users[n].room = r
       => rv[r] # NoItem /\ g \in rv[r].feeds

Counted(rv, hs, uncounted) == \A r \in Room \ uncounted :
    rv[r] # NoItem => rv[r].players = Players(hs, r)

\* What the list of rooms shows when nothing came under the alert.
RoomsInv(rv, hs, unc) == PeopledShown(rv, hs) /\ Counted(rv, hs, unc)

\* News of a room say which.
Told == {m \in Message : m.kind = "room" => m.room \in Room}

MirrorInv ==
    /\ HandlerInv(handler, past.twins)
    /\ queue \in Seq(Message)
    /\ ModelInv(house, past.twins)
    /\ QueueInv(house, handler, queue)
    /\ prev \in [Group -> Model]
    /\ outer \in Told \cup {NoMessage}
    /\ alerted \in BOOLEAN
    /\ ListInv(users, house, past.twins) /\ users.room = NoRoom /\ UnidsInv(users, house)
    /\ ListInv(inRoom, house, past.twins) /\ inRoom.room = Hosted
    /\ rooms \in RoomsView /\ FeedsListed(rooms, house)
    /\ past \in Past
    /\ ~Lagged => /\ IF outer = NoMessage THEN prev = house
                     ELSE house = Entered(prev, outer)
                  /\ RoomsInv(rooms, house, past.uncounted)

-----------------------------------------------------------------------------
(* Short sequences *)

LEMMA OneMessage ==
    ASSUME NEW a
    PROVE  <<a>> # <<>> /\ Head(<<a>>) = a /\ Tail(<<a>>) = <<>> /\ <<>> \o <<a>> = <<a>>
  OBVIOUS

LEMMA TwoMessages ==
    ASSUME NEW a, NEW b
    PROVE  /\ <<a>> \o <<b>> = <<a, b>> /\ <<a, b>> # <<>>
           /\ Head(<<a, b>>) = a /\ Tail(<<a, b>>) = <<b>>
  <1> DEFINE S == {a, b}
             s == <<a>> \o <<b>>
             t == Tail(<<a, b>>)
  <1>1. <<a>> \in Seq(S) /\ <<b>> \in Seq(S) /\ <<a, b>> \in Seq(S)
    OBVIOUS
  <1>2. s \in Seq(S) /\ Len(s) = 2 /\ s[1] = a /\ s[2] = b
    BY <1>1, ConcatProperties
  <1>3. t \in Seq(S) /\ Len(t) = 1 /\ t[1] = b
    BY <1>1, HeadTailProperties
  <1> HIDE DEF S, s, t
  <1>4. s = <<a, b>>
    BY <1>1, <1>2, SeqEqual
  <1>5. t = <<b>>
    BY <1>1, <1>3, SeqEqual
  <1> QED  BY <1>4, <1>5 DEF s, t

LEMMA ThreeMessages ==
    ASSUME NEW a, NEW b, NEW c
    PROVE  /\ <<a, b>> \o <<c>> = <<a, b, c>> /\ <<a, b, c>> # <<>>
           /\ Head(<<a, b, c>>) = a /\ Tail(<<a, b, c>>) = <<b, c>>
  <1> DEFINE S == {a, b, c}
             s == <<a, b>> \o <<c>>
             t == Tail(<<a, b, c>>)
  <1>1. /\ <<a, b>> \in Seq(S) /\ <<c>> \in Seq(S) /\ <<a, b, c>> \in Seq(S)
        /\ <<b, c>> \in Seq(S)
    OBVIOUS
  <1>2. s \in Seq(S) /\ Len(s) = 3 /\ s[1] = a /\ s[2] = b /\ s[3] = c
    BY <1>1, ConcatProperties
  <1>3. t \in Seq(S) /\ Len(t) = 2 /\ t[1] = b /\ t[2] = c
    BY <1>1, HeadTailProperties
  <1> HIDE DEF S, s, t
  <1>4. s = <<a, b, c>>
    BY <1>1, <1>2, SeqEqual
  <1>5. t = <<b, c>>
    BY <1>1, <1>3, SeqEqual
  <1> QED  BY <1>4, <1>5 DEF s, t

LEMMA FirstMessage ==
    ASSUME NEW S, NEW a \in S, NEW d \in Seq(S), NEW q, q = <<a>> \o d
    PROVE  q \in Seq(S) /\ q # <<>> /\ Head(q) = a /\ Tail(q) = d
  <1>1. <<a>> \in Seq(S) /\ Len(<<a>>) = 1 /\ Len(d) \in Nat
    OBVIOUS
  <1>2. /\ q \in Seq(S) /\ Len(q) = 1 + Len(d) /\ q[1] = a
        /\ \A i \in 1 .. Len(d) : q[i + 1] = d[i]
    BY <1>1, ConcatProperties
  <1>3. q # <<>> /\ Head(q) = a
    BY <1>1, <1>2
  <1>4. /\ Tail(q) \in Seq(S) /\ Len(Tail(q)) = Len(d)
        /\ \A i \in 1 .. Len(Tail(q)) : Tail(q)[i] = d[i]
    BY <1>1, <1>2, <1>3, HeadTailProperties
  <1> QED  BY <1>2, <1>3, <1>4, SeqEqual

-----------------------------------------------------------------------------
(* The handlers *)

\* The room that n's going, or moving, closes.
Closes(h, n) == ListedIn(h, h.users[n].room) /\ h.rooms[h.users[n].room] = n

RoomGone(h, n) ==
    IF Closes(h, n) THEN [h.rooms EXCEPT ![h.users[n].room] = Absent] ELSE h.rooms

LEMMA RoomGoneSays ==
    ASSUME NEW h \in House, NEW n \in Node, KnownIn(h, n)
    PROVE  /\ RoomGone(h, n) \in [Room -> Node \cup {NoNode, Absent}]
           /\ RoomClosedUpdate(h, n, h.users[n].room)
                 = [users |-> h.users, rooms |-> RoomGone(h, n)]
           /\ ~Closes([users |-> h.users, rooms |-> RoomGone(h, n)], n)
  <1>1. /\ h.users \in [Node -> UserEntry \cup {Absent}]
        /\ h.rooms \in [Room -> Node \cup {NoNode, Absent}]
        /\ h = [users |-> h.users, rooms |-> h.rooms]
    BY DEF House
  <1>2. Absent # n
    BY HandlerAssumption
  <1>3. CASE Closes(h, n)
    BY <1>1, <1>2, <1>3 DEF Closes, RoomGone, RoomClosedUpdate, RoomErase, WithRoom, ListedIn
  <1>4. CASE ~Closes(h, n)
    BY <1>1, <1>4 DEF Closes, RoomGone, RoomClosedUpdate, ListedIn
  <1> QED  BY <1>3, <1>4

LEMMA NodeRemovedSays ==
    ASSUME NEW h \in House, NEW g, NEW n \in Node, KnownIn(h, n)
    PROVE  /\ NodeRemovedFrom(h, n)
                 = [users |-> [h.users EXCEPT ![n] = Absent], rooms |-> RoomGone(h, n)]
           /\ ErasedMsgs(h, g, n)
                 = (IF Closes(h, n)
                    THEN <<Msg("room_remove", g, n, NoId, h.users[n].room)>> ELSE <<>>)
                      \o <<Msg("user_left", g, n, h.users[n].id, NoRoom)>>
  <1>1. UserErased(h, n) = [users |-> h.users, rooms |-> RoomGone(h, n)]
    BY RoomGoneSays DEF UserErased
  <1> QED  BY <1>1 DEF NodeRemovedFrom, UserErase, WithUser, ErasedMsgs, ClosedMsgs, Closes

\* A user update closes his room when he was started again or moves.
Moving(h, n, u) == Reincarnated(h, n, u) \/ LeavesRoom(h, n, u)

\* The room is told first, then that he left, then his news.
UpdateIs(h, g, n, u) ==
    /\ RecvUserUpdate(h, n, u)
          = [users |-> [h.users EXCEPT ![n] = u],
             rooms |-> IF Moving(h, n, u) THEN RoomGone(h, n) ELSE h.rooms]
    /\ UpdateMsgs(h, g, n, u)
          = ((IF Moving(h, n, u) /\ Closes(h, n)
              THEN <<Msg("room_remove", g, n, NoId, h.users[n].room)>> ELSE <<>>)
              \o (IF Reincarnated(h, n, u)
                  THEN <<Msg("user_left", g, n, h.users[n].id, NoRoom)>> ELSE <<>>))
              \o <<Msg("user", g, n, u.id, u.room)>>

LEMMA UserUpdatedSays ==
    ASSUME NEW h \in House, NEW g, NEW n \in Node, KnownIn(h, n),
           NEW u, u.id # NoId, u = [id |-> u.id, room |-> u.room]
    PROVE  UpdateIs(h, g, n, u)
  <1> DEFINE c == [users |-> h.users, rooms |-> RoomGone(h, n)]
             x == <<Msg("room_remove", g, n, NoId, h.users[n].room)>>
             l == <<Msg("user_left", g, n, h.users[n].id, NoRoom)>>
             w == <<Msg("user", g, n, u.id, u.room)>>
  <1>1. /\ c \in House /\ KnownIn(c, n)
        /\ RoomClosedUpdate(h, n, h.users[n].room) = c /\ ~Closes(c, n)
    BY RoomGoneSays DEF House, KnownIn
  <1>2. RoomClosedUpdate(c, n, h.users[n].room) = c
    BY <1>1 DEF RoomClosedUpdate, Closes
  <1>3. h = [users |-> h.users, rooms |-> h.rooms]
    BY DEF House
  <1>4. /\ ErasedMsgs(h, g, n) = (IF Closes(h, n) THEN x ELSE <<>>) \o l
        /\ ClosedMsgs(h, g, n, h.users[n].room) = IF Closes(h, n) THEN x ELSE <<>>
        /\ ClosedMsgs(c, g, n, h.users[n].room) = <<>>
    BY <1>1, NodeRemovedSays DEF ClosedMsgs, Closes
  <1>5. CASE Reincarnated(h, n, u)
    <2>1. BeforeRoomCheck(h, n, u) = c
      BY <1>1, <1>5 DEF BeforeRoomCheck, UserErased
    <2>2. RecvUserUpdate(h, n, u) = WithUser(c, n, [id |-> u.id, room |-> u.room])
      BY <1>2, <2>1 DEF RecvUserUpdate, UserUpdate
    <2>3. UpdateMsgs(h, g, n, u) = ErasedMsgs(h, g, n) \o <<>> \o w
      BY <1>4, <1>5, <2>1 DEF UpdateMsgs
    <2>4. ErasedMsgs(h, g, n) \o <<>> = ErasedMsgs(h, g, n)
      <3>1. PICK S : x \in Seq(S) /\ l \in Seq(S) /\ <<>> \in Seq(S)
        <4> WITNESS {x[1], l[1]}
        <4> QED  OBVIOUS
      <3> HIDE DEF x, l
      <3>2. ErasedMsgs(h, g, n) \in Seq(S)
        BY <1>4, <3>1, ConcatProperties
      <3> QED  BY <3>2, ConcatEmptySeq
    <2> QED  BY <1>4, <1>5, <2>2, <2>3, <2>4 DEF WithUser, Moving, UpdateIs
  <1>6. CASE ~Reincarnated(h, n, u)
    <2>1. BeforeRoomCheck(h, n, u) = h
      BY <1>6 DEF BeforeRoomCheck
    <2>2. (IF Moving(h, n, u) /\ Closes(h, n) THEN x ELSE <<>>) \o <<>>
             = IF Moving(h, n, u) /\ Closes(h, n) THEN x ELSE <<>>
      OBVIOUS
    <2>3. <<>> \o (IF Moving(h, n, u) /\ Closes(h, n) THEN x ELSE <<>>)
             = IF Moving(h, n, u) /\ Closes(h, n) THEN x ELSE <<>>
      OBVIOUS
    <2>4. UpdateMsgs(h, g, n, u)
             = <<>> \o (IF Moving(h, n, u) /\ Closes(h, n) THEN x ELSE <<>>) \o w
      BY <1>4, <1>6, <2>1 DEF UpdateMsgs, Moving
    <2>5. CASE LeavesRoom(h, n, u)
      <3>1. RecvUserUpdate(h, n, u) = WithUser(c, n, [id |-> u.id, room |-> u.room])
        BY <1>1, <2>1, <2>5 DEF RecvUserUpdate, UserUpdate
      <3> QED  BY <1>6, <2>2, <2>3, <2>4, <2>5, <3>1 DEF WithUser, Moving, UpdateIs
    <2>6. CASE ~LeavesRoom(h, n, u)
      <3>1. RecvUserUpdate(h, n, u) = WithUser(h, n, [id |-> u.id, room |-> u.room])
        BY <2>1, <2>6 DEF RecvUserUpdate, UserUpdate
      <3> QED  BY <1>3, <1>6, <2>2, <2>3, <2>4, <2>6, <3>1 DEF WithUser, Moving, UpdateIs
    <2> QED  BY <2>5, <2>6
  <1> QED  BY <1>5, <1>6

\* The handler of g enters e for n; its rooms become rs.
Enters(hd, g, n, e, rs) ==
    [hd EXCEPT ![g] = [users |-> [hd[g].users EXCEPT ![n] = e], rooms |-> rs]]

\* There is no room without an id, nor a twin that is not known as one.
Fits(hd, tw, tw2, g, n, e, rs) ==
    /\ g \in Group /\ n \in Node /\ tw \subseteq tw2
    /\ rs \in [Room -> Node \cup {Absent}]
    /\ e \in [id : Id \cup {NoId}, room : Room \cup {NoRoom}] \cup {Absent}
    /\ e # Absent => (e.id = NoId => e.room = NoRoom)
    /\ e # Absent => \A m \in Node \ {n} :
          KnownIn(hd[g], m) /\ hd[g].users[m].id = e.id => e.id \notin Id \ tw2

\* Nothing else has changed.
OnlyIn(hd, hd2, g, n) == /\ UsersMatch(hd2, hd, {<<g, n>>})
                         /\ \A h \in Group \ {g} : hd2[h].rooms = hd[h].rooms

LEMMA HandlerStep ==
    ASSUME NEW hd, NEW tw, HandlerInv(hd, tw), NEW tw2, NEW g, NEW n, NEW e, NEW rs,
           Fits(hd, tw, tw2, g, n, e, rs),
           NEW hd2, hd2 = Enters(hd, g, n, e, rs)
    PROVE  /\ HandlerInv(hd2, tw2)
           /\ hd2[g].users[n] = e /\ hd2[g].rooms = rs
           /\ OnlyIn(hd, hd2, g, n)
  <1>0. /\ g \in Group /\ n \in Node /\ tw \subseteq tw2
        /\ rs \in [Room -> Node \cup {Absent}]
    BY DEF Fits
  <1>1. /\ hd \in [Group -> House]
        /\ hd[g].users \in [Node -> UserEntry \cup {Absent}]
    BY <1>0 DEF HandlerInv, House
  <1>2. e \in UserEntry \cup {Absent}
    <2>1. Id \cup {NoId} \subseteq Nat
      BY IdAssumption DEF NoId
    <2> QED  BY <2>1 DEF Fits, UserEntry
  <1>3. /\ hd2[g].users[n] = e /\ hd2[g].rooms = rs
        /\ hd2[g].users = [hd[g].users EXCEPT ![n] = e]
        /\ \A h \in Group \ {g} : hd2[h] = hd[h]
        /\ \A m \in Node \ {n} : hd2[g].users[m] = hd[g].users[m]
    BY <1>0, <1>1 DEF Enters
  <1>4. hd2 \in [Group -> House]
    <2>1. [users |-> [hd[g].users EXCEPT ![n] = e], rooms |-> rs] \in House
      BY <1>0, <1>1, <1>2 DEF House
    <2> QED  BY <1>0, <1>1, <2>1 DEF Enters
  <1>5. \A h \in Group, m \in Node :
           <<h, m>> # <<g, n>> => hd2[h].users[m] = hd[h].users[m]
    BY <1>0, <1>3
  <1>6. ASSUME NEW h \in Group, NEW m \in Node, KnownIn(hd2[h], m)
        PROVE  /\ hd2[h].users[m].id \in Id \cup {NoId}
               /\ hd2[h].users[m].id = NoId => hd2[h].users[m].room = NoRoom
    <2>1. CASE h = g /\ m = n
      BY <1>0, <1>3, <1>6, <2>1 DEF KnownIn, Fits
    <2>2. CASE h # g \/ m # n
      BY <1>0, <1>5, <1>6, <2>2 DEF KnownIn, HandlerInv
    <2> QED  BY <1>0, <2>1, <2>2
  <1>7. \A h \in Group, r \in Room : hd2[h].rooms[r] # NoNode
    BY <1>0, <1>3, HandlerAssumption DEF HandlerInv
  <1>8. ASSUME NEW h \in Group, NEW i \in Id \ tw2, NEW k \in Node, NEW m \in Node,
               KnownIn(hd2[h], k) /\ hd2[h].users[k].id = i,
               KnownIn(hd2[h], m) /\ hd2[h].users[m].id = i
        PROVE  k = m
    <2>1. CASE h = g /\ k = n /\ m # n
      BY <1>0, <1>3, <1>8, <2>1 DEF KnownIn, Fits
    <2>2. CASE h = g /\ m = n /\ k # n
      BY <1>0, <1>3, <1>8, <2>2 DEF KnownIn, Fits
    <2>3. CASE h # g \/ (k # n /\ m # n)
      <3>1. hd2[h].users[k] = hd[h].users[k] /\ hd2[h].users[m] = hd[h].users[m]
        BY <1>0, <1>3, <2>3
      <3> QED  BY <1>0, <1>8, <3>1 DEF KnownIn, HandlerInv
    <2> QED  BY <1>0, <2>1, <2>2, <2>3
  <1>9. OnlyIn(hd, hd2, g, n)
    BY <1>0, <1>3, <1>5 DEF OnlyIn, UsersMatch
  <1> QED  BY <1>0, <1>3, <1>4, <1>6, <1>7, <1>8, <1>9 DEF HandlerInv

LEMMA MsgSays ==
    ASSUME NEW kind \in {"user", "user_left", "room", "room_remove"}, NEW g \in Group,
           NEW n \in Node, NEW i \in Id \cup {NoId}, NEW r \in Room \cup {NoRoom}
    PROVE  /\ Msg(kind, g, n, i, r) \in Message
           /\ Msg(kind, g, n, i, r).kind = kind /\ Msg(kind, g, n, i, r).grp = g
           /\ Msg(kind, g, n, i, r).node = n /\ Msg(kind, g, n, i, r).id = i
           /\ Msg(kind, g, n, i, r).room = r
  BY DEF Msg, Message

LEMMA NothingDue ==
    ASSUME NEW hs, NEW hd, QueueInv(hs, hd, <<>>)
    PROVE  UsersMatch(hs, hd, {}) /\ RoomsMatch(hs, hd, {})
  BY DEF QueueInv, UserDue

LEMMA AddedSays ==
    ASSUME NEW hs, NEW hd, NEW tw, HandlerInv(hd, tw), QueueInv(hs, hd, <<>>),
           NEW g \in Group, NEW n \in Node, ~KnownIn(hd[g], n),
           NEW hd2, hd2 = [hd EXCEPT ![g] = UserInsert(hd[g], n)],
           NEW q, q = <<Msg("user", g, n, NoId, NoRoom)>>
    PROVE  HandlerInv(hd2, tw) /\ QueueInv(hs, hd2, q) /\ q \in Seq(Message)
  <1> DEFINE m == Msg("user", g, n, NoId, NoRoom)
  <1>0. PICK e : e = [id |-> NoId, room |-> NoRoom]
    OBVIOUS
  <1>1. m \in Message /\ m.kind = "user" /\ Place(m) = <<g, n>> /\ m.grp = g
        /\ m.node = n /\ m.id = NoId /\ m.room = NoRoom
    BY MsgSays DEF Place
  <1>2. q = <<m>> /\ q # <<>> /\ Head(q) = m /\ Tail(q) = <<>>
    BY OneMessage
  <1> HIDE DEF m
  <1>3. UsersMatch(hs, hd, {}) /\ RoomsMatch(hs, hd, {})
    BY NothingDue
  <1>4. /\ hd \in [Group -> House] /\ hd[g].rooms \in [Room -> Node \cup {Absent}]
    BY DEF HandlerInv, House
  <1>5. hd2 = Enters(hd, g, n, e, hd[g].rooms)
    BY <1>0 DEF UserInsert, WithUser, Enters
  <1>6. Fits(hd, tw, tw, g, n, e, hd[g].rooms)
    BY <1>0, <1>4, IdAssumption, HandlerAssumption DEF UserEntry, NoId, Fits
  <1>7. /\ HandlerInv(hd2, tw) /\ hd2[g].users[n] = e /\ hd2[g].rooms = hd[g].rooms
        /\ OnlyIn(hd, hd2, g, n)
    <2>1. HandlerInv(hd, tw)
      OBVIOUS
    <2> QED  BY ONLY <1>5, <1>6, <2>1, HandlerStep
  <1>8. UsersMatch(hs, hd2, {Place(m)}) /\ RoomsMatch(hs, hd2, {})
    BY <1>1, <1>3, <1>7 DEF UsersMatch, RoomsMatch, OnlyIn
  <1>9. News(hd2, m)
    BY <1>0, <1>1, <1>7 DEF News
  <1>10. Taken(hs, m)
    BY <1>1, <1>3 DEF Taken, UsersMatch, Has, KnownIn
  <1>11. UserDue(hs, hd2, q)
    BY <1>2, <1>9, <1>10 DEF UserDue
  <1>12. QueueInv(hs, hd2, q)
    BY <1>2, <1>8, <1>11 DEF QueueInv
  <1>13. q \in Seq(Message)
    BY <1>1, <1>2
  <1> QED  BY <1>7, <1>12, <1>13

LEMMA RoomSays ==
    ASSUME NEW hs, NEW hd, NEW tw, HandlerInv(hd, tw), QueueInv(hs, hd, <<>>),
           NEW g \in Group, NEW n \in Node, KnownIn(hd[g], n), NEW r \in Room,
           NEW hd2, hd2 = [hd EXCEPT ![g] = RecvRoomUpdate(hd[g], n, r)],
           NEW same \in BOOLEAN,
           NEW q, q = <<[Msg("room", g, n, NoId, r) EXCEPT !.sameTopic = same]>>
    PROVE  HandlerInv(hd2, tw) /\ QueueInv(hs, hd2, q) /\ q \in Seq(Message)
  <1> DEFINE m == [Msg("room", g, n, NoId, r) EXCEPT !.sameTopic = same]
             rs == [hd[g].rooms EXCEPT ![r] = n]
  <1>1. m \in Message /\ m.kind = "room" /\ Spot(m) = <<g, r>> /\ m.grp = g /\ m.room = r
    BY DEF Spot, Msg, Message
  <1>2. q = <<m>> /\ q # <<>> /\ Head(q) = m /\ Tail(q) = <<>>
    BY OneMessage
  <1> HIDE DEF m
  <1>3. UsersMatch(hs, hd, {}) /\ RoomsMatch(hs, hd, {})
    BY NothingDue
  <1>4. /\ hd \in [Group -> House] /\ hd[g] \in House
        /\ hd[g].rooms \in [Room -> Node \cup {Absent}]
        /\ hd[g].users[n] \in [id : Id \cup {NoId}, room : Room \cup {NoRoom}]
    BY DEF HandlerInv, House, KnownIn, UserEntry
  <1>7. q \in Seq(Message)
    BY <1>1, <1>2
  <1>5. CASE ListedIn(hd[g], r)
    <2>1. hd2 = hd /\ hd[g].rooms[r] # Absent
      BY <1>4, <1>5 DEF RecvRoomUpdate, ListedIn
    <2>2. RoomsMatch(hs, hd2, {Spot(m)})
      BY <1>3, <2>1 DEF RoomsMatch
    <2>3. QueueInv(hs, hd2, q)
      BY <1>1, <1>2, <1>3, <2>1, <2>2 DEF QueueInv
    <2> QED  BY <1>7, <2>1, <2>3
  <1>6. CASE ~ListedIn(hd[g], r)
    <2>1. RecvRoomUpdate(hd[g], n, r) = [users |-> hd[g].users, rooms |-> rs]
      BY <1>6, HandlerAssumption DEF RecvRoomUpdate, WithRoom
    <2>2. rs \in [Room -> Node \cup {Absent}] /\ rs[r] # Absent
          /\ \A x \in Room \ {r} : rs[x] = hd[g].rooms[x]
      BY <1>4, HandlerAssumption
    <2> HIDE DEF rs
    <2>3. /\ hd2[g] = [users |-> hd[g].users, rooms |-> rs]
          /\ \A h \in Group \ {g} : hd2[h] = hd[h]
          /\ \A h \in Group : hd2[h].users = hd[h].users
      BY <1>4, <2>1
    <2>4. hd2 \in [Group -> House]
      <3>1. hd2[g] \in House
        BY <1>4, <2>2, <2>3 DEF House
      <3>2. hd2 = [hd EXCEPT ![g] = hd2[g]]
        BY <1>4
      <3> HIDE DEF rs
      <3> QED  BY <1>4, <3>1, <3>2
    <2>5. \A h \in Group, x \in Room : hd2[h].rooms[x] # NoNode
      BY <2>2, <2>3, HandlerAssumption DEF HandlerInv
    <2>6. HandlerInv(hd2, tw)
      BY <2>3, <2>4, <2>5 DEF HandlerInv, KnownIn
    <2>7. UsersMatch(hs, hd2, {})
      BY <1>3, <2>3 DEF UsersMatch
    <2>8. RoomsMatch(hs, hd2, {Spot(m)}) /\ hd2[g].rooms[r] # Absent
      BY <1>1, <1>3, <2>2, <2>3 DEF RoomsMatch
    <2>9. QueueInv(hs, hd2, q)
      BY <1>1, <1>2, <2>7, <2>8 DEF QueueInv
    <2> QED  BY <1>7, <2>6, <2>9
  <1> QED  BY <1>5, <1>6

\* A room that closes is told first.
LEMMA ClosedFirst ==
    ASSUME NEW hs, NEW hd, NEW g \in Group, NEW n \in Node, NEW r,
           NEW c \in BOOLEAN, c => r \in Room /\ hd[g].rooms[r] = Absent,
           RoomsMatch(hs, hd, IF c THEN {<<g, r>>} ELSE {}),
           NEW d \in Seq(Message), UserDue(hs, hd, d), UsersMatch(hs, hd, {Place(Head(d))}),
           NEW q, q = (IF c THEN <<Msg("room_remove", g, n, NoId, r)>> ELSE <<>>) \o d
    PROVE  QueueInv(hs, hd, q) /\ q \in Seq(Message)
  <1>1. CASE c
    <2>1. PICK x \in Message : /\ x = Msg("room_remove", g, n, NoId, r)
                               /\ x.kind = "room_remove" /\ x.grp = g /\ x.room = r
      <3>1. r \in Room
        BY <1>1
      <3>2. Msg("room_remove", g, n, NoId, r) \in Message
        BY <3>1 DEF Msg, Message
      <3>3. /\ Msg("room_remove", g, n, NoId, r).kind = "room_remove"
            /\ Msg("room_remove", g, n, NoId, r).grp = g
            /\ Msg("room_remove", g, n, NoId, r).room = r
        BY DEF Msg
      <3> QED  BY <3>2, <3>3
    <2>2. q = <<x>> \o d
      BY <1>1, <2>1
    <2>3. q \in Seq(Message) /\ q # <<>> /\ Head(q) = x /\ Tail(q) = d
      BY <2>2, FirstMessage
    <2>4. RoomsMatch(hs, hd, {Spot(x)})
      BY <1>1, <2>1 DEF Spot
    <2> QED  BY <1>1, <2>1, <2>3, <2>4 DEF QueueInv
  <1>2. CASE ~c
    <2>1. q = d
      BY <1>2, ConcatEmptySeq
    <2> QED  BY <1>2, <2>1 DEF QueueInv
  <1> QED  BY <1>1, <1>2

LEMMA RoomGoneRooms ==
    ASSUME NEW hd, NEW tw, HandlerInv(hd, tw), NEW g \in Group, NEW n \in Node,
           KnownIn(hd[g], n)
    PROVE  /\ RoomGone(hd[g], n) \in [Room -> Node \cup {Absent}]
           /\ Closes(hd[g], n) =>
                 /\ hd[g].users[n].room \in Room
                 /\ RoomGone(hd[g], n)[hd[g].users[n].room] = Absent
                 /\ \A r \in Room \ {hd[g].users[n].room} :
                       RoomGone(hd[g], n)[r] = hd[g].rooms[r]
           /\ ~Closes(hd[g], n) => RoomGone(hd[g], n) = hd[g].rooms
  <1>1. hd[g].rooms \in [Room -> Node \cup {Absent}]
    BY DEF HandlerInv, House
  <1> QED  BY <1>1 DEF RoomGone, Closes, ListedIn

LEMMA RemovedSays ==
    ASSUME NEW hs, NEW hd, NEW tw, HandlerInv(hd, tw), QueueInv(hs, hd, <<>>),
           NEW g \in Group, NEW n \in Node, KnownIn(hd[g], n),
           NEW hd2, hd2 = [hd EXCEPT ![g] = NodeRemovedFrom(hd[g], n)],
           NEW q, q = ErasedMsgs(hd[g], g, n)
    PROVE  HandlerInv(hd2, tw) /\ QueueInv(hs, hd2, q) /\ q \in Seq(Message)
  <1>1. /\ hd \in [Group -> House] /\ hd[g] \in House
        /\ hd[g].users[n].id \in Id \cup {NoId}
        /\ HandlerInv(hd, tw) /\ hd[g].users[n] # Absent
    BY DEF HandlerInv, KnownIn
  <1>2. UsersMatch(hs, hd, {}) /\ RoomsMatch(hs, hd, {})
    BY NothingDue
  <1>3. PICK l \in Message : /\ l = Msg("user_left", g, n, hd[g].users[n].id, NoRoom)
                             /\ l.kind = "user_left" /\ l.grp = g /\ l.node = n
                             /\ l.id = hd[g].users[n].id
    BY <1>1, MsgSays
  <1>4. PICK rs : rs = RoomGone(hd[g], n)
    OBVIOUS
  <1>5. hd2 = Enters(hd, g, n, Absent, rs)
    BY <1>1, <1>4, NodeRemovedSays DEF Enters
  <1>6. /\ rs \in [Room -> Node \cup {Absent}]
        /\ Closes(hd[g], n) => /\ hd[g].users[n].room \in Room
                               /\ rs[hd[g].users[n].room] = Absent
                               /\ \A r \in Room \ {hd[g].users[n].room} :
                                     rs[r] = hd[g].rooms[r]
        /\ ~Closes(hd[g], n) => rs = hd[g].rooms
    BY <1>1, <1>4, RoomGoneRooms
  <1>7. Fits(hd, tw, tw, g, n, Absent, rs)
    BY <1>6 DEF Fits
  <1>8. /\ HandlerInv(hd2, tw) /\ hd2[g].users[n] = Absent /\ hd2[g].rooms = rs
        /\ OnlyIn(hd, hd2, g, n)
    BY ONLY <1>1, <1>5, <1>7, HandlerStep
  <1>9. /\ <<l>> \in Seq(Message) /\ <<l>> # <<>> /\ Head(<<l>>) = l /\ Tail(<<l>>) = <<>>
    BY OneMessage
  <1>10. UserDue(hs, hd2, <<l>>) /\ UsersMatch(hs, hd2, {Place(Head(<<l>>))})
    <2>1. Leaves(hs, l) /\ Place(l) = <<g, n>>
      BY <1>1, <1>2, <1>3 DEF Leaves, UsersMatch, Has, Place
    <2>2. UsersMatch(hs, hd2, {<<g, n>>})
      BY <1>2, <1>8 DEF UsersMatch, OnlyIn
    <2> QED  BY <1>3, <1>8, <1>9, <2>1, <2>2 DEF UserDue
  <1>11. PICK c \in BOOLEAN : c = Closes(hd[g], n)
    BY DEF Closes
  <1>12. q = (IF c THEN <<Msg("room_remove", g, n, NoId, hd[g].users[n].room)>> ELSE <<>>)
                \o <<l>>
    BY <1>1, <1>3, <1>11, NodeRemovedSays
  <1>13. RoomsMatch(hs, hd2, IF c THEN {<<g, hd[g].users[n].room>>} ELSE {})
    BY <1>2, <1>6, <1>8, <1>11 DEF RoomsMatch, OnlyIn
  <1>14. c => hd[g].users[n].room \in Room /\ hd2[g].rooms[hd[g].users[n].room] = Absent
    BY <1>6, <1>8, <1>11
  <1>15. QueueInv(hs, hd2, q) /\ q \in Seq(Message)
    BY <1>9, <1>10, <1>12, <1>13, <1>14, ClosedFirst
  <1> QED  BY <1>8, <1>15

\* A node that takes an id which another has makes twins of them.
NowTwins(hd, tw, tw2, g, n, i) == tw \subseteq tw2 /\ (Twins(hd[g], n, i) => i \in tw2)

LEMMA UpdatedSays ==
    ASSUME NEW hs, NEW hd, NEW tw, HandlerInv(hd, tw), QueueInv(hs, hd, <<>>),
           NEW g \in Group, NEW n \in Node, KnownIn(hd[g], n),
           NEW i \in Id, NEW r \in Room \cup {NoRoom}, NEW u, u = [id |-> i, room |-> r],
           NEW tw2, NowTwins(hd, tw, tw2, g, n, i),
           NEW hd2, hd2 = [hd EXCEPT ![g] = RecvUserUpdate(hd[g], n, u)],
           NEW q, q = UpdateMsgs(hd[g], g, n, u)
    PROVE  HandlerInv(hd2, tw2) /\ QueueInv(hs, hd2, q) /\ q \in Seq(Message)
  <1>1. /\ hd \in [Group -> House] /\ hd[g] \in House
        /\ hd[g].users[n].id \in Id \cup {NoId}
        /\ HandlerInv(hd, tw) /\ hd[g].users[n] # Absent
        /\ hd[g].rooms \in [Room -> Node \cup {Absent}]
    BY DEF HandlerInv, KnownIn, House
  <1>2. UsersMatch(hs, hd, {}) /\ RoomsMatch(hs, hd, {})
    BY NothingDue
  <1>3. /\ u.id = i /\ u.room = r /\ u = [id |-> u.id, room |-> u.room]
        /\ i # NoId
    BY IdAssumption
  <1>4. PICK c \in BOOLEAN : c = (Moving(hd[g], n, u) /\ Closes(hd[g], n))
    OBVIOUS
  <1>5. PICK rs : rs = IF Moving(hd[g], n, u) THEN RoomGone(hd[g], n) ELSE hd[g].rooms
    OBVIOUS
  <1>6. /\ rs \in [Room -> Node \cup {Absent}]
        /\ c => /\ hd[g].users[n].room \in Room
                /\ rs[hd[g].users[n].room] = Absent
                /\ \A x \in Room \ {hd[g].users[n].room} : rs[x] = hd[g].rooms[x]
        /\ ~c => rs = hd[g].rooms
    <2>1. /\ RoomGone(hd[g], n) \in [Room -> Node \cup {Absent}]
          /\ Closes(hd[g], n) =>
                /\ hd[g].users[n].room \in Room
                /\ RoomGone(hd[g], n)[hd[g].users[n].room] = Absent
                /\ \A x \in Room \ {hd[g].users[n].room} :
                      RoomGone(hd[g], n)[x] = hd[g].rooms[x]
          /\ ~Closes(hd[g], n) => RoomGone(hd[g], n) = hd[g].rooms
      BY <1>1, RoomGoneRooms
    <2>2. CASE Moving(hd[g], n, u)
      BY <1>4, <1>5, <2>1, <2>2
    <2>3. CASE ~Moving(hd[g], n, u)
      BY <1>1, <1>4, <1>5, <2>3
    <2> QED  BY <2>2, <2>3
  <1>7. /\ RecvUserUpdate(hd[g], n, u) = [users |-> [hd[g].users EXCEPT ![n] = u], rooms |-> rs]
        /\ q = ((IF c THEN <<Msg("room_remove", g, n, NoId, hd[g].users[n].room)>> ELSE <<>>)
                  \o (IF Reincarnated(hd[g], n, u)
                      THEN <<Msg("user_left", g, n, hd[g].users[n].id, NoRoom)>> ELSE <<>>))
                  \o <<Msg("user", g, n, i, r)>>
    <2>1. PICK h \in House : h = hd[g]
      BY <1>1
    <2>2. UpdateIs(h, g, n, u)
      <3>1. KnownIn(h, n) /\ u.id # NoId /\ u = [id |-> u.id, room |-> u.room]
        BY <1>3, <2>1
      <3> QED  BY ONLY <3>1, n \in Node, h \in House, UserUpdatedSays
    <2> QED  BY <1>3, <1>4, <1>5, <2>1, <2>2 DEF UpdateIs
  <1>8. hd2 = Enters(hd, g, n, u, rs)
    BY <1>7 DEF Enters
  <1>9. Fits(hd, tw, tw2, g, n, u, rs)
    <2>1. u \in [id : Id \cup {NoId}, room : Room \cup {NoRoom}] \cup {Absent}
      OBVIOUS
    <2>2. ASSUME NEW m \in Node \ {n}, KnownIn(hd[g], m), hd[g].users[m].id = u.id
          PROVE  u.id \notin Id \ tw2
      BY <1>3, <2>2 DEF Twins, NowTwins
    <2> QED  BY <1>3, <1>6, <2>1, <2>2 DEF Fits, NowTwins
  <1>10. /\ HandlerInv(hd2, tw2) /\ hd2[g].users[n] = u /\ hd2[g].rooms = rs
         /\ OnlyIn(hd, hd2, g, n)
    BY ONLY <1>1, <1>8, <1>9, HandlerStep
  <1>11. PICK w \in Message : /\ w = Msg("user", g, n, i, r) /\ w.kind = "user"
                              /\ w.grp = g /\ w.node = n /\ w.id = i /\ w.room = r
    BY MsgSays
  <1>12. PICK l \in Message : /\ l = Msg("user_left", g, n, hd[g].users[n].id, NoRoom)
                              /\ l.kind = "user_left" /\ l.grp = g /\ l.node = n
                              /\ l.id = hd[g].users[n].id
    <2>1. PICK o \in Id \cup {NoId} : o = hd[g].users[n].id
      BY <1>1
    <2>2. Msg("user_left", g, n, o, NoRoom) \in Message
      BY DEF Msg, Message
    <2>3. /\ Msg("user_left", g, n, o, NoRoom).kind = "user_left"
          /\ Msg("user_left", g, n, o, NoRoom).grp = g
          /\ Msg("user_left", g, n, o, NoRoom).node = n
          /\ Msg("user_left", g, n, o, NoRoom).id = o
      BY DEF Msg
    <2> QED  BY <2>1, <2>2, <2>3
  <1>13. UsersMatch(hs, hd2, {<<g, n>>})
    BY <1>2, <1>10 DEF UsersMatch, OnlyIn
  <1>14. News(hd2, w) /\ Place(w) = <<g, n>> /\ Place(l) = <<g, n>> /\ Leaves(hs, l)
    <2>1. hd2[g].users[n] = [id |-> i, room |-> r]
      BY <1>10
    <2>2. hs[g].users[n] = hd[g].users[n]
      BY <1>2 DEF UsersMatch
    <2> QED  BY <1>1, <1>11, <1>12, <2>1, <2>2 DEF News, Leaves, Has, Place
  <1>15. PICK x \in Message : c => x = Msg("room_remove", g, n, NoId, hd[g].users[n].room)
    <2>1. CASE c
      <3>1. NoId \in Id \cup {NoId} /\ hd[g].users[n].room \in Room \cup {NoRoom}
        BY <1>6, <2>1
      <3> QED  BY <3>1, MsgSays
    <2>2. CASE ~c
      BY <1>11, <2>2
    <2> QED  BY <2>1, <2>2
  <1> DEFINE d == (IF Reincarnated(hd[g], n, u) THEN <<l>> ELSE <<>>) \o <<w>>
             f == IF c THEN <<Msg("room_remove", g, n, NoId, hd[g].users[n].room)>> ELSE <<>>
  <1>16. q = f \o d /\ d \in Seq(Message)
    <2>1. PICK a : a = f
      OBVIOUS
    <2>2. PICK b : b = IF Reincarnated(hd[g], n, u) THEN <<l>> ELSE <<>>
      OBVIOUS
    <2>3. a \in Seq(Message) /\ b \in Seq(Message) /\ <<w>> \in Seq(Message)
      BY <1>15, <2>1, <2>2
    <2>4. q = (a \o b) \o <<w>>
      BY <1>7, <1>11, <1>12, <2>1, <2>2
    <2>5. (a \o b) \o <<w>> = a \o (b \o <<w>>) /\ b \o <<w>> \in Seq(Message)
      BY <2>3, ConcatAssociative, ConcatProperties
    <2> QED  BY <2>1, <2>2, <2>4, <2>5
  <1>17. UserDue(hs, hd2, d) /\ UsersMatch(hs, hd2, {Place(Head(d))})
    <2>1. CASE Reincarnated(hd[g], n, u)
      <3>1. d = <<l, w>> /\ d # <<>> /\ Head(d) = l /\ Tail(d) = <<w>>
        BY <2>1, TwoMessages
      <3>2. Head(<<w>>) = w /\ Tail(<<w>>) = <<>> /\ <<w>> # <<>>
        BY OneMessage
      <3> HIDE DEF d
      <3>3. UserDue(hs, hd2, d)
        BY <1>14, <3>1, <3>2 DEF UserDue
      <3> QED  BY <1>13, <1>14, <3>1, <3>3
    <2>2. CASE ~Reincarnated(hd[g], n, u)
      <3>1. d = <<w>> /\ d # <<>> /\ Head(d) = w /\ Tail(d) = <<>>
        BY <2>2, OneMessage
      <3> HIDE DEF d
      <3>2. Taken(hs, w)
        <4>1. hs[g].users[n] = hd[g].users[n]
          BY <1>2 DEF UsersMatch
        <4> QED  BY <1>3, <1>11, <2>2, <4>1 DEF Taken, Reincarnated
      <3>3. UserDue(hs, hd2, d)
        BY <1>14, <3>1, <3>2 DEF UserDue
      <3> QED  BY <1>13, <1>14, <3>1, <3>3
    <2> QED  BY <2>1, <2>2
  <1> HIDE DEF d
  <1>18. RoomsMatch(hs, hd2, IF c THEN {<<g, hd[g].users[n].room>>} ELSE {})
    BY <1>2, <1>6, <1>10 DEF RoomsMatch, OnlyIn
  <1>19. c => hd[g].users[n].room \in Room /\ hd2[g].rooms[hd[g].users[n].room] = Absent
    BY <1>6, <1>10
  <1>20. QueueInv(hs, hd2, q) /\ q \in Seq(Message)
    BY <1>16, <1>17, <1>18, <1>19, ClosedFirst
  <1> QED  BY <1>10, <1>20

-----------------------------------------------------------------------------
(* The model *)

\* What the model has of n of group g becomes e, the rest of users and rooms stays.
Becomes(hs, hs2, g, n, e) ==
    /\ hs2[g].users[n] = e
    /\ \A h \in Group, m \in Node : <<h, m>> # <<g, n>> => hs2[h].users[m] = hs[h].users[m]
    /\ \A h \in Group : hs2[h].rooms = hs[h].rooms

\* No other node of the group has the id, if it is no twins'.
Alone(hs, tw, g, n, i) == i \in Id \ tw =>
    \A m \in Node \ {n} : Has(hs[g], m) => hs[g].users[m].id # i

LEMMA EntryType == NoId \notin Id /\ Absent \notin [id : Id \cup {NoId}, room : Room \cup {NoRoom}]
  <1>1. Id \cup {NoId} \subseteq Nat
    BY IdAssumption DEF NoId
  <1> QED  BY <1>1, IdAssumption, HandlerAssumption DEF UserEntry

LEMMA NamesType ==
    ASSUME NEW names \in [Id -> Node \cup {NoNode}], NEW i \in Id \cup {NoId}, NEW n \in Node
    PROVE  /\ Named(names, i, n) \in [Id -> Node \cup {NoNode}]
           /\ Unnamed(names, i) \in [Id -> Node \cup {NoNode}]
           /\ \A j \in Id \ {i} : /\ Named(names, i, n)[j] = names[j]
                                  /\ Unnamed(names, i)[j] = names[j]
           /\ i \in Id => /\ Named(names, i, n)[i] = IF names[i] = NoNode THEN n ELSE names[i]
                          /\ Unnamed(names, i)[i] = NoNode
           /\ i = NoId => Named(names, i, n) = names /\ Unnamed(names, i) = names
  BY EntryType DEF Named, Unnamed

LEMMA UpdateType ==
    ASSUME NEW m \in Model, NEW n \in Node, NEW i \in Id \cup {NoId}, NEW r \in Room \cup {NoRoom}
    PROVE  ModelUserUpdate(m, n, i, r) \in Model
  <1> DEFINE E == [id : Id \cup {NoId}, room : Room \cup {NoRoom}]
  <1>1. /\ m.users \in [Node -> E \cup {Absent}] /\ m.names \in [Id -> Node \cup {NoNode}]
        /\ m.rooms \in SUBSET Room
        /\ m = [users |-> m.users, names |-> m.names, rooms |-> m.rooms]
    BY DEF Model
  <1>2. PICK us : us = [m.users EXCEPT ![n] = [id |-> i, room |-> r]]
    OBVIOUS
  <1>3. us \in [Node -> E \cup {Absent}] /\ WithEntry(m, n, i, r) = [m EXCEPT !.users = us]
    BY <1>1, <1>2 DEF WithEntry
  <1>4. \A a \in [Id -> Node \cup {NoNode}] :
           [WithEntry(m, n, i, r) EXCEPT !.names = a] \in Model
    BY <1>1, <1>3 DEF Model
  <1>5. WithEntry(m, n, i, r) \in Model /\ WithEntry(m, n, i, r).names = m.names
    BY <1>1, <1>3 DEF Model
  <1>6. Named(m.names, i, n) \in [Id -> Node \cup {NoNode}]
    BY <1>1, NamesType
  <1>7. CASE ~Has(m, n)
    BY <1>4, <1>5, <1>6, <1>7 DEF ModelUserUpdate
  <1>8. CASE Has(m, n)
    <2>1. m.users[n].id \in Id \cup {NoId}
      BY <1>1, <1>8 DEF Has
    <2>2. Unnamed(m.names, m.users[n].id) \in [Id -> Node \cup {NoNode}]
      BY <1>1, <2>1, NamesType
    <2>3. Named(Unnamed(m.names, m.users[n].id), i, n) \in [Id -> Node \cup {NoNode}]
      BY <2>2, NamesType
    <2> QED  BY <1>4, <1>5, <1>8, <2>3 DEF ModelUserUpdate
  <1> QED  BY <1>7, <1>8

LEMMA EraseType ==
    ASSUME NEW m \in Model, NEW n \in Node, NEW i \in Id \cup {NoId}
    PROVE  ModelUserErase(m, n, i) \in Model
  <1>1. m.names \in [Id -> Node \cup {NoNode}]
    BY DEF Model
  <1>2. Unnamed(m.names, i) \in [Id -> Node \cup {NoNode}]
    BY <1>1, NamesType
  <1> QED  BY <1>2 DEF ModelUserErase, Model

\* What the model was before fits the news.
Fresh(hs, g, n, i) == Has(hs[g], n) => i # NoId /\ hs[g].users[n].id \in {NoId, i}

LEMMA UpdateSays ==
    ASSUME NEW m \in Model, NEW n \in Node, NEW i \in Id \cup {NoId}, NEW r \in Room \cup {NoRoom},
           Has(m, n) => i # NoId /\ m.users[n].id \in {NoId, i},
           NEW m2, m2 = ModelUserUpdate(m, n, i, r)
    PROVE  /\ m2 \in Model /\ m2.rooms = m.rooms
           /\ m2.users[n] = [id |-> i, room |-> r]
           /\ \A k \in Node \ {n} : m2.users[k] = m.users[k]
           /\ \A j \in Id \ {i} : m2.names[j] = m.names[j]
           /\ i \in Id /\ m.names[i] = NoNode =>
                 m2.names[i] = n \/ (Has(m, n) /\ m.users[n].id = i /\ m2.names[i] = NoNode)
           /\ i \in Id /\ m.names[i] # NoNode => m2.names[i] = m.names[i]
  <1>1. /\ m.names \in [Id -> Node \cup {NoNode}] /\ n # NoNode
        /\ DOMAIN m.users = Node
    BY HandlerAssumption DEF Model
  <1>2. m2 \in Model
    BY UpdateType
  <1>3. /\ m2.rooms = m.rooms /\ m2.users = [m.users EXCEPT ![n] = [id |-> i, room |-> r]]
    BY DEF ModelUserUpdate, WithEntry, Model
  <1>4. CASE ~Has(m, n)
    <2>1. m2.names = Named(m.names, i, n)
      BY <1>4 DEF ModelUserUpdate, WithEntry, Model
    <2>2. /\ \A j \in Id \ {i} : m2.names[j] = m.names[j]
          /\ i \in Id => m2.names[i] = IF m.names[i] = NoNode THEN n ELSE m.names[i]
      BY <1>1, <2>1, NamesType
    <2> QED  BY <1>1, <1>2, <1>3, <2>2
  <1>5. CASE Has(m, n) /\ m.users[n].id = i
    <2>1. m2.names = m.names /\ i \in Id
      BY <1>5 DEF ModelUserUpdate, WithEntry, Model
    <2>2. /\ m2.users[n] = [id |-> i, room |-> r]
          /\ \A k \in Node \ {n} : m2.users[k] = m.users[k]
      BY <1>1, <1>3
    <2> QED  BY <1>2, <1>3, <1>5, <2>1, <2>2
  <1>6. CASE Has(m, n) /\ m.users[n].id # i
    <2>1. m2.names = Named(Unnamed(m.names, NoId), i, n) /\ i \in Id
      BY <1>6 DEF ModelUserUpdate, WithEntry, Model
    <2>2. Unnamed(m.names, NoId) = m.names
      BY DEF Unnamed
    <2>3. /\ \A j \in Id \ {i} : m2.names[j] = m.names[j]
          /\ i \in Id => m2.names[i] = IF m.names[i] = NoNode THEN n ELSE m.names[i]
      BY <1>1, <2>1, <2>2, NamesType
    <2> QED  BY <1>1, <1>2, <1>3, <2>3
  <1> QED  BY <1>4, <1>5, <1>6

LEMMA Entering ==
    ASSUME NEW hs, NEW tw, ModelInv(hs, tw), NEW g \in Group, NEW n \in Node,
           NEW i \in Id \cup {NoId}, NEW r \in Room \cup {NoRoom}, i = NoId => r = NoRoom,
           Fresh(hs, g, n, i), Alone(hs, tw, g, n, i),
           NEW hs2, hs2 = [hs EXCEPT ![g] = ModelUserUpdate(hs[g], n, i, r)]
    PROVE  ModelInv(hs2, tw) /\ Becomes(hs, hs2, g, n, [id |-> i, room |-> r])
  <1>1. hs \in [Group -> Model] /\ hs[g] \in Model
    BY DEF ModelInv
  <1>2. PICK m : m = hs[g]
    OBVIOUS
  <1>3. PICK m2 : m2 = ModelUserUpdate(m, n, i, r)
    OBVIOUS
  <1>4. PICK e : e = [id |-> i, room |-> r] /\ e.id = i /\ e.room = r /\ e # Absent
    <2>1. [id |-> i, room |-> r] \in [id : Id \cup {NoId}, room : Room \cup {NoRoom}]
      OBVIOUS
    <2> QED  BY <2>1, EntryType
  <1>5. /\ m2 \in Model /\ m2.rooms = m.rooms /\ m2.users[n] = e
        /\ \A k \in Node \ {n} : m2.users[k] = m.users[k]
        /\ \A j \in Id \ {i} : m2.names[j] = m.names[j]
        /\ i \in Id /\ m.names[i] = NoNode =>
              m2.names[i] = n \/ (Has(m, n) /\ m.users[n].id = i /\ m2.names[i] = NoNode)
        /\ i \in Id /\ m.names[i] # NoNode => m2.names[i] = m.names[i]
    <2>1. m \in Model /\ (Has(m, n) => i # NoId /\ m.users[n].id \in {NoId, i})
      BY <1>1, <1>2 DEF Fresh
    <2> QED  BY <1>3, <1>4, <2>1, UpdateSays
  <1>6. hs2[g] = m2 /\ \A h \in Group \ {g} : hs2[h] = hs[h]
    BY <1>1, <1>2, <1>3
  <1>7. hs2 \in [Group -> Model]
    BY <1>1, <1>2, <1>3, <1>5
  <1>8. Becomes(hs, hs2, g, n, e)
    BY <1>2, <1>5, <1>6 DEF Becomes
  <1>9. ASSUME NEW h \in Group, NEW k \in Node, Has(hs2[h], k), hs2[h].users[k].id = NoId
        PROVE  hs2[h].users[k].room = NoRoom
    <2>1. CASE h = g /\ k = n
      BY <1>4, <1>5, <1>6, <1>9, <2>1
    <2>2. CASE h # g \/ k # n
      BY <1>2, <1>5, <1>6, <1>9, <2>2 DEF ModelInv, Has
    <2> QED  BY <2>1, <2>2
  <1>10. ASSUME NEW h \in Group, NEW j \in Id \ tw, NEW k \in Node
         PROVE  hs2[h].names[j] = k <=> Has(hs2[h], k) /\ hs2[h].users[k].id = j
    <2>0. /\ \A x \in Node : hs[h].names[j] = x <=> Has(hs[h], x) /\ hs[h].users[x].id = j
          /\ hs[h].names[j] \in Node \cup {NoNode}
      BY <1>1 DEF ModelInv, Model
    <2>1. CASE h # g
      BY <1>6, <2>0, <2>1
    <2>2. CASE h = g /\ j # i
      <3>1. Has(m, n) => m.users[n].id # j
        BY <1>2, <2>2, EntryType DEF Fresh
      <3>2. m2.names[j] = m.names[j]
        BY <1>5, <2>2
      <3> QED  BY <1>2, <1>4, <1>5, <1>6, <2>0, <2>2, <3>1, <3>2 DEF Has
    <2>3. CASE h = g /\ j = i
      <3>1. \A x \in Node \ {n} : ~(Has(m, x) /\ m.users[x].id = i)
        BY <1>2, <2>3 DEF Alone
      <3>2. m2.names[i] = n
        BY <1>2, <1>5, <2>0, <2>3, <3>1, HandlerAssumption
      <3> QED  BY <1>2, <1>4, <1>5, <1>6, <2>3, <3>1, <3>2 DEF Has
    <2> QED  BY <2>1, <2>2, <2>3
  <1>11. ASSUME NEW h \in Group, NEW j \in Id, NEW k \in Node, hs2[h].names[j] = k
         PROVE  Has(hs2[h], k) /\ hs2[h].users[k].id = j
    <2>0. /\ \A x \in Node : hs[h].names[j] = x => Has(hs[h], x) /\ hs[h].users[x].id = j
          /\ hs[h].names[j] \in Node \cup {NoNode}
      BY <1>1 DEF ModelInv, NamesTrue, Model
    <2>1. CASE h # g
      BY <1>6, <1>11, <2>0, <2>1
    <2>2. CASE h = g /\ k = n
      <3>1. j = i
        <4>1. CASE j # i
          <5>1. hs[g].names[j] = n
            BY <1>2, <1>5, <1>6, <1>11, <2>2, <4>1
          <5> QED  BY <2>0, <2>2, <4>1, <5>1, EntryType DEF Fresh
        <4> QED  BY <4>1
      <3> QED  BY <1>4, <1>5, <1>6, <2>2, <3>1 DEF Has
    <2>3. CASE h = g /\ k # n
      <3>1. hs[g].names[j] = k
        BY <1>2, <1>5, <1>6, <1>11, <2>0, <2>3, HandlerAssumption
      <3> QED  BY <1>2, <1>5, <1>6, <2>0, <2>3, <3>1 DEF Has
    <2> QED  BY <2>1, <2>2, <2>3
  <1>12. ModelInv(hs2, tw)
    BY <1>7, <1>9, <1>10, <1>11 DEF ModelInv, NamesTrue
  <1> QED  BY <1>4, <1>8, <1>12

LEMMA Leaving ==
    ASSUME NEW hs, NEW tw, ModelInv(hs, tw), NEW g \in Group, NEW n \in Node,
           Has(hs[g], n), NEW i, i = hs[g].users[n].id, Alone(hs, tw, g, n, i),
           NEW hs2, hs2 = [hs EXCEPT ![g] = ModelUserErase(hs[g], n, i)]
    PROVE  ModelInv(hs2, tw) /\ Becomes(hs, hs2, g, n, Absent)
  <1>1. /\ hs \in [Group -> Model] /\ hs[g] \in Model /\ i \in Id \cup {NoId}
        /\ hs[g].names \in [Id -> Node \cup {NoNode}]
    BY DEF ModelInv, Model, Has
  <1>2. PICK m : m = hs[g]
    OBVIOUS
  <1>3. PICK m2 : m2 = ModelUserErase(m, n, i)
    OBVIOUS
  <1>5. /\ m2 \in Model /\ m2.rooms = m.rooms /\ m2.users[n] = Absent
        /\ \A k \in Node \ {n} : m2.users[k] = m.users[k]
        /\ \A j \in Id \ {i} : m2.names[j] = m.names[j]
        /\ i \in Id => m2.names[i] = NoNode
    <2>1. m2 \in Model
      BY <1>1, <1>2, <1>3, EraseType
    <2>2. /\ m2.rooms = m.rooms /\ m2.users = [m.users EXCEPT ![n] = Absent]
          /\ m2.names = Unnamed(m.names, i) /\ DOMAIN m.users = Node
      BY <1>1, <1>2, <1>3 DEF ModelUserErase, Model
    <2>3. /\ \A j \in Id \ {i} : m2.names[j] = m.names[j]
          /\ i \in Id => m2.names[i] = NoNode
      BY <1>1, <1>2, <2>2, NamesType
    <2> QED  BY <2>1, <2>2, <2>3
  <1>6. hs2[g] = m2 /\ \A h \in Group \ {g} : hs2[h] = hs[h]
    BY <1>1, <1>2, <1>3
  <1>7. hs2 \in [Group -> Model]
    BY <1>1, <1>2, <1>3, <1>5
  <1>8. Becomes(hs, hs2, g, n, Absent)
    BY <1>2, <1>5, <1>6 DEF Becomes
  <1>9. ASSUME NEW h \in Group, NEW k \in Node, Has(hs2[h], k), hs2[h].users[k].id = NoId
        PROVE  hs2[h].users[k].room = NoRoom
    BY <1>2, <1>5, <1>6, <1>9 DEF ModelInv, Has
  <1>10. ASSUME NEW h \in Group, NEW j \in Id \ tw, NEW k \in Node
         PROVE  hs2[h].names[j] = k <=> Has(hs2[h], k) /\ hs2[h].users[k].id = j
    <2>0. /\ \A x \in Node : hs[h].names[j] = x <=> Has(hs[h], x) /\ hs[h].users[x].id = j
          /\ hs[h].names[j] \in Node \cup {NoNode}
      BY <1>1 DEF ModelInv, Model
    <2>1. CASE h # g
      BY <1>6, <2>0, <2>1
    <2>2. CASE h = g /\ j # i
      <3>1. m2.names[j] = m.names[j]
        BY <1>5, <2>2
      <3> QED  BY <1>2, <1>5, <1>6, <2>0, <2>2, <3>1 DEF Has
    <2>3. CASE h = g /\ j = i
      <3>1. \A x \in Node \ {n} : ~(Has(m, x) /\ m.users[x].id = i)
        BY <1>2, <2>3 DEF Alone
      <3> QED  BY <1>2, <1>5, <1>6, <2>3, <3>1, HandlerAssumption DEF Has
    <2> QED  BY <2>1, <2>2, <2>3
  <1>11. ASSUME NEW h \in Group, NEW j \in Id, NEW k \in Node, hs2[h].names[j] = k
         PROVE  Has(hs2[h], k) /\ hs2[h].users[k].id = j
    <2>0. \A x \in Node : hs[h].names[j] = x => Has(hs[h], x) /\ hs[h].users[x].id = j
      BY DEF ModelInv, NamesTrue
    <2>1. CASE h # g
      BY <1>6, <1>11, <2>0, <2>1
    <2>2. CASE h = g
      <3>1. j # i
        BY <1>5, <1>6, <1>11, <2>2, HandlerAssumption
      <3>2. m.names[j] = k
        BY <1>5, <1>6, <1>11, <2>2, <3>1
      <3>3. k # n
        BY <1>2, <2>0, <2>2, <3>1, <3>2
      <3> QED  BY <1>2, <1>5, <1>6, <2>0, <2>2, <3>2, <3>3 DEF Has
    <2> QED  BY <2>1, <2>2
  <1>12. ModelInv(hs2, tw)
    BY ONLY <1>7, <1>9, <1>10, <1>11 DEF ModelInv, NamesTrue
  <1> QED  BY <1>8, <1>12

\* A room that comes or goes leaves the users and their names alone.
RoomsBecome(hs, hs2, g, R) == /\ \A h \in Group : hs2[h].users = hs[h].users
                              /\ hs2[g].rooms = R
                              /\ \A h \in Group \ {g} : hs2[h].rooms = hs[h].rooms

WithRooms(hs, g, R) == [hs EXCEPT ![g] = [@ EXCEPT !.rooms = R]]

LEMMA RoomsOnly ==
    ASSUME NEW hs, NEW tw, ModelInv(hs, tw), NEW g \in Group, NEW R \in SUBSET Room,
           NEW hs2, hs2 = WithRooms(hs, g, R)
    PROVE  ModelInv(hs2, tw) /\ RoomsBecome(hs, hs2, g, R)
  <1>1. hs \in [Group -> Model] /\ hs[g] \in Model
    BY DEF ModelInv
  <1>2. PICK m2 : m2 = [hs[g] EXCEPT !.rooms = R]
    OBVIOUS
  <1>3. /\ m2 \in Model /\ m2.users = hs[g].users /\ m2.names = hs[g].names /\ m2.rooms = R
    BY <1>1, <1>2 DEF Model
  <1>4. hs2[g] = m2 /\ hs2 \in [Group -> Model] /\ \A h \in Group \ {g} : hs2[h] = hs[h]
    BY <1>1, <1>2, <1>3 DEF WithRooms
  <1>5. \A h \in Group : hs2[h].users = hs[h].users /\ hs2[h].names = hs[h].names
    BY <1>3, <1>4
  <1> QED  BY <1>3, <1>4, <1>5 DEF ModelInv, NamesTrue, Has, RoomsBecome

\* More twins say less.
LEMMA MoreTwins ==
    ASSUME NEW hs, NEW v, NEW tw, NEW tw2, tw \subseteq tw2
    PROVE  /\ ModelInv(hs, tw) => ModelInv(hs, tw2)
           /\ ListInv(v, hs, tw) => ListInv(v, hs, tw2)
  BY DEF ModelInv, ListInv

-----------------------------------------------------------------------------
(* The lists of users *)

LEMMA ItemStays ==
    ASSUME NEW v \in UsersView, NEW v2, NEW hs, NEW hs2, NEW j \in Id, ItemInv(v, hs, j),
           v2.ids[j] = v.ids[j], v2.room = v.room,
           \A h \in Group, m \in Node : Shows(v, hs2, h, m, j) <=> Shows(v, hs, h, m, j),
           \A h \in Group, m \in Node : Shows(v, hs, h, m, j) =>
              hs2[h].users[m].room = hs[h].users[m].room
    PROVE  ItemInv(v2, hs2, j)
  <1>1. \A h \in Group, m \in Node : Shows(v2, hs2, h, m, j) <=> Shows(v, hs2, h, m, j)
    BY DEF Shows
  <1>2. CASE v.ids[j] = NoItem
    BY <1>1, <1>2 DEF ItemInv
  <1>3. CASE v.ids[j] # NoItem
    <2>1. v.ids[j].feeds \in [Group -> Node \cup {NoNode}]
      BY <1>3 DEF UsersView, UserItem
    <2>2. PICK item : item = v.ids[j]
      OBVIOUS
    <2>3. \A h \in Group : item.feeds[h] # NoNode =>
             hs2[h].users[item.feeds[h]].room = hs[h].users[item.feeds[h]].room
      BY <1>3, <2>1, <2>2 DEF ItemInv, FedBy
    <2>4. FedBy(item, v2, hs2, j)
      BY <1>1, <1>3, <2>2 DEF ItemInv, FedBy
    <2>5. ItemSays(item, hs2)
      <3>1. ItemSays(item, hs)
        BY <1>3, <2>2 DEF ItemInv
      <3>2. (\E g \in Group : item.feeds[g] # NoNode /\ hs2[g].users[item.feeds[g]].room # NoRoom)
            <=> \E g \in Group : item.feeds[g] # NoNode /\ hs[g].users[item.feeds[g]].room # NoRoom
        BY <2>3
      <3> QED  BY <3>1, <3>2 DEF ItemSays
    <2> QED  BY <1>3, <2>2, <2>4, <2>5 DEF ItemInv
  <1> QED  BY <1>2, <1>3

\* The item is fed by whom it shows from the other groups.
Elsewhere(v, hs, g, i) == \A h \in Group \ {g}, m \in Node :
    Shows(v, hs, h, m, i) <=> (v.ids[i] # NoItem /\ v.ids[i].feeds[h] = m)

LEMMA ResolvedSays ==
    ASSUME NEW v, NEW hs, NEW i, NEW item \in UserItem,
           FedBy(item, v, hs, i),
           NEW new, new = Resolved(item, hs)
    PROVE  /\ new \in UserItem /\ new.feeds = item.feeds
           /\ ItemSays(new, hs)
  <1>1. /\ item = [feeds |-> item.feeds, conn |-> item.conn, waiting |-> item.waiting]
        /\ item.feeds \in [Group -> Node \cup {NoNode}]
    BY DEF UserItem
  <1>2. \A h \in Group : item.feeds[h] # NoNode => Has(hs[h], item.feeds[h])
    BY <1>1 DEF Shows, FedBy
  <1>3. PICK heard : heard = {g \in Group : item.feeds[g] # NoNode}
    OBVIOUS
  <1>4. {g \in Group : item.feeds[g] # NoNode /\ Has(hs[g], item.feeds[g])} = heard
    BY <1>2, <1>3
  <1>5. PICK w \in BOOLEAN : w = \E g \in heard : hs[g].users[item.feeds[g]].room # NoRoom
    OBVIOUS
  <1>6. new = [feeds |-> item.feeds, conn |-> heard, waiting |-> w]
    BY <1>1, <1>4, <1>5 DEF Resolved
  <1>7. new \in UserItem
    BY <1>1, <1>3, <1>6 DEF UserItem
  <1>8. new.feeds = item.feeds /\ new.conn = heard /\ new.waiting = w
    BY <1>6
  <1> QED  BY <1>3, <1>5, <1>7, <1>8 DEF ItemSays

\* Only the item of i changes.
OnlyItem(v, v2, i) == /\ v2 \in UsersView /\ v2.room = v.room
                      /\ \A j \in Id \ {i} : v2.ids[j] = v.ids[j]

LEMMA ResolvedType ==
    ASSUME NEW item \in UserItem, NEW hs
    PROVE  Resolved(item, hs) \in UserItem
  <1>1. PICK heard : heard = {g \in Group : item.feeds[g] # NoNode /\ Has(hs[g], item.feeds[g])}
    OBVIOUS
  <1>2. PICK w \in BOOLEAN : w = \E g \in heard : hs[g].users[item.feeds[g]].room # NoRoom
    OBVIOUS
  <1>3. Resolved(item, hs) = [item EXCEPT !.conn = heard, !.waiting = w]
    BY <1>1, <1>2 DEF Resolved
  <1> QED  BY <1>1, <1>3 DEF UserItem

WithItem(v, i, item, us) == [v EXCEPT !.ids[i] = item, !.unids = us]

LEMMA ItemType ==
    ASSUME NEW v \in UsersView, NEW i \in Id, NEW item \in UserItem \cup {NoItem},
           NEW us \in SUBSET (Group \X Node)
    PROVE  /\ OnlyItem(v, WithItem(v, i, item, us), i)
           /\ WithItem(v, i, item, us).ids[i] = item
           /\ WithItem(v, i, item, us).unids = us
  <1>0. PICK v2 : v2 = WithItem(v, i, item, us)
    OBVIOUS
  <1>1. PICK ro \in Room \cup {NoRoom} : ro = v.room
    BY DEF UsersView
  <1>2. /\ v.ids \in [Id -> UserItem \cup {NoItem}]
        /\ v = [room |-> v.room, ids |-> v.ids, unids |-> v.unids]
    BY DEF UsersView
  <1>3. PICK ids : ids = [v.ids EXCEPT ![i] = item]
    OBVIOUS
  <1>4. /\ ids \in [Id -> UserItem \cup {NoItem}] /\ ids[i] = item
        /\ \A j \in Id \ {i} : ids[j] = v.ids[j]
    BY <1>2, <1>3
  <1>5. v2 = [room |-> v.room, ids |-> ids, unids |-> us]
    BY <1>0, <1>2, <1>3 DEF WithItem
  <1>6. v2 = [room |-> ro, ids |-> ids, unids |-> us]
    BY <1>1, <1>5
  <1>7. v2 \in UsersView
    BY <1>4, <1>6 DEF UsersView
  <1> QED  BY <1>0, <1>1, <1>4, <1>6, <1>7 DEF OnlyItem

LEMMA RemoveType ==
    ASSUME NEW v \in UsersView, NEW hs, NEW i \in Id \cup {NoId}, NEW g \in Group, NEW n \in Node,
           NEW v2, v2 = RemoveUser(v, hs, g, n, i)
    PROVE  /\ OnlyItem(v, v2, i)
           /\ v2.unids = v.unids \ {<<g, n>>} \/ (i \in Id /\ v2.unids = v.unids)
  <1>1. PICK us \in SUBSET (Group \X Node) : us = v.unids \ {<<g, n>>}
    BY DEF UsersView
  <1>2. CASE i = NoId
    <2>1. v2 = [v EXCEPT !.unids = us]
      BY <1>1, <1>2 DEF RemoveUser
    <2> QED  BY <1>1, <2>1 DEF UsersView, OnlyItem
  <1>3. CASE i \in Id
    <2>1. i # NoId /\ v.ids[i] \in UserItem \cup {NoItem}
      BY <1>3, EntryType DEF UsersView
    <2>2. CASE v.ids[i] = NoItem
      BY <1>3, <2>1, <2>2 DEF RemoveUser, OnlyItem
    <2>3. CASE v.ids[i] # NoItem
      <3>1. PICK item \in UserItem : item = v.ids[i]
        BY <2>1, <2>3
      <3>2. [item EXCEPT !.feeds[g] = NoNode] \in UserItem
        BY DEF UserItem
      <3>3. PICK new \in UserItem \cup {NoItem} : new = UserRemoved(item, hs, g)
        BY <3>2, ResolvedType DEF UserRemoved
      <3>4. v2 = WithItem(v, i, new, us)
        BY <1>1, <2>1, <2>3, <3>1, <3>3 DEF RemoveUser, WithItem
      <3> QED  BY <1>1, <1>3, <3>4, ItemType
    <2> QED  BY <2>2, <2>3
  <1> QED  BY <1>2, <1>3

\* And it is as it has to be.
Shown(v, v2, hs, i) == OnlyItem(v, v2, i) /\ ItemInv(v2, hs, i)

LEMMA FedSays ==
    ASSUME NEW v \in UsersView, NEW hs, NEW i \in Id, NEW g \in Group, NEW n \in Node,
           Elsewhere(v, hs, g, i), \A m \in Node : Shows(v, hs, g, m, i) <=> m = n,
           NEW item, item = (IF v.ids[i] = NoItem THEN NewUserItem ELSE v.ids[i]),
           NEW v2, v2 = WithItem(v, i, Fed(item, hs, g, n), v.unids \ {<<g, n>>})
    PROVE  Shown(v, v2, hs, i)
  <1>1. /\ v.ids \in [Id -> UserItem \cup {NoItem}] /\ v.unids \in SUBSET (Group \X Node)
        /\ NoItem \notin UserItem
    BY ViewAssumption DEF UsersView
  <1>2. item \in UserItem
    BY <1>1 DEF NewUserItem, UserItem
  <1>3. PICK fd : fd = [item EXCEPT !.feeds[g] = n]
    OBVIOUS
  <1>4. /\ fd \in UserItem /\ fd.feeds = [item.feeds EXCEPT ![g] = n]
        /\ item.feeds \in [Group -> Node \cup {NoNode}]
    BY <1>2, <1>3 DEF UserItem
  <1>5. FedBy(fd, v, hs, i)
    <2>1. \A m \in Node : fd.feeds[g] = m <=> Shows(v, hs, g, m, i)
      BY <1>4
    <2>2. ASSUME NEW h \in Group \ {g}, NEW m \in Node
          PROVE  fd.feeds[h] = m <=> Shows(v, hs, h, m, i)
      <3>1. CASE v.ids[i] = NoItem
        BY <1>4, <3>1, HandlerAssumption DEF Elsewhere, NewUserItem
      <3>2. CASE v.ids[i] # NoItem
        BY <1>4, <3>2 DEF Elsewhere
      <3> QED  BY <3>1, <3>2
    <2> QED  BY <2>1, <2>2 DEF FedBy
  <1>6. PICK new : new = Resolved(fd, hs)
    OBVIOUS
  <1>7. new \in UserItem /\ new.feeds = fd.feeds /\ ItemSays(new, hs)
    BY <1>4, <1>5, <1>6, ResolvedSays
  <1>8. new = Fed(item, hs, g, n)
    BY <1>3, <1>6 DEF Fed
  <1>9. PICK us \in SUBSET (Group \X Node) : us = v.unids \ {<<g, n>>}
    BY <1>1
  <1>10. v2 = WithItem(v, i, new, us)
    BY <1>8, <1>9
  <1>11. OnlyItem(v, v2, i) /\ v2.ids[i] = new /\ v2.room = v.room
    <2>1. OnlyItem(v, v2, i) /\ v2.ids[i] = new
      BY <1>7, <1>10, ItemType
    <2> QED  BY <2>1 DEF OnlyItem
  <1>12. FedBy(new, v2, hs, i)
    BY <1>5, <1>7, <1>11 DEF Shows, FedBy
  <1>13. new # NoItem /\ \E h \in Group : new.feeds[h] # NoNode
    BY <1>1, <1>4, <1>7, HandlerAssumption
  <1>14. ItemInv(v2, hs, i)
    BY <1>7, <1>11, <1>12, <1>13 DEF ItemInv
  <1> QED  BY <1>11, <1>14 DEF Shown

LEMMA UnfedSays ==
    ASSUME NEW v \in UsersView, NEW hs, NEW i \in Id, NEW g \in Group, NEW n \in Node,
           Elsewhere(v, hs, g, i), \A m \in Node : ~Shows(v, hs, g, m, i),
           NEW v2, v2 = RemoveUser(v, hs, g, n, i)
    PROVE  Shown(v, v2, hs, i)
  <1>1. /\ v.ids \in [Id -> UserItem \cup {NoItem}] /\ v.unids \in SUBSET (Group \X Node)
        /\ NoItem \notin UserItem /\ i # NoId
    BY ViewAssumption, EntryType DEF UsersView
  <1>2. OnlyItem(v, v2, i) /\ v2.room = v.room
    <2>1. OnlyItem(v, v2, i)
      BY RemoveType
    <2> QED  BY <2>1 DEF OnlyItem
  <1>3. CASE v.ids[i] = NoItem
    <2>1. v2 = v
      BY <1>1, <1>3 DEF RemoveUser
    <2>2. \A h \in Group, m \in Node : ~Shows(v, hs, h, m, i)
      BY <1>3 DEF Elsewhere
    <2>3. ItemInv(v2, hs, i)
      BY <1>3, <2>1, <2>2 DEF ItemInv
    <2> QED  BY <1>2, <2>3 DEF Shown
  <1>4. CASE v.ids[i] # NoItem
    <2>1. PICK item \in UserItem : item = v.ids[i]
      BY <1>1, <1>4
    <2>2. PICK left : left = [item EXCEPT !.feeds[g] = NoNode]
      OBVIOUS
    <2>3. /\ left \in UserItem /\ left.feeds = [item.feeds EXCEPT ![g] = NoNode]
          /\ item.feeds \in [Group -> Node \cup {NoNode}]
      BY <2>1, <2>2 DEF UserItem
    <2>4. FedBy(left, v, hs, i)
      BY <1>4, <2>1, <2>3, HandlerAssumption DEF Elsewhere, FedBy
    <2>5. PICK new \in UserItem \cup {NoItem} : new = UserRemoved(item, hs, g)
      BY <2>2, <2>3, ResolvedType DEF UserRemoved
    <2>6. v2.ids[i] = new
      <3>1. PICK us \in SUBSET (Group \X Node) : us = v.unids \ {<<g, n>>}
        BY <1>1
      <3>2. v2 = WithItem(v, i, new, us)
        BY <1>1, <1>4, <2>1, <2>5, <3>1 DEF RemoveUser, WithItem
      <3> QED  BY <3>2, ItemType
    <2>7. CASE \A h \in Group : left.feeds[h] = NoNode
      <3>1. v2.ids[i] = NoItem
        BY <2>2, <2>5, <2>6, <2>7 DEF UserRemoved
      <3>2. \A h \in Group, m \in Node : ~Shows(v2, hs, h, m, i)
        <4>1. \A h \in Group, m \in Node : ~Shows(v, hs, h, m, i)
          BY <2>4, <2>7, HandlerAssumption DEF FedBy
        <4> QED  BY <1>2, <4>1 DEF Shows
      <3>3. ItemInv(v2, hs, i)
        BY <3>1, <3>2 DEF ItemInv
      <3> QED  BY <1>2, <3>3 DEF Shown
    <2>8. CASE \E h \in Group : left.feeds[h] # NoNode
      <3>1. new = Resolved(left, hs)
        BY <2>2, <2>5, <2>8 DEF UserRemoved
      <3>2. new \in UserItem /\ new.feeds = left.feeds /\ ItemSays(new, hs)
        BY <2>3, <2>4, <3>1, ResolvedSays
      <3>3. FedBy(new, v2, hs, i)
        BY <1>2, <2>4, <3>2 DEF Shows, FedBy
      <3>4. ItemInv(v2, hs, i)
        BY <1>1, <2>6, <2>8, <3>2, <3>3 DEF ItemInv
      <3> QED  BY <1>2, <3>4 DEF Shown
    <2> QED  BY <2>7, <2>8
  <1> QED  BY <1>3, <1>4

UnidsTold(v, v2, g, n, i) == v.room = NoRoom =>
    v2.unids = IF i = NoId THEN v.unids \cup {<<g, n>>} ELSE v.unids \ {<<g, n>>}

LEMMA UpdateTyped ==
    ASSUME NEW v \in UsersView, NEW hs, NEW g \in Group, NEW n \in Node,
           Has(hs[g], n), hs[g].users[n].id \in Id \cup {NoId},
           NEW v2, v2 = UpdateUser(v, hs, g, n)
    PROVE  /\ OnlyItem(v, v2, hs[g].users[n].id)
           /\ UnidsTold(v, v2, g, n, hs[g].users[n].id)
  <1>0. PICK i \in Id \cup {NoId} : i = hs[g].users[n].id
    OBVIOUS
  <1>1. hs[g].users[n] # Absent
    BY DEF Has
  <1>2. CASE v.room \notin {NoRoom, hs[g].users[n].room}
    <2>1. v2 = RemoveUser(v, hs, g, n, i)
      BY <1>0, <1>1, <1>2 DEF UpdateUser
    <2>2. OnlyItem(v, v2, i)
      BY <2>1, RemoveType
    <2> QED  BY <1>0, <1>2, <2>2 DEF UnidsTold
  <1>3. CASE v.room \in {NoRoom, hs[g].users[n].room} /\ i = NoId
    <2>1. PICK us \in SUBSET (Group \X Node) : us = v.unids \cup {<<g, n>>}
      <3>1. v.unids \in SUBSET (Group \X Node)
        BY DEF UsersView
      <3>2. v.unids \cup {<<g, n>>} \in SUBSET (Group \X Node)
        BY <3>1
      <3> QED  BY <3>2
    <2>2. v2 = [v EXCEPT !.unids = us]
      BY <1>0, <1>1, <1>3, <2>1 DEF UpdateUser
    <2> QED  BY <1>0, <1>3, <2>1, <2>2 DEF UsersView, OnlyItem, UnidsTold
  <1>4. CASE v.room \in {NoRoom, hs[g].users[n].room} /\ i # NoId
    <2>1. PICK us \in SUBSET (Group \X Node) : us = v.unids \ {<<g, n>>}
      BY DEF UsersView
    <2>2. PICK item \in UserItem : item = IF v.ids[i] = NoItem THEN NewUserItem ELSE v.ids[i]
      <3>1. NewUserItem \in UserItem /\ v.ids[i] \in UserItem \cup {NoItem}
        BY <1>4 DEF UsersView, UserItem, NewUserItem
      <3> QED  BY <3>1
    <2>3. [item EXCEPT !.feeds[g] = n] \in UserItem
      BY DEF UserItem
    <2>4. PICK new \in UserItem : new = Fed(item, hs, g, n)
      BY <2>3, ResolvedType DEF Fed
    <2>5. v2 = WithItem(v, i, new, us)
      BY <1>0, <1>1, <1>4, <2>1, <2>2, <2>4 DEF UpdateUser, Identified, WithItem
    <2> QED  BY <1>0, <1>4, <2>1, <2>5, ItemType DEF UnidsTold
  <1> QED  BY <1>2, <1>3, <1>4

LEMMA UpdateShown ==
    ASSUME NEW v \in UsersView, NEW hs, NEW i \in Id, NEW g \in Group, NEW n \in Node,
           Has(hs[g], n), i = hs[g].users[n].id,
           \A m \in Node \ {n} : Has(hs[g], m) => hs[g].users[m].id # i,
           Elsewhere(v, hs, g, i),
           NEW v2, v2 = UpdateUser(v, hs, g, n)
    PROVE  ItemInv(v2, hs, i)
  <1>1. /\ hs[g].users[n] # Absent /\ i # NoId
        /\ \A m \in Node \ {n} : ~Shows(v, hs, g, m, i)
    BY EntryType DEF Has, Shows
  <1>2. CASE v.room \notin {NoRoom, hs[g].users[n].room}
    <2>1. v2 = RemoveUser(v, hs, g, n, i)
      BY <1>1, <1>2 DEF UpdateUser
    <2>2. \A m \in Node : ~Shows(v, hs, g, m, i)
      BY <1>1, <1>2 DEF Shows
    <2>3. Shown(v, v2, hs, i)
      BY <2>1, <2>2, UnfedSays
    <2> QED  BY <2>3 DEF Shown
  <1>3. CASE v.room \in {NoRoom, hs[g].users[n].room}
    <2>1. PICK item : item = IF v.ids[i] = NoItem THEN NewUserItem ELSE v.ids[i]
      OBVIOUS
    <2>2. v2 = WithItem(v, i, Fed(item, hs, g, n), v.unids \ {<<g, n>>})
      BY <1>1, <1>3, <2>1 DEF UpdateUser, Identified, WithItem
    <2>3. \A m \in Node : Shows(v, hs, g, m, i) <=> m = n
      BY <1>1, <1>3 DEF Shows
    <2>4. Shown(v, v2, hs, i)
      BY <2>1, <2>2, <2>3, FedSays
    <2> QED  BY <2>4 DEF Shown
  <1> QED  BY <1>2, <1>3

LEMMA RemoveShown ==
    ASSUME NEW v \in UsersView, NEW hs, NEW i \in Id, NEW g \in Group, NEW n \in Node,
           \A m \in Node : Has(hs[g], m) => hs[g].users[m].id # i,
           Elsewhere(v, hs, g, i),
           NEW v2, v2 = RemoveUser(v, hs, g, n, i)
    PROVE  ItemInv(v2, hs, i)
  <1>1. \A m \in Node : ~Shows(v, hs, g, m, i)
    BY DEF Shows
  <1>2. Shown(v, v2, hs, i)
    BY <1>1, UnfedSays
  <1> QED  BY <1>2 DEF Shown

\* What the model has of a user changes, but not from one id to another: items
\* of others stay.
LEMMA OthersStay ==
    ASSUME NEW v \in UsersView, NEW hs, NEW hs2, NEW g \in Group, NEW n \in Node, NEW e,
           Becomes(hs, hs2, g, n, e), NEW i, Has(hs[g], n) => hs[g].users[n].id \in {NoId, i},
           e # Absent => e.id = i,
           NEW v2, OnlyItem(v, v2, i)
    PROVE  /\ \A j \in Id \ {i} : ItemInv(v, hs, j) => ItemInv(v2, hs2, j)
           /\ i \in Id /\ ItemInv(v, hs, i) => Elsewhere(v, hs2, g, i)
  <1>1. ASSUME NEW j \in Id \ {i}, ItemInv(v, hs, j)
        PROVE  ItemInv(v2, hs2, j)
    <2>1. ~Shows(v, hs, g, n, j) /\ ~Shows(v, hs2, g, n, j)
      BY EntryType DEF Becomes, Shows, Has
    <2>2. \A h \in Group, m \in Node : Shows(v, hs2, h, m, j) <=> Shows(v, hs, h, m, j)
      BY <2>1 DEF Becomes, Shows, Has
    <2>3. \A h \in Group, m \in Node : Shows(v, hs, h, m, j) =>
             hs2[h].users[m].room = hs[h].users[m].room
      BY <2>1 DEF Becomes
    <2>4. v2.ids[j] = v.ids[j] /\ v2.room = v.room
      BY DEF OnlyItem
    <2> QED  BY <1>1, <2>2, <2>3, <2>4, ItemStays
  <1>2. ASSUME i \in Id, ItemInv(v, hs, i)
        PROVE  Elsewhere(v, hs2, g, i)
    <2>1. \A h \in Group \ {g}, m \in Node : Shows(v, hs2, h, m, i) <=> Shows(v, hs, h, m, i)
      BY DEF Becomes, Shows, Has
    <2> QED  BY <1>2, <2>1 DEF ItemInv, FedBy, Elsewhere
  <1> QED  BY <1>1, <1>2

LEMMA AfterNews ==
    ASSUME NEW v, NEW hs, NEW tw, ListInv(v, hs, tw), NEW hs2, NEW g \in Group, NEW n \in Node,
           NEW i \in Id \cup {NoId}, NEW e, e.id = i, e # Absent, Becomes(hs, hs2, g, n, e),
           Fresh(hs, g, n, i), Alone(hs, tw, g, n, i),
           NEW v2, v2 = UpdateUser(v, hs2, g, n)
    PROVE  /\ ListInv(v2, hs2, tw) /\ v2.room = v.room
           /\ v.room = NoRoom /\ UnidsInv(v, hs) => UnidsInv(v2, hs2)
  <1>1. v \in UsersView
    BY DEF ListInv
  <1>2. Has(hs2[g], n) /\ hs2[g].users[n] = e /\ hs2[g].users[n].id = i
    BY DEF Becomes, Has
  <1>3. /\ OnlyItem(v, v2, i)
        /\ UnidsTold(v, v2, g, n, i)
    BY <1>1, <1>2, UpdateTyped
  <1>4. Has(hs[g], n) => hs[g].users[n].id \in {NoId, i}
    BY DEF Fresh
  <1>5. /\ \A j \in Id \ {i} : ItemInv(v, hs, j) => ItemInv(v2, hs2, j)
        /\ i \in Id /\ ItemInv(v, hs, i) => Elsewhere(v, hs2, g, i)
    BY <1>1, <1>3, <1>4, OthersStay
  <1>6. ASSUME i \in Id \ tw  PROVE ItemInv(v2, hs2, i)
    <2>1. Elsewhere(v, hs2, g, i)
      BY <1>5, <1>6 DEF ListInv
    <2>2. \A m \in Node \ {n} : Has(hs2[g], m) => hs2[g].users[m].id # i
      BY <1>6 DEF Alone, Becomes, Has
    <2> QED  BY <1>1, <1>2, <1>6, <2>1, <2>2, UpdateShown
  <1>7. ListInv(v2, hs2, tw) /\ v2.room = v.room
    BY <1>3, <1>5, <1>6 DEF ListInv, OnlyItem
  <1>8. ASSUME v.room = NoRoom, UnidsInv(v, hs)  PROVE  UnidsInv(v2, hs2)
    <2>1. \A x \in Group \X Node : x # <<g, n>> => hs2[x[1]].users[x[2]] = hs[x[1]].users[x[2]]
      BY DEF Becomes
    <2>2. v.unids \subseteq Group \X Node
      BY <1>1 DEF UsersView
    <2>3. i = NoId => v2.unids = v.unids \cup {<<g, n>>}
      BY <1>3, <1>8 DEF UnidsTold
    <2>4. i # NoId => v2.unids = v.unids \ {<<g, n>>}
      BY <1>3, <1>8 DEF UnidsTold
    <2>5. CASE i = NoId
      BY <1>2, <1>8, <2>1, <2>2, <2>3, <2>5 DEF UnidsInv, Has
    <2>6. CASE i # NoId
      BY <1>2, <1>8, <2>1, <2>2, <2>4, <2>6 DEF UnidsInv, Has
    <2> QED  BY <2>5, <2>6
  <1> QED  BY <1>7, <1>8

LEMMA AfterLeft ==
    ASSUME NEW v, NEW hs, NEW tw, ListInv(v, hs, tw), NEW hs2, NEW g \in Group, NEW n \in Node,
           NEW i \in Id \cup {NoId}, Has(hs[g], n), i = hs[g].users[n].id,
           Becomes(hs, hs2, g, n, Absent), Alone(hs, tw, g, n, i),
           NEW v2, v2 = RemoveUser(v, hs2, g, n, i)
    PROVE  /\ ListInv(v2, hs2, tw) /\ v2.room = v.room
           /\ UnidsInv(v, hs) => UnidsInv(v2, hs2)
  <1>1. v \in UsersView
    BY DEF ListInv
  <1>2. ~Has(hs2[g], n)
    BY DEF Becomes, Has
  <1>3. /\ OnlyItem(v, v2, i)
        /\ v2.unids = v.unids \ {<<g, n>>} \/ (i \in Id /\ v2.unids = v.unids)
    BY <1>1, RemoveType
  <1>5. /\ \A j \in Id \ {i} : ItemInv(v, hs, j) => ItemInv(v2, hs2, j)
        /\ i \in Id /\ ItemInv(v, hs, i) => Elsewhere(v, hs2, g, i)
    BY <1>1, <1>3, OthersStay
  <1>6. ASSUME i \in Id \ tw  PROVE ItemInv(v2, hs2, i)
    <2>1. Elsewhere(v, hs2, g, i)
      BY <1>5, <1>6 DEF ListInv
    <2>2. \A m \in Node : Has(hs2[g], m) => hs2[g].users[m].id # i
      BY <1>2, <1>6 DEF Alone, Becomes, Has
    <2> QED  BY <1>1, <1>6, <2>1, <2>2, RemoveShown
  <1>7. ListInv(v2, hs2, tw) /\ v2.room = v.room
    BY <1>3, <1>5, <1>6 DEF ListInv, OnlyItem
  <1>8. ASSUME UnidsInv(v, hs)  PROVE  UnidsInv(v2, hs2)
    <2>1. \A x \in Group \X Node : x # <<g, n>> => hs2[x[1]].users[x[2]] = hs[x[1]].users[x[2]]
      BY DEF Becomes
    <2>2. v.unids \subseteq Group \X Node
      BY <1>1 DEF UsersView
    <2>3. i \in Id => <<g, n>> \notin v.unids
      BY <1>8, EntryType DEF UnidsInv
    <2>4. v2.unids = v.unids \ {<<g, n>>}
      BY <1>3, <2>3
    <2>5. \A x \in Group \X Node :
             (Has(hs2[x[1]], x[2]) /\ hs2[x[1]].users[x[2]].id = NoId)
             <=> /\ x # <<g, n>>
                 /\ Has(hs[x[1]], x[2]) /\ hs[x[1]].users[x[2]].id = NoId
      BY <1>2, <2>1 DEF Has
    <2> QED  BY <1>8, <2>4, <2>5 DEF UnidsInv
  <1> QED  BY <1>7, <1>8

-----------------------------------------------------------------------------
(* News of a room *)

LEMMA AfterRoom ==
    ASSUME NEW v, NEW hs, NEW tw, ListInv(v, hs, tw), ModelInv(hs, tw),
           NEW hs2, \A h \in Group : hs2[h].users = hs[h].users,
           NEW g \in Group, NEW r,
           NEW v2, v2 = UpdateUsers(v, hs2, g, r)
    PROVE  /\ ListInv(v2, hs2, tw) /\ v2.room = v.room
           /\ v.room = NoRoom /\ UnidsInv(v, hs) => UnidsInv(v2, hs2)
  <1> DEFINE there == {n \in Node : Has(hs2[g], n) /\ hs2[g].users[n].room = r}
             named(i) == {n \in there : hs2[g].users[n].id = i}
             after(n) == UpdateUser(v, hs2, g, n)
             who(i) == CHOOSE n \in named(i) : TRUE
             ids == [i \in Id |-> IF named(i) = {} THEN v.ids[i] ELSE after(who(i)).ids[i]]
             us == {x \in Group \X Node :
                       x \in IF x[1] = g /\ x[2] \in there THEN after(x[2]).unids ELSE v.unids}
  <1>1. v \in UsersView /\ v.unids \in SUBSET (Group \X Node) /\ v.ids \in [Id -> UserItem \cup {NoItem}]
    BY DEF ListInv, UsersView
  <1>2. \A h \in Group, m \in Node : /\ Has(hs2[h], m) <=> Has(hs[h], m)
                                     /\ hs2[h].users[m] = hs[h].users[m]
    BY DEF Has
  <1>3. \A n \in there : hs2[g].users[n].id \in Id \cup {NoId}
    BY <1>2 DEF ModelInv, Model, Has
  <1>4. \A n \in there : OnlyItem(v, after(n), hs2[g].users[n].id)
    BY <1>1, <1>3, UpdateTyped
  <1>5. ASSUME NEW i \in Id, named(i) # {}
        PROVE  /\ who(i) \in there /\ hs2[g].users[who(i)].id = i
               /\ ids[i] = after(who(i)).ids[i]
    BY <1>5
  <1>6. \A j \in Id, h \in Group, m \in Node : Shows(v, hs2, h, m, j) <=> Shows(v, hs, h, m, j)
    BY <1>2 DEF Shows
  <1>7. ids \in [Id -> UserItem \cup {NoItem}]
    <2>1. ASSUME NEW i \in Id, named(i) # {}  PROVE  after(who(i)).ids[i] \in UserItem \cup {NoItem}
      <3>1. after(who(i)) \in UsersView
        BY <1>4, <1>5, <2>1 DEF OnlyItem
      <3> QED  BY <3>1 DEF UsersView
    <2> QED  BY <1>1, <2>1
  <1>8. us \in SUBSET (Group \X Node)
    OBVIOUS
  <1>9. v2 = [v EXCEPT !.ids = ids, !.unids = us]
    BY DEF UpdateUsers
  <1> HIDE DEF us, ids
  <1>10. v2 \in UsersView /\ v2.room = v.room /\ v2.ids = ids /\ v2.unids = us
    <2>1. PICK ro \in Room \cup {NoRoom} : ro = v.room
      BY <1>1 DEF UsersView
    <2>2. v = [room |-> v.room, ids |-> v.ids, unids |-> v.unids]
      BY <1>1 DEF UsersView
    <2>3. v2 = [room |-> ro, ids |-> ids, unids |-> us]
      BY <1>9, <2>1, <2>2
    <2> QED  BY <1>7, <1>8, <2>1, <2>3 DEF UsersView
  <1>11. ASSUME NEW i \in Id \ tw  PROVE  ItemInv(v2, hs2, i)
    <2>1. ItemInv(v, hs, i)
      BY DEF ListInv
    <2>2. ItemInv(v, hs2, i)
      BY <1>1, <1>2, <1>6, <2>1, ItemStays
    <2>3. CASE named(i) = {}
      <3>1. v2.ids[i] = v.ids[i]
        BY <1>10, <2>3 DEF ids
      <3> QED  BY <1>1, <1>10, <2>2, <3>1, ItemStays
    <2>4. CASE named(i) # {}
      <3>1. PICK n \in there : n = who(i) /\ hs2[g].users[n].id = i /\ ids[i] = after(n).ids[i]
        BY <1>5, <2>4
      <3>2. n \in Node /\ Has(hs2[g], n) /\ i \in Id
        BY <3>1
      <3>3. \A m \in Node \ {n} : Has(hs2[g], m) => hs2[g].users[m].id # i
        <4>1. \A m \in Node : hs[g].names[i] = m <=> Has(hs[g], m) /\ hs[g].users[m].id = i
          BY DEF ModelInv
        <4>2. hs[g].names[i] = n
          BY <1>2, <3>1, <3>2, <4>1
        <4> QED  BY <1>2, <4>1, <4>2
      <3>4. Elsewhere(v, hs2, g, i)
        BY <2>2 DEF Elsewhere, ItemInv, FedBy
      <3>5. PICK w : w = after(n)
        OBVIOUS
      <3>6. OnlyItem(v, w, i)
        BY <1>4, <3>1, <3>5
      <3>7. ItemInv(w, hs2, i)
        BY <1>1, <3>1, <3>2, <3>3, <3>4, <3>5, UpdateShown
      <3>8. w \in UsersView /\ v2.ids[i] = w.ids[i] /\ v2.room = w.room
        BY <1>10, <3>1, <3>5, <3>6 DEF OnlyItem
      <3> QED  BY <3>2, <3>7, <3>8, ItemStays
    <2> QED  BY <2>3, <2>4
  <1>12. ASSUME v.room = NoRoom, UnidsInv(v, hs)  PROVE  UnidsInv(v2, hs2)
    <2>1. ASSUME NEW n \in there
          PROVE  <<g, n>> \in after(n).unids <=> <<g, n>> \in v.unids
      <3>1. PICK i \in Id \cup {NoId} : i = hs2[g].users[n].id
        BY <1>3
      <3>2. UnidsTold(v, after(n), g, n, i)
        BY <1>1, <3>1, UpdateTyped
      <3>3. <<g, n>> \in v.unids <=> i = NoId
        BY <1>2, <1>12, <3>1 DEF UnidsInv
      <3> QED  BY <1>12, <3>2, <3>3 DEF UnidsTold
    <2>2. us = v.unids
      BY <1>1, <2>1 DEF us
    <2> QED  BY <1>2, <1>10, <1>12, <2>2 DEF UnidsInv
  <1> QED  BY <1>10, <1>11, <1>12 DEF ListInv

-----------------------------------------------------------------------------
(* The list of rooms *)

LEMMA PlayersType ==
    ASSUME NEW hs \in [Group -> Model], NEW r
    PROVE  /\ Players(hs, r) \in 0..Cardinality(Id)
           /\ Players(hs, r) = 0 => \A g \in Group, n \in Node :
                 Has(hs[g], n) /\ hs[g].users[n].id \in Id => hs[g].users[n].room # r
  <1>1. /\ IsFiniteSet(Id) /\ PlayersOf(hs, r) \subseteq Id
    BY ViewAssumption DEF PlayersOf
  <1>2. /\ IsFiniteSet(PlayersOf(hs, r)) /\ Cardinality(PlayersOf(hs, r)) <= Cardinality(Id)
        /\ Cardinality(Id) \in Nat /\ Cardinality(PlayersOf(hs, r)) \in Nat
    BY <1>1, FS_Subset, FS_CardinalityType
  <1>3. Players(hs, r) = 0 => PlayersOf(hs, r) = {}
    BY <1>2, FS_EmptySet DEF Players
  <1> QED  BY <1>2, <1>3 DEF Players, PlayersOf

\* The players of a room depend on the users alone.
LEMMA PlayersSame ==
    ASSUME NEW hs \in [Group -> Model], NEW hs2 \in [Group -> Model], NEW r,
           \A g \in Group, n \in Node, i \in Id :
              (Has(hs[g], n) /\ hs[g].users[n].id = i /\ hs[g].users[n].room = r)
              <=> (Has(hs2[g], n) /\ hs2[g].users[n].id = i /\ hs2[g].users[n].room = r)
    PROVE  Players(hs2, r) = Players(hs, r)
  <1>1. PlayersOf(hs2, r) = PlayersOf(hs, r)
    BY DEF PlayersOf
  <1> QED  BY <1>1 DEF Players

\* What group g says of room r is entered.
RoomTold(rv, rv2, hs, g, r) ==
    IF rv[r] = NoItem /\ Players(hs, r) = 0 THEN rv2[r] = NoItem
    ELSE /\ rv2[r] # NoItem
         /\ rv2[r].feeds = (IF rv[r] = NoItem THEN {} ELSE rv[r].feeds) \cup {g}
         /\ rv2[r].players = Players(hs, r)

\* Of the rooms in R, those the group lists.
RoomsTold(rv, rv2, hs, g, R) ==
    /\ rv2 \in RoomsView
    /\ \A r \in Room : IF r \in R /\ r \in hs[g].rooms THEN RoomTold(rv, rv2, hs, g, r)
                       ELSE rv2[r] = rv[r]

LEMMA UpdateRoomSays ==
    ASSUME NEW rv \in RoomsView, NEW hs \in [Group -> Model], NEW g \in Group, NEW r,
           NEW rv2, rv2 = UpdateRoom(rv, hs, g, r)
    PROVE  RoomsTold(rv, rv2, hs, g, {r})
  <1>1. /\ Players(hs, r) \in 0..Cardinality(Id) /\ NoItem \notin RoomItem
        /\ hs[g].rooms \subseteq Room
    BY PlayersType, ViewAssumption DEF Model
  <1>2. CASE r \notin hs[g].rooms
    BY <1>2 DEF UpdateRoom, RoomsTold
  <1>3. CASE r \in hs[g].rooms /\ rv[r] # NoItem
    <2>1. PICK f \in SUBSET Group : f = rv[r].feeds \cup {g}
      BY <1>1, <1>3 DEF RoomsView, RoomItem
    <2>2. PICK new : new = [feeds |-> f, players |-> Players(hs, r)]
      OBVIOUS
    <2>3. new \in RoomItem /\ new.feeds = f /\ new.players = Players(hs, r)
      BY <1>1, <2>2 DEF RoomItem
    <2>4. rv2 = [rv EXCEPT ![r] = new]
      BY <1>3, <2>1, <2>2 DEF UpdateRoom, RoomsView
    <2>5. rv2 \in RoomsView /\ rv2[r] = new /\ \A x \in Room \ {r} : rv2[x] = rv[x]
      BY <1>1, <1>3, <2>3, <2>4 DEF RoomsView
    <2> QED  BY <1>1, <1>3, <2>1, <2>3, <2>5 DEF RoomsTold, RoomTold
  <1>4. CASE r \in hs[g].rooms /\ rv[r] = NoItem /\ Players(hs, r) = 0
    BY <1>4 DEF UpdateRoom, RoomsTold, RoomTold
  <1>5. CASE r \in hs[g].rooms /\ rv[r] = NoItem /\ Players(hs, r) # 0
    <2>1. PICK new : new = [feeds |-> {g}, players |-> Players(hs, r)]
      OBVIOUS
    <2>2. new \in RoomItem /\ new.feeds = {} \cup {g} /\ new.players = Players(hs, r)
      BY <1>1, <2>1 DEF RoomItem
    <2>3. rv2 = [rv EXCEPT ![r] = new]
      BY <1>5, <2>1 DEF UpdateRoom
    <2>4. rv2 \in RoomsView /\ rv2[r] = new /\ \A x \in Room \ {r} : rv2[x] = rv[x]
      BY <1>1, <1>5, <2>2, <2>3 DEF RoomsView
    <2> QED  BY <1>1, <1>5, <2>2, <2>4 DEF RoomsTold, RoomTold
  <1> QED  BY <1>2, <1>3, <1>4, <1>5

LEMMA UpdateTwoRooms ==
    ASSUME NEW rv \in RoomsView, NEW hs \in [Group -> Model], NEW g \in Group, NEW a, NEW b, a # b,
           NEW rv2, rv2 = UpdateRoom(UpdateRoom(rv, hs, g, a), hs, g, b)
    PROVE  RoomsTold(rv, rv2, hs, g, {a, b})
  <1>1. PICK rv1 : rv1 = UpdateRoom(rv, hs, g, a)
    OBVIOUS
  <1>2. RoomsTold(rv, rv1, hs, g, {a})
    BY <1>1, UpdateRoomSays
  <1>3. RoomsTold(rv1, rv2, hs, g, {b})
    BY <1>1, <1>2, UpdateRoomSays DEF RoomsTold
  <1>4. ASSUME NEW r \in Room
        PROVE  IF r \in {a, b} /\ r \in hs[g].rooms THEN RoomTold(rv, rv2, hs, g, r)
               ELSE rv2[r] = rv[r]
    <2>1. CASE r = a
      BY <1>2, <1>3, <2>1 DEF RoomsTold, RoomTold
    <2>2. CASE r # a
      BY <1>2, <1>3, <2>2 DEF RoomsTold, RoomTold
    <2> QED  BY <2>1, <2>2
  <1> QED  BY <1>3, <1>4 DEF RoomsTold

LEMMA FeedsTold ==
    ASSUME NEW rv, NEW rv2, NEW hs, NEW g \in Group, NEW R, RoomsTold(rv, rv2, hs, g, R),
           FeedsListed(rv, hs)
    PROVE  FeedsListed(rv2, hs)
  <1> SUFFICES ASSUME NEW r \in Room, NEW h \in Group, rv2[r] # NoItem, h \in rv2[r].feeds
               PROVE  r \in hs[h].rooms
    BY DEF FeedsListed
  <1>1. CASE r \in R /\ r \in hs[g].rooms
    BY <1>1 DEF RoomsTold, RoomTold, FeedsListed
  <1>2. CASE ~(r \in R /\ r \in hs[g].rooms)
    BY <1>2 DEF RoomsTold, FeedsListed
  <1> QED  BY <1>1, <1>2

\* Somebody is in room r, which group g lists.
Peopled(hs, g, r) == /\ r \in hs[g].rooms
                     /\ \E n \in Node : Has(hs[g], n) /\ hs[g].users[n].room = r

LEMMA PeopledTold ==
    ASSUME NEW rv, NEW rv2, NEW hs, NEW tw, ModelInv(hs, tw), NEW g \in Group, NEW R,
           RoomsTold(rv, rv2, hs, g, R),
           \A r \in Room, h \in Group : Peopled(hs, h, r) =>
              (rv[r] # NoItem /\ h \in rv[r].feeds) \/ (h = g /\ r \in R)
    PROVE  PeopledShown(rv2, hs)
  <1> SUFFICES ASSUME NEW r \in Room, NEW h \in Group, NEW n \in Node,
                      r \in hs[h].rooms, Has(hs[h], n), hs[h].users[n].room = r
               PROVE  rv2[r] # NoItem /\ h \in rv2[r].feeds
    BY DEF PeopledShown
  <1>1. Peopled(hs, h, r) /\ hs \in [Group -> Model]
    BY DEF Peopled, ModelInv
  <1>2. hs[h].users[n].id \in Id
    BY HandlerAssumption DEF ModelInv, Model, Has
  <1>3. Players(hs, r) # 0
    BY <1>1, <1>2, PlayersType
  <1>4. CASE r \in R /\ r \in hs[g].rooms
    <2>1. RoomTold(rv, rv2, hs, g, r)
      BY <1>4 DEF RoomsTold
    <2> QED  BY <1>1, <1>3, <2>1 DEF RoomTold
  <1>5. CASE ~(r \in R /\ r \in hs[g].rooms)
    BY <1>1, <1>5 DEF RoomsTold
  <1> QED  BY <1>4, <1>5

\* Uncounted, of what the list of rooms has become.
NotCounted(unc, rv2, hs, hs2, g) ==
    {r \in Room : /\ ShownPlayers(rv2, r) # Players(hs2, r)
                  /\ \/ r \in unc
                     \/ Players(hs2, r) # Players(hs, r) /\ r \notin hs2[g].rooms}

LEMMA CountedTold ==
    ASSUME NEW rv, NEW rv2, NEW hs, NEW hs2, NEW g \in Group, NEW R,
           RoomsTold(rv, rv2, hs2, g, R),
           \A r \in Room \ R : Players(hs2, r) = Players(hs, r),
           NEW unc, Counted(rv, hs, unc)
    PROVE  Counted(rv2, hs2, NotCounted(unc, rv2, hs, hs2, g))
  <1> SUFFICES ASSUME NEW r \in Room, rv2[r] # NoItem, rv2[r].players # Players(hs2, r),
                      ~(r \in unc),
                      Players(hs2, r) = Players(hs, r) \/ r \in hs2[g].rooms
               PROVE  FALSE
    BY DEF Counted, NotCounted, ShownPlayers
  <1>1. ~(r \in R /\ r \in hs2[g].rooms)
    BY DEF RoomsTold, RoomTold
  <1>2. rv2[r] = rv[r] /\ Players(hs2, r) = Players(hs, r)
    BY <1>1 DEF RoomsTold
  <1> QED  BY <1>2 DEF Counted

\* The rooms that news of a user are about.
Touched(was, is) ==
    IF was = Absent THEN IF is = Absent THEN {} ELSE {is.room}
    ELSE IF is = Absent THEN {was.room}
    ELSE IF was.room = is.room THEN {} ELSE {was.room, is.room}

LEMMA RoomsUserSays ==
    ASSUME NEW rv \in RoomsView, NEW hs \in [Group -> Model], NEW g \in Group, NEW n,
           NEW prv, NEW rv2, rv2 = RoomsUserUpdate(rv, hs, prv, g, n)
    PROVE  RoomsTold(rv, rv2, hs, g, Touched(prv[g].users[n], hs[g].users[n]))
  <1>1. PICK was : was = prv[g].users[n]
    OBVIOUS
  <1>2. PICK is : is = hs[g].users[n]
    OBVIOUS
  <1>3. RoomsTold(rv, rv, hs, g, {})
    BY DEF RoomsTold
  <1>4. CASE was # Absent /\ is # Absent /\ was.room = is.room
    BY <1>1, <1>2, <1>3, <1>4 DEF RoomsUserUpdate, Touched
  <1>5. CASE was # Absent /\ is # Absent /\ was.room # is.room
    <2>1. rv2 = UpdateRoom(UpdateRoom(rv, hs, g, was.room), hs, g, is.room)
      BY <1>1, <1>2, <1>5 DEF RoomsUserUpdate
    <2>2. RoomsTold(rv, rv2, hs, g, {was.room, is.room})
      BY <1>5, <2>1, UpdateTwoRooms
    <2> QED  BY <1>1, <1>2, <1>5, <2>2 DEF Touched
  <1>6. CASE was # Absent /\ is = Absent
    <2>1. rv2 = UpdateRoom(rv, hs, g, was.room)
      BY <1>1, <1>2, <1>6 DEF RoomsUserUpdate
    <2>2. RoomsTold(rv, rv2, hs, g, {was.room})
      BY <2>1, UpdateRoomSays
    <2> QED  BY <1>1, <1>2, <1>6, <2>2 DEF Touched
  <1>7. CASE was = Absent /\ is # Absent
    <2>1. rv2 = UpdateRoom(rv, hs, g, is.room)
      BY <1>1, <1>2, <1>7 DEF RoomsUserUpdate
    <2>2. RoomsTold(rv, rv2, hs, g, {is.room})
      BY <2>1, UpdateRoomSays
    <2> QED  BY <1>1, <1>2, <1>7, <2>2 DEF Touched
  <1>8. CASE was = Absent /\ is = Absent
    BY <1>1, <1>2, <1>3, <1>8 DEF RoomsUserUpdate, Touched
  <1> QED  BY <1>4, <1>5, <1>6, <1>7, <1>8

LEMMA AfterUser ==
    ASSUME NEW hs, NEW hs2, NEW tw, ModelInv(hs, tw), ModelInv(hs2, tw),
           NEW g \in Group, NEW n \in Node, NEW e, Becomes(hs, hs2, g, n, e),
           e # Absent => Fresh(hs, g, n, e.id),
           NEW rv \in RoomsView, FeedsListed(rv, hs),
           NEW prv, NEW rv2, rv2 = RoomsUserUpdate(rv, hs2, prv, g, n)
    PROVE  /\ rv2 \in RoomsView /\ FeedsListed(rv2, hs2)
           /\ prv = hs => \A unc : RoomsInv(rv, hs, unc) =>
                 RoomsInv(rv2, hs2, NotCounted(unc, rv2, hs, hs2, g))
  <1>1. hs \in [Group -> Model] /\ hs2 \in [Group -> Model]
    BY DEF ModelInv
  <1>2. PICK R : R = Touched(prv[g].users[n], hs2[g].users[n])
    OBVIOUS
  <1>3. RoomsTold(rv, rv2, hs2, g, R)
    BY <1>1, <1>2, RoomsUserSays
  <1>4. rv2 \in RoomsView /\ FeedsListed(rv2, hs2)
    <2>1. FeedsListed(rv, hs2)
      BY DEF Becomes, FeedsListed
    <2> QED  BY <1>3, <2>1, FeedsTold DEF RoomsTold
  <1>5. ASSUME prv = hs, NEW unc, RoomsInv(rv, hs, unc)
        PROVE  RoomsInv(rv2, hs2, NotCounted(unc, rv2, hs, hs2, g))
    <2>1. R = Touched(hs[g].users[n], e) /\ e = hs2[g].users[n]
      BY <1>2, <1>5 DEF Becomes
    <2>2. ASSUME NEW r \in Room, NEW h \in Group, Peopled(hs2, h, r)
          PROVE  (rv[r] # NoItem /\ h \in rv[r].feeds) \/ (h = g /\ r \in R)
      <3>1. r \in hs[h].rooms
        BY <2>2 DEF Becomes, Peopled
      <3>2. PICK m \in Node : Has(hs2[h], m) /\ hs2[h].users[m].room = r
        BY <2>2 DEF Peopled
      <3>3. CASE h = g /\ m = n /\ r \notin R
        <4>1. Has(hs[h], m) /\ hs[h].users[m].room = r
          BY <2>1, <3>2, <3>3 DEF Touched, Has
        <4> QED  BY <1>5, <3>1, <4>1 DEF RoomsInv, PeopledShown
      <3>4. CASE h # g \/ m # n
        <4>1. Has(hs[h], m) /\ hs[h].users[m].room = r
          BY <3>2, <3>4 DEF Becomes, Has
        <4> QED  BY <1>5, <3>1, <4>1 DEF RoomsInv, PeopledShown
      <3> QED  BY <3>3, <3>4
    <2>3. PeopledShown(rv2, hs2)
      BY <1>3, <2>2, PeopledTold
    <2>4. ASSUME NEW r \in Room \ R  PROVE  Players(hs2, r) = Players(hs, r)
      <3>1. ASSUME NEW h \in Group, NEW m \in Node, NEW i \in Id
            PROVE  (Has(hs[h], m) /\ hs[h].users[m].id = i /\ hs[h].users[m].room = r)
                   <=> (Has(hs2[h], m) /\ hs2[h].users[m].id = i /\ hs2[h].users[m].room = r)
        <4>1. CASE h # g \/ m # n
          BY <4>1 DEF Becomes, Has
        <4>2. CASE h = g /\ m = n
          <5>1. CASE Has(hs[g], n) /\ e # Absent /\ hs[g].users[n].room = e.room
            <6>1. hs[g].users[n].id = NoId => hs[g].users[n].room # r
              BY <5>1, HandlerAssumption DEF ModelInv
            <6> QED  BY <2>1, <4>2, <5>1, <6>1 DEF Fresh, Has
          <5>2. CASE ~(Has(hs[g], n) /\ e # Absent /\ hs[g].users[n].room = e.room)
            BY <2>1, <2>4, <4>2, <5>2 DEF Touched, Has
          <5> QED  BY <5>1, <5>2
        <4> QED  BY <4>1, <4>2
      <3> QED  BY <1>1, <3>1, PlayersSame
    <2>5. Counted(rv2, hs2, NotCounted(unc, rv2, hs, hs2, g))
      BY <1>3, <1>5, <2>4, CountedTold DEF RoomsInv
    <2> QED  BY <2>3, <2>5 DEF RoomsInv
  <1> QED  BY <1>4, <1>5

\* A group comes to list a room, or told of it again.
LEMMA AfterListed ==
    ASSUME NEW hs, NEW hs2, NEW tw, ModelInv(hs, tw), ModelInv(hs2, tw),
           \A h \in Group : hs2[h].users = hs[h].users,
           NEW g \in Group, NEW r \in Room, hs2[g].rooms = hs[g].rooms \cup {r},
           \A h \in Group \ {g} : hs2[h].rooms = hs[h].rooms,
           NEW rv \in RoomsView, FeedsListed(rv, hs),
           NEW rv2, rv2 = UpdateRoom(rv, hs2, g, r)
    PROVE  /\ rv2 \in RoomsView /\ FeedsListed(rv2, hs2)
           /\ \A unc : RoomsInv(rv, hs, unc) =>
                 RoomsInv(rv2, hs2, NotCounted(unc, rv2, hs, hs2, g))
  <1>1. hs \in [Group -> Model] /\ hs2 \in [Group -> Model]
    BY DEF ModelInv
  <1>2. RoomsTold(rv, rv2, hs2, g, {r})
    BY <1>1, UpdateRoomSays
  <1>3. FeedsListed(rv, hs2)
    BY DEF FeedsListed
  <1>4. rv2 \in RoomsView /\ FeedsListed(rv2, hs2)
    <2>1. FeedsListed(rv2, hs2)
      BY <1>2, <1>3, FeedsTold
    <2> QED  BY <1>2, <2>1 DEF RoomsTold
  <1>5. \A x \in Room : Players(hs2, x) = Players(hs, x)
    BY <1>1, PlayersSame DEF Has
  <1>6. ASSUME NEW unc, RoomsInv(rv, hs, unc)
        PROVE  RoomsInv(rv2, hs2, NotCounted(unc, rv2, hs, hs2, g))
    <2>1. ASSUME NEW x \in Room, NEW h \in Group, Peopled(hs2, h, x)
          PROVE  (rv[x] # NoItem /\ h \in rv[x].feeds) \/ (h = g /\ x \in {r})
      BY <1>6, <2>1 DEF Peopled, RoomsInv, PeopledShown, Has
    <2>2. PeopledShown(rv2, hs2)
      BY <1>2, <2>1, PeopledTold
    <2>3. Counted(rv2, hs2, NotCounted(unc, rv2, hs, hs2, g))
      BY <1>2, <1>5, <1>6, CountedTold DEF RoomsInv
    <2> QED  BY <2>2, <2>3 DEF RoomsInv
  <1> QED  BY <1>4, <1>6

LEMMA AfterClosed ==
    ASSUME NEW hs, NEW hs2, NEW tw, ModelInv(hs, tw), ModelInv(hs2, tw),
           \A h \in Group : hs2[h].users = hs[h].users,
           NEW g \in Group, NEW r \in Room, hs2[g].rooms = hs[g].rooms \ {r},
           \A h \in Group \ {g} : hs2[h].rooms = hs[h].rooms,
           NEW rv \in RoomsView, FeedsListed(rv, hs),
           NEW rv2, rv2 = RemoveRoom(rv, hs2, g, r)
    PROVE  /\ rv2 \in RoomsView /\ FeedsListed(rv2, hs2)
           /\ \A unc : RoomsInv(rv, hs, unc) =>
                 RoomsInv(rv2, hs2, NotCounted(unc, rv2, hs, hs2, g))
  <1>1. hs \in [Group -> Model] /\ hs2 \in [Group -> Model] /\ NoItem \notin RoomItem
    BY ViewAssumption DEF ModelInv
  <1>2. \A x \in Room : Players(hs2, x) = Players(hs, x)
    BY <1>1, PlayersSame DEF Has
  <1>3. Players(hs2, r) \in 0..Cardinality(Id)
    BY <1>1, PlayersType
  <1>4. /\ rv2 \in RoomsView /\ \A x \in Room \ {r} : rv2[x] = rv[x]
        /\ \/ rv2[r] = NoItem /\ (rv[r] = NoItem \/ rv[r].feeds \subseteq {g})
           \/ /\ rv[r] # NoItem /\ rv2[r] # NoItem
              /\ rv2[r].feeds = rv[r].feeds \ {g} /\ rv2[r].players = Players(hs2, r)
    <2>1. CASE rv[r] = NoItem
      BY <2>1 DEF RemoveRoom
    <2>2. CASE rv[r] # NoItem /\ rv[r].feeds \subseteq {g}
      BY <2>2 DEF RemoveRoom, RoomsView
    <2>3. CASE rv[r] # NoItem /\ ~(rv[r].feeds \subseteq {g})
      <3>1. PICK f \in SUBSET Group : f = rv[r].feeds \ {g}
        BY <2>3 DEF RoomsView, RoomItem
      <3>2. PICK new : new = [feeds |-> f, players |-> Players(hs2, r)]
        OBVIOUS
      <3>3. new \in RoomItem /\ new.feeds = f /\ new.players = Players(hs2, r)
        BY <1>3, <3>2 DEF RoomItem
      <3>4. rv2 = [rv EXCEPT ![r] = new]
        BY <2>3, <3>1, <3>2 DEF RemoveRoom, RoomsView
      <3> QED  BY <1>1, <2>3, <3>1, <3>3, <3>4 DEF RoomsView
    <2> QED  BY <2>1, <2>2, <2>3
  <1>5. FeedsListed(rv2, hs2)
    BY <1>4 DEF FeedsListed
  <1>6. ASSUME NEW unc, RoomsInv(rv, hs, unc)
        PROVE  RoomsInv(rv2, hs2, NotCounted(unc, rv2, hs, hs2, g))
    <2>1. PeopledShown(rv2, hs2)
      <3> SUFFICES ASSUME NEW x \in Room, NEW h \in Group, NEW n \in Node,
                          x \in hs2[h].rooms, Has(hs2[h], n), hs2[h].users[n].room = x
                   PROVE  rv2[x] # NoItem /\ h \in rv2[x].feeds
        BY DEF PeopledShown
      <3>1. x \in hs[h].rooms /\ (x # r \/ h # g)
        OBVIOUS
      <3>2. rv[x] # NoItem /\ h \in rv[x].feeds
        BY <1>6, <3>1 DEF RoomsInv, PeopledShown, Has
      <3> QED  BY <1>4, <3>1, <3>2
    <2>2. Counted(rv2, hs2, NotCounted(unc, rv2, hs, hs2, g))
      BY <1>2, <1>4, <1>6 DEF RoomsInv, Counted, NotCounted, ShownPlayers
    <2> QED  BY <2>1, <2>2 DEF RoomsInv
  <1> QED  BY <1>4, <1>5, <1>6

-----------------------------------------------------------------------------
(* A message *)

LEMMA SameUsers ==
    ASSUME NEW v, NEW hs, NEW tw, ListInv(v, hs, tw),
           NEW hs2, \A h \in Group : hs2[h].users = hs[h].users
    PROVE  ListInv(v, hs2, tw) /\ (UnidsInv(v, hs) => UnidsInv(v, hs2))
  <1>1. v \in UsersView
    BY DEF ListInv
  <1>2. ASSUME NEW i \in Id \ tw  PROVE  ItemInv(v, hs2, i)
    <2>1. ItemInv(v, hs, i)
      BY DEF ListInv
    <2>2. \A h \in Group, m \in Node : Shows(v, hs2, h, m, i) <=> Shows(v, hs, h, m, i)
      BY DEF Shows, Has
    <2> QED  BY <1>1, <2>1, <2>2, ItemStays
  <1>3. UnidsInv(v, hs) => UnidsInv(v, hs2)
    BY DEF UnidsInv, Has
  <1> QED  BY <1>1, <1>2, <1>3 DEF ListInv

\* The message fits what the model has.
Due(hs, tw, m) ==
    /\ m \in Message
    /\ m.kind \in {"user", "user_left"} => Alone(hs, tw, m.grp, m.node, m.id)
    /\ m.kind = "user" => /\ m.id = NoId => m.room = NoRoom
                          /\ Fresh(hs, m.grp, m.node, m.id)
    /\ m.kind = "user_left" => /\ Has(hs[m.grp], m.node)
                               /\ hs[m.grp].users[m.node].id = m.id
    /\ m.kind \in {"room", "room_remove"} => m.room \in Room

\* What is entered.
LEMMA EnteredSays ==
    ASSUME NEW hs, NEW tw, ModelInv(hs, tw), NEW m, Due(hs, tw, m),
           NEW hs2, hs2 = Entered(hs, m)
    PROVE  /\ ModelInv(hs2, tw)
           /\ m.kind = "user" =>
                 Becomes(hs, hs2, m.grp, m.node, [id |-> m.id, room |-> m.room])
           /\ m.kind = "user_left" => Becomes(hs, hs2, m.grp, m.node, Absent)
           /\ m.kind = "room" =>
                 RoomsBecome(hs, hs2, m.grp, hs[m.grp].rooms \cup {m.room})
           /\ m.kind = "room_remove" =>
                 RoomsBecome(hs, hs2, m.grp, hs[m.grp].rooms \ {m.room})
  <1>1. /\ m.grp \in Group /\ m.node \in Node /\ m.id \in Id \cup {NoId}
        /\ m.room \in Room \cup {NoRoom}
        /\ m.kind \in {"user", "user_left", "room", "room_remove"}
        /\ hs \in [Group -> Model] /\ hs[m.grp].rooms \subseteq Room
    BY DEF Due, Message, ModelInv, Model
  <1>2. PICK g \in Group, n \in Node, i \in Id \cup {NoId}, r \in Room \cup {NoRoom} :
           g = m.grp /\ n = m.node /\ i = m.id /\ r = m.room
    BY <1>1
  <1>3. CASE m.kind = "user"
    <2>1. hs2 = [hs EXCEPT ![g] = ModelUserUpdate(hs[g], n, i, r)]
      BY <1>1, <1>2, <1>3 DEF Entered
    <2>2. Fresh(hs, g, n, i) /\ Alone(hs, tw, g, n, i) /\ (i = NoId => r = NoRoom)
      BY <1>2, <1>3 DEF Due
    <2>3. ModelInv(hs2, tw) /\ Becomes(hs, hs2, g, n, [id |-> i, room |-> r])
      BY <2>1, <2>2, Entering
    <2> QED  BY <1>2, <1>3, <2>3
  <1>4. CASE m.kind = "user_left"
    <2>1. hs2 = [hs EXCEPT ![g] = ModelUserErase(hs[g], n, i)]
      BY <1>1, <1>2, <1>4 DEF Entered
    <2>2. Has(hs[g], n) /\ hs[g].users[n].id = i /\ Alone(hs, tw, g, n, i)
      BY <1>2, <1>4 DEF Due
    <2>3. ModelInv(hs2, tw) /\ Becomes(hs, hs2, g, n, Absent)
      BY <2>1, <2>2, Leaving
    <2> QED  BY <1>2, <1>4, <2>3
  <1>5. CASE m.kind \in {"room", "room_remove"}
    <2>1. PICK R \in SUBSET Room :
             R = IF m.kind = "room" THEN hs[g].rooms \cup {r} ELSE hs[g].rooms \ {r}
      <3>1. r \in Room
        BY <1>2, <1>5 DEF Due
      <3> QED  BY <1>1, <1>2, <3>1
    <2>2. hs2 = WithRooms(hs, g, R)
      BY <1>1, <1>2, <1>5, <2>1 DEF Entered, ModelRoomUpdate, ModelRoomErase, WithRooms
    <2>3. ModelInv(hs2, tw) /\ RoomsBecome(hs, hs2, g, R)
      BY <2>2, RoomsOnly
    <2> QED  BY <1>2, <1>5, <2>1, <2>3
  <1> QED  BY <1>1, <1>3, <1>4, <1>5

LEMMA UsersFollow ==
    ASSUME NEW hs, NEW tw, ModelInv(hs, tw), NEW m, Due(hs, tw, m),
           NEW hs2, hs2 = Entered(hs, m), NEW v, ListInv(v, hs, tw),
           NEW v2, v2 = UsersAfter(v, hs2, m)
    PROVE  /\ ListInv(v2, hs2, tw) /\ v2.room = v.room
           /\ v.room = NoRoom /\ UnidsInv(v, hs) => UnidsInv(v2, hs2)
  <1>1. /\ m.grp \in Group /\ m.node \in Node /\ m.id \in Id \cup {NoId}
        /\ m.room \in Room \cup {NoRoom}
        /\ m.kind \in {"user", "user_left", "room", "room_remove"}
    BY DEF Due, Message
  <1>2. PICK g \in Group, n \in Node, i \in Id \cup {NoId}, r \in Room \cup {NoRoom} :
           g = m.grp /\ n = m.node /\ i = m.id /\ r = m.room
    BY <1>1
  <1>3. CASE m.kind = "user"
    <2>1. PICK e : e = [id |-> i, room |-> r] /\ e.id = i /\ e # Absent
      <3>1. [id |-> i, room |-> r] \in [id : Id \cup {NoId}, room : Room \cup {NoRoom}]
        OBVIOUS
      <3> QED  BY <3>1, EntryType
    <2>2. Becomes(hs, hs2, g, n, e)
      BY <1>2, <1>3, <2>1, EnteredSays
    <2>3. Fresh(hs, g, n, i) /\ Alone(hs, tw, g, n, i)
      BY <1>2, <1>3 DEF Due
    <2>4. v2 = UpdateUser(v, hs2, g, n)
      BY <1>2, <1>3 DEF UsersAfter
    <2> QED  BY <2>1, <2>2, <2>3, <2>4, AfterNews
  <1>4. CASE m.kind = "user_left"
    <2>1. Becomes(hs, hs2, g, n, Absent)
      BY <1>2, <1>4, EnteredSays
    <2>2. Has(hs[g], n) /\ i = hs[g].users[n].id /\ Alone(hs, tw, g, n, i)
      BY <1>2, <1>4 DEF Due
    <2>3. v2 = RemoveUser(v, hs2, g, n, i)
      BY <1>2, <1>4 DEF UsersAfter
    <2> QED  BY <2>1, <2>2, <2>3, AfterLeft
  <1>5. CASE m.kind = "room"
    <2>1. \A h \in Group : hs2[h].users = hs[h].users
      <3>1. RoomsBecome(hs, hs2, m.grp, hs[m.grp].rooms \cup {m.room})
        BY <1>5, EnteredSays
      <3> QED  BY <3>1 DEF RoomsBecome
    <2>2. CASE v2 = v
      BY <2>1, <2>2, SameUsers
    <2>3. CASE v2 = UpdateUsers(v, hs2, g, r)
      BY <2>1, <2>3, AfterRoom
    <2> QED  BY <1>2, <1>5, <2>2, <2>3 DEF UsersAfter, RoomUpdate
  <1>6. CASE m.kind = "room_remove"
    <2>1. \A h \in Group : hs2[h].users = hs[h].users
      <3>1. RoomsBecome(hs, hs2, m.grp, hs[m.grp].rooms \ {m.room})
        BY <1>6, EnteredSays
      <3> QED  BY <3>1 DEF RoomsBecome
    <2>2. v2 = v
      BY <1>6 DEF UsersAfter
    <2> QED  BY <2>1, <2>2, SameUsers
  <1> QED  BY <1>1, <1>3, <1>4, <1>5, <1>6

LEMMA RoomsFollow ==
    ASSUME NEW hs, NEW tw, ModelInv(hs, tw), NEW m, Due(hs, tw, m),
           NEW hs2, hs2 = Entered(hs, m), NEW rv \in RoomsView, FeedsListed(rv, hs),
           NEW rv2, rv2 = RoomsAfter(rv, hs2, m)
    PROVE  /\ rv2 \in RoomsView /\ FeedsListed(rv2, hs2)
           /\ prev = hs => \A unc : RoomsInv(rv, hs, unc) =>
                 RoomsInv(rv2, hs2, NotCounted(unc, rv2, hs, hs2, m.grp))
  <1>1. /\ m.grp \in Group /\ m.node \in Node /\ m.id \in Id \cup {NoId}
        /\ m.room \in Room \cup {NoRoom}
        /\ m.kind \in {"user", "user_left", "room", "room_remove"}
    BY DEF Due, Message
  <1>2. PICK g \in Group, n \in Node, i \in Id \cup {NoId}, r \in Room \cup {NoRoom} :
           g = m.grp /\ n = m.node /\ i = m.id /\ r = m.room
    BY <1>1
  <1>3. ModelInv(hs2, tw)
    BY EnteredSays
  <1>4. CASE m.kind \in {"user", "user_left"}
    <2>1. PICK e : e = IF m.kind = "user" THEN [id |-> i, room |-> r] ELSE Absent
      OBVIOUS
    <2>2. Becomes(hs, hs2, g, n, e)
      BY <1>2, <1>4, <2>1, EnteredSays
    <2>3. e # Absent => Fresh(hs, g, n, e.id)
      BY <1>2, <1>4, <2>1 DEF Due
    <2>4. rv2 = RoomsUserUpdate(rv, hs2, prev, g, n)
      BY <1>2, <1>4 DEF RoomsAfter
    <2>5. /\ rv2 \in RoomsView /\ FeedsListed(rv2, hs2)
          /\ prev = hs => \A unc : RoomsInv(rv, hs, unc) =>
                RoomsInv(rv2, hs2, NotCounted(unc, rv2, hs, hs2, g))
      BY <1>3, <2>2, <2>3, <2>4, AfterUser
    <2> QED  BY <1>2, <2>5
  <1>5. CASE m.kind = "room"
    <2>1. /\ \A h \in Group : hs2[h].users = hs[h].users
          /\ hs2[g].rooms = hs[g].rooms \cup {r}
          /\ \A h \in Group \ {g} : hs2[h].rooms = hs[h].rooms
      <3>1. RoomsBecome(hs, hs2, m.grp, hs[m.grp].rooms \cup {m.room})
        BY <1>5, EnteredSays
      <3> QED  BY <1>2, <3>1 DEF RoomsBecome
    <2>2. r \in Room /\ rv2 = UpdateRoom(rv, hs2, g, r)
      BY <1>2, <1>5 DEF RoomsAfter, Due
    <2>3. /\ rv2 \in RoomsView /\ FeedsListed(rv2, hs2)
          /\ \A unc : RoomsInv(rv, hs, unc) =>
                RoomsInv(rv2, hs2, NotCounted(unc, rv2, hs, hs2, g))
      BY <1>3, <2>1, <2>2, AfterListed
    <2> QED  BY <1>2, <2>3
  <1>6. CASE m.kind = "room_remove"
    <2>1. /\ \A h \in Group : hs2[h].users = hs[h].users
          /\ hs2[g].rooms = hs[g].rooms \ {r}
          /\ \A h \in Group \ {g} : hs2[h].rooms = hs[h].rooms
      <3>1. RoomsBecome(hs, hs2, m.grp, hs[m.grp].rooms \ {m.room})
        BY <1>6, EnteredSays
      <3> QED  BY <1>2, <3>1 DEF RoomsBecome
    <2>2. r \in Room /\ rv2 = RemoveRoom(rv, hs2, g, r)
      BY <1>2, <1>6 DEF RoomsAfter, Due
    <2>3. /\ rv2 \in RoomsView /\ FeedsListed(rv2, hs2)
          /\ \A unc : RoomsInv(rv, hs, unc) =>
                RoomsInv(rv2, hs2, NotCounted(unc, rv2, hs, hs2, g))
      BY <1>3, <2>1, <2>2, AfterClosed
    <2> QED  BY <1>2, <2>3
  <1> QED  BY <1>1, <1>4, <1>5, <1>6

LEMMA HeadDue ==
    ASSUME NEW hs, NEW hd, NEW tw, HandlerInv(hd, tw), ModelInv(hs, tw),
           NEW q \in Seq(Message), q # <<>>, QueueInv(hs, hd, q)
    PROVE  Due(hs, tw, Head(q))
  <1>1. PICK m \in Message : m = Head(q)
    OBVIOUS
  <1>2. PICK g \in Group, n \in Node, i \in Id \cup {NoId}, r \in Room \cup {NoRoom} :
           /\ g = m.grp /\ n = m.node /\ i = m.id /\ r = m.room
           /\ m.kind \in {"user", "user_left", "room", "room_remove"}
    BY DEF Message
  <1>3. CASE m.kind \in {"room", "room_remove"}
    <2>1. m.room \in Room
      BY <1>1, <1>3 DEF QueueInv, UserDue, News, Leaves
    <2> QED  BY <1>1, <1>3, <2>1 DEF Due
  <1>4. CASE m.kind = "user"
    <2>1. News(hd, m) /\ Taken(hs, m) /\ UsersMatch(hs, hd, {Place(m)})
      BY <1>1, <1>4 DEF QueueInv, UserDue, Leaves
    <2>2. hd[g].users[n] = [id |-> i, room |-> r]
      BY <1>2, <2>1 DEF News
    <2>3. KnownIn(hd[g], n) /\ hd[g].users[n].id = i /\ hd[g].users[n].room = r
      <3>1. [id |-> i, room |-> r] \in [id : Id \cup {NoId}, room : Room \cup {NoRoom}]
        OBVIOUS
      <3> QED  BY <2>2, <3>1, EntryType DEF KnownIn
    <2>4. i = NoId => r = NoRoom
      BY <2>3 DEF HandlerInv
    <2>5. ASSUME i \in Id \ tw, NEW k \in Node \ {n}, Has(hs[g], k)
          PROVE  hs[g].users[k].id # i
      <3>1. hs[g].users[k] = hd[g].users[k] /\ KnownIn(hd[g], k)
        BY <1>2, <2>1, <2>5 DEF UsersMatch, Place, Has, KnownIn
      <3> QED  BY <2>3, <2>5, <3>1 DEF HandlerInv
    <2>6. Alone(hs, tw, g, n, i)
      BY <2>5 DEF Alone
    <2>7. Fresh(hs, g, n, i)
      BY <1>2, <2>1 DEF Taken, Fresh
    <2> QED  BY <1>1, <1>2, <1>4, <2>4, <2>6, <2>7 DEF Due
  <1>5. CASE m.kind = "user_left"
    <2>1. Leaves(hs, m)
      BY <1>1, <1>5 DEF QueueInv, UserDue, News
    <2>2. Has(hs[g], n) /\ hs[g].users[n].id = i
      BY <1>2, <2>1 DEF Leaves
    <2>3. ASSUME i \in Id \ tw, NEW k \in Node \ {n}, Has(hs[g], k)
          PROVE  hs[g].users[k].id # i
      <3>1. \A x \in Node : hs[g].names[i] = x <=> Has(hs[g], x) /\ hs[g].users[x].id = i
        BY <2>3 DEF ModelInv
      <3>2. hs[g].names[i] = n
        BY <2>2, <3>1
      <3> QED  BY <2>3, <3>1, <3>2
    <2>4. Alone(hs, tw, g, n, i)
      BY <2>3 DEF Alone
    <2> QED  BY <1>1, <1>2, <1>5, <2>2, <2>4 DEF Due
  <1> QED  BY <1>2, <1>3, <1>4, <1>5

LEMMA QueueNext ==
    ASSUME NEW hs, NEW hd, NEW tw, ModelInv(hs, tw),
           NEW q \in Seq(Message), q # <<>>, QueueInv(hs, hd, q), Due(hs, tw, Head(q)),
           NEW hs2, hs2 = Entered(hs, Head(q))
    PROVE  QueueInv(hs2, hd, Tail(q))
  <1>1. PICK m \in Message : m = Head(q)
    OBVIOUS
  <1>2. PICK g \in Group, n \in Node, i \in Id \cup {NoId}, r \in Room \cup {NoRoom} :
           /\ g = m.grp /\ n = m.node /\ i = m.id /\ r = m.room
           /\ m.kind \in {"user", "user_left", "room", "room_remove"}
    BY DEF Message
  <1>3. PICK d \in Seq(Message) : d = Tail(q)
    <2>1. Tail(q) \in Seq(Message)
      BY HeadTailProperties
    <2> QED  BY <2>1
  <1>4. CASE m.kind = "room"
    <2>1. /\ d = <<>> /\ r \in Room /\ UsersMatch(hs, hd, {}) /\ RoomsMatch(hs, hd, {<<g, r>>})
          /\ hd[g].rooms[r] # Absent
      BY <1>1, <1>2, <1>3, <1>4 DEF QueueInv, UserDue, News, Leaves, Spot
    <2>2. RoomsBecome(hs, hs2, m.grp, hs[m.grp].rooms \cup {m.room})
      BY <1>1, <1>4, EnteredSays
    <2>3. UsersMatch(hs2, hd, {})
      BY <2>1, <2>2 DEF UsersMatch, RoomsBecome
    <2>4. RoomsMatch(hs2, hd, {})
      BY <1>2, <2>1, <2>2 DEF RoomsMatch, RoomsBecome
    <2> QED  BY <1>3, <2>1, <2>3, <2>4 DEF QueueInv
  <1>5. CASE m.kind = "room_remove"
    <2>1. /\ r \in Room /\ UserDue(hs, hd, d) /\ UsersMatch(hs, hd, {Place(Head(d))})
          /\ RoomsMatch(hs, hd, {<<g, r>>}) /\ hd[g].rooms[r] = Absent
      BY <1>1, <1>2, <1>3, <1>5 DEF QueueInv, UserDue, News, Leaves, Spot
    <2>2. RoomsBecome(hs, hs2, m.grp, hs[m.grp].rooms \ {m.room})
      BY <1>1, <1>5, EnteredSays
    <2>3. UsersMatch(hs2, hd, {Place(Head(d))})
      BY <2>1, <2>2 DEF UsersMatch, RoomsBecome
    <2>4. RoomsMatch(hs2, hd, {})
      BY <1>2, <2>1, <2>2 DEF RoomsMatch, RoomsBecome
    <2>5. UserDue(hs2, hd, d)
      <3>1. PICK w \in Message : w = Head(d)
        BY <2>1 DEF UserDue
      <3>2. w.grp \in Group /\ hs2[w.grp].users = hs[w.grp].users
        BY <2>2 DEF Message, RoomsBecome
      <3>3. (Taken(hs, w) => Taken(hs2, w)) /\ (Leaves(hs, w) => Leaves(hs2, w))
        BY <3>2 DEF Taken, Leaves, Has
      <3> QED  BY <2>1, <3>1, <3>3 DEF UserDue
    <2> QED  BY <1>3, <2>3, <2>4, <2>5 DEF QueueInv
  <1>6. CASE m.kind \in {"user", "user_left"}
    <2>1. UserDue(hs, hd, q) /\ UsersMatch(hs, hd, {<<g, n>>}) /\ RoomsMatch(hs, hd, {})
      BY <1>1, <1>2, <1>6 DEF QueueInv, Place
    <2>2. PICK e : e = IF m.kind = "user" THEN [id |-> i, room |-> r] ELSE Absent
      OBVIOUS
    <2>3. Becomes(hs, hs2, g, n, e)
      BY <1>1, <1>2, <1>6, <2>2, EnteredSays
    <2>4. UsersMatch(hs2, hd, {<<g, n>>}) /\ RoomsMatch(hs2, hd, {})
      BY <2>1, <2>3 DEF Becomes, UsersMatch, RoomsMatch
    <2>5. CASE d = <<>>
      <3>1. hd[g].users[n] = e
        BY <1>1, <1>2, <1>3, <2>1, <2>2, <2>5 DEF UserDue, News, Leaves
      <3>2. UsersMatch(hs2, hd, {})
        BY <2>3, <2>4, <3>1 DEF UsersMatch, Becomes
      <3> QED  BY <1>3, <2>4, <2>5, <3>2 DEF QueueInv
    <2>6. CASE d # <<>>
      <3>1. PICK w \in Message : w = Head(d)
        BY <2>6
      <3>2. Leaves(hs, m) /\ Tail(d) = <<>> /\ News(hd, w) /\ Place(w) = <<g, n>>
        BY <1>1, <1>2, <1>3, <2>1, <2>6, <3>1 DEF UserDue, Place
      <3>3. ~Has(hs2[w.grp], w.node)
        BY <2>2, <2>3, <3>2 DEF Leaves, Becomes, Has, Place
      <3>4. UserDue(hs2, hd, d)
        BY <2>6, <3>1, <3>2, <3>3 DEF UserDue, Taken
      <3> QED  BY <1>3, <2>4, <2>6, <3>1, <3>2, <3>4 DEF QueueInv
    <2> QED  BY <2>5, <2>6
  <1> QED  BY <1>2, <1>4, <1>5, <1>6

-----------------------------------------------------------------------------
(* The invariant holds *)

LEMMA EnteredType ==
    ASSUME NEW hs \in [Group -> Model], NEW m \in Told
    PROVE  Entered(hs, m) \in [Group -> Model]
  <1>1. /\ m.grp \in Group /\ m.node \in Node /\ m.id \in Id \cup {NoId}
        /\ m.room \in Room \cup {NoRoom}
        /\ m.kind \in {"user", "user_left", "room", "room_remove"}
        /\ m.kind = "room" => m.room \in Room
    BY DEF Told, Message
  <1>2. PICK o \in Model : o = hs[m.grp]
    BY <1>1
  <1>3. PICK x : x = IF m.kind = "user" THEN ModelUserUpdate(o, m.node, m.id, m.room)
                     ELSE IF m.kind = "user_left" THEN ModelUserErase(o, m.node, m.id)
                     ELSE IF m.kind = "room" THEN ModelRoomUpdate(o, m.room)
                     ELSE ModelRoomErase(o, m.room)
    OBVIOUS
  <1>4. x \in Model
    <2>1. CASE m.kind = "user"
      BY <1>1, <1>3, <2>1, UpdateType
    <2>2. CASE m.kind = "user_left"
      BY <1>1, <1>3, <2>2, EraseType
    <2>3. CASE m.kind \in {"room", "room_remove"}
      BY <1>1, <1>3, <2>3 DEF ModelRoomUpdate, ModelRoomErase, Model
    <2> QED  BY <1>1, <2>1, <2>2, <2>3
  <1>5. Entered(hs, m) = [hs EXCEPT ![m.grp] = x]
    BY <1>1, <1>2, <1>3 DEF Entered
  <1> QED  BY <1>1, <1>4, <1>5

LEMMA DueTold ==
    ASSUME NEW hs, NEW tw, NEW m, Due(hs, tw, m)
    PROVE  m \in Told
  BY DEF Due, Told

LEMMA StartInv == Init => MirrorInv
  <1> SUFFICES ASSUME Init PROVE MirrorInv
    OBVIOUS
  <1>1. EmptyHouse \in House /\ EmptyModel \in Model
    BY DEF EmptyHouse, EmptyModel, House, Model
  <1>2. /\ \A g \in Group : handler[g] = EmptyHouse /\ house[g] = EmptyModel
        /\ handler \in [Group -> House] /\ house \in [Group -> Model] /\ past.twins = {}
    BY <1>1 DEF Init
  <1>3. HandlerInv(handler, past.twins)
    BY <1>2, HandlerAssumption DEF HandlerInv, EmptyHouse, KnownIn
  <1>4. \A g \in Group, n \in Node : ~Has(house[g], n)
    BY <1>2 DEF EmptyModel, Has
  <1>5. ModelInv(house, past.twins)
    BY <1>2, <1>4, HandlerAssumption DEF ModelInv, NamesTrue, EmptyModel
  <1>6. QueueInv(house, handler, queue)
    BY <1>2 DEF Init, QueueInv, UsersMatch, RoomsMatch, EmptyHouse, EmptyModel
  <1>7. queue \in Seq(Message) /\ prev = house /\ outer = NoMessage /\ alerted \in BOOLEAN
    BY DEF Init
  <1>8. ASSUME NEW v, NEW r \in Room \cup {NoRoom}, v = NewUsersView(r)
        PROVE  ListInv(v, house, past.twins) /\ v.room = r /\ UnidsInv(v, house)
    <2>1. v \in UsersView /\ v.room = r /\ v.unids = {} /\ \A i \in Id : v.ids[i] = NoItem
      BY <1>8 DEF NewUsersView, UsersView
    <2>2. \A i \in Id : ItemInv(v, house, i)
      BY <1>4, <2>1 DEF ItemInv, Shows
    <2>3. UnidsInv(v, house)
      BY <1>4, <2>1 DEF UnidsInv
    <2> QED  BY <2>1, <2>2, <2>3 DEF ListInv
  <1>9. /\ ListInv(users, house, past.twins) /\ users.room = NoRoom /\ UnidsInv(users, house)
        /\ ListInv(inRoom, house, past.twins) /\ inRoom.room = Hosted
    BY <1>8, MirrorAssumption DEF Init
  <1>10. /\ rooms \in RoomsView /\ FeedsListed(rooms, house)
         /\ RoomsInv(rooms, house, past.uncounted)
    BY <1>4 DEF Init, RoomsView, FeedsListed, RoomsInv, PeopledShown, Counted
  <1>11. past \in Past
    <2>1. past = [twins |-> {}, uncounted |-> {}, under |-> 0] /\ 0 \in 0..MaxUnder
      BY MirrorAssumption DEF Init
    <2> QED  BY <2>1 DEF Past
  <1>12. prev \in [Group -> Model] /\ outer \in Told \cup {NoMessage}
    BY <1>2, <1>7
  <1> QED  BY <1>3, <1>5, <1>6, <1>7, <1>9, <1>10, <1>11, <1>12 DEF MirrorInv

\* The networking thread tells the GUI something.
LEMMA TellsInv ==
    ASSUME MirrorInv, NEW g, NEW h, NEW msgs, Tells(g, h, msgs),
           past' = past \/ \E i \in Id : past' = [past EXCEPT !.twins = @ \cup {i}],
           HandlerInv(handler', past'.twins), QueueInv(house, handler', queue'),
           queue' \in Seq(Message)
    PROVE  MirrorInv'
  <1>1. /\ past.twins \subseteq past'.twins /\ past' \in Past
        /\ past'.uncounted = past.uncounted /\ past'.under = past.under
    BY DEF MirrorInv, Past
  <1>2. /\ ModelInv(house, past'.twins) /\ ListInv(users, house, past'.twins)
        /\ ListInv(inRoom, house, past'.twins)
    BY <1>1, MoreTwins DEF MirrorInv
  <1>3. UNCHANGED <<house, prev, outer, alerted, users, inRoom, rooms>>
    BY DEF Tells
  <1>4. (Lagged' <=> Lagged) /\ Told' = Told /\ NoMessage' = NoMessage
    BY <1>1 DEF Lagged, Told, NoMessage
  <1> QED  BY <1>1, <1>2, <1>3, <1>4 DEF MirrorInv

LEMMA GuiFollows ==
    ASSUME MirrorInv, HandleMessage
    PROVE  MirrorInv'
  <1>1. PICK m : m = Head(queue)
    OBVIOUS
  <1>2. PICK hs : hs = Entered(house, m)
    OBVIOUS
  <1>3. PICK tw : tw = past.twins
    OBVIOUS
  <1>4. /\ queue # <<>> /\ queue' = Tail(queue) /\ handler' = handler /\ house' = hs
        /\ users' = UsersAfter(users, hs, m) /\ inRoom' = UsersAfter(inRoom, hs, m)
        /\ rooms' = RoomsAfter(rooms, hs, m)
        /\ past' = [past EXCEPT !.uncounted = Uncounted(hs, rooms', m),
                                !.under = IF outer = NoMessage THEN @ ELSE @ + 1]
        /\ outer # NoMessage => past.under < MaxUnder
        /\ \/ prev' = Entered(prev, m) /\ UNCHANGED <<outer, alerted>>
           \/ outer' = m /\ alerted' = TRUE /\ UNCHANGED prev
    BY <1>1, <1>2 DEF HandleMessage
  <1>5. /\ HandlerInv(handler, tw) /\ ModelInv(house, tw) /\ QueueInv(house, handler, queue)
        /\ queue \in Seq(Message) /\ house \in [Group -> Model]
    BY <1>3 DEF MirrorInv, ModelInv
  <1>6. Due(house, tw, m) /\ m \in Told
    BY <1>1, <1>4, <1>5, HeadDue, DueTold
  <1>7. /\ past'.twins = tw /\ past' \in Past
        /\ past'.uncounted = NotCounted(past.uncounted, rooms', house, hs, m.grp)
        /\ ~Lagged' => ~Lagged /\ outer = NoMessage
    <2>1. PICK unc \in SUBSET Room : /\ unc = Uncounted(hs, rooms', m)
                                     /\ unc = NotCounted(past.uncounted, rooms', house, hs, m.grp)
      BY DEF Uncounted, NotCounted
    <2>2. past.under \in 0..MaxUnder /\ past \in Past /\ MaxUnder \in Nat
      BY MirrorAssumption DEF MirrorInv, Past
    <2>3. PICK k \in 0..MaxUnder : /\ k = IF outer = NoMessage THEN past.under ELSE past.under + 1
                                   /\ k = 0 => past.under = 0 /\ outer = NoMessage
      BY <1>4, <2>2
    <2>4. past' = [past EXCEPT !.uncounted = unc, !.under = k]
      BY <1>4, <2>1, <2>3
    <2>5. past' \in Past /\ past'.twins = tw /\ past'.uncounted = unc /\ past'.under = k
      BY <1>3, <2>2, <2>4 DEF Past
    <2> QED  BY <2>1, <2>2, <2>3, <2>5 DEF Lagged
  <1>8. ModelInv(house', tw)
    BY <1>2, <1>4, <1>5, <1>6, EnteredSays
  <1>9. QueueInv(house', handler', queue')
    BY <1>1, <1>2, <1>4, <1>5, <1>6, QueueNext
  <1>10. queue' \in Seq(Message)
    BY <1>4, <1>5, HeadTailProperties
  <1>11. prev' \in [Group -> Model]
    BY <1>4, <1>6, EnteredType DEF MirrorInv
  <1>12. outer' \in Told \cup {NoMessage} /\ alerted' \in BOOLEAN
    BY <1>4, <1>6 DEF MirrorInv
  <1>13. /\ ListInv(users', house', tw) /\ users'.room = NoRoom /\ UnidsInv(users', house')
    <2>1. ListInv(users, house, tw) /\ users.room = NoRoom /\ UnidsInv(users, house)
      BY <1>3 DEF MirrorInv
    <2> QED  BY <1>2, <1>4, <1>5, <1>6, <2>1, UsersFollow
  <1>14. ListInv(inRoom', house', tw) /\ inRoom'.room = Hosted
    <2>1. ListInv(inRoom, house, tw) /\ inRoom.room = Hosted
      BY <1>3 DEF MirrorInv
    <2> QED  BY <1>2, <1>4, <1>5, <1>6, <2>1, UsersFollow
  <1>15. /\ rooms' \in RoomsView /\ FeedsListed(rooms', house')
         /\ prev = house => \A unc : RoomsInv(rooms, house, unc) =>
               RoomsInv(rooms', hs, NotCounted(unc, rooms', house, hs, m.grp))
    <2>1. rooms \in RoomsView /\ FeedsListed(rooms, house)
      BY DEF MirrorInv
    <2> QED  BY <1>2, <1>4, <1>5, <1>6, <2>1, RoomsFollow
  <1>16. ASSUME ~Lagged'
         PROVE  /\ IF outer' = NoMessage' THEN prev' = house' ELSE house' = Entered(prev', outer')
                /\ RoomsInv(rooms', house', past'.uncounted)
    <2>1. prev = house /\ outer = NoMessage /\ RoomsInv(rooms, house, past.uncounted)
      BY <1>7, <1>16 DEF MirrorInv
    <2>2. RoomsInv(rooms', house', past'.uncounted)
      BY <1>4, <1>7, <1>15, <2>1
    <2>3. m # NoMessage
      BY <1>6, MessageAssumption DEF Told, NoMessage
    <2> QED  BY <1>2, <1>4, <2>1, <2>2, <2>3 DEF NoMessage
  <1> QED  BY <1>5, <1>4, <1>7, <1>8, <1>9, <1>10, <1>11, <1>12, <1>13, <1>14, <1>15, <1>16
           DEF MirrorInv, Told, NoMessage

LEMMA AlertCloses ==
    ASSUME MirrorInv, CloseAlert
    PROVE  MirrorInv'
  <1>1. /\ outer \in Told /\ prev' = Entered(prev, outer) /\ outer' = NoMessage
        /\ UNCHANGED <<handler, queue, house, alerted, users, inRoom, rooms, past>>
    BY DEF MirrorInv, CloseAlert
  <1>2. prev' \in [Group -> Model]
    BY <1>1, EnteredType DEF MirrorInv
  <1>3. ~Lagged' => prev' = house'
    BY <1>1 DEF MirrorInv, CloseAlert, Lagged
  <1> QED  BY <1>1, <1>2, <1>3 DEF MirrorInv, NoMessage, Lagged

LEMMA HandlerTells ==
    ASSUME MirrorInv, NEW g \in Group, NEW n \in Node
    PROVE  /\ NodeAdded(g, n) => MirrorInv'
           /\ NodeRemoved(g, n) => MirrorInv'
           /\ \A i \in Id, r \in Room \cup {NoRoom} : UserUpdated(g, n, i, r) => MirrorInv'
           /\ \A r \in Room : RoomUpdated(g, n, r) => MirrorInv'
  <1>0. PICK tw : tw = past.twins
    OBVIOUS
  <1>1. HandlerInv(handler, tw) /\ (queue = <<>> => QueueInv(house, handler, <<>>))
    BY <1>0 DEF MirrorInv
  <1>2. ASSUME NodeAdded(g, n)  PROVE  MirrorInv'
    <2>1. PICK h, q : /\ h = UserInsert(handler[g], n) /\ q = <<Msg("user", g, n, NoId, NoRoom)>>
                      /\ Tells(g, h, q) /\ ~KnownIn(handler[g], n) /\ past' = past
      BY <1>2 DEF NodeAdded
    <2>2. /\ queue = <<>> /\ queue' = q /\ house' = house
          /\ handler' = [handler EXCEPT ![g] = UserInsert(handler[g], n)]
      BY <2>1 DEF Tells
    <2>3. /\ HandlerInv(handler', tw) /\ QueueInv(house, handler', queue')
          /\ queue' \in Seq(Message)
      BY <1>1, <2>1, <2>2, AddedSays
    <2> QED  BY <1>0, <2>1, <2>3, TellsInv
  <1>3. ASSUME NodeRemoved(g, n)  PROVE  MirrorInv'
    <2>1. PICK h, q : /\ h = NodeRemovedFrom(handler[g], n) /\ q = ErasedMsgs(handler[g], g, n)
                      /\ Tells(g, h, q) /\ KnownIn(handler[g], n) /\ past' = past
      BY <1>3 DEF NodeRemoved
    <2>2. /\ queue = <<>> /\ queue' = q /\ house' = house
          /\ handler' = [handler EXCEPT ![g] = NodeRemovedFrom(handler[g], n)]
      BY <2>1 DEF Tells
    <2>3. /\ HandlerInv(handler', tw) /\ QueueInv(house, handler', queue')
          /\ queue' \in Seq(Message)
      BY <1>1, <2>1, <2>2, RemovedSays
    <2> QED  BY <1>0, <2>1, <2>3, TellsInv
  <1>4. ASSUME NEW i \in Id, NEW r \in Room \cup {NoRoom}, UserUpdated(g, n, i, r)
        PROVE  MirrorInv'
    <2>1. PICK u, h, q : /\ u = [id |-> i, room |-> r] /\ h = RecvUserUpdate(handler[g], n, u)
                         /\ q = UpdateMsgs(handler[g], g, n, u)
                         /\ Tells(g, h, q) /\ KnownIn(handler[g], n)
      BY <1>4 DEF UserUpdated
    <2>2. /\ queue = <<>> /\ queue' = q /\ house' = house
          /\ handler' = [handler EXCEPT ![g] = RecvUserUpdate(handler[g], n, u)]
      BY <2>1 DEF Tells
    <2>3. past' = IF Twins(handler[g], n, i) THEN [past EXCEPT !.twins = @ \cup {i}] ELSE past
      BY <1>4 DEF UserUpdated
    <2>4. NowTwins(handler, tw, past'.twins, g, n, i)
      <3>1. past \in Past
        BY DEF MirrorInv
      <3> QED  BY <1>0, <2>3, <3>1 DEF Past, NowTwins
    <2>5. /\ HandlerInv(handler', past'.twins) /\ QueueInv(house, handler', queue')
          /\ queue' \in Seq(Message)
      BY <1>1, <2>1, <2>2, <2>4, UpdatedSays
    <2>6. past' = past \/ past' = [past EXCEPT !.twins = @ \cup {i}]
      BY <2>3
    <2> QED  BY <2>1, <2>5, <2>6, TellsInv
  <1>5. ASSUME NEW r \in Room, RoomUpdated(g, n, r)  PROVE  MirrorInv'
    <2>0. PICK same \in BOOLEAN :
             Tells(g, RecvRoomUpdate(handler[g], n, r),
                   <<[Msg("room", g, n, NoId, r) EXCEPT !.sameTopic = same]>>)
      BY <1>5 DEF RoomUpdated
    <2>1. PICK h, q : /\ h = RecvRoomUpdate(handler[g], n, r)
                      /\ q = <<[Msg("room", g, n, NoId, r) EXCEPT !.sameTopic = same]>>
                      /\ Tells(g, h, q) /\ KnownIn(handler[g], n) /\ past' = past
      BY <1>5, <2>0 DEF RoomUpdated
    <2>2. /\ queue = <<>> /\ queue' = q /\ house' = house
          /\ handler' = [handler EXCEPT ![g] = RecvRoomUpdate(handler[g], n, r)]
      BY <2>1 DEF Tells
    <2>3. /\ HandlerInv(handler', tw) /\ QueueInv(house, handler', queue')
          /\ queue' \in Seq(Message)
      BY <1>1, <2>1, <2>2, RoomSays
    <2> QED  BY <1>0, <2>1, <2>3, TellsInv
  <1> QED  BY <1>2, <1>3, <1>4, <1>5

LEMMA NextInv == MirrorInv /\ [Next]_vars => MirrorInv'
  <1> SUFFICES ASSUME MirrorInv, [Next]_vars  PROVE  MirrorInv'
    OBVIOUS
  <1>1. ASSUME NEW g \in Group, NEW n \in Node,
               \/ NodeAdded(g, n) \/ NodeRemoved(g, n)
               \/ \E i \in Id, r \in Room \cup {NoRoom} : UserUpdated(g, n, i, r)
               \/ \E r \in Room : RoomUpdated(g, n, r)
        PROVE  MirrorInv'
    BY <1>1, HandlerTells
  <1>2. CASE UNCHANGED vars
    BY <1>2 DEF vars, MirrorInv, Lagged, Told, NoMessage
  <1> QED  BY <1>1, <1>2, GuiFollows, AlertCloses DEF Next

LEMMA AlwaysInv == Spec => []MirrorInv
  BY StartInv, NextInv, PTL DEF Spec

-----------------------------------------------------------------------------
(* The theorems *)

LEMMA ListedSays ==
    ASSUME NEW v, NEW hs, NEW tw, ListInv(v, hs, tw), NEW i \in Id \ tw
    PROVE  v.ids[i] # NoItem <=> i \in Listed(v, hs)
  <1>1. ItemInv(v, hs, i)
    BY DEF ListInv
  <1>2. i \in Listed(v, hs) <=> \E g \in Group, n \in Node : Shows(v, hs, g, n, i)
    BY DEF Listed, Shows
  <1>3. CASE v.ids[i] = NoItem
    BY <1>1, <1>2, <1>3 DEF ItemInv
  <1>4. CASE v.ids[i] # NoItem
    <2>1. v.ids[i].feeds \in [Group -> Node \cup {NoNode}]
      BY <1>4 DEF ListInv, UsersView, UserItem
    <2>2. PICK g \in Group : v.ids[i].feeds[g] # NoNode
      BY <1>1, <1>4 DEF ItemInv
    <2>3. PICK n \in Node : v.ids[i].feeds[g] = n
      BY <2>1, <2>2
    <2> QED  BY <1>1, <1>2, <1>4, <2>3 DEF ItemInv, FedBy
  <1> QED  BY <1>3, <1>4

\* Houses, models, messages, lists and history have their types in every state
\* (chat/house.h, model/house.cpp, gui/view/users.cpp, gui/view/rooms.cpp).
THEOREM TypeCorrect == Spec => []TypeOK
  <1>1. MirrorInv => TypeOK
    BY DEF MirrorInv, TypeOK, HandlerInv, ModelInv, ListInv, RoomsView, Told
  <1> QED  BY <1>1, AlwaysInv, PTL

\* When the GUI has handled all it was told, its model has the users and the
\* rooms that the handlers have (model/house.cpp, house_app.cpp:255-350).
THEOREM MirrorsHolds == Spec => []Mirrors
  <1>1. MirrorInv => Mirrors
    <2> SUFFICES ASSUME MirrorInv, queue = <<>>, NEW g \in Group
                 PROVE  /\ house[g].users = handler[g].users
                        /\ house[g].rooms = {r \in Room : handler[g].rooms[r] \in Node}
      BY DEF Mirrors
    <2>1. UsersMatch(house, handler, {}) /\ RoomsMatch(house, handler, {})
      BY NothingDue DEF MirrorInv
    <2>2. /\ house[g] \in Model /\ handler[g] \in House
          /\ \A r \in Room : handler[g].rooms[r] # NoNode
      BY DEF MirrorInv, HandlerInv, ModelInv
    <2>3. house[g].users = handler[g].users
      <3>1. DOMAIN house[g].users = Node /\ DOMAIN handler[g].users = Node
        BY <2>2 DEF Model, House
      <3>2. \A n \in Node : house[g].users[n] = handler[g].users[n]
        BY <2>1 DEF UsersMatch
      <3>3. /\ house[g].users = [n \in Node |-> house[g].users[n]]
            /\ handler[g].users = [n \in Node |-> handler[g].users[n]]
        BY <2>2 DEF Model, House
      <3> QED  BY <3>2, <3>3
    <2>4. \A r \in Room : r \in house[g].rooms <=> handler[g].rooms[r] \in Node
      BY <2>1, <2>2, HandlerAssumption DEF RoomsMatch, House
    <2>5. house[g].rooms \subseteq Room
      BY <2>2 DEF Model
    <2> QED  BY <2>3, <2>4, <2>5
  <1> QED  BY <1>1, AlwaysInv, PTL

\* Who is found by an id has it, and a user who is known by his id is found by
\* it, unless two nodes of a group have had it (model/house.cpp, _grp_str_map).
THEOREM NamesFoundHolds == Spec => []NamesFound
  <1>1. MirrorInv => NamesFound
    <2> SUFFICES ASSUME MirrorInv, NEW g \in Group, NEW i \in Id, NEW n,
                        n = FindByName(house[g], i)
                 PROVE  /\ n # NoNode => house[g].users[n].id = i
                        /\ i \notin past.twins /\ n = NoNode =>
                              \A m \in Node : Has(house[g], m) => house[g].users[m].id # i
      BY DEF NamesFound
    <2>1. /\ house[g].names[i] \in Node \cup {NoNode} /\ NoNode \notin Node
          /\ \A m \in Node :
                house[g].names[i] = m => Has(house[g], m) /\ house[g].users[m].id = i
      BY HandlerAssumption DEF MirrorInv, ModelInv, NamesTrue, Model
    <2>2. n = house[g].names[i]
      BY <2>1 DEF FindByName
    <2>3. ASSUME i \notin past.twins, NEW m \in Node, Has(house[g], m), house[g].users[m].id = i
          PROVE  house[g].names[i] = m
      BY <2>3 DEF MirrorInv, ModelInv
    <2> QED  BY <2>1, <2>2, <2>3
  <1> QED  BY <1>1, AlwaysInv, PTL

\* The house window lists every user once, with the groups he is connected by
\* and in the right part; the room window lists those who are in its room
\* (view/users.cpp:390-546, multi_feed/user_map.h).
THEOREM UsersShownHolds == Spec => []UsersShown
  <1>1. MirrorInv => UsersShown
    <2> SUFFICES ASSUME MirrorInv  PROVE  UsersShown
      OBVIOUS
    <2>1. /\ ListInv(users, house, past.twins) /\ users.room = NoRoom
          /\ UnidsInv(users, house) /\ ListInv(inRoom, house, past.twins)
          /\ house \in [Group -> Model]
      BY DEF MirrorInv, ModelInv
    <2>2. ASSUME NEW i \in Id \ past.twins, users.ids[i] # NoItem
          PROVE  /\ users.ids[i].conn = ConnectedBy(house, i)
                 /\ users.ids[i].waiting = \E r \in Room : i \in PlayersOf(house, r)
      <3>1. PICK item : item = users.ids[i]
        OBVIOUS
      <3>2. /\ item.feeds \in [Group -> Node \cup {NoNode}] /\ item.waiting \in BOOLEAN
        BY <2>1, <2>2, <3>1 DEF ListInv, UsersView, UserItem
      <3>3. /\ \A g \in Group, n \in Node :
                  item.feeds[g] = n <=> Has(house[g], n) /\ house[g].users[n].id = i
            /\ ItemSays(item, house)
        BY <2>1, <2>2, <3>1 DEF ListInv, ItemInv, FedBy, Shows
      <3>4. \A g \in Group : item.feeds[g] # NoNode <=>
               \E n \in Node : Has(house[g], n) /\ house[g].users[n].id = i
        BY <3>2, <3>3, HandlerAssumption
      <3>5. item.conn = ConnectedBy(house, i)
        BY <3>3, <3>4 DEF ItemSays, ConnectedBy
      <3>6. ASSUME NEW g \in Group, item.feeds[g] # NoNode,
                   house[g].users[item.feeds[g]].room # NoRoom
            PROVE  \E r \in Room : i \in PlayersOf(house, r)
        <4>1. PICK n \in Node : n = item.feeds[g] /\ Has(house[g], n) /\ house[g].users[n].id = i
          BY <3>2, <3>3, <3>6
        <4>2. house[g].users[n].room \in Room
          BY <2>1, <3>6, <4>1 DEF Model, Has
        <4> QED  BY <2>1, <4>1, <4>2 DEF PlayersOf
      <3>7. ASSUME NEW r \in Room, i \in PlayersOf(house, r)
            PROVE  \E g \in Group : /\ item.feeds[g] # NoNode
                                    /\ house[g].users[item.feeds[g]].room # NoRoom
        <4>1. PICK g \in Group, n \in Node : /\ Has(house[g], n) /\ house[g].users[n].id = i
                                             /\ house[g].users[n].room = r
          BY <2>1, <3>7 DEF PlayersOf
        <4> QED  BY <3>3, <4>1, HandlerAssumption
      <3>8. item.waiting <=> \E r \in Room : i \in PlayersOf(house, r)
        BY <3>3, <3>6, <3>7 DEF ItemSays
      <3> QED  BY <3>1, <3>2, <3>5, <3>8
    <2>3. \A i \in Id \ past.twins :
             /\ users.ids[i] # NoItem <=> i \in Listed(users, house)
             /\ inRoom.ids[i] # NoItem <=> i \in Listed(inRoom, house)
      BY <2>1, ListedSays
    <2>4. users.unids = {x \in Group \X Node : Has(house[x[1]], x[2])
                                               /\ house[x[1]].users[x[2]].id = NoId}
      BY <2>1 DEF UnidsInv
    <2>5. ASSUME NEW i \in Id \ past.twins
          PROVE  /\ IF users.ids[i] = NoItem THEN i \notin Listed(users, house)
                    ELSE /\ i \in Listed(users, house)
                         /\ users.ids[i].conn = ConnectedBy(house, i)
                         /\ users.ids[i].waiting = (\E r \in Room : i \in PlayersOf(house, r))
                 /\ (inRoom.ids[i] # NoItem) = (i \in Listed(inRoom, house))
      <3>1. (inRoom.ids[i] # NoItem) = (i \in Listed(inRoom, house))
        BY <2>3
      <3>2. IF users.ids[i] = NoItem THEN i \notin Listed(users, house)
            ELSE /\ i \in Listed(users, house)
                 /\ users.ids[i].conn = ConnectedBy(house, i)
                 /\ users.ids[i].waiting = (\E r \in Room : i \in PlayersOf(house, r))
        <4>1. CASE users.ids[i] = NoItem
          BY <2>3, <4>1
        <4>2. CASE users.ids[i] # NoItem
          BY <2>2, <2>3, <4>2
        <4> QED  BY <4>1, <4>2
      <3> QED  BY ONLY <3>1, <3>2
    <2> QED  BY <2>4, <2>5 DEF UsersShown
  <1> QED  BY <1>1, AlwaysInv, PTL

\* A room is fed by groups that list it, and by all of those that have somebody
\* in it, unless news came under the alert (view/rooms.cpp:242-312).
THEOREM RoomsShownHolds == Spec => []RoomsShown
  <1>1. MirrorInv => RoomsShown
    BY DEF MirrorInv, RoomsShown, RoomsInv, PeopledShown, FeedsListed
  <1> QED  BY <1>1, AlwaysInv, PTL

\* The number of players shown is the model's, unless it changed by news of a
\* group that does not list the room or came under the alert
\* (view/rooms.cpp:212-240, house_app.cpp:255-350).
THEOREM PlayersFreshHolds == Spec => []PlayersFresh
  <1>1. MirrorInv => PlayersFresh
    BY DEF MirrorInv, PlayersFresh, RoomsInv, Counted
  <1> QED  BY <1>1, AlwaysInv, PTL
=============================================================================
