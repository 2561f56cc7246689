------------------------------ MODULE RoomJoin ------------------------------
(***************************************************************************)
(* Entering and leaving a room: gui/house_app.cpp, gui/window/house.cpp,   *)
(* gui/window/room.cpp and what networking::worker and group_handler_base  *)
(* relay between them.                                                     *)
(*                                                                         *)
(* A player asks the host of a room for a seat.  The host reserves one by  *)
(* entering the player in his own view of the room and acknowledges; the   *)
(* player then tells everybody, himself included, that he is in the room,  *)
(* and his window of the room opens when he hears it.  Nothing in an       *)
(* answer names the room, and the player does not compare its sequence     *)
(* number with the one he sent.                                            *)
(*                                                                         *)
(* A channel stands for all that is between the program logic of two       *)
(* users: the messenger to the networking thread, the netcomgrp group      *)
(* (external), the other networking thread and its messenger.  All of them *)
(* keep the order.  Nobody leaves the lobby here (GroupLobby has that),    *)
(* each host opens one room, and a room is named after its host.           *)
(***************************************************************************)
EXTENDS Integers, Sequences, FiniteSets

CONSTANTS Host,        \* users who host a room at first
          Player,      \* users who do not
          None,        \* no room (the empty id)
          Locked,      \* the hosts whose room has a password
          MaxPlayers,  \* seats in a room, the host's among them
          MaxTries,    \* joins a player sends
          MaxCancels,  \* joins interrupted, by all players
          MaxUpdates,  \* updates sent for other reasons, by all players
          MaxFlight    \* updates to himself under way when a window is closed

ASSUME RoomJoinAssumption ==
    /\ Host \cap Player = {} /\ IsFiniteSet(Player)
    /\ None \notin Host \cup Player
    /\ Locked \subseteq Host
    /\ MaxPlayers \in Nat \ {0}
    /\ MaxTries \in Nat /\ MaxCancels \in Nat /\ MaxUpdates \in Nat
    /\ MaxFlight \in Nat

VARIABLES
    hosting,  \* hosts whose room is open                (hosting_room)
    view,     \* view[h][p]: the room of p as h sees it  (house_model)
    room,     \* room[p]: where p is                     (user().room_id)
    joining,  \* the room p waits for                    (joining_room)
    own,      \* his own entry in his house_model
    listed,   \* the rooms in his house_model
    window,   \* the room his room window shows          (_room_win)
    tries,    \* the sequence number of his last join
    net,      \* net[<<a, b>>]: messages from a to b, oldest first
    cancels, updates,  \* how many there were
    crossed,  \* history: a player took the answer to an earlier join
    reopened  \* history: a window opened for a room its user had left

vars == <<hosting, view, room, joining, own, listed, window, tries, net,
          cancels, updates, crossed, reopened>>

Place   == Host \cup {None}
Channel == (Player \X Host) \cup (Host \X Player) \cup {<<p, p>> : p \in Player}

Join(n, good) == [kind |-> "room_join", seq |-> n, good |-> good]
News(r)       == [kind |-> "user", room |-> r]
Answer(k, n)  == [kind |-> k, seq |-> n]
Closed        == [kind |-> "room_remove"]

\* Faulty: one kind of answer is not recognized.
Answers_NoPass == {"room_join_ack", "room_join_full"}
Answers == {"room_join_ack", "room_join_full", "room_join_pass"}

Message == [kind : {"room_join"}, seq : 1..MaxTries, good : BOOLEAN]
           \cup [kind : {"user"}, room : Place]
           \cup [kind : Answers, seq : 1..MaxTries]
           \cup {Closed}

Init == /\ hosting = Host
        /\ view = [h \in Host |-> [p \in Player |-> None]]
        /\ room = [p \in Player |-> None]
        /\ joining = [p \in Player |-> None]
        /\ own = [p \in Player |-> None]
        /\ listed = [p \in Player |-> Host]
        /\ window = [p \in Player |-> None]
        /\ tries = [p \in Player |-> 0]
        /\ net = [c \in Channel |-> <<>>]
        /\ cancels = 0
        /\ updates = 0
        /\ crossed = FALSE
        /\ reopened = FALSE

-----------------------------------------------------------------------------
(* Messages *)

Arrives(a, b, kinds) == net[<<a, b>>] # <<>> /\ Head(net[<<a, b>>]).kind \in kinds

Taken(a, b) == [net EXCEPT ![<<a, b>>] = Tail(@)]

Sent(q, a, b, m) == [q EXCEPT ![<<a, b>>] = Append(@, m)]

\* user_send: p tells everybody, himself included, that he is in r.
Told(q, p, r) ==
    [c \in Channel |-> IF c[1] = p THEN Append(q[c], News(r)) ELSE q[c]]

-----------------------------------------------------------------------------
(* The player's side *)

\* Faulty: nothing keeps him from joining a second room.
RoomJoinSelected_InRoom(p, h) ==
    /\ joining[p] = None
    /\ h \in listed[p]
    /\ tries[p] < MaxTries
    /\ tries' = [tries EXCEPT ![p] = @ + 1]
    /\ joining' = [joining EXCEPT ![p] = h]
    /\ net' = Sent(net, p, h, Join(tries[p] + 1, TRUE))
    /\ UNCHANGED <<hosting, view, room, own, listed, window, cancels, updates,
                   crossed, reopened>>

\* room_join_selected: in no room, not joining one, and the room is listed.
\* The password he types may be wrong.
RoomJoinSelected(p, h) ==
    /\ room[p] = None /\ joining[p] = None
    /\ h \in listed[p]
    /\ tries[p] < MaxTries
    /\ tries' = [tries EXCEPT ![p] = @ + 1]
    /\ joining' = [joining EXCEPT ![p] = h]
    /\ \E good \in (IF h \in Locked THEN BOOLEAN ELSE {TRUE}) :
          net' = Sent(net, p, h, Join(tries[p] + 1, good))
    /\ UNCHANGED <<hosting, view, room, own, listed, window, cancels, updates,
                   crossed, reopened>>

\* Faulty: the host is not told.
Interrupt_Silent(p) ==
    /\ joining[p] # None
    /\ cancels < MaxCancels
    /\ cancels' = cancels + 1
    /\ joining' = [joining EXCEPT ![p] = None]
    /\ UNCHANGED <<hosting, view, room, own, listed, window, tries, net,
                   updates, crossed, reopened>>

\* interrupt: the update lets the host give the seat away.
Interrupt(p) ==
    /\ joining[p] # None
    /\ cancels < MaxCancels
    /\ cancels' = cancels + 1
    /\ joining' = [joining EXCEPT ![p] = None]
    /\ net' = Told(net, p, room[p])
    /\ UNCHANGED <<hosting, view, room, own, listed, window, tries, updates,
                   crossed, reopened>>

\* user_send for any other reason: status, tracks, an answer to a refresh.
UserSend(p) ==
    /\ updates < MaxUpdates
    /\ updates' = updates + 1
    /\ net' = Told(net, p, room[p])
    /\ UNCHANGED <<hosting, view, room, joining, own, listed, window, tries,
                   cancels, crossed, reopened>>

\* The window of a room is closed: its destructor takes p out of the room.
\* (Qt runs it when the message at hand has been handled.)
RoomDestroyed(p, q) ==
    /\ window' = [window EXCEPT ![p] = None]
    /\ room' = [room EXCEPT ![p] = None]
    /\ net' = Told(q, p, None)

CloseWindow(p) ==
    /\ window[p] # None
    /\ Len(net[<<p, p>>]) < MaxFlight
    /\ RoomDestroyed(p, net)
    /\ UNCHANGED <<hosting, view, joining, own, listed, tries, cancels,
                   updates, crossed, reopened>>

\* _handle_room_join_ack
TakeAnswer(p, h) ==
    /\ Arrives(h, p, Answers)
    /\ LET m == Head(net[<<h, p>>])
       IN  /\ IF joining[p] = None
              THEN net' = Taken(h, p) /\ UNCHANGED room
              ELSE IF m.kind = "room_join_ack"
              THEN /\ room' = [room EXCEPT ![p] = joining[p]]
                   /\ net' = Told(Taken(h, p), p, joining[p])
              ELSE net' = Taken(h, p) /\ UNCHANGED room
           /\ crossed' = (crossed \/ (joining[p] # None /\ m.seq # tries[p]))
    /\ joining' = [joining EXCEPT ![p] = None]
    /\ UNCHANGED <<hosting, view, own, listed, window, tries, cancels,
                   updates, reopened>>

\* Faulty: the window of a room that is closed opens.
Opens_Closed(p, r) == window[p] = None /\ r # None

\* _cond_open_room_window, when the house model has p in r.
Opens(p, r) == window[p] = None /\ r \in listed[p]

CondOpen(p, r) ==
    /\ window' = [window EXCEPT ![p] = IF Opens(p, r) THEN r ELSE @]
    /\ reopened' = (reopened \/ (Opens(p, r) /\ room[p] # r))

\* p hears of himself.
HearSelf(p) ==
    /\ Arrives(p, p, {"user"})
    /\ own' = [own EXCEPT ![p] = Head(net[<<p, p>>]).room]
    /\ CondOpen(p, own'[p])
    /\ net' = Taken(p, p)
    /\ UNCHANGED <<hosting, view, room, joining, listed, tries, cancels,
                   updates, crossed>>

\* p hears of another user or of a room that is open: when his own entry
\* has him in a room without a window, one opens.
HearOther(p) ==
    /\ Opens(p, own[p])
    /\ CondOpen(p, own[p])
    /\ UNCHANGED <<hosting, view, room, joining, own, listed, tries, net,
                   cancels, updates, crossed>>

\* room_remove: the house model drops the room, its window closes.
RoomRemoved(p, h) ==
    /\ Arrives(h, p, {"room_remove"})
    /\ listed' = [listed EXCEPT ![p] = @ \ {h}]
    /\ IF window[p] = h
       THEN RoomDestroyed(p, Taken(h, p))
       ELSE net' = Taken(h, p) /\ UNCHANGED <<room, window>>
    /\ UNCHANGED <<hosting, view, joining, own, tries, cancels, updates,
                   crossed, reopened>>

-----------------------------------------------------------------------------
(* The host's side *)

\* model::house::room_size
RoomSize(h) == 1 + Cardinality({p \in Player : view[h][p] = h})

\* Faulty: one player too many.
Full_OffByOne(h) == RoomSize(h) > MaxPlayers
Full(h)          == RoomSize(h) >= MaxPlayers

Reserved(h, p) == [view EXCEPT ![h][p] = h]

\* _handle_room_join.  The networking thread knows no refusal by a user who
\* hosts no room (room_join_nack): it drops the message.
HandleRoomJoin(h, p) ==
    /\ Arrives(p, h, {"room_join"})
    /\ LET m == Head(net[<<p, h>>])
           Reply(k) == net' = Sent(Taken(p, h), h, p, Answer(k, m.seq))
       IN  \/ /\ h \notin hosting
              /\ net' = Taken(p, h) /\ UNCHANGED view
           \/ /\ h \in hosting /\ ~m.good
              /\ Reply("room_join_pass") /\ UNCHANGED view
           \/ /\ h \in hosting /\ m.good /\ Full(h)
              /\ Reply("room_join_full") /\ UNCHANGED view
           \/ /\ h \in hosting /\ m.good /\ ~Full(h)
              /\ view' = Reserved(h, p)
              /\ Reply("room_join_ack")
    /\ UNCHANGED <<hosting, room, joining, own, listed, window, tries, cancels,
                   updates, crossed, reopened>>

\* The host's house model takes an update of p.
HearUser(h, p) ==
    /\ Arrives(p, h, {"user"})
    /\ view' = [view EXCEPT ![h][p] = Head(net[<<p, h>>]).room]
    /\ net' = Taken(p, h)
    /\ UNCHANGED <<hosting, room, joining, own, listed, window, tries, cancels,
                   updates, crossed, reopened>>

\* The host leaves his room, which closes it for everybody.
CloseRoom(h) ==
    /\ h \in hosting
    /\ hosting' = hosting \ {h}
    /\ net' = [c \in Channel |-> IF c[1] = h THEN Append(net[c], Closed)
                                 ELSE net[c]]
    /\ UNCHANGED <<view, room, joining, own, listed, window, tries, cancels,
                   updates, crossed, reopened>>

-----------------------------------------------------------------------------
Hear(p, h) ==
    \/ HandleRoomJoin(h, p) \/ HearUser(h, p)
    \/ TakeAnswer(p, h) \/ RoomRemoved(p, h)

Next ==
    \/ \E p \in Player :
          \/ Interrupt(p) \/ UserSend(p) \/ CloseWindow(p)
          \/ HearSelf(p) \/ HearOther(p)
          \/ \E h \in Host : RoomJoinSelected(p, h) \/ Hear(p, h)
    \/ \E h \in Host : CloseRoom(h)

\* Messages arrive and are handled; nobody has to do anything else.
Fairness == \A p \in Player :
               WF_vars(HearSelf(p)) /\ \A h \in Host : WF_vars(Hear(p, h))

Spec == Init /\ [][Next]_vars /\ Fairness

-----------------------------------------------------------------------------
(* Properties *)

\* Every part of the state has its type; nobody waits for a room while he is
\* in one.
TypeOK ==
    /\ hosting \subseteq Host
    /\ view \in [Host -> [Player -> Place]]
    /\ room \in [Player -> Place]
    /\ joining \in [Player -> Place]
    /\ own \in [Player -> Place]
    /\ listed \in [Player -> SUBSET Host]
    /\ window \in [Player -> Place]
    /\ tries \in [Player -> 0..MaxTries]
    /\ net \in [Channel -> Seq(Message)]
    /\ cancels \in 0..MaxCancels
    /\ updates \in 0..MaxUpdates
    /\ crossed \in BOOLEAN /\ reopened \in BOOLEAN
    /\ \A p \in Player : joining[p] = None \/ room[p] = None

\* A room never has more players than seats, unless a player took the answer
\* to an earlier join or sent an update that overwrote his reservation, as
\* the closing of a window that had opened again does
\* (house_app::_handle_room_join, model::house::room_size).
NotOverfull ==
    (~crossed /\ ~reopened /\ updates = 0) =>
        \A h \in hosting :
            1 + Cardinality({p \in Player : room[p] = h}) <= MaxPlayers

Quiet == \A c \in Channel : net[c] = <<>>

\* Once all messages have arrived, a host sees in his room the players who
\* are there and nobody else: no seat stays reserved for a player who gave
\* up, was refused or left (house_app::_handle_room_join, house::interrupt).
\* Again only if nobody took the answer to an earlier join: a refusal taken
\* that way is not followed by an update, so that the seat stays reserved.
SeatsAgree ==
    (Quiet /\ ~crossed) =>
        \A h \in hosting, p \in Player : view[h][p] = h <=> room[p] = h

\* Once all messages have arrived, a player looks at the window of the room
\* he is in if it is open still, and at none otherwise
\* (house_app::_cond_open_room_window, room::handle_message).  The window
\* can open again, for good, in a user who has left the room but has not
\* heard so yet; what follows from that is left out.
WindowShowsRoom ==
    (Quiet /\ ~reopened) =>
        \A p \in Player :
            window[p] = IF room[p] \in hosting THEN room[p] ELSE None

\* Whoever waits for a room gets an answer, unless the room closes
\* (house_app::_handle_room_join, worker::handle_message).
JoinEnds ==
    \A p \in Player, h \in Host :
        joining[p] = h ~> (joining[p] # h \/ h \notin hosting)

\* What _handle_room_join means to do: a player who asks for a room that is
\* not hosted gets an answer too.  The networking thread drops it.
JoinAnswered ==
    \A p \in Player, h \in Host : joining[p] = h ~> joining[p] # h

\* What its comment says of the reservation: it lasts until the player has
\* received the answer.  Any update he sends while he waits ends it.
SeatReserved ==
    \A h \in hosting, p \in Player :
        (\E i \in DOMAIN net[<<h, p>>] :
            net[<<h, p>>][i] = Answer("room_join_ack", tries[p])
            /\ joining[p] = h)
        => view[h][p] = h
=============================================================================
