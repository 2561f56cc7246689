----------------------------- MODULE RoomWindow -----------------------------
(***************************************************************************)
(* The room window of a guest: what the host and another player send him   *)
(* over all groups, the filter that drops the copies, the dialogs and the  *)
(* timer of the game's launch, and the private window (gui/window/room,    *)
(* gui/view/chat, gui/window/private_message, gui/house_app).              *)
(*                                                                         *)
(* A number is a sequence number of its sender (model::self::sequence); a  *)
(* message that is sent keeps its number in every group.  An answer to a   *)
(* join keeps the number of the request, which is one of the guest's.      *)
(***************************************************************************)
EXTENDS Naturals, Sequences, FiniteSets, FiniteSetsExt, SequencesExt

CONSTANTS Group, Host, Other,
          MaxSeqs,    \* the numbers the filter remembers of a sender
          Request,    \* the number of the guest's request to join
          MaxSent,    \* bound on the numbers of each sender
          MaxNet,     \* bound on the messages in a group for further sending
          MaxLost     \* bound on the nodes that are lost

Sender == {Host, Other}
MaxNum == IF MaxSent[Host] > MaxSent[Other] THEN MaxSent[Host] ELSE MaxSent[Other]
Number == 1..MaxNum

ASSUME WindowAssumption ==
    /\ Host # Other /\ MaxSeqs \in Nat \ {0}
    /\ MaxSent \in [Sender -> Nat] /\ MaxNet \in Nat /\ MaxLost \in Nat
    /\ Request \in Number

VARIABLES
    host,      \* his last number; he plays; his room is open; he let the guest in
    other,     \* the other player's last number
    up,        \* the senders who are connected to the guest, by group
    net,       \* messages of a group on their way to the guest's windows
    model,     \* the guest's house_model, by group: known, host plays, listed
    seen,      \* numbers of a sender, latest first         (_filter_dup_map)
    join,      \* the guest waits for the answer
    win,       \* the room window
    timers,    \* launches the timer will try
    dialogs,   \* dialogs of the window, the one on top last
    modal,     \* _running_modal
    playing,   \* the guest's status is playing
    chat,      \* the window for private messages with the other is open
    past       \* history, for the properties

vars == <<host, other, up, net, model, seen, join, win, timers, dialogs, modal,
          playing, chat, past>>

wires == <<host, other, up, net>>

Kind == {"user", "left", "room_remove", "ack",
         "launch", "kick", "line", "private"}

\* num is 0 in news that the group handler makes; yes says that the host
\* plays, or that the guest is the one to kick.
Message == [kind : Kind, from : Sender, num : 0..MaxNum, yes : BOOLEAN]

Msg(k, s, n, y) == [kind |-> k, from |-> s, num |-> n, yes |-> y]

Dialog == [kind : {"launched", "too_late", "error"}, saved : BOOLEAN]

\*   came     the numbers of a sender that have been handled
\*   lag      how far a number was behind the latest one handled when it came
\*   twice    a message was handled twice
\*   lost     a message that had not been handled was not shown nor obeyed
\*   refused  the room window did not close because of a dialog
\*   again    the game was launched while the last launch was still shown
Past == [came : [Sender -> SUBSET Number], lag : 0..MaxNum,
         twice : BOOLEAN, lost : BOOLEAN, refused : BOOLEAN, again : BOOLEAN]

Init == /\ host = [num |-> 0, playing |-> FALSE, open |-> TRUE, acked |-> FALSE]
        /\ other = 0
        /\ up = [g \in Group |-> Sender]
        /\ net = [g \in Group |-> <<>>]
        /\ model = [g \in Group |-> [known |-> Sender, plays |-> FALSE, listed |-> TRUE]]
        /\ seen = [s \in Sender |-> <<>>]
        /\ join = TRUE
        /\ win = "none"
        /\ timers = 0
        /\ dialogs = <<>>
        /\ modal = FALSE
        /\ playing = FALSE
        /\ chat = FALSE
        /\ past = [came |-> [s \in Sender |-> {}], lag |-> 0, twice |-> FALSE,
                   lost |-> FALSE, refused |-> FALSE, again |-> FALSE]

gui == <<model, seen, join, win, timers, dialogs, modal, playing, chat, past>>

-----------------------------------------------------------------------------
(* The others. *)

Sent(s, ms) == [g \in Group |-> IF s \in up[g] THEN net[g] \o ms ELSE net[g]]

MaySend == \A g \in Group : Len(net[g]) < MaxNet

\* _launch_host, and _launched_display up to its dialog: the command goes
\* before the status.
HostLaunches ==
    /\ host.open /\ ~host.playing /\ host.num < MaxSent[Host] /\ MaySend
    /\ host' = [host EXCEPT !.num = @ + 1, !.playing = TRUE]
    /\ net' = Sent(Host, <<Msg("launch", Host, host.num + 1, FALSE),
                           Msg("user", Host, 0, TRUE)>>)
    /\ UNCHANGED <<other, up, gui>>

\* The dialog of _launched_display ends.
HostStops ==
    /\ host.playing /\ MaySend
    /\ host' = [host EXCEPT !.playing = FALSE]
    /\ net' = Sent(Host, <<Msg("user", Host, 0, FALSE)>>)
    /\ UNCHANGED <<other, up, gui>>

\* users::kick_selected_user, of the guest or of somebody else
HostKicks ==
    /\ host.open /\ host.num < MaxSent[Host] /\ MaySend
    /\ host' = [host EXCEPT !.num = @ + 1]
    /\ \E guest \in BOOLEAN : net' = Sent(Host, <<Msg("kick", Host, host.num + 1, guest)>>)
    /\ UNCHANGED <<other, up, gui>>

\* The host leaves: the guest's handlers close his room.
HostCloses ==
    /\ host.open /\ ~host.playing /\ MaySend
    /\ host' = [host EXCEPT !.open = FALSE]
    /\ net' = Sent(Host, <<Msg("room_remove", Host, 0, FALSE),
                           Msg("user", Host, 0, FALSE)>>)
    /\ UNCHANGED <<other, up, gui>>

\* The answer to the join, with the number of the request.
HostAcks ==
    /\ host.open /\ ~host.acked /\ MaySend
    /\ host' = [host EXCEPT !.acked = TRUE]
    /\ net' = Sent(Host, <<Msg("ack", Host, Request, FALSE)>>)
    /\ UNCHANGED <<other, up, gui>>

OtherSends(kind) ==
    /\ other < MaxSent[Other] /\ MaySend
    /\ other' = other + 1
    /\ net' = Sent(Other, <<Msg(kind, Other, other + 1, FALSE)>>)
    /\ UNCHANGED <<host, up, gui>>

\* room::send_message of the other player
OtherWrites == OtherSends("line")

\* private_message::send_message of the other player
OtherWritesPrivate == OtherSends("private")

\* A node is removed from a group, and user_erased.  Its return is in
\* HouseMirror.
NodeLost(g, s) ==
    /\ s \in up[g] /\ Cardinality({x \in Group \X Sender : x[2] \notin up[x[1]]}) < MaxLost
    /\ up' = [up EXCEPT ![g] = @ \ {s}]
    /\ net' = [net EXCEPT ![g] = @ \o
                  (IF s = Host /\ host.open THEN <<Msg("room_remove", s, 0, FALSE)>> ELSE <<>>)
                  \o <<Msg("left", s, 0, FALSE)>>]
    /\ UNCHANGED <<host, other, gui>>

-----------------------------------------------------------------------------
(* house_app: the filter and the model. *)

\* Faulty: the numbers of all senders are in one list.
Seen_OfAll(s, n) == \E t \in Sender : \E i \in DOMAIN seen[t] : seen[t][i] = n

Seen(s, n) == \E i \in DOMAIN seen[s] : seen[s][i] = n

\* Faulty: the number that goes is the latest one.
Remembered_Oldest(s, n) ==
    IF Len(seen[s]) = MaxSeqs THEN <<n>> \o Tail(seen[s]) ELSE <<n>> \o seen[s]

\* Faulty: one number too many stays.
Remembered_More(s, n) ==
    IF Len(seen[s]) > MaxSeqs THEN <<n>> \o Front(seen[s]) ELSE <<n>> \o seen[s]

\* _filter_dup: the number goes to the front, the oldest one goes.
Remembered(s, n) ==
    IF Len(seen[s]) >= MaxSeqs THEN <<n>> \o Front(seen[s]) ELSE <<n>> \o seen[s]

\* _filter_message: the news of the model are never copies.
Filtered(m) == m.num # 0 /\ Seen(m.from, m.num)

\* _handle_model_update
Entered(md, m) ==
    CASE m.kind = "user" -> [md EXCEPT !.known = @ \cup {m.from},
                                       !.plays = IF m.from = Host THEN m.yes ELSE @]
      [] m.kind = "left" -> [md EXCEPT !.known = @ \ {m.from},
                                       !.plays = @ /\ m.from # Host]
      [] m.kind = "room_remove" -> [md EXCEPT !.listed = FALSE]
      [] OTHER -> md

Listed(mds) == \E g \in Group : mds[g].listed

\* room::_playing_host: a host who plays, in a group that lists his room.
PlayingHost == \E g \in Group : model[g].listed /\ Host \in model[g].known /\ model[g].plays

-----------------------------------------------------------------------------
(* The windows. *)

\* Faulty: the window closes under any dialog.
Closes_Always(must) == must

\* close() where the window says it must: not while it runs a dialog.
Closes(must) == must /\ ~modal

\* _handle_room_launch and _handle_room_kick take the command of the host of
\* the room, as the group at hand has it.
Obeyed(md) == Host \in md.known /\ md.listed

\* What closes the room window: the room is not open in any group, or a kick.
MustClose(mds, g, m) ==
    \/ m.kind = "room_remove" /\ ~Listed(mds)
    \/ m.kind = "kick" /\ m.yes /\ Obeyed(mds[g])

\* room::handle_message.  With the window go its timers.
RoomWindowHandles(mds, g, m) ==
    IF win # "open" THEN UNCHANGED <<win, timers>>
    ELSE IF Closes(MustClose(mds, g, m)) THEN win' = "gone" /\ timers' = 0
    ELSE /\ timers' = IF m.kind = "launch" /\ ~modal /\ Obeyed(mds[g])
                      THEN timers + 1 ELSE timers
         /\ UNCHANGED win

\* Faulty: the window opens and does not show what it opened for.
PrivateShown_Old(m) == chat

\* The private window shows the message, or opens and does, but not when the
\* guest plays: then the other is told that it was refused.
PrivateShown(m) == chat \/ ~playing

\* A message that is not a copy is lost when its sender is not found.
Shown(md, m) ==
    CASE m.kind = "line"    -> win = "open" => m.from \in md.known
      [] m.kind = "private" -> m.from \in md.known /\ (PrivateShown(m) \/ playing)
      [] OTHER -> TRUE

\* The number is also that of the answer to the join.
Ambiguous(m) == m.from = Host /\ m.num = Request /\ host.acked

\* What the history notes of a message that has a number.
Noted(mds, g, m) ==
    IF m.num = 0 THEN past
    ELSE LET own == m.kind # "ack"
         IN [past EXCEPT
                !.came[m.from] = IF own THEN @ \cup {m.num} ELSE @,
                !.lag  = LET later == {k \in past.came[m.from] : k > m.num + @}
                         IN IF own /\ later # {} THEN Max(later) - m.num ELSE @,
                !.twice = @ \/ (~Ambiguous(m) /\ ~Filtered(m) /\ m.num \in past.came[m.from]),
                !.lost  = @ \/ (~Ambiguous(m) /\ IF Filtered(m)
                                                 THEN m.num \notin past.came[m.from]
                                                 ELSE ~Shown(mds[g], m))]

\* house_app::_handle_messenger, one message.  An answer lets the guest in,
\* and his window opens when a group lists the room.
HandleMessage(g) ==
    /\ net[g] # <<>>
    /\ net' = [net EXCEPT ![g] = Tail(@)]
    /\ LET m   == Head(net[g])
           mds == [model EXCEPT ![g] = Entered(@, m)]
           history == Noted(mds, g, m)
       IN IF Filtered(m)
          THEN /\ past' = history
               /\ UNCHANGED <<model, seen, join, win, timers, chat>>
          ELSE /\ model' = mds
               /\ seen' = IF m.num = 0 THEN seen
                          ELSE [seen EXCEPT ![m.from] = Remembered(m.from, m.num)]
               /\ IF m.kind = "ack" /\ join
                  THEN /\ join' = FALSE
                       /\ win' = IF Listed(mds) THEN "open" ELSE "none"
                       /\ UNCHANGED timers
                  ELSE RoomWindowHandles(mds, g, m) /\ UNCHANGED join
               /\ chat' = (chat \/ (m.kind = "private" /\ ~playing))
               /\ past' = [history EXCEPT
                     !.refused = @ \/ (win = "open" /\ MustClose(mds, g, m) /\ win' = win)]
    /\ UNCHANGED <<host, other, up, dialogs, modal, playing>>

-----------------------------------------------------------------------------
(* The guest, his game and the timer. *)

Opens(kind, guarded) ==
    /\ dialogs' = Append(dialogs, [kind |-> kind, saved |-> modal])
    /\ modal' = (modal \/ guarded)

\* launch_rv and _launch_join.  A start may fail, as the one of RVGL does while
\* a game runs, and the dialog that it is too late does not count as one that
\* runs.
LaunchRv ==
    IF ~PlayingHost THEN UNCHANGED <<dialogs, modal, playing, past>>
    ELSE \/ Opens("too_late", FALSE) /\ UNCHANGED <<playing, past>>
         \/ Opens("error", TRUE) /\ UNCHANGED <<playing, past>>
         \/ /\ Opens("launched", TRUE)
            /\ playing' = TRUE
            /\ past' = [past EXCEPT !.again = @ \/ playing]

\* The button is there while a host plays; dialogs are modal.
ClickLaunch ==
    /\ win = "open" /\ dialogs = <<>> /\ PlayingHost
    /\ LaunchRv
    /\ UNCHANGED <<wires, model, seen, join, win, timers, chat>>

\* Five seconds after the command.
TimerFires ==
    /\ win = "open" /\ timers > 0
    /\ timers' = timers - 1
    /\ LaunchRv
    /\ UNCHANGED <<wires, model, seen, join, win, chat>>

\* Faulty: the status is reset by any dialog.
PlayingAfter_Any(dialog) == FALSE

\* _launched_display goes on after its dialog.
PlayingAfter(dialog) == playing /\ dialog.kind # "launched"

\* The dialog on top ends; variable_guard restores what it found.
CloseDialog ==
    /\ dialogs # <<>> /\ win = "open"
    /\ dialogs' = Front(dialogs)
    /\ modal' = Last(dialogs).saved
    /\ playing' = PlayingAfter(Last(dialogs))
    /\ UNCHANGED <<wires, model, seen, join, win, timers, chat, past>>

\* open_private_room: the guest opens the private window himself.
OpenPrivate ==
    /\ dialogs = <<>> /\ ~chat
    /\ \E g \in Group : Other \in model[g].known
    /\ chat' = TRUE
    /\ UNCHANGED <<wires, model, seen, join, win, timers, dialogs, modal, playing, past>>

\* The user leaves the room, or closes the private window.
UserCloses ==
    /\ dialogs = <<>>
    /\ \/ win = "open" /\ win' = "gone" /\ timers' = 0 /\ UNCHANGED chat
       \/ chat /\ chat' = FALSE /\ UNCHANGED <<win, timers>>
    /\ UNCHANGED <<wires, model, seen, join, dialogs, modal, playing, past>>

Next ==
    \/ HostLaunches \/ HostStops \/ HostKicks \/ HostCloses \/ HostAcks
    \/ OtherWrites \/ OtherWritesPrivate
    \/ \E g \in Group : \/ HandleMessage(g)
                        \/ \E s \in Sender : NodeLost(g, s)
    \/ ClickLaunch \/ TimerFires \/ CloseDialog
    \/ OpenPrivate \/ UserCloses

Spec == Init /\ [][Next]_vars

-----------------------------------------------------------------------------

TypeOK ==
    /\ host \in [num : 0..MaxNum, playing : BOOLEAN, open : BOOLEAN, acked : BOOLEAN]
    /\ other \in 0..MaxNum
    /\ up \in [Group -> SUBSET Sender]
    /\ net \in [Group -> Seq(Message)]
    /\ model \in [Group -> [known : SUBSET Sender, plays : BOOLEAN, listed : BOOLEAN]]
    /\ seen \in [Sender -> Seq(Number)]
    /\ \A s \in Sender : Len(seen[s]) <= MaxSeqs
    /\ join \in BOOLEAN
    /\ win \in {"none", "open", "gone"}
    /\ timers \in Nat
    /\ dialogs \in Seq(Dialog)
    /\ modal \in BOOLEAN /\ playing \in BOOLEAN /\ chat \in BOOLEAN
    /\ past \in Past

\* A message is handled once, unless a group was as many messages of a sender
\* behind the other as the filter remembers; an answer to a join takes the
\* place of one (house_app.cpp:607-653).  The message that shares its number
\* with the answer is left out: the answer may come early, so that its number
\* is forgotten early, and the copy is handled (house_app.cpp:597).
FilteredOnce ==
    past.twice => past.lag + (IF host.acked THEN 1 ELSE 0) >= MaxSeqs

\* What is said, ordered or refused reaches the guest: the filter drops copies
\* only, and a sender is known in the group his message comes from.  Messages
\* that share their number with the answer to a join are left out: one of the
\* two is dropped (house_app.cpp:597).
NothingLost == ~past.lost

\* The room window is open as long as a group lists the room: it is closed
\* when the last one closes it, unless it runs a dialog then, which it does
\* not know of when that only says that it is too late (room.cpp:419-425).
WindowFollowsRoom ==
    /\ win = "open" /\ ~past.refused => Listed(model)
    /\ win = "gone" => \A i \in DOMAIN dialogs : dialogs[i].kind = "too_late"

\* The guest's status never says that he plays when no launch is shown; and it
\* says so as long as one is, unless the timer launched the game once more
\* while one was (room.cpp:573-586).
PlayingShown ==
    LET launched == \E i \in DOMAIN dialogs : dialogs[i].kind = "launched"
    IN (playing => launched) /\ (launched => playing \/ past.again)
=============================================================================
