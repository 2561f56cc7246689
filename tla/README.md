# RV House in TLA+

RV House is a lobby for players of Re-Volt: a peer-to-peer program that finds
other users, chats with them and gathers them in rooms from which a game is
started. This directory holds a model of its core logic, the runs that check
it with TLC, and the theorems about it that TLAPS checks. Paths below are
relative to `src/` of the repository unless they say otherwise; line numbers
are those of the sources the models were written from.

## 1. The system

The program has two threads. The **GUI thread** (`gui/house_app.cpp`, Qt) runs
the windows and keeps the *house model*; the **networking thread**
(`networking/worker.cpp`, an ACE reactor) runs the group adapters and keeps a
*house* for every group. They share nothing but two **messengers**, one for
each direction (`messaging/messenger.h`).

    windows --- house_app --net_messenger--> worker --- adapters --- handler
    house model     ^                          |                      house
                    +------- gui_messenger ----+                   netcomgrp

| component | state | operations | hard parts | what makes it correct |
|---|---|---|---|---|
| group handler (`networking/impl/group_handler_base.cpp`, `chat/comm/netcomgrp_adapter.h`, `chat/house.h`) | users and rooms of one group, the own user and room | node added, removed, data received; update, refresh, block, join, join_rsp | requests, answers and broadcasts of peers cross; restarts and lost links | what is listed is what was announced; rooms go with their owners; blocked users stay away |
| messenger (`messaging/`) and its loops | queue, lock, notifications | send, collect | two threads, a full notification pipe, nested event loops, handlers that throw | nothing is lost, doubled or reordered; no lost wake-up |
| room join (`gui/house_app.cpp`, `gui/window/house.cpp`, `gui/window/room.cpp`) | joining room, own room, reservation in the house model, room window | select, request, answer, interrupt, leave, close | answers without the name of the room, interrupts, reservations overwritten | no more players than seats; no seat stays reserved; the window shows the room one is in |
| house model (`model/house.cpp`) and previous model | users and rooms for each feed | update, erase, find, room_size | several feeds of the same user | both models agree with the feeds |
| duplicate filter (`gui/house_app.cpp` 575-653) | the last four sequence numbers of a sender | filter | numbers of the joiner under the host's id | only duplicates are dropped |
| group adapters (`networking/impl/group_adapter_serverless.cpp`, `group_adapter_combine.cpp`, `group_adapter_centralized.cpp`) | DHT, external address, group, server | connect, disconnect, address fetch, state changes | results that arrive late or at once, flags that stay set | a join that can be made is made; flags tell the truth |
| DHT operation (`networking/impl/dht_operation.cpp`, `kadc/`) | client, contacts update | connect, update contacts | failure of a fetch, an update that waits for the reactor | one update at a time; the group never uses a deleted client |
| HTTP fetcher, remote file saver (`networking/http`, `networking/remote_file_saver`) | one request | fetch, callbacks | ends inside its own call, errors reported twice | those above it survive every sequence of callbacks |
| worker (`networking/worker.cpp`) | clients, quit flag | dispatch | messages nobody handles | every message has its effect |
| house window (`gui/window/house.cpp`) | connection tries, timers, blocking | connect, reconnect, refresh, block | timers against the user | retries end |
| room window, room settings, private window (`gui/window/room.cpp`, `room_settings.cpp`, `private_message.cpp`) | room shown, modal flag, status | launch, kick, settings, messages | refusal to close while a dialog is shown, a launch timer | a window does not outlive its room; the status follows the game |
| multi-feed views (`multi_feed/`, `gui/view/`) | items merged over feeds | update, remove | ids that come late, the previous model | one item for one user, counts that are right |
| start of the program, login and register windows, version window (`gui/house_app.cpp`, `gui/window/login.cpp`, `register_user.cpp`, `version_update.cpp`) | windows and their event loops | login, register, quit | answers twice or late, boxes over boxes | the name and password kept are those accepted; a click is answered |
| ignore list, version and login clients; address store (`networking/global_ignore`, `version_update`, `impl/login_manager_rvzt.cpp`, `ip_block/store.cpp`) | one fetch each, a list | fetch, block | order of list and own address | the list is applied and told |
| reporter client, launchers, configuration, language, parsers, tools, other windows | files, forms | | | |

`PROJECT.json` lists them all with what is modelled; its "hazards" are the
places where the code is hard to test, with the properties that look there.

**External.** `netcomgrp` over `reudp` (the group of nodes), ACE, Qt, Boost and
KadC are not in the repository. They are modelled from how the code uses them:
a group announces nodes and removes them, hands over data of announced nodes
only, keeps the order of what one node sends to another, delivers a broadcast
to its sender too, and loses what is under way when a link goes down.

## 2. The modules

| module | what it is |
|---|---|
| `GroupHandler` | the house of a networking thread and what the callbacks of the handler do to it, as operators on a record |
| `GroupLobby` | peers with such houses, the PDUs between them, the user's acts that change them, crashes, restarts, lost links, blocking |
| `Mailbox` | what a messenger promises |
| `Messenger` | the messenger with its lock, the notifications and the receiving loop; implements `Mailbox` |
| `RoomJoin` | joining and leaving rooms between GUI threads: seats, reservations, answers, windows |
| `HttpFetch` | the callbacks of one fetch, for every way it starts and ends, and what the remote file saver makes of them, as operators |
| `ServerlessAdapter` | the serverless adapter and the DHT operation, as operators on a record; extends `HttpFetch` |
| `Connecting` | the house window's connects, timers and help, both adapters, the network and its failures; extends `ServerlessAdapter` |
| `HouseModel` | the GUI's model of a group: users, the map of id strings, rooms, `room_size`; extends `GroupHandler` |
| `HouseViews` | the lists of users and rooms that merge the groups; extends `HouseModel` |
| `HouseMirror` | handlers, their messages, the model, the previous model and the lists; composes the three above |
| `RoomWindow` | a guest's windows: duplicate filter, commands of the host, dialogs, launch timer, private messages |
| `Startup` | from the login window to the lobby, with nested event loops and the clients of the networking thread; extends `HttpFetch` |
| `GroupLobby_proofs`, `LobbyUpToDate_proofs`, `Messenger_proofs`, `RoomJoin_proofs`, `Connecting_proofs`, `HouseMirror_proofs`, `RoomWindow_proofs`, `Startup_proofs` | theorems |
| `MC...` | instances for TLC (`Connecting` needs none but its `.cfg`) |

Definitions whose comment starts with *Faulty* are not part of a
specification: each is a plausible mistake in the definition after it, kept to
show that a property would notice.

**GroupHandler, GroupLobby.** `house[p]` is `group_handler_base::_house` of
peer `p`: `users[n]` is the entry of the user at node `n` (`user_key` compares
nodes only), with the id string as a number that grows with each start of his
program, and his room; `rooms[r]` is the owner of room `r`. `selfRoom` and
`hosted` are the adapter's `_self_user` and `_self_room`. `link[p][q]` is what
`p` has sent to `q`. Each `Receive...` action is `data_received` with one kind
of PDU, from the block check to the callback; `NodeAdded` is `node_added`, which
tells the own user of himself; `OpenRoomSettings`, `AcceptRoomSettings`,
`EnterRoom` and `LeaveRoom` are the updates the GUI sends. `UserUpdate` is
`user_update` followed by the copy in `_recv_user_update`. `missed[p]` is a
history variable: the nodes to which the present state of `p` was not sent. A
room that is announced by a user who is not known has the owner `NoNode`.

**Messenger.** `SendMsg` is `send_msg` up to `wake_target`, `Wake` the rest; the
lock is held between them. `TakeWake`, `CollectMsgs`, `HandleMessage` and
`Return` are the handler (`worker::handle_exception`,
`house_app::_handle_messenger`). The net messenger has `MaxNest = 1`; the GUI
messenger has more, as a handler may show a modal dialog (`at = "modal"`) whose
event loop calls the handler again. `HandlerThrows` deletes the batch and stops
the receiver.

**RoomJoin.** `room`, `joining` are `model::self`; `view[h][p]` is the entry of
`p` in the house model of host `h`, where a reservation is made; `own`, `listed`
and `window` are what `p`'s house model says of himself and of rooms, and his
room window. `net[a, b]` is everything between the program logic of two users,
and from a user back to himself; each of its parts keeps the order. Leaving the
lobby, several groups, the duplicate filter, kicks, launches and dialogs are in
other modules. Qt deletes a window that closes after the message at hand has
been handled; the model deletes it with that message. `crossed` and `reopened`
are history variables: an answer to an earlier join was taken for the present
one (the code does not compare, `house_app.cpp:486` says so), and a window
opened for a room its user had left.

**HttpFetch, ServerlessAdapter, Connecting.** A fetch is the sequence of the
callbacks its handler gets: `AtOnce(start)` of them inside the call that starts
it, one of `Outcomes` later in the reactor. What the bytes say is a choice. The
record `net` is the adapter with the DHT operation under it; its fields are
listed, each with its member variable, at the head of `ServerlessAdapter`. Each
action of the networking thread in `Connecting` is one callback of the reactor
run to its end: `HandleConnect` is `group_adapter_combine::connect` with both
adapters, `Update` the reactor's notification to the DHT operation, `DhtFails`
and `DhtConnects` its state changes, `IpFetchEnds` and `ContactsEnd` the ends of
the two fetches, `GroupEnds` and the `Ctz...` actions the state changes of the
groups. `win` is the house window: `_conn_tries`, `_ctz_disconnected`, timers
that run, what was last heard of the DHT. A join of either group
(`GroupConnect`, `HandleConnect`) changes its state in the call, or throws a
`netcomgrp::exception`, which `group_adapter_base::connect` swallows: the
serverless group then has its client and is not in use (`JoinThrew`). Any other
exception ends the thread. `HelpOff` is `main/no_router_fw_help` of the
configuration, which keeps `CheckDht` from showing its help.
Only those messages to the GUI are kept that it does more with than show them.
The groups, the KadC client, sockets and timers are external.

**HouseModel, HouseViews, HouseMirror.** The group handlers of two groups make
messages (`UpdateMsgs`, `ErasedMsgs` for `user_update` and `user_erased`); the
GUI's `HandleMessage` is one turn of `_handle_messenger`: the model first, then
the views, which are given the new model and look up in the previous one what
has changed, then the previous model. `names` is the map from id strings to
nodes, in which an entry is not replaced, and from which `user_erase` takes a
string whichever node it stands for. `UsersView` is a `multi_feed::user_map`
with its list of users who have no id; `inRoom` is the same for the window of a
room. `UpdateUsers` goes through the users of a room at once rather than one after
the other, as each changes his own item only; of two with one id either may be the
one whose node stays, which no property looks at. The previous model is not updated while the first room window of a host
shows its alert (`outer`), though messages are handled under it. A handler's
step starts when the GUI has handled what the last one sent: what a queue of
messages does is `Messenger`'s subject, here the order within and between the
groups' messages is kept in any case.

**RoomWindow.** The guest's side of a room over several groups, each of which
delivers in order, at its own pace. `HandleMessage` is `_handle_messenger` from
the filter (`_filter_dup`, four numbers a sender) over the model to the windows
(`room::handle_message`, `_handle_room_launch`, `_handle_room_kick`,
`_cond_open_room_window`, `private_message`). `dialogs` are the dialogs that run,
each with what `variable_guard` will put back into `_running_modal`; the dialog
that says that it is too late to join does not set it. `TimerFires` is the
launch five seconds after the command. Numbers of a sender come from one
counter (`model::self`), and an answer to a join keeps the number of the
request, so that it is one of the guest's numbers under the host's name
(`Request`). The launcher is external: a start may fail.

**Startup.** `stack` is the event loops that run, the innermost last; a loop
that a message box runs keeps the messages its handler had collected (`rest`).
`Collect` takes any non-empty prefix of what was sent, as the sender may be in
the middle of a step. `WorkerHandles` is `worker::handle_message` for login,
register, version, ignore list, connect and blocked users; `ServiceFetchEnds`
and `AskFetchEnds` are the callbacks of the clients. `CloseBox` is the return
of a message box and the rest of the handler that showed it; `LoginClicked`,
`RegisterClicked`, `RegisterEnds`, `StartGoesOn` follow `login.cpp`,
`register_user.cpp` and `house_app::start`. Addresses are what they are after
the masking of `ip_block::store`.

**Histories.** The variables called `past` (and `missed`, `crossed`, `reopened`
in the older modules) never appear in a guard except to bound the instance.
They say which of the situations happened in which the code is known to do
otherwise; section 3 lists them. No property is guarded by more than it needs:
each guard was found by a run that failed without it.

## 3. The runs

| run | bounds | checked |
|---|---|---|
| `lobby` | 2 peers, 1 room, 1 fault, users act with no PDU on their links | `TypeOK`, `BlockedGone`, `UpToDate`, `AttachedRoomCloses`, `IdNeverRegresses`, `RequestAnswered` |
| `net_messenger` | 2 senders, pipe of 2, 5 messages | `TypeOK`, `NoLostWake`, `InOrder`, `ImplementsMailbox`, `HandledInTheEnd` |
| `gui_messenger` | 2 senders, 4 messages, 3 nested loops | `HandledOnce`, `NothingLeftBehind` |
| `room_join` | 1 host with a password, 2 players, 1 free seat, 2 joins each, 1 interrupt, 1 further update | `TypeOK`, `NotOverfull`, `SeatsAgree`, `WindowShowsRoom` |
| `room_join_live` | the same without the further update, no symmetry | `JoinEnds` |
| `connecting` | 2 tries (5 in the code), 2 losses of the DHT, 1 of each group, at most 1 message to the GUI when the network does something, `HelpOff` FALSE as by default | `TypeOK`, `NoMissedJoin`, `IpFlagHonest`, `UpdateHonest`, `GroupHasClient`, `Reconnects`, `HelpComes` |
| `house_mirror` | 2 peers in one group and 1 in the other, 2 ids, 1 room, 1 message under the alert | `TypeOK`, `Mirrors`, `NamesFound`, `UsersShown`, `RoomsShown`, `PlayersFresh` |
| `room_window` | 2 groups, filter of 2 numbers (4 in the code), 3 numbers of the host and 1 of another, 3 messages in a group, 1 lost node | `TypeOK`, `FilteredOnce`, `NothingLost`, `WindowFollowsRoom`, `PlayingShown` |
| `startup` | 2 pairs of user and password, 3 logins, 1 register, 3 of them together, 2 ignore lists | `TypeOK`, `ValidatedPair`, `IgnoreListApplied`, `AskAnswered` |
| `room_checked` | no faults | finding: `RoomCheckedExists` |
| `join_refused` | 1 join each | finding: `JoinAnswered` |
| `seat_reserved` | 1 join each, 1 further update | finding: `SeatReserved` |

`about` in `PROJECT.json` says of each what it shows.

**Why the bounds are enough.** The lobby's interesting cases are between two
peers: crossing requests and broadcasts come from being announced to each other
while a user acts, a restart needs one fault, and one room is enough to be
hosted, closed and opened by nobody else, as room ids are never used twice. Two
rooms with two faults, and three PDUs a link, were checked on the side and gave
nothing more. `MaxFlight` bounds the acts of the user only, never an answer or
a reception. The net messenger needs more messages than the pipe holds; the GUI
messenger as many messages as loops and one more. One free seat and two players
are the smallest race for a seat; two joins of a player and one interrupt let
an answer cross a later join. In `connecting` two tries are the first that
fails and the last that counts, two losses of the DHT are needed for an update
that starts while another is under way, and one message in the queue to the GUI
is enough to be late. In `house_mirror` a user needs two nodes of one group to
be there twice, and one of another to be merged. In `room_window` the filter
must forget: one number more than it holds; the code's four differ in the number
of steps only. In `startup` three logins let the error of the first cross the
second, and an answer of the second the third. Symmetry is used in runs without
liveness only, where all elements of the permuted sets are alike.

**What the conditions mean.** A property that leaves out a situation does so
because the code fails there, or promises nothing; the runs reach all of them.

* `UpToDate` speaks of peers to whom the present state was sent (`missed`);
  `RequestAnswered`, after a fault, of requests under way only: a peer that
  restarts before its absence was noticed is known again after a refresh.
* `NotOverfull`, `SeatsAgree`, `WindowShowsRoom`: `crossed`, `reopened`, a
  further update.
* `NoMissedJoin`: a group whose join threw has the client and is told to join
  again by the next connect, or when the DHT or the address comes anew; one that
  has ended while both were there waits likewise, for as long as both stay there
  (`left`). `IpFlagHonest`: a fetch that ended inside its own call leaves the flag
  set (`atOnce`, until the flag is cleared). `UpdateHonest`: so does an update
  whose start throws (`threw`, as long as this flag is set); and one that waits for
  the reactor may delete a client that connects (`cutOff`, until no update is
  under way). `GroupHasClient`: the DHT was lost, or its client deleted, under a
  group in use (`orphaned`, until the DHT is connected). So each of the four
  holds again once the failure it leaves out is over. `Reconnects`: the report
  that the server is unreachable, when it comes after the loss, clears the flag
  the retry looks at, and a join of the server's group that throws says nothing
  (`unsaid`). `HelpComes`: the configuration may turn the help off (`HelpOff`).
* `NamesFound` (that a user is found by his id), `UsersShown`: ids that two nodes
  of a group have had at a time (`twins`). That who is found has the id holds for
  twins too. `RoomsShown` (that a room with players is listed), `PlayersFresh`:
  what was handled under the alert (`under`). `PlayersFresh`: rooms whose players
  changed by news of a group that does not list the room (`uncounted`).
* `FilteredOnce`: a group that lags by as many numbers as the filter holds; and
  the message that shares its number with the answer to the join, as the answer
  puts its number into the filter before its turn, from where it goes before
  its turn: with three numbers a group that lags by one is enough. The proof
  found this, the run's bounds are too small for it.
  `NothingLost`: the same message. `WindowFollowsRoom`: a close that was refused because of a dialog
  (`refused`). `PlayingShown`: the timer launched the game while a launch was
  shown (`again`): then a launch may be shown to a status that does not say so,
  but never the other way round.
* `ValidatedPair`: a second login was sent before the first was answered
  (`crossed`), which a second error of the first makes possible. Names are equal
  or different in the model; the code compares them without regard to case
  (`login_manager_rvzt.cpp:120`), so that names that differ in case only are one
  name of the model.

**Deadlock** is not checked: users need not do anything, senders run out of
messages, programs end, and a full notification pipe does stop both threads.

**Fairness.** Weak fairness of reception in the lobby: the reactor of a running
program delivers what has arrived, and the group announces the nodes it found.
Weak fairness of the waking sender and of the receiving loop in the messenger:
both are running threads. Nobody has to close a dialog, to restart a program,
to leave or to interrupt. `HandledInTheEnd` assumes that the pipe is not full
for good: `ACE_Reactor::notify` blocks when it is, with the lock of the queue
held, and the receiver then waits for this lock in `collect_msgs`. In
`Connecting` the loops of both threads and the timers of the window are weakly
fair; nothing that the network or the user does is, so that a fetch may stay
open and a group may never be joined. `HouseMirror`, `RoomWindow` and `Startup`
state no fairness and are checked for safety only.

## 4. What the checks found

* `room_checked`: `user_update` reads through `room_end` when a user leaves a
  room the receiver has not listed (`group_handler_base.cpp:593-594`).
* `join_refused`: the refusal of a user who hosts no room gets lost between his
  two threads, as `worker::handle_message` has no case for `room_join_nack`;
  the joiner waits until he interrupts.
* `seat_reserved`: any update sent by a player who waits for the answer, for
  instance the answer to a refresh of somebody, overwrites his reservation.

More is visible in the conditions above, where no document of the repository
says otherwise than the code:

* An answer to an interrupted join is taken for the next one, which lets a
  player into a room that has not answered or leaves his seat reserved; and a
  room window can open again for a user who has just left.
* Every connect, those of the retries too, starts the count of DHT tries anew
  (`group_adapter_serverless.cpp:86`), so that a later loss may start a second
  update, or none.
* The DHT client may be deleted under a group that was handed it.
* A join of the serverless group that throws is swallowed, and nothing tries it
  again by itself: it takes a connect, or the DHT or the address coming anew.
* The report of an unreachable server cancels the retry of the loss before it.
* The close of a room window that was refused because of a dialog is not tried
  again, and the dialog that says that it is too late does not refuse it.
* The launch timer starts the game a second time, and the end of the first
  dialog says that the user no longer plays.
* A login that failed is told twice, and the second telling may enable the
  window while the next login is under way: the window then keeps the password
  of one login and the name of the other.

## 5. What is proved

For every value of the constants, from the named assumptions on them only:

* `GroupLobby_proofs`: `TypeCorrect` (`TypeOK`), `BlockedStayGone`
  (`BlockedGone`), `RoomsCloseWithOwner` (`AttachedRoomCloses`) and
  `IdsNeverRegress` (`IdNeverRegresses`), for any number of peers, rooms, faults
  and PDUs. The lemmas are about the operators of `GroupHandler`: each returns
  a house and changes the entries it should. `BlockedGone` is inductive
  together with the type, because every action that enters a user looks at the
  list first and blocking removes him in the same step. `AttachedRoomCloses` is
  a property of each step: the only ways in which an owner's entry changes are a
  user update and a removal, and both close his room. `IdNeverRegresses` needs
  to know what is under way: `IdInv` says that the id that is listed, the ids of
  the user PDUs on the link in their order, and the present id of the sender
  grow in this order. A step moves a link (`Moved`: it loses PDUs from the front
  or all of them, and gains the present id at the end) and keeps an entry,
  drops it, or sets it to the first id on the link. A peer's link to itself
  carries the present id only, which holds because a crash empties it.
* `LobbyUpToDate_proofs`: `SentIsListed` (`UpToDate`). `SentInv` says it of links
  with PDUs on them: of a peer who was sent p's state, the last user PDU under
  way from p carries p's present id and room; if there is none, that is what he
  lists; and the room p hosts is listed as p's or its PDU is under way. A step
  takes a link's oldest PDU or adds present state at its end (`Follows`), so the
  first two parts need only that a PDU that is taken becomes the entry, which
  `IdInv` gives, and that listed are those who are announced and not blocked
  (`MemberInv`). The room could be lost in one way: its owner is listed in it and
  an update of his closes it, as he was elsewhere or was started again in between.
  `OwnInv` excludes it: while a peer is in a room he opened, every user PDU and
  entry that names it has his present id, and nothing that follows such a PDU
  names another room. It holds since a room id is generated once
  (`OpenerInv`) and nothing names it before. `DownInv` says that a program that
  does not run was sent nothing and that nobody has something under way to
  himself before the group has announced him.
* `Messenger_proofs`: `TypeCorrect`, `WakeNotLost` (`NoLostWake`) for any depth
  of nested loops; `HandledInOrder` (`InOrder`) and `MessengerImplementsMailbox`
  (`ImplementsMailbox`) for `MaxNest = 1`. `InOrder` is not inductive: `OrderInv`
  adds that what is handled, collected and queued is, put together, everything
  sent, until the receiver has stopped. The refinement maps the mailbox's
  contents to the batch followed by the queue, so that collecting is a stutter;
  it needs that the batch is empty when the handler collects, which `TypeOK` has.
  `HandledOnceHolds` (`HandledOnce`) and `NothingLeftBehindHolds`
  (`NothingLeftBehind`) are for any depth again: messages are numbered as they
  are sent, and `PlaceInv` says that those in the queue are the newest, that
  each other one is handled or in the batch of one loop, once, and in one of the
  two, until the receiver stops.
* `RoomJoin_proofs`: `TypeCorrect`, `WindowShowsRoomHolds` (`WindowShowsRoom`),
  `SeatsAgreeHolds` (`SeatsAgree`) and `NotOverfullHolds` (`NotOverfull`), for any
  numbers of hosts, players, seats, joins, interrupts and updates; that the
  players are finitely many is assumed, for a number of seats to mean
  something. `WindowInv` is about the messages of a player to himself: the newest
  update under way says where he is, and a room he is shown to be in has its
  window unless the room is gone or being removed. `SeatInv` is about each pair
  of player and host, and the two channels between them: the newest join is
  under way once, as a request or as its answer (`Asked`); one that was given up
  is followed by an update, and the newest update says where the player is
  (`Seat`); a seat stays reserved from the answer until it is taken (`Kept`). With
  it, `SizeInv` needs only that the host counts before he reserves.
* `Connecting_proofs`: `TypeCorrect`, `NoJoinIsMissed` (`NoMissedJoin`),
  `IpFlagIsHonest` (`IpFlagHonest`), `UpdateIsHonest` (`UpdateHonest`) and
  `GroupKeepsClient` (`GroupHasClient`), for any numbers of tries, failures and
  messages under way. The lemmas are about the operators of `ServerlessAdapter`,
  one for each function of the adapter: what it does to the join, to the address,
  to the update and to the tries. `JoinInv` says that a group in use has the
  address and a client, which lives while the DHT is connected. With it `Moves`
  says of nearly every function that it misses no join, that is, that what has
  both needs was handed the client, unless it had them and had ended before; and
  that it takes the DHT from no group. The exceptions are what `past` records: the
  loss of the DHT, the end of the group, and an update that deletes a client;
  `Remembered` says when each of these records ends, which is when the
  property holds again without it. `TryInv` says that a
  connect waits for an update only without a file of contacts and before the first
  try: without it the connect after an update could be a third one. For
  `UpdateHonest` it has to be added that a notification under way counts as the
  one fetch, and that the flag is set while there is either (`UpdOk`).
* `HouseMirror_proofs`: `TypeCorrect`, `MirrorsHolds` (`Mirrors`),
  `NamesFoundHolds` (`NamesFound`), `UsersShownHolds` (`UsersShown`),
  `RoomsShownHolds` (`RoomsShown`) and `PlayersFreshHolds` (`PlayersFresh`), for
  any groups, nodes, ids and rooms; that the ids are finitely many is assumed, for
  a number of players to mean something. None of the six is inductive alone.
  `QueueInv` says what each shape of the queue still owes the model: a handler's
  step sends at most that a room goes, that a user left, and his news, and the
  model differs from the handlers in what the queue names and nowhere else. With
  it `ModelInv` can hold at every message: who has an id is found by it, which
  needs that a user is told to have left before his node has another id.
  `ListInv` ties both lists to the model item by item (`ItemInv`): the node that
  feeds an item from a group is the one the model has under its id, and what it
  shows is what its feeds say. For the rooms two things are added: a room is fed
  by each group that has somebody in it (`PeopledShown`), and the previous model
  is the model, or lacks just the message whose handler shows the alert; so the list
  looks for who left in the room he was in. Both end with the first message
  under the alert, which is why `RoomsShown` and `PlayersFresh` leave this out and
  `Mirrors`, `NamesFound` and `UsersShown` do not.
* `RoomWindow_proofs`: `TypeCorrect`, `StatusFollowsLaunch` (`PlayingShown`),
  `WindowClosesWithRoom` (`WindowFollowsRoom`), `DropsOnlyCopies`
  (`NothingLost`) and `HandlesOnce` (`FilteredOnce`), for any number of groups, numbers and dialogs, any size of the
  filter and any number of lost nodes. The dialogs form a stack whose saved flags say
  whether one that counts is below (`DialogsInv`), so that the flag is set
  exactly while one runs; from this `PlayInv` and `WindowInv` follow the launch and the
  refusal to close. For `NothingLost`, `NetInv` says that a sender whose messages
  are under way in a group is known there, as the news that he left it is the
  last of him, and `SeenInv` that every number in the filter was handled or is
  the answer's. For `FilteredOnce`, `CameInv` says that a group brings the
  numbers of a sender in order and leaves none out that was not handled before,
  so that what was handled has no gaps; then the filter holds the latest numbers
  in order, but for the shared one (`FilterInv`), and a copy it does not hold
  lags by its length.
* `Startup_proofs`: `TypeCorrect`, `ListReachesBoth` (`IgnoreListApplied`),
  `KeepsAcceptedPair` (`ValidatedPair`) and `AsksAreAnswered` (`AskAnswered`), for
  any users, addresses, lists and numbers of logins, over any nesting of event
  loops. `IgnoreInv` adds the shape of the stack of loops: when the login window's
  loop ends nothing runs above it, so that no box is dropped whose handler still
  owes the list to the networking thread. `TypeCorrect` needs `CountInv`, that
  what was asked and what is still to be asked together keep to the bound. The
  other two speak of the messages that are not handled yet (`Unheard`), be they
  on their way, collected, or left to a handler that waits below a box; only
  loops that began with none may be dropped (`LoopInv`), so a step adds what it
  says and removes what it handles, and nothing else. `LoginInv` then ties what the
  site is asked, and what it has answered, to the name and the password that the
  login window keeps as long as no login crossed another; `AnsweredInv` says of
  each button that is off where its answer is.

**Only model-checked.** Liveness under fairness (`RequestAnswered`,
`HandledInTheEnd`, `JoinEnds`, `Reconnects`, `HelpComes`) is out of the prover's
reach. Every invariant and every other action or temporal property that a passing
run checks is proved.

## 6. What is not modelled, and what would come next

Not modelled: the reporter client (the worker makes one that does nothing); the
launchers, which are calls of the operating system and DirectPlay; the reading
and writing of configuration and languages, sequential, at start and end;
parsers, conversions and the tools for contact files; the windows for settings
and about, and the limit on the messages a user may send in a time, which share
no state with anything; notifications and sounds; chat commands; what the DHT
finds of other nodes, which the adapter hands to the group unread. Widgets,
layout and texts are left out everywhere.

Next: emptying the house when a group is left, in `GroupLobby`, and the return of
a lost node, in `RoomWindow`.
