----------------------------- MODULE Connecting -----------------------------
(***************************************************************************)
(* Getting connected and staying so: the house window that asks for it and *)
(* retries (gui/window/house.cpp), the two adapters it goes to             *)
(* (networking/impl/group_adapter_combine.cpp), and what the network does. *)
(*                                                                         *)
(* The GUI thread and the networking thread talk through the messengers,   *)
(* here two queues.  In the networking thread a callback runs to its end   *)
(* before the next one starts, and so does a message in the GUI thread.    *)
(***************************************************************************)
EXTENDS ServerlessAdapter

CONSTANTS MaxTries,    \* tries after which the window gives up: 5 in the code
          MaxGuiQueue, \* messages to the GUI under way when something new happens
          MaxDhtFails, \* times the DHT does not connect or is lost
          MaxGrpDrops, \* times the serverless group is not joined or is lost
          MaxCtzDrops, \* times the connection to the server is lost
          HelpOff      \* main/no_router_fw_help of the configuration, no by default

ASSUME ConnectingAssumption ==
    /\ MaxTries \in Nat
    /\ MaxGuiQueue \in Nat
    /\ MaxDhtFails \in Nat
    /\ MaxGrpDrops \in Nat
    /\ MaxCtzDrops \in Nat
    /\ HelpOff \in BOOLEAN

VARIABLES
    net,     \* the serverless adapter and what is under it
    ctz,     \* state of the centralized group
    toNet,   \* messages to the networking thread
    win,     \* the house window
    fails,   \* history: failures of the network so far, for the bounds
    past     \* history: what has happened to the adapter, for the properties

vars == <<net, ctz, toNet, win, fails, past>>

\*   tries   _conn_tries                     lost    _ctz_disconnected
\*   timers  timers of reconnect()           last    _last_dht_status_message_id
\*   checks  timers of dht_disconnected()    shown   _router_fw_help_showed
\*   open    the program has not been quit
Window == [tries : Nat, lost : BOOLEAN, timers : Nat, last : GuiMessage \cup {"none"},
           checks : Nat, shown : BOOLEAN, open : BOOLEAN]

\*   left      the serverless group has ended while it had what a join needs,
\*             and has it still
\*   orphaned  the DHT was lost, or deleted, under a group in use, and is not back
\*   threw     the start of the update that is said to be under way threw
\*   atOnce    the fetch of the address that is said to be under way ended
\*             inside its own call
\*   cutOff    an update deleted a client that was connecting or connected, and
\*             there has been an update under way ever since
\*   unsaid    the last the GUI heard of the server was not that it is lost
Past == [left : BOOLEAN, orphaned : BOOLEAN, threw : BOOLEAN,
         atOnce : BOOLEAN, cutOff : BOOLEAN, unsaid : BOOLEAN]

\* house_app::start, with auto_connect: the first connect is under way.
Init == /\ \E c \in IpConf, k \in BOOLEAN : net = NewAdapter(c, k)
        /\ ctz = "not_joined"
        /\ toNet = <<"connect">>
        /\ win = [tries |-> 1, lost |-> FALSE, timers |-> 0, last |-> "none",
                  checks |-> 0, shown |-> FALSE, open |-> TRUE]
        /\ fails = [dht |-> 0, grp |-> 0, ctz |-> 0]
        /\ past = [left |-> FALSE, orphaned |-> FALSE, threw |-> FALSE,
                   atOnce |-> FALSE, cutOff |-> FALSE, unsaid |-> FALSE]

Running == ~net.ended
Room    == Running /\ Len(net.out) < MaxGuiQueue

-----------------------------------------------------------------------------
(* The house window. *)

\* Faulty: a loss starts no timer.
Seen_GivesUp(w, m) ==
    IF m = "ctz_not_joined" THEN [w EXCEPT !.lost = TRUE]
    ELSE IF m = "ctz_joined" THEN [w EXCEPT !.lost = FALSE, !.tries = 0]
    ELSE [w EXCEPT !.last = m]

\* handle_dht_message and handle_ctz_message
Seen(w, m) ==
    CASE m = "ctz_joined" -> [w EXCEPT !.lost = FALSE, !.tries = 0]
      [] m = "ctz_not_joined" ->
            [w EXCEPT !.lost = TRUE,
                      !.timers = IF w.tries < MaxTries THEN @ + 1 ELSE @]
      [] m \in {"ctz_joining", "ctz_leaving", "ctz_unreachable"} ->
            [w EXCEPT !.lost = FALSE]
      [] m = "dht_disconnected" -> [w EXCEPT !.last = m, !.checks = @ + 1]
      [] m \in {"dht_connecting", "dht_connected"} -> [w EXCEPT !.last = m]

HandleGuiMessage ==
    /\ win.open /\ net.out # <<>>
    /\ win' = Seen(win, Head(net.out))
    /\ net' = [net EXCEPT !.out = Tail(@)]
    /\ UNCHANGED <<ctz, toNet, fails, past>>

\* reconnect(), and net_connect() when the server is still lost
Reconnect ==
    /\ win.open /\ win.timers > 0
    /\ IF win.lost
       THEN /\ win' = [win EXCEPT !.timers = @ - 1, !.tries = @ + 1]
            /\ toNet' = Append(toNet, "connect")
       ELSE /\ win' = [win EXCEPT !.timers = @ - 1]
            /\ UNCHANGED toNet
    /\ UNCHANGED <<net, ctz, fails, past>>

\* dht_disconnected(): help, once, if the DHT is still disconnected and the
\* configuration does not say no
CheckDht ==
    /\ win.open /\ win.checks > 0
    /\ win' = [win EXCEPT !.checks = @ - 1,
                          !.shown = @ \/ (win.last = "dht_disconnected" /\ ~HelpOff)]
    /\ UNCHANGED <<net, ctz, toNet, fails, past>>

\* house_app::~house_app
Quit ==
    /\ win.open
    /\ win' = [win EXCEPT !.open = FALSE, !.timers = 0, !.checks = 0]
    /\ toNet' = toNet \o <<"disconnect", "exit_now">>
    /\ UNCHANGED <<net, ctz, fails, past>>

-----------------------------------------------------------------------------
(* The networking thread: what it does becomes net'. *)

InUse(a) == a.grp # "not_joined"

\* The fetch of the address that start is about was made, and has ended.
EndedAtOnce(b, start) == b.ipFlag /\ ~net.ipFlag /\ start # "opened"

\* The group was handed the client and is not in use: its join threw.
JoinThrew(a) == a.held = "live" /\ ~InUse(a)

Becomes(b, p) ==
    /\ net' = b
    /\ past' = [p EXCEPT !.left     = ReadyToJoin(b) /\ ~InUse(b) /\ (@ \/ InUse(net)),
                         !.orphaned = InUse(b) /\ b.dht # "connected" /\ @,
                         !.threw    = b.upd /\ @,
                         !.atOnce   = b.ipFlag /\ @,
                         !.cutOff   = b.saves + b.notes > 0 /\ @]

\* group_adapter_combine::connect.  The join of the centralized group says
\* that it is joining, or throws and says nothing.
HandleConnect ==
    /\ Running /\ toNet # <<>> /\ Head(toNet) = "connect"
    /\ toNet' = Tail(toNet)
    /\ \E ctzJoins, joins \in BOOLEAN, start \in Starts :
         LET told == ctz = "not_joined" /\ ctzJoins
             a == IF told THEN Told(net, "ctz_joining") ELSE net
             b == AdapterConnect(a, start, joins)
         IN /\ ctz' = IF told THEN "joining" ELSE ctz
            /\ Becomes(b, [past EXCEPT !.atOnce = @ \/ EndedAtOnce(b, start),
                                       !.unsaid = @ \/ (ctz = "not_joined" /\ ~ctzJoins)])
    /\ UNCHANGED <<win, fails>>

HandleDisconnect ==
    /\ Running /\ toNet # <<>> /\ Head(toNet) = "disconnect"
    /\ toNet' = Tail(toNet)
    /\ ctz' = IF ctz \in {"joining", "joined"} THEN "leaving" ELSE ctz
    /\ LET a == IF ctz' # ctz THEN Told(net, "ctz_leaving") ELSE net
       IN Becomes(AdapterDisconnect(a), past)
    /\ UNCHANGED <<win, fails>>

HandleExit ==
    /\ Running /\ toNet # <<>> /\ Head(toNet) = "exit_now"
    /\ toNet' = Tail(toNet)
    /\ Becomes([net EXCEPT !.ended = TRUE], past)
    /\ UNCHANGED <<ctz, win, fails>>

\* dht_operation::handle_exception
Update ==
    /\ Running /\ net.notes > 0
    /\ \E begin \in Starts :
         Becomes(StartUpdate(net, begin),
                 [past EXCEPT !.threw = @ \/ (net.upd /\ begin = "throws"),
                              !.cutOff = @ \/ (net.upd /\ ~Proceeds(net)),
                              !.orphaned = @ \/ (net.upd /\ ~Proceeds(net))])
    /\ UNCHANGED <<ctz, toNet, win, fails>>

-----------------------------------------------------------------------------
(* The network. *)

DhtConnects ==
    /\ Room /\ net.dht = "connecting"
    /\ \E joins \in BOOLEAN : Becomes(DhtChanged(net, "connected", joins), past)
    /\ UNCHANGED <<ctz, toNet, win, fails>>

DhtFails ==
    /\ Room /\ net.dht \in {"connecting", "connected"}
    /\ fails.dht < MaxDhtFails
    /\ fails' = [fails EXCEPT !.dht = @ + 1]
    /\ Becomes(DhtChanged(net, "disconnected", FALSE),
               [past EXCEPT !.orphaned = @ \/ InUse(net)])
    /\ UNCHANGED <<ctz, toNet, win>>

IpFetchEnds ==
    /\ Running /\ net.ipOpen
    /\ \E cbs \in Outcomes, found \in IpFound, joins \in BOOLEAN :
         Becomes(IpFetched(net, cbs, found, joins), past)
    /\ UNCHANGED <<ctz, toNet, win, fails>>

ContactsEnd ==
    /\ Room /\ net.saves > 0
    /\ \E cbs \in Outcomes, saved \in Saved, contacts, joins \in BOOLEAN, start \in Starts :
         LET b == ContactsFetched(net, cbs, saved, contacts, start, joins)
         IN Becomes(b, [past EXCEPT !.atOnce = @ \/ EndedAtOnce(b, start)])
    /\ UNCHANGED <<ctz, toNet, win, fails>>

GroupJoins ==
    /\ Running /\ net.grp = "joining"
    /\ Becomes(GroupChanged(net, "joined"), past)
    /\ UNCHANGED <<ctz, toNet, win, fails>>

GroupEnds ==
    /\ Running /\ InUse(net)
    /\ \/ net.grp = "leaving" /\ UNCHANGED fails
       \/ /\ net.grp # "leaving" /\ fails.grp < MaxGrpDrops
          /\ fails' = [fails EXCEPT !.grp = @ + 1]
    /\ Becomes(GroupChanged(net, "not_joined"), past)
    /\ UNCHANGED <<ctz, toNet, win>>

CtzJoins ==
    /\ Room /\ ctz = "joining"
    /\ ctz' = "joined"
    /\ Becomes(Told(net, "ctz_joined"), past)
    /\ UNCHANGED <<toNet, win, fails>>

\* The server does not answer: group_error and the change of state, in an
\* order that is the library's.
CtzFails ==
    /\ Room /\ ctz = "joining"
    /\ ctz' = "not_joined"
    /\ \/ Becomes(Told(Told(net, "ctz_unreachable"), "ctz_not_joined"),
                  [past EXCEPT !.unsaid = FALSE])
       \/ Becomes(Told(Told(net, "ctz_not_joined"), "ctz_unreachable"),
                  [past EXCEPT !.unsaid = TRUE])
    /\ UNCHANGED <<toNet, win, fails>>

CtzEnds ==
    /\ Room /\ ctz \in {"joined", "leaving"}
    /\ \/ ctz = "leaving" /\ UNCHANGED fails
       \/ /\ ctz = "joined" /\ fails.ctz < MaxCtzDrops
          /\ fails' = [fails EXCEPT !.ctz = @ + 1]
    /\ ctz' = "not_joined"
    /\ Becomes(Told(net, "ctz_not_joined"), [past EXCEPT !.unsaid = FALSE])
    /\ UNCHANGED <<toNet, win>>

Next == \/ HandleGuiMessage \/ Reconnect \/ CheckDht \/ Quit
        \/ HandleConnect \/ HandleDisconnect \/ HandleExit \/ Update
        \/ DhtConnects \/ DhtFails \/ IpFetchEnds \/ ContactsEnd
        \/ GroupJoins \/ GroupEnds \/ CtzJoins \/ CtzFails \/ CtzEnds

\* Both threads run their loops and timers fire; what the network does, and
\* whether the program is quit, is nobody's duty.
Fairness == /\ WF_vars(HandleGuiMessage) /\ WF_vars(Reconnect) /\ WF_vars(CheckDht)
            /\ WF_vars(HandleConnect) /\ WF_vars(HandleDisconnect)
            /\ WF_vars(HandleExit) /\ WF_vars(Update)

Spec == Init /\ [][Next]_vars /\ Fairness

-----------------------------------------------------------------------------

TypeOK ==
    /\ net \in Adapter
    /\ ctz \in GroupState
    /\ toNet \in Seq({"connect", "disconnect", "exit_now"})
    /\ win \in Window
    /\ fails \in [dht : 0..MaxDhtFails, grp : 0..MaxGrpDrops, ctz : 0..MaxCtzDrops]
    /\ past \in Past

\* Whichever comes last, the DHT or the address, the group is handed the client
\* and told to join then, over any losses and updates before: with both there
\* it is in use, its join threw, or it has ended after both were there
\* (_cond_group_join, its callers, and group_adapter_base::connect, which
\* swallows what the join throws).
NoMissedJoin ==
    ReadyToJoin(net) /\ Running => InUse(net) \/ JoinThrew(net) \/ past.left

\* While the address is said to be fetched there is a fetch that will say so
\* when it ends, unless this one has ended inside its own call
\* (_external_ip_fetching).
IpFlagHonest == net.ipFlag /\ Running => net.ipOpen \/ past.atOnce

\* _updating_contacts tells the truth: while it is set the update is to come or
\* its fetch is open, unless its start threw; and there is one update at a time,
\* which it tells of, unless one deleted a client that was connecting and none
\* has been over since (kadc/dht_operation.cpp update_contacts, saver_done).
UpdateHonest ==
    /\ net.upd => net.notes > 0 \/ net.saves > 0 \/ past.threw
    /\ past.cutOff \/ (net.saves + net.notes <= 1 /\ (net.saves > 0 => net.upd))

\* A group in use has a client that lives, unless the DHT was lost or deleted
\* under it and is not back (_cond_group_join, delete_client).
GroupHasClient == InUse(net) /\ net.held = "gone" => past.orphaned

\* Lost servers are connected to again, as long as the window has tries left
\* and was told of the loss.
Reconnects ==
    (ctz = "not_joined") ~> (\/ ctz # "not_joined" \/ win.tries >= MaxTries
                            \/ ~win.open \/ net.ended \/ past.unsaid)

\* When the DHT is lost it is connected again, or help is shown, where the
\* configuration has not turned it off.
HelpComes ==
    (net.dht = "disconnected") ~> (\/ net.dht \in {"connecting", "connected"}
                                  \/ win.shown \/ HelpOff \/ ~win.open)
=============================================================================
