------------------------- MODULE ServerlessAdapter -------------------------
(***************************************************************************)
(* What the networking thread keeps to join the serverless group, and what *)
(* its callbacks do to it: networking/impl/group_adapter_serverless.cpp,   *)
(* impl/dht_operation.cpp and impl/kadc/dht_operation.cpp, as operators on *)
(* a record.                                                               *)
(*                                                                         *)
(*   grp     state of the group                      (_sgrp->in_state)     *)
(*   held    the DHT client the group was given, if it has not ended       *)
(*           since: it lives or is deleted                                 *)
(*   dht     state of the DHT client, "none" without (_dht_client)         *)
(*   try     connects of DHT clients tried           (_connect_try)        *)
(*   ip      the external address is known           (_external_ip)        *)
(*   ipConf  what the configuration says of it                             *)
(*   ipFlag  _external_ip_fetching                                         *)
(*   ipOpen  a fetch of the address is open in the reactor                 *)
(*   kad     the file of DHT contacts exists                               *)
(*   upd     _updating_contacts                                            *)
(*   notes   notifications of the reactor for an update                    *)
(*   saves   fetches of the contacts open in the reactor                   *)
(*   after   _connect_after_update                                         *)
(*   ended   the thread has ended: an exception, or exit_now               *)
(*   out     messages to the GUI that it does more with than show them     *)
(*                                                                         *)
(* The group, the DHT client and the reactor are external: start is how    *)
(* the start of a fetch ends, joins whether a join goes through.           *)
(***************************************************************************)
EXTENDS Naturals, HttpFetch

GroupState == {"not_joined", "joining", "joined", "leaving"}
DhtState   == {"none", "disconnected", "connecting", "connected"}
IpConf     == {"unset", "valid", "invalid"}
GuiMessage == {"ctz_joining", "ctz_joined", "ctz_leaving", "ctz_not_joined", "ctz_unreachable",
               "dht_connecting", "dht_connected", "dht_disconnected"}

Adapter == [grp : GroupState, held : {"none", "live", "gone"}, dht : DhtState,
            try : 0..2, ip : BOOLEAN, ipConf : IpConf, ipFlag : BOOLEAN,
            ipOpen : BOOLEAN, kad : BOOLEAN, upd : BOOLEAN, notes : Nat,
            saves : Nat, after : BOOLEAN, ended : BOOLEAN, out : Seq(GuiMessage)]

NewAdapter(conf, kad) ==
    [grp |-> "not_joined", held |-> "none", dht |-> "none", try |-> 0,
     ip |-> FALSE, ipConf |-> conf, ipFlag |-> FALSE, ipOpen |-> FALSE,
     kad |-> kad, upd |-> FALSE, notes |-> 0, saves |-> 0,
     after |-> FALSE, ended |-> FALSE, out |-> <<>>]

Told(a, m) == [a EXCEPT !.out = Append(@, m)]

-----------------------------------------------------------------------------
(* kadc::dht_operation *)

\* Faulty: an update that is under way does not stop another.
UpdateContacts_Again(a) == [a EXCEPT !.upd = TRUE, !.notes = @ + 1]

\* The update itself waits for the reactor: the client cannot be deleted here.
UpdateContacts(a) ==
    IF a.upd THEN a ELSE [a EXCEPT !.upd = TRUE, !.notes = @ + 1]

DeleteClient(a) ==
    [a EXCEPT !.dht = "none", !.held = IF @ = "live" THEN "gone" ELSE @]

\* prepare_connect returns 0: it creates a client or gets its contacts.
Proceeds(a) == a.dht \in {"none", "disconnected"}

\* dht_ready_to_connect, with the state change of the client it connects.
ReadyToConnect(a) ==
    Told([a EXCEPT !.dht = "connecting", !.try = @ + 1], "dht_connecting")

PrepareConnect(a) ==
    LET b == IF a.dht = "disconnected" THEN DeleteClient(a) ELSE a
    IN IF b.dht # "none" THEN b
       ELSE IF b.kad THEN ReadyToConnect(b)
       ELSE UpdateContacts([b EXCEPT !.after = TRUE])

-----------------------------------------------------------------------------
(* group_adapter_serverless *)

\* group_adapter_base::connect: what the join throws is caught, and said nowhere.
GroupConnect(a, joins) ==
    IF a.grp = "not_joined" /\ joins THEN [a EXCEPT !.grp = "joining"] ELSE a

ReadyToJoin(a) == a.dht = "connected" /\ a.ip

\* Faulty: a group in use is not handed the client.
CondGroupJoin_Once(a, joins) ==
    IF ReadyToJoin(a) /\ a.grp = "not_joined"
    THEN GroupConnect([a EXCEPT !.held = "live"], joins) ELSE a

\* _cond_group_join: the group is handed the client even when it is joined.
CondGroupJoin(a, joins) ==
    IF ReadyToJoin(a) THEN GroupConnect([a EXCEPT !.held = "live"], joins) ELSE a

\* Faulty: the flag stays set when a fetch ends.
IpClosed_KeepsFlag(a) == a

\* handle_close
IpClosed(a) == [a EXCEPT !.ipFlag = FALSE]

\* _external_ip_fetch.  The flag is set when the call has returned, also when
\* the fetch has ended in it.
ExternalIpFetch(a, start) ==
    IF a.ip \/ a.ipFlag THEN a
    ELSE IF a.ipConf = "valid" THEN [a EXCEPT !.ip = TRUE]
    ELSE IF a.ipConf = "invalid" THEN [a EXCEPT !.ended = TRUE]
    ELSE IF start = "throws" THEN a
    ELSE LET b == IF Has(AtOnce(start), "close") THEN IpClosed(a) ELSE a
         IN [b EXCEPT !.ipFlag = TRUE, !.ipOpen = start = "opened"]

\* _connect: join if it can be, or get the DHT and the address that it needs.
TryConnect(a, start, joins) ==
    IF Proceeds(a) THEN ExternalIpFetch(PrepareConnect(a), start)
    ELSE CondGroupJoin(a, joins)

\* Faulty: the tries are not counted anew.
AdapterConnect_KeepsTries(a, start, joins) ==
    IF a.grp # "not_joined" THEN a ELSE TryConnect(a, start, joins)

\* connect
AdapterConnect(a, start, joins) ==
    IF a.grp # "not_joined" THEN a ELSE TryConnect([a EXCEPT !.try = 0], start, joins)

\* disconnect: leave, or see that an update does not connect.  The DHT stays.
AdapterDisconnect(a) ==
    LET b == [a EXCEPT !.try = 0]
    IN IF b.grp = "not_joined" THEN [b EXCEPT !.after = FALSE]
       ELSE [b EXCEPT !.grp = "leaving"]

\* What the address site answered: an address, one that is none, no address.
IpFound == {"address", "bad_address", "nothing"}

\* handle_response, handle_error and handle_close of the address fetch.
IpFetched(a, cbs, found, joins) ==
    LET b == IF ~Has(cbs, "response") THEN a
             ELSE IF found = "address" THEN CondGroupJoin([a EXCEPT !.ip = TRUE], joins)
             ELSE IF found = "bad_address" THEN [a EXCEPT !.ended = TRUE]
             ELSE CondGroupJoin(a, joins)
    IN IpClosed([b EXCEPT !.ipOpen = FALSE])

\* group_state_changed, after the message to the GUI
GroupChanged(a, s) ==
    LET b == [a EXCEPT !.grp = s,
                       !.held = IF s = "not_joined" THEN "none" ELSE @]
    IN IF s = "not_joined" THEN AdapterDisconnect(b) ELSE b

\* Faulty: the group does not learn that the DHT is there.
DhtChanged_NoJoin(a, s, joins) ==
    Told([a EXCEPT !.dht = s],
         IF s = "connected" THEN "dht_connected" ELSE "dht_disconnected")

\* Faulty: a loss that is followed by an update is not told.
DhtChanged_Untold(a, s, joins) ==
    LET b == [a EXCEPT !.dht = s]
    IN IF s = "connected" THEN CondGroupJoin(Told(b, "dht_connected"), joins)
       ELSE IF b.try = 1 THEN UpdateContacts(b) ELSE Told(b, "dht_disconnected")

\* state_changed: first the message to the GUI, then the adapter.
DhtChanged(a, s, joins) ==
    LET b == [a EXCEPT !.dht = s]
    IN IF s = "connected" THEN CondGroupJoin(Told(b, "dht_connected"), joins)
       ELSE LET c == Told(b, "dht_disconnected")
            IN IF c.try = 1 THEN UpdateContacts(c) ELSE c

\* dht_update_server_nodes_done
UpdateServerNodesDone(a, ok, start, joins) ==
    IF ok /\ a.try = 1 THEN TryConnect(a, start, joins) ELSE a

-----------------------------------------------------------------------------
(* kadc::dht_operation: the update of the contacts *)

\* saver_done.  The file is written in any case, and deleted when there were
\* no contacts in the answer.
SaverDone(a, status, contacts, start, joins) ==
    LET b == [a EXCEPT !.upd = FALSE]
        done(c, ok) == UpdateServerNodesDone(c, ok, start, joins)
    IN IF status = "error" THEN done(b, FALSE)
       ELSE IF ~contacts THEN done([b EXCEPT !.kad = FALSE], FALSE)
       ELSE LET c == done([b EXCEPT !.kad = TRUE], TRUE)
            IN IF c.after THEN [PrepareConnect(c) EXCEPT !.after = FALSE] ELSE c

\* A fetch may report its error twice.
SaverTold(a, told, contacts, start, joins) ==
    LET b == SaverDone(a, told[1], contacts, start, joins)
    IN IF Len(told) = 2 THEN SaverDone(b, told[2], contacts, start, joins) ELSE b

\* A fetch of the contacts ends in the reactor.
ContactsFetched(a, cbs, saved, contacts, start, joins) ==
    SaverTold([a EXCEPT !.saves = @ - 1], Notified(cbs, saved), contacts, start, joins)

\* handle_exception: the client goes, in whatever state it is, and the fetch
\* of the contacts starts.  One that throws leaves _updating_contacts set.
StartUpdate(a, begin) ==
    LET b == [a EXCEPT !.notes = @ - 1]
        c == [DeleteClient(b) EXCEPT !.upd = Proceeds(b)]
    IN IF ~a.upd THEN b
       ELSE IF begin = "throws" THEN c
       ELSE IF begin = "opened" THEN [c EXCEPT !.saves = @ + 1]
       ELSE SaverTold(c, Notified(AtOnce(begin), "not_saved"), FALSE, "throws", FALSE)
=============================================================================
