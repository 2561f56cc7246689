------------------------- MODULE Connecting_proofs -------------------------
(***************************************************************************)
(* Theorems of Connecting, for any number of tries, failures and messages  *)
(* under way.                                                              *)
(*                                                                         *)
(* What an operation of the adapter does is said of four groups of its     *)
(* fields: those of the join, of the address, of the update, and of the    *)
(* tries.                                                                  *)
(***************************************************************************)
EXTENDS Connecting, SequenceTheorems, TLAPS

-----------------------------------------------------------------------------
(* Fields *)

\* A group in use has the address and a client.
HeldInv(a) == InUse(a) => a.ip /\ a.held # "none"

\* With the DHT connected it is the client that lives.
JoinInv(a) ==
    /\ HeldInv(a)
    /\ InUse(a) /\ a.dht = "connected" => a.held = "live"

\* A connect waits for an update only when there was no file of contacts; it
\* has not been tried then.
TryInv(a) == a.after => ~a.kad /\ a.try = 0

Missed(a)    == ReadyToJoin(a) /\ ~InUse(a) /\ ~JoinThrew(a) /\ ~a.ended
Uncovered(a) == InUse(a) /\ a.dht # "connected"

\* No join is missed, and no group loses its DHT.
Moves(a, b) == (Missed(b) => Missed(a)) /\ (Uncovered(b) => Uncovered(a))

SameJoin(a, b) == /\ b.grp = a.grp /\ b.held = a.held /\ b.dht = a.dht
                  /\ b.ip = a.ip /\ b.ended = a.ended
SameIp(a, b)   == b.ipFlag = a.ipFlag /\ b.ipOpen = a.ipOpen
SameUpd(a, b)  == b.upd = a.upd /\ b.notes = a.notes /\ b.saves = a.saves
SameTry(a, b)  == b.try = a.try /\ b.after = a.after /\ b.kad = a.kad

LEMMA SameJoinMoves ==
    ASSUME NEW a, NEW b, SameJoin(a, b)
    PROVE  Moves(a, b) /\ (JoinInv(a) => JoinInv(b))
  BY DEF SameJoin, Moves, Missed, Uncovered, JoinThrew, ReadyToJoin, InUse, JoinInv, HeldInv

LEMMA MovesOn ==
    ASSUME NEW a, NEW b, NEW c, Moves(a, b), Moves(b, c)
    PROVE  Moves(a, c)
  BY DEF Moves

-----------------------------------------------------------------------------
(* kadc::dht_operation *)

LEMMA ToldSays ==
    ASSUME NEW a \in Adapter, NEW m \in GuiMessage
    PROVE  /\ Told(a, m) \in Adapter
           /\ SameJoin(a, Told(a, m)) /\ SameIp(a, Told(a, m))
           /\ SameUpd(a, Told(a, m)) /\ SameTry(a, Told(a, m))
           /\ Told(a, m).ipConf = a.ipConf
  <1>1. Append(a.out, m) \in Seq(GuiMessage)
    BY DEF Adapter
  <1> QED  BY <1>1 DEF Told, Adapter, SameJoin, SameIp, SameUpd, SameTry

LEMMA UpdateContactsSays ==
    ASSUME NEW a \in Adapter, NEW b, b = UpdateContacts(a)
    PROVE  /\ b \in Adapter
           /\ SameJoin(a, b) /\ SameIp(a, b) /\ SameTry(a, b)
           /\ b.saves = a.saves /\ b.upd
           /\ b.notes = IF a.upd THEN a.notes ELSE a.notes + 1
           /\ b.ipConf = a.ipConf
  <1>1. a.upd \in BOOLEAN /\ a.notes + 1 \in Nat
    BY DEF Adapter
  <1>2. CASE a.upd
    BY <1>2 DEF UpdateContacts, SameJoin, SameIp, SameTry
  <1>3. CASE ~a.upd
    <2>1. b = [a EXCEPT !.upd = TRUE, !.notes = a.notes + 1]
      BY <1>3 DEF UpdateContacts
    <2> QED  BY <1>1, <1>3, <2>1 DEF Adapter, SameJoin, SameIp, SameTry
  <1> QED  BY <1>2, <1>3

LEMMA DeleteClientSays ==
    ASSUME NEW a \in Adapter, NEW b, b = DeleteClient(a)
    PROVE  /\ b \in Adapter
           /\ SameIp(a, b) /\ SameUpd(a, b) /\ SameTry(a, b)
           /\ b.ipConf = a.ipConf /\ b.dht = "none"
           /\ b.grp = a.grp /\ b.ip = a.ip /\ b.ended = a.ended
           /\ JoinInv(a) => JoinInv(b)
           /\ a.dht # "connected" => Moves(a, b)
  <1>1. /\ b \in Adapter
        /\ SameIp(a, b) /\ SameUpd(a, b) /\ SameTry(a, b)
        /\ b.ipConf = a.ipConf /\ b.dht = "none"
        /\ b.grp = a.grp /\ b.ip = a.ip /\ b.ended = a.ended
        /\ b.held = IF a.held = "live" THEN "gone" ELSE a.held
    <2>1. \E h \in {"none", "live", "gone"} :
             /\ h = (IF a.held = "live" THEN "gone" ELSE a.held)
             /\ b = [a EXCEPT !.dht = "none", !.held = h]
      BY DEF DeleteClient, Adapter
    <2> QED  BY <2>1 DEF Adapter, DhtState, SameIp, SameUpd, SameTry
  <1> QED
    BY <1>1 DEF JoinInv, HeldInv, Moves, Missed, Uncovered, JoinThrew, ReadyToJoin, InUse

LEMMA ReadyToConnectSays ==
    ASSUME NEW a \in Adapter, a.try <= 1, a.dht # "connected", NEW b, b = ReadyToConnect(a)
    PROVE  /\ b \in Adapter
           /\ SameIp(a, b) /\ SameUpd(a, b)
           /\ b.ipConf = a.ipConf /\ b.dht = "connecting"
           /\ b.try = a.try + 1 /\ b.after = a.after /\ b.kad = a.kad
           /\ b.grp = a.grp /\ b.ip = a.ip /\ b.ended = a.ended
           /\ JoinInv(a) => JoinInv(b)
           /\ Moves(a, b)
  <1> DEFINE c == [a EXCEPT !.dht = "connecting", !.try = @ + 1]
  <1>1. /\ c \in Adapter
        /\ SameIp(a, c) /\ SameUpd(a, c)
        /\ c.ipConf = a.ipConf /\ c.dht = "connecting"
        /\ c.try = a.try + 1 /\ c.after = a.after /\ c.kad = a.kad
        /\ c.grp = a.grp /\ c.ip = a.ip /\ c.ended = a.ended /\ c.held = a.held
    <2>1. a.try + 1 \in 0..2
      BY DEF Adapter
    <2>2. c = [a EXCEPT !.dht = "connecting", !.try = a.try + 1]
      OBVIOUS
    <2> HIDE DEF c
    <2> QED  BY <2>1, <2>2 DEF Adapter, DhtState, SameIp, SameUpd
  <1>2. b = Told(c, "dht_connecting") /\ "dht_connecting" \in GuiMessage
    BY DEF ReadyToConnect, GuiMessage
  <1> HIDE DEF c
  <1>3. /\ b \in Adapter
        /\ SameJoin(c, b) /\ SameIp(c, b) /\ SameUpd(c, b) /\ SameTry(c, b)
        /\ b.ipConf = c.ipConf
    BY <1>1, <1>2, ToldSays
  <1>4. /\ SameIp(a, b) /\ SameUpd(a, b)
        /\ b.ipConf = a.ipConf /\ b.dht = "connecting" /\ b.held = a.held
        /\ b.try = a.try + 1 /\ b.after = a.after /\ b.kad = a.kad
        /\ b.grp = a.grp /\ b.ip = a.ip /\ b.ended = a.ended
    BY <1>1, <1>3 DEF SameJoin, SameIp, SameUpd, SameTry
  <1> QED
    BY <1>3, <1>4 DEF JoinInv, HeldInv, Moves, Missed, Uncovered, JoinThrew, ReadyToJoin, InUse

\* It connects a client, or waits for contacts to connect with.
LEMMA PrepareConnectSays ==
    ASSUME NEW a \in Adapter, JoinInv(a), Proceeds(a) /\ a.kad => a.try <= 1,
           NEW b, b = PrepareConnect(a)
    PROVE  /\ b \in Adapter /\ JoinInv(b) /\ Moves(a, b)
           /\ SameIp(a, b) /\ b.ipConf = a.ipConf
           /\ b.grp = a.grp /\ b.ip = a.ip /\ b.ended = a.ended
           /\ b.kad = a.kad /\ b.saves = a.saves
           /\ Proceeds(a) => b.dht \in {"none", "connecting"}
           /\ ~Proceeds(a) => b = a
           /\ Proceeds(a) /\ a.kad => /\ SameUpd(a, b) /\ b.after = a.after
                                      /\ b.dht = "connecting"
           /\ Proceeds(a) /\ ~a.kad =>
                 /\ b.try = a.try /\ b.upd
                 /\ b.notes = IF a.upd THEN a.notes ELSE a.notes + 1
  <1> DEFINE d == IF a.dht = "disconnected" THEN DeleteClient(a) ELSE a
  <1>1. /\ d \in Adapter /\ SameIp(a, d) /\ SameUpd(a, d) /\ SameTry(a, d)
        /\ d.ipConf = a.ipConf /\ d.grp = a.grp /\ d.ip = a.ip /\ d.ended = a.ended
        /\ JoinInv(d) /\ Moves(a, d)
        /\ d.dht = IF a.dht = "disconnected" THEN "none" ELSE a.dht
    <2>1. CASE a.dht = "disconnected"
      BY <2>1, DeleteClientSays
    <2>2. CASE a.dht # "disconnected"
      BY <2>2 DEF SameIp, SameUpd, SameTry, Moves
    <2> QED  BY <2>1, <2>2
  <1>2. b = IF d.dht # "none" THEN d
            ELSE IF d.kad THEN ReadyToConnect(d)
            ELSE UpdateContacts([d EXCEPT !.after = TRUE])
    BY DEF PrepareConnect
  <1> HIDE DEF d
  <1>3. Proceeds(a) <=> d.dht = "none"
    BY <1>1 DEF Proceeds
  <1>4. CASE ~Proceeds(a)
    <2>1. b = d /\ a.dht # "disconnected"
      BY <1>2, <1>3, <1>4 DEF Proceeds
    <2>2. d = a
      BY <2>1 DEF d
    <2> QED  BY <1>1, <1>4, <2>1, <2>2 DEF SameIp
  <1>5. CASE Proceeds(a) /\ a.kad
    <2>1. b = ReadyToConnect(d) /\ d.try <= 1
      BY <1>1, <1>2, <1>3, <1>5 DEF SameTry
    <2>2. /\ b \in Adapter
          /\ SameIp(d, b) /\ SameUpd(d, b)
          /\ b.ipConf = d.ipConf /\ b.dht = "connecting"
          /\ b.try = d.try + 1 /\ b.after = d.after /\ b.kad = d.kad
          /\ b.grp = d.grp /\ b.ip = d.ip /\ b.ended = d.ended
          /\ JoinInv(b) /\ Moves(d, b)
      BY <1>1, <1>3, <1>5, <2>1, ReadyToConnectSays
    <2>3. Moves(a, b)
      BY <1>1, <2>2, MovesOn
    <2> QED  BY <1>1, <1>5, <2>2, <2>3 DEF SameIp, SameUpd, SameTry
  <1>6. CASE Proceeds(a) /\ ~a.kad
    <2> DEFINE e == [d EXCEPT !.after = TRUE]
    <2>1. b = UpdateContacts(e)
      BY <1>1, <1>2, <1>3, <1>6 DEF SameTry
    <2>2. /\ e \in Adapter /\ SameJoin(d, e) /\ SameIp(d, e) /\ SameUpd(d, e)
          /\ e.ipConf = d.ipConf /\ e.try = d.try /\ e.kad = d.kad
      BY <1>1 DEF Adapter, SameJoin, SameIp, SameUpd
    <2> HIDE DEF e
    <2>3. /\ b \in Adapter
          /\ SameJoin(e, b) /\ SameIp(e, b) /\ SameTry(e, b)
          /\ b.saves = e.saves /\ b.upd
          /\ b.notes = IF e.upd THEN e.notes ELSE e.notes + 1
          /\ b.ipConf = e.ipConf
      BY <2>1, <2>2, UpdateContactsSays
    <2>4. JoinInv(b) /\ Moves(a, b)
      BY <1>1, <2>2, <2>3, SameJoinMoves, MovesOn
    <2> QED
      BY <1>1, <1>3, <1>6, <2>2, <2>3, <2>4 DEF SameJoin, SameIp, SameUpd, SameTry
  <1> QED  BY <1>4, <1>5, <1>6

-----------------------------------------------------------------------------
(* group_adapter_serverless *)

\* The join that both needs wait for.
LEMMA CondGroupJoinSays ==
    ASSUME NEW a \in Adapter, HeldInv(a), NEW joins \in BOOLEAN,
           NEW b, b = CondGroupJoin(a, joins)
    PROVE  /\ b \in Adapter /\ JoinInv(b) /\ Moves(a, b) /\ ~Missed(b)
           /\ SameIp(a, b) /\ SameUpd(a, b) /\ SameTry(a, b)
           /\ b.ipConf = a.ipConf /\ b.dht = a.dht /\ b.ip = a.ip /\ b.ended = a.ended
  <1>1. CASE ~ReadyToJoin(a)
    BY <1>1 DEF CondGroupJoin, Moves, Missed, SameIp, SameUpd, SameTry, JoinInv, HeldInv,
                ReadyToJoin
  <1>2. CASE ReadyToJoin(a)
    <2> DEFINE c == [a EXCEPT !.held = "live"]
    <2>1. /\ c \in Adapter /\ SameIp(a, c) /\ SameUpd(a, c) /\ SameTry(a, c)
          /\ c.ipConf = a.ipConf /\ c.dht = a.dht /\ c.ip = a.ip /\ c.ended = a.ended
          /\ c.held = "live" /\ c.grp = a.grp
      BY DEF Adapter, SameIp, SameUpd, SameTry
    <2>2. b = GroupConnect(c, joins)
      BY <1>2 DEF CondGroupJoin
    <2> HIDE DEF c
    <2>3. b = c \/ b = [c EXCEPT !.grp = "joining"]
      BY <2>2 DEF GroupConnect
    <2>4. /\ b \in Adapter /\ SameIp(a, b) /\ SameUpd(a, b) /\ SameTry(a, b)
          /\ b.ipConf = a.ipConf /\ b.dht = a.dht /\ b.ip = a.ip /\ b.ended = a.ended
          /\ b.held = "live"
      BY <2>1, <2>3 DEF Adapter, GroupState, SameIp, SameUpd, SameTry
    <2> QED
      BY <1>2, <2>4 DEF JoinInv, HeldInv, Moves, Missed, Uncovered, JoinThrew, ReadyToJoin
  <1> QED  BY <1>1, <1>2

\* The flag is set, or was, or the fetch is not made.
IpTold(a, b, start) ==
    \/ SameIp(a, b)
    \/ ~a.ipFlag /\ b.ipFlag /\ b.ipOpen = (start = "opened")

LEMMA ExternalIpFetchSays ==
    ASSUME NEW a \in Adapter, JoinInv(a), a.dht # "connected", NEW start \in Starts,
           NEW b, b = ExternalIpFetch(a, start)
    PROVE  /\ b \in Adapter /\ JoinInv(b) /\ Moves(a, b)
           /\ SameUpd(a, b) /\ SameTry(a, b) /\ IpTold(a, b, start)
           /\ b.dht = a.dht /\ b.grp = a.grp
  <1>1. CASE b = a
    BY <1>1 DEF Moves, SameUpd, SameTry, IpTold, SameIp
  <1>2. CASE b = [a EXCEPT !.ip = TRUE] \/ b = [a EXCEPT !.ended = TRUE]
    <2>1. /\ b \in Adapter
          /\ SameIp(a, b) /\ SameUpd(a, b) /\ SameTry(a, b)
          /\ b.dht = a.dht /\ b.grp = a.grp /\ b.held = a.held /\ (a.ip => b.ip)
      BY <1>2 DEF Adapter, SameIp, SameUpd, SameTry
    <2> QED
      BY <2>1 DEF JoinInv, HeldInv, Moves, Missed, Uncovered, JoinThrew, ReadyToJoin, InUse, IpTold
  <1>3. CASE /\ ~a.ipFlag
             /\ \/ b = [a EXCEPT !.ipFlag = TRUE, !.ipOpen = start = "opened"]
                \/ b = [IpClosed(a) EXCEPT !.ipFlag = TRUE, !.ipOpen = start = "opened"]
    <2>1. /\ b \in Adapter
          /\ SameJoin(a, b) /\ SameUpd(a, b) /\ SameTry(a, b)
          /\ b.ipFlag /\ b.ipOpen = (start = "opened")
      BY <1>3 DEF IpClosed, Adapter, SameJoin, SameUpd, SameTry
    <2>2. JoinInv(b) /\ Moves(a, b)
      BY <2>1, SameJoinMoves
    <2> QED  BY <1>3, <2>1, <2>2 DEF IpTold, SameJoin
  <1> QED  BY <1>1, <1>2, <1>3 DEF ExternalIpFetch

LEMMA IpToldOn ==
    ASSUME NEW a, NEW b, NEW c, NEW start, IpTold(a, b, start), IpTold(b, c, start)
    PROVE  IpTold(a, c, start)
  BY DEF IpTold, SameIp

\* With a file of contacts nothing is updated.
LEMMA TryConnectSays ==
    ASSUME NEW a \in Adapter, JoinInv(a), Proceeds(a) /\ a.kad => a.try <= 1,
           NEW start \in Starts, NEW joins \in BOOLEAN,
           NEW b, b = TryConnect(a, start, joins)
    PROVE  /\ b \in Adapter /\ JoinInv(b) /\ Moves(a, b) /\ IpTold(a, b, start)
           /\ b.kad = a.kad /\ b.saves = a.saves
           /\ a.kad => SameUpd(a, b) /\ b.after = a.after
           /\ ~a.kad =>
                 /\ b.try = a.try
                 /\ \/ SameUpd(a, b)
                    \/ b.upd /\ b.notes = IF a.upd THEN a.notes ELSE a.notes + 1
  <1>1. CASE Proceeds(a)
    <2> DEFINE c == PrepareConnect(a)
    <2>1. b = ExternalIpFetch(c, start)
      BY <1>1 DEF TryConnect
    <2>2. /\ c \in Adapter /\ JoinInv(c) /\ Moves(a, c)
          /\ SameIp(a, c) /\ c.kad = a.kad /\ c.saves = a.saves
          /\ c.dht \in {"none", "connecting"}
          /\ a.kad => SameUpd(a, c) /\ c.after = a.after
          /\ ~a.kad => /\ c.try = a.try /\ c.upd
                       /\ c.notes = IF a.upd THEN a.notes ELSE a.notes + 1
      BY <1>1, PrepareConnectSays
    <2> HIDE DEF c
    <2>3. /\ b \in Adapter /\ JoinInv(b) /\ Moves(c, b)
          /\ SameUpd(c, b) /\ SameTry(c, b) /\ IpTold(c, b, start)
      BY <2>1, <2>2, ExternalIpFetchSays
    <2>4. Moves(a, b)
      BY <2>2, <2>3, MovesOn
    <2>5. IpTold(a, b, start)
      BY <2>2, <2>3 DEF IpTold, SameIp
    <2>6. a.kad \in BOOLEAN
      BY DEF Adapter
    <2>7. CASE a.kad
      BY <2>2, <2>3, <2>4, <2>5, <2>7 DEF SameUpd, SameTry
    <2>8. CASE ~a.kad
      BY <2>2, <2>3, <2>4, <2>5, <2>8 DEF SameUpd, SameTry
    <2> QED  BY <2>6, <2>7, <2>8
  <1>2. CASE ~Proceeds(a)
    <2>1. b = CondGroupJoin(a, joins)
      BY <1>2 DEF TryConnect
    <2>2. /\ b \in Adapter /\ JoinInv(b) /\ Moves(a, b)
          /\ SameIp(a, b) /\ SameUpd(a, b) /\ SameTry(a, b)
      BY <2>1, CondGroupJoinSays DEF JoinInv
    <2> QED  BY <2>2 DEF SameUpd, SameTry, IpTold
  <1> QED  BY <1>1, <1>2

LEMMA AdapterConnectSays ==
    ASSUME NEW a \in Adapter, JoinInv(a), TryInv(a), NEW start \in Starts,
           NEW joins \in BOOLEAN, NEW b, b = AdapterConnect(a, start, joins)
    PROVE  /\ b \in Adapter /\ JoinInv(b) /\ TryInv(b) /\ Moves(a, b) /\ IpTold(a, b, start)
           /\ b.saves = a.saves
           /\ \/ SameUpd(a, b)
              \/ b.upd /\ b.notes = IF a.upd THEN a.notes ELSE a.notes + 1
  <1>1. CASE a.grp # "not_joined"
    BY <1>1 DEF AdapterConnect, Moves, IpTold, SameIp, SameUpd
  <1>2. CASE a.grp = "not_joined"
    <2> DEFINE c == [a EXCEPT !.try = 0]
    <2>1. b = TryConnect(c, start, joins)
      BY <1>2 DEF AdapterConnect
    <2>2. /\ c \in Adapter /\ SameJoin(a, c) /\ SameIp(a, c) /\ SameUpd(a, c)
          /\ c.try = 0 /\ c.after = a.after /\ c.kad = a.kad
      BY DEF Adapter, SameJoin, SameIp, SameUpd
    <2> HIDE DEF c
    <2>3. JoinInv(c) /\ Moves(a, c)
      BY <2>2, SameJoinMoves
    <2>4. /\ b \in Adapter /\ JoinInv(b) /\ Moves(c, b) /\ IpTold(c, b, start)
          /\ b.kad = c.kad /\ b.saves = c.saves
          /\ c.kad => SameUpd(c, b) /\ b.after = c.after
          /\ ~c.kad =>
                /\ b.try = c.try
                /\ \/ SameUpd(c, b)
                   \/ b.upd /\ b.notes = IF c.upd THEN c.notes ELSE c.notes + 1
      BY <2>1, <2>2, <2>3, TryConnectSays
    <2>5. Moves(a, b)
      BY <2>3, <2>4, MovesOn
    <2>6. TryInv(b)
      BY <2>2, <2>4 DEF TryInv
    <2>7. IpTold(a, b, start)
      BY <2>2, <2>4 DEF IpTold, SameIp
    <2>8. \/ SameUpd(a, b)
          \/ b.upd /\ b.notes = IF a.upd THEN a.notes ELSE a.notes + 1
      BY <2>2, <2>4 DEF SameUpd
    <2> QED  BY <2>2, <2>4, <2>5, <2>6, <2>7, <2>8 DEF SameUpd
  <1> QED  BY <1>1, <1>2

LEMMA AdapterDisconnectSays ==
    ASSUME NEW a \in Adapter, TryInv(a), NEW b, b = AdapterDisconnect(a)
    PROVE  /\ b \in Adapter /\ TryInv(b) /\ SameIp(a, b) /\ SameUpd(a, b)
           /\ b.held = a.held /\ b.dht = a.dht /\ b.ip = a.ip /\ b.ended = a.ended
           /\ InUse(b) <=> InUse(a)
           /\ Moves(a, b) /\ (JoinInv(a) => JoinInv(b))
  <1>0. 0 \in 0..2 /\ FALSE \in BOOLEAN /\ "leaving" \in GroupState
    BY DEF GroupState
  <1>1. /\ b \in Adapter /\ SameIp(a, b) /\ SameUpd(a, b)
        /\ b.held = a.held /\ b.dht = a.dht /\ b.ip = a.ip /\ b.ended = a.ended
        /\ b.kad = a.kad /\ b.try = 0 /\ (b.after => a.after)
        /\ InUse(b) <=> InUse(a)
    <2>1. CASE a.grp = "not_joined"
      <3>1. b = [a EXCEPT !.try = 0, !.after = FALSE]
        BY <2>1 DEF AdapterDisconnect, Adapter
      <3>2. /\ b \in Adapter /\ SameIp(a, b) /\ SameUpd(a, b)
            /\ b.held = a.held /\ b.dht = a.dht /\ b.ip = a.ip /\ b.ended = a.ended
            /\ b.kad = a.kad /\ b.try = 0 /\ b.after = FALSE /\ b.grp = a.grp
        BY <1>0, <3>1 DEF Adapter, SameIp, SameUpd
      <3> QED  BY <3>2 DEF InUse
    <2>2. CASE a.grp # "not_joined"
      <3>1. b = [a EXCEPT !.try = 0, !.grp = "leaving"]
        BY <2>2 DEF AdapterDisconnect, Adapter
      <3>2. /\ b \in Adapter /\ SameIp(a, b) /\ SameUpd(a, b)
            /\ b.held = a.held /\ b.dht = a.dht /\ b.ip = a.ip /\ b.ended = a.ended
            /\ b.kad = a.kad /\ b.try = 0 /\ b.after = a.after /\ b.grp = "leaving"
        BY <1>0, <3>1 DEF Adapter, SameIp, SameUpd
      <3> QED  BY <2>2, <3>2 DEF InUse
    <2> QED  BY <2>1, <2>2
  <1>2. TryInv(b)
    BY <1>1 DEF TryInv
  <1>3. Moves(a, b) /\ (JoinInv(a) => JoinInv(b))
    BY <1>1 DEF Moves, Missed, Uncovered, JoinThrew, ReadyToJoin, JoinInv, HeldInv
  <1> QED  BY <1>1, <1>2, <1>3

\* The address comes, or does not: the flag is cleared.
LEMMA IpFetchedSays ==
    ASSUME NEW a \in Adapter, JoinInv(a), NEW cbs, NEW found,
           NEW joins \in BOOLEAN, NEW b, b = IpFetched(a, cbs, found, joins)
    PROVE  /\ b \in Adapter /\ JoinInv(b) /\ Moves(a, b)
           /\ SameUpd(a, b) /\ SameTry(a, b) /\ ~b.ipFlag
  <1> DEFINE c == IF ~Has(cbs, "response") THEN a
                  ELSE IF found = "address" THEN CondGroupJoin([a EXCEPT !.ip = TRUE], joins)
                  ELSE IF found = "bad_address" THEN [a EXCEPT !.ended = TRUE]
                  ELSE CondGroupJoin(a, joins)
  <1>1. b = [[c EXCEPT !.ipOpen = FALSE] EXCEPT !.ipFlag = FALSE]
    BY DEF IpFetched, IpClosed
  <1>2. /\ c \in Adapter /\ JoinInv(c) /\ Moves(a, c) /\ SameUpd(a, c) /\ SameTry(a, c)
    <2>1. CASE c = a
      BY <2>1 DEF Moves, SameUpd, SameTry
    <2>2. CASE c = CondGroupJoin([a EXCEPT !.ip = TRUE], joins)
      <3> DEFINE d == [a EXCEPT !.ip = TRUE]
      <3>1. /\ d \in Adapter /\ SameUpd(a, d) /\ SameTry(a, d) /\ d.ip
            /\ d.grp = a.grp /\ d.held = a.held /\ d.dht = a.dht
        BY DEF Adapter, SameUpd, SameTry
      <3> HIDE DEF d
      <3>2. HeldInv(d) /\ (Uncovered(d) => Uncovered(a))
        BY <3>1 DEF JoinInv, HeldInv, InUse, Uncovered
      <3>3. c = CondGroupJoin(d, joins)
        BY <2>2 DEF d
      <3> HIDE DEF c
      <3>4. /\ c \in Adapter /\ JoinInv(c) /\ Moves(d, c) /\ ~Missed(c)
            /\ SameUpd(d, c) /\ SameTry(d, c)
        BY <3>1, <3>2, <3>3, CondGroupJoinSays
      <3> QED  BY <3>1, <3>2, <3>4 DEF Moves, SameUpd, SameTry
    <2>3. CASE c = [a EXCEPT !.ended = TRUE]
      <3> HIDE DEF c
      <3>1. /\ c \in Adapter /\ SameUpd(a, c) /\ SameTry(a, c) /\ c.ended
            /\ c.grp = a.grp /\ c.held = a.held /\ c.dht = a.dht /\ c.ip = a.ip
        BY <2>3 DEF Adapter, SameUpd, SameTry
      <3> QED  BY <3>1 DEF JoinInv, HeldInv, InUse, Uncovered, JoinThrew, Missed, Moves
    <2>4. CASE c = CondGroupJoin(a, joins)
      <3> HIDE DEF c
      <3> QED  BY <2>4, CondGroupJoinSays DEF JoinInv
    <2> QED  BY <2>1, <2>2, <2>3, <2>4
  <1> HIDE DEF c
  <1>3. b \in Adapter /\ SameJoin(c, b) /\ SameUpd(c, b) /\ SameTry(c, b) /\ ~b.ipFlag
    BY <1>1, <1>2 DEF Adapter, SameJoin, SameUpd, SameTry
  <1>4. JoinInv(b) /\ Moves(a, b)
    BY <1>2, <1>3, SameJoinMoves, MovesOn
  <1> QED  BY <1>2, <1>3, <1>4 DEF SameUpd, SameTry

\* A group that ends was in use.
LEMMA GroupChangedSays ==
    ASSUME NEW a \in Adapter, JoinInv(a), TryInv(a), InUse(a),
           NEW s \in {"joined", "not_joined"}, NEW b, b = GroupChanged(a, s)
    PROVE  /\ b \in Adapter /\ JoinInv(b) /\ TryInv(b)
           /\ SameIp(a, b) /\ SameUpd(a, b)
           /\ Uncovered(b) => Uncovered(a)
  <1> DEFINE c == [a EXCEPT !.grp = s, !.held = IF s = "not_joined" THEN "none" ELSE @]
  <1>1. /\ c \in Adapter /\ SameIp(a, c) /\ SameUpd(a, c) /\ SameTry(a, c)
        /\ c.grp = s /\ c.held = (IF s = "not_joined" THEN "none" ELSE a.held)
        /\ c.dht = a.dht /\ c.ip = a.ip /\ c.ended = a.ended
    BY DEF Adapter, GroupState, SameIp, SameUpd, SameTry
  <1>2. b = IF s = "not_joined" THEN AdapterDisconnect(c) ELSE c
    BY DEF GroupChanged
  <1> HIDE DEF c
  <1>3. JoinInv(c) /\ TryInv(c) /\ (Uncovered(c) => Uncovered(a))
    BY <1>1 DEF JoinInv, HeldInv, TryInv, InUse, Uncovered, SameTry
  <1>4. CASE s = "not_joined"
    <2>1. b = AdapterDisconnect(c)
      BY <1>2, <1>4
    <2>2. /\ b \in Adapter /\ TryInv(b) /\ SameIp(c, b) /\ SameUpd(c, b)
          /\ Moves(c, b) /\ JoinInv(b)
      BY <1>1, <1>3, <2>1, AdapterDisconnectSays
    <2> QED  BY <1>1, <1>3, <2>2 DEF Moves, SameIp, SameUpd
  <1>5. CASE s = "joined"
    BY <1>1, <1>2, <1>3, <1>5
  <1> QED  BY <1>4, <1>5

LEMMA DhtChangedSays ==
    ASSUME NEW a \in Adapter, JoinInv(a), TryInv(a),
           NEW s \in {"connected", "disconnected"}, NEW joins \in BOOLEAN,
           NEW b, b = DhtChanged(a, s, joins)
    PROVE  /\ b \in Adapter /\ JoinInv(b) /\ TryInv(b) /\ SameIp(a, b)
           /\ ~Missed(b) /\ b.saves = a.saves
           /\ IF s = "connected" THEN ~Uncovered(b) ELSE Uncovered(b) => InUse(a)
           /\ \/ SameUpd(a, b)
              \/ b.upd /\ b.notes = IF a.upd THEN a.notes ELSE a.notes + 1
  <1> DEFINE c == [a EXCEPT !.dht = s]
             d == Told(c, IF s = "connected" THEN "dht_connected" ELSE "dht_disconnected")
  <1>1. /\ c \in Adapter /\ SameIp(a, c) /\ SameUpd(a, c) /\ SameTry(a, c)
        /\ c.dht = s /\ c.grp = a.grp /\ c.held = a.held /\ c.ip = a.ip
    BY DEF Adapter, DhtState, SameIp, SameUpd, SameTry
  <1>2. b = IF s = "connected" THEN CondGroupJoin(d, joins)
            ELSE IF d.try = 1 THEN UpdateContacts(d) ELSE d
    BY DEF DhtChanged
  <1>3. \E m \in GuiMessage : d = Told(c, m)
    BY DEF GuiMessage
  <1> HIDE DEF c, d
  <1>4. /\ d \in Adapter /\ SameJoin(c, d) /\ SameIp(c, d) /\ SameUpd(c, d) /\ SameTry(c, d)
    BY <1>1, <1>3, ToldSays
  <1>5. /\ SameIp(a, d) /\ SameUpd(a, d) /\ SameTry(a, d)
        /\ d.dht = s /\ d.grp = a.grp /\ d.held = a.held /\ d.ip = a.ip
    BY <1>1, <1>4 DEF SameJoin, SameIp, SameUpd, SameTry
  <1>6. HeldInv(d) /\ TryInv(d) /\ (s = "disconnected" => JoinInv(d))
    BY <1>5 DEF HeldInv, JoinInv, TryInv, InUse, SameTry
  <1>7. CASE s = "connected"
    <2>1. b = CondGroupJoin(d, joins)
      BY <1>2, <1>7
    <2>2. /\ b \in Adapter /\ JoinInv(b) /\ Moves(d, b) /\ ~Missed(b)
          /\ SameIp(d, b) /\ SameUpd(d, b) /\ SameTry(d, b) /\ b.dht = d.dht
      BY <1>4, <1>6, <2>1, CondGroupJoinSays
    <2>3. TryInv(b)
      BY <1>6, <2>2 DEF TryInv, SameTry
    <2>4. ~Uncovered(b)
      BY <1>5, <1>7, <2>2 DEF Uncovered
    <2> QED  BY <1>5, <1>7, <2>2, <2>3, <2>4 DEF SameIp, SameUpd
  <1>8. CASE s = "disconnected"
    <2>1. /\ b \in Adapter /\ SameJoin(d, b) /\ SameIp(d, b) /\ SameTry(d, b)
          /\ b.saves = d.saves
          /\ \/ SameUpd(d, b)
             \/ b.upd /\ b.notes = IF d.upd THEN d.notes ELSE d.notes + 1
      <3>1. CASE b = UpdateContacts(d)
        BY <1>4, <3>1, UpdateContactsSays
      <3>2. CASE b = d
        BY <1>4, <3>2 DEF SameJoin, SameIp, SameTry, SameUpd
      <3> QED  BY <1>2, <1>8, <3>1, <3>2
    <2>2. JoinInv(b)
      BY <1>6, <1>8, <2>1, SameJoinMoves
    <2>3. TryInv(b)
      BY <1>6, <2>1 DEF TryInv, SameTry
    <2>4. ~Missed(b) /\ (Uncovered(b) => InUse(a))
      BY <1>5, <1>8, <2>1 DEF Missed, JoinThrew, ReadyToJoin, Uncovered, InUse, SameJoin
    <2>5. \/ SameUpd(a, b)
          \/ b.upd /\ b.notes = IF a.upd THEN a.notes ELSE a.notes + 1
      BY <1>5, <2>1 DEF SameUpd
    <2> QED  BY <1>5, <1>8, <2>1, <2>2, <2>3, <2>4, <2>5 DEF SameIp, SameUpd
  <1> QED  BY <1>7, <1>8

-----------------------------------------------------------------------------
(* The update of the contacts *)

\* Whatever comes of it, the update is over and no new one is begun.
LEMMA SaverDoneSays ==
    ASSUME NEW a \in Adapter, JoinInv(a), TryInv(a), NEW status, NEW contacts \in BOOLEAN,
           NEW start \in Starts, NEW joins \in BOOLEAN,
           NEW b, b = SaverDone(a, status, contacts, start, joins)
    PROVE  /\ b \in Adapter /\ JoinInv(b) /\ TryInv(b) /\ Moves(a, b)
           /\ IpTold(a, b, start) /\ (~contacts => SameIp(a, b))
           /\ ~b.upd /\ b.notes = a.notes /\ b.saves = a.saves
  <1>1. CASE status = "error" \/ ~contacts
    <2>1. b = [a EXCEPT !.upd = FALSE] \/ b = [a EXCEPT !.upd = FALSE, !.kad = FALSE]
      BY <1>1 DEF SaverDone, UpdateServerNodesDone
    <2>2. /\ b \in Adapter /\ SameJoin(a, b) /\ SameIp(a, b)
          /\ ~b.upd /\ b.notes = a.notes /\ b.saves = a.saves
          /\ b.try = a.try /\ b.after = a.after /\ (b.kad => a.kad)
      BY <2>1 DEF Adapter, SameJoin, SameIp
    <2> QED  BY <2>2, SameJoinMoves DEF TryInv, IpTold
  <1>2. CASE status # "error" /\ contacts
    <2> DEFINE d == [[a EXCEPT !.upd = FALSE] EXCEPT !.kad = TRUE]
               c == UpdateServerNodesDone(d, TRUE, start, joins)
    <2>1. b = IF c.after THEN [PrepareConnect(c) EXCEPT !.after = FALSE] ELSE c
      BY <1>2 DEF SaverDone
    <2>2. /\ d \in Adapter /\ SameJoin(a, d) /\ SameIp(a, d) /\ d.kad
          /\ ~d.upd /\ d.notes = a.notes /\ d.saves = a.saves
          /\ d.try = a.try /\ d.after = a.after
      BY DEF Adapter, SameJoin, SameIp
    <2>3. c = IF d.try = 1 THEN TryConnect(d, start, joins) ELSE d
      BY DEF UpdateServerNodesDone
    <2> HIDE DEF c, d
    <2>4. JoinInv(d) /\ Moves(a, d)
      BY <2>2, SameJoinMoves
    <2>5. /\ c \in Adapter /\ JoinInv(c) /\ Moves(d, c) /\ IpTold(d, c, start)
          /\ c.kad /\ SameUpd(d, c) /\ c.after = d.after
          /\ d.try # 1 => c = d
      <3>1. CASE d.try = 1
        <4>1. c = TryConnect(d, start, joins) /\ d.try <= 1
          BY <2>3, <3>1
        <4> QED  BY <2>2, <2>4, <3>1, <4>1, TryConnectSays DEF SameUpd
      <3>2. CASE d.try # 1
        BY <2>2, <2>3, <2>4, <3>2 DEF Moves, IpTold, SameIp, SameUpd
      <3> QED  BY <3>1, <3>2
    <2>6. Moves(a, c)
      BY <2>4, <2>5, MovesOn
    <2>7. IpTold(a, c, start)
      BY <2>2, <2>5 DEF IpTold, SameIp
    <2>8. CASE ~c.after
      BY <1>2, <2>1, <2>2, <2>5, <2>6, <2>7, <2>8 DEF TryInv, SameUpd
    <2>9. CASE c.after
      <3>1. c.try = 0
        BY <2>2, <2>5, <2>9 DEF TryInv
      <3> DEFINE e == PrepareConnect(c)
      <3>2. /\ e \in Adapter /\ JoinInv(e) /\ Moves(c, e) /\ SameIp(c, e) /\ SameUpd(c, e)
        <4>1. Proceeds(c) \/ ~Proceeds(c)
          OBVIOUS
        <4> QED  BY <2>5, <3>1, <4>1, PrepareConnectSays DEF SameUpd
      <3>3. b = [e EXCEPT !.after = FALSE]
        BY <2>1, <2>9
      <3> HIDE DEF e
      <3>4. /\ b \in Adapter /\ SameJoin(e, b) /\ SameIp(e, b) /\ SameUpd(e, b) /\ ~b.after
        BY <3>2, <3>3 DEF Adapter, SameJoin, SameIp, SameUpd
      <3>5. JoinInv(b) /\ Moves(a, b)
        BY <2>6, <3>2, <3>4, SameJoinMoves, MovesOn
      <3>6. IpTold(a, b, start)
        BY <2>7, <3>2, <3>4 DEF IpTold, SameIp
      <3> QED  BY <1>2, <2>2, <2>5, <3>2, <3>4, <3>5, <3>6 DEF TryInv, SameUpd
    <2> QED  BY <2>8, <2>9
  <1> QED  BY <1>1, <1>2

LEMMA SaverToldSays ==
    ASSUME NEW a \in Adapter, JoinInv(a), TryInv(a), NEW told, NEW contacts \in BOOLEAN,
           NEW start \in Starts, NEW joins \in BOOLEAN,
           NEW b, b = SaverTold(a, told, contacts, start, joins)
    PROVE  /\ b \in Adapter /\ JoinInv(b) /\ TryInv(b) /\ Moves(a, b)
           /\ IpTold(a, b, start) /\ (~contacts => SameIp(a, b))
           /\ ~b.upd /\ b.notes = a.notes /\ b.saves = a.saves
  <1> DEFINE c == SaverDone(a, told[1], contacts, start, joins)
  <1>1. /\ c \in Adapter /\ JoinInv(c) /\ TryInv(c) /\ Moves(a, c)
        /\ IpTold(a, c, start) /\ (~contacts => SameIp(a, c))
        /\ ~c.upd /\ c.notes = a.notes /\ c.saves = a.saves
    BY SaverDoneSays
  <1>2. b = IF Len(told) = 2 THEN SaverDone(c, told[2], contacts, start, joins) ELSE c
    BY DEF SaverTold
  <1> HIDE DEF c
  <1>3. CASE b = c
    BY <1>1, <1>3
  <1>4. CASE b = SaverDone(c, told[2], contacts, start, joins)
    <2>1. /\ b \in Adapter /\ JoinInv(b) /\ TryInv(b) /\ Moves(c, b)
          /\ IpTold(c, b, start) /\ (~contacts => SameIp(c, b))
          /\ ~b.upd /\ b.notes = c.notes /\ b.saves = c.saves
      BY <1>1, <1>4, SaverDoneSays
    <2>2. Moves(a, b) /\ IpTold(a, b, start)
      BY <1>1, <2>1, MovesOn, IpToldOn
    <2>3. ~contacts => SameIp(a, b)
      BY <1>1, <2>1 DEF SameIp
    <2> QED  BY <1>1, <2>1, <2>2, <2>3
  <1> QED  BY <1>2, <1>3, <1>4

LEMMA ContactsFetchedSays ==
    ASSUME NEW a \in Adapter, JoinInv(a), TryInv(a), a.saves > 0, NEW cbs, NEW saved,
           NEW contacts \in BOOLEAN, NEW start \in Starts, NEW joins \in BOOLEAN,
           NEW b, b = ContactsFetched(a, cbs, saved, contacts, start, joins)
    PROVE  /\ b \in Adapter /\ JoinInv(b) /\ TryInv(b) /\ Moves(a, b)
           /\ IpTold(a, b, start)
           /\ ~b.upd /\ b.notes = a.notes /\ b.saves = a.saves - 1
  <1> DEFINE c == [a EXCEPT !.saves = @ - 1]
  <1>1. /\ c \in Adapter /\ SameJoin(a, c) /\ SameIp(a, c) /\ SameTry(a, c)
        /\ c.notes = a.notes /\ c.saves = a.saves - 1
    <2>1. a.saves - 1 \in Nat /\ c = [a EXCEPT !.saves = a.saves - 1]
      BY DEF Adapter
    <2> HIDE DEF c
    <2> QED  BY <2>1 DEF Adapter, SameJoin, SameIp, SameTry
  <1>2. b = SaverTold(c, Notified(cbs, saved), contacts, start, joins)
    BY DEF ContactsFetched
  <1> HIDE DEF c
  <1>3. JoinInv(c) /\ TryInv(c) /\ Moves(a, c)
    BY <1>1, SameJoinMoves DEF TryInv, SameTry
  <1>4. /\ b \in Adapter /\ JoinInv(b) /\ TryInv(b) /\ Moves(c, b)
        /\ IpTold(c, b, start)
        /\ ~b.upd /\ b.notes = c.notes /\ b.saves = c.saves
    BY <1>1, <1>2, <1>3, SaverToldSays
  <1>5. Moves(a, b)
    BY <1>3, <1>4, MovesOn
  <1>6. IpTold(a, b, start)
    BY <1>1, <1>4 DEF IpTold, SameIp
  <1> QED  BY <1>1, <1>4, <1>5, <1>6

\* The client goes, and its group is uncovered when it was connected.
LEMMA StartUpdateSays ==
    ASSUME NEW a \in Adapter, JoinInv(a), TryInv(a), a.notes > 0, NEW begin \in Starts,
           NEW b, b = StartUpdate(a, begin)
    PROVE  /\ b \in Adapter /\ JoinInv(b) /\ TryInv(b) /\ SameIp(a, b)
           /\ Missed(b) => Missed(a)
           /\ Uncovered(b) => Uncovered(a) \/ (a.upd /\ ~Proceeds(a))
           /\ b.notes = a.notes - 1
           /\ \/ ~a.upd /\ ~b.upd /\ b.saves = a.saves
              \/ a.upd /\ begin = "throws" /\ b.upd = Proceeds(a) /\ b.saves = a.saves
              \/ a.upd /\ begin = "opened" /\ b.upd = Proceeds(a) /\ b.saves = a.saves + 1
              \/ a.upd /\ ~b.upd /\ b.saves = a.saves
  <1> DEFINE c == [a EXCEPT !.notes = @ - 1]
             d == DeleteClient(c)
             e == [d EXCEPT !.upd = Proceeds(c)]
  <1>0. a.upd \in BOOLEAN /\ Proceeds(a) \in BOOLEAN
    BY DEF Adapter, Proceeds
  <1>1. /\ c \in Adapter /\ SameJoin(a, c) /\ SameIp(a, c) /\ SameTry(a, c)
        /\ c.upd = a.upd /\ c.notes = a.notes - 1 /\ c.saves = a.saves
    <2>1. a.notes - 1 \in Nat /\ c = [a EXCEPT !.notes = a.notes - 1]
      BY DEF Adapter
    <2> HIDE DEF c, d, e
    <2> QED  BY <2>1 DEF Adapter, SameJoin, SameIp, SameTry
  <1>2. b = IF ~a.upd THEN c
            ELSE IF begin = "throws" THEN e
            ELSE IF begin = "opened" THEN [e EXCEPT !.saves = @ + 1]
            ELSE SaverTold(e, Notified(AtOnce(begin), "not_saved"), FALSE, "throws", FALSE)
    BY DEF StartUpdate
  <1>3. JoinInv(c) /\ Moves(a, c) /\ TryInv(c) /\ (Proceeds(c) <=> Proceeds(a))
    BY <1>1, SameJoinMoves DEF TryInv, SameTry, Proceeds, SameJoin
  <1> HIDE DEF c
  <1>4. /\ d \in Adapter /\ SameIp(c, d) /\ SameUpd(c, d) /\ SameTry(c, d)
        /\ d.dht = "none" /\ d.grp = c.grp /\ d.ip = c.ip /\ d.ended = c.ended
        /\ JoinInv(d)
    BY <1>1, <1>3, DeleteClientSays
  <1> HIDE DEF d
  <1>5. /\ e \in Adapter /\ SameJoin(d, e) /\ SameIp(d, e) /\ SameTry(d, e)
        /\ e.notes = d.notes /\ e.saves = d.saves /\ e.upd = Proceeds(a)
    <2>1. PICK x \in BOOLEAN : x = Proceeds(c)
      <3>1. CASE Proceeds(c)
        <4>1. Proceeds(c) = TRUE
          BY <3>1 DEF Proceeds
        <4> QED  BY <4>1
      <3>2. CASE ~Proceeds(c)
        <4>1. Proceeds(c) = FALSE
          BY <3>2 DEF Proceeds
        <4> QED  BY <4>1
      <3> QED  BY <3>1, <3>2
    <2>2. e = [d EXCEPT !.upd = x] /\ x = Proceeds(a)
      BY <1>0, <1>3, <2>1
    <2> HIDE DEF e
    <2> QED  BY <1>4, <2>2 DEF Adapter, SameJoin, SameIp, SameTry
  <1> HIDE DEF e
  <1>6. JoinInv(e) /\ TryInv(e)
    BY <1>3, <1>4, <1>5, SameJoinMoves DEF TryInv, SameTry
  <1>7. /\ ~Missed(e)
        /\ Uncovered(e) => Uncovered(a) \/ ~Proceeds(a)
    BY <1>1, <1>4, <1>5 DEF Missed, JoinThrew, ReadyToJoin, Uncovered, Proceeds, InUse, SameJoin
  <1>8. /\ SameIp(a, e) /\ e.notes = a.notes - 1 /\ e.saves = a.saves
    BY <1>1, <1>4, <1>5 DEF SameIp, SameUpd
  <1>9. CASE ~a.upd
    BY <1>1, <1>2, <1>3, <1>9 DEF Moves
  <1>10. CASE a.upd /\ begin = "throws"
    BY <1>2, <1>5, <1>6, <1>7, <1>8, <1>10
  <1>11. CASE a.upd /\ begin = "opened"
    <2>1. b = [e EXCEPT !.saves = @ + 1]
      BY <1>2, <1>11
    <2>2. /\ b \in Adapter /\ SameJoin(e, b) /\ SameIp(e, b) /\ SameTry(e, b)
          /\ b.notes = e.notes /\ b.saves = e.saves + 1 /\ b.upd = e.upd
      <3>1. e.saves + 1 \in Nat /\ b = [e EXCEPT !.saves = e.saves + 1]
        BY <1>5, <2>1 DEF Adapter
      <3> QED  BY <1>5, <3>1 DEF Adapter, SameJoin, SameIp, SameTry
    <2>3. JoinInv(b) /\ Moves(e, b) /\ TryInv(b)
      BY <1>6, <2>2, SameJoinMoves DEF TryInv, SameTry
    <2>4. SameIp(a, b)
      BY <1>8, <2>2 DEF SameIp
    <2> QED  BY <1>5, <1>7, <1>8, <1>11, <2>2, <2>3, <2>4 DEF Moves
  <1>12. CASE a.upd /\ begin \notin {"throws", "opened"}
    <2>1. b = SaverTold(e, Notified(AtOnce(begin), "not_saved"), FALSE, "throws", FALSE)
      BY <1>2, <1>12
    <2>2. /\ b \in Adapter /\ JoinInv(b) /\ TryInv(b) /\ Moves(e, b) /\ SameIp(e, b)
          /\ ~b.upd /\ b.notes = e.notes /\ b.saves = e.saves
      <3>1. PICK told : b = SaverTold(e, told, FALSE, "throws", FALSE)
        BY <2>1
      <3>2. PICK contacts \in BOOLEAN, joins \in BOOLEAN : contacts = FALSE /\ joins = FALSE
        OBVIOUS
      <3>3. PICK start \in Starts : start = "throws"
        BY DEF Starts
      <3>4. b = SaverTold(e, told, contacts, start, joins)
        BY <3>1, <3>2, <3>3
      <3>5. /\ b \in Adapter /\ JoinInv(b) /\ TryInv(b) /\ Moves(e, b)
            /\ (~contacts => SameIp(e, b))
            /\ ~b.upd /\ b.notes = e.notes /\ b.saves = e.saves
        BY <1>5, <1>6, <3>4, SaverToldSays
      <3> QED  BY <3>2, <3>5
    <2>3. SameIp(a, b)
      BY <1>8, <2>2 DEF SameIp
    <2> QED  BY <1>7, <1>8, <1>12, <2>2, <2>3 DEF Moves
  <1> QED  BY <1>9, <1>10, <1>11, <1>12

-----------------------------------------------------------------------------
(* The invariant *)

\* The past p of an adapter a accounts for a join that is missed, a DHT that
\* is not there, an address nobody fetches and an update that is not made.
MissOk(a, p)  == Missed(a) => p.left
CoverOk(a, p) == Uncovered(a) => p.orphaned
IpOk(a, p)    == a.ipFlag => a.ipOpen \/ p.atOnce
UpdOk(a, p)   == /\ a.upd => a.notes > 0 \/ a.saves > 0 \/ p.threw
                 /\ \/ p.cutOff
                    \/ a.saves + a.notes <= 1 /\ (a.saves + a.notes > 0 => a.upd)

AdapterInv(a, p) == /\ a \in Adapter /\ JoinInv(a) /\ TryInv(a)
                    /\ p \in Past
                    /\ MissOk(a, p) /\ CoverOk(a, p) /\ IpOk(a, p) /\ UpdOk(a, p)

RestOK == /\ ctz \in GroupState
          /\ toNet \in Seq({"connect", "disconnect", "exit_now"})
          /\ win \in Window
          /\ fails \in [dht : 0..MaxDhtFails, grp : 0..MaxGrpDrops, ctz : 0..MaxCtzDrops]

CInv == AdapterInv(net, past) /\ RestOK

\* No new update, or one that there was none of.
UpdTold(a, b) ==
    /\ b.saves = a.saves
    /\ \/ SameUpd(a, b)
       \/ b.upd /\ b.notes = IF a.upd THEN a.notes ELSE a.notes + 1

\* Nothing of the past is forgotten.
Keeps(p, q) == /\ p.left => q.left
               /\ p.orphaned => q.orphaned
               /\ p.threw => q.threw
               /\ p.atOnce => q.atOnce
               /\ p.cutOff => q.cutOff

LEMMA UpdToldOk ==
    ASSUME NEW a \in Adapter, NEW b \in Adapter, NEW p, NEW q,
           UpdOk(a, p), UpdTold(a, b), Keeps(p, q)
    PROVE  UpdOk(b, q)
  <1>1. a.saves \in Nat /\ a.notes \in Nat /\ b.saves \in Nat /\ b.notes \in Nat
    BY DEF Adapter
  <1>2. CASE SameUpd(a, b)
    BY <1>1, <1>2 DEF UpdOk, SameUpd, Keeps
  <1>3. CASE b.upd /\ b.notes = IF a.upd THEN a.notes ELSE a.notes + 1
    <2>1. CASE a.upd
      BY <1>1, <1>3, <2>1 DEF UpdOk, UpdTold, Keeps
    <2>2. CASE ~a.upd
      BY <1>1, <1>3, <2>2 DEF UpdOk, UpdTold, Keeps
    <2> QED  BY <2>1, <2>2
  <1> QED  BY <1>2, <1>3 DEF UpdTold

\* What is remembered ends when it does not matter any more.
Remembered(b, p) ==
    /\ past'.left <=> ReadyToJoin(b) /\ ~InUse(b) /\ (p.left \/ InUse(net))
    /\ past'.orphaned <=> InUse(b) /\ b.dht # "connected" /\ p.orphaned
    /\ past'.threw <=> b.upd /\ p.threw
    /\ past'.atOnce <=> b.ipFlag /\ p.atOnce
    /\ past'.cutOff <=> b.saves + b.notes > 0 /\ p.cutOff

LEMMA BecomesPast ==
    ASSUME NEW b \in Adapter, NEW p \in Past, Becomes(b, p)
    PROVE  past' \in Past /\ Remembered(b, p)
  <1>1. PICK l \in BOOLEAN : l = (ReadyToJoin(b) /\ ~InUse(b) /\ (p.left \/ InUse(net)))
    BY DEF ReadyToJoin
  <1>2. PICK o \in BOOLEAN : o = (InUse(b) /\ b.dht # "connected" /\ p.orphaned)
    BY DEF InUse
  <1>3. PICK t \in BOOLEAN : t = (b.upd /\ p.threw)
    OBVIOUS
  <1>4. PICK e \in BOOLEAN : e = (b.ipFlag /\ p.atOnce)
    OBVIOUS
  <1>5. PICK c \in BOOLEAN : c = (b.saves + b.notes > 0 /\ p.cutOff)
    OBVIOUS
  <1>6. past' = [p EXCEPT !.left = l, !.orphaned = o, !.threw = t, !.atOnce = e, !.cutOff = c]
    BY <1>1, <1>2, <1>3, <1>4, <1>5 DEF Becomes
  <1>7. past' = [left |-> l, orphaned |-> o, threw |-> t, atOnce |-> e, cutOff |-> c,
                 unsaid |-> p.unsaid]
    BY <1>6 DEF Past
  <1>8. past' \in Past
    BY <1>7 DEF Past
  <1> QED  BY <1>1, <1>2, <1>3, <1>4, <1>5, <1>7, <1>8 DEF Remembered

\* What is to be seen of a step of the networking thread.
LEMMA BecomesInv ==
    ASSUME NEW b \in Adapter, NEW p \in Past, Becomes(b, p), JoinInv(b), TryInv(b),
           Missed(b) => p.left \/ InUse(net),
           CoverOk(b, p), IpOk(b, p), UpdOk(b, p)
    PROVE  AdapterInv(net, past)'
  <1>1. net' = b
    BY DEF Becomes
  <1>2. past' \in Past /\ Remembered(b, p)
    BY BecomesPast
  <1>3. MissOk(b, past')
    BY <1>2 DEF MissOk, Missed, Remembered
  <1>4. CoverOk(b, past')
    BY <1>2 DEF CoverOk, Uncovered, Remembered
  <1>5. IpOk(b, past')
    BY <1>2 DEF IpOk, Remembered
  <1>6. UpdOk(b, past')
    <2>1. b.saves \in Nat /\ b.notes \in Nat
      BY DEF Adapter
    <2> QED  BY <1>2, <2>1 DEF UpdOk, Remembered
  <1> QED  BY <1>1, <1>2, <1>3, <1>4, <1>5, <1>6 DEF AdapterInv

\* A step that moves no join and keeps the past.
LEMMA MovesInv ==
    ASSUME AdapterInv(net, past), NEW b \in Adapter, NEW p \in Past, Becomes(b, p),
           Keeps(past, p), JoinInv(b), TryInv(b), Moves(net, b), UpdTold(net, b),
           IpOk(b, p)
    PROVE  AdapterInv(net, past)'
  <1>1. Missed(b) => p.left \/ InUse(net)
    BY DEF AdapterInv, MissOk, Moves, Keeps
  <1>2. CoverOk(b, p)
    BY DEF AdapterInv, CoverOk, Moves, Keeps
  <1>3. UpdOk(b, p)
    BY UpdToldOk DEF AdapterInv
  <1> QED  BY <1>1, <1>2, <1>3, BecomesInv

\* The same adapter but for what it tells the GUI.
Twin(a, b) == /\ b \in Adapter
              /\ SameJoin(a, b) /\ SameIp(a, b) /\ SameUpd(a, b) /\ SameTry(a, b)

LEMMA TwinSays ==
    ASSUME NEW a \in Adapter, NEW b, JoinInv(a), TryInv(a), Twin(a, b)
    PROVE  /\ b \in Adapter /\ JoinInv(b) /\ TryInv(b) /\ Moves(a, b) /\ UpdTold(a, b)
           /\ b.ipFlag = a.ipFlag /\ b.ipOpen = a.ipOpen /\ b.grp = a.grp
  BY SameJoinMoves DEF Twin, TryInv, SameTry, UpdTold, SameUpd, SameIp, SameJoin

LEMMA KeepsItself == ASSUME NEW p PROVE Keeps(p, p)
  BY DEF Keeps

\* The server: the adapter says something of it, twice when it does not answer.
LEMMA TwinInv ==
    ASSUME AdapterInv(net, past), NEW b, Twin(net, b), NEW p \in Past, Becomes(b, p),
           Keeps(past, p), p.atOnce = past.atOnce
    PROVE  AdapterInv(net, past)'
  <1>1. net \in Adapter /\ JoinInv(net) /\ TryInv(net) /\ IpOk(net, past)
    BY DEF AdapterInv
  <1>2. /\ b \in Adapter /\ JoinInv(b) /\ TryInv(b) /\ Moves(net, b) /\ UpdTold(net, b)
        /\ b.ipFlag = net.ipFlag /\ b.ipOpen = net.ipOpen
    BY <1>1, TwinSays
  <1>3. IpOk(b, p)
    BY <1>1, <1>2 DEF IpOk
  <1> QED  BY <1>2, <1>3, MovesInv

LEMMA IpToldOk ==
    ASSUME NEW a \in Adapter, NEW b \in Adapter, NEW p, NEW q, NEW start,
           IpOk(a, p), IpTold(a, b, start), Keeps(p, q),
           b.ipFlag /\ ~a.ipFlag /\ start # "opened" => q.atOnce
    PROVE  IpOk(b, q)
  BY DEF IpOk, IpTold, SameIp, Keeps

-----------------------------------------------------------------------------
(* The steps of the networking thread *)

LEMMA ConnectKeeps ==
    ASSUME CInv, HandleConnect
    PROVE  AdapterInv(net, past)'
  <1>1. PICK ctzJoins \in BOOLEAN, joins \in BOOLEAN, start \in Starts :
          LET told == ctz = "not_joined" /\ ctzJoins
              a == IF told THEN Told(net, "ctz_joining") ELSE net
              b == AdapterConnect(a, start, joins)
          IN Becomes(b, [past EXCEPT !.atOnce = @ \/ EndedAtOnce(b, start),
                                     !.unsaid = @ \/ (ctz = "not_joined" /\ ~ctzJoins)])
    BY ZenonT(30) DEF HandleConnect
  <1> DEFINE a == IF ctz = "not_joined" /\ ctzJoins THEN Told(net, "ctz_joining") ELSE net
             b == AdapterConnect(a, start, joins)
             p == [past EXCEPT !.atOnce = @ \/ EndedAtOnce(b, start),
                               !.unsaid = @ \/ (ctz = "not_joined" /\ ~ctzJoins)]
  <1>2. Becomes(b, p)
    BY <1>1
  <1>3. /\ net \in Adapter /\ JoinInv(net) /\ TryInv(net)
        /\ past \in Past /\ IpOk(net, past)
    BY DEF CInv, AdapterInv
  <1>4. Twin(net, a)
    <2>1. "ctz_joining" \in GuiMessage
      BY DEF GuiMessage
    <2>2. CASE a = net
      BY <1>3, <2>2 DEF Twin, SameJoin, SameIp, SameUpd, SameTry
    <2>3. CASE a = Told(net, "ctz_joining")
      BY <1>3, <2>1, <2>3, ToldSays DEF Twin
    <2> QED  BY <2>2, <2>3
  <1> HIDE DEF a
  <1>5. /\ a \in Adapter /\ JoinInv(a) /\ TryInv(a) /\ Moves(net, a) /\ UpdTold(net, a)
        /\ a.ipFlag = net.ipFlag /\ a.ipOpen = net.ipOpen
    BY <1>3, <1>4, TwinSays
  <1>6. /\ b \in Adapter /\ JoinInv(b) /\ TryInv(b) /\ Moves(a, b) /\ IpTold(a, b, start)
        /\ UpdTold(a, b)
    BY <1>5, AdapterConnectSays DEF UpdTold
  <1>7. /\ p \in Past /\ Keeps(past, p)
        /\ b.ipFlag /\ ~net.ipFlag /\ start # "opened" => p.atOnce
    <2>1. PICK x \in BOOLEAN : x = (past.atOnce \/ EndedAtOnce(b, start))
      OBVIOUS
    <2>2. PICK y \in BOOLEAN : y = (past.unsaid \/ (ctz = "not_joined" /\ ~ctzJoins))
      OBVIOUS
    <2>3. p = [past EXCEPT !.atOnce = x, !.unsaid = y]
      BY <2>1, <2>2
    <2> HIDE DEF b, p
    <2> QED  BY <1>3, <2>1, <2>2, <2>3 DEF Past, Keeps, EndedAtOnce
  <1> HIDE DEF b, p
  <1>8. Moves(net, b)
    BY <1>5, <1>6, MovesOn
  <1>9. UpdTold(net, b)
    BY <1>4, <1>6 DEF UpdTold, SameUpd, Twin
  <1>10. IpTold(net, b, start)
    BY <1>5, <1>6 DEF IpTold, SameIp
  <1>11. IpOk(b, p)
    BY <1>3, <1>6, <1>7, <1>10, IpToldOk
  <1> QED  BY <1>2, <1>6, <1>7, <1>8, <1>9, <1>11, MovesInv DEF CInv

LEMMA DisconnectKeeps ==
    ASSUME CInv, HandleDisconnect
    PROVE  AdapterInv(net, past)'
  <1> DEFINE a == IF ctz' # ctz THEN Told(net, "ctz_leaving") ELSE net
             b == AdapterDisconnect(a)
  <1>1. Becomes(b, past)
    BY DEF HandleDisconnect
  <1>2. net \in Adapter /\ JoinInv(net) /\ TryInv(net) /\ past \in Past /\ IpOk(net, past)
    BY DEF CInv, AdapterInv
  <1>3. Twin(net, a)
    <2>1. "ctz_leaving" \in GuiMessage
      BY DEF GuiMessage
    <2>2. CASE a = net
      BY <1>2, <2>2 DEF Twin, SameJoin, SameIp, SameUpd, SameTry
    <2>3. CASE a = Told(net, "ctz_leaving")
      BY <1>2, <2>1, <2>3, ToldSays DEF Twin
    <2> QED  BY <2>2, <2>3
  <1> HIDE DEF a
  <1>4. /\ a \in Adapter /\ JoinInv(a) /\ TryInv(a) /\ Moves(net, a) /\ UpdTold(net, a)
        /\ a.ipFlag = net.ipFlag /\ a.ipOpen = net.ipOpen
    BY <1>2, <1>3, TwinSays
  <1>5. /\ b \in Adapter /\ JoinInv(b) /\ TryInv(b) /\ Moves(a, b)
        /\ SameIp(a, b) /\ SameUpd(a, b)
    BY <1>4, AdapterDisconnectSays
  <1> HIDE DEF b
  <1>6. Moves(net, b)
    BY <1>4, <1>5, MovesOn
  <1>7. UpdTold(net, b)
    BY <1>3, <1>5 DEF UpdTold, SameUpd, Twin
  <1>8. IpOk(b, past)
    BY <1>2, <1>4, <1>5 DEF IpOk, SameIp
  <1> QED  BY <1>1, <1>2, <1>5, <1>6, <1>7, <1>8, KeepsItself, MovesInv DEF CInv

LEMMA ExitKeeps ==
    ASSUME CInv, HandleExit
    PROVE  AdapterInv(net, past)'
  <1> DEFINE b == [net EXCEPT !.ended = TRUE]
  <1>1. Becomes(b, past)
    BY DEF HandleExit
  <1>2. net \in Adapter /\ JoinInv(net) /\ TryInv(net) /\ past \in Past /\ IpOk(net, past)
    BY DEF CInv, AdapterInv
  <1>3. /\ b \in Adapter /\ SameIp(net, b) /\ SameUpd(net, b) /\ SameTry(net, b)
        /\ b.grp = net.grp /\ b.held = net.held /\ b.dht = net.dht /\ b.ip = net.ip
        /\ b.ended
    BY <1>2 DEF Adapter, SameIp, SameUpd, SameTry
  <1> HIDE DEF b
  <1>4. JoinInv(b) /\ TryInv(b) /\ Moves(net, b)
    BY <1>2, <1>3 DEF JoinInv, HeldInv, TryInv, Moves, Missed, Uncovered, JoinThrew, InUse, SameTry
  <1>5. UpdTold(net, b) /\ IpOk(b, past)
    BY <1>2, <1>3 DEF UpdTold, SameUpd, IpOk, SameIp
  <1> QED  BY <1>1, <1>2, <1>3, <1>4, <1>5, KeepsItself, MovesInv DEF CInv

\* A notification is spent: with the client that was connecting the update is
\* cut off, and without it an update is under way or over.
LEMMA UpdateKeeps ==
    ASSUME CInv, Update
    PROVE  AdapterInv(net, past)'
  <1>1. PICK begin \in Starts :
          Becomes(StartUpdate(net, begin),
                  [past EXCEPT !.threw = @ \/ (net.upd /\ begin = "throws"),
                               !.cutOff = @ \/ (net.upd /\ ~Proceeds(net)),
                               !.orphaned = @ \/ (net.upd /\ ~Proceeds(net))])
    BY DEF Update
  <1> DEFINE b == StartUpdate(net, begin)
             p == [past EXCEPT !.threw = @ \/ (net.upd /\ begin = "throws"),
                               !.cutOff = @ \/ (net.upd /\ ~Proceeds(net)),
                               !.orphaned = @ \/ (net.upd /\ ~Proceeds(net))]
  <1>2. Becomes(b, p)
    BY <1>1
  <1>3. /\ net \in Adapter /\ JoinInv(net) /\ TryInv(net) /\ net.notes > 0
        /\ past \in Past
        /\ MissOk(net, past) /\ CoverOk(net, past) /\ IpOk(net, past) /\ UpdOk(net, past)
    BY DEF CInv, AdapterInv, Update
  <1>4. /\ b \in Adapter /\ JoinInv(b) /\ TryInv(b) /\ SameIp(net, b)
        /\ Missed(b) => Missed(net)
        /\ Uncovered(b) => Uncovered(net) \/ (net.upd /\ ~Proceeds(net))
        /\ b.notes = net.notes - 1
        /\ \/ ~net.upd /\ ~b.upd /\ b.saves = net.saves
           \/ net.upd /\ begin = "throws" /\ b.upd = Proceeds(net) /\ b.saves = net.saves
           \/ net.upd /\ begin = "opened" /\ b.upd = Proceeds(net) /\ b.saves = net.saves + 1
           \/ net.upd /\ ~b.upd /\ b.saves = net.saves
    BY <1>3, StartUpdateSays
  <1>5. /\ p \in Past
        /\ p.threw <=> past.threw \/ (net.upd /\ begin = "throws")
        /\ p.cutOff <=> past.cutOff \/ (net.upd /\ ~Proceeds(net))
        /\ p.orphaned <=> past.orphaned \/ (net.upd /\ ~Proceeds(net))
        /\ p.left = past.left /\ p.atOnce = past.atOnce
    <2>1. PICK x \in BOOLEAN : x = (past.threw \/ (net.upd /\ begin = "throws"))
      OBVIOUS
    <2>2. PICK y \in BOOLEAN : y = (past.cutOff \/ (net.upd /\ ~Proceeds(net)))
      OBVIOUS
    <2>3. PICK o \in BOOLEAN : o = (past.orphaned \/ (net.upd /\ ~Proceeds(net)))
      OBVIOUS
    <2>4. p = [past EXCEPT !.threw = x, !.cutOff = y, !.orphaned = o]
      BY <2>1, <2>2, <2>3
    <2> HIDE DEF b, p
    <2> QED  BY <1>3, <2>1, <2>2, <2>3, <2>4 DEF Past
  <1> HIDE DEF b, p
  <1>6. Missed(b) => p.left \/ InUse(net)
    BY <1>3, <1>4, <1>5 DEF MissOk
  <1>7. CoverOk(b, p)
    BY <1>3, <1>4, <1>5 DEF CoverOk
  <1>8. IpOk(b, p)
    BY <1>3, <1>4, <1>5 DEF IpOk, SameIp
  <1>9. UpdOk(b, p)
    <2>1. net.notes \in Nat /\ net.saves \in Nat /\ net.upd \in BOOLEAN
      BY <1>3 DEF Adapter
    <2>2. \/ p.cutOff
          \/ /\ net.saves + net.notes <= 1 /\ net.upd
             /\ Proceeds(net)
      BY <1>3, <1>5, <2>1 DEF UpdOk
    <2>3. \/ ~b.upd /\ b.saves = net.saves
          \/ net.upd /\ begin = "throws" /\ b.saves = net.saves /\ (Proceeds(net) => b.upd)
          \/ net.upd /\ b.saves = net.saves + 1 /\ (Proceeds(net) => b.upd)
      BY <1>4, ZenonT(30)
    <2>4. b.upd => b.notes > 0 \/ b.saves > 0 \/ p.threw
      BY <1>5, <2>1, <2>3
    <2>5. p.cutOff \/ (b.saves + b.notes <= 1 /\ (b.saves + b.notes > 0 => b.upd))
      <3>1. CASE p.cutOff
        BY <3>1
      <3>2. CASE net.saves + net.notes <= 1 /\ net.upd /\ Proceeds(net)
        <4>1. net.notes = 1 /\ net.saves = 0 /\ b.notes = 0
          BY <1>3, <1>4, <2>1, <3>2
        <4> QED  BY <2>3, <3>2, <4>1
      <3> QED  BY <2>2, <3>1, <3>2
    <2> QED  BY <2>4, <2>5 DEF UpdOk
  <1> QED  BY <1>2, <1>4, <1>5, <1>6, <1>7, <1>8, <1>9, BecomesInv

-----------------------------------------------------------------------------
(* The steps of the network *)

LEMMA DhtConnectsKeeps ==
    ASSUME CInv, DhtConnects
    PROVE  AdapterInv(net, past)'
  <1>1. /\ net \in Adapter /\ JoinInv(net) /\ TryInv(net) /\ past \in Past
        /\ IpOk(net, past) /\ UpdOk(net, past)
    BY DEF CInv, AdapterInv
  <1>2. PICK s \in {"connected", "disconnected"} : s = "connected"
    OBVIOUS
  <1>3. PICK joins \in BOOLEAN : Becomes(DhtChanged(net, s, joins), past)
    BY <1>2 DEF DhtConnects
  <1> DEFINE b == DhtChanged(net, s, joins)
  <1>7. Becomes(b, past)
    BY <1>3
  <1>4. /\ b \in Adapter /\ JoinInv(b) /\ TryInv(b) /\ SameIp(net, b)
        /\ ~Missed(b) /\ ~Uncovered(b) /\ UpdTold(net, b)
    BY <1>1, <1>2, DhtChangedSays DEF UpdTold
  <1> HIDE DEF b
  <1>5. CoverOk(b, past) /\ IpOk(b, past)
    BY <1>1, <1>4 DEF CoverOk, IpOk, SameIp
  <1>6. UpdOk(b, past)
    BY <1>1, <1>4, KeepsItself, UpdToldOk
  <1> QED  BY <1>1, <1>4, <1>5, <1>6, <1>7, BecomesInv

LEMMA DhtFailsKeeps ==
    ASSUME CInv, DhtFails
    PROVE  AdapterInv(net, past)'
  <1>1. /\ net \in Adapter /\ JoinInv(net) /\ TryInv(net) /\ past \in Past
        /\ IpOk(net, past) /\ UpdOk(net, past)
    BY DEF CInv, AdapterInv
  <1>2. PICK s \in {"connected", "disconnected"} : s = "disconnected"
    OBVIOUS
  <1> DEFINE b == DhtChanged(net, s, FALSE)
             p == [past EXCEPT !.orphaned = @ \/ InUse(net)]
  <1>3. Becomes(b, p)
    BY <1>2 DEF DhtFails
  <1>4. /\ b \in Adapter /\ JoinInv(b) /\ TryInv(b) /\ SameIp(net, b)
        /\ ~Missed(b) /\ (Uncovered(b) => InUse(net)) /\ UpdTold(net, b)
    BY <1>1, <1>2, DhtChangedSays DEF UpdTold
  <1>5. /\ p \in Past /\ Keeps(past, p) /\ (InUse(net) => p.orphaned)
    <2>1. PICK x \in BOOLEAN : x = (past.orphaned \/ InUse(net))
      OBVIOUS
    <2>2. p = [past EXCEPT !.orphaned = x]
      BY <2>1
    <2> HIDE DEF p
    <2> QED  BY <1>1, <2>1, <2>2 DEF Past, Keeps
  <1> HIDE DEF b, p
  <1>6. CoverOk(b, p) /\ IpOk(b, p)
    BY <1>1, <1>4, <1>5 DEF CoverOk, IpOk, SameIp, Keeps
  <1>7. UpdOk(b, p)
    BY <1>1, <1>4, <1>5, UpdToldOk
  <1> QED  BY <1>3, <1>4, <1>5, <1>6, <1>7, BecomesInv

LEMMA IpFetchEndsKeeps ==
    ASSUME CInv, IpFetchEnds
    PROVE  AdapterInv(net, past)'
  <1>1. net \in Adapter /\ JoinInv(net) /\ TryInv(net) /\ past \in Past
    BY DEF CInv, AdapterInv
  <1>2. PICK cbs \in Outcomes, found \in IpFound, joins \in BOOLEAN :
          Becomes(IpFetched(net, cbs, found, joins), past)
    BY DEF IpFetchEnds
  <1> DEFINE b == IpFetched(net, cbs, found, joins)
  <1>3. Becomes(b, past)
    BY <1>2
  <1>4. /\ b \in Adapter /\ JoinInv(b) /\ Moves(net, b)
        /\ SameUpd(net, b) /\ SameTry(net, b) /\ ~b.ipFlag
    BY <1>1, IpFetchedSays
  <1> HIDE DEF b
  <1>5. TryInv(b) /\ UpdTold(net, b) /\ IpOk(b, past)
    BY <1>1, <1>4 DEF TryInv, UpdTold, SameTry, SameUpd, IpOk
  <1> QED  BY <1>1, <1>3, <1>4, <1>5, KeepsItself, MovesInv DEF CInv

LEMMA ContactsEndKeeps ==
    ASSUME CInv, ContactsEnd
    PROVE  AdapterInv(net, past)'
  <1>1. PICK cbs \in Outcomes, saved \in Saved, contacts \in BOOLEAN, joins \in BOOLEAN,
             start \in Starts :
          LET b == ContactsFetched(net, cbs, saved, contacts, start, joins)
          IN Becomes(b, [past EXCEPT !.atOnce = @ \/ EndedAtOnce(b, start)])
    BY DEF ContactsEnd
  <1> DEFINE b == ContactsFetched(net, cbs, saved, contacts, start, joins)
             p == [past EXCEPT !.atOnce = @ \/ EndedAtOnce(b, start)]
  <1>2. Becomes(b, p)
    BY <1>1
  <1>3. /\ net \in Adapter /\ JoinInv(net) /\ TryInv(net) /\ net.saves > 0
        /\ past \in Past
        /\ MissOk(net, past) /\ CoverOk(net, past) /\ IpOk(net, past) /\ UpdOk(net, past)
    BY DEF CInv, AdapterInv, ContactsEnd
  <1>4. /\ b \in Adapter /\ JoinInv(b) /\ TryInv(b) /\ Moves(net, b)
        /\ IpTold(net, b, start)
        /\ ~b.upd /\ b.notes = net.notes /\ b.saves = net.saves - 1
    BY <1>3, ContactsFetchedSays
  <1>5. /\ p \in Past /\ Keeps(past, p) /\ p.cutOff = past.cutOff
        /\ b.ipFlag /\ ~net.ipFlag /\ start # "opened" => p.atOnce
    <2>1. PICK x \in BOOLEAN : x = (past.atOnce \/ EndedAtOnce(b, start))
      OBVIOUS
    <2>2. p = [past EXCEPT !.atOnce = x]
      BY <2>1
    <2> HIDE DEF b, p
    <2> QED  BY <1>3, <2>1, <2>2 DEF Past, Keeps, EndedAtOnce
  <1> HIDE DEF b, p
  <1>6. Missed(b) => p.left \/ InUse(net)
    BY <1>3, <1>4, <1>5 DEF MissOk, Moves, Keeps
  <1>7. CoverOk(b, p)
    BY <1>3, <1>4, <1>5 DEF CoverOk, Moves, Keeps
  <1>8. IpOk(b, p)
    BY <1>3, <1>4, <1>5, IpToldOk
  <1>9. UpdOk(b, p)
    <2>1. net.notes \in Nat /\ net.saves \in Nat
      BY <1>3 DEF Adapter
    <2> QED  BY <1>3, <1>4, <1>5, <2>1 DEF UpdOk
  <1> QED  BY <1>2, <1>4, <1>5, <1>6, <1>7, <1>8, <1>9, BecomesInv

LEMMA GroupKeeps ==
    ASSUME CInv, NEW s \in {"joined", "not_joined"}, InUse(net),
           Becomes(GroupChanged(net, s), past)
    PROVE  AdapterInv(net, past)'
  <1>1. /\ net \in Adapter /\ JoinInv(net) /\ TryInv(net) /\ past \in Past
        /\ CoverOk(net, past) /\ IpOk(net, past) /\ UpdOk(net, past)
    BY DEF CInv, AdapterInv
  <1> DEFINE b == GroupChanged(net, s)
  <1>2. Becomes(b, past)
    OBVIOUS
  <1>3. /\ b \in Adapter /\ JoinInv(b) /\ TryInv(b)
        /\ SameIp(net, b) /\ SameUpd(net, b)
        /\ Uncovered(b) => Uncovered(net)
    BY <1>1, GroupChangedSays
  <1> HIDE DEF b
  <1>4. CoverOk(b, past) /\ IpOk(b, past) /\ UpdOk(b, past)
    BY <1>1, <1>3 DEF CoverOk, IpOk, UpdOk, SameIp, SameUpd
  <1> QED  BY <1>1, <1>2, <1>3, <1>4, BecomesInv

LEMMA ToldTwin ==
    ASSUME NEW a, NEW b \in Adapter, Twin(a, b), NEW m \in GuiMessage
    PROVE  Twin(a, Told(b, m))
  <1>1. PICK c : c = Told(b, m)
    OBVIOUS
  <1>2. /\ c \in Adapter
        /\ SameJoin(b, c) /\ SameIp(b, c) /\ SameUpd(b, c) /\ SameTry(b, c)
    BY <1>1, ToldSays
  <1> QED  BY <1>1, <1>2 DEF Twin, SameJoin, SameIp, SameUpd, SameTry

LEMMA ToldOnce ==
    ASSUME NEW a \in Adapter, NEW m \in GuiMessage
    PROVE  Twin(a, Told(a, m)) /\ Told(a, m) \in Adapter
  BY ToldTwin DEF Twin, SameJoin, SameIp, SameUpd, SameTry

LEMMA ServerKeeps ==
    ASSUME CInv, CtzJoins \/ CtzFails \/ CtzEnds
    PROVE  AdapterInv(net, past)'
  <1>1. /\ net \in Adapter /\ past \in Past
        /\ {"ctz_joined", "ctz_unreachable", "ctz_not_joined"} \subseteq GuiMessage
    BY DEF CInv, AdapterInv, GuiMessage
  <1>2. PICK b, p : /\ Twin(net, b) /\ Becomes(b, p)
                    /\ p = past \/ (\E u \in BOOLEAN : p = [past EXCEPT !.unsaid = u])
    <2>1. CASE CtzJoins
      <3>1. Becomes(Told(net, "ctz_joined"), past)
        BY <2>1 DEF CtzJoins
      <3> QED  BY <1>1, <3>1, ToldOnce
    <2>2. CASE CtzFails
      <3>1. CASE Becomes(Told(Told(net, "ctz_unreachable"), "ctz_not_joined"),
                         [past EXCEPT !.unsaid = FALSE])
        <4>1. Twin(net, Told(Told(net, "ctz_unreachable"), "ctz_not_joined"))
          BY <1>1, ToldOnce, ToldTwin
        <4> QED  BY <3>1, <4>1
      <3>2. CASE Becomes(Told(Told(net, "ctz_not_joined"), "ctz_unreachable"),
                         [past EXCEPT !.unsaid = TRUE])
        <4>1. Twin(net, Told(Told(net, "ctz_not_joined"), "ctz_unreachable"))
          BY <1>1, ToldOnce, ToldTwin
        <4> QED  BY <3>2, <4>1
      <3> QED  BY <2>2, <3>1, <3>2 DEF CtzFails
    <2>3. CASE CtzEnds
      <3>1. Becomes(Told(net, "ctz_not_joined"), [past EXCEPT !.unsaid = FALSE])
        BY <2>3 DEF CtzEnds
      <3> QED  BY <1>1, <3>1, ToldOnce
    <2> QED  BY <2>1, <2>2, <2>3
  <1>3. p \in Past /\ Keeps(past, p) /\ p.atOnce = past.atOnce
    BY <1>1, <1>2 DEF Past, Keeps
  <1> QED  BY <1>2, <1>3, TwinInv DEF CInv

-----------------------------------------------------------------------------
(* The steps of the window *)

\* A message is taken from those of the adapter.
LEMMA GuiKeeps ==
    ASSUME CInv, HandleGuiMessage
    PROVE  CInv'
  <1>1. /\ net \in Adapter /\ JoinInv(net) /\ TryInv(net) /\ past \in Past
        /\ MissOk(net, past) /\ CoverOk(net, past) /\ IpOk(net, past) /\ UpdOk(net, past)
    BY DEF CInv, AdapterInv
  <1>2. /\ Head(net.out) \in GuiMessage /\ Tail(net.out) \in Seq(GuiMessage)
    BY <1>1, HeadTailProperties DEF HandleGuiMessage, Adapter
  <1> DEFINE b == [net EXCEPT !.out = Tail(net.out)]
  <1>3. net' = b /\ past' = past
    BY DEF HandleGuiMessage
  <1>4. Twin(net, b)
    BY <1>1, <1>2 DEF Adapter, Twin, SameJoin, SameIp, SameUpd, SameTry
  <1> HIDE DEF b
  <1>5. /\ b \in Adapter /\ JoinInv(b) /\ TryInv(b) /\ Moves(net, b) /\ UpdTold(net, b)
        /\ b.ipFlag = net.ipFlag /\ b.ipOpen = net.ipOpen
    BY <1>1, <1>4, TwinSays
  <1>6. MissOk(b, past) /\ CoverOk(b, past) /\ IpOk(b, past)
    BY <1>1, <1>5 DEF MissOk, CoverOk, IpOk, Moves
  <1>7. UpdOk(b, past)
    BY <1>1, <1>5, KeepsItself, UpdToldOk
  <1>8. AdapterInv(net, past)'
    BY <1>1, <1>3, <1>5, <1>6, <1>7 DEF AdapterInv
  <1>9. win' \in Window
    <2>1. PICK m \in GuiMessage : win' = Seen(win, m)
      BY <1>2 DEF HandleGuiMessage
    <2>2. /\ win \in Window /\ win.timers + 1 \in Nat /\ win.checks + 1 \in Nat
          /\ win.timers \in Nat
      BY DEF CInv, RestOK, Window
    <2>3. CASE m = "ctz_joined"
      <3>1. win' = [win EXCEPT !.lost = FALSE, !.tries = 0]
        BY <2>1, <2>3 DEF Seen
      <3> QED  BY <2>2, <3>1 DEF Window
    <2>4. CASE m = "ctz_not_joined"
      <3>1. PICK t \in Nat :
               t = IF win.tries < MaxTries THEN win.timers + 1 ELSE win.timers
        BY <2>2
      <3>2. win' = [win EXCEPT !.lost = TRUE, !.timers = t]
        BY <2>1, <2>4, <3>1 DEF Seen
      <3> QED  BY <2>2, <3>2 DEF Window
    <2>5. CASE m \in {"ctz_joining", "ctz_leaving", "ctz_unreachable"}
      <3>1. win' = [win EXCEPT !.lost = FALSE]
        BY <2>1, <2>5 DEF Seen
      <3> QED  BY <2>2, <3>1 DEF Window
    <2>6. CASE m = "dht_disconnected"
      <3>1. win' = [win EXCEPT !.last = m, !.checks = win.checks + 1]
        BY <2>1, <2>6 DEF Seen
      <3> QED  BY <2>2, <3>1 DEF Window
    <2>7. CASE m \in {"dht_connecting", "dht_connected"}
      <3>1. win' = [win EXCEPT !.last = m]
        BY <2>1, <2>7 DEF Seen
      <3> QED  BY <2>2, <3>1 DEF Window
    <2> QED  BY <2>3, <2>4, <2>5, <2>6, <2>7 DEF GuiMessage
  <1> QED  BY <1>8, <1>9 DEF CInv, RestOK, HandleGuiMessage

LEMMA WindowKeeps ==
    ASSUME CInv, Reconnect \/ CheckDht \/ Quit
    PROVE  CInv'
  <1>1. net' = net /\ past' = past /\ ctz' = ctz /\ fails' = fails
    BY DEF Reconnect, CheckDht, Quit
  <1>2. win \in Window /\ toNet \in Seq({"connect", "disconnect", "exit_now"})
    BY DEF CInv, RestOK
  <1>3. win' \in Window /\ toNet' \in Seq({"connect", "disconnect", "exit_now"})
    <2>1. CASE Reconnect
      <3>1. win.timers - 1 \in Nat /\ win.tries + 1 \in Nat
        BY <1>2, <2>1 DEF Window, Reconnect
      <3>2. \/ win' = [win EXCEPT !.timers = win.timers - 1, !.tries = win.tries + 1]
            \/ win' = [win EXCEPT !.timers = win.timers - 1]
        BY <2>1 DEF Reconnect
      <3>3. win' \in Window
        BY <1>2, <3>1, <3>2 DEF Window
      <3>4. toNet' = toNet \/ toNet' = Append(toNet, "connect")
        BY <2>1 DEF Reconnect
      <3> QED  BY <1>2, <3>3, <3>4
    <2>2. CASE CheckDht
      <3>1. win.checks - 1 \in Nat
        BY <1>2, <2>2 DEF Window, CheckDht
      <3>2. PICK x \in BOOLEAN :
               x = (win.shown \/ (win.last = "dht_disconnected" /\ ~HelpOff))
        OBVIOUS
      <3>3. win' = [win EXCEPT !.checks = win.checks - 1, !.shown = x]
        BY <2>2, <3>2 DEF CheckDht
      <3> QED  BY <1>2, <2>2, <3>1, <3>3 DEF Window, CheckDht
    <2>3. CASE Quit
      <3>1. win' = [win EXCEPT !.open = FALSE, !.timers = 0, !.checks = 0]
        BY <2>3 DEF Quit
      <3>2. <<"disconnect", "exit_now">> \in Seq({"connect", "disconnect", "exit_now"})
        OBVIOUS
      <3>3. toNet' \in Seq({"connect", "disconnect", "exit_now"})
        BY <1>2, <2>3, <3>2, ConcatProperties DEF Quit
      <3> QED  BY <1>2, <3>1, <3>3 DEF Window
    <2> QED  BY <2>1, <2>2, <2>3
  <1> QED  BY <1>1, <1>3 DEF CInv, RestOK

-----------------------------------------------------------------------------
(* Theorems *)

\* The adapter aside, what a step of the networking thread or of the network
\* leaves is well typed.
LEMMA RestKeeps ==
    ASSUME CInv,
           \/ HandleConnect \/ HandleDisconnect \/ HandleExit \/ Update
           \/ DhtConnects \/ DhtFails \/ IpFetchEnds \/ ContactsEnd
           \/ GroupJoins \/ GroupEnds \/ CtzJoins \/ CtzFails \/ CtzEnds
    PROVE  RestOK'
  <1>1. RestOK /\ MaxDhtFails \in Nat /\ MaxGrpDrops \in Nat /\ MaxCtzDrops \in Nat
    BY ConnectingAssumption DEF CInv
  <1>2. win' = win
    BY DEF HandleConnect, HandleDisconnect, HandleExit, Update, DhtConnects, DhtFails,
           IpFetchEnds, ContactsEnd, GroupJoins, GroupEnds, CtzJoins, CtzFails, CtzEnds
  <1>3. ctz' \in GroupState
    <2>1. ctz' = ctz \/ ctz' \in {"joining", "leaving", "joined", "not_joined"}
      BY DEF HandleConnect, HandleDisconnect, HandleExit, Update, DhtConnects, DhtFails,
             IpFetchEnds, ContactsEnd, GroupJoins, GroupEnds, CtzJoins, CtzFails, CtzEnds
    <2> QED  BY <1>1, <2>1 DEF RestOK, GroupState
  <1>4. toNet' \in Seq({"connect", "disconnect", "exit_now"})
    <2>1. toNet' = toNet \/ (toNet # <<>> /\ toNet' = Tail(toNet))
      BY DEF HandleConnect, HandleDisconnect, HandleExit, Update, DhtConnects, DhtFails,
             IpFetchEnds, ContactsEnd, GroupJoins, GroupEnds, CtzJoins, CtzFails, CtzEnds
    <2>2. toNet \in Seq({"connect", "disconnect", "exit_now"})
      BY <1>1 DEF RestOK
    <2>3. CASE toNet # <<>> /\ toNet' = Tail(toNet)
      <3>1. Tail(toNet) \in Seq({"connect", "disconnect", "exit_now"})
        BY <2>2, <2>3, HeadTailProperties
      <3> QED  BY <2>3, <3>1
    <2> QED  BY <2>1, <2>2, <2>3
  <1>5. fails' \in [dht : 0..MaxDhtFails, grp : 0..MaxGrpDrops, ctz : 0..MaxCtzDrops]
    <2>1. \/ fails' = fails
          \/ fails.dht < MaxDhtFails /\ fails' = [fails EXCEPT !.dht = fails.dht + 1]
          \/ fails.grp < MaxGrpDrops /\ fails' = [fails EXCEPT !.grp = fails.grp + 1]
          \/ fails.ctz < MaxCtzDrops /\ fails' = [fails EXCEPT !.ctz = fails.ctz + 1]
      BY DEF HandleConnect, HandleDisconnect, HandleExit, Update, DhtConnects, DhtFails,
             IpFetchEnds, ContactsEnd, GroupJoins, GroupEnds, CtzJoins, CtzFails, CtzEnds
    <2> QED  BY <1>1, <2>1 DEF RestOK
  <1> QED  BY <1>2, <1>3, <1>4, <1>5, <1>1 DEF RestOK

LEMMA InitCInv ==
    ASSUME Init
    PROVE  CInv
  <1>1. PICK c \in IpConf, k \in BOOLEAN : net = NewAdapter(c, k)
    BY DEF Init
  <1>2. /\ net \in Adapter
        /\ net.grp = "not_joined" /\ net.held = "none" /\ net.dht = "none"
        /\ ~net.ipFlag /\ ~net.upd /\ net.notes = 0 /\ net.saves = 0 /\ ~net.after
    <2>1. <<>> \in Seq(GuiMessage)
      OBVIOUS
    <2> QED  BY <1>1, <2>1 DEF NewAdapter, Adapter, GroupState, DhtState
  <1>3. past \in Past /\ win \in Window
    BY DEF Init, Past, Window
  <1>4. JoinInv(net) /\ TryInv(net) /\ MissOk(net, past) /\ CoverOk(net, past)
        /\ IpOk(net, past) /\ UpdOk(net, past)
    BY <1>2 DEF JoinInv, HeldInv, TryInv, MissOk, CoverOk, IpOk, UpdOk, Missed, Uncovered,
                ReadyToJoin, InUse
  <1>5. <<"connect">> \in Seq({"connect", "disconnect", "exit_now"})
    OBVIOUS
  <1> QED
    BY <1>2, <1>3, <1>4, <1>5, ConnectingAssumption
    DEF CInv, AdapterInv, RestOK, Init, GroupState

LEMMA CInvKept == Spec => []CInv
  <1>1. CInv /\ [Next]_vars => CInv'
    <2> SUFFICES ASSUME CInv, [Next]_vars
                 PROVE  CInv'
      OBVIOUS
    <2>1. CASE HandleGuiMessage
      BY <2>1, GuiKeeps
    <2>2. CASE Reconnect \/ CheckDht \/ Quit
      BY <2>2, WindowKeeps
    <2>3. CASE \/ HandleConnect \/ HandleDisconnect \/ HandleExit \/ Update
               \/ DhtConnects \/ DhtFails \/ IpFetchEnds \/ ContactsEnd
               \/ GroupJoins \/ GroupEnds \/ CtzJoins \/ CtzFails \/ CtzEnds
      <3>1. CASE GroupJoins
        <4>1. InUse(net) /\ Becomes(GroupChanged(net, "joined"), past)
          BY <3>1 DEF GroupJoins, InUse
        <4> QED  BY <2>3, <4>1, GroupKeeps, RestKeeps DEF CInv
      <3>2. CASE GroupEnds
        <4>1. InUse(net) /\ Becomes(GroupChanged(net, "not_joined"), past)
          BY <3>2 DEF GroupEnds
        <4> QED  BY <2>3, <4>1, GroupKeeps, RestKeeps DEF CInv
      <3>3. CASE ~GroupJoins /\ ~GroupEnds
        BY <2>3, <3>3, RestKeeps, ConnectKeeps, DisconnectKeeps, ExitKeeps, UpdateKeeps,
           DhtConnectsKeeps, DhtFailsKeeps, IpFetchEndsKeeps, ContactsEndKeeps, ServerKeeps
        DEF CInv
      <3> QED  BY <3>1, <3>2, <3>3
    <2>4. CASE UNCHANGED vars
      BY <2>4 DEF vars, CInv, AdapterInv, RestOK, JoinInv, HeldInv, TryInv, MissOk, CoverOk,
                  IpOk, UpdOk, Missed, Uncovered, JoinThrew, ReadyToJoin, InUse
    <2> QED  BY <2>1, <2>2, <2>3, <2>4 DEF Next
  <1> QED  BY <1>1, InitCInv, PTL DEF Spec

\* Every variable keeps its type, whatever the network does and however late
\* the window handles what it is told.
THEOREM TypeCorrect == Spec => []TypeOK
  <1>1. CInv => TypeOK
    BY DEF CInv, AdapterInv, RestOK, TypeOK
  <1> QED  BY <1>1, CInvKept, PTL

\* Whichever comes last, the DHT or the address, the group is handed the client
\* and told to join then: with both there it is in use, its join threw, or it
\* has ended after both were there (_cond_group_join and its callers, and
\* group_adapter_base::connect).
THEOREM NoJoinIsMissed == Spec => []NoMissedJoin
  <1>1. CInv => NoMissedJoin
    BY DEF CInv, AdapterInv, MissOk, Missed, NoMissedJoin, Running
  <1> QED  BY <1>1, CInvKept, PTL

\* _external_ip_fetching is set only while a fetch is open that clears it,
\* unless this fetch has ended inside its own call.
THEOREM IpFlagIsHonest == Spec => []IpFlagHonest
  <1>1. CInv => IpFlagHonest
    BY DEF CInv, AdapterInv, IpOk, IpFlagHonest
  <1> QED  BY <1>1, CInvKept, PTL

\* _updating_contacts is set only while an update is to come or its fetch is
\* open, unless its start threw, and there is one at a time, unless one deleted a
\* client that was connecting and none has been over since.
THEOREM UpdateIsHonest == Spec => []UpdateHonest
  <1>1. CInv => UpdateHonest
    <2> SUFFICES ASSUME CInv
                 PROVE  UpdateHonest
      OBVIOUS
    <2>1. net.notes \in Nat /\ net.saves \in Nat /\ UpdOk(net, past)
      BY DEF CInv, AdapterInv, Adapter
    <2> QED  BY <2>1 DEF UpdOk, UpdateHonest
  <1> QED  BY <1>1, CInvKept, PTL

\* The group never keeps a deleted DHT client, unless the DHT was lost or deleted
\* under it and is not back (_cond_group_join, delete_client).
THEOREM GroupKeepsClient == Spec => []GroupHasClient
  <1>1. CInv => GroupHasClient
    BY DEF CInv, AdapterInv, JoinInv, CoverOk, Uncovered, GroupHasClient
  <1> QED  BY <1>1, CInvKept, PTL
=============================================================================
