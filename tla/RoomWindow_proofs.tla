-------------------------- MODULE RoomWindow_proofs --------------------------
(* Theorems about RoomWindow, for every set of groups and every bound. *)
EXTENDS RoomWindow, SequenceTheorems, WellFoundedInduction, TLAPS

-----------------------------------------------------------------------------
(* Dialogs on top of each other *)

\* A dialog that opens goes on top of the others.
LEMMA AppendDialog ==
    ASSUME NEW ds \in Seq(Dialog), NEW d \in Dialog
    PROVE  /\ Append(ds, d) \in Seq(Dialog)
           /\ DOMAIN Append(ds, d) = 1..(Len(ds) + 1)
           /\ DOMAIN ds = 1..Len(ds)
           /\ Len(ds) \in Nat
           /\ \A i \in 1..Len(ds) : Append(ds, d)[i] = ds[i]
           /\ Append(ds, d)[Len(ds) + 1] = d
  OBVIOUS

\* The dialog on top ends: the others stay.
LEMMA FrontDialogs ==
    ASSUME NEW ds \in Seq(Dialog), ds # <<>>
    PROVE  /\ Front(ds) \in Seq(Dialog)
           /\ Len(ds) \in Nat \ {0}
           /\ DOMAIN ds = 1..Len(ds)
           /\ DOMAIN Front(ds) = 1..(Len(ds) - 1)
           /\ \A i \in 1..(Len(ds) - 1) : Front(ds)[i] = ds[i]
           /\ Last(ds) = ds[Len(ds)]
           /\ Last(ds) \in Dialog
  BY DEF Front, Last

-----------------------------------------------------------------------------
(* Type correctness *)

LEMMA BoundsType == MaxNum \in Nat /\ \A s \in Sender : MaxSent[s] \in 0..MaxNum
  BY WindowAssumption DEF MaxNum, Sender

\* A set of numbers that is not empty has a greatest one.
LEMMA MaxOfNumbers ==
    ASSUME NEW S \in SUBSET Number, S # {}
    PROVE  Max(S) \in S /\ \A j \in S : Max(S) >= j
  <1> DEFINE T == {MaxNum - k : k \in S}
  <1>1. T \subseteq Nat /\ T # {}
    <2>1. \A k \in S : MaxNum - k \in Nat
      BY BoundsType DEF Number
    <2> QED  BY <2>1
  <1>2. \E x \in T : \A y \in T : ~(<<y, x>> \in OpToRel(<, Nat))
    <2> HIDE DEF T
    <2> QED  BY <1>1, NatLessThanWellFounded, WFMin
  <1>3. PICK x \in T : \A y \in T : ~(<<y, x>> \in OpToRel(<, Nat))
    BY <1>2
  <1>4. \A y \in T : x <= y
    <2> TAKE y \in T
    <2>1. x \in Nat /\ y \in Nat /\ ~(<<y, x>> \in OpToRel(<, Nat))
      BY <1>1, <1>3
    <2>2. ~(y < x)
      BY <2>1, Zenon DEF OpToRel
    <2>3. x \in Nat /\ y \in Nat
      BY <2>1
    <2> HIDE DEF T
    <2> QED  BY <2>2, <2>3
  <1>5. PICK k \in S : x = MaxNum - k
    OBVIOUS
  <1>6. \A j \in S : k >= j
    <2> TAKE j \in S
    <2>1. MaxNum - k <= MaxNum - j
      BY <1>4, <1>5
    <2> QED  BY <2>1, BoundsType DEF Number
  <1> QED  BY <1>6 DEF Max

LEMMA NotedType ==
    ASSUME TypeOK, NEW mds, NEW g \in Group, NEW m \in Message
    PROVE  /\ Noted(mds, g, m) \in Past
           /\ Noted(mds, g, m).refused = past.refused
           /\ Noted(mds, g, m).again = past.again
  <1>1. CASE m.num = 0
    BY <1>1 DEF Noted, TypeOK
  <1>2. CASE m.num # 0
    <2> DEFINE own   == m.kind # "ack"
               later == {k \in past.came[m.from] : k > m.num + past.lag}
               came  == [past.came EXCEPT
                            ![m.from] = IF own THEN @ \cup {m.num} ELSE @]
               lag   == IF own /\ later # {} THEN Max(later) - m.num ELSE past.lag
    <2>1. m.num \in Number /\ m.from \in Sender /\ past \in Past
      BY <1>2, BoundsType DEF Message, Number, TypeOK
    <2>2. came \in [Sender -> SUBSET Number]
      BY <2>1 DEF Past
    <2>3. lag \in 0..MaxNum
      <3>1. CASE own /\ later # {}
        <4>1. later \in SUBSET Number
          BY <2>1 DEF Past
        <4>2. Max(later) \in later
          BY <3>1, <4>1, MaxOfNumbers
        <4>3. past.lag \in 0..MaxNum /\ Max(later) > m.num + past.lag
              /\ Max(later) \in Number
          BY <2>1, <4>1, <4>2 DEF Past
        <4> HIDE DEF later
        <4> QED  BY <2>1, <3>1, <4>3, BoundsType DEF Number
      <3>2. CASE ~(own /\ later # {})
        BY <2>1, <3>2 DEF Past
      <3> QED  BY <3>1, <3>2
    <2>4. \E twice, lost \in BOOLEAN :
            Noted(mds, g, m) = [past EXCEPT !.came = came, !.lag = lag,
                                            !.twice = twice, !.lost = lost]
      <3> HIDE DEF later
      <3>1. Noted(mds, g, m) =
              [past EXCEPT !.came = came, !.lag = lag,
                 !.twice = (@ \/ (~Ambiguous(m) /\ ~Filtered(m) /\ m.num \in past.came[m.from])),
                 !.lost = (@ \/ (~Ambiguous(m) /\ IF Filtered(m)
                                                 THEN m.num \notin past.came[m.from]
                                                 ELSE ~Shown(mds[g], m)))]
        BY <1>2, Zenon DEF Noted, later
      <3> QED  BY <3>1, <2>1, Zenon
    <2> HIDE DEF came, lag
    <2> QED  BY <2>1, <2>2, <2>3, <2>4 DEF Past
  <1> QED  BY <1>1, <1>2

LEMMA ShortSeqs ==
    /\ \A S : \A a \in S : <<a>> \in Seq(S)
    /\ \A S : \A a, b \in S : <<a, b>> \in Seq(S)
  OBVIOUS

LEMMA ShortConcats ==
    /\ \A a : <<>> \o <<a>> = <<a>>
    /\ \A a, b : <<a>> \o <<b>> = <<a, b>>
  <1>1. ASSUME NEW a PROVE <<>> \o <<a>> = <<a>>
    <2>1. <<a>> \in Seq({a})
      BY ShortSeqs
    <2> QED  BY <2>1, ConcatEmptySeq
  <1>2. ASSUME NEW a, NEW b PROVE <<a>> \o <<b>> = <<a, b>>
    <2> DEFINE S == {a, b}
    <2>1. <<a>> \in Seq(S) /\ <<b>> \in Seq(S) /\ <<a, b>> \in Seq(S)
      BY ShortSeqs
    <2>2. Len(<<a>>) = 1 /\ Len(<<b>>) = 1 /\ Len(<<a, b>>) = 2
      OBVIOUS
    <2> HIDE DEF S
    <2>3. /\ <<a>> \o <<b>> \in Seq(S) /\ Len(<<a>> \o <<b>>) = 2
          /\ (<<a>> \o <<b>>)[1] = a /\ (<<a>> \o <<b>>)[2] = b
      BY <2>1, <2>2, ConcatProperties
    <2> DEFINE ab == <<a>> \o <<b>>
    <2>4. \A i \in 1..2 : i = 1 \/ i = 2
      OBVIOUS
    <2>5. <<a, b>>[1] = a /\ <<a, b>>[2] = b
      OBVIOUS
    <2>6. \A i \in 1..2 : ab[i] = <<a, b>>[i]
      <3>1. ab[1] = a /\ ab[2] = b
        BY <2>3
      <3> HIDE DEF ab
      <3> QED  BY <2>4, <2>5, <3>1
    <2>7. ab \in Seq(S) /\ Len(ab) = 2
      BY <2>3
    <2> HIDE DEF ab
    <2>8. ab = <<a, b>>
      BY <2>1, <2>2, <2>6, <2>7, SeqEqual
    <2> QED  BY <2>8 DEF ab
  <1> QED  BY <1>1, <1>2

LEMMA MsgType ==
    ASSUME NEW k \in Kind, NEW s \in Sender, NEW n \in 0..MaxNum, NEW y \in BOOLEAN
    PROVE  Msg(k, s, n, y) \in Message
  BY DEF Msg, Message

LEMMA SentType ==
    ASSUME TypeOK, NEW s \in Sender, NEW ms \in Seq(Message)
    PROVE  Sent(s, ms) \in [Group -> Seq(Message)]
  BY DEF Sent, TypeOK

\* The filter remembers as many numbers as it may.
LEMMA RememberedType ==
    ASSUME TypeOK, NEW s \in Sender, NEW n \in Number
    PROVE  Remembered(s, n) \in Seq(Number) /\ Len(Remembered(s, n)) <= MaxSeqs
  <1>1. seen[s] \in Seq(Number) /\ Len(seen[s]) <= MaxSeqs /\ MaxSeqs \in Nat \ {0}
    BY WindowAssumption DEF TypeOK
  <1>2. <<n>> \in Seq(Number) /\ Len(<<n>>) = 1
    OBVIOUS
  <1>3. CASE Len(seen[s]) >= MaxSeqs
    <2>1. /\ Front(seen[s]) \in Seq(Number)
          /\ Len(Front(seen[s])) = Len(seen[s]) - 1
      BY <1>1, <1>3 DEF Front
    <2>2. /\ <<n>> \o Front(seen[s]) \in Seq(Number)
          /\ Len(<<n>> \o Front(seen[s])) = Len(seen[s])
      BY <1>1, <1>2, <2>1, ConcatProperties
    <2> QED  BY <1>1, <1>3, <2>2 DEF Remembered
  <1>4. CASE ~(Len(seen[s]) >= MaxSeqs)
    <2>1. /\ <<n>> \o seen[s] \in Seq(Number)
          /\ Len(<<n>> \o seen[s]) = 1 + Len(seen[s])
      BY <1>1, <1>2, ConcatProperties
    <2> QED  BY <1>1, <1>4, <2>1 DEF Remembered
  <1> QED  BY <1>3, <1>4

ModelEntry == [known : SUBSET Sender, plays : BOOLEAN, listed : BOOLEAN]

LEMMA EnteredType ==
    ASSUME NEW md \in ModelEntry, NEW m \in Message
    PROVE  /\ Entered(md, m) \in ModelEntry
           /\ m.kind # "room_remove" => Entered(md, m).listed = md.listed
  <1>1. m.from \in Sender /\ m.yes \in BOOLEAN
    BY DEF Message
  <1>2. CASE m.kind = "user"
    BY <1>1, <1>2 DEF Entered, ModelEntry
  <1>3. CASE m.kind = "left"
    BY <1>1, <1>3 DEF Entered, ModelEntry
  <1>4. CASE m.kind = "room_remove"
    BY <1>4 DEF Entered, ModelEntry
  <1>5. CASE m.kind \notin {"user", "left", "room_remove"}
    BY <1>5 DEF Entered
  <1> QED  BY <1>2, <1>3, <1>4, <1>5

\* A try to launch opens a dialog at most.
LEMMA LaunchRvType ==
    ASSUME TypeOK, LaunchRv
    PROVE  /\ dialogs' \in Seq(Dialog) /\ modal' \in BOOLEAN /\ playing' \in BOOLEAN
           /\ past' \in Past
  <1> USE DEF TypeOK, Opens, Dialog
  <1>1. CASE ~PlayingHost
    BY <1>1 DEF LaunchRv
  <1>2. CASE Opens("too_late", FALSE) /\ UNCHANGED <<playing, past>>
    BY <1>2
  <1>3. CASE Opens("error", TRUE) /\ UNCHANGED <<playing, past>>
    BY <1>3
  <1>4. CASE /\ Opens("launched", TRUE)
             /\ playing' = TRUE
             /\ past' = [past EXCEPT !.again = @ \/ playing]
    <2>1. past' \in Past
      BY <1>4 DEF Past
    <2>2. dialogs' \in Seq(Dialog) /\ modal' \in BOOLEAN
      BY <1>4
    <2> QED  BY <1>4, <2>1, <2>2
  <1> QED  BY <1>1, <1>2, <1>3, <1>4 DEF LaunchRv

LEMMA InitTypeOK == Init => TypeOK
  <1> SUFFICES ASSUME Init PROVE TypeOK
    OBVIOUS
  <1>1. /\ host \in [num : 0..MaxNum, playing : BOOLEAN, open : BOOLEAN, acked : BOOLEAN]
        /\ other \in 0..MaxNum
    BY BoundsType DEF Init
  <1>2. /\ up \in [Group -> SUBSET Sender]
        /\ net \in [Group -> Seq(Message)]
        /\ model \in [Group -> ModelEntry]
    BY DEF Init, ModelEntry
  <1>3. seen \in [Sender -> Seq(Number)] /\ \A s \in Sender : Len(seen[s]) <= MaxSeqs
    BY WindowAssumption DEF Init
  <1>4. /\ join \in BOOLEAN /\ win \in {"none", "open", "gone"} /\ timers \in Nat
        /\ modal \in BOOLEAN /\ playing \in BOOLEAN /\ chat \in BOOLEAN
    BY DEF Init
  <1>6. dialogs \in Seq(Dialog)
    BY EmptySeq DEF Init
  <1>5. past \in Past
    BY BoundsType DEF Init, Past
  <1> QED  BY <1>1, <1>2, <1>3, <1>4, <1>5, <1>6 DEF TypeOK, ModelEntry

\* What the others do changes host, other, up and net.
LEMMA OthersTypeOK ==
    ASSUME TypeOK, UNCHANGED gui,
           \/ HostLaunches \/ HostStops \/ HostKicks \/ HostCloses \/ HostAcks
           \/ OtherWrites \/ OtherWritesPrivate
           \/ \E g \in Group, s \in Sender : NodeLost(g, s)
    PROVE  TypeOK'
  <1>1. SUFFICES /\ host' \in [num : 0..MaxNum, playing : BOOLEAN, open : BOOLEAN,
                                acked : BOOLEAN]
                 /\ other' \in 0..MaxNum
                 /\ up' \in [Group -> SUBSET Sender]
                 /\ net' \in [Group -> Seq(Message)]
    BY DEF TypeOK, gui
  <1>2. Host \in Sender /\ Other \in Sender /\ 0 \in 0..MaxNum /\ Request \in 0..MaxNum
    BY BoundsType, WindowAssumption DEF Sender, Number
  <1>3. CASE HostLaunches
    <2>1. host.num + 1 \in 0..MaxNum
      BY <1>2, <1>3, BoundsType DEF HostLaunches, TypeOK
    <2>2. <<Msg("launch", Host, host.num + 1, FALSE), Msg("user", Host, 0, TRUE)>> \in Seq(Message)
      BY <1>2, <2>1, MsgType, ShortSeqs DEF Kind
    <2> QED  BY <1>2, <1>3, <2>1, <2>2, SentType DEF HostLaunches, TypeOK
  <1>4. CASE HostStops
    <2>1. <<Msg("user", Host, 0, FALSE)>> \in Seq(Message)
      BY <1>2, MsgType, ShortSeqs DEF Kind
    <2> QED  BY <1>2, <1>4, <2>1, SentType DEF HostStops, TypeOK
  <1>5. CASE HostKicks
    <2>1. host.num + 1 \in 0..MaxNum
      BY <1>2, <1>5, BoundsType DEF HostKicks, TypeOK
    <2>2. PICK guest \in BOOLEAN :
             net' = Sent(Host, <<Msg("kick", Host, host.num + 1, guest)>>)
      BY <1>5 DEF HostKicks
    <2>3. <<Msg("kick", Host, host.num + 1, guest)>> \in Seq(Message)
      BY <1>2, <2>1, MsgType, ShortSeqs DEF Kind
    <2>4. net' \in [Group -> Seq(Message)]
      BY <1>2, <2>2, <2>3, SentType
    <2> QED  BY <1>5, <2>1, <2>4 DEF HostKicks, TypeOK
  <1>6. CASE HostCloses
    <2>1. <<Msg("room_remove", Host, 0, FALSE), Msg("user", Host, 0, FALSE)>> \in Seq(Message)
      BY <1>2, MsgType, ShortSeqs DEF Kind
    <2> QED  BY <1>2, <1>6, <2>1, SentType DEF HostCloses, TypeOK
  <1>7. CASE HostAcks
    <2>1. <<Msg("ack", Host, Request, FALSE)>> \in Seq(Message)
      BY <1>2, MsgType, ShortSeqs DEF Kind
    <2> QED  BY <1>2, <1>7, <2>1, SentType DEF HostAcks, TypeOK
  <1>8. ASSUME NEW kind \in {"line", "private"}, OtherSends(kind)
        PROVE  <1>1!1
    <2>1. other + 1 \in 0..MaxNum
      BY <1>2, <1>8, BoundsType DEF OtherSends, TypeOK
    <2>2. <<Msg(kind, Other, other + 1, FALSE)>> \in Seq(Message)
      BY <1>2, <2>1, MsgType, ShortSeqs DEF Kind
    <2> QED  BY <1>2, <1>8, <2>1, <2>2, SentType DEF OtherSends, TypeOK
  <1>9. ASSUME NEW g \in Group, NEW s \in Sender, NodeLost(g, s)
        PROVE  <1>1!1
    <2> DEFINE closed == IF s = Host /\ host.open THEN <<Msg("room_remove", s, 0, FALSE)>>
                         ELSE <<>>
               news == <<Msg("left", s, 0, FALSE)>>
    <2>1. closed \in Seq(Message) /\ news \in Seq(Message)
      <3>1. /\ <<Msg("room_remove", s, 0, FALSE)>> \in Seq(Message)
            /\ news \in Seq(Message)
        BY <1>2, MsgType, ShortSeqs DEF Kind
      <3> QED  BY <3>1, EmptySeq
    <2>2. net' = [net EXCEPT ![g] = @ \o closed \o news]
      BY <1>9 DEF NodeLost
    <2>3. net[g] \o closed \o news \in Seq(Message)
      <3> HIDE DEF closed, news
      <3> QED  BY <2>1 DEF TypeOK
    <2>4. net' \in [Group -> Seq(Message)]
      <3> HIDE DEF closed, news
      <3> QED  BY <2>2, <2>3 DEF TypeOK
    <2>5. up' \in [Group -> SUBSET Sender]
      BY <1>9 DEF NodeLost, TypeOK
    <2> QED  BY <1>9, <2>4, <2>5 DEF NodeLost, TypeOK
  <1> QED  BY <1>3, <1>4, <1>5, <1>6, <1>7, <1>8, <1>9 DEF OtherWrites, OtherWritesPrivate

\* A message that came for the guest is well typed.
LEMMA HeadType ==
    ASSUME TypeOK, NEW g \in Group, net[g] # <<>>
    PROVE  /\ Head(net[g]) \in Message
           /\ Head(net[g]).from \in Sender
           /\ Head(net[g]).num # 0 => Head(net[g]).num \in Number
           /\ [net EXCEPT ![g] = Tail(@)] \in [Group -> Seq(Message)]
  <1>1. Head(net[g]) \in Message /\ Tail(net[g]) \in Seq(Message)
    BY HeadTailProperties DEF TypeOK
  <1>2. /\ Head(net[g]).from \in Sender
        /\ Head(net[g]).num # 0 => Head(net[g]).num \in Number
    BY <1>1, BoundsType DEF Message, Number
  <1> QED  BY <1>1, <1>2 DEF TypeOK

\* What a message that is not a copy changes in the windows.
LEMMA WindowsType ==
    ASSUME TypeOK, NEW mds, NEW g \in Group, NEW m, RoomWindowHandles(mds, g, m)
    PROVE  win' \in {"none", "open", "gone"} /\ timers' \in Nat
  BY DEF RoomWindowHandles, TypeOK

LEMMA HandleMessageTypeOK ==
    ASSUME TypeOK, NEW g \in Group, HandleMessage(g)
    PROVE  TypeOK'
  <1> DEFINE m   == Head(net[g])
             mds == [model EXCEPT ![g] = Entered(@, m)]
  <1>1. /\ net' \in [Group -> Seq(Message)]
        /\ m \in Message /\ m.from \in Sender
        /\ m.num # 0 => m.num \in Number
        /\ UNCHANGED <<host, other, up, dialogs, modal, playing>>
    BY HeadType DEF HandleMessage
  <1>2. mds \in [Group -> ModelEntry]
    BY <1>1, EnteredType DEF TypeOK, ModelEntry
  <1>3. Noted(mds, g, m) \in Past
    BY <1>1, NotedType
  <1>4. SUFFICES /\ model' \in [Group -> ModelEntry]
                 /\ seen' \in [Sender -> Seq(Number)]
                 /\ \A s \in Sender : Len(seen'[s]) <= MaxSeqs
                 /\ join' \in BOOLEAN
                 /\ win' \in {"none", "open", "gone"}
                 /\ timers' \in Nat
                 /\ chat' \in BOOLEAN
                 /\ past' \in Past
    BY <1>1 DEF TypeOK, ModelEntry
  <1>5. CASE Filtered(m)
    <2>1. past' = Noted(mds, g, m) /\ UNCHANGED <<model, seen, join, win, timers, chat>>
      BY <1>5 DEF HandleMessage
    <2> QED  BY <1>3, <2>1 DEF TypeOK, ModelEntry
  <1>6. CASE ~Filtered(m)
    <2>1. model' = mds
      BY <1>6 DEF HandleMessage
    <2>2. /\ seen' \in [Sender -> Seq(Number)]
          /\ \A s \in Sender : Len(seen'[s]) <= MaxSeqs
      <3>1. seen' = IF m.num = 0 THEN seen
                    ELSE [seen EXCEPT ![m.from] = Remembered(m.from, m.num)]
        BY <1>6 DEF HandleMessage
      <3> HIDE DEF m
      <3> QED  BY <1>1, <3>1, RememberedType DEF TypeOK
    <2>3. /\ join' \in BOOLEAN
          /\ win' \in {"none", "open", "gone"}
          /\ timers' \in Nat
      <3>1. CASE m.kind = "ack" /\ join
        BY <1>6, <3>1 DEF HandleMessage, TypeOK
      <3>2. CASE ~(m.kind = "ack" /\ join)
        <4>1. RoomWindowHandles(mds, g, m) /\ UNCHANGED join
          BY <1>6, <3>2 DEF HandleMessage
        <4> QED  BY <4>1, WindowsType DEF TypeOK
      <3> QED  BY <3>1, <3>2
    <2>4. chat' \in BOOLEAN
      BY <1>6 DEF HandleMessage, TypeOK
    <2>5. past' \in Past
      <3>1. past' = [Noted(mds, g, m) EXCEPT
                       !.refused = @ \/ (win = "open" /\ MustClose(mds, g, m) /\ win' = win)]
        BY <1>6 DEF HandleMessage
      <3> QED  BY <1>3, <3>1 DEF Past
    <2> QED  BY <1>2, <2>1, <2>2, <2>3, <2>4, <2>5
  <1> QED  BY <1>5, <1>6

LEMMA NextTypeOK ==
    ASSUME TypeOK, [Next]_vars
    PROVE  TypeOK'
  <1>1. CASE \/ HostLaunches \/ HostStops \/ HostKicks \/ HostCloses \/ HostAcks
             \/ OtherWrites \/ OtherWritesPrivate
             \/ \E g \in Group, s \in Sender : NodeLost(g, s)
    <2>1. UNCHANGED gui
      BY <1>1 DEF HostLaunches, HostStops, HostKicks, HostCloses, HostAcks,
                  OtherWrites, OtherWritesPrivate, OtherSends, NodeLost
    <2> QED  BY <1>1, <2>1, OthersTypeOK
  <1>2. ASSUME NEW g \in Group, HandleMessage(g)
        PROVE  TypeOK'
    BY <1>2, HandleMessageTypeOK
  <1>3. CASE ClickLaunch
    BY <1>3, LaunchRvType DEF ClickLaunch, TypeOK, wires
  <1>4. CASE TimerFires
    <2>1. timers' \in Nat
      BY <1>4 DEF TimerFires, TypeOK
    <2>2. /\ dialogs' \in Seq(Dialog) /\ modal' \in BOOLEAN /\ playing' \in BOOLEAN
          /\ past' \in Past
      BY <1>4, LaunchRvType DEF TimerFires
    <2> QED  BY <1>4, <2>1, <2>2 DEF TimerFires, TypeOK, wires
  <1>5. CASE CloseDialog
    <2>1. /\ dialogs' \in Seq(Dialog) /\ modal' \in BOOLEAN
          /\ playing' \in BOOLEAN
      BY <1>5, FrontDialogs DEF CloseDialog, PlayingAfter, TypeOK, Dialog
    <2> QED  BY <1>5, <2>1 DEF CloseDialog, TypeOK, wires
  <1>6. CASE OpenPrivate
    BY <1>6 DEF OpenPrivate, TypeOK, wires
  <1>7. CASE UserCloses
    <2>1. win' \in {"none", "open", "gone"} /\ timers' \in Nat /\ chat' \in BOOLEAN
      <3>1. CASE win' = "gone" /\ timers' = 0 /\ UNCHANGED chat
        BY <3>1 DEF TypeOK
      <3>2. CASE chat' = FALSE /\ UNCHANGED <<win, timers>>
        BY <3>2 DEF TypeOK
      <3> QED  BY <1>7, <3>1, <3>2 DEF UserCloses
    <2>2. UNCHANGED <<wires, model, seen, join, dialogs, modal, playing, past>>
      BY <1>7 DEF UserCloses
    <2> QED  BY <2>1, <2>2 DEF TypeOK, wires
  <1>8. CASE UNCHANGED vars
    BY <1>8 DEF vars, TypeOK
  <1> QED  BY <1>1, <1>2, <1>3, <1>4, <1>5, <1>6, <1>7, <1>8 DEF Next

\* Every reachable state is well typed: the filter never remembers more than
\* it may, whatever comes over however many groups (house_app.cpp:640-647).
THEOREM TypeCorrect == Spec => []TypeOK
  BY InitTypeOK, NextTypeOK, PTL DEF Spec

-----------------------------------------------------------------------------
(* The dialogs of the window and what the program remembers of them *)

Guarded(d) == d.kind # "too_late"

\* _running_modal says whether a dialog that counts runs, and what a dialog
\* saved whether one runs below it; launches are shown on top of each other
\* only when one was shown while another was.
DialogsInv ==
    /\ modal <=> \E i \in DOMAIN dialogs : Guarded(dialogs[i])
    /\ \A i \in DOMAIN dialogs :
          dialogs[i].saved <=> \E j \in 1..(i - 1) : Guarded(dialogs[j])
    /\ ~past.again => \A i, j \in DOMAIN dialogs :
                         dialogs[i].kind = "launched" /\ dialogs[j].kind = "launched" => i = j

PlayInv == DialogsInv /\ PlayingShown

LEMMA DialogOpens ==
    ASSUME TypeOK, PlayInv,
           NEW kind \in {"launched", "too_late", "error"}, NEW guarded \in BOOLEAN,
           guarded <=> kind # "too_late",
           Opens(kind, guarded),
           IF kind = "launched"
           THEN playing' = TRUE /\ past' = [past EXCEPT !.again = @ \/ playing]
           ELSE UNCHANGED <<playing, past>>
    PROVE  PlayInv'
  <1> DEFINE d == [kind |-> kind, saved |-> modal]
             n == Len(dialogs)
  <1>1. dialogs \in Seq(Dialog) /\ d \in Dialog /\ dialogs' = Append(dialogs, d)
    BY DEF TypeOK, Opens, Dialog
  <1>2. /\ n \in Nat
        /\ DOMAIN dialogs = 1..n /\ DOMAIN dialogs' = 1..(n + 1)
        /\ \A i \in 1..n : dialogs'[i] = dialogs[i]
        /\ dialogs'[n + 1] = d
    BY <1>1, AppendDialog
  <1>3. modal' <=> modal \/ guarded
    BY DEF Opens
  <1>4. d.kind = kind /\ (d.saved <=> modal)
    OBVIOUS
  <1>5. past'.again <=> past.again \/ (kind = "launched" /\ playing)
    BY DEF TypeOK, Past
  <1> HIDE DEF d, n
  <1>6. (modal <=> \E i \in DOMAIN dialogs : Guarded(dialogs[i]))'
    BY <1>2, <1>3, <1>4 DEF PlayInv, DialogsInv, Guarded
  <1>7. ASSUME NEW i \in DOMAIN dialogs'
        PROVE  dialogs'[i].saved <=> \E j \in 1..(i - 1) : Guarded(dialogs'[j])
    <2>1. CASE i \in 1..n
      <3>1. \A j \in 1..(i - 1) : dialogs'[j] = dialogs[j]
        BY <1>2, <2>1
      <3> QED  BY <1>2, <2>1, <3>1 DEF PlayInv, DialogsInv
    <2>2. CASE i = n + 1
      <3>1. \A j \in 1..(i - 1) : dialogs'[j] = dialogs[j]
        BY <1>2, <2>2
      <3>2. 1..(i - 1) = DOMAIN dialogs
        BY <1>2, <2>2
      <3> QED  BY <1>2, <1>4, <2>2, <3>1, <3>2 DEF PlayInv, DialogsInv
    <2> QED  BY <1>2, <1>7, <2>1, <2>2
  <1>8. ASSUME ~past'.again, NEW i \in DOMAIN dialogs', NEW j \in DOMAIN dialogs',
               dialogs'[i].kind = "launched", dialogs'[j].kind = "launched"
        PROVE  i = j
    <2>1. kind = "launched" => \A k \in DOMAIN dialogs : dialogs[k].kind # "launched"
      BY <1>5, <1>8 DEF PlayInv, PlayingShown
    <2>2. ~past.again
      BY <1>5, <1>8
    <2> QED  BY <1>2, <1>4, <1>8, <2>1, <2>2 DEF PlayInv, DialogsInv
  <1>9. PlayingShown'
    <2>1. CASE kind = "launched"
      <3>1. n + 1 \in DOMAIN dialogs' /\ dialogs'[n + 1].kind = "launched"
        BY <1>2, <1>4, <2>1
      <3>2. playing' = TRUE
        BY <2>1
      <3> QED  BY <3>1, <3>2 DEF PlayingShown
    <2>2. CASE kind # "launched"
      <3>1. (\E i \in DOMAIN dialogs' : dialogs'[i].kind = "launched")
              <=> \E i \in DOMAIN dialogs : dialogs[i].kind = "launched"
        BY <1>2, <1>4, <2>2
      <3> QED  BY <2>2, <3>1 DEF PlayInv, PlayingShown
    <2> QED  BY <2>1, <2>2
  <1> QED  BY <1>6, <1>7, <1>8, <1>9 DEF PlayInv, DialogsInv

LEMMA LaunchRvPlayInv ==
    ASSUME TypeOK, PlayInv, LaunchRv
    PROVE  PlayInv'
  <1>1. CASE UNCHANGED <<dialogs, modal, playing, past>>
    BY <1>1 DEF PlayInv, DialogsInv, PlayingShown
  <1>2. CASE Opens("too_late", FALSE) /\ UNCHANGED <<playing, past>>
    BY <1>2, DialogOpens
  <1>3. CASE Opens("error", TRUE) /\ UNCHANGED <<playing, past>>
    BY <1>3, DialogOpens
  <1>4. CASE /\ Opens("launched", TRUE)
             /\ playing' = TRUE
             /\ past' = [past EXCEPT !.again = @ \/ playing]
    BY <1>4, DialogOpens
  <1> QED  BY <1>1, <1>2, <1>3, <1>4 DEF LaunchRv

LEMMA DialogCloses ==
    ASSUME TypeOK, PlayInv, CloseDialog
    PROVE  PlayInv'
  <1> DEFINE n == Len(dialogs)
  <1>1. /\ n \in Nat \ {0}
        /\ DOMAIN dialogs = 1..n /\ DOMAIN dialogs' = 1..(n - 1)
        /\ \A i \in 1..(n - 1) : dialogs'[i] = dialogs[i]
        /\ modal' = dialogs[n].saved
        /\ playing' = (playing /\ dialogs[n].kind # "launched")
        /\ past' = past
    BY FrontDialogs DEF CloseDialog, PlayingAfter, TypeOK
  <1> HIDE DEF n
  <1>2. (modal <=> \E i \in DOMAIN dialogs : Guarded(dialogs[i]))'
    <2>1. \A j \in DOMAIN dialogs' : dialogs'[j] = dialogs[j]
      BY <1>1
    <2>2. n \in DOMAIN dialogs /\ 1..(n - 1) = DOMAIN dialogs'
      BY <1>1
    <2> QED  BY <1>1, <2>1, <2>2 DEF PlayInv, DialogsInv
  <1>3. ASSUME NEW i \in DOMAIN dialogs'
        PROVE  dialogs'[i].saved <=> \E j \in 1..(i - 1) : Guarded(dialogs'[j])
    <2>1. i \in DOMAIN dialogs /\ \A j \in 1..(i - 1) : dialogs'[j] = dialogs[j]
      BY <1>1, <1>3
    <2> QED  BY <1>1, <1>3, <2>1 DEF PlayInv, DialogsInv
  <1>4. ASSUME ~past'.again, NEW i \in DOMAIN dialogs', NEW j \in DOMAIN dialogs',
               dialogs'[i].kind = "launched", dialogs'[j].kind = "launched"
        PROVE  i = j
    BY <1>1, <1>4 DEF PlayInv, DialogsInv
  <1>5. PlayingShown'
    <2> SUFFICES
          /\ playing' => \E i \in 1..(n - 1) : dialogs[i].kind = "launched"
          /\ (\E i \in 1..(n - 1) : dialogs[i].kind = "launched") => playing' \/ past.again
      BY <1>1 DEF PlayingShown, TypeOK
    <2>1. /\ playing => \E i \in 1..n : dialogs[i].kind = "launched"
          /\ (\E i \in 1..n : dialogs[i].kind = "launched") => playing \/ past.again
      BY <1>1 DEF PlayInv, PlayingShown
    <2>2. ~past.again => \A i, j \in 1..n :
             dialogs[i].kind = "launched" /\ dialogs[j].kind = "launched" => i = j
      BY <1>1 DEF PlayInv, DialogsInv
    <2>3. n \in 1..n /\ n \notin 1..(n - 1) /\ 1..n = 1..(n - 1) \cup {n}
      BY <1>1
    <2>4. playing' <=> playing /\ dialogs[n].kind # "launched"
      BY <1>1
    <2> QED  BY <2>1, <2>2, <2>3, <2>4
  <1> QED  BY <1>2, <1>3, <1>4, <1>5 DEF PlayInv, DialogsInv

\* Messages open no dialog.
LEMMA HandleMessageKeepsDialogs ==
    ASSUME TypeOK, NEW g \in Group, HandleMessage(g)
    PROVE  UNCHANGED <<dialogs, modal, playing>> /\ past'.again = past.again
  <1> DEFINE m   == Head(net[g])
             mds == [model EXCEPT ![g] = Entered(@, m)]
  <1>1. m \in Message /\ UNCHANGED <<dialogs, modal, playing>>
    BY HeadType DEF HandleMessage
  <1>2. Noted(mds, g, m) \in Past /\ Noted(mds, g, m).again = past.again
    BY <1>1, NotedType
  <1>3. \/ past' = Noted(mds, g, m)
        \/ past' = [Noted(mds, g, m) EXCEPT
                      !.refused = @ \/ (win = "open" /\ MustClose(mds, g, m) /\ win' = win)]
    BY DEF HandleMessage
  <1> HIDE DEF m, mds
  <1> QED  BY <1>1, <1>2, <1>3 DEF Past

LEMMA NextPlayInv ==
    ASSUME TypeOK, PlayInv, [Next]_vars
    PROVE  PlayInv'
  <1>1. ASSUME UNCHANGED <<dialogs, modal, playing>>, past'.again = past.again
        PROVE  PlayInv'
    BY <1>1 DEF PlayInv, DialogsInv, PlayingShown
  <1>2. ASSUME NEW g \in Group, HandleMessage(g)
        PROVE  PlayInv'
    BY <1>1, <1>2, HandleMessageKeepsDialogs
  <1>3. CASE ClickLaunch \/ TimerFires
    BY <1>3, LaunchRvPlayInv DEF ClickLaunch, TimerFires
  <1>4. CASE CloseDialog
    BY <1>4, DialogCloses
  <1>5. CASE OpenPrivate \/ UserCloses
    BY <1>1, <1>5 DEF OpenPrivate, UserCloses
  <1>6. CASE UNCHANGED vars
    BY <1>1, <1>6 DEF vars
  <1>7. CASE \/ HostLaunches \/ HostStops \/ HostKicks \/ HostCloses \/ HostAcks
             \/ OtherWrites \/ OtherWritesPrivate
             \/ \E g \in Group, s \in Sender : NodeLost(g, s)
    BY <1>1, <1>7 DEF HostLaunches, HostStops, HostKicks, HostCloses, HostAcks,
                      OtherWrites, OtherWritesPrivate, OtherSends, NodeLost, gui
  <1> QED  BY <1>2, <1>3, <1>4, <1>5, <1>6, <1>7 DEF Next

LEMMA InitPlayInv == Init => PlayInv
  <1> SUFFICES ASSUME Init PROVE PlayInv
    OBVIOUS
  <1>1. dialogs = <<>> /\ DOMAIN dialogs = {} /\ modal = FALSE /\ playing = FALSE
    BY DEF Init
  <1> QED  BY <1>1 DEF PlayInv, DialogsInv, PlayingShown

\* The status of the guest is playing only while a launch is shown, and all the
\* time, unless two were, however many dialogs the launches and their failures
\* put on top of each other (room.cpp:573-586).
THEOREM StatusFollowsLaunch == Spec => []PlayingShown
  <1>1. Init => PlayInv
    BY InitPlayInv
  <1>2. TypeOK /\ PlayInv /\ [Next]_vars => PlayInv'
    BY NextPlayInv
  <1>3. PlayInv => PlayingShown
    BY DEF PlayInv
  <1> QED  BY <1>1, <1>2, <1>3, TypeCorrect, PTL DEF Spec

-----------------------------------------------------------------------------
(* The room window and what the groups list *)

\* The window was opened by an answer, and goes with no dialog that counts.
WindowInv ==
    /\ win # "none" => ~join
    /\ WindowFollowsRoom

LEMMA LaunchRvOpens ==
    ASSUME TypeOK, LaunchRv
    PROVE  past'.refused = past.refused
  BY DEF LaunchRv, TypeOK, Past

\* A message closes a room in the group it comes from, and in no other way.
LEMMA ListedAfter ==
    ASSUME TypeOK, NEW g \in Group, NEW m \in Message, m.kind # "room_remove"
    PROVE  Listed([model EXCEPT ![g] = Entered(@, m)]) <=> Listed(model)
  <1> DEFINE mds == [model EXCEPT ![g] = Entered(@, m)]
  <1>1. \A h \in Group : mds[h].listed = model[h].listed
    BY EnteredType DEF TypeOK, ModelEntry
  <1> HIDE DEF mds
  <1>2. Listed(mds) <=> Listed(model)
    BY <1>1 DEF Listed
  <1> QED  BY <1>2 DEF mds

LEMMA MessageWindowInv ==
    ASSUME TypeOK, PlayInv, WindowInv, NEW g \in Group, HandleMessage(g)
    PROVE  WindowInv'
  <1> DEFINE m   == Head(net[g])
             mds == [model EXCEPT ![g] = Entered(@, m)]
             refused == win = "open" /\ MustClose(mds, g, m) /\ win' = win
  <1>1. m \in Message /\ dialogs' = dialogs
    BY HeadType DEF HandleMessage
  <1>2. Noted(mds, g, m) \in Past /\ Noted(mds, g, m).refused = past.refused
    BY <1>1, NotedType
  <1>3. CASE Filtered(m)
    <2>1. past' = Noted(mds, g, m) /\ UNCHANGED <<model, join, win>>
      BY <1>3 DEF HandleMessage
    <2> QED  BY <1>1, <1>2, <2>1 DEF WindowInv, WindowFollowsRoom
  <1>4. CASE ~Filtered(m)
    <2>1. model' = mds
      BY <1>4 DEF HandleMessage
    <2>2. past'.refused <=> past.refused \/ refused
      <3>1. past' = [Noted(mds, g, m) EXCEPT !.refused = @ \/ refused]
        BY <1>4 DEF HandleMessage
      <3> HIDE DEF refused, mds, m
      <3> QED  BY <1>2, <3>1 DEF Past
    <2>3. CASE m.kind = "ack" /\ join
      <3>1. join' = FALSE /\ win' = IF Listed(mds) THEN "open" ELSE "none"
        BY <1>4, <2>3 DEF HandleMessage
      <3> QED  BY <2>1, <3>1 DEF WindowInv, WindowFollowsRoom
    <2>4. CASE ~(m.kind = "ack" /\ join)
      <3>1. RoomWindowHandles(mds, g, m) /\ join' = join
        BY <1>4, <2>4 DEF HandleMessage
      <3>2. win' = "open" => win = "open"
        BY <3>1 DEF RoomWindowHandles
      <3>3. ASSUME win' = "open", ~past'.refused
            PROVE  Listed(mds)
        <4>1. win = "open" /\ ~past.refused /\ ~MustClose(mds, g, m)
          BY <2>2, <3>2, <3>3
        <4>2. CASE m.kind = "room_remove"
          BY <4>1, <4>2 DEF MustClose
        <4>3. CASE m.kind # "room_remove"
          <5>1. Listed(model)
            BY <4>1 DEF WindowInv, WindowFollowsRoom
          <5> QED  BY <1>1, <4>3, <5>1, ListedAfter
        <4> QED  BY <4>2, <4>3
      <3>4. ASSUME win' = "gone"
            PROVE  \A i \in DOMAIN dialogs : dialogs[i].kind = "too_late"
        <4>1. win = "gone" \/ (win = "open" /\ ~modal)
          BY <3>1, <3>4 DEF RoomWindowHandles, Closes
        <4> QED  BY <4>1 DEF WindowInv, WindowFollowsRoom, PlayInv, DialogsInv, Guarded
      <3>5. win' # "none" => ~join'
        BY <3>1 DEF RoomWindowHandles, WindowInv, Closes, TypeOK
      <3> QED  BY <1>1, <2>1, <3>3, <3>4, <3>5 DEF WindowInv, WindowFollowsRoom
    <2> QED  BY <2>3, <2>4
  <1> QED  BY <1>3, <1>4

LEMMA NextWindowInv ==
    ASSUME TypeOK, PlayInv, WindowInv, [Next]_vars
    PROVE  WindowInv'
  <1>1. ASSUME NEW g \in Group, HandleMessage(g)
        PROVE  WindowInv'
    BY <1>1, MessageWindowInv
  <1>2. CASE ClickLaunch \/ TimerFires
    <2>1. /\ UNCHANGED <<model, join, win>> /\ win = "open"
          /\ past'.refused = past.refused
      BY <1>2, LaunchRvOpens DEF ClickLaunch, TimerFires
    <2> QED  BY <2>1 DEF WindowInv, WindowFollowsRoom
  <1>3. CASE CloseDialog
    BY <1>3 DEF CloseDialog, WindowInv, WindowFollowsRoom
  <1>4. CASE OpenPrivate
    BY <1>4 DEF OpenPrivate, WindowInv, WindowFollowsRoom
  <1>5. CASE UserCloses
    <2>1. DOMAIN dialogs = {}
      BY <1>5 DEF UserCloses
    <2> QED  BY <1>5, <2>1 DEF UserCloses, WindowInv, WindowFollowsRoom
  <1>6. CASE UNCHANGED vars
    BY <1>6 DEF vars, WindowInv, WindowFollowsRoom
  <1>7. CASE \/ HostLaunches \/ HostStops \/ HostKicks \/ HostCloses \/ HostAcks
             \/ OtherWrites \/ OtherWritesPrivate
             \/ \E g \in Group, s \in Sender : NodeLost(g, s)
    <2>1. UNCHANGED gui
      BY <1>7 DEF HostLaunches, HostStops, HostKicks, HostCloses, HostAcks,
                  OtherWrites, OtherWritesPrivate, OtherSends, NodeLost
    <2> QED  BY <2>1 DEF gui, WindowInv, WindowFollowsRoom
  <1> QED  BY <1>1, <1>2, <1>3, <1>4, <1>5, <1>6, <1>7 DEF Next

\* The room window is open as long as a group lists the room, whichever groups
\* come and go, unless a dialog kept it from closing; and none of its dialogs
\* but the one that says it is too late outlives it (room.cpp:419-425).
THEOREM WindowClosesWithRoom == Spec => []WindowFollowsRoom
  <1>1. Init => PlayInv /\ WindowInv
    BY InitPlayInv DEF Init, WindowInv, WindowFollowsRoom
  <1>2. TypeOK /\ PlayInv /\ WindowInv /\ [Next]_vars => PlayInv' /\ WindowInv'
    BY NextPlayInv, NextWindowInv
  <1>3. WindowInv => WindowFollowsRoom
    BY DEF WindowInv
  <1> QED  BY <1>1, <1>2, <1>3, TypeCorrect, PTL DEF Spec

-----------------------------------------------------------------------------
(* What is under way, and what the filter remembers *)

\* A message that is under way: its sender is known to the group, he sends
\* nothing after he has left it, and an answer has the number of the request.
Fits(g, i) ==
    LET m == net[g][i]
    IN /\ m.from \in model[g].known
       /\ m.kind = "left" => /\ m.num = 0 /\ m.from \notin up[g]
                             /\ \A k \in DOMAIN net[g] : k > i => net[g][k].from # m.from
       /\ m.kind = "ack" => m.from = Host /\ m.num = Request /\ host.acked

NetInv == \A g \in Group : /\ up[g] \subseteq model[g].known
                           /\ \A i \in DOMAIN net[g] : Fits(g, i)

\* The filter remembers what was handled, and the number of the request.
SeenInv == \A s \in Sender : \A i \in DOMAIN seen[s] :
              \/ seen[s][i] \in past.came[s]
              \/ s = Host /\ seen[s][i] = Request /\ host.acked

LEMMA SendNetInv ==
    ASSUME TypeOK, NetInv, NEW s \in Sender, NEW ms \in Seq(Message),
           \A i \in DOMAIN ms : /\ ms[i].from = s /\ ms[i].kind # "left"
                                /\ ms[i].kind = "ack"
                                      => s = Host /\ ms[i].num = Request /\ host'.acked,
           net' = Sent(s, ms), UNCHANGED <<up, model>>, host.acked => host'.acked
    PROVE  NetInv'
  <1> SUFFICES ASSUME NEW g \in Group, NEW i \in DOMAIN net'[g]
               PROVE  Fits(g, i)'
    BY DEF NetInv
  <1>1. CASE s \notin up[g]
    <2>1. net'[g] = net[g]
      BY <1>1 DEF Sent, TypeOK
    <2>2. Fits(g, i)
      BY <2>1 DEF NetInv
    <2> QED  BY <2>1, <2>2 DEF Fits
  <1>2. CASE s \in up[g]
    <2>1. net'[g] = net[g] \o ms /\ net[g] \in Seq(Message)
      BY <1>2 DEF Sent, TypeOK
    <2> DEFINE n == Len(net[g])
    <2>2. /\ n \in Nat /\ Len(ms) \in Nat /\ DOMAIN net[g] = 1..n
          /\ DOMAIN ms = 1..Len(ms) /\ DOMAIN net'[g] = 1..(n + Len(ms))
          /\ \A k \in 1..n : net'[g][k] = net[g][k]
          /\ \A k \in DOMAIN net'[g] : k > n => net'[g][k] = ms[k - n] /\ k - n \in DOMAIN ms
      BY <2>1, ConcatProperties, LenProperties
    <2> HIDE DEF n
    <2>3. s \in model[g].known
      BY <1>2 DEF NetInv
    <2>4. CASE i \in 1..n
      <3>1. Fits(g, i) /\ net'[g][i] = net[g][i]
        BY <2>2, <2>4 DEF NetInv
      <3>2. ASSUME net[g][i].kind = "left", NEW k \in DOMAIN net'[g], k > i
            PROVE  net'[g][k].from # net[g][i].from
        <4>1. net[g][i].from # s
          BY <1>2, <3>1, <3>2 DEF Fits
        <4>2. CASE k \in 1..n
          BY <2>2, <3>1, <3>2, <4>2 DEF Fits
        <4>3. CASE k > n
          BY <2>2, <4>1, <4>3
        <4> QED  BY <2>2, <4>2, <4>3
      <3> QED  BY <3>1, <3>2 DEF Fits
    <2>5. CASE i > n
      <3>1. net'[g][i] = ms[i - n] /\ i - n \in DOMAIN ms
        BY <2>2, <2>5
      <3> QED  BY <2>3, <3>1 DEF Fits
    <2> QED  BY <2>2, <2>4, <2>5
  <1> QED  BY <1>1, <1>2

LEMMA NewsType ==
    ASSUME NEW s \in Sender
    PROVE  /\ Msg("left", s, 0, FALSE) \in Message
           /\ Msg("room_remove", s, 0, FALSE) \in Message
  <1>1. 0 \in 0..MaxNum /\ "left" \in Kind /\ "room_remove" \in Kind
    BY BoundsType DEF Kind
  <1> QED  BY <1>1, MsgType

\* The news of a user who leaves a group.
LEMMA LostNews ==
    ASSUME TypeOK, NEW g \in Group, NEW s \in Sender, NodeLost(g, s)
    PROVE  \E news \in Seq(Message) :
              /\ Len(news) \in Nat \ {0} /\ DOMAIN news = 1..Len(news)
              /\ \A i \in 1..Len(news) :
                    news[i].from = s /\ news[i].kind # "ack" /\ news[i].num = 0
              /\ \A i \in 1..(Len(news) - 1) : news[i].kind # "left"
              /\ net' = [net EXCEPT ![g] = @ \o news]
              /\ up' = [up EXCEPT ![g] = @ \ {s}]
              /\ s \in up[g] /\ UNCHANGED <<host, other, gui>>
  <1> DEFINE closed == IF s = Host /\ host.open THEN <<Msg("room_remove", s, 0, FALSE)>>
                       ELSE <<>>
             news   == closed \o <<Msg("left", s, 0, FALSE)>>
             last   == Len(news)
  <1>1. /\ news \in Seq(Message) /\ last \in Nat \ {0} /\ DOMAIN news = 1..last
        /\ \A i \in 1..last : news[i].from = s /\ news[i].kind # "ack" /\ news[i].num = 0
        /\ \A i \in 1..(last - 1) : news[i].kind # "left"
    <2>1. /\ Msg("left", s, 0, FALSE) \in Message /\ Msg("room_remove", s, 0, FALSE) \in Message
      BY NewsType
    <2>2. CASE s = Host /\ host.open
      <3>1. news = <<Msg("room_remove", s, 0, FALSE), Msg("left", s, 0, FALSE)>>
        BY <2>2, ShortConcats
      <3> QED  BY <2>1, <3>1 DEF Msg
    <2>3. CASE ~(s = Host /\ host.open)
      <3>1. news = <<Msg("left", s, 0, FALSE)>>
        BY <2>3, ShortConcats
      <3> QED  BY <2>1, <3>1 DEF Msg
    <2> QED  BY <2>2, <2>3
  <1>2. /\ net' = [net EXCEPT ![g] = @ \o news] /\ up' = [up EXCEPT ![g] = @ \ {s}]
        /\ s \in up[g] /\ UNCHANGED <<host, other, gui>>
    <2>1. net[g] \o closed \o <<Msg("left", s, 0, FALSE)>> = net[g] \o news
      <3>1. /\ Msg("left", s, 0, FALSE) \in Message /\ Msg("room_remove", s, 0, FALSE) \in Message
        BY NewsType
      <3>2. closed \in Seq(Message) /\ <<Msg("left", s, 0, FALSE)>> \in Seq(Message)
        BY <3>1, EmptySeq, ShortSeqs
      <3>3. net[g] \in Seq(Message)
        BY DEF TypeOK
      <3> DEFINE d == <<Msg("left", s, 0, FALSE)>>
      <3>4. d \in Seq(Message)
        BY <3>2
      <3> HIDE DEF closed, d
      <3>5. net[g] \o closed \o d = net[g] \o (closed \o d)
        <4>1. \A x, y, z \in Seq(Message) : x \o y \o z = x \o (y \o z)
          BY ConcatAssociative
        <4> QED  BY <3>2, <3>3, <3>4, <4>1
      <3> QED  BY <3>5 DEF d
    <2> QED  BY <2>1 DEF NodeLost
  <1> HIDE DEF closed, news
  <1> QED  BY <1>1, <1>2

LEMMA LostNetInv ==
    ASSUME TypeOK, NetInv, NEW g \in Group, NEW s \in Sender, NodeLost(g, s)
    PROVE  NetInv'
  <1>0. PICK news \in Seq(Message) :
           /\ Len(news) \in Nat \ {0} /\ DOMAIN news = 1..Len(news)
           /\ \A i \in 1..Len(news) :
                 news[i].from = s /\ news[i].kind # "ack" /\ news[i].num = 0
           /\ \A i \in 1..(Len(news) - 1) : news[i].kind # "left"
           /\ net' = [net EXCEPT ![g] = @ \o news]
           /\ up' = [up EXCEPT ![g] = @ \ {s}]
           /\ s \in up[g] /\ UNCHANGED <<host, other, gui>>
    BY LostNews
  <1> DEFINE n    == Len(net[g])
             last == Len(news)
  <1>1. /\ last \in Nat \ {0} /\ DOMAIN news = 1..last
        /\ \A i \in 1..last : news[i].from = s /\ news[i].kind # "ack" /\ news[i].num = 0
        /\ \A i \in 1..(last - 1) : news[i].kind # "left"
    BY <1>0
  <1>2. /\ net' = [net EXCEPT ![g] = @ \o news] /\ up' = [up EXCEPT ![g] = @ \ {s}]
        /\ s \in up[g] /\ UNCHANGED <<host, model>>
    BY <1>0 DEF gui
  <1>3. /\ n \in Nat /\ DOMAIN net[g] = 1..n /\ net'[g] = net[g] \o news
        /\ DOMAIN net'[g] = 1..(n + last)
        /\ \A k \in 1..n : net'[g][k] = net[g][k]
        /\ \A k \in DOMAIN net'[g] : k > n => net'[g][k] = news[k - n] /\ k - n \in 1..last
    <2>1. net'[g] = net[g] \o news /\ net[g] \in Seq(Message)
      BY <1>2 DEF TypeOK
    <2> QED  BY <1>1, <2>1, ConcatProperties, LenProperties
  <1> HIDE DEF n, last
  <1>4. \A h \in Group : up'[h] \subseteq model'[h].known /\ up'[h] \subseteq up[h]
    BY <1>2 DEF NetInv, TypeOK
  <1>5. ASSUME NEW h \in Group, h # g, NEW i \in DOMAIN net'[h]
        PROVE  Fits(h, i)'
    <2>1. net'[h] = net[h] /\ up'[h] = up[h]
      BY <1>2, <1>5 DEF TypeOK
    <2>2. Fits(h, i)
      BY <1>5, <2>1 DEF NetInv
    <2> QED  BY <1>2, <2>1, <2>2 DEF Fits
  <1>6. ASSUME NEW i \in DOMAIN net'[g]
        PROVE  Fits(g, i)'
    <2>1. s \in model'[g].known /\ s \notin up'[g]
      BY <1>2 DEF NetInv, TypeOK
    <2>2. CASE i \in 1..n
      <3>1. Fits(g, i) /\ net'[g][i] = net[g][i]
        BY <1>3, <2>2 DEF NetInv
      <3>2. ASSUME net[g][i].kind = "left", NEW k \in DOMAIN net'[g], k > i
            PROVE  net'[g][k].from # net[g][i].from
        <4>1. net[g][i].from # s
          BY <1>2, <3>1, <3>2 DEF Fits
        <4>2. CASE k \in 1..n
          <5>1. net'[g][k] = net[g][k] /\ k \in DOMAIN net[g]
            BY <1>3, <4>2
          <5>2. net[g][k].from # net[g][i].from
            BY <3>1, <3>2, <5>1 DEF Fits
          <5> QED  BY <5>1, <5>2
        <4>3. CASE k > n
          <5>1. net'[g][k] = news[k - n] /\ k - n \in 1..last
            BY <1>3, <4>3
          <5>2. net'[g][k].from = s
            BY <1>1, <5>1
          <5> QED  BY <4>1, <5>2
        <4> QED  BY <1>1, <1>3, <4>2, <4>3
      <3> QED  BY <1>2, <1>4, <3>1, <3>2 DEF Fits
    <2>3. CASE i > n
      <3>1. net'[g][i] = news[i - n] /\ i - n \in 1..last
        BY <1>3, <2>3
      <3>2. /\ net'[g][i].from = s /\ net'[g][i].kind # "ack" /\ net'[g][i].num = 0
        BY <1>1, <3>1
      <3>3. ASSUME net'[g][i].kind = "left", NEW k \in DOMAIN net'[g]
            PROVE  ~(k > i)
        <4>1. i - n = last
          BY <1>1, <3>1, <3>3
        <4> QED  BY <1>1, <1>3, <2>3, <3>3, <4>1
      <3> QED  BY <2>1, <3>2, <3>3 DEF Fits
    <2> QED  BY <1>3, <2>2, <2>3
  <1> QED  BY <1>4, <1>5, <1>6 DEF NetInv

LEMMA NotedNews ==
    ASSUME TypeOK, NEW mds, NEW g \in Group, NEW m \in Message, m.num # 0
    PROVE  /\ \A s \in Sender :
                 Noted(mds, g, m).came[s] =
                    IF s = m.from /\ m.kind # "ack" THEN past.came[s] \cup {m.num}
                    ELSE past.came[s]
           /\ Noted(mds, g, m).lost <=>
                 \/ past.lost
                 \/ ~Ambiguous(m) /\ IF Filtered(m) THEN m.num \notin past.came[m.from]
                                     ELSE ~Shown(mds[g], m)
  <1> DEFINE own   == m.kind # "ack"
             came  == [past.came EXCEPT ![m.from] = IF own THEN @ \cup {m.num} ELSE @]
             later == {k \in past.came[m.from] : k > m.num + past.lag}
             lag   == IF own /\ later # {} THEN Max(later) - m.num ELSE past.lag
             twice == past.twice \/ (~Ambiguous(m) /\ ~Filtered(m) /\ m.num \in past.came[m.from])
             lost  == \/ past.lost
                      \/ ~Ambiguous(m) /\ IF Filtered(m) THEN m.num \notin past.came[m.from]
                                          ELSE ~Shown(mds[g], m)
  <1>1. Noted(mds, g, m) = [past EXCEPT !.came = came, !.lag = lag,
                                        !.twice = twice, !.lost = lost]
    BY Zenon DEF Noted
  <1>2. past \in Past
    BY DEF TypeOK
  <1> HIDE DEF own, came, later, lag, twice, lost
  <1>3. Noted(mds, g, m).came = came /\ Noted(mds, g, m).lost = lost
    BY <1>1, <1>2 DEF Past
  <1>4. past.came \in [Sender -> SUBSET Number]
    BY <1>2 DEF Past
  <1>5. \A s \in Sender :
           came[s] = IF s = m.from /\ own THEN past.came[s] \cup {m.num} ELSE past.came[s]
    BY <1>4 DEF came
  <1> QED  BY <1>3, <1>5 DEF lost, own

LEMMA RememberedNumbers ==
    ASSUME TypeOK, NEW s \in Sender, NEW n \in Number, NEW i \in DOMAIN Remembered(s, n)
    PROVE  \/ Remembered(s, n)[i] = n
           \/ \E j \in DOMAIN seen[s] : Remembered(s, n)[i] = seen[s][j]
  <1>1. seen[s] \in Seq(Number) /\ MaxSeqs \in Nat \ {0}
    BY WindowAssumption DEF TypeOK
  <1>2. <<n>> \in Seq(Number) /\ Len(<<n>>) = 1 /\ <<n>>[1] = n
    OBVIOUS
  <1>3. ASSUME NEW t \in Seq(Number), \A j \in DOMAIN t : j \in DOMAIN seen[s] /\ t[j] = seen[s][j],
               Remembered(s, n) = <<n>> \o t
        PROVE  \/ Remembered(s, n)[i] = n
               \/ \E j \in DOMAIN seen[s] : Remembered(s, n)[i] = seen[s][j]
    <2> DEFINE r == <<n>> \o t
    <2>1. /\ Len(t) \in Nat /\ DOMAIN t = 1..Len(t)
          /\ DOMAIN r = 1..(1 + Len(t))
          /\ \A j \in 1..(1 + Len(t)) : r[j] = IF j <= 1 THEN <<n>>[j] ELSE t[j - 1]
      BY <1>2, ConcatProperties, LenProperties
    <2>2. i \in 1..(1 + Len(t)) /\ Remembered(s, n)[i] = r[i]
      BY <1>3, <2>1
    <2> HIDE DEF r
    <2>3. CASE i = 1
      BY <1>2, <2>1, <2>2, <2>3
    <2>4. CASE i # 1
      <3>1. i - 1 \in DOMAIN t /\ r[i] = t[i - 1]
        BY <2>1, <2>2, <2>4
      <3> QED  BY <1>3, <2>2, <3>1
    <2> QED  BY <2>3, <2>4
  <1>4. CASE Len(seen[s]) >= MaxSeqs
    <2> DEFINE t == Front(seen[s])
    <2>1. t \in Seq(Number) /\ \A j \in DOMAIN t : j \in DOMAIN seen[s] /\ t[j] = seen[s][j]
      BY <1>1, <1>4 DEF Front
    <2>2. Remembered(s, n) = <<n>> \o t
      BY <1>4 DEF Remembered
    <2> HIDE DEF t
    <2> QED  BY <1>3, <2>1, <2>2
  <1>5. CASE ~(Len(seen[s]) >= MaxSeqs)
    <2>1. Remembered(s, n) = <<n>> \o seen[s]
      BY <1>5 DEF Remembered
    <2> QED  BY <1>1, <1>3, <2>1
  <1> QED  BY <1>4, <1>5

LEMMA MessageSeenInv ==
    ASSUME TypeOK, NetInv, SeenInv, NEW g \in Group, HandleMessage(g)
    PROVE  SeenInv'
  <1> DEFINE m   == Head(net[g])
             mds == [model EXCEPT ![g] = Entered(@, m)]
  <1>1. m \in Message /\ m.from \in Sender /\ (m.num # 0 => m.num \in Number) /\ host' = host
    BY HeadType DEF HandleMessage
  <1>2. m.kind = "ack" => m.from = Host /\ m.num = Request /\ host.acked
    <2>1. net[g] \in Seq(Message) /\ net[g] # <<>>
      BY DEF TypeOK, HandleMessage
    <2>2. 1 \in DOMAIN net[g] /\ m = net[g][1]
      BY <2>1
    <2> QED  BY <2>2 DEF NetInv, Fits
  <1>3. /\ Noted(mds, g, m) \in Past
        /\ past'.came = Noted(mds, g, m).came
    <2>1. Noted(mds, g, m) \in Past
      BY <1>1, NotedType
    <2>2. \/ past' = Noted(mds, g, m)
          \/ past' = [Noted(mds, g, m) EXCEPT
                        !.refused = @ \/ (win = "open" /\ MustClose(mds, g, m) /\ win' = win)]
      BY DEF HandleMessage
    <2> QED  BY <2>1, <2>2 DEF Past
  <1> HIDE DEF mds, m
  <1>7. ASSUME m.num # 0, NEW s \in Sender
        PROVE  past'.came[s] = IF s = m.from /\ m.kind # "ack"
                               THEN past.came[s] \cup {m.num} ELSE past.came[s]
    <2>1. Noted(mds, g, m).came[s] = IF s = m.from /\ m.kind # "ack"
                               THEN past.came[s] \cup {m.num} ELSE past.came[s]
      BY <1>1, <1>7, NotedNews
    <2> QED  BY <1>3, <2>1
  <1>4. ASSUME NEW s \in Sender
        PROVE  past.came[s] \subseteq past'.came[s]
    <2>1. CASE m.num = 0
      BY <1>3, <2>1 DEF Noted
    <2>2. CASE m.num # 0
      BY <1>7, <2>2
    <2> QED  BY <2>1, <2>2
  <1>5. CASE seen' = seen
    BY <1>1, <1>4, <1>5 DEF SeenInv
  <1>6. CASE m.num # 0 /\ seen' = [seen EXCEPT ![m.from] = Remembered(m.from, m.num)]
    <2>1. \/ m.num \in past'.came[m.from]
          \/ m.from = Host /\ m.num = Request /\ host.acked
      BY <1>1, <1>2, <1>6, <1>7
    <2>2. \A s \in Sender : seen'[s] = IF s = m.from THEN Remembered(s, m.num) ELSE seen[s]
      BY <1>6, <1>1 DEF TypeOK
    <2>3. ASSUME NEW s \in Sender, NEW i \in DOMAIN seen'[s]
          PROVE  \/ seen'[s][i] \in past'.came[s]
                 \/ s = Host /\ seen'[s][i] = Request /\ host'.acked
      <3>1. CASE s = m.from
        <4>1. \/ seen'[s][i] = m.num
              \/ \E j \in DOMAIN seen[s] : seen'[s][i] = seen[s][j]
          BY <1>1, <1>6, <2>2, <2>3, <3>1, RememberedNumbers
        <4> QED  BY <1>1, <1>4, <2>1, <3>1, <4>1 DEF SeenInv
      <3>2. CASE s # m.from
        BY <1>1, <1>4, <2>2, <2>3, <3>2 DEF SeenInv
      <3> QED  BY <3>1, <3>2
    <2> QED  BY <2>3 DEF SeenInv
  <1> QED  BY <1>5, <1>6 DEF HandleMessage, m

\* Only news of a user who left makes a group forget him.
LEMMA EnteredKnown ==
    ASSUME NEW md \in ModelEntry, NEW m \in Message
    PROVE  /\ m.kind # "left" => md.known \subseteq Entered(md, m).known
           /\ m.kind = "left" => Entered(md, m).known = md.known \ {m.from}
  <1>1. CASE m.kind = "user"
    BY <1>1 DEF Entered, ModelEntry
  <1>2. CASE m.kind = "left"
    BY <1>2 DEF Entered, ModelEntry
  <1>3. CASE m.kind = "room_remove"
    BY <1>3 DEF Entered, ModelEntry
  <1>4. CASE m.kind \notin {"user", "left", "room_remove"}
    BY <1>4 DEF Entered
  <1> QED  BY <1>1, <1>2, <1>3, <1>4

LEMMA MessageNetInv ==
    ASSUME TypeOK, NetInv, NEW g \in Group, HandleMessage(g)
    PROVE  NetInv'
  <1> DEFINE m == Head(net[g])
             n == Len(net[g])
  <1>1. m \in Message /\ UNCHANGED <<host, up>> /\ net' = [net EXCEPT ![g] = Tail(@)]
    BY HeadType DEF HandleMessage
  <1>2. /\ n \in Nat \ {0} /\ DOMAIN net[g] = 1..n /\ m = net[g][1]
        /\ DOMAIN net'[g] = 1..(n - 1)
        /\ \A i \in 1..(n - 1) : net'[g][i] = net[g][i + 1]
    <2>1. net[g] \in Seq(Message) /\ net[g] # <<>> /\ net'[g] = Tail(net[g])
      BY <1>1 DEF TypeOK, HandleMessage
    <2> QED  BY <2>1, HeadTailProperties, LenProperties
  <1>3. Fits(g, 1)
    BY <1>2 DEF NetInv
  <1>4. /\ \A h \in Group : h # g => model'[h] = model[h] /\ net'[h] = net[h]
        /\ model'[g] = model[g] \/ model'[g] = Entered(model[g], m)
        /\ Filtered(m) => model' = model
    <2>1. model' = model \/ model' = [model EXCEPT ![g] = Entered(@, m)]
      BY DEF HandleMessage
    <2> HIDE DEF m
    <2> QED  BY <1>1, <2>1 DEF TypeOK, HandleMessage, m
  <1> HIDE DEF m, n
  <1>5. ASSUME NEW s \in model[g].known, m.kind = "left" => s # m.from
        PROVE  s \in model'[g].known
    <2>1. model[g] \in ModelEntry
      BY DEF TypeOK, ModelEntry
    <2>2. s \in Entered(model[g], m).known
      BY <1>1, <1>5, <2>1, EnteredKnown
    <2> QED  BY <1>4, <1>5, <2>2
  <1>6. up'[g] \subseteq model'[g].known
    BY <1>1, <1>2, <1>3, <1>5 DEF NetInv, Fits
  <1>7. ASSUME NEW i \in DOMAIN net'[g]
        PROVE  Fits(g, i)'
    <2>1. net'[g][i] = net[g][i + 1] /\ i + 1 \in DOMAIN net[g] /\ i + 1 > 1 /\ i \in Nat
      BY <1>2
    <2>2. Fits(g, i + 1)
      BY <2>1 DEF NetInv
    <2>3. m.kind = "left" => net[g][i + 1].from # m.from
      BY <1>2, <1>3, <2>1 DEF Fits
    <2>4. net'[g][i].from \in model'[g].known
      BY <1>5, <2>1, <2>2, <2>3 DEF Fits
    <2>5. ASSUME net'[g][i].kind = "left", NEW k \in DOMAIN net'[g], k > i
          PROVE  net'[g][k].from # net'[g][i].from
      <3>1. net'[g][k] = net[g][k + 1] /\ k + 1 \in DOMAIN net[g] /\ k + 1 > i + 1
        BY <1>2, <2>1, <2>5
      <3>2. net[g][i + 1].kind = "left"
        BY <2>1, <2>5
      <3>3. net[g][k + 1].from # net[g][i + 1].from
        BY <2>2, <3>1, <3>2 DEF Fits
      <3> QED  BY <2>1, <3>1, <3>3
    <2> QED  BY <1>1, <2>1, <2>2, <2>4, <2>5 DEF Fits
  <1>8. ASSUME NEW h \in Group, h # g
        PROVE  up'[h] \subseteq model'[h].known /\ \A i \in DOMAIN net'[h] : Fits(h, i)'
    BY <1>1, <1>4, <1>8 DEF NetInv, Fits
  <1> QED  BY <1>6, <1>7, <1>8 DEF NetInv

LEMMA MessageNothingLost ==
    ASSUME TypeOK, NetInv, SeenInv, NothingLost, NEW g \in Group, HandleMessage(g)
    PROVE  NothingLost'
  <1> DEFINE m   == Head(net[g])
             mds == [model EXCEPT ![g] = Entered(@, m)]
  <1>1. m \in Message /\ m.from \in Sender /\ mds[g] = Entered(model[g], m)
    <2>1. net[g] # <<>>
      BY DEF HandleMessage
    <2>2. m \in Message /\ m.from \in Sender
      BY <2>1, HeadType
    <2> HIDE DEF m
    <2> QED  BY <2>2 DEF TypeOK
  <1>2. m.from \in model[g].known
    <2>1. net[g] \in Seq(Message) /\ net[g] # <<>>
      BY DEF TypeOK, HandleMessage
    <2>2. 1 \in DOMAIN net[g] /\ m = net[g][1]
      BY <2>1
    <2> QED  BY <2>2 DEF NetInv, Fits
  <1>3. Noted(mds, g, m) \in Past /\ past'.lost = Noted(mds, g, m).lost
    <2>1. Noted(mds, g, m) \in Past
      BY <1>1, NotedType
    <2>2. \/ past' = Noted(mds, g, m)
          \/ past' = [Noted(mds, g, m) EXCEPT
                        !.refused = @ \/ (win = "open" /\ MustClose(mds, g, m) /\ win' = win)]
      BY DEF HandleMessage
    <2> QED  BY <2>1, <2>2 DEF Past
  <1> HIDE DEF mds, m
  <1>4. Shown(mds[g], m)
    <2>1. m.kind \in {"line", "private"} => Entered(model[g], m) = model[g]
      BY DEF Entered
    <2>2. m.kind \in {"line", "private"} => m.from \in mds[g].known
      BY <1>1, <1>2, <2>1
    <2>3. CASE m.kind = "line"
      BY <2>2, <2>3 DEF Shown
    <2>4. CASE m.kind = "private"
      BY <2>2, <2>4 DEF Shown, PrivateShown
    <2>5. CASE m.kind \notin {"line", "private"}
      BY <2>5 DEF Shown
    <2> QED  BY <2>3, <2>4, <2>5
  <1>5. CASE m.num = 0
    BY <1>3, <1>5 DEF Noted, NothingLost
  <1>6. CASE m.num # 0
    <2>1. Filtered(m) /\ ~Ambiguous(m) => m.num \in past.came[m.from]
      BY <1>1 DEF Filtered, Seen, Ambiguous, SeenInv
    <2>2. Noted(mds, g, m).lost <=>
             \/ past.lost
             \/ ~Ambiguous(m) /\ IF Filtered(m) THEN m.num \notin past.came[m.from]
                                 ELSE ~Shown(mds[g], m)
      BY <1>1, <1>6, NotedNews
    <2> QED  BY <1>3, <1>4, <2>1, <2>2 DEF NothingLost
  <1> QED  BY <1>5, <1>6

LossInv == NetInv /\ SeenInv /\ NothingLost

\* What the guest does leaves what is under way, and what he is known to, alone.
LEMMA SameLossInv ==
    ASSUME LossInv, UNCHANGED <<host, up, net, model, seen>>,
           past'.came = past.came, past'.lost = past.lost
    PROVE  LossInv'
  BY DEF LossInv, NetInv, Fits, SeenInv, NothingLost

LEMMA LaunchRvLossInv ==
    ASSUME TypeOK, LaunchRv
    PROVE  past'.came = past.came /\ past'.lost = past.lost
  BY DEF LaunchRv, TypeOK, Past

LEMMA SendsLossInv ==
    ASSUME TypeOK, LossInv, NEW s \in Sender, NEW ms \in Seq(Message),
           \A i \in DOMAIN ms : /\ ms[i].from = s /\ ms[i].kind # "left"
                                /\ ms[i].kind = "ack"
                                      => s = Host /\ ms[i].num = Request /\ host'.acked,
           net' = Sent(s, ms), UNCHANGED <<up, gui>>, host.acked => host'.acked
    PROVE  LossInv'
  <1>1. NetInv'
    BY SendNetInv DEF LossInv, gui
  <1> QED  BY <1>1 DEF LossInv, SeenInv, NothingLost, gui

LEMMA OthersLossInv ==
    ASSUME TypeOK, LossInv,
           \/ HostLaunches \/ HostStops \/ HostKicks \/ HostCloses \/ HostAcks
           \/ OtherWrites \/ OtherWritesPrivate
    PROVE  LossInv'
  <1>1. Host \in Sender /\ Other \in Sender /\ 0 \in 0..MaxNum /\ Request \in 0..MaxNum
    BY BoundsType, WindowAssumption DEF Sender, Number
  <1>2. host \in [num : 0..MaxNum, playing : BOOLEAN, open : BOOLEAN, acked : BOOLEAN]
    BY DEF TypeOK
  <1>3. ASSUME NEW s \in Sender, NEW a \in Message, a.from = s, a.kind # "left",
               a.kind = "ack" => s = Host /\ a.num = Request /\ host'.acked,
               net' = Sent(s, <<a>>), UNCHANGED <<up, gui>>, host.acked => host'.acked
        PROVE  LossInv'
    <2>1. <<a>> \in Seq(Message) /\ DOMAIN <<a>> = {1} /\ <<a>>[1] = a
      BY ShortSeqs
    <2> DEFINE ms == <<a>>
    <2>2. \A i \in DOMAIN ms : ms[i] = a
      BY <2>1
    <2>3. ms \in Seq(Message) /\ net' = Sent(s, ms)
      BY <1>3, <2>1
    <2> HIDE DEF ms
    <2>4. \A i \in DOMAIN ms :
             /\ ms[i].from = s /\ ms[i].kind # "left"
             /\ ms[i].kind = "ack" => s = Host /\ ms[i].num = Request /\ host'.acked
      <3> TAKE i \in DOMAIN ms
      <3>1. ms[i] = a
        BY <2>2
      <3> QED  BY <1>3, <3>1, Zenon
    <2> QED  BY <1>3, <2>3, <2>4, SendsLossInv
  <1>4. ASSUME NEW s \in Sender, NEW a \in Message, NEW b \in Message,
               a.from = s, b.from = s, a.kind \notin {"left", "ack"}, b.kind \notin {"left", "ack"},
               net' = Sent(s, <<a, b>>), UNCHANGED <<up, gui>>, host.acked => host'.acked
        PROVE  LossInv'
    <2>1. <<a, b>> \in Seq(Message) /\ DOMAIN <<a, b>> = {1, 2}
          /\ <<a, b>>[1] = a /\ <<a, b>>[2] = b
      BY ShortSeqs
    <2> DEFINE ms == <<a, b>>
    <2>2. \A i \in DOMAIN ms : ms[i] = a \/ ms[i] = b
      BY <2>1
    <2>3. ms \in Seq(Message) /\ net' = Sent(s, ms)
      BY <1>4, <2>1
    <2> HIDE DEF ms
    <2>4. \A i \in DOMAIN ms :
             /\ ms[i].from = s /\ ms[i].kind # "left"
             /\ ms[i].kind = "ack" => s = Host /\ ms[i].num = Request /\ host'.acked
      <3> TAKE i \in DOMAIN ms
      <3>1. ms[i] = a \/ ms[i] = b
        BY <2>2
      <3> QED  BY <1>4, <3>1, Zenon
    <2> QED  BY <1>4, <2>3, <2>4, SendsLossInv
  <1>5. CASE HostLaunches
    <2> DEFINE a == Msg("launch", Host, host.num + 1, FALSE)
               b == Msg("user", Host, 0, TRUE)
    <2>1. host.num + 1 \in 0..MaxNum
      BY <1>1, <1>2, <1>5, BoundsType DEF HostLaunches
    <2>2. a \in Message /\ b \in Message
      BY <1>1, <2>1, MsgType DEF Kind
    <2>3. /\ a.from = Host /\ b.from = Host /\ a.kind = "launch" /\ b.kind = "user"
      BY DEF Msg
    <2>4. net' = Sent(Host, <<a, b>>) /\ UNCHANGED <<up, gui>> /\ host'.acked = host.acked
      BY <1>2, <1>5 DEF HostLaunches
    <2> HIDE DEF a, b
    <2> QED  BY <1>1, <1>4, <2>2, <2>3, <2>4
  <1>6. CASE HostStops
    <2> DEFINE a == Msg("user", Host, 0, FALSE)
    <2>1. a \in Message /\ a.from = Host /\ a.kind = "user"
      BY <1>1, MsgType DEF Kind, Msg
    <2>2. net' = Sent(Host, <<a>>) /\ UNCHANGED <<up, gui>> /\ host'.acked = host.acked
      BY <1>2, <1>6 DEF HostStops
    <2> HIDE DEF a
    <2> QED  BY <1>1, <1>3, <2>1, <2>2
  <1>7. CASE HostKicks
    <2>1. PICK guest \in BOOLEAN : net' = Sent(Host, <<Msg("kick", Host, host.num + 1, guest)>>)
      BY <1>7 DEF HostKicks
    <2> DEFINE a == Msg("kick", Host, host.num + 1, guest)
    <2>2. host.num + 1 \in 0..MaxNum
      BY <1>1, <1>2, <1>7, BoundsType DEF HostKicks
    <2>3. a \in Message /\ a.from = Host /\ a.kind = "kick"
      BY <1>1, <2>2, MsgType DEF Kind, Msg
    <2>4. net' = Sent(Host, <<a>>) /\ UNCHANGED <<up, gui>> /\ host'.acked = host.acked
      BY <1>2, <1>7, <2>1 DEF HostKicks
    <2> HIDE DEF a
    <2> QED  BY <1>1, <1>3, <2>3, <2>4
  <1>8. CASE HostCloses
    <2> DEFINE a == Msg("room_remove", Host, 0, FALSE)
               b == Msg("user", Host, 0, FALSE)
    <2>1. a \in Message /\ b \in Message
      BY <1>1, MsgType DEF Kind
    <2>2. /\ a.from = Host /\ b.from = Host /\ a.kind = "room_remove" /\ b.kind = "user"
      BY DEF Msg
    <2>3. net' = Sent(Host, <<a, b>>) /\ UNCHANGED <<up, gui>> /\ host'.acked = host.acked
      BY <1>2, <1>8 DEF HostCloses
    <2> HIDE DEF a, b
    <2> QED  BY <1>1, <1>4, <2>1, <2>2, <2>3
  <1>9. CASE HostAcks
    <2> DEFINE a == Msg("ack", Host, Request, FALSE)
    <2>1. a \in Message /\ a.from = Host /\ a.num = Request
      BY <1>1, MsgType DEF Kind, Msg
    <2>2. net' = Sent(Host, <<a>>) /\ UNCHANGED <<up, gui>> /\ host'.acked
      BY <1>2, <1>9 DEF HostAcks
    <2>3. a.kind = "ack"
      BY DEF Msg
    <2> HIDE DEF a
    <2> QED  BY <1>1, <1>3, <2>1, <2>2, <2>3
  <1>10. ASSUME NEW kind \in {"line", "private"}, OtherSends(kind)
         PROVE  LossInv'
    <2> DEFINE a == Msg(kind, Other, other + 1, FALSE)
    <2>1. other + 1 \in 0..MaxNum
      BY <1>1, <1>10, BoundsType DEF OtherSends, TypeOK
    <2>2. a \in Message /\ a.from = Other /\ a.kind = kind
      BY <1>1, <2>1, MsgType DEF Kind, Msg
    <2>3. net' = Sent(Other, <<a>>) /\ UNCHANGED <<up, gui>> /\ host' = host
      BY <1>10 DEF OtherSends
    <2> HIDE DEF a
    <2> QED  BY <1>1, <1>3, <2>2, <2>3
  <1> QED  BY <1>5, <1>6, <1>7, <1>8, <1>9, <1>10 DEF OtherWrites, OtherWritesPrivate

LEMMA NextLossInv ==
    ASSUME TypeOK, LossInv, [Next]_vars
    PROVE  LossInv'
  <1>1. CASE \/ HostLaunches \/ HostStops \/ HostKicks \/ HostCloses \/ HostAcks
             \/ OtherWrites \/ OtherWritesPrivate
    BY <1>1, OthersLossInv
  <1>2. ASSUME NEW g \in Group, NEW s \in Sender, NodeLost(g, s)
        PROVE  LossInv'
    <2>1. NetInv' /\ UNCHANGED <<host, gui>>
      BY <1>2, LostNetInv DEF LossInv, NodeLost
    <2> QED  BY <2>1 DEF LossInv, SeenInv, NothingLost, gui
  <1>3. ASSUME NEW g \in Group, HandleMessage(g)
        PROVE  LossInv'
    BY <1>3, MessageNetInv, MessageSeenInv, MessageNothingLost DEF LossInv
  <1>4. CASE ClickLaunch \/ TimerFires
    BY <1>4, LaunchRvLossInv, SameLossInv DEF ClickLaunch, TimerFires, wires
  <1>5. CASE CloseDialog \/ OpenPrivate \/ UserCloses
    BY <1>5, SameLossInv DEF CloseDialog, OpenPrivate, UserCloses, wires
  <1>6. CASE UNCHANGED vars
    BY <1>6, SameLossInv DEF vars
  <1> QED  BY <1>1, <1>2, <1>3, <1>4, <1>5, <1>6 DEF Next

LEMMA InitLossInv == Init => LossInv
  <1> SUFFICES ASSUME Init PROVE LossInv
    OBVIOUS
  <1>1. \A g \in Group : net[g] = <<>> /\ up[g] = Sender /\ model[g].known = Sender
    BY DEF Init
  <1>2. \A s \in Sender : seen[s] = <<>>
    BY DEF Init
  <1>3. past.lost = FALSE
    BY DEF Init
  <1> QED  BY <1>1, <1>2, <1>3 DEF LossInv, NetInv, SeenInv, NothingLost

\* No line, order or private message is dropped but as a copy, and none comes
\* from a user the group has forgotten, however many groups bring it and
\* whichever of them lose their users: but for the number a request shares
\* with its answer (house_app.cpp:597-653).
THEOREM DropsOnlyCopies == Spec => []NothingLost
  <1>1. TypeOK /\ LossInv /\ [Next]_vars => LossInv'
    BY NextLossInv
  <1>2. LossInv => NothingLost
    BY DEF LossInv
  <1> QED  BY <1>1, <1>2, InitLossInv, TypeCorrect, PTL DEF Spec

-----------------------------------------------------------------------------
(* The numbers in the filter: C is what was handled of a sender, A has the   *)
(* number that he shares with the answer to the join, if there is one.       *)

SharedBy(s) == IF s = Host /\ host.acked THEN {Request} ELSE {}

\* The latest number comes first, and each one once.
Ordered(q, A) ==
    /\ \A i, j \in 1..Len(q) : q[i] = q[j] => i = j
    /\ \A i, j \in 1..Len(q) : i < j /\ q[i] \notin A /\ q[j] \notin A => q[i] > q[j]

\* A number that was forgotten is behind all that are remembered.
Forgotten(q, C, A) ==
    \A k \in C \ A :
       \/ \E i \in 1..Len(q) : q[i] = k
       \/ /\ Len(q) >= MaxSeqs
          /\ \A i \in 1..Len(q) : q[i] \notin A => q[i] > k

\* As many numbers lie between a remembered one and the latest one as come
\* before it, but for the shared one.
Ahead(q, C, A) ==
    \A i \in 1..Len(q) :
       q[i] \notin A =>
          \E top \in C :
             \/ q[i] + i <= top + 1
             \/ q[i] + i <= top + 2 /\ \E j \in 1..Len(q) : j < i /\ q[j] \in A

Memory(q, C, A) == Ordered(q, A) /\ Forgotten(q, C, A) /\ Ahead(q, C, A)

\* r is q with n at the front, and without its last one if it was full.
Pushed(r, q, n) ==
    /\ Len(r) = IF Len(q) >= MaxSeqs THEN Len(q) ELSE Len(q) + 1
    /\ r[1] = n
    /\ \A i \in 2..Len(r) : i - 1 \in 1..Len(q) /\ r[i] = q[i - 1]

LEMMA RememberedPushed ==
    ASSUME TypeOK, NEW s \in Sender, NEW n \in Number
    PROVE  Pushed(Remembered(s, n), seen[s], n)
  <1> DEFINE q == seen[s]
             r == Remembered(s, n)
  <1>1. q \in Seq(Number) /\ Len(q) \in Nat /\ MaxSeqs \in Nat \ {0}
    BY WindowAssumption DEF TypeOK
  <1>2. <<n>> \in Seq(Number) /\ Len(<<n>>) = 1 /\ <<n>>[1] = n
    OBVIOUS
  <1> HIDE DEF q
  <1>3. ASSUME NEW t \in Seq(Number), r = <<n>> \o t, Len(t) <= Len(q),
               \A i \in 1..Len(t) : t[i] = q[i]
        PROVE  /\ Len(r) = Len(t) + 1 /\ r[1] = n
               /\ \A i \in 2..Len(r) : i - 1 \in 1..Len(q) /\ r[i] = q[i - 1]
    <2> DEFINE c == <<n>> \o t
    <2>1. Len(t) \in Nat
      OBVIOUS
    <2>2. /\ Len(c) = Len(t) + 1
          /\ \A i \in 1..(1 + Len(t)) : c[i] = IF i <= 1 THEN <<n>>[i] ELSE t[i - 1]
      BY <1>2, ConcatProperties
    <2> HIDE DEF c
    <2>3. c[1] = n
      BY <1>2, <2>1, <2>2
    <2>4. ASSUME NEW i \in 2..Len(c)
          PROVE  i - 1 \in 1..Len(q) /\ c[i] = q[i - 1]
      <3>1. i - 1 \in 1..Len(t) /\ i \in 1..(1 + Len(t)) /\ ~(i <= 1)
        BY <2>1, <2>2
      <3>2. c[i] = t[i - 1]
        BY <2>2, <3>1
      <3> QED  BY <1>1, <1>3, <2>1, <3>1, <3>2
    <2>5. r = c
      BY <1>3 DEF c
    <2> HIDE DEF r
    <2> QED  BY <2>2, <2>3, <2>4, <2>5
  <1>4. CASE Len(q) >= MaxSeqs
    <2> DEFINE t == Front(q)
    <2>1. /\ t \in Seq(Number) /\ Len(t) = Len(q) - 1
          /\ \A i \in 1..Len(t) : t[i] = q[i]
      <3> DEFINE L == Len(q) - 1
      <3>1. t = SubSeq(q, 1, L) /\ L \in Nat /\ L <= Len(q)
        BY <1>1, <1>4 DEF Front
      <3> HIDE DEF t, L
      <3>2. t \in Seq(Number) /\ Len(t) = L /\ \A i \in 1..L : t[i] = q[i]
        BY <1>1, <3>1
      <3> QED  BY <3>2 DEF L
    <2>2. r = <<n>> \o t
      BY <1>4 DEF Remembered, q
    <2> HIDE DEF r, t
    <2>3. Len(t) <= Len(q)
      BY <1>1, <2>1
    <2>4. /\ Len(r) = Len(t) + 1 /\ r[1] = n
          /\ \A i \in 2..Len(r) : i - 1 \in 1..Len(q) /\ r[i] = q[i - 1]
      BY <1>3, <2>1, <2>2, <2>3
    <2>5. Len(r) = Len(q)
      BY <1>1, <2>1, <2>4
    <2> QED  BY <1>4, <2>4, <2>5 DEF Pushed, r, q
  <1>5. CASE ~(Len(q) >= MaxSeqs)
    <2>1. r = <<n>> \o q
      BY <1>5 DEF Remembered, q
    <2> HIDE DEF r
    <2>2. /\ Len(r) = Len(q) + 1 /\ r[1] = n
          /\ \A i \in 2..Len(r) : i - 1 \in 1..Len(q) /\ r[i] = q[i - 1]
      BY <1>1, <1>3, <2>1
    <2> QED  BY <1>5, <2>2 DEF Pushed, r, q
  <1> QED  BY <1>4, <1>5

\* Where the numbers are after a push.
LEMMA PushedAt ==
    ASSUME NEW q \in Seq(Number), NEW r, NEW n, Pushed(r, q, n)
    PROVE  /\ Len(q) \in Nat /\ Len(r) \in Nat \ {0} /\ r[1] = n
           /\ \A i \in 1..Len(r) : i # 1 => i - 1 \in 1..Len(q) /\ r[i] = q[i - 1]
           /\ \A i \in 1..Len(q) : \/ i + 1 \in 1..Len(r) /\ r[i + 1] = q[i]
                                   \/ i = Len(q) /\ Len(q) >= MaxSeqs
           /\ \A i \in 1..Len(q) : q[i] \in Number
           /\ Len(q) >= MaxSeqs => Len(r) >= MaxSeqs
  <1>1. Len(q) \in Nat /\ MaxSeqs \in Nat \ {0}
    BY WindowAssumption
  <1>2. Len(r) \in Nat \ {0} /\ Len(r) \in {Len(q), Len(q) + 1}
        /\ (Len(q) >= MaxSeqs => Len(r) = Len(q))
        /\ (Len(r) = Len(q) => Len(q) >= MaxSeqs)
    BY <1>1 DEF Pushed
  <1>3. ASSUME NEW i \in 1..Len(r), i # 1
        PROVE  i - 1 \in 1..Len(q) /\ r[i] = q[i - 1]
    <2>1. i \in 2..Len(r)
      BY <1>2, <1>3
    <2> QED  BY <2>1 DEF Pushed
  <1>4. ASSUME NEW i \in 1..Len(q), ~(i = Len(q) /\ Len(q) >= MaxSeqs)
        PROVE  i + 1 \in 1..Len(r) /\ r[i + 1] = q[i]
    <2>1. i + 1 \in 2..Len(r) /\ (i + 1) - 1 = i /\ i + 1 \in 1..Len(r)
      BY <1>1, <1>2, <1>4
    <2>2. r[i + 1] = q[(i + 1) - 1]
      BY <2>1 DEF Pushed
    <2> QED  BY <2>1, <2>2
  <1>5. \A i \in 1..Len(q) : q[i] \in Number
    OBVIOUS
  <1>6. r[1] = n
    BY DEF Pushed
  <1> QED  BY <1>1, <1>2, <1>3, <1>4, <1>5, <1>6

\* A number that is not in the filter, at its front: it is shared, or it is
\* ahead of all the others.
LEMMA PushedOrdered ==
    ASSUME NEW q \in Seq(Number), NEW r, NEW n, Pushed(r, q, n), NEW A,
           Ordered(q, A), \A i \in 1..Len(q) : q[i] # n,
           n \in A \/ \A i \in 1..Len(q) : q[i] \notin A => n > q[i]
    PROVE  Ordered(r, A)
  <1>1. /\ Len(r) \in Nat /\ Len(q) \in Nat /\ r[1] = n
        /\ \A i \in 1..Len(r) : i # 1 => i - 1 \in 1..Len(q) /\ r[i] = q[i - 1]
    BY PushedAt
  <1>2. ASSUME NEW i \in 1..Len(r), NEW j \in 1..Len(r), r[i] = r[j]
        PROVE  i = j
    <2>1. CASE i # 1 /\ j # 1
      <3>1. i - 1 = j - 1
        BY <1>1, <1>2, <2>1 DEF Ordered
      <3> QED  BY <3>1
    <2>2. ~(i = 1 /\ j # 1) /\ ~(j = 1 /\ i # 1)
      BY <1>1, <1>2
    <2> QED  BY <2>1, <2>2
  <1>3. ASSUME NEW i \in 1..Len(r), NEW j \in 1..Len(r), i < j,
               r[i] \notin A, r[j] \notin A
        PROVE  r[i] > r[j]
    <2>1. j # 1 /\ j - 1 \in 1..Len(q) /\ r[j] = q[j - 1]
      BY <1>1, <1>3
    <2>2. CASE i = 1
      <3>1. r[i] = n /\ n \notin A
        BY <1>1, <1>3, <2>2
      <3> QED  BY <1>3, <2>1, <3>1
    <2>3. CASE i # 1
      <3>1. i - 1 \in 1..Len(q) /\ r[i] = q[i - 1] /\ i - 1 < j - 1
        BY <1>1, <1>3, <2>3
      <3> QED  BY <1>3, <2>1, <3>1 DEF Ordered
    <2> QED  BY <2>2, <2>3
  <1> QED  BY <1>2, <1>3 DEF Ordered

LEMMA PushedForgotten ==
    ASSUME NEW q \in Seq(Number), NEW r, NEW n, Pushed(r, q, n), NEW A,
           Ordered(q, A), NEW C, NEW D, D \subseteq C \cup {n},
           Forgotten(q, C, A), n \in A \/ \A k \in C : n > k
    PROVE  Forgotten(r, D, A)
  <1>1. /\ Len(r) \in Nat \ {0} /\ Len(q) \in Nat /\ r[1] = n
        /\ \A i \in 1..Len(r) : i # 1 => i - 1 \in 1..Len(q) /\ r[i] = q[i - 1]
        /\ \A i \in 1..Len(q) : \/ i + 1 \in 1..Len(r) /\ r[i + 1] = q[i]
                                \/ i = Len(q) /\ Len(q) >= MaxSeqs
        /\ Len(q) >= MaxSeqs => Len(r) >= MaxSeqs
    BY PushedAt
  <1> SUFFICES ASSUME NEW k \in D \ A, ~\E i \in 1..Len(r) : r[i] = k
               PROVE  /\ Len(r) >= MaxSeqs
                      /\ \A i \in 1..Len(r) : r[i] \notin A => r[i] > k
    BY DEF Forgotten
  <1>2. k # n /\ k \in C \ A
    BY <1>1
  <1>3. /\ Len(q) >= MaxSeqs
        /\ \A i \in 1..Len(q) : q[i] \notin A /\ (i # Len(q) \/ q[i] # k) => q[i] > k
    <2>1. CASE \E i \in 1..Len(q) : q[i] = k
      <3>1. PICK j \in 1..Len(q) : q[j] = k
        BY <2>1
      <3>2. j = Len(q) /\ Len(q) >= MaxSeqs
        BY <1>1, <3>1
      <3>3. ASSUME NEW i \in 1..Len(q), q[i] \notin A, i # Len(q)
            PROVE  q[i] > k
        <4>1. i < j
          BY <1>1, <3>2, <3>3
        <4> QED  BY <1>2, <3>1, <3>3, <4>1 DEF Ordered
      <3> QED  BY <3>1, <3>2, <3>3
    <2>2. CASE ~\E i \in 1..Len(q) : q[i] = k
      BY <1>2, <2>2 DEF Forgotten
    <2> QED  BY <2>1, <2>2
  <1>4. ASSUME NEW i \in 1..Len(r), r[i] \notin A
        PROVE  r[i] > k
    <2>1. CASE i = 1
      <3>1. r[i] = n /\ n \notin A
        BY <1>1, <1>4, <2>1
      <3> QED  BY <1>2, <3>1
    <2>2. CASE i # 1
      <3>1. i - 1 \in 1..Len(q) /\ r[i] = q[i - 1] /\ r[i] # k
        BY <1>1, <2>2
      <3> QED  BY <1>3, <1>4, <3>1
    <2> QED  BY <2>1, <2>2
  <1> QED  BY <1>1, <1>3, <1>4

\* What was handled once more, or not, makes none of them fall behind.
LEMMA NewAhead ==
    ASSUME NEW q \in Seq(Number), NEW r, NEW n \in Number, Pushed(r, q, n), NEW A,
           NEW C \in SUBSET Number, Ahead(q, C, A), \A k \in C : n > k
    PROVE  Ahead(r, C \cup {n}, A)
  <1>1. /\ Len(r) \in Nat \ {0} /\ Len(q) \in Nat /\ r[1] = n
        /\ \A i \in 1..Len(r) : i # 1 => i - 1 \in 1..Len(q) /\ r[i] = q[i - 1]
        /\ \A i \in 1..Len(q) : \/ i + 1 \in 1..Len(r) /\ r[i + 1] = q[i]
                                \/ i = Len(q) /\ Len(q) >= MaxSeqs
        /\ \A i \in 1..Len(q) : q[i] \in Number
    BY PushedAt
  <1> SUFFICES ASSUME NEW i \in 1..Len(r), r[i] \notin A
               PROVE  \/ r[i] + i <= n + 1
                      \/ /\ r[i] + i <= n + 2
                         /\ \E j \in 1..Len(r) : j < i /\ r[j] \in A
    BY DEF Ahead
  <1>2. CASE i = 1
    BY <1>1, <1>2, BoundsType DEF Number
  <1>3. CASE i # 1
    <2> DEFINE h == i - 1
    <2>1. h \in 1..Len(q) /\ r[i] = q[h] /\ q[h] \notin A /\ h \in Nat /\ i = h + 1
      BY <1>1, <1>3
    <2>2. PICK top \in C : \/ q[h] + h <= top + 1
                           \/ q[h] + h <= top + 2 /\ \E j \in 1..Len(q) : j < h /\ q[j] \in A
      BY <2>1 DEF Ahead
    <2>3. top + 1 <= n /\ top \in Nat /\ n \in Nat /\ q[h] \in Nat
      BY <1>1, <2>1, <2>2, BoundsType DEF Number
    <2> HIDE DEF h
    <2>4. CASE q[h] + h <= top + 1
      BY <2>1, <2>3, <2>4
    <2>5. CASE q[h] + h <= top + 2 /\ \E j \in 1..Len(q) : j < h /\ q[j] \in A
      <3>1. PICK j \in 1..Len(q) : j < h /\ q[j] \in A
        BY <2>5
      <3>2. j + 1 \in 1..Len(r) /\ r[j + 1] = q[j] /\ j + 1 < i
        BY <1>1, <2>1, <3>1
      <3>3. r[i] + i <= n + 2
        BY <2>1, <2>3, <2>5
      <3> QED  BY <3>1, <3>2, <3>3
    <2> QED  BY <2>2, <2>4, <2>5
  <1> QED  BY <1>2, <1>3

LEMMA SharedAhead ==
    ASSUME NEW q \in Seq(Number), NEW r, NEW n \in Number, Pushed(r, q, n), NEW A,
           NEW C \in SUBSET Number, Ahead(q, C, A), A = {n},
           \A i \in 1..Len(q) : q[i] # n, NEW D, C \subseteq D
    PROVE  Ahead(r, D, A)
  <1>1. /\ Len(r) \in Nat \ {0} /\ Len(q) \in Nat /\ r[1] = n
        /\ \A i \in 1..Len(r) : i # 1 => i - 1 \in 1..Len(q) /\ r[i] = q[i - 1]
        /\ \A i \in 1..Len(q) : q[i] \in Number
    BY PushedAt
  <1> SUFFICES ASSUME NEW i \in 1..Len(r), r[i] \notin A
               PROVE  \E top \in D : r[i] + i <= top + 2 /\ 1 < i /\ r[1] \in A
    BY <1>1 DEF Ahead
  <1>2. i # 1 /\ 1 < i
    BY <1>1
  <1> DEFINE h == i - 1
  <1>3. h \in 1..Len(q) /\ r[i] = q[h] /\ q[h] \notin A /\ h \in Nat /\ i = h + 1
    BY <1>1, <1>2
  <1>4. PICK top \in C : q[h] + h <= top + 1
    BY <1>3 DEF Ahead
  <1>5. top \in Nat /\ q[h] \in Nat
    BY <1>1, <1>3, <1>4, BoundsType DEF Number
  <1> HIDE DEF h
  <1>6. r[i] + i <= top + 2
    BY <1>3, <1>4, <1>5
  <1> QED  BY <1>1, <1>2, <1>4, <1>6

\* The filter as it is, with more that is shared, or handled once more.
LEMMA SameMemory ==
    ASSUME NEW q \in Seq(Number), NEW C, NEW A, Memory(q, C, A), NEW D, C \subseteq D,
           NEW B, A \subseteq B, D \subseteq C \cup B
    PROVE  Memory(q, D, B)
  <1>1. Ordered(q, B)
    BY DEF Memory, Ordered
  <1>2. Forgotten(q, D, B)
    BY DEF Memory, Forgotten
  <1>3. Ahead(q, D, B)
    BY DEF Memory, Ahead
  <1> QED  BY <1>1, <1>2, <1>3 DEF Memory

\* A number that was handled and is forgotten is as far behind as the filter
\* is long, but for the shared one.
LEMMA ForgottenBehind ==
    ASSUME NEW q \in Seq(Number), Len(q) <= MaxSeqs, NEW A, A \subseteq {Request},
           NEW C \in SUBSET Number, Memory(q, C, A), NEW n \in C, n \notin A,
           \A i \in 1..Len(q) : q[i] # n
    PROVE  \E top \in C : top + (IF A = {} THEN 0 ELSE 1) >= n + MaxSeqs
  <1> DEFINE L == Len(q)
             a == IF A = {} THEN 0 ELSE 1
  <1>1. /\ MaxSeqs \in Nat \ {0} /\ L = MaxSeqs /\ L \in 1..L
        /\ \A i \in 1..L : q[i] \notin A => q[i] > n
    BY WindowAssumption DEF Memory, Forgotten
  <1>2. \A i \in 1..L : q[i] \in Nat
    BY BoundsType DEF Number
  <1>3. n \in Nat /\ C \subseteq Nat /\ a \in {0, 1}
    BY BoundsType DEF Number
  <1>4. \A i, j \in 1..L : q[i] \in A /\ q[j] \in A => i = j
    BY DEF Memory, Ordered
  <1> HIDE DEF L
  <1>5. CASE q[L] \notin A
    <2>1. PICK top \in C :
             \/ q[L] + L <= top + 1
             \/ q[L] + L <= top + 2 /\ A # {}
      BY <1>1, <1>5 DEF Memory, Ahead, L
    <2>2. q[L] > n /\ q[L] \in Nat /\ top \in Nat
      BY <1>1, <1>2, <1>3, <1>5
    <2>3. top + a >= n + MaxSeqs
      BY <1>1, <1>3, <2>1, <2>2
    <2> QED  BY <2>3
  <1>6. CASE q[L] \in A /\ L = 1
    <2>1. a = 1
      BY <1>6
    <2> QED  BY <1>1, <1>3, <1>6, <2>1
  <1>7. CASE q[L] \in A /\ L # 1
    <2> DEFINE h == L - 1
    <2>1. h \in 1..L /\ h # L /\ h \in Nat /\ L = h + 1
      BY <1>1, <1>7
    <2> HIDE DEF h
    <2>2. q[h] \notin A /\ q[h] > n /\ q[h] \in Nat
      BY <1>1, <1>2, <1>4, <1>7, <2>1
    <2>3. ~\E j \in 1..L : j < h /\ q[j] \in A
      BY <1>1, <1>4, <1>7, <2>1
    <2>4. PICK top \in C : q[h] + h <= top + 1
      BY <2>1, <2>2, <2>3 DEF Memory, Ahead, L
    <2>5. a = 1 /\ top \in Nat
      BY <1>3, <1>7
    <2>6. top + a >= n + MaxSeqs
      BY <1>1, <1>3, <2>1, <2>2, <2>4, <2>5
    <2> QED  BY <2>6
  <1> QED  BY <1>5, <1>6, <1>7

-----------------------------------------------------------------------------
(* What a message changes in the history and in the filter *)

Own(m) == m.kind # "ack" /\ m.num # 0

LEMMA NotedFate ==
    ASSUME TypeOK, NEW mds, NEW g \in Group, NEW m \in Message, m.num # 0
    PROVE  /\ Noted(mds, g, m).lag >= past.lag
           /\ m.kind # "ack" =>
                 \A k \in past.came[m.from] : Noted(mds, g, m).lag + m.num >= k
           /\ Noted(mds, g, m).twice <=>
                 \/ past.twice
                 \/ ~Ambiguous(m) /\ ~Filtered(m) /\ m.num \in past.came[m.from]
  <1> DEFINE own   == m.kind # "ack"
             came  == [past.came EXCEPT ![m.from] = IF own THEN @ \cup {m.num} ELSE @]
             later == {k \in past.came[m.from] : k > m.num + past.lag}
             lag   == IF own /\ later # {} THEN Max(later) - m.num ELSE past.lag
             twice == past.twice \/ (~Ambiguous(m) /\ ~Filtered(m) /\ m.num \in past.came[m.from])
             lost  == \/ past.lost
                      \/ ~Ambiguous(m) /\ IF Filtered(m) THEN m.num \notin past.came[m.from]
                                          ELSE ~Shown(mds[g], m)
  <1>1. Noted(mds, g, m) = [past EXCEPT !.came = came, !.lag = lag,
                                        !.twice = twice, !.lost = lost]
    BY Zenon DEF Noted
  <1>2. past \in Past
    BY DEF TypeOK
  <1> HIDE DEF own, came, later, lag, twice, lost
  <1>3. Noted(mds, g, m).lag = lag /\ Noted(mds, g, m).twice = twice
    BY <1>1, <1>2 DEF Past
  <1>4. /\ past.lag \in Nat /\ m.num \in Nat /\ MaxNum \in Nat
        /\ past.came[m.from] \in SUBSET Number /\ Number \subseteq Nat
    BY <1>2, BoundsType DEF Past, Message, Number
  <1>5. CASE own /\ later # {}
    <2>1. later \in SUBSET Number
      BY <1>4 DEF later
    <2>2. Max(later) \in later /\ \A k \in later : Max(later) >= k
      BY <1>5, <2>1, MaxOfNumbers
    <2>3. /\ Max(later) \in Nat /\ Max(later) > m.num + past.lag
          /\ lag = Max(later) - m.num
      BY <1>4, <1>5, <2>1, <2>2 DEF later, lag
    <2>4. ASSUME NEW k \in past.came[m.from] PROVE lag + m.num >= k
      <3>1. k \in Nat
        BY <1>4
      <3>2. CASE k > m.num + past.lag
        <4>1. Max(later) >= k
          BY <2>2, <3>2 DEF later
        <4> QED  BY <1>4, <2>3, <3>1, <4>1
      <3>3. CASE ~(k > m.num + past.lag)
        BY <1>4, <2>3, <3>1, <3>3
      <3> QED  BY <3>2, <3>3
    <2>5. lag >= past.lag
      BY <1>4, <2>3
    <2> QED  BY <1>3, <2>4, <2>5 DEF twice
  <1>6. CASE ~(own /\ later # {})
    <2>1. lag = past.lag
      BY <1>6 DEF lag
    <2>2. ASSUME own, NEW k \in past.came[m.from] PROVE lag + m.num >= k
      <3>1. ~(k > m.num + past.lag) /\ k \in Nat
        BY <1>4, <1>6, <2>2 DEF later
      <3> QED  BY <1>4, <2>1, <3>1
    <2>3. lag >= past.lag
      BY <1>4, <2>1
    <2> QED  BY <1>3, <2>2, <2>3 DEF twice, own
  <1> QED  BY <1>5, <1>6

LEMMA MessageNote ==
    ASSUME TypeOK, NEW g \in Group, HandleMessage(g), NEW m, m = Head(net[g])
    PROVE  /\ \A s \in Sender :
                 past'.came[s] = IF s = m.from /\ Own(m) THEN past.came[s] \cup {m.num}
                                 ELSE past.came[s]
           /\ past'.lag >= past.lag
           /\ Own(m) => \A k \in past.came[m.from] : past'.lag + m.num >= k
           /\ past'.twice <=>
                 \/ past.twice
                 \/ /\ m.num # 0 /\ ~Ambiguous(m) /\ ~Filtered(m)
                    /\ m.num \in past.came[m.from]
  <1> DEFINE mds  == [model EXCEPT ![g] = Entered(@, m)]
             note == Noted(mds, g, m)
  <1>1. m \in Message /\ m.from \in Sender
    <2>1. net[g] # <<>>
      BY DEF HandleMessage
    <2> QED  BY <2>1, HeadType
  <1>2. note \in Past
    BY <1>1, NotedType
  <1>3. \/ past' = note
        \/ past' = [note EXCEPT
                      !.refused = @ \/ (win = "open" /\ MustClose(mds, g, m) /\ win' = win)]
    BY DEF HandleMessage
  <1>4. past'.came = note.came /\ past'.lag = note.lag /\ past'.twice = note.twice
    <2> HIDE DEF note, mds
    <2> QED  BY <1>2, <1>3 DEF Past
  <1>5. CASE m.num = 0
    <2>1. note = past
      BY <1>5 DEF Noted
    <2>2. past.lag \in Nat
      BY BoundsType DEF TypeOK, Past
    <2> HIDE DEF note
    <2> QED  BY <1>4, <1>5, <2>1, <2>2 DEF Own
  <1>6. CASE m.num # 0
    <2>1. \A s \in Sender :
             note.came[s] = IF s = m.from /\ m.kind # "ack" THEN past.came[s] \cup {m.num}
                            ELSE past.came[s]
      BY <1>1, <1>6, NotedNews
    <2>2. /\ note.lag >= past.lag
          /\ m.kind # "ack" => \A k \in past.came[m.from] : note.lag + m.num >= k
          /\ note.twice <=>
                \/ past.twice
                \/ ~Ambiguous(m) /\ ~Filtered(m) /\ m.num \in past.came[m.from]
      BY <1>1, <1>6, NotedFate
    <2> HIDE DEF note
    <2> QED  BY <1>4, <1>6, <2>1, <2>2 DEF Own
  <1> QED  BY <1>5, <1>6

LEMMA MessageFilter ==
    ASSUME TypeOK, NEW g \in Group, HandleMessage(g), NEW m, m = Head(net[g])
    PROVE  /\ UNCHANGED <<host, other, up>> /\ net' = [net EXCEPT ![g] = Tail(@)]
           /\ net[g] # <<>>
           /\ m \in Message /\ m.from \in Sender /\ (m.num # 0 => m.num \in Number)
           /\ m.num = 0 \/ Filtered(m) => seen' = seen
           /\ m.num # 0 /\ ~Filtered(m) =>
                 \A s \in Sender :
                    seen'[s] = IF s = m.from THEN Remembered(s, m.num) ELSE seen[s]
  <1>1. net[g] # <<>>
    BY DEF HandleMessage
  <1>2. m \in Message /\ m.from \in Sender /\ (m.num # 0 => m.num \in Number)
    BY <1>1, HeadType
  <1>3. /\ UNCHANGED <<host, other, up>> /\ net' = [net EXCEPT ![g] = Tail(@)]
    BY DEF HandleMessage
  <1>4. m.num = 0 \/ Filtered(m) => seen' = seen
    BY DEF HandleMessage
  <1>5. m.num # 0 /\ ~Filtered(m) => seen' = [seen EXCEPT ![m.from] = Remembered(m.from, m.num)]
    BY DEF HandleMessage
  <1>6. m.num # 0 /\ ~Filtered(m) =>
           \A s \in Sender : seen'[s] = IF s = m.from THEN Remembered(s, m.num) ELSE seen[s]
    BY <1>2, <1>5 DEF TypeOK
  <1> QED  BY <1>1, <1>2, <1>3, <1>4, <1>6

-----------------------------------------------------------------------------
(* A group brings the messages of a sender in order *)

LastOf(s) == IF s = Host THEN host.num ELSE other

Carries(g, i, s, k) ==
    net[g][i].from = s /\ net[g][i].kind # "ack" /\ net[g][i].num = k

\* Number k of s was handled, or comes before place i.
Had(g, i, s, k) ==
    k \in past.came[s] \/ \E j \in 1..(i - 1) : Carries(g, j, s, k)

\* What was sent before a message that is under way was handled, or comes
\* before it; what was sent in all was handled, or comes.
Delivered(g) ==
    \A i \in DOMAIN net[g], s \in Sender, n \in Number :
       Carries(g, i, s, n) => \A k \in 1..(n - 1) : Had(g, i, s, k)

Coming(g) ==
    \A s \in up[g] : \A k \in 1..LastOf(s) : Had(g, Len(net[g]) + 1, s, k)

Closed(s) == \A k \in past.came[s] : 1..k \subseteq past.came[s]

CameInv == /\ \A s \in Sender : Closed(s)
           /\ \A g \in Group : Delivered(g) /\ Coming(g)

LEMMA InitCame == ASSUME Init PROVE CameInv
  <1>1. \A g \in Group : net[g] = <<>>
    BY DEF Init
  <1>2. \A s \in Sender : past.came[s] = {} /\ LastOf(s) = 0
    BY DEF Init, LastOf, Sender
  <1>3. \A g \in Group : up[g] = Sender
    BY DEF Init
  <1> QED  BY <1>1, <1>2, <1>3 DEF CameInv, Closed, Delivered, Coming

LEMMA SameCame ==
    ASSUME CameInv, UNCHANGED <<host, other, up, net>>, past'.came = past.came
    PROVE  CameInv'
  BY DEF CameInv, Closed, Delivered, Coming, Had, Carries, LastOf

\* The messages that were under way still are.
LEMMA SameHad ==
    ASSUME NEW g, NEW n \in Nat, \A i \in 1..n : net'[g][i] = net[g][i],
           past'.came = past.came,
           NEW i \in 1..(n + 1), NEW h \in Nat, h >= i, NEW s, NEW k, Had(g, i, s, k)
    PROVE  Had(g, h, s, k)'
  <1>1. CASE k \in past.came[s]
    BY <1>1 DEF Had
  <1>2. ASSUME NEW j \in 1..(i - 1), Carries(g, j, s, k)
        PROVE  j \in 1..(h - 1) /\ Carries(g, j, s, k)'
    <2>1. j \in 1..n /\ j \in 1..(h - 1)
      OBVIOUS
    <2> QED  BY <1>2, <2>1 DEF Carries
  <1> QED  BY <1>1, <1>2 DEF Had

\* Messages go to a group: all have no number, but for the first, which may
\* have the next one of its sender.
LEMMA LongerCame ==
    ASSUME TypeOK, CameInv, NEW g \in Group, NEW s \in Sender,
           NEW ms \in Seq(Message), net'[g] = net[g] \o ms, up'[g] \subseteq up[g],
           \A i \in DOMAIN ms : ms[i].from = s /\ ms[i].num \in Nat,
           \A i \in DOMAIN ms :
              \/ ms[i].kind = "ack" \/ ms[i].num = 0
              \/ i = 1 /\ s \in up[g] /\ ms[i].num = LastOf(s) + 1,
           \A t \in up'[g] \ {s} : LastOf(t)' = LastOf(t),
           \/ LastOf(s)' = LastOf(s)
           \/ /\ LastOf(s)' = LastOf(s) + 1 /\ 1 \in DOMAIN ms
              /\ ms[1].kind # "ack" /\ ms[1].num = LastOf(s) + 1,
           past' = past
    PROVE  Delivered(g)' /\ Coming(g)'
  <1> DEFINE d == Len(ms)
  <1>1. net[g] \in Seq(Message) /\ Len(net[g]) \in Nat
    BY DEF TypeOK
  <1>0. PICK n \in Nat : n = Len(net[g])
    BY <1>1
  <1>2. /\ n \in Nat /\ d \in Nat /\ DOMAIN net[g] = 1..n
        /\ DOMAIN ms = 1..d /\ DOMAIN net'[g] = 1..(n + d) /\ Len(net'[g]) = n + d
        /\ \A i \in 1..n : net'[g][i] = net[g][i]
        /\ \A i \in 1..(n + d) : i > n => net'[g][i] = ms[i - n] /\ i - n \in 1..d
    BY <1>0, <1>1, ConcatProperties, LenProperties
  <1>3. Delivered(g) /\ Coming(g) /\ \A t \in Sender : LastOf(t) \in Nat
    BY BoundsType DEF CameInv, LastOf, TypeOK
  <1>4. up[g] \subseteq Sender
    BY DEF TypeOK
  <1> HIDE DEF d
  <1>5. ASSUME NEW i \in 1..(n + d), NEW t \in Sender, NEW num \in Number,
               Carries(g, i, t, num)', NEW k \in 1..(num - 1)
        PROVE  Had(g, i, t, k)'
    <2>1. CASE i \in 1..n
      <3>1. Carries(g, i, t, num)
        BY <1>2, <1>5, <2>1 DEF Carries
      <3>2. Had(g, i, t, k)
        BY <1>2, <1>3, <1>5, <2>1, <3>1 DEF Delivered
      <3>3. i \in 1..(n + 1) /\ i \in Nat /\ i >= i
        BY <1>2, <2>1
      <3> QED  BY <1>2, <3>2, <3>3, SameHad
    <2>2. CASE i > n
      <3>1. net'[g][i] = ms[i - n] /\ i - n \in 1..d
        BY <1>2, <2>2
      <3>2. ms[i - n].kind # "ack" /\ ms[i - n].num # 0 /\ t = s /\ num = ms[i - n].num
        <4>1. net'[g][i].from = t /\ net'[g][i].kind # "ack" /\ net'[g][i].num = num
          BY <1>5 DEF Carries
        <4>3. num # 0
          BY BoundsType DEF Number
        <4>2. i - n \in DOMAIN ms
          BY <1>2, <3>1
        <4> QED  BY <3>1, <4>1, <4>2, <4>3
      <3>3. s \in up[g] /\ num = LastOf(s) + 1
        BY <1>2, <3>1, <3>2
      <3>4. k \in 1..LastOf(s)
        BY <1>3, <3>3
      <3>5. Had(g, n + 1, s, k)
        BY <1>0, <1>3, <3>3, <3>4 DEF Coming
      <3>6. n + 1 \in 1..(n + 1) /\ i \in Nat /\ i >= n + 1
        BY <1>2, <2>2
      <3> QED  BY <1>2, <3>2, <3>5, <3>6, SameHad
    <2> QED  BY <1>2, <2>1, <2>2
  <1>6. ASSUME NEW t \in up'[g], NEW k \in 1..LastOf(t)'
        PROVE  Had(g, n + d + 1, t, k)'
    <2>1. t \in up[g] /\ t \in Sender
      BY <1>4
    <2>2. CASE k \in 1..LastOf(t)
      <3>1. Had(g, n + 1, t, k)
        BY <1>0, <1>3, <2>1, <2>2 DEF Coming
      <3>2. n + 1 \in 1..(n + 1) /\ n + d + 1 \in Nat /\ n + d + 1 >= n + 1
        BY <1>2
      <3> QED  BY <1>2, <3>1, <3>2, SameHad
    <2>3. CASE k \notin 1..LastOf(t)
      <3>1. t = s
        BY <1>6, <2>3
      <3>2. LastOf(s)' = LastOf(s) + 1 /\ k = LastOf(s) + 1
        BY <1>3, <1>6, <2>3, <3>1
      <3>3. 1 \in 1..d /\ ms[1].kind # "ack" /\ ms[1].num = k /\ ms[1].from = s
        BY <1>2, <1>3, <3>2
      <3>4. n + 1 \in 1..(n + d) /\ n + 1 > n /\ (n + 1) - n = 1
            /\ n + 1 \in 1..((n + d + 1) - 1)
        BY <1>2, <3>3
      <3>5. net'[g][n + 1] = ms[1]
        BY <1>2, <3>4
      <3>6. Carries(g, n + 1, s, k)'
        BY <3>3, <3>5 DEF Carries
      <3> QED  BY <3>1, <3>4, <3>6 DEF Had
    <2> QED  BY <2>2, <2>3
  <1>7. Delivered(g)'
    BY <1>2, <1>5 DEF Delivered
  <1>8. Coming(g)'
    BY <1>2, <1>6 DEF Coming
  <1> QED  BY <1>7, <1>8

\* Nothing goes to the group.
LEMMA ElsewhereCame ==
    ASSUME CameInv, NEW g \in Group, net'[g] = net[g], up'[g] \subseteq up[g],
           \A t \in up'[g] : LastOf(t)' = LastOf(t), past'.came = past.came
    PROVE  Delivered(g)' /\ Coming(g)'
  <1>1. Delivered(g) /\ Coming(g)
    BY DEF CameInv
  <1>2. Delivered(g)'
    BY <1>1 DEF Delivered, Had, Carries
  <1>3. Coming(g)'
    BY <1>1 DEF Coming, Had, Carries
  <1> QED  BY <1>2, <1>3

\* Messages of s are sent: the first may have the next number.
LEMMA SendsCame ==
    ASSUME TypeOK, CameInv, NEW s \in Sender, NEW ms \in Seq(Message),
           \A i \in DOMAIN ms :
              /\ ms[i].from = s
              /\ \/ ms[i].kind = "ack" \/ ms[i].num = 0
                 \/ i = 1 /\ ms[i].num = LastOf(s) + 1,
           \A t \in Sender \ {s} : LastOf(t)' = LastOf(t),
           \/ LastOf(s)' = LastOf(s)
           \/ /\ LastOf(s)' = LastOf(s) + 1 /\ 1 \in DOMAIN ms
              /\ ms[1].kind # "ack" /\ ms[1].num = LastOf(s) + 1,
           net' = Sent(s, ms), UNCHANGED <<up, gui>>
    PROVE  CameInv'
  <1>1. past' = past /\ up' = up
    BY DEF gui
  <1> SUFFICES ASSUME NEW g \in Group PROVE Delivered(g)' /\ Coming(g)'
    BY <1>1 DEF CameInv, Closed
  <1>2. up[g] \subseteq Sender
    BY DEF TypeOK
  <1>3. CASE s \notin up[g]
    <2>1. net'[g] = net[g]
      BY <1>3 DEF Sent, TypeOK
    <2>2. \A t \in up'[g] : LastOf(t)' = LastOf(t)
      BY <1>1, <1>2, <1>3
    <2>3. past'.came = past.came /\ up'[g] \subseteq up[g]
      BY <1>1
    <2> QED  BY <2>1, <2>2, <2>3, ElsewhereCame
  <1>4. CASE s \in up[g]
    <2>1. net'[g] = net[g] \o ms
      BY <1>4 DEF Sent, TypeOK
    <2>2. \A i \in DOMAIN ms : ms[i].num \in Nat
      <3>1. \A i \in DOMAIN ms : ms[i] \in Message
        OBVIOUS
      <3> QED  BY <3>1, BoundsType DEF Message
    <2>3. /\ up'[g] \subseteq up[g]
          /\ \A t \in up'[g] \ {s} : LastOf(t)' = LastOf(t)
      BY <1>1, <1>2
    <2> QED  BY <1>1, <1>4, <2>1, <2>2, <2>3, LongerCame
  <1> QED  BY <1>3, <1>4

LEMMA LostCame ==
    ASSUME TypeOK, CameInv, NEW g \in Group, NEW s \in Sender, NodeLost(g, s)
    PROVE  CameInv'
  <1>1. PICK news \in Seq(Message) :
           /\ Len(news) \in Nat \ {0} /\ DOMAIN news = 1..Len(news)
           /\ \A i \in 1..Len(news) :
                 news[i].from = s /\ news[i].kind # "ack" /\ news[i].num = 0
           /\ \A i \in 1..(Len(news) - 1) : news[i].kind # "left"
           /\ net' = [net EXCEPT ![g] = @ \o news]
           /\ up' = [up EXCEPT ![g] = @ \ {s}]
           /\ s \in up[g] /\ UNCHANGED <<host, other, gui>>
    BY LostNews
  <1>2. past' = past /\ \A t : LastOf(t)' = LastOf(t)
    BY <1>1 DEF gui, LastOf
  <1> SUFFICES ASSUME NEW h \in Group PROVE Delivered(h)' /\ Coming(h)'
    BY <1>2 DEF CameInv, Closed
  <1>3. up'[h] \subseteq up[h]
    BY <1>1 DEF TypeOK
  <1>4. CASE h # g
    <2>1. net'[h] = net[h]
      BY <1>1, <1>4 DEF TypeOK
    <2> QED  BY <1>2, <1>3, <2>1, ElsewhereCame
  <1>5. CASE h = g
    <2>1. net'[h] = net[h] \o news
      BY <1>1, <1>5 DEF TypeOK
    <2>2. \A i \in DOMAIN news : news[i].from = s /\ news[i].num \in Nat /\ news[i].num = 0
      BY <1>1
    <2> QED  BY <1>2, <1>3, <2>1, <2>2, LongerCame
  <1> QED  BY <1>4, <1>5

\* The first message of a group is handled.
LEMMA MessageCame ==
    ASSUME TypeOK, CameInv, NEW g \in Group, HandleMessage(g)
    PROVE  CameInv'
  <1> DEFINE m == Head(net[g])
  <1>1. /\ UNCHANGED <<host, other, up>> /\ net' = [net EXCEPT ![g] = Tail(@)]
        /\ net[g] # <<>> /\ m \in Message /\ m.from \in Sender
        /\ m.num # 0 => m.num \in Number
    BY MessageFilter
  <1>2. \A s \in Sender :
           past'.came[s] = IF s = m.from /\ Own(m) THEN past.came[s] \cup {m.num}
                           ELSE past.came[s]
    BY MessageNote
  <1>0. PICK n \in Nat : n = Len(net[g])
    BY DEF TypeOK
  <1>3. /\ n \in Nat \ {0} /\ DOMAIN net[g] = 1..n /\ m = net[g][1]
        /\ DOMAIN net'[g] = 1..(n - 1) /\ Len(net'[g]) = n - 1
        /\ \A i \in 1..(n - 1) : net'[g][i] = net[g][i + 1]
    <2>1. net[g] \in Seq(Message) /\ net[g] # <<>> /\ net'[g] = Tail(net[g])
      BY <1>1 DEF TypeOK
    <2> QED  BY <1>0, <2>1, HeadTailProperties, LenProperties
  <1> HIDE DEF m
  <1>4. /\ \A s \in Sender : past.came[s] \subseteq past'.came[s]
        /\ Own(m) => m.num \in past'.came[m.from]
        /\ \A s : LastOf(s)' = LastOf(s)
    BY <1>1, <1>2 DEF LastOf
  <1>5. Delivered(g) /\ Coming(g) /\ up[g] \subseteq Sender
    BY DEF TypeOK, CameInv
  <1>6. ASSUME NEW s \in Sender PROVE Closed(s)'
    <2>1. Closed(s)
      BY DEF CameInv
    <2>2. CASE s = m.from /\ Own(m)
      <3>1. m.num \in Number /\ m.num \in Nat
        BY <1>1, <2>2, BoundsType DEF Own, Number
      <3>2. 1 \in DOMAIN net[g] /\ Carries(g, 1, s, m.num)
        BY <1>3, <2>2 DEF Carries, Own
      <3>3. \A k \in 1..(m.num - 1) : k \in past.came[s]
        BY <1>5, <3>1, <3>2 DEF Delivered, Had
      <3>4. 1..m.num \subseteq past.came[s] \cup {m.num}
        BY <3>1, <3>3
      <3>5. past'.came[s] = past.came[s] \cup {m.num}
        BY <1>2, <2>2
      <3> QED  BY <2>1, <3>4, <3>5 DEF Closed
    <2>3. CASE ~(s = m.from /\ Own(m))
      BY <1>2, <2>1, <2>3 DEF Closed
    <2> QED  BY <2>2, <2>3
  \* What comes is one place nearer, or has just been handled.
  <1>7. ASSUME NEW s \in Sender, NEW k \in Nat \ {0}, NEW i \in 1..(n + 1), i # 1,
               Had(g, i, s, k)
        PROVE  Had(g, i - 1, s, k)'
    <2>1. CASE k \in past.came[s]
      BY <1>4, <2>1 DEF Had
    <2>2. ASSUME NEW j \in 1..(i - 1), Carries(g, j, s, k)
          PROVE  Had(g, i - 1, s, k)'
      <3>1. CASE j = 1
        <4>1. m.from = s /\ m.num = k /\ Own(m)
          BY <1>3, <2>2, <3>1 DEF Carries, Own
        <4> QED  BY <1>4, <4>1 DEF Had
      <3>2. CASE j # 1
        <4> DEFINE l == j - 1
        <4>1. l \in 1..(n - 1) /\ l \in 1..((i - 1) - 1) /\ l + 1 = j
          BY <1>3, <3>2
        <4> HIDE DEF l
        <4>2. net'[g][l] = net[g][j]
          BY <1>3, <4>1
        <4>3. Carries(g, l, s, k)'
          BY <2>2, <4>2 DEF Carries
        <4> QED  BY <4>1, <4>3 DEF Had
      <3> QED  BY <3>1, <3>2
    <2> QED  BY <1>7, <2>1, <2>2 DEF Had
  <1>8. Delivered(g)'
    <2> SUFFICES ASSUME NEW i \in DOMAIN net'[g], NEW s \in Sender, NEW num \in Number,
                        Carries(g, i, s, num)', NEW k \in 1..(num - 1)
                 PROVE  Had(g, i, s, k)'
      BY DEF Delivered
    <2>1. i + 1 \in DOMAIN net[g] /\ net'[g][i] = net[g][i + 1]
          /\ i + 1 \in 1..(n + 1) /\ i + 1 # 1 /\ (i + 1) - 1 = i /\ k \in Nat \ {0}
      BY <1>3
    <2>2. Carries(g, i + 1, s, num)
      BY <2>1 DEF Carries
    <2>3. Had(g, i + 1, s, k)
      BY <1>5, <2>1, <2>2 DEF Delivered
    <2>4. Had(g, (i + 1) - 1, s, k)'
      BY <1>7, <2>1, <2>3
    <2> QED  BY <2>1, <2>4
  <1>9. Coming(g)'
    <2>1. ASSUME NEW s \in up[g], NEW k \in 1..LastOf(s)
          PROVE  Had(g, n, s, k)'
      <3>1. s \in Sender /\ k \in Nat \ {0}
        BY <1>5
      <3>2. Had(g, n + 1, s, k)
        BY <1>0, <1>5 DEF Coming
      <3>3. n + 1 \in 1..(n + 1) /\ n + 1 # 1 /\ (n + 1) - 1 = n
        BY <1>3
      <3>4. Had(g, (n + 1) - 1, s, k)'
        BY <1>7, <3>1, <3>2, <3>3
      <3> QED  BY <3>3, <3>4
    <2>2. Len(net'[g]) + 1 = n
      BY <1>3
    <2>3. up'[g] = up[g]
      BY <1>1
    <2> QED  BY <1>4, <2>1, <2>2, <2>3 DEF Coming
  <1>10. ASSUME NEW h \in Group, h # g PROVE Delivered(h)' /\ Coming(h)'
    <2>1. net'[h] = net[h] /\ up'[h] = up[h] /\ up[h] \subseteq Sender
      BY <1>1, <1>10 DEF TypeOK
    <2>2. Delivered(h) /\ Coming(h)
      BY DEF CameInv
    <2>3. \A s \in Sender : \A i, k : Had(h, i, s, k) => Had(h, i, s, k)'
      BY <1>4, <2>1 DEF Had, Carries
    <2>4. Delivered(h)'
      BY <2>1, <2>2, <2>3 DEF Delivered, Carries
    <2>5. Coming(h)'
      BY <1>4, <2>1, <2>2, <2>3 DEF Coming
    <2> QED  BY <2>4, <2>5
  <1> QED  BY <1>6, <1>8, <1>9, <1>10 DEF CameInv

LEMMA OneSentCame ==
    ASSUME TypeOK, CameInv, NEW s \in Sender, NEW a \in Message, a.from = s,
           \A t \in Sender \ {s} : LastOf(t)' = LastOf(t),
           \/ a.kind = "ack" \/ a.num = 0 \/ a.num = LastOf(s) + 1,
           \/ LastOf(s)' = LastOf(s)
           \/ LastOf(s)' = LastOf(s) + 1 /\ a.kind # "ack" /\ a.num = LastOf(s) + 1,
           net' = Sent(s, <<a>>), UNCHANGED <<up, gui>>
    PROVE  CameInv'
  <1> DEFINE ms == <<a>>
  <1>1. ms \in Seq(Message) /\ DOMAIN ms = {1} /\ ms[1] = a
    BY ShortSeqs
  <1>2. net' = Sent(s, ms)
    OBVIOUS
  <1> HIDE DEF ms
  <1>3. \A i \in DOMAIN ms : i = 1 /\ ms[i] = a
    BY <1>1
  <1>4. \A i \in DOMAIN ms :
           /\ ms[i].from = s
           /\ \/ ms[i].kind = "ack" \/ ms[i].num = 0
              \/ i = 1 /\ ms[i].num = LastOf(s) + 1
    BY <1>3
  <1>5. \/ LastOf(s)' = LastOf(s)
        \/ /\ LastOf(s)' = LastOf(s) + 1 /\ 1 \in DOMAIN ms
           /\ ms[1].kind # "ack" /\ ms[1].num = LastOf(s) + 1
    BY <1>1
  <1> QED  BY <1>1, <1>2, <1>4, <1>5, SendsCame

LEMMA TwoSentCame ==
    ASSUME TypeOK, CameInv, NEW s \in Sender, NEW a \in Message, NEW b \in Message,
           a.from = s, b.from = s, b.num = 0,
           \A t \in Sender \ {s} : LastOf(t)' = LastOf(t),
           \/ a.num = 0 \/ a.num = LastOf(s) + 1,
           \/ LastOf(s)' = LastOf(s)
           \/ LastOf(s)' = LastOf(s) + 1 /\ a.kind # "ack" /\ a.num = LastOf(s) + 1,
           net' = Sent(s, <<a, b>>), UNCHANGED <<up, gui>>
    PROVE  CameInv'
  <1> DEFINE ms == <<a, b>>
  <1>1. ms \in Seq(Message) /\ DOMAIN ms = {1, 2} /\ ms[1] = a /\ ms[2] = b
    BY ShortSeqs
  <1>2. net' = Sent(s, ms)
    OBVIOUS
  <1> HIDE DEF ms
  <1>3. \A i \in DOMAIN ms : (i = 1 /\ ms[i] = a) \/ ms[i] = b
    BY <1>1
  <1>4. \A i \in DOMAIN ms :
           /\ ms[i].from = s
           /\ \/ ms[i].kind = "ack" \/ ms[i].num = 0
              \/ i = 1 /\ ms[i].num = LastOf(s) + 1
    BY <1>3
  <1>5. \/ LastOf(s)' = LastOf(s)
        \/ /\ LastOf(s)' = LastOf(s) + 1 /\ 1 \in DOMAIN ms
           /\ ms[1].kind # "ack" /\ ms[1].num = LastOf(s) + 1
    BY <1>1
  <1> QED  BY <1>1, <1>2, <1>4, <1>5, SendsCame

LEMMA OthersCame ==
    ASSUME TypeOK, CameInv,
           \/ HostLaunches \/ HostStops \/ HostKicks \/ HostCloses \/ HostAcks
           \/ OtherWrites \/ OtherWritesPrivate
    PROVE  CameInv' /\ UNCHANGED <<up, gui>> /\ (host.acked => host'.acked)
  <1>1. /\ Host \in Sender /\ Other \in Sender /\ Host # Other /\ Sender = {Host, Other}
        /\ 0 \in 0..MaxNum /\ Request \in 0..MaxNum
    BY BoundsType, WindowAssumption DEF Sender, Number
  <1>2. host \in [num : 0..MaxNum, playing : BOOLEAN, open : BOOLEAN, acked : BOOLEAN]
    BY DEF TypeOK
  <1>3. CASE HostLaunches
    <2> DEFINE a == Msg("launch", Host, host.num + 1, FALSE)
               b == Msg("user", Host, 0, TRUE)
    <2>1. host.num + 1 \in 0..MaxNum
      BY <1>1, <1>2, <1>3, BoundsType DEF HostLaunches
    <2>2. a \in Message /\ b \in Message
      BY <1>1, <2>1, MsgType DEF Kind
    <2>3. /\ a.from = Host /\ b.from = Host /\ a.kind = "launch"
          /\ a.num = host.num + 1 /\ b.num = 0
      BY DEF Msg
    <2>4. /\ net' = Sent(Host, <<a, b>>) /\ UNCHANGED <<up, gui, other>>
          /\ host'.acked = host.acked /\ host'.num = host.num + 1
      BY <1>2, <1>3 DEF HostLaunches
    <2> HIDE DEF a, b
    <2>5. /\ LastOf(Host) = host.num /\ LastOf(Host)' = host.num + 1
          /\ \A t \in Sender \ {Host} : LastOf(t)' = LastOf(t)
      BY <2>4 DEF LastOf
    <2> QED  BY <1>1, <2>2, <2>3, <2>4, <2>5, TwoSentCame
  <1>4. CASE HostStops
    <2> DEFINE a == Msg("user", Host, 0, FALSE)
    <2>1. a \in Message /\ a.from = Host /\ a.num = 0
      BY <1>1, MsgType DEF Kind, Msg
    <2>2. /\ net' = Sent(Host, <<a>>) /\ UNCHANGED <<up, gui, other>>
          /\ host'.acked = host.acked /\ host'.num = host.num
      BY <1>2, <1>4 DEF HostStops
    <2> HIDE DEF a
    <2>3. \A t \in Sender : LastOf(t)' = LastOf(t)
      BY <2>2 DEF LastOf
    <2> QED  BY <1>1, <2>1, <2>2, <2>3, OneSentCame
  <1>5. CASE HostKicks
    <2>1. PICK guest \in BOOLEAN : net' = Sent(Host, <<Msg("kick", Host, host.num + 1, guest)>>)
      BY <1>5 DEF HostKicks
    <2> DEFINE a == Msg("kick", Host, host.num + 1, guest)
    <2>2. host.num + 1 \in 0..MaxNum
      BY <1>1, <1>2, <1>5, BoundsType DEF HostKicks
    <2>3. a \in Message /\ a.from = Host /\ a.kind = "kick" /\ a.num = host.num + 1
      BY <1>1, <2>2, MsgType DEF Kind, Msg
    <2>4. /\ net' = Sent(Host, <<a>>) /\ UNCHANGED <<up, gui, other>>
          /\ host'.acked = host.acked /\ host'.num = host.num + 1
      BY <1>2, <1>5, <2>1 DEF HostKicks
    <2> HIDE DEF a
    <2>5. /\ LastOf(Host) = host.num /\ LastOf(Host)' = host.num + 1
          /\ \A t \in Sender \ {Host} : LastOf(t)' = LastOf(t)
      BY <2>4 DEF LastOf
    <2> QED  BY <1>1, <2>3, <2>4, <2>5, OneSentCame
  <1>6. CASE HostCloses
    <2> DEFINE a == Msg("room_remove", Host, 0, FALSE)
               b == Msg("user", Host, 0, FALSE)
    <2>1. a \in Message /\ b \in Message
      BY <1>1, MsgType DEF Kind
    <2>2. /\ a.from = Host /\ b.from = Host /\ a.num = 0 /\ b.num = 0
      BY DEF Msg
    <2>3. /\ net' = Sent(Host, <<a, b>>) /\ UNCHANGED <<up, gui, other>>
          /\ host'.acked = host.acked /\ host'.num = host.num
      BY <1>2, <1>6 DEF HostCloses
    <2> HIDE DEF a, b
    <2>4. \A t \in Sender : LastOf(t)' = LastOf(t)
      BY <2>3 DEF LastOf
    <2> QED  BY <1>1, <2>1, <2>2, <2>3, <2>4, TwoSentCame
  <1>7. CASE HostAcks
    <2> DEFINE a == Msg("ack", Host, Request, FALSE)
    <2>1. a \in Message /\ a.from = Host /\ a.kind = "ack"
      BY <1>1, MsgType DEF Kind, Msg
    <2>2. /\ net' = Sent(Host, <<a>>) /\ UNCHANGED <<up, gui, other>>
          /\ host'.acked /\ host'.num = host.num
      BY <1>2, <1>7 DEF HostAcks
    <2> HIDE DEF a
    <2>3. \A t \in Sender : LastOf(t)' = LastOf(t)
      BY <2>2 DEF LastOf
    <2> QED  BY <1>1, <2>1, <2>2, <2>3, OneSentCame
  <1>8. ASSUME NEW kind \in {"line", "private"}, OtherSends(kind)
        PROVE  CameInv' /\ UNCHANGED <<up, gui>> /\ (host.acked => host'.acked)
    <2> DEFINE a == Msg(kind, Other, other + 1, FALSE)
    <2>1. other + 1 \in 0..MaxNum
      BY <1>1, <1>8, BoundsType DEF OtherSends, TypeOK
    <2>2. a \in Message /\ a.from = Other /\ a.kind # "ack" /\ a.num = other + 1
      BY <1>1, <2>1, MsgType DEF Kind, Msg
    <2>3. /\ net' = Sent(Other, <<a>>) /\ UNCHANGED <<up, gui>> /\ host' = host
          /\ other' = other + 1
      BY <1>8 DEF OtherSends
    <2> HIDE DEF a
    <2>4. /\ LastOf(Other) = other /\ LastOf(Other)' = other + 1
          /\ \A t \in Sender \ {Other} : LastOf(t)' = LastOf(t)
      BY <1>1, <2>3 DEF LastOf
    <2> QED  BY <1>1, <2>2, <2>3, <2>4, OneSentCame
  <1> QED  BY <1>3, <1>4, <1>5, <1>6, <1>7, <1>8 DEF OtherWrites, OtherWritesPrivate

-----------------------------------------------------------------------------
(* No message is handled twice *)

FilterInv ==
    ~past.twice => \A s \in Sender : Memory(seen[s], past.came[s], SharedBy(s))

OnceInv == CameInv /\ FilterInv /\ FilteredOnce

\* The number of an answer is shared, as the one of an ambiguous message is.
LEMMA SharedNumbers ==
    ASSUME TypeOK, NetInv, NEW g \in Group, net[g] # <<>>, NEW m, m = Head(net[g])
    PROVE  /\ Ambiguous(m) <=> m.num \in SharedBy(m.from)
           /\ ~Ambiguous(m) => m.kind # "ack"
  <1>1. 1 \in DOMAIN net[g] /\ m = net[g][1]
    BY DEF TypeOK
  <1>2. m.kind = "ack" => m.from = Host /\ m.num = Request /\ host.acked
    BY <1>1 DEF NetInv, Fits
  <1> QED  BY <1>2 DEF Ambiguous, SharedBy

LEMMA MessageMemory ==
    ASSUME TypeOK, NetInv, SeenInv, CameInv, FilterInv, NEW g \in Group, HandleMessage(g),
           ~past'.twice, NEW s \in Sender
    PROVE  Memory(seen'[s], past'.came[s], SharedBy(s))
  <1> DEFINE q == seen[s]
             C == past.came[s]
             A == SharedBy(s)
  <1>0. PICK m : m = Head(net[g])
    OBVIOUS
  <1>1. /\ net[g] # <<>> /\ m \in Message /\ m.from \in Sender
        /\ (m.num # 0 => m.num \in Number)
        /\ m.num = 0 \/ Filtered(m) => seen' = seen
        /\ m.num # 0 /\ ~Filtered(m) =>
              \A t \in Sender :
                 seen'[t] = IF t = m.from THEN Remembered(t, m.num) ELSE seen[t]
    BY <1>0, MessageFilter
  <1>2. /\ past'.came[s] = IF s = m.from /\ Own(m) THEN C \cup {m.num} ELSE C
        /\ ~past.twice
        /\ ~(/\ m.num # 0 /\ ~Ambiguous(m) /\ ~Filtered(m)
             /\ m.num \in past.came[m.from])
    BY <1>0, MessageNote
  <1>3. /\ q \in Seq(Number) /\ C \in SUBSET Number /\ DOMAIN q = 1..Len(q)
        /\ Memory(q, C, A)
    BY <1>2 DEF TypeOK, Past, FilterInv
  <1>4. \A i \in 1..Len(q) : q[i] \in C \/ q[i] \in A
    BY <1>3 DEF SeenInv, SharedBy
  <1>5. /\ Ambiguous(m) <=> m.num \in SharedBy(m.from)
        /\ ~Ambiguous(m) => m.kind # "ack"
    BY <1>0, <1>1, SharedNumbers
  <1> HIDE DEF q, C, A
  <1>6. CASE s # m.from \/ m.num = 0
    <2>1. seen'[s] = q /\ past'.came[s] = C
      BY <1>1, <1>2, <1>6 DEF Own, q
    <2> QED  BY <1>3, <2>1 DEF A
  <1>7. CASE s = m.from /\ m.num # 0 /\ Filtered(m)
    <2>1. seen'[s] = q /\ \E i \in 1..Len(q) : q[i] = m.num
      BY <1>1, <1>3, <1>7 DEF Filtered, Seen, q
    <2>2. past'.came[s] \subseteq C \cup A /\ C \subseteq past'.came[s]
      BY <1>2, <1>4, <2>1
    <2> QED  BY <1>3, <2>1, <2>2, SameMemory DEF A
  <1>8. CASE s = m.from /\ m.num # 0 /\ ~Filtered(m)
    <2> DEFINE r == seen'[s]
               n == m.num
               D == past'.came[s]
    <2>1. n \in Number /\ Pushed(r, q, n)
      <3>1. r = Remembered(s, n) /\ n \in Number
        BY <1>1, <1>8
      <3> QED  BY <3>1, RememberedPushed DEF q
    <2>2. \A i \in 1..Len(q) : q[i] # n
      BY <1>3, <1>8 DEF Filtered, Seen, q
    <2>3. D \subseteq C \cup {n} /\ C \subseteq D
      BY <1>2
    <2>4. n \notin A => n \notin C /\ D = C \cup {n}
      BY <1>2, <1>5, <1>8 DEF A, C, Own
    <2>5. n \notin A => \A k \in C : n > k
      <3>1. SUFFICES ASSUME n \notin A, NEW k \in C PROVE n > k
        OBVIOUS
      <3>2. 1..k \subseteq C
        BY DEF CameInv, Closed, C
      <3>3. k \in Nat /\ n \in Nat \ {0} /\ n \notin 1..k
        BY <1>3, <2>1, <2>4, <3>1, <3>2, BoundsType DEF Number
      <3> QED  BY <3>3
    <2> HIDE DEF r, n, D
    <2>6. n \in A => A = {n}
      BY DEF A, SharedBy
    <2>7. Ordered(r, A)
      <3>1. n \in A \/ \A i \in 1..Len(q) : q[i] \notin A => n > q[i]
        BY <1>4, <2>5
      <3> QED  BY <1>3, <2>1, <2>2, <3>1, PushedOrdered DEF Memory
    <2>8. Forgotten(r, D, A)
      BY <1>3, <2>1, <2>3, <2>5, PushedForgotten DEF Memory
    <2>9. CASE n \in A
      <3>1. Ahead(r, D, A)
        BY <1>3, <2>1, <2>2, <2>3, <2>6, <2>9, SharedAhead DEF Memory
      <3> QED  BY <2>7, <2>8, <3>1 DEF Memory, A, r, D
    <2>10. CASE n \notin A
      <3>1. Ahead(r, C \cup {n}, A)
        BY <1>3, <2>1, <2>5, <2>10, NewAhead DEF Memory
      <3> QED  BY <2>4, <2>7, <2>8, <2>10, <3>1 DEF Memory, A, r, D
    <2> QED  BY <2>9, <2>10
  <1> QED  BY <1>6, <1>7, <1>8

LEMMA MessageOnce ==
    ASSUME TypeOK, LossInv, OnceInv, NEW g \in Group, HandleMessage(g)
    PROVE  OnceInv'
  <1>0. PICK m : m = Head(net[g])
    OBVIOUS
  <1>1. /\ host' = host /\ net[g] # <<>> /\ m \in Message /\ m.from \in Sender
        /\ (m.num # 0 => m.num \in Number)
    BY <1>0, MessageFilter
  <1>2. CameInv'
    BY MessageCame DEF OnceInv
  <1>3. FilterInv'
    <2>1. \A s : SharedBy(s)' = SharedBy(s)
      BY <1>1 DEF SharedBy
    <2>2. ASSUME ~past'.twice, NEW s \in Sender
          PROVE  Memory(seen'[s], past'.came[s], SharedBy(s))
      BY <2>2, MessageMemory DEF LossInv, OnceInv
    <2> QED  BY <2>1, <2>2 DEF FilterInv, Memory, Ordered, Forgotten, Ahead
  <1>4. FilteredOnce'
    <2> DEFINE one == IF host.acked THEN 1 ELSE 0
    <2>1. /\ past'.lag >= past.lag
          /\ Own(m) => \A k \in past.came[m.from] : past'.lag + m.num >= k
          /\ past'.twice <=>
                \/ past.twice
                \/ /\ m.num # 0 /\ ~Ambiguous(m) /\ ~Filtered(m)
                   /\ m.num \in past.came[m.from]
      BY <1>0, MessageNote
    <2>2. past.lag \in Nat /\ past'.lag \in Nat /\ MaxSeqs \in Nat /\ one \in {0, 1}
      BY HandleMessageTypeOK, BoundsType, WindowAssumption DEF TypeOK, Past
    <2>3. ASSUME past'.twice PROVE past'.lag + one >= MaxSeqs
      <3>1. CASE past.twice
        <4>1. past.lag + one >= MaxSeqs
          BY <3>1 DEF OnceInv, FilteredOnce
        <4> HIDE DEF one
        <4> QED  BY <2>1, <2>2, <4>1
      <3>2. CASE ~past.twice
        <4> DEFINE s == m.from
                   n == m.num
                   q == seen[s]
                   C == past.came[s]
                   A == SharedBy(s)
        <4>1. /\ n # 0 /\ ~Ambiguous(m) /\ ~Filtered(m) /\ n \in C
          BY <2>1, <2>3, <3>2
        <4>2. n \notin A /\ Own(m)
          BY <1>0, <1>1, <4>1, SharedNumbers DEF LossInv, Own
        <4>3. /\ q \in Seq(Number) /\ Len(q) <= MaxSeqs /\ DOMAIN q = 1..Len(q)
              /\ C \in SUBSET Number /\ Memory(q, C, A)
          BY <1>1, <3>2 DEF TypeOK, Past, OnceInv, FilterInv
        <4>4. \A i \in 1..Len(q) : q[i] # n
          BY <4>1, <4>3 DEF Filtered, Seen
        <4>5. A \subseteq {Request} /\ (A # {} => one = 1)
          BY DEF SharedBy
        <4>6. n \in Nat
          BY <1>1, <4>1, BoundsType DEF Number
        <4> HIDE DEF q, A, n, s, one
        <4>7. C \subseteq Nat
          BY <4>3, BoundsType DEF Number
        <4>8. \A k \in C : past'.lag + n >= k
          BY <2>1, <4>2 DEF n, s
        <4> HIDE DEF C
        <4>9. PICK top \in C : top + (IF A = {} THEN 0 ELSE 1) >= n + MaxSeqs
          BY <4>1, <4>2, <4>3, <4>4, <4>5, ForgottenBehind
        <4>10. past'.lag + n >= top /\ top \in Nat
          BY <4>7, <4>8
        <4>11. top + one >= n + MaxSeqs
          BY <2>2, <4>5, <4>6, <4>9, <4>10 DEF one
        <4> QED  BY <2>2, <4>6, <4>10, <4>11
      <3> QED  BY <3>1, <3>2
    <2> QED  BY <1>1, <2>3 DEF FilteredOnce
  <1> QED  BY <1>2, <1>3, <1>4 DEF OnceInv

\* Whatever else happens leaves the filter alone, but that an answer is sent.
LEMMA SameOnce ==
    ASSUME TypeOK, OnceInv, CameInv', seen' = seen, past'.came = past.came,
           past'.twice = past.twice, past'.lag = past.lag, host.acked => host'.acked
    PROVE  OnceInv'
  <1>1. ASSUME ~past.twice, NEW s \in Sender
        PROVE  Memory(seen[s], past.came[s], SharedBy(s)')
    <2>1. seen[s] \in Seq(Number) /\ Memory(seen[s], past.came[s], SharedBy(s))
      BY <1>1 DEF TypeOK, OnceInv, FilterInv
    <2>2. SharedBy(s) \subseteq SharedBy(s)'
      BY DEF SharedBy
    <2> QED  BY <2>1, <2>2, SameMemory
  <1>2. FilterInv'
    BY <1>1 DEF FilterInv, Memory, Ordered, Forgotten, Ahead
  <1>3. FilteredOnce'
    <2>1. past.lag \in Nat /\ MaxSeqs \in Nat
      BY BoundsType, WindowAssumption DEF TypeOK, Past
    <2> QED  BY <2>1 DEF OnceInv, FilteredOnce
  <1> QED  BY <1>2, <1>3 DEF OnceInv

LEMMA NextOnce ==
    ASSUME TypeOK, LossInv, OnceInv, [Next]_vars
    PROVE  OnceInv'
  <1>1. CASE \/ HostLaunches \/ HostStops \/ HostKicks \/ HostCloses \/ HostAcks
             \/ OtherWrites \/ OtherWritesPrivate
    <2>1. CameInv' /\ UNCHANGED <<up, gui>> /\ (host.acked => host'.acked)
      BY <1>1, OthersCame DEF OnceInv
    <2> QED  BY <2>1, SameOnce DEF gui
  <1>2. ASSUME NEW g \in Group, NEW s \in Sender, NodeLost(g, s)
        PROVE  OnceInv'
    <2>1. CameInv' /\ UNCHANGED <<host, gui>>
      BY <1>2, LostCame DEF OnceInv, NodeLost
    <2> QED  BY <2>1, SameOnce DEF gui
  <1>3. ASSUME NEW g \in Group, HandleMessage(g)
        PROVE  OnceInv'
    BY <1>3, MessageOnce
  <1>4. CASE ClickLaunch \/ TimerFires
    <2>1. UNCHANGED <<host, other, up, net, seen>> /\ LaunchRv
      BY <1>4 DEF ClickLaunch, TimerFires, wires
    <2>2. /\ past'.came = past.came /\ past'.twice = past.twice /\ past'.lag = past.lag
      BY <2>1 DEF LaunchRv, TypeOK, Past
    <2>3. CameInv'
      BY <2>1, <2>2, SameCame DEF OnceInv
    <2> QED  BY <2>1, <2>2, <2>3, SameOnce
  <1>5. CASE CloseDialog \/ OpenPrivate \/ UserCloses \/ UNCHANGED vars
    <2>1. UNCHANGED <<host, other, up, net, seen, past>>
      BY <1>5 DEF CloseDialog, OpenPrivate, UserCloses, wires, vars
    <2>2. CameInv'
      BY <2>1, SameCame DEF OnceInv
    <2> QED  BY <2>1, <2>2, SameOnce
  <1> QED  BY <1>1, <1>2, <1>3, <1>4, <1>5 DEF Next

LEMMA InitOnce == ASSUME Init PROVE OnceInv
  <1>1. CameInv
    BY InitCame
  <1>2. \A s \in Sender : seen[s] = <<>> /\ past.came[s] = {}
    BY DEF Init
  <1>3. Len(<<>>) = 0
    BY EmptySeq
  <1>4. \A A : Memory(<<>>, {}, A)
    BY <1>3 DEF Memory, Ordered, Forgotten, Ahead
  <1>5. FilterInv
    BY <1>2, <1>4 DEF FilterInv
  <1>6. FilteredOnce
    BY DEF Init, FilteredOnce
  <1> QED  BY <1>1, <1>5, <1>6 DEF OnceInv

\* No message is handled twice, however the groups race, unless one of them
\* is as far behind as the filter is long (house_app.cpp:607-653).
THEOREM HandlesOnce == Spec => []FilteredOnce
  <1>1. TypeOK /\ LossInv /\ OnceInv /\ [Next]_vars => LossInv' /\ OnceInv'
    BY NextLossInv, NextOnce
  <1>2. Init => LossInv /\ OnceInv
    BY InitLossInv, InitOnce
  <1>3. OnceInv => FilteredOnce
    BY DEF OnceInv
  <1> QED  BY <1>1, <1>2, <1>3, TypeCorrect, PTL DEF Spec
=============================================================================
