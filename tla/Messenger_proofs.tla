-------------------------- MODULE Messenger_proofs --------------------------
(* Theorems about Messenger, for every set of senders, every capacity of the *)
(* pipe and every number of messages.                                        *)
EXTENDS Messenger, SequenceTheorems, TLAPS

-----------------------------------------------------------------------------
(* Type correctness, for any number of nested event loops *)

LEMMA InitTypeOK == Init => TypeOK
  <1> SUFFICES ASSUME Init PROVE TypeOK
    OBVIOUS
  <1> USE MessengerAssumption DEF Init, Frame
  <1>1. <<>> \in Seq(Nat)
    BY EmptySeq
  <1>2. batch \in [Frame -> Seq(Nat)]
    BY <1>1
  <1>3. \A d \in Frame : batch[d] = <<>>
    OBVIOUS
  <1>4. at \in [Frame -> {"collect", "handle", "modal"}]
    OBVIOUS
  <1>5. wakes \in 0..Capacity /\ depth \in 0..MaxNest /\ sent \in Nat
    OBVIOUS
  <1>6. /\ msgs \in Seq(Nat) /\ handled \in Seq(Nat)
        /\ holder \in Sender \cup {Nobody} /\ quit \in BOOLEAN
    BY <1>1
  <1> HIDE DEF Init, Frame
  <1> QED  BY <1>2, <1>3, <1>4, <1>5, <1>6 DEF TypeOK

LEMMA NextTypeOK ==
    ASSUME TypeOK, [Next]_vars
    PROVE  TypeOK'
  <1> USE MessengerAssumption DEF TypeOK, Frame
  <1>1. ASSUME NEW s \in Sender, SendMsg(s)
        PROVE  TypeOK'
    BY <1>1 DEF SendMsg
  <1>2. ASSUME NEW s \in Sender, Wake(s)
        PROVE  TypeOK'
    BY <1>2 DEF Wake
  <1>3. CASE TakeWake
    <2>1. /\ depth \in 0..MaxNest /\ depth < MaxNest /\ wakes \in 0..Capacity
          /\ wakes > 0 /\ wakes' = wakes - 1 /\ depth' = depth + 1
          /\ at' = [at EXCEPT ![depth + 1] = "collect"]
          /\ UNCHANGED <<msgs, holder, batch, quit, sent, handled>>
      BY <1>3 DEF TakeWake
    <2>2. wakes' \in 0..Capacity /\ depth' \in 0..MaxNest
      BY <2>1
    <2>3. at' \in [Frame -> {"collect", "handle", "modal"}]
      BY <2>1
    <2>4. ASSUME NEW d \in Frame, d > depth' \/ at'[d] = "collect"
          PROVE  batch'[d] = <<>>
      <3>1. d > depth \/ at[d] = "collect"
        BY <2>1, <2>4
      <3> QED  BY <2>1, <3>1
    <2> QED  BY <2>1, <2>2, <2>3, <2>4
  <1>4. CASE CollectMsgs
    <2>1. depth \in Frame /\ msgs' \in Seq(Nat) /\ at[depth] = "collect"
      BY <1>4, EmptySeq DEF CollectMsgs
    <2>2. batch' \in [Frame -> Seq(Nat)]
      BY <1>4, <2>1 DEF CollectMsgs
    <2>3. at' \in [Frame -> {"collect", "handle", "modal"}]
      BY <1>4, <2>1 DEF CollectMsgs
    <2>4. ASSUME NEW d \in Frame, d > depth' \/ at'[d] = "collect"
          PROVE  batch'[d] = <<>>
      <3>1. /\ depth' = depth
            /\ at' = [at EXCEPT ![depth] = "handle"]
            /\ batch' = [batch EXCEPT ![depth] = msgs]
        BY <1>4 DEF CollectMsgs
      <3>2. d # depth
        <4>1. SUFFICES ASSUME d = depth PROVE FALSE
          OBVIOUS
        <4>2. at'[d] = "handle"
          BY <2>1, <3>1, <4>1
        <4> QED  BY <2>1, <2>4, <3>1, <4>1, <4>2
      <3>3. at'[d] = at[d] /\ batch'[d] = batch[d]
        BY <2>1, <3>1, <3>2
      <3> QED  BY <2>4, <3>1, <3>3
    <2> QED  BY <1>4, <2>1, <2>2, <2>3, <2>4 DEF CollectMsgs
  <1>5. CASE HandleMessage
    <2>1. depth \in Frame /\ batch[depth] \in Seq(Nat) /\ batch[depth] # <<>>
      BY <1>5 DEF HandleMessage
    <2>2. Head(batch[depth]) \in Nat /\ Tail(batch[depth]) \in Seq(Nat)
      BY <2>1
    <2>3. handled' \in Seq(Nat) /\ batch' \in [Frame -> Seq(Nat)]
      BY <1>5, <2>2 DEF HandleMessage, FirstOf
    <2> QED  BY <1>5, <2>1, <2>3 DEF HandleMessage
  <1>6. CASE HandlerThrows
    <2>1. depth \in Frame /\ batch[depth] \in Seq(Nat) /\ batch[depth] # <<>>
      BY <1>6 DEF HandlerThrows
    <2>2. handled' \in Seq(Nat)
      BY <1>6, <2>1 DEF HandlerThrows, FirstOf
    <2> QED  BY <1>6, <2>2 DEF HandlerThrows
  <1>7. CASE CloseDialog
    BY <1>7 DEF CloseDialog
  <1>8. CASE Return
    BY <1>8 DEF Return
  <1>9. CASE UNCHANGED vars
    BY <1>9 DEF vars
  <1> QED
    BY <1>1, <1>2, <1>3, <1>4, <1>5, <1>6, <1>7, <1>8, <1>9
       DEF Next, Receive

\* Every reachable state of every messenger is well typed.
THEOREM TypeCorrect == Spec => []TypeOK
  <1>1. Init => TypeOK
    BY InitTypeOK
  <1>2. TypeOK /\ [Next]_vars => TypeOK'
    BY NextTypeOK
  <1> QED  BY <1>1, <1>2, PTL DEF Spec

-----------------------------------------------------------------------------
(* Wake-ups *)

LEMMA NextNoLostWake ==
    ASSUME TypeOK, NoLostWake, [Next]_vars
    PROVE  NoLostWake'
  <1> USE MessengerAssumption DEF TypeOK, Frame, NoLostWake
  <1>1. ASSUME NEW s \in Sender, SendMsg(s)
        PROVE  NoLostWake'
    BY <1>1 DEF SendMsg
  <1>2. ASSUME NEW s \in Sender, Wake(s)
        PROVE  NoLostWake'
    BY <1>2 DEF Wake
  <1>3. CASE TakeWake
    BY <1>3 DEF TakeWake
  <1>4. CASE CollectMsgs
    BY <1>4 DEF CollectMsgs
  <1>5. CASE HandleMessage
    BY <1>5 DEF HandleMessage
  <1>6. CASE HandlerThrows
    BY <1>6 DEF HandlerThrows
  <1>7. CASE CloseDialog
    BY <1>7 DEF CloseDialog
  <1>8. CASE Return
    BY <1>8 DEF Return
  <1>9. CASE UNCHANGED vars
    BY <1>9 DEF vars
  <1> QED
    BY <1>1, <1>2, <1>3, <1>4, <1>5, <1>6, <1>7, <1>8, <1>9
       DEF Next, Receive

\* No wake-up is lost, in any messenger with any number of nested loops.
THEOREM WakeNotLost == Spec => []NoLostWake
  <1>1. Init => NoLostWake
    BY DEF Init, NoLostWake
  <1>2. TypeOK /\ NoLostWake /\ [Next]_vars => NoLostWake'
    BY NextNoLostWake
  <1> QED  BY <1>1, <1>2, TypeCorrect, PTL DEF Spec

-----------------------------------------------------------------------------
(* The order of messages, without dialogs *)

\* Until the receiver has stopped, what is handled, collected and queued is,
\* in this order, everything that was sent.
Consecutive ==
    (quit /\ depth = 0)
    \/ LET h == Len(handled)
           b == Len(batch[1])
       IN  /\ sent = h + b + Len(msgs)
           /\ \A i \in 1..b : batch[1][i] = h + i
           /\ \A i \in 1..Len(msgs) : msgs[i] = h + b + i

OrderInv == InOrder /\ Consecutive

LEMMA NextOrderInv ==
    ASSUME MaxNest = 1, TypeOK, OrderInv, [Next]_vars
    PROVE  OrderInv'
  <1> USE MessengerAssumption DEF TypeOK, Frame, OrderInv, InOrder
  <1>1. ASSUME NEW s \in Sender, SendMsg(s)
        PROVE  OrderInv'
    <2>1. /\ Len(msgs') = Len(msgs) + 1
          /\ \A i \in 1..Len(msgs) : msgs'[i] = msgs[i]
          /\ msgs'[Len(msgs) + 1] = sent + 1
      BY <1>1 DEF SendMsg
    <2> QED  BY <1>1, <2>1 DEF SendMsg, Consecutive
  <1>2. ASSUME depth > 0, batch[depth] # <<>>,
               handled' = Append(handled, Head(batch[depth]))
        PROVE  /\ InOrder'
               /\ Len(handled') = Len(handled) + 1
               /\ depth = 1
    <2>1. depth = 1 /\ batch[1] # <<>> /\ batch[1] \in Seq(Nat)
      BY <1>2
    <2>2. Head(batch[1]) = Len(handled) + 1
      BY <2>1 DEF Consecutive
    <2>3. /\ Len(handled') = Len(handled) + 1
          /\ \A i \in 1..Len(handled) : handled'[i] = handled[i]
          /\ handled'[Len(handled) + 1] = Len(handled) + 1
      BY <1>2, <2>1, <2>2
    <2>4. /\ DOMAIN handled' = 1..(Len(handled) + 1)
          /\ DOMAIN handled = 1..Len(handled)
          /\ Len(handled) \in Nat
      BY <1>2, <2>1, <2>2
    <2>5. ASSUME NEW i \in DOMAIN handled'
          PROVE  handled'[i] = i
      <3>1. CASE i \in 1..Len(handled)
        BY <2>3, <2>4, <3>1
      <3>2. CASE i = Len(handled) + 1
        BY <2>3, <3>2
      <3>3. i \in 1..(Len(handled) + 1)
        BY <2>4, <2>5
      <3>4. i \in 1..Len(handled) \/ i = Len(handled) + 1
        BY <2>4, <3>3
      <3> QED  BY <3>1, <3>2, <3>4
    <2> QED  BY <2>1, <2>3, <2>5
  <1>3. CASE HandleMessage
    <2>1. /\ InOrder' /\ depth = 1
          /\ Len(handled') = Len(handled) + 1
      BY <1>2, <1>3 DEF HandleMessage, FirstOf
    <2>2. batch'[1] = Tail(batch[1]) /\ batch[1] # <<>>
      BY <1>3, <2>1 DEF HandleMessage
    <2>3. /\ Len(batch'[1]) = Len(batch[1]) - 1
          /\ \A i \in 1..Len(batch'[1]) : batch'[1][i] = batch[1][i + 1]
      BY <2>2, HeadTailProperties
    <2>4. Consecutive'
      BY <1>3, <2>1, <2>3 DEF HandleMessage, Consecutive
    <2> QED  BY <2>1, <2>4
  <1>4. CASE HandlerThrows
    BY <1>2, <1>4 DEF HandlerThrows, FirstOf, Consecutive
  <1>5. CASE CollectMsgs
    <2>1. depth = 1 /\ batch[1] = <<>> /\ batch'[1] = msgs /\ msgs' = <<>>
      BY <1>5 DEF CollectMsgs
    <2> QED  BY <1>5, <2>1 DEF CollectMsgs, Consecutive
  <1>6. CASE Return
    BY <1>6 DEF Return, Consecutive
  <1>7. ASSUME (\E s \in Sender : Wake(s)) \/ TakeWake \/ CloseDialog
                 \/ UNCHANGED vars
        PROVE  OrderInv'
    BY <1>7 DEF Wake, TakeWake, InLoop, CloseDialog, vars, Consecutive
  <1> QED
    BY <1>1, <1>3, <1>4, <1>5, <1>6, <1>7 DEF Next, Receive

\* Without dialogs, messages are handled in the order they were sent in,
\* each of them once, whatever the number of senders.
THEOREM HandledInOrder ==
    ASSUME MaxNest = 1
    PROVE  Spec => []InOrder
  <1>1. Init => OrderInv
    BY DEF Init, OrderInv, InOrder, Consecutive, Frame
  <1>2. TypeOK /\ OrderInv /\ [Next]_vars => OrderInv'
    BY NextOrderInv
  <1>3. OrderInv => InOrder
    BY DEF OrderInv
  <1> QED  BY <1>1, <1>2, <1>3, TypeCorrect, PTL DEF Spec

-----------------------------------------------------------------------------
(* The messenger implements the mailbox, without dialogs *)

LEMMA HeadTailConcat ==
    ASSUME NEW S, NEW s \in Seq(S), NEW t \in Seq(S), s # <<>>
    PROVE  /\ s \o t # <<>>
           /\ Head(s \o t) = Head(s)
           /\ Tail(s \o t) = Tail(s) \o t
  <1>1. /\ s \o t \in Seq(S) /\ Len(s \o t) = Len(s) + Len(t)
        /\ Len(s) > 0
    BY ConcatProperties
  <1>2. s \o t # <<>> /\ Head(s \o t) = Head(s)
    BY <1>1, ConcatProperties
  <1>3. /\ Tail(s) \in Seq(S) /\ Len(Tail(s)) = Len(s) - 1
        /\ Tail(s \o t) \in Seq(S)
        /\ Len(Tail(s \o t)) = Len(s) + Len(t) - 1
    BY <1>1, <1>2, HeadTailProperties
  <1>4. /\ Tail(s) \o t \in Seq(S)
        /\ Len(Tail(s) \o t) = Len(s) + Len(t) - 1
    BY <1>3, ConcatProperties
  <1>5. ASSUME NEW i \in 1..Len(Tail(s \o t))
        PROVE  Tail(s \o t)[i] = (Tail(s) \o t)[i]
    <2>1. Tail(s \o t)[i] = (s \o t)[i + 1]
      BY <1>1, <1>2, HeadTailProperties
    <2>2. (s \o t)[i + 1] = IF i + 1 <= Len(s) THEN s[i + 1]
                            ELSE t[i + 1 - Len(s)]
      BY <1>1, <1>3, ConcatProperties
    <2>3. (Tail(s) \o t)[i] = IF i <= Len(s) - 1 THEN Tail(s)[i]
                              ELSE t[i - (Len(s) - 1)]
      BY <1>3, ConcatProperties
    <2>4. i <= Len(s) - 1 => Tail(s)[i] = s[i + 1]
      BY <1>3, HeadTailProperties
    <2> QED  BY <1>1, <1>3, <2>1, <2>2, <2>3, <2>4
  <1>6. Tail(s \o t) = Tail(s) \o t
    BY <1>3, <1>4, <1>5, SeqEqual
  <1> QED  BY <1>2, <1>6

LEMMA AppendConcat ==
    ASSUME NEW S, NEW s \in Seq(S), NEW t \in Seq(S), NEW e \in S
    PROVE  s \o Append(t, e) = Append(s \o t, e)
  <1>1. /\ Append(t, e) = t \o <<e>> /\ <<e>> \in Seq(S)
        /\ Append(s \o t, e) = (s \o t) \o <<e>>
    OBVIOUS
  <1> QED  BY <1>1, ConcatAssociative

LEMMA InitMailbox == ASSUME MaxNest = 1, Init PROVE MB!Init
  BY DEF Init, MB!Init, Backlog, Frame

LEMMA NextMailbox ==
    ASSUME MaxNest = 1, TypeOK, [Next]_vars
    PROVE  [MB!Next]_(MB!vars)
  <1>0. \A s, t \in Seq(Nat), e \in Nat : s \o Append(t, e) = Append(s \o t, e)
    BY AppendConcat
  <1> USE MessengerAssumption DEF TypeOK, Frame
  <1>1. batch[1] \in Seq(Nat) /\ depth \in {0, 1}
    OBVIOUS
  <1>2. ASSUME NEW s \in Sender, SendMsg(s)
        PROVE  MB!Post
    <2>1. batch[1] \o Append(msgs, sent + 1)
            = Append(batch[1] \o msgs, sent + 1)
      <3>1. msgs \in Seq(Nat) /\ sent + 1 \in Nat
        OBVIOUS
      <3> QED  BY <1>0, <1>1, <3>1
    <2>2. /\ sent' = sent + 1 /\ msgs' = Append(msgs, sent + 1)
          /\ UNCHANGED <<depth, batch, quit, handled>>
      BY <1>2 DEF SendMsg
    <2>3. Backlog' = IF quit /\ depth = 0 THEN Backlog ELSE Append(Backlog, sent + 1)
      BY <2>1, <2>2 DEF Backlog
    <2> QED  BY <2>2, <2>3 DEF MB!Post
  <1>3. CASE HandleMessage
    <2>1. depth = 1 /\ batch[1] # <<>>
      BY <1>1, <1>3 DEF HandleMessage
    <2>2. /\ batch[1] \o msgs # <<>>
          /\ Head(batch[1] \o msgs) = Head(batch[1])
          /\ Tail(batch[1] \o msgs) = Tail(batch[1]) \o msgs
      BY <1>1, <2>1, HeadTailConcat
    <2>3. /\ handled' = Append(handled, Head(batch[1])) /\ batch'[1] = Tail(batch[1])
          /\ UNCHANGED <<msgs, depth, sent>>
      BY <1>3, <2>1 DEF HandleMessage, FirstOf
    <2>4. Backlog = batch[1] \o msgs /\ Backlog' = Tail(batch[1]) \o msgs
      BY <2>1, <2>3 DEF Backlog
    <2>5. (quit /\ depth = 0)' = (quit /\ depth = 0)
      BY <2>1, <2>3
    <2> QED  BY <2>2, <2>3, <2>4, <2>5 DEF MB!Deliver, MB!Next
  <1>4. CASE HandlerThrows
    <2>1. depth = 1 /\ batch[1] # <<>>
      BY <1>1, <1>4 DEF HandlerThrows
    <2>2. /\ batch[1] \o msgs # <<>>
          /\ Head(batch[1] \o msgs) = Head(batch[1])
      BY <1>1, <2>1, HeadTailConcat
    <2> QED
      BY <1>4, <2>1, <2>2 DEF HandlerThrows, FirstOf, MB!Close, MB!Next,
         Backlog
  <1>5. CASE CollectMsgs
    <2>1. depth = 1 /\ batch[1] = <<>> /\ batch'[1] = msgs /\ msgs' = <<>>
      BY <1>1, <1>5 DEF CollectMsgs
    <2>2. <<>> \o msgs = msgs \o <<>>
      BY ConcatEmptySeq
    <2> QED  BY <1>5, <2>1, <2>2 DEF CollectMsgs, Backlog, MB!vars
  <1>6. CASE Return
    <2>1. depth = 1 /\ depth' = 0 /\ quit' = quit
      BY <1>1, <1>6 DEF Return
    <2>2. CASE quit
      BY <1>6, <2>1, <2>2 DEF Return, Backlog, MB!Close, MB!Next
    <2>3. CASE ~quit
      BY <1>6, <2>1, <2>3 DEF Return, Backlog, MB!vars
    <2> QED  BY <2>2, <2>3
  <1>7. ASSUME (\E s \in Sender : Wake(s)) \/ TakeWake \/ CloseDialog
                 \/ UNCHANGED vars
        PROVE  UNCHANGED MB!vars
    BY <1>7 DEF Wake, TakeWake, InLoop, CloseDialog, vars, MB!vars, Backlog
  <1> QED
    BY <1>2, <1>3, <1>4, <1>5, <1>6, <1>7 DEF Next, Receive, MB!Next

\* Without dialogs, every behaviour of a messenger is one of the mailbox.
THEOREM MessengerImplementsMailbox ==
    ASSUME MaxNest = 1
    PROVE  Spec => ImplementsMailbox
  <1>1. Init => MB!Init
    BY InitMailbox
  <1>2. TypeOK /\ [Next]_vars => [MB!Next]_(MB!vars)
    BY NextMailbox
  <1> QED
    BY <1>1, <1>2, TypeCorrect, PTL DEF Spec, ImplementsMailbox, MB!Spec

-----------------------------------------------------------------------------
(* Messages in several places, with dialogs *)

Has(q, k)   == \E i \in DOMAIN q : q[i] = k
Distinct(q) == \A i, j \in DOMAIN q : q[i] = q[j] => i = j

LEMMA HasAppended ==
    ASSUME NEW q \in Seq(Nat), NEW e \in Nat
    PROVE  /\ \A k : Has(Append(q, e), k) <=> Has(q, k) \/ k = e
           /\ Distinct(q) /\ ~Has(q, e) => Distinct(Append(q, e))
  <1> DEFINE n == Len(q)
             a == Append(q, e)
  <1>1. /\ n \in Nat /\ DOMAIN q = 1..n /\ DOMAIN a = 1..(n + 1)
        /\ \A i \in 1..n : a[i] = q[i]
        /\ a[n + 1] = e
    OBVIOUS
  <1> HIDE DEF a, n
  <1>2. /\ n + 1 \in 1..(n + 1)
        /\ \A i \in 1..n : i \in 1..(n + 1) /\ i # n + 1
        /\ \A i \in 1..(n + 1) : i \in 1..n \/ i = n + 1
    BY <1>1
  <1>3. ASSUME NEW k PROVE Has(a, k) <=> Has(q, k) \/ k = e
    <2>1. Has(a, k) => Has(q, k) \/ k = e
      BY <1>1, <1>2 DEF Has
    <2>2. Has(q, k) => Has(a, k)
      BY <1>1, <1>2 DEF Has
    <2>3. k = e => Has(a, k)
      BY <1>1, <1>2 DEF Has
    <2> QED  BY <2>1, <2>2, <2>3
  <1>4. ASSUME Distinct(q), ~Has(q, e), NEW i \in DOMAIN a, NEW j \in DOMAIN a,
               a[i] = a[j]
        PROVE  i = j
    <2>1. CASE i \in 1..n /\ j \in 1..n
      BY <1>1, <1>4, <2>1 DEF Distinct
    <2>2. ~(i \in 1..n /\ j = n + 1) /\ ~(j \in 1..n /\ i = n + 1)
      BY <1>1, <1>4 DEF Has
    <2> QED  BY <1>1, <1>2, <1>4, <2>1, <2>2
  <1> QED  BY <1>3, <1>4 DEF Distinct, a

LEMMA HasTaken ==
    ASSUME NEW q \in Seq(Nat), q # <<>>
    PROVE  /\ \A k : Has(q, k) <=> k = Head(q) \/ Has(Tail(q), k)
           /\ Distinct(q) => Distinct(Tail(q)) /\ ~Has(Tail(q), Head(q))
  <1> DEFINE n == Len(q)
             t == Tail(q)
  <1>1. /\ n \in Nat \ {0} /\ DOMAIN q = 1..n /\ Head(q) = q[1]
        /\ DOMAIN t = 1..(n - 1) /\ \A i \in 1..(n - 1) : t[i] = q[i + 1]
    BY HeadTailProperties
  <1> HIDE DEF t, n
  <1>2. /\ 1 \in 1..n
        /\ \A i \in 1..(n - 1) : i + 1 \in 1..n /\ i + 1 # 1 /\ t[i] = q[i + 1]
        /\ \A i \in 1..n : i # 1 => i - 1 \in 1..(n - 1) /\ t[i - 1] = q[i]
    <2>1. \A i \in 1..n : i # 1 => i - 1 \in 1..(n - 1) /\ (i - 1) + 1 = i
      BY <1>1
    <2> QED  BY <1>1, <2>1
  <1>3. ASSUME NEW k PROVE Has(q, k) <=> k = q[1] \/ Has(t, k)
    <2>1. Has(q, k) => k = q[1] \/ Has(t, k)
      BY <1>1, <1>2 DEF Has
    <2>2. ASSUME NEW i \in DOMAIN t, t[i] = k PROVE Has(q, k)
      <3>1. i + 1 \in DOMAIN q /\ q[i + 1] = k
        BY <1>1, <1>2, <2>2
      <3> QED  BY <3>1 DEF Has
    <2>3. k = q[1] => Has(q, k)
      BY <1>1, <1>2 DEF Has
    <2> QED  BY <2>1, <2>2, <2>3 DEF Has
  <1>4. ASSUME Distinct(q), NEW i \in DOMAIN t, NEW j \in DOMAIN t, t[i] = t[j]
        PROVE  i = j
    <2>1. /\ i \in 1..(n - 1) /\ i + 1 \in DOMAIN q /\ q[i + 1] = t[i]
          /\ j \in 1..(n - 1) /\ j + 1 \in DOMAIN q /\ q[j + 1] = t[j]
      BY <1>1, <1>2, <1>4
    <2>2. i + 1 = j + 1
      BY <1>4, <2>1 DEF Distinct
    <2> QED  BY <2>1, <2>2
  <1>5. ASSUME Distinct(q), NEW i \in DOMAIN t, t[i] = q[1]
        PROVE  FALSE
    <2>1. /\ i + 1 \in DOMAIN q /\ i + 1 # 1 /\ q[i + 1] = t[i]
          /\ 1 \in DOMAIN q
      BY <1>1, <1>2, <1>5
    <2> QED  BY <1>5, <2>1 DEF Distinct
  <1> QED  BY <1>1, <1>3, <1>4, <1>5 DEF Distinct, Has, t

LEMMA EmptyHas == Distinct(<<>>) /\ \A k : ~Has(<<>>, k)
  BY DEF Distinct, Has

\* The messages that have been taken out of the queue.
Collected == sent - Len(msgs)

\* Those in the queue are the newest, in order.
QueueNewest ==
    /\ Collected \in Nat
    /\ \A i \in 1..Len(msgs) : msgs[i] = Collected + i

\* The others are in the batch of one handler or handled, and in one place.
OnePlace ==
    /\ \A k : Has(handled, k) => k \in 1..Collected
    /\ \A d \in Frame : \A k :
          Has(batch[d], k) => k \in 1..Collected /\ ~Has(handled, k)
    /\ \A d, e \in Frame : \A k : Has(batch[d], k) /\ Has(batch[e], k) => d = e
    /\ Distinct(handled) /\ \A d \in Frame : Distinct(batch[d])

\* None of them is lost, unless the receiver stops.
NoneLost ==
    ~quit => \A k \in 1..Collected :
                Has(handled, k) \/ \E d \in Frame : Has(batch[d], k)

PlaceInv == QueueNewest /\ OnePlace /\ NoneLost

LEMMA PlaceSame ==
    ASSUME PlaceInv, UNCHANGED <<batch, handled>>, quit => quit',
           Collected' = Collected, QueueNewest'
    PROVE  PlaceInv'
  BY DEF PlaceInv, OnePlace, NoneLost

LEMMA SendMsgPlace ==
    ASSUME TypeOK, PlaceInv, NEW s \in Sender, SendMsg(s)
    PROVE  PlaceInv'
  <1> DEFINE n == Len(msgs)
  <1>1. /\ sent' = sent + 1 /\ msgs' = Append(msgs, sent + 1)
        /\ UNCHANGED <<batch, handled, quit>>
        /\ msgs \in Seq(Nat) /\ sent \in Nat
    BY DEF SendMsg, TypeOK
  <1>2. /\ n \in Nat /\ Len(msgs') = n + 1
        /\ \A i \in 1..n : msgs'[i] = msgs[i]
        /\ msgs'[n + 1] = sent + 1
    BY <1>1
  <1>3. Collected' = Collected /\ Collected = sent - n /\ Collected \in Nat
    BY <1>1, <1>2 DEF Collected, PlaceInv, QueueNewest
  <1>4. ASSUME NEW i \in 1..(n + 1) PROVE msgs'[i] = Collected + i
    <2>1. CASE i \in 1..n
      BY <1>2, <2>1 DEF PlaceInv, QueueNewest
    <2>2. CASE i = n + 1
      BY <1>1, <1>2, <1>3, <2>2
    <2> QED  BY <1>2, <2>1, <2>2
  <1>5. QueueNewest'
    BY <1>2, <1>3, <1>4 DEF QueueNewest
  <1> QED  BY <1>1, <1>3, <1>5, PlaceSame

\* The handler that collects has an empty batch; all batches together had
\* the older messages.
LEMMA CollectMsgsPlace ==
    ASSUME TypeOK, PlaceInv, CollectMsgs
    PROVE  PlaceInv'
  <1> DEFINE n == Len(msgs)
  <1>1. /\ depth \in Frame /\ batch[depth] = <<>>
        /\ batch' = [batch EXCEPT ![depth] = msgs] /\ msgs' = <<>>
        /\ UNCHANGED <<handled, quit, sent>>
        /\ msgs \in Seq(Nat) /\ sent \in Nat /\ n \in Nat
        /\ DOMAIN msgs = 1..n /\ Len(msgs') = 0
    BY MessengerAssumption DEF CollectMsgs, TypeOK, Frame
  <1>2. /\ batch'[depth] = msgs
        /\ \A d \in Frame : d # depth => batch'[d] = batch[d]
    BY <1>1 DEF TypeOK
  <1>3. Collected' = sent /\ Collected = sent - n /\ Collected \in Nat
    BY <1>1 DEF Collected, PlaceInv, QueueNewest
  <1>4. \A k : Has(msgs, k) <=> k \in (Collected + 1)..sent
    <2>1. \A i \in 1..n : msgs[i] = Collected + i
      BY DEF PlaceInv, QueueNewest
    <2>2. ASSUME NEW k, Has(msgs, k) PROVE k \in (Collected + 1)..sent
      BY <1>1, <1>3, <2>1, <2>2 DEF Has
    <2>3. ASSUME NEW k \in (Collected + 1)..sent PROVE Has(msgs, k)
      <3>1. k - Collected \in 1..n /\ msgs[k - Collected] = k
        BY <1>1, <1>3, <2>1
      <3> QED  BY <1>1, <3>1 DEF Has
    <2> QED  BY <2>2, <2>3
  <1>5. Distinct(msgs)
    <2>1. ASSUME NEW i \in 1..n, NEW j \in 1..n, msgs[i] = msgs[j]
          PROVE  i = j
      BY <1>1, <1>3, <2>1 DEF PlaceInv, QueueNewest
    <2> QED  BY <1>1, <2>1 DEF Distinct
  <1>6. \A k : /\ k \in 1..Collected => k \in 1..sent /\ ~Has(msgs, k)
               /\ Has(msgs, k) => k \in 1..sent /\ ~Has(handled, k)
               /\ k \in 1..sent => k \in 1..Collected \/ Has(msgs, k)
    <2>1. \A k : /\ k \in 1..Collected =>
                       k \in 1..sent /\ k \notin (Collected + 1)..sent
                 /\ k \in (Collected + 1)..sent =>
                       k \in 1..sent /\ k \notin 1..Collected
                 /\ k \in 1..sent =>
                       k \in 1..Collected \/ k \in (Collected + 1)..sent
      BY <1>1, <1>3
    <2> QED  BY <1>4, <2>1 DEF PlaceInv, OnePlace
  <1>7. QueueNewest'
    BY <1>1, <1>3 DEF QueueNewest
  <1>8. OnePlace'
    <2>1. \A k : Has(handled, k) => k \in 1..sent
      BY <1>6 DEF PlaceInv, OnePlace
    <2>2. ASSUME NEW d \in Frame, NEW k, Has(batch'[d], k)
          PROVE  k \in 1..sent /\ ~Has(handled, k)
      BY <1>2, <1>6, <2>2 DEF PlaceInv, OnePlace
    <2>3. ASSUME NEW d \in Frame, NEW e \in Frame, NEW k,
                 Has(batch'[d], k), Has(batch'[e], k)
          PROVE  d = e
      BY <1>2, <1>6, <2>3 DEF PlaceInv, OnePlace
    <2>4. Distinct(handled) /\ \A d \in Frame : Distinct(batch'[d])
      BY <1>2, <1>5 DEF PlaceInv, OnePlace
    <2> QED  BY <1>1, <1>3, <2>1, <2>2, <2>3, <2>4 DEF OnePlace
  <1>9. NoneLost'
    <2> SUFFICES ASSUME ~quit, NEW k \in 1..sent
                 PROVE  Has(handled, k) \/ \E d \in Frame : Has(batch'[d], k)
      BY <1>1, <1>3 DEF NoneLost
    <2>1. CASE Has(msgs, k)
      BY <1>1, <1>2, <2>1
    <2>2. CASE k \in 1..Collected
      <3>1. Has(handled, k) \/ \E d \in Frame : Has(batch[d], k)
        BY <2>2 DEF PlaceInv, NoneLost
      <3>2. ~Has(batch[depth], k)
        BY <1>1, EmptyHas
      <3> QED  BY <1>2, <3>1, <3>2
    <2> QED  BY <1>6, <2>1, <2>2
  <1> QED  BY <1>7, <1>8, <1>9 DEF PlaceInv

\* The message is taken out of the batch of one handler.
LEMMA HandledPlace ==
    ASSUME TypeOK, PlaceInv, NEW d \in Frame, batch[d] # <<>>,
           handled' = Append(handled, Head(batch[d])),
           UNCHANGED <<msgs, sent>>, quit => quit',
           \/ batch' = [batch EXCEPT ![d] = Tail(@)]
           \/ batch' = [e \in Frame |-> <<>>] /\ quit'
    PROVE  PlaceInv'
  <1> DEFINE b == batch[d]
             m == Head(b)
  <1>1. /\ b \in Seq(Nat) /\ b # <<>> /\ handled \in Seq(Nat)
        /\ m \in Nat /\ Tail(b) \in Seq(Nat)
    BY DEF TypeOK
  <1>2. /\ \A k : Has(b, k) <=> k = m \/ Has(Tail(b), k)
        /\ Distinct(b) => Distinct(Tail(b)) /\ ~Has(Tail(b), m)
    BY <1>1, HasTaken
  <1>3. /\ \A k : Has(handled', k) <=> Has(handled, k) \/ k = m
        /\ Distinct(handled) /\ ~Has(handled, m) => Distinct(handled')
    BY <1>1, HasAppended
  <1>4. \A e \in Frame :
           batch'[e] = <<>> \/ batch'[e] = IF e = d THEN Tail(b) ELSE batch[e]
    BY DEF TypeOK
  <1>5. ~quit' => \A e \in Frame :
                     batch'[e] = IF e = d THEN Tail(b) ELSE batch[e]
    BY DEF TypeOK
  <1> HIDE DEF b, m
  <1>6. Collected' = Collected /\ QueueNewest'
    BY DEF Collected, QueueNewest, PlaceInv
  <1>7. /\ m \in 1..Collected /\ ~Has(handled, m)
        /\ \A e \in Frame : e # d => ~Has(batch[e], m)
        /\ Distinct(Tail(b)) /\ ~Has(Tail(b), m)
    BY <1>2 DEF PlaceInv, OnePlace, b
  <1>8. \A e \in Frame : /\ \A k : Has(batch'[e], k) => Has(batch[e], k) /\ k # m
                         /\ Distinct(batch'[e])
    <2> SUFFICES ASSUME NEW e \in Frame
                 PROVE  /\ \A k : Has(batch'[e], k) => Has(batch[e], k) /\ k # m
                        /\ Distinct(batch'[e])
      OBVIOUS
    <2>1. CASE batch'[e] = <<>>
      BY <2>1, EmptyHas
    <2>2. CASE e = d /\ batch'[e] = Tail(b)
      BY <1>2, <1>7, <2>2 DEF b
    <2>3. CASE e # d /\ batch'[e] = batch[e]
      BY <1>7, <2>3 DEF PlaceInv, OnePlace
    <2> QED  BY <1>4, <2>1, <2>2, <2>3
  <1>9. OnePlace'
    <2>1. \A k : Has(handled', k) => k \in 1..Collected
      BY <1>3, <1>7 DEF PlaceInv, OnePlace
    <2>2. \A e \in Frame : \A k :
             Has(batch'[e], k) => k \in 1..Collected /\ ~Has(handled', k)
      BY <1>3, <1>8 DEF PlaceInv, OnePlace
    <2>3. \A e, f \in Frame : \A k : Has(batch'[e], k) /\ Has(batch'[f], k) => e = f
      BY <1>8 DEF PlaceInv, OnePlace
    <2>4. Distinct(handled') /\ \A e \in Frame : Distinct(batch'[e])
      BY <1>3, <1>7, <1>8 DEF PlaceInv, OnePlace
    <2> QED  BY <1>6, <2>1, <2>2, <2>3, <2>4 DEF OnePlace
  <1>10. NoneLost'
    <2> SUFFICES ASSUME ~quit', NEW k \in 1..Collected
                 PROVE  Has(handled', k) \/ \E e \in Frame : Has(batch'[e], k)
      BY <1>6 DEF NoneLost
    <2>1. Has(handled, k) \/ \E e \in Frame : Has(batch[e], k)
      BY DEF PlaceInv, NoneLost
    <2>2. ASSUME NEW e \in Frame, Has(batch[e], k)
          PROVE  k = m \/ Has(batch'[e], k)
      BY <1>2, <1>5, <2>2 DEF b
    <2> QED  BY <1>3, <2>1, <2>2
  <1> QED  BY <1>6, <1>9, <1>10 DEF PlaceInv

LEMMA InitPlace == ASSUME Init PROVE PlaceInv
  <1>1. /\ msgs = <<>> /\ handled = <<>> /\ sent = 0
        /\ \A d \in Frame : batch[d] = <<>>
    BY DEF Init
  <1>2. Len(<<>>) = 0
    BY EmptySeq
  <1>3. Collected = 0 /\ Len(msgs) = 0
    <2>1. Len(msgs) = 0
      BY <1>1, <1>2
    <2>2. 0 - 0 = 0
      OBVIOUS
    <2> QED  BY <1>1, <2>1, <2>2 DEF Collected
  <1>4. QueueNewest
    BY <1>3 DEF QueueNewest
  <1>5. OnePlace
    BY <1>1, EmptyHas DEF OnePlace
  <1>6. NoneLost
    BY <1>3 DEF NoneLost
  <1> QED  BY <1>4, <1>5, <1>6 DEF PlaceInv

LEMMA NextPlace ==
    ASSUME TypeOK, PlaceInv, [Next]_vars
    PROVE  PlaceInv'
  <1>1. depth > 0 => depth \in Frame
    BY MessengerAssumption DEF TypeOK, Frame
  <1>2. CASE HandleMessage
    <2>1. depth \in Frame /\ batch[depth] # <<>>
      BY <1>1, <1>2 DEF HandleMessage
    <2>2. /\ handled' = Append(handled, Head(batch[depth]))
          /\ batch' = [batch EXCEPT ![depth] = Tail(@)]
          /\ UNCHANGED <<msgs, sent>>
      BY <1>2 DEF HandleMessage, FirstOf
    <2>3. quit => quit'
      BY <1>2 DEF HandleMessage
    <2> QED  BY <2>1, <2>2, <2>3, HandledPlace
  <1>3. CASE HandlerThrows
    <2>1. depth \in Frame /\ batch[depth] # <<>>
      BY <1>1, <1>3 DEF HandlerThrows
    <2>2. /\ handled' = Append(handled, Head(batch[depth]))
          /\ batch' = [e \in Frame |-> <<>>] /\ quit'
          /\ UNCHANGED <<msgs, sent>>
      BY <1>3 DEF HandlerThrows, FirstOf
    <2> QED  BY <2>1, <2>2, HandledPlace
  <1>4. CASE UNCHANGED <<msgs, batch, handled, sent, quit>>
    <2>1. Collected' = Collected /\ QueueNewest'
      BY <1>4 DEF Collected, QueueNewest, PlaceInv
    <2> QED  BY <1>4, <2>1, PlaceSame
  <1>5. ASSUME (\E s \in Sender : Wake(s)) \/ TakeWake \/ CloseDialog \/ Return
                 \/ UNCHANGED vars
        PROVE  UNCHANGED <<msgs, batch, handled, sent, quit>>
    BY <1>5 DEF Wake, TakeWake, CloseDialog, Return, vars
  <1> QED
    BY <1>2, <1>3, <1>4, <1>5, SendMsgPlace, CollectMsgsPlace DEF Next, Receive

\* No message is handled twice, however deep the dialogs nest
\* (collect_msgs, house_app::_handle_messenger).
THEOREM HandledOnceHolds == Spec => []HandledOnce
  <1>1. PlaceInv => HandledOnce
    BY DEF PlaceInv, OnePlace, Distinct, HandledOnce
  <1>2. TypeOK /\ PlaceInv /\ [Next]_vars => PlaceInv'
    BY NextPlace
  <1> QED  BY <1>1, <1>2, InitPlace, TypeCorrect, PTL DEF Spec

\* When the outermost handler has returned, no message that was collected
\* was left out (house_app::_handle_messenger).
THEOREM NothingLeftBehindHolds == Spec => []NothingLeftBehind
  <1>1. TypeOK /\ PlaceInv => NothingLeftBehind
    <2> SUFFICES ASSUME TypeOK, PlaceInv, depth = 0, ~quit
                 PROVE  {handled[i] : i \in DOMAIN handled} = 1..Collected
      BY DEF NothingLeftBehind, Collected
    <2>1. \A d \in Frame : batch[d] = <<>>
      BY DEF TypeOK, Frame
    <2>2. \A k \in 1..Collected : Has(handled, k)
      BY <2>1, EmptyHas DEF PlaceInv, NoneLost
    <2>3. \A k : Has(handled, k) => k \in 1..Collected
      BY DEF PlaceInv, OnePlace
    <2> QED  BY <2>2, <2>3 DEF Has
  <1>2. TypeOK /\ PlaceInv /\ [Next]_vars => PlaceInv'
    BY NextPlace
  <1> QED  BY <1>1, <1>2, InitPlace, TypeCorrect, PTL DEF Spec
=============================================================================
