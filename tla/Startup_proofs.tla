--------------------------- MODULE Startup_proofs ---------------------------
(* A theorem about Startup, for every set of users, addresses and ignore     *)
(* lists, and any number of logins and event loops.                          *)
EXTENDS Startup, FiniteSetTheorems, SequenceTheorems, TLAPS

-----------------------------------------------------------------------------
(* Sequences of whatever they hold *)

IsSeq(s) == s \in Seq(Range(s))

LEMMA SeqIsSeq ==
    ASSUME NEW S, NEW s \in Seq(S)
    PROVE  IsSeq(s)
  <1>1. s \in [1..Len(s) -> S] /\ Len(s) \in Nat
    BY LenProperties
  <1>2. s \in [1..Len(s) -> Range(s)]
    BY <1>1 DEF Range
  <1> QED  BY <1>1, <1>2, SeqDef DEF IsSeq

LEMMA AppendIsSeq ==
    ASSUME NEW s, IsSeq(s), NEW x
    PROVE  /\ IsSeq(Append(s, x))
           /\ Len(s) \in Nat
           /\ DOMAIN s = 1..Len(s)
           /\ DOMAIN Append(s, x) = 1..(Len(s) + 1)
           /\ \A i \in 1..Len(s) : Append(s, x)[i] = s[i]
           /\ Append(s, x)[Len(s) + 1] = x
  <1> DEFINE S == Range(s) \cup {x}
  <1>1. s \in Seq(S) /\ x \in S
    BY SeqMonotonic DEF IsSeq
  <1> HIDE DEF S
  <1>2. Append(s, x) \in Seq(S)
    BY <1>1
  <1>3. IsSeq(Append(s, x))
    BY <1>2, SeqIsSeq
  <1>4. /\ Len(s) \in Nat
        /\ DOMAIN s = 1..Len(s)
        /\ DOMAIN Append(s, x) = 1..(Len(s) + 1)
        /\ \A i \in 1..Len(s) : Append(s, x)[i] = s[i]
        /\ Append(s, x)[Len(s) + 1] = x
    BY <1>1
  <1> QED  BY <1>3, <1>4

LEMMA TailIsSeq ==
    ASSUME NEW s, IsSeq(s), s # <<>>
    PROVE  /\ IsSeq(Tail(s))
           /\ Len(s) \in Nat \ {0}
           /\ DOMAIN s = 1..Len(s)
           /\ Head(s) = s[1]
           /\ DOMAIN Tail(s) = 1..(Len(s) - 1)
           /\ \A i \in 1..(Len(s) - 1) : Tail(s)[i] = s[i + 1]
  <1>1. s \in Seq(Range(s))
    BY DEF IsSeq
  <1> DEFINE S == Range(s)
  <1>2. s \in Seq(S) /\ s # <<>>
    BY <1>1
  <1> HIDE DEF S
  <1>3. Tail(s) \in Seq(S) /\ Len(Tail(s)) = Len(s) - 1
        /\ \A i \in 1..Len(Tail(s)) : Tail(s)[i] = s[i + 1]
    BY <1>2, HeadTailProperties
  <1>4. IsSeq(Tail(s))
    BY <1>3, SeqIsSeq
  <1>5. Len(s) \in Nat \ {0} /\ DOMAIN s = 1..Len(s) /\ Head(s) = s[1]
    BY <1>2
  <1>6. DOMAIN Tail(s) = 1..(Len(s) - 1)
    BY <1>3, LenProperties
  <1> QED  BY <1>3, <1>4, <1>5, <1>6

LEMMA FrontIsSeq ==
    ASSUME NEW s, IsSeq(s), s # <<>>
    PROVE  /\ IsSeq(Front(s))
           /\ Len(s) \in Nat \ {0}
           /\ DOMAIN s = 1..Len(s)
           /\ Last(s) = s[Len(s)]
           /\ DOMAIN Front(s) = 1..(Len(s) - 1)
           /\ Len(Front(s)) = Len(s) - 1
           /\ \A i \in 1..(Len(s) - 1) : Front(s)[i] = s[i]
  <1> DEFINE S == Range(s)
  <1>1. s \in Seq(S) /\ s # <<>>
    BY DEF IsSeq
  <1> HIDE DEF S
  <1>2. Len(s) \in Nat \ {0} /\ DOMAIN s = 1..Len(s)
    BY <1>1
  <1>3. /\ Front(s) \in Seq(S) /\ Len(Front(s)) = Len(s) - 1
        /\ \A i \in 1..(Len(s) - 1) : Front(s)[i] = s[i]
    <2>1. \A i \in 1..(Len(s) - 1) : s[i] \in S
      BY <1>1, <1>2, ElementOfSeq
    <2>2. /\ SubSeq(s, 1, Len(s) - 1) \in Seq(S)
          /\ Len(SubSeq(s, 1, Len(s) - 1)) =
                IF 1 <= Len(s) - 1 THEN Len(s) - 1 - 1 + 1 ELSE 0
          /\ \A i \in 1..(Len(s) - 1 - 1 + 1) : SubSeq(s, 1, Len(s) - 1)[i] = s[1 + i - 1]
      BY <1>2, <2>1, SubSeqProperties
    <2> QED  BY <1>2, <2>2 DEF Front
  <1>4. IsSeq(Front(s))
    BY <1>3, SeqIsSeq
  <1>5. DOMAIN Front(s) = 1..(Len(s) - 1)
    BY <1>3, LenProperties
  <1> QED  BY <1>2, <1>3, <1>4, <1>5 DEF Last

LEMMA ConcatIsSeq ==
    ASSUME NEW s, IsSeq(s), NEW t, IsSeq(t)
    PROVE  /\ IsSeq(s \o t)
           /\ \A i \in DOMAIN s : i \in DOMAIN (s \o t) /\ (s \o t)[i] = s[i]
           /\ \A i \in DOMAIN t : /\ Len(s) + i \in DOMAIN (s \o t)
                                  /\ (s \o t)[Len(s) + i] = t[i]
  <1> DEFINE S == Range(s) \cup Range(t)
  <1>1. s \in Seq(S) /\ t \in Seq(S)
    BY SeqMonotonic DEF IsSeq
  <1> HIDE DEF S
  <1>2. /\ s \o t \in Seq(S)
        /\ Len(s \o t) = Len(s) + Len(t)
        /\ \A i \in 1..(Len(s) + Len(t)) :
              (s \o t)[i] = IF i <= Len(s) THEN s[i] ELSE t[i - Len(s)]
    BY <1>1, ConcatProperties
  <1>3. /\ Len(s) \in Nat /\ Len(t) \in Nat /\ DOMAIN s = 1..Len(s) /\ DOMAIN t = 1..Len(t)
        /\ DOMAIN (s \o t) = 1..(Len(s) + Len(t))
    BY <1>1, <1>2, LenProperties
  <1>4. IsSeq(s \o t)
    BY <1>2, SeqIsSeq
  <1>5. ASSUME NEW i \in DOMAIN s
        PROVE  i \in DOMAIN (s \o t) /\ (s \o t)[i] = s[i]
    BY <1>2, <1>3
  <1>6. ASSUME NEW i \in DOMAIN t
        PROVE  Len(s) + i \in DOMAIN (s \o t) /\ (s \o t)[Len(s) + i] = t[i]
    <2>1. Len(s) + i \in 1..(Len(s) + Len(t)) /\ ~(Len(s) + i <= Len(s))
          /\ (Len(s) + i) - Len(s) = i
      BY <1>3
    <2> QED  BY <1>2, <1>3, <2>1
  <1> QED  BY <1>4, <1>5, <1>6

-----------------------------------------------------------------------------
(* The invariant *)

\* The first event loop is the one of the login window or of the application;
\* what runs above it is neither.
StackInv ==
    /\ IsSeq(stack) /\ stack # <<>>
    /\ \A i \in DOMAIN stack : stack[i].kind \in {"login", "app"} <=> i = 1

\* The networking thread blocks the address, or is told to, or will be when a
\* box is closed.
Covered(a) ==
    \/ a \in net.block
    \/ \E i \in DOMAIN toNet : toNet[i].kind = "block_users" /\ a \in toNet[i].ips
    \/ \E i \in DOMAIN stack : stack[i].kind = "blocked_list" /\ a \in stack[i].ips

IgnoreInv ==
    /\ StackInv
    /\ IsSeq(toNet)
    /\ "block" \in DOMAIN net /\ "ip" \in DOMAIN self /\ "told" \in DOMAIN past
    /\ self.ip \in block => self.ip \in past.told
    /\ \A a \in block : Covered(a)

LEMMA StackPushed ==
    ASSUME StackInv, NEW l, l.kind \notin {"login", "app"}, stack' = Append(stack, l)
    PROVE  /\ StackInv'
           /\ Len(stack) + 1 \in DOMAIN stack' /\ stack'[Len(stack) + 1] = l
           /\ \A i \in DOMAIN stack : i \in DOMAIN stack' /\ stack'[i] = stack[i]
  <1> DEFINE n == Len(stack)
  <1>1. /\ IsSeq(stack') /\ n \in Nat
        /\ DOMAIN stack = 1..n /\ DOMAIN stack' = 1..(n + 1)
        /\ \A i \in 1..n : stack'[i] = stack[i]
        /\ stack'[n + 1] = l
    BY AppendIsSeq DEF StackInv
  <1>2. n # 0
    BY FrontIsSeq DEF StackInv
  <1> HIDE DEF n
  <1>3. stack' # <<>>
    <2>1. 1 \in DOMAIN stack'
      BY <1>1
    <2> QED  BY <2>1
  <1>4. ASSUME NEW i \in DOMAIN stack'
        PROVE  stack'[i].kind \in {"login", "app"} <=> i = 1
    <2>1. CASE i \in 1..n
      BY <1>1, <2>1 DEF StackInv
    <2>2. CASE i = n + 1
      BY <1>1, <1>2, <2>2
    <2> QED  BY <1>1, <2>1, <2>2
  <1>5. /\ n + 1 \in DOMAIN stack' /\ stack'[n + 1] = l
        /\ \A i \in DOMAIN stack : i \in DOMAIN stack' /\ stack'[i] = stack[i]
    BY <1>1
  <1> QED  BY <1>1, <1>3, <1>4, <1>5 DEF StackInv, n

LEMMA StackPopped ==
    ASSUME StackInv, Last(stack).kind \notin {"login", "app"}, stack' = Front(stack)
    PROVE  /\ StackInv'
           /\ \A i \in DOMAIN stack : \/ stack[i] = Last(stack)
                                      \/ i \in DOMAIN stack' /\ stack'[i] = stack[i]
  <1> DEFINE n == Len(stack)
  <1>1. /\ IsSeq(stack') /\ n \in Nat \ {0}
        /\ DOMAIN stack = 1..n /\ DOMAIN stack' = 1..(n - 1)
        /\ Last(stack) = stack[n]
        /\ \A i \in 1..(n - 1) : stack'[i] = stack[i]
    BY FrontIsSeq DEF StackInv
  <1> HIDE DEF n
  <1>2. n # 1
    BY <1>1 DEF StackInv
  <1>3. stack' # <<>>
    <2>1. 1 \in DOMAIN stack'
      BY <1>1, <1>2
    <2> QED  BY <2>1
  <1>4. \A i \in DOMAIN stack' : i \in DOMAIN stack /\ stack'[i] = stack[i]
    BY <1>1
  <1>5. \A i \in DOMAIN stack : i = n \/ i \in DOMAIN stack'
    BY <1>1
  <1> QED  BY <1>1, <1>3, <1>4, <1>5 DEF StackInv

\* Blocked addresses stay covered when nothing is taken away.
LEMMA CoveredKept ==
    ASSUME NEW a, Covered(a), net.block \subseteq net'.block,
           \A i \in DOMAIN toNet : i \in DOMAIN toNet' /\ toNet'[i] = toNet[i],
           \A i \in DOMAIN stack : \/ i \in DOMAIN stack' /\ stack'[i] = stack[i]
                                   \/ stack[i].kind # "blocked_list"
    PROVE  Covered(a)'
  BY DEF Covered

LEMMA InitIgnoreInv == Init => IgnoreInv
  <1> SUFFICES ASSUME Init PROVE IgnoreInv
    OBVIOUS
  <1> DEFINE S == {Runs("login")}
             M == {[kind |-> "version_fetch"], [kind |-> "ignore_fetch"]}
  <1>1. stack \in Seq(S) /\ stack # <<>> /\ DOMAIN stack = {1} /\ stack[1].kind = "login"
    BY DEF Init, Runs
  <1>2. toNet \in Seq(M)
    <2>1. \A a, b \in M : <<a>> \in Seq(M) /\ <<a, b>> \in Seq(M)
      <3> HIDE DEF M
      <3> QED  OBVIOUS
    <2> QED  BY <2>1 DEF Init
  <1> HIDE DEF S, M
  <1>3. StackInv
    BY <1>1, SeqIsSeq DEF StackInv
  <1>4. IsSeq(toNet)
    BY <1>2, SeqIsSeq
  <1>5. /\ "block" \in DOMAIN net /\ "ip" \in DOMAIN self /\ "told" \in DOMAIN past
        /\ block = {}
    BY DEF Init
  <1> QED  BY <1>3, <1>4, <1>5 DEF IgnoreInv

-----------------------------------------------------------------------------
(* The networking thread *)

\* What the thread does leaves the GUI alone.
LEMMA ThreadIgnoreInv ==
    ASSUME IgnoreInv, NEW net2, NEW gui, StepsOf(net2, gui),
           "block" \in DOMAIN net2, IsSeq(toNet)',
           "told" \in DOMAIN past', past'.told = past.told,
           \A a \in block : Covered(a)'
    PROVE  IgnoreInv'
  BY DEF IgnoreInv, StepsOf, StackInv

LEMMA WorkerIgnoreInv ==
    ASSUME IgnoreInv, WorkerHandles
    PROVE  IgnoreInv'
  <1> DEFINE m == Head(toNet)
             n == Len(toNet)
  <1>1. /\ IsSeq(toNet') /\ n \in Nat /\ m = toNet[1]
        /\ DOMAIN toNet = 1..n /\ DOMAIN toNet' = 1..(n - 1)
        /\ \A i \in 1..(n - 1) : toNet'[i] = toNet[i + 1]
        /\ toNet # <<>> /\ past' = past
    BY TailIsSeq DEF WorkerHandles, IgnoreInv
  <1> HIDE DEF m, n
  <1>2. \A i \in DOMAIN toNet : i = 1 \/ (i - 1 \in DOMAIN toNet' /\ toNet'[i - 1] = toNet[i])
    <2> TAKE i \in DOMAIN toNet
    <2>1. i # 1 => i - 1 \in 1..(n - 1) /\ (i - 1) + 1 = i
      BY <1>1
    <2> QED  BY <1>1, <2>1
  <1>3. ASSUME NEW net2, NEW gui, StepsOf(net2, gui), "block" \in DOMAIN net2,
               net.block \subseteq net2.block,
               m.kind = "block_users" => m.ips \subseteq net2.block
        PROVE  IgnoreInv'
    <2>1. \A a \in block : Covered(a)'
      <3>1. net' = net2 /\ stack' = stack
        BY <1>3 DEF StepsOf
      <3> TAKE a \in block
      <3>2. Covered(a)
        BY DEF IgnoreInv
      <3>3. CASE a \in net.block
        BY <1>3, <3>1, <3>3 DEF Covered
      <3>4. CASE \E i \in DOMAIN toNet : toNet[i].kind = "block_users" /\ a \in toNet[i].ips
        <4>1. PICK i \in DOMAIN toNet : toNet[i].kind = "block_users" /\ a \in toNet[i].ips
          BY <3>4
        <4>2. CASE i = 1
          BY <1>1, <1>3, <3>1, <4>1, <4>2 DEF Covered
        <4>3. CASE i # 1
          BY <1>2, <4>1, <4>3 DEF Covered
        <4> QED  BY <4>2, <4>3
      <3>5. CASE ~(a \in net.block) /\ ~(\E i \in DOMAIN toNet :
                    toNet[i].kind = "block_users" /\ a \in toNet[i].ips)
        BY <3>1, <3>2, <3>5 DEF Covered
      <3> QED  BY <3>3, <3>4, <3>5
    <2> QED  BY <1>1, <1>3, <2>1, ThreadIgnoreInv DEF IgnoreInv
  <1>4. "block" \in DOMAIN net
    BY DEF IgnoreInv
  <1>5. ASSUME NEW job, ServiceFetch(job), m.kind # "block_users"
        PROVE  IgnoreInv'
    <2>1. PICK start \in Starts \cup {"no_url"} :
             IF start = "throws"
             THEN StepsOf([net EXCEPT !.ended = TRUE], <<[kind |-> "worker_exception"]>>)
             ELSE StepsOf([net EXCEPT !.fetches =
                             IF start = "opened" THEN @ \cup {[job |-> job]} ELSE @], <<>>)
      BY <1>5 DEF ServiceFetch
    <2> DEFINE net2 == IF start = "throws" THEN [net EXCEPT !.ended = TRUE]
                       ELSE [net EXCEPT !.fetches =
                               IF start = "opened" THEN @ \cup {[job |-> job]} ELSE @]
               gui  == IF start = "throws" THEN <<[kind |-> "worker_exception"]>> ELSE <<>>
    <2>2. StepsOf(net2, gui)
      BY <2>1
    <2>3. "block" \in DOMAIN net2 /\ net2.block = net.block
      BY <1>4
    <2> HIDE DEF net2, gui
    <2> QED  BY <1>3, <1>5, <2>2, <2>3
  <1>6. ASSUME NEW ask, NEW cred, LoginOperation(ask, cred), m.kind # "block_users"
        PROVE  IgnoreInv'
    <2>1. PICK start \in Starts \ {"throws"} :
             LET f == [job |-> ask, cred |-> cred, nr |-> net.asks[ask] + 1]
             IN StepsOf([net EXCEPT !.asks[ask] = @ + 1,
                                    !.fetches = IF start = "opened" THEN @ \cup {f} ELSE @],
                        AskBegins(ask, cred, start))
      BY <1>6 DEF LoginOperation
    <2> DEFINE f    == [job |-> ask, cred |-> cred, nr |-> net.asks[ask] + 1]
               net2 == [net EXCEPT !.asks[ask] = @ + 1,
                                   !.fetches = IF start = "opened" THEN @ \cup {f} ELSE @]
    <2>2. StepsOf(net2, AskBegins(ask, cred, start))
      BY <2>1
    <2>3. "block" \in DOMAIN net2 /\ net2.block = net.block
      BY <1>4
    <2> HIDE DEF net2
    <2> QED  BY <1>3, <1>6, <2>2, <2>3
  <1>7. CASE m.kind = "connect" /\ StepsOf([net EXCEPT !.connected = TRUE], <<>>)
    <2> DEFINE net2 == [net EXCEPT !.connected = TRUE]
    <2>1. "block" \in DOMAIN net2 /\ net2.block = net.block
      BY <1>4
    <2> QED  BY <1>3, <1>7, <2>1
  <1>8. CASE m.kind = "block_users" /\ StepsOf([net EXCEPT !.block = WithBlocked(@, m.ips)], <<>>)
    <2> DEFINE net2 == [net EXCEPT !.block = WithBlocked(@, m.ips)]
    <2>1. "block" \in DOMAIN net2 /\ net2.block = net.block \cup m.ips
      BY <1>4 DEF WithBlocked
    <2> QED  BY <1>3, <1>8, <2>1
  <1> QED  BY <1>5, <1>6, <1>7, <1>8 DEF WorkerHandles, m, Ask

\* Fetches that end, and the address that is found, leave the lists alone.
LEMMA AnswersIgnoreInv ==
    ASSUME IgnoreInv, ServiceFetchEnds \/ AskFetchEnds \/ ExternalIpFound
    PROVE  IgnoreInv'
  <1>1. "block" \in DOMAIN net /\ "told" \in DOMAIN past
    BY DEF IgnoreInv
  <1>2. ASSUME NEW net2, NEW gui, StepsOf(net2, gui), "block" \in DOMAIN net2,
               net2.block = net.block, toNet' = toNet,
               "told" \in DOMAIN past', past'.told = past.told
        PROVE  IgnoreInv'
    <2>1. \A a \in block : Covered(a)'
      BY <1>2 DEF IgnoreInv, Covered, StepsOf
    <2> QED  BY <1>2, <2>1, ThreadIgnoreInv DEF IgnoreInv
  <1>3. \A f : "block" \in DOMAIN Ended(f) /\ Ended(f).block = net.block
    BY <1>1 DEF Ended
  <1>4. CASE ServiceFetchEnds
    BY <1>1, <1>2, <1>3, <1>4 DEF ServiceFetchEnds
  <1>5. CASE AskFetchEnds
    <2>1. "told" \in DOMAIN past' /\ past'.told = past.told /\ toNet' = toNet
      BY <1>1, <1>5 DEF AskFetchEnds
    <2>2. \E f, gui : StepsOf(Ended(f), gui)
      BY <1>5 DEF AskFetchEnds
    <2> QED  BY <1>2, <1>3, <2>1, <2>2
  <1>6. CASE ExternalIpFound
    <2> DEFINE net2 == [net EXCEPT !.ip = TRUE]
    <2>1. "block" \in DOMAIN net2 /\ net2.block = net.block
      BY <1>1
    <2> QED  BY <1>1, <1>2, <1>6, <2>1 DEF ExternalIpFound
  <1> QED  BY <1>4, <1>5, <1>6

-----------------------------------------------------------------------------
(* The GUI thread *)

\* Nothing of the lists changes.
LEMMA SameIgnoreInv ==
    ASSUME IgnoreInv, UNCHANGED <<toNet, net, block>>,
           StackInv', \A a : Covered(a) => Covered(a)',
           "ip" \in DOMAIN self', self'.ip = self.ip,
           "told" \in DOMAIN past', past'.told = past.told
    PROVE  IgnoreInv'
  BY DEF IgnoreInv

LEMMA PushedIgnoreInv ==
    ASSUME IgnoreInv, NEW box, NEW ips, box \notin {"login", "app"}, Shows(box, ips),
           UNCHANGED <<toNet, net, block, self, past>>
    PROVE  IgnoreInv'
  <1> DEFINE l == [kind |-> box, rest |-> Tail(batch), ips |-> ips]
  <1>1. stack' = Append(stack, l) /\ l.kind \notin {"login", "app"}
    BY DEF Shows
  <1> HIDE DEF l
  <1>2. StackInv' /\ \A i \in DOMAIN stack : i \in DOMAIN stack' /\ stack'[i] = stack[i]
    BY <1>1, StackPushed DEF IgnoreInv
  <1>3. \A a : Covered(a) => Covered(a)'
    BY <1>2 DEF Covered
  <1> QED  BY <1>2, <1>3, SameIgnoreInv DEF IgnoreInv

LEMMA HandledIgnoreInv ==
    ASSUME IgnoreInv, UNCHANGED <<toNet, net, block, self, past, stack>>
    PROVE  IgnoreInv'
  BY DEF IgnoreInv, StackInv, Covered

LEMMA ListIgnoreInv ==
    ASSUME IgnoreInv, NEW m, IgnoreListFound(m), UNCHANGED net
    PROVE  IgnoreInv'
  <1> DEFINE ips == m.ips \ {Bad}
  <1>1. /\ block' = block \cup ips /\ self' = self
        /\ "ip" \in DOMAIN self /\ "told" \in DOMAIN past /\ "block" \in DOMAIN net
    BY DEF IgnoreListFound, WithBlocked, IgnoreInv
  <1>2. CASE ips # {} /\ SelfBlocked(self, block')
    <2> DEFINE l == [kind |-> "blocked_list", rest |-> Tail(batch), ips |-> ips]
    <2>1. /\ stack' = Append(stack, l) /\ toNet' = toNet
          /\ past' = [past EXCEPT !.told = @ \cup {self.ip}]
      BY <1>2 DEF IgnoreListFound, Shows
    <2>2. l.kind = "blocked_list" /\ l.ips = ips
      OBVIOUS
    <2> HIDE DEF l, ips
    <2>3. /\ StackInv'
          /\ Len(stack) + 1 \in DOMAIN stack' /\ stack'[Len(stack) + 1] = l
          /\ \A i \in DOMAIN stack : i \in DOMAIN stack' /\ stack'[i] = stack[i]
      BY <2>1, <2>2, StackPushed DEF IgnoreInv
    <2>4. \A a \in block' : Covered(a)'
      <3>1. \A a \in ips : Covered(a)'
        BY <2>2, <2>3 DEF Covered
      <3>2. \A a \in block : Covered(a)'
        BY <2>1, <2>3 DEF IgnoreInv, Covered
      <3> QED  BY <1>1, <3>1, <3>2
    <2> QED  BY <1>1, <2>1, <2>3, <2>4 DEF IgnoreInv
  <1>3. CASE ~(ips # {} /\ SelfBlocked(self, block'))
    <2>1. /\ stack' = stack /\ past' = past
          /\ toNet' = IF ips = {} THEN toNet
                      ELSE Append(toNet, [kind |-> "block_users", ips |-> ips])
      BY <1>3 DEF IgnoreListFound, Handled
    <2>2. self'.ip \in block' => self'.ip \in past'.told
      BY <1>1, <1>3, <2>1 DEF IgnoreInv, SelfBlocked
    <2>3. StackInv'
      BY <2>1 DEF IgnoreInv, StackInv
    <2>4. CASE ips = {}
      BY <1>1, <2>1, <2>2, <2>3, <2>4 DEF IgnoreInv, Covered
    <2>5. CASE ips # {}
      <3> DEFINE b == [kind |-> "block_users", ips |-> ips]
      <3>1. toNet' = Append(toNet, b) /\ b.kind = "block_users" /\ b.ips = ips
        BY <2>1, <2>5
      <3> HIDE DEF b, ips
      <3>2. /\ IsSeq(toNet')
            /\ Len(toNet) + 1 \in DOMAIN toNet' /\ toNet'[Len(toNet) + 1] = b
            /\ \A i \in DOMAIN toNet : i \in DOMAIN toNet' /\ toNet'[i] = toNet[i]
        <4>1. /\ IsSeq(toNet') /\ Len(toNet) \in Nat
              /\ DOMAIN toNet = 1..Len(toNet) /\ DOMAIN toNet' = 1..(Len(toNet) + 1)
              /\ \A i \in 1..Len(toNet) : toNet'[i] = toNet[i]
              /\ toNet'[Len(toNet) + 1] = b
          BY <3>1, AppendIsSeq DEF IgnoreInv
        <4> QED  BY <4>1
      <3>3. \A a \in block' : Covered(a)'
        <4>1. \A a \in ips : Covered(a)'
          BY <3>1, <3>2 DEF Covered
        <4>2. \A a \in block : Covered(a)'
          BY <2>1, <3>2 DEF IgnoreInv, Covered
        <4> QED  BY <1>1, <4>1, <4>2
      <3> QED  BY <1>1, <2>1, <2>2, <2>3, <3>2, <3>3 DEF IgnoreInv
    <2> QED  BY <2>4, <2>5
  <1> QED  BY <1>2, <1>3

LEMMA AddressIgnoreInv ==
    ASSUME IgnoreInv, NEW m, ExternalIpTold(m), UNCHANGED net
    PROVE  IgnoreInv'
  <1>1. /\ self' = [self EXCEPT !.ip = m.ip] /\ UNCHANGED <<toNet, block>>
        /\ "ip" \in DOMAIN self /\ "told" \in DOMAIN past
    BY DEF ExternalIpTold, IgnoreInv
  <1>2. "ip" \in DOMAIN self' /\ self'.ip = m.ip
    BY <1>1
  <1>3. CASE SelfBlocked(self', block)
    <2> DEFINE l == [kind |-> "blocked_ip", rest |-> Tail(batch), ips |-> {}]
    <2>1. stack' = Append(stack, l) /\ past' = [past EXCEPT !.told = @ \cup {m.ip}]
      BY <1>3 DEF ExternalIpTold, Shows
    <2>2. l.kind \notin {"login", "app"}
      OBVIOUS
    <2> HIDE DEF l
    <2>3. StackInv' /\ \A i \in DOMAIN stack : i \in DOMAIN stack' /\ stack'[i] = stack[i]
      BY <2>1, <2>2, StackPushed DEF IgnoreInv
    <2>4. \A a : Covered(a) => Covered(a)'
      BY <1>1, <2>3 DEF Covered
    <2>5. "told" \in DOMAIN past' /\ m.ip \in past'.told
      BY <1>1, <2>1
    <2> QED  BY <1>1, <1>2, <2>3, <2>4, <2>5 DEF IgnoreInv
  <1>4. CASE ~SelfBlocked(self', block)
    <2>1. stack' = stack /\ past' = past
      BY <1>4 DEF ExternalIpTold, Handled
    <2>2. self'.ip \notin block
      BY <1>4 DEF SelfBlocked
    <2>3. StackInv' /\ \A a : Covered(a) => Covered(a)'
      BY <1>1, <2>1 DEF IgnoreInv, StackInv, Covered
    <2> QED  BY <1>1, <1>2, <2>1, <2>2, <2>3 DEF IgnoreInv
  <1> QED  BY <1>3, <1>4

LEMMA HandleMessageIgnoreInv ==
    ASSUME IgnoreInv, HandleMessage
    PROVE  IgnoreInv'
  <1> DEFINE m == Head(batch)
  <1>1. UNCHANGED net
    BY DEF HandleMessage
  <1>2. CASE LoginToldDone(m) \/ VersionFound(m)
    BY <1>1, <1>2, HandledIgnoreInv DEF LoginToldDone, VersionFound, Handled
  <1>3. CASE AskToldBox(m)
    <2>1. UNCHANGED <<toNet, net, self, block, past>>
      BY <1>1, <1>3 DEF AskToldBox
    <2>2. \/ Handled
          \/ m.kind \notin {"login", "app"} /\ Shows(m.kind, {})
      BY <1>3 DEF AskToldBox
    <2>3. CASE Handled
      BY <2>1, <2>3, HandledIgnoreInv DEF Handled
    <2>4. CASE m.kind \notin {"login", "app"} /\ Shows(m.kind, {})
      BY <2>1, <2>4, PushedIgnoreInv
    <2> QED  BY <2>2, <2>3, <2>4
  <1>4. CASE IgnoreListFound(m)
    BY <1>1, <1>4, ListIgnoreInv
  <1>5. CASE ExternalIpTold(m)
    BY <1>1, <1>5, AddressIgnoreInv
  <1>6. CASE WorkerEnded(m)
    BY <1>1, <1>6, PushedIgnoreInv DEF WorkerEnded
  <1> QED  BY <1>2, <1>3, <1>4, <1>5, <1>6 DEF HandleMessage

LEMMA CloseBoxIgnoreInv ==
    ASSUME IgnoreInv, CloseBox
    PROVE  IgnoreInv'
  <1> DEFINE top  == Last(stack)
             sent == SentAfter(top)
             b    == [kind |-> "block_users", ips |-> top.ips]
  <1>1. /\ stack' = Front(stack) /\ toNet' = toNet \o sent
        /\ top.kind \notin {"login", "app"}
        /\ UNCHANGED <<net, self, block, past>>
    BY DEF CloseBox, Box
  <1>2. /\ IsSeq(sent)
        /\ top.kind = "blocked_list" =>
              /\ 1 \in DOMAIN sent /\ sent[1].kind = "block_users" /\ sent[1].ips = top.ips
    <2>1. CASE top.kind = "blocked_list"
      <3>1. sent = <<b>> /\ b.kind = "block_users" /\ b.ips = top.ips
        BY <2>1 DEF SentAfter
      <3> HIDE DEF b, sent
      <3>2. sent \in Seq({b}) /\ 1 \in DOMAIN sent /\ sent[1] = b
        BY <3>1
      <3> QED  BY <3>1, <3>2, SeqIsSeq
    <2>2. CASE top.kind # "blocked_list"
      <3>1. sent = <<>>
        BY <2>2 DEF SentAfter
      <3> HIDE DEF sent
      <3>2. sent \in Seq({})
        BY <3>1, EmptySeq
      <3> QED  BY <2>2, <3>2, SeqIsSeq
    <2> QED  BY <2>1, <2>2
  <1> HIDE DEF top, sent, b
  <1>3. /\ IsSeq(toNet')
        /\ \A i \in DOMAIN toNet : i \in DOMAIN toNet' /\ toNet'[i] = toNet[i]
        /\ \A i \in DOMAIN sent : /\ Len(toNet) + i \in DOMAIN toNet'
                                  /\ toNet'[Len(toNet) + i] = sent[i]
    BY <1>1, <1>2, ConcatIsSeq DEF IgnoreInv
  <1>4. /\ StackInv'
        /\ \A i \in DOMAIN stack : \/ stack[i] = top
                                   \/ i \in DOMAIN stack' /\ stack'[i] = stack[i]
    BY <1>1, StackPopped DEF IgnoreInv, top
  <1>5. ASSUME NEW a, Covered(a)
        PROVE  Covered(a)'
    <2>1. CASE a \in net.block
      BY <1>1, <2>1 DEF Covered
    <2>2. CASE \E i \in DOMAIN toNet : toNet[i].kind = "block_users" /\ a \in toNet[i].ips
      BY <1>3, <2>2 DEF Covered
    <2>3. CASE \E i \in DOMAIN stack : stack[i].kind = "blocked_list" /\ a \in stack[i].ips
      <3>1. PICK i \in DOMAIN stack : stack[i].kind = "blocked_list" /\ a \in stack[i].ips
        BY <2>3
      <3>2. CASE stack[i] = top
        <4>1. 1 \in DOMAIN sent /\ sent[1].kind = "block_users" /\ a \in sent[1].ips
          BY <1>2, <3>1, <3>2
        <4> QED  BY <1>3, <4>1 DEF Covered
      <3>3. CASE i \in DOMAIN stack' /\ stack'[i] = stack[i]
        BY <3>1, <3>3 DEF Covered
      <3> QED  BY <1>4, <3>2, <3>3
    <2> QED  BY <1>5, <2>1, <2>2, <2>3 DEF Covered
  <1> QED  BY <1>1, <1>3, <1>4, <1>5 DEF IgnoreInv

\* What the user asks for goes behind what was sent.
LEMMA SentIgnoreInv ==
    ASSUME IgnoreInv, NEW b, toNet' = Append(toNet, b), UNCHANGED <<net, block>>,
           StackInv',
           \A i \in DOMAIN stack : \/ i \in DOMAIN stack' /\ stack'[i] = stack[i]
                                   \/ stack[i].kind # "blocked_list",
           "ip" \in DOMAIN self', self'.ip = self.ip,
           "told" \in DOMAIN past', past'.told = past.told
    PROVE  IgnoreInv'
  <1>1. /\ IsSeq(toNet') /\ Len(toNet) \in Nat
        /\ DOMAIN toNet = 1..Len(toNet) /\ DOMAIN toNet' = 1..(Len(toNet) + 1)
        /\ \A i \in 1..Len(toNet) : toNet'[i] = toNet[i]
    BY AppendIsSeq DEF IgnoreInv
  <1>2. \A i \in DOMAIN toNet : i \in DOMAIN toNet' /\ toNet'[i] = toNet[i]
    BY <1>1
  <1>3. ASSUME NEW a \in block' PROVE Covered(a)'
    BY <1>2, <1>3 DEF IgnoreInv, Covered
  <1> QED  BY <1>1, <1>3 DEF IgnoreInv

LEMMA UserIgnoreInv ==
    ASSUME IgnoreInv,
           \/ \E c \in Cred : LoginClicked(c) \/ RegisterClicked(c)
           \/ RegisterOpened \/ RegisterEnds \/ ChangeStatus
    PROVE  IgnoreInv'
  <1>1. /\ "ip" \in DOMAIN self /\ "told" \in DOMAIN past
        /\ stack' = stack => StackInv'
    BY DEF IgnoreInv, StackInv
  <1>2. ASSUME NEW c \in Cred, LoginClicked(c)
        PROVE  IgnoreInv'
    <2>1. "told" \in DOMAIN past' /\ past'.told = past.told
      BY <1>1, <1>2 DEF LoginClicked
    <2> QED  BY <1>1, <1>2, <2>1, SentIgnoreInv DEF LoginClicked
  <1>3. ASSUME NEW c \in Cred, RegisterClicked(c)
        PROVE  IgnoreInv'
    BY <1>1, <1>3, SentIgnoreInv DEF RegisterClicked
  <1>4. CASE RegisterOpened
    <2> DEFINE l == Runs("register")
    <2>1. stack' = Append(stack, l) /\ l.kind \notin {"login", "app"}
      BY <1>4 DEF RegisterOpened, Runs
    <2> HIDE DEF l
    <2>2. StackInv' /\ \A i \in DOMAIN stack : i \in DOMAIN stack' /\ stack'[i] = stack[i]
      BY <2>1, StackPushed DEF IgnoreInv
    <2>3. \A a : Covered(a) => Covered(a)'
      BY <1>4, <2>2 DEF RegisterOpened, Covered
    <2> QED  BY <1>1, <1>4, <2>2, <2>3, SameIgnoreInv DEF RegisterOpened
  <1>5. CASE RegisterEnds
    <2>1. Last(stack).kind = "register" /\ stack' = Front(stack)
      BY <1>5 DEF RegisterEnds, Idle
    <2>2. /\ StackInv'
          /\ \A i \in DOMAIN stack : \/ stack[i] = Last(stack)
                                     \/ i \in DOMAIN stack' /\ stack'[i] = stack[i]
      BY <2>1, StackPopped DEF IgnoreInv
    <2>3. \A a : Covered(a) => Covered(a)'
      BY <1>5, <2>1, <2>2 DEF RegisterEnds, Covered
    <2> QED  BY <1>1, <1>5, <2>2, <2>3, SameIgnoreInv DEF RegisterEnds
  <1>6. CASE ChangeStatus
    <2>1. "ip" \in DOMAIN self' /\ self'.ip = self.ip
      BY <1>1, <1>6 DEF ChangeStatus
    <2>2. \A a : Covered(a) => Covered(a)'
      BY <1>6 DEF ChangeStatus, Covered
    <2> QED  BY <1>1, <1>6, <2>1, <2>2, SameIgnoreInv DEF ChangeStatus
  <1> QED  BY <1>2, <1>3, <1>4, <1>5, <1>6

\* No box is open over the login window when its loop ends: the handler of
\* the list that waited for one is not cut off.
LEMMA StartIgnoreInv ==
    ASSUME IgnoreInv, StartGoesOn
    PROVE  IgnoreInv'
  <1>1. Last(stack).kind = "login" /\ stack' = <<Runs("app")>>
    BY DEF StartGoesOn, Idle
  <1>2. \A i \in DOMAIN stack : stack[i].kind # "blocked_list"
    <2>1. /\ Len(stack) \in Nat \ {0} /\ DOMAIN stack = 1..Len(stack)
          /\ Last(stack) = stack[Len(stack)]
      BY FrontIsSeq DEF IgnoreInv, StackInv
    <2>2. Len(stack) = 1
      BY <1>1, <2>1 DEF IgnoreInv, StackInv
    <2>3. \A i \in DOMAIN stack : i = 1
      BY <2>1, <2>2
    <2> QED  BY <1>1, <2>1, <2>2, <2>3
  <1>3. StackInv'
    <2> DEFINE l == Runs("app")
    <2>1. stack' = <<l>> /\ l.kind = "app"
      BY <1>1 DEF Runs
    <2> HIDE DEF l
    <2>2. stack' \in Seq({l}) /\ DOMAIN stack' = {1} /\ stack'[1] = l /\ stack' # <<>>
      BY <2>1
    <2> QED  BY <2>1, <2>2, SeqIsSeq DEF StackInv
  <1>4. "ip" \in DOMAIN self' /\ self'.ip = self.ip
    BY DEF StartGoesOn, IgnoreInv
  <1> QED  BY <1>2, <1>3, <1>4, SentIgnoreInv DEF StartGoesOn, IgnoreInv

LEMMA NextIgnoreInv ==
    ASSUME IgnoreInv, [Next]_vars
    PROVE  IgnoreInv'
  <1>1. CASE UNCHANGED <<toNet, net, block, self, past, stack>>
    BY <1>1, HandledIgnoreInv
  <1>2. CASE Collect \/ Quits \/ CloseVersion \/ UNCHANGED vars
    BY <1>1, <1>2 DEF Collect, Quits, CloseVersion, vars
  <1>3. CASE WorkerHandles
    BY <1>3, WorkerIgnoreInv
  <1>4. CASE ServiceFetchEnds \/ AskFetchEnds \/ ExternalIpFound
    BY <1>4, AnswersIgnoreInv
  <1>5. CASE HandleMessage
    BY <1>5, HandleMessageIgnoreInv
  <1>6. CASE CloseBox
    BY <1>6, CloseBoxIgnoreInv
  <1>7. CASE StartGoesOn
    BY <1>7, StartIgnoreInv
  <1>8. CASE \/ \E c \in Cred : LoginClicked(c) \/ RegisterClicked(c)
             \/ RegisterOpened \/ RegisterEnds \/ ChangeStatus
    BY <1>8, UserIgnoreInv
  <1> QED  BY <1>2, <1>3, <1>4, <1>5, <1>6, <1>7, <1>8 DEF Next

\* Whichever comes last, the ignore list or the own address, the user is told
\* that he is on the list; and no event loop that ends takes with it the
\* addresses that the networking thread has still to be told of
\* (house_app.cpp:507-573, gui/window/house.cpp:847-884).
THEOREM ListReachesBoth == Spec => []IgnoreListApplied
  <1>1. IgnoreInv => IgnoreListApplied
    BY DEF IgnoreInv, IgnoreListApplied, Covered
  <1> QED  BY <1>1, InitIgnoreInv, NextIgnoreInv, PTL DEF Spec

-----------------------------------------------------------------------------
(* What a fetch tells the window that asked for it *)

LEMMA OutcomesType ==
    ASSUME NEW cbs \in Outcomes
    PROVE  cbs \in Seq(Callback) /\ Len(cbs) >= 2
  <1>0. /\ "error" \in Callback /\ "close" \in Callback /\ "response" \in Callback
        /\ \A c, d \in Callback : /\ <<c>> \in Seq(Callback) /\ Len(<<c>>) = 1
                                 /\ <<c, d>> \in Seq(Callback) /\ Len(<<c, d>>) = 2
    <2>1. "error" \in Callback /\ "close" \in Callback /\ "response" \in Callback
      BY DEF Callback
    <2>2. \A c, d \in Callback : /\ <<c>> \in Seq(Callback) /\ Len(<<c>>) = 1
                                /\ <<c, d>> \in Seq(Callback) /\ Len(<<c, d>>) = 2
      OBVIOUS
    <2> QED  BY <2>1, <2>2
  <1>1. \A got : ClosedWith(got) \in Seq(Callback) /\ Len(ClosedWith(got)) >= 1
    BY <1>0 DEF ClosedWith
  <1>2. ClosedWith("nothing") \in Seq(Callback) /\ Len(ClosedWith("nothing")) = 2
    BY <1>0 DEF ClosedWith
  <1>3. \A got : HandleResponse(got) \in Seq(Callback) /\ Len(HandleResponse(got)) = 1
    BY <1>0 DEF HandleResponse
  <1>4. <<"error">> \in Seq(Callback) /\ Len(<<"error">>) = 1
    BY <1>0
  <1>5. \A s, t \in Seq(Callback) :
           s \o t \in Seq(Callback) /\ Len(s \o t) = Len(s) + Len(t)
    BY ConcatProperties
  <1>6. PICK e \in Ends : cbs = Callbacks(e[1], e[2])
    BY DEF Outcomes
  <1>7. e[1] \in {"connect_failed", "recv_failed", "buffer_full", "peer_closed"}
    BY DEF Ends
  <1>8. CASE e[1] = "connect_failed"
    <2>1. cbs = ClosedWith("nothing")
      BY <1>6, <1>8 DEF Callbacks
    <2> QED  BY <1>2, <2>1
  <1>9. CASE e[1] \in {"recv_failed", "buffer_full"}
    <2>1. cbs = <<"error">> \o ClosedWith(e[2])
      BY <1>6, <1>9 DEF Callbacks
    <2>2. ClosedWith(e[2]) \in Seq(Callback) /\ Len(ClosedWith(e[2])) >= 1
          /\ Len(ClosedWith(e[2])) \in Nat
      BY <1>1, LenProperties
    <2>3. cbs \in Seq(Callback) /\ Len(cbs) = Len(<<"error">>) + Len(ClosedWith(e[2]))
      BY <1>4, <1>5, <2>1, <2>2
    <2> QED  BY <1>4, <2>2, <2>3
  <1>10. CASE e[1] = "peer_closed"
    <2>1. cbs = HandleResponse(e[2]) \o ClosedWith(e[2])
      BY <1>6, <1>10 DEF Callbacks
    <2>2. ClosedWith(e[2]) \in Seq(Callback) /\ Len(ClosedWith(e[2])) >= 1
          /\ Len(ClosedWith(e[2])) \in Nat
      BY <1>1, LenProperties
    <2>3. cbs \in Seq(Callback)
          /\ Len(cbs) = Len(HandleResponse(e[2])) + Len(ClosedWith(e[2]))
      BY <1>3, <1>5, <2>1, <2>2
    <2> QED  BY <1>3, <2>2, <2>3
  <1> QED  BY <1>7, <1>8, <1>9, <1>10

LEMMA AtOnceType ==
    ASSUME NEW start \in Starts
    PROVE  AtOnce(start) \in Seq(Callback)
  <1>1. <<"close">> \in Seq(Callback) /\ <<>> \in Seq(Callback)
        /\ <<"error", "close">> \in Seq(Callback)
    BY DEF Callback
  <1> QED  BY <1>1 DEF AtOnce, Callbacks, ClosedWith, Starts

\* What is spoken are the callbacks but the last.
LEMMA SpokenProperties ==
    ASSUME NEW cbs \in Seq(Callback)
    PROVE  /\ Spoken(cbs) \in Seq(Callback)
           /\ Len(cbs) >= 2 => Len(Spoken(cbs)) >= 1
           /\ \A i \in DOMAIN Spoken(cbs) :
                 i \in DOMAIN cbs /\ Spoken(cbs)[i] = cbs[i]
  <1>1. PICK n \in Nat : n = Len(cbs)
    BY LenProperties
  <1>2. DOMAIN cbs = 1..n
    BY <1>1, LenProperties
  <1>3. \A i \in 1..(n - 1) : cbs[i] \in Callback
    BY <1>1, ElementOfSeq
  <1>4. /\ SubSeq(cbs, 1, n - 1) \in Seq(Callback)
        /\ Len(SubSeq(cbs, 1, n - 1)) = IF 1 <= n - 1 THEN n - 1 - 1 + 1 ELSE 0
        /\ \A i \in 1..(n - 1 - 1 + 1) : SubSeq(cbs, 1, n - 1)[i] = cbs[1 + i - 1]
    BY <1>1, <1>3, SubSeqProperties
  <1>5. DOMAIN Spoken(cbs) = 1..(n - 1)
    BY <1>1, <1>4, LenProperties DEF Spoken
  <1> QED  BY <1>1, <1>2, <1>4, <1>5 DEF Spoken

LEMMA VerdictSays ==
    ASSUME NEW ask \in Ask, NEW cred \in Cred, NEW a
    PROVE  /\ Verdict(ask, cred, a) \in GuiMessage
           /\ Verdict(ask, cred, a).kind \in AnswersTo(ask)
           /\ Verdict(ask, cred, a).kind = "login_done" =>
                 /\ ask = "login" /\ a.said = "Y" /\ a.user = cred.user
                 /\ Verdict(ask, cred, a).user = cred.user
  <1>1. cred.user \in User
    BY DEF User
  <1>2. CASE a.said = "garbled"
    BY <1>2 DEF Verdict, Err, GuiMessage, GuiKind, AnswersTo, Ask
  <1>3. CASE a.said # "garbled" /\ (a.user # cred.user \/ a.said # "Y")
    BY <1>3 DEF Verdict, Fail, GuiMessage, GuiKind, AnswersTo, Ask
  <1>4. CASE a.said # "garbled" /\ a.user = cred.user /\ a.said = "Y" /\ ask = "login"
    BY <1>1, <1>4 DEF Verdict, GuiMessage, AnswersTo
  <1>5. CASE a.said # "garbled" /\ a.user = cred.user /\ a.said = "Y" /\ ask = "reg"
    BY <1>5 DEF Verdict, GuiMessage, GuiKind, AnswersTo
  <1> QED  BY <1>2, <1>3, <1>4, <1>5 DEF Ask

LEMMA ErrSays ==
    ASSUME NEW ask \in Ask
    PROVE  /\ [kind |-> Err(ask)] \in GuiMessage /\ Err(ask) \in AnswersTo(ask)
           /\ Err(ask) # "login_done"
  BY DEF Err, GuiMessage, GuiKind, AnswersTo, Ask

\* Everything told is an answer; a login is told to be done only when the
\* site's answer says so of the user who asked.
Answers(ask, cred, cbs, a, told) ==
    /\ told \in Seq(GuiMessage)
    /\ \A i \in DOMAIN told :
          /\ told[i].kind \in AnswersTo(ask)
          /\ told[i].kind = "login_done" =>
                /\ ask = "login" /\ a.said = "Y" /\ a.user = cred.user
                /\ told[i].user = cred.user /\ Has(cbs, "response")

LEMMA AskToldSays ==
    ASSUME NEW ask \in Ask, NEW cred \in Cred, NEW cbs \in Seq(Callback), NEW a
    PROVE  /\ Answers(ask, cred, cbs, a, AskTold(ask, cred, cbs, a))
           /\ Len(cbs) >= 2 => Len(AskTold(ask, cred, cbs, a)) >= 1
  <1> DEFINE s == Spoken(cbs)
             e == [kind |-> Err(ask)]
             v == Verdict(ask, cred, a)
             told == [i \in DOMAIN s |-> IF s[i] = "response" THEN v ELSE e]
  <1>1. AskTold(ask, cred, cbs, a) = told
    BY DEF AskTold
  <1>2. /\ s \in Seq(Callback) /\ (Len(cbs) >= 2 => Len(s) >= 1)
        /\ \A i \in DOMAIN s : i \in DOMAIN cbs /\ s[i] = cbs[i]
    BY SpokenProperties
  <1>3. e \in GuiMessage /\ e.kind \in AnswersTo(ask) /\ e.kind # "login_done"
    BY ErrSays
  <1>4. /\ v \in GuiMessage /\ v.kind \in AnswersTo(ask)
        /\ v.kind = "login_done" =>
              ask = "login" /\ a.said = "Y" /\ a.user = cred.user /\ v.user = cred.user
    BY VerdictSays
  <1> HIDE DEF s, e, v
  <1>5. Len(s) \in Nat /\ DOMAIN s = 1..Len(s)
    BY <1>2, LenProperties
  <1>6. told \in [1..Len(s) -> GuiMessage]
    BY <1>3, <1>4, <1>5
  <1>7. told \in Seq(GuiMessage) /\ Len(told) = Len(s)
    BY <1>5, <1>6, SeqDef, LenProperties
  <1>8. ASSUME NEW i \in DOMAIN told
        PROVE  /\ told[i].kind \in AnswersTo(ask)
               /\ told[i].kind = "login_done" =>
                     /\ ask = "login" /\ a.said = "Y" /\ a.user = cred.user
                     /\ told[i].user = cred.user /\ Has(cbs, "response")
    <2>1. CASE s[i] = "response"
      <3>1. told[i] = v /\ Has(cbs, "response")
        BY <1>2, <1>8, <2>1 DEF Has
      <3> QED  BY <1>4, <3>1
    <2>2. CASE s[i] # "response"
      <3>1. told[i] = e
        BY <1>8, <2>2
      <3> QED  BY <1>3, <3>1
    <2> QED  BY <2>1, <2>2
  <1> HIDE DEF told
  <1> QED  BY <1>1, <1>2, <1>7, <1>8 DEF Answers

LEMMA AskBeginsSays ==
    ASSUME NEW ask \in Ask, NEW cred \in Cred, NEW start \in Starts
    PROVE  /\ Answers(ask, cred, AtOnce(start), NoAnswer, AskBegins(ask, cred, start))
           /\ start # "opened" => Len(AskBegins(ask, cred, start)) >= 1
  <1> DEFINE cbs == AtOnce(start)
             s == AskTold(ask, cred, cbs, NoAnswer)
             e == [kind |-> Err(ask)]
             t == IF start # "opened" THEN <<e>> ELSE <<>>
  <1>1. Answers(ask, cred, cbs, NoAnswer, s)
    BY AtOnceType, AskToldSays
  <1>2. e \in GuiMessage /\ e.kind \in AnswersTo(ask) /\ e.kind # "login_done"
    BY ErrSays
  <1>3. AskBegins(ask, cred, start) = s \o t
    BY DEF AskBegins
  <1> HIDE DEF s, e, cbs
  <1>4. /\ t \in Seq(GuiMessage) /\ (start # "opened" => Len(t) = 1)
        /\ \A i \in DOMAIN t : t[i] = e
    BY <1>2
  <1>5. s \in Seq(GuiMessage)
    BY <1>1 DEF Answers
  <1> HIDE DEF t
  <1>6. /\ s \o t \in Seq(GuiMessage)
        /\ Len(s \o t) = Len(s) + Len(t)
        /\ \A i \in 1..(Len(s) + Len(t)) :
              (s \o t)[i] = IF i <= Len(s) THEN s[i] ELSE t[i - Len(s)]
    BY <1>4, <1>5, ConcatProperties
  <1>7. /\ Len(s) \in Nat /\ Len(t) \in Nat
        /\ DOMAIN s = 1..Len(s) /\ DOMAIN t = 1..Len(t)
        /\ DOMAIN (s \o t) = 1..(Len(s) + Len(t))
    BY <1>4, <1>5, <1>6, LenProperties
  <1>8. ASSUME NEW i \in DOMAIN (s \o t)
        PROVE  \/ i \in DOMAIN s /\ (s \o t)[i] = s[i]
               \/ (s \o t)[i] = e
    BY <1>4, <1>6, <1>7
  <1>9. Answers(ask, cred, cbs, NoAnswer, s \o t)
    BY <1>1, <1>2, <1>6, <1>8 DEF Answers
  <1> QED  BY <1>3, <1>4, <1>6, <1>7, <1>9 DEF cbs

-----------------------------------------------------------------------------
(* The types *)

LEMMA NetMessageFields ==
    ASSUME NEW m \in NetMessage
    PROVE  /\ m.kind \in Ask => m.cred \in Cred
           /\ m.kind = "block_users" => m.ips \in SUBSET Addr
  BY DEF NetMessage, Ask

LEMMA FetchFields ==
    ASSUME NEW f \in Fetch, f.job \in Ask
    PROVE  f.cred \in Cred
  <1>1. PICK ask \in Ask : f \in [job : {ask}, cred : Cred, nr : 1..MaxAsks[ask]]
    BY DEF Fetch, Ask
  <1> QED  BY <1>1

LEMMA GuiMessageFields ==
    ASSUME NEW m \in GuiMessage
    PROVE  /\ m.kind \in GuiKind \cup {"login_done", "global_ignore_list",
                                       "external_ip_fetch_done"}
           /\ m.kind = "login_done" => m.user \in User
           /\ m.kind = "global_ignore_list" => m.ips \in Lists
           /\ m.kind = "external_ip_fetch_done" => m.ip \in Addr
  BY DEF GuiMessage, GuiKind

\* The logins and registers that were sent and not begun.
Sends(q, ask) == {i \in DOMAIN q : q[i].kind = ask}

LEMMA SendsFinite ==
    ASSUME NEW q, IsSeq(q), NEW ask
    PROVE  IsFiniteSet(Sends(q, ask)) /\ Cardinality(Sends(q, ask)) \in Nat
  <1>1. Len(q) \in Nat /\ DOMAIN q = 1..Len(q)
    BY LenProperties DEF IsSeq
  <1>2. IsFiniteSet(1..Len(q)) /\ Sends(q, ask) \in SUBSET (1..Len(q))
    BY <1>1, FS_Interval DEF Sends
  <1>3. IsFiniteSet(Sends(q, ask))
    BY <1>2, FS_Subset
  <1> QED  BY <1>3, FS_CardinalityType

LEMMA SendsAppend ==
    ASSUME NEW q, IsSeq(q), NEW m, NEW ask
    PROVE  Cardinality(Sends(Append(q, m), ask)) =
              Cardinality(Sends(q, ask)) + IF m.kind = ask THEN 1 ELSE 0
  <1>1. PICK n \in Nat : n = Len(q) /\ DOMAIN q = 1..n
    BY AppendIsSeq
  <1>2. /\ DOMAIN Append(q, m) = 1..(n + 1)
        /\ \A i \in 1..n : Append(q, m)[i] = q[i]
        /\ Append(q, m)[n + 1] = m
    BY <1>1, AppendIsSeq
  <1>3. n + 1 \notin Sends(q, ask)
    BY <1>1 DEF Sends
  <1>4. Sends(Append(q, m), ask) = Sends(q, ask) \cup (IF m.kind = ask THEN {n + 1} ELSE {})
    BY <1>1, <1>2 DEF Sends
  <1>5. CASE m.kind = ask
    BY <1>3, <1>4, <1>5, SendsFinite, FS_AddElement
  <1>6. CASE m.kind # ask
    <2>1. Sends(Append(q, m), ask) = Sends(q, ask)
      BY <1>4, <1>6
    <2> QED  BY <1>6, <2>1, SendsFinite
  <1> QED  BY <1>5, <1>6

LEMMA SendsTail ==
    ASSUME NEW q, IsSeq(q), q # <<>>, NEW ask
    PROVE  Cardinality(Sends(Tail(q), ask)) + (IF Head(q).kind = ask THEN 1 ELSE 0)
              <= Cardinality(Sends(q, ask))
  <1>1. PICK n \in Nat \ {0} : n = Len(q) /\ DOMAIN q = 1..n /\ Head(q) = q[1]
    BY TailIsSeq
  <1>2. /\ IsSeq(Tail(q)) /\ DOMAIN Tail(q) = 1..(n - 1)
        /\ \A i \in 1..(n - 1) : Tail(q)[i] = q[i + 1]
    BY <1>1, TailIsSeq
  <1> DEFINE S == Sends(Tail(q), ask)
             T == Sends(q, ask) \ {1}
             f == [i \in S |-> i + 1]
  <1>3. \A i \in S : i \in Nat /\ i + 1 \in T
    BY <1>1, <1>2 DEF Sends
  <1>4. IsFiniteSet(T) /\ IsFiniteSet(S) /\ Cardinality(S) \in Nat /\ Cardinality(T) \in Nat
        /\ Cardinality(T) = Cardinality(Sends(q, ask)) - IF Head(q).kind = ask THEN 1 ELSE 0
    <2>1. 1 \in Sends(q, ask) <=> Head(q).kind = ask
      BY <1>1 DEF Sends
    <2>2. IsFiniteSet(Sends(q, ask)) /\ Cardinality(Sends(q, ask)) \in Nat
      BY SendsFinite
    <2>3. IsFiniteSet(T) /\ Cardinality(T) = IF 1 \in Sends(q, ask)
                                             THEN Cardinality(Sends(q, ask)) - 1
                                             ELSE Cardinality(Sends(q, ask))
      BY <2>2, FS_RemoveElement
    <2>4. Cardinality(T) \in Nat
      BY <2>3, FS_CardinalityType
    <2>5. IsFiniteSet(S) /\ Cardinality(S) \in Nat
      BY <1>2, SendsFinite
    <2> HIDE DEF S, T
    <2> QED  BY <2>1, <2>2, <2>3, <2>4, <2>5
  <1> HIDE DEF S, T
  <1>5. f \in Injection(S, T)
    <2>1. f \in [S -> T]
      BY <1>3
    <2>2. ASSUME NEW i \in S, NEW j \in S, f[i] = f[j]
          PROVE  i = j
      BY <1>3, <2>2
    <2> QED  BY <2>1, <2>2 DEF Injection, IsInjective
  <1>6. Cardinality(S) <= Cardinality(T)
    BY <1>4, <1>5, FS_Injection
  <1>7. Cardinality(Sends(q, ask)) \in Nat
    BY SendsFinite
  <1> QED  BY <1>4, <1>6, <1>7 DEF S

\* No more logins and registers are sent than the bounds say.
CountInv == \A ask \in Ask : Asked(ask) <= MaxAsks[ask]

LEMMA AskedSends == \A ask : Asked(ask) = net.asks[ask] + Cardinality(Sends(toNet, ask))
  BY DEF Asked, Sends

LEMMA TypeMeans ==
    ASSUME TypeOK
    PROVE  /\ toNet \in Seq(NetMessage) /\ toGui \in Seq(GuiMessage)
           /\ batch \in Seq(GuiMessage) /\ stack \in Seq(Loop) /\ stack # <<>>
           /\ IsSeq(toNet) /\ IsSeq(toGui) /\ IsSeq(batch) /\ IsSeq(stack)
           /\ net.ended \in BOOLEAN /\ net.fetches \in SUBSET Fetch
           /\ net.asks \in [Ask -> Nat] /\ net.block \in SUBSET Addr
           /\ \A ask \in Ask : MaxAsks[ask] \in Nat
  <1>1. /\ toNet \in Seq(NetMessage) /\ toGui \in Seq(GuiMessage)
        /\ batch \in Seq(GuiMessage) /\ stack \in Seq(Loop) /\ stack # <<>>
    BY DEF TypeOK
  <1>2. /\ net.ended \in BOOLEAN /\ net.fetches \in SUBSET Fetch
        /\ net.asks \in [Ask -> Nat] /\ net.block \in SUBSET Addr
    BY DEF TypeOK, Thread
  <1> QED  BY <1>1, <1>2, SeqIsSeq, StartupAssumption DEF Ask

\* The message that is taken next.
LEMMA FirstTaken ==
    ASSUME NEW S, NEW q \in Seq(S), q # <<>>
    PROVE  /\ Head(q) \in S /\ Tail(q) \in Seq(S) /\ 1 \in DOMAIN q /\ Head(q) = q[1]
  BY HeadTailProperties, LenProperties

\* A step of the networking thread.
LEMMA ThreadType ==
    ASSUME TypeOK, NEW net2 \in Thread, NEW gui \in Seq(GuiMessage), StepsOf(net2, gui),
           toNet' \in Seq(NetMessage), past' \in Past
    PROVE  TypeOK'
  <1>1. toGui' \in Seq(GuiMessage)
    BY ConcatProperties DEF StepsOf, TypeOK
  <1> QED  BY <1>1 DEF StepsOf, TypeOK

LEMMA ThreadFields ==
    ASSUME TypeOK
    PROVE  /\ [net EXCEPT !.ended = TRUE] \in Thread
           /\ [net EXCEPT !.connected = TRUE] \in Thread
           /\ [net EXCEPT !.ip = TRUE] \in Thread
           /\ \A f \in Fetch : [net EXCEPT !.fetches = @ \cup {f}] \in Thread
           /\ \A f : Ended(f) \in Thread
           /\ \A ips \in SUBSET Addr : [net EXCEPT !.block = WithBlocked(@, ips)] \in Thread
           /\ net \in Thread
  <1>1. net \in Thread
    BY DEF TypeOK
  <1>2. /\ [net EXCEPT !.ended = TRUE] \in Thread
        /\ [net EXCEPT !.connected = TRUE] \in Thread
        /\ [net EXCEPT !.ip = TRUE] \in Thread
    BY <1>1 DEF Thread
  <1>3. \A f \in Fetch : [net EXCEPT !.fetches = @ \cup {f}] \in Thread
    BY <1>1 DEF Thread
  <1>4. \A f : Ended(f) \in Thread
    BY <1>1 DEF Thread, Ended
  <1>5. \A ips \in SUBSET Addr : [net EXCEPT !.block = WithBlocked(@, ips)] \in Thread
    BY <1>1 DEF Thread, WithBlocked
  <1> QED  BY <1>1, <1>2, <1>3, <1>4, <1>5

LEMMA ServiceFetchType ==
    ASSUME TypeOK, NEW job \in {"version", "ignore"}, ServiceFetch(job),
           toNet' \in Seq(NetMessage), past' = past
    PROVE  TypeOK' /\ net'.asks = net.asks
  <1>1. PICK start \in Starts \cup {"no_url"} :
           IF start = "throws"
           THEN StepsOf([net EXCEPT !.ended = TRUE], <<[kind |-> "worker_exception"]>>)
           ELSE StepsOf([net EXCEPT !.fetches =
                           IF start = "opened" THEN @ \cup {[job |-> job]} ELSE @], <<>>)
    BY DEF ServiceFetch
  <1>2. past' \in Past /\ net \in Thread
    BY DEF TypeOK
  <1>3. CASE start = "throws"
    <2> DEFINE e == [kind |-> "worker_exception"]
    <2>1. e \in GuiMessage
      BY DEF GuiMessage, GuiKind
    <2> HIDE DEF e
    <2>2. <<e>> \in Seq(GuiMessage)
      BY <2>1
    <2>3. StepsOf([net EXCEPT !.ended = TRUE], <<e>>)
      BY <1>1, <1>3 DEF e
    <2>4. TypeOK'
      BY <1>2, <2>2, <2>3, ThreadFields, ThreadType
    <2> QED  BY <1>2, <2>3, <2>4 DEF StepsOf, Thread
  <1>4. CASE start # "throws"
    <2> DEFINE net2 == [net EXCEPT !.fetches =
                          IF start = "opened" THEN @ \cup {[job |-> job]} ELSE @]
    <2>1. [job |-> job] \in Fetch
      BY DEF Fetch
    <2>2. net2 \in Thread /\ net2.asks = net.asks
      BY <1>2, <2>1 DEF Thread
    <2>3. StepsOf(net2, <<>>)
      BY <1>1, <1>4
    <2>4. <<>> \in Seq(GuiMessage)
      BY EmptySeq
    <2> HIDE DEF net2
    <2>5. TypeOK'
      BY <1>2, <2>2, <2>3, <2>4, ThreadType
    <2> QED  BY <2>2, <2>3, <2>5 DEF StepsOf
  <1> QED  BY <1>3, <1>4

LEMMA LoginOperationType ==
    ASSUME TypeOK, NEW ask \in Ask, NEW cred \in Cred, LoginOperation(ask, cred),
           net.asks[ask] < MaxAsks[ask], toNet' \in Seq(NetMessage), past' = past
    PROVE  TypeOK' /\ net'.asks = [net.asks EXCEPT ![ask] = @ + 1]
  <1> DEFINE f == [job |-> ask, cred |-> cred, nr |-> net.asks[ask] + 1]
  <1>1. PICK start \in Starts \ {"throws"} :
           StepsOf([net EXCEPT !.asks[ask] = @ + 1,
                               !.fetches = IF start = "opened" THEN @ \cup {f} ELSE @],
                   AskBegins(ask, cred, start))
    BY DEF LoginOperation
  <1> DEFINE net2 == [net EXCEPT !.asks[ask] = @ + 1,
                                 !.fetches = IF start = "opened" THEN @ \cup {f} ELSE @]
  <1>2. f \in Fetch
    <2>1. net.asks[ask] + 1 \in 1..MaxAsks[ask]
      BY TypeMeans
    <2>2. f \in [job : {ask}, cred : Cred, nr : 1..MaxAsks[ask]]
      BY <2>1
    <2> QED  BY <2>2 DEF Fetch
  <1> HIDE DEF f
  <1>3. net \in Thread
    BY DEF TypeOK
  <1>4. net2 \in Thread /\ net2.asks = [net.asks EXCEPT ![ask] = @ + 1]
    <2> DEFINE asks    == [net.asks EXCEPT ![ask] = @ + 1]
               fetches == IF start = "opened" THEN net.fetches \cup {f} ELSE net.fetches
    <2>1. asks \in [Ask -> Nat] /\ fetches \in SUBSET Fetch
      BY <1>2, <1>3 DEF Thread
    <2>2. net2 = [net EXCEPT !.asks = asks, !.fetches = fetches]
      BY <1>3 DEF Thread
    <2> HIDE DEF asks, fetches, net2
    <2>3. net2 \in Thread /\ net2.asks = asks
      BY <1>3, <2>1, <2>2 DEF Thread
    <2> QED  BY <2>3 DEF asks
  <1>5. StepsOf(net2, AskBegins(ask, cred, start))
    BY <1>1
  <1> HIDE DEF net2
  <1>6. AskBegins(ask, cred, start) \in Seq(GuiMessage)
    BY AskBeginsSays DEF Answers
  <1>7. past' \in Past
    BY DEF TypeOK
  <1>8. TypeOK'
    BY <1>4, <1>5, <1>6, <1>7, ThreadType
  <1> QED  BY <1>4, <1>5, <1>8 DEF StepsOf

LEMMA WorkerType ==
    ASSUME TypeOK, CountInv, WorkerHandles
    PROVE  TypeOK' /\ CountInv'
  <1>1. PICK m : m = Head(toNet)
    OBVIOUS
  <1>2. /\ toNet # <<>> /\ toNet' = Tail(toNet) /\ past' = past
        /\ \/ m.kind = "version_fetch" /\ ServiceFetch("version")
           \/ m.kind = "ignore_fetch" /\ ServiceFetch("ignore")
           \/ m.kind \in Ask /\ LoginOperation(m.kind, m.cred)
           \/ m.kind = "connect" /\ StepsOf([net EXCEPT !.connected = TRUE], <<>>)
           \/ m.kind = "block_users" /\ StepsOf([net EXCEPT !.block = WithBlocked(@, m.ips)], <<>>)
    BY <1>1 DEF WorkerHandles
  <1>3. m \in NetMessage /\ toNet' \in Seq(NetMessage) /\ past' \in Past
    BY <1>1, <1>2, FirstTaken DEF TypeOK
  <1>4. ASSUME NEW ask \in Ask
        PROVE  /\ Cardinality(Sends(toNet', ask)) + (IF m.kind = ask THEN 1 ELSE 0)
                     <= Cardinality(Sends(toNet, ask))
               /\ Cardinality(Sends(toNet', ask)) \in Nat
               /\ Cardinality(Sends(toNet, ask)) \in Nat
               /\ net.asks[ask] \in Nat /\ MaxAsks[ask] \in Nat
               /\ net.asks[ask] + Cardinality(Sends(toNet, ask)) <= MaxAsks[ask]
    <2>1. IsSeq(toNet')
      BY <1>3, SeqIsSeq
    <2> QED  BY <1>1, <1>2, <2>1, TypeMeans, SendsTail, SendsFinite, AskedSends DEF CountInv
  <1>5. /\ TypeOK'
        /\ net'.asks = IF m.kind \in Ask THEN [net.asks EXCEPT ![m.kind] = @ + 1]
                       ELSE net.asks
    <2>1. CASE m.kind = "version_fetch" /\ ServiceFetch("version")
      BY <1>2, <1>3, <2>1, ServiceFetchType DEF Ask
    <2>2. CASE m.kind = "ignore_fetch" /\ ServiceFetch("ignore")
      BY <1>2, <1>3, <2>2, ServiceFetchType DEF Ask
    <2>3. CASE m.kind \in Ask /\ LoginOperation(m.kind, m.cred)
      <3>1. net.asks[m.kind] < MaxAsks[m.kind]
        BY <1>4, <2>3
      <3>2. m.cred \in Cred
        BY <1>3, <2>3, NetMessageFields
      <3> QED  BY <1>2, <1>3, <2>3, <3>1, <3>2, LoginOperationType
    <2>4. CASE m.kind = "connect" /\ StepsOf([net EXCEPT !.connected = TRUE], <<>>)
      <3>1. <<>> \in Seq(GuiMessage)
        BY EmptySeq
      <3>2. TypeOK'
        BY <1>3, <2>4, <3>1, ThreadFields, ThreadType
      <3> QED  BY <2>4, <3>2, ThreadFields DEF StepsOf, Ask, Thread
    <2>5. CASE m.kind = "block_users" /\ StepsOf([net EXCEPT !.block = WithBlocked(@, m.ips)], <<>>)
      <3>1. <<>> \in Seq(GuiMessage) /\ m.ips \in SUBSET Addr
        BY <1>3, <2>5, EmptySeq, NetMessageFields
      <3>2. [net EXCEPT !.block = WithBlocked(@, m.ips)] \in Thread
        BY <3>1, ThreadFields
      <3>3. TypeOK'
        BY <1>3, <2>5, <3>1, <3>2, ThreadType
      <3>4. net'.asks = net.asks
        BY <2>5, ThreadFields DEF StepsOf, Thread
      <3> QED  BY <2>5, <3>3, <3>4 DEF Ask
    <2> QED  BY <1>2, <2>1, <2>2, <2>3, <2>4, <2>5
  <1>6. ASSUME NEW ask \in Ask
        PROVE  Asked(ask)' <= MaxAsks[ask]
    <2>1. Asked(ask)' = net'.asks[ask] + Cardinality(Sends(toNet', ask))
      BY DEF Asked, Sends
    <2>2. net'.asks[ask] = net.asks[ask] + IF m.kind = ask THEN 1 ELSE 0
      BY <1>4, <1>5, TypeMeans
    <2> QED  BY <1>4, <2>1, <2>2
  <1> QED  BY <1>5, <1>6 DEF CountInv

\* What is counted does not change.
LEMMA SameCount ==
    ASSUME CountInv, UNCHANGED <<toNet, net>>
    PROVE  CountInv'
  BY DEF CountInv, Asked

LEMMA EndsType ==
    ASSUME TypeOK, CountInv, ServiceFetchEnds \/ AskFetchEnds \/ ExternalIpFound
    PROVE  TypeOK' /\ CountInv'
  <1>1. toNet' = toNet /\ toNet \in Seq(NetMessage) /\ past \in Past
    BY DEF ServiceFetchEnds, AskFetchEnds, ExternalIpFound, TypeOK
  <1>2. ASSUME NEW net2 \in Thread, net2.asks = net.asks, NEW gui \in Seq(GuiMessage),
               StepsOf(net2, gui), past' \in Past
        PROVE  TypeOK' /\ CountInv'
    <2>1. TypeOK'
      BY <1>1, <1>2, ThreadType
    <2> QED  BY <1>1, <1>2, <2>1 DEF StepsOf, CountInv, Asked
  <1>3. \A f : Ended(f) \in Thread /\ Ended(f).asks = net.asks
    BY ThreadFields DEF Ended, Thread
  <1>4. ASSUME NEW m \in GuiMessage
        PROVE  <<m>> \in Seq(GuiMessage)
    BY <1>4
  <1>5. CASE ServiceFetchEnds
    <2>1. PICK f \in net.fetches, cbs \in Outcomes :
             \E msgs \in IF f.job = "version" THEN VersionAnswers(cbs) ELSE IgnoreAnswers(cbs) :
                StepsOf(Ended(f), msgs)
      BY <1>5 DEF ServiceFetchEnds
    <2>2. PICK msgs \in VersionAnswers(cbs) \cup IgnoreAnswers(cbs) : StepsOf(Ended(f), msgs)
      BY <2>1
    <2>3. \/ msgs = <<>>
          \/ \E k \in {"version", "version_force"} : msgs = <<[kind |-> k]>>
          \/ \E ips \in Lists : msgs = <<[kind |-> "global_ignore_list", ips |-> ips]>>
      BY DEF VersionAnswers, IgnoreAnswers
    <2>4. msgs \in Seq(GuiMessage)
      <3>1. CASE msgs = <<>>
        BY <3>1, EmptySeq
      <3>2. ASSUME NEW k \in {"version", "version_force"}, msgs = <<[kind |-> k]>>
            PROVE  msgs \in Seq(GuiMessage)
        <4>1. [kind |-> k] \in GuiMessage
          BY <3>2 DEF GuiMessage, GuiKind
        <4> QED  BY <1>4, <3>2, <4>1
      <3>3. ASSUME NEW ips \in Lists, msgs = <<[kind |-> "global_ignore_list", ips |-> ips]>>
            PROVE  msgs \in Seq(GuiMessage)
        <4>1. [kind |-> "global_ignore_list", ips |-> ips] \in GuiMessage
          BY <3>3 DEF GuiMessage
        <4> QED  BY <1>4, <3>3, <4>1
      <3> QED  BY <2>3, <3>1, <3>2, <3>3
    <2> QED  BY <1>1, <1>2, <1>3, <1>5, <2>2, <2>4 DEF ServiceFetchEnds
  <1>6. CASE AskFetchEnds
    <2>1. PICK f \in net.fetches, cbs \in Outcomes, said \in {"Y", "N", "garbled"}, u \in User :
             /\ f.job \in Ask
             /\ StepsOf(Ended(f), AskTold(f.job, f.cred, cbs, [said |-> said, user |-> u]))
             /\ past' = IF f.job = "login" /\ Has(cbs, "response")
                           /\ said = "Y" /\ u = f.cred.user
                        THEN [past EXCEPT !.accepted = @ \cup {f.cred}] ELSE past
      BY <1>6 DEF AskFetchEnds
    <2>2. f.cred \in Cred
      BY <2>1, TypeMeans, FetchFields
    <2>3. AskTold(f.job, f.cred, cbs, [said |-> said, user |-> u]) \in Seq(GuiMessage)
      BY <2>1, <2>2, OutcomesType, AskToldSays DEF Answers
    <2>4. past' \in Past
      BY <1>1, <2>1, <2>2 DEF Past
    <2> QED  BY <1>2, <1>3, <2>1, <2>3, <2>4
  <1>7. CASE ExternalIpFound
    <2>1. PICK a \in Addr : StepsOf([net EXCEPT !.ip = TRUE],
                                    <<[kind |-> "external_ip_fetch_done", ip |-> a]>>)
      BY <1>7 DEF ExternalIpFound
    <2>2. [kind |-> "external_ip_fetch_done", ip |-> a] \in GuiMessage
      BY DEF GuiMessage
    <2>3. /\ [net EXCEPT !.ip = TRUE] \in Thread /\ [net EXCEPT !.ip = TRUE].asks = net.asks
          /\ past' = past
      BY <1>7, ThreadFields DEF ExternalIpFound, Thread
    <2> QED  BY <1>1, <1>2, <1>4, <2>1, <2>2, <2>3
  <1> QED  BY <1>5, <1>6, <1>7

-----------------------------------------------------------------------------
(* The types in the GUI thread *)

\* A loop that is not the first one begins above the others.
LEMMA PushedType ==
    ASSUME TypeOK, StackInv, NEW l \in Loop, l.kind \notin {"login", "app"},
           stack' = Append(stack, l)
    PROVE  /\ stack' \in Seq(Loop) /\ stack' # <<>>
           /\ Head(stack') = Head(stack)
           /\ \A k : (\E i \in DOMAIN stack' : stack'[i].kind = k)
                        <=> (\E i \in DOMAIN stack : stack[i].kind = k) \/ l.kind = k
  <1>1. stack' \in Seq(Loop) /\ stack' # <<>>
    BY TypeMeans, StackPushed DEF StackInv
  <1>2. PICK n \in Nat : /\ n = Len(stack) /\ DOMAIN stack = 1..n
                         /\ DOMAIN stack' = 1..(n + 1)
                         /\ \A i \in 1..n : stack'[i] = stack[i]
                         /\ stack'[n + 1] = l
    BY AppendIsSeq DEF StackInv
  <1>3. Head(stack) = stack[1] /\ 1 \in DOMAIN stack /\ Head(stack') = stack'[1]
    BY <1>1, TypeMeans, FirstTaken
  <1> QED  BY <1>1, <1>2, <1>3

LEMMA PoppedType ==
    ASSUME TypeOK, StackInv, Last(stack).kind \notin {"login", "app"},
           stack' = Front(stack)
    PROVE  /\ stack' \in Seq(Loop) /\ stack' # <<>>
           /\ Head(stack') = Head(stack)
           /\ \A k : (\E i \in DOMAIN stack : stack[i].kind = k)
                        <=> (\E i \in DOMAIN stack' : stack'[i].kind = k) \/ Last(stack).kind = k
           /\ Last(stack) \in Loop
           /\ \E i \in DOMAIN stack : stack[i] = Last(stack)
  <1>0. /\ Len(stack) \in Nat \ {0} /\ DOMAIN stack = 1..Len(stack)
        /\ Last(stack) = stack[Len(stack)]
        /\ DOMAIN stack' = 1..(Len(stack) - 1) /\ Len(stack') = Len(stack) - 1
        /\ \A i \in 1..(Len(stack) - 1) : stack'[i] = stack[i]
    BY FrontIsSeq DEF StackInv
  <1>1. PICK n \in Nat \ {0} : /\ n = Len(stack) /\ DOMAIN stack = 1..n
                               /\ Last(stack) = stack[n]
                               /\ DOMAIN stack' = 1..(n - 1) /\ Len(stack') = n - 1
                               /\ \A i \in 1..(n - 1) : stack'[i] = stack[i]
    BY <1>0
  <1>2. StackInv'
    BY StackPopped
  <1>3. n # 1
    BY <1>1 DEF StackInv
  <1>4. IsSeq(stack') /\ stack' # <<>>
    BY <1>2 DEF StackInv
  <1>5. \A i \in 1..n : stack[i] \in Loop
    BY <1>1, TypeMeans, ElementOfSeq
  <1>6. stack' \in Seq(Loop)
    <2>1. stack' \in Seq(Range(stack'))
      BY <1>4 DEF IsSeq
    <2>2. Range(stack') \subseteq Loop
      BY <1>1, <1>5 DEF Range
    <2> QED  BY <2>1, <2>2, SeqMonotonic
  <1>7. Head(stack) = stack[1] /\ Head(stack') = stack'[1]
    BY <1>4, <1>6, TypeMeans, FirstTaken
  <1>8. Head(stack') = Head(stack)
    BY <1>1, <1>3, <1>7
  <1>9. \A i \in 1..n : i = n \/ i \in 1..(n - 1)
    OBVIOUS
  <1>10. n \in 1..n /\ 1..(n - 1) \subseteq 1..n
    OBVIOUS
  <1> QED  BY <1>1, <1>4, <1>5, <1>6, <1>8, <1>9, <1>10

LEMMA ShowsType ==
    ASSUME TypeOK, StackInv, batch # <<>>, NEW box \in Box, NEW ips \in SUBSET Addr,
           Shows(box, ips)
    PROVE  /\ stack' \in Seq(Loop) /\ stack' # <<>> /\ batch' \in Seq(GuiMessage)
           /\ Head(stack') = Head(stack)
           /\ \A k : (\E i \in DOMAIN stack' : stack'[i].kind = k)
                        <=> (\E i \in DOMAIN stack : stack[i].kind = k) \/ box = k
  <1> DEFINE l == [kind |-> box, rest |-> Tail(batch), ips |-> ips]
  <1>1. stack' = Append(stack, l) /\ batch' = <<>>
    BY DEF Shows
  <1>2. Tail(batch) \in Seq(GuiMessage)
    BY TypeMeans, FirstTaken
  <1>3. l \in Loop /\ l.kind = box
    BY <1>2 DEF Loop
  <1>4. box \notin {"login", "app"}
    BY DEF Box
  <1> HIDE DEF l
  <1>5. batch' \in Seq(GuiMessage)
    BY <1>1, EmptySeq
  <1> QED  BY <1>1, <1>3, <1>4, <1>5, PushedType

LEMMA DisplayedType == ASSUME TypeOK PROVE Displayed \in [at : {"none", "waiting", "shown", "closed"},
                                                          forced : BOOLEAN]
  BY DEF TypeOK, Displayed

\* What of the type is about the loops, and what is not.
LoopsOK ==
    /\ batch \in Seq(GuiMessage) /\ stack \in Seq(Loop) /\ stack # <<>>
    /\ Head(stack).kind = (IF phase = "running" THEN "app" ELSE "login") \/ phase = "quit"
    /\ reg.open => \E i \in DOMAIN stack : stack[i].kind = "register"

WindowsOK ==
    /\ login \in LoginWindow
    /\ reg \in [on : BOOLEAN, open : BOOLEAN]
    /\ self \in [user : User \cup {Nobody}, pass : {c.pass : c \in Cred} \cup {Nobody},
                 validated : BOOLEAN, ip : Addr \cup {Nobody}, playing : BOOLEAN]
    /\ version \in [at : {"none", "waiting", "shown", "closed"}, forced : BOOLEAN]
    /\ block \subseteq Addr
    /\ phase \in {"login", "running", "quit"}
    /\ past \in Past

ThreadsOK ==
    toNet \in Seq(NetMessage) /\ toGui \in Seq(GuiMessage) /\ net \in Thread

LEMMA TypeParts == TypeOK <=> LoopsOK /\ WindowsOK /\ ThreadsOK
  BY DEF TypeOK, LoopsOK, WindowsOK, ThreadsOK

LEMMA NextTypeParts == TypeOK' <=> LoopsOK' /\ WindowsOK' /\ ThreadsOK'
  BY DEF TypeOK, LoopsOK, WindowsOK, ThreadsOK

\* A message is handled, with or without a box.
LEMMA HandledLoops ==
    ASSUME TypeOK, StackInv, batch # <<>>, UNCHANGED <<phase, reg>>,
           \/ Handled
           \/ \E box \in Box, ips \in SUBSET Addr : Shows(box, ips)
    PROVE  LoopsOK'
  <1>1. LoopsOK
    BY TypeParts
  <1>2. CASE Handled
    <2>1. batch' \in Seq(GuiMessage) /\ stack' = stack
      BY <1>2, TypeMeans, FirstTaken DEF Handled
    <2> QED  BY <1>1, <2>1 DEF LoopsOK
  <1>3. CASE \E box \in Box, ips \in SUBSET Addr : Shows(box, ips)
    <2>1. PICK box \in Box, ips \in SUBSET Addr : Shows(box, ips)
      BY <1>3
    <2>2. /\ stack' \in Seq(Loop) /\ stack' # <<>> /\ batch' \in Seq(GuiMessage)
          /\ Head(stack') = Head(stack)
          /\ (\E i \in DOMAIN stack : stack[i].kind = "register")
                => \E i \in DOMAIN stack' : stack'[i].kind = "register"
      BY <2>1, ShowsType
    <2> QED  BY <1>1, <2>2 DEF LoopsOK
  <1> QED  BY <1>2, <1>3

LEMMA HandleMessageType ==
    ASSUME TypeOK, CountInv, StackInv, HandleMessage
    PROVE  TypeOK' /\ CountInv'
  <1>1. PICK m : m = Head(batch)
    OBVIOUS
  <1>2. /\ batch # <<>> /\ UNCHANGED <<net, toGui, reg, phase>>
        /\ \/ LoginToldDone(m) \/ AskToldBox(m) \/ VersionFound(m)
           \/ IgnoreListFound(m) \/ ExternalIpTold(m) \/ WorkerEnded(m)
    BY <1>1 DEF HandleMessage
  <1>3. m \in GuiMessage
    BY <1>1, <1>2, TypeMeans, FirstTaken
  <1>4. WindowsOK /\ ThreadsOK
    BY TypeParts
  <1>5. Displayed \in [at : {"none", "waiting", "shown", "closed"}, forced : BOOLEAN]
    BY DisplayedType
  <1>6. ASSUME \/ Handled
               \/ \E box \in Box, ips \in SUBSET Addr : Shows(box, ips),
               WindowsOK', UNCHANGED toNet
        PROVE  TypeOK' /\ CountInv'
    <2>1. LoopsOK'
      BY <1>2, <1>6, HandledLoops
    <2>2. ThreadsOK'
      BY <1>2, <1>4, <1>6 DEF ThreadsOK
    <2>3. TypeOK'
      BY <1>6, <2>1, <2>2, NextTypeParts
    <2> QED  BY <1>2, <1>6, <2>3, SameCount
  <1>7. {} \in SUBSET Addr
    OBVIOUS
  <1>8. CASE LoginToldDone(m)
    <2>1. m.user \in User
      BY <1>3, <1>8, GuiMessageFields DEF LoginToldDone
    <2>2. login' \in LoginWindow
      BY <1>4, <1>8, <2>1 DEF LoginToldDone, WindowsOK, LoginWindow
    <2>3. WindowsOK'
      BY <1>2, <1>4, <1>5, <1>8, <2>2 DEF LoginToldDone, WindowsOK
    <2> QED  BY <1>6, <1>8, <2>3 DEF LoginToldDone
  <1>9. CASE AskToldBox(m)
    <2>1. WindowsOK' /\ UNCHANGED toNet
      BY <1>2, <1>4, <1>5, <1>9 DEF AskToldBox, WindowsOK
    <2>2. Handled \/ (m.kind \in Box /\ Shows(m.kind, {}))
      BY <1>9 DEF AskToldBox, Box
    <2> QED  BY <1>6, <1>7, <2>1, <2>2
  <1>10. CASE VersionFound(m)
    <2>1. version' \in [at : {"none", "waiting", "shown", "closed"}, forced : BOOLEAN]
      BY <1>10 DEF VersionFound
    <2>2. WindowsOK'
      BY <1>2, <1>4, <1>10, <2>1 DEF VersionFound, WindowsOK
    <2> QED  BY <1>6, <1>10, <2>2 DEF VersionFound
  <1>11. CASE IgnoreListFound(m)
    <2> DEFINE ips == m.ips \ {Bad}
    <2>1. ips \in SUBSET Addr /\ block \subseteq Addr /\ past \in Past
      <3>1. m.ips \in Lists
        BY <1>3, <1>11, GuiMessageFields DEF IgnoreListFound
      <3> QED  BY <1>4, <3>1, StartupAssumption DEF WindowsOK
    <2>2. /\ block' = block \cup ips /\ version' = Displayed /\ UNCHANGED <<login, self>>
          /\ IF ips # {} /\ SelfBlocked(self, block')
             THEN /\ Shows("blocked_list", ips)
                  /\ past' = [past EXCEPT !.told = @ \cup {self.ip}]
                  /\ UNCHANGED toNet
             ELSE /\ Handled
                  /\ UNCHANGED past
                  /\ toNet' = IF ips = {} THEN toNet
                              ELSE Append(toNet, [kind |-> "block_users", ips |-> ips])
      BY <1>11 DEF IgnoreListFound, WithBlocked
    <2> HIDE DEF ips
    <2>3. block' \subseteq Addr
      BY <2>1, <2>2
    <2>4. CASE ips # {} /\ SelfBlocked(self, block')
      <3>1. self.ip \in Addr
        BY <2>3, <2>4 DEF SelfBlocked
      <3>2. past' \in Past
        BY <2>1, <2>2, <2>4, <3>1 DEF Past
      <3>3. WindowsOK' /\ UNCHANGED toNet /\ Shows("blocked_list", ips)
        BY <1>2, <1>4, <1>5, <2>2, <2>3, <2>4, <3>2 DEF WindowsOK
      <3> QED  BY <1>6, <2>1, <3>3 DEF Box
    <2>5. CASE ~(ips # {} /\ SelfBlocked(self, block'))
      <3>1. WindowsOK' /\ Handled
        BY <1>2, <1>4, <1>5, <2>2, <2>3, <2>5 DEF WindowsOK
      <3>2. CASE ips = {}
        BY <1>6, <2>2, <2>5, <3>1, <3>2
      <3>3. CASE ips # {}
        <4> DEFINE b == [kind |-> "block_users", ips |-> ips]
        <4>1. b \in NetMessage /\ b.kind \notin Ask
          BY <2>1 DEF NetMessage, Ask
        <4>2. toNet' = Append(toNet, b)
          BY <2>2, <2>5, <3>3
        <4> HIDE DEF b
        <4>3. toNet' \in Seq(NetMessage)
          BY <4>1, <4>2, TypeMeans
        <4>4. TypeOK'
          <5>1. LoopsOK'
            BY <1>2, <3>1, HandledLoops
          <5>2. ThreadsOK'
            BY <1>2, <1>4, <4>3 DEF ThreadsOK
          <5> QED  BY <3>1, <5>1, <5>2, NextTypeParts
        <4>5. CountInv'
          <5> SUFFICES ASSUME NEW ask \in Ask PROVE Asked(ask)' <= MaxAsks[ask]
            BY DEF CountInv
          <5>1. b.kind # ask /\ Asked(ask) <= MaxAsks[ask]
            BY <4>1 DEF CountInv
          <5>2. Cardinality(Sends(toNet', ask)) = Cardinality(Sends(toNet, ask))
            BY <4>2, <5>1, TypeMeans, SendsAppend, SendsFinite
          <5>3. Asked(ask)' = net'.asks[ask] + Cardinality(Sends(toNet', ask))
            BY DEF Asked, Sends
          <5> QED  BY <1>2, <5>1, <5>2, <5>3, AskedSends
        <4> QED  BY <4>4, <4>5
      <3> QED  BY <3>2, <3>3
    <2> QED  BY <2>4, <2>5
  <1>12. CASE ExternalIpTold(m)
    <2>1. m.ip \in Addr
      BY <1>3, <1>12, GuiMessageFields DEF ExternalIpTold
    <2>2. self' \in [user : User \cup {Nobody}, pass : {c.pass : c \in Cred} \cup {Nobody},
                     validated : BOOLEAN, ip : Addr \cup {Nobody}, playing : BOOLEAN]
      BY <1>4, <1>12, <2>1 DEF ExternalIpTold, WindowsOK
    <2>3. version' \in [at : {"none", "waiting", "shown", "closed"}, forced : BOOLEAN]
      BY <1>4, <1>5, <1>12 DEF ExternalIpTold, WindowsOK
    <2>4. past' \in Past
      BY <1>4, <1>12, <2>1 DEF ExternalIpTold, WindowsOK, Past
    <2>5. /\ UNCHANGED <<toNet, login, block>>
          /\ Handled \/ Shows("blocked_ip", {})
      BY <1>12 DEF ExternalIpTold
    <2>6. WindowsOK'
      BY <1>2, <1>4, <2>2, <2>3, <2>4, <2>5 DEF WindowsOK
    <2> QED  BY <1>6, <1>7, <2>5, <2>6 DEF Box
  <1>13. CASE WorkerEnded(m)
    <2>1. WindowsOK' /\ UNCHANGED toNet /\ Shows("worker_exception", {})
      BY <1>2, <1>4, <1>5, <1>13 DEF WorkerEnded, WindowsOK
    <2> QED  BY <1>6, <1>7, <2>1 DEF Box
  <1> QED  BY <1>2, <1>8, <1>9, <1>10, <1>11, <1>12, <1>13

\* Something is sent to the networking thread that is not asked for too often.
LEMMA SentType ==
    ASSUME TypeOK, CountInv, NEW b \in NetMessage, toNet' = Append(toNet, b),
           b.kind \in Ask => Asked(b.kind) < MaxAsks[b.kind],
           UNCHANGED <<net, toGui>>
    PROVE  ThreadsOK' /\ CountInv'
  <1>1. toNet' \in Seq(NetMessage)
    BY TypeMeans
  <1>2. ThreadsOK'
    BY <1>1, TypeParts DEF ThreadsOK
  <1>3. ASSUME NEW ask \in Ask
        PROVE  Asked(ask)' <= MaxAsks[ask]
    <2>1. /\ Asked(ask) <= MaxAsks[ask] /\ MaxAsks[ask] \in Nat
          /\ net.asks[ask] \in Nat /\ Cardinality(Sends(toNet, ask)) \in Nat
      BY TypeMeans, SendsFinite DEF CountInv
    <2>2. Cardinality(Sends(toNet', ask)) =
             Cardinality(Sends(toNet, ask)) + IF b.kind = ask THEN 1 ELSE 0
      BY TypeMeans, SendsAppend
    <2>3. Asked(ask)' = net'.asks[ask] + Cardinality(Sends(toNet', ask))
      BY DEF Asked, Sends
    <2>4. Asked(ask) = net.asks[ask] + Cardinality(Sends(toNet, ask))
      BY AskedSends
    <2> QED  BY <2>1, <2>2, <2>3, <2>4
  <1> QED  BY <1>2, <1>3 DEF CountInv

LEMMA CloseBoxType ==
    ASSUME TypeOK, CountInv, StackInv, CloseBox
    PROVE  TypeOK' /\ CountInv'
  <1>1. PICK top : top = Last(stack)
    OBVIOUS
  <1>2. /\ top.kind \in Box /\ phase # "quit"
        /\ batch' = top.rest /\ stack' = Front(stack)
        /\ \E yes \in BOOLEAN :
              login' = IF top.kind \notin {"login_err", "login_fail"} THEN login
                       ELSE [login EXCEPT !.on = TRUE,
                                          !.open = @ /\ ~(yes /\ top.kind = "login_err")]
        /\ reg' = CASE top.kind \in {"reg_err", "reg_fail"} -> [reg EXCEPT !.on = TRUE]
                    [] top.kind = "reg_done" -> [on |-> TRUE, open |-> FALSE]
                    [] OTHER -> reg
        /\ toNet' = toNet \o SentAfter(top)
        /\ version' = IF top.kind = "blocked_ip" THEN Displayed ELSE version
        /\ phase' = IF top.kind = "worker_exception" THEN "quit" ELSE phase
        /\ UNCHANGED <<net, toGui, self, block, past>>
    BY <1>1 DEF CloseBox
  <1>3. top.kind \notin {"login", "app", "register"}
    BY <1>2 DEF Box
  <1>4. /\ stack' \in Seq(Loop) /\ stack' # <<>>
        /\ Head(stack') = Head(stack)
        /\ (\E i \in DOMAIN stack : stack[i].kind = "register")
              => \E i \in DOMAIN stack' : stack'[i].kind = "register"
        /\ top \in Loop
    BY <1>1, <1>2, <1>3, PoppedType
  <1>5. top.rest \in Seq(GuiMessage) /\ top.ips \in SUBSET Addr
    BY <1>4 DEF Loop
  <1>6. LoopsOK /\ WindowsOK /\ ThreadsOK
    BY TypeParts
  <1>7. reg' \in [on : BOOLEAN, open : BOOLEAN] /\ (reg'.open => reg.open)
    <2>1. CASE top.kind \in {"reg_err", "reg_fail"}
      BY <1>2, <1>6, <2>1 DEF WindowsOK
    <2>2. CASE top.kind = "reg_done"
      BY <1>2, <2>2
    <2>3. CASE top.kind \notin {"reg_err", "reg_fail", "reg_done"}
      BY <1>2, <1>6, <2>3 DEF WindowsOK
    <2> QED  BY <2>1, <2>2, <2>3
  <1>8. LoopsOK'
    BY <1>2, <1>4, <1>5, <1>6, <1>7 DEF LoopsOK
  <1>9. login' \in LoginWindow
    <2>1. \/ login' = login
          \/ \E x \in BOOLEAN : login' = [login EXCEPT !.on = TRUE, !.open = x]
      <3>1. login.open \in BOOLEAN
        BY <1>6 DEF WindowsOK, LoginWindow
      <3> QED  BY <1>2, <3>1
    <2> QED  BY <1>6, <2>1 DEF WindowsOK, LoginWindow
  <1>10. phase' \in {"login", "running", "quit"}
    BY <1>2, <1>6 DEF WindowsOK
  <1>11. WindowsOK'
    BY <1>2, <1>6, <1>7, <1>9, <1>10, DisplayedType DEF WindowsOK
  <1>12. ThreadsOK' /\ CountInv'
    <2>1. CASE top.kind = "blocked_list"
      <3> DEFINE b == [kind |-> "block_users", ips |-> top.ips]
      <3>1. b \in NetMessage /\ b.kind \notin Ask
        BY <1>5 DEF NetMessage, Ask
      <3>2. toNet' = toNet \o <<b>>
        BY <1>2, <2>1 DEF SentAfter
      <3> HIDE DEF b
      <3>3. toNet' = Append(toNet, b)
        BY <3>1, <3>2, TypeMeans
      <3> QED  BY <1>2, <3>1, <3>3, SentType
    <2>2. CASE top.kind # "blocked_list"
      <3>1. toNet' = toNet
        BY <1>2, <2>2, TypeMeans, ConcatEmptySeq DEF SentAfter
      <3>2. ThreadsOK'
        BY <1>2, <1>6, <3>1 DEF ThreadsOK
      <3> QED  BY <1>2, <3>1, <3>2, SameCount
    <2> QED  BY <2>1, <2>2
  <1> QED  BY <1>8, <1>11, <1>12, NextTypeParts

LEMMA CollectType ==
    ASSUME TypeOK, CountInv, Collect
    PROVE  TypeOK' /\ CountInv'
  <1>1. PICK k \in DOMAIN toGui : /\ batch' = SubSeq(toGui, 1, k)
                                  /\ toGui' = SubSeq(toGui, k + 1, Len(toGui))
    BY DEF Collect
  <1>2. Len(toGui) \in Nat /\ DOMAIN toGui = 1..Len(toGui) /\ k \in Nat
        /\ k + 1 \in Int /\ \A i \in 1..Len(toGui) : toGui[i] \in GuiMessage
    BY <1>1, TypeMeans, LenProperties, ElementOfSeq
  <1>3. batch' \in Seq(GuiMessage)
    <2>1. \A i \in 1..k : toGui[i] \in GuiMessage
      BY <1>1, <1>2
    <2> QED  BY <1>1, <1>2, <2>1, SubSeqProperties
  <1>4. toGui' \in Seq(GuiMessage)
    <2>1. \A i \in (k + 1)..Len(toGui) : toGui[i] \in GuiMessage
      BY <1>1, <1>2
    <2> QED  BY <1>1, <1>2, <2>1, SubSeqProperties
  <1>5. TypeOK'
    BY <1>3, <1>4 DEF Collect, TypeOK
  <1> QED  BY <1>5, SameCount DEF Collect

LEMMA LoginClickedType ==
    ASSUME TypeOK, CountInv, NEW c \in Cred, LoginClicked(c)
    PROVE  TypeOK' /\ CountInv'
  <1> DEFINE b == [kind |-> "login", cred |-> c]
  <1>1. b \in NetMessage /\ b.kind = "login"
    BY DEF NetMessage, Ask
  <1>2. /\ toNet' = Append(toNet, b) /\ Asked("login") < MaxAsks["login"]
        /\ login' = [login EXCEPT !.user = c.user, !.pass = c.pass,
                                  !.validated = FALSE, !.on = FALSE]
        /\ past' = [past EXCEPT !.crossed = @ \/ Pending("login") \/ Unread("login_done")]
        /\ UNCHANGED <<net, toGui, batch, stack, reg, self, version, block, phase>>
    BY DEF LoginClicked
  <1> HIDE DEF b
  <1>3. ThreadsOK' /\ CountInv'
    BY <1>1, <1>2, SentType
  <1>4. LoopsOK /\ WindowsOK
    BY TypeParts
  <1>5. LoopsOK'
    BY <1>2, <1>4 DEF LoopsOK
  <1>6. login' \in LoginWindow
    BY <1>2, <1>4 DEF WindowsOK, LoginWindow, User
  <1>7. past' \in Past
    <2>1. Pending("login") \in BOOLEAN /\ Unread("login_done") \in BOOLEAN
      BY DEF Pending, Unread, Says
    <2>2. past \in Past /\ past.crossed \in BOOLEAN
      BY <1>4 DEF WindowsOK, Past
    <2>3. PICK x \in BOOLEAN : x = (past.crossed \/ Pending("login") \/ Unread("login_done"))
      BY <2>1, <2>2
    <2>4. past' = [past EXCEPT !.crossed = x]
      BY <1>2, <2>3
    <2> QED  BY <2>2, <2>4 DEF Past
  <1>8. WindowsOK'
    BY <1>2, <1>4, <1>6, <1>7 DEF WindowsOK
  <1> QED  BY <1>3, <1>5, <1>8, NextTypeParts

LEMMA RegisterClickedType ==
    ASSUME TypeOK, CountInv, NEW c \in Cred, RegisterClicked(c)
    PROVE  TypeOK' /\ CountInv'
  <1> DEFINE b == [kind |-> "reg", cred |-> c]
  <1>1. b \in NetMessage /\ b.kind = "reg"
    BY DEF NetMessage, Ask
  <1>2. /\ toNet' = Append(toNet, b) /\ Asked("reg") < MaxAsks["reg"]
        /\ reg' = [reg EXCEPT !.on = FALSE]
        /\ UNCHANGED <<net, toGui, batch, stack, login, self, version, block, phase, past>>
    BY DEF RegisterClicked
  <1> HIDE DEF b
  <1>3. ThreadsOK' /\ CountInv'
    BY <1>1, <1>2, SentType
  <1>4. LoopsOK /\ WindowsOK
    BY TypeParts
  <1>5. reg' \in [on : BOOLEAN, open : BOOLEAN] /\ reg'.open = reg.open
    BY <1>2, <1>4 DEF WindowsOK
  <1>6. LoopsOK' /\ WindowsOK'
    BY <1>2, <1>4, <1>5 DEF LoopsOK, WindowsOK
  <1> QED  BY <1>3, <1>6, NextTypeParts

LEMMA RegisterLoopType ==
    ASSUME TypeOK, CountInv, StackInv, RegisterOpened \/ RegisterEnds
    PROVE  TypeOK' /\ CountInv'
  <1>1. LoopsOK /\ WindowsOK /\ ThreadsOK
    BY TypeParts
  <1>2. UNCHANGED <<toNet, net, toGui, batch, login, self, version, block, phase, past>>
    BY DEF RegisterOpened, RegisterEnds
  <1>3. CASE RegisterOpened
    <2> DEFINE l == Runs("register")
    <2>1. stack' = Append(stack, l) /\ reg' = [on |-> TRUE, open |-> TRUE]
      BY <1>3 DEF RegisterOpened
    <2>2. l \in Loop /\ l.kind = "register"
      BY EmptySeq DEF Runs, Loop
    <2> HIDE DEF l
    <2>3. /\ stack' \in Seq(Loop) /\ stack' # <<>>
          /\ Head(stack') = Head(stack)
          /\ \E i \in DOMAIN stack' : stack'[i].kind = "register"
      BY <2>1, <2>2, PushedType
    <2>4. LoopsOK' /\ WindowsOK'
      BY <1>1, <1>2, <2>1, <2>3 DEF LoopsOK, WindowsOK
    <2> QED  BY <1>1, <1>2, <2>4, SameCount, NextTypeParts DEF ThreadsOK
  <1>4. CASE RegisterEnds
    <2>1. /\ Last(stack).kind = "register" /\ stack' = Front(stack)
          /\ reg' = [on |-> FALSE, open |-> FALSE]
      BY <1>4 DEF RegisterEnds, Idle
    <2>2. /\ stack' \in Seq(Loop) /\ stack' # <<>>
          /\ Head(stack') = Head(stack)
      BY <2>1, PoppedType
    <2>3. LoopsOK' /\ WindowsOK'
      BY <1>1, <1>2, <2>1, <2>2 DEF LoopsOK, WindowsOK
    <2> QED  BY <1>1, <1>2, <2>3, SameCount, NextTypeParts DEF ThreadsOK
  <1> QED  BY <1>3, <1>4

\* When the login window's loop is the innermost one it is the only one.
LEMMA OnlyLogin ==
    ASSUME StackInv, Last(stack).kind \in {"login", "app"}
    PROVE  /\ DOMAIN stack = {1} /\ stack[1] = Last(stack) /\ Len(stack) = 1
  <1>1. /\ Len(stack) \in Nat \ {0} /\ DOMAIN stack = 1..Len(stack)
        /\ Last(stack) = stack[Len(stack)]
    BY FrontIsSeq DEF StackInv
  <1>2. Len(stack) = 1
    BY <1>1 DEF StackInv
  <1> QED  BY <1>1, <1>2

LEMMA StartGoesOnType ==
    ASSUME TypeOK, CountInv, StackInv, StartGoesOn
    PROVE  TypeOK' /\ CountInv'
  <1> DEFINE b == [kind |-> "connect"]
             l == Runs("app")
  <1>1. b \in NetMessage /\ b.kind \notin Ask
    BY DEF NetMessage, Ask
  <1>2. /\ toNet' = Append(toNet, b) /\ stack' = <<l>> /\ Last(stack).kind = "login"
        /\ self' = [self EXCEPT !.user = login.user, !.pass = login.pass,
                                !.validated = login.validated]
        /\ login' = NoLogin /\ phase' = "running"
        /\ UNCHANGED <<net, toGui, batch, reg, version, block, past>>
    BY DEF StartGoesOn, Idle
  <1> HIDE DEF b
  <1>3. ThreadsOK' /\ CountInv'
    BY <1>1, <1>2, SentType
  <1>4. LoopsOK /\ WindowsOK
    BY TypeParts
  <1>5. ~reg.open
    BY <1>2, <1>4, OnlyLogin DEF LoopsOK
  <1>6. l \in Loop /\ l.kind = "app"
    BY EmptySeq DEF Runs, Loop
  <1> HIDE DEF l
  <1>7. stack' \in Seq(Loop) /\ stack' # <<>> /\ Head(stack') = l
    BY <1>2, <1>6
  <1>8. LoopsOK'
    BY <1>2, <1>4, <1>5, <1>6, <1>7 DEF LoopsOK
  <1>9. login' \in LoginWindow
    BY <1>2 DEF NoLogin, LoginWindow
  <1>10. self' \in [user : User \cup {Nobody}, pass : {c.pass : c \in Cred} \cup {Nobody},
                    validated : BOOLEAN, ip : Addr \cup {Nobody}, playing : BOOLEAN]
    BY <1>2, <1>4 DEF WindowsOK, LoginWindow
  <1>11. WindowsOK'
    BY <1>2, <1>4, <1>9, <1>10 DEF WindowsOK
  <1> QED  BY <1>3, <1>8, <1>11, NextTypeParts

LEMMA NextType ==
    ASSUME TypeOK, CountInv, StackInv, [Next]_vars
    PROVE  TypeOK' /\ CountInv'
  <1>1. CASE WorkerHandles
    BY <1>1, WorkerType
  <1>2. CASE ServiceFetchEnds \/ AskFetchEnds \/ ExternalIpFound
    BY <1>2, EndsType
  <1>3. CASE Collect
    BY <1>3, CollectType
  <1>4. CASE HandleMessage
    BY <1>4, HandleMessageType
  <1>5. CASE CloseBox
    BY <1>5, CloseBoxType
  <1>6. CASE StartGoesOn
    BY <1>6, StartGoesOnType
  <1>7. CASE \E c \in Cred : LoginClicked(c) \/ RegisterClicked(c)
    BY <1>7, LoginClickedType, RegisterClickedType
  <1>8. CASE RegisterOpened \/ RegisterEnds
    BY <1>8, RegisterLoopType
  <1>9. CASE Quits \/ CloseVersion
    <2>1. /\ UNCHANGED <<toNet, net, toGui, batch, stack, login, reg, self, block, past>>
          /\ version' = version \/ version' = [version EXCEPT !.at = "closed"]
          /\ phase' = phase \/ phase' = "quit"
      BY <1>9 DEF Quits, CloseVersion
    <2>2. TypeOK'
      BY <2>1 DEF TypeOK
    <2> QED  BY <2>1, <2>2, SameCount
  <1>10. CASE ChangeStatus
    <2>1. TypeOK'
      BY <1>10 DEF ChangeStatus, TypeOK
    <2> QED  BY <1>10, <2>1, SameCount DEF ChangeStatus
  <1>11. CASE UNCHANGED vars
    BY <1>11, SameCount DEF vars, TypeOK
  <1> QED
    BY <1>1, <1>2, <1>3, <1>4, <1>5, <1>6, <1>7, <1>8, <1>9, <1>10, <1>11 DEF Next

LEMMA InitType == ASSUME Init PROVE TypeOK /\ CountInv
  <1>1. LoopsOK
    <2> DEFINE l == Runs("login")
    <2>1. stack = <<l>> /\ batch = <<>> /\ phase = "login" /\ ~reg.open
      BY DEF Init
    <2>2. l \in Loop /\ l.kind = "login"
      BY EmptySeq DEF Runs, Loop
    <2> HIDE DEF l
    <2>3. stack \in Seq(Loop) /\ stack # <<>> /\ Head(stack) = l
      BY <2>1, <2>2
    <2>4. batch \in Seq(GuiMessage)
      BY <2>1, EmptySeq
    <2> QED  BY <2>1, <2>2, <2>3, <2>4 DEF LoopsOK
  <1>2. WindowsOK
    BY DEF Init, WindowsOK, LoginWindow, NoLogin, Past
  <1>3. net \in Thread
    BY DEF Init, Thread
  <1>4. toNet \in Seq(NetMessage) /\ \A i \in DOMAIN toNet : toNet[i].kind \notin Ask
    <2> DEFINE v == [kind |-> "version_fetch"]
               g == [kind |-> "ignore_fetch"]
    <2>1. /\ v \in NetMessage /\ g \in NetMessage
          /\ v.kind \notin Ask /\ g.kind \notin Ask
      BY DEF NetMessage, Ask
    <2>2. toNet = <<v>> \/ toNet = <<v, g>>
      BY DEF Init
    <2> HIDE DEF v, g
    <2>3. toNet \in Seq(NetMessage) /\ \A i \in DOMAIN toNet : toNet[i] = v \/ toNet[i] = g
      <3>1. \A x, y \in NetMessage : /\ <<x>> \in Seq(NetMessage) /\ <<x, y>> \in Seq(NetMessage)
                                     /\ \A i \in DOMAIN <<x>> : <<x>>[i] = x
                                     /\ \A i \in DOMAIN <<x, y>> : <<x, y>>[i] = x \/ <<x, y>>[i] = y
        OBVIOUS
      <3>2. CASE toNet = <<v>>
        BY <2>1, <3>1, <3>2
      <3>3. CASE toNet = <<v, g>>
        BY <2>1, <3>1, <3>3
      <3> QED  BY <2>2, <3>2, <3>3
    <2> QED  BY <2>1, <2>3
  <1>5. ThreadsOK
    BY <1>3, <1>4, EmptySeq DEF ThreadsOK, Init
  <1>6. CountInv
    <2> SUFFICES ASSUME NEW ask \in Ask PROVE Asked(ask) <= MaxAsks[ask]
      BY DEF CountInv
    <2>1. Sends(toNet, ask) = {}
      BY <1>4 DEF Sends
    <2>2. net.asks[ask] = 0 /\ MaxAsks[ask] \in Nat
      BY StartupAssumption DEF Init, Ask
    <2>3. Cardinality(Sends(toNet, ask)) = 0
      BY <2>1, FS_EmptySet
    <2>4. Asked(ask) = net.asks[ask] + Cardinality(Sends(toNet, ask))
      BY AskedSends
    <2> QED  BY <2>2, <2>3, <2>4
  <1> QED  BY <1>1, <1>2, <1>5, <1>6, TypeParts

\* Every reachable state is well typed, whatever boxes and windows are open
\* and however often it is logged in.
THEOREM TypeCorrect == Spec => []TypeOK
  <1>1. Init => TypeOK /\ CountInv
    BY InitType
  <1>2. TypeOK /\ CountInv /\ IgnoreInv /\ [Next]_vars => TypeOK' /\ CountInv' /\ IgnoreInv'
    BY NextType, NextIgnoreInv DEF IgnoreInv
  <1> QED  BY <1>1, <1>2, InitIgnoreInv, PTL DEF Spec

-----------------------------------------------------------------------------
(* What the GUI thread has not handled yet *)

LEMMA HasTail ==
    ASSUME NEW q, IsSeq(q), q # <<>>
    PROVE  \A m : Has(q, m) <=> m = Head(q) \/ Has(Tail(q), m)
  <1>1. PICK n \in Nat \ {0} : n = Len(q) /\ DOMAIN q = 1..n /\ Head(q) = q[1]
    BY TailIsSeq
  <1>2. DOMAIN Tail(q) = 1..(n - 1) /\ \A i \in 1..(n - 1) : Tail(q)[i] = q[i + 1]
    BY <1>1, TailIsSeq
  <1> SUFFICES ASSUME NEW m PROVE Has(q, m) <=> m = Head(q) \/ Has(Tail(q), m)
    OBVIOUS
  <1>3. ASSUME NEW i \in DOMAIN q, q[i] = m
        PROVE  m = Head(q) \/ Has(Tail(q), m)
    <2>1. CASE i = 1
      BY <1>1, <1>3, <2>1
    <2>2. CASE i # 1
      <3>1. i - 1 \in 1..(n - 1) /\ (i - 1) + 1 = i
        BY <1>1, <2>2
      <3> QED  BY <1>2, <1>3, <3>1 DEF Has
    <2> QED  BY <2>1, <2>2
  <1>4. ASSUME NEW i \in DOMAIN Tail(q), Tail(q)[i] = m
        PROVE  Has(q, m)
    <2>1. i + 1 \in DOMAIN q /\ q[i + 1] = m
      BY <1>1, <1>2, <1>4
    <2> QED  BY <2>1 DEF Has
  <1>5. m = Head(q) => Has(q, m)
    BY <1>1 DEF Has
  <1> QED  BY <1>3, <1>4, <1>5 DEF Has

LEMMA HasConcat ==
    ASSUME NEW q, IsSeq(q), NEW r, IsSeq(r)
    PROVE  \A m : Has(q \o r, m) <=> Has(q, m) \/ Has(r, m)
  <1>1. PICK k \in Nat : k = Len(q) /\ DOMAIN q = 1..k
    BY AppendIsSeq
  <1>2. PICK l \in Nat : l = Len(r) /\ DOMAIN r = 1..l
    BY AppendIsSeq
  <1>3. /\ DOMAIN (q \o r) = 1..(k + l)
        /\ \A i \in 1..(k + l) : (q \o r)[i] = IF i <= k THEN q[i] ELSE r[i - k]
    <2> DEFINE S == Range(q) \cup Range(r)
    <2>1. q \in Seq(S) /\ r \in Seq(S)
      BY SeqMonotonic DEF IsSeq
    <2> HIDE DEF S
    <2>2. /\ q \o r \in Seq(S) /\ Len(q \o r) = Len(q) + Len(r)
          /\ \A i \in 1..(Len(q) + Len(r)) :
                (q \o r)[i] = IF i <= Len(q) THEN q[i] ELSE r[i - Len(q)]
      BY <2>1, ConcatProperties
    <2> QED  BY <1>1, <1>2, <2>2, LenProperties
  <1> SUFFICES ASSUME NEW m PROVE Has(q \o r, m) <=> Has(q, m) \/ Has(r, m)
    OBVIOUS
  <1>4. ASSUME NEW i \in DOMAIN (q \o r), (q \o r)[i] = m
        PROVE  Has(q, m) \/ Has(r, m)
    <2>1. CASE i <= k
      BY <1>1, <1>3, <1>4, <2>1 DEF Has
    <2>2. CASE ~(i <= k)
      <3>1. i - k \in DOMAIN r /\ r[i - k] = m
        BY <1>2, <1>3, <1>4, <2>2
      <3> QED  BY <3>1 DEF Has
    <2> QED  BY <2>1, <2>2
  <1>5. ASSUME NEW i \in DOMAIN q, q[i] = m
        PROVE  Has(q \o r, m)
    <2>1. i \in DOMAIN (q \o r) /\ (q \o r)[i] = m
      BY <1>1, <1>3, <1>5
    <2> QED  BY <2>1 DEF Has
  <1>6. ASSUME NEW i \in DOMAIN r, r[i] = m
        PROVE  Has(q \o r, m)
    <2>1. k + i \in DOMAIN (q \o r) /\ (q \o r)[k + i] = m
      BY <1>2, <1>3, <1>6
    <2> QED  BY <2>1 DEF Has
  <1> QED  BY <1>4, <1>5, <1>6 DEF Has

LEMMA HasAppend ==
    ASSUME NEW q, IsSeq(q), NEW x
    PROVE  \A m : Has(Append(q, x), m) <=> Has(q, m) \/ m = x
  <1>1. PICK n \in Nat : /\ n = Len(q) /\ DOMAIN q = 1..n
                         /\ DOMAIN Append(q, x) = 1..(n + 1)
                         /\ \A i \in 1..n : Append(q, x)[i] = q[i]
                         /\ Append(q, x)[n + 1] = x
    BY AppendIsSeq
  <1>2. \A i \in 1..(n + 1) : i \in 1..n \/ i = n + 1
    OBVIOUS
  <1>3. 1..n \subseteq 1..(n + 1) /\ n + 1 \in 1..(n + 1)
    OBVIOUS
  <1> QED  BY <1>1, <1>2, <1>3 DEF Has

LEMMA HasSplit ==
    ASSUME NEW S, NEW q \in Seq(S), NEW k \in DOMAIN q
    PROVE  \A m : Has(q, m) <=> Has(SubSeq(q, 1, k), m) \/ Has(SubSeq(q, k + 1, Len(q)), m)
  <1>1. PICK n \in Nat : n = Len(q) /\ DOMAIN q = 1..n
    BY LenProperties
  <1>2. k \in 1..n /\ \A i \in 1..n : q[i] \in S
    BY <1>1, ElementOfSeq
  <1>3. /\ DOMAIN SubSeq(q, 1, k) = 1..k
        /\ \A i \in 1..k : SubSeq(q, 1, k)[i] = q[i]
    <2>1. \A i \in 1..k : q[i] \in S
      BY <1>2
    <2>2. /\ SubSeq(q, 1, k) \in Seq(S)
          /\ Len(SubSeq(q, 1, k)) = IF 1 <= k THEN k - 1 + 1 ELSE 0
          /\ \A i \in 1..(k - 1 + 1) : SubSeq(q, 1, k)[i] = q[1 + i - 1]
      BY <1>2, <2>1, SubSeqProperties
    <2> QED  BY <1>2, <2>2, LenProperties
  <1>4. /\ DOMAIN SubSeq(q, k + 1, n) = 1..(n - k)
        /\ \A i \in 1..(n - k) : SubSeq(q, k + 1, n)[i] = q[k + i]
    <2>1. \A i \in (k + 1)..n : q[i] \in S
      BY <1>2
    <2>2. /\ SubSeq(q, k + 1, n) \in Seq(S)
          /\ Len(SubSeq(q, k + 1, n)) = IF k + 1 <= n THEN n - (k + 1) + 1 ELSE 0
          /\ \A i \in 1..(n - (k + 1) + 1) : SubSeq(q, k + 1, n)[i] = q[(k + 1) + i - 1]
      BY <1>2, <2>1, SubSeqProperties
    <2>3. n - (k + 1) + 1 = n - k /\ \A i \in 1..(n - k) : (k + 1) + i - 1 = k + i
      BY <1>2
    <2>4. Len(SubSeq(q, k + 1, n)) = n - k
      BY <1>2, <2>2
    <2>5. DOMAIN SubSeq(q, k + 1, n) = 1..(n - k)
      BY <2>2, <2>4, LenProperties
    <2> QED  BY <2>2, <2>3, <2>5
  <1> SUFFICES ASSUME NEW m
               PROVE  Has(q, m) <=> Has(SubSeq(q, 1, k), m) \/ Has(SubSeq(q, k + 1, n), m)
    BY <1>1
  <1>5. \A i \in 1..n : i \in 1..k \/ (i - k \in 1..(n - k) /\ k + (i - k) = i)
    BY <1>2
  <1>6. 1..k \subseteq 1..n /\ \A i \in 1..(n - k) : k + i \in 1..n
    BY <1>2
  <1>7. ASSUME NEW i \in DOMAIN q, q[i] = m
        PROVE  Has(SubSeq(q, 1, k), m) \/ Has(SubSeq(q, k + 1, n), m)
    <2>1. CASE i \in 1..k
      BY <1>3, <1>7, <2>1 DEF Has
    <2>2. CASE i - k \in 1..(n - k) /\ k + (i - k) = i
      <3>1. SubSeq(q, k + 1, n)[i - k] = m
        BY <1>4, <1>7, <2>2
      <3> QED  BY <1>4, <2>2, <3>1 DEF Has
    <2> QED  BY <1>1, <1>5, <2>1, <2>2
  <1>8. Has(SubSeq(q, 1, k), m) => Has(q, m)
    BY <1>1, <1>3, <1>6 DEF Has
  <1>9. Has(SubSeq(q, k + 1, n), m) => Has(q, m)
    BY <1>1, <1>4, <1>6 DEF Has
  <1> QED  BY <1>7, <1>8, <1>9 DEF Has

LEMMA HasNone == \A m : ~Has(<<>>, m)
  BY DEF Has

\* The handlers that wait have m still to handle.
Kept(m) == \E i \in DOMAIN stack : Has(stack[i].rest, m)

Unheard(m) == Has(toGui, m) \/ Has(batch, m) \/ Kept(m)

\* A loop that is not a box's began with nothing left to handle.
LoopInv == \A i \in DOMAIN stack :
              stack[i].kind \in {"login", "register", "app"} => stack[i].rest = <<>>

LEMMA PushedKept ==
    ASSUME StackInv, LoopInv, NEW l, stack' = Append(stack, l),
           l.kind \in {"login", "register", "app"} => l.rest = <<>>
    PROVE  /\ LoopInv'
           /\ \A m : Kept(m)' <=> Kept(m) \/ Has(l.rest, m)
  <1>0. /\ Len(stack) \in Nat /\ DOMAIN stack = 1..Len(stack)
        /\ DOMAIN stack' = 1..(Len(stack) + 1)
        /\ \A i \in 1..Len(stack) : stack'[i] = stack[i]
        /\ stack'[Len(stack) + 1] = l
    BY AppendIsSeq DEF StackInv
  <1>1. PICK n \in Nat : /\ n = Len(stack) /\ DOMAIN stack = 1..n
                         /\ DOMAIN stack' = 1..(n + 1)
                         /\ \A i \in 1..n : stack'[i] = stack[i]
                         /\ stack'[n + 1] = l
    BY <1>0
  <1>2. \A i \in 1..(n + 1) : i \in 1..n \/ i = n + 1
    OBVIOUS
  <1>3. 1..n \subseteq 1..(n + 1) /\ n + 1 \in 1..(n + 1)
    OBVIOUS
  <1> QED  BY <1>1, <1>2, <1>3 DEF LoopInv, Kept

LEMMA PoppedKept ==
    ASSUME StackInv, LoopInv, stack' = Front(stack)
    PROVE  /\ LoopInv'
           /\ \A m : Kept(m) <=> Kept(m)' \/ Has(Last(stack).rest, m)
           /\ Last(stack).kind \in {"login", "register", "app"} => Last(stack).rest = <<>>
  <1>1. PICK n \in Nat \ {0} : /\ n = Len(stack) /\ DOMAIN stack = 1..n
                               /\ Last(stack) = stack[n]
                               /\ DOMAIN stack' = 1..(n - 1)
                               /\ \A i \in 1..(n - 1) : stack'[i] = stack[i]
    BY FrontIsSeq DEF StackInv
  <1>2. \A i \in 1..n : i \in 1..(n - 1) \/ i = n
    OBVIOUS
  <1>3. 1..(n - 1) \subseteq 1..n /\ n \in 1..n
    OBVIOUS
  <1> QED  BY <1>1, <1>2, <1>3 DEF LoopInv, Kept

LEMMA UnheardThread ==
    ASSUME TypeOK, LoopInv, NEW net2, NEW gui \in Seq(GuiMessage), StepsOf(net2, gui)
    PROVE  /\ LoopInv'
           /\ \A m : Unheard(m)' <=> Unheard(m) \/ Has(gui, m)
  <1>1. toGui' = toGui \o gui /\ batch' = batch /\ stack' = stack
    BY DEF StepsOf
  <1>2. \A m : Has(toGui', m) <=> Has(toGui, m) \/ Has(gui, m)
    BY <1>1, TypeMeans, SeqIsSeq, HasConcat
  <1> QED  BY <1>1, <1>2 DEF Unheard, Kept, LoopInv

LEMMA UnheardCollect ==
    ASSUME TypeOK, LoopInv, Collect
    PROVE  /\ LoopInv'
           /\ \A m : Unheard(m)' <=> Unheard(m)
  <1>1. PICK k \in DOMAIN toGui : /\ batch' = SubSeq(toGui, 1, k)
                                  /\ toGui' = SubSeq(toGui, k + 1, Len(toGui))
    BY DEF Collect
  <1>2. batch = <<>> /\ stack' = stack
    BY DEF Collect
  <1>3. \A m : Has(toGui, m) <=> Has(batch', m) \/ Has(toGui', m)
    BY <1>1, TypeMeans, HasSplit
  <1> QED  BY <1>2, <1>3, HasNone DEF Unheard, Kept, LoopInv

LEMMA UnheardHandled ==
    ASSUME TypeOK, StackInv, LoopInv, batch # <<>>, UNCHANGED toGui,
           Handled \/ \E box \in Box : \E ips : Shows(box, ips)
    PROVE  /\ LoopInv'
           /\ \A m : Unheard(m) <=> Unheard(m)' \/ m = Head(batch)
  <1>1. \A m : Has(batch, m) <=> m = Head(batch) \/ Has(Tail(batch), m)
    BY TypeMeans, HasTail
  <1>2. CASE Handled
    BY <1>1, <1>2 DEF Handled, Unheard, Kept, LoopInv
  <1>3. CASE \E box \in Box : \E ips : Shows(box, ips)
    <2>1. PICK box \in Box : \E ips : Shows(box, ips)
      BY <1>3
    <2>0. PICK ips : Shows(box, ips)
      BY <2>1
    <2> DEFINE l == [kind |-> box, rest |-> Tail(batch), ips |-> ips]
    <2>2. /\ stack' = Append(stack, l) /\ batch' = <<>>
          /\ l.rest = Tail(batch) /\ l.kind \notin {"login", "register", "app"}
      BY <2>0 DEF Shows, Box
    <2> HIDE DEF l
    <2>3. LoopInv' /\ \A m : Kept(m)' <=> Kept(m) \/ Has(Tail(batch), m)
      BY <2>2, PushedKept
    <2> QED  BY <1>1, <2>2, <2>3, HasNone DEF Unheard
  <1> QED  BY <1>2, <1>3

LEMMA UnheardClosed ==
    ASSUME TypeOK, StackInv, LoopInv, CloseBox
    PROVE  /\ LoopInv'
           /\ \A m : Unheard(m)' <=> Unheard(m)
  <1>1. /\ batch = <<>> /\ batch' = Last(stack).rest /\ stack' = Front(stack)
        /\ toGui' = toGui
    BY DEF CloseBox
  <1> QED  BY <1>1, PoppedKept, HasNone DEF Unheard

LEMMA UnheardLoops ==
    ASSUME TypeOK, StackInv, LoopInv, RegisterOpened \/ RegisterEnds \/ StartGoesOn
    PROVE  /\ LoopInv'
           /\ \A m : Unheard(m)' <=> Unheard(m)
  <1>1. batch' = batch /\ toGui' = toGui
    BY DEF RegisterOpened, RegisterEnds, StartGoesOn
  <1>2. CASE RegisterOpened
    <2> DEFINE l == Runs("register")
    <2>1. stack' = Append(stack, l) /\ l.rest = <<>>
      BY <1>2 DEF RegisterOpened, Runs
    <2> HIDE DEF l
    <2> QED  BY <1>1, <2>1, PushedKept, HasNone DEF Unheard
  <1>3. CASE RegisterEnds
    <2>1. stack' = Front(stack) /\ Last(stack).kind = "register"
      BY <1>3 DEF RegisterEnds, Idle
    <2> QED  BY <1>1, <2>1, PoppedKept, HasNone DEF Unheard
  <1>4. CASE StartGoesOn
    <2> DEFINE l == Runs("app")
    <2>1. stack' = <<l>> /\ l.rest = <<>> /\ Last(stack).kind = "login"
      BY <1>4 DEF StartGoesOn, Idle, Runs
    <2> HIDE DEF l
    <2>2. DOMAIN stack' = {1} /\ stack'[1] = l
      BY <2>1
    <2>3. DOMAIN stack = {1} /\ stack[1].rest = <<>>
      BY <2>1, OnlyLogin DEF LoopInv
    <2>4. \A m : ~Kept(m) /\ ~Kept(m)'
      BY <2>1, <2>2, <2>3, HasNone DEF Kept
    <2> QED  BY <1>1, <2>1, <2>2, <2>4 DEF Unheard, LoopInv
  <1> QED  BY <1>2, <1>3, <1>4

LEMMA UnreadUnheard ==
    ASSUME NEW k
    PROVE  Unread(k) <=> \E m : Unheard(m) /\ m.kind = k
  BY DEF Unread, Says, Unheard, Kept, Has

-----------------------------------------------------------------------------
(* The pair that is kept *)

Current == [user |-> login.user, pass |-> login.pass]

\* While no login crossed another, what the site is asked is what the login
\* window says, and an answer that it is right is about that, too.
LoginKept ==
    /\ ~self.validated
    /\ login.validated => Current \in past.accepted
    /\ ~net.ended =>
          /\ \A i \in DOMAIN toNet : toNet[i].kind = "login" => toNet[i].cred = Current
          /\ \A f \in net.fetches : f.job = "login" => f.cred = Current
    /\ \A m : Unheard(m) /\ m.kind = "login_done"
                 => m.user = login.user /\ Current \in past.accepted

LoginInv ==
    ~past.crossed =>
       /\ self.validated => [user |-> self.user, pass |-> self.pass] \in past.accepted
       /\ phase = "login" => LoginKept

LEMMA LoginStep ==
    ASSUME LoginInv, past'.crossed = past.crossed, past.accepted \subseteq past'.accepted,
           self'.user = self.user, self'.pass = self.pass, self'.validated = self.validated,
           phase' = "login" => phase = "login",
           ~past.crossed /\ phase = "login" /\ LoginKept => LoginKept'
    PROVE  LoginInv'
  BY DEF LoginInv

\* Nothing is asked or answered, and nothing is forgotten.
LEMMA LoginKeptSame ==
    ASSUME LoginKept, past.accepted \subseteq past'.accepted,
           self'.validated = self.validated,
           login'.user = login.user, login'.pass = login.pass,
           login'.validated => login.validated,
           net.ended => net'.ended,
           \A f \in net'.fetches : f.job = "login" => f \in net.fetches,
           \A i \in DOMAIN toNet' : toNet'[i].kind = "login"
                                       => \E j \in DOMAIN toNet : toNet[j] = toNet'[i],
           \A m : Unheard(m)' /\ m.kind = "login_done" => Unheard(m)
    PROVE  LoginKept'
  <1>1. Current' = Current
    BY DEF Current
  <1> QED  BY <1>1 DEF LoginKept

LEMMA WorkerLogin ==
    ASSUME TypeOK, LoopInv, LoginInv, WorkerHandles
    PROVE  LoginInv' /\ LoopInv'
  <1>1. PICK q : q = Head(toNet)
    OBVIOUS
  <1>2. /\ toNet # <<>> /\ toNet' = Tail(toNet) /\ past' = past
        /\ \/ q.kind = "version_fetch" /\ ServiceFetch("version")
           \/ q.kind = "ignore_fetch" /\ ServiceFetch("ignore")
           \/ q.kind \in Ask /\ LoginOperation(q.kind, q.cred)
           \/ q.kind = "connect" /\ StepsOf([net EXCEPT !.connected = TRUE], <<>>)
           \/ q.kind = "block_users" /\ StepsOf([net EXCEPT !.block = WithBlocked(@, q.ips)], <<>>)
    BY <1>1 DEF WorkerHandles
  <1>3. /\ \A i \in DOMAIN toNet' : \E j \in DOMAIN toNet : toNet[j] = toNet'[i]
        /\ 1 \in DOMAIN toNet /\ q = toNet[1]
    <2>1. PICK n \in Nat \ {0} : n = Len(toNet) /\ DOMAIN toNet = 1..n /\ q = toNet[1]
      BY <1>1, <1>2, TypeMeans, TailIsSeq
    <2>2. DOMAIN toNet' = 1..(n - 1) /\ \A i \in 1..(n - 1) : toNet'[i] = toNet[i + 1]
      BY <1>2, <2>1, TypeMeans, TailIsSeq
    <2>3. \A i \in 1..(n - 1) : i + 1 \in 1..n
      OBVIOUS
    <2> QED  BY <2>1, <2>2, <2>3
  <1>4. net \in Thread
    BY DEF TypeOK
  <1>5. ASSUME NEW net2, NEW gui \in Seq(GuiMessage), StepsOf(net2, gui),
               net.ended => net2.ended,
               \A f \in net2.fetches : \/ f \in net.fetches
                                       \/ f.job # "login"
                                       \/ q.kind = "login" /\ f.cred = q.cred,
               \A i \in DOMAIN gui : gui[i].kind # "login_done"
        PROVE  LoginInv' /\ LoopInv'
    <2>1. /\ net' = net2 /\ UNCHANGED <<login, self, phase>>
      BY <1>5 DEF StepsOf
    <2>2. LoopInv' /\ \A m : Unheard(m)' /\ m.kind = "login_done" => Unheard(m)
      BY <1>5, UnheardThread DEF Has
    <2>3. ASSUME LoginKept
          PROVE  LoginKept'
      <3>1. Current' = Current
        BY <2>1 DEF Current
      <3>2. ASSUME ~net'.ended
            PROVE  /\ \A i \in DOMAIN toNet' : toNet'[i].kind = "login" => toNet'[i].cred = Current
                   /\ \A f \in net'.fetches : f.job = "login" => f.cred = Current
        <4>1. ~net.ended
          BY <1>5, <2>1, <3>2
        <4>2. /\ \A i \in DOMAIN toNet : toNet[i].kind = "login" => toNet[i].cred = Current
              /\ \A f \in net.fetches : f.job = "login" => f.cred = Current
          BY <2>3, <4>1 DEF LoginKept
        <4>3. q.kind = "login" => q.cred = Current
          BY <1>3, <4>2
        <4>4. ASSUME NEW i \in DOMAIN toNet', toNet'[i].kind = "login"
              PROVE  toNet'[i].cred = Current
          BY <1>3, <4>2, <4>4
        <4>5. ASSUME NEW f \in net'.fetches, f.job = "login"
              PROVE  f.cred = Current
          BY <1>5, <2>1, <4>2, <4>3, <4>5
        <4> QED  BY <4>4, <4>5
      <3> QED  BY <1>2, <2>1, <2>2, <2>3, <3>1, <3>2 DEF LoginKept
    <2> QED  BY <1>2, <2>1, <2>2, <2>3, LoginStep
  <1>6. <<>> \in Seq(GuiMessage) /\ \A i \in DOMAIN <<>> : <<>>[i].kind # "login_done"
    BY EmptySeq
  <1>7. ASSUME NEW job \in {"version", "ignore"}, ServiceFetch(job)
        PROVE  LoginInv' /\ LoopInv'
    <2>1. PICK start \in Starts \cup {"no_url"} :
             IF start = "throws"
             THEN StepsOf([net EXCEPT !.ended = TRUE], <<[kind |-> "worker_exception"]>>)
             ELSE StepsOf([net EXCEPT !.fetches =
                             IF start = "opened" THEN @ \cup {[job |-> job]} ELSE @], <<>>)
      BY <1>7 DEF ServiceFetch
    <2>2. CASE start = "throws"
      <3> DEFINE e == [kind |-> "worker_exception"]
                 net2 == [net EXCEPT !.ended = TRUE]
      <3>1. e \in GuiMessage /\ e.kind # "login_done"
        BY DEF GuiMessage, GuiKind
      <3>2. StepsOf(net2, <<e>>)
        BY <2>1, <2>2
      <3>3. net2.ended /\ net2.fetches = net.fetches
        BY <1>4 DEF Thread
      <3> HIDE DEF e, net2
      <3>4. <<e>> \in Seq(GuiMessage) /\ \A i \in DOMAIN <<e>> : <<e>>[i].kind # "login_done"
        BY <3>1
      <3> QED  BY <1>5, <3>2, <3>3, <3>4
    <2>3. CASE start # "throws"
      <3> DEFINE net2 == [net EXCEPT !.fetches =
                            IF start = "opened" THEN @ \cup {[job |-> job]} ELSE @]
      <3>1. net2.ended = net.ended /\ \A f \in net2.fetches : f \in net.fetches \/ f.job # "login"
        BY <1>4 DEF Thread
      <3>2. StepsOf(net2, <<>>)
        BY <2>1, <2>3
      <3> HIDE DEF net2
      <3> QED  BY <1>5, <1>6, <3>1, <3>2
    <2> QED  BY <2>2, <2>3
  <1>8. CASE q.kind \in Ask /\ LoginOperation(q.kind, q.cred)
    <2> DEFINE f == [job |-> q.kind, cred |-> q.cred, nr |-> net.asks[q.kind] + 1]
    <2>1. PICK start \in Starts \ {"throws"} :
             StepsOf([net EXCEPT !.asks[q.kind] = @ + 1,
                                 !.fetches = IF start = "opened" THEN @ \cup {f} ELSE @],
                     AskBegins(q.kind, q.cred, start))
      BY <1>8 DEF LoginOperation
    <2> DEFINE net2 == [net EXCEPT !.asks[q.kind] = @ + 1,
                                   !.fetches = IF start = "opened" THEN @ \cup {f} ELSE @]
               gui == AskBegins(q.kind, q.cred, start)
    <2>2. q.cred \in Cred
      BY <1>1, <1>2, <1>8, TypeMeans, FirstTaken, NetMessageFields
    <2>3. Answers(q.kind, q.cred, AtOnce(start), NoAnswer, gui)
      BY <1>8, <2>2, AskBeginsSays
    <2>4. net2.ended = net.ended /\ \A g \in net2.fetches : g \in net.fetches \/ g = f
      BY <1>4 DEF Thread
    <2>5. f.job = q.kind /\ f.cred = q.cred
      OBVIOUS
    <2>6. StepsOf(net2, gui)
      BY <2>1
    <2> HIDE DEF net2, gui, f
    <2>7. gui \in Seq(GuiMessage) /\ \A i \in DOMAIN gui : gui[i].kind # "login_done"
      BY <2>3 DEF Answers, NoAnswer
    <2> QED  BY <1>5, <2>4, <2>5, <2>6, <2>7
  <1>9. CASE q.kind = "connect" /\ StepsOf([net EXCEPT !.connected = TRUE], <<>>)
    <2> DEFINE net2 == [net EXCEPT !.connected = TRUE]
    <2>1. net2.ended = net.ended /\ net2.fetches = net.fetches /\ StepsOf(net2, <<>>)
      BY <1>4, <1>9 DEF Thread
    <2> HIDE DEF net2
    <2> QED  BY <1>5, <1>6, <2>1
  <1>10. CASE q.kind = "block_users" /\ StepsOf([net EXCEPT !.block = WithBlocked(@, q.ips)], <<>>)
    <2> DEFINE net2 == [net EXCEPT !.block = WithBlocked(@, q.ips)]
    <2>1. net2.ended = net.ended /\ net2.fetches = net.fetches /\ StepsOf(net2, <<>>)
      BY <1>4, <1>10 DEF Thread
    <2> HIDE DEF net2
    <2> QED  BY <1>5, <1>6, <2>1
  <1> QED  BY <1>2, <1>7, <1>8, <1>9, <1>10

LEMMA EndsLogin ==
    ASSUME TypeOK, LoopInv, LoginInv, ServiceFetchEnds \/ AskFetchEnds \/ ExternalIpFound
    PROVE  LoginInv' /\ LoopInv'
  <1>1. toNet' = toNet /\ net \in Thread /\ past \in Past /\ ~net.ended
    BY DEF ServiceFetchEnds, AskFetchEnds, ExternalIpFound, Running, TypeOK
  <1>2. \A f : Ended(f).ended = net.ended /\ Ended(f).fetches \subseteq net.fetches
    BY <1>1 DEF Ended, Thread
  <1>3. ASSUME NEW net2, NEW gui \in Seq(GuiMessage), StepsOf(net2, gui),
               net2.ended = net.ended, net2.fetches \subseteq net.fetches,
               past'.crossed = past.crossed, past.accepted \subseteq past'.accepted,
               ~past.crossed /\ phase = "login" /\ LoginKept =>
                  \A i \in DOMAIN gui : gui[i].kind = "login_done"
                      => gui[i].user = login.user /\ Current \in past'.accepted
        PROVE  LoginInv' /\ LoopInv'
    <2>1. net' = net2 /\ UNCHANGED <<login, self, phase>>
      BY <1>3 DEF StepsOf
    <2>2. LoopInv' /\ \A m : Unheard(m)' <=> Unheard(m) \/ Has(gui, m)
      BY <1>3, UnheardThread
    <2>3. ASSUME ~past.crossed, phase = "login", LoginKept
          PROVE  LoginKept'
      <3>1. Current' = Current
        BY <2>1 DEF Current
      <3>2. ASSUME NEW m, Unheard(m)', m.kind = "login_done"
            PROVE  m.user = login.user /\ Current \in past'.accepted
        <4>1. CASE Unheard(m)
          BY <1>3, <2>3, <3>2, <4>1 DEF LoginKept
        <4>2. CASE Has(gui, m)
          BY <1>3, <2>3, <3>2, <4>2 DEF Has
        <4> QED  BY <2>2, <3>2, <4>1, <4>2
      <3> QED  BY <1>1, <1>3, <2>1, <2>3, <3>1, <3>2 DEF LoginKept
    <2> QED  BY <1>3, <2>1, <2>2, <2>3, LoginStep
  <1>4. ASSUME NEW e \in GuiMessage, e.kind # "login_done"
        PROVE  <<e>> \in Seq(GuiMessage) /\ \A i \in DOMAIN <<e>> : <<e>>[i].kind # "login_done"
    BY <1>4
  <1>5. CASE ServiceFetchEnds
    <2>1. PICK f \in net.fetches, cbs \in Outcomes :
             \E msgs \in IF f.job = "version" THEN VersionAnswers(cbs) ELSE IgnoreAnswers(cbs) :
                StepsOf(Ended(f), msgs)
      BY <1>5 DEF ServiceFetchEnds
    <2>2. PICK msgs \in VersionAnswers(cbs) \cup IgnoreAnswers(cbs) : StepsOf(Ended(f), msgs)
      BY <2>1
    <2>3. \/ msgs = <<>>
          \/ \E k \in {"version", "version_force"} : msgs = <<[kind |-> k]>>
          \/ \E ips \in Lists : msgs = <<[kind |-> "global_ignore_list", ips |-> ips]>>
      BY DEF VersionAnswers, IgnoreAnswers
    <2>4. msgs \in Seq(GuiMessage) /\ \A i \in DOMAIN msgs : msgs[i].kind # "login_done"
      <3>1. CASE msgs = <<>>
        BY <3>1, EmptySeq
      <3>2. ASSUME NEW k \in {"version", "version_force"}, msgs = <<[kind |-> k]>>
            PROVE  msgs \in Seq(GuiMessage) /\ \A i \in DOMAIN msgs : msgs[i].kind # "login_done"
        <4>1. [kind |-> k] \in GuiMessage /\ [kind |-> k].kind # "login_done"
          BY <3>2 DEF GuiMessage, GuiKind
        <4> QED  BY <1>4, <3>2, <4>1
      <3>3. ASSUME NEW ips \in Lists, msgs = <<[kind |-> "global_ignore_list", ips |-> ips]>>
            PROVE  msgs \in Seq(GuiMessage) /\ \A i \in DOMAIN msgs : msgs[i].kind # "login_done"
        <4> DEFINE e == [kind |-> "global_ignore_list", ips |-> ips]
        <4>1. e \in GuiMessage /\ e.kind # "login_done"
          BY <3>3 DEF GuiMessage
        <4> QED  BY <1>4, <3>3, <4>1
      <3> QED  BY <2>3, <3>1, <3>2, <3>3
    <2>5. past' = past
      BY <1>5 DEF ServiceFetchEnds
    <2> QED  BY <1>2, <1>3, <2>2, <2>4, <2>5
  <1>6. CASE AskFetchEnds
    <2>1. PICK f \in net.fetches, cbs \in Outcomes, said \in {"Y", "N", "garbled"}, u \in User :
             /\ f.job \in Ask
             /\ StepsOf(Ended(f), AskTold(f.job, f.cred, cbs, [said |-> said, user |-> u]))
             /\ past' = IF f.job = "login" /\ Has(cbs, "response")
                           /\ said = "Y" /\ u = f.cred.user
                        THEN [past EXCEPT !.accepted = @ \cup {f.cred}] ELSE past
      BY <1>6 DEF AskFetchEnds
    <2> DEFINE a   == [said |-> said, user |-> u]
               gui == AskTold(f.job, f.cred, cbs, a)
    <2>2. f.cred \in Cred
      BY <2>1, TypeMeans, FetchFields
    <2>3. Answers(f.job, f.cred, cbs, a, gui)
      BY <2>1, <2>2, OutcomesType, AskToldSays
    <2>4. a.said = said /\ a.user = u
      OBVIOUS
    <2>5. past'.crossed = past.crossed /\ past.accepted \subseteq past'.accepted
      BY <1>1, <2>1 DEF Past
    <2>6. StepsOf(Ended(f), gui)
      BY <2>1
    <2> HIDE DEF gui, a
    <2>7. ASSUME ~past.crossed, phase = "login", LoginKept,
                 NEW i \in DOMAIN gui, gui[i].kind = "login_done"
          PROVE  gui[i].user = login.user /\ Current \in past'.accepted
      <3>1. /\ f.job = "login" /\ said = "Y" /\ u = f.cred.user
            /\ gui[i].user = f.cred.user /\ Has(cbs, "response")
        BY <2>3, <2>4, <2>7 DEF Answers
      <3>2. f.cred = Current
        BY <1>1, <2>7, <3>1 DEF LoginKept
      <3>3. past' = [past EXCEPT !.accepted = @ \cup {f.cred}]
        BY <2>1, <3>1
      <3>4. f.cred \in past'.accepted
        BY <1>1, <3>3 DEF Past
      <3>5. Current.user = login.user
        BY DEF Current
      <3> QED  BY <3>1, <3>2, <3>4, <3>5
    <2>8. gui \in Seq(GuiMessage)
      BY <2>3 DEF Answers
    <2> QED  BY <1>2, <1>3, <2>5, <2>6, <2>7, <2>8
  <1>7. CASE ExternalIpFound
    <2>1. PICK x \in Addr : StepsOf([net EXCEPT !.ip = TRUE],
                                    <<[kind |-> "external_ip_fetch_done", ip |-> x]>>)
      BY <1>7 DEF ExternalIpFound
    <2> DEFINE e == [kind |-> "external_ip_fetch_done", ip |-> x]
               net2 == [net EXCEPT !.ip = TRUE]
    <2>2. e \in GuiMessage /\ e.kind # "login_done"
      BY DEF GuiMessage
    <2>3. /\ net2.ended = net.ended /\ net2.fetches = net.fetches
          /\ past' = past /\ StepsOf(net2, <<e>>)
      BY <1>1, <1>7, <2>1 DEF ExternalIpFound, Thread
    <2> HIDE DEF e, net2
    <2>4. <<e>> \in Seq(GuiMessage) /\ \A i \in DOMAIN <<e>> : <<e>>[i].kind # "login_done"
      BY <1>4, <2>2
    <2> QED  BY <1>3, <2>3, <2>4
  <1> QED  BY <1>5, <1>6, <1>7

\* Whatever is appended, what was sent stays.
LEMMA SentLogins ==
    ASSUME TypeOK, NEW b, b.kind # "login", toNet' = toNet \/ toNet' = Append(toNet, b)
    PROVE  \A i \in DOMAIN toNet' : toNet'[i].kind = "login"
                                       => \E j \in DOMAIN toNet : toNet[j] = toNet'[i]
  <1>1. CASE toNet' = toNet
    BY <1>1
  <1>2. CASE toNet' = Append(toNet, b)
    <2>1. \A m : Has(Append(toNet, b), m) <=> Has(toNet, m) \/ m = b
      BY TypeMeans, HasAppend
    <2>2. ASSUME NEW i \in DOMAIN toNet', toNet'[i].kind = "login"
          PROVE  Has(toNet, toNet'[i])
      BY <1>2, <2>1, <2>2 DEF Has
    <2> QED  BY <2>2 DEF Has
  <1> QED  BY <1>1, <1>2

LEMMA HandleMessageLogin ==
    ASSUME TypeOK, StackInv, LoopInv, LoginInv, HandleMessage
    PROVE  LoginInv' /\ LoopInv'
  <1>1. PICK q : q = Head(batch)
    OBVIOUS
  <1>2. /\ batch # <<>> /\ UNCHANGED <<net, toGui, reg, phase>>
        /\ \/ LoginToldDone(q) \/ AskToldBox(q) \/ VersionFound(q)
           \/ IgnoreListFound(q) \/ ExternalIpTold(q) \/ WorkerEnded(q)
    BY <1>1 DEF HandleMessage
  <1>3. /\ past \in Past
        /\ login \in LoginWindow
        /\ self \in [user : User \cup {Nobody}, pass : {c.pass : c \in Cred} \cup {Nobody},
                     validated : BOOLEAN, ip : Addr \cup {Nobody}, playing : BOOLEAN]
    BY DEF TypeOK
  <1>4. Unheard(q)
    BY <1>1, <1>2, TypeMeans, HasTail DEF Unheard
  <1>5. ASSUME Handled \/ \E box \in Box : \E ips : Shows(box, ips)
        PROVE  LoopInv' /\ \A m : Unheard(m)' => Unheard(m)
    BY <1>2, <1>5, UnheardHandled
  <1>6. ASSUME \/ Handled
               \/ \E box \in Box : \E ips : Shows(box, ips),
               login' = login, self'.user = self.user, self'.pass = self.pass,
               self'.validated = self.validated,
               past'.crossed = past.crossed, past'.accepted = past.accepted,
               NEW b, b.kind # "login", toNet' = toNet \/ toNet' = Append(toNet, b)
        PROVE  LoginInv' /\ LoopInv'
    <2>1. LoopInv' /\ \A m : Unheard(m)' => Unheard(m)
      BY <1>5, <1>6
    <2>2. LoginKept => LoginKept'
      BY <1>2, <1>6, <2>1, SentLogins, LoginKeptSame
    <2> QED  BY <1>2, <1>6, <2>1, <2>2, LoginStep
  <1>7. CASE LoginToldDone(q)
    <2>1. /\ Handled /\ q.kind = "login_done" /\ UNCHANGED <<toNet, self, past>>
          /\ login' = IF phase # "login" THEN login
                      ELSE [login EXCEPT !.on = TRUE, !.open = FALSE,
                                         !.user = q.user, !.validated = TRUE]
      BY <1>7 DEF LoginToldDone
    <2>2. LoopInv' /\ \A m : Unheard(m)' => Unheard(m)
      BY <1>5, <2>1
    <2>3. ASSUME phase = "login", LoginKept
          PROVE  LoginKept'
      <3>1. q.user = login.user /\ Current \in past.accepted
        BY <1>4, <2>1, <2>3 DEF LoginKept
      <3>2. login'.user = login.user /\ login'.pass = login.pass
        BY <1>3, <2>1, <2>3, <3>1 DEF LoginWindow
      <3>3. Current' = Current
        BY <3>2 DEF Current
      <3> QED  BY <1>2, <2>1, <2>2, <2>3, <3>1, <3>2, <3>3 DEF LoginKept
    <2> QED  BY <1>2, <2>1, <2>2, <2>3, LoginStep
  <1> DEFINE none == [kind |-> "block_users"]
  <1>8. none.kind # "login"
    OBVIOUS
  <1> HIDE DEF none
  <1>9. CASE AskToldBox(q)
    <2>1. UNCHANGED <<toNet, login, self, past>>
      BY <1>9 DEF AskToldBox
    <2>2. Handled \/ \E box \in Box : \E ips : Shows(box, ips)
      BY <1>9 DEF AskToldBox, Box
    <2> QED  BY <1>6, <1>8, <2>1, <2>2
  <1>10. CASE VersionFound(q)
    BY <1>6, <1>8, <1>10 DEF VersionFound
  <1>11. CASE IgnoreListFound(q)
    <2> DEFINE ips == q.ips \ {Bad}
               b   == [kind |-> "block_users", ips |-> ips]
    <2>1. /\ UNCHANGED <<login, self>>
          /\ toNet' = toNet \/ toNet' = Append(toNet, b)
          /\ past' = past \/ past' = [past EXCEPT !.told = @ \cup {self.ip}]
          /\ Handled \/ \E box \in Box : \E x : Shows(box, x)
      BY <1>11 DEF IgnoreListFound, Box
    <2>2. b.kind # "login"
      OBVIOUS
    <2>3. past'.crossed = past.crossed /\ past'.accepted = past.accepted
      BY <1>3, <2>1 DEF Past
    <2> HIDE DEF b, ips
    <2> QED  BY <1>6, <2>1, <2>2, <2>3
  <1>12. CASE ExternalIpTold(q)
    <2>1. /\ UNCHANGED <<toNet, login>> /\ self' = [self EXCEPT !.ip = q.ip]
          /\ past' = past \/ past' = [past EXCEPT !.told = @ \cup {q.ip}]
          /\ Handled \/ \E box \in Box : \E x : Shows(box, x)
      BY <1>12 DEF ExternalIpTold, Box
    <2>2. /\ past'.crossed = past.crossed /\ past'.accepted = past.accepted
          /\ self'.user = self.user /\ self'.pass = self.pass /\ self'.validated = self.validated
      BY <1>3, <2>1 DEF Past
    <2> QED  BY <1>6, <1>8, <2>1, <2>2
  <1>13. CASE WorkerEnded(q)
    <2>1. UNCHANGED <<toNet, login, self, past>> /\ \E box \in Box : \E x : Shows(box, x)
      BY <1>13 DEF WorkerEnded, Box
    <2> QED  BY <1>6, <1>8, <2>1
  <1> QED  BY <1>2, <1>7, <1>9, <1>10, <1>11, <1>12, <1>13

\* A step of the GUI thread that leaves the pair and what was said of it.
LEMMA PairLeft ==
    ASSUME TypeOK, LoginInv, LoopInv', \A m : Unheard(m)' => Unheard(m),
           UNCHANGED <<net, past>>,
           self'.user = self.user, self'.pass = self.pass, self'.validated = self.validated,
           login'.user = login.user, login'.pass = login.pass,
           login'.validated = login.validated,
           phase' = "login" => phase = "login",
           NEW b, b.kind # "login", toNet' = toNet \/ toNet' = Append(toNet, b)
    PROVE  LoginInv'
  <1>1. LoginKept => LoginKept'
    BY SentLogins, LoginKeptSame
  <1> QED  BY <1>1, LoginStep

\* A message that is no login, for the steps that send none.
LEMMA NoLoginSent == [kind |-> "connect"].kind # "login"
  OBVIOUS

LEMMA LoopsLogin ==
    ASSUME TypeOK, StackInv, LoopInv, LoginInv, Collect \/ RegisterOpened \/ RegisterEnds
    PROVE  LoginInv' /\ LoopInv'
  <1>1. UNCHANGED <<toNet, net, login, self, phase, past>>
    BY DEF Collect, RegisterOpened, RegisterEnds
  <1>2. LoopInv' /\ \A m : Unheard(m)' => Unheard(m)
    BY UnheardCollect, UnheardLoops
  <1> QED  BY <1>1, <1>2, NoLoginSent, PairLeft

LEMMA CloseBoxLogin ==
    ASSUME TypeOK, StackInv, LoopInv, LoginInv, CloseBox
    PROVE  LoginInv' /\ LoopInv'
  <1>1. PICK top : top = Last(stack)
    OBVIOUS
  <1>2. /\ phase # "quit" /\ (phase' = phase \/ phase' = "quit")
        /\ \E yes \in BOOLEAN :
              login' = IF top.kind \notin {"login_err", "login_fail"} THEN login
                       ELSE [login EXCEPT !.on = TRUE,
                                          !.open = @ /\ ~(yes /\ top.kind = "login_err")]
        /\ toNet' = toNet \o SentAfter(top)
        /\ UNCHANGED <<net, self, past>>
    BY <1>1 DEF CloseBox
  <1>3. /\ login'.user = login.user /\ login'.pass = login.pass
        /\ login'.validated = login.validated
    BY <1>2 DEF TypeOK, LoginWindow
  <1>4. LoopInv' /\ \A m : Unheard(m)' => Unheard(m)
    BY UnheardClosed
  <1> DEFINE b == [kind |-> "block_users", ips |-> top.ips]
  <1>5. b.kind # "login"
    OBVIOUS
  <1>6. toNet' = toNet \/ toNet' = Append(toNet, b)
    <2>1. toNet' = toNet \o <<b>> \/ toNet' = toNet \o <<>>
      BY <1>2 DEF SentAfter
    <2> HIDE DEF b
    <2>2. toNet \in Seq(Range(toNet))
      BY TypeMeans DEF IsSeq
    <2>3. toNet \o <<>> = toNet /\ toNet \o <<b>> = Append(toNet, b)
      BY <2>2, ConcatEmptySeq, AppendIsConcat
    <2> QED  BY <2>1, <2>3
  <1> HIDE DEF b
  <1> QED  BY <1>2, <1>3, <1>4, <1>5, <1>6, PairLeft

LEMMA LoginClickedLogin ==
    ASSUME TypeOK, LoopInv, LoginInv, NEW c \in Cred, LoginClicked(c)
    PROVE  LoginInv' /\ LoopInv'
  <1> DEFINE b == [kind |-> "login", cred |-> c]
  <1>1. /\ toNet' = Append(toNet, b)
        /\ login' = [login EXCEPT !.user = c.user, !.pass = c.pass,
                                  !.validated = FALSE, !.on = FALSE]
        /\ past' = [past EXCEPT !.crossed = @ \/ Pending("login") \/ Unread("login_done")]
        /\ UNCHANGED <<net, toGui, batch, stack, self, phase>>
    BY DEF LoginClicked
  <1>2. b.cred = c
    OBVIOUS
  <1> HIDE DEF b
  <1>3. past \in Past /\ login \in LoginWindow
    BY DEF TypeOK
  <1>4. /\ login'.user = c.user /\ login'.pass = c.pass /\ ~login'.validated
        /\ past'.accepted = past.accepted
        /\ past'.crossed = (past.crossed \/ Pending("login") \/ Unread("login_done"))
    BY <1>1, <1>3 DEF LoginWindow, Past
  <1>5. LoopInv' /\ \A m : Unheard(m)' <=> Unheard(m)
    BY <1>1 DEF LoopInv, Unheard, Kept
  <1>6. Current' = c
    <2>1. c = [user |-> c.user, pass |-> c.pass]
      BY StartupAssumption
    <2> QED  BY <1>4, <2>1 DEF Current
  <1>7. ASSUME ~past'.crossed, phase = "login"
        PROVE  LoginKept'
    <2>1. ~past.crossed /\ ~Pending("login") /\ ~Unread("login_done")
      BY <1>4, <1>7
    <2>2. LoginKept
      BY <1>7, <2>1 DEF LoginInv
    <2>3. \A m : ~(Unheard(m)' /\ m.kind = "login_done")
      BY <1>5, <2>1, UnreadUnheard
    <2>4. ASSUME ~net.ended
          PROVE  /\ \A i \in DOMAIN toNet : toNet[i].kind # "login"
                 /\ \A f \in net.fetches : f.job # "login"
      BY <2>1, <2>4 DEF Pending, Says
    <2>5. \A m : Has(toNet', m) <=> Has(toNet, m) \/ m = b
      BY <1>1, TypeMeans, HasAppend
    <2>6. ASSUME ~net.ended, NEW i \in DOMAIN toNet', toNet'[i].kind = "login"
          PROVE  toNet'[i].cred = c
      <3>1. Has(toNet', toNet'[i])
        BY DEF Has
      <3>2. ~Has(toNet, toNet'[i])
        BY <2>4, <2>6 DEF Has
      <3> QED  BY <1>2, <2>5, <3>1, <3>2
    <2> QED  BY <1>1, <1>4, <1>6, <2>2, <2>3, <2>4, <2>6 DEF LoginKept
  <1>8. past'.crossed \/ ~past.crossed
    BY <1>4
  <1> QED  BY <1>1, <1>4, <1>5, <1>7, <1>8 DEF LoginInv

LEMMA RegisterClickedLogin ==
    ASSUME TypeOK, LoopInv, LoginInv, NEW c \in Cred, RegisterClicked(c)
    PROVE  LoginInv' /\ LoopInv'
  <1> DEFINE b == [kind |-> "reg", cred |-> c]
  <1>1. /\ toNet' = Append(toNet, b)
        /\ UNCHANGED <<net, toGui, batch, stack, login, self, phase, past>>
    BY DEF RegisterClicked
  <1>2. b.kind # "login"
    OBVIOUS
  <1> HIDE DEF b
  <1>3. LoopInv' /\ \A m : Unheard(m)' => Unheard(m)
    BY <1>1 DEF LoopInv, Unheard, Kept
  <1> QED  BY <1>1, <1>2, <1>3, PairLeft

\* Here the pair that the login window kept is taken over.
LEMMA StartGoesOnLogin ==
    ASSUME TypeOK, StackInv, LoopInv, LoginInv, StartGoesOn
    PROVE  LoginInv' /\ LoopInv'
  <1>1. /\ Last(stack).kind = "login" /\ phase # "quit"
        /\ self' = [self EXCEPT !.user = login.user, !.pass = login.pass,
                                !.validated = login.validated]
        /\ phase' = "running" /\ past' = past
    BY DEF StartGoesOn, Idle
  <1>2. phase = "login"
    <2>1. stack[1].kind = "login"
      BY <1>1, OnlyLogin
    <2>2. Head(stack) = stack[1]
      BY TypeMeans, FirstTaken
    <2> QED  BY <1>1, <2>1, <2>2 DEF TypeOK
  <1>3. /\ self'.user = login.user /\ self'.pass = login.pass
        /\ self'.validated = login.validated
    BY <1>1 DEF TypeOK
  <1>4. LoopInv'
    BY UnheardLoops
  <1> QED  BY <1>1, <1>2, <1>3, <1>4 DEF LoginInv, LoginKept, Current

LEMMA NextLogin ==
    ASSUME TypeOK, StackInv, LoopInv, LoginInv, [Next]_vars
    PROVE  LoginInv' /\ LoopInv'
  <1>1. CASE WorkerHandles
    BY <1>1, WorkerLogin
  <1>2. CASE ServiceFetchEnds \/ AskFetchEnds \/ ExternalIpFound
    BY <1>2, EndsLogin
  <1>3. CASE Collect \/ RegisterOpened \/ RegisterEnds
    BY <1>3, LoopsLogin
  <1>4. CASE HandleMessage
    BY <1>4, HandleMessageLogin
  <1>5. CASE CloseBox
    BY <1>5, CloseBoxLogin
  <1>6. CASE StartGoesOn
    BY <1>6, StartGoesOnLogin
  <1>7. CASE \E c \in Cred : LoginClicked(c) \/ RegisterClicked(c)
    BY <1>7, LoginClickedLogin, RegisterClickedLogin
  <1>8. CASE Quits \/ CloseVersion \/ ChangeStatus \/ UNCHANGED vars
    <2>1. /\ UNCHANGED <<toNet, net, toGui, batch, stack, login, past>>
          /\ self' = self \/ self' = [self EXCEPT !.playing = ~@]
          /\ phase' = phase \/ phase' = "quit"
      BY <1>8 DEF Quits, CloseVersion, ChangeStatus, vars
    <2>2. /\ self'.user = self.user /\ self'.pass = self.pass
          /\ self'.validated = self.validated
      BY <2>1 DEF TypeOK
    <2>3. LoopInv' /\ \A m : Unheard(m)' => Unheard(m)
      BY <2>1 DEF LoopInv, Unheard, Kept
    <2> QED  BY <2>1, <2>2, <2>3, NoLoginSent, PairLeft
  <1> QED
    BY <1>1, <1>2, <1>3, <1>4, <1>5, <1>6, <1>7, <1>8 DEF Next

LEMMA InitLogin == ASSUME Init PROVE LoginInv /\ LoopInv
  <1>1. LoopInv
    BY DEF Init, Runs, LoopInv
  <1>2. /\ toGui = <<>> /\ batch = <<>> /\ stack = <<Runs("login")>>
        /\ ~self.validated /\ ~login.validated /\ net.fetches = {}
    BY DEF Init, NoLogin
  <1>3. \A m : ~Unheard(m)
    BY <1>2, HasNone DEF Unheard, Kept, Runs
  <1>4. \A i \in DOMAIN toNet : toNet[i].kind # "login"
    <2>1. CASE toNet = <<[kind |-> "version_fetch"]>>
      BY <2>1
    <2>2. CASE toNet = <<[kind |-> "version_fetch"], [kind |-> "ignore_fetch"]>>
      BY <2>2
    <2> QED  BY <2>1, <2>2 DEF Init
  <1> QED  BY <1>1, <1>2, <1>3, <1>4 DEF LoginInv, LoginKept

\* ValidatedPair: the program goes on with the name and the password that the
\* site accepted together, unless logins crossed.
THEOREM KeepsAcceptedPair == Spec => []ValidatedPair
  <1>1. Init => LoginInv /\ LoopInv
    BY InitLogin
  <1>2. TypeOK /\ IgnoreInv /\ LoginInv /\ LoopInv /\ [Next]_vars => LoginInv' /\ LoopInv'
    BY NextLogin DEF IgnoreInv
  <1>3. LoginInv => ValidatedPair
    BY DEF LoginInv, ValidatedPair
  <1>4. TypeOK /\ IgnoreInv /\ [Next]_vars => IgnoreInv'
    BY NextIgnoreInv
  <1>5. Spec => []TypeOK
    BY TypeCorrect
  <1> QED  BY <1>1, <1>2, <1>3, <1>4, <1>5, InitIgnoreInv, PTL DEF Spec

-----------------------------------------------------------------------------
(* Who waits is answered *)

Boxed(kinds) == \E i \in DOMAIN stack : stack[i].kind \in kinds

ToSee(kinds) == (\E m : Unheard(m) /\ m.kind \in kinds) \/ Boxed(kinds)

AnsweredInv ==
    /\ \A ask \in Ask :
          Waiting(ask) /\ ~net.ended => Pending(ask) \/ ToSee(AnswersTo(ask))
    /\ net.ended /\ phase # "quit" => ToSee({"worker_exception"})

LEMMA AnsweredMeans == AnsweredInv => AskAnswered
  <1>1. \A kinds : ToSee(kinds) <=> (\E k \in kinds : Unread(k)) \/ Boxed(kinds)
    BY UnreadUnheard DEF ToSee
  <1>2. Unread("worker_exception") \/ Boxed({"worker_exception"})
           <=> ToSee({"worker_exception"})
    BY <1>1
  <1> QED  BY <1>1, <1>2 DEF AnsweredInv, AskAnswered, Boxed

\* No loop but that of a box shows an answer.
LEMMA AnswerKinds ==
    /\ \A ask \in Ask : AnswersTo(ask) \cap {"login", "register", "app", "worker_exception"} = {}
    /\ AnswersTo("login") \cap AnswersTo("reg") = {}
    /\ AnswersTo("login") = {"login_err", "login_fail", "login_done"}
    /\ AnswersTo("reg") = {"reg_err", "reg_fail", "reg_done"}
    /\ Ask = {"login", "reg"}
  BY DEF AnswersTo, Ask

LEMMA PushedBoxed ==
    ASSUME StackInv, NEW l, stack' = Append(stack, l)
    PROVE  \A kinds : Boxed(kinds)' <=> Boxed(kinds) \/ l.kind \in kinds
  <1>0. /\ Len(stack) \in Nat /\ DOMAIN stack = 1..Len(stack)
        /\ DOMAIN stack' = 1..(Len(stack) + 1)
        /\ \A i \in 1..Len(stack) : stack'[i] = stack[i]
        /\ stack'[Len(stack) + 1] = l
    BY AppendIsSeq DEF StackInv
  <1>1. PICK n \in Nat : /\ n = Len(stack) /\ DOMAIN stack = 1..n
                         /\ DOMAIN stack' = 1..(n + 1)
                         /\ \A i \in 1..n : stack'[i] = stack[i]
                         /\ stack'[n + 1] = l
    BY <1>0
  <1>2. \A i \in 1..(n + 1) : i \in 1..n \/ i = n + 1
    OBVIOUS
  <1>3. 1..n \subseteq 1..(n + 1) /\ n + 1 \in 1..(n + 1)
    OBVIOUS
  <1> QED  BY <1>1, <1>2, <1>3 DEF Boxed

LEMMA PoppedBoxed ==
    ASSUME StackInv, stack' = Front(stack)
    PROVE  \A kinds : Boxed(kinds) <=> Boxed(kinds)' \/ Last(stack).kind \in kinds
  <1>1. PICK n \in Nat \ {0} : /\ n = Len(stack) /\ DOMAIN stack = 1..n
                               /\ Last(stack) = stack[n]
                               /\ DOMAIN stack' = 1..(n - 1)
                               /\ \A i \in 1..(n - 1) : stack'[i] = stack[i]
    BY FrontIsSeq DEF StackInv
  <1>2. \A i \in 1..n : i \in 1..(n - 1) \/ i = n
    OBVIOUS
  <1>3. 1..(n - 1) \subseteq 1..n /\ n \in 1..n
    OBVIOUS
  <1> QED  BY <1>1, <1>2, <1>3 DEF Boxed

\* A step of the networking thread: what it drops it answers.
LEMMA ThreadAnswered ==
    ASSUME TypeOK, LoopInv, AnsweredInv, ~net.ended,
           NEW net2, NEW gui \in Seq(GuiMessage), StepsOf(net2, gui),
           net2.ended => \E i \in DOMAIN gui : gui[i].kind = "worker_exception",
           \A ask \in Ask : Pending(ask) /\ ~net2.ended
              => \/ Pending(ask)'
                 \/ \E i \in DOMAIN gui : gui[i].kind \in AnswersTo(ask)
    PROVE  AnsweredInv'
  <1>1. net' = net2 /\ UNCHANGED <<stack, login, reg, phase>>
    BY DEF StepsOf
  <1>2. \A m : Unheard(m)' <=> Unheard(m) \/ Has(gui, m)
    BY UnheardThread
  <1>3. \A kinds : /\ ToSee(kinds) => ToSee(kinds)'
                   /\ (\E i \in DOMAIN gui : gui[i].kind \in kinds) => ToSee(kinds)'
    BY <1>1, <1>2 DEF ToSee, Boxed, Has
  <1>4. \A ask \in Ask : Waiting(ask)' <=> Waiting(ask)
    BY <1>1 DEF Waiting
  <1>5. net'.ended => ToSee({"worker_exception"})'
    BY <1>1, <1>3
  <1>6. ASSUME NEW ask \in Ask, Waiting(ask)', ~net'.ended
        PROVE  Pending(ask)' \/ ToSee(AnswersTo(ask))'
    BY <1>1, <1>3, <1>4, <1>6 DEF AnsweredInv
  <1> QED  BY <1>5, <1>6 DEF AnsweredInv

\* A step of the GUI thread: what was to be seen still is, or who waited no
\* longer does.
LEMMA GuiAnswered ==
    ASSUME AnsweredInv, UNCHANGED net,
           phase' # "quit" =>
              phase # "quit" /\ (ToSee({"worker_exception"}) => ToSee({"worker_exception"})'),
           \A ask \in Ask : Pending(ask) => Pending(ask)',
           \A ask \in Ask : Waiting(ask)' /\ ~net.ended
              => \/ Pending(ask)'
                 \/ Waiting(ask) /\ (ToSee(AnswersTo(ask)) => ToSee(AnswersTo(ask))')
    PROVE  AnsweredInv'
  BY DEF AnsweredInv

\* Whatever is appended, what is asked stays.
LEMMA AskedStays ==
    ASSUME TypeOK, UNCHANGED net, NEW b, toNet' = toNet \/ toNet' = Append(toNet, b)
    PROVE  \A ask : Pending(ask) => Pending(ask)'
  <1>1. CASE toNet' = toNet
    BY <1>1 DEF Pending
  <1>2. CASE toNet' = Append(toNet, b)
    <2>1. \A m : Has(toNet, m) => Has(toNet', m)
      BY <1>2, TypeMeans, HasAppend
    <2>2. \A ask : Says(toNet, ask) => Says(toNet', ask)
      BY <2>1 DEF Says, Has
    <2> QED  BY <2>2 DEF Pending
  <1> QED  BY <1>1, <1>2

LEMMA WorkerAnswered ==
    ASSUME TypeOK, LoopInv, AnsweredInv, WorkerHandles
    PROVE  AnsweredInv'
  <1>1. PICK q : q = Head(toNet)
    OBVIOUS
  <1>2. /\ toNet # <<>> /\ ~net.ended /\ toNet' = Tail(toNet)
        /\ \/ q.kind = "version_fetch" /\ ServiceFetch("version")
           \/ q.kind = "ignore_fetch" /\ ServiceFetch("ignore")
           \/ q.kind \in Ask /\ LoginOperation(q.kind, q.cred)
           \/ q.kind = "connect" /\ StepsOf([net EXCEPT !.connected = TRUE], <<>>)
           \/ q.kind = "block_users" /\ StepsOf([net EXCEPT !.block = WithBlocked(@, q.ips)], <<>>)
    BY <1>1 DEF WorkerHandles, Running
  <1>3. \A ask : Says(toNet, ask) => Says(toNet', ask) \/ q.kind = ask
    <2>1. \A m : Has(toNet, m) => m = q \/ Has(toNet', m)
      BY <1>1, <1>2, TypeMeans, HasTail
    <2> QED  BY <2>1 DEF Says, Has
  <1>4. net \in Thread
    BY DEF TypeOK
  <1>5. ASSUME q.kind \notin Ask, NEW net2, StepsOf(net2, <<>>), ~net2.ended,
               net.fetches \subseteq net2.fetches
        PROVE  AnsweredInv'
    <2>1. net' = net2 /\ <<>> \in Seq(GuiMessage)
      BY <1>5, EmptySeq DEF StepsOf
    <2>2. \A ask \in Ask : Pending(ask) => Pending(ask)'
      BY <1>3, <1>5, <2>1 DEF Pending
    <2> QED  BY <1>2, <1>5, <2>1, <2>2, ThreadAnswered
  <1>6. ASSUME NEW job \in {"version", "ignore"}, ServiceFetch(job), q.kind \notin Ask
        PROVE  AnsweredInv'
    <2>1. PICK start \in Starts \cup {"no_url"} :
             IF start = "throws"
             THEN StepsOf([net EXCEPT !.ended = TRUE], <<[kind |-> "worker_exception"]>>)
             ELSE StepsOf([net EXCEPT !.fetches =
                             IF start = "opened" THEN @ \cup {[job |-> job]} ELSE @], <<>>)
      BY <1>6 DEF ServiceFetch
    <2>2. CASE start = "throws"
      <3> DEFINE e == [kind |-> "worker_exception"]
                 net2 == [net EXCEPT !.ended = TRUE]
      <3>1. e \in GuiMessage /\ e.kind = "worker_exception"
        BY DEF GuiMessage, GuiKind
      <3>2. StepsOf(net2, <<e>>)
        BY <2>1, <2>2
      <3>3. net2.ended
        BY <1>4 DEF Thread
      <3> HIDE DEF e, net2
      <3>4. <<e>> \in Seq(GuiMessage) /\ \E i \in DOMAIN <<e>> : <<e>>[i].kind = "worker_exception"
        <4>1. 1 \in DOMAIN <<e>> /\ <<e>>[1] = e
          OBVIOUS
        <4> QED  BY <3>1, <4>1
      <3> QED  BY <1>2, <3>2, <3>3, <3>4, ThreadAnswered
    <2>3. CASE start # "throws"
      <3> DEFINE net2 == [net EXCEPT !.fetches =
                            IF start = "opened" THEN @ \cup {[job |-> job]} ELSE @]
      <3>1. net2.ended = net.ended /\ net.fetches \subseteq net2.fetches
        BY <1>4 DEF Thread
      <3>2. StepsOf(net2, <<>>)
        BY <2>1, <2>3
      <3> HIDE DEF net2
      <3> QED  BY <1>2, <1>5, <1>6, <3>1, <3>2
    <2> QED  BY <2>2, <2>3
  <1>7. CASE q.kind \in Ask /\ LoginOperation(q.kind, q.cred)
    <2> DEFINE f == [job |-> q.kind, cred |-> q.cred, nr |-> net.asks[q.kind] + 1]
    <2>1. PICK start \in Starts \ {"throws"} :
             StepsOf([net EXCEPT !.asks[q.kind] = @ + 1,
                                 !.fetches = IF start = "opened" THEN @ \cup {f} ELSE @],
                     AskBegins(q.kind, q.cred, start))
      BY <1>7 DEF LoginOperation
    <2> DEFINE net2 == [net EXCEPT !.asks[q.kind] = @ + 1,
                                   !.fetches = IF start = "opened" THEN @ \cup {f} ELSE @]
               gui == AskBegins(q.kind, q.cred, start)
    <2>2. q.cred \in Cred
      BY <1>1, <1>2, <1>7, TypeMeans, FirstTaken, NetMessageFields
    <2>3. /\ Answers(q.kind, q.cred, AtOnce(start), NoAnswer, gui)
          /\ start # "opened" => Len(gui) >= 1
      BY <1>7, <2>2, AskBeginsSays
    <2>4. /\ net2.ended = net.ended /\ net.fetches \subseteq net2.fetches
          /\ start = "opened" => f \in net2.fetches
      BY <1>4 DEF Thread
    <2>5. f.job = q.kind
      OBVIOUS
    <2>6. StepsOf(net2, gui)
      BY <2>1
    <2> HIDE DEF net2, gui, f
    <2>7. net' = net2 /\ gui \in Seq(GuiMessage)
      BY <2>3, <2>6 DEF StepsOf, Answers
    <2>8. ASSUME NEW ask \in Ask, Pending(ask)
          PROVE  Pending(ask)' \/ \E i \in DOMAIN gui : gui[i].kind \in AnswersTo(ask)
      <3>1. CASE q.kind # ask
        BY <1>3, <2>4, <2>7, <2>8, <3>1 DEF Pending
      <3>2. CASE q.kind = ask /\ start = "opened"
        BY <1>2, <2>4, <2>5, <2>7, <3>2 DEF Pending
      <3>3. CASE q.kind = ask /\ start # "opened"
        <4>1. Len(gui) \in Nat /\ DOMAIN gui = 1..Len(gui)
          BY <2>7, LenProperties
        <4>2. 1 \in DOMAIN gui
          BY <2>3, <3>3, <4>1
        <4> QED  BY <2>3, <3>3, <4>2 DEF Answers
      <3> QED  BY <3>1, <3>2, <3>3
    <2> QED  BY <1>2, <2>4, <2>6, <2>7, <2>8, ThreadAnswered
  <1>8. CASE q.kind = "connect" /\ StepsOf([net EXCEPT !.connected = TRUE], <<>>)
    <2> DEFINE net2 == [net EXCEPT !.connected = TRUE]
    <2>1. net2.ended = net.ended /\ net2.fetches = net.fetches /\ StepsOf(net2, <<>>)
      BY <1>4, <1>8 DEF Thread
    <2> HIDE DEF net2
    <2> QED  BY <1>2, <1>5, <1>8, <2>1 DEF Ask
  <1>9. CASE q.kind = "block_users" /\ StepsOf([net EXCEPT !.block = WithBlocked(@, q.ips)], <<>>)
    <2> DEFINE net2 == [net EXCEPT !.block = WithBlocked(@, q.ips)]
    <2>1. net2.ended = net.ended /\ net2.fetches = net.fetches /\ StepsOf(net2, <<>>)
      BY <1>4, <1>9 DEF Thread
    <2> HIDE DEF net2
    <2> QED  BY <1>2, <1>5, <1>9, <2>1 DEF Ask
  <1>10. q.kind \in {"version_fetch", "ignore_fetch"} => q.kind \notin Ask
    BY DEF Ask
  <1> QED  BY <1>2, <1>6, <1>7, <1>8, <1>9, <1>10

LEMMA EndsAnswered ==
    ASSUME TypeOK, LoopInv, AnsweredInv, ServiceFetchEnds \/ AskFetchEnds \/ ExternalIpFound
    PROVE  AnsweredInv'
  <1>1. toNet' = toNet /\ net \in Thread /\ ~net.ended
    BY DEF ServiceFetchEnds, AskFetchEnds, ExternalIpFound, Running, TypeOK
  <1>2. \A f : ~Ended(f).ended /\ Ended(f).fetches = net.fetches \ {f}
    BY <1>1 DEF Ended, Thread
  <1>3. ASSUME NEW net2, NEW gui \in Seq(GuiMessage), StepsOf(net2, gui), ~net2.ended,
               \A f \in net.fetches \ net2.fetches :
                  f.job \in Ask => \E i \in DOMAIN gui : gui[i].kind \in AnswersTo(f.job)
        PROVE  AnsweredInv'
    <2>1. net' = net2
      BY <1>3 DEF StepsOf
    <2>2. ASSUME NEW ask \in Ask, Pending(ask)
          PROVE  Pending(ask)' \/ \E i \in DOMAIN gui : gui[i].kind \in AnswersTo(ask)
      BY <1>1, <1>3, <2>1, <2>2 DEF Pending
    <2> QED  BY <1>1, <1>3, <2>2, ThreadAnswered
  <1>4. CASE ServiceFetchEnds
    <2>1. PICK f \in net.fetches, cbs \in Outcomes :
             /\ f.job \notin Ask
             /\ \E msgs \in IF f.job = "version" THEN VersionAnswers(cbs) ELSE IgnoreAnswers(cbs) :
                   StepsOf(Ended(f), msgs)
      BY <1>4 DEF ServiceFetchEnds
    <2>2. PICK msgs \in VersionAnswers(cbs) \cup IgnoreAnswers(cbs) : StepsOf(Ended(f), msgs)
      BY <2>1
    <2>3. msgs \in Seq(GuiMessage)
      <3>1. /\ \A k \in {"version", "version_force"} : [kind |-> k] \in GuiMessage
            /\ \A ips \in Lists : [kind |-> "global_ignore_list", ips |-> ips] \in GuiMessage
        BY DEF GuiMessage, GuiKind
      <3>2. \A e \in GuiMessage : <<e>> \in Seq(GuiMessage)
        OBVIOUS
      <3> QED  BY <3>1, <3>2, EmptySeq DEF VersionAnswers, IgnoreAnswers
    <2> QED  BY <1>2, <1>3, <2>1, <2>2, <2>3
  <1>5. CASE AskFetchEnds
    <2>1. PICK f \in net.fetches, cbs \in Outcomes, said \in {"Y", "N", "garbled"}, u \in User :
             /\ f.job \in Ask
             /\ StepsOf(Ended(f), AskTold(f.job, f.cred, cbs, [said |-> said, user |-> u]))
      BY <1>5 DEF AskFetchEnds
    <2> DEFINE a   == [said |-> said, user |-> u]
               gui == AskTold(f.job, f.cred, cbs, a)
    <2>2. f.cred \in Cred
      BY <2>1, TypeMeans, FetchFields
    <2>3. Answers(f.job, f.cred, cbs, a, gui) /\ Len(gui) >= 1
      BY <2>1, <2>2, OutcomesType, AskToldSays
    <2>4. StepsOf(Ended(f), gui)
      BY <2>1
    <2> HIDE DEF gui, a
    <2>5. gui \in Seq(GuiMessage)
      BY <2>3 DEF Answers
    <2>6. \E i \in DOMAIN gui : gui[i].kind \in AnswersTo(f.job)
      <3>1. Len(gui) \in Nat /\ DOMAIN gui = 1..Len(gui)
        BY <2>5, LenProperties
      <3>2. 1 \in DOMAIN gui
        BY <2>3, <3>1
      <3> QED  BY <2>3, <3>2 DEF Answers
    <2> QED  BY <1>2, <1>3, <2>4, <2>5, <2>6
  <1>6. CASE ExternalIpFound
    <2>1. PICK x \in Addr : StepsOf([net EXCEPT !.ip = TRUE],
                                    <<[kind |-> "external_ip_fetch_done", ip |-> x]>>)
      BY <1>6 DEF ExternalIpFound
    <2> DEFINE e == [kind |-> "external_ip_fetch_done", ip |-> x]
               net2 == [net EXCEPT !.ip = TRUE]
    <2>2. e \in GuiMessage
      BY DEF GuiMessage
    <2>3. net2.ended = net.ended /\ net2.fetches = net.fetches /\ StepsOf(net2, <<e>>)
      BY <1>1, <2>1 DEF Thread
    <2> HIDE DEF e, net2
    <2>4. <<e>> \in Seq(GuiMessage)
      BY <2>2
    <2> QED  BY <1>1, <1>3, <2>3, <2>4
  <1> QED  BY <1>4, <1>5, <1>6

\* A message that is handled is shown in a box, or is no answer any more.
LEMMA HandledToSee ==
    ASSUME TypeOK, StackInv, LoopInv, batch # <<>>, UNCHANGED toGui, NEW kinds,
           \/ Handled /\ Head(batch).kind \notin kinds
           \/ \E box \in Box : \E ips : /\ Shows(box, ips)
                                        /\ Head(batch).kind \in kinds => box \in kinds
    PROVE  ToSee(kinds) => ToSee(kinds)'
  <1>1. \A m : Unheard(m) <=> Unheard(m)' \/ m = Head(batch)
    BY UnheardHandled
  <1>2. CASE Handled /\ Head(batch).kind \notin kinds
    <2>1. stack' = stack
      BY <1>2 DEF Handled
    <2> QED  BY <1>1, <1>2, <2>1 DEF ToSee, Boxed
  <1>3. CASE \E box \in Box : \E ips : /\ Shows(box, ips)
                                       /\ Head(batch).kind \in kinds => box \in kinds
    <2>1. PICK box \in Box :
             \E ips : Shows(box, ips) /\ (Head(batch).kind \in kinds => box \in kinds)
      BY <1>3
    <2>2. PICK ips : Shows(box, ips) /\ (Head(batch).kind \in kinds => box \in kinds)
      BY <2>1
    <2> DEFINE l == [kind |-> box, rest |-> Tail(batch), ips |-> ips]
    <2>3. stack' = Append(stack, l) /\ l.kind = box
      BY <2>2 DEF Shows
    <2> HIDE DEF l
    <2>4. Boxed(kinds)' <=> Boxed(kinds) \/ box \in kinds
      BY <2>3, PushedBoxed
    <2> QED  BY <1>1, <2>2, <2>4 DEF ToSee
  <1> QED  BY <1>2, <1>3

LEMMA HandleMessageAnswered ==
    ASSUME TypeOK, StackInv, LoopInv, AnsweredInv, HandleMessage
    PROVE  AnsweredInv'
  <1>1. PICK q : q = Head(batch)
    OBVIOUS
  <1>2. /\ batch # <<>> /\ UNCHANGED <<net, toGui, reg, phase>>
        /\ \/ LoginToldDone(q) \/ AskToldBox(q) \/ VersionFound(q)
           \/ IgnoreListFound(q) \/ ExternalIpTold(q) \/ WorkerEnded(q)
    BY <1>1 DEF HandleMessage
  <1>3. login \in LoginWindow
    BY DEF TypeOK
  <1>4. ASSUME login' = login, NEW b, toNet' = toNet \/ toNet' = Append(toNet, b),
               ToSee({"worker_exception"}) => ToSee({"worker_exception"})',
               \A ask \in Ask : Waiting(ask) =>
                  (ToSee(AnswersTo(ask)) => ToSee(AnswersTo(ask))')
        PROVE  AnsweredInv'
    <2>1. \A ask : Pending(ask) => Pending(ask)'
      BY <1>2, <1>4, AskedStays
    <2>2. \A ask \in Ask : Waiting(ask)' => Waiting(ask)
      BY <1>2, <1>4 DEF Waiting
    <2> QED  BY <1>2, <1>4, <2>1, <2>2, GuiAnswered
  <1>5. CASE LoginToldDone(q)
    <2>1. /\ Handled /\ q.kind = "login_done" /\ toNet' = toNet
          /\ login' = IF phase # "login" THEN login
                      ELSE [login EXCEPT !.on = TRUE, !.open = FALSE,
                                         !.user = q.user, !.validated = TRUE]
      BY <1>5 DEF LoginToldDone
    <2>2. /\ ToSee({"worker_exception"}) => ToSee({"worker_exception"})'
          /\ ToSee(AnswersTo("reg")) => ToSee(AnswersTo("reg"))'
      BY <1>1, <1>2, <2>1, HandledToSee, AnswerKinds
    <2>3. ~Waiting("login")'
      BY <1>2, <1>3, <2>1 DEF Waiting, LoginWindow
    <2>4. Waiting("reg")' <=> Waiting("reg")
      BY <1>2 DEF Waiting
    <2>5. \A ask \in Ask : Pending(ask) => Pending(ask)'
      BY <1>2, <2>1 DEF Pending
    <2> QED  BY <1>2, <2>2, <2>3, <2>4, <2>5, GuiAnswered, AnswerKinds
  <1>6. CASE AskToldBox(q)
    <2>1. UNCHANGED <<toNet, login>>
      BY <1>6 DEF AskToldBox
    <2>2. CASE q.kind \in {"login_err", "login_fail"}
      <3>1. IF phase = "login" THEN Shows(q.kind, {}) ELSE Handled
        BY <1>6, <2>2 DEF AskToldBox
      <3>2. q.kind \in Box /\ q.kind # "worker_exception"
        BY <2>2 DEF Box
      <3>3. ToSee({"worker_exception"}) => ToSee({"worker_exception"})'
        BY <1>1, <1>2, <3>1, <3>2, HandledToSee
      <3>4. Waiting("login") =>
               (ToSee(AnswersTo("login")) => ToSee(AnswersTo("login"))')
        <4>1. Waiting("login") => phase = "login"
          BY DEF Waiting
        <4> QED  BY <1>1, <1>2, <3>1, <3>2, <4>1, HandledToSee
      <3>5. ToSee(AnswersTo("reg")) => ToSee(AnswersTo("reg"))'
        <4>1. q.kind \notin AnswersTo("reg")
          BY <2>2, AnswerKinds
        <4> QED  BY <1>1, <1>2, <3>1, <3>2, <4>1, HandledToSee
      <3> QED  BY <1>4, <2>1, <3>3, <3>4, <3>5, AnswerKinds
    <2>3. CASE q.kind \in {"reg_err", "reg_fail", "reg_done"}
      <3>1. IF reg.open THEN Shows(q.kind, {}) ELSE Handled
        BY <1>6, <2>3 DEF AskToldBox
      <3>2. q.kind \in Box /\ q.kind # "worker_exception"
        BY <2>3 DEF Box
      <3>3. ToSee({"worker_exception"}) => ToSee({"worker_exception"})'
        BY <1>1, <1>2, <3>1, <3>2, HandledToSee
      <3>4. Waiting("reg") => (ToSee(AnswersTo("reg")) => ToSee(AnswersTo("reg"))')
        <4>1. Waiting("reg") => reg.open
          BY DEF Waiting
        <4> QED  BY <1>1, <1>2, <3>1, <3>2, <4>1, HandledToSee
      <3>5. ToSee(AnswersTo("login")) => ToSee(AnswersTo("login"))'
        <4>1. q.kind \notin AnswersTo("login")
          BY <2>3, AnswerKinds
        <4> QED  BY <1>1, <1>2, <3>1, <3>2, <4>1, HandledToSee
      <3> QED  BY <1>4, <2>1, <3>3, <3>4, <3>5, AnswerKinds
    <2> QED  BY <1>6, <2>2, <2>3 DEF AskToldBox
  <1>7. ASSUME q.kind \notin {"worker_exception"},
               \A ask \in Ask : q.kind \notin AnswersTo(ask),
               Handled \/ \E box \in Box : \E ips : Shows(box, ips)
        PROVE  /\ ToSee({"worker_exception"}) => ToSee({"worker_exception"})'
               /\ \A ask \in Ask : ToSee(AnswersTo(ask)) => ToSee(AnswersTo(ask))'
    BY <1>1, <1>2, <1>7, HandledToSee
  <1>8. CASE VersionFound(q)
    <2>1. /\ q.kind \in {"version", "version_force"} /\ Handled
          /\ UNCHANGED <<toNet, login>>
      BY <1>8 DEF VersionFound
    <2> QED  BY <1>4, <1>7, <2>1, AnswerKinds
  <1>9. CASE IgnoreListFound(q)
    <2> DEFINE ips == q.ips \ {Bad}
               b   == [kind |-> "block_users", ips |-> ips]
    <2>1. /\ q.kind = "global_ignore_list" /\ login' = login
          /\ toNet' = toNet \/ toNet' = Append(toNet, b)
          /\ Handled \/ \E box \in Box : \E x : Shows(box, x)
      BY <1>9 DEF IgnoreListFound, Box
    <2> HIDE DEF b, ips
    <2> QED  BY <1>4, <1>7, <2>1, AnswerKinds
  <1>10. CASE ExternalIpTold(q)
    <2>1. /\ q.kind = "external_ip_fetch_done" /\ UNCHANGED <<toNet, login>>
          /\ Handled \/ \E box \in Box : \E x : Shows(box, x)
      BY <1>10 DEF ExternalIpTold, Box
    <2> QED  BY <1>4, <1>7, <2>1, AnswerKinds
  <1>11. CASE WorkerEnded(q)
    <2>1. /\ q.kind = "worker_exception" /\ UNCHANGED <<toNet, login>>
          /\ Shows("worker_exception", {})
      BY <1>11 DEF WorkerEnded
    <2>2. "worker_exception" \in Box
      BY DEF Box
    <2>3. ToSee({"worker_exception"}) => ToSee({"worker_exception"})'
      BY <1>1, <1>2, <2>1, <2>2, HandledToSee
    <2>4. \A ask \in Ask : ToSee(AnswersTo(ask)) => ToSee(AnswersTo(ask))'
      BY <1>1, <1>2, <2>1, <2>2, HandledToSee, AnswerKinds
    <2> QED  BY <1>4, <2>1, <2>3, <2>4
  <1> QED  BY <1>2, <1>5, <1>6, <1>8, <1>9, <1>10, <1>11

\* The handler of a box that says an answer gives the button back.
LEMMA CloseBoxAnswered ==
    ASSUME TypeOK, StackInv, LoopInv, AnsweredInv, CloseBox
    PROVE  AnsweredInv'
  <1>1. PICK top : top = Last(stack)
    OBVIOUS
  <1>2. /\ top.kind \in Box /\ phase # "quit" /\ stack' = Front(stack)
        /\ \E yes \in BOOLEAN :
              login' = IF top.kind \notin {"login_err", "login_fail"} THEN login
                       ELSE [login EXCEPT !.on = TRUE,
                                          !.open = @ /\ ~(yes /\ top.kind = "login_err")]
        /\ reg' = CASE top.kind \in {"reg_err", "reg_fail"} -> [reg EXCEPT !.on = TRUE]
                    [] top.kind = "reg_done" -> [on |-> TRUE, open |-> FALSE]
                    [] OTHER -> reg
        /\ toNet' = toNet \o SentAfter(top)
        /\ phase' = IF top.kind = "worker_exception" THEN "quit" ELSE phase
        /\ net' = net
    BY <1>1 DEF CloseBox
  <1>3. login \in LoginWindow /\ reg \in [on : BOOLEAN, open : BOOLEAN]
    BY DEF TypeOK
  <1>4. \A kinds : ToSee(kinds) => ToSee(kinds)' \/ top.kind \in kinds
    BY <1>1, <1>2, UnheardClosed, PoppedBoxed DEF ToSee
  <1>5. phase' # "quit" => phase' = phase /\ top.kind # "worker_exception"
    BY <1>2
  <1>6. \A ask \in Ask : Pending(ask) => Pending(ask)'
    <2> DEFINE b == [kind |-> "block_users", ips |-> top.ips]
    <2>1. toNet' = toNet \o <<b>> \/ toNet' = toNet \o <<>>
      BY <1>2 DEF SentAfter
    <2> HIDE DEF b
    <2>2. toNet \in Seq(Range(toNet))
      BY TypeMeans DEF IsSeq
    <2>3. toNet \o <<>> = toNet /\ toNet \o <<b>> = Append(toNet, b)
      BY <2>2, ConcatEmptySeq, AppendIsConcat
    <2> QED  BY <1>2, <2>1, <2>3, AskedStays
  <1>7. Waiting("login")' =>
           Waiting("login") /\ (ToSee(AnswersTo("login")) => ToSee(AnswersTo("login"))')
    <2>1. CASE top.kind \in {"login_err", "login_fail"}
      <3>1. login'.on
        BY <1>2, <1>3, <2>1 DEF LoginWindow
      <3> QED  BY <3>1 DEF Waiting
    <2>2. CASE top.kind \notin {"login_err", "login_fail"}
      <3>1. login' = login
        BY <1>2, <2>2
      <3>2. Waiting("login")' => Waiting("login")
        BY <1>5, <3>1 DEF Waiting
      <3>3. top.kind \notin AnswersTo("login")
        BY <1>2, <2>2, AnswerKinds DEF Box
      <3> QED  BY <1>4, <3>2, <3>3
    <2> QED  BY <2>1, <2>2
  <1>8. Waiting("reg")' =>
           Waiting("reg") /\ (ToSee(AnswersTo("reg")) => ToSee(AnswersTo("reg"))')
    <2>1. CASE top.kind \in {"reg_err", "reg_fail"}
      <3>1. reg'.on
        BY <1>2, <1>3, <2>1
      <3> QED  BY <3>1 DEF Waiting
    <2>2. CASE top.kind = "reg_done"
      <3>1. reg'.on
        BY <1>2, <2>2
      <3> QED  BY <3>1 DEF Waiting
    <2>3. CASE top.kind \notin {"reg_err", "reg_fail", "reg_done"}
      <3>1. reg' = reg
        BY <1>2, <2>3
      <3>2. Waiting("reg")' => Waiting("reg")
        BY <1>5, <3>1 DEF Waiting
      <3>3. top.kind \notin AnswersTo("reg")
        BY <2>3, AnswerKinds
      <3> QED  BY <1>4, <3>2, <3>3
    <2> QED  BY <2>1, <2>2, <2>3
  <1>9. phase' # "quit" =>
           (ToSee({"worker_exception"}) => ToSee({"worker_exception"})')
    BY <1>4, <1>5
  <1> QED  BY <1>2, <1>6, <1>7, <1>8, <1>9, GuiAnswered, AnswerKinds

\* The loops that are no boxes', and the buttons.
LEMMA UserAnswered ==
    ASSUME TypeOK, StackInv, LoopInv, AnsweredInv,
           \/ Collect \/ RegisterOpened \/ RegisterEnds \/ StartGoesOn
           \/ Quits \/ CloseVersion \/ ChangeStatus \/ UNCHANGED vars
    PROVE  AnsweredInv'
  <1> DEFINE b == [kind |-> "connect"]
  <1>1. net' = net /\ (toNet' = toNet \/ toNet' = Append(toNet, b))
    BY DEF Collect, RegisterOpened, RegisterEnds, StartGoesOn, Quits, CloseVersion,
           ChangeStatus, vars
  <1> HIDE DEF b
  <1>2. \A ask : Pending(ask) => Pending(ask)'
    BY <1>1, AskedStays
  <1>3. phase' # "quit" => phase # "quit"
    BY DEF Collect, RegisterOpened, RegisterEnds, StartGoesOn, Idle, Quits, CloseVersion,
           ChangeStatus, vars
  <1>4. \A ask \in Ask : Waiting(ask)' => Waiting(ask)
    <2>1. CASE RegisterOpened \/ RegisterEnds
      BY <2>1 DEF RegisterOpened, RegisterEnds, Waiting
    <2>2. CASE StartGoesOn
      BY <2>2 DEF StartGoesOn, Waiting
    <2>3. CASE Collect \/ Quits \/ CloseVersion \/ ChangeStatus \/ UNCHANGED vars
      <3>1. login' = login /\ reg' = reg /\ (phase' = phase \/ phase' = "quit")
        BY <2>3 DEF Collect, Quits, CloseVersion, ChangeStatus, vars
      <3> QED  BY <3>1 DEF Waiting
    <2> QED  BY <2>1, <2>2, <2>3
  <1>5. ASSUME NEW kinds, kinds \cap {"login", "register", "app"} = {}
        PROVE  ToSee(kinds) => ToSee(kinds)'
    <2>1. \A m : Unheard(m) => Unheard(m)'
      <3>1. CASE Quits \/ CloseVersion \/ ChangeStatus \/ UNCHANGED vars
        <4>1. toGui' = toGui /\ batch' = batch /\ stack' = stack
          BY <3>1 DEF Quits, CloseVersion, ChangeStatus, vars
        <4> QED  BY <4>1 DEF Unheard, Kept
      <3> QED  BY <3>1, UnheardCollect, UnheardLoops
    <2>2. Boxed(kinds) => Boxed(kinds)'
      <3>1. CASE RegisterOpened
        <4> DEFINE l == Runs("register")
        <4>1. stack' = Append(stack, l)
          BY <3>1 DEF RegisterOpened
        <4> HIDE DEF l
        <4> QED  BY <4>1, PushedBoxed
      <3>2. CASE RegisterEnds
        <4>1. stack' = Front(stack) /\ Last(stack).kind = "register"
          BY <3>2 DEF RegisterEnds, Idle
        <4> QED  BY <1>5, <4>1, PoppedBoxed
      <3>3. CASE StartGoesOn
        <4>1. Last(stack).kind = "login"
          BY <3>3 DEF StartGoesOn, Idle
        <4> QED  BY <1>5, <4>1, OnlyLogin DEF Boxed
      <3>4. CASE Collect \/ Quits \/ CloseVersion \/ ChangeStatus \/ UNCHANGED vars
        <4>1. stack' = stack
          BY <3>4 DEF Collect, Quits, CloseVersion, ChangeStatus, vars
        <4> QED  BY <4>1 DEF Boxed
      <3> QED  BY <3>1, <3>2, <3>3, <3>4
    <2> QED  BY <2>1, <2>2 DEF ToSee
  <1>6. \A ask \in Ask : ToSee(AnswersTo(ask)) => ToSee(AnswersTo(ask))'
    BY <1>5, AnswerKinds
  <1>7. ToSee({"worker_exception"}) => ToSee({"worker_exception"})'
    BY <1>5
  <1> QED  BY <1>1, <1>2, <1>3, <1>4, <1>6, <1>7, GuiAnswered

\* A button that is pressed sends: the site is asked.
LEMMA ClickedAnswered ==
    ASSUME TypeOK, AnsweredInv, NEW c \in Cred, LoginClicked(c) \/ RegisterClicked(c)
    PROVE  AnsweredInv'
  <1>1. PICK ask \in Ask :
           /\ toNet' = Append(toNet, [kind |-> ask, cred |-> c])
           /\ ask # "login" => login' = login
           /\ ask # "reg" => reg' = reg
           /\ UNCHANGED <<net, toGui, batch, stack, phase>>
    BY DEF LoginClicked, RegisterClicked, Ask
  <1> DEFINE b == [kind |-> ask, cred |-> c]
  <1>2. toNet' = Append(toNet, b) /\ b.kind = ask
    BY <1>1
  <1> HIDE DEF b
  <1>3. \A a : Pending(a) => Pending(a)'
    BY <1>1, <1>2, AskedStays
  <1>4. ~net.ended => Pending(ask)'
    <2>1. Has(toNet', b)
      BY <1>2, TypeMeans, HasAppend
    <2> QED  BY <1>1, <1>2, <2>1 DEF Pending, Says, Has
  <1>5. \A kinds : ToSee(kinds)' <=> ToSee(kinds)
    BY <1>1 DEF ToSee, Unheard, Kept, Boxed
  <1>6. ASSUME NEW a \in Ask, a # ask
        PROVE  Waiting(a)' => Waiting(a)
    BY <1>1, <1>6 DEF Waiting, Ask
  <1> QED  BY <1>1, <1>3, <1>4, <1>5, <1>6, GuiAnswered

LEMMA NextAnswered ==
    ASSUME TypeOK, StackInv, LoopInv, AnsweredInv, [Next]_vars
    PROVE  AnsweredInv'
  <1>1. CASE WorkerHandles
    BY <1>1, WorkerAnswered
  <1>2. CASE ServiceFetchEnds \/ AskFetchEnds \/ ExternalIpFound
    BY <1>2, EndsAnswered
  <1>3. CASE HandleMessage
    BY <1>3, HandleMessageAnswered
  <1>4. CASE CloseBox
    BY <1>4, CloseBoxAnswered
  <1>5. CASE \E c \in Cred : LoginClicked(c) \/ RegisterClicked(c)
    BY <1>5, ClickedAnswered
  <1>6. CASE \/ Collect \/ RegisterOpened \/ RegisterEnds \/ StartGoesOn
             \/ Quits \/ CloseVersion \/ ChangeStatus \/ UNCHANGED vars
    BY <1>6, UserAnswered
  <1> QED  BY <1>1, <1>2, <1>3, <1>4, <1>5, <1>6 DEF Next

\* AskAnswered: while a button of the login or the register window is off the
\* site is still asked, or its answer is on its way to the user, or a box
\* shows it; and when the networking thread has ended he is told that.  The
\* windows have no timeout: nothing else gives the button back.
THEOREM AsksAreAnswered == Spec => []AskAnswered
  <1>1. Init => AnsweredInv
    BY DEF Init, AnsweredInv, Waiting, NoLogin
  <1>2. TypeOK /\ IgnoreInv /\ LoopInv /\ AnsweredInv /\ [Next]_vars => AnsweredInv'
    BY NextAnswered DEF IgnoreInv
  <1>3. TypeOK /\ IgnoreInv /\ LoginInv /\ LoopInv /\ [Next]_vars => LoginInv' /\ LoopInv'
    BY NextLogin DEF IgnoreInv
  <1>4. TypeOK /\ IgnoreInv /\ [Next]_vars => IgnoreInv'
    BY NextIgnoreInv
  <1>5. Spec => []TypeOK
    BY TypeCorrect
  <1> QED  BY <1>1, <1>2, <1>3, <1>4, <1>5, InitLogin, InitIgnoreInv, AnsweredMeans, PTL DEF Spec
=============================================================================
