--------------------------- MODULE RoomJoin_proofs ---------------------------
(* Theorems about RoomJoin, for every set of hosts and of players, with and  *)
(* without passwords, and for every bound.                                   *)
(*                                                                           *)
(* What the invariants say of a player and a host is said of the two queues  *)
(* between them and of a few values, so that the effect of a step is one     *)
(* lemma about values, used by every action that has it.                     *)
EXTENDS RoomJoin, FiniteSetTheorems, SequenceTheorems, TLAPS

-----------------------------------------------------------------------------
(* Queues: which messages are in one, and where. *)

Holds(q, S)  == \E i \in DOMAIN q : q[i] \in S
OnlyIn(q, S) == \A i \in DOMAIN q : q[i] \in S
AtMostOne(q, S) == \A i, j \in DOMAIN q : q[i] \in S /\ q[j] \in S => i = j
OnlyFirst(q, S) == \A i \in DOMAIN q : q[i] \in S => i = 1
OnlyLast(q, S)  == \A i \in DOMAIN q : q[i] \in S => i = Len(q)

\* Each message of S has one of T behind it.
Followed(q, S, T) ==
    \A i \in DOMAIN q : q[i] \in S => \E j \in DOMAIN q : j > i /\ q[j] \in T

\* The newest message of S, if there is one, is of T.
Newest(q, S, T) ==
    \A i \in DOMAIN q : q[i] \in S =>
        q[i] \in T \/ \E j \in DOMAIN q : j > i /\ q[j] \in S

LEMMA TailAt ==
    ASSUME NEW M, NEW q \in Seq(M), q # <<>>
    PROVE  /\ Tail(q) \in Seq(M) /\ Head(q) \in M /\ Head(q) = q[1]
           /\ Len(q) \in Nat \ {0} /\ DOMAIN q = 1..Len(q)
           /\ Len(Tail(q)) = Len(q) - 1 /\ DOMAIN Tail(q) = 1..(Len(q) - 1)
           /\ \A i \in 1..(Len(q) - 1) : Tail(q)[i] = q[i + 1]
           /\ \A i \in 1..Len(q) : i # 1 =>
                 i - 1 \in 1..(Len(q) - 1) /\ Tail(q)[i - 1] = q[i]
  <1>1. /\ Tail(q) \in Seq(M) /\ Head(q) \in M /\ Head(q) = q[1]
        /\ Len(q) \in Nat \ {0} /\ DOMAIN q = 1..Len(q)
        /\ Len(Tail(q)) = Len(q) - 1 /\ DOMAIN Tail(q) = 1..(Len(q) - 1)
        /\ \A i \in 1..(Len(q) - 1) : Tail(q)[i] = q[i + 1]
    BY HeadTailProperties, LenProperties
  <1>2. ASSUME NEW i \in 1..Len(q), i # 1
        PROVE  i - 1 \in 1..(Len(q) - 1) /\ Tail(q)[i - 1] = q[i]
    <2>1. i - 1 \in 1..(Len(q) - 1) /\ (i - 1) + 1 = i
      BY <1>1, <1>2
    <2> QED  BY <1>1, <2>1
  <1> QED  BY <1>1, <1>2

LEMMA AppendAt ==
    ASSUME NEW M, NEW q \in Seq(M), NEW m \in M
    PROVE  /\ Append(q, m) \in Seq(M) /\ Append(q, m) # <<>>
           /\ Len(q) \in Nat /\ DOMAIN q = 1..Len(q)
           /\ Len(Append(q, m)) = Len(q) + 1
           /\ DOMAIN Append(q, m) = 1..(Len(q) + 1)
           /\ \A i \in 1..Len(q) : Append(q, m)[i] = q[i]
           /\ Append(q, m)[Len(q) + 1] = m
  BY AppendProperties, LenProperties

\* What is known of a queue when its first message is taken.
LEMMA AfterTail ==
    ASSUME NEW M, NEW q \in Seq(M), q # <<>>, NEW S
    PROVE  /\ Holds(Tail(q), S) => Holds(q, S)
           /\ Holds(q, S) => Head(q) \in S \/ Holds(Tail(q), S)
           /\ Head(q) \in S => Holds(q, S)
           /\ OnlyIn(q, S) => OnlyIn(Tail(q), S) /\ Head(q) \in S
           /\ AtMostOne(q, S) =>
                 AtMostOne(Tail(q), S) /\ (Head(q) \in S => ~Holds(Tail(q), S))
           /\ OnlyFirst(q, S) => ~Holds(Tail(q), S)
           /\ OnlyLast(q, S) =>
                 OnlyLast(Tail(q), S) /\ (Head(q) \in S => Tail(q) = <<>>)
  <1> DEFINE t == Tail(q)
             n == Len(q)
  <1>1. /\ Head(q) = q[1] /\ n \in Nat \ {0} /\ DOMAIN q = 1..n
        /\ Len(t) = n - 1 /\ DOMAIN t = 1..(n - 1)
        /\ \A i \in 1..(n - 1) : t[i] = q[i + 1]
        /\ \A i \in 1..n : i # 1 => i - 1 \in 1..(n - 1) /\ t[i - 1] = q[i]
        /\ n = 1 => t = <<>>
        /\ Len(q) = n
    <2>1. n = 1 => t = <<>>
      BY TailAt, EmptySeq
    <2> QED  BY <2>1, TailAt
  <1> HIDE DEF t, n
  <1>0. /\ 1 \in 1..n
        /\ \A i \in 1..(n - 1) : i + 1 \in 1..n /\ i + 1 # 1 /\ t[i] = q[i + 1]
        /\ \A i \in 1..(n - 1) : i + 1 = n => i = n - 1
    BY <1>1
  <1>2. /\ Holds(t, S) => Holds(q, S)
        /\ Holds(q, S) => Head(q) \in S \/ Holds(t, S)
        /\ Head(q) \in S => Holds(q, S)
    <2>1. Holds(t, S) => Holds(q, S)
      BY <1>0, <1>1 DEF Holds
    <2>2. Holds(q, S) => q[1] \in S \/ Holds(t, S)
      BY <1>0, <1>1 DEF Holds
    <2>3. q[1] \in S => Holds(q, S)
      BY <1>0, <1>1 DEF Holds
    <2> QED  BY <1>1, <2>1, <2>2, <2>3
  <1>3. OnlyIn(q, S) => OnlyIn(t, S) /\ Head(q) \in S
    <2>1. OnlyIn(q, S) => OnlyIn(t, S)
      BY <1>0, <1>1 DEF OnlyIn
    <2>2. OnlyIn(q, S) => q[1] \in S
      BY <1>0, <1>1 DEF OnlyIn
    <2> QED  BY <1>1, <2>1, <2>2
  <1>4. ASSUME AtMostOne(q, S)
        PROVE  AtMostOne(t, S) /\ (Head(q) \in S => ~Holds(t, S))
    <2>1. ASSUME NEW i \in 1..(n - 1), NEW j \in 1..(n - 1), t[i] \in S, t[j] \in S
          PROVE  i = j
      <3>1. i + 1 \in 1..n /\ j + 1 \in 1..n /\ t[i] = q[i + 1] /\ t[j] = q[j + 1]
        BY <1>1
      <3>2. i + 1 = j + 1
        BY <1>1, <1>4, <2>1, <3>1 DEF AtMostOne
      <3> QED  BY <3>2
    <2>2. ASSUME NEW i \in 1..(n - 1), t[i] \in S, Head(q) \in S
          PROVE  FALSE
      <3>1. i + 1 \in 1..n /\ 1 \in 1..n /\ t[i] = q[i + 1] /\ i + 1 # 1
        BY <1>1
      <3> QED  BY <1>1, <1>4, <2>2, <3>1 DEF AtMostOne
    <2> QED  BY <1>1, <2>1, <2>2 DEF AtMostOne, Holds
  <1>5. OnlyFirst(q, S) => ~Holds(t, S)
    BY <1>0, <1>1 DEF OnlyFirst, Holds
  <1>6. OnlyLast(q, S) => OnlyLast(t, S) /\ (Head(q) \in S => t = <<>>)
    <2>1. OnlyLast(q, S) => OnlyLast(t, S)
      BY <1>0, <1>1 DEF OnlyLast
    <2>2. OnlyLast(q, S) /\ q[1] \in S => n = 1
      BY <1>0, <1>1 DEF OnlyLast
    <2> QED  BY <1>1, <2>1, <2>2
  <1> QED  BY <1>2, <1>3, <1>4, <1>5, <1>6 DEF t

\* The same for what stands behind a message.
LEMMA OrderAfterTail ==
    ASSUME NEW M, NEW q \in Seq(M), q # <<>>, NEW S, NEW T
    PROVE  /\ Followed(q, S, T) =>
                 Followed(Tail(q), S, T) /\ (Head(q) \in S => Holds(Tail(q), T))
           /\ Newest(q, S, T) =>
                 /\ Newest(Tail(q), S, T)
                 /\ Head(q) \in S => Head(q) \in T \/ Holds(Tail(q), S)
  <1> DEFINE t == Tail(q)
             n == Len(q)
  <1>1. /\ Head(q) = q[1] /\ n \in Nat \ {0} /\ DOMAIN q = 1..n
        /\ Len(t) = n - 1 /\ DOMAIN t = 1..(n - 1)
        /\ \A i \in 1..(n - 1) : t[i] = q[i + 1]
        /\ \A i \in 1..n : i # 1 => i - 1 \in 1..(n - 1) /\ t[i - 1] = q[i]
        /\ n = 1 => t = <<>>
        /\ Len(q) = n
    <2>1. n = 1 => t = <<>>
      BY TailAt, EmptySeq
    <2> QED  BY <2>1, TailAt
  <1> HIDE DEF t, n
  <1>0. /\ 1 \in 1..n
        /\ \A i \in 1..(n - 1) : i + 1 \in 1..n /\ i + 1 # 1 /\ t[i] = q[i + 1]
        /\ \A i \in 1..(n - 1) : i + 1 = n => i = n - 1
    BY <1>1
  <1>7. ASSUME Followed(q, S, T)
        PROVE  Followed(t, S, T) /\ (Head(q) \in S => Holds(t, T))
    <2>1. ASSUME NEW i \in 1..n, q[i] \in S
          PROVE  \E j \in 1..(n - 1) : j > i - 1 /\ t[j] \in T
      <3>1. PICK j \in 1..n : j > i /\ q[j] \in T
        BY <1>1, <1>7, <2>1 DEF Followed
      <3>2. j # 1 /\ j - 1 \in 1..(n - 1) /\ j - 1 > i - 1 /\ t[j - 1] = q[j]
        BY <1>1, <3>1
      <3> QED  BY <3>1, <3>2
    <2>2. ASSUME NEW i \in 1..(n - 1), t[i] \in S
          PROVE  \E j \in 1..(n - 1) : j > i /\ t[j] \in T
      <3>1. i + 1 \in 1..n /\ q[i + 1] \in S /\ (i + 1) - 1 = i
        BY <1>1, <2>2
      <3> QED  BY <2>1, <3>1
    <2>3. Followed(t, S, T)
      BY <1>1, <2>2 DEF Followed
    <2>4. ASSUME q[1] \in S
          PROVE  Holds(t, T)
      <3>1. \E j \in 1..(n - 1) : t[j] \in T
        BY <1>0, <2>1, <2>4
      <3> QED  BY <1>1, <3>1 DEF Holds
    <2> QED  BY <1>1, <2>3, <2>4
  <1>8. ASSUME Newest(q, S, T)
        PROVE  /\ Newest(t, S, T)
               /\ Head(q) \in S => Head(q) \in T \/ Holds(t, S)
    <2>1. ASSUME NEW i \in 1..n, q[i] \in S, q[i] \notin T
          PROVE  \E j \in 1..(n - 1) : j > i - 1 /\ t[j] \in S
      <3>1. PICK j \in 1..n : j > i /\ q[j] \in S
        BY <1>1, <1>8, <2>1 DEF Newest
      <3>2. j # 1 /\ j - 1 \in 1..(n - 1) /\ j - 1 > i - 1 /\ t[j - 1] = q[j]
        BY <1>1, <3>1
      <3> QED  BY <3>1, <3>2
    <2>2. ASSUME NEW i \in 1..(n - 1), t[i] \in S, t[i] \notin T
          PROVE  \E j \in 1..(n - 1) : j > i /\ t[j] \in S
      <3>1. i + 1 \in 1..n /\ t[i] = q[i + 1] /\ (i + 1) - 1 = i
        BY <1>1
      <3> QED  BY <2>1, <2>2, <3>1
    <2>3. Newest(t, S, T)
      BY <1>1, <2>2 DEF Newest
    <2>4. ASSUME q[1] \in S, q[1] \notin T
          PROVE  Holds(t, S)
      <3>1. \E j \in 1..(n - 1) : t[j] \in S
        BY <1>0, <2>1, <2>4
      <3> QED  BY <1>1, <3>1 DEF Holds
    <2> QED  BY <1>1, <2>3, <2>4
  <1> QED  BY <1>7, <1>8 DEF t

\* And when one more is sent.
LEMMA AfterAppend ==
    ASSUME NEW M, NEW q \in Seq(M), NEW m \in M, NEW S
    PROVE  /\ Holds(Append(q, m), S) <=> Holds(q, S) \/ m \in S
           /\ OnlyIn(Append(q, m), S) <=> OnlyIn(q, S) /\ m \in S
           /\ AtMostOne(q, S) /\ (m \notin S \/ ~Holds(q, S))
                 => AtMostOne(Append(q, m), S)
           /\ OnlyFirst(q, S) /\ m \notin S => OnlyFirst(Append(q, m), S)
           /\ q = <<>> => OnlyFirst(Append(q, m), S)
           /\ ~Holds(q, S) => OnlyLast(Append(q, m), S)
  <1> DEFINE a == Append(q, m)
             n == Len(q)
  <1>1. /\ n \in Nat /\ DOMAIN q = 1..n /\ DOMAIN a = 1..(n + 1) /\ Len(a) = n + 1
        /\ \A i \in 1..n : a[i] = q[i]
        /\ a[n + 1] = m
        /\ q = <<>> => n = 0
    BY AppendAt
  <1> HIDE DEF a, n
  <1>2. /\ \A i \in 1..(n + 1) : i \in 1..n \/ i = n + 1
        /\ \A i \in 1..n : i \in 1..(n + 1) /\ n + 1 > i
        /\ n + 1 \in 1..(n + 1) /\ n + 1 \notin 1..n
        /\ n = 0 => 1..n = {} /\ n + 1 = 1
    BY <1>1
  <1>3. Holds(a, S) <=> Holds(q, S) \/ m \in S
    BY <1>1, <1>2 DEF Holds
  <1>4. OnlyIn(a, S) <=> OnlyIn(q, S) /\ m \in S
    BY <1>1, <1>2 DEF OnlyIn
  <1>5. AtMostOne(q, S) /\ (m \notin S \/ ~Holds(q, S)) => AtMostOne(a, S)
    <2> SUFFICES ASSUME AtMostOne(q, S), m \notin S \/ ~Holds(q, S),
                        NEW i \in 1..(n + 1), NEW j \in 1..(n + 1),
                        a[i] \in S, a[j] \in S
                 PROVE  i = j
      BY <1>1 DEF AtMostOne
    <2>1. CASE i \in 1..n /\ j \in 1..n
      BY <1>1, <2>1 DEF AtMostOne
    <2>2. CASE ~(i \in 1..n /\ j \in 1..n)
      BY <1>1, <1>2, <2>2 DEF Holds
    <2> QED  BY <2>1, <2>2
  <1>6. /\ OnlyFirst(q, S) /\ m \notin S => OnlyFirst(a, S)
        /\ q = <<>> => OnlyFirst(a, S)
    BY <1>1, <1>2 DEF OnlyFirst
  <1>7. ~Holds(q, S) => OnlyLast(a, S)
    BY <1>1, <1>2 DEF Holds, OnlyLast
  <1> QED  BY <1>3, <1>4, <1>5, <1>6, <1>7 DEF a

LEMMA OrderAfterAppend ==
    ASSUME NEW M, NEW q \in Seq(M), NEW m \in M, NEW S, NEW T
    PROVE  /\ (Followed(q, S, T) \/ m \in T) /\ m \notin S
                 => Followed(Append(q, m), S, T)
           /\ Newest(q, S, T) /\ m \notin S => Newest(Append(q, m), S, T)
           /\ m \in S /\ m \in T => Newest(Append(q, m), S, T)
  <1> DEFINE a == Append(q, m)
             n == Len(q)
  <1>1. /\ n \in Nat /\ DOMAIN q = 1..n /\ DOMAIN a = 1..(n + 1) /\ Len(a) = n + 1
        /\ \A i \in 1..n : a[i] = q[i]
        /\ a[n + 1] = m
        /\ q = <<>> => n = 0
    BY AppendAt
  <1> HIDE DEF a, n
  <1>2. /\ \A i \in 1..(n + 1) : i \in 1..n \/ i = n + 1
        /\ \A i \in 1..n : i \in 1..(n + 1) /\ n + 1 > i
        /\ n + 1 \in 1..(n + 1) /\ n + 1 \notin 1..n
        /\ n = 0 => 1..n = {} /\ n + 1 = 1
    BY <1>1
  <1>8. (Followed(q, S, T) \/ m \in T) /\ m \notin S => Followed(a, S, T)
    BY <1>1, <1>2 DEF Followed
  <1>9. /\ Newest(q, S, T) /\ m \notin S => Newest(a, S, T)
        /\ m \in S /\ m \in T => Newest(a, S, T)
    BY <1>1, <1>2 DEF Newest
  <1> QED  BY <1>8, <1>9 DEF a

\* Fewer messages to ask about.
LEMMA FewerAsked ==
    ASSUME NEW q, NEW S, NEW R \in SUBSET S, NEW T
    PROVE  /\ Holds(q, R) => Holds(q, S)
           /\ Followed(q, S, T) => Followed(q, R, T)
  BY DEF Holds, Followed

-----------------------------------------------------------------------------
(* What is between a player and a host.                                      *)
(*   j, n, place: joining, tries and room of the player                      *)
(*   seen:        where the host sees him                                    *)
(*   out, in:     what he has sent to the host, and the host to him          *)

Updates      == {m \in Message : m.kind = "user"}
Joins(n)     == {m \in Message : m.kind = "room_join" /\ m.seq = n}
AnswersTo(n) == {m \in Message : m.kind \in Answers /\ m.seq = n}
Acks(n)      == {m \in Message : m.kind = "room_join_ack" /\ m.seq = n}
UpTo(n)      == {m \in Message :
                    m.kind \in Answers \cup {"room_join"} => m.seq <= n}

\* The joins that the player does not wait for any more.
Stale(h, j, n) == {m \in Message : m.kind = "room_join" /\ ~(j = h /\ m.seq = n)}

\* The newest join is with one host, as a join or as its answer, once.
Asked(h, j, n, out, in) ==
    /\ OnlyIn(out, UpTo(n)) /\ OnlyIn(in, UpTo(n))
    /\ j # None /\ j # h => ~Holds(out, Joins(n)) /\ ~Holds(in, AnswersTo(n))
    /\ AtMostOne(out, Joins(n)) /\ AtMostOne(in, AnswersTo(n))
    /\ ~(Holds(out, Joins(n)) /\ Holds(in, AnswersTo(n)))

\* A join that was given up is followed by an update, which takes the seat
\* back; the newest update says where the player is; and the host knows it
\* when no update is under way, but for a seat the player is about to take.
Seat(h, j, n, place, seen, out, in) ==
    /\ Followed(out, Stale(h, j, n), Updates)
    /\ Newest(out, Updates, {News(place)})
    /\ ~Holds(out, Updates) => \/ seen = place
                               \/ seen = h /\ j = h /\ Holds(in, Acks(n))

\* When nothing else is sent, a seat stays reserved until it is taken, and
\* nobody is seen in a room without a seat reserved.
Kept(h, j, n, place, seen, out, in) ==
    /\ j = h => OnlyLast(out, Joins(n))
    /\ j = h /\ Holds(in, Acks(n)) => out = <<>> /\ seen = h
    /\ place = h => seen = h /\ OnlyIn(out, {News(h)})
    /\ OnlyFirst(out, {News(h)}) /\ (Holds(out, {News(h)}) => seen = h)

LEMMA NotAskedYet ==
    ASSUME NEW n \in Nat, NEW q, OnlyIn(q, UpTo(n))
    PROVE  /\ OnlyIn(q, UpTo(n + 1))
           /\ ~Holds(q, Joins(n + 1)) /\ ~Holds(q, AnswersTo(n + 1))
           /\ ~Holds(q, Acks(n + 1))
  <1>1. ASSUME NEW m \in UpTo(n)
        PROVE  m \in UpTo(n + 1) /\ m \notin Joins(n + 1)
               /\ m \notin AnswersTo(n + 1) /\ m \notin Acks(n + 1)
    <2>1. m.kind \in Answers \cup {"room_join"} => m.seq \in Nat
      BY RoomJoinAssumption DEF UpTo, Message, News, Closed, Answers
    <2>2. "room_join_ack" \in Answers
      BY DEF Answers
    <2> QED  BY <2>1, <2>2 DEF UpTo, Joins, AnswersTo, Acks
  <1> QED  BY <1>1 DEF OnlyIn, Holds

\* The player asks host h, or another one.
LEMMA AskedSelected ==
    ASSUME NEW h \in Host, NEW out \in Seq(Message), NEW in \in Seq(Message),
           NEW n \in Nat, Asked(h, None, n, out, in), NEW g \in Host,
           NEW m \in Message, m.kind = "room_join", m.seq = n + 1
    PROVE  /\ Asked(h, h, n + 1, Append(out, m), in)
           /\ g # h => Asked(h, g, n + 1, out, in)
  <1>1. /\ OnlyIn(out, UpTo(n + 1)) /\ OnlyIn(in, UpTo(n + 1))
        /\ ~Holds(out, Joins(n + 1)) /\ ~Holds(in, AnswersTo(n + 1))
    BY NotAskedYet DEF Asked
  <1>2. m \in UpTo(n + 1)
    BY DEF UpTo
  <1>3. AtMostOne(out, Joins(n + 1)) /\ AtMostOne(in, AnswersTo(n + 1))
    BY <1>1 DEF AtMostOne, Holds
  <1>4. /\ OnlyIn(Append(out, m), UpTo(n + 1))
        /\ AtMostOne(Append(out, m), Joins(n + 1))
    BY <1>1, <1>2, <1>3, AfterAppend
  <1> QED  BY <1>1, <1>3, <1>4 DEF Asked

LEMMA SeatSelected ==
    ASSUME NEW h \in Host, NEW out \in Seq(Message), NEW in \in Seq(Message),
           NEW n \in Nat, NEW seen, NEW place \in Place,
           Seat(h, None, n, place, seen, out, in), NEW g \in Host,
           NEW m \in Message, m.kind = "room_join", m.seq = n + 1
    PROVE  /\ Seat(h, h, n + 1, place, seen, Append(out, m), in)
           /\ g # h => Seat(h, g, n + 1, place, seen, out, in)
  <1>1. m \notin Updates /\ m \notin Stale(h, h, n + 1) /\ h # None /\ g # None
    BY RoomJoinAssumption DEF Updates, Stale
  <1>2. /\ Stale(h, h, n + 1) \subseteq Stale(h, None, n)
        /\ Stale(h, g, n + 1) \subseteq Stale(h, None, n)
    BY <1>1 DEF Stale
  <1>3. /\ Followed(out, Stale(h, h, n + 1), Updates)
        /\ Followed(out, Stale(h, g, n + 1), Updates)
    BY <1>2, FewerAsked DEF Seat
  <1>4. ~Holds(out, Updates) => seen = place
    BY <1>1 DEF Seat
  <1>5. g # h => Seat(h, g, n + 1, place, seen, out, in)
    BY <1>3, <1>4 DEF Seat
  <1>6. Followed(Append(out, m), Stale(h, h, n + 1), Updates)
    BY <1>1, <1>3, OrderAfterAppend
  <1>7. Newest(Append(out, m), Updates, {News(place)})
    BY <1>1, OrderAfterAppend DEF Seat
  <1>8. Holds(Append(out, m), Updates) <=> Holds(out, Updates)
    BY <1>1, AfterAppend
  <1> QED  BY <1>4, <1>5, <1>6, <1>7, <1>8 DEF Seat

LEMMA KeptSelected ==
    ASSUME NEW h \in Host, NEW out \in Seq(Message), NEW in \in Seq(Message),
           NEW n \in Nat, NEW seen, Asked(h, None, n, out, in),
           Kept(h, None, n, None, seen, out, in), NEW g \in Host,
           NEW m \in Message, m.kind = "room_join", m.seq = n + 1
    PROVE  /\ Kept(h, h, n + 1, None, seen, Append(out, m), in)
           /\ g # h => Kept(h, g, n + 1, None, seen, out, in)
  <1>1. m \notin {News(h)} /\ h # None /\ g # None
    BY RoomJoinAssumption DEF News
  <1>2. ~Holds(out, Joins(n + 1)) /\ ~Holds(in, Acks(n + 1))
    BY NotAskedYet DEF Asked
  <1>3. OnlyLast(Append(out, m), Joins(n + 1))
    BY <1>2, AfterAppend
  <1>4. /\ OnlyFirst(Append(out, m), {News(h)})
        /\ Holds(Append(out, m), {News(h)}) => Holds(out, {News(h)})
    BY <1>1, AfterAppend DEF Kept
  <1> QED  BY <1>1, <1>2, <1>3, <1>4 DEF Kept

\* The player tells where he is, and gives up what he waited for or not.
LEMMA AskedTold ==
    ASSUME NEW h, NEW out \in Seq(Message), NEW in \in Seq(Message), NEW n,
           NEW j, Asked(h, j, n, out, in), NEW j2 \in {j, None},
           NEW m \in Message, m.kind = "user"
    PROVE  Asked(h, j2, n, Append(out, m), in)
  <1>1. m \in UpTo(n) /\ m \notin Joins(n)
    BY DEF UpTo, Joins, Answers
  <1>2. /\ OnlyIn(Append(out, m), UpTo(n))
        /\ AtMostOne(Append(out, m), Joins(n))
        /\ Holds(Append(out, m), Joins(n)) <=> Holds(out, Joins(n))
    BY <1>1, AfterAppend DEF Asked
  <1> QED  BY <1>2 DEF Asked

LEMMA SeatTold ==
    ASSUME NEW h, NEW out \in Seq(Message), NEW in, NEW n, NEW j,
           NEW place \in Place, NEW seen
    PROVE  Seat(h, j, n, place, seen, Append(out, News(place)), in)
  <1> DEFINE m == News(place)
  <1>1. m \in Message /\ m \in Updates /\ m \in {News(place)}
    BY DEF News, Message, Updates
  <1>2. m \notin Stale(h, j, n)
    BY DEF News, Stale
  <1> HIDE DEF m
  <1>3. /\ Followed(Append(out, m), Stale(h, j, n), Updates)
        /\ Newest(Append(out, m), Updates, {News(place)})
    BY <1>1, <1>2, OrderAfterAppend
  <1>4. Holds(Append(out, m), Updates)
    BY <1>1, AfterAppend
  <1> QED  BY <1>3, <1>4 DEF Seat, m

LEMMA KeptTold ==
    ASSUME NEW h \in Host, NEW out \in Seq(Message), NEW in, NEW n, NEW j,
           NEW place, NEW seen, Kept(h, j, n, place, seen, out, in),
           NEW place2 \in Place, place2 = h => out = <<>> /\ seen = h
    PROVE  Kept(h, None, n, place2, seen, Append(out, News(place2)), in)
  <1> DEFINE m == News(place2)
             q == Append(out, m)
  <1>1. m \in Message /\ (place2 # h => m \notin {News(h)}) /\ h # None
        /\ (place2 = h => m \in {News(h)})
    BY RoomJoinAssumption DEF News, Message
  <1> HIDE DEF m
  <1>2. OnlyFirst(q, {News(h)}) /\ (Holds(q, {News(h)}) => seen = h)
    <2>1. CASE place2 = h
      <3>1. OnlyFirst(q, {News(h)})
        BY <1>1, <2>1, AfterAppend
      <3> QED  BY <2>1, <3>1
    <2>2. CASE place2 # h
      BY <1>1, <2>2, AfterAppend DEF Kept
    <2> QED  BY <2>1, <2>2
  <1>3. place2 = h => OnlyIn(q, {News(h)})
    <2>1. out = <<>> => OnlyIn(out, {News(h)})
      BY DEF OnlyIn
    <2> QED  BY <1>1, <2>1, AfterAppend
  <1> HIDE DEF q
  <1>4. Kept(h, None, n, place2, seen, q, in)
    BY <1>1, <1>2, <1>3 DEF Kept
  <1> QED  BY <1>4 DEF q, m

\* The host takes a message of the player that he does not answer.
LEMMA AskedHeard ==
    ASSUME NEW h, NEW out \in Seq(Message), out # <<>>, NEW in, NEW n,
           NEW j, Asked(h, j, n, out, in)
    PROVE  Asked(h, j, n, Tail(out), in)
  <1>1. /\ OnlyIn(Tail(out), UpTo(n)) /\ AtMostOne(Tail(out), Joins(n))
        /\ Holds(Tail(out), Joins(n)) => Holds(out, Joins(n))
    BY AfterTail DEF Asked
  <1> QED  BY <1>1 DEF Asked

\* He hears where the player is.
LEMMA SeatHeard ==
    ASSUME NEW h, NEW out \in Seq(Message), out # <<>>, NEW in, NEW n, NEW j,
           NEW place, NEW seen, Seat(h, j, n, place, seen, out, in),
           Head(out).kind = "user"
    PROVE  Seat(h, j, n, place, Head(out).room, Tail(out), in)
  <1>1. Head(out) \in Message /\ Head(out) \in Updates
    BY TailAt DEF Updates
  <1>2. /\ Followed(Tail(out), Stale(h, j, n), Updates)
        /\ Newest(Tail(out), Updates, {News(place)})
        /\ Head(out) \in {News(place)} \/ Holds(Tail(out), Updates)
    BY <1>1, OrderAfterTail DEF Seat
  <1>3. Head(out) = News(place) => Head(out).room = place
    BY DEF News
  <1> QED  BY <1>2, <1>3 DEF Seat

LEMMA KeptHeard ==
    ASSUME NEW h, NEW out \in Seq(Message), out # <<>>, NEW in, NEW n, NEW j,
           NEW place, NEW seen, Kept(h, j, n, place, seen, out, in)
    PROVE  Kept(h, j, n, place, Head(out).room, Tail(out), in)
  <1>1. News(h).room = h
    BY DEF News
  <1>2. ~Holds(Tail(out), {News(h)}) /\ OnlyFirst(Tail(out), {News(h)})
    <2>1. ~Holds(Tail(out), {News(h)})
      BY AfterTail DEF Kept
    <2> QED  BY <2>1 DEF Holds, OnlyFirst
  <1>3. j = h => OnlyLast(Tail(out), Joins(n))
    BY AfterTail DEF Kept
  <1>4. place = h => OnlyIn(Tail(out), {News(h)}) /\ Head(out) \in {News(h)}
    BY AfterTail DEF Kept
  <1> QED  BY <1>1, <1>2, <1>3, <1>4 DEF Kept

\* He takes a join and answers it.
LEMMA AskedAnswered ==
    ASSUME NEW h, NEW out \in Seq(Message), out # <<>>,
           NEW in \in Seq(Message), NEW n, NEW j, Asked(h, j, n, out, in),
           Head(out).kind = "room_join",
           NEW m \in Message, m.kind \in Answers, m.seq = Head(out).seq
    PROVE  Asked(h, j, n, Tail(out), Append(in, m))
  <1>1. /\ Head(out) \in Message
        /\ m \in AnswersTo(n) <=> Head(out) \in Joins(n)
        /\ Head(out) \in UpTo(n) => m \in UpTo(n)
    BY TailAt DEF AnswersTo, Joins, UpTo
  <1>2. /\ OnlyIn(Tail(out), UpTo(n)) /\ Head(out) \in UpTo(n)
        /\ AtMostOne(Tail(out), Joins(n))
        /\ Holds(Tail(out), Joins(n)) => Holds(out, Joins(n))
        /\ Head(out) \in Joins(n) => Holds(out, Joins(n)) /\ ~Holds(Tail(out), Joins(n))
    BY AfterTail DEF Asked
  <1>3. OnlyIn(Append(in, m), UpTo(n))
    BY <1>1, <1>2, AfterAppend DEF Asked
  <1>4. Holds(Append(in, m), AnswersTo(n))
           <=> Holds(in, AnswersTo(n)) \/ Head(out) \in Joins(n)
    BY <1>1, AfterAppend
  <1>5. AtMostOne(Append(in, m), AnswersTo(n))
    <2>1. m \in AnswersTo(n) => ~Holds(in, AnswersTo(n))
      BY <1>1, <1>2 DEF Asked
    <2> QED  BY <2>1, AfterAppend DEF Asked
  <1> QED  BY <1>2, <1>3, <1>4, <1>5 DEF Asked

\* What the player has still to hear does not get less.
LEMMA SeatIn ==
    ASSUME NEW h, NEW out, NEW in, NEW in2, NEW n, NEW j, NEW place, NEW seen,
           Seat(h, j, n, place, seen, out, in),
           Holds(in, Acks(n)) => Holds(in2, Acks(n))
    PROVE  Seat(h, j, n, place, seen, out, in2)
  BY DEF Seat

\* A join is taken, and the seat reserved or not.
LEMMA SeatAnswered ==
    ASSUME NEW h, NEW out \in Seq(Message), out # <<>>,
           NEW in \in Seq(Message), NEW n, NEW j, NEW place, NEW seen,
           Seat(h, j, n, place, seen, out, in), Head(out).kind = "room_join"
    PROVE  Seat(h, j, n, place, seen, Tail(out), in)
  <1>1. Head(out) \in Message /\ Head(out) \notin Updates
    BY TailAt DEF Updates
  <1>2. /\ Followed(Tail(out), Stale(h, j, n), Updates)
        /\ Newest(Tail(out), Updates, {News(place)})
    BY OrderAfterTail DEF Seat
  <1>3. Holds(out, Updates) => Holds(Tail(out), Updates)
    BY <1>1, AfterTail
  <1> QED  BY <1>2, <1>3 DEF Seat

LEMMA SeatReserving ==
    ASSUME NEW h, NEW out \in Seq(Message), out # <<>>,
           NEW in \in Seq(Message), NEW n, NEW j, NEW place, NEW seen,
           Seat(h, j, n, place, seen, out, in), Head(out).kind = "room_join",
           NEW m \in Message, m.kind = "room_join_ack", m.seq = Head(out).seq
    PROVE  Seat(h, j, n, place, h, Tail(out), Append(in, m))
  <1>1. /\ Head(out) \in Message
        /\ Head(out) \in Stale(h, j, n) \/ (j = h /\ m \in Acks(n))
    BY TailAt DEF Stale, Acks
  <1>2. /\ Followed(Tail(out), Stale(h, j, n), Updates)
        /\ Newest(Tail(out), Updates, {News(place)})
        /\ Head(out) \in Stale(h, j, n) => Holds(Tail(out), Updates)
    BY OrderAfterTail DEF Seat
  <1>3. m \in Acks(n) => Holds(Append(in, m), Acks(n))
    BY AfterAppend
  <1> QED  BY <1>1, <1>2, <1>3 DEF Seat

LEMMA KeptIn ==
    ASSUME NEW h, NEW out, NEW in, NEW in2, NEW n, NEW j, NEW place, NEW seen,
           Kept(h, j, n, place, seen, out, in),
           j = h => (Holds(in2, Acks(n)) => Holds(in, Acks(n)))
    PROVE  Kept(h, j, n, place, seen, out, in2)
  BY DEF Kept

LEMMA KeptAnswered ==
    ASSUME NEW h, NEW out \in Seq(Message), out # <<>>,
           NEW in \in Seq(Message), NEW in2, NEW n, NEW j, NEW place,
           NEW seen, NEW seen2 \in {seen, h},
           Kept(h, j, n, place, seen, out, in), Head(out).kind = "room_join",
           \/ in2 = in
           \/ \E m \in Message :
                 /\ in2 = Append(in, m) /\ m.seq = Head(out).seq
                 /\ m.kind = "room_join_ack" => seen2 = h
    PROVE  Kept(h, j, n, place, seen2, Tail(out), in2)
  <1>1. Head(out) \in Message /\ Head(out) \notin {News(h)}
    BY TailAt DEF News
  <1>2. ~Holds(Tail(out), {News(h)}) /\ OnlyFirst(Tail(out), {News(h)})
    <2>1. ~Holds(Tail(out), {News(h)})
      BY AfterTail DEF Kept
    <2> QED  BY <2>1 DEF Holds, OnlyFirst
  <1>3. j = h => /\ OnlyLast(Tail(out), Joins(n))
                 /\ Head(out) \in Joins(n) => Tail(out) = <<>>
    BY AfterTail DEF Kept
  <1>4. place # h
    BY <1>1, AfterTail DEF Kept
  <1>5. ASSUME j = h, Holds(in2, Acks(n))
        PROVE  Tail(out) = <<>> /\ seen2 = h
    <2>1. ~Holds(in, Acks(n))
      BY <1>5 DEF Kept
    <2>2. PICK m \in Message : /\ in2 = Append(in, m) /\ m.seq = Head(out).seq
                               /\ m.kind = "room_join_ack" => seen2 = h
      BY <1>5, <2>1
    <2>3. m \in Acks(n)
      BY <1>5, <2>1, <2>2, AfterAppend
    <2>4. Head(out) \in Joins(n) /\ seen2 = h
      BY <1>1, <2>2, <2>3 DEF Acks, Joins
    <2> QED  BY <1>3, <1>5, <2>4
  <1> QED  BY <1>2, <1>3, <1>4, <1>5 DEF Kept

\* The host closes his room.
LEMMA AskedIn ==
    ASSUME NEW h, NEW out, NEW in \in Seq(Message), NEW n, NEW j,
           Asked(h, j, n, out, in)
    PROVE  /\ Asked(h, j, n, out, Append(in, Closed))
           /\ Holds(Append(in, Closed), Acks(n)) <=> Holds(in, Acks(n))
  <1>1. /\ Closed \in Message /\ Closed \in UpTo(n)
        /\ Closed \notin AnswersTo(n) /\ Closed \notin Acks(n)
    BY DEF Closed, Message, UpTo, AnswersTo, Acks, Answers
  <1>2. /\ OnlyIn(Append(in, Closed), UpTo(n))
        /\ AtMostOne(Append(in, Closed), AnswersTo(n))
        /\ Holds(Append(in, Closed), AnswersTo(n)) <=> Holds(in, AnswersTo(n))
        /\ Holds(Append(in, Closed), Acks(n)) <=> Holds(in, Acks(n))
    BY <1>1, AfterAppend DEF Asked
  <1> QED  BY <1>2 DEF Asked

\* The player takes a message of the host, and then waits or does not.
LEMMA AskedTaken ==
    ASSUME NEW h, NEW out, NEW in \in Seq(Message), in # <<>>, NEW n, NEW j,
           Asked(h, j, n, out, in), NEW j2 \in {j, None}
    PROVE  Asked(h, j2, n, out, Tail(in))
  <1>1. /\ OnlyIn(Tail(in), UpTo(n)) /\ AtMostOne(Tail(in), AnswersTo(n))
        /\ Holds(Tail(in), AnswersTo(n)) => Holds(in, AnswersTo(n))
    BY AfterTail DEF Asked
  <1> QED  BY <1>1 DEF Asked

LEMMA AskedGivenUp ==
    ASSUME NEW h, NEW out, NEW in, NEW n, NEW j, Asked(h, j, n, out, in)
    PROVE  Asked(h, None, n, out, in)
  BY DEF Asked

\* An answer to the newest join comes from the host who was asked.
LEMMA AnswerIsOfHost ==
    ASSUME NEW h, NEW out, NEW in \in Seq(Message), in # <<>>, NEW n, NEW j,
           Asked(h, j, n, out, in), j # None,
           Head(in).kind \in Answers, Head(in).seq = n
    PROVE  /\ j = h /\ ~Holds(out, Joins(n))
           /\ ~Holds(Tail(in), AnswersTo(n)) /\ Head(in) \in AnswersTo(n)
           /\ Head(in).kind = "room_join_ack" => Holds(in, Acks(n))
           /\ Head(in).kind # "room_join_ack" => ~Holds(in, Acks(n))
  <1>1. /\ Head(in) \in Message /\ Head(in) \in AnswersTo(n)
        /\ Head(in).kind = "room_join_ack" <=> Head(in) \in Acks(n)
    BY TailAt DEF AnswersTo, Acks
  <1>2. Holds(in, AnswersTo(n)) /\ ~Holds(Tail(in), AnswersTo(n))
    BY <1>1, AfterTail DEF Asked
  <1>3. Acks(n) \subseteq AnswersTo(n)
    BY DEF Acks, AnswersTo, Answers
  <1>4. ~Holds(Tail(in), Acks(n))
    BY <1>2, <1>3 DEF Holds
  <1>5. Head(in) \notin Acks(n) => ~Holds(in, Acks(n))
    BY <1>4, AfterTail
  <1>6. Head(in) \in Acks(n) => Holds(in, Acks(n))
    BY AfterTail
  <1> QED  BY <1>1, <1>2, <1>5, <1>6 DEF Asked

\* The player is refused by the host he asked, or by another one.
LEMMA SeatRefused ==
    ASSUME NEW h, h # None, NEW out, NEW in, NEW in2, NEW n, NEW j, NEW place,
           NEW seen, Seat(h, j, n, place, seen, out, in),
           j = h => ~Holds(out, Joins(n)) /\ ~Holds(in, Acks(n))
    PROVE  Seat(h, None, n, place, seen, out, in2)
  <1>1. Followed(out, Stale(h, None, n), Updates)
    <2>1. ASSUME NEW i \in DOMAIN out, out[i] \in Stale(h, None, n)
          PROVE  out[i] \in Stale(h, j, n)
      BY <2>1 DEF Stale, Joins, Holds
    <2> QED  BY <2>1 DEF Followed, Seat
  <1>2. ~Holds(out, Updates) => seen = place
    BY DEF Seat
  <1> QED  BY <1>1, <1>2 DEF Seat

LEMMA KeptRefused ==
    ASSUME NEW h, h # None, NEW out, NEW in, NEW in2, NEW n, NEW j, NEW place,
           NEW seen, Kept(h, j, n, place, seen, out, in)
    PROVE  Kept(h, None, n, place, seen, out, in2)
  BY DEF Kept

-----------------------------------------------------------------------------
(* The channels, and the type of the state *)

Nets == [Channel -> Seq(Message)]

LEMMA ChannelsOf ==
    ASSUME NEW p \in Player, NEW h \in Host, NEW p2 \in Player, NEW h2 \in Host
    PROVE  /\ <<p, h>> \in Channel /\ <<h, p>> \in Channel /\ <<p, p>> \in Channel
           /\ <<p, h>>[1] = p /\ <<h, p>>[1] = h /\ <<p, p>>[1] = p
           /\ <<p, h>> # <<h2, p2>> /\ <<p, h>> # <<p2, p2>>
           /\ <<h, p>> # <<p2, p2>> /\ h # p
           /\ <<p, h>> = <<p2, h2>> <=> p = p2 /\ h = h2
           /\ <<h, p>> = <<h2, p2>> <=> p = p2 /\ h = h2
           /\ <<p, p>> = <<p2, p2>> <=> p = p2
           /\ p \in Place \cup Player /\ h \in Place /\ None \in Place
           /\ h # None
  <1>1. h # p /\ h2 # p /\ h # p2 /\ h # None
    BY RoomJoinAssumption
  <1> QED  BY <1>1 DEF Channel, Place

LEMMA SelfChannel ==
    ASSUME NEW p \in Player, NEW h \in Host, NEW p2 \in Player
    PROVE  /\ <<p2, p2>> \in Channel
           /\ <<p2, p2>> # <<p, h>> /\ <<p2, p2>> # <<h, p>>
  <1>1. h # p2
    BY RoomJoinAssumption
  <1> QED  BY <1>1 DEF Channel

LEMMA TakenNet ==
    ASSUME TypeOK, NEW a, NEW b, <<a, b>> \in Channel, net[<<a, b>>] # <<>>
    PROVE  /\ Taken(a, b) \in Nets
           /\ Taken(a, b)[<<a, b>>] = Tail(net[<<a, b>>])
           /\ \A c \in Channel : c # <<a, b>> => Taken(a, b)[c] = net[c]
  <1>1. net \in Nets /\ Tail(net[<<a, b>>]) \in Seq(Message)
    BY HeadTailProperties DEF TypeOK, Nets
  <1> QED  BY <1>1 DEF Taken, Nets

LEMMA SentNet ==
    ASSUME NEW q \in Nets, NEW a, NEW b, <<a, b>> \in Channel,
           NEW m \in Message
    PROVE  /\ Sent(q, a, b, m) \in Nets
           /\ Sent(q, a, b, m)[<<a, b>>] = Append(q[<<a, b>>], m)
           /\ \A c \in Channel : c # <<a, b>> => Sent(q, a, b, m)[c] = q[c]
  <1>1. Append(q[<<a, b>>], m) \in Seq(Message)
    BY AppendProperties DEF Nets
  <1> QED  BY <1>1 DEF Sent, Nets

LEMMA ToldNet ==
    ASSUME NEW q \in Nets, NEW p \in Player, NEW r \in Place
    PROVE  /\ News(r) \in Message /\ Told(q, p, r) \in Nets
           /\ \A c \in Channel : Told(q, p, r)[c] =
                 IF c[1] = p THEN Append(q[c], News(r)) ELSE q[c]
  <1>1. News(r) \in Message
    BY DEF News, Message
  <1>2. \A c \in Channel : Append(q[c], News(r)) \in Seq(Message)
    BY <1>1, AppendProperties DEF Nets
  <1> QED  BY <1>1, <1>2 DEF Told, Nets

LEMMA ArrivedType ==
    ASSUME TypeOK, NEW a, NEW b, <<a, b>> \in Channel, NEW kinds,
           Arrives(a, b, kinds)
    PROVE  /\ net[<<a, b>>] # <<>> /\ net[<<a, b>>] \in Seq(Message)
           /\ Head(net[<<a, b>>]) \in Message /\ Head(net[<<a, b>>]).kind \in kinds
  BY TailAt DEF TypeOK, Arrives

LEMMA MessageKinds ==
    ASSUME NEW m \in Message
    PROVE  /\ m.kind = "user" => m.room \in Place /\ m = News(m.room)
           /\ m.kind = "room_join" => m.seq \in 1..MaxTries /\ m.good \in BOOLEAN
           /\ m.kind \in Answers => m.seq \in 1..MaxTries
           /\ m.kind = "room_remove" => m = Closed
           /\ \A k \in Answers : m.kind = "room_join" => Answer(k, m.seq) \in Message
  BY DEF Message, News, Closed, Answer, Answers

LEMMA InitType == Init => TypeOK
  <1> SUFFICES ASSUME Init PROVE TypeOK
    OBVIOUS
  <1>1. None \in Place /\ <<>> \in Seq(Message)
    BY EmptySeq DEF Place
  <1>2. net \in [Channel -> Seq(Message)]
    BY <1>1 DEF Init
  <1>3. view \in [Host -> [Player -> Place]]
    BY <1>1 DEF Init
  <1>4. /\ tries \in [Player -> 0..MaxTries]
        /\ cancels \in 0..MaxCancels /\ updates \in 0..MaxUpdates
    BY RoomJoinAssumption DEF Init
  <1> QED  BY <1>1, <1>2, <1>3, <1>4 DEF Init, TypeOK

LEMMA PlayerType ==
    ASSUME TypeOK, NEW p \in Player,
           Interrupt(p) \/ UserSend(p) \/ CloseWindow(p) \/ HearSelf(p) \/ HearOther(p)
    PROVE  TypeOK'
  <1>1. <<p, p>> \in Channel /\ None \in Place /\ net \in Nets
    BY DEF Channel, Place, TypeOK, Nets
  <1>2. CASE Interrupt(p)
    <2>1. net' \in Nets
      BY <1>1, <1>2, ToldNet DEF Interrupt, TypeOK
    <2> QED  BY <1>1, <1>2, <2>1, RoomJoinAssumption DEF Interrupt, TypeOK, Nets
  <1>3. CASE UserSend(p)
    <2>1. net' \in Nets
      BY <1>1, <1>3, ToldNet DEF UserSend, TypeOK
    <2> QED  BY <1>1, <1>3, <2>1, RoomJoinAssumption DEF UserSend, TypeOK, Nets
  <1>4. CASE CloseWindow(p)
    <2>1. net' \in Nets
      BY <1>1, <1>4, ToldNet DEF CloseWindow, RoomDestroyed
    <2> QED  BY <1>1, <1>4, <2>1 DEF CloseWindow, RoomDestroyed, TypeOK, Nets
  <1>5. CASE HearSelf(p)
    <2>1. /\ net[<<p, p>>] # <<>> /\ Head(net[<<p, p>>]).room \in Place
      BY <1>1, <1>5, ArrivedType, MessageKinds DEF HearSelf
    <2>2. net' \in Nets
      BY <1>1, <1>5, <2>1, TakenNet DEF HearSelf
    <2>3. own' \in [Player -> Place] /\ own'[p] \in Place
      BY <1>5, <2>1 DEF HearSelf, TypeOK
    <2>4. window' \in [Player -> Place] /\ reopened' \in BOOLEAN
      BY <1>5, <2>3 DEF HearSelf, CondOpen, TypeOK
    <2> QED  BY <1>5, <2>2, <2>3, <2>4 DEF HearSelf, TypeOK, Nets
  <1>6. CASE HearOther(p)
    <2>1. window' \in [Player -> Place] /\ reopened' \in BOOLEAN
      BY <1>6 DEF HearOther, CondOpen, TypeOK
    <2> QED  BY <1>6, <2>1 DEF HearOther, TypeOK
  <1> QED  BY <1>2, <1>3, <1>4, <1>5, <1>6

LEMMA PairType ==
    ASSUME TypeOK, NEW p \in Player, NEW h \in Host,
           RoomJoinSelected(p, h) \/ Hear(p, h)
    PROVE  TypeOK'
  <1>1. /\ <<p, h>> \in Channel /\ <<h, p>> \in Channel /\ h \in Place
        /\ None \in Place /\ net \in Nets
    BY DEF Channel, Place, TypeOK, Nets
  <1>2. CASE RoomJoinSelected(p, h)
    <2>1. tries[p] \in Nat /\ tries[p] + 1 \in 1..MaxTries
      BY <1>2, RoomJoinAssumption DEF RoomJoinSelected, TypeOK
    <2>2. \A good \in BOOLEAN : Join(tries[p] + 1, good) \in Message
      BY <2>1 DEF Join, Message
    <2>3. net' \in Nets
      <3>1. PICK good \in BOOLEAN : net' = Sent(net, p, h, Join(tries[p] + 1, good))
        BY <1>2 DEF RoomJoinSelected
      <3> QED  BY <1>1, <2>2, <3>1, SentNet
    <2>4. tries' \in [Player -> 0..MaxTries]
      BY <1>2, <2>1 DEF RoomJoinSelected, TypeOK
    <2> QED  BY <1>1, <1>2, <2>3, <2>4 DEF RoomJoinSelected, TypeOK, Nets
  <1>3. CASE HandleRoomJoin(h, p)
    <2> DEFINE m == Head(net[<<p, h>>])
    <2>1. /\ net[<<p, h>>] # <<>> /\ \A k \in Answers : Answer(k, m.seq) \in Message
      BY <1>1, <1>3, ArrivedType, MessageKinds DEF HandleRoomJoin
    <2>2. Taken(p, h) \in Nets
      BY <1>1, <2>1, TakenNet
    <2>3. \/ net' = Taken(p, h)
          \/ \E k \in Answers : net' = Sent(Taken(p, h), h, p, Answer(k, m.seq))
      BY <1>3 DEF HandleRoomJoin, Answers
    <2> HIDE DEF m
    <2>4. net' \in Nets
      BY <1>1, <2>1, <2>2, <2>3, SentNet
    <2>5. view' \in [Host -> [Player -> Place]]
      <3>1. view' = view \/ view' = Reserved(h, p)
        BY <1>3 DEF HandleRoomJoin
      <3>2. Reserved(h, p) \in [Host -> [Player -> Place]]
        BY <1>1 DEF Reserved, TypeOK
      <3> QED  BY <3>1, <3>2 DEF TypeOK
    <2> QED  BY <1>3, <2>4, <2>5 DEF HandleRoomJoin, TypeOK, Nets
  <1>4. CASE HearUser(h, p)
    <2>1. net[<<p, h>>] # <<>> /\ Head(net[<<p, h>>]).room \in Place
      BY <1>1, <1>4, ArrivedType, MessageKinds DEF HearUser
    <2>2. net' \in Nets
      BY <1>1, <1>4, <2>1, TakenNet DEF HearUser
    <2>3. view' \in [Host -> [Player -> Place]]
      BY <1>4, <2>1 DEF HearUser, TypeOK
    <2> QED  BY <1>4, <2>2, <2>3 DEF HearUser, TypeOK, Nets
  <1>5. CASE TakeAnswer(p, h)
    <2>1. net[<<h, p>>] # <<>>
      BY <1>1, <1>5, ArrivedType DEF TakeAnswer
    <2>2. Taken(h, p) \in Nets
      BY <1>1, <2>1, TakenNet
    <2>3. joining[p] \in Place
      BY DEF TypeOK
    <2>4. \/ net' = Taken(h, p) /\ room' = room
          \/ /\ room' = [room EXCEPT ![p] = joining[p]]
             /\ net' = Told(Taken(h, p), p, joining[p])
      BY <1>5 DEF TakeAnswer
    <2>5. net' \in Nets
      BY <2>2, <2>3, <2>4, ToldNet
    <2>6. /\ room' \in [Player -> Place] /\ joining' \in [Player -> Place]
          /\ \A q \in Player : joining'[q] = None \/ room'[q] = None
      BY <1>1, <1>5, <2>3, <2>4 DEF TakeAnswer, TypeOK
    <2>7. crossed' \in BOOLEAN
      BY <1>5 DEF TakeAnswer, TypeOK
    <2> QED  BY <1>5, <2>5, <2>6, <2>7 DEF TakeAnswer, TypeOK, Nets
  <1>6. CASE RoomRemoved(p, h)
    <2>1. net[<<h, p>>] # <<>>
      BY <1>1, <1>6, ArrivedType DEF RoomRemoved
    <2>2. Taken(h, p) \in Nets
      BY <1>1, <2>1, TakenNet
    <2>3. net' \in Nets
      BY <1>1, <1>6, <2>2, ToldNet DEF RoomRemoved, RoomDestroyed
    <2>4. /\ room' \in [Player -> Place] /\ window' \in [Player -> Place]
          /\ \A q \in Player : joining'[q] = None \/ room'[q] = None
      BY <1>1, <1>6 DEF RoomRemoved, RoomDestroyed, TypeOK
    <2>5. listed' \in [Player -> SUBSET Host]
      BY <1>6 DEF RoomRemoved, TypeOK
    <2> QED  BY <1>6, <2>3, <2>4, <2>5 DEF RoomRemoved, TypeOK, Nets
  <1> QED  BY <1>2, <1>3, <1>4, <1>5, <1>6 DEF Hear

LEMMA CloseRoomType ==
    ASSUME TypeOK, NEW h \in Host, CloseRoom(h)
    PROVE  TypeOK'
  <1>1. Closed \in Message
    BY DEF Closed, Message
  <1>2. \A c \in Channel : Append(net[c], Closed) \in Seq(Message)
    BY <1>1, AppendProperties DEF TypeOK
  <1>3. net' \in Nets
    BY <1>2 DEF CloseRoom, TypeOK, Nets
  <1> QED  BY <1>3 DEF CloseRoom, TypeOK, Nets

LEMMA NextType == TypeOK /\ [Next]_vars => TypeOK'
  <1> SUFFICES ASSUME TypeOK, [Next]_vars PROVE TypeOK'
    OBVIOUS
  <1>1. CASE UNCHANGED vars
    BY <1>1 DEF vars, TypeOK
  <1> QED  BY <1>1, PlayerType, PairType, CloseRoomType DEF Next

\* The state of players and hosts has its type, and nobody waits for a room
\* while he is in one (house_app::room_join_selected, _handle_room_join_ack).
THEOREM TypeCorrect == Spec => []TypeOK
  BY InitType, NextType, PTL DEF Spec

-----------------------------------------------------------------------------
(* What a step does to the channels *)

\* Nothing but what is between p and h changes: what p sent to h is out now,
\* and what h sent to p is in.
Between(q2, q, p, h, out, in) ==
    /\ q2[<<p, h>>] = out /\ q2[<<h, p>>] = in
    /\ \A p2 \in Player : q2[<<p2, p2>>] = q[<<p2, p2>>]
    /\ \A p2 \in Player, h2 \in Host :
          p2 # p \/ h2 # h => /\ q2[<<p2, h2>>] = q[<<p2, h2>>]
                              /\ q2[<<h2, p2>>] = q[<<h2, p2>>]

\* p speaks.
Spoken(q2, q, p, r) ==
    /\ q2[<<p, p>>] = Append(q[<<p, p>>], News(r))
    /\ \A h \in Host : q2[<<p, h>>] = Append(q[<<p, h>>], News(r))
    /\ \A p2 \in Player, h \in Host :
          /\ q2[<<h, p2>>] = q[<<h, p2>>]
          /\ p2 # p => q2[<<p2, h>>] = q[<<p2, h>>]
    /\ \A p2 \in Player : p2 # p => q2[<<p2, p2>>] = q[<<p2, p2>>]

LEMMA PairChannels ==
    ASSUME NEW p \in Player, NEW h \in Host
    PROVE  <<p, h>> \in Channel /\ <<h, p>> \in Channel /\ <<p, p>> \in Channel
  BY DEF Channel

LEMMA OneChannel ==
    ASSUME NEW p \in Player, NEW h \in Host, NEW q, NEW q2
    PROVE  /\ (\A c \in Channel : c # <<p, h>> => q2[c] = q[c])
                => Between(q2, q, p, h, q2[<<p, h>>], q[<<h, p>>])
           /\ (\A c \in Channel : c # <<h, p>> => q2[c] = q[c])
                => Between(q2, q, p, h, q[<<p, h>>], q2[<<h, p>>])
  <1>1. ASSUME NEW p2 \in Player, NEW h2 \in Host
        PROVE  /\ <<p2, h2>> \in Channel /\ <<h2, p2>> \in Channel
               /\ <<p2, h2>> # <<h, p>> /\ <<h2, p2>> # <<p, h>>
               /\ p2 # p \/ h2 # h => <<p2, h2>> # <<p, h>> /\ <<h2, p2>> # <<h, p>>
    BY ChannelsOf
  <1>2. ASSUME NEW p2 \in Player
        PROVE  <<p2, p2>> \in Channel /\ <<p2, p2>> # <<p, h>> /\ <<p2, p2>> # <<h, p>>
    BY SelfChannel
  <1> QED  BY <1>1, <1>2 DEF Between

LEMMA SpokenTold ==
    ASSUME NEW q \in Nets, NEW p \in Player, NEW r \in Place
    PROVE  Told(q, p, r) \in Nets /\ Spoken(Told(q, p, r), q, p, r)
  <1>1. /\ Told(q, p, r) \in Nets
        /\ \A c \in Channel : Told(q, p, r)[c] =
              IF c[1] = p THEN Append(q[c], News(r)) ELSE q[c]
    BY ToldNet
  <1>2. ASSUME NEW p2 \in Player, NEW h \in Host
        PROVE  /\ <<p2, h>> \in Channel /\ <<h, p2>> \in Channel
               /\ <<p2, h>>[1] = p2 /\ <<h, p2>>[1] = h /\ h # p
    BY PairChannels, RoomJoinAssumption
  <1>3. \A p2 \in Player : <<p2, p2>> \in Channel /\ <<p2, p2>>[1] = p2
    BY DEF Channel
  <1> QED  BY <1>1, <1>2, <1>3 DEF Spoken

\* A message from a player to a host is taken, and one from a host to a player.
LEMMA TakenOut ==
    ASSUME TypeOK, NEW p \in Player, NEW h \in Host, net[<<p, h>>] # <<>>
    PROVE  /\ Taken(p, h) \in Nets
           /\ Between(Taken(p, h), net, p, h, Tail(net[<<p, h>>]), net[<<h, p>>])
  <1>1. <<p, h>> \in Channel
    BY PairChannels
  <1>2. /\ Taken(p, h) \in Nets /\ Taken(p, h)[<<p, h>>] = Tail(net[<<p, h>>])
        /\ \A c \in Channel : c # <<p, h>> => Taken(p, h)[c] = net[c]
    BY <1>1, TakenNet
  <1>3. Between(Taken(p, h), net, p, h, Taken(p, h)[<<p, h>>], net[<<h, p>>])
    BY <1>2, OneChannel
  <1> QED  BY <1>2, <1>3

LEMMA TakenIn ==
    ASSUME TypeOK, NEW p \in Player, NEW h \in Host, net[<<h, p>>] # <<>>
    PROVE  /\ Taken(h, p) \in Nets
           /\ Between(Taken(h, p), net, p, h, net[<<p, h>>], Tail(net[<<h, p>>]))
  <1>1. <<h, p>> \in Channel
    BY PairChannels
  <1>2. /\ Taken(h, p) \in Nets /\ Taken(h, p)[<<h, p>>] = Tail(net[<<h, p>>])
        /\ \A c \in Channel : c # <<h, p>> => Taken(h, p)[c] = net[c]
    BY <1>1, TakenNet
  <1>3. Between(Taken(h, p), net, p, h, net[<<p, h>>], Taken(h, p)[<<h, p>>])
    BY <1>2, OneChannel
  <1> QED  BY <1>2, <1>3

\* And one from a player to himself.
LEMMA TakenSelf ==
    ASSUME TypeOK, NEW p \in Player, net[<<p, p>>] # <<>>
    PROVE  /\ Taken(p, p)[<<p, p>>] = Tail(net[<<p, p>>])
           /\ \A p2 \in Player, h2 \in Host :
                 /\ Taken(p, p)[<<p2, h2>>] = net[<<p2, h2>>]
                 /\ Taken(p, p)[<<h2, p2>>] = net[<<h2, p2>>]
           /\ \A p2 \in Player : p2 # p => Taken(p, p)[<<p2, p2>>] = net[<<p2, p2>>]
  <1>1. <<p, p>> \in Channel
    BY DEF Channel
  <1>2. /\ Taken(p, p)[<<p, p>>] = Tail(net[<<p, p>>])
        /\ \A c \in Channel : c # <<p, p>> => Taken(p, p)[c] = net[c]
    BY <1>1, TakenNet
  <1>3. ASSUME NEW p2 \in Player, NEW h2 \in Host
        PROVE  /\ Taken(p, p)[<<p2, h2>>] = net[<<p2, h2>>]
               /\ Taken(p, p)[<<h2, p2>>] = net[<<h2, p2>>]
    <2>1. /\ <<p2, h2>> \in Channel /\ <<h2, p2>> \in Channel
          /\ <<p, p>> # <<p2, h2>> /\ <<p, p>> # <<h2, p2>>
      BY PairChannels, SelfChannel
    <2> QED  BY <1>2, <2>1
  <1>4. ASSUME NEW p2 \in Player, p2 # p
        PROVE  Taken(p, p)[<<p2, p2>>] = net[<<p2, p2>>]
    <2>1. <<p2, p2>> \in Channel /\ <<p2, p2>> # <<p, p>>
      BY <1>4 DEF Channel
    <2> QED  BY <1>2, <2>1
  <1> QED  BY <1>2, <1>3, <1>4

\* A message is sent to a host, or to a player.
LEMMA SentOut ==
    ASSUME NEW q \in Nets, NEW p \in Player, NEW h \in Host, NEW m \in Message
    PROVE  Between(Sent(q, p, h, m), q, p, h, Append(q[<<p, h>>], m), q[<<h, p>>])
  <1>1. <<p, h>> \in Channel
    BY PairChannels
  <1>2. /\ Sent(q, p, h, m)[<<p, h>>] = Append(q[<<p, h>>], m)
        /\ \A c \in Channel : c # <<p, h>> => Sent(q, p, h, m)[c] = q[c]
    BY <1>1, SentNet
  <1>3. Between(Sent(q, p, h, m), q, p, h, Sent(q, p, h, m)[<<p, h>>], q[<<h, p>>])
    BY <1>2, OneChannel
  <1> QED  BY <1>2, <1>3

LEMMA SentIn ==
    ASSUME NEW q \in Nets, NEW p \in Player, NEW h \in Host, NEW m \in Message
    PROVE  Between(Sent(q, h, p, m), q, p, h, q[<<p, h>>], Append(q[<<h, p>>], m))
  <1>1. <<h, p>> \in Channel
    BY PairChannels
  <1>2. /\ Sent(q, h, p, m)[<<h, p>>] = Append(q[<<h, p>>], m)
        /\ \A c \in Channel : c # <<h, p>> => Sent(q, h, p, m)[c] = q[c]
    BY <1>1, SentNet
  <1>3. Between(Sent(q, h, p, m), q, p, h, q[<<p, h>>], Sent(q, h, p, m)[<<h, p>>])
    BY <1>2, OneChannel
  <1> QED  BY <1>2, <1>3

\* A host takes a join and answers it.
LEMMA TakenAnswered ==
    ASSUME TypeOK, NEW p \in Player, NEW h \in Host, net[<<p, h>>] # <<>>,
           NEW m \in Message
    PROVE  Between(Sent(Taken(p, h), h, p, m), net, p, h,
                   Tail(net[<<p, h>>]), Append(net[<<h, p>>], m))
  <1> DEFINE t == Taken(p, h)
  <1>1. t \in Nets /\ Between(t, net, p, h, Tail(net[<<p, h>>]), net[<<h, p>>])
    BY TakenOut
  <1> HIDE DEF t
  <1>2. Between(Sent(t, h, p, m), t, p, h, t[<<p, h>>], Append(t[<<h, p>>], m))
    BY <1>1, SentIn
  <1>3. Between(Sent(t, h, p, m), net, p, h,
                Tail(net[<<p, h>>]), Append(net[<<h, p>>], m))
    BY <1>1, <1>2 DEF Between
  <1> QED  BY <1>3 DEF t

\* A message of a host is taken, and the player speaks.
LEMMA TakenSpoken ==
    ASSUME TypeOK, NEW p \in Player, NEW h \in Host, net[<<h, p>>] # <<>>,
           NEW r \in Place
    PROVE  Spoken(Told(Taken(h, p), p, r), Taken(h, p), p, r)
  BY TakenIn, SpokenTold

\* A message of h is taken, and p speaks or does not.
Took(p, h, r, tells) ==
    /\ net'[<<h, p>>] = Tail(net[<<h, p>>])
    /\ \A p2 \in Player, h2 \in Host :
          p2 # p \/ h2 # h => net'[<<h2, p2>>] = net[<<h2, p2>>]
    /\ \A p2 \in Player : p2 # p => net'[<<p2, p2>>] = net[<<p2, p2>>]
    /\ \A p2 \in Player, h2 \in Host :
          p2 # p => net'[<<p2, h2>>] = net[<<p2, h2>>]
    /\ net'[<<p, p>>] = IF tells THEN Append(net[<<p, p>>], News(r))
                        ELSE net[<<p, p>>]
    /\ \A h2 \in Host : net'[<<p, h2>>] =
          IF tells THEN Append(net[<<p, h2>>], News(r)) ELSE net[<<p, h2>>]

LEMMA PlayerTakes ==
    ASSUME TypeOK, NEW p \in Player, NEW h \in Host, net[<<h, p>>] # <<>>,
           NEW r \in Place, NEW tells \in BOOLEAN,
           net' = IF tells THEN Told(Taken(h, p), p, r) ELSE Taken(h, p)
    PROVE  Took(p, h, r, tells)
  <1> DEFINE t == Taken(h, p)
  <1>1. Between(t, net, p, h, net[<<p, h>>], Tail(net[<<h, p>>]))
    BY TakenIn
  <1>2. tells => Spoken(net', t, p, r)
    BY TakenSpoken
  <1>3. ~tells => net' = t
    OBVIOUS
  <1> HIDE DEF t
  <1>4. \A h2 \in Host : t[<<p, h2>>] = net[<<p, h2>>]
    <2> TAKE h2 \in Host
    <2>1. CASE h2 = h
      BY <1>1, <2>1 DEF Between
    <2>2. CASE h2 # h
      BY <1>1, <2>2 DEF Between
    <2> QED  BY <2>1, <2>2
  <1>5. /\ \A p2 \in Player, h2 \in Host :
              p2 # p => t[<<p2, h2>>] = net[<<p2, h2>>]
        /\ \A p2 \in Player, h2 \in Host :
              p2 # p \/ h2 # h => t[<<h2, p2>>] = net[<<h2, p2>>]
        /\ \A p2 \in Player : t[<<p2, p2>>] = net[<<p2, p2>>]
        /\ t[<<h, p>>] = Tail(net[<<h, p>>])
    BY <1>1 DEF Between
  <1>6. CASE tells
    <2>1. /\ net'[<<p, p>>] = Append(t[<<p, p>>], News(r))
          /\ \A h2 \in Host : net'[<<p, h2>>] = Append(t[<<p, h2>>], News(r))
          /\ \A p2 \in Player, h2 \in Host : net'[<<h2, p2>>] = t[<<h2, p2>>]
          /\ \A p2 \in Player, h2 \in Host :
                p2 # p => net'[<<p2, h2>>] = t[<<p2, h2>>]
          /\ \A p2 \in Player : p2 # p => net'[<<p2, p2>>] = t[<<p2, p2>>]
      BY <1>2, <1>6 DEF Spoken
    <2>2. \A h2 \in Host : net'[<<p, h2>>] = Append(net[<<p, h2>>], News(r))
      BY <1>4, <2>1
    <2>3. /\ net'[<<p, p>>] = Append(net[<<p, p>>], News(r))
          /\ \A p2 \in Player : p2 # p => net'[<<p2, p2>>] = net[<<p2, p2>>]
          /\ net'[<<h, p>>] = Tail(net[<<h, p>>])
      BY <1>5, <2>1
    <2>4. /\ \A p2 \in Player, h2 \in Host :
                p2 # p \/ h2 # h => net'[<<h2, p2>>] = net[<<h2, p2>>]
          /\ \A p2 \in Player, h2 \in Host :
                p2 # p => net'[<<p2, h2>>] = net[<<p2, h2>>]
      BY <1>5, <2>1
    <2> QED  BY <1>6, <2>2, <2>3, <2>4 DEF Took
  <1>7. CASE ~tells
    <2>1. net' = t
      BY <1>3, <1>7
    <2>2. /\ net'[<<p, p>>] = net[<<p, p>>]
          /\ \A h2 \in Host : net'[<<p, h2>>] = net[<<p, h2>>]
          /\ \A p2 \in Player, h2 \in Host :
                p2 # p => net'[<<p2, h2>>] = net[<<p2, h2>>]
          /\ \A p2 \in Player, h2 \in Host :
                p2 # p \/ h2 # h => net'[<<h2, p2>>] = net[<<h2, p2>>]
          /\ \A p2 \in Player : p2 # p => net'[<<p2, p2>>] = net[<<p2, p2>>]
          /\ net'[<<h, p>>] = Tail(net[<<h, p>>])
      BY <1>4, <1>5, <2>1
    <2> QED  BY <1>7, <2>2 DEF Took
  <1> QED  BY <1>6, <1>7

LEMMA ClosedChannels ==
    ASSUME TypeOK, NEW g \in Host, CloseRoom(g), NEW p \in Player, NEW h \in Host
    PROVE  /\ net'[<<p, h>>] = net[<<p, h>>] /\ net'[<<p, p>>] = net[<<p, p>>]
           /\ net'[<<h, p>>] = IF h = g THEN Append(net[<<h, p>>], Closed)
                               ELSE net[<<h, p>>]
  <1>1. \A c \in Channel : net'[c] = IF c[1] = g THEN Append(net[c], Closed) ELSE net[c]
    BY DEF CloseRoom
  <1>2. /\ p # g /\ <<p, h>>[1] = p /\ <<h, p>>[1] = h /\ <<p, p>>[1] = p
        /\ <<p, h>> \in Channel /\ <<h, p>> \in Channel /\ <<p, p>> \in Channel
    BY PairChannels, RoomJoinAssumption
  <1> QED  BY <1>1, <1>2

-----------------------------------------------------------------------------
(* The window of a room *)

\* The window shows a room that is listed, and the one its user is in unless
\* one opened for a room he had left.  The newest update on his way to
\* himself says where he is; when there is none, his house model knows it,
\* and a room it has listed is shown.
Shown(p) ==
    /\ window[p] # None => window[p] \in listed[p]
    /\ ~reopened /\ window[p] # None => room[p] = window[p]
    /\ Newest(net[<<p, p>>], Updates, {News(room[p])})
    /\ ~Holds(net[<<p, p>>], Updates) => own[p] = room[p]
    /\ ~reopened /\ ~Holds(net[<<p, p>>], Updates) /\ own[p] \in listed[p]
          => window[p] = own[p]

\* A room is listed until its host has closed it and the player heard so.
Announced(p, h) ==
    /\ h \in hosting => h \in listed[p] /\ ~Holds(net[<<h, p>>], {Closed})
    /\ h \in listed[p] => h \in hosting \/ Holds(net[<<h, p>>], {Closed})

WindowInv == /\ \A p \in Player : Shown(p)
             /\ \A p \in Player, h \in Host : Announced(p, h)

\* A window closes, or p says where he is without one.
LEMMA ShownTold ==
    ASSUME NEW q \in Seq(Message), NEW r \in Place
    PROVE  /\ Newest(Append(q, News(r)), Updates, {News(r)})
           /\ Holds(Append(q, News(r)), Updates)
  <1>1. News(r) \in Message /\ News(r) \in Updates
    BY DEF News, Message, Updates
  <1> QED  BY <1>1, AfterAppend, OrderAfterAppend

LEMMA InitWindow == ASSUME Init PROVE WindowInv
  <1>1. \A c \in Channel : net[c] = <<>>
    BY DEF Init
  <1>2. \A S : ~Holds(<<>>, S) /\ \A T : Newest(<<>>, S, T)
    BY DEF Holds, Newest
  <1>3. ASSUME NEW p \in Player PROVE Shown(p)
    <2>1. net[<<p, p>>] = <<>> /\ None \notin Host
      BY <1>1, RoomJoinAssumption DEF Channel
    <2>2. window[p] = None /\ own[p] = None /\ room[p] = None /\ listed[p] = Host
      BY DEF Init
    <2> QED  BY <1>2, <2>1, <2>2 DEF Shown
  <1>4. ASSUME NEW p \in Player, NEW h \in Host PROVE Announced(p, h)
    <2>1. net[<<h, p>>] = <<>>
      BY <1>1, ChannelsOf
    <2> QED  BY <1>2, <2>1 DEF Announced, Init
  <1> QED  BY <1>3, <1>4 DEF WindowInv

\* What others do, and what is between a player and a host, is not seen.
LEMMA ShownSame ==
    ASSUME NEW p \in Player, Shown(p), net'[<<p, p>>] = net[<<p, p>>],
           window'[p] = window[p], room'[p] = room[p], own'[p] = own[p],
           listed'[p] \subseteq listed[p],
           window[p] # None => window[p] \in listed'[p],
           ~reopened' => ~reopened
    PROVE  Shown(p)'
  BY DEF Shown

LEMMA AnnouncedSame ==
    ASSUME NEW p \in Player, NEW h \in Host, Announced(p, h),
           hosting' = hosting, listed'[p] = listed[p],
           Holds(net'[<<h, p>>], {Closed}) <=> Holds(net[<<h, p>>], {Closed})
    PROVE  Announced(p, h)'
  BY DEF Announced

\* Whoever tells where he is has no window, or is in the room it shows.
LEMMA ShownTelling ==
    ASSUME NEW p \in Player, Shown(p), NEW q \in Seq(Message),
           net'[<<p, p>>] = Append(q, News(room'[p])), room'[p] \in Place,
           window'[p] # None => window'[p] \in listed'[p],
           ~reopened' /\ window'[p] # None => room'[p] = window'[p]
    PROVE  Shown(p)'
  <1>1. /\ Newest(net'[<<p, p>>], Updates, {News(room'[p])})
        /\ Holds(net'[<<p, p>>], Updates)
    BY ShownTold
  <1> QED  BY <1>1 DEF Shown

\* The player speaks, and the rest is as it was.
LEMMA WindowTold ==
    ASSUME TypeOK, WindowInv, NEW p \in Player, NEW r \in Place,
           net' = Told(net, p, r), room' = [room EXCEPT ![p] = r],
           \/ window' = window /\ (~reopened => window[p] = None \/ r = window[p])
           \/ window' = [window EXCEPT ![p] = None],
           UNCHANGED <<hosting, own, listed, reopened>>
    PROVE  WindowInv'
  <1>1. Spoken(net', net, p, r)
    BY SpokenTold DEF TypeOK, Nets
  <1>2. ASSUME NEW p2 \in Player PROVE Shown(p2)'
    <2>1. CASE p2 = p
      <3>1. net'[<<p, p>>] = Append(net[<<p, p>>], News(r)) /\ room'[p] = r
        BY <1>1 DEF Spoken, TypeOK
      <3>2. net[<<p, p>>] \in Seq(Message)
        BY DEF TypeOK, Channel
      <3>3. window'[p] # None => window'[p] = window[p] /\ (~reopened => r = window[p])
        BY DEF TypeOK
      <3> QED  BY <2>1, <3>1, <3>2, <3>3, ShownTelling DEF WindowInv, Shown
    <2>2. CASE p2 # p
      <3>1. net'[<<p2, p2>>] = net[<<p2, p2>>]
        BY <1>1, <2>2 DEF Spoken
      <3>2. room'[p2] = room[p2] /\ window'[p2] = window[p2]
        BY <2>2 DEF TypeOK
      <3> QED  BY <3>1, <3>2, ShownSame DEF WindowInv, Shown
    <2> QED  BY <2>1, <2>2
  <1>3. ASSUME NEW p2 \in Player, NEW h2 \in Host PROVE Announced(p2, h2)'
    <2>1. net'[<<h2, p2>>] = net[<<h2, p2>>]
      BY <1>1 DEF Spoken
    <2> QED  BY <2>1, AnnouncedSame DEF WindowInv
  <1> QED  BY <1>2, <1>3 DEF WindowInv

LEMMA InterruptWindow ==
    ASSUME TypeOK, WindowInv, NEW p \in Player,
           Interrupt(p) \/ UserSend(p) \/ CloseWindow(p)
    PROVE  WindowInv'
  <1>1. room[p] \in Place /\ room = [room EXCEPT ![p] = room[p]] /\ None \in Place
    BY DEF TypeOK, Place
  <1>2. ~reopened => window[p] = None \/ room[p] = window[p]
    BY DEF WindowInv, Shown
  <1>3. CASE Interrupt(p) \/ UserSend(p)
    <2>1. /\ net' = Told(net, p, room[p]) /\ room' = [room EXCEPT ![p] = room[p]]
          /\ window' = window /\ UNCHANGED <<hosting, own, listed, reopened>>
      BY <1>1, <1>3 DEF Interrupt, UserSend
    <2> QED  BY <1>1, <1>2, <2>1, WindowTold
  <1>4. CASE CloseWindow(p)
    BY <1>1, <1>4, WindowTold DEF CloseWindow, RoomDestroyed
  <1> QED  BY <1>3, <1>4

\* p hears of himself, or of somebody else: a window may open.
LEMMA HearingWindow ==
    ASSUME TypeOK, WindowInv, NEW p \in Player, HearSelf(p) \/ HearOther(p)
    PROVE  WindowInv'
  <1> DEFINE q == net[<<p, p>>]
  <1>1. <<p, p>> \in Channel /\ q \in Seq(Message) /\ own[p] \in Place
    BY DEF TypeOK, Channel
  <1>2. /\ CondOpen(p, own'[p]) /\ UNCHANGED <<hosting, room, listed>>
        /\ \A p2 \in Player : p2 # p => own'[p2] = own[p2] /\ window'[p2] = window[p2]
        /\ window'[p] = IF Opens(p, own'[p]) THEN own'[p] ELSE window[p]
        /\ ~reopened' => ~reopened /\ (Opens(p, own'[p]) => room[p] = own'[p])
    BY DEF HearSelf, HearOther, CondOpen, TypeOK
  <1>3. /\ \A p2 \in Player, h2 \in Host : net'[<<h2, p2>>] = net[<<h2, p2>>]
        /\ \A p2 \in Player : p2 # p => net'[<<p2, p2>>] = net[<<p2, p2>>]
    <2>1. CASE HearSelf(p)
      <3>1. q # <<>>
        BY <1>1, <2>1, ArrivedType DEF HearSelf
      <3> QED  BY <2>1, <3>1, TakenSelf DEF HearSelf
    <2>2. CASE HearOther(p)
      BY <2>2 DEF HearOther
    <2> QED  BY <2>1, <2>2
  <1>4. /\ Newest(net'[<<p, p>>], Updates, {News(room[p])})
        /\ ~Holds(net'[<<p, p>>], Updates) => own'[p] = room[p]
    <2>1. CASE HearSelf(p)
      <3>1. q # <<>> /\ Head(q) \in Message /\ Head(q).kind = "user"
        BY <1>1, <2>1, ArrivedType DEF HearSelf
      <3>2. net'[<<p, p>>] = Tail(q) /\ own'[p] = Head(q).room
        BY <2>1, <3>1, TakenSelf DEF HearSelf, TypeOK
      <3>3. /\ Head(q) \in Updates
            /\ Newest(q, Updates, {News(room[p])})
        BY <3>1 DEF Updates, WindowInv, Shown
      <3>4. /\ Newest(Tail(q), Updates, {News(room[p])})
            /\ Head(q) \in {News(room[p])} \/ Holds(Tail(q), Updates)
        BY <1>1, <3>1, <3>3, OrderAfterTail
      <3>5. News(room[p]).room = room[p]
        BY DEF News
      <3> QED  BY <3>2, <3>4, <3>5
    <2>2. CASE HearOther(p)
      BY <2>2 DEF HearOther, WindowInv, Shown
    <2> QED  BY <2>1, <2>2
  <1>5. Shown(p)'
    <2>1. Shown(p)
      BY DEF WindowInv
    <2>2. window'[p] # None => window'[p] \in listed'[p]
      BY <1>2, <2>1 DEF Opens, Shown
    <2>3. ~reopened' /\ window'[p] # None => room'[p] = window'[p]
      BY <1>2, <2>1 DEF Shown
    <2>4. ~reopened' /\ ~Holds(net'[<<p, p>>], Updates) /\ own'[p] \in listed'[p]
             => window'[p] = own'[p]
      BY <1>2, <1>4, <2>1 DEF Opens, Shown
    <2> QED  BY <1>2, <1>4, <2>2, <2>3, <2>4 DEF Shown
  <1>6. ASSUME NEW p2 \in Player, p2 # p PROVE Shown(p2)'
    BY <1>2, <1>3, <1>6, ShownSame DEF WindowInv, Shown
  <1>7. ASSUME NEW p2 \in Player, NEW h2 \in Host PROVE Announced(p2, h2)'
    BY <1>2, <1>3, AnnouncedSame DEF WindowInv
  <1> QED  BY <1>5, <1>6, <1>7 DEF WindowInv

\* A step that touches no room, no window and not what the hosts announced.
LEMMA WindowSame ==
    ASSUME TypeOK, WindowInv,
           UNCHANGED <<hosting, room, own, listed, window, reopened>>,
           \A p \in Player : net'[<<p, p>>] = net[<<p, p>>],
           \A p \in Player, h \in Host :
              Holds(net'[<<h, p>>], {Closed}) <=> Holds(net[<<h, p>>], {Closed})
    PROVE  WindowInv'
  <1>1. ASSUME NEW p \in Player PROVE Shown(p)'
    BY ShownSame DEF WindowInv, Shown
  <1>2. ASSUME NEW p \in Player, NEW h \in Host PROVE Announced(p, h)'
    BY AnnouncedSame DEF WindowInv
  <1> QED  BY <1>1, <1>2 DEF WindowInv

LEMMA BetweenWindow ==
    ASSUME TypeOK, WindowInv, NEW p \in Player, NEW h \in Host, NEW out, NEW in,
           UNCHANGED <<hosting, room, own, listed, window, reopened>>,
           Between(net', net, p, h, out, in),
           Holds(in, {Closed}) <=> Holds(net[<<h, p>>], {Closed})
    PROVE  WindowInv'
  <1>1. ASSUME NEW p2 \in Player, NEW h2 \in Host
        PROVE  Holds(net'[<<h2, p2>>], {Closed}) <=> Holds(net[<<h2, p2>>], {Closed})
    <2>1. CASE p2 = p /\ h2 = h
      BY <2>1 DEF Between
    <2>2. CASE p2 # p \/ h2 # h
      BY <2>2 DEF Between
    <2> QED  BY <2>1, <2>2
  <1>2. \A p2 \in Player : net'[<<p2, p2>>] = net[<<p2, p2>>]
    BY DEF Between
  <1> QED  BY <1>1, <1>2, WindowSame

LEMMA SelectedWindow ==
    ASSUME TypeOK, WindowInv, NEW p \in Player, NEW h \in Host, RoomJoinSelected(p, h)
    PROVE  WindowInv'
  <1>1. PICK good \in BOOLEAN : net' = Sent(net, p, h, Join(tries[p] + 1, good))
    BY DEF RoomJoinSelected
  <1>2. Join(tries[p] + 1, good) \in Message /\ net \in Nets
    BY RoomJoinAssumption DEF RoomJoinSelected, TypeOK, Join, Message, Nets
  <1>3. Between(net', net, p, h, net'[<<p, h>>], net[<<h, p>>])
    <2>1. Between(net', net, p, h, Append(net[<<p, h>>], Join(tries[p] + 1, good)), net[<<h, p>>])
      BY <1>1, <1>2, SentOut
    <2> QED  BY <2>1 DEF Between
  <1>4. UNCHANGED <<hosting, room, own, listed, window, reopened>>
    BY DEF RoomJoinSelected
  <1> QED  BY <1>3, <1>4, BetweenWindow

LEMMA HostWindow ==
    ASSUME TypeOK, WindowInv, NEW p \in Player, NEW h \in Host,
           HandleRoomJoin(h, p) \/ HearUser(h, p)
    PROVE  WindowInv'
  <1>1. <<p, h>> \in Channel /\ <<h, p>> \in Channel
    BY PairChannels
  <1>2. net[<<p, h>>] # <<>> /\ net[<<h, p>>] \in Seq(Message)
    BY <1>1, ArrivedType DEF HandleRoomJoin, HearUser, TypeOK
  <1>3. UNCHANGED <<hosting, room, own, listed, window, reopened>>
    BY DEF HandleRoomJoin, HearUser
  <1>4. CASE net' = Taken(p, h)
    <2>1. Between(net', net, p, h, Tail(net[<<p, h>>]), net[<<h, p>>])
      BY <1>2, <1>4, TakenOut
    <2> QED  BY <1>3, <2>1, BetweenWindow
  <1>5. ASSUME NEW m \in Message, m.kind \in Answers, net' = Sent(Taken(p, h), h, p, m)
        PROVE  WindowInv'
    <2>1. Between(net', net, p, h, Tail(net[<<p, h>>]), Append(net[<<h, p>>], m))
      BY <1>2, <1>5, TakenAnswered
    <2>2. m \notin {Closed}
      BY <1>5 DEF Closed, Answers
    <2>3. Holds(Append(net[<<h, p>>], m), {Closed}) <=> Holds(net[<<h, p>>], {Closed})
      BY <1>2, <2>2, AfterAppend
    <2> QED  BY <1>3, <2>1, <2>3, BetweenWindow
  <1>6. \A k \in Answers : HandleRoomJoin(h, p) =>
           /\ Answer(k, Head(net[<<p, h>>]).seq) \in Message
           /\ Answer(k, Head(net[<<p, h>>]).seq).kind \in Answers
    BY <1>1, ArrivedType, MessageKinds DEF HandleRoomJoin, Answer
  <1>7. \/ net' = Taken(p, h)
        \/ HandleRoomJoin(h, p) /\ \E k \in Answers :
              net' = Sent(Taken(p, h), h, p, Answer(k, Head(net[<<p, h>>]).seq))
    BY DEF HandleRoomJoin, HearUser, Answers
  <1> QED  BY <1>4, <1>5, <1>6, <1>7

LEMMA TakeAnswerWindow ==
    ASSUME TypeOK, WindowInv, NEW p \in Player, NEW h \in Host, TakeAnswer(p, h)
    PROVE  WindowInv'
  <1> DEFINE m == Head(net[<<h, p>>])
             tells == joining[p] # None /\ m.kind = "room_join_ack"
             r == joining[p]
  <1>1. /\ net[<<h, p>>] # <<>> /\ m \in Message
        /\ m.kind \in Answers /\ net[<<h, p>>] \in Seq(Message)
    BY PairChannels, ArrivedType DEF TakeAnswer
  <1>2. /\ net' = IF tells THEN Told(Taken(h, p), p, r) ELSE Taken(h, p)
        /\ room' = IF tells THEN [room EXCEPT ![p] = r] ELSE room
        /\ UNCHANGED <<hosting, own, listed, window, reopened>>
    BY DEF TakeAnswer
  <1>3. r \in Place /\ tells \in BOOLEAN /\ net[<<p, p>>] \in Seq(Message)
    BY DEF TypeOK, Channel
  <1>4. ~reopened /\ tells => window[p] = None
    BY DEF TypeOK, WindowInv, Shown
  <1>5. ~Holds(net[<<h, p>>], {Closed}) <=> ~Holds(Tail(net[<<h, p>>]), {Closed})
    <2>1. m \notin {Closed}
      BY <1>1 DEF Closed, Answers
    <2> QED  BY <1>1, <2>1, AfterTail
  <1> HIDE DEF m, tells, r
  <1>6. /\ net'[<<h, p>>] = Tail(net[<<h, p>>])
        /\ \A p2 \in Player, h2 \in Host :
              p2 # p \/ h2 # h => net'[<<h2, p2>>] = net[<<h2, p2>>]
        /\ \A p2 \in Player : p2 # p => net'[<<p2, p2>>] = net[<<p2, p2>>]
        /\ net'[<<p, p>>] = IF tells THEN Append(net[<<p, p>>], News(r))
                            ELSE net[<<p, p>>]
    <2>1. Took(p, h, r, tells)
      BY <1>1, <1>2, <1>3, PlayerTakes
    <2> QED  BY <2>1 DEF Took
  <1>7. ASSUME NEW p2 \in Player PROVE Shown(p2)'
    <2>1. Shown(p2)
      BY DEF WindowInv
    <2>2. CASE p2 = p /\ tells
      <3>1. room'[p] = r /\ net'[<<p, p>>] = Append(net[<<p, p>>], News(room'[p]))
        BY <1>2, <1>6, <2>2 DEF TypeOK
      <3>2. /\ window'[p] # None => window'[p] \in listed'[p]
            /\ ~reopened' => window'[p] = None
        BY <1>2, <1>4, <2>1, <2>2 DEF Shown
      <3> QED  BY <1>3, <2>1, <2>2, <3>1, <3>2, ShownTelling
    <2>3. CASE ~(p2 = p /\ tells)
      <3>1. room'[p2] = room[p2] /\ net'[<<p2, p2>>] = net[<<p2, p2>>]
        BY <1>2, <1>6, <2>3 DEF TypeOK
      <3>2. UNCHANGED <<window, own, listed, reopened>>
        BY <1>2
      <3>3. window[p2] # None => window[p2] \in listed'[p2]
        BY <2>1, <3>2 DEF Shown
      <3> QED  BY <2>1, <3>1, <3>2, <3>3, ShownSame
    <2> QED  BY <2>2, <2>3
  <1>8. ASSUME NEW p2 \in Player, NEW h2 \in Host PROVE Announced(p2, h2)'
    <2>1. Holds(net'[<<h2, p2>>], {Closed}) <=> Holds(net[<<h2, p2>>], {Closed})
      BY <1>5, <1>6
    <2> QED  BY <1>2, <2>1, AnnouncedSame DEF WindowInv
  <1> QED  BY <1>7, <1>8 DEF WindowInv

LEMMA RemovedWindow ==
    ASSUME TypeOK, WindowInv, NEW p \in Player, NEW h \in Host, RoomRemoved(p, h)
    PROVE  WindowInv'
  <1> DEFINE tells == window[p] = h
  <1>1. /\ net[<<h, p>>] # <<>> /\ net[<<h, p>>] \in Seq(Message)
        /\ Head(net[<<h, p>>]) = Closed
    <2>1. <<h, p>> \in Channel
      BY PairChannels
    <2>2. /\ net[<<h, p>>] # <<>> /\ net[<<h, p>>] \in Seq(Message)
          /\ Head(net[<<h, p>>]) \in Message
          /\ Head(net[<<h, p>>]).kind \in {"room_remove"}
      BY <2>1, ArrivedType DEF RoomRemoved
    <2> QED  BY <2>2, MessageKinds
  <1>2. /\ net' = IF tells THEN Told(Taken(h, p), p, None) ELSE Taken(h, p)
        /\ room' = IF tells THEN [room EXCEPT ![p] = None] ELSE room
        /\ window' = IF tells THEN [window EXCEPT ![p] = None] ELSE window
        /\ listed' = [listed EXCEPT ![p] = @ \ {h}]
        /\ UNCHANGED <<hosting, own, reopened>>
    BY DEF RoomRemoved, RoomDestroyed
  <1>3. /\ None \in Place /\ tells \in BOOLEAN /\ net[<<p, p>>] \in Seq(Message)
    BY DEF TypeOK, Channel, Place
  <1>4. h \notin hosting
    <2>1. Holds(net[<<h, p>>], {Closed})
      BY <1>1, AfterTail
    <2> QED  BY <2>1 DEF WindowInv, Announced
  <1>5. ~tells => window[p] # h
    OBVIOUS
  <1> HIDE DEF tells
  <1>6. /\ net'[<<h, p>>] = Tail(net[<<h, p>>])
        /\ \A p2 \in Player, h2 \in Host :
              p2 # p \/ h2 # h => net'[<<h2, p2>>] = net[<<h2, p2>>]
        /\ \A p2 \in Player : p2 # p => net'[<<p2, p2>>] = net[<<p2, p2>>]
        /\ net'[<<p, p>>] = IF tells THEN Append(net[<<p, p>>], News(None))
                            ELSE net[<<p, p>>]
    <2>1. Took(p, h, None, tells)
      BY <1>1, <1>2, <1>3, PlayerTakes
    <2> QED  BY <2>1 DEF Took
  <1>7. ASSUME NEW p2 \in Player PROVE Shown(p2)'
    <2>1. Shown(p2)
      BY DEF WindowInv
    <2>2. CASE p2 = p /\ tells
      <3>1. room'[p] = None /\ net'[<<p, p>>] = Append(net[<<p, p>>], News(room'[p]))
        BY <1>2, <1>6, <2>2 DEF TypeOK
      <3>2. window'[p] = None
        BY <1>2, <2>2 DEF TypeOK
      <3> QED  BY <1>3, <2>1, <2>2, <3>1, <3>2, ShownTelling
    <2>3. CASE ~(p2 = p /\ tells)
      <3>1. room'[p2] = room[p2] /\ net'[<<p2, p2>>] = net[<<p2, p2>>]
            /\ window'[p2] = window[p2]
        BY <1>2, <1>6, <2>3 DEF TypeOK
      <3>2. listed'[p2] \subseteq listed[p2] /\ (window[p2] # None => window[p2] \in listed'[p2])
        BY <1>2, <1>5, <2>1, <2>3 DEF Shown, TypeOK
      <3> QED  BY <1>2, <2>1, <3>1, <3>2, ShownSame
    <2> QED  BY <2>2, <2>3
  <1>8. ASSUME NEW p2 \in Player, NEW h2 \in Host PROVE Announced(p2, h2)'
    <2>1. Announced(p2, h2)
      BY DEF WindowInv
    <2>2. CASE p2 = p /\ h2 = h
      BY <1>2, <1>4, <2>2 DEF Announced, TypeOK
    <2>3. CASE ~(p2 = p /\ h2 = h)
      <3>1. net'[<<h2, p2>>] = net[<<h2, p2>>] /\ (h2 \in listed'[p2] <=> h2 \in listed[p2])
        BY <1>2, <1>6, <2>3 DEF TypeOK
      <3> QED  BY <1>2, <2>1, <3>1 DEF Announced
    <2> QED  BY <2>2, <2>3
  <1> QED  BY <1>7, <1>8 DEF WindowInv

LEMMA ClosingWindow ==
    ASSUME TypeOK, WindowInv, NEW g \in Host, CloseRoom(g)
    PROVE  WindowInv'
  <1>1. /\ hosting' = hosting \ {g}
        /\ UNCHANGED <<room, own, listed, window, reopened>>
    BY DEF CloseRoom
  <1>2. ASSUME NEW p \in Player PROVE Shown(p)'
    <2>1. net'[<<p, p>>] = net[<<p, p>>]
      BY ClosedChannels
    <2> QED  BY <1>1, <2>1, ShownSame DEF WindowInv, Shown
  <1>3. ASSUME NEW p \in Player, NEW h \in Host PROVE Announced(p, h)'
    <2>1. Announced(p, h) /\ Closed \in Message /\ Closed \in {Closed}
      BY DEF WindowInv, Message
    <2>2. CASE h = g
      <3>1. net'[<<h, p>>] = Append(net[<<h, p>>], Closed) /\ net[<<h, p>>] \in Seq(Message)
        BY <2>2, ClosedChannels, PairChannels DEF TypeOK
      <3>2. Holds(net'[<<h, p>>], {Closed})
        BY <2>1, <3>1, AfterAppend
      <3> QED  BY <1>1, <2>2, <3>2 DEF Announced
    <2>3. CASE h # g
      <3>1. net'[<<h, p>>] = net[<<h, p>>]
        BY <2>3, ClosedChannels
      <3> QED  BY <1>1, <2>1, <2>3, <3>1 DEF Announced
    <2> QED  BY <2>2, <2>3
  <1> QED  BY <1>2, <1>3 DEF WindowInv

LEMMA NextWindow ==
    ASSUME TypeOK, WindowInv, [Next]_vars
    PROVE  WindowInv'
  <1>1. CASE UNCHANGED vars
    BY <1>1 DEF vars, WindowInv, Shown, Announced
  <1> QED
    BY <1>1, InterruptWindow, HearingWindow, SelectedWindow, HostWindow,
       TakeAnswerWindow, RemovedWindow, ClosingWindow DEF Next, Hear

\* Once all messages have arrived, the window of the room a player is in is
\* open if the room is, and no other one (house_app::_cond_open_room_window).
THEOREM WindowShowsRoomHolds == Spec => []WindowShowsRoom
  <1>1. TypeOK /\ WindowInv => WindowShowsRoom
    <2> SUFFICES ASSUME TypeOK, WindowInv, Quiet, ~reopened, NEW p \in Player
                 PROVE  window[p] = IF room[p] \in hosting THEN room[p] ELSE None
      BY DEF WindowShowsRoom
    <2>1. ASSUME NEW a, NEW b, <<a, b>> \in Channel, NEW S
          PROVE  ~Holds(net[<<a, b>>], S)
      BY <2>1 DEF Quiet, Holds
    <2>2. <<p, p>> \in Channel /\ \A h \in Host : <<h, p>> \in Channel
      BY DEF Channel
    <2>3. /\ own[p] = room[p]
          /\ own[p] \in listed[p] => window[p] = own[p]
          /\ window[p] # None => window[p] \in listed[p] /\ room[p] = window[p]
      BY <2>1, <2>2 DEF WindowInv, Shown
    <2>4. \A h \in Host : h \in hosting <=> h \in listed[p]
      BY <2>1, <2>2 DEF WindowInv, Announced
    <2> QED  BY <2>3, <2>4 DEF TypeOK
  <1>2. TypeOK /\ WindowInv /\ [Next]_vars => WindowInv'
    BY NextWindow
  <1>3. Init => WindowInv
    BY InitWindow
  <1> QED  BY <1>1, <1>2, <1>3, TypeCorrect, PTL DEF Spec

-----------------------------------------------------------------------------
(* The seats *)

\* Nobody took the answer to an earlier join, or sent an update that could
\* have overwritten his reservation.
Calm == ~crossed /\ ~reopened /\ updates = 0

PairInv(p, h) ==
    /\ Asked(h, joining[p], tries[p], net[<<p, h>>], net[<<h, p>>])
    /\ ~crossed => Seat(h, joining[p], tries[p], room[p], view[h][p],
                        net[<<p, h>>], net[<<h, p>>])
    /\ Calm => Kept(h, joining[p], tries[p], room[p], view[h][p],
                    net[<<p, h>>], net[<<h, p>>])

SeatInv == \A p \in Player, h \in Host : PairInv(p, h)

LEMMA PairOfType ==
    ASSUME TypeOK, NEW p \in Player, NEW h \in Host
    PROVE  /\ net[<<p, h>>] \in Seq(Message) /\ net[<<h, p>>] \in Seq(Message)
           /\ tries[p] \in Nat /\ joining[p] \in Place /\ room[p] \in Place
           /\ view[h][p] \in Place /\ h # None
           /\ joining[p] = None \/ room[p] = None
  <1>1. net[<<p, h>>] \in Seq(Message) /\ net[<<h, p>>] \in Seq(Message)
    BY PairChannels DEF TypeOK
  <1>2. tries[p] \in Nat
    BY RoomJoinAssumption DEF TypeOK
  <1> QED  BY <1>1, <1>2, RoomJoinAssumption DEF TypeOK

\* Nothing is between a player and a host at first.
LEMMA InitSeats == ASSUME Init PROVE SeatInv
  <1> SUFFICES ASSUME NEW p \in Player, NEW h \in Host PROVE PairInv(p, h)
    BY DEF SeatInv
  <1>1. /\ net[<<p, h>>] = <<>> /\ net[<<h, p>>] = <<>>
        /\ room[p] = None /\ joining[p] = None /\ view[h][p] = None /\ h # None
    BY PairChannels, RoomJoinAssumption DEF Init
  <1>2. /\ \A S : /\ ~Holds(<<>>, S)
                  /\ OnlyIn(<<>>, S) /\ AtMostOne(<<>>, S)
                  /\ OnlyFirst(<<>>, S) /\ OnlyLast(<<>>, S)
        /\ \A S, T : Followed(<<>>, S, T) /\ Newest(<<>>, S, T)
    BY DEF Holds, OnlyIn, AtMostOne, OnlyFirst, OnlyLast, Followed, Newest
  <1>3. Asked(h, None, tries[p], <<>>, <<>>)
    BY <1>2 DEF Asked
  <1>4. Seat(h, None, tries[p], None, None, <<>>, <<>>)
    BY <1>2 DEF Seat
  <1>5. Kept(h, None, tries[p], None, None, <<>>, <<>>)
    BY <1>1, <1>2 DEF Kept
  <1> QED  BY <1>1, <1>3, <1>4, <1>5 DEF PairInv

LEMMA PairSame ==
    ASSUME NEW p \in Player, NEW h \in Host, PairInv(p, h),
           joining'[p] = joining[p], tries'[p] = tries[p], room'[p] = room[p],
           view'[h][p] = view[h][p], net'[<<p, h>>] = net[<<p, h>>],
           net'[<<h, p>>] = net[<<h, p>>], ~crossed' => ~crossed, Calm' => Calm
    PROVE  PairInv(p, h)'
  BY DEF PairInv

\* A player tells where he is, and gives up what he waited for or not.
LEMMA TellingPair ==
    ASSUME TypeOK, NEW p \in Player, NEW h \in Host, PairInv(p, h),
           net'[<<h, p>>] \in Seq(Message), room'[p] \in Place,
           Asked(h, joining[p], tries[p], net[<<p, h>>], net'[<<h, p>>]),
           net'[<<p, h>>] = Append(net[<<p, h>>], News(room'[p])),
           joining'[p] \in {joining[p], None}, tries'[p] = tries[p],
           view'[h][p] = view[h][p], Calm' => Calm,
           Calm' => joining'[p] = None,
           Calm' /\ room'[p] = h => net[<<p, h>>] = <<>> /\ view[h][p] = h
    PROVE  PairInv(p, h)'
  <1> DEFINE out == net[<<p, h>>]
             in == net'[<<h, p>>]
             j == joining'[p]
             r == room'[p]
  <1>1. out \in Seq(Message) /\ h # None
    BY PairOfType
  <1>2. News(r) \in Message /\ News(r).kind = "user"
    BY DEF News, Message
  <1>3. Asked(h, j, tries[p], Append(out, News(r)), in)
    BY <1>1, <1>2, AskedTold
  <1>4. Seat(h, j, tries[p], r, view[h][p], Append(out, News(r)), in)
    BY <1>1, SeatTold
  <1>5. ASSUME Calm'
        PROVE  Kept(h, j, tries[p], r, view[h][p], Append(out, News(r)), in)
    <2>1. Kept(h, joining[p], tries[p], room[p], view[h][p], out, net[<<h, p>>])
      BY <1>5 DEF PairInv
    <2>2. Kept(h, None, tries[p], room[p], view[h][p], out, in)
      BY <1>1, <2>1, KeptRefused
    <2>3. r = h => out = <<>> /\ view[h][p] = h
      BY <1>5
    <2>4. Kept(h, None, tries[p], r, view[h][p], Append(out, News(r)), in)
      BY <1>1, <2>2, <2>3, KeptTold
    <2> QED  BY <1>5, <2>4
  <1> QED  BY <1>3, <1>4, <1>5 DEF PairInv

LEMMA InterruptSeats ==
    ASSUME TypeOK, WindowInv, SeatInv, NEW p \in Player,
           Interrupt(p) \/ UserSend(p) \/ CloseWindow(p)
    PROVE  SeatInv'
  <1> SUFFICES ASSUME NEW p2 \in Player, NEW h \in Host PROVE PairInv(p2, h)'
    BY DEF SeatInv
  <1> DEFINE r == IF CloseWindow(p) THEN None ELSE room[p]
  <1>1. /\ joining[p] \in Place /\ room[p] \in Place /\ r \in Place /\ h # None
        /\ joining[p] = None \/ room[p] = None
        /\ PairInv(p2, h) /\ net[<<h, p2>>] \in Seq(Message)
    BY PairOfType DEF Place, SeatInv
  <1>2. \/ /\ net' = Told(net, p, r) /\ room' = [room EXCEPT ![p] = r]
           /\ joining' = joining \/ joining' = [joining EXCEPT ![p] = None]
           /\ UNCHANGED <<tries, view, crossed, reopened>>
           /\ Calm' => Calm
    <2>1. CASE CloseWindow(p)
      BY <2>1 DEF CloseWindow, RoomDestroyed, Calm
    <2>2. CASE ~CloseWindow(p) /\ Interrupt(p)
      BY <2>2 DEF Interrupt, Calm, TypeOK
    <2>3. CASE ~CloseWindow(p) /\ UserSend(p)
      <3>1. updates \in Nat /\ updates' = updates + 1
        BY <2>3 DEF UserSend, TypeOK
      <3> QED  BY <2>3, <3>1 DEF UserSend, Calm, TypeOK
    <2> QED  BY <2>1, <2>2, <2>3
  <1>3. Calm' => joining'[p] = None /\ r = None
    <2>1. CASE CloseWindow(p)
      <3>1. window[p] # None /\ joining' = joining
        BY <2>1 DEF CloseWindow
      <3>2. Calm => room[p] # None
        BY <3>1 DEF Calm, WindowInv, Shown
      <3> QED  BY <1>1, <1>2, <2>1, <3>1, <3>2
    <2>2. CASE ~CloseWindow(p) /\ Interrupt(p)
      BY <1>1, <2>2 DEF Interrupt, TypeOK
    <2>3. CASE ~CloseWindow(p) /\ UserSend(p)
      <3>1. updates \in Nat /\ updates' = updates + 1
        BY <2>3 DEF UserSend, TypeOK
      <3> QED  BY <3>1 DEF Calm
    <2> QED  BY <2>1, <2>2, <2>3
  <1> HIDE DEF r
  <1>4. Spoken(net', net, p, r)
    <2>1. net \in Nets
      BY DEF TypeOK, Nets
    <2> QED  BY <1>1, <1>2, <2>1, SpokenTold
  <1>5. CASE p2 = p
    <2>1. /\ joining'[p] \in {joining[p], None} /\ room'[p] = r
          /\ tries'[p] = tries[p] /\ view'[h][p] = view[h][p]
      BY <1>2 DEF TypeOK
    <2>2. /\ net'[<<p, h>>] = Append(net[<<p, h>>], News(room'[p]))
          /\ net'[<<h, p>>] = net[<<h, p>>]
      BY <1>4, <2>1 DEF Spoken
    <2>3. /\ Asked(h, joining[p], tries[p], net[<<p, h>>], net'[<<h, p>>])
          /\ PairInv(p, h) /\ net'[<<h, p>>] \in Seq(Message) /\ room'[p] \in Place
      BY <1>1, <1>5, <2>1, <2>2 DEF PairInv
    <2>4. /\ Calm' => Calm /\ joining'[p] = None
          /\ ~(Calm' /\ room'[p] = h)
      BY <1>1, <1>2, <1>3, <2>1
    <2>5. PairInv(p, h)'
      BY <2>1, <2>2, <2>3, <2>4, TellingPair
    <2> QED  BY <1>5, <2>5
  <1>6. CASE p2 # p
    <2>1. /\ net'[<<p2, h>>] = net[<<p2, h>>] /\ net'[<<h, p2>>] = net[<<h, p2>>]
      BY <1>4, <1>6 DEF Spoken
    <2>2. /\ joining'[p2] = joining[p2] /\ room'[p2] = room[p2]
          /\ tries'[p2] = tries[p2] /\ view'[h][p2] = view[h][p2]
          /\ crossed' = crossed /\ (Calm' => Calm)
      BY <1>2, <1>6 DEF TypeOK
    <2> QED  BY <1>1, <2>1, <2>2, PairSame
  <1> QED  BY <1>5, <1>6

\* What p hears of himself is not between him and a host.
LEMMA HearingSeats ==
    ASSUME TypeOK, SeatInv, NEW p \in Player, HearSelf(p) \/ HearOther(p)
    PROVE  SeatInv'
  <1> SUFFICES ASSUME NEW p2 \in Player, NEW h2 \in Host PROVE PairInv(p2, h2)'
    BY DEF SeatInv
  <1>1. net'[<<h2, p2>>] = net[<<h2, p2>>] /\ net'[<<p2, h2>>] = net[<<p2, h2>>]
    <2>1. CASE HearSelf(p)
      <3>1. net[<<p, p>>] # <<>>
        BY <2>1, ArrivedType DEF HearSelf, Channel
      <3> QED  BY <2>1, <3>1, TakenSelf DEF HearSelf
    <2>2. CASE HearOther(p)
      BY <2>2 DEF HearOther
    <2> QED  BY <2>1, <2>2
  <1>2. /\ UNCHANGED <<joining, tries, room, view, crossed, updates>>
        /\ ~reopened' => ~reopened
    BY DEF HearSelf, HearOther, CondOpen, TypeOK
  <1>3. PairInv(p2, h2) /\ (Calm' => Calm)
    BY <1>2 DEF SeatInv, Calm
  <1> QED  BY <1>1, <1>2, <1>3, PairSame

\* Only what is between p and h changes.
LEMMA BetweenSeats ==
    ASSUME TypeOK, SeatInv, NEW p \in Player, NEW h \in Host, NEW out, NEW in,
           Between(net', net, p, h, out, in),
           UNCHANGED <<joining, room, tries, crossed, reopened, updates>>,
           \A p2 \in Player, h2 \in Host :
              p2 # p \/ h2 # h => view'[h2][p2] = view[h2][p2],
           PairInv(p, h)'
    PROVE  SeatInv'
  <1> SUFFICES ASSUME NEW p2 \in Player, NEW h2 \in Host PROVE PairInv(p2, h2)'
    BY DEF SeatInv
  <1>1. CASE p2 = p /\ h2 = h
    BY <1>1
  <1>2. CASE p2 # p \/ h2 # h
    <2>1. net'[<<p2, h2>>] = net[<<p2, h2>>] /\ net'[<<h2, p2>>] = net[<<h2, p2>>]
      BY <1>2 DEF Between
    <2>2. PairInv(p2, h2) /\ (Calm' => Calm) /\ view'[h2][p2] = view[h2][p2]
      BY <1>2 DEF SeatInv, Calm
    <2> QED  BY <2>1, <2>2, PairSame
  <1> QED  BY <1>1, <1>2

LEMMA HearUserSeats ==
    ASSUME TypeOK, SeatInv, NEW p \in Player, NEW h \in Host, HearUser(h, p)
    PROVE  SeatInv'
  <1> DEFINE out == net[<<p, h>>]
             in == net[<<h, p>>]
             j == joining[p]
             n == tries[p]
             seen == Head(out).room
  <1>1. /\ out # <<>> /\ out \in Seq(Message) /\ Head(out).kind = "user"
    <2>1. <<p, h>> \in Channel /\ Arrives(p, h, {"user"})
      BY PairChannels DEF HearUser
    <2> QED  BY <2>1, ArrivedType
  <1>2. Between(net', net, p, h, Tail(out), in)
    BY <1>1, TakenOut DEF HearUser
  <1>3. /\ UNCHANGED <<joining, room, tries, crossed, reopened, updates>>
        /\ view'[h][p] = seen
        /\ \A p2 \in Player, h2 \in Host :
              p2 # p \/ h2 # h => view'[h2][p2] = view[h2][p2]
    BY DEF HearUser, TypeOK
  <1>4. PairInv(p, h)
    BY DEF SeatInv
  <1>5. Asked(h, j, n, Tail(out), in)
    BY <1>1, <1>4, AskedHeard DEF PairInv
  <1>6. ~crossed => Seat(h, j, n, room[p], seen, Tail(out), in)
    BY <1>1, <1>4, SeatHeard DEF PairInv
  <1>7. Calm => Kept(h, j, n, room[p], seen, Tail(out), in)
    BY <1>1, <1>4, KeptHeard DEF PairInv
  <1>8. Calm' => Calm
    BY <1>3 DEF Calm
  <1>9. net'[<<p, h>>] = Tail(out) /\ net'[<<h, p>>] = in
    BY <1>2 DEF Between
  <1> HIDE DEF seen
  <1>10. PairInv(p, h)'
    BY <1>3, <1>5, <1>6, <1>7, <1>8, <1>9 DEF PairInv
  <1> QED  BY <1>2, <1>3, <1>10, BetweenSeats

LEMMA HandleRoomJoinSeats ==
    ASSUME TypeOK, SeatInv, NEW p \in Player, NEW h \in Host, HandleRoomJoin(h, p)
    PROVE  SeatInv'
  <1> DEFINE out == net[<<p, h>>]
             in == net[<<h, p>>]
             j == joining[p]
             n == tries[p]
             m == Head(out)
             Reply(k) == Sent(Taken(p, h), h, p, Answer(k, m.seq))
  <1>1. /\ out # <<>> /\ out \in Seq(Message) /\ in \in Seq(Message)
        /\ m \in Message /\ m.kind = "room_join"
    <2>1. /\ <<p, h>> \in Channel /\ Arrives(p, h, {"room_join"})
          /\ in \in Seq(Message)
      BY PairChannels, PairOfType DEF HandleRoomJoin
    <2> QED  BY <2>1, ArrivedType
  <1>2. /\ UNCHANGED <<joining, room, tries, crossed, reopened, updates>>
        /\ Calm' => Calm
    BY DEF HandleRoomJoin, Calm
  <1>3. \/ net' = Taken(p, h) /\ view' = view
        \/ net' = Reply("room_join_pass") /\ view' = view
        \/ net' = Reply("room_join_full") /\ view' = view
        \/ net' = Reply("room_join_ack") /\ view' = Reserved(h, p)
    BY DEF HandleRoomJoin
  <1>4. \A k \in Answers : /\ Answer(k, m.seq) \in Message
                           /\ Answer(k, m.seq).kind = k
                           /\ Answer(k, m.seq).seq = m.seq
    BY <1>1, MessageKinds DEF Answer
  <1>5. PairInv(p, h)
    BY DEF SeatInv
  <1> HIDE DEF m
  <1>6. CASE net' = Taken(p, h) /\ view' = view
    <2>1. Between(net', net, p, h, Tail(out), in)
      BY <1>1, <1>6, TakenOut
    <2>2. net'[<<p, h>>] = Tail(out) /\ net'[<<h, p>>] = in
      BY <2>1 DEF Between
    <2>3. Asked(h, j, n, Tail(out), in)
      BY <1>1, <1>5, AskedHeard DEF PairInv
    <2>4. ~crossed => Seat(h, j, n, room[p], view[h][p], Tail(out), in)
      BY <1>1, <1>5, SeatAnswered DEF PairInv, m
    <2>5. Calm => Kept(h, j, n, room[p], view[h][p], Tail(out), in)
      BY <1>1, <1>5, KeptAnswered DEF PairInv, m
    <2>6. PairInv(p, h)'
      BY <1>2, <1>6, <2>2, <2>3, <2>4, <2>5 DEF PairInv
    <2> QED  BY <1>2, <1>6, <2>1, <2>6, BetweenSeats
  <1>7. ASSUME NEW k \in Answers, net' = Reply(k),
               IF k = "room_join_ack" THEN view' = Reserved(h, p) ELSE view' = view
        PROVE  SeatInv'
    <2> DEFINE a == Answer(k, m.seq)
               seen == view'[h][p]
    <2>1. a \in Message /\ a.kind = k /\ a.seq = Head(out).seq /\ a.kind \in Answers
      BY <1>4 DEF m
    <2> HIDE DEF a
    <2>2. Between(net', net, p, h, Tail(out), Append(in, a))
      BY <1>1, <1>7, <2>1, TakenAnswered DEF a
    <2>3. net'[<<p, h>>] = Tail(out) /\ net'[<<h, p>>] = Append(in, a)
      BY <2>2 DEF Between
    <2>4. /\ seen = IF k = "room_join_ack" THEN h ELSE view[h][p]
          /\ \A p2 \in Player, h2 \in Host :
                p2 # p \/ h2 # h => view'[h2][p2] = view[h2][p2]
      <3>1. CASE k = "room_join_ack"
        BY <1>7, <3>1 DEF Reserved, TypeOK
      <3>2. CASE k # "room_join_ack"
        BY <1>7, <3>2
      <3> QED  BY <3>1, <3>2
    <2> HIDE DEF seen
    <2>5. Asked(h, j, n, Tail(out), Append(in, a))
      BY <1>1, <1>5, <2>1, AskedAnswered DEF PairInv, m
    <2>6. ~crossed => Seat(h, j, n, room[p], seen, Tail(out), Append(in, a))
      <3> SUFFICES ASSUME ~crossed
                   PROVE  Seat(h, j, n, room[p], seen, Tail(out), Append(in, a))
        OBVIOUS
      <3>1. Seat(h, j, n, room[p], view[h][p], out, in)
        BY <1>5 DEF PairInv
      <3>2. CASE k = "room_join_ack"
        <4>1. Seat(h, j, n, room[p], h, Tail(out), Append(in, a))
          BY <1>1, <2>1, <3>1, <3>2, SeatReserving DEF m
        <4> QED  BY <2>4, <3>2, <4>1
      <3>3. CASE k # "room_join_ack"
        <4>1. Seat(h, j, n, room[p], view[h][p], Tail(out), in)
          BY <1>1, <3>1, SeatAnswered DEF m
        <4>2. Holds(in, Acks(n)) => Holds(Append(in, a), Acks(n))
          BY <1>1, <2>1, AfterAppend
        <4> QED  BY <2>4, <3>3, <4>1, <4>2, SeatIn
      <3> QED  BY <3>2, <3>3
    <2>7. Calm => Kept(h, j, n, room[p], seen, Tail(out), Append(in, a))
      <3>1. seen \in {view[h][p], h} /\ (a.kind = "room_join_ack" => seen = h)
        BY <2>1, <2>4
      <3> QED  BY <1>1, <1>5, <2>1, <3>1, KeptAnswered DEF PairInv, m
    <2>8. PairInv(p, h)'
      BY <1>2, <2>3, <2>5, <2>6, <2>7 DEF PairInv, seen
    <2> QED  BY <1>2, <2>2, <2>4, <2>8, BetweenSeats
  <1> QED  BY <1>3, <1>6, <1>7 DEF Answers

LEMMA SelectedSeats ==
    ASSUME TypeOK, SeatInv, NEW p \in Player, NEW g \in Host, RoomJoinSelected(p, g)
    PROVE  SeatInv'
  <1> SUFFICES ASSUME NEW p2 \in Player, NEW h \in Host PROVE PairInv(p2, h)'
    BY DEF SeatInv
  <1> DEFINE n == tries[p]
  <1>1. /\ n \in Nat /\ n + 1 \in 1..MaxTries
        /\ joining[p] = None /\ room[p] = None /\ None \in Place
        /\ joining' = [joining EXCEPT ![p] = g] /\ tries' = [tries EXCEPT ![p] = n + 1]
        /\ UNCHANGED <<room, view, crossed, reopened, updates>>
    BY RoomJoinAssumption DEF RoomJoinSelected, TypeOK, Place
  <1>2. PICK good \in BOOLEAN : net' = Sent(net, p, g, Join(n + 1, good))
    BY DEF RoomJoinSelected
  <1> DEFINE m == Join(n + 1, good)
  <1>3. m \in Message /\ m.kind = "room_join" /\ m.seq = n + 1
    BY <1>1 DEF Join, Message
  <1>4. Between(net', net, p, g, Append(net[<<p, g>>], m), net[<<g, p>>])
    <2>1. net \in Nets
      BY DEF TypeOK, Nets
    <2> HIDE DEF m
    <2> QED  BY <1>2, <1>3, <2>1, SentOut DEF m
  <1> HIDE DEF m
  <1>5. Calm' => Calm
    BY <1>1 DEF Calm
  <1>6. PairInv(p2, h)
    BY DEF SeatInv
  <1>7. CASE p2 # p
    <2>1. net'[<<p2, h>>] = net[<<p2, h>>] /\ net'[<<h, p2>>] = net[<<h, p2>>]
      BY <1>4, <1>7 DEF Between
    <2>2. joining'[p2] = joining[p2] /\ tries'[p2] = tries[p2]
      BY <1>1, <1>7 DEF TypeOK
    <2> QED  BY <1>1, <1>5, <1>6, <2>1, <2>2, PairSame
  <1>8. CASE p2 = p
    <2> DEFINE out == net[<<p, h>>]
               in == net[<<h, p>>]
               seen == view[h][p]
    <2>1. out \in Seq(Message) /\ in \in Seq(Message)
      BY PairOfType
    <2>2. joining'[p] = g /\ tries'[p] = n + 1
      BY <1>1 DEF TypeOK
    <2>3. /\ Asked(h, None, n, out, in)
          /\ ~crossed => Seat(h, None, n, None, seen, out, in)
          /\ Calm => Kept(h, None, n, None, seen, out, in)
      BY <1>1, <1>6, <1>8 DEF PairInv
    <2>4. /\ net'[<<p, h>>] = IF h = g THEN Append(out, m) ELSE out
          /\ net'[<<h, p>>] = in
      <3>1. CASE h = g
        BY <1>4, <3>1 DEF Between
      <3>2. CASE h # g
        BY <1>4, <3>2 DEF Between
      <3> QED  BY <3>1, <3>2
    <2> HIDE DEF out, in, seen
    <2>5. CASE h = g
      <3>1. Asked(h, h, n + 1, Append(out, m), in)
        BY <1>1, <1>3, <2>1, <2>3, AskedSelected
      <3>2. ~crossed => Seat(h, h, n + 1, None, seen, Append(out, m), in)
        BY <1>1, <1>3, <2>1, <2>3, SeatSelected
      <3>3. Calm => Kept(h, h, n + 1, None, seen, Append(out, m), in)
        BY <1>1, <1>3, <2>1, <2>3, KeptSelected
      <3> QED
        BY <1>1, <1>5, <1>8, <2>2, <2>4, <2>5, <3>1, <3>2, <3>3 DEF PairInv, seen
    <2>6. CASE h # g
      <3>1. Asked(h, g, n + 1, out, in)
        BY <1>1, <1>3, <2>1, <2>3, <2>6, AskedSelected
      <3>2. ~crossed => Seat(h, g, n + 1, None, seen, out, in)
        BY <1>1, <1>3, <2>1, <2>3, <2>6, SeatSelected
      <3>3. Calm => Kept(h, g, n + 1, None, seen, out, in)
        BY <1>1, <1>3, <2>1, <2>3, <2>6, KeptSelected
      <3> QED
        BY <1>1, <1>5, <1>8, <2>2, <2>4, <2>6, <3>1, <3>2, <3>3 DEF PairInv, seen
    <2> QED  BY <2>5, <2>6
  <1> QED  BY <1>7, <1>8

\* The player takes an answer: it is the one to his newest join, or crossed
\* says that it is not.
LEMMA TakeAnswerSeats ==
    ASSUME TypeOK, SeatInv, NEW p \in Player, NEW h \in Host, TakeAnswer(p, h)
    PROVE  SeatInv'
  <1> SUFFICES ASSUME NEW p2 \in Player, NEW h2 \in Host PROVE PairInv(p2, h2)'
    BY DEF SeatInv
  <1> DEFINE m == Head(net[<<h, p>>])
             j == joining[p]
             n == tries[p]
             tells == j # None /\ m.kind = "room_join_ack"
  <1>1. /\ net[<<h, p>>] # <<>> /\ net[<<h, p>>] \in Seq(Message)
        /\ m \in Message /\ m.kind \in Answers
    <2>1. <<h, p>> \in Channel /\ Arrives(h, p, Answers)
      BY PairChannels DEF TakeAnswer
    <2> QED  BY <2>1, ArrivedType
  <1>2. /\ net' = IF tells THEN Told(Taken(h, p), p, j) ELSE Taken(h, p)
        /\ room' = IF tells THEN [room EXCEPT ![p] = j] ELSE room
        /\ crossed' = (crossed \/ (j # None /\ m.seq # n))
        /\ joining' = [joining EXCEPT ![p] = None]
        /\ UNCHANGED <<view, tries, reopened, updates>>
    BY DEF TakeAnswer
  <1>3. j \in Place /\ tells \in BOOLEAN /\ (j = None \/ room[p] = None)
    BY PairOfType
  <1> HIDE DEF tells
  <1>4. Took(p, h, j, tells)
    BY <1>1, <1>2, <1>3, PlayerTakes
  <1>5. /\ ~crossed' => ~crossed /\ (j # None => m.seq = n)
        /\ Calm' => Calm /\ ~crossed'
    BY <1>2 DEF Calm, TypeOK
  <1>6. PairInv(p2, h2) /\ PairInv(p, h) /\ PairInv(p, h2)
    BY DEF SeatInv
  <1>7. CASE p2 # p
    <2>1. net'[<<p2, h2>>] = net[<<p2, h2>>] /\ net'[<<h2, p2>>] = net[<<h2, p2>>]
      BY <1>4, <1>7 DEF Took
    <2>2. joining'[p2] = joining[p2] /\ room'[p2] = room[p2]
      BY <1>2, <1>7 DEF TypeOK
    <2> QED  BY <1>2, <1>5, <1>6, <2>1, <2>2, PairSame
  <1>8. CASE p2 = p
    <2> DEFINE out == net[<<p, h2>>]
               in == net[<<h2, p>>]
               in2 == net'[<<h2, p>>]
    <2>1. out \in Seq(Message) /\ in \in Seq(Message) /\ h2 # None
      BY PairOfType
    <2>2. /\ in2 = IF h2 = h THEN Tail(in) ELSE in
          /\ net'[<<p, h2>>] = IF tells THEN Append(out, News(j)) ELSE out
      BY <1>4 DEF Took
    <2>3. in2 \in Seq(Message) /\ Asked(h2, j, n, out, in2) /\ Asked(h2, None, n, out, in2)
      <3>1. Asked(h2, j, n, out, in)
        BY <1>6 DEF PairInv
      <3>2. CASE h2 = h
        BY <1>1, <2>1, <2>2, <3>1, <3>2, AskedTaken, TailAt
      <3>3. CASE h2 # h
        BY <2>1, <2>2, <3>1, <3>3, AskedGivenUp
      <3> QED  BY <3>2, <3>3
    \* An answer to the newest join comes from the host p waits for.
    <2>4. ~crossed' /\ j # None =>
             /\ j = h /\ ~Holds(net[<<p, h>>], Joins(n))
             /\ m.kind = "room_join_ack" => Holds(net[<<h, p>>], Acks(n))
             /\ m.kind # "room_join_ack" => ~Holds(net[<<h, p>>], Acks(n))
      <3> DEFINE mine == net[<<p, h>>]
                 his == net[<<h, p>>]
      <3> SUFFICES ASSUME ~crossed', j # None
                   PROVE  /\ j = h /\ ~Holds(mine, Joins(n))
                          /\ m.kind = "room_join_ack" => Holds(his, Acks(n))
                          /\ m.kind # "room_join_ack" => ~Holds(his, Acks(n))
        OBVIOUS
      <3>1. Asked(h, j, n, mine, his)
        BY <1>6 DEF PairInv
      <3>2. /\ his \in Seq(Message) /\ his # <<>> /\ m = Head(his)
            /\ Head(his).kind \in Answers /\ Head(his).seq = n
        BY <1>1, <1>5
      <3> HIDE DEF mine, his, m, j, n
      <3> QED  BY <3>1, <3>2, AnswerIsOfHost
    <2>5. /\ joining'[p] = None /\ tries'[p] = n /\ view'[h2][p] = view[h2][p]
          /\ room'[p] = IF tells THEN j ELSE room[p]
      BY <1>2 DEF TypeOK
    <2>6. CASE tells
      <3>1. Calm' /\ room'[p] = h2 => out = <<>> /\ view[h2][p] = h2
        <4> SUFFICES ASSUME Calm', room'[p] = h2
                     PROVE  out = <<>> /\ view[h2][p] = h2
          OBVIOUS
        <4>1. j = h2 /\ j = h /\ Holds(net[<<h, p>>], Acks(n))
          BY <1>5, <2>4, <2>5, <2>6 DEF tells
        <4>2. Kept(h, j, n, room[p], view[h][p], net[<<p, h>>], net[<<h, p>>])
          BY <1>5, <1>6 DEF PairInv
        <4> QED  BY <4>1, <4>2 DEF Kept
      <3>2. /\ net'[<<p, h2>>] = Append(net[<<p, h2>>], News(room'[p]))
            /\ net'[<<h2, p>>] \in Seq(Message) /\ room'[p] \in Place
            /\ Asked(h2, joining[p], tries[p], net[<<p, h2>>], net'[<<h2, p>>])
        BY <1>3, <2>2, <2>3, <2>5, <2>6
      <3>3. PairInv(p, h2)'
        BY <1>5, <1>6, <2>5, <3>1, <3>2, TellingPair
      <3> QED  BY <1>8, <3>3
    <2>7. CASE ~tells
      <3>1. net'[<<p, h2>>] = out /\ room'[p] = room[p]
        BY <2>2, <2>5, <2>7
      <3>2. ~crossed' => Seat(h2, None, n, room[p], view[h2][p], out, in2)
        <4> SUFFICES ASSUME ~crossed'
                     PROVE  Seat(h2, None, n, room[p], view[h2][p], out, in2)
          OBVIOUS
        <4>1. Seat(h2, j, n, room[p], view[h2][p], out, in)
          BY <1>5, <1>6 DEF PairInv
        <4>2. j = h2 => ~Holds(out, Joins(n)) /\ ~Holds(in, Acks(n))
          BY <2>1, <2>4, <2>7 DEF tells
        <4> QED  BY <2>1, <4>1, <4>2, SeatRefused
      <3>3. Calm' => Kept(h2, None, n, room[p], view[h2][p], out, in2)
        <4>1. Calm' => Kept(h2, j, n, room[p], view[h2][p], out, in)
          BY <1>5, <1>6 DEF PairInv
        <4> QED  BY <2>1, <4>1, KeptRefused
      <3> HIDE DEF out, in, in2
      <3>4. PairInv(p, h2)'
        BY <2>3, <2>5, <3>1, <3>2, <3>3 DEF PairInv, in2
      <3> QED  BY <1>8, <3>4
    <2> QED  BY <2>6, <2>7
  <1> QED  BY <1>7, <1>8

\* The player hears that the room is closed; if he was in it he says so.
LEMMA RemovedSeats ==
    ASSUME TypeOK, WindowInv, SeatInv, NEW p \in Player, NEW h \in Host,
           RoomRemoved(p, h)
    PROVE  SeatInv'
  <1> SUFFICES ASSUME NEW p2 \in Player, NEW h2 \in Host PROVE PairInv(p2, h2)'
    BY DEF SeatInv
  <1> DEFINE tells == window[p] = h
             n == tries[p]
  <1>1. /\ net[<<h, p>>] # <<>> /\ net[<<h, p>>] \in Seq(Message)
        /\ Head(net[<<h, p>>]) = Closed
    <2>1. <<h, p>> \in Channel /\ Arrives(h, p, {"room_remove"})
      BY PairChannels DEF RoomRemoved
    <2>2. /\ net[<<h, p>>] # <<>> /\ net[<<h, p>>] \in Seq(Message)
          /\ Head(net[<<h, p>>]) \in Message
          /\ Head(net[<<h, p>>]).kind \in {"room_remove"}
      BY <2>1, ArrivedType
    <2> QED  BY <2>2, MessageKinds
  <1>2. /\ net' = IF tells THEN Told(Taken(h, p), p, None) ELSE Taken(h, p)
        /\ room' = IF tells THEN [room EXCEPT ![p] = None] ELSE room
        /\ UNCHANGED <<joining, view, tries, crossed, reopened, updates>>
    BY DEF RoomRemoved, RoomDestroyed
  <1>3. None \in Place /\ tells \in BOOLEAN /\ h # None
    BY PairOfType DEF Place
  <1>4. Calm' => Calm
    BY <1>2 DEF Calm
  <1>5. Calm /\ tells => joining[p] = None
    <2>1. Calm /\ tells => room[p] # None
      BY <1>3 DEF Calm, WindowInv, Shown
    <2> QED  BY <2>1 DEF TypeOK
  <1> HIDE DEF tells
  <1>6. Took(p, h, None, tells)
    BY <1>1, <1>2, <1>3, PlayerTakes
  <1>7. PairInv(p2, h2) /\ PairInv(p, h2)
    BY DEF SeatInv
  <1>8. CASE p2 # p
    <2>1. net'[<<p2, h2>>] = net[<<p2, h2>>] /\ net'[<<h2, p2>>] = net[<<h2, p2>>]
      BY <1>6, <1>8 DEF Took
    <2>2. room'[p2] = room[p2]
      BY <1>2, <1>8 DEF TypeOK
    <2> QED  BY <1>2, <1>4, <1>7, <2>1, <2>2, PairSame
  <1>9. CASE p2 = p
    <2> DEFINE out == net[<<p, h2>>]
               in == net[<<h2, p>>]
               in2 == net'[<<h2, p>>]
               j == joining[p]
    <2>1. out \in Seq(Message) /\ in \in Seq(Message) /\ h2 # None
      BY PairOfType
    <2>2. /\ in2 = IF h2 = h THEN Tail(in) ELSE in
          /\ net'[<<p, h2>>] = IF tells THEN Append(out, News(None)) ELSE out
          /\ room'[p] = IF tells THEN None ELSE room[p]
      BY <1>2, <1>6 DEF Took, TypeOK
    <2>3. in2 \in Seq(Message) /\ Asked(h2, j, n, out, in2)
      <3>1. Asked(h2, j, n, out, in)
        BY <1>7 DEF PairInv
      <3>2. CASE h2 = h
        BY <1>1, <2>1, <2>2, <3>1, <3>2, AskedTaken, TailAt
      <3>3. CASE h2 # h
        BY <2>1, <2>2, <3>1, <3>3
      <3> QED  BY <3>2, <3>3
    <2>4. Holds(in2, Acks(n)) <=> Holds(in, Acks(n))
      <3>1. Closed \notin Acks(n)
        BY DEF Closed, Acks
      <3>2. CASE h2 = h
        BY <1>1, <2>1, <2>2, <3>1, <3>2, AfterTail
      <3>3. CASE h2 # h
        BY <2>2, <3>3
      <3> QED  BY <3>2, <3>3
    <2>5. CASE tells
      <3>1. /\ net'[<<p, h2>>] = Append(net[<<p, h2>>], News(room'[p]))
            /\ net'[<<h2, p>>] \in Seq(Message) /\ room'[p] \in Place
            /\ Asked(h2, joining[p], tries[p], net[<<p, h2>>], net'[<<h2, p>>])
            /\ room'[p] # h2
        BY <1>3, <2>1, <2>2, <2>3, <2>5
      <3>2. Calm' => joining'[p] = None
        BY <1>2, <1>4, <1>5, <2>5
      <3>3. PairInv(p, h2)'
        BY <1>2, <1>4, <1>7, <3>1, <3>2, TellingPair
      <3> QED  BY <1>9, <3>3
    <2>6. CASE ~tells
      <3>1. ~crossed => Seat(h2, j, n, room[p], view[h2][p], out, in2)
        BY <1>7, <2>4, SeatIn DEF PairInv
      <3>2. Calm => Kept(h2, j, n, room[p], view[h2][p], out, in2)
        BY <1>7, <2>4, KeptIn DEF PairInv
      <3>3. net'[<<p, h2>>] = out /\ room'[p] = room[p]
        BY <2>2, <2>6
      <3> HIDE DEF out, in, in2
      <3>4. PairInv(p, h2)'
        BY <1>2, <1>4, <2>3, <3>1, <3>2, <3>3 DEF PairInv, in2
      <3> QED  BY <1>9, <3>4
    <2> QED  BY <2>5, <2>6
  <1> QED  BY <1>8, <1>9

LEMMA ClosingSeats ==
    ASSUME TypeOK, SeatInv, NEW g \in Host, CloseRoom(g)
    PROVE  SeatInv'
  <1> SUFFICES ASSUME NEW p \in Player, NEW h \in Host PROVE PairInv(p, h)'
    BY DEF SeatInv
  <1> DEFINE out == net[<<p, h>>]
             in == net[<<h, p>>]
             in2 == net'[<<h, p>>]
             j == joining[p]
             n == tries[p]
  <1>1. /\ UNCHANGED <<joining, room, view, tries, crossed, reopened, updates>>
        /\ Calm' => Calm
    BY DEF CloseRoom, Calm
  <1>2. net'[<<p, h>>] = out /\ in2 = IF h = g THEN Append(in, Closed) ELSE in
    BY ClosedChannels
  <1>3. in \in Seq(Message) /\ PairInv(p, h)
    BY PairOfType DEF SeatInv
  <1>4. Asked(h, j, n, out, in2) /\ (Holds(in2, Acks(n)) <=> Holds(in, Acks(n)))
    <2>1. Asked(h, j, n, out, in)
      BY <1>3 DEF PairInv
    <2>2. CASE h = g
      BY <1>2, <1>3, <2>1, <2>2, AskedIn
    <2>3. CASE h # g
      BY <1>2, <2>1, <2>3
    <2> QED  BY <2>2, <2>3
  <1>5. ~crossed => Seat(h, j, n, room[p], view[h][p], out, in2)
    BY <1>3, <1>4, SeatIn DEF PairInv
  <1>6. Calm => Kept(h, j, n, room[p], view[h][p], out, in2)
    BY <1>3, <1>4, KeptIn DEF PairInv
  <1> HIDE DEF out, in, in2
  <1> QED  BY <1>1, <1>2, <1>4, <1>5, <1>6 DEF PairInv, in2

LEMMA NextSeats ==
    ASSUME TypeOK, WindowInv, SeatInv, [Next]_vars
    PROVE  SeatInv'
  <1>1. CASE UNCHANGED vars
    BY <1>1 DEF vars, SeatInv, PairInv, Calm
  <1> QED
    BY <1>1, InterruptSeats, HearingSeats, SelectedSeats, HandleRoomJoinSeats,
       HearUserSeats, TakeAnswerSeats, RemovedSeats, ClosingSeats DEF Next, Hear

\* Once all messages have arrived a host sees in his room who is there, and
\* nobody else (house_app::_handle_room_join, house::interrupt).
THEOREM SeatsAgreeHolds == Spec => []SeatsAgree
  <1>1. TypeOK /\ SeatInv => SeatsAgree
    <2> SUFFICES ASSUME TypeOK, SeatInv, Quiet, ~crossed,
                        NEW h \in hosting, NEW p \in Player
                 PROVE  view[h][p] = h <=> room[p] = h
      BY DEF SeatsAgree
    <2>1. h \in Host
      BY DEF TypeOK
    <2>2. net[<<p, h>>] = <<>> /\ net[<<h, p>>] = <<>>
      BY <2>1, PairChannels DEF Quiet
    <2>3. \A S : ~Holds(<<>>, S)
      BY DEF Holds
    <2>4. Seat(h, joining[p], tries[p], room[p], view[h][p], <<>>, <<>>)
      BY <2>1, <2>2 DEF SeatInv, PairInv
    <2> QED  BY <2>3, <2>4 DEF Seat
  <1>2. TypeOK /\ WindowInv /\ SeatInv /\ [Next]_vars => WindowInv' /\ SeatInv'
    BY NextWindow, NextSeats
  <1>3. Init => WindowInv /\ SeatInv
    BY InitWindow, InitSeats
  <1> QED  BY <1>1, <1>2, <1>3, TypeCorrect, PTL DEF Spec

-----------------------------------------------------------------------------
(* The seats of a room *)

Seated(h) == {p \in Player : view[h][p] = h}

\* The host reserves no more seats than there are.
SizeInv == Calm => \A h \in Host : RoomSize(h) <= MaxPlayers

LEMMA SeatedFinite ==
    ASSUME NEW h
    PROVE  /\ IsFiniteSet(Seated(h)) /\ Cardinality(Seated(h)) \in Nat
           /\ RoomSize(h) = 1 + Cardinality(Seated(h))
  <1>1. Seated(h) \in SUBSET Player
    BY DEF Seated
  <1>2. IsFiniteSet(Seated(h))
    BY <1>1, RoomJoinAssumption, FS_Subset
  <1> QED  BY <1>2, FS_CardinalityType DEF RoomSize, Seated

\* A room that nobody new is seen in is as full as before, or less.
LEMMA SizeShrinks ==
    ASSUME SizeInv, Calm' => Calm,
           Calm' => \A h \in Host : Seated(h)' \subseteq Seated(h)
    PROVE  SizeInv'
  <1> SUFFICES ASSUME Calm', NEW h \in Host PROVE RoomSize(h)' <= MaxPlayers
    BY DEF SizeInv
  <1>1. RoomSize(h) <= MaxPlayers
    BY DEF SizeInv
  <1>2. Seated(h)' \in SUBSET Seated(h)
    BY DEF Calm
  <1>3. /\ IsFiniteSet(Seated(h)')
        /\ Cardinality(Seated(h)') <= Cardinality(Seated(h))
    BY <1>2, SeatedFinite, FS_Subset
  <1>4. RoomSize(h)' = 1 + Cardinality(Seated(h)')
    BY DEF RoomSize, Seated
  <1>5. Cardinality(Seated(h)') \in Nat
    BY <1>3, FS_CardinalityType
  <1> QED  BY <1>1, <1>3, <1>4, <1>5, SeatedFinite, RoomJoinAssumption

\* A seat is reserved where one is free.
LEMMA ReservedSize ==
    ASSUME TypeOK, SizeInv, Calm' => Calm, NEW p \in Player, NEW h \in Host,
           ~Full(h), view' = Reserved(h, p)
    PROVE  SizeInv'
  <1> SUFFICES ASSUME Calm', NEW g \in Host PROVE RoomSize(g)' <= MaxPlayers
    BY DEF SizeInv
  <1>1. RoomSize(g)' = 1 + Cardinality(Seated(g)')
    BY DEF RoomSize, Seated
  <1>2. CASE g = h
    <2>1. Seated(g)' = Seated(h) \cup {p}
      BY <1>2 DEF Seated, Reserved, TypeOK
    <2> DEFINE now == Seated(h)
    <2>5. IsFiniteSet(now) /\ Cardinality(now) \in Nat
      BY SeatedFinite
    <2> HIDE DEF now
    <2>6. /\ IsFiniteSet(now \cup {p})
          /\ Cardinality(now \cup {p}) \in {Cardinality(now), Cardinality(now) + 1}
      BY <2>5, FS_AddElement
    <2>2. Cardinality(Seated(g)') <= Cardinality(Seated(h)) + 1
      BY <2>1, <2>5, <2>6 DEF now
    <2>3. Cardinality(Seated(g)') \in Nat
      BY <2>1, <2>5, <2>6 DEF now
    <2>4. RoomSize(h) < MaxPlayers
      BY SeatedFinite, RoomJoinAssumption DEF Full
    <2> QED  BY <1>1, <2>2, <2>3, <2>4, SeatedFinite, RoomJoinAssumption
  <1>3. CASE g # h
    <2>1. Seated(g)' = Seated(g)
      BY <1>3 DEF Seated, Reserved, TypeOK
    <2> QED  BY <1>1, <2>1, SeatedFinite DEF SizeInv
  <1> QED  BY <1>2, <1>3

\* A host hears of his own room only from players he has reserved a seat for.
LEMMA HearUserSize ==
    ASSUME TypeOK, SeatInv, SizeInv, NEW p \in Player, NEW h \in Host,
           HearUser(h, p)
    PROVE  SizeInv'
  <1> DEFINE out == net[<<p, h>>]
  <1>1. /\ out # <<>> /\ out \in Seq(Message) /\ Head(out).kind = "user"
        /\ Head(out) \in Message
    <2>1. <<p, h>> \in Channel /\ Arrives(p, h, {"user"})
      BY PairChannels DEF HearUser
    <2> QED  BY <2>1, ArrivedType
  <1>2. Calm' => Calm
    BY DEF HearUser, Calm
  <1>3. Calm /\ Head(out).room = h => view[h][p] = h
    <2> SUFFICES ASSUME Calm, Head(out).room = h PROVE view[h][p] = h
      OBVIOUS
    <2>1. Kept(h, joining[p], tries[p], room[p], view[h][p], out, net[<<h, p>>])
      BY DEF SeatInv, PairInv
    <2>2. Head(out) = News(h)
      BY <1>1 DEF Message, Answers, Closed, News
    <2>3. 1 \in DOMAIN out /\ out[1] = Head(out)
      BY <1>1
    <2>4. Holds(out, {News(h)})
      BY <2>2, <2>3 DEF Holds
    <2> QED  BY <2>1, <2>4 DEF Kept
  <1>4. view' = [view EXCEPT ![h][p] = Head(out).room]
    BY DEF HearUser
  <1>5. ASSUME Calm', NEW g \in Host PROVE Seated(g)' \subseteq Seated(g)
    BY <1>2, <1>3, <1>4, <1>5 DEF Seated, TypeOK
  <1> QED  BY <1>2, <1>5, SizeShrinks

LEMMA NextSize ==
    ASSUME TypeOK, SeatInv, SizeInv, [Next]_vars
    PROVE  SizeInv'
  <1>1. Calm' => Calm
    <2> DEFINE Grows == /\ crossed => crossed'
                        /\ reopened => reopened'
                        /\ updates' = updates \/ updates' = updates + 1
    <2>1. Grows
      <3>1. CASE UNCHANGED vars
        BY <3>1 DEF vars
      <3>2. ASSUME NEW p \in Player, Interrupt(p) PROVE Grows
        BY <3>2 DEF Interrupt
      <3>3. ASSUME NEW p \in Player, UserSend(p) PROVE Grows
        BY <3>3 DEF UserSend
      <3>4. ASSUME NEW p \in Player, CloseWindow(p) PROVE Grows
        BY <3>4 DEF CloseWindow
      <3>5. ASSUME NEW p \in Player, HearSelf(p) PROVE Grows
        BY <3>5 DEF HearSelf, CondOpen
      <3>6. ASSUME NEW p \in Player, HearOther(p) PROVE Grows
        BY <3>6 DEF HearOther, CondOpen
      <3>7. ASSUME NEW p \in Player, NEW h \in Host, RoomJoinSelected(p, h) PROVE Grows
        BY <3>7 DEF RoomJoinSelected
      <3>8. ASSUME NEW p \in Player, NEW h \in Host, HandleRoomJoin(h, p) PROVE Grows
        BY <3>8 DEF HandleRoomJoin
      <3>9. ASSUME NEW p \in Player, NEW h \in Host, HearUser(h, p) PROVE Grows
        BY <3>9 DEF HearUser
      <3>10. ASSUME NEW p \in Player, NEW h \in Host, RoomRemoved(p, h) PROVE Grows
        BY <3>10 DEF RoomRemoved
      <3>11. ASSUME NEW p \in Player, NEW h \in Host, TakeAnswer(p, h) PROVE Grows
        BY <3>11 DEF TakeAnswer
      <3>12. ASSUME NEW h \in Host, CloseRoom(h) PROVE Grows
        BY <3>12 DEF CloseRoom
      <3> HIDE DEF Grows
      <3> QED
        BY <3>1, <3>2, <3>3, <3>4, <3>5, <3>6, <3>7, <3>8, <3>9, <3>10, <3>11,
           <3>12 DEF Next, Hear
    <2>2. updates \in Nat
      BY RoomJoinAssumption DEF TypeOK
    <2> QED  BY <2>1, <2>2 DEF Calm, TypeOK
  <1>2. CASE view' = view
    BY <1>1, <1>2, SizeShrinks DEF Seated
  <1>3. ASSUME NEW p \in Player, NEW h \in Host, HandleRoomJoin(h, p)
        PROVE  SizeInv'
    <2>1. view' = view \/ (~Full(h) /\ view' = Reserved(h, p))
      BY <1>3 DEF HandleRoomJoin
    <2> QED  BY <1>1, <1>2, <2>1, ReservedSize
  <1>4. view' = view \/ \E p \in Player, h \in Host :
                           HandleRoomJoin(h, p) \/ HearUser(h, p)
    <2>1. CASE UNCHANGED vars
      BY <2>1 DEF vars
    <2>2. ASSUME NEW p \in Player,
                 \/ Interrupt(p) \/ UserSend(p) \/ CloseWindow(p)
                 \/ HearSelf(p) \/ HearOther(p)
          PROVE  view' = view
      BY <2>2 DEF Interrupt, UserSend, CloseWindow, HearSelf, HearOther
    <2>3. ASSUME NEW p \in Player, NEW h \in Host,
                 \/ RoomJoinSelected(p, h) \/ TakeAnswer(p, h)
                 \/ RoomRemoved(p, h)
          PROVE  view' = view
      BY <2>3 DEF RoomJoinSelected, TakeAnswer, RoomRemoved
    <2>4. ASSUME NEW h \in Host, CloseRoom(h)
          PROVE  view' = view
      BY <2>4 DEF CloseRoom
    <2> QED  BY <2>1, <2>2, <2>3, <2>4 DEF Next, Hear
  <1> QED  BY <1>2, <1>3, <1>4, HearUserSize

\* A room never has more players than seats, when nobody takes the answer to
\* an earlier join or sends an update that overwrites his reservation
\* (house_app::_handle_room_join, model::house::room_size).
THEOREM NotOverfullHolds == Spec => []NotOverfull
  <1>1. TypeOK /\ SeatInv /\ SizeInv => NotOverfull
    <2> SUFFICES ASSUME TypeOK, SeatInv, SizeInv, Calm, NEW h \in hosting
                 PROVE  1 + Cardinality({p \in Player : room[p] = h}) <= MaxPlayers
      BY DEF NotOverfull, Calm
    <2> DEFINE In == {p \in Player : room[p] = h}
    <2>1. h \in Host
      BY DEF TypeOK
    <2>2. In \in SUBSET Seated(h)
      <3> SUFFICES ASSUME NEW p \in Player, room[p] = h PROVE view[h][p] = h
        BY DEF Seated
      <3>1. Kept(h, joining[p], tries[p], room[p], view[h][p],
                 net[<<p, h>>], net[<<h, p>>])
        BY <2>1 DEF SeatInv, PairInv
      <3> QED  BY <3>1 DEF Kept
    <2>3. IsFiniteSet(In) /\ Cardinality(In) <= Cardinality(Seated(h))
      BY <2>2, SeatedFinite, FS_Subset
    <2>4. Cardinality(In) \in Nat
      BY <2>3, FS_CardinalityType
    <2>5. RoomSize(h) <= MaxPlayers
      BY <2>1 DEF SizeInv
    <2> QED  BY <2>3, <2>4, <2>5, SeatedFinite, RoomJoinAssumption
  <1>2. Init => SizeInv
    <2> SUFFICES ASSUME Init, NEW h \in Host PROVE RoomSize(h) <= MaxPlayers
      BY DEF SizeInv
    <2>1. Seated(h) = {}
      BY RoomJoinAssumption DEF Init, Seated
    <2> QED  BY <2>1, SeatedFinite, FS_EmptySet, RoomJoinAssumption
  <1>3. TypeOK /\ WindowInv /\ SeatInv /\ SizeInv /\ [Next]_vars
        => WindowInv' /\ SeatInv' /\ SizeInv'
    BY NextWindow, NextSeats, NextSize
  <1>4. Init => WindowInv /\ SeatInv
    BY InitWindow, InitSeats
  <1> QED  BY <1>1, <1>2, <1>3, <1>4, TypeCorrect, PTL DEF Spec
=============================================================================
