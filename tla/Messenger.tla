----------------------------- MODULE Messenger -----------------------------
(***************************************************************************)
(* A messenger between two threads: messaging/messenger.h with its two     *)
(* implementations and the two loops that read them.                       *)
(*                                                                         *)
(* A sender appends to the queue and wakes the receiver while it holds the *)
(* lock.  There is one notification per message, but the receiver takes    *)
(* the whole queue at the first of them; the later ones find it empty.     *)
(*                                                                         *)
(*   net_messenger  ace_messenger, read by networking::worker.  The        *)
(*                  notification goes through the pipe of the reactor,     *)
(*                  which holds so many of them: a sender that finds it    *)
(*                  full waits, with the lock.  MaxNest is 1.              *)
(*   gui_messenger  qt_messenger, read by house_app.  A handler may open a *)
(*                  modal dialog, whose event loop reads the messenger     *)
(*                  again before the handler returns: MaxNest is 2 or more.*)
(*                                                                         *)
(* The ACE reactor and the Qt event loop are external.  A notification is  *)
(* taken out of the pipe before its handler runs.                          *)
(***************************************************************************)
EXTENDS Integers, Sequences

CONSTANTS Sender,    \* threads that send
          Nobody,    \* no thread: the lock is free
          Capacity,  \* notifications that the receiver's loop can hold
          MaxNest,   \* event loops on the receiver's stack
          MaxSent    \* messages sent in all

ASSUME MessengerAssumption ==
    /\ Nobody \notin Sender
    /\ Capacity \in Nat \ {0}
    /\ MaxNest \in Nat \ {0}
    /\ MaxSent \in Nat

VARIABLES
    msgs,     \* the queue; a message is the number of its sending  (_msgs)
    holder,   \* the thread that is in wake_target, holding _lock
    wakes,    \* notifications posted and not taken
    depth,    \* calls of the handler on the receiver's stack
    at,       \* at[d]: where the d-th of them is
    batch,    \* batch[d]: what it has collected and not handled
    quit,     \* the receiver stops                                 (_quit)
    sent,     \* history: messages sent
    handled   \* history: messages handled, oldest first

vars == <<msgs, holder, wakes, depth, at, batch, quit, sent, handled>>

Frame == 1..MaxNest

Init == /\ msgs = <<>>
        /\ holder = Nobody
        /\ wakes = 0
        /\ depth = 0
        /\ at = [d \in Frame |-> "collect"]
        /\ batch = [d \in Frame |-> <<>>]
        /\ quit = FALSE
        /\ sent = 0
        /\ handled = <<>>

-----------------------------------------------------------------------------
(* The senders *)

\* send_msg, as far as the call of wake_target.
SendMsg(s) ==
    /\ holder = Nobody
    /\ sent < MaxSent
    /\ holder' = s
    /\ sent' = sent + 1
    /\ msgs' = Append(msgs, sent + 1)
    /\ UNCHANGED <<wakes, depth, at, batch, quit, handled>>

\* wake_target, which waits for room, and the end of send_msg.
Wake(s) ==
    /\ holder = s
    /\ wakes < Capacity
    /\ wakes' = wakes + 1
    /\ holder' = Nobody
    /\ UNCHANGED <<msgs, depth, at, batch, quit, sent, handled>>

-----------------------------------------------------------------------------
(* The receiver *)

\* Its event loop runs: there is no handler, or the innermost shows a dialog.
InLoop == ~quit /\ (depth > 0 => at[depth] = "modal")

\* Faulty: the handler runs without a notification.
TakeWake_Unnotified ==
    /\ InLoop /\ depth < MaxNest
    /\ wakes' = wakes - 1
    /\ depth' = depth + 1
    /\ at' = [at EXCEPT ![depth + 1] = "collect"]
    /\ UNCHANGED <<msgs, holder, batch, quit, sent, handled>>

\* The loop takes a notification and calls the handler.
TakeWake ==
    /\ InLoop /\ depth < MaxNest
    /\ wakes > 0
    /\ wakes' = wakes - 1
    /\ depth' = depth + 1
    /\ at' = [at EXCEPT ![depth + 1] = "collect"]
    /\ UNCHANGED <<msgs, holder, batch, quit, sent, handled>>

\* Faulty: the messages are copied and stay in the queue.
CollectMsgs_Keeps ==
    /\ depth > 0 /\ at[depth] = "collect"
    /\ holder = Nobody
    /\ batch' = [batch EXCEPT ![depth] = msgs]
    /\ at' = [at EXCEPT ![depth] = "handle"]
    /\ UNCHANGED <<msgs, holder, wakes, depth, quit, sent, handled>>

\* collect_msgs needs the lock.
CollectMsgs ==
    /\ depth > 0 /\ at[depth] = "collect"
    /\ holder = Nobody
    /\ batch' = [batch EXCEPT ![depth] = msgs]
    /\ msgs' = <<>>
    /\ at' = [at EXCEPT ![depth] = "handle"]
    /\ UNCHANGED <<holder, wakes, depth, quit, sent, handled>>

\* Faulty: the newest message is handled first.
FirstOf_Newest(b) == b[Len(b)]
FirstOf(b) == Head(b)

\* The next message is handled.  It may be the one to stop, which lets the
\* rest of the batch be handled all the same, and its handler may open a
\* dialog where dialogs are possible.
HandleMessage ==
    /\ depth > 0 /\ at[depth] = "handle" /\ batch[depth] # <<>>
    /\ handled' = Append(handled, FirstOf(batch[depth]))
    /\ batch' = [batch EXCEPT ![depth] = Tail(@)]
    /\ \/ UNCHANGED <<at, quit>>
       \/ quit' = TRUE /\ UNCHANGED at
       \/ /\ depth < MaxNest
          /\ at' = [at EXCEPT ![depth] = "modal"]
          /\ UNCHANGED quit
    /\ UNCHANGED <<msgs, holder, wakes, depth, sent>>

\* The handler of a message throws: the rest of the batch is deleted, the
\* receiver stops.
HandlerThrows ==
    /\ depth > 0 /\ at[depth] = "handle" /\ batch[depth] # <<>>
    /\ handled' = Append(handled, FirstOf(batch[depth]))
    /\ quit' = TRUE
    /\ depth' = 0
    /\ batch' = [d \in Frame |-> <<>>]
    /\ UNCHANGED <<msgs, holder, wakes, at, sent>>

CloseDialog ==
    /\ depth > 0 /\ at[depth] = "modal"
    /\ at' = [at EXCEPT ![depth] = "handle"]
    /\ UNCHANGED <<msgs, holder, wakes, depth, batch, quit, sent, handled>>

\* Faulty: the notifications posted meanwhile are dropped as already served.
Return_Purges ==
    /\ depth > 0 /\ at[depth] = "handle" /\ batch[depth] = <<>>
    /\ depth' = depth - 1
    /\ wakes' = 0
    /\ UNCHANGED <<msgs, holder, at, batch, quit, sent, handled>>

Return ==
    /\ depth > 0 /\ at[depth] = "handle" /\ batch[depth] = <<>>
    /\ depth' = depth - 1
    /\ UNCHANGED <<msgs, holder, wakes, at, batch, quit, sent, handled>>

Receive == TakeWake \/ CollectMsgs \/ HandleMessage \/ HandlerThrows \/ Return

Next ==
    \/ \E s \in Sender : SendMsg(s) \/ Wake(s)
    \/ Receive
    \/ CloseDialog

\* Both threads run; nobody has to close a dialog.
Fairness == WF_vars(Receive) /\ \A s \in Sender : WF_vars(Wake(s))

Spec == Init /\ [][Next]_vars /\ Fairness

-----------------------------------------------------------------------------
(* Properties *)

\* Counters stay in their bounds, and a handler that is not running has
\* nothing left to handle.
TypeOK ==
    /\ msgs \in Seq(Nat)
    /\ holder \in Sender \cup {Nobody}
    /\ wakes \in 0..Capacity
    /\ depth \in 0..MaxNest
    /\ at \in [Frame -> {"collect", "handle", "modal"}]
    /\ batch \in [Frame -> Seq(Nat)]
    /\ quit \in BOOLEAN
    /\ sent \in Nat
    /\ handled \in Seq(Nat)
    /\ \A d \in Frame :
          (d > depth \/ at[d] = "collect") => batch[d] = <<>>

\* No wake-up is lost: while something is in the queue, a notification is to
\* come or to be taken, or a handler is about to collect.  One notification
\* per message makes it hold although a handler takes them all at once
\* (send_msg, wake_target, handle_exception, house_app::event).
NoLostWake ==
    (msgs # <<>> /\ ~quit) => \/ wakes > 0
                              \/ holder # Nobody
                              \/ depth > 0 /\ at[depth] = "collect"

\* The networking thread handles the messages of the GUI in the order they
\* were sent in, none of them twice and none left out (worker::
\* handle_exception).
InOrder == \A i \in DOMAIN handled : handled[i] = i

\* Without dialogs the messenger is the mailbox its interface promises.
Backlog == IF quit /\ depth = 0 THEN <<>> ELSE batch[1] \o msgs

MB == INSTANCE Mailbox WITH posted <- sent,
                            pending <- Backlog,
                            delivered <- handled,
                            closed <- quit /\ depth = 0

ImplementsMailbox == MB!Spec

\* Every message is handled in the end, or the receiver stops, provided the
\* pipe does not stay full.  (When it does, the threads can block each other
\* for good: the sender waits for room with the lock, the receiver, which
\* has just made room, waits for the lock.)
HandledInTheEnd ==
    ([]<>(wakes < Capacity)) =>
        \A k \in 1..MaxSent : (sent >= k) ~> (Len(handled) >= k \/ quit)

\* With dialogs, messages may be handled while older ones wait in a batch
\* further out, but no message is handled twice,
HandledOnce ==
    \A i, j \in DOMAIN handled : handled[i] = handled[j] => i = j

\* and once the outermost handler has returned, none was left out
\* (house_app::_handle_messenger).
NothingLeftBehind ==
    (depth = 0 /\ ~quit) =>
        {handled[i] : i \in DOMAIN handled} = 1..(sent - Len(msgs))
=============================================================================
