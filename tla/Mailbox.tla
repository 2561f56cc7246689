------------------------------ MODULE Mailbox ------------------------------
(***************************************************************************)
(* What a messenger promises: "a one way message queue"                    *)
(* (messaging/messenger.h).  Messages are numbered as they are posted, and *)
(* delivered one by one in that order, each of them once, until the        *)
(* receiver stops; what is pending then is lost.                           *)
(***************************************************************************)
EXTENDS Naturals, Sequences

VARIABLES posted,     \* how many messages were posted
          pending,    \* those still to be delivered, oldest first
          delivered,  \* those delivered, oldest first
          closed      \* the receiver has stopped

vars == <<posted, pending, delivered, closed>>

Init == posted = 0 /\ pending = <<>> /\ delivered = <<>> /\ closed = FALSE

Post == /\ posted' = posted + 1
        /\ pending' = IF closed THEN pending ELSE Append(pending, posted + 1)
        /\ UNCHANGED <<delivered, closed>>

Deliver == /\ pending # <<>>
           /\ delivered' = Append(delivered, Head(pending))
           /\ pending' = Tail(pending)
           /\ UNCHANGED <<posted, closed>>

\* The receiver may stop in the middle of a message.
Close == /\ ~closed
         /\ closed' = TRUE
         /\ pending' = <<>>
         /\ \/ delivered' = delivered
            \/ /\ pending # <<>>
               /\ delivered' = Append(delivered, Head(pending))
         /\ UNCHANGED posted

Next == Post \/ Deliver \/ Close

Spec == Init /\ [][Next]_vars
=============================================================================
