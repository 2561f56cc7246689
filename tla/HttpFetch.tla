----------------------------- MODULE HttpFetch -----------------------------
(***************************************************************************)
(* One fetch over HTTP, from the call to the last callback:                *)
(* networking/http/fetcher.cpp, fetcher_handler.cpp, and the saver of      *)
(* remote files on top of it, remote_file_saver/fetcher.cpp.               *)
(*                                                                         *)
(* What the handler of a fetch gets is a sequence of callbacks.  Some      *)
(* fetches end inside the call that starts them, before it returns: an     *)
(* address that does not resolve, a connect that fails at once.  Others    *)
(* end in the reactor.  Sockets and the ACE connector are external.        *)
(***************************************************************************)
EXTENDS Integers, Sequences

Callback == {"response", "error", "close"}

\* What had arrived when a fetch ended: nothing, a part without the end of
\* the HTTP header, or a header and a content.
Got == {"nothing", "part", "headed"}

\* handle_close: an error when nothing was read, then the close.
ClosedWith(got) == IF got = "nothing" THEN <<"error", "close">> ELSE <<"close">>

\* handle_input when the other side has closed.
HandleResponse(got) == IF got = "headed" THEN <<"response">> ELSE <<"error">>

\* What the reactor makes of an open fetch that ends: the connect timed out
\* or was refused, a receive failed, the buffer was full, the peer closed.
Callbacks(by, got) ==
    CASE by = "connect_failed" -> ClosedWith("nothing")
      [] by \in {"recv_failed", "buffer_full"} -> <<"error">> \o ClosedWith(got)
      [] by = "peer_closed" -> HandleResponse(got) \o ClosedWith(got)

Ends == {<<"connect_failed", "nothing">>, <<"recv_failed", "nothing">>,
         <<"recv_failed", "part">>, <<"recv_failed", "headed">>,
         <<"buffer_full", "part">>, <<"buffer_full", "headed">>,
         <<"peer_closed", "nothing">>, <<"peer_closed", "part">>,
         <<"peer_closed", "headed">>}

Outcomes == {Callbacks(e[1], e[2]) : e \in Ends}

Has(cbs, c) == \E i \in DOMAIN cbs : cbs[i] = c

\* How the call itself ends.  A URL that cannot be parsed, and a header that
\* does not fit, throw.
Starts == {"throws", "unresolved", "refused", "opened"}

\* The callbacks that come before the call returns.
AtOnce(start) ==
    CASE start = "unresolved" -> <<"close">>
      [] start = "refused"    -> Callbacks("connect_failed", "nothing")
      [] OTHER                -> <<>>

\* All callbacks but the close, which is the last one of a fetch.
Spoken(cbs) == SubSeq(cbs, 1, Len(cbs) - 1)

-----------------------------------------------------------------------------
(* remote_file_saver::http_handler *)

\* What the saver makes of the content: written to the file or not.
Saved == {"saved", "not_saved"}

\* The notifications of its target, one for each callback but the close,
\* which notifies only when nothing did.
Notified(cbs, saved) ==
    LET told == Spoken(cbs)
    IN IF told = <<>> THEN <<"error">>
       ELSE [i \in DOMAIN told |->
                IF told[i] = "response" /\ saved = "saved" THEN "ok" ELSE "error"]
=============================================================================
