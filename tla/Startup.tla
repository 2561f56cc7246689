------------------------------- MODULE Startup -------------------------------
(***************************************************************************)
(* From the start of the program to the lobby: the login window, the       *)
(* register window over it, the fetches of version and ignore list, and    *)
(* what the networking thread does for them (gui/house_app.cpp start,      *)
(* gui/window/login, register_user, version_update, modal_dialog_guard,    *)
(* networking/impl/login_manager_rvzt, version_update/client,              *)
(* global_ignore/client, ip_block/store).                                  *)
(*                                                                         *)
(* Every window that is executed and every message box runs an event loop  *)
(* of its own.  The handler that opened it waits below it with the rest of *)
(* the messages it had collected, while the new loop handles newer ones.   *)
(*                                                                         *)
(* A version window is modal but runs no loop; what is said of the order   *)
(* in which it and boxes are closed is: any.  Addresses are what the site  *)
(* and the list say after masking.                                         *)
(***************************************************************************)
EXTENDS Naturals, SequencesExt, HttpFetch

CONSTANTS Cred,     \* pairs of a user and a password, records
          Addr,     \* addresses
          Bad,      \* an entry of the ignore list that is no address
          Lists,    \* the ignore lists the site may have
          Nobody,   \* no user, no password, no address
          MaxAsks,  \* bounds on the logins and the registers that are sent
          MaxAsked  \* bound on both together

ASSUME StartupAssumption ==
    /\ Bad \notin Addr /\ Nobody \notin Addr
    /\ Lists \subseteq SUBSET (Addr \cup {Bad})
    /\ \A c \in Cred : c = [user |-> c.user, pass |-> c.pass]
    /\ MaxAsks \in [{"login", "reg"} -> Nat] /\ MaxAsked \in Nat

VARIABLES
    toNet,    \* messages to the networking thread
    net,      \* the networking thread
    toGui,    \* messages to the GUI
    batch,    \* what the running _handle_messenger has still to handle
    stack,    \* the event loops that run, the innermost last
    login,    \* the login window
    reg,      \* the register window
    self,     \* what the program goes on with        (pref, self_model)
    version,  \* the version window
    block,    \* the ignore list in the house window  (_global_ip_block)
    phase,
    past      \* history, for the properties

vars == <<toNet, net, toGui, batch, stack, login, reg, self, version, block, phase, past>>

User == {c.user : c \in Cred}
Ask  == {"login", "reg"}

NetMessage == [kind : {"version_fetch", "ignore_fetch", "connect"}]
              \cup [kind : Ask, cred : Cred]
              \cup [kind : {"block_users"}, ips : SUBSET Addr]

GuiKind == {"login_err", "login_fail", "reg_err", "reg_fail", "reg_done",
            "version", "version_force", "worker_exception"}
GuiMessage == [kind : GuiKind]
              \cup [kind : {"login_done"}, user : User]
              \cup [kind : {"global_ignore_list"}, ips : Lists]
              \cup [kind : {"external_ip_fetch_done"}, ip : Addr]

Err(ask)  == IF ask = "login" THEN "login_err" ELSE "reg_err"
Fail(ask) == IF ask = "login" THEN "login_fail" ELSE "reg_fail"

Fetch == [job : {"version", "ignore"}]
         \cup UNION {[job : {ask}, cred : Cred, nr : 1..MaxAsks[ask]] : ask \in Ask}

Box  == {"login_err", "login_fail", "reg_err", "reg_fail", "reg_done",
         "blocked_list", "blocked_ip", "worker_exception"}
Loop == [kind : Box \cup {"login", "register", "app"}, rest : Seq(GuiMessage),
         ips : SUBSET Addr]

Runs(kind) == [kind |-> kind, rest |-> <<>>, ips |-> {}]

\*   user, pass  what was last sent; on: its buttons are; open: it is executed
LoginWindow == [user : User \cup {Nobody}, pass : {c.pass : c \in Cred} \cup {Nobody},
                validated : BOOLEAN, on : BOOLEAN, open : BOOLEAN]

NoLogin == [user |-> Nobody, pass |-> Nobody, validated |-> FALSE,
            on |-> FALSE, open |-> FALSE]

Thread == [ended : BOOLEAN, fetches : SUBSET Fetch, asks : [Ask -> Nat],
           connected : BOOLEAN, ip : BOOLEAN, block : SUBSET Addr]

\*   accepted  pairs the site has accepted
\*   crossed   a login was sent before the last one was answered
\*   told      the addresses the user was told are on the list
Past == [accepted : SUBSET Cred, crossed : BOOLEAN, told : SUBSET Addr]

Init == /\ toNet \in {<<[kind |-> "version_fetch"]>>,
                      <<[kind |-> "version_fetch"], [kind |-> "ignore_fetch"]>>}
        /\ net = [ended |-> FALSE, fetches |-> {}, asks |-> [ask \in Ask |-> 0],
                  connected |-> FALSE, ip |-> FALSE, block |-> {}]
        /\ toGui = <<>>
        /\ batch = <<>>
        /\ stack = <<Runs("login")>>
        /\ login = [NoLogin EXCEPT !.on = TRUE, !.open = TRUE]
        /\ reg = [on |-> FALSE, open |-> FALSE]
        /\ self = [user |-> Nobody, pass |-> Nobody, validated |-> FALSE,
                   ip |-> Nobody, playing |-> FALSE]
        /\ version = [at |-> "none", forced |-> FALSE]
        /\ block = {}
        /\ phase = "login"
        /\ past = [accepted |-> {}, crossed |-> FALSE, told |-> {}]

-----------------------------------------------------------------------------
(* The networking thread. *)

Running == ~net.ended /\ phase # "quit"

NoAnswer == [said |-> "nothing", user |-> Nobody]

\* Faulty: the name in the answer is not compared.
Verdict_AnyUser(ask, cred, a) ==
    IF a.said = "garbled" THEN [kind |-> Err(ask)]
    ELSE IF a.said # "Y" THEN [kind |-> Fail(ask)]
    ELSE IF ask = "login" THEN [kind |-> "login_done", user |-> a.user]
    ELSE [kind |-> "reg_done"]

\* _fetch_handler::handle_response
Verdict(ask, cred, a) ==
    IF a.said = "garbled" THEN [kind |-> Err(ask)]
    ELSE IF a.user # cred.user \/ a.said # "Y" THEN [kind |-> Fail(ask)]
    ELSE IF ask = "login" THEN [kind |-> "login_done", user |-> a.user]
    ELSE [kind |-> "reg_done"]

\* The callbacks of _fetch_handler; the close says nothing.
AskTold(ask, cred, cbs, a) ==
    LET told == Spoken(cbs)
    IN [i \in DOMAIN told |-> IF told[i] = "response" THEN Verdict(ask, cred, a)
                              ELSE [kind |-> Err(ask)]]

\* Faulty: only the callbacks speak of a fetch that fails at once.
AskBegins_Quiet(ask, cred, start) == AskTold(ask, cred, AtOnce(start), NoAnswer)

\* _login_operation: a fetch that fails at once is told of once more.
AskBegins(ask, cred, start) ==
    AskTold(ask, cred, AtOnce(start), NoAnswer)
        \o IF start # "opened" THEN <<[kind |-> Err(ask)]>> ELSE <<>>

\* ip_block::store::handle_message, of the thread and of the house window
WithBlocked(list, ips) == list \cup ips

StepsOf(net2, gui) == /\ net' = net2
                      /\ toGui' = toGui \o gui
                      /\ UNCHANGED <<batch, stack, login, reg, self, version, block, phase>>

\* version_fetch, global_ignore_fetch and the clients' fetch; an exception of
\* it ends the thread.
ServiceFetch(job) ==
    \E start \in Starts \cup {"no_url"} :
        IF start = "throws"
        THEN StepsOf([net EXCEPT !.ended = TRUE], <<[kind |-> "worker_exception"]>>)
        ELSE StepsOf([net EXCEPT !.fetches =
                        IF start = "opened" THEN @ \cup {[job |-> job]} ELSE @], <<>>)

LoginOperation(ask, cred) ==
    \E start \in Starts \ {"throws"} :
        LET f == [job |-> ask, cred |-> cred, nr |-> net.asks[ask] + 1]
        IN StepsOf([net EXCEPT !.asks[ask] = @ + 1,
                               !.fetches = IF start = "opened" THEN @ \cup {f} ELSE @],
                   AskBegins(ask, cred, start))

\* worker::handle_message
WorkerHandles ==
    /\ toNet # <<>> /\ Running
    /\ LET m == Head(toNet)
       IN \/ m.kind = "version_fetch" /\ ServiceFetch("version")
          \/ m.kind = "ignore_fetch" /\ ServiceFetch("ignore")
          \/ m.kind \in Ask /\ LoginOperation(m.kind, m.cred)
          \/ m.kind = "connect" /\ StepsOf([net EXCEPT !.connected = TRUE], <<>>)
          \/ m.kind = "block_users" /\ StepsOf([net EXCEPT !.block = WithBlocked(@, m.ips)], <<>>)
    /\ toNet' = Tail(toNet)
    /\ UNCHANGED past

\* What the two services make of the answer: a newer version or none, an
\* ignore list that is empty or not.  Errors are said to nobody.
VersionAnswers(cbs) ==
    {<<>>} \cup IF Has(cbs, "response")
                THEN {<<[kind |-> k]>> : k \in {"version", "version_force"}} ELSE {}

IgnoreAnswers(cbs) ==
    {<<>>} \cup IF Has(cbs, "response")
                THEN {<<[kind |-> "global_ignore_list", ips |-> ips]>> : ips \in Lists \ {{}}}
                ELSE {}

Ended(f) == [net EXCEPT !.fetches = @ \ {f}]

ServiceFetchEnds ==
    /\ Running
    /\ \E f \in net.fetches, cbs \in Outcomes :
          /\ f.job \notin Ask
          /\ \E msgs \in IF f.job = "version" THEN VersionAnswers(cbs) ELSE IgnoreAnswers(cbs) :
                StepsOf(Ended(f), msgs)
    /\ UNCHANGED <<toNet, past>>

AskFetchEnds ==
    /\ Running
    /\ \E f \in net.fetches, cbs \in Outcomes, said \in {"Y", "N", "garbled"}, u \in User :
          /\ f.job \in Ask
          /\ StepsOf(Ended(f), AskTold(f.job, f.cred, cbs, [said |-> said, user |-> u]))
          /\ past' = IF f.job = "login" /\ Has(cbs, "response")
                        /\ said = "Y" /\ u = f.cred.user
                     THEN [past EXCEPT !.accepted = @ \cup {f.cred}] ELSE past
    /\ UNCHANGED toNet

\* _external_ip_set, when connected: once.
ExternalIpFound ==
    /\ net.connected /\ ~net.ip /\ Running
    /\ \E a \in Addr : StepsOf([net EXCEPT !.ip = TRUE],
                               <<[kind |-> "external_ip_fetch_done", ip |-> a]>>)
    /\ UNCHANGED <<toNet, past>>

-----------------------------------------------------------------------------
(* The GUI thread: messages. *)

Idle(kind) == batch = <<>> /\ Last(stack).kind = kind /\ phase # "quit"

\* The networking thread sends one message after another: the GUI may be
\* woken before it has sent all that its steps here send at once.
Collect ==
    /\ batch = <<>> /\ phase # "quit"
    /\ \E k \in DOMAIN toGui : /\ batch' = SubSeq(toGui, 1, k)
                              /\ toGui' = SubSeq(toGui, k + 1, Len(toGui))
    /\ UNCHANGED <<toNet, net, stack, login, reg, self, version, block, phase, past>>

Shows(box, ips) ==
    /\ stack' = Append(stack, [kind |-> box, rest |-> Tail(batch), ips |-> ips])
    /\ batch' = <<>>

Handled == batch' = Tail(batch) /\ UNCHANGED stack

\* display_if_possible
Displayed == IF version.at = "waiting" /\ ~self.playing
             THEN [version EXCEPT !.at = "shown"] ELSE version

\* login::handle_message
LoginToldDone(m) ==
    /\ m.kind = "login_done"
    /\ login' = IF phase # "login" THEN login
                ELSE [login EXCEPT !.on = TRUE, !.open = FALSE,
                                   !.user = m.user, !.validated = TRUE]
    /\ Handled
    /\ version' = Displayed
    /\ UNCHANGED <<toNet, self, block, past>>

\* login::handle_message and register_user::handle_message
AskToldBox(m) ==
    /\ \/ m.kind \in {"login_err", "login_fail"} /\ IF phase = "login" THEN Shows(m.kind, {})
                                                    ELSE Handled
       \/ m.kind \in {"reg_err", "reg_fail", "reg_done"} /\ IF reg.open THEN Shows(m.kind, {})
                                                            ELSE Handled
    /\ version' = Displayed
    /\ UNCHANGED <<toNet, login, self, block, past>>

\* _version_update_window: shown when possible
VersionFound(m) ==
    /\ m.kind \in {"version", "version_force"}
    /\ version' = [at |-> IF self.playing THEN "waiting" ELSE "shown",
                   forced |-> m.kind = "version_force"]
    /\ Handled
    /\ UNCHANGED <<toNet, login, self, block, past>>

\* _check_if_self_blocked
SelfBlocked(s, list) == s.ip \in list

\* _handle_global_ignore: the house window first, the networking thread when
\* it is done; entries that are no addresses are left out.
IgnoreListFound(m) ==
    /\ m.kind = "global_ignore_list"
    /\ LET ips == m.ips \ {Bad}
       IN /\ block' = WithBlocked(block, ips)
          /\ IF ips # {} /\ SelfBlocked(self, block')
             THEN /\ Shows("blocked_list", ips)
                  /\ past' = [past EXCEPT !.told = @ \cup {self.ip}]
                  /\ UNCHANGED toNet
             ELSE /\ Handled
                  /\ UNCHANGED past
                  /\ toNet' = IF ips = {} THEN toNet
                              ELSE Append(toNet, [kind |-> "block_users", ips |-> ips])
    /\ version' = Displayed
    /\ UNCHANGED <<login, self>>

\* handle_external_ip_message
ExternalIpTold(m) ==
    /\ m.kind = "external_ip_fetch_done"
    /\ self' = [self EXCEPT !.ip = m.ip]
    /\ IF SelfBlocked(self', block)
       THEN /\ Shows("blocked_ip", {})
            /\ past' = [past EXCEPT !.told = @ \cup {m.ip}]
            /\ UNCHANGED version
       ELSE Handled /\ version' = Displayed /\ UNCHANGED past
    /\ UNCHANGED <<toNet, login, block>>

WorkerEnded(m) ==
    /\ m.kind = "worker_exception"
    /\ Shows("worker_exception", {})
    /\ version' = Displayed
    /\ UNCHANGED <<toNet, login, self, block, past>>

\* _handle_messenger, one message
HandleMessage ==
    /\ batch # <<>> /\ phase # "quit"
    /\ LET m == Head(batch)
       IN \/ LoginToldDone(m) \/ AskToldBox(m) \/ VersionFound(m)
          \/ IgnoreListFound(m) \/ ExternalIpTold(m) \/ WorkerEnded(m)
    /\ UNCHANGED <<net, toGui, reg, phase>>

-----------------------------------------------------------------------------
(* The GUI thread: the user. *)

\* Faulty: the handler does not go on when its box is closed.
SentAfter_Nothing(top) == <<>>

\* What the handler of a box sends when it is closed.
SentAfter(top) == IF top.kind = "blocked_list"
                  THEN <<[kind |-> "block_users", ips |-> top.ips]>> ELSE <<>>

\* A box closes: the handler that showed it goes on with the rest.
CloseBox ==
    /\ batch = <<>> /\ Last(stack).kind \in Box /\ phase # "quit"
    /\ LET top == Last(stack)
       IN /\ batch' = top.rest
          /\ stack' = Front(stack)
          /\ \E yes \in BOOLEAN :
               login' = IF top.kind \notin {"login_err", "login_fail"} THEN login
                        ELSE [login EXCEPT !.on = TRUE,
                                           !.open = @ /\ ~(yes /\ top.kind = "login_err")]
          /\ reg' = CASE top.kind \in {"reg_err", "reg_fail"} -> [reg EXCEPT !.on = TRUE]
                      [] top.kind = "reg_done" -> [on |-> TRUE, open |-> FALSE]
                      [] OTHER -> reg
          /\ toNet' = toNet \o SentAfter(top)
          /\ version' = IF top.kind = "blocked_ip" THEN Displayed ELSE version
          /\ phase' = IF top.kind = "worker_exception" THEN "quit" ELSE phase
    /\ UNCHANGED <<net, toGui, self, block, past>>

Asked(ask) == net.asks[ask] + Cardinality({i \in DOMAIN toNet : toNet[i].kind = ask})

\* A login that was sent is not answered in the window.
Says(msgs, kind) == \E i \in DOMAIN msgs : msgs[i].kind = kind
Pending(ask) == ~net.ended /\ (Says(toNet, ask) \/ \E f \in net.fetches : f.job = ask)
Unread(kind) == Says(toGui, kind) \/ Says(batch, kind)
                \/ \E i \in DOMAIN stack : Says(stack[i].rest, kind)

\* login_clicked
LoginClicked(c) ==
    /\ Idle("login") /\ login.open /\ login.on /\ version.at # "shown"
    /\ Asked("login") < MaxAsks["login"] /\ Asked("login") + Asked("reg") < MaxAsked
    /\ login' = [login EXCEPT !.user = c.user, !.pass = c.pass,
                              !.validated = FALSE, !.on = FALSE]
    /\ toNet' = Append(toNet, [kind |-> "login", cred |-> c])
    /\ past' = [past EXCEPT !.crossed = @ \/ Pending("login") \/ Unread("login_done")]
    /\ UNCHANGED <<net, toGui, batch, stack, reg, self, version, block, phase>>

\* login's register_clicked
RegisterOpened ==
    /\ Idle("login") /\ login.open /\ login.on /\ version.at # "shown"
    /\ stack' = Append(stack, Runs("register"))
    /\ reg' = [on |-> TRUE, open |-> TRUE]
    /\ UNCHANGED <<toNet, net, toGui, batch, login, self, version, block, phase, past>>

\* register_user's register_clicked
RegisterClicked(c) ==
    /\ Idle("register") /\ reg.open /\ reg.on /\ version.at # "shown"
    /\ Asked("reg") < MaxAsks["reg"] /\ Asked("login") + Asked("reg") < MaxAsked
    /\ reg' = [reg EXCEPT !.on = FALSE]
    /\ toNet' = Append(toNet, [kind |-> "reg", cred |-> c])
    /\ UNCHANGED <<net, toGui, batch, stack, login, self, version, block, phase, past>>

\* Faulty: the window goes on being told messages when its loop has ended.
RegisterEnds_Watched ==
    /\ Idle("register")
    /\ stack' = Front(stack)
    /\ UNCHANGED <<toNet, net, toGui, batch, login, reg, self, version, block, phase, past>>

\* The user cancels, or the window was accepted: its loop ends.
RegisterEnds ==
    /\ Idle("register")
    /\ stack' = Front(stack)
    /\ reg' = [on |-> FALSE, open |-> FALSE]
    /\ UNCHANGED <<toNet, net, toGui, batch, login, self, version, block, phase, past>>

\* The user quits in the login window, or closes the window of a version he
\* must have.
Quits ==
    /\ \/ Idle("login") /\ login.open /\ UNCHANGED version
       \/ /\ batch = <<>> /\ version.at = "shown" /\ version.forced
          /\ version' = [version EXCEPT !.at = "closed"]
    /\ phase' = "quit"
    /\ UNCHANGED <<toNet, net, toGui, batch, stack, login, reg, self, block, past>>

CloseVersion ==
    /\ batch = <<>> /\ phase # "quit" /\ version.at = "shown" /\ ~version.forced
    /\ version' = [version EXCEPT !.at = "closed"]
    /\ UNCHANGED <<toNet, net, toGui, batch, stack, login, reg, self, block, phase, past>>

\* The login window's loop has ended: start goes on, and the application runs.
StartGoesOn ==
    /\ Idle("login") /\ ~login.open
    /\ self' = [self EXCEPT !.user = login.user, !.pass = login.pass,
                            !.validated = login.validated]
    /\ toNet' = Append(toNet, [kind |-> "connect"])
    /\ stack' = <<Runs("app")>>
    /\ phase' = "running"
    /\ login' = NoLogin
    /\ UNCHANGED <<net, toGui, batch, reg, version, block, past>>

\* _change_user_status
ChangeStatus ==
    /\ Idle("app") /\ version.at # "shown"
    /\ self' = [self EXCEPT !.playing = ~@]
    /\ UNCHANGED <<toNet, net, toGui, batch, stack, login, reg, version, block, phase, past>>

Next == \/ WorkerHandles \/ ServiceFetchEnds \/ AskFetchEnds \/ ExternalIpFound
        \/ Collect \/ HandleMessage \/ CloseBox \/ StartGoesOn
        \/ \E c \in Cred : LoginClicked(c) \/ RegisterClicked(c)
        \/ RegisterOpened \/ RegisterEnds \/ Quits \/ CloseVersion \/ ChangeStatus

Spec == Init /\ [][Next]_vars

-----------------------------------------------------------------------------

TypeOK ==
    /\ toNet \in Seq(NetMessage) /\ toGui \in Seq(GuiMessage) /\ batch \in Seq(GuiMessage)
    /\ net \in Thread
    /\ stack \in Seq(Loop) /\ stack # <<>>
    /\ Head(stack).kind = (IF phase = "running" THEN "app" ELSE "login")
       \/ phase = "quit"
    /\ login \in LoginWindow
    /\ reg \in [on : BOOLEAN, open : BOOLEAN]
    /\ reg.open => \E i \in DOMAIN stack : stack[i].kind = "register"
    /\ self \in [user : User \cup {Nobody}, pass : {c.pass : c \in Cred} \cup {Nobody},
                 validated : BOOLEAN, ip : Addr \cup {Nobody}, playing : BOOLEAN]
    /\ version \in [at : {"none", "waiting", "shown", "closed"}, forced : BOOLEAN]
    /\ block \subseteq Addr
    /\ phase \in {"login", "running", "quit"}
    /\ past \in Past

\* A program that goes on as validated keeps the name and the password that
\* the site accepted together, unless two logins were under way at a time.
\* (handle_response compares the name; login_clicked keeps the password.)
ValidatedPair ==
    self.validated /\ ~past.crossed
        => [user |-> self.user, pass |-> self.pass] \in past.accepted

\* The user is told that he is on the ignore list whichever comes last, the
\* list or his address; and the networking thread blocks all that is on it,
\* when he has seen that (house_app.cpp:507-573, gui/window/house.cpp:847-884).
IgnoreListApplied ==
    /\ self.ip \in block => self.ip \in past.told
    /\ \A a \in block :
          \/ a \in net.block
          \/ \E i \in DOMAIN toNet : toNet[i].kind = "block_users" /\ a \in toNet[i].ips
          \/ \E i \in DOMAIN stack : stack[i].kind = "blocked_list" /\ a \in stack[i].ips

\* A login or a register that is over is answered: while its button is off
\* the site is still asked, or an answer is unread, or a box shows one, or
\* the thread has ended, which the user is told.  There is no timeout in the
\* windows.
Waiting(ask) == IF ask = "login" THEN phase = "login" /\ login.open /\ ~login.on
                ELSE phase = "login" /\ reg.open /\ ~reg.on

AnswersTo(ask) == IF ask = "login" THEN {"login_err", "login_fail", "login_done"}
                  ELSE {"reg_err", "reg_fail", "reg_done"}

AskAnswered ==
    /\ \A ask \in Ask :
          Waiting(ask) /\ ~net.ended
              => \/ Pending(ask)
                 \/ \E k \in AnswersTo(ask) : Unread(k)
                 \/ \E i \in DOMAIN stack : stack[i].kind \in AnswersTo(ask)
    /\ net.ended /\ phase # "quit"
          => \/ Unread("worker_exception")
             \/ \E i \in DOMAIN stack : stack[i].kind = "worker_exception"
=============================================================================
