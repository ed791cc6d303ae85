------------------------------ MODULE Exchange ------------------------------
(***************************************************************************)
(* What request() and recv_notification() of src/transport.rs promise to   *)
(* Client and Subscription, without headers, cells or partial reads: whole *)
(* messages are exchanged with lldpd, a request gets the reply to itself   *)
(* or an error, and notifications are taken in the order they were pushed. *)
(***************************************************************************)
EXTENDS Naturals

CONSTANTS
    RequestType,    \* types of the messages that are answered
    CallType,       \* what may be asked: [num, ty, arg, len]
    HMSG_MAX_SIZE,  \* lldpd answers no request that is longer
    NoCall, NoRet,  \* no call, no Result
    Bad             \* no payload

VARIABLES
    call,        \* the call that runs, or NoCall
    sent,        \* how many requests have been sent
    asked,       \* requests that lldpd has not taken yet
    pushed,      \* how many messages lldpd has sent
    mail,        \* those of them that are on their way, whole
    answer,      \* the Result of the call, or NoRet
    open,        \* lldpd has not hung up
    subscribed,  \* it pushes notifications
    applied      \* numbers of the SET_PORT requests it has carried out

vars == <<call, sent, asked, pushed, mail, answer, open, subscribed, applied>>

Init ==
    /\ call = NoCall /\ answer = NoRet
    /\ sent = 0 /\ asked = {}
    /\ pushed = 0 /\ mail = {}
    /\ open = TRUE /\ subscribed = FALSE /\ applied = {}

-----------------------------------------------------------------------------
Unsent == call.ty \in RequestType /\ call.num > sent

Begin ==
    /\ call = NoCall
    /\ call' \in CallType
    /\ \/ call'.ty \in RequestType /\ call'.num = sent + 1 /\ ~subscribed
       \/ call'.ty = "Notification" /\ subscribed
    /\ UNCHANGED <<sent, asked, pushed, mail, answer, open, subscribed, applied>>

Send ==
    /\ Unsent /\ open /\ answer = NoRet
    /\ sent' = call.num
    /\ asked' = asked \cup {call}
    /\ UNCHANGED <<call, pushed, mail, answer, open, subscribed, applied>>

\* lldpd sends one more message.
Deliver(m) == mail' = mail \cup {m} /\ pushed' = pushed + 1

\* A request is refused with NONE, or carried out and answered.
Serve ==
    \E q \in asked, m \in mail' :
        /\ open /\ q.len <= HMSG_MAX_SIZE
        /\ asked' = asked \ {q}
        /\ m.num = q.num
        /\ Deliver(m)
        /\ subscribed' = (subscribed \/ (m.ty # "None" /\ q.ty = "Subscribe"))
        /\ applied' = IF m.ty # "None" /\ q.ty = "SetPort" THEN applied \cup {q.num} ELSE applied
        /\ UNCHANGED <<call, sent, answer, open>>

Notify ==
    \E m \in mail' :
        /\ open /\ subscribed
        /\ m.num = pushed + 1
        /\ Deliver(m)
        /\ UNCHANGED <<call, sent, asked, answer, open, subscribed, applied>>

\* What was sent last is lost first.
Hangup ==
    /\ open /\ open' = FALSE
    /\ asked' = {}
    /\ \E n \in 0..pushed : mail' = {m \in mail : m.num <= n}
    /\ UNCHANGED <<call, sent, pushed, answer, subscribed, applied>>

\* Ok if the message is of the type that the call expects.
Judged(m) ==
    CASE m.ty = "None"   -> [kind |-> "RequestRejected", num |-> m.num, body |-> Bad]
      [] m.ty = call.ty  -> [kind |-> "Ok", num |-> m.num, body |-> m.body]
      [] OTHER           -> [kind |-> "UnexpectedMessageType", num |-> m.num, body |-> Bad]

\* A request gets its own reply, a consumer the oldest message.
Take ==
    \E m \in mail :
        /\ call # NoCall /\ answer = NoRet /\ ~Unsent
        /\ IF call.ty \in RequestType THEN m.num = call.num ELSE \A x \in mail : m.num <= x.num
        /\ answer' = Judged(m)
        /\ mail' = mail \ {m}
        /\ UNCHANGED <<call, sent, asked, pushed, open, subscribed, applied>>

\* Nothing can be sent any more, or nothing will ever come.
Fail ==
    /\ call # NoCall /\ answer = NoRet /\ ~open
    /\ \/ Unsent /\ answer'.kind = "BrokenPipe"
       \/ ~Unsent /\ mail = {} /\ answer'.kind \in {"UnexpectedEof", "ConnectionReset"}
    /\ UNCHANGED <<call, sent, asked, pushed, mail, open, subscribed, applied>>

Return ==
    /\ answer # NoRet
    /\ call' = NoCall /\ answer' = NoRet
    /\ UNCHANGED <<sent, asked, pushed, mail, open, subscribed, applied>>

Next == Begin \/ Send \/ Serve \/ Notify \/ Hangup \/ Take \/ Fail \/ Return

Spec == Init /\ [][Next]_vars

=============================================================================
