------------------------------ MODULE Session ------------------------------
(***************************************************************************)
(* The public API on one connection: Client (src/client.rs) and            *)
(* Subscription (src/subscription.rs), or with Async = TRUE their tokio    *)
(* twins (src/async_client.rs), whose futures may also be dropped at any   *)
(* .await.  A method call is a Call action, the steps of Transport and     *)
(* Lldpd, and an End action that hands its Result to the caller.           *)
(***************************************************************************)
EXTENDS Lldpd

CONSTANTS
    Async,     \* TRUE: AsyncClient/AsyncSubscription
    MaxCalls,  \* bound: calls of Client methods
    NonUtf8,   \* interface names that are not UTF-8: the kernel does not mind
    Garbled    \* what String::from_utf8_lossy makes of them

ASSUME SessionAssumption ==
    /\ Async \in BOOLEAN /\ MaxCalls \in Nat
    /\ NonUtf8 \subseteq Iface /\ Garbled \in Iface \ NonUtf8

VARIABLES
    mode,    \* the value the caller owns: "none", "Client" or "Subscription"
    op,      \* the public method that is running
    listed,  \* all_interfaces: the names that interfaces() returned
    at,      \* all_interfaces: how many of them have been asked for
    acc,     \* all_interfaces: `out`
    res,     \* the Result of the last public method
    seen,    \* the items that next()/next_change() has returned
    ended,   \* it has returned None
    base,    \* the number of the frame that acknowledged SUBSCRIBE
    stable,  \* interfaces lldpd has known since all_interfaces was called
    calls    \* Client methods called

sessionVars == <<mode, op, listed, at, acc, res, seen, ended, base, stable, calls>>
vars == <<transportVars, lldpdVars, sessionVars>>

NoRes == [op |-> "none", kind |-> "none", val |-> <<>>]

Init ==
    /\ TransportInit
    /\ LldpdInit
    /\ mode = "none" /\ op = "none"
    /\ listed = <<>> /\ at = 0 /\ acc = <<>>
    /\ res = NoRes
    /\ seen = <<>> /\ ended = FALSE /\ base = 0
    /\ stable = {} /\ calls = 0

-----------------------------------------------------------------------------
(* connect_to: the one connection of the behaviour.                         *)

connect_to ==
    /\ mode = "none" /\ res = NoRes /\ calls = 0
    /\ mode' = "Client"
    /\ res' = [op |-> "connect_to", kind |-> "Ok", val |-> <<>>]
    /\ UNCHANGED <<transportVars, lldpdVars, op, listed, at, acc, seen, ended,
                   base, stable, calls>>

connect_to_fails ==
    /\ mode = "none" /\ res = NoRes /\ calls = 0
    /\ res' = [op |-> "connect_to", kind |-> "Io", val |-> <<>>]
    /\ UNCHANGED <<transportVars, lldpdVars, mode, op, listed, at, acc, seen,
                   ended, base, stable, calls>>

\* Dropping the value closes the socket.
Drop ==
    /\ mode # "none" /\ op = "none"
    /\ mode' = "none"
    /\ UNCHANGED <<transportVars, lldpdVars, op, listed, at, acc, res, seen,
                   ended, base, stable, calls>>

-----------------------------------------------------------------------------
Begin(o) ==
    /\ mode = "Client" /\ op = "none" /\ calls < MaxCalls
    /\ op' = o
    /\ calls' = calls + 1
    /\ res' = NoRes
    /\ UNCHANGED <<lldpdVars, mode, seen, ended, base>>

interfaces ==
    /\ Begin("interfaces")
    /\ request("GetInterfaces", <<>>)
    /\ UNCHANGED <<listed, at, acc, stable>>

interface(i) ==
    /\ Begin("interface")
    /\ request("GetInterface", <<i>>)
    /\ UNCHANGED <<listed, at, acc, stable>>

set_port_description(i, d) ==
    /\ Begin("set_port_description")
    /\ request("SetPort", <<i, d>>)
    /\ UNCHANGED <<listed, at, acc, stable>>

all_interfaces ==
    /\ Begin("all_interfaces")
    /\ request("GetInterfaces", <<>>)
    /\ stable' = Known
    /\ UNCHANGED <<listed, at, acc>>

subscribe ==
    /\ Begin("subscribe")
    /\ request("Subscribe", <<>>)
    /\ UNCHANGED <<listed, at, acc, stable>>

\* Subscription::next and AsyncSubscription::next_change.
next ==
    /\ mode = "Subscription" /\ op = "none"
    /\ op' = "next"
    /\ res' = NoRes
    /\ recv_notification
    /\ UNCHANGED <<lldpdVars, mode, listed, at, acc, seen, ended, base, stable, calls>>

-----------------------------------------------------------------------------
(* What the method makes of the Result of request()/recv_notification().    *)

\* Names on the wire and as a String: bytes that are not UTF-8 are replaced.
Lossy(i) == IF i \in NonUtf8 THEN Garbled ELSE i
Names(body) == [k \in DOMAIN body |-> Lossy(body[k])]

\* The kind of error, or Ok, once the payload has been decoded as well.
Decoded(r) == IF r.kind = "Ok" /\ r.body = Bad THEN "Protocol" ELSE r.kind

Finish(kind, val) ==
    /\ op' = "none"
    /\ res' = [op |-> op, kind |-> kind, val |-> val]

\* Mutant: the payload is returned whether it decodes or not.
EndInterfaces_Unchecked ==
    /\ op \in {"interfaces", "interface"}
    /\ Release
    /\ Finish(ret.kind, IF ret.kind = "Ok" THEN ret.body ELSE <<>>)
    /\ UNCHANGED <<lldpdVars, mode, listed, at, acc, seen, ended, base, stable, calls>>

EndInterfaces ==
    /\ op \in {"interfaces", "interface"}
    /\ Release
    /\ Finish(Decoded(ret), IF Decoded(ret) = "Ok" THEN Names(ret.body) ELSE <<>>)
    /\ UNCHANGED <<lldpdVars, mode, listed, at, acc, seen, ended, base, stable, calls>>

\* The payload of the acknowledgement is not looked at.
EndSetPort ==
    /\ op = "set_port_description"
    /\ Release
    /\ Finish(ret.kind, <<>>)
    /\ UNCHANGED <<lldpdVars, mode, listed, at, acc, seen, ended, base, stable, calls>>

\* Mutant: the Result of request() is ignored.
EndSubscribe_Anyway ==
    /\ op = "subscribe"
    /\ Release
    /\ Finish("Ok", <<>>)
    /\ mode' = "Subscription"
    /\ base' = ret.num
    /\ UNCHANGED <<lldpdVars, listed, at, acc, seen, ended, stable, calls>>

\* subscribe takes self: the stream moves into the Subscription or is closed.
EndSubscribe ==
    /\ op = "subscribe"
    /\ Release
    /\ Finish(ret.kind, <<>>)
    /\ mode' = IF ret.kind = "Ok" THEN "Subscription" ELSE "none"
    /\ base' = ret.num
    /\ UNCHANGED <<lldpdVars, listed, at, acc, seen, ended, stable, calls>>

\* Mutants: an undecodable notification is skipped, any error ends the
\* iteration, the end of the stream is an item after the first time.
NextItem(end, skip) ==
    /\ op = "next"
    /\ Release
    /\ IF end
       THEN Finish("None", <<>>) /\ ended' = TRUE /\ UNCHANGED seen
       ELSE /\ Finish(Decoded(ret), <<>>)
            /\ seen' = IF skip THEN seen ELSE Append(seen, [note |-> ret.num, kind |-> Decoded(ret)])
            /\ UNCHANGED ended
    /\ UNCHANGED <<lldpdVars, mode, listed, at, acc, base, stable, calls>>
EndNext_Skip == NextItem(ret.kind = "UnexpectedEof", Decoded(ret) = "Protocol")
EndNext_AnyError == NextItem(ret.kind # "Ok", FALSE)
EndNext_EofOnce == NextItem(ret.kind = "UnexpectedEof" /\ ~ended, FALSE)

\* UnexpectedEof is the end of the iteration, every other error is an item.
EndNext ==
    /\ op = "next"
    /\ Release
    /\ IF ret.kind = "UnexpectedEof"
       THEN /\ Finish("None", <<>>)
            /\ ended' = TRUE
            /\ UNCHANGED seen
       ELSE /\ Finish(Decoded(ret), <<>>)
            /\ seen' = Append(seen, [note |-> ret.num, kind |-> Decoded(ret)])
            /\ UNCHANGED ended
    /\ UNCHANGED <<lldpdVars, mode, listed, at, acc, base, stable, calls>>

-----------------------------------------------------------------------------
(* all_interfaces: interfaces()?, then interface(name) for each of them.    *)

\* Its locals die when it returns and when its future is dropped.
ForgetAll == listed' = <<>> /\ at' = 0 /\ acc' = <<>>

AllListed ==
    /\ op = "all_interfaces" /\ cur.ty = "GetInterfaces"
    /\ Release
    /\ IF Decoded(ret) = "Ok"
       THEN listed' = Names(ret.body) /\ UNCHANGED <<op, res, at, acc>>
       ELSE Finish(Decoded(ret), <<>>) /\ ForgetAll
    /\ UNCHANGED <<lldpdVars, mode, seen, ended, base, stable, calls>>

\* Mutant: the names are popped off the end of the list.
AllFetch_Pop ==
    /\ op = "all_interfaces" /\ pc = "idle" /\ at < Len(listed)
    /\ request("GetInterface", <<listed[Len(listed) - at]>>)
    /\ at' = at + 1
    /\ UNCHANGED <<lldpdVars, mode, op, listed, acc, res, seen, ended, base, stable, calls>>

AllFetch ==
    /\ op = "all_interfaces" /\ pc = "idle" /\ at < Len(listed)
    /\ request("GetInterface", <<listed[at + 1]>>)
    /\ at' = at + 1
    /\ UNCHANGED <<lldpdVars, mode, op, listed, acc, res, seen, ended, base, stable, calls>>

\* Mutants: a rejected name ends the loop; a result is put in front.
AllFetched_Break ==
    /\ op = "all_interfaces" /\ cur.ty = "GetInterface"
    /\ Release
    /\ IF Decoded(ret) = "Ok"
       THEN acc' = acc \o Names(ret.body) /\ UNCHANGED <<listed, at, op, res>>
       ELSE /\ ForgetAll
            /\ IF Decoded(ret) = "RequestRejected" THEN Finish("Ok", acc)
               ELSE Finish(Decoded(ret), <<>>)
    /\ UNCHANGED <<lldpdVars, mode, seen, ended, base, stable, calls>>
AllFetched_Prepend ==
    /\ op = "all_interfaces" /\ cur.ty = "GetInterface"
    /\ Release
    /\ IF Decoded(ret) \in {"Ok", "RequestRejected"}
       THEN /\ acc' = IF Decoded(ret) = "Ok" THEN Names(ret.body) \o acc ELSE acc
            /\ UNCHANGED <<listed, at, op, res>>
       ELSE Finish(Decoded(ret), <<>>) /\ ForgetAll
    /\ UNCHANGED <<lldpdVars, mode, seen, ended, base, stable, calls>>

AllFetched ==
    /\ op = "all_interfaces" /\ cur.ty = "GetInterface"
    /\ Release
    /\ \/ /\ Decoded(ret) = "Ok"
          /\ acc' = acc \o Names(ret.body)
          /\ UNCHANGED <<listed, at, op, res>>
       \/ /\ Decoded(ret) = "RequestRejected"
          /\ UNCHANGED <<listed, at, acc, op, res>>
       \/ /\ Decoded(ret) \notin {"Ok", "RequestRejected"}
          /\ Finish(Decoded(ret), <<>>)
          /\ ForgetAll
    /\ UNCHANGED <<lldpdVars, mode, seen, ended, base, stable, calls>>

AllDone ==
    /\ op = "all_interfaces" /\ pc = "idle" /\ at = Len(listed)
    /\ Finish("Ok", acc)
    /\ ForgetAll
    /\ UNCHANGED <<transportVars, lldpdVars, mode, seen, ended, base, stable, calls>>

-----------------------------------------------------------------------------
\* Mutant: subscribe only borrows the client.
Cancel_KeepClient ==
    /\ Async
    /\ DropFuture
    /\ ForgetAll
    /\ op' = "none"
    /\ UNCHANGED <<lldpdVars, mode, res, seen, ended, base, stable, calls>>

\* The caller drops the future of the running method (select!, a timeout).
\* subscribe's future owns the client.
Cancel ==
    /\ Async
    /\ DropFuture
    /\ ForgetAll
    /\ op' = "none"
    /\ mode' = IF op = "subscribe" THEN "none" ELSE mode
    /\ UNCHANGED <<lldpdVars, res, seen, ended, base, stable, calls>>

Caller ==
    \/ connect_to \/ connect_to_fails \/ Drop
    \/ interfaces \/ all_interfaces \/ subscribe \/ next
    \/ \E i \in Iface \ NonUtf8 : interface(i) \/ \E d \in Descr : set_port_description(i, d)
    \/ Cancel

\* The code between two public calls: it always runs on.
Method ==
    \/ TransportStep /\ UNCHANGED <<lldpdVars, sessionVars>>
    \/ EndInterfaces \/ EndSetPort \/ EndSubscribe \/ EndNext
    \/ AllListed \/ AllFetch \/ AllFetched \/ AllDone

Daemon ==
    \/ (Serve \/ Notify \/ Hangup) /\ UNCHANGED sessionVars
    \/ \E i \in Iface : IfUp(i) /\ UNCHANGED sessionVars
    \/ \E i \in Iface :
          /\ IfDown(i)
          /\ stable' = stable \ {i}
          /\ UNCHANGED <<mode, op, listed, at, acc, res, seen, ended, base, calls>>

Next == Caller \/ Method \/ Daemon

Spec == Init /\ [][Next]_vars

-----------------------------------------------------------------------------
(* Fairness.  A started method runs on, and lldpd answers the requests it   *)
(* receives or hangs up on the ones that are too long; the consumer of a    *)
(* Subscription is a `for` loop over it.                                    *)

FairSpec ==
    /\ Spec
    /\ WF_vars(Method)
    /\ WF_vars((Serve \/ HangupTooLong) /\ UNCHANGED sessionVars)
ConsumerSpec == FairSpec /\ WF_vars(next)

-----------------------------------------------------------------------------
(* Types                                                                    *)

CallType == [num : Nat, ty : HmsgType, arg : Seq(Iface \cup Descr), len : Nat]
FrameType == [ty : HmsgType, len : Nat, num : Nat, body : BodyType]
RetKind == {"none", "Ok", "RequestRejected", "UnexpectedMessageType", "Protocol",
            "UnexpectedEof", "ConnectionReset", "BrokenPipe"}

\* Cells of frames of type T.
Cells(T) == [frame : T, pos : Nat \ {0}]

TransportTypeOK ==
    /\ c2d \in Seq(Cells(CallType))
    /\ d2c \in Seq(Cells(FrameType))
    /\ hup \in BOOLEAN /\ reset \in BOOLEAN /\ skewed \in BOOLEAN
    /\ pc \in {"idle", "write", "header", "payload", "done"}
    /\ cur \in CallType
    /\ hdr \in FrameType
    /\ ret \in [kind : RetKind, num : Nat, body : BodyType]
    /\ sent \in Nat /\ taken \in Nat /\ orphans \in Nat

LldpdTypeOK ==
    /\ ifs \in Seq(Iface)
    /\ dsub \in BOOLEAN
    /\ applied \in SUBSET Nat
    /\ pushed \in Nat /\ notes \in Nat /\ flaps \in Nat

OpName == {"none", "interfaces", "interface", "all_interfaces",
           "set_port_description", "subscribe", "next"}
ResType == [op : OpName \cup {"connect_to"}, kind : RetKind \cup {"None", "Io"},
            val : Seq(Iface)]
ItemType == [note : Nat, kind : RetKind]

SessionTypeOK ==
    /\ mode \in {"none", "Client", "Subscription"}
    /\ op \in OpName
    /\ listed \in Seq(Iface) /\ at \in Nat /\ acc \in Seq(Iface)
    /\ res \in ResType
    /\ seen \in Seq(ItemType)
    /\ ended \in BOOLEAN
    /\ base \in Nat /\ calls \in Nat
    /\ stable \in SUBSET Iface

\* The type invariant of the composed specification.
TypeOK == TransportTypeOK /\ LldpdTypeOK /\ SessionTypeOK

-----------------------------------------------------------------------------
(* Replies and requests                                                     *)

\* request() has read a whole frame and judged it by its type.
Answered ==
    /\ pc = "done" /\ cur.ty \in RequestType
    /\ ret.kind \in {"Ok", "RequestRejected", "UnexpectedMessageType"}

\* request() (transport.rs:74 "waits for the matching reply"): whatever it
\* says of a reply, it says of the reply to the request it has just sent.
AnswersThisCall == Answered => ret.num = cur.num

\* The same across dropped futures: as long as no frame was torn, a reply is
\* late by exactly the number of requests abandoned before it.
ReplyLag == Answered /\ ~skewed => ret.num + orphans = cur.num

\* read_message drains what it refuses (transport.rs:107): between two frames
\* the next cell to read is the first of a frame.
StaysFramed == pc # "payload" /\ d2c # <<>> => d2c[1].pos = 1

\* set_port_description: Ok means lldpd did it, RequestRejected and a failed
\* write mean that it did not.  Any other error leaves it open.
SetPortOutcome ==
    pc = "done" /\ cur.ty = "SetPort" =>
        /\ ret.kind = "Ok" => cur.num \in applied
        /\ ret.kind \in {"RequestRejected", "BrokenPipe"} => cur.num \notin applied

\* The same with dropped futures: the outcome is that of the SET_PORT whose reply
\* it is, which a failed write never becomes.
OutcomeOfReply ==
    ~skewed /\ pc = "done" /\ cur.ty = "SetPort" =>
        /\ ret.kind = "Ok" => ret.num \in applied
        /\ ret.kind = "RequestRejected" => ret.num \notin applied
        /\ ret.kind = "BrokenPipe" => cur.num \notin applied

\* set_port_description with a description above the cap: lldpd never applies
\* it, and the caller gets an I/O error, on a connection that is gone, and not
\* an answer.
TooLongFails ==
    pc = "done" /\ cur.ty = "SetPort" /\ cur.arg[2] \in LongDescr =>
        hup /\ cur.num \notin applied /\ ret.kind \in {"BrokenPipe", "ConnectionReset"}

IoError == {"BrokenPipe", "ConnectionReset", "UnexpectedEof"}

\* A Client method that fails with an I/O error says that the connection is
\* over: nothing that is left on it could be taken for a later call's reply.
IoErrorIsFinal == res.kind \in IoError => hup /\ d2c = <<>>

\* In either API, and whatever was abandoned or torn before, no later method on
\* the connection succeeds, or takes anything that is left on it for an answer.
IoErrorLasts ==
    [](res.kind \in IoError => [](res.kind \in IoError \cup {"none", "None"}))

\* transport.rs:78 says of request() that "this crate opens a fresh connection
\* per request": at most one request is ever written to a connection.
FreshConnectionPerRequest == sent <= 1

-----------------------------------------------------------------------------
(* all_interfaces                                                           *)

\* all_interfaces skips what has disappeared and nothing else: an interface
\* that lldpd knew from the call to the return is in the result (client.rs:66
\* "skipping any that disappear").
AllInterfacesComplete ==
    res.op = "all_interfaces" /\ res.kind = "Ok" =>
        \A i \in stable : \E k \in DOMAIN res.val : res.val[k] = Lossy(i)

\* `out` follows the order of the list, repeats no entry of it, and each of its
\* elements, a single one too, is a name that has been asked for (client.rs:71).
AllInterfacesInOrder ==
    op = "all_interfaces" =>
        \E ask \in [DOMAIN acc -> 1..at] :
            /\ \A k \in DOMAIN acc : acc[k] = listed[ask[k]]
            /\ \A j, k \in DOMAIN acc : j < k => ask[j] < ask[k]

\* What the loop adds to `out` is the interface of the request whose reply has
\* just come, the at-th name of the list, whatever has been skipped before it.
FetchedIsAsked ==
    [][op = "all_interfaces" /\ op' = op /\ acc' # acc => acc' = Append(acc, listed[at])]_vars

-----------------------------------------------------------------------------
(* Subscription                                                             *)

\* Every notification is returned once, in order: item i of the iteration is
\* the i-th frame after the acknowledgement, and the ones not yet returned
\* are in the stream (all of them, unless lldpd has closed it).
NoNoteLost ==
    mode = "Subscription" /\ ~skewed =>
        /\ \A i \in DOMAIN seen : seen[i].note = base + i
        /\ op = "none" =>
             LET waiting == {d2c[k].frame.num : k \in DOMAIN d2c}
                 next1 == base + Len(seen) + 1
             IN  /\ ~hup => waiting = next1..pushed
                 /\ \E m \in next1 - 1..pushed : waiting = next1..m

\* A Subscription starts in step with lldpd: no reply to an abandoned request
\* can be in front of its notifications, and nothing of it is unread.
SubscribedInStep ==
    mode = "Subscription" /\ ~skewed => orphans = 0 /\ c2d = <<>> /\ dsub

\* None is returned only once lldpd has closed the connection and everything
\* it had sent has been consumed.
EndMeansHungUp == ended => hup /\ d2c = <<>>

\* After None the iteration stays ended.
EndIsFinal == [][ended => seen' = seen /\ ended']_vars

-----------------------------------------------------------------------------
(* The inductive invariant behind the properties above.                     *)

\* A stream that is a run of frames, each numbered one more than the last; it
\* may begin inside a frame and end inside one.
Intact(s) ==
    \A k \in 1..Len(s) :
        /\ s[k].pos <= FrameCells(s[k].frame)
        /\ \A m \in k..Len(s) :
              s[k].pos + (m - k) <= FrameCells(s[k].frame) =>
                  s[m] = [frame |-> s[k].frame, pos |-> s[k].pos + (m - k)]
        /\ k < Len(s) /\ s[k].pos = FrameCells(s[k].frame) =>
              s[k + 1].pos = 1 /\ s[k + 1].frame.num = s[k].frame.num + 1

\* The next cell, if there is one, opens frame n.
StartsAt(s, n) == s # <<>> => s[1].pos = 1 /\ s[1].frame.num = n

\* The last cell, if there is one, closes frame n.
EndsAt(s, n) ==
    s # <<>> => /\ s[Len(s)].pos = FrameCells(s[Len(s)].frame)
                /\ s[Len(s)].frame.num = n

\* The client has taken the frames up to taken; the rest of what was pushed is
\* in d2c, except for what a hangup cut off.
ReplyStream ==
    /\ Intact(d2c)
    /\ pc # "payload" => StartsAt(d2c, taken + 1)
    /\ pc = "payload" =>
          /\ hdr.num = taken
          /\ hdr.len = 0 => StartsAt(d2c, taken + 1)
          /\ hdr.len > 0 /\ d2c # <<>> => d2c[1] = [frame |-> hdr, pos |-> HeaderCells + 1]
    /\ ~hup => /\ EndsAt(d2c, pushed)
               /\ d2c = <<>> => taken = pushed
               /\ d2c = <<>> /\ pc = "payload" => hdr.len = 0

\* lldpd has answered the requests up to pushed and the rest are in c2d.
RequestStream ==
    /\ Intact(c2d)
    /\ \A k \in 1..Len(c2d) : c2d[k].frame.num <= sent
    /\ hup => c2d = <<>>
    /\ ~dsub /\ ~hup => /\ StartsAt(c2d, pushed + 1)
                        /\ EndsAt(c2d, sent)
                        /\ c2d = <<>> => pushed = sent

\* Which method runs decides what is on the wire and who owns the stream.
Control ==
    /\ op = "none" => pc = "idle"
    /\ pc = "idle" => op \in {"none", "all_interfaces"}
    /\ op = "next" => mode = "Subscription" /\ pc # "write"
    /\ op \notin {"none", "next"} => mode = "Client"
    /\ pc # "idle" =>
          /\ cur.ty \in RequestType \cup {"Notification"}
          /\ cur.ty = "Notification" <=> op = "next"
          /\ cur.ty = "Subscribe" <=> op = "subscribe"
    /\ calls = 0 => /\ op = "none" /\ mode # "Subscription"
                    /\ c2d = <<>> /\ ~dsub
                    /\ sent = 0 /\ taken = 0 /\ orphans = 0
    /\ calls = 0 \/ mode = "Client" => seen = <<>>

\* While the caller owns a Client, every request written has had its reply
\* taken or has been abandoned, but for the one that is waiting.  At the end
\* of a closed stream the reply that is missing will never come.
InStep ==
    /\ pc = "write" => cur.num = sent + 1
    /\ pc \in {"header", "payload"} /\ cur.ty \in RequestType => cur.num = sent
    /\ mode = "Client" =>
          \/ hup /\ d2c = <<>> /\ pc # "payload"
          \/ taken + orphans = (IF pc = "header" THEN sent - 1 ELSE sent)

\* subscribe() consumes the client: no request can follow a SUBSCRIBE.
Closing == mode # "Client" \/ (op = "subscribe" /\ pc # "write")

\* So it is the last request in c2d, and its acknowledgement the last reply.
SubscribeIsLast ==
    /\ dsub => c2d = <<>> /\ Closing
    /\ reset => hup /\ ~dsub
    /\ \A k \in 1..Len(c2d) :
          c2d[k].frame.ty = "Subscribe" => c2d[k].frame.num = sent /\ Closing
    /\ \A k \in 1..Len(d2c) :
          d2c[k].frame.ty = "Subscribe" => d2c[k].frame.num = sent /\ dsub
    /\ pc = "payload" /\ hdr.ty = "Subscribe" => hdr.num = sent /\ dsub
    /\ pc = "done" /\ cur.ty = "Subscribe" /\ ret.kind = "Ok" =>
          ret.num = taken /\ orphans = 0 /\ dsub

\* next() has judged a frame that it read whole.
TookItem == pc = "payload" \/ (pc = "done" /\ ret.kind # "UnexpectedEof")

\* Item i of a Subscription is frame base + i, up to the end of the stream.
ItemsInOrder ==
    mode = "Subscription" =>
        /\ dsub /\ orphans = 0
        /\ \A i \in 1..Len(seen) : seen[i].note = base + i
        /\ \/ hup /\ d2c = <<>> /\ ~TookItem
           \/ base + Len(seen) + (IF TookItem THEN 1 ELSE 0) = taken
        /\ pc = "done" /\ ret.kind # "UnexpectedEof" => ret.num = taken

\* Until a frame is torn or an oversized one is refused, everything is in step.
Sound ==
    ~skewed => /\ ReplyStream /\ RequestStream
               /\ InStep /\ SubscribeIsLast /\ ItemsInOrder
               /\ ReplyLag

\* The inductive invariant.
SessionInv == TypeOK /\ Control /\ Sound

-----------------------------------------------------------------------------
(* What the transport implements.                                           *)

\* The messages of which the client has not taken the last cell, if that cell
\* is there: the one whose header it has read may have no payload.
Mail ==
    {d2c[k].frame : k \in {j \in 1..Len(d2c) : d2c[j].pos = FrameCells(d2c[j].frame)}}
        \cup (IF pc = "payload" /\ hdr.len = 0 THEN {hdr} ELSE {})

X == INSTANCE Exchange WITH
        call <- cur, asked <- {c2d[k].frame : k \in 1..Len(c2d)}, mail <- Mail,
        answer <- ret, open <- ~hup, subscribed <- dsub

\* With the blocking client, and no reply above the cap, reading cell by cell
\* from a stream that may end anywhere is an exchange of whole messages:
\* request() returns the reply to its own request (transport.rs:74), every
\* message is taken once and in order, and what comes of it is decided by that
\* message alone.
ImplementsExchange == X!Spec

-----------------------------------------------------------------------------
(* Liveness                                                                 *)

\* Every Client method returns, whatever lldpd answers and even if it hangs
\* up in the middle.
CallReturns == op \notin {"none", "next"} ~> op = "none"

\* A pushed notification reaches the consumer unless the connection ends.
NoteDelivered ==
    \A n \in 1..MaxNotes :
        (mode = "Subscription" /\ pushed >= base + n)
            ~> (Len(seen) >= n \/ hup \/ mode # "Subscription")

\* Once lldpd has closed the connection, the consumer's loop comes to its end.
IterationEnds ==
    (mode = "Subscription" /\ hup) ~> (ended \/ mode # "Subscription")

=============================================================================
