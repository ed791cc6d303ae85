---------------------------- MODULE ClientProofs ----------------------------
(***************************************************************************)
(* What the methods of Client (src/client.rs) tell their caller: what the  *)
(* outcome of a request says about lldpd, what is left of the connection   *)
(* after an I/O error, and what all_interfaces returns.                    *)
(***************************************************************************)
EXTENDS SubscriptionProofs

-----------------------------------------------------------------------------
(* Steps that are neither in request()/recv_notification() nor lldpd's:     *)
(* calls begin and results are taken.                                       *)

Begins ==
    /\ pc' = "write" /\ ret' = NoRet /\ mode = "Client"
    /\ cur'.num = sent + 1 /\ cur'.ty \in RequestType
    /\ cur'.len = RequestLen(cur'.ty, cur'.arg)

Quiet ==
    \/ Caller /\ ~Cancel
    \/ Method /\ ~(TransportStep /\ UNCHANGED <<lldpdVars, sessionVars>>)

LEMMA Steps ==
    ASSUME [Next]_vars
    PROVE  \/ Quiet
           \/ Cancel
           \/ TransportStep /\ UNCHANGED <<lldpdVars, sessionVars>>
           \/ (Serve \/ Notify \/ Hangup) /\ UNCHANGED sessionVars
           \/ \E i \in Iface : IfUp(i) /\ UNCHANGED sessionVars
           \/ \E i \in Iface :
                 /\ IfDown(i)
                 /\ stable' = stable \ {i}
                 /\ UNCHANGED <<mode, op, listed, at, acc, res, seen, ended, base, calls>>
           \/ UNCHANGED vars
BY Zenon DEF Next, Quiet, Daemon, Caller, Method

LEMMA NoCancel ==
    ASSUME ~Async
    PROVE  ~Cancel
BY DEF Cancel

LEMMA QuietStep ==
    ASSUME TypeOK, Control, Quiet
    PROVE  /\ UNCHANGED <<c2d, d2c, hup, reset, sent, taken, orphans, skewed, lldpdVars>>
           /\ pc \in {"idle", "done"}
           /\ \/ Begins /\ pc = "idle"
              \/ pc' = "header" /\ ret' = NoRet /\ cur'.ty = "Notification" /\ op' = "next"
                 /\ pc = "idle"
              \/ pc' = "idle" /\ cur' = NoCall /\ ret' = NoRet /\ pc = "done"
              \/ pc = "idle" /\ UNCHANGED <<pc, cur, ret>>
<1>1. ASSUME NEW ty \in RequestType, NEW arg, request(ty, arg), mode = "Client" PROVE Begins
    BY <1>1 DEF request, Begins
<1>2. CASE Caller /\ ~Cancel
  <2>1. CASE connect_to \/ connect_to_fails \/ Drop
      BY <2>1 DEF connect_to, connect_to_fails, Drop, transportVars, Control
  <2>2. ASSUME NEW o, NEW ty \in RequestType, NEW arg, Begin(o), request(ty, arg)
        PROVE  /\ UNCHANGED <<c2d, d2c, hup, reset, sent, taken, orphans, skewed, lldpdVars>>
               /\ pc = "idle" /\ Begins
    <3>1. Begins
        BY <1>1, <2>2 DEF Begin
    <3> QED
        BY <2>2, <3>1 DEF Begin, request, Control
  <2>3. CASE interfaces \/ all_interfaces \/ subscribe
      BY <2>2, <2>3 DEF interfaces, all_interfaces, subscribe, RequestType
  <2>4. ASSUME NEW i \in Iface, interface(i) \/ \E d \in Descr : set_port_description(i, d)
        PROVE  /\ UNCHANGED <<c2d, d2c, hup, reset, sent, taken, orphans, skewed, lldpdVars>>
               /\ pc = "idle" /\ Begins
      BY <2>2, <2>4 DEF interface, set_port_description, RequestType
  <2>5. CASE next
      BY <2>5 DEF next, recv_notification, Control
  <2> QED
      BY <1>2, <2>1, <2>3, <2>4, <2>5 DEF Caller
<1>3. CASE Method /\ ~(TransportStep /\ UNCHANGED <<lldpdVars, sessionVars>>)
  <2>1. CASE Release /\ UNCHANGED lldpdVars
      BY <2>1 DEF Release, Forget
  <2>2. CASE AllFetch
    <3>1. mode = "Client"
        BY <2>2 DEF AllFetch, Control
    <3>2. Begins
        BY <1>1, <2>2, <3>1 DEF AllFetch, RequestType
    <3> QED
        BY <2>2, <3>2 DEF AllFetch, request
  <2>3. CASE AllDone
      BY <2>3 DEF AllDone, transportVars
  <2> QED
      BY <1>3, <2>1, <2>2, <2>3 DEF Method, EndInterfaces, EndSetPort, EndSubscribe, EndNext,
         AllListed, AllFetched
<1> QED
    BY <1>2, <1>3 DEF Quiet

-----------------------------------------------------------------------------
(* Frames on their way                                                      *)

InFlight == {d2c[k].frame : k \in 1..Len(d2c)}

LEMMA FlightKept ==
    ASSUME TypeOK,
           \/ \E n \in 0..Len(d2c) : d2c' = After(d2c, n) \/ d2c' = SubSeq(d2c, 1, n)
           \/ d2c' = <<>> \/ d2c' = d2c
    PROVE  InFlight' \subseteq InFlight
<1>0. d2c \in Seq(Cells(FrameType)) /\ Len(d2c) \in Nat
    BY StreamTypes
<1>1. ASSUME NEW n \in 0..Len(d2c), d2c' = After(d2c, n), NEW k \in 1..Len(d2c')
      PROVE  \E j \in 1..Len(d2c) : d2c'[k] = d2c[j]
  <2>1. Len(d2c') = Len(d2c) - n /\ \A i \in 1..(Len(d2c) - n) : d2c'[i] = d2c[n + i]
      BY <1>0, <1>1, AfterProperties
  <2>2. n + k \in 1..Len(d2c) /\ d2c'[k] = d2c[n + k]
      BY <1>0, <1>1, <2>1
  <2> QED
      BY <2>2
<1>2. ASSUME NEW n \in 0..Len(d2c), d2c' = SubSeq(d2c, 1, n), NEW k \in 1..Len(d2c')
      PROVE  \E j \in 1..Len(d2c) : d2c'[k] = d2c[j]
  <2>1. Len(d2c') = n /\ \A i \in 1..n : d2c'[i] = d2c[i]
      BY <1>0, <1>2, PrefixProperties
  <2>2. k \in 1..Len(d2c) /\ d2c'[k] = d2c[k]
      BY <1>0, <1>2, <2>1
  <2> QED
      BY <2>2
<1>3. CASE d2c' = <<>> \/ d2c' = d2c
    BY <1>3, EmptyIsSeq DEF InFlight
<1> QED
    BY <1>1, <1>2, <1>3 DEF InFlight

LEMMA FlightPushed ==
    ASSUME TypeOK, NEW f \in FrameType, Push(f)
    PROVE  InFlight' \subseteq InFlight \cup {f}
<1>0. Framing(FrameType) /\ d2c \in Seq(Cells(FrameType)) /\ d2c' = d2c \o Frame(f)
    BY FramingTypes, StreamTypes DEF Push
<1>1. d2c' \in Seq(Cells(FrameType)) /\ Extends(d2c', d2c, f)
    BY <1>0, ExtendsAppend, Zenon
<1>2. CellByCell(d2c', d2c, f)
    BY <1>0, <1>1, ExtendedCells, Zenon
<1> QED
    BY <1>2 DEF CellByCell, InFlight

\* Reading a header takes the oldest frame; it is within the cap.
LEMMA HeaderRead ==
    ASSUME Parts, ReadHeader, UNCHANGED <<lldpdVars, sessionVars>>, ~skewed'
    PROVE  /\ pc = "header" /\ pc' = "payload" /\ hdr' \in InFlight /\ hdr'.num = taken + 1
           /\ InFlight' \subseteq InFlight /\ d2c # <<>> /\ taken' = taken + 1
           /\ UNCHANGED <<c2d, hup, reset, cur, ret, sent, pushed, dsub, applied, ifs>>
<1>0. Parts /\ TypeOK /\ Len(d2c) \in Nat /\ HeaderCells \in Nat \ {0}
    BY StreamTypes, TransportAssumption DEF Parts
<1>1. 1 \in 1..Len(d2c) /\ HeaderCells \in 0..Len(d2c) /\ d2c # <<>> /\ pc = "header"
    BY <1>0 DEF ReadHeader
<1>2. d2c[1].pos = 1 /\ d2c[1].frame.num = taken + 1
    BY <1>0, <1>1 DEF Parts, ReplyStream, StartsAt
<1>3. /\ d2c' = After(d2c, HeaderCells) /\ hdr' = d2c[1].frame /\ pc' = "payload"
      /\ taken' = taken + 1
      /\ UNCHANGED <<c2d, hup, reset, cur, ret, sent, pushed, dsub, applied, ifs>>
    BY <1>2, Zenon DEF ReadHeader, decode_header, lldpdVars
<1>4. InFlight' \subseteq InFlight
    BY <1>0, <1>1, <1>3, FlightKept
<1> QED
    BY <1>1, <1>2, <1>3, <1>4 DEF InFlight

LEMMA PayloadRead ==
    ASSUME Parts, ReadPayload, UNCHANGED <<lldpdVars, sessionVars>>
    PROVE  /\ pc = "payload" /\ pc' = "done" /\ InFlight' \subseteq InFlight
           /\ ret'.num = hdr.num /\ hdr.num = taken
           /\ ret'.kind \in {"Ok", "RequestRejected", "UnexpectedMessageType"}
           /\ ret'.kind = "RequestRejected" => hdr.ty = "None"
           /\ ret'.kind = "Ok" => hdr.ty = cur.ty /\ ret'.body = hdr.body
           /\ UNCHANGED <<c2d, hup, reset, cur, hdr, sent, pushed, dsub, applied, ifs>>
<1>0. Parts /\ TypeOK /\ hdr.len \in Nat /\ Len(d2c) \in Nat
    BY StreamTypes DEF Parts
<1>1. InFlight' \subseteq InFlight
    BY <1>0, FlightKept DEF ReadPayload
<1>2. pc = "payload" => hdr.num = taken
    BY <1>0 DEF Parts, ReplyStream
<1> QED
    BY <1>1, <1>2 DEF ReadPayload, Return, lldpdVars

\* lldpd sends a notification.
LEMMA Notified ==
    ASSUME Parts, Notify
    PROVE  /\ dsub /\ ~hup /\ c2d = <<>> /\ pushed' = pushed + 1
           /\ UNCHANGED <<c2d, hup, reset, pc, cur, hdr, ret, sent, dsub, applied, ifs>>
           /\ \E f \in FrameType :
                 InFlight' \subseteq InFlight \cup {f} /\ f.ty \in {"Notification", "Other"}
<1>0. Parts /\ TypeOK /\ pushed \in Nat
    BY StreamTypes DEF Parts
<1>1. PICK f \in Faulty(Notification(pushed + 1)) : Push(f)
    BY DEF Notify
<1>2. Notification(pushed + 1) \in FrameType
    BY <1>0, EmptyIsSeq DEF Notification, FrameType, HmsgType, BodyType
<1>3. f \in FrameType /\ f.ty \in {"Notification", "Other"}
    BY <1>1, <1>2, PushedTypes DEF Faulty, Notification
<1>4. InFlight' \subseteq InFlight \cup {f}
    BY <1>0, <1>1, <1>3, FlightPushed
<1>5. c2d = <<>> /\ pushed' = pushed + 1
    BY <1>0, <1>1 DEF Notify, Push, Parts, SubscribeIsLast
<1> QED
    BY <1>3, <1>4, <1>5 DEF Notify

\* lldpd hangs up.
LEMMA HungUp ==
    ASSUME TypeOK, Hangup
    PROVE  /\ ~hup /\ hup' /\ InFlight' \subseteq InFlight /\ reset' = (c2d # <<>>) /\ c2d' = <<>>
           /\ UNCHANGED <<pc, cur, hdr, ret, sent, lldpdVars>>
<1>1. InFlight' \subseteq InFlight
    BY FlightKept DEF Hangup
<1> QED
    BY <1>1 DEF Hangup

-----------------------------------------------------------------------------
(* What the outcome of a request says about lldpd, in either API.           *)

\* A frame says what lldpd did with the request of its number.
Honest(f) ==
    /\ f.ty = "SetPort" => f.num \in applied
    /\ f.ty = "None" => f.num \notin applied

\* So does the Result made of it; a request that could not be written was never
\* carried out.
Effects ==
    /\ \A n \in applied : n <= pushed
    /\ \A f \in InFlight : Honest(f)
    /\ pc = "payload" => Honest(hdr)
    /\ pc = "done" =>
          /\ ret.num <= pushed
          /\ ret.kind = "Ok" /\ cur.ty = "SetPort" => ret.num \in applied
          /\ ret.kind = "RequestRejected" => ret.num \notin applied
          /\ ret.kind = "BrokenPipe" => hup /\ cur.num \notin applied

\* A Client that is not waiting for a reply has asked for all that was pushed.
LEMMA AskedForAll ==
    ASSUME Parts, Counted, mode = "Client", pc \in {"idle", "write"}
    PROVE  ~dsub /\ pushed <= sent
<1>1. ~dsub
    BY DEF Parts, SubscribeIsLast, Closing, Control
<1> QED
    BY <1>1 DEF Counted

LEMMA EffectsPush ==
    ASSUME Parts, InOrder, Counted, Effects, Serve \/ Notify
    PROVE  Effects'
<1>0. /\ TypeOK /\ pushed \in Nat /\ taken \in Nat /\ applied \in SUBSET Nat
      /\ d2c \in Seq(Cells(FrameType)) /\ ret.num \in Nat
    BY StreamTypes, OutcomeTypes DEF Parts, TypeOK, LldpdTypeOK
<1>1. ~hup /\ UNCHANGED <<hup, pc, cur, hdr, ret>>
    BY Zenon DEF Serve, Honour, Refuse, RefuseGarbled, WholeRequest, Notify
<1>2. PICK f \in FrameType : Push(f) /\ f.num = pushed + 1 /\ Told(f)
    BY PushFacts
<1>3. InFlight' \subseteq InFlight \cup {f} /\ pushed' = pushed + 1
    BY <1>0, <1>2, FlightPushed DEF Push
<1>4. applied \subseteq applied' /\ applied' \subseteq applied \cup {pushed + 1} /\ Honest(f)'
  <2>1. pushed + 1 \notin applied
      BY <1>0 DEF Effects
  <2> QED
      BY <1>2, <2>1 DEF Told, Honest
<1>5. \A n \in Nat : n <= pushed => (n \in applied <=> n \in applied')
    BY <1>0, <1>4
<1>6. ASSUME NEW g \in InFlight PROVE Honest(g)'
  <2>1. PICK k \in 1..Len(d2c) : g = d2c[k].frame
      BY DEF InFlight
  <2>2. g.num \in Nat /\ g.num <= pushed /\ Honest(g)
      BY <1>0, <2>1, NumberTypes, FramingTypes DEF InOrder, Effects
  <2> QED
      BY <1>5, <2>2 DEF Honest
<1>7. pc' = "payload" => Honest(hdr)'
  <2>1. pc = "payload" => hdr.num \in Nat /\ hdr.num <= pushed
      BY <1>0 DEF Parts, ReplyStream, Counted
  <2> QED
      BY <1>1, <1>5, <2>1 DEF Effects, Honest
<1>8. /\ pc = "done" => (ret.num \in applied <=> ret.num \in applied')
      /\ \A n \in applied' : n <= pushed'
    BY <1>0, <1>3, <1>4, <1>5 DEF Effects
<1>9. \A g \in InFlight' : Honest(g)'
    BY <1>3, <1>4, <1>6, Zenon
<1> QED
    BY <1>0, <1>1, <1>3, <1>7, <1>8, <1>9 DEF Effects

LEMMA EffectsStep ==
    ASSUME Parts, InOrder, Counted, Effects, ~skewed', [Next]_vars
    PROVE  Effects'
<1>0. /\ TypeOK /\ Control /\ pushed \in Nat /\ sent \in Nat
      /\ taken \in Nat /\ applied \in SUBSET Nat /\ ret.num \in Nat
    BY StreamTypes, OutcomeTypes DEF Parts, TypeOK, LldpdTypeOK
<1>1. CASE Quiet
  <2>1. UNCHANGED <<d2c, pushed, applied>> /\ pc' \notin {"payload", "done"}
      BY <1>0, <1>1, QuietStep DEF Begins, lldpdVars
  <2> QED
      BY <2>1 DEF Effects, Honest, InFlight
<1>2. CASE TransportStep /\ UNCHANGED <<lldpdVars, sessionVars>>
  <2>0. UNCHANGED <<pushed, applied>>
      BY <1>2 DEF lldpdVars
  <2>1. CASE WriteAll
      BY <2>0, <2>1 DEF WriteAll, Effects, Honest, InFlight
  <2>2. CASE WriteFails
    <3>1. mode = "Client" /\ pc = "write" /\ cur.num = sent + 1
        BY <1>0, <2>2 DEF WriteFails, Control, Parts, InStep
    <3>2. pushed <= sent
        BY <3>1, AskedForAll
    <3>3. cur.num \notin applied
        BY <1>0, <3>1, <3>2 DEF Effects
    <3>4. /\ UNCHANGED <<d2c, hup, cur>> /\ hup /\ pc' = "done"
          /\ ret'.num = 0 /\ ret'.kind = "BrokenPipe"
        BY <2>2 DEF WriteFails, Return
    <3>5. \A f \in InFlight' : Honest(f)'
        BY <2>0, <3>4 DEF Effects, Honest, InFlight
    <3> QED
        BY <1>0, <2>0, <3>3, <3>4, <3>5 DEF Effects
  <2>3. CASE ReadHeader
    <3>1. pc' = "payload" /\ hdr' \in InFlight /\ InFlight' \subseteq InFlight
        BY <1>2, <2>3, HeaderRead
    <3> QED
        BY <2>0, <3>1 DEF Effects, Honest
  <2>4. CASE ReadPayload
    <3>1. /\ pc = "payload" /\ pc' = "done" /\ InFlight' \subseteq InFlight
          /\ ret'.num = hdr.num /\ hdr.num = taken
          /\ ret'.kind \in {"Ok", "RequestRejected", "UnexpectedMessageType"}
          /\ ret'.kind = "RequestRejected" => hdr.ty = "None"
          /\ ret'.kind = "Ok" => hdr.ty = cur.ty
          /\ cur' = cur
        BY <1>2, <2>4, PayloadRead
    <3>2. ret'.num <= pushed
        BY <1>0, <3>1 DEF Counted
    <3> QED
        BY <2>0, <3>1, <3>2 DEF Effects, Honest
  <2>5. CASE ReadEof
    <3>1. /\ pc' = "done" /\ d2c' = <<>> /\ ret'.num = 0
          /\ ret'.kind \in {"ConnectionReset", "UnexpectedEof"}
        BY <2>5 DEF ReadEof, Return
    <3>2. InFlight' = {}
        BY <3>1, EmptyIsSeq DEF InFlight
    <3> QED
        BY <1>0, <2>0, <3>1, <3>2 DEF Effects
  <2> QED
      BY <1>2, <2>1, <2>2, <2>3, <2>4, <2>5 DEF TransportStep
<1>3. CASE Serve \/ Notify
    BY <1>3, EffectsPush
<1>4. CASE Hangup
  <2>1. ~hup /\ InFlight' \subseteq InFlight /\ UNCHANGED <<pc, cur, hdr, ret, pushed, applied>>
      BY <1>0, <1>4, HungUp DEF lldpdVars
  <2> QED
      BY <2>1 DEF Effects, Honest
<1>5. CASE Cancel
  <2>1. UNCHANGED <<d2c, pushed, applied>> /\ pc' = "idle"
      BY <1>5, CancelFacts DEF Cancel, lldpdVars
  <2> QED
      BY <2>1 DEF Effects, Honest, InFlight
<1>6. CASE (\E i \in Iface : IfUp(i) \/ IfDown(i)) \/ UNCHANGED vars
    BY <1>6 DEF IfUp, IfDown, vars, transportVars, lldpdVars, Effects, Honest, InFlight
<1> QED
    BY <1>1, <1>2, <1>3, <1>4, <1>5, <1>6, Steps

LEMMA EffectsInvariant == Spec => [](SessionInv /\ OrderInv /\ (~skewed => Effects))
<1>1. Init => (~skewed => Effects)
    BY EmptyIsSeq DEF Init, TransportInit, LldpdInit, Effects, InFlight
<1>2. SessionInv /\ OrderInv /\ (~skewed => Effects) /\ [Next]_vars => (~skewed => Effects)'
  <2> SUFFICES ASSUME SessionInv, OrderInv, ~skewed => Effects, [Next]_vars, ~skewed'
               PROVE  Effects'
      OBVIOUS
  <2>1. ~skewed
      BY SkewedStays DEF SessionInv
  <2>2. Parts /\ InOrder /\ Counted /\ Effects
      BY <2>1 DEF SessionInv, Sound, Parts, OrderInv
  <2> QED
      BY <2>2, EffectsStep
<1> QED
    BY <1>1, <1>2, OrderInvariant, PTL DEF Spec

\* set_port_description of either API, whatever futures were dropped before it:
\* on an untorn connection its outcome is true of the SET_PORT whose reply it
\* took, and one that could not be written was never carried out.
THEOREM OutcomesTold == Spec => []OutcomeOfReply
<1>1. (~skewed => Effects) => OutcomeOfReply
    BY DEF Effects, OutcomeOfReply
<1> QED
    BY <1>1, EffectsInvariant, PTL

-----------------------------------------------------------------------------
(* I/O errors, in either API                                                *)

\* A connection on which a method has failed with an I/O error is closed at the
\* other end; a Subscription has nothing left to read on it.
FailedInv ==
    /\ pc = "done" /\ ret.kind = "BrokenPipe" => hup /\ op # "next"
    /\ res.kind \in IoError =>
          op = "none" /\ hup /\ calls # 0 /\ (mode = "Subscription" => d2c = <<>>)

\* What is left to its caller: writes that fail, and reads at the end.
Over ==
    /\ hup /\ calls # 0
    /\ res.kind \in IoError \cup {"none", "None"}
    /\ mode = "Client" =>
          /\ pc \in {"idle", "write", "done"}
          /\ pc = "done" => ret.kind = "BrokenPipe"
          /\ op = "all_interfaces" => pc # "idle"
    /\ mode = "Subscription" =>
          /\ d2c = <<>> /\ pc \in {"idle", "header", "done"}
          /\ pc = "done" => ret.kind \in {"UnexpectedEof", "ConnectionReset"}

\* The ways in which a method that has not been dropped comes to its end.
Ends ==
    \/ EndInterfaces \/ EndSetPort \/ EndSubscribe \/ EndNext
    \/ AllListed \/ AllFetched

\* An empty stream stays so for a reader.
LEMMA CancelAtEnd ==
    ASSUME Cancel, pc \in {"header", "write"}, d2c = <<>>
    PROVE  d2c' = <<>>
<1>1. d2c' = d2c \/ \E n \in 0..(HeaderCells - 1) : n <= Len(d2c) /\ d2c' = After(d2c, n)
    BY DEF Cancel, DropFuture
<1>2. \A n \in 0..(HeaderCells - 1) : n \in Nat
    BY TransportAssumption
<1> QED
    BY <1>1, <1>2, ReadNothing

LEMMA FailedStep ==
    ASSUME TypeOK, Control, EndInv, FailedInv, [Next]_vars
    PROVE  FailedInv'
<1> USE DEF IoError
<1>1. CASE connect_to \/ connect_to_fails \/ Drop
    BY <1>1 DEF connect_to, connect_to_fails, Drop, transportVars, FailedInv, NoRes
<1>2. ASSUME NEW o, NEW ty, NEW arg, Begin(o), request(ty, arg)
      PROVE  FailedInv'
    BY <1>2 DEF Begin, request, FailedInv, NoRes
<1>3. CASE next
    BY <1>3 DEF next, recv_notification, FailedInv, NoRes
<1>4. CASE Cancel
  <2>1. /\ pc' = "idle" /\ UNCHANGED <<hup, calls, res>> /\ pc # "idle"
      BY <1>4 DEF Cancel, DropFuture, Forget
  <2>2. op # "none"
      BY <2>1 DEF Control
  <2> QED
      BY <2>1, <2>2 DEF FailedInv
<1>5. CASE Ends
  <2>1. pc = "done" /\ pc' = "idle" /\ UNCHANGED <<hup, d2c, calls>> /\ op # "none" /\ calls # 0
      BY <1>5 DEF Ends, EndInterfaces, EndSetPort, EndSubscribe, EndNext, AllListed, AllFetched,
         Release, Forget, Control
  <2> SUFFICES ASSUME res'.kind \in IoError
               PROVE  op' = "none" /\ hup' /\ calls' # 0 /\ (mode' = "Subscription" => d2c' = <<>>)
      BY <2>1 DEF FailedInv
  <2>2. res' # res
      BY <2>1 DEF FailedInv
  <2>3. ret.kind \in IoError /\ op' = "none"
      BY <1>5, <2>2 DEF Ends, EndInterfaces, EndSetPort, EndSubscribe, EndNext, AllListed,
         AllFetched, Finish, Decoded
  <2>4. hup /\ (ret.kind # "BrokenPipe" => d2c = <<>>)
      BY <2>1, <2>3 DEF EndInv, FailedInv
  <2>5. mode' = "Subscription" => op = "next"
      BY <1>5, <2>3 DEF Ends, EndInterfaces, EndSetPort, EndSubscribe, EndNext, AllListed,
         AllFetched, Control
  <2>6. mode' = "Subscription" => ret.kind # "BrokenPipe"
      BY <2>1, <2>5 DEF FailedInv
  <2> QED
      BY <2>1, <2>3, <2>4, <2>6
<1>6. CASE AllFetch \/ AllDone
    BY <1>6 DEF AllFetch, AllDone, request, Finish, transportVars, FailedInv, Control
<1>7. CASE TransportStep /\ UNCHANGED <<lldpdVars, sessionVars>>
  <2>1. UNCHANGED <<hup, calls, res, op, mode>> /\ pc # "idle"
      BY <1>7 DEF TransportStep, WriteAll, WriteFails, ReadHeader, ReadPayload, ReadEof, sessionVars
  <2>2. op # "none"
      BY <2>1 DEF Control
  <2>3. pc' = "done" /\ ret'.kind = "BrokenPipe" => WriteFails
      BY <1>7 DEF TransportStep, WriteAll, ReadHeader, ReadPayload, ReadEof, Return
  <2>4. WriteFails => hup /\ op # "next"
      BY DEF WriteFails, Control
  <2> QED
      BY <2>1, <2>2, <2>3, <2>4 DEF FailedInv
<1>8. CASE (Serve \/ Notify \/ Hangup) /\ UNCHANGED sessionVars
  <2>1. ~hup
      BY <1>8 DEF Serve, Honour, Refuse, RefuseGarbled, WholeRequest, Notify, Hangup
  <2>2. UNCHANGED <<pc, ret, res>>
      BY <1>8 DEF Serve, Honour, Refuse, RefuseGarbled, Notify, Hangup, sessionVars
  <2> QED
      BY <2>1, <2>2 DEF FailedInv
<1>9. CASE \/ \E i \in Iface : (IfUp(i) \/ IfDown(i)) /\ UNCHANGED <<mode, op, res, calls>>
           \/ UNCHANGED vars
    BY <1>9 DEF IfUp, IfDown, transportVars, sessionVars, vars, FailedInv
<1>10. CASE Caller
    BY <1>1, <1>2, <1>3, <1>4, <1>10 DEF Caller, interfaces, all_interfaces, subscribe, interface,
       set_port_description
<1>11. CASE Method
    BY <1>5, <1>6, <1>7, <1>11 DEF Method, Ends
<1>12. CASE Daemon
    BY <1>8, <1>9, <1>12 DEF Daemon, sessionVars
<1> QED
    BY <1>9, <1>10, <1>11, <1>12 DEF Next

LEMMA OverStep ==
    ASSUME TypeOK, Control, Over, [Next]_vars
    PROVE  Over'
<1> USE DEF IoError
<1>0. HeaderCells \in Nat \ {0} /\ Len(<<>>) = 0 /\ mode \in {"none", "Client", "Subscription"}
    BY TransportAssumption, EmptyIsSeq DEF TypeOK, SessionTypeOK
<1>1. CASE connect_to \/ connect_to_fails \/ Drop
    BY <1>1 DEF connect_to, connect_to_fails, Drop, transportVars, Over
<1>2. ASSUME NEW o, NEW ty, NEW arg, Begin(o), request(ty, arg)
      PROVE  Over'
    BY <1>2 DEF Begin, request, Over, NoRes, TypeOK, SessionTypeOK
<1>3. CASE next
    BY <1>3 DEF next, recv_notification, Over, NoRes
<1>4. CASE Cancel
  <2>1. /\ pc' = "idle" /\ UNCHANGED <<hup, calls, res>> /\ pc \in {"write", "header", "payload"}
        /\ op' = "none" /\ mode' \in {"none", mode}
      BY <1>4, Zenon DEF Cancel, DropFuture, Forget
  <2>2. mode = "Subscription" => d2c' = <<>>
      BY <1>4, <2>1, CancelAtEnd DEF Over
  <2> QED
      BY <2>1, <2>2 DEF Over
<1>5. CASE Ends
  <2>1. pc = "done" /\ pc' = "idle" /\ UNCHANGED <<hup, d2c, calls>> /\ mode # "none" /\ op # "none"
      BY <1>5 DEF Ends, EndInterfaces, EndSetPort, EndSubscribe, EndNext, AllListed, AllFetched,
         Release, Forget, Control
  <2>2. CASE mode = "Client"
    <3>1. ret.kind = "BrokenPipe" /\ op # "next"
        BY <2>1, <2>2 DEF Over, Control
    <3>2. res'.kind = "BrokenPipe" /\ op' = "none" /\ mode' \in {"Client", "none"}
        BY <1>5, <2>2, <3>1 DEF Ends, EndInterfaces, EndSetPort, EndSubscribe, EndNext, AllListed,
           AllFetched, Finish, Decoded
    <3> QED
        BY <2>1, <3>2 DEF Over
  <2>3. CASE mode = "Subscription"
    <3>1. ret.kind \in {"UnexpectedEof", "ConnectionReset"} /\ op = "next"
        BY <2>1, <2>3 DEF Over, Control
    <3>2. EndNext
        BY <1>5, <3>1 DEF Ends, EndInterfaces, EndSetPort, EndSubscribe, AllListed, AllFetched
    <3>3. res'.kind \in {"None", "ConnectionReset"} /\ mode' = mode
        BY <3>1, <3>2 DEF EndNext, Finish, Decoded
    <3> QED
        BY <2>1, <2>3, <3>3 DEF Over
  <2> QED
      BY <1>0, <2>1, <2>2, <2>3
<1>6. CASE AllFetch \/ AllDone
    BY <1>6 DEF AllFetch, AllDone, Over, Control
<1>7. CASE TransportStep /\ UNCHANGED <<lldpdVars, sessionVars>>
  <2>0. UNCHANGED <<hup, calls, res, op, mode>>
      BY <1>7 DEF TransportStep, WriteAll, WriteFails, ReadHeader, ReadPayload, ReadEof, sessionVars
  <2>1. CASE WriteAll
      BY <2>1 DEF WriteAll, Over
  <2>2. CASE WriteFails
      BY <1>0, <2>0, <2>2 DEF WriteFails, Return, Over, Control
  <2>3. CASE ReadHeader
    <3>1. pc = "header" /\ Len(d2c) >= HeaderCells
        BY <2>3, Zenon DEF ReadHeader
    <3>2. mode = "none"
        BY <1>0, <3>1 DEF Over
    <3> QED
        BY <3>1, <3>2 DEF Control
  <2>4. CASE ReadPayload
      BY <1>0, <2>4 DEF ReadPayload, Over, Control
  <2>5. CASE ReadEof
      BY <1>0, <2>0, <2>5 DEF ReadEof, Return, Over, Control
  <2> QED
      BY <1>7, <2>1, <2>2, <2>3, <2>4, <2>5 DEF TransportStep
<1>8. CASE (Serve \/ Notify \/ Hangup) /\ UNCHANGED sessionVars
    BY <1>8 DEF Serve, Honour, Refuse, RefuseGarbled, WholeRequest, Notify, Hangup, Over
<1>9. CASE \/ \E i \in Iface : (IfUp(i) \/ IfDown(i)) /\ UNCHANGED <<mode, op, res, calls>>
           \/ UNCHANGED vars
    BY <1>9 DEF IfUp, IfDown, transportVars, sessionVars, vars, Over
<1>10. CASE Caller
    BY <1>1, <1>2, <1>3, <1>4, <1>10 DEF Caller, interfaces, all_interfaces, subscribe, interface,
       set_port_description
<1>11. CASE Method
    BY <1>5, <1>6, <1>7, <1>11 DEF Method, Ends
<1>12. CASE Daemon
    BY <1>8, <1>9, <1>12 DEF Daemon, sessionVars
<1> QED
    BY <1>9, <1>10, <1>11, <1>12 DEF Next

\* Either API: once a method has failed with an I/O error, all that any later
\* one returns is an I/O error or the end of the iteration, whatever lldpd sends,
\* whatever was dropped and even if the stream was torn.
THEOREM IoErrorsLast == Spec => IoErrorLasts
<1>1. Init => FailedInv
    BY DEF Init, TransportInit, NoRes, FailedInv, IoError
<1>2. SessionInv /\ EndInv /\ FailedInv /\ [Next]_vars => FailedInv'
    BY FailedStep DEF SessionInv
<1>3. SessionInv /\ FailedInv /\ res.kind \in IoError => Over
    BY DEF SessionInv, Control, FailedInv, Over, IoError
<1>4. SessionInv /\ Over /\ [Next]_vars => Over'
    BY OverStep DEF SessionInv
<1>5. Over => res.kind \in IoError \cup {"none", "None"}
    BY DEF Over
<1> QED
    BY <1>1, <1>2, <1>3, <1>4, <1>5, EndInvariant, PTL DEF Spec, IoErrorLasts

-----------------------------------------------------------------------------
(* Client and Subscription: nobody can drop a call half way, so as long as  *)
(* lldpd keeps to the cap on payloads no stream is ever torn, and what      *)
(* SessionInv says of streams in step holds always.                         *)

\* No stream is torn, no call abandoned, no frame in the stream oversized.
NeverTorn ==
    /\ ~skewed /\ orphans = 0
    /\ \A k \in 1..Len(d2c) : d2c[k].frame.len <= HMSG_MAX_SIZE

\* d2c' holds nothing that d2c did not.
LEMMA ReadKeepsSizes ==
    ASSUME TypeOK, NeverTorn,
           \/ \E n \in 0..Len(d2c) : d2c' = After(d2c, n) \/ d2c' = SubSeq(d2c, 1, n)
           \/ d2c' = <<>> \/ d2c' = d2c
    PROVE  \A k \in 1..Len(d2c') : d2c'[k].frame.len <= HMSG_MAX_SIZE
<1>0. d2c \in Seq(Cells(FrameType)) /\ Len(d2c) \in Nat
    BY StreamTypes
<1>1. ASSUME NEW n \in 0..Len(d2c), d2c' = After(d2c, n), NEW k \in 1..Len(d2c')
      PROVE  d2c'[k].frame.len <= HMSG_MAX_SIZE
  <2>1. Len(d2c') = Len(d2c) - n /\ \A i \in 1..(Len(d2c) - n) : d2c'[i] = d2c[n + i]
      BY <1>0, <1>1, AfterProperties
  <2>2. n + k \in 1..Len(d2c) /\ d2c'[k] = d2c[n + k]
      BY <1>0, <1>1, <2>1
  <2> QED
      BY <2>2 DEF NeverTorn
<1>2. ASSUME NEW n \in 0..Len(d2c), d2c' = SubSeq(d2c, 1, n), NEW k \in 1..Len(d2c')
      PROVE  d2c'[k].frame.len <= HMSG_MAX_SIZE
  <2>1. Len(d2c') = n /\ \A i \in 1..n : d2c'[i] = d2c[i]
      BY <1>0, <1>2, PrefixProperties
  <2>2. k \in 1..Len(d2c) /\ d2c'[k] = d2c[k]
      BY <1>0, <1>2, <2>1
  <2> QED
      BY <2>2 DEF NeverTorn
<1>3. CASE d2c' = <<>> \/ d2c' = d2c
    BY <1>3 DEF NeverTorn
<1> QED
    BY <1>1, <1>2, <1>3

\* Neither does pushing a frame within the cap.
LEMMA PushKeepsSizes ==
    ASSUME TypeOK, NeverTorn, NEW f \in FrameType, f.len <= HMSG_MAX_SIZE, Push(f)
    PROVE  \A k \in 1..Len(d2c') : d2c'[k].frame.len <= HMSG_MAX_SIZE
<1>0. d2c \in Seq(Cells(FrameType)) /\ Len(d2c) \in Nat /\ f.len \in Nat
    BY StreamTypes DEF FrameType
<1>1. /\ Frame(f) \in Seq(Cells(FrameType)) /\ Len(Frame(f)) = FrameCells(f)
      /\ \A i \in 1..FrameCells(f) : Frame(f)[i] = [frame |-> f, pos |-> i]
    BY <1>0, FrameProperties
<1>2. /\ Len(d2c') = Len(d2c) + Len(Frame(f))
      /\ \A i \in 1..Len(d2c) : d2c'[i] = d2c[i]
      /\ \A i \in 1..Len(Frame(f)) : d2c'[Len(d2c) + i] = Frame(f)[i]
  <2>1. d2c' = d2c \o Frame(f)
      BY DEF Push
  <2>a. d2c \in Seq(Cells(FrameType)) /\ Frame(f) \in Seq(Cells(FrameType))
      BY <1>0, <1>1
  <2>2. /\ Len(d2c \o Frame(f)) = Len(d2c) + Len(Frame(f))
        /\ \A i \in 1..Len(d2c) : (d2c \o Frame(f))[i] = d2c[i]
      BY <2>a, ConcatCells, SMT
  <2>3. \A i \in 1..Len(Frame(f)) : (d2c \o Frame(f))[Len(d2c) + i] = Frame(f)[i]
      BY <2>a, ConcatCells, SMT
  <2> QED
      BY <2>1, <2>2, <2>3
<1>3. ASSUME NEW k \in 1..Len(d2c') PROVE d2c'[k].frame.len <= HMSG_MAX_SIZE
  <2>1. CASE k \in 1..Len(d2c)
      BY <1>2, <2>1 DEF NeverTorn
  <2>2. CASE k \notin 1..Len(d2c)
    <3>1. FrameCells(f) \in Nat
        BY <1>0, FrameCellsType
    <3>2. k - Len(d2c) \in 1..FrameCells(f) /\ Len(d2c) + (k - Len(d2c)) = k
        BY <1>0, <1>1, <1>2, <2>2, <3>1
    <3>3. d2c'[k] = [frame |-> f, pos |-> k - Len(d2c)]
        BY <1>1, <1>2, <3>2
    <3> QED
        BY <3>3
  <2> QED
      BY <2>1, <2>2
<1> QED
    BY <1>3

LEMMA NeverTornStep ==
    ASSUME ~Async, "oversize" \notin Faults, SessionInv, NeverTorn, [Next]_vars
    PROVE  NeverTorn'
<1>0. TypeOK /\ ReplyStream
    BY DEF SessionInv, Sound, NeverTorn
<1>1. CASE Caller
  <2>1. UNCHANGED <<d2c, skewed, orphans>>
      BY <1>1, Zenon DEF Caller, connect_to, connect_to_fails, Drop, interfaces, all_interfaces,
         subscribe, next, interface, set_port_description, Cancel, request, recv_notification,
         transportVars
  <2> QED
      BY <2>1 DEF NeverTorn
<1>2. CASE ReadHeader
  <2>1. /\ d2c \in Seq(Cells(FrameType)) /\ Len(d2c) \in Nat /\ HeaderCells \in Nat \ {0}
        /\ pc = "header" /\ Len(d2c) >= HeaderCells
      BY <1>0, <1>2, StreamTypes, TransportAssumption DEF ReadHeader
  <2>2. 1 \in 1..Len(d2c) /\ d2c # <<>> /\ HeaderCells \in 0..Len(d2c)
      BY <2>1
  <2>3. d2c[1].pos = 1
      BY <1>0, <2>1, <2>2 DEF ReplyStream, StartsAt
  <2>4. d2c[1].frame.len <= HMSG_MAX_SIZE
      BY <2>2 DEF NeverTorn
  <2>5. d2c[1].frame.len \in Nat
      BY <2>1, <2>2, CellProperties, FramingTypes DEF Framing
  <2>6. ~(d2c[1].frame.len > HMSG_MAX_SIZE)
      BY <2>4, <2>5, TransportAssumption
  <2>7. d2c' = After(d2c, HeaderCells) /\ UNCHANGED <<skewed, orphans>>
      BY <1>2, <2>3, <2>6, Zenon DEF ReadHeader, decode_header
  <2> QED
      BY <1>0, <2>2, <2>7, ReadKeepsSizes DEF NeverTorn
<1>3. CASE ReadPayload
  <2>1. hdr.len \in 0..Len(d2c) /\ d2c' = After(d2c, hdr.len) /\ UNCHANGED <<skewed, orphans>>
      BY <1>0, <1>3, StreamTypes DEF ReadPayload
  <2> QED
      BY <1>0, <2>1, ReadKeepsSizes DEF NeverTorn
<1>4. CASE Method /\ ~ReadHeader /\ ~ReadPayload
  <2>1. (d2c' = <<>> \/ d2c' = d2c) /\ UNCHANGED <<skewed, orphans>>
      BY <1>4, Zenon DEF Method, TransportStep, WriteAll, WriteFails, ReadEof, EndInterfaces,
         EndSetPort, EndSubscribe, EndNext, AllListed, AllFetch, AllFetched, AllDone, Release,
         request, transportVars
  <2> QED
      BY <1>0, <2>1, ReadKeepsSizes DEF NeverTorn
<1>5. CASE Daemon
  <2>1. CASE Honour
    <3> DEFINE q == c2d[1].frame
    <3>1. /\ c2d # <<>> /\ CanHonour(q) /\ UNCHANGED <<skewed, orphans>>
          /\ TakeRequest /\ Len(c2d) >= FrameCells(q)
        BY <2>1 DEF Honour, WholeRequest
    <3>2. PICK f \in Faulty(Reply(q)) : Push(f)
        BY <2>1 DEF Honour
    <3>3. f \in FrameType
        BY <1>0, <3>1, TakeRequestTypes, PushedTypes, ReplyTypes
    <3>4. f.len <= HMSG_MAX_SIZE
        BY <3>2, TransportAssumption DEF Faulty, Reply
    <3> QED
        BY <1>0, <3>1, <3>2, <3>3, <3>4, PushKeepsSizes DEF NeverTorn
  <2>2. CASE Refuse \/ RefuseGarbled
    <3>1. PICK n \in Nat : (\E f \in Rejections(n) : Push(f)) /\ UNCHANGED <<skewed, orphans>>
      <4>1. CASE Refuse
        <5>1. c2d # <<>> /\ TakeRequest /\ Len(c2d) >= FrameCells(c2d[1].frame)
            BY <4>1 DEF Refuse, WholeRequest
        <5>2. c2d[1].frame.num \in Nat
            BY <1>0, <5>1, TakeRequestTypes DEF CallType
        <5> QED
            BY <4>1, <5>2 DEF Refuse
      <4>2. CASE RefuseGarbled
          BY <4>2 DEF RefuseGarbled
      <4> QED
          BY <2>2, <4>1, <4>2
    <3>2. PICK f \in FrameType : Push(f) /\ f.len <= HMSG_MAX_SIZE
        BY <3>1, RejectionTypes
    <3> QED
        BY <1>0, <3>1, <3>2, PushKeepsSizes DEF NeverTorn
  <2>3. CASE Notify
    <3>1. PICK f \in Faulty(Notification(pushed + 1)) : Push(f)
        BY <2>3 DEF Notify
    <3>2. UNCHANGED <<skewed, orphans>> /\ pushed \in Nat
        BY <1>0, <2>3, StreamTypes DEF Notify
    <3>3. Notification(pushed + 1) \in FrameType
        BY <3>2, EmptyIsSeq DEF Notification, FrameType, HmsgType, BodyType
    <3>4. f \in FrameType /\ f.len <= HMSG_MAX_SIZE
        BY <3>1, <3>3, PushedTypes, TransportAssumption DEF Faulty, Notification
    <3> QED
        BY <1>0, <3>1, <3>2, <3>4, PushKeepsSizes DEF NeverTorn
  <2>4. CASE Hangup
      BY <1>0, <2>4, ReadKeepsSizes DEF Hangup, NeverTorn
  <2>5. CASE \E i \in Iface : IfUp(i) \/ IfDown(i)
      BY <2>5 DEF IfUp, IfDown, transportVars, NeverTorn
  <2> QED
      BY <1>5, <2>1, <2>2, <2>3, <2>4, <2>5 DEF Daemon, Serve
<1>6. CASE UNCHANGED vars
    BY <1>6 DEF vars, transportVars, NeverTorn
<1> QED
    BY <1>1, <1>2, <1>3, <1>4, <1>5, <1>6 DEF Next

LEMMA SyncInvariant ==
    ASSUME ~Async, "oversize" \notin Faults
    PROVE  Spec => [](SessionInv /\ NeverTorn)
<1>1. Init => NeverTorn
    BY DEF Init, TransportInit, NeverTorn
<1>2. SessionInv /\ NeverTorn /\ [Next]_vars => NeverTorn'
    BY NeverTornStep
<1> QED
    BY <1>1, <1>2, SessionInvariant, PTL DEF Spec

\* Client::request: every Result it makes of a reply is about the reply to
\* the request it has just written, whatever lldpd puts into its frames.
THEOREM ClientRepliesMatch ==
    ASSUME ~Async, "oversize" \notin Faults
    PROVE  Spec => []AnswersThisCall
<1>1. SessionInv /\ NeverTorn => AnswersThisCall
  <2> SUFFICES ASSUME SessionInv, NeverTorn, Answered PROVE ret.num = cur.num
      BY DEF AnswersThisCall
  <2>1. ret.num + 0 = cur.num
      BY DEF SessionInv, Sound, NeverTorn, ReplyLag
  <2>2. ret.num \in Nat
      BY OutcomeTypes DEF SessionInv
  <2> QED
      BY <2>1, <2>2
<1> QED
    BY <1>1, SyncInvariant, PTL

\* read_message: a Client or Subscription is never left inside a frame, not
\* even by the replies it refuses.
THEOREM ClientStaysFramed ==
    ASSUME ~Async, "oversize" \notin Faults
    PROVE  Spec => []StaysFramed
<1>1. SessionInv /\ NeverTorn => StaysFramed
    BY DEF SessionInv, Sound, NeverTorn, ReplyStream, StartsAt, StaysFramed
<1> QED
    BY <1>1, SyncInvariant, PTL

\* The invariants of an untorn connection, together.
Calm == SessionInv /\ NeverTorn /\ EndInv /\ OrderInv

LEMMA CalmParts ==
    ASSUME Calm
    PROVE  /\ Parts /\ TypeOK /\ Control /\ InOrder /\ Counted /\ EndInv /\ NeverTorn
           /\ ~skewed /\ orphans = 0
BY DEF Calm, SessionInv, NeverTorn, Sound, Parts, OrderInv

-----------------------------------------------------------------------------
(* One request is in flight at a time.                                      *)

\* The locals of request()/read_message() live as long as the call, and its
\* Result exists once it is done.
Locals ==
    /\ pc = "idle" => cur = NoCall /\ ret = NoRet
    /\ pc \in {"write", "header", "payload"} => ret = NoRet
    /\ pc = "done" => ret.kind # "none"

\* A request that lldpd has not taken is the one that the client waits for, and
\* nothing else is on its way.
OneRequest == c2d # <<>> => d2c = <<>> /\ pc = "header" /\ c2d = Frame(cur)

Base == Calm /\ Locals /\ OneRequest

\* Between two calls nothing is on its way to a Client.
LEMMA NothingWaits ==
    ASSUME Calm, mode = "Client", pc \in {"idle", "write"}
    PROVE  d2c = <<>> /\ ~dsub /\ pushed <= sent
<1>0. /\ Parts /\ InOrder /\ Counted /\ orphans = 0 /\ taken \in Nat /\ sent \in Nat
      /\ pushed \in Nat /\ d2c \in Seq(Cells(FrameType))
    BY CalmParts, StreamTypes
<1>1. ~dsub
    BY <1>0 DEF Parts, SubscribeIsLast, Closing, Control
<1>2. pushed <= sent
    BY <1>0, <1>1 DEF Counted
<1>3. d2c = <<>> \/ taken = sent
    BY <1>0 DEF Parts, InStep
<1>4. ASSUME d2c # <<>>, taken = sent PROVE FALSE
  <2>1. d2c[1].frame.num = taken + 1
      BY <1>0, <1>4 DEF Parts, ReplyStream, StartsAt
  <2>2. 1 \in 1..Len(d2c)
      BY <1>0, <1>4
  <2>3. d2c[1].frame.num <= pushed
      BY <1>0, <2>2 DEF InOrder
  <2> QED
      BY <1>0, <1>2, <1>4, <2>1, <2>3
<1> QED
    BY <1>1, <1>2, <1>3, <1>4

\* The request at the head of c2d is the one that the client waits for.
LEMMA Outstanding ==
    ASSUME Base, c2d # <<>>
    PROVE  /\ pc = "header" /\ d2c = <<>> /\ c2d = Frame(cur) /\ c2d[1].frame = cur
           /\ mode = "Client" /\ cur.ty \in RequestType /\ cur.num = sent
           /\ ~hup /\ ~dsub /\ cur.num = pushed + 1 /\ cur \in CallType
           /\ Len(c2d) = FrameCells(cur) /\ FrameCells(cur) \in Nat
<1>0. Parts /\ TypeOK /\ cur \in CallType /\ c2d \in Seq(Cells(CallType))
    BY CalmParts, StreamTypes DEF Base, TypeOK, TransportTypeOK
<1>1. pc = "header" /\ d2c = <<>> /\ c2d = Frame(cur)
    BY DEF Base, OneRequest
<1>2. ~hup /\ ~dsub
    BY <1>0 DEF Parts, RequestStream, SubscribeIsLast
<1>3. mode = "Client" /\ cur.ty \in RequestType
  <2>1. mode # "Subscription"
      BY <1>0, <1>2 DEF Parts, ItemsInOrder
  <2> QED
      BY <1>0, <1>1, <2>1 DEF Parts, Control
<1>4. cur.num = sent
    BY <1>0, <1>1, <1>3 DEF Parts, InStep
<1>5. /\ Len(Frame(cur)) = FrameCells(cur) /\ FrameCells(cur) \in Nat \ {0}
      /\ \A i \in 1..FrameCells(cur) : Frame(cur)[i] = [frame |-> cur, pos |-> i]
    BY <1>0, FrameProperties, FrameCellsType, FramingTypes DEF Framing
<1>6. c2d[1].frame = cur
  <2>1. 1 \in 1..FrameCells(cur)
      BY <1>5
  <2>2. c2d[1] = [frame |-> cur, pos |-> 1]
      BY <1>1, <1>5, <2>1
  <2> QED
      BY <2>2
<1>7. cur.num = pushed + 1
    BY <1>0, <1>2, <1>6 DEF Parts, RequestStream, StartsAt
<1> QED
    BY <1>0, <1>1, <1>2, <1>3, <1>4, <1>5, <1>6, <1>7

\* The outcomes of serving it.
Honours(f) ==
    /\ CanHonour(cur) /\ f \in Faulty(Reply(cur))
    /\ dsub' = (dsub \/ cur.ty = "Subscribe")
    /\ applied' = IF cur.ty = "SetPort" THEN applied \cup {cur.num} ELSE applied

Refuses(f) ==
    /\ ~CanHonour(cur) \/ cur.ty # "GetInterface"
    /\ f \in Rejections(cur.num)
    /\ UNCHANGED <<dsub, applied>>

LEMMA Served ==
    ASSUME Base, Serve
    PROVE  /\ c2d # <<>> /\ cur.len <= HMSG_MAX_SIZE
           /\ c2d' = <<>> /\ UNCHANGED <<hup, reset, pc, cur, hdr, ret, sent, taken, ifs>>
           /\ \E f \in FrameType : /\ Push(f) /\ f.num = cur.num
                                   /\ Honours(f) \/ Refuses(f)
<1>0. TypeOK /\ Parts /\ Framing(CallType) /\ c2d \in Seq(Cells(CallType))
    BY CalmParts, FramingTypes, StreamTypes DEF Base
<1>1. c2d # <<>>
    BY DEF Serve, Honour, Refuse, RefuseGarbled, WholeRequest
<1>2. /\ c2d[1].frame = cur /\ c2d = Frame(cur) /\ cur \in CallType /\ cur.num = pushed + 1
      /\ Len(c2d) = FrameCells(cur) /\ FrameCells(cur) \in Nat
    BY <1>1, Outstanding
<1>3. After(c2d, FrameCells(cur)) = <<>>
  <2>1. FrameCells(cur) \in 0..Len(c2d)
      BY <1>2
  <2>2. /\ After(c2d, FrameCells(cur)) \in Seq(Cells(CallType))
        /\ Len(After(c2d, FrameCells(cur))) = Len(c2d) - FrameCells(cur)
      BY <1>0, <2>1, AfterProperties
  <2>3. Len(After(c2d, FrameCells(cur))) = 0
      BY <1>2, <2>2
  <2> QED
      BY <2>2, <2>3
<1>4. CASE Honour
  <2>1. PICK f \in Faulty(Reply(cur)) : Push(f)
      BY <1>2, <1>4 DEF Honour
  <2>2. /\ CanHonour(cur) /\ cur.len <= HMSG_MAX_SIZE /\ c2d' = After(c2d, FrameCells(cur))
        /\ dsub' = (dsub \/ cur.ty = "Subscribe")
        /\ applied' = IF cur.ty = "SetPort" THEN applied \cup {cur.num} ELSE applied
        /\ UNCHANGED <<hup, reset, pc, cur, hdr, ret, sent, taken, ifs>>
      BY <1>2, <1>4, Zenon DEF Honour, WholeRequest, TakeRequest
  <2>3. f \in FrameType
      BY <1>0, <1>2, <2>2, PushedTypes, ReplyTypes
  <2>4. f.num = cur.num
      BY DEF Faulty, Reply
  <2>5. Honours(f)
      BY <2>2, Zenon DEF Honours
  <2> QED
      BY <1>1, <1>3, <2>1, <2>2, <2>3, <2>4, <2>5
<1>5. CASE Refuse
  <2>0. PICK f \in Rejections(cur.num) : Push(f)
      BY <1>2, <1>5 DEF Refuse
  <2>1. /\ cur.len <= HMSG_MAX_SIZE /\ c2d' = After(c2d, FrameCells(cur))
        /\ UNCHANGED <<dsub, applied>>
        /\ ~CanHonour(cur) \/ cur.ty # "GetInterface"
        /\ UNCHANGED <<hup, reset, pc, cur, hdr, ret, sent, taken, ifs>>
      BY <1>2, <1>5, Zenon DEF Refuse, WholeRequest, TakeRequest
  <2>2. f \in FrameType /\ f.num = cur.num
      BY <1>2, RejectionTypes DEF CallType
  <2>3. Refuses(f)
      BY <2>1 DEF Refuses
  <2> QED
      BY <1>1, <1>3, <2>0, <2>1, <2>2, <2>3
<1>6. CASE RefuseGarbled
  <2>1. /\ c2d[1].pos = 1 /\ cur.len <= HMSG_MAX_SIZE /\ ~hup
        /\ Len(c2d) >= FrameCells(cur) /\ ~WholeRequest
      BY <1>2, <1>6 DEF RefuseGarbled
  <2>2. SubSeq(c2d, 1, FrameCells(cur)) = Frame(cur)
      BY <1>0, <1>1, <1>2, <2>1, WholeAtHead DEF Parts, RequestStream
  <2> QED
      BY <1>1, <1>2, <2>1, <2>2 DEF WholeRequest
<1> QED
    BY <1>4, <1>5, <1>6 DEF Serve

-----------------------------------------------------------------------------
(* Base is an invariant.                                                    *)

LEMMA LocalsStep ==
    ASSUME ~Async, TypeOK, Control, Locals, [Next]_vars
    PROVE  Locals'
<1>1. CASE Quiet
    BY <1>1, QuietStep DEF Begins, Locals
<1>2. CASE TransportStep
    BY <1>2 DEF TransportStep, WriteAll, WriteFails, ReadHeader, ReadPayload, ReadEof, Return, Locals
<1>3. CASE Daemon \/ UNCHANGED vars
  <2>1. UNCHANGED <<pc, cur, ret>>
      BY <1>3, Zenon DEF Daemon, Serve, Honour, Refuse, RefuseGarbled, Notify, Hangup, IfUp, IfDown,
         transportVars, vars
  <2> QED
      BY <2>1 DEF Locals
<1> QED
    BY <1>1, <1>2, <1>3, NoCancel DEF Next, Quiet

LEMMA OneRequestStep ==
    ASSUME ~Async, Base, [Next]_vars
    PROVE  OneRequest'
<1>0. TypeOK /\ Control /\ Parts /\ HeaderCells \in Nat \ {0}
    BY CalmParts, TransportAssumption DEF Base
<1>1. CASE Quiet
  <2>1. c2d' = c2d /\ pc # "header"
      BY <1>0, <1>1, QuietStep
  <2> QED
      BY <2>1 DEF Base, OneRequest
<1>2. CASE WriteAll
  <2>1. pc = "write" /\ pc' = "header" /\ c2d' = c2d \o Frame(cur) /\ UNCHANGED <<d2c, cur>>
      BY <1>2 DEF WriteAll
  <2>2. c2d = <<>>
      BY <2>1 DEF Base, OneRequest
  <2>3. d2c = <<>>
      BY <1>0, <2>1, NothingWaits DEF Base, Control
  <2>4. Frame(cur) \in Seq(Cells(CallType))
    <3>1. cur \in CallType /\ cur.len \in Nat
        BY <1>0, FramingTypes DEF TypeOK, TransportTypeOK, Framing
    <3> QED
        BY <3>1, FrameProperties
  <2>5. c2d' = Frame(cur)
      BY <2>1, <2>2, <2>4, ConcatEmptySeq
  <2> QED
      BY <2>1, <2>3, <2>5 DEF OneRequest, Frame, FrameCells
<1>3. CASE WriteFails \/ ReadHeader \/ ReadPayload \/ ReadEof
  <2>1. c2d' = c2d
      BY <1>3 DEF WriteFails, ReadHeader, ReadPayload, ReadEof
  <2>2. ASSUME c2d # <<>> PROVE FALSE
    <3>1. pc = "header" /\ d2c = <<>> /\ ~hup /\ Len(d2c) = 0
        BY <2>2, Outstanding, EmptyIsSeq
    <3> QED
        BY <1>0, <1>3, <3>1 DEF WriteFails, ReadHeader, ReadPayload, ReadEof
  <2> QED
      BY <2>1, <2>2 DEF OneRequest
<1>4. CASE Serve \/ Hangup
    BY <1>4, Served DEF Hangup, OneRequest
<1>5. CASE Notify
  <2>1. c2d = <<>> /\ c2d' = c2d
      BY <1>0, <1>5 DEF Notify, Parts, SubscribeIsLast
  <2> QED
      BY <2>1 DEF OneRequest
<1>6. CASE (\E i \in Iface : IfUp(i) \/ IfDown(i)) \/ UNCHANGED vars
    BY <1>6 DEF IfUp, IfDown, vars, transportVars, Base, OneRequest, Frame, FrameCells
<1> QED
    BY <1>1, <1>2, <1>3, <1>4, <1>5, <1>6, Steps, NoCancel DEF TransportStep

LEMMA BaseInvariant ==
    ASSUME ~Async, "oversize" \notin Faults
    PROVE  Spec => []Base
<1>1. Init => Locals /\ OneRequest
    BY DEF Init, TransportInit, Locals, OneRequest
<1>2. Spec => []Calm
    BY SyncInvariant, EndInvariant, OrderInvariant, PTL DEF Calm
<1>3. Base /\ [Next]_vars => (Locals /\ OneRequest)'
    BY LocalsStep, OneRequestStep, CalmParts DEF Base
<1> QED
    BY <1>1, <1>2, <1>3, PTL DEF Spec, Base

-----------------------------------------------------------------------------
(* set_port_description                                                     *)

LEMMA CalmEffects ==
    ASSUME ~Async, "oversize" \notin Faults
    PROVE  Spec => [](Base /\ Effects)
<1>1. Base => ~skewed
    BY CalmParts DEF Base
<1> QED
    BY <1>1, BaseInvariant, EffectsInvariant, PTL

\* set_port_description: Ok means that lldpd has carried it out, and a
\* rejection or a failed write that it has not and will not.
THEOREM SetPortTellsTheTruth ==
    ASSUME ~Async, "oversize" \notin Faults
    PROVE  Spec => []SetPortOutcome
<1>1. Base /\ Effects => SetPortOutcome
  <2> SUFFICES ASSUME Base, Effects, pc = "done", cur.ty = "SetPort"
               PROVE  /\ ret.kind = "Ok" => cur.num \in applied
                      /\ ret.kind \in {"RequestRejected", "BrokenPipe"} => cur.num \notin applied
      BY DEF SetPortOutcome
  <2>1. ReplyLag /\ ~skewed /\ orphans = 0 /\ ret.num \in Nat
      BY CalmParts, OutcomeTypes DEF Base, Parts
  <2>2. ret.kind \in {"Ok", "RequestRejected"} => ret.num = cur.num
      BY <2>1 DEF ReplyLag, Answered, RequestType
  <2> QED
      BY <2>2 DEF Effects
<1> QED
    BY <1>1, CalmEffects, PTL

\* A description above the cap: until the call returns, the request is either
\* unread in c2d or was thrown away with a reset.
LongCall == cur.ty = "SetPort" /\ cur.arg[2] \in LongDescr

LongInv ==
    LongCall =>
        /\ cur.len > HMSG_MAX_SIZE /\ cur.num \notin applied
        /\ pc \in {"write", "header", "done"}
        /\ pc = "header" => d2c = <<>> /\ (c2d # <<>> \/ (hup /\ reset))
        /\ pc = "done" => hup /\ ret.kind \in {"BrokenPipe", "ConnectionReset"}

LEMMA LongStep ==
    ASSUME ~Async, Base, Base', Effects, LongInv, [Next]_vars
    PROVE  LongInv'
<1>0. /\ Calm /\ Parts /\ TypeOK /\ Control /\ Counted /\ pushed \in Nat /\ sent \in Nat
      /\ applied \in SUBSET Nat /\ HeaderCells \in Nat \ {0} /\ HMSG_MAX_SIZE \in Nat
    BY CalmParts, StreamTypes, TransportAssumption DEF Base, TypeOK, LldpdTypeOK
<1>1. CASE Quiet
  <2>1. UNCHANGED <<lldpdVars, c2d, d2c, hup, reset, sent>>
      BY <1>0, <1>1, QuietStep
  <2>2. CASE Begins
    <3>1. applied' = applied /\ pushed <= sent /\ cur'.num = sent + 1 /\ pc' = "write"
      <4>1. mode = "Client" /\ pc = "idle"
          BY <1>0, <1>1, <2>2, QuietStep DEF Begins
      <4>2. pushed <= sent
          BY <1>0, <4>1, NothingWaits
      <4> QED
          BY <2>1, <2>2, <4>2 DEF Begins, lldpdVars
    <3>2. cur'.num \notin applied'
        BY <1>0, <3>1 DEF Effects
    <3>3. LongCall' => cur'.len > HMSG_MAX_SIZE
        BY <1>0, <2>2 DEF LongCall, Begins, RequestLen
    <3> QED
        BY <3>1, <3>2, <3>3 DEF LongInv
  <2>3. CASE ~Begins
    <3>1. ~LongCall'
        BY <1>0, <1>1, <2>3, QuietStep DEF LongCall, NoCall, Base, Locals
    <3> QED
        BY <3>1 DEF LongInv
  <2> QED
      BY <2>2, <2>3
<1>2. CASE TransportStep /\ UNCHANGED <<lldpdVars, sessionVars>>
  <2>0. applied' = applied /\ cur' = cur
      BY <1>2 DEF lldpdVars, TransportStep, WriteAll, WriteFails, ReadHeader, ReadPayload, ReadEof
  <2> SUFFICES ASSUME LongCall PROVE LongInv'
      BY <2>0 DEF LongInv, LongCall
  <2>1. CASE WriteAll
    <3>1. /\ pc = "write" /\ pc' = "header" /\ c2d' = c2d \o Frame(cur) /\ d2c' = d2c /\ mode = "Client"
        BY <1>0, <2>1 DEF WriteAll, Control
    <3>2. d2c = <<>>
        BY <1>0, <3>1, NothingWaits
    <3>3. c2d' # <<>>
      <4>1. Framing(CallType) /\ c2d \in Seq(Cells(CallType)) /\ cur \in CallType
          BY <1>0, FramingTypes, StreamTypes DEF TypeOK, TransportTypeOK
      <4>2. c2d' \in Seq(Cells(CallType)) /\ Extends(c2d', c2d, cur)
          BY <3>1, <4>1, ExtendsAppend, Zenon
      <4>3. CellByCell(c2d', c2d, cur)
          BY <4>1, <4>2, ExtendedCells, Zenon
      <4> QED
          BY <4>2, <4>3, EmptyIsSeq DEF CellByCell
    <3> QED
        BY <2>0, <3>1, <3>2, <3>3 DEF LongInv
  <2>2. CASE WriteFails
      BY <2>0, <2>2 DEF WriteFails, Return, LongInv
  <2>3. CASE ReadHeader
    <3>1. d2c = <<>> /\ Len(d2c) = 0
        BY <2>3, EmptyIsSeq DEF ReadHeader, LongInv
    <3> QED
        BY <1>0, <2>3, <3>1 DEF ReadHeader
  <2>4. CASE ReadPayload
      BY <2>4 DEF ReadPayload, LongInv
  <2>5. CASE ReadEof
    <3>1. pc = "header" /\ hup /\ hup' = hup /\ pc' = "done"
          /\ ret'.kind = IF reset THEN "ConnectionReset" ELSE "UnexpectedEof"
        BY <2>5 DEF ReadEof, Return, LongInv
    <3>2. c2d = <<>>
        BY <1>0, <3>1 DEF Parts, RequestStream
    <3> QED
        BY <2>0, <3>1, <3>2 DEF LongInv
  <2> QED
      BY <1>2, <2>1, <2>2, <2>3, <2>4, <2>5 DEF TransportStep
<1>3. CASE Serve
  <2>1. cur.len <= HMSG_MAX_SIZE /\ cur' = cur /\ cur.len \in Nat
      BY <1>0, <1>3, Served, FramingTypes DEF TypeOK, TransportTypeOK, Framing
  <2>2. ~LongCall
      BY <1>0, <2>1 DEF LongInv
  <2> QED
      BY <2>1, <2>2 DEF LongInv, LongCall
<1>4. CASE Notify
  <2>1. dsub /\ cur' = cur
      BY <1>0, <1>4, Notified
  <2>2. ~LongCall
      BY <1>0, <2>1 DEF LongCall, LongInv, Parts, SubscribeIsLast, ItemsInOrder, Closing, Control,
         RequestType, TypeOK, SessionTypeOK, OpName
  <2> QED
      BY <2>1, <2>2 DEF LongInv, LongCall
<1>5. CASE Hangup
  <2>1. /\ ~hup /\ hup' /\ reset' = (c2d # <<>>) /\ UNCHANGED <<pc, cur, ret, applied>>
      BY <1>0, <1>5, HungUp DEF lldpdVars
  <2>2. d2c = <<>> => d2c' = <<>>
    <3>1. PICK n \in 0..Len(d2c) : d2c' = SubSeq(d2c, 1, n)
        BY <1>5 DEF Hangup
    <3>2. n \in Nat /\ n <= Len(d2c)
        BY <1>0, StreamTypes
    <3> QED
        BY <3>1, <3>2, ReadNothing
  <2>3. c2d # <<>> => reset'
      BY <2>1, Zenon
  <2> QED
      BY <2>1, <2>2, <2>3 DEF LongInv, LongCall
<1>6. CASE (\E i \in Iface : IfUp(i) \/ IfDown(i)) \/ UNCHANGED vars
    BY <1>6 DEF IfUp, IfDown, vars, transportVars, lldpdVars, LongInv, LongCall
<1> QED
    BY <1>1, <1>2, <1>3, <1>4, <1>5, <1>6, Steps, NoCancel

\* set_port_description with a description that is too long: the caller gets an
\* I/O error on a connection that is gone, and lldpd does not apply it.
THEOREM TooLongAlwaysFails ==
    ASSUME ~Async, "oversize" \notin Faults
    PROVE  Spec => []TooLongFails
<1>1. Init => LongInv
    BY DEF Init, TransportInit, NoCall, LongInv, LongCall
<1>2. Base /\ Base' /\ Effects /\ LongInv /\ [Next]_vars => LongInv'
    BY LongStep
<1>3. LongInv => TooLongFails
    BY DEF LongInv, LongCall, TooLongFails
<1> QED
    BY <1>1, <1>2, <1>3, CalmEffects, PTL DEF Spec

-----------------------------------------------------------------------------
(* I/O errors                                                               *)

\* A connection that is over stays over.
LEMMA OverStays ==
    ASSUME ~Async, TypeOK, Control, hup, d2c = <<>>, [Next]_vars
    PROVE  hup' /\ d2c' = <<>>
<1>0. HeaderCells \in Nat \ {0} /\ Len(d2c) = 0 /\ hdr.len \in Nat
    BY TransportAssumption, EmptyIsSeq, StreamTypes
<1>1. CASE Quiet
    BY <1>1, QuietStep
<1>2. CASE TransportStep
  <2>1. CASE ReadPayload
      BY <1>0, <2>1, ReadNothing DEF ReadPayload
  <2>2. CASE ReadHeader
    <3>1. Len(d2c) >= HeaderCells
        BY <2>2, Zenon DEF ReadHeader
    <3> QED
        BY <1>0, <3>1
  <2>3. CASE WriteAll \/ WriteFails \/ ReadEof
      BY <2>3 DEF WriteAll, WriteFails, ReadEof
  <2> QED
      BY <1>2, <2>1, <2>2, <2>3 DEF TransportStep
<1>3. CASE Daemon
  <2>1. CASE \E i \in Iface : IfUp(i) \/ IfDown(i)
      BY <2>1 DEF IfUp, IfDown, transportVars
  <2> QED
      BY <1>3, <2>1 DEF Daemon, Serve, Honour, Refuse, RefuseGarbled, WholeRequest, Notify, Hangup
<1>4. CASE UNCHANGED vars
    BY <1>4 DEF vars, transportVars
<1> QED
    BY <1>1, <1>2, <1>3, <1>4, NoCancel DEF Next, Quiet

\* Where an I/O error in the Result of a public method comes from.
LEMMA ErrorSource ==
    ASSUME ~Async, [Next]_vars, res'.kind \in IoError
    PROVE  res' = res \/ (pc = "done" /\ ret.kind \in IoError /\ UNCHANGED <<hup, d2c>>)
<1> USE DEF IoError
<1>1. CASE connect_to \/ connect_to_fails
    BY <1>1 DEF connect_to, connect_to_fails
<1>2. CASE (\E o : Begin(o)) \/ next
    BY <1>2 DEF Begin, next, NoRes
<1>3. CASE EndInterfaces \/ EndSetPort \/ EndSubscribe \/ EndNext
    BY <1>3 DEF EndInterfaces, EndSetPort, EndSubscribe, EndNext, Release, Finish, Decoded
<1>4. CASE AllListed \/ AllFetched \/ AllDone
    BY <1>4 DEF AllListed, AllFetched, AllDone, Release, Finish, Decoded
<1>5. CASE Drop \/ AllFetch \/ Daemon \/ (TransportStep /\ UNCHANGED <<lldpdVars, sessionVars>>)
           \/ UNCHANGED vars
    BY <1>5 DEF Drop, AllFetch, Daemon, vars, sessionVars
<1> QED
    BY <1>1, <1>2, <1>3, <1>4, <1>5 DEF Next, Caller, Method, Cancel, interfaces, all_interfaces,
       subscribe, interface, set_port_description

\* Where one in the Result of request() or recv_notification() comes from.
LEMMA DoneSource ==
    ASSUME ~Async, TypeOK, Control, [Next]_vars, pc' = "done", ret'.kind \in IoError
    PROVE  (pc = "done" /\ ret.kind \in IoError) \/ WriteFails \/ ReadEof
<1>1. CASE Quiet
    BY <1>1, QuietStep DEF Begins
<1>2. CASE TransportStep
    BY <1>2 DEF TransportStep, WriteAll, ReadHeader, ReadPayload, Return, IoError
<1>3. CASE Daemon \/ UNCHANGED vars
  <2>1. UNCHANGED <<pc, ret>>
      BY <1>3, Zenon DEF Daemon, Serve, Honour, Refuse, RefuseGarbled, Notify, Hangup, IfUp, IfDown,
         transportVars, vars
  <2> QED
      BY <2>1
<1> QED
    BY <1>1, <1>2, <1>3, NoCancel DEF Next, Quiet

\* A Client method that fails with an I/O error leaves a connection that is
\* over: no later call can take anything on it for its reply.
THEOREM IoErrorsAreFinal ==
    ASSUME ~Async, "oversize" \notin Faults
    PROVE  Spec => []IoErrorIsFinal
<1> DEFINE Dead == pc = "done" /\ ret.kind \in IoError => hup /\ d2c = <<>>
<1>1. Init => IoErrorIsFinal /\ Dead
    BY DEF Init, TransportInit, NoRes, NoRet, IoErrorIsFinal, IoError
<1>2. ASSUME Base, IoErrorIsFinal, Dead, [Next]_vars PROVE IoErrorIsFinal' /\ Dead'
  <2>0. TypeOK /\ Control /\ EndInv /\ Calm
      BY <1>2, CalmParts DEF Base
  <2>1. CASE hup /\ d2c = <<>>
    <3>1. hup' /\ d2c' = <<>>
        BY <1>2, <2>0, <2>1, OverStays
    <3> QED
        BY <3>1 DEF IoErrorIsFinal
  <2>2. CASE ~(hup /\ d2c = <<>>)
    <3>1. ~(res'.kind \in IoError)
        BY <1>2, <2>2, ErrorSource DEF IoErrorIsFinal
    <3>2. ASSUME pc' = "done", ret'.kind \in IoError PROVE hup' /\ d2c' = <<>>
      <4>1. WriteFails \/ ReadEof
          BY <1>2, <2>0, <2>2, <3>2, DoneSource
      <4>2. CASE WriteFails
        <5>1. mode = "Client" /\ pc = "write"
            BY <2>0, <4>2 DEF WriteFails, Control
        <5> QED
            BY <2>0, <4>2, <5>1, NothingWaits DEF WriteFails
      <4>3. CASE ReadEof
          BY <4>3 DEF ReadEof
      <4> QED
          BY <4>1, <4>2, <4>3
    <3> QED
        BY <3>1, <3>2 DEF IoErrorIsFinal
  <2> QED
      BY <2>1, <2>2
<1> HIDE DEF Dead
<1>3. Base /\ IoErrorIsFinal /\ Dead /\ [Next]_vars => IoErrorIsFinal' /\ Dead'
    BY <1>2
<1> QED
    BY <1>1, <1>3, BaseInvariant, PTL DEF Spec

-----------------------------------------------------------------------------
(* all_interfaces: what lldpd's answers are worth                           *)

Holds(s, i) == \E k \in 1..Len(s) : s[k] = i

\* A reply to GET_INTERFACE describes the interface that was asked for, and only
\* one that went away is refused; a list names everything that has stayed.
Answers(f) ==
    /\ cur.ty = "GetInterface" =>
          /\ f.ty = "GetInterface" => f.body \in {Bad, <<cur.arg[1]>>}
          /\ f.ty = "None" => cur.arg[1] \notin stable
    /\ cur.ty = "GetInterfaces" /\ op = "all_interfaces" /\ f.ty = "GetInterfaces" =>
          f.body = Bad \/ \A i \in stable : Holds(f.body, i)

AnswerInv ==
    /\ stable \subseteq Known
    /\ pc = "header" => \A f \in InFlight : Answers(f)
    /\ pc = "payload" => Answers(hdr)
    /\ pc = "done" /\ cur.ty = "GetInterface" =>
          /\ ret.kind = "Ok" => ret.body \in {Bad, <<cur.arg[1]>>}
          /\ ret.kind = "RequestRejected" => cur.arg[1] \notin stable
    /\ pc = "done" /\ cur.ty = "GetInterfaces" /\ op = "all_interfaces" /\ ret.kind = "Ok" =>
          ret.body = Bad \/ \A i \in stable : Holds(ret.body, i)

\* An interface that goes away is the only one that lldpd no longer knows.
LEMMA OthersStayKnown ==
    ASSUME TypeOK, NEW i \in Iface, IfDown(i)
    PROVE  Known \ {i} \subseteq Known'
<1>0. ifs \in Seq(Iface) /\ Len(ifs) \in Nat
    BY DEF TypeOK, LldpdTypeOK
<1>1. PICK k \in 1..Len(ifs) :
          ifs[k] = i /\ ifs' = SubSeq(ifs, 1, k - 1) \o SubSeq(ifs, k + 1, Len(ifs))
  <2>1. DOMAIN ifs = 1..Len(ifs)
      BY <1>0
  <2> QED
      BY <2>1, Zenon DEF IfDown
<1> DEFINE a == SubSeq(ifs, 1, k - 1)
           b == SubSeq(ifs, k + 1, Len(ifs))
<1>2. a \in Seq(Iface) /\ Len(a) = k - 1 /\ \A j \in 1..(k - 1) : a[j] = ifs[j]
    BY <1>0
<1>3. b \in Seq(Iface) /\ Len(b) = Len(ifs) - k /\ \A j \in 1..(Len(ifs) - k) : b[j] = ifs[k + j]
    BY <1>0
<1>4. ifs' = a \o b
    BY <1>1
<1> HIDE DEF a, b
<1>5. /\ ifs' \in Seq(Iface) /\ Len(ifs') = Len(a) + Len(b)
      /\ \A j \in 1..Len(a) : ifs'[j] = a[j]
      /\ \A j \in 1..Len(b) : ifs'[Len(a) + j] = b[j]
  <2>1. a \in Seq(Iface) /\ b \in Seq(Iface)
      BY <1>2, <1>3
  <2>2. /\ a \o b \in Seq(Iface) /\ Len(a \o b) = Len(a) + Len(b)
        /\ \A j \in 1..Len(a) : (a \o b)[j] = a[j]
        /\ \A j \in 1..Len(b) : (a \o b)[Len(a) + j] = b[j]
      BY <2>1, ConcatCells
  <2> QED
      BY <1>4, <2>2, Zenon
<1> SUFFICES ASSUME NEW x \in Known \ {i} PROVE x \in Known'
    OBVIOUS
<1>6. PICK m \in 1..Len(ifs) : ifs[m] = x
    BY <1>0 DEF Known
<1>7. m # k
    BY <1>1, <1>6
<1>8. CASE m < k
  <2>1. m \in 1..Len(a) /\ m \in 1..Len(ifs') /\ ifs'[m] = x
      BY <1>0, <1>2, <1>3, <1>5, <1>6, <1>8
  <2> QED
      BY <1>5, <2>1 DEF Known
<1>9. CASE m > k
  <2> DEFINE n == m - k
  <2>1. n \in 1..Len(b) /\ k + n = m
      BY <1>0, <1>3, <1>9
  <2> HIDE DEF n
  <2>2. ifs'[Len(a) + n] = b[n]
      BY <1>5, <2>1, Zenon
  <2>3. b[n] = ifs[k + n]
      BY <1>3, <2>1
  <2>4. Len(a) \in Nat /\ Len(b) \in Nat /\ Len(ifs') = Len(a) + Len(b)
      BY <1>0, <1>2, <1>3, <1>5
  <2>5. Len(a) + n \in 1..Len(ifs') /\ ifs'[Len(a) + n] = b[n] /\ b[n] = ifs[k + n]
      BY <2>1, <2>2, <2>3, <2>4
  <2>6. Len(a) + n \in DOMAIN ifs' /\ ifs'[Len(a) + n] = x
      BY <1>5, <1>6, <2>1, <2>5
  <2> QED
      BY <2>6 DEF Known
<1> QED
    BY <1>0, <1>7, <1>8, <1>9

\* stable starts as what lldpd knows and loses what goes away.
LEMMA StableStep ==
    ASSUME ~Async, TypeOK, stable \subseteq Known, [Next]_vars
    PROVE  stable' \subseteq Known' /\ (stable' \subseteq stable \/ all_interfaces)
<1>1. CASE UNCHANGED <<stable, ifs>>
    BY <1>1 DEF Known
<1>2. CASE all_interfaces
    BY <1>2 DEF all_interfaces, Begin, lldpdVars, Known
<1>3. ASSUME NEW i \in Iface, IfDown(i), stable' = stable \ {i} PROVE stable' \subseteq Known'
    BY <1>3, OthersStayKnown
<1>4. ASSUME NEW i \in Iface, IfUp(i), stable' = stable PROVE stable' \subseteq Known'
  <2>1. ifs \in Seq(Iface) /\ ifs' = Append(ifs, i)
      BY <1>4 DEF TypeOK, LldpdTypeOK, IfUp
  <2>2. /\ DOMAIN ifs = 1..Len(ifs) /\ DOMAIN ifs' = 1..(Len(ifs) + 1) /\ Len(ifs) \in Nat
        /\ \A k \in 1..Len(ifs) : ifs'[k] = ifs[k]
      BY <2>1
  <2>3. Known \subseteq Known'
      BY <2>2 DEF Known
  <2> QED
      BY <1>4, <2>3
<1>5. CASE Caller \/ UNCHANGED vars
  <2>1. all_interfaces \/ UNCHANGED <<stable, ifs>>
      BY <1>5 DEF Caller, connect_to, connect_to_fails, Drop, interfaces, interface,
         set_port_description, subscribe, next, Begin, Cancel, lldpdVars, vars, sessionVars
  <2> QED
      BY <1>1, <1>2, <2>1
<1>6. CASE Method
  <2>1. UNCHANGED <<stable, ifs>>
      BY <1>6 DEF Method, EndInterfaces, EndSetPort, EndSubscribe, EndNext, AllListed, AllFetch,
         AllFetched, AllDone, lldpdVars, sessionVars
  <2> QED
      BY <1>1, <2>1
<1>7. CASE (Serve \/ Notify \/ Hangup) /\ UNCHANGED sessionVars
  <2>1. UNCHANGED <<stable, ifs>>
      BY <1>7, Zenon DEF Serve, Honour, Refuse, RefuseGarbled, Notify, Hangup, lldpdVars, sessionVars
  <2> QED
      BY <1>1, <2>1
<1>8. CASE \E i \in Iface : IfUp(i) /\ UNCHANGED sessionVars
    BY <1>4, <1>8 DEF sessionVars
<1>9. CASE \E i \in Iface : IfDown(i) /\ stable' = stable \ {i}
    BY <1>3, <1>9
<1> QED
    BY <1>5, <1>6, <1>7, <1>8, <1>9 DEF Next, Daemon

LEMMA AnswerServe ==
    ASSUME Base, AnswerInv, Serve, UNCHANGED sessionVars, stable' \subseteq Known'
    PROVE  AnswerInv'
<1>0. TypeOK /\ ifs \in Seq(Iface)
    BY CalmParts DEF Base, TypeOK, LldpdTypeOK
<1>1. /\ pc = "header" /\ pc' = pc /\ d2c = <<>> /\ UNCHANGED <<cur, op, stable>>
    BY Served, Outstanding DEF sessionVars
<1>2. PICK f \in FrameType : Push(f) /\ (Honours(f) \/ Refuses(f))
    BY Served
<1>3. InFlight' \subseteq {f}
  <2>1. InFlight = {}
      BY <1>1, EmptyIsSeq DEF InFlight
  <2> QED
      BY <1>0, <1>2, <2>1, FlightPushed
<1>4. CASE Honours(f)
  <2>1. f.ty \in {cur.ty, "Other"} /\ f.body \in {Reply(cur).body, Bad}
      BY <1>4 DEF Honours, Faulty, Reply
  <2>2. \A i \in stable : Holds(ifs, i)
      BY <1>0 DEF AnswerInv, Known, Holds
  <2>3. /\ cur.ty = "GetInterface" => Reply(cur).body = <<cur.arg[1]>>
        /\ cur.ty = "GetInterfaces" => Reply(cur).body = ifs
      BY DEF Reply
  <2>4. Answers(f)
    <3>1. f.ty # "None" \/ cur.ty # "GetInterface"
        BY <2>1
    <3>2. cur.ty = "GetInterface" /\ f.ty = "GetInterface" => f.body \in {Bad, <<cur.arg[1]>>}
        BY <2>1, <2>3
    <3>3. cur.ty = "GetInterfaces" => f.body = Bad \/ \A i \in stable : Holds(f.body, i)
        BY <2>1, <2>2, <2>3
    <3> QED
        BY <3>1, <3>2, <3>3 DEF Answers
  <2> QED
      BY <1>1, <1>3, <2>4 DEF AnswerInv, Answers
<1>5. CASE Refuses(f)
  <2>1. f.ty = "None" /\ (cur.ty = "GetInterface" => cur.arg[1] \notin Known)
      BY <1>5 DEF Refuses, Rejections, CanHonour
  <2>2. Answers(f)
      BY <2>1 DEF Answers, AnswerInv
  <2> QED
      BY <1>1, <1>3, <2>2 DEF AnswerInv, Answers
<1> QED
    BY <1>2, <1>4, <1>5

\* Answers survive what does not change the call, as long as stable only shrinks.
LEMMA AnswersKept ==
    ASSUME stable' \subseteq stable, UNCHANGED <<cur, op>>, NEW f, Answers(f)
    PROVE  Answers(f)'
BY DEF Answers, Holds

LEMMA AnswerStep ==
    ASSUME ~Async, Base, Base', AnswerInv, [Next]_vars
    PROVE  AnswerInv'
<1>0. Calm /\ Parts /\ TypeOK /\ Control /\ ~skewed'
    BY CalmParts DEF Base, Calm, NeverTorn
<1>s. stable' \subseteq Known' /\ (stable' \subseteq stable \/ all_interfaces)
    BY <1>0, StableStep DEF AnswerInv
<1>1. CASE Quiet
  <2>1. pc' \notin {"payload", "done"} /\ (pc' = "header" => cur'.ty = "Notification")
      BY <1>0, <1>1, QuietStep DEF Begins
  <2> QED
      BY <1>s, <2>1 DEF AnswerInv, Answers
<1>2. CASE TransportStep /\ UNCHANGED <<lldpdVars, sessionVars>>
  <2>0. UNCHANGED <<stable, op, cur>>
      BY <1>2 DEF sessionVars, TransportStep, WriteAll, WriteFails, ReadHeader, ReadPayload, ReadEof
  <2>1. CASE WriteAll
    <3>1. pc = "write" /\ pc' = "header" /\ d2c' = d2c /\ mode = "Client"
        BY <1>0, <2>1 DEF WriteAll, Control
    <3>2. InFlight' = {}
        BY <1>0, <3>1, NothingWaits, EmptyIsSeq DEF InFlight
    <3> QED
        BY <1>s, <3>1, <3>2 DEF AnswerInv
  <2>2. CASE WriteFails \/ ReadEof
    <3>1. pc' = "done" /\ ret'.kind \notin {"Ok", "RequestRejected"}
        BY <2>2 DEF WriteFails, ReadEof, Return
    <3> QED
        BY <1>s, <3>1 DEF AnswerInv
  <2>3. CASE ReadHeader
    <3>1. pc = "header" /\ pc' = "payload" /\ hdr' \in InFlight
        BY <1>0, <1>2, <2>3, HeaderRead
    <3>2. Answers(hdr')
        BY <3>1 DEF AnswerInv
    <3> QED
        BY <1>s, <2>0, <3>1, <3>2 DEF AnswerInv, Answers
  <2>4. CASE ReadPayload
    <3>1. /\ pc = "payload" /\ pc' = "done"
          /\ ret'.kind = "RequestRejected" => hdr.ty = "None"
          /\ ret'.kind = "Ok" => hdr.ty = cur.ty /\ ret'.body = hdr.body
        BY <1>0, <1>2, <2>4, PayloadRead
    <3>2. Answers(hdr)
        BY <3>1 DEF AnswerInv
    <3> QED
        BY <1>s, <2>0, <3>1, <3>2 DEF AnswerInv, Answers
  <2> QED
      BY <1>2, <2>1, <2>2, <2>3, <2>4 DEF TransportStep
<1>3. CASE Serve /\ UNCHANGED sessionVars
    BY <1>3, <1>s, AnswerServe
<1>4. CASE Notify /\ UNCHANGED sessionVars
  <2>1. dsub /\ UNCHANGED <<pc, cur, hdr, ret, op, stable>>
      BY <1>0, <1>4, Notified DEF sessionVars
  <2>2. pc = "header" => cur.ty \in {"Notification", "Subscribe"}
      BY <1>0, <2>1 DEF Parts, SubscribeIsLast, Closing, Control, TypeOK, SessionTypeOK
  <2> QED
      BY <1>s, <2>1, <2>2 DEF AnswerInv, Answers
<1>5. CASE Hangup /\ UNCHANGED sessionVars
  <2>1. InFlight' \subseteq InFlight /\ UNCHANGED <<pc, cur, hdr, ret, op, stable>>
      BY <1>0, <1>5, HungUp DEF sessionVars
  <2> QED
      BY <1>s, <2>1 DEF AnswerInv, Answers
<1>6. CASE \/ \E i \in Iface : IfUp(i) /\ UNCHANGED sessionVars
           \/ \E i \in Iface : IfDown(i) /\ stable' = stable \ {i} /\ op' = op
           \/ UNCHANGED vars
  <2>1. UNCHANGED <<d2c, pc, cur, hdr, ret, op>> /\ stable' \subseteq stable
      BY <1>6 DEF IfUp, IfDown, vars, transportVars, sessionVars
  <2>2. InFlight' = InFlight
      BY <2>1 DEF InFlight
  <2>3. \A f : Answers(f) => Answers(f)'
      BY <2>1, AnswersKept
  <2>4. pc' = "header" => \A f \in InFlight' : Answers(f)'
      BY <2>1, <2>2, <2>3 DEF AnswerInv
  <2>5. pc' = "payload" => Answers(hdr)'
      BY <2>1 DEF AnswerInv, Answers, Holds
  <2> QED
      BY <1>s, <2>1, <2>4, <2>5 DEF AnswerInv
<1> QED
    BY <1>1, <1>2, <1>3, <1>4, <1>5, <1>6, Steps, NoCancel

-----------------------------------------------------------------------------
(* all_interfaces: its loop                                                 *)

Listing == pc # "idle" /\ cur.ty = "GetInterfaces"
Fetching == pc # "idle" /\ cur.ty = "GetInterface"

\* The names whose interface() call has returned.
Fetched == IF Fetching THEN 1..(at - 1) ELSE 1..at

\* s is drawn from the names of the list l that are at those places, in their
\* order: its jth element is that of request ask[j].
DrawnBy(ask, s, l, places) ==
    /\ \A j \in 1..Len(s) : ask[j] \in places /\ s[j] = l[ask[j]]
    /\ \A j, k \in 1..Len(s) : j < k => ask[j] < ask[k]
Drawn == \E ask \in [1..Len(acc) -> Nat] : DrawnBy(ask, acc, listed, Fetched)

LoopInv ==
    /\ op # "all_interfaces" \/ Listing => listed = <<>> /\ at = 0 /\ acc = <<>>
    /\ op = "all_interfaces" =>
          /\ pc # "idle" => Listing \/ Fetching
          /\ at <= Len(listed)
          /\ Fetching => at > 0 /\ cur.arg = <<listed[at]>>
          /\ \A k \in 1..Len(listed) : listed[k] \notin NonUtf8
          /\ Drawn

\* Every interface that is known throughout is in the list, and then in acc.
CompleteInv ==
    /\ op = "all_interfaces" =>
          /\ ~Listing => \A i \in stable \ NonUtf8 : Holds(listed, i)
          /\ \A k \in Fetched : listed[k] \in stable => Holds(acc, listed[k])
    /\ res.op = "all_interfaces" /\ res.kind = "Ok" =>
          \A i \in stable \ NonUtf8 : Holds(res.val, i)

\* A step of the loop, its beginning, or one that leaves it alone.
Elsewhere ==
    /\ UNCHANGED <<listed, at, acc>>
    /\ \/ UNCHANGED <<op, cur>> /\ (pc' = "idle" <=> pc = "idle")
       \/ op # "all_interfaces" /\ op' # "all_interfaces"
    /\ res' = res \/ res'.op # "all_interfaces"

LEMMA LoopCases ==
    ASSUME ~Async, TypeOK, Control, [Next]_vars
    PROVE  Elsewhere \/ all_interfaces \/ AllListed \/ AllFetch \/ AllFetched \/ AllDone
<1>1. CASE connect_to \/ connect_to_fails \/ Drop
    BY <1>1 DEF connect_to, connect_to_fails, Drop, transportVars, Elsewhere
<1>2. ASSUME NEW o, Begin(o), o # "all_interfaces", UNCHANGED <<listed, at, acc>>
      PROVE  Elsewhere
    BY <1>2 DEF Begin, NoRes, Elsewhere
<1>3. CASE interfaces \/ subscribe
    BY <1>2, <1>3 DEF interfaces, subscribe
<1>4. CASE \E i \in Iface \ NonUtf8 : interface(i) \/ \E d \in Descr : set_port_description(i, d)
    BY <1>2, <1>4 DEF interface, set_port_description
<1>5. CASE next
    BY <1>5 DEF next, NoRes, Elsewhere
<1>6. CASE EndInterfaces \/ EndSetPort \/ EndSubscribe
    BY <1>6 DEF EndInterfaces, EndSetPort, EndSubscribe, Finish, Elsewhere
<1>7. CASE EndNext
    BY <1>7 DEF EndNext, Finish, Elsewhere
<1>8. CASE TransportStep /\ UNCHANGED <<lldpdVars, sessionVars>>
    BY <1>8 DEF TransportStep, WriteAll, WriteFails, ReadHeader, ReadPayload, ReadEof, Return,
       sessionVars, Elsewhere
<1>9. CASE Daemon \/ UNCHANGED vars
  <2>1. UNCHANGED <<pc, cur, op, listed, at, acc, res>>
      BY <1>9, Zenon DEF Daemon, Serve, Honour, Refuse, RefuseGarbled, Notify, Hangup, IfUp, IfDown,
         transportVars, sessionVars, vars
  <2> QED
      BY <2>1 DEF Elsewhere
<1> QED
    BY <1>1, <1>3, <1>4, <1>5, <1>6, <1>7, <1>8, <1>9 DEF Next, Caller, Method, Cancel

\* What a fetched interface adds.
LEMMA FetchedOne ==
    ASSUME Base, AnswerInv, LoopInv, AllFetched, Decoded(ret) = "Ok"
    PROVE  /\ acc' = Append(acc, listed[at])
           /\ Len(acc') = Len(acc) + 1 /\ acc'[Len(acc) + 1] = listed[at]
           /\ \A k \in 1..Len(acc) : acc'[k] = acc[k]
           /\ UNCHANGED <<listed, at, op, res>>
<1>0. acc \in Seq(Iface) /\ listed \in Seq(Iface) /\ at \in Nat
    BY CalmParts DEF Base, TypeOK, SessionTypeOK
<1>1. ret.kind = "Ok" /\ ret.body # Bad /\ pc = "done" /\ op = "all_interfaces" /\ cur.ty = "GetInterface"
    BY DEF AllFetched, Decoded, Release
<1>2. at > 0 /\ at <= Len(listed) /\ cur.arg = <<listed[at]>>
    BY <1>1 DEF LoopInv, Fetching
<1>3. ret.body = <<listed[at]>>
    BY <1>1, <1>2 DEF AnswerInv
<1>4. listed[at] \notin NonUtf8 /\ listed[at] \in Iface
    BY <1>0, <1>1, <1>2 DEF LoopInv
<1>5. Names(ret.body) = <<listed[at]>>
    BY <1>3, <1>4 DEF Names, Lossy
<1>6. acc' = acc \o <<listed[at]>> /\ UNCHANGED <<listed, at, op, res>>
    BY <1>5 DEF AllFetched
<1> QED
    BY <1>0, <1>4, <1>6

\* What interfaces() returned, as all_interfaces goes through it.
LEMMA ListedNames ==
    ASSUME Base, AllListed, Decoded(ret) = "Ok"
    PROVE  /\ ret.kind = "Ok" /\ ret.body # Bad /\ pc = "done" /\ Len(listed') = Len(ret.body)
           /\ Len(ret.body) \in Nat
           /\ \A k \in 1..Len(ret.body) : listed'[k] = Lossy(ret.body[k])
<1>1. ret.kind = "Ok" /\ ret.body # Bad /\ pc = "done" /\ listed' = Names(ret.body)
    BY DEF AllListed, Decoded, Release
<1>2. ret.body \in Seq(Iface)
    BY <1>1, CalmParts, OutcomeTypes DEF Base, BodyType
<1>3. DOMAIN ret.body = 1..Len(ret.body) /\ Len(ret.body) \in Nat
    BY <1>2
<1>4. listed' \in Seq(Iface)
    BY <1>1, <1>2, NamesTypes
<1>5. DOMAIN listed' = 1..Len(ret.body) /\ \A k \in 1..Len(ret.body) : listed'[k] = Lossy(ret.body[k])
    BY <1>1, <1>3 DEF Names
<1> QED
    BY <1>1, <1>3, <1>4, <1>5

LEMMA NothingDrawn ==
    ASSUME NEW s, NEW l, NEW places, s = <<>>
    PROVE  \E ask \in [1..Len(s) -> Nat] : DrawnBy(ask, s, l, places)
<1>1. Len(s) = 0 /\ 1..Len(s) = {}
    BY EmptyIsSeq
<1>2. [j \in 1..Len(s) |-> 0] \in [1..Len(s) -> Nat]
    OBVIOUS
<1> QED
    BY <1>1, <1>2 DEF DrawnBy

LEMMA LoopStep ==
    ASSUME ~Async, Base, AnswerInv, LoopInv, [Next]_vars
    PROVE  LoopInv'
<1>0. /\ TypeOK /\ Control /\ at \in Nat /\ Len(listed) \in Nat /\ Len(acc) \in Nat
      /\ Len(<<>>) = 0
    BY CalmParts, EmptyIsSeq DEF Base, TypeOK, SessionTypeOK
<1>n. acc' = <<>> => Drawn'
    BY NothingDrawn DEF Drawn
<1>1. CASE Elsewhere
    BY <1>1 DEF Elsewhere, LoopInv, Listing, Fetching, Fetched, Drawn, DrawnBy
<1>2. CASE all_interfaces
  <2>1. op # "all_interfaces" /\ UNCHANGED <<listed, at, acc>> /\ Listing' /\ ~Fetching'
      BY <1>2 DEF all_interfaces, Begin, request, Listing, Fetching
  <2>2. listed' = <<>> /\ at' = 0 /\ acc' = <<>>
      BY <2>1 DEF LoopInv
  <2> QED
      BY <1>0, <2>1, <2>2, <1>n DEF LoopInv
<1>3. CASE AllListed
  <2>1. CASE Decoded(ret) = "Ok"
    <3>1. pc' = "idle" /\ ~Listing' /\ ~Fetching' /\ UNCHANGED <<op, at, acc>> /\ op = "all_interfaces"
        BY <1>3, <2>1 DEF AllListed, Release, Forget, Listing, Fetching
    <3>2. at' = 0 /\ acc' = <<>>
        BY <1>3, <3>1 DEF AllListed, Release, LoopInv, Listing
    <3>3. /\ Len(listed') \in Nat
          /\ \A k \in 1..Len(listed') : listed'[k] \notin NonUtf8
        BY <1>3, <2>1, ListedNames, SessionAssumption DEF Lossy
    <3> QED
        BY <1>0, <3>1, <3>2, <3>3, <1>n DEF LoopInv
  <2>2. CASE Decoded(ret) # "Ok"
    <3>1. op' = "none" /\ listed' = <<>> /\ at' = 0 /\ acc' = <<>>
        BY <1>3, <2>2 DEF AllListed, Finish, ForgetAll
    <3> QED
        BY <3>1 DEF LoopInv
  <2> QED
      BY <2>1, <2>2
<1>4. CASE AllFetch
  <2>1. /\ op = "all_interfaces" /\ pc = "idle" /\ at < Len(listed) /\ at' = at + 1
        /\ UNCHANGED <<op, listed, acc>> /\ ~Fetching /\ Fetching' /\ ~Listing'
        /\ cur'.arg = <<listed[at + 1]>>
      BY <1>4 DEF AllFetch, request, Fetching, Listing
  <2>2. Fetched' = Fetched
      BY <1>0, <2>1 DEF Fetched
  <2>3. Drawn'
      BY <2>1, <2>2 DEF LoopInv, Drawn, DrawnBy
  <2> QED
      BY <1>0, <2>1, <2>3 DEF LoopInv
<1>5. CASE AllFetched
  <2>0. /\ op = "all_interfaces" /\ Fetching /\ pc' = "idle" /\ ~Fetching' /\ ~Listing' /\ ~Listing
        /\ Fetched = 1..(at - 1)
      BY <1>5 DEF AllFetched, Release, Forget, Fetching, Listing, Fetched
  <2>1. at > 0 /\ at <= Len(listed) /\ Drawn
      BY <2>0 DEF LoopInv
  <2>2. CASE Decoded(ret) = "Ok"
    <3>1. /\ Len(acc') = Len(acc) + 1 /\ acc'[Len(acc) + 1] = listed[at]
          /\ \A k \in 1..Len(acc) : acc'[k] = acc[k]
          /\ UNCHANGED <<listed, at, op>>
        BY <1>5, <2>2, FetchedOne
    <3>2. Fetched' = 1..at
        BY <2>0, <3>1 DEF Fetched
    <3>3. PICK ask \in [1..Len(acc) -> Nat] : DrawnBy(ask, acc, listed, Fetched)
        BY <2>1 DEF Drawn
    <3> DEFINE ask2 == [j \in 1..Len(acc') |-> IF j = Len(acc) + 1 THEN at ELSE ask[j]]
    <3>4. DrawnBy(ask2, acc', listed', Fetched')
      <4>1. ASSUME NEW j \in 1..Len(acc') PROVE ask2[j] \in Fetched' /\ acc'[j] = listed'[ask2[j]]
        <5>1. CASE j = Len(acc) + 1
            BY <1>0, <2>1, <3>1, <3>2, <5>1
        <5>2. CASE j # Len(acc) + 1
          <6>1. j \in 1..Len(acc) /\ ask2[j] = ask[j]
              BY <1>0, <3>1, <5>2
          <6>2. ask[j] \in 1..(at - 1) /\ acc[j] = listed[ask[j]]
              BY <2>0, <3>3, <6>1 DEF DrawnBy
          <6> QED
              BY <1>0, <3>1, <3>2, <6>1, <6>2
        <5> QED
            BY <5>1, <5>2
      <4>2. ASSUME NEW j \in 1..Len(acc'), NEW k \in 1..Len(acc'), j < k PROVE ask2[j] < ask2[k]
        <5>1. j \in 1..Len(acc) /\ ask2[j] = ask[j]
            BY <1>0, <3>1, <4>2
        <5>2. ask[j] \in 1..(at - 1)
            BY <2>0, <3>3, <5>1 DEF DrawnBy
        <5>3. CASE k = Len(acc) + 1
            BY <1>0, <5>1, <5>2, <5>3
        <5>4. CASE k # Len(acc) + 1
          <6>1. k \in 1..Len(acc) /\ ask2[k] = ask[k]
              BY <1>0, <3>1, <5>4
          <6> QED
              BY <3>3, <4>2, <5>1, <6>1 DEF DrawnBy
        <5> QED
            BY <5>3, <5>4
      <4> QED
          BY <4>1, <4>2 DEF DrawnBy
    <3>5. Drawn'
      <4>1. ask2 \in [1..Len(acc') -> Nat]
          BY <1>0, <3>1, <3>3
      <4> QED
          BY <3>4, <4>1 DEF Drawn
    <3> QED
        BY <2>0, <2>1, <3>1, <3>5 DEF LoopInv
  <2>3. CASE Decoded(ret) = "RequestRejected"
    <3>1. UNCHANGED <<listed, at, acc, op>>
        BY <1>5, <2>3 DEF AllFetched
    <3>2. Fetched \subseteq Fetched'
        BY <1>0, <2>0, <3>1 DEF Fetched
    <3>3. Drawn'
        BY <2>1, <3>1, <3>2 DEF Drawn, DrawnBy
    <3> QED
        BY <2>0, <3>1, <3>3 DEF LoopInv
  <2>4. CASE Decoded(ret) \notin {"Ok", "RequestRejected"}
    <3>1. op' = "none" /\ listed' = <<>> /\ at' = 0 /\ acc' = <<>>
        BY <1>5, <2>4 DEF AllFetched, Finish, ForgetAll
    <3> QED
        BY <3>1 DEF LoopInv
  <2> QED
      BY <2>2, <2>3, <2>4
<1>6. CASE AllDone
    BY <1>6 DEF AllDone, Finish, ForgetAll, LoopInv
<1> QED
    BY <1>0, <1>1, <1>2, <1>3, <1>4, <1>5, <1>6, LoopCases

LEMMA CompleteStep ==
    ASSUME ~Async, Base, AnswerInv, LoopInv, CompleteInv, [Next]_vars
    PROVE  CompleteInv'
<1>0. /\ TypeOK /\ Control /\ at \in Nat /\ Len(listed) \in Nat /\ Len(acc) \in Nat
      /\ Len(<<>>) = 0 /\ (stable' \subseteq stable \/ all_interfaces)
    BY CalmParts, EmptyIsSeq, StableStep DEF Base, TypeOK, SessionTypeOK, AnswerInv
<1>1. CASE Elsewhere /\ stable' \subseteq stable
    BY <1>1 DEF Elsewhere, CompleteInv, Listing, Fetching, Fetched, Holds
<1>2. CASE all_interfaces
  <2>1. op # "all_interfaces" /\ UNCHANGED <<listed, at, acc>> /\ Listing' /\ ~Fetching' /\ res' = NoRes
      BY <1>2 DEF all_interfaces, Begin, request, Listing, Fetching
  <2>2. at' = 0
      BY <2>1 DEF LoopInv
  <2>3. Fetched' = {}
      BY <2>1, <2>2 DEF Fetched
  <2> QED
      BY <2>1, <2>3 DEF CompleteInv, NoRes
<1>3. CASE AllListed
  <2>0. UNCHANGED stable /\ op = "all_interfaces" /\ Listing /\ cur.ty = "GetInterfaces"
      BY <1>3 DEF AllListed, Release, Listing
  <2>1. CASE Decoded(ret) = "Ok"
    <3>1. pc' = "idle" /\ ~Fetching' /\ UNCHANGED <<op, at, acc, res>>
        BY <1>3, <2>1 DEF AllListed, Release, Forget, Fetching
    <3>2. Fetched' = {}
        BY <2>0, <3>1 DEF LoopInv, Fetched
    <3>3. ASSUME NEW i \in stable \ NonUtf8 PROVE Holds(listed', i)
      <4>1. Holds(ret.body, i)
          BY <1>3, <2>0, <2>1, ListedNames DEF AnswerInv
      <4>2. PICK k \in 1..Len(ret.body) : ret.body[k] = i
          BY <4>1 DEF Holds
      <4>3. k \in 1..Len(listed') /\ listed'[k] = Lossy(i)
          BY <1>3, <2>1, <4>2, ListedNames
      <4>4. Lossy(i) = i
          BY DEF Lossy
      <4> QED
          BY <4>3, <4>4 DEF Holds
    <3> QED
        BY <2>0, <3>1, <3>2, <3>3 DEF CompleteInv, Holds
  <2>2. CASE Decoded(ret) # "Ok"
    <3>1. op' = "none" /\ res'.kind # "Ok"
        BY <1>3, <2>2 DEF AllListed, Finish
    <3> QED
        BY <3>1 DEF CompleteInv
  <2> QED
      BY <2>1, <2>2
<1>4. CASE AllFetch
  <2>1. /\ op = "all_interfaces" /\ pc = "idle" /\ at' = at + 1
        /\ UNCHANGED <<op, listed, acc, stable, res>> /\ ~Fetching /\ Fetching' /\ ~Listing
      BY <1>4 DEF AllFetch, request, Fetching, Listing
  <2>2. Fetched' = Fetched
      BY <1>0, <2>1 DEF Fetched
  <2> QED
      BY <2>1, <2>2 DEF CompleteInv, Holds
<1>5. CASE AllFetched
  <2>0. /\ op = "all_interfaces" /\ Fetching /\ pc' = "idle" /\ ~Fetching' /\ ~Listing
        /\ Fetched = 1..(at - 1) /\ UNCHANGED stable /\ pc = "done" /\ cur.ty = "GetInterface"
      BY <1>5 DEF AllFetched, Release, Forget, Fetching, Listing, Fetched
  <2>1. at > 0 /\ at <= Len(listed) /\ cur.arg = <<listed[at]>>
      BY <2>0 DEF LoopInv
  <2>2. CASE Decoded(ret) = "Ok"
    <3>1. /\ Len(acc') = Len(acc) + 1 /\ acc'[Len(acc) + 1] = listed[at]
          /\ \A k \in 1..Len(acc) : acc'[k] = acc[k]
          /\ UNCHANGED <<listed, at, op, res>>
        BY <1>5, <2>2, FetchedOne
    <3>2. \A i : Holds(acc, i) => Holds(acc', i)
        BY <1>0, <3>1 DEF Holds
    <3>3. Holds(acc', listed[at])
      <4>1. Len(acc) + 1 \in 1..Len(acc')
          BY <1>0, <3>1
      <4> QED
          BY <3>1, <4>1 DEF Holds
    <3>4. ASSUME NEW k \in Fetched', listed[k] \in stable PROVE Holds(acc', listed[k])
      <4>1. k \in 1..at
          BY <2>0, <3>1 DEF Fetched
      <4>2. CASE k = at
          BY <3>3, <4>2
      <4>3. CASE k \in 1..(at - 1)
          BY <2>0, <3>2, <3>4, <4>3 DEF CompleteInv
      <4> QED
          BY <1>0, <4>1, <4>2, <4>3
    <3> QED
        BY <2>0, <3>1, <3>4 DEF CompleteInv, Holds
  <2>3. CASE Decoded(ret) = "RequestRejected"
    <3>1. UNCHANGED <<listed, at, acc, op, res>>
        BY <1>5, <2>3 DEF AllFetched
    <3>2. listed[at] \notin stable
      <4>1. ret.kind = "RequestRejected"
          BY <2>3 DEF Decoded
      <4> QED
          BY <2>0, <2>1, <4>1 DEF AnswerInv
    <3>3. ASSUME NEW k \in Fetched', listed[k] \in stable PROVE Holds(acc, listed[k])
      <4>1. k \in 1..at /\ k # at
          BY <2>0, <3>1, <3>2, <3>3 DEF Fetched
      <4>2. k \in Fetched
          BY <1>0, <2>0, <4>1
      <4> QED
          BY <2>0, <3>3, <4>2 DEF CompleteInv
    <3> QED
        BY <2>0, <3>1, <3>3 DEF CompleteInv, Holds
  <2>4. CASE Decoded(ret) \notin {"Ok", "RequestRejected"}
    <3>1. op' = "none" /\ res'.kind # "Ok"
        BY <1>5, <2>4 DEF AllFetched, Finish
    <3> QED
        BY <3>1 DEF CompleteInv
  <2> QED
      BY <2>2, <2>3, <2>4
<1>6. CASE AllDone
  <2>1. /\ op = "all_interfaces" /\ pc = "idle" /\ at = Len(listed) /\ op' = "none"
        /\ res'.val = acc /\ UNCHANGED stable
      BY <1>6 DEF AllDone, Finish
  <2>2. Fetched = 1..Len(listed) /\ ~Listing
      BY <2>1 DEF Fetched, Fetching, Listing
  <2>3. ASSUME NEW i \in stable \ NonUtf8 PROVE Holds(acc, i)
    <3>1. PICK k \in 1..Len(listed) : listed[k] = i
        BY <2>1, <2>2 DEF CompleteInv, Holds
    <3> QED
        BY <2>1, <2>2, <3>1 DEF CompleteInv
  <2> QED
      BY <2>1, <2>3 DEF CompleteInv
<1> QED
  <2>1. CASE all_interfaces
      BY <1>2, <2>1
  <2>2. CASE ~all_interfaces
      BY <1>0, <1>1, <1>3, <1>4, <1>5, <1>6, <2>2, LoopCases
  <2> QED
      BY <2>1, <2>2

LEMMA AllInterfacesInvariant ==
    ASSUME ~Async, "oversize" \notin Faults
    PROVE  Spec => [](Base /\ AnswerInv /\ LoopInv /\ CompleteInv)
<1>1. Init => AnswerInv /\ LoopInv /\ CompleteInv
  <2>1. Init => /\ pc = "idle" /\ op = "none" /\ res.op = "none" /\ stable = {}
                /\ listed = <<>> /\ at = 0 /\ acc = <<>>
      BY DEF Init, TransportInit, NoRes
  <2> QED
      BY <2>1 DEF AnswerInv, LoopInv, CompleteInv
<1>2. /\ Base /\ Base' /\ AnswerInv /\ LoopInv /\ CompleteInv /\ [Next]_vars
      => (AnswerInv /\ LoopInv /\ CompleteInv)'
    BY AnswerStep, LoopStep, CompleteStep
<1> QED
    BY <1>1, <1>2, BaseInvariant, PTL DEF Spec

\* What all_interfaces has collected are names it has asked for, in the order of
\* the list and none of them twice, whatever comes and goes between its requests.
THEOREM CollectsInOrder ==
    ASSUME ~Async, "oversize" \notin Faults
    PROVE  Spec => []AllInterfacesInOrder
<1>1. Base /\ LoopInv => AllInterfacesInOrder
  <2> SUFFICES ASSUME Base, LoopInv, op = "all_interfaces"
               PROVE  \E ask \in [DOMAIN acc -> 1..at] :
                          /\ \A k \in DOMAIN acc : acc[k] = listed[ask[k]]
                          /\ \A j, k \in DOMAIN acc : j < k => ask[j] < ask[k]
      BY DEF AllInterfacesInOrder
  <2>1. acc \in Seq(Iface) /\ at \in Nat
      BY CalmParts DEF Base, TypeOK, SessionTypeOK
  <2>2. DOMAIN acc = 1..Len(acc) /\ Fetched \subseteq 1..at
      BY <2>1 DEF Fetched
  <2>3. PICK ask \in [1..Len(acc) -> Nat] : DrawnBy(ask, acc, listed, Fetched)
      BY DEF LoopInv, Drawn
  <2>4. ask \in [DOMAIN acc -> 1..at]
      BY <2>2, <2>3 DEF DrawnBy
  <2> QED
      BY <2>2, <2>3, <2>4 DEF DrawnBy
<1> QED
    BY <1>1, AllInterfacesInvariant, PTL

\* Each interface that all_interfaces adds is the one of the request whose reply
\* has just come, whatever it has had to skip before.
THEOREM AddsWhatWasAsked ==
    ASSUME ~Async, "oversize" \notin Faults
    PROVE  Spec => FetchedIsAsked
<1>1. Base /\ AnswerInv /\ LoopInv /\ [Next]_vars =>
          [op = "all_interfaces" /\ op' = op /\ acc' # acc => acc' = Append(acc, listed[at])]_vars
  <2> SUFFICES ASSUME Base, AnswerInv, LoopInv, [Next]_vars,
                      op = "all_interfaces", op' = op, acc' # acc
               PROVE  acc' = Append(acc, listed[at])
      OBVIOUS
  <2>1. TypeOK /\ Control /\ acc \in Seq(Iface)
      BY CalmParts DEF Base, TypeOK, SessionTypeOK
  <2>2. AllFetched
      BY <2>1, LoopCases DEF Elsewhere, all_interfaces, Begin, AllListed, AllFetch, AllDone, Finish
  <2>3. Decoded(ret) = "Ok"
      BY <2>2 DEF AllFetched, Finish
  <2> QED
      BY <2>1, <2>2, <2>3, FetchedOne
<1> QED
    BY <1>1, AllInterfacesInvariant, PTL DEF Spec, FetchedIsAsked

\* all_interfaces returns every interface with a UTF-8 name that lldpd knew
\* from the call to the return, whatever other names there are.
THEOREM Utf8NamesReturned ==
    ASSUME ~Async, "oversize" \notin Faults
    PROVE  Spec => [](res.op = "all_interfaces" /\ res.kind = "Ok" =>
                        \A i \in stable \ NonUtf8 : \E k \in 1..Len(res.val) : res.val[k] = i)
<1>1. CompleteInv => (res.op = "all_interfaces" /\ res.kind = "Ok" =>
          \A i \in stable \ NonUtf8 : \E k \in 1..Len(res.val) : res.val[k] = i)
    BY DEF CompleteInv, Holds
<1> QED
    BY <1>1, AllInterfacesInvariant, PTL

\* all_interfaces skips what has disappeared and nothing else, where every
\* interface name is UTF-8.
THEOREM SkipsOnlyDisappeared ==
    ASSUME ~Async, "oversize" \notin Faults, NonUtf8 = {}
    PROVE  Spec => []AllInterfacesComplete
<1>1. Base /\ CompleteInv => AllInterfacesComplete
  <2> SUFFICES ASSUME Base, CompleteInv, res.op = "all_interfaces", res.kind = "Ok", NEW i \in stable
               PROVE  \E k \in DOMAIN res.val : res.val[k] = Lossy(i)
      BY DEF AllInterfacesComplete
  <2>1. res.val \in Seq(Iface)
      BY CalmParts DEF Base, TypeOK, SessionTypeOK, ResType
  <2>2. Lossy(i) = i /\ DOMAIN res.val = 1..Len(res.val)
      BY <2>1 DEF Lossy
  <2> QED
      BY <2>2 DEF CompleteInv, Holds
<1> QED
    BY <1>1, AllInterfacesInvariant, PTL

=============================================================================
