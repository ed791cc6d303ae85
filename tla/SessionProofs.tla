---------------------------- MODULE SessionProofs ----------------------------
(***************************************************************************)
(* Session keeps its types, and SessionInv is inductive.  Control is       *)
(* preserved by every step; Sound by every step that leaves the streams    *)
(* unskewed, one lemma per kind of step, one step of the proof per         *)
(* conjunct.                                                               *)
(***************************************************************************)
EXTENDS StreamLemmas

-----------------------------------------------------------------------------
(* Type correctness: the buffers hold cells of well-formed frames, every    *)
(* counter is a natural number, and what a method hands to its caller has   *)
(* been through a decoder that accepted it.                                 *)

LEMMA ConstantTypes ==
    /\ NoCall \in CallType /\ NoFrame \in FrameType
    /\ NoRet \in [kind : RetKind, num : Nat, body : BodyType]
    /\ \A ty, arg : RequestLen(ty, arg) \in Nat
    /\ GarbageHeader \subseteq FrameType
    /\ NoRes \in ResType
<1>5. NoRes \in ResType
    BY EmptyIsSeq DEF NoRes, ResType, OpName, RetKind
<1>1. NoCall \in CallType /\ NoFrame \in FrameType
      /\ NoRet \in [kind : RetKind, num : Nat, body : BodyType]
    BY DEF NoCall, NoFrame, NoRet, NoArg, CallType, FrameType, RetKind, BodyType, HmsgType,
           RequestType
<1>2. \A ty, arg : RequestLen(ty, arg) \in Nat
    BY TransportAssumption DEF RequestLen
<1>3. ASSUME NEW t \in HmsgType PROVE GarbageBody(t) \subseteq BodyType
  <2>1. \A i \in Iface : <<i>> \in Seq(Iface)
      OBVIOUS
  <2>2. <<>> \in Seq(Iface)
      OBVIOUS
  <2> QED
      BY <2>1, <2>2 DEF GarbageBody, BodyType
<1>4. GarbageHeader \subseteq FrameType
    BY <1>3, TransportAssumption DEF GarbageHeader, FrameType
<1> QED
    BY <1>1, <1>2, <1>4, <1>5

\* What lldpd pushes is a frame, faulty or not.
LEMMA PushedTypes ==
    ASSUME NEW f \in FrameType
    PROVE  Faulty(f) \subseteq FrameType
<1> SUFFICES ASSUME NEW g \in Faulty(f) PROVE g \in FrameType
    OBVIOUS
<1>1. f.ty \in HmsgType /\ f.len \in Nat /\ f.num \in Nat /\ f.body \in BodyType
    BY DEF FrameType
<1>2. HMSG_MAX_SIZE + 1 \in Nat /\ Bad \in BodyType /\ "Other" \in HmsgType
    BY TransportAssumption DEF BodyType, HmsgType
<1> QED
    BY <1>1, <1>2 DEF Faulty, FrameType

LEMMA TypeInit == Init => TypeOK
<1> SUFFICES ASSUME Init PROVE TypeOK
    OBVIOUS
<1>1. TransportTypeOK
    BY ConstantTypes, EmptyIsSeq DEF Init, TransportInit, TransportTypeOK
<1>2. LldpdTypeOK
    BY LldpdAssumption DEF Init, LldpdInit, LldpdTypeOK
<1>b. ended \in BOOLEAN
    BY Zenon DEF Init
<1>3. SessionTypeOK
    BY <1>b, ConstantTypes, EmptyIsSeq DEF Init, SessionTypeOK, OpName
<1> QED
    BY <1>1, <1>2, <1>3 DEF TypeOK

\* request() and recv_notification() start from a well-typed call.
LEMMA RequestTypes ==
    ASSUME TypeOK, NEW ty \in RequestType, NEW arg \in Seq(Iface \cup Descr),
           request(ty, arg)
    PROVE  TransportTypeOK'
BY ConstantTypes, SMTT(40) DEF TypeOK, TransportTypeOK, request, CallType, HmsgType

LEMMA TransportTypes ==
    ASSUME TypeOK, TransportStep \/ Release \/ recv_notification
    PROVE  TransportTypeOK'
<1> USE DEF TypeOK
<1>a. HeaderCells \in Nat \ {0} /\ HMSG_MAX_SIZE \in Nat \ {0}
    BY TransportAssumption
<1>1. CASE WriteAll
  <2>1. Frame(cur) \in Seq(Cells(CallType))
      BY FrameProperties DEF TransportTypeOK, CallType
  <2>2. c2d' \in Seq(Cells(CallType))
      BY <1>1, <2>1, ConcatCells DEF TransportTypeOK, WriteAll, Cells
  <2> QED
      BY <1>1, <2>2 DEF TransportTypeOK, WriteAll, Cells, CallType
<1>2. CASE WriteFails
    BY <1>2 DEF TransportTypeOK, WriteFails, Return, RetKind, BodyType
<1>3. CASE ReadHeader
  <2>1. PICK h \in decode_header(d2c) :
          /\ d2c' = After(d2c, HeaderCells)
          /\ taken' = taken + 1
          /\ hdr' = h
          /\ IF h.len > HMSG_MAX_SIZE
             THEN Return("Protocol", h.num, Bad) /\ skewed' = TRUE
             ELSE pc' = "payload" /\ UNCHANGED <<ret, skewed>>
      BY <1>3 DEF ReadHeader
  <2>4. /\ d2c \in Seq(Cells(FrameType))
        /\ HeaderCells \in 0..Len(d2c) /\ 1 \in 1..Len(d2c)
      BY <1>3, <1>a DEF ReadHeader, TransportTypeOK
  <2>2. d2c[1].frame \in FrameType
      BY <2>4, CellProperties
  <2>3. h \in FrameType
      BY <2>1, <2>2, ConstantTypes DEF decode_header
  <2>5. d2c' \in Seq(Cells(FrameType))
      BY <2>1, <2>4, AfterProperties
  <2>6. h.num \in Nat /\ Bad \in BodyType /\ "Protocol" \in RetKind
      BY <2>3 DEF FrameType, BodyType, RetKind
  <2>7. skewed' \in BOOLEAN
      BY <2>1, Zenon DEF TransportTypeOK
  <2> QED
      BY <1>3, <2>1, <2>3, <2>5, <2>6, <2>7 DEF ReadHeader, TransportTypeOK, Return
<1>4. CASE ReadPayload
  <2>1. d2c \in Seq(Cells(FrameType)) /\ hdr.len \in 0..Len(d2c)
      BY <1>4 DEF ReadPayload, TransportTypeOK, FrameType
  <2>2. d2c' \in Seq(Cells(FrameType))
      BY <1>4, <2>1, AfterProperties DEF ReadPayload
  <2> QED
      BY <1>4, <2>2 DEF ReadPayload, TransportTypeOK, Return, RetKind, BodyType, FrameType
<1>5. CASE ReadEof
    BY <1>5, EmptyIsSeq DEF ReadEof, TransportTypeOK, Return, RetKind, BodyType
<1>6. CASE Release
    BY <1>6, ConstantTypes DEF Release, Forget, TransportTypeOK
<1>7. CASE recv_notification
    BY <1>7, ConstantTypes DEF recv_notification, TransportTypeOK, NoCall, CallType, HmsgType
<1> QED
    BY <1>1, <1>2, <1>3, <1>4, <1>5, <1>6, <1>7 DEF TransportStep

LEMMA DropFutureTypes ==
    ASSUME TypeOK, DropFuture
    PROVE  TransportTypeOK'
<1> USE DEF TypeOK
<1>a. HeaderCells \in Nat \ {0} /\ HMSG_MAX_SIZE \in Nat \ {0}
    BY TransportAssumption
<1>1. CASE pc = "write"
  <2>1. PICK n \in 0..(FrameCells(cur) - 1) :
          /\ c2d' = c2d \o SubSeq(Frame(cur), 1, n)
          /\ sent' = IF n = 0 THEN sent ELSE cur.num
          /\ skewed' = (skewed \/ n > 0)
      BY <1>1 DEF DropFuture
  <2>2. Frame(cur) \in Seq(Cells(CallType)) /\ Len(Frame(cur)) = FrameCells(cur)
      BY FrameProperties DEF TransportTypeOK, CallType
  <2>3. FrameCells(cur) \in Nat
      BY FrameCellsType DEF TransportTypeOK, CallType
  <2>4. SubSeq(Frame(cur), 1, n) \in Seq(Cells(CallType))
      BY <2>2, <2>3, PrefixProperties
  <2>5. c2d' \in Seq(Cells(CallType))
      BY <2>1, <2>4, ConcatCells DEF TransportTypeOK, Cells
  <2> QED
      BY <1>1, <2>1, <2>3, <2>5, ConstantTypes
      DEF DropFuture, Forget, TransportTypeOK, Cells, CallType
<1>2. CASE pc \in {"header", "payload"}
  <2>1. \E n \in 0..Len(d2c) : d2c' = After(d2c, n)
      BY <1>2, <1>a DEF DropFuture, TransportTypeOK
  <2>2. d2c' \in Seq(Cells(FrameType))
      BY <2>1, AfterProperties DEF TransportTypeOK
  <2>3. skewed' \in BOOLEAN
      BY <1>2, Zenon DEF DropFuture, TransportTypeOK
  <2>4. orphans' \in Nat
      BY <1>2 DEF DropFuture, TransportTypeOK
  <2> QED
      BY <1>2, <2>2, <2>3, <2>4, ConstantTypes DEF DropFuture, Forget, TransportTypeOK
<1> QED
    BY <1>1, <1>2 DEF DropFuture

\* lldpd's side: it takes whole frames and pushes whole frames.
LEMMA PushTypes ==
    ASSUME TypeOK, NEW f \in FrameType, Push(f)
    PROVE  d2c' \in Seq(Cells(FrameType)) /\ pushed' \in Nat
<1>1. Frame(f) \in Seq(Cells(FrameType))
    BY FrameProperties DEF FrameType
<1> QED
    BY <1>1, ConcatCells DEF Push, TypeOK, TransportTypeOK, LldpdTypeOK

LEMMA TakeRequestTypes ==
    ASSUME TypeOK, c2d # <<>>, Len(c2d) >= FrameCells(c2d[1].frame), TakeRequest
    PROVE  /\ c2d[1].frame \in CallType
           /\ c2d' \in Seq(Cells(CallType))
<1>1. c2d \in Seq(Cells(CallType)) /\ 1 \in 1..Len(c2d)
    BY DEF TypeOK, TransportTypeOK
<1>2. c2d[1].frame \in CallType
    BY <1>1, CellProperties
<1>3. FrameCells(c2d[1].frame) \in 0..Len(c2d)
    BY <1>1, <1>2, FrameCellsType DEF CallType
<1> QED
    BY <1>1, <1>2, <1>3, AfterProperties DEF TakeRequest

LEMMA ReplyTypes ==
    ASSUME TypeOK, NEW q \in CallType, CanHonour(q)
    PROVE  Reply(q) \in FrameType
<1>1. q.ty = "GetInterface" => q.arg[1] \in Iface
    BY DEF CanHonour, Known, TypeOK, LldpdTypeOK
<1>2. q.ty = "GetInterface" => <<q.arg[1]>> \in Seq(Iface)
    BY <1>1
<1>3. HMSG_MAX_SIZE \in Nat
    BY TransportAssumption
<1> QED
    BY <1>2, <1>3, EmptyIsSeq DEF Reply, TypeOK, LldpdTypeOK, FrameType, CallType, BodyType

LEMMA RejectionTypes ==
    ASSUME NEW n \in Nat, NEW f \in Rejections(n)
    PROVE  f \in FrameType /\ f.num = n /\ f.ty = "None" /\ f.len <= HMSG_MAX_SIZE
<1>1. f.ty = "None" /\ f.len \in {0, 1} /\ f.num = n /\ f.body = <<>>
    BY DEF Rejections
<1>2. f = [ty |-> "None", len |-> f.len, num |-> n, body |-> <<>>]
    BY <1>1 DEF Rejections
<1>3. <<>> \in BodyType /\ "None" \in HmsgType
    BY EmptyIsSeq DEF BodyType, HmsgType
<1> QED
    BY <1>1, <1>2, <1>3, TransportAssumption DEF FrameType

LEMMA ServeTypes ==
    ASSUME TypeOK, Serve
    PROVE  TransportTypeOK' /\ LldpdTypeOK'
<1>1. c2d # <<>> /\ Len(c2d) >= FrameCells(c2d[1].frame) /\ TakeRequest
    BY DEF Serve, Honour, Refuse, RefuseGarbled, WholeRequest
<1> DEFINE q == c2d[1].frame
<1>2. q \in CallType /\ c2d' \in Seq(Cells(CallType))
    BY <1>1, TakeRequestTypes
<1>3. \A n \in Nat : Rejections(n) \subseteq FrameType
    BY RejectionTypes
<1>4. d2c' \in Seq(Cells(FrameType)) /\ pushed' \in Nat
  <2>1. CASE Honour
    <3>1. CanHonour(q) /\ \E f \in Faulty(Reply(q)) : Push(f)
        BY <2>1 DEF Honour
    <3> QED
        BY <3>1, <1>2, ReplyTypes, PushedTypes, PushTypes
  <2>2. CASE Refuse \/ RefuseGarbled
    <3>1. (\E f \in Rejections(q.num) : Push(f)) \/ (\E f \in Rejections(0) : Push(f))
        BY <2>2 DEF Refuse, RefuseGarbled
    <3>2. q.num \in Nat
        BY <1>2 DEF CallType
    <3> QED
        BY <3>1, <3>2, <1>3, PushTypes
  <2> QED
      BY <2>1, <2>2 DEF Serve
<1>5. TransportTypeOK'
    BY <1>2, <1>4 DEF TypeOK, TransportTypeOK, Serve, Honour, Refuse, RefuseGarbled
<1>6. dsub' \in BOOLEAN
    BY Zenon DEF TypeOK, LldpdTypeOK, Serve, Honour, Refuse, RefuseGarbled
<1>7. applied' \in SUBSET Nat
    BY <1>2 DEF TypeOK, LldpdTypeOK, Serve, Honour, Refuse, RefuseGarbled, CallType
<1> QED
    BY <1>4, <1>5, <1>6, <1>7 DEF TypeOK, LldpdTypeOK, Serve, Honour, Refuse, RefuseGarbled

LEMMA DaemonTypes ==
    ASSUME TypeOK, Notify \/ Hangup \/ \E i \in Iface : IfUp(i) \/ IfDown(i)
    PROVE  TransportTypeOK' /\ LldpdTypeOK'
<1> USE DEF TypeOK
<1>1. CASE Notify
  <2>1. Notification(pushed + 1) \in FrameType
      BY EmptyIsSeq DEF Notification, FrameType, HmsgType, BodyType, LldpdTypeOK
  <2>2. d2c' \in Seq(Cells(FrameType)) /\ pushed' \in Nat
      BY <1>1, <2>1, PushedTypes, PushTypes DEF Notify
  <2> QED
      BY <1>1, <2>2 DEF Notify, TransportTypeOK, LldpdTypeOK
<1>2. CASE Hangup
  <2>1. d2c' \in Seq(Cells(FrameType))
      BY <1>2, PrefixProperties DEF Hangup, TransportTypeOK
  <2>2. hup' \in BOOLEAN /\ reset' \in BOOLEAN
      BY <1>2, Zenon DEF Hangup
  <2> QED
      BY <1>2, <2>1, <2>2, EmptyIsSeq DEF Hangup, TransportTypeOK, LldpdTypeOK, lldpdVars
<1>3. ASSUME NEW i \in Iface, IfUp(i) PROVE TransportTypeOK' /\ LldpdTypeOK'
    BY <1>3 DEF IfUp, TransportTypeOK, LldpdTypeOK, transportVars
<1>4. ASSUME NEW i \in Iface, IfDown(i) PROVE TransportTypeOK' /\ LldpdTypeOK'
  <2>1. PICK k \in DOMAIN ifs :
            ifs' = SubSeq(ifs, 1, k - 1) \o SubSeq(ifs, k + 1, Len(ifs))
      BY <1>4 DEF IfDown
  <2>2. ifs \in Seq(Iface) /\ k \in 1..Len(ifs)
      BY DEF LldpdTypeOK
  <2>3. SubSeq(ifs, 1, k - 1) \in Seq(Iface) /\ SubSeq(ifs, k + 1, Len(ifs)) \in Seq(Iface)
      BY <2>2
  <2>4. ifs' \in Seq(Iface)
      BY <2>1, <2>3
  <2>5. TransportTypeOK'
      BY <1>4 DEF IfDown, TransportTypeOK, transportVars
  <2>6. LldpdTypeOK'
      BY <1>4, <2>4, SMTT(40) DEF IfDown, LldpdTypeOK
  <2> QED
      BY <2>5, <2>6
<1> QED
    BY <1>1, <1>2, <1>3, <1>4

\* What a method reports has a type of its own.
LEMMA OutcomeTypes ==
    ASSUME TypeOK
    PROVE  /\ Decoded(ret) \in RetKind /\ ret.kind \in RetKind /\ ret.num \in Nat
           /\ Decoded(ret) = "Ok" => ret.body \in Seq(Iface)
<1>1. ret.kind \in RetKind /\ ret.num \in Nat /\ ret.body \in BodyType
    BY DEF TypeOK, TransportTypeOK
<1> QED
    BY <1>1 DEF Decoded, RetKind, BodyType

LEMMA FinishTypes ==
    ASSUME TypeOK, NEW kind \in RetKind \cup {"None"}, NEW val \in Seq(Iface),
           Finish(kind, val)
    PROVE  op' \in OpName /\ res' \in ResType
BY DEF Finish, OpName, ResType, TypeOK, SessionTypeOK

LEMMA CallerTypes ==
    ASSUME TypeOK, Caller
    PROVE  TypeOK'
<1> USE DEF TypeOK
<1>1. CASE connect_to \/ connect_to_fails \/ Drop
  <2>1. \A k \in {"Ok", "Io"} : [op |-> "connect_to", kind |-> k, val |-> <<>>] \in ResType
      BY EmptyIsSeq DEF ResType, RetKind
  <2>2. res' \in ResType
      BY <1>1, <2>1 DEF connect_to, connect_to_fails, Drop, SessionTypeOK
  <2>3. TransportTypeOK' /\ LldpdTypeOK'
      BY <1>1 DEF connect_to, connect_to_fails, Drop, TransportTypeOK, LldpdTypeOK,
                  transportVars, lldpdVars
  <2>4. SessionTypeOK'
      BY <1>1, <2>2 DEF connect_to, connect_to_fails, Drop, SessionTypeOK
  <2> QED
      BY <2>3, <2>4
<1>2. ASSUME NEW o \in OpName, Begin(o), UNCHANGED <<listed, at, acc>>,
             stable' = stable \/ stable' = Known
      PROVE  LldpdTypeOK' /\ SessionTypeOK'
  <2>1. Known \subseteq Iface
      BY DEF Known, LldpdTypeOK
  <2> QED
      BY <1>2, <2>1, ConstantTypes DEF Begin, LldpdTypeOK, SessionTypeOK, lldpdVars
<1>3. CASE interfaces \/ all_interfaces \/ subscribe
  <2>1. TransportTypeOK'
      BY <1>3, RequestTypes, EmptyIsSeq
      DEF interfaces, all_interfaces, subscribe, RequestType
  <2> QED
      BY <1>3, <1>2, <2>1 DEF interfaces, all_interfaces, subscribe, OpName
<1>4. CASE next
  <2>1. TransportTypeOK'
      BY <1>4, TransportTypes DEF next
  <2> QED
      BY <1>4, <2>1, ConstantTypes DEF next, LldpdTypeOK, SessionTypeOK, lldpdVars, OpName
<1>5. ASSUME NEW i \in Iface, interface(i) PROVE TypeOK'
  <2>1. <<i>> \in Seq(Iface \cup Descr)
      OBVIOUS
  <2>2. TransportTypeOK'
      BY <1>5, <2>1, RequestTypes DEF interface, RequestType
  <2> QED
      BY <1>5, <1>2, <2>2 DEF interface, OpName
<1>6. ASSUME NEW i \in Iface, NEW d \in Descr, set_port_description(i, d) PROVE TypeOK'
  <2>1. <<i, d>> \in Seq(Iface \cup Descr)
      OBVIOUS
  <2>2. TransportTypeOK'
      BY <1>6, <2>1, RequestTypes DEF set_port_description, RequestType
  <2> QED
      BY <1>6, <1>2, <2>2 DEF set_port_description, OpName
<1>7. CASE Cancel
  <2>1. TransportTypeOK'
      BY <1>7, DropFutureTypes DEF Cancel
  <2> QED
      BY <1>7, <2>1, EmptyIsSeq
      DEF Cancel, ForgetAll, LldpdTypeOK, SessionTypeOK, lldpdVars, OpName
<1> QED
    BY <1>1, <1>3, <1>4, <1>5, <1>6, <1>7 DEF Caller

\* A list of names stays one when it is made of Strings.
LEMMA NamesTypes ==
    ASSUME NEW body \in Seq(Iface)
    PROVE  Names(body) \in Seq(Iface)
<1>1. \A k \in 1..Len(body) : Lossy(body[k]) \in Iface
    BY SessionAssumption DEF Lossy
<1> QED
    BY <1>1 DEF Names

LEMMA MethodTypes ==
    ASSUME TypeOK, Method
    PROVE  TypeOK'
<1> USE DEF TypeOK
<1>1. CASE TransportStep /\ UNCHANGED <<lldpdVars, sessionVars>>
  <2>1. TransportTypeOK'
      BY <1>1, TransportTypes
  <2> QED
      BY <1>1, <2>1 DEF LldpdTypeOK, SessionTypeOK, lldpdVars, sessionVars
<1>2. CASE EndInterfaces
  <2>1. TransportTypeOK'
      BY <1>2, TransportTypes DEF EndInterfaces
  <2>2. op' \in OpName /\ res' \in ResType
      BY <1>2, FinishTypes, OutcomeTypes, NamesTypes, EmptyIsSeq DEF EndInterfaces
  <2> QED
      BY <1>2, <2>1, <2>2 DEF EndInterfaces, LldpdTypeOK, SessionTypeOK, lldpdVars
<1>3. CASE EndSetPort \/ EndSubscribe
  <2>1. TransportTypeOK'
      BY <1>3, TransportTypes DEF EndSetPort, EndSubscribe
  <2>2. op' \in OpName /\ res' \in ResType
      BY <1>3, FinishTypes, OutcomeTypes, EmptyIsSeq DEF EndSetPort, EndSubscribe
  <2> QED
      BY <1>3, <2>1, <2>2, OutcomeTypes
      DEF EndSetPort, EndSubscribe, LldpdTypeOK, SessionTypeOK, lldpdVars
<1>4. CASE EndNext
  <2>1. TransportTypeOK'
      BY <1>4, TransportTypes DEF EndNext
  <2>2. op' \in OpName /\ res' \in ResType
      BY <1>4, FinishTypes, OutcomeTypes, EmptyIsSeq DEF EndNext
  <2>3. [note |-> ret.num, kind |-> Decoded(ret)] \in ItemType
      BY OutcomeTypes DEF ItemType
  <2>4. seen' \in Seq(ItemType)
      BY <1>4, <2>3, SMTT(40) DEF EndNext, SessionTypeOK
  <2>5. ended' \in BOOLEAN
      BY <1>4, Zenon DEF EndNext, SessionTypeOK
  <2> QED
      BY <1>4, <2>1, <2>2, <2>4, <2>5 DEF EndNext, LldpdTypeOK, SessionTypeOK, lldpdVars
<1>5. CASE AllListed
  <2>1. TransportTypeOK'
      BY <1>5, TransportTypes DEF AllListed
  <2>2. op' \in OpName /\ res' \in ResType
      BY <1>5, FinishTypes, OutcomeTypes, EmptyIsSeq DEF AllListed, SessionTypeOK
  <2>5. listed' \in Seq(Iface) /\ acc' \in Seq(Iface)
      BY <1>5, OutcomeTypes, NamesTypes, EmptyIsSeq, Zenon DEF AllListed, ForgetAll, SessionTypeOK
  <2>3. at' \in Nat
      BY <1>5 DEF AllListed, ForgetAll, SessionTypeOK
  <2> QED
      BY <1>5, <2>1, <2>2, <2>3, <2>5 DEF AllListed, LldpdTypeOK, SessionTypeOK, lldpdVars
<1>6. CASE AllFetch
  <2>1. <<listed[at + 1]>> \in Seq(Iface \cup Descr)
      BY <1>6 DEF AllFetch, SessionTypeOK
  <2>2. TransportTypeOK'
      BY <1>6, <2>1, RequestTypes DEF AllFetch, RequestType
  <2> QED
      BY <1>6, <2>2 DEF AllFetch, LldpdTypeOK, SessionTypeOK, lldpdVars
<1>7. CASE AllFetched
  <2>1. TransportTypeOK'
      BY <1>7, TransportTypes DEF AllFetched
  <2>2. op' \in OpName /\ res' \in ResType
      BY <1>7, FinishTypes, OutcomeTypes, EmptyIsSeq DEF AllFetched, SessionTypeOK
  <2>4. Decoded(ret) = "Ok" => acc \o Names(ret.body) \in Seq(Iface)
      BY OutcomeTypes, NamesTypes, ConcatCells DEF SessionTypeOK
  <2>5. listed' \in Seq(Iface) /\ acc' \in Seq(Iface)
      BY <1>7, <2>4, EmptyIsSeq, Zenon DEF AllFetched, ForgetAll, SessionTypeOK
  <2>3. at' \in Nat
      BY <1>7 DEF AllFetched, ForgetAll, SessionTypeOK
  <2> QED
      BY <1>7, <2>1, <2>2, <2>3, <2>5 DEF AllFetched, LldpdTypeOK, SessionTypeOK, lldpdVars
<1>8. CASE AllDone
  <2>1. op' \in OpName /\ res' \in ResType
      BY <1>8, FinishTypes DEF AllDone, SessionTypeOK, RetKind
  <2> QED
      BY <1>8, <2>1, EmptyIsSeq DEF AllDone, ForgetAll, TransportTypeOK, LldpdTypeOK,
                        SessionTypeOK, transportVars, lldpdVars
<1> QED
    BY <1>1, <1>2, <1>3, <1>4, <1>5, <1>6, <1>7, <1>8 DEF Method

LEMMA TypeStep == TypeOK /\ [Next]_vars => TypeOK'
<1> SUFFICES ASSUME TypeOK, [Next]_vars PROVE TypeOK'
    OBVIOUS
<1>1. CASE Caller
    BY <1>1, CallerTypes
<1>2. CASE Method
    BY <1>2, MethodTypes
<1>3. CASE Daemon
  <2>1. TransportTypeOK' /\ LldpdTypeOK'
      BY <1>3, ServeTypes, DaemonTypes DEF Daemon
  <2>2. SessionTypeOK'
      BY <1>3 DEF Daemon, TypeOK, SessionTypeOK, sessionVars
  <2> QED
      BY <2>1, <2>2 DEF TypeOK
<1>4. CASE UNCHANGED vars
    BY <1>4 DEF vars, TypeOK, TransportTypeOK, LldpdTypeOK, SessionTypeOK,
                transportVars, lldpdVars, sessionVars
<1> QED
    BY <1>1, <1>2, <1>3, <1>4 DEF Next

\* In every behaviour of Client, Subscription and their async twins, with any
\* number of calls, cells, interfaces and notifications and whatever lldpd
\* sends, the state is well typed; in particular the lists that the methods
\* return hold interface names only (never an undecoded payload).
THEOREM TypeCorrect == Spec => []TypeOK
BY TypeInit, TypeStep, PTL DEF Spec

-----------------------------------------------------------------------------
\* Both types of frames carry a length and a number.
LEMMA FramingTypes == Framing(CallType) /\ Framing(FrameType)
BY DEF Framing, CallType, FrameType

\* A torn stream is never mended.
LEMMA SkewedStays ==
    ASSUME TypeOK, [Next]_vars, skewed
    PROVE  skewed'
BY Zenon DEF Next, Caller, Method, Daemon, connect_to, connect_to_fails, Drop, interfaces,
    all_interfaces, subscribe, next, interface, set_port_description, Cancel, request,
    recv_notification, DropFuture, TransportStep, WriteAll, WriteFails, ReadHeader,
    ReadPayload, ReadEof, EndInterfaces, EndSetPort, EndSubscribe, EndNext, AllListed,
    AllFetch, AllFetched, AllDone, Release, Serve, Honour, Refuse, RefuseGarbled, Notify,
    Hangup, IfUp, IfDown, vars, transportVars

LEMMA InvInit == Init => SessionInv
<1> SUFFICES ASSUME Init PROVE SessionInv
    OBVIOUS
<1>1. TypeOK
    BY TypeInit
<1>2. Control
    BY DEF Init, TransportInit, LldpdInit, Control
<1>3. Intact(<<>>) /\ \A n : StartsAt(<<>>, n) /\ EndsAt(<<>>, n)
    BY DEF Intact, StartsAt, EndsAt
<1>4. ReplyStream /\ RequestStream
    BY <1>3 DEF Init, TransportInit, LldpdInit, ReplyStream, RequestStream
<1>5. InStep /\ SubscribeIsLast /\ ItemsInOrder /\ ReplyLag
    BY DEF Init, TransportInit, LldpdInit, InStep, SubscribeIsLast, ItemsInOrder, ReplyLag,
           Answered
<1> QED
    BY <1>1, <1>2, <1>4, <1>5 DEF SessionInv, Sound

-----------------------------------------------------------------------------
(* Control                                                                  *)

LEMMA ControlCaller ==
    ASSUME TypeOK, Control, Caller
    PROVE  Control'
<1> USE DEF Control, TypeOK, SessionTypeOK
<1>1. CASE connect_to \/ connect_to_fails \/ Drop
    BY <1>1 DEF connect_to, connect_to_fails, Drop, transportVars, lldpdVars
<1>2. ASSUME NEW o \in OpName \ {"none", "next"}, NEW ty \in RequestType, NEW arg,
             Begin(o), request(ty, arg), o = "subscribe" <=> ty = "Subscribe"
      PROVE  Control'
    BY <1>2 DEF Begin, request, RequestType, lldpdVars
<1>3. CASE interfaces \/ all_interfaces \/ subscribe
    BY <1>2, <1>3 DEF interfaces, all_interfaces, subscribe, OpName, RequestType
<1>4. ASSUME NEW i \in Iface, NEW d \in Descr, interface(i) \/ set_port_description(i, d)
      PROVE  Control'
    BY <1>2, <1>4 DEF interface, set_port_description, OpName, RequestType
<1>a. ASSUME NEW i \in Iface, interface(i) PROVE Control'
    BY <1>2, <1>a DEF interface, OpName, RequestType
<1>5. CASE next
    BY <1>5 DEF next, recv_notification, lldpdVars, RequestType
<1>6. CASE Cancel
    BY <1>6 DEF Cancel, DropFuture, Forget, lldpdVars
<1> QED
    BY <1>1, <1>3, <1>4, <1>a, <1>5, <1>6 DEF Caller

LEMMA ControlMethod ==
    ASSUME TypeOK, Control, Method
    PROVE  Control'
<1> USE DEF Control, TypeOK, SessionTypeOK
<1>1. CASE TransportStep /\ UNCHANGED <<lldpdVars, sessionVars>>
    BY <1>1 DEF TransportStep, WriteAll, WriteFails, ReadHeader, ReadPayload, ReadEof, Return,
                lldpdVars, sessionVars
<1>2. CASE EndInterfaces \/ EndSetPort \/ EndSubscribe
    BY <1>2 DEF EndInterfaces, EndSetPort, EndSubscribe, Release, Forget, Finish, lldpdVars
<1>3. CASE EndNext
    BY <1>3 DEF EndNext, Release, Forget, Finish, lldpdVars
<1>4. CASE AllListed \/ AllFetched
    BY <1>4 DEF AllListed, AllFetched, Release, Forget, Finish, ForgetAll, lldpdVars
<1>5. CASE AllFetch
    BY <1>5 DEF AllFetch, request, lldpdVars, RequestType
<1>6. CASE AllDone
    BY <1>6 DEF AllDone, Finish, ForgetAll, transportVars, lldpdVars
<1> QED
    BY <1>1, <1>2, <1>3, <1>4, <1>5, <1>6 DEF Method

LEMMA ControlStep ==
    ASSUME TypeOK, Control, [Next]_vars
    PROVE  Control'
<1>1. CASE Daemon
  <2>1. CASE (Serve \/ Notify \/ Hangup) /\ UNCHANGED sessionVars
      BY <2>1 DEF Serve, Honour, Refuse, RefuseGarbled, WholeRequest, Notify, Hangup,
                  sessionVars, lldpdVars, Control
  <2>2. CASE \E i \in Iface : IfUp(i) /\ UNCHANGED sessionVars
      BY <2>2 DEF IfUp, sessionVars, transportVars, Control
  <2>3. CASE \E i \in Iface : /\ IfDown(i)
                              /\ UNCHANGED <<mode, op, listed, at, acc, res, seen, ended, base, calls>>
      BY <2>3 DEF IfDown, transportVars, Control
  <2> QED
      BY <1>1, <2>1, <2>2, <2>3 DEF Daemon
<1>2. CASE UNCHANGED vars
    BY <1>2 DEF vars, transportVars, lldpdVars, sessionVars, Control
<1> QED
    BY <1>1, <1>2, ControlCaller, ControlMethod DEF Next

-----------------------------------------------------------------------------
(* Sound: what a step needs to know of the state before it.                 *)

Parts ==
    /\ TypeOK /\ Control
    /\ ReplyStream /\ RequestStream
    /\ InStep /\ SubscribeIsLast /\ ItemsInOrder /\ ReplyLag

SoundParts ==
    /\ ReplyStream /\ RequestStream
    /\ InStep /\ SubscribeIsLast /\ ItemsInOrder /\ ReplyLag

\* The streams as the lemmas of StreamLemmas want them.
LEMMA StreamTypes ==
    ASSUME TypeOK
    PROVE  /\ c2d \in Seq(Cells(CallType)) /\ d2c \in Seq(Cells(FrameType))
           /\ Len(c2d) \in Nat /\ Len(d2c) \in Nat
           /\ sent \in Nat /\ taken \in Nat /\ orphans \in Nat /\ pushed \in Nat
           /\ hdr.len \in Nat /\ hdr.num \in Nat /\ cur.num \in Nat
BY DEF TypeOK, TransportTypeOK, LldpdTypeOK, CallType, FrameType

\* Steps that leave both streams alone and are not in read_message.
LEMMA QuietStreams ==
    ASSUME Parts, UNCHANGED <<c2d, d2c, hup, sent, taken, dsub, pushed>>,
           pc # "payload", pc' # "payload"
    PROVE  ReplyStream' /\ RequestStream'
<1>1. ReplyStream'
    BY DEF Parts, ReplyStream
<1>2. RequestStream'
    BY DEF Parts, RequestStream
<1> QED
    BY <1>1, <1>2

\* A Client method starts request().
LEMMA SoundRequest ==
    ASSUME Parts, NEW ty \in RequestType, NEW arg, request(ty, arg), UNCHANGED lldpdVars,
           pc = "idle", mode = "Client", mode' = "Client", op \in {"none", "all_interfaces"},
           UNCHANGED <<seen, base>>
    PROVE  SoundParts'
<1>1. ReplyStream' /\ RequestStream'
    BY QuietStreams DEF request, lldpdVars
<1>2. InStep'
    BY StreamTypes DEF Parts, InStep, request
<1>3. SubscribeIsLast'
    BY DEF Parts, SubscribeIsLast, Closing, request, lldpdVars
<1>4. ItemsInOrder' /\ ReplyLag'
    BY DEF ItemsInOrder, ReplyLag, Answered, request
<1> QED
    BY <1>1, <1>2, <1>3, <1>4 DEF SoundParts

\* next() starts recv_notification().
LEMMA SoundNext ==
    ASSUME Parts, next
    PROVE  SoundParts'
<1>0. pc = "idle" /\ pc' = "header"
    BY DEF Parts, Control, next, recv_notification
<1>1. ReplyStream' /\ RequestStream'
    BY <1>0, QuietStreams DEF next, recv_notification, lldpdVars
<1>2. InStep' /\ ReplyLag'
    BY <1>0 DEF Parts, InStep, ReplyLag, Answered, RequestType, next, recv_notification
<1>3. SubscribeIsLast'
    BY <1>0 DEF Parts, SubscribeIsLast, Closing, next, recv_notification, lldpdVars
<1>4. ItemsInOrder'
    BY <1>0 DEF Parts, ItemsInOrder, TookItem, next, recv_notification, lldpdVars
<1> QED
    BY <1>1, <1>2, <1>3, <1>4 DEF SoundParts

\* write_all of a whole request.
LEMMA SoundWriteAll ==
    ASSUME Parts, WriteAll, UNCHANGED <<lldpdVars, sessionVars>>
    PROVE  SoundParts'
<1>0. /\ TypeOK /\ pc = "write" /\ pc' = "header" /\ ~hup /\ mode = "Client"
      /\ ~Closing /\ ~dsub /\ cur.num = sent + 1 /\ sent' = sent + 1
      /\ UNCHANGED <<d2c, hup, cur, hdr, ret, taken, orphans, skewed, mode, op, seen, base,
                     dsub, pushed, reset>>
      /\ c2d' = c2d \o Frame(cur)
    BY DEF Parts, Control, InStep, SubscribeIsLast, Closing, WriteAll, lldpdVars, sessionVars
<1>a. /\ Framing(CallType) /\ c2d \in Seq(Cells(CallType)) /\ cur \in CallType
      /\ sent \in Nat /\ Len(c2d) \in Nat /\ taken \in Nat /\ orphans \in Nat
    BY <1>0, FramingTypes, StreamTypes DEF TypeOK, TransportTypeOK
<1>b. /\ Intact(c2d) /\ StartsAt(c2d, pushed + 1) /\ EndsAt(c2d, sent)
      /\ c2d = <<>> => pushed = sent
      /\ \A k \in 1..Len(c2d) : c2d[k].frame.num <= sent
    BY <1>0 DEF Parts, RequestStream
<1>c. Follows(cur, c2d)
    BY <1>0, <1>b DEF Follows, EndsAt
<1>d. /\ Intact(c2d') /\ EndsAt(c2d', cur.num) /\ c2d' # <<>>
      /\ c2d # <<>> => c2d'[1] = c2d[1]
      /\ c2d = <<>> => StartsAt(c2d', cur.num)
      /\ \A k \in 1..Len(c2d') :
            c2d'[k].frame = cur \/ (k \in 1..Len(c2d) /\ c2d'[k] = c2d[k])
  <2>1. Appended(c2d', c2d, cur)
      BY <1>0, <1>a, <1>b, <1>c, IntactAppend, Zenon
  <2> QED
      BY <2>1 DEF Appended
<1>1. ReplyStream'
    BY <1>0 DEF Parts, ReplyStream
<1>2. RequestStream'
  <2>1. StartsAt(c2d', pushed + 1)
    <3>1. CASE c2d = <<>>
        BY <1>0, <1>b, <1>d, <3>1
    <3>2. CASE c2d # <<>>
        BY <1>b, <1>d, <3>2 DEF StartsAt
    <3> QED
        BY <3>1, <3>2
  <2>2. ASSUME NEW k \in 1..Len(c2d') PROVE c2d'[k].frame.num <= sent'
    <3>1. CASE c2d'[k].frame = cur
        BY <1>0, <1>a, <3>1
    <3>2. CASE k \in 1..Len(c2d) /\ c2d'[k] = c2d[k]
      <4>1. c2d[k].frame.num \in Nat
          BY <1>a, <3>2, CellProperties DEF Framing
      <4> QED
          BY <1>0, <1>a, <1>b, <3>2, <4>1
    <3> QED
        BY <1>d, <3>1, <3>2
  <2> QED
      BY <1>0, <1>d, <2>1, <2>2 DEF RequestStream
<1>3. InStep'
    BY <1>0, <1>a DEF Parts, InStep
<1>4. SubscribeIsLast'
  <2>1. \A k \in 1..Len(c2d) : c2d[k].frame.ty # "Subscribe"
      BY <1>0 DEF Parts, SubscribeIsLast
  <2>2. ASSUME NEW k \in 1..Len(c2d'), c2d'[k].frame.ty = "Subscribe"
        PROVE  c2d'[k].frame.num = sent' /\ Closing'
    <3>1. c2d'[k].frame = cur /\ cur.ty = "Subscribe"
        BY <1>d, <2>1, <2>2
    <3> QED
        BY <1>0, <3>1 DEF Parts, Control, Closing
  <2>3. \A k \in 1..Len(d2c) : d2c[k].frame.ty # "Subscribe"
      BY <1>0 DEF Parts, SubscribeIsLast
  <2> QED
      BY <1>0, <2>2, <2>3 DEF Parts, SubscribeIsLast
<1>5. ItemsInOrder' /\ ReplyLag'
    BY <1>0 DEF ItemsInOrder, ReplyLag, Answered
<1> QED
    BY <1>1, <1>2, <1>3, <1>4, <1>5 DEF SoundParts

LEMMA SoundWriteFails ==
    ASSUME Parts, WriteFails, UNCHANGED <<lldpdVars, sessionVars>>
    PROVE  SoundParts'
<1>0. /\ pc = "write" /\ pc' = "done" /\ mode = "Client" /\ ret'.kind = "BrokenPipe"
      /\ UNCHANGED <<c2d, d2c, hup, cur, hdr, taken, orphans, skewed, mode, op, seen, base,
                     dsub, pushed, reset, sent>>
    BY DEF Parts, Control, WriteFails, Return, lldpdVars, sessionVars
<1>1. ReplyStream' /\ RequestStream'
    BY <1>0, QuietStreams
<1>2. InStep'
    BY <1>0 DEF Parts, InStep
<1>3. SubscribeIsLast'
    BY <1>0 DEF Parts, SubscribeIsLast, Closing
<1>4. ItemsInOrder' /\ ReplyLag'
    BY <1>0 DEF ItemsInOrder, ReplyLag, Answered
<1> QED
    BY <1>1, <1>2, <1>3, <1>4 DEF SoundParts

\* What is common to the steps of read_message.
LEMMA ReadFacts ==
    ASSUME Parts, UNCHANGED <<lldpdVars, sessionVars>>, UNCHANGED <<c2d, hup, cur, sent, orphans>>,
           \A k \in 1..Len(d2c') : \E j \in 1..Len(d2c) : d2c'[k] = d2c[j],
           pc \in {"header", "payload"}, pc' \in {"payload", "done"}, reset' => reset
    PROVE  /\ RequestStream'
           /\ Closing' = Closing
           /\ dsub => c2d = <<>> /\ Closing
           /\ reset' => hup /\ ~dsub
           /\ \A k \in 1..Len(c2d) :
                 c2d[k].frame.ty = "Subscribe" => c2d[k].frame.num = sent /\ Closing
           /\ \A k \in 1..Len(d2c') :
                 d2c'[k].frame.ty = "Subscribe" => d2c'[k].frame.num = sent /\ dsub
<1>1. RequestStream'
    BY DEF Parts, RequestStream, lldpdVars
<1>2. Closing' = Closing
    BY DEF Closing, sessionVars
<1> QED
    BY <1>1, <1>2 DEF Parts, SubscribeIsLast

\* read_exact(header): the next frame is taken, whatever it turns out to be.
LEMMA SoundReadHeader ==
    ASSUME Parts, ReadHeader, ~skewed', UNCHANGED <<lldpdVars, sessionVars>>
    PROVE  SoundParts'
<1> DEFINE f == d2c[1].frame
<1>a. /\ TypeOK /\ Framing(FrameType) /\ d2c \in Seq(Cells(FrameType))
      /\ Len(d2c) \in Nat /\ taken \in Nat /\ sent \in Nat /\ orphans \in Nat
    BY FramingTypes, StreamTypes DEF Parts
<1>b. pc = "header" /\ Len(d2c) >= HeaderCells /\ d2c # <<>> /\ 1 \in 1..Len(d2c)
    BY <1>a, TransportAssumption DEF ReadHeader
<1>c. /\ Intact(d2c) /\ d2c[1].pos = 1 /\ f.num = taken + 1
      /\ ~hup => EndsAt(d2c, pushed)
    BY <1>b DEF Parts, ReplyStream, StartsAt
<1>d. /\ d2c' = After(d2c, HeaderCells) /\ taken' = taken + 1 /\ hdr' = f /\ pc' = "payload"
      /\ UNCHANGED <<c2d, hup, reset, cur, sent, orphans, ret>>
    BY <1>c, Zenon DEF ReadHeader, decode_header
<1>e. f \in FrameType /\ f.len \in Nat
    BY <1>a, <1>b, CellProperties DEF Framing
<1>f. /\ HeaderCells \in 0..Len(d2c)
      /\ f.len = 0 => StartsAt(d2c', f.num + 1)
      /\ f.len > 0 /\ d2c' # <<>> => d2c'[1] = [frame |-> f, pos |-> HeaderCells + 1]
      /\ \A e : EndsAt(d2c, e) /\ d2c' = <<>> => f.len = 0 /\ f.num = e
    BY <1>a, <1>b, <1>c, <1>d, HeaderTaken
<1>g. Intact(d2c') /\ \A e : EndsAt(d2c, e) => EndsAt(d2c', e)
    BY <1>a, <1>c, <1>d, <1>f, IntactAfter
<1>h. \A k \in 1..Len(d2c') : \E j \in 1..Len(d2c) : d2c'[k] = d2c[j]
  <2>1. Len(d2c') = Len(d2c) - HeaderCells
        /\ \A k \in 1..(Len(d2c) - HeaderCells) : d2c'[k] = d2c[HeaderCells + k]
      BY <1>a, <1>d, <1>f, AfterProperties
  <2>2. ASSUME NEW k \in 1..Len(d2c') PROVE HeaderCells + k \in 1..Len(d2c)
      BY <1>a, <1>f, <2>1
  <2> QED
      BY <2>1, <2>2
<1>i. UNCHANGED <<mode, op, seen, base, dsub, pushed>>
    BY DEF lldpdVars, sessionVars
<1>1. ReplyStream'
    BY <1>a, <1>c, <1>d, <1>e, <1>f, <1>g, <1>i DEF ReplyStream
<1>2. /\ RequestStream'
      /\ Closing' = Closing
      /\ dsub => c2d = <<>> /\ Closing
      /\ reset' => hup /\ ~dsub
      /\ \A k \in 1..Len(c2d) :
            c2d[k].frame.ty = "Subscribe" => c2d[k].frame.num = sent /\ Closing
      /\ \A k \in 1..Len(d2c') :
            d2c'[k].frame.ty = "Subscribe" => d2c'[k].frame.num = sent /\ dsub
    BY <1>b, <1>d, <1>h, ReadFacts
<1>3. InStep'
    BY <1>a, <1>b, <1>d, <1>i DEF Parts, InStep
<1>4. SubscribeIsLast'
  <2>1. f.ty = "Subscribe" => f.num = sent /\ dsub
      BY <1>b DEF Parts, SubscribeIsLast
  <2> QED
      BY <1>2, <1>d, <1>i, <2>1 DEF SubscribeIsLast
<1>5. ItemsInOrder'
  <2>1. ~TookItem /\ TookItem'
      BY <1>b, <1>d DEF TookItem
  <2> QED
      BY <1>a, <1>b, <1>d, <1>i, <2>1 DEF Parts, ItemsInOrder, TypeOK, SessionTypeOK
<1>6. ReplyLag'
    BY <1>d DEF ReplyLag, Answered
<1> QED
    BY <1>1, <1>2, <1>3, <1>4, <1>5, <1>6 DEF SoundParts

\* read_exact(payload): the stream is between two frames again, and what
\* request() returns belongs to the frame numbered taken.
LEMMA SoundReadPayload ==
    ASSUME Parts, ReadPayload, UNCHANGED <<lldpdVars, sessionVars>>
    PROVE  SoundParts'
<1>a. /\ TypeOK /\ Framing(FrameType) /\ d2c \in Seq(Cells(FrameType)) /\ hdr \in FrameType
      /\ Len(d2c) \in Nat /\ taken \in Nat /\ sent \in Nat /\ orphans \in Nat
      /\ hdr.len \in Nat /\ hdr.num \in Nat
    BY FramingTypes, StreamTypes DEF Parts, TypeOK, TransportTypeOK
<1>b. /\ pc = "payload" /\ pc' = "done" /\ Len(d2c) >= hdr.len /\ hdr.len \in 0..Len(d2c)
      /\ d2c' = After(d2c, hdr.len)
      /\ ret'.kind \in {"RequestRejected", "UnexpectedMessageType", "Ok"}
      /\ ret'.num = hdr.num
      /\ ret'.kind = "Ok" => hdr.ty = cur.ty
      /\ UNCHANGED <<c2d, hup, reset, cur, hdr, sent, taken, orphans, skewed>>
    BY <1>a DEF ReadPayload, Return
<1>c. /\ Intact(d2c) /\ hdr.num = taken
      /\ hdr.len = 0 => StartsAt(d2c, taken + 1)
      /\ hdr.len > 0 /\ d2c # <<>> => d2c[1] = [frame |-> hdr, pos |-> HeaderCells + 1]
      /\ ~hup => EndsAt(d2c, pushed) /\ (d2c = <<>> => taken = pushed)
    BY <1>b DEF Parts, ReplyStream
<1>d. Intact(d2c') /\ \A e : EndsAt(d2c, e) => EndsAt(d2c', e)
    BY <1>a, <1>b, <1>c, IntactAfter
<1>e. /\ Len(d2c') = Len(d2c) - hdr.len
      /\ \A k \in 1..(Len(d2c) - hdr.len) : d2c'[k] = d2c[hdr.len + k]
      /\ d2c' \in Seq(Cells(FrameType))
    BY <1>a, <1>b, AfterProperties
<1>f. StartsAt(d2c', taken + 1) /\ (~hup /\ d2c' = <<>> => taken = pushed)
  <2>1. CASE hdr.len = 0
    <3>1. d2c' = <<>> <=> d2c = <<>>
        BY <1>a, <1>e, <2>1
    <3>2. d2c # <<>> => d2c'[1] = d2c[1]
        BY <1>a, <1>e, <2>1
    <3> QED
        BY <1>c, <2>1, <3>1, <3>2 DEF StartsAt
  <2>2. CASE hdr.len > 0
    <3>1. d2c # <<>> /\ hdr.len \in Nat \ {0}
        BY <1>a, <1>b, <2>2
    <3>2. d2c[1].frame = hdr /\ d2c[1].pos = HeaderCells + 1
        BY <1>c, <2>2, <3>1
    <3>3. d2c[1].pos + hdr.len = FrameCells(hdr) + 1
        BY <1>a, <3>2, FrameCellsType
    <3>4. /\ StartsAt(d2c', hdr.num + 1)
          /\ \A e : EndsAt(d2c, e) /\ d2c' = <<>> => hdr.num = e
        BY <1>a, <1>b, <1>c, <3>1, <3>2, <3>3, RestTaken
    <3> QED
        BY <1>c, <3>4
  <2> QED
      BY <1>a, <2>1, <2>2
<1>h. \A k \in 1..Len(d2c') : \E j \in 1..Len(d2c) : d2c'[k] = d2c[j]
  <2>2. ASSUME NEW k \in 1..Len(d2c') PROVE hdr.len + k \in 1..Len(d2c)
      BY <1>a, <1>b, <1>e
  <2> QED
      BY <1>e, <2>2
<1>i. UNCHANGED <<mode, op, seen, base, dsub, pushed>>
    BY DEF lldpdVars, sessionVars
<1>1. ReplyStream'
    BY <1>b, <1>c, <1>d, <1>f, <1>i DEF ReplyStream
<1>2. /\ RequestStream'
      /\ Closing' = Closing
      /\ dsub => c2d = <<>> /\ Closing
      /\ reset' => hup /\ ~dsub
      /\ \A k \in 1..Len(c2d) :
            c2d[k].frame.ty = "Subscribe" => c2d[k].frame.num = sent /\ Closing
      /\ \A k \in 1..Len(d2c') :
            d2c'[k].frame.ty = "Subscribe" => d2c'[k].frame.num = sent /\ dsub
    BY <1>b, <1>h, ReadFacts
<1>g. cur.ty \in RequestType => mode = "Client" /\ taken + orphans = sent /\ cur.num = sent
    BY <1>b DEF Parts, Control, InStep, RequestType, TypeOK, SessionTypeOK, OpName
<1>3. InStep'
    BY <1>a, <1>b, <1>i DEF Parts, InStep
<1>4. SubscribeIsLast'
  <2>1. ret'.kind = "Ok" /\ cur.ty = "Subscribe" => hdr.num = sent /\ dsub
      BY <1>b DEF Parts, SubscribeIsLast
  <2>2. ret'.kind = "Ok" /\ cur.ty = "Subscribe" => ret'.num = taken /\ orphans = 0 /\ dsub
      BY <1>a, <1>b, <1>c, <1>g, <2>1 DEF RequestType
  <2> QED
      BY <1>2, <1>b, <1>i, <2>2 DEF SubscribeIsLast
<1>5. ItemsInOrder'
  <2>1. TookItem /\ TookItem'
      BY <1>b DEF TookItem
  <2> QED
      BY <1>b, <1>c, <1>i, <2>1 DEF Parts, ItemsInOrder
<1>6. ReplyLag'
    BY <1>a, <1>b, <1>c, <1>g DEF ReplyLag, Answered
<1> QED
    BY <1>1, <1>2, <1>3, <1>4, <1>5, <1>6 DEF SoundParts

\* The end of a closed stream.
LEMMA SoundReadEof ==
    ASSUME Parts, ReadEof, UNCHANGED <<lldpdVars, sessionVars>>
    PROVE  SoundParts'
<1>0. /\ pc \in {"header", "payload"} /\ pc' = "done" /\ hup /\ d2c' = <<>>
      /\ ret'.kind = (IF reset THEN "ConnectionReset" ELSE "UnexpectedEof") /\ ~reset'
      /\ UNCHANGED <<c2d, hup, cur, hdr, sent, taken, orphans, skewed>>
      /\ UNCHANGED <<mode, op, seen, base, dsub, pushed>>
    BY DEF ReadEof, Return, lldpdVars, sessionVars
<1>1. ReplyStream'
    BY <1>0 DEF ReplyStream, Intact, StartsAt
<1>2. RequestStream'
    BY <1>0 DEF Parts, RequestStream
<1>3. InStep'
    BY <1>0 DEF Parts, InStep
<1>4. SubscribeIsLast'
    BY <1>0 DEF Parts, SubscribeIsLast, Closing
<1>5. ItemsInOrder'
  <2>1. mode = "Subscription" => dsub /\ ~reset
      BY DEF Parts, ItemsInOrder, SubscribeIsLast
  <2> QED
      BY <1>0, <2>1 DEF Parts, ItemsInOrder, TookItem
<1>6. ReplyLag'
    BY <1>0 DEF ReplyLag, Answered
<1> QED
    BY <1>1, <1>2, <1>3, <1>4, <1>5, <1>6 DEF SoundParts

-----------------------------------------------------------------------------
(* Sound: the method takes the Result of request()/recv_notification().     *)

\* A Client method other than subscribe goes on, or returns.
LEMMA SoundRelease ==
    ASSUME Parts, Release, UNCHANGED <<lldpdVars, mode, seen, base>>, mode = "Client",
           op # "subscribe"
    PROVE  SoundParts'
<1>0. /\ pc = "done" /\ pc' = "idle"
      /\ UNCHANGED <<c2d, d2c, hup, reset, sent, taken, orphans, skewed, mode, dsub, pushed>>
    BY DEF Release, Forget, lldpdVars
<1>1. ReplyStream' /\ RequestStream'
    BY <1>0, QuietStreams
<1>2. InStep' /\ ItemsInOrder' /\ ReplyLag'
    BY <1>0 DEF Parts, InStep, ItemsInOrder, ReplyLag, Answered
<1>3. SubscribeIsLast'
    BY <1>0 DEF Parts, SubscribeIsLast, Closing
<1> QED
    BY <1>1, <1>2, <1>3 DEF SoundParts

\* subscribe() hands the stream over, or closes it.
LEMMA SoundEndSubscribe ==
    ASSUME Parts, EndSubscribe
    PROVE  SoundParts'
<1>0. /\ pc = "done" /\ pc' = "idle" /\ mode = "Client" /\ cur.ty = "Subscribe" /\ seen = <<>>
      /\ mode' = (IF ret.kind = "Ok" THEN "Subscription" ELSE "none") /\ base' = ret.num
      /\ UNCHANGED <<c2d, d2c, hup, reset, sent, taken, orphans, skewed, seen, dsub, pushed>>
    BY DEF Parts, Control, EndSubscribe, Release, Forget, lldpdVars
<1>1. ReplyStream' /\ RequestStream'
    BY <1>0, QuietStreams
<1>2. InStep' /\ ReplyLag'
    BY <1>0 DEF Parts, InStep, ReplyLag, Answered
<1>3. SubscribeIsLast'
    BY <1>0 DEF Parts, SubscribeIsLast, Closing
<1>4. ItemsInOrder'
  <2>1. ret.kind = "Ok" => ret.num = taken /\ orphans = 0 /\ dsub
      BY <1>0 DEF Parts, SubscribeIsLast
  <2>2. Len(seen') = 0 /\ ~TookItem'
      BY <1>0 DEF TookItem
  <2>3. taken \in Nat
      BY StreamTypes DEF Parts
  <2> QED
      BY <1>0, <2>1, <2>2, <2>3 DEF ItemsInOrder
<1> QED
    BY <1>1, <1>2, <1>3, <1>4 DEF SoundParts

\* next() returns an item, or None.
LEMMA SoundEndNext ==
    ASSUME Parts, EndNext
    PROVE  SoundParts'
<1>0. /\ pc = "done" /\ pc' = "idle" /\ mode = "Subscription" /\ mode' = mode
      /\ UNCHANGED <<c2d, d2c, hup, reset, sent, taken, orphans, skewed, base, dsub, pushed>>
      /\ IF ret.kind = "UnexpectedEof" THEN seen' = seen
         ELSE seen' = Append(seen, [note |-> ret.num, kind |-> Decoded(ret)])
    BY DEF Parts, Control, EndNext, Release, Forget, lldpdVars
<1>1. ReplyStream' /\ RequestStream'
    BY <1>0, QuietStreams
<1>2. InStep' /\ ReplyLag'
    BY <1>0 DEF Parts, InStep, ReplyLag, Answered
<1>3. SubscribeIsLast'
    BY <1>0 DEF Parts, SubscribeIsLast, Closing
<1>4. ItemsInOrder'
  <2>0. /\ seen \in Seq(ItemType) /\ Len(seen) \in Nat /\ base \in Nat /\ taken \in Nat
        /\ dsub /\ orphans = 0
        /\ \A i \in 1..Len(seen) : seen[i].note = base + i
      BY <1>0, StreamTypes DEF Parts, ItemsInOrder, TypeOK, SessionTypeOK
  <2>1. CASE ret.kind = "UnexpectedEof"
      BY <1>0, <2>0, <2>1 DEF Parts, ItemsInOrder, TookItem
  <2>2. CASE ret.kind # "UnexpectedEof"
    <3>1. ret.num = taken /\ base + Len(seen) + 1 = taken
        BY <1>0, <2>0, <2>2 DEF Parts, ItemsInOrder, TookItem
    <3>2. /\ Len(seen') = Len(seen) + 1 /\ seen'[Len(seen) + 1].note = taken
          /\ \A i \in 1..Len(seen) : seen'[i] = seen[i]
      <4> DEFINE x == [note |-> ret.num, kind |-> Decoded(ret)]
      <4>1. x.note = taken /\ seen' = Append(seen, x)
          BY <1>0, <2>2, <3>1
      <4>2. x \in ItemType
          BY OutcomeTypes DEF Parts, ItemType
      <4> HIDE DEF x
      <4>3. /\ Len(Append(seen, x)) = Len(seen) + 1 /\ Append(seen, x)[Len(seen) + 1] = x
            /\ \A i \in 1..Len(seen) : Append(seen, x)[i] = seen[i]
          BY <2>0, <4>2
      <4> QED
          BY <4>1, <4>3
    <3>3. ASSUME NEW i \in 1..Len(seen') PROVE seen'[i].note = base + i
      <4>1. CASE i = Len(seen) + 1
          BY <2>0, <3>1, <3>2, <4>1
      <4>2. CASE i \in 1..Len(seen)
          BY <2>0, <3>2, <4>2
      <4> QED
          BY <2>0, <3>2, <4>1, <4>2
    <3> QED
        BY <1>0, <2>0, <3>1, <3>2, <3>3 DEF ItemsInOrder, TookItem
  <2> QED
      BY <2>1, <2>2
<1> QED
    BY <1>1, <1>2, <1>3, <1>4 DEF SoundParts

\* Steps of Method.
LEMMA SoundMethod ==
    ASSUME Parts, Method, ~skewed'
    PROVE  SoundParts'
<1>1. CASE TransportStep /\ UNCHANGED <<lldpdVars, sessionVars>>
    BY <1>1, SoundWriteAll, SoundWriteFails, SoundReadHeader, SoundReadPayload, SoundReadEof
       DEF TransportStep
<1>2. CASE EndInterfaces \/ EndSetPort \/ AllListed \/ AllFetched
  <2>1. /\ Release /\ UNCHANGED <<lldpdVars, mode, seen, base>>
        /\ op \in {"interfaces", "interface", "set_port_description", "all_interfaces"}
      BY <1>2 DEF EndInterfaces, EndSetPort, AllListed, AllFetched
  <2>2. mode = "Client" /\ op # "subscribe"
      BY <2>1 DEF Parts, Control
  <2> QED
      BY <2>1, <2>2, SoundRelease
<1>3. CASE AllFetch
  <2>1. mode = "Client" /\ mode' = mode /\ pc = "idle" /\ op = "all_interfaces"
        /\ UNCHANGED <<lldpdVars, seen, base>>
        /\ "GetInterface" \in RequestType
      BY <1>3 DEF Parts, Control, AllFetch, RequestType
  <2>2. \E arg : request("GetInterface", arg)
      BY <1>3 DEF AllFetch
  <2> QED
      BY <2>1, <2>2, SoundRequest
<1>4. CASE AllDone
  <2>1. /\ op = "all_interfaces" /\ mode = "Client" /\ pc = "idle"
        /\ UNCHANGED <<transportVars, lldpdVars, mode, seen, base>>
      BY <1>4 DEF Parts, Control, AllDone
  <2>2. ReplyStream' /\ RequestStream'
      BY <2>1, QuietStreams DEF transportVars, lldpdVars
  <2>3. InStep' /\ ItemsInOrder' /\ ReplyLag'
      BY <2>1 DEF Parts, InStep, ItemsInOrder, ReplyLag, Answered, transportVars
  <2>4. SubscribeIsLast'
      BY <2>1 DEF Parts, SubscribeIsLast, Closing, transportVars, lldpdVars
  <2> QED
      BY <2>2, <2>3, <2>4 DEF SoundParts
<1> QED
    BY <1>1, <1>2, <1>3, <1>4, SoundEndSubscribe, SoundEndNext DEF Method

-----------------------------------------------------------------------------
(* Sound: the caller.                                                       *)

\* Reading or writing nothing leaves a stream as it is.
LEMMA NothingRead ==
    ASSUME NEW S, NEW s \in Seq(S)
    PROVE  After(s, 0) = s /\ \A t \in Seq(S) : s \o SubSeq(t, 1, 0) = s
<1>1. After(s, 0) = s
    BY DEF After
<1>2. ASSUME NEW t \in Seq(S) PROVE SubSeq(t, 1, 0) = <<>>
    BY PrefixProperties
<1>3. s \o <<>> = s
    BY ConcatEmptySeq
<1> QED
    BY <1>1, <1>2, <1>3

\* A future dropped without having moved a byte: the request was never sent,
\* or its reply is now one that nobody waits for.
LEMMA CancelFacts ==
    ASSUME Parts, DropFuture, ~skewed'
    PROVE  /\ UNCHANGED <<c2d, d2c, sent, hup, reset, taken>>
           /\ pc' = "idle" /\ pc \in {"write", "header"}
           /\ orphans' = IF pc = "header" /\ cur.ty # "Notification" THEN orphans + 1
                         ELSE orphans
<1>0. /\ c2d \in Seq(Cells(CallType)) /\ d2c \in Seq(Cells(FrameType)) /\ cur \in CallType
      /\ UNCHANGED <<hup, reset, taken>> /\ pc' = "idle"
    BY StreamTypes DEF Parts, TypeOK, TransportTypeOK, DropFuture, Forget
<1>1. CASE pc = "write"
  <2>1. PICK n \in 0..(FrameCells(cur) - 1) :
            /\ c2d' = c2d \o SubSeq(Frame(cur), 1, n)
            /\ sent' = (IF n = 0 THEN sent ELSE cur.num)
            /\ skewed' = (skewed \/ n > 0)
      BY <1>1 DEF DropFuture
  <2>a. ~(n > 0)
      BY <2>1, Zenon
  <2>b. FrameCells(cur) \in Nat
      BY <1>0, FrameCellsType, FramingTypes DEF Framing
  <2>2. n = 0
      BY <2>a, <2>b
  <2>3. Frame(cur) \in Seq(Cells(CallType))
      BY <1>0, FrameProperties, FramingTypes DEF Framing
  <2>4. c2d' = c2d
      BY <1>0, <2>1, <2>2, <2>3, NothingRead
  <2> QED
      BY <1>0, <1>1, <2>1, <2>2, <2>4 DEF DropFuture
<1>2. CASE pc = "header"
  <2>1. PICK n \in 0..(HeaderCells - 1) :
            /\ d2c' = After(d2c, n)
            /\ skewed' = (skewed \/ n > 0)
      BY <1>2 DEF DropFuture
  <2>a. ~(n > 0)
      BY <2>1, Zenon
  <2>2. n = 0
      BY <2>a, TransportAssumption
  <2>3. d2c' = d2c
      BY <1>0, <2>1, <2>2, NothingRead
  <2> QED
      BY <1>0, <1>2, <2>3 DEF DropFuture
<1>3. pc \in {"write", "header"}
    BY Zenon DEF DropFuture
<1> QED
    BY <1>1, <1>2, <1>3

LEMMA SoundCancel ==
    ASSUME Parts, Cancel, ~skewed'
    PROVE  SoundParts'
<1>0. /\ UNCHANGED <<c2d, d2c, sent, hup, reset, taken>>
      /\ pc' = "idle" /\ pc \in {"write", "header"}
      /\ orphans' = IF pc = "header" /\ cur.ty # "Notification" THEN orphans + 1 ELSE orphans
    BY CancelFacts DEF Cancel
<1>a. /\ UNCHANGED <<dsub, pushed, seen, base>>
      /\ mode' = IF op = "subscribe" THEN "none" ELSE mode
    BY DEF Cancel, lldpdVars
<1>b. sent \in Nat /\ taken \in Nat /\ orphans \in Nat /\ Len(seen) \in Nat /\ base \in Nat
    BY StreamTypes DEF Parts, TypeOK, SessionTypeOK
<1>1. ReplyStream' /\ RequestStream'
    BY <1>0, <1>a, QuietStreams
<1>2. InStep' /\ ReplyLag'
    BY <1>0, <1>a, <1>b DEF Parts, Control, InStep, ReplyLag, Answered
<1>3. SubscribeIsLast'
    BY <1>0, <1>a DEF Parts, SubscribeIsLast, Closing
<1>4. ItemsInOrder'
  <2>1. mode' = "Subscription" => mode = "Subscription" /\ orphans' = orphans
      BY <1>0, <1>a DEF Parts, Control, TypeOK, SessionTypeOK, OpName
  <2> QED
      BY <1>0, <1>a, <1>b, <2>1 DEF Parts, ItemsInOrder, TookItem
<1> QED
    BY <1>1, <1>2, <1>3, <1>4 DEF SoundParts

LEMMA SoundCaller ==
    ASSUME Parts, Caller, ~skewed'
    PROVE  SoundParts'
<1>1. CASE connect_to \/ connect_to_fails \/ Drop
  <2>0. /\ UNCHANGED <<transportVars, lldpdVars, seen, base>> /\ pc = "idle" /\ pc' = "idle"
        /\ mode' \in {"Client", "none"}
        /\ mode' = "Client" => calls = 0
      BY <1>1 DEF Parts, Control, connect_to, connect_to_fails, Drop, transportVars
  <2>1. ReplyStream' /\ RequestStream'
      BY <2>0, QuietStreams DEF transportVars, lldpdVars
  <2>2. InStep' /\ ItemsInOrder' /\ ReplyLag'
      BY <2>0 DEF Parts, Control, InStep, ItemsInOrder, ReplyLag, Answered, transportVars
  <2>3. SubscribeIsLast'
    <3>1. CASE mode' = "Client"
      <4>1. c2d = <<>> /\ ~dsub
          BY <2>0, <3>1 DEF Parts, Control
      <4> QED
          BY <2>0, <4>1 DEF Parts, SubscribeIsLast, Closing, transportVars, lldpdVars
    <3>2. CASE mode' = "none"
        BY <2>0, <3>2 DEF Parts, SubscribeIsLast, Closing, transportVars, lldpdVars
    <3> QED
        BY <2>0, <3>1, <3>2
  <2> QED
      BY <2>1, <2>2, <2>3 DEF SoundParts
<1>2. ASSUME NEW o, NEW ty \in RequestType, NEW arg, Begin(o), request(ty, arg)
      PROVE  SoundParts'
  <2>1. /\ mode = "Client" /\ mode' = "Client" /\ op = "none" /\ pc = "idle"
        /\ UNCHANGED <<lldpdVars, seen, base>>
      BY <1>2 DEF Parts, Control, Begin
  <2> QED
      BY <1>2, <2>1, SoundRequest
<1>3. CASE interfaces \/ all_interfaces \/ subscribe
    BY <1>2, <1>3 DEF interfaces, all_interfaces, subscribe, RequestType
<1>4. ASSUME NEW i \in Iface, interface(i) \/ \E d \in Descr : set_port_description(i, d)
      PROVE  SoundParts'
    BY <1>2, <1>4 DEF interface, set_port_description, RequestType
<1> QED
    BY <1>1, <1>3, <1>4, SoundNext, SoundCancel DEF Caller

-----------------------------------------------------------------------------
(* Sound: lldpd.                                                            *)

\* A frame pushed behind the others.
LEMMA PushedReply ==
    ASSUME Parts, NEW f \in FrameType, Push(f), f.num = pushed + 1, ~hup,
           UNCHANGED <<hup, pc, hdr, taken>>
    PROVE  /\ ReplyStream'
           /\ \A k \in 1..Len(d2c') :
                 d2c'[k].frame = f \/ (k \in 1..Len(d2c) /\ d2c'[k] = d2c[k])
<1>a. /\ Framing(FrameType) /\ d2c \in Seq(Cells(FrameType)) /\ taken \in Nat
      /\ pushed \in Nat
    BY FramingTypes, StreamTypes DEF Parts
<1>b. /\ Intact(d2c) /\ EndsAt(d2c, pushed) /\ (d2c = <<>> => taken = pushed)
      /\ d2c = <<>> /\ pc = "payload" => hdr.len = 0
    BY DEF Parts, ReplyStream
<1>c. Follows(f, d2c)
    BY <1>b DEF Follows, EndsAt
<1>d. d2c' = d2c \o Frame(f) /\ pushed' = pushed + 1
    BY DEF Push
<1>e. Appended(d2c', d2c, f)
    BY <1>a, <1>b, <1>c, <1>d, IntactAppend, Zenon
<1>f. /\ Intact(d2c') /\ EndsAt(d2c', f.num) /\ d2c' # <<>>
      /\ d2c # <<>> => d2c'[1] = d2c[1]
      /\ d2c = <<>> => StartsAt(d2c', f.num)
      /\ \A k \in 1..Len(d2c') :
            d2c'[k].frame = f \/ (k \in 1..Len(d2c) /\ d2c'[k] = d2c[k])
    BY <1>e DEF Appended
<1>g. StartsAt(d2c, taken + 1) => StartsAt(d2c', taken + 1)
  <2>1. CASE d2c = <<>>
      BY <1>b, <1>f, <2>1
  <2>2. CASE d2c # <<>>
      BY <1>f, <2>2 DEF StartsAt
  <2> QED
      BY <2>1, <2>2
<1>h. pc = "payload" /\ hdr.len > 0 => d2c'[1] = [frame |-> hdr, pos |-> HeaderCells + 1]
  <2>1. SUFFICES ASSUME pc = "payload", hdr.len > 0
                 PROVE  d2c'[1] = [frame |-> hdr, pos |-> HeaderCells + 1]
      OBVIOUS
  <2>2. d2c # <<>>
      BY <1>b, <2>1
  <2>3. d2c[1] = [frame |-> hdr, pos |-> HeaderCells + 1]
      BY <2>1, <2>2 DEF Parts, ReplyStream
  <2> QED
      BY <1>f, <2>2, <2>3
<1>i. ReplyStream'
  <2>1. /\ pc # "payload" => StartsAt(d2c, taken + 1)
        /\ pc = "payload" => hdr.num = taken /\ (hdr.len = 0 => StartsAt(d2c, taken + 1))
      BY DEF Parts, ReplyStream
  <2> QED
      BY <1>d, <1>f, <1>g, <1>h, <2>1 DEF ReplyStream
<1> QED
    BY <1>f, <1>i

\* lldpd takes the request at the head of the stream and answers it.
LEMMA SoundAnswer ==
    ASSUME Parts, WholeRequest, TakeRequest, NEW f \in FrameType, Push(f),
           f.num = c2d[1].frame.num,
           f.ty = "Subscribe" => c2d[1].frame.ty = "Subscribe" /\ dsub',
           dsub' => dsub \/ c2d[1].frame.ty = "Subscribe",
           UNCHANGED <<hup, reset, pc, cur, hdr, ret, sent, taken, orphans, skewed>>,
           UNCHANGED sessionVars
    PROVE  SoundParts'
<1> DEFINE q == c2d[1].frame
           r == FrameCells(q)
<1>a. /\ c2d # <<>> /\ ~hup /\ Len(c2d) >= r /\ ~dsub /\ mode # "Subscription"
      /\ UNCHANGED <<mode, op, seen, base>> /\ c2d' = After(c2d, r) /\ pushed' = pushed + 1
    BY DEF WholeRequest, TakeRequest, Push, Parts, SubscribeIsLast, ItemsInOrder, sessionVars
<1>b. /\ Framing(CallType) /\ c2d \in Seq(Cells(CallType)) /\ 1 \in 1..Len(c2d)
      /\ sent \in Nat /\ pushed \in Nat /\ Len(c2d) \in Nat
    BY <1>a, FramingTypes, StreamTypes DEF Parts
<1>c. /\ Intact(c2d) /\ c2d[1].pos = 1 /\ q.num = pushed + 1 /\ EndsAt(c2d, sent)
      /\ \A k \in 1..Len(c2d) : c2d[k].frame.num <= sent
    BY <1>a DEF Parts, RequestStream, StartsAt
<1>d. r \in Nat \ {0} /\ c2d[1].pos + r = FrameCells(q) + 1
  <2>1. q \in CallType
      BY <1>b, CellProperties
  <2>2. q.len \in Nat
      BY <1>b, <2>1 DEF Framing
  <2>3. r \in Nat \ {0}
      BY <2>2, FrameCellsType
  <2> QED
      BY <1>c, <2>3
<1>e. /\ r \in 0..Len(c2d)
      /\ StartsAt(c2d', q.num + 1)
      /\ \A e : EndsAt(c2d, e) /\ c2d' = <<>> => q.num = e
    BY <1>a, <1>b, <1>c, <1>d, RestTaken
<1>f. Intact(c2d') /\ EndsAt(c2d', sent)
    BY <1>a, <1>b, <1>c, <1>e, IntactAfter
<1>g. \A k \in 1..Len(c2d') : \E j \in 1..Len(c2d) : c2d'[k] = c2d[j]
  <2>1. /\ Len(c2d') = Len(c2d) - r
        /\ \A k \in 1..(Len(c2d) - r) : c2d'[k] = c2d[r + k]
      BY <1>a, <1>b, <1>e, AfterProperties
  <2>2. ASSUME NEW k \in 1..Len(c2d') PROVE r + k \in 1..Len(c2d)
      BY <1>b, <1>d, <1>e, <2>1
  <2> QED
      BY <2>1, <2>2
<1>h. c2d' \in Seq(Cells(CallType)) /\ Len(c2d') \in Nat
    BY <1>a, <1>b, <1>e, AfterProperties
<1> HIDE DEF q, r
<1>i. /\ ReplyStream'
      /\ \A k \in 1..Len(d2c') :
            d2c'[k].frame = f \/ (k \in 1..Len(d2c) /\ d2c'[k] = d2c[k])
    BY <1>a, <1>c, PushedReply DEF q
<1>1. RequestStream'
  <2>1. \A k \in 1..Len(c2d') : c2d'[k].frame.num <= sent
      BY <1>c, <1>g
  <2>2. c2d' = <<>> => pushed' = sent
      BY <1>a, <1>c, <1>e
  <2>3. StartsAt(c2d', pushed' + 1)
      BY <1>a, <1>c, <1>e
  <2> QED
      BY <1>a, <1>f, <2>1, <2>2, <2>3 DEF RequestStream
<1>2. InStep' /\ ItemsInOrder' /\ ReplyLag'
    BY <1>a DEF Parts, InStep, ItemsInOrder, ReplyLag, Answered
<1>3. SubscribeIsLast'
  <2>1. q.ty = "Subscribe" => q.num = sent /\ Closing
      BY <1>b DEF q, Parts, SubscribeIsLast
  <2>2. q.ty = "Subscribe" => c2d' = <<>>
    <3>1. SUFFICES ASSUME q.ty = "Subscribe", c2d' # <<>> PROVE FALSE
        OBVIOUS
    <3>2. 1 \in 1..Len(c2d') /\ c2d'[1].frame.num = sent + 1
        BY <1>e, <1>h, <2>1, <3>1 DEF StartsAt
    <3> QED
        BY <1>1, <1>b, <3>2 DEF RequestStream
  <2>3. dsub' => c2d' = <<>> /\ Closing'
      BY <1>a, <2>1, <2>2 DEF q, Closing
  <2>4. ASSUME NEW k \in 1..Len(c2d'), c2d'[k].frame.ty = "Subscribe"
        PROVE  c2d'[k].frame.num = sent /\ Closing'
      BY <1>a, <1>g, <2>4 DEF Parts, SubscribeIsLast, Closing
  <2>5. ASSUME NEW k \in 1..Len(d2c'), d2c'[k].frame.ty = "Subscribe"
        PROVE  d2c'[k].frame.num = sent /\ dsub'
    <3>1. d2c'[k].frame = f
        BY <1>a, <1>i, <2>5 DEF Parts, SubscribeIsLast
    <3> QED
        BY <2>1, <2>5, <3>1 DEF q
  <2> QED
      BY <1>a, <2>3, <2>4, <2>5 DEF Parts, SubscribeIsLast
<1> QED
    BY <1>1, <1>2, <1>3, <1>i DEF SoundParts

LEMMA SoundServe ==
    ASSUME Parts, Serve, UNCHANGED sessionVars
    PROVE  SoundParts'
<1> DEFINE q == c2d[1].frame
<1>a. /\ TypeOK /\ Framing(CallType) /\ c2d \in Seq(Cells(CallType)) /\ Len(c2d) \in Nat
    BY FramingTypes, StreamTypes DEF Parts
<1>b. c2d # <<>> => q \in CallType /\ q.num \in Nat /\ 1 \in 1..Len(c2d)
  <2>1. SUFFICES ASSUME c2d # <<>> PROVE q \in CallType /\ q.num \in Nat /\ 1 \in 1..Len(c2d)
      OBVIOUS
  <2>2. 1 \in 1..Len(c2d)
      BY <1>a, <2>1
  <2>3. q \in CallType
      BY <1>a, <2>2, CellProperties
  <2> QED
      BY <1>a, <2>2, <2>3 DEF Framing
<1>1. CASE Honour
  <2>1. PICK f \in Faulty(Reply(q)) : Push(f)
      BY <1>1 DEF Honour
  <2>2. /\ c2d # <<>> /\ WholeRequest /\ TakeRequest /\ CanHonour(q)
        /\ dsub' = (dsub \/ q.ty = "Subscribe")
        /\ UNCHANGED <<hup, reset, pc, cur, hdr, ret, sent, taken, orphans, skewed>>
      BY <1>1 DEF Honour, WholeRequest
  <2>3. f \in FrameType
      BY <1>a, <1>b, <2>2, PushedTypes, ReplyTypes
  <2>4. f.num = q.num /\ f.ty \in {q.ty, "Other"}
      BY <2>1 DEF Faulty, Reply
  <2>5. dsub' => dsub \/ q.ty = "Subscribe"
      BY <2>2, Zenon
  <2>6. q.ty = "Subscribe" => dsub'
      BY <2>2, Zenon
  <2>7. f.ty = "Subscribe" => q.ty = "Subscribe" /\ dsub'
      BY <2>4, <2>6
  <2> QED
      BY <2>1, <2>2, <2>3, <2>4, <2>5, <2>7, SoundAnswer
<1>2. CASE Refuse
  <2>0. PICK f \in Rejections(q.num) : Push(f)
      BY <1>2 DEF Refuse
  <2>1. /\ c2d # <<>> /\ WholeRequest /\ TakeRequest /\ dsub' = dsub
        /\ UNCHANGED <<hup, reset, pc, cur, hdr, ret, sent, taken, orphans, skewed>>
      BY <1>2 DEF Refuse, WholeRequest
  <2>2. f \in FrameType /\ f.num = q.num /\ f.ty # "Subscribe"
      BY <1>b, <2>1, RejectionTypes
  <2> QED
      BY <2>0, <2>1, <2>2, SoundAnswer
<1>3. CASE RefuseGarbled
  <2>1. /\ c2d # <<>> /\ ~hup /\ c2d[1].pos = 1 /\ q.len <= HMSG_MAX_SIZE
        /\ Len(c2d) >= FrameCells(q) /\ ~WholeRequest
      BY <1>3 DEF RefuseGarbled
  <2>2. Intact(c2d)
      BY DEF Parts, RequestStream
  <2>3. SubSeq(c2d, 1, FrameCells(q)) = Frame(q)
      BY <1>a, <2>1, <2>2, WholeAtHead
  <2> QED
      BY <2>1, <2>3 DEF WholeRequest
<1> QED
    BY <1>1, <1>2, <1>3 DEF Serve

LEMMA SoundNotify ==
    ASSUME Parts, Notify, UNCHANGED sessionVars
    PROVE  SoundParts'
<1>1. PICK f \in Faulty(Notification(pushed + 1)) : Push(f)
    BY DEF Notify
<1>2. /\ dsub /\ ~hup /\ pushed \in Nat
      /\ UNCHANGED <<c2d, hup, reset, pc, cur, hdr, ret, sent, taken, orphans, skewed, dsub>>
      /\ UNCHANGED <<mode, op, seen, base>>
    BY StreamTypes DEF Parts, Notify, sessionVars
<1>3. f.num = pushed + 1 /\ f.ty # "Subscribe"
    BY <1>1 DEF Faulty, Notification
<1>4. f \in FrameType
  <2>1. Notification(pushed + 1) \in FrameType
      BY <1>2, EmptyIsSeq DEF Notification, FrameType, HmsgType, BodyType
  <2> QED
      BY <1>1, <2>1, PushedTypes
<1>5. /\ ReplyStream'
      /\ \A k \in 1..Len(d2c') :
            d2c'[k].frame = f \/ (k \in 1..Len(d2c) /\ d2c'[k] = d2c[k])
    BY <1>1, <1>2, <1>3, <1>4, PushedReply
<1>6. RequestStream'
    BY <1>2 DEF Parts, RequestStream
<1>7. InStep' /\ ReplyLag'
    BY <1>2 DEF Parts, InStep, ReplyLag, Answered
<1>8. SubscribeIsLast'
    BY <1>2, <1>3, <1>5 DEF Parts, SubscribeIsLast, Closing
<1>9. ItemsInOrder'
    BY <1>2 DEF Parts, ItemsInOrder, TookItem
<1> QED
    BY <1>5, <1>6, <1>7, <1>8, <1>9 DEF SoundParts

LEMMA SoundHangup ==
    ASSUME Parts, Hangup, UNCHANGED sessionVars
    PROVE  SoundParts'
<1>1. PICK n \in 0..Len(d2c) : d2c' = SubSeq(d2c, 1, n)
    BY DEF Hangup
<1>2. /\ ~hup /\ hup' /\ c2d' = <<>> /\ reset' = (c2d # <<>>)
      /\ UNCHANGED <<pc, cur, hdr, ret, sent, taken, orphans, skewed, dsub, pushed>>
      /\ UNCHANGED <<mode, op, seen, base>>
    BY DEF Hangup, lldpdVars, sessionVars
<1>a. /\ Framing(FrameType) /\ d2c \in Seq(Cells(FrameType)) /\ Intact(d2c)
    BY FramingTypes, StreamTypes DEF Parts, ReplyStream
<1>3. Intact(d2c') /\ (d2c' # <<>> => d2c # <<>> /\ d2c'[1] = d2c[1])
    BY <1>1, <1>a, IntactPrefix
<1>4. \A k \in 1..Len(d2c') : k \in 1..Len(d2c) /\ d2c'[k] = d2c[k]
  <2>1. /\ Len(d2c') = n /\ Len(d2c) \in Nat
        /\ \A k \in 1..n : d2c'[k] = d2c[k]
      BY <1>1, <1>a, PrefixProperties
  <2> QED
      BY <2>1
<1>5. ReplyStream'
    BY <1>2, <1>3 DEF Parts, ReplyStream, StartsAt
<1>6. RequestStream'
    BY <1>2 DEF RequestStream, Intact
<1>7. InStep' /\ ReplyLag'
    BY <1>2 DEF Parts, InStep, ReplyLag, Answered
<1>8. SubscribeIsLast'
  <2>1. reset' => ~dsub
    <3>1. reset' => c2d # <<>>
        BY <1>2, Zenon
    <3> QED
        BY <3>1 DEF Parts, SubscribeIsLast
  <2> QED
      BY <1>2, <1>4, <2>1 DEF Parts, SubscribeIsLast, Closing
<1>9. ItemsInOrder'
    BY <1>2 DEF Parts, ItemsInOrder, TookItem
<1> QED
    BY <1>5, <1>6, <1>7, <1>8, <1>9 DEF SoundParts

\* Interfaces come and go beside the connection.
LEMMA SoundIdle ==
    ASSUME Parts, UNCHANGED <<transportVars, dsub, pushed, mode, op, seen, base>>
    PROVE  SoundParts'
<1>1. ReplyStream'
    BY DEF Parts, ReplyStream, transportVars
<1>2. RequestStream'
    BY DEF Parts, RequestStream, transportVars
<1>3. InStep' /\ ReplyLag'
    BY DEF Parts, InStep, ReplyLag, Answered, transportVars
<1>4. SubscribeIsLast'
    BY DEF Parts, SubscribeIsLast, Closing, transportVars
<1>5. ItemsInOrder'
    BY DEF Parts, ItemsInOrder, TookItem, transportVars
<1> QED
    BY <1>1, <1>2, <1>3, <1>4, <1>5 DEF SoundParts

LEMMA SoundDaemon ==
    ASSUME Parts, Daemon
    PROVE  SoundParts'
<1>1. CASE (Serve \/ Notify \/ Hangup) /\ UNCHANGED sessionVars
    BY <1>1, SoundServe, SoundNotify, SoundHangup
<1>2. ASSUME NEW i \in Iface, IfUp(i) \/ IfDown(i), UNCHANGED <<mode, op, seen, base>>
      PROVE  SoundParts'
    BY <1>2, SoundIdle DEF IfUp, IfDown
<1> QED
    BY <1>1, <1>2 DEF Daemon, sessionVars

-----------------------------------------------------------------------------
(* The theorems                                                             *)

LEMMA InvStep == SessionInv /\ [Next]_vars => SessionInv'
<1> SUFFICES ASSUME SessionInv, [Next]_vars PROVE SessionInv'
    OBVIOUS
<1>1. TypeOK' /\ Control'
    BY TypeStep, ControlStep DEF SessionInv
<1>2. Sound'
  <2>1. SUFFICES ASSUME ~skewed' PROVE SoundParts'
      BY DEF Sound, SoundParts
  <2>2. ~skewed
      BY <2>1, SkewedStays DEF SessionInv
  <2>3. Parts
      BY <2>2 DEF SessionInv, Sound, Parts
  <2>4. CASE UNCHANGED vars
      BY <2>3, <2>4, SoundIdle DEF vars, lldpdVars, sessionVars
  <2> QED
      BY <2>1, <2>3, <2>4, SoundCaller, SoundMethod, SoundDaemon DEF Next
<1> QED
    BY <1>1, <1>2 DEF SessionInv

\* SessionInv is an invariant of Client, AsyncClient and their subscriptions,
\* with any number of calls, interfaces, notifications and cancellations, any
\* size of header and payload, and a daemon with any of the Faults.
THEOREM SessionInvariant == Spec => []SessionInv
BY InvInit, InvStep, PTL DEF Spec

\* request(): until a frame is torn, its Result is about the reply that is
\* late by the number of abandoned requests; about its own when there is none.
THEOREM RepliesLagByOrphans == Spec => []ReplyLag
<1>1. SessionInv => ReplyLag
    BY DEF SessionInv, Sound, ReplyLag
<1> QED
    BY <1>1, SessionInvariant, PTL

\* subscribe(): dropping futures before it cannot put a Subscription out of step.
THEOREM SubscriptionStartsInStep == Spec => []SubscribedInStep
<1>1. SessionInv => SubscribedInStep
    BY DEF SessionInv, Sound, ItemsInOrder, SubscribeIsLast, SubscribedInStep
<1> QED
    BY <1>1, SessionInvariant, PTL

=============================================================================
