------------------------- MODULE SubscriptionProofs -------------------------
(***************************************************************************)
(* Subscription and AsyncSubscription: the iteration ends when lldpd has   *)
(* closed the connection and at no other time, it stays ended, and until   *)
(* then every notification is returned once and in order, whatever futures *)
(* are dropped, as long as no frame is torn.                               *)
(***************************************************************************)
EXTENDS SessionProofs

-----------------------------------------------------------------------------
(* The end of the iteration                                                 *)

\* A read that found the end of the stream has used up both the stream and
\* the one report of a reset.  Once next() has returned None on such a stream,
\* the only thing that can still happen to it is to be read to its end again.
EndInv ==
    /\ pc = "done" /\ ret.kind \in {"UnexpectedEof", "ConnectionReset"} =>
          hup /\ ~reset /\ d2c = <<>>
    /\ ended => /\ hup /\ ~reset /\ d2c = <<>>
                /\ mode # "Client" /\ calls # 0
                /\ pc \in {"idle", "header", "done"}
                /\ pc = "done" => ret.kind = "UnexpectedEof"

\* Reading from an empty stream leaves it empty.
LEMMA ReadNothing ==
    ASSUME d2c = <<>>, NEW n \in Nat, n <= Len(d2c)
    PROVE  After(d2c, n) = <<>> /\ SubSeq(d2c, 1, n) = <<>>
<1>1. n = 0 /\ Len(d2c) = 0
    BY EmptyIsSeq
<1> QED
    BY <1>1, EmptyIsSeq DEF After

LEMMA EndCaller ==
    ASSUME TypeOK, Control, EndInv, Caller
    PROVE  EndInv'
<1>1. CASE connect_to \/ connect_to_fails \/ Drop
    BY <1>1 DEF connect_to, connect_to_fails, Drop, transportVars, EndInv
<1>2. ASSUME NEW o, NEW ty, NEW arg, Begin(o), request(ty, arg)
      PROVE  EndInv'
    BY <1>2 DEF Begin, request, EndInv, TypeOK, SessionTypeOK
<1>3. CASE interfaces \/ all_interfaces \/ subscribe
    BY <1>2, <1>3 DEF interfaces, all_interfaces, subscribe
<1>4. ASSUME NEW i \in Iface, interface(i) \/ \E d \in Descr : set_port_description(i, d)
      PROVE  EndInv'
    BY <1>2, <1>4 DEF interface, set_port_description
<1>5. CASE next
    BY <1>5 DEF next, recv_notification, EndInv
<1>6. CASE Cancel
  <2>1. /\ pc' = "idle" /\ UNCHANGED <<hup, reset, ended, calls>>
        /\ mode' \in {mode, "none"}
      BY <1>6 DEF Cancel, DropFuture, Forget
  <2>2. ASSUME ended PROVE d2c' = <<>>
    <3>1. d2c = <<>> /\ pc \in {"idle", "header", "done"}
        BY <2>2 DEF EndInv
    <3>2. d2c' = d2c \/ \E n \in 0..(HeaderCells - 1) : n <= Len(d2c) /\ d2c' = After(d2c, n)
        BY <1>6, <3>1 DEF Cancel, DropFuture
    <3>3. \A n \in 0..(HeaderCells - 1) : n \in Nat
        BY TransportAssumption
    <3> QED
        BY <3>1, <3>2, <3>3, ReadNothing
  <2> QED
      BY <2>1, <2>2 DEF EndInv
<1> QED
    BY <1>1, <1>3, <1>4, <1>5, <1>6 DEF Caller

LEMMA EndMethod ==
    ASSUME TypeOK, Control, EndInv, Method
    PROVE  EndInv'
<1>0. HeaderCells \in Nat \ {0} /\ Len(d2c) \in Nat /\ (d2c = <<>> => Len(d2c) = 0)
    BY TransportAssumption, StreamTypes, EmptyIsSeq
<1>1. CASE TransportStep /\ UNCHANGED <<lldpdVars, sessionVars>>
  <2>0. UNCHANGED <<hup, mode, ended, calls>>
      BY <1>1 DEF TransportStep, WriteAll, WriteFails, ReadHeader, ReadPayload, ReadEof, sessionVars
  <2>1. CASE WriteAll \/ WriteFails
      BY <2>0, <2>1 DEF WriteAll, WriteFails, Return, EndInv
  <2>2. CASE ReadHeader
    <3>1. ~ended
        BY <1>0, <2>2 DEF ReadHeader, EndInv
    <3>2. ~(pc' = "done" /\ ret'.kind \in {"UnexpectedEof", "ConnectionReset"})
        BY <2>2 DEF ReadHeader, Return
    <3> QED
        BY <2>0, <3>1, <3>2 DEF EndInv
  <2>3. CASE ReadPayload
      BY <2>0, <2>3 DEF ReadPayload, Return, EndInv
  <2>4. CASE ReadEof
      BY <2>0, <2>4 DEF ReadEof, Return, EndInv
  <2> QED
      BY <1>1, <2>1, <2>2, <2>3, <2>4 DEF TransportStep
<1>2. CASE EndInterfaces \/ EndSetPort \/ EndSubscribe \/ AllListed \/ AllFetched
  <2>1. /\ pc = "done" /\ pc' = "idle" /\ UNCHANGED <<hup, reset, d2c, ended, calls>>
      BY <1>2, Zenon DEF EndInterfaces, EndSetPort, EndSubscribe, AllListed, AllFetched, Release, Forget
  <2>2. mode = "Client"
      BY <1>2 DEF EndInterfaces, EndSetPort, EndSubscribe, AllListed, AllFetched, Control
  <2> QED
      BY <2>1, <2>2 DEF EndInv
<1>3. CASE EndNext
  <2>1. /\ pc = "done" /\ pc' = "idle" /\ UNCHANGED <<hup, reset, d2c, mode, calls>>
        /\ mode = "Subscription"
      BY <1>3 DEF EndNext, Release, Forget, Control
  <2>2. ended' => ret.kind = "UnexpectedEof" \/ ended
      BY <1>3 DEF EndNext
  <2>3. calls # 0
      BY <2>1 DEF Control
  <2> QED
      BY <2>1, <2>2, <2>3 DEF EndInv
<1>4. CASE AllFetch
    BY <1>4 DEF AllFetch, request, EndInv, Control
<1>5. CASE AllDone
    BY <1>5 DEF AllDone, transportVars, EndInv
<1> QED
    BY <1>1, <1>2, <1>3, <1>4, <1>5 DEF Method

LEMMA EndStep ==
    ASSUME TypeOK, Control, EndInv, [Next]_vars
    PROVE  EndInv'
<1>1. CASE Daemon
  <2>1. CASE (Serve \/ Notify \/ Hangup) /\ UNCHANGED sessionVars
    <3>1. ~hup
        BY <2>1 DEF Serve, Honour, Refuse, RefuseGarbled, WholeRequest, Notify, Hangup
    <3>2. UNCHANGED <<pc, ret, ended>>
        BY <2>1 DEF Serve, Honour, Refuse, RefuseGarbled, Notify, Hangup, sessionVars
    <3> QED
        BY <3>1, <3>2 DEF EndInv
  <2>2. CASE \E i \in Iface : (IfUp(i) \/ IfDown(i)) /\ UNCHANGED <<mode, ended, calls>>
      BY <2>2 DEF IfUp, IfDown, transportVars, EndInv
  <2> QED
      BY <1>1, <2>1, <2>2 DEF Daemon, sessionVars
<1>2. CASE UNCHANGED vars
    BY <1>2 DEF vars, transportVars, sessionVars, EndInv
<1> QED
    BY <1>1, <1>2, EndCaller, EndMethod DEF Next

LEMMA EndInvariant == Spec => [](SessionInv /\ EndInv)
<1>1. Init => EndInv
    BY DEF Init, TransportInit, EndInv
<1>2. SessionInv /\ EndInv /\ [Next]_vars => EndInv'
    BY EndStep DEF SessionInv
<1> QED
    BY <1>1, <1>2, SessionInvariant, PTL DEF Spec

\* Subscription::next and AsyncSubscription::next_change return None only once
\* lldpd has hung up and everything it had sent has been consumed, even if
\* streams were torn before.
THEOREM NoneMeansHungUp == Spec => []EndMeansHungUp
<1>1. EndInv => EndMeansHungUp
    BY DEF EndInv, EndMeansHungUp
<1> QED
    BY <1>1, EndInvariant, PTL

\* They keep returning None: after the end no step adds an item.
THEOREM NoneIsFinal == Spec => EndIsFinal
<1>1. ASSUME SessionInv, EndInv, ended, [Next]_vars
      PROVE  seen' = seen /\ ended'
  <2>1. CASE EndNext
    <3>1. ret.kind = "UnexpectedEof"
        BY <1>1, <2>1 DEF EndInv, EndNext, Release
    <3> QED
        BY <2>1, <3>1 DEF EndNext
  <2>2. CASE ~EndNext
    <3>1. UNCHANGED <<seen, ended>>
        BY <1>1, <2>2, Zenon DEF Next, Caller, Method, Daemon, connect_to, connect_to_fails, Drop,
           Begin, interfaces, all_interfaces, subscribe, next, interface, set_port_description,
           Cancel, EndInterfaces, EndSetPort, EndSubscribe, AllListed, AllFetch, AllFetched,
           AllDone, vars, sessionVars
    <3> QED
        BY <1>1, <3>1
  <2> QED
      BY <2>1, <2>2
<1>2. SessionInv /\ EndInv /\ [Next]_vars => [ended => seen' = seen /\ ended']_vars
    BY <1>1
<1> QED
    BY <1>2, EndInvariant, PTL DEF Spec, EndIsFinal

-----------------------------------------------------------------------------
(* The order of the frames in a stream                                      *)

\* Numbers never go down, and go up after the last cell of a frame.
InSequence(s) ==
    \A i, j \in 1..Len(s) : i < j =>
        /\ s[i].frame.num <= s[j].frame.num
        /\ s[i].pos = FrameCells(s[i].frame) => s[i].frame.num < s[j].frame.num

\* Every number between the first one and any other one is there.
NoGaps(s) ==
    \A i \in 1..Len(s) : \A n \in s[1].frame.num .. s[i].frame.num :
        \E k \in 1..Len(s) : s[k].frame.num = n

LEMMA NumberTypes ==
    ASSUME NEW T, Framing(T), NEW s \in Seq(Cells(T))
    PROVE  Len(s) \in Nat /\ \A k \in 1..Len(s) : s[k].frame.num \in Nat
<1>1. ASSUME NEW k \in 1..Len(s) PROVE s[k].frame.num \in Nat
  <2>1. s[k].frame \in T
      BY CellProperties
  <2> QED
      BY <2>1 DEF Framing
<1> QED
    BY <1>1

LEMMA SequenceAfter ==
    ASSUME NEW T, Framing(T), NEW s \in Seq(Cells(T)), InSequence(s), NoGaps(s),
           NEW n \in 0..Len(s), NEW t, t = After(s, n)
    PROVE  InSequence(t) /\ NoGaps(t)
<1>1. Len(t) = Len(s) - n /\ \A i \in 1..(Len(s) - n) : t[i] = s[n + i]
    BY AfterProperties
<1>2. Len(s) \in Nat /\ \A k \in 1..Len(s) : s[k].frame.num \in Nat
    BY NumberTypes
<1>3. \A i \in 1..Len(t) : n + i \in 1..Len(s) /\ t[i] = s[n + i]
    BY <1>1, <1>2
<1>4. InSequence(t)
  <2> SUFFICES ASSUME NEW i \in 1..Len(t), NEW j \in 1..Len(t), i < j
               PROVE  /\ t[i].frame.num <= t[j].frame.num
                      /\ t[i].pos = FrameCells(t[i].frame) => t[i].frame.num < t[j].frame.num
      BY DEF InSequence
  <2>1. n + i < n + j
      BY <1>1, <1>2
  <2> QED
      BY <1>3, <2>1 DEF InSequence
<1>5. NoGaps(t)
  <2> SUFFICES ASSUME NEW i \in 1..Len(t), NEW m \in t[1].frame.num .. t[i].frame.num
               PROVE  \E k \in 1..Len(t) : t[k].frame.num = m
      BY DEF NoGaps
  <2>1. 1 \in 1..Len(t) /\ 1 \in 1..Len(s)
      BY <1>1, <1>2
  <2>2. /\ n + 1 \in 1..Len(s) /\ t[1] = s[n + 1] /\ n + i \in 1..Len(s) /\ t[i] = s[n + i]
        /\ s[n + 1].frame.num \in Nat /\ s[1].frame.num \in Nat /\ s[n + i].frame.num \in Nat
      BY <1>2, <1>3, <2>1
  <2>3. s[1].frame.num <= s[n + 1].frame.num
    <3>1. CASE n = 0
        BY <2>2, <3>1
    <3>2. CASE n > 0
        BY <2>1, <2>2, <3>2 DEF InSequence
    <3> QED
        BY <3>1, <3>2
  <2>4. m \in s[1].frame.num .. s[n + i].frame.num
      BY <2>2, <2>3
  <2>5. PICK k \in 1..Len(s) : s[k].frame.num = m
      BY <2>2, <2>4 DEF NoGaps
  <2>6. CASE k > n
    <3>1. k - n \in 1..Len(t) /\ n + (k - n) = k
        BY <1>1, <1>2, <2>6
    <3>2. t[k - n] = s[k]
        BY <1>3, <3>1
    <3> QED
        BY <2>5, <3>1, <3>2
  <2>7. CASE k <= n
    <3>1. s[k].frame.num <= s[n + 1].frame.num
        BY <2>2, <2>7 DEF InSequence
    <3>2. t[1].frame.num = m
        BY <2>2, <2>5, <3>1
    <3> QED
        BY <2>1, <3>2
  <2> QED
      BY <1>2, <2>6, <2>7
<1> QED
    BY <1>4, <1>5

LEMMA SequencePrefix ==
    ASSUME NEW T, Framing(T), NEW s \in Seq(Cells(T)), InSequence(s), NoGaps(s),
           NEW n \in 0..Len(s), NEW t, t = SubSeq(s, 1, n)
    PROVE  InSequence(t) /\ NoGaps(t)
<1>1. Len(t) = n /\ \A i \in 1..n : t[i] = s[i]
    BY PrefixProperties
<1>2. Len(s) \in Nat /\ \A k \in 1..Len(s) : s[k].frame.num \in Nat
    BY NumberTypes
<1>3. \A i \in 1..Len(t) : i \in 1..Len(s) /\ t[i] = s[i]
    BY <1>1, <1>2
<1>4. InSequence(t)
    BY <1>3 DEF InSequence
<1>5. NoGaps(t)
  <2> SUFFICES ASSUME NEW i \in 1..Len(t), NEW m \in t[1].frame.num .. t[i].frame.num
               PROVE  \E k \in 1..Len(t) : t[k].frame.num = m
      BY DEF NoGaps
  <2>1. 1 \in 1..Len(t) /\ i \in 1..Len(s) /\ t[1] = s[1] /\ t[i] = s[i]
      BY <1>1, <1>2, <1>3
  <2>2. PICK k \in 1..Len(s) : s[k].frame.num = m
      BY <2>1 DEF NoGaps
  <2>3. CASE k \in 1..n
      BY <1>1, <2>2, <2>3
  <2>4. CASE k \notin 1..n
    <3>1. i < k
        BY <1>1, <1>2, <2>4
    <3>2. s[i].frame.num <= s[k].frame.num
        BY <2>1, <3>1 DEF InSequence
    <3>3. t[i].frame.num = m
        BY <1>2, <2>1, <2>2, <3>2
    <3> QED
        BY <3>3
  <2> QED
      BY <2>3, <2>4
<1> QED
    BY <1>4, <1>5

\* Writing a frame behind a stream.
LEMMA ExtendsAppend ==
    ASSUME NEW T, Framing(T), NEW s \in Seq(Cells(T)), NEW f \in T, NEW t, t = s \o Frame(f)
    PROVE  t \in Seq(Cells(T)) /\ Extends(t, s, f)
<1>1. Frame(f) \in Seq(Cells(T))
    BY FrameProperties DEF Framing
<1>2. /\ Len(Frame(f)) = FrameCells(f)
      /\ \A i \in 1..FrameCells(f) : Frame(f)[i] = [frame |-> f, pos |-> i]
    BY FrameProperties DEF Framing
<1>3. /\ s \o Frame(f) \in Seq(Cells(T))
      /\ Len(s \o Frame(f)) = Len(s) + Len(Frame(f))
      /\ \A i \in 1..Len(s) : (s \o Frame(f))[i] = s[i]
    BY <1>1, ConcatCells, Zenon
<1>4. \A i \in 1..Len(Frame(f)) : (s \o Frame(f))[Len(s) + i] = Frame(f)[i]
    BY <1>1, ConcatCells, SMT
<1> QED
    BY <1>2, <1>3, <1>4, Zenon DEF Extends

\* Its cells, one by one.
CellByCell(t, s, f) ==
    /\ Len(s) \in Nat /\ FrameCells(f) \in Nat \ {0}
    /\ Len(t) = Len(s) + FrameCells(f)
    /\ \A k \in 1..Len(s) : k \in 1..Len(t) /\ t[k] = s[k]
    /\ \A k \in 1..Len(t) :
          k \notin 1..Len(s) => k > Len(s) /\ t[k].frame = f /\ t[k].pos = k - Len(s)

LEMMA ExtendedCells ==
    ASSUME NEW T, Framing(T), NEW s \in Seq(Cells(T)), NEW f \in T,
           NEW t \in Seq(Cells(T)), Extends(t, s, f)
    PROVE  CellByCell(t, s, f)
<1>0. f.len \in Nat /\ Len(s) \in Nat
    BY DEF Framing
<1>1. FrameCells(f) \in Nat \ {0}
    BY <1>0, FrameCellsType
<1>2. /\ Len(t) = Len(s) + FrameCells(f)
      /\ \A i \in 1..Len(s) : t[i] = s[i]
      /\ \A i \in 1..FrameCells(f) : t[Len(s) + i] = [frame |-> f, pos |-> i]
    BY DEF Extends
<1>3. ASSUME NEW k \in 1..Len(t), k \notin 1..Len(s)
      PROVE  k > Len(s) /\ t[k].frame = f /\ t[k].pos = k - Len(s)
  <2>1. k > Len(s) /\ k - Len(s) \in 1..FrameCells(f) /\ Len(s) + (k - Len(s)) = k
      BY <1>0, <1>1, <1>2, <1>3
  <2>2. t[Len(s) + (k - Len(s))] = [frame |-> f, pos |-> k - Len(s)]
      BY <1>2, <2>1, Zenon
  <2> QED
      BY <2>1, <2>2
<1>4. ASSUME NEW k \in 1..Len(s) PROVE k \in 1..Len(t)
    BY <1>0, <1>1, <1>2
<1> QED
    BY <1>0, <1>1, <1>2, <1>3, <1>4, Zenon DEF CellByCell

LEMMA SequenceExtend ==
    ASSUME NEW T, Framing(T), NEW s \in Seq(Cells(T)), InSequence(s), NoGaps(s),
           NEW f \in T, Follows(f, s),
           NEW t \in Seq(Cells(T)), Extends(t, s, f)
    PROVE  InSequence(t) /\ NoGaps(t)
<1> DEFINE n == Len(s)
           c == FrameCells(f)
<1>0. CellByCell(t, s, f)
    BY ExtendedCells, Zenon
<1>1. /\ n \in Nat /\ c \in Nat \ {0} /\ Len(t) = n + c
      /\ \A k \in 1..n : k \in 1..Len(t) /\ t[k] = s[k]
      /\ \A k \in 1..Len(t) : k \notin 1..n => k > n /\ t[k].frame = f /\ t[k].pos = k - n
    BY <1>0, Zenon DEF CellByCell
<1>2. \A k \in 1..n : s[k].frame.num \in Nat
    BY NumberTypes
<1>3. f.num \in Nat
    BY DEF Framing
<1> HIDE DEF n, c
<1>4. ASSUME NEW k \in 1..n PROVE s[k].frame.num < f.num /\ s # <<>> /\ n \in 1..n
  <2>1. n \in 1..n /\ s # <<>>
      BY <1>1 DEF n
  <2>2. f.num = s[n].frame.num + 1
      BY <2>1 DEF Follows, n
  <2>3. s[k].frame.num <= s[n].frame.num
    <3>1. CASE k = n
        BY <1>2, <2>1, <3>1
    <3>2. CASE k < n
        BY <2>1, <3>2 DEF InSequence, n
    <3> QED
        BY <1>1, <3>1, <3>2
  <2> QED
      BY <1>2, <2>1, <2>2, <2>3
<1>5. InSequence(t)
  <2> SUFFICES ASSUME NEW i \in 1..Len(t), NEW j \in 1..Len(t), i < j
               PROVE  /\ t[i].frame.num <= t[j].frame.num
                      /\ t[i].pos = FrameCells(t[i].frame) => t[i].frame.num < t[j].frame.num
      BY DEF InSequence
  <2>1. CASE j \in 1..n
    <3>1. i \in 1..n /\ t[i] = s[i] /\ t[j] = s[j]
        BY <1>1, <2>1
    <3> QED
        BY <2>1, <3>1 DEF InSequence, n
  <2>2. CASE j \notin 1..n /\ i \in 1..n
    <3>1. t[i] = s[i] /\ t[j].frame = f
        BY <1>1, <2>2
    <3> QED
        BY <1>2, <1>3, <1>4, <2>2, <3>1
  <2>3. CASE i \notin 1..n
    <3>1. i > n /\ j > n /\ t[i].frame = f /\ t[j].frame = f /\ t[i].pos = i - n
        BY <1>1, <2>3
    <3>2. i - n < c
        BY <1>1, <3>1
    <3> QED
        BY <1>1, <1>3, <3>1, <3>2 DEF c
  <2> QED
      BY <2>1, <2>2, <2>3
<1>6. NoGaps(t)
  <2> SUFFICES ASSUME NEW i \in 1..Len(t), NEW m \in t[1].frame.num .. t[i].frame.num
               PROVE  \E k \in 1..Len(t) : t[k].frame.num = m
      BY DEF NoGaps
  <2>0. 1 \in 1..Len(t) /\ Len(t) \in 1..Len(t) /\ t[Len(t)].frame = f
      BY <1>1
  <2>1. CASE m = f.num
      BY <2>0, <2>1
  <2>2. CASE m # f.num /\ s = <<>>
    <3>1. t[1].frame = f /\ t[i].frame = f
        BY <1>1, <2>0, <2>2, EmptyIsSeq DEF n
    <3> QED
        BY <1>3, <2>2, <3>1
  <2>3. CASE m # f.num /\ s # <<>>
    <3>1. 1 \in 1..n /\ n \in 1..n /\ t[1] = s[1] /\ f.num = s[n].frame.num + 1
        BY <1>1, <2>0, <2>3 DEF Follows, n
    <3>2. t[i].frame.num <= f.num /\ t[i].frame.num \in Nat
      <4>1. CASE i \in 1..n
        <5>1. s[i].frame.num < f.num /\ s[i].frame.num \in Nat /\ t[i] = s[i]
            BY <1>1, <1>2, <1>4, <4>1
        <5> QED
            BY <1>3, <5>1
      <4>2. CASE i \notin 1..n
        <5>1. t[i].frame = f
            BY <1>1, <4>2
        <5> QED
            BY <1>3, <5>1
      <4> QED
          BY <4>1, <4>2
    <3>3. m \in s[1].frame.num .. s[n].frame.num
      <4>1. s[1].frame.num \in Nat /\ s[n].frame.num \in Nat
          BY <1>2, <3>1
      <4>2. m \in s[1].frame.num .. t[i].frame.num
          BY <3>1
      <4> QED
          BY <1>3, <2>3, <3>1, <3>2, <4>1, <4>2, SMTT(40)
    <3>4. PICK k \in 1..n : s[k].frame.num = m
        BY <3>1, <3>3 DEF NoGaps, n
    <3>5. k \in 1..Len(t) /\ t[k] = s[k]
        BY <1>1
    <3> QED
        BY <3>4, <3>5
  <2> QED
      BY <2>1, <2>2, <2>3
<1> QED
    BY <1>5, <1>6

LEMMA SequenceAppend ==
    ASSUME NEW T, Framing(T), NEW s \in Seq(Cells(T)), InSequence(s), NoGaps(s),
           NEW f \in T, Follows(f, s), NEW t, t = s \o Frame(f)
    PROVE  InSequence(t) /\ NoGaps(t) /\ CellByCell(t, s, f)
<1>1. t \in Seq(Cells(T)) /\ Extends(t, s, f)
    BY ExtendsAppend, Zenon
<1>2. InSequence(t) /\ NoGaps(t)
    BY <1>1, SequenceExtend, Zenon
<1>3. CellByCell(t, s, f)
    BY <1>1, ExtendedCells, Zenon
<1> QED
    BY <1>2, <1>3

-----------------------------------------------------------------------------
(* The stream of an untorn connection                                       *)

\* d2c is a gapless run of what lldpd has pushed, ...
InOrder ==
    /\ InSequence(d2c) /\ NoGaps(d2c)
    /\ \A k \in 1..Len(d2c) : d2c[k].frame.num <= pushed

\* ... no more of it has been taken than was pushed, nor more pushed than asked
\* for, and each item of a Subscription took a frame.
Counted ==
    /\ taken <= pushed
    /\ ~dsub => pushed <= sent
    /\ mode = "Subscription" => base + Len(seen) + (IF TookItem THEN 1 ELSE 0) <= taken

OrderInv == ~skewed => InOrder /\ Counted

\* What the type of a frame says of the request with its number.
Told(f) ==
    /\ applied' \in {applied, applied \cup {f.num}}
    /\ f.ty = "SetPort" => f.num \in applied'
    /\ f.ty = "None" => applied' = applied

\* A pushed frame is the next one, it tells what was done, and there was a
\* request for it unless the connection is subscribed.
LEMMA PushFacts ==
    ASSUME Parts, Serve \/ Notify
    PROVE  \E f \in FrameType :
              /\ Push(f) /\ f.num = pushed + 1 /\ Follows(f, d2c) /\ Told(f)
              /\ ~dsub => pushed + 1 <= sent
<1>a. /\ TypeOK /\ Framing(CallType) /\ c2d \in Seq(Cells(CallType)) /\ Len(c2d) \in Nat
      /\ pushed \in Nat
    BY FramingTypes, StreamTypes DEF Parts
<1>b. ~hup
    BY DEF Serve, Honour, Refuse, RefuseGarbled, WholeRequest, Notify
<1>c. ASSUME NEW f, f.num = pushed + 1 PROVE Follows(f, d2c)
    BY <1>b, <1>c DEF Follows, EndsAt, Parts, ReplyStream
<1> DEFINE q == c2d[1].frame
<1>d. ASSUME c2d # <<>> PROVE q \in CallType /\ q.num = pushed + 1 /\ pushed + 1 <= sent
  <2>1. 1 \in 1..Len(c2d)
      BY <1>a, <1>d
  <2>2. q \in CallType
      BY <1>a, <2>1, CellProperties
  <2>3. ~dsub
      BY <1>d DEF Parts, SubscribeIsLast
  <2>4. q.num = pushed + 1 /\ q.num <= sent
      BY <1>b, <1>d, <2>1, <2>3 DEF Parts, RequestStream, StartsAt
  <2> QED
      BY <2>2, <2>4
<1>1. CASE Honour
  <2>1. PICK f \in Faulty(Reply(q)) : Push(f)
      BY <1>1 DEF Honour
  <2>2. c2d # <<>> /\ CanHonour(q)
      BY <1>1 DEF Honour, WholeRequest
  <2>3. f \in FrameType
      BY <1>a, <1>d, <2>2, PushedTypes, ReplyTypes
  <2>4. f.num = q.num /\ f.ty \in {q.ty, "Other"}
      BY DEF Faulty, Reply
  <2>5. applied' = IF q.ty = "SetPort" THEN applied \cup {q.num} ELSE applied
      BY <1>1, Zenon DEF Honour
  <2>6. Told(f)
      BY <2>4, <2>5 DEF Told
  <2> QED
      BY <1>c, <1>d, <2>1, <2>2, <2>3, <2>4, <2>6
<1>2. CASE Refuse
  <2>0. PICK f \in Rejections(q.num) : Push(f)
      BY <1>2 DEF Refuse
  <2>1. c2d # <<>>
      BY <1>2 DEF Refuse, WholeRequest
  <2>2. q.num \in Nat
      BY <1>a, <1>d, <2>1
  <2>3. f \in FrameType /\ f.num = q.num /\ f.ty = "None"
      BY <2>2, RejectionTypes
  <2>4. Told(f)
      BY <1>2, <2>3 DEF Told, Refuse
  <2> QED
      BY <1>c, <1>d, <2>0, <2>1, <2>3, <2>4
<1>3. CASE RefuseGarbled
  <2>1. /\ c2d # <<>> /\ ~hup /\ c2d[1].pos = 1 /\ q.len <= HMSG_MAX_SIZE
        /\ Len(c2d) >= FrameCells(q) /\ ~WholeRequest
      BY <1>3 DEF RefuseGarbled
  <2>2. SubSeq(c2d, 1, FrameCells(q)) = Frame(q)
      BY <1>a, <2>1, WholeAtHead DEF Parts, RequestStream
  <2> QED
      BY <2>1, <2>2 DEF WholeRequest
<1>4. CASE Notify
  <2>1. PICK f \in Faulty(Notification(pushed + 1)) : Push(f)
      BY <1>4 DEF Notify
  <2>2. dsub
      BY <1>4 DEF Notify
  <2>3. Notification(pushed + 1) \in FrameType
      BY <1>a, EmptyIsSeq DEF Notification, FrameType, HmsgType, BodyType
  <2>4. f \in FrameType /\ f.num = pushed + 1 /\ Told(f)
      BY <1>4, <2>1, <2>3, PushedTypes DEF Faulty, Notification, Told, Notify
  <2> QED
      BY <1>c, <2>1, <2>2, <2>4
<1> QED
    BY <1>1, <1>2, <1>3, <1>4 DEF Serve

\* What lldpd does to d2c.
LEMMA OrderPush ==
    ASSUME Parts, InOrder, Serve \/ Notify
    PROVE  InOrder'
<1>a. /\ Framing(FrameType) /\ d2c \in Seq(Cells(FrameType)) /\ Len(d2c) \in Nat
      /\ pushed \in Nat
    BY FramingTypes, StreamTypes DEF Parts
<1>1. PICK f \in FrameType : Push(f) /\ f.num = pushed + 1 /\ Follows(f, d2c)
    BY PushFacts
<1>2. d2c' = d2c \o Frame(f) /\ pushed' = pushed + 1
    BY <1>1 DEF Push
<1>3. InSequence(d2c) /\ NoGaps(d2c)
    BY DEF InOrder
<1>b. InSequence(d2c') /\ NoGaps(d2c') /\ CellByCell(d2c', d2c, f)
    BY <1>a, <1>1, <1>2, <1>3, SequenceAppend, Zenon
<1>4. \A k \in 1..Len(d2c') : d2c'[k].frame = f \/ (k \in 1..Len(d2c) /\ d2c'[k] = d2c[k])
    BY <1>b, Zenon DEF CellByCell
<1>5. ASSUME NEW k \in 1..Len(d2c') PROVE d2c'[k].frame.num <= pushed'
  <2>1. CASE d2c'[k].frame = f
      BY <1>a, <1>1, <1>2, <2>1
  <2>2. CASE k \in 1..Len(d2c) /\ d2c'[k] = d2c[k]
    <3>1. d2c[k].frame.num <= pushed /\ d2c[k].frame.num \in Nat
        BY <1>a, <2>2, NumberTypes DEF InOrder
    <3> QED
        BY <1>a, <1>2, <2>2, <3>1
  <2> QED
      BY <1>4, <2>1, <2>2
<1> QED
    BY <1>b, <1>5 DEF InOrder

\* What reading and losing cells do to it.
LEMMA OrderRead ==
    ASSUME TypeOK, InOrder, pushed' = pushed,
           \/ \E n \in 0..Len(d2c) : d2c' = After(d2c, n) \/ d2c' = SubSeq(d2c, 1, n)
           \/ d2c' = <<>> \/ d2c' = d2c
    PROVE  InOrder'
<1>0. Framing(FrameType) /\ d2c \in Seq(Cells(FrameType)) /\ Len(d2c) \in Nat
    BY FramingTypes, StreamTypes
<1>a. InSequence(d2c) /\ NoGaps(d2c) /\ \A k \in 1..Len(d2c) : d2c[k].frame.num <= pushed
    BY DEF InOrder
<1>1. ASSUME NEW n \in 0..Len(d2c), d2c' = After(d2c, n) PROVE InOrder'
  <2>1. InSequence(d2c') /\ NoGaps(d2c')
      BY <1>0, <1>1, <1>a, SequenceAfter, Zenon
  <2>2. Len(d2c') = Len(d2c) - n /\ \A i \in 1..(Len(d2c) - n) : d2c'[i] = d2c[n + i]
      BY <1>0, <1>1, AfterProperties
  <2>3. \A i \in 1..Len(d2c') : n + i \in 1..Len(d2c) /\ d2c'[i] = d2c[n + i]
      BY <1>0, <2>2
  <2>4. \A i \in 1..Len(d2c') : d2c'[i].frame.num <= pushed'
      BY <1>a, <2>3
  <2> QED
      BY <2>1, <2>4 DEF InOrder
<1>2. ASSUME NEW n \in 0..Len(d2c), d2c' = SubSeq(d2c, 1, n) PROVE InOrder'
  <2>1. InSequence(d2c') /\ NoGaps(d2c')
      BY <1>0, <1>2, <1>a, SequencePrefix, Zenon
  <2>2. Len(d2c') = n /\ \A i \in 1..n : d2c'[i] = d2c[i]
      BY <1>0, <1>2, PrefixProperties
  <2>3. \A i \in 1..Len(d2c') : i \in 1..Len(d2c) /\ d2c'[i] = d2c[i]
      BY <1>0, <2>2
  <2>4. \A i \in 1..Len(d2c') : d2c'[i].frame.num <= pushed'
      BY <1>a, <2>3
  <2> QED
      BY <2>1, <2>4 DEF InOrder
<1>3. CASE d2c' = <<>>
    BY <1>3, EmptyIsSeq DEF InOrder, InSequence, NoGaps
<1>4. CASE d2c' = d2c
    BY <1>4 DEF InOrder
<1> QED
    BY <1>1, <1>2, <1>3, <1>4

LEMMA OrderCaller ==
    ASSUME Parts, InOrder, Counted, Caller, ~skewed'
    PROVE  InOrder' /\ Counted'
<1>0. TypeOK /\ taken \in Nat /\ base \in Nat /\ Len(seen) \in Nat
    BY StreamTypes DEF Parts, TypeOK, SessionTypeOK
<1>1. UNCHANGED <<d2c, pushed, taken, dsub, sent, seen, base>>
  <2>1. CASE Cancel
      BY <2>1, CancelFacts DEF Cancel, lldpdVars
  <2>2. CASE ~Cancel
      BY <2>2, Zenon DEF Caller, connect_to, connect_to_fails, Drop, Begin, interfaces,
         all_interfaces, subscribe, next, interface, set_port_description, request,
         recv_notification, transportVars, lldpdVars
  <2> QED
      BY <2>1, <2>2
<1>2. InOrder'
    BY <1>0, <1>1, OrderRead
<1>3. mode' = "Subscription" => mode = "Subscription" /\ pc' \in {"idle", "header"}
  <2>1. CASE connect_to \/ connect_to_fails \/ Drop
      BY <2>1 DEF connect_to, connect_to_fails, Drop, transportVars, Parts, Control
  <2>2. CASE next
      BY <2>2 DEF next, recv_notification
  <2>3. CASE Cancel
      BY <2>3 DEF Cancel, DropFuture, Forget, Parts, TypeOK, SessionTypeOK
  <2>4. CASE \E o : Begin(o)
      BY <2>4 DEF Begin
  <2> QED
      BY <2>1, <2>2, <2>3, <2>4 DEF Caller, interfaces, all_interfaces, subscribe, interface,
         set_port_description
<1>4. Counted'
    BY <1>0, <1>1, <1>3 DEF Counted, TookItem
<1> QED
    BY <1>2, <1>4

\* The steps of request() and recv_notification().
LEMMA OrderTransport ==
    ASSUME Parts, InOrder, Counted, TransportStep, ~skewed', UNCHANGED <<lldpdVars, sessionVars>>
    PROVE  InOrder' /\ Counted'
<1>0. /\ TypeOK /\ taken \in Nat /\ base \in Nat /\ Len(seen) \in Nat /\ Len(d2c) \in Nat
      /\ sent \in Nat /\ pushed \in Nat /\ hdr.len \in Nat /\ HeaderCells \in Nat \ {0}
    BY StreamTypes, TransportAssumption DEF Parts, TypeOK, SessionTypeOK
<1>i. UNCHANGED <<mode, op, seen, base, dsub, pushed>>
    BY DEF lldpdVars, sessionVars
<1>1. CASE WriteAll \/ WriteFails
  <2>1. /\ mode = "Client" /\ UNCHANGED <<d2c, taken>> /\ sent' \in {sent, sent + 1}
      BY <1>1 DEF WriteAll, WriteFails, Parts, Control, InStep
  <2> QED
      BY <1>0, <1>i, <2>1, OrderRead DEF Counted
<1>2. CASE ReadHeader
  <2>1. 1 \in 1..Len(d2c) /\ HeaderCells \in 0..Len(d2c) /\ d2c # <<>> /\ pc = "header"
      BY <1>0, <1>2 DEF ReadHeader
  <2>2. d2c[1].pos = 1 /\ d2c[1].frame.num = taken + 1 /\ d2c[1].frame.num <= pushed
      BY <2>1 DEF Parts, ReplyStream, StartsAt, InOrder
  <2>3. d2c' = After(d2c, HeaderCells) /\ taken' = taken + 1 /\ pc' = "payload" /\ sent' = sent
      BY <1>2, Zenon DEF ReadHeader
  <2>4. InOrder'
      BY <1>0, <1>i, <2>1, <2>3, OrderRead
  <2>5. Counted'
      BY <1>0, <1>i, <2>1, <2>2, <2>3 DEF Counted, TookItem
  <2> QED
      BY <2>4, <2>5
<1>3. CASE ReadPayload
  <2>1. /\ pc = "payload" /\ hdr.len \in 0..Len(d2c) /\ d2c' = After(d2c, hdr.len)
        /\ UNCHANGED <<taken, sent>>
      BY <1>0, <1>3 DEF ReadPayload
  <2>2. InOrder'
      BY <1>0, <1>i, <2>1, OrderRead
  <2>3. Counted'
      BY <1>0, <1>i, <2>1 DEF Counted, TookItem
  <2> QED
      BY <2>2, <2>3
<1>4. CASE ReadEof
  <2>1. /\ d2c' = <<>> /\ pc' = "done" /\ UNCHANGED <<taken, sent>>
        /\ ret'.kind = (IF reset THEN "ConnectionReset" ELSE "UnexpectedEof")
      BY <1>4 DEF ReadEof, Return
  <2>2. InOrder'
      BY <1>0, <1>i, <2>1, OrderRead
  <2>3. mode = "Subscription" => ~reset
      BY DEF Parts, ItemsInOrder, SubscribeIsLast
  <2>4. mode' = "Subscription" => ~TookItem'
      BY <1>i, <2>1, <2>3 DEF TookItem
  <2>5. Counted'
      BY <1>0, <1>i, <2>1, <2>4 DEF Counted
  <2> QED
      BY <2>2, <2>5
<1> QED
    BY <1>1, <1>2, <1>3, <1>4 DEF TransportStep

LEMMA OrderMethod ==
    ASSUME Parts, InOrder, Counted, Method, ~skewed'
    PROVE  InOrder' /\ Counted'
<1>0. /\ TypeOK /\ taken \in Nat /\ base \in Nat /\ seen \in Seq(ItemType) /\ Len(seen) \in Nat
    BY StreamTypes DEF Parts, TypeOK, SessionTypeOK
<1>1. CASE TransportStep /\ UNCHANGED <<lldpdVars, sessionVars>>
    BY <1>1, OrderTransport
<1>2. CASE ~(TransportStep /\ UNCHANGED <<lldpdVars, sessionVars>>)
  <2>1. UNCHANGED <<d2c, pushed, taken, dsub, sent>>
      BY <1>2, Zenon DEF Method, EndInterfaces, EndSetPort, EndSubscribe, EndNext, AllListed,
         AllFetch, AllFetched, AllDone, Release, request, transportVars, lldpdVars
  <2>2. InOrder'
      BY <1>0, <2>1, OrderRead
  <2>3. CASE EndNext
    <3>1. /\ pc = "done" /\ pc' = "idle" /\ mode = "Subscription" /\ UNCHANGED <<mode, base>>
          /\ IF ret.kind = "UnexpectedEof" THEN seen' = seen
             ELSE seen' = Append(seen, [note |-> ret.num, kind |-> Decoded(ret)])
        BY <2>3 DEF EndNext, Release, Forget, Parts, Control
    <3>2. [note |-> ret.num, kind |-> Decoded(ret)] \in ItemType
        BY OutcomeTypes DEF Parts, ItemType
    <3>3. ret.kind # "UnexpectedEof" => Len(seen') = Len(seen) + 1
        BY <1>0, <3>1, <3>2
    <3> QED
        BY <1>0, <2>1, <2>2, <3>1, <3>3 DEF Counted, TookItem
  <2>4. CASE EndSubscribe
    <3>1. /\ pc = "done" /\ pc' = "idle" /\ mode = "Client" /\ cur.ty = "Subscribe" /\ seen = <<>>
          /\ mode' = (IF ret.kind = "Ok" THEN "Subscription" ELSE "none") /\ base' = ret.num
          /\ seen' = seen
        BY <2>4 DEF Parts, Control, EndSubscribe, Release, Forget
    <3>2. ret.kind = "Ok" => ret.num = taken
        BY <3>1 DEF Parts, SubscribeIsLast
    <3> QED
        BY <1>0, <2>1, <2>2, <3>1, <3>2, EmptyIsSeq DEF Counted, TookItem
  <2>5. CASE ~EndNext /\ ~EndSubscribe
    <3>1. mode = "Client" /\ mode' = mode
        BY <1>2, <2>5 DEF Method, EndInterfaces, EndSetPort, AllListed, AllFetch, AllFetched,
           AllDone, Parts, Control
    <3> QED
        BY <2>1, <2>2, <3>1 DEF Counted
  <2> QED
      BY <2>3, <2>4, <2>5
<1> QED
    BY <1>1, <1>2

LEMMA OrderDaemon ==
    ASSUME Parts, InOrder, Counted, Daemon
    PROVE  InOrder' /\ Counted'
<1>0. TypeOK /\ taken \in Nat /\ pushed \in Nat /\ sent \in Nat
    BY StreamTypes DEF Parts
<1>i. UNCHANGED <<taken, sent, mode, seen, base, pc, ret>>
    BY Zenon DEF Daemon, Serve, Honour, Refuse, RefuseGarbled, Notify, Hangup, IfUp, IfDown,
       transportVars, sessionVars
<1>1. CASE Serve \/ Notify
  <2>1. InOrder'
      BY <1>1, OrderPush
  <2>2. pushed' = pushed + 1 /\ (~dsub => pushed + 1 <= sent)
      BY <1>1, PushFacts DEF Push
  <2>3. dsub => dsub'
      BY <1>1, Zenon DEF Serve, Honour, Refuse, RefuseGarbled, Notify
  <2>4. Counted'
      BY <1>0, <1>i, <2>2, <2>3 DEF Counted, TookItem
  <2> QED
      BY <2>1, <2>4
<1>2. CASE ~(Serve \/ Notify)
  <2>1. UNCHANGED <<pushed, dsub>> /\ (Hangup \/ d2c' = d2c)
      BY <1>2, Zenon DEF Daemon, Hangup, IfUp, IfDown, transportVars, lldpdVars
  <2>2. InOrder'
      BY <1>0, <2>1, OrderRead DEF Hangup
  <2> QED
      BY <1>i, <2>1, <2>2 DEF Counted, TookItem
<1> QED
    BY <1>1, <1>2

LEMMA OrderStep ==
    ASSUME SessionInv, OrderInv, [Next]_vars
    PROVE  OrderInv'
<1> SUFFICES ASSUME ~skewed' PROVE InOrder' /\ Counted'
    BY DEF OrderInv
<1>1. ~skewed
    BY SkewedStays DEF SessionInv
<1>2. Parts /\ InOrder /\ Counted
    BY <1>1 DEF SessionInv, Sound, Parts, OrderInv
<1>3. CASE UNCHANGED vars
    BY <1>2, <1>3 DEF vars, transportVars, lldpdVars, sessionVars, InOrder, Counted, TookItem
<1> QED
    BY <1>2, <1>3, OrderCaller, OrderMethod, OrderDaemon DEF Next

LEMMA OrderInvariant == Spec => [](SessionInv /\ OrderInv)
<1>1. Init => OrderInv
    BY EmptyIsSeq DEF Init, TransportInit, LldpdInit, OrderInv, InOrder, Counted, InSequence, NoGaps
<1>2. SessionInv /\ OrderInv /\ [Next]_vars => OrderInv'
    BY OrderStep
<1> QED
    BY <1>1, <1>2, SessionInvariant, PTL DEF Spec

\* The numbers in a gapless run are an interval.
LEMMA Waiting ==
    ASSUME NEW T, Framing(T), NEW s \in Seq(Cells(T)), InSequence(s), NoGaps(s), s # <<>>
    PROVE  /\ Len(s) \in 1..Len(s)
           /\ {s[k].frame.num : k \in DOMAIN s} = s[1].frame.num .. s[Len(s)].frame.num
<1>0. Len(s) \in Nat /\ \A k \in 1..Len(s) : s[k].frame.num \in Nat
    BY NumberTypes
<1>1. DOMAIN s = 1..Len(s) /\ 1 \in 1..Len(s) /\ Len(s) \in 1..Len(s)
    BY <1>0
<1>2. ASSUME NEW k \in 1..Len(s)
      PROVE  s[k].frame.num \in s[1].frame.num .. s[Len(s)].frame.num
  <2>1. k = 1 \/ s[1].frame.num <= s[k].frame.num
      BY <1>0, <1>1 DEF InSequence
  <2>2. k = Len(s) \/ s[k].frame.num <= s[Len(s)].frame.num
    <3>1. k = Len(s) \/ k < Len(s)
        BY <1>0
    <3> QED
        BY <1>1, <3>1 DEF InSequence
  <2>3. s[1].frame.num \in Nat /\ s[k].frame.num \in Nat /\ s[Len(s)].frame.num \in Nat
      BY <1>0, <1>1
  <2> QED
      BY <2>1, <2>2, <2>3
<1>3. \A n \in s[1].frame.num .. s[Len(s)].frame.num : \E k \in 1..Len(s) : s[k].frame.num = n
    BY <1>1 DEF NoGaps
<1> QED
    BY <1>1, <1>2, <1>3

\* Subscription and AsyncSubscription: every notification is returned once, in
\* order, and the ones that have not been are in the stream, unless lldpd has
\* closed it; for any number of notifications, however many futures of next()
\* are dropped between two frames.
THEOREM NotesNeverLost == Spec => []NoNoteLost
<1>1. SessionInv /\ OrderInv => NoNoteLost
  <2> SUFFICES ASSUME SessionInv, OrderInv, mode = "Subscription", ~skewed
               PROVE  /\ \A i \in DOMAIN seen : seen[i].note = base + i
                      /\ op = "none" =>
                           LET waiting == {d2c[k].frame.num : k \in DOMAIN d2c}
                               next1 == base + Len(seen) + 1
                           IN  /\ ~hup => waiting = next1..pushed
                               /\ \E m \in next1 - 1..pushed : waiting = next1..m
      BY DEF NoNoteLost
  <2>a. /\ TypeOK /\ Control /\ ReplyStream /\ ItemsInOrder /\ InOrder /\ Counted
      BY DEF SessionInv, Sound, OrderInv
  <2>b. /\ Framing(FrameType) /\ d2c \in Seq(Cells(FrameType)) /\ taken \in Nat /\ pushed \in Nat
        /\ base \in Nat /\ seen \in Seq(ItemType) /\ Len(seen) \in Nat
      BY <2>a, FramingTypes, StreamTypes DEF TypeOK, SessionTypeOK
  <2>1. \A i \in DOMAIN seen : seen[i].note = base + i
    <3>1. DOMAIN seen = 1..Len(seen)
        BY <2>b
    <3> QED
        BY <2>a, <3>1 DEF ItemsInOrder
  <2> DEFINE waiting == {d2c[k].frame.num : k \in DOMAIN d2c}
             next1 == base + Len(seen) + 1
  <2>2. ASSUME op = "none"
        PROVE  (~hup => waiting = next1..pushed) /\ \E m \in next1 - 1..pushed : waiting = next1..m
    <3>1. pc = "idle" /\ ~TookItem
        BY <2>2, <2>a DEF Control, TookItem
    <3>2. /\ base + Len(seen) <= taken /\ taken <= pushed
          /\ (hup /\ d2c = <<>>) \/ base + Len(seen) = taken
        BY <2>a, <2>b, <3>1 DEF ItemsInOrder, Counted
    <3>3. CASE d2c = <<>>
      <4>1. waiting = {}
          BY <3>3
      <4>2. ~hup => next1 = pushed + 1
          BY <2>a, <2>b, <3>2, <3>3 DEF ReplyStream
      <4>3. next1 - 1 \in next1 - 1..pushed /\ next1..(next1 - 1) = {}
          BY <2>b, <3>2
      <4>4. ~hup => next1..pushed = {}
          BY <2>b, <4>2
      <4> HIDE DEF waiting, next1
      <4> QED
          BY <4>1, <4>3, <4>4
    <3>4. CASE d2c # <<>>
      <4> DEFINE m == d2c[Len(d2c)].frame.num
      <4>1. Len(d2c) \in 1..Len(d2c) /\ waiting = d2c[1].frame.num .. m
          BY <2>a, <2>b, <3>4, Waiting DEF InOrder
      <4>2. d2c[1].frame.num = next1 /\ taken + 1 = next1
          BY <2>a, <2>b, <3>1, <3>2, <3>4 DEF ReplyStream, StartsAt
      <4>3. m <= pushed /\ m \in Nat /\ (~hup => m = pushed)
        <5>1. m <= pushed
            BY <2>a, <4>1 DEF InOrder
        <5>2. m \in Nat
            BY <2>b, <4>1, NumberTypes
        <5>3. ~hup => m = pushed
            BY <2>a, <3>4 DEF ReplyStream, EndsAt
        <5> QED
            BY <5>1, <5>2, <5>3
      <4>4. next1 <= m
        <5>1. 1 \in 1..Len(d2c)
            BY <2>b, <3>4
        <5>2. Len(d2c) = 1 \/ d2c[1].frame.num <= m
            BY <2>a, <2>b, <4>1, <5>1 DEF InOrder, InSequence
        <5> QED
            BY <2>b, <4>2, <4>3, <5>2
      <4>5. m \in next1 - 1..pushed
          BY <2>b, <4>3, <4>4
      <4> HIDE DEF waiting, next1, m
      <4> QED
          BY <4>1, <4>2, <4>3, <4>5
    <3> QED
        BY <3>3, <3>4
  <2> QED
      BY <2>1, <2>2
<1> QED
    BY <1>1, OrderInvariant, PTL

=============================================================================
