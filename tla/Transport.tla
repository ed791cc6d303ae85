----------------------------- MODULE Transport -----------------------------
(***************************************************************************)
(* One control-socket connection and the request()/read_message() that     *)
(* runs on it: src/transport.rs for Client/Subscription, and its twin at   *)
(* the end of src/async_client.rs for AsyncClient/AsyncSubscription.       *)
(*                                                                         *)
(* Each direction of the Unix socket is a sequence of cells.  A frame is   *)
(* HeaderCells cells of header and frame.len cells of payload; a cell      *)
(* remembers the frame it was cut from and its place in it, so a reader    *)
(* that starts in the middle of a frame is visible in the state.           *)
(***************************************************************************)
EXTENDS Naturals, Sequences

CONSTANTS
    HeaderCells,    \* cells in a struct hmsg_header
    HMSG_MAX_SIZE,  \* the largest payload either side accepts, in cells
    Iface,          \* interface names
    Descr,          \* port descriptions
    LongDescr,      \* of which too long for one message
    Bad             \* a payload that the decoder of its type refuses

ASSUME TransportAssumption ==
    /\ HeaderCells \in Nat \ {0}
    /\ HMSG_MAX_SIZE \in Nat \ {0}
    /\ LongDescr \subseteq Descr
    /\ Bad \notin Seq(Iface)

VARIABLES
    c2d,      \* cells the client has written and lldpd has not taken
    d2c,      \* cells lldpd has sent and the client has not taken
    hup,      \* lldpd has closed its end of the connection
    reset,    \* it did so with unread cells: the next read at the end fails
    pc,       \* where the running request()/recv_notification() is
    cur,      \* the message it sent (or waits for): [num, ty, arg, len]
    hdr,      \* the header that read_message decoded
    ret,      \* the Result that request()/recv_notification() returns
    sent,     \* requests written to this connection, whole or torn
    taken,    \* frames the client has taken out of d2c
    orphans,  \* requests whose future was dropped before their reply was read
    skewed    \* a reader of this connection may no longer start on a frame

transportVars ==
    <<c2d, d2c, hup, reset, pc, cur, hdr, ret, sent, taken, orphans, skewed>>

-----------------------------------------------------------------------------
(* HmsgType; "Other" stands for the values of enum hmsg_type without a name *)

RequestType == {"GetInterfaces", "GetInterface", "SetPort", "Subscribe"}
HmsgType == RequestType \cup {"None", "Notification", "Other"}

NoArg == <<>>
NoCall == [num |-> 0, ty |-> "None", arg |-> NoArg, len |-> 0]
NoFrame == [ty |-> "None", len |-> 0, num |-> 0, body |-> <<>>]
NoRet == [kind |-> "none", num |-> 0, body |-> Bad]

FrameCells(f) == HeaderCells + f.len

\* encode_header plus the payload: the cells of one frame, in order.
Frame(f) == [i \in 1..FrameCells(f) |-> [frame |-> f, pos |-> i]]

\* What is left of a stream once n cells have been read from it.
After(s, n) == SubSeq(s, n + 1, Len(s))

-----------------------------------------------------------------------------
(* A body is what the decoder makes of a payload: the interfaces that it   *)
(* lists or describes, or Bad.  A notification is known by its number num.  *)

BodyType == Seq(Iface) \cup {Bad}

\* decode_header on cells that are not the start of a frame: any type, any
\* length up to one past the cap, and a payload that may or may not decode.
GarbageBody(ty) == {Bad} \cup IF ty = "GetInterface" THEN {<<i>> : i \in Iface} ELSE {<<>>}
GarbageHeader ==
    UNION {[ty : {t}, len : 0..(HMSG_MAX_SIZE + 1), num : {0}, body : GarbageBody(t)] :
             t \in HmsgType}

\* decode_header on the first cells of d2c.
decode_header(s) == IF s[1].pos = 1 THEN {s[1].frame} ELSE GarbageHeader

-----------------------------------------------------------------------------
TransportInit ==
    /\ c2d = <<>> /\ d2c = <<>>
    /\ hup = FALSE /\ reset = FALSE
    /\ pc = "idle" /\ cur = NoCall /\ hdr = NoFrame /\ ret = NoRet
    /\ sent = 0 /\ taken = 0 /\ orphans = 0
    /\ skewed = FALSE

-----------------------------------------------------------------------------
(* request(): write_all the frame, then read_message(expected = its type).  *)

\* Mutant: a length that does not fit is cut to the largest that does.
RequestLen_Cut(ty, arg) == IF ty \in {"GetInterface", "SetPort"} THEN 1 ELSE 0

\* The payload of each request: none, or one name/port_set chunk, of whatever
\* length the caller's description has: nothing here compares it with the cap.
RequestLen(ty, arg) ==
    IF ty = "SetPort" /\ arg[2] \in LongDescr THEN HMSG_MAX_SIZE + 1
    ELSE IF ty \in {"GetInterface", "SetPort"} THEN 1 ELSE 0

request(ty, arg) ==
    /\ pc' = "write"
    /\ cur' = [num |-> sent + 1, ty |-> ty, arg |-> arg, len |-> RequestLen(ty, arg)]
    /\ ret' = NoRet
    /\ UNCHANGED <<c2d, d2c, hup, reset, hdr, sent, taken, orphans, skewed>>

\* recv_notification(): read_message without writing anything first.
recv_notification ==
    /\ pc' = "header"
    /\ cur' = [num |-> 0, ty |-> "Notification", arg |-> NoArg, len |-> 0]
    /\ ret' = NoRet
    /\ UNCHANGED <<c2d, d2c, hup, reset, hdr, sent, taken, orphans, skewed>>

Return(kind, num, body) ==
    /\ pc' = "done"
    /\ ret' = [kind |-> kind, num |-> num, body |-> body]

\* Mutant: a retry of a write that had gone through.
WriteAll_Twice ==
    /\ pc = "write"
    /\ ~hup
    /\ c2d' = c2d \o Frame(cur) \o Frame(cur)
    /\ sent' = cur.num
    /\ pc' = "header"
    /\ UNCHANGED <<d2c, hup, reset, cur, hdr, ret, taken, orphans, skewed>>

\* Mutant: a write into a buffer does not see that the peer is gone.
WriteAll_Buffered ==
    /\ pc = "write"
    /\ c2d' = IF hup THEN c2d ELSE c2d \o Frame(cur)
    /\ sent' = cur.num
    /\ pc' = "header"
    /\ UNCHANGED <<d2c, hup, reset, cur, hdr, ret, taken, orphans, skewed>>

WriteAll ==
    /\ pc = "write"
    /\ ~hup
    /\ c2d' = c2d \o Frame(cur)
    /\ sent' = cur.num
    /\ pc' = "header"
    /\ UNCHANGED <<d2c, hup, reset, cur, hdr, ret, taken, orphans, skewed>>

\* Writing to a socket whose peer is gone: EPIPE, an Error::Io.
WriteFails ==
    /\ pc = "write"
    /\ hup
    /\ Return("BrokenPipe", 0, Bad)
    /\ UNCHANGED <<c2d, d2c, hup, reset, cur, hdr, sent, taken, orphans, skewed>>

\* read_exact(header), decode_header, and the cap on the declared length: an
\* oversized reply is refused before its payload is drained.
ReadHeader ==
    /\ pc = "header"
    /\ Len(d2c) >= HeaderCells
    /\ \E h \in decode_header(d2c) :
          /\ d2c' = After(d2c, HeaderCells)
          /\ taken' = taken + 1
          /\ hdr' = h
          /\ IF h.len > HMSG_MAX_SIZE
             THEN Return("Protocol", h.num, Bad) /\ skewed' = TRUE
             ELSE pc' = "payload" /\ UNCHANGED <<ret, skewed>>
    /\ UNCHANGED <<c2d, hup, reset, cur, sent, orphans>>

\* Mutant: the type is judged before the payload is drained.
ReadPayload_NoDrain ==
    /\ pc = "payload"
    /\ Len(d2c) >= hdr.len
    /\ \/ hdr.ty = "None" /\ Return("RequestRejected", hdr.num, Bad) /\ UNCHANGED d2c
       \/ /\ hdr.ty \notin {"None", cur.ty}
          /\ Return("UnexpectedMessageType", hdr.num, Bad)
          /\ UNCHANGED d2c
       \/ /\ hdr.ty # "None" /\ hdr.ty = cur.ty
          /\ Return("Ok", hdr.num, hdr.body)
          /\ d2c' = After(d2c, hdr.len)
    /\ UNCHANGED <<c2d, hup, reset, cur, hdr, sent, taken, orphans, skewed>>

\* Mutant: NONE is not special-cased and passes for an empty reply.
ReadPayload_NoneIsOk ==
    /\ pc = "payload"
    /\ Len(d2c) >= hdr.len
    /\ d2c' = After(d2c, hdr.len)
    /\ \/ hdr.ty \notin {"None", cur.ty} /\ Return("UnexpectedMessageType", hdr.num, Bad)
       \/ hdr.ty \in {"None", cur.ty} /\ Return("Ok", hdr.num, hdr.body)
    /\ UNCHANGED <<c2d, hup, reset, cur, hdr, sent, taken, orphans, skewed>>

\* read_exact(payload), then what the two checks after it make of the type.
ReadPayload ==
    /\ pc = "payload"
    /\ Len(d2c) >= hdr.len
    /\ d2c' = After(d2c, hdr.len)
    /\ \/ hdr.ty = "None" /\ Return("RequestRejected", hdr.num, Bad)
       \/ hdr.ty \notin {"None", cur.ty} /\ Return("UnexpectedMessageType", hdr.num, Bad)
       \/ hdr.ty # "None" /\ hdr.ty = cur.ty /\ Return("Ok", hdr.num, hdr.body)
    /\ UNCHANGED <<c2d, hup, reset, cur, hdr, sent, taken, orphans, skewed>>

\* Mutant: the end of the stream inside a payload is taken for "not yet".
ReadEof_HeaderOnly ==
    /\ pc = "header"
    /\ hup
    /\ Len(d2c) < HeaderCells
    /\ d2c' = <<>>
    /\ Return(IF reset THEN "ConnectionReset" ELSE "UnexpectedEof", 0, Bad)
    /\ reset' = FALSE
    /\ UNCHANGED <<c2d, hup, cur, hdr, sent, taken, orphans, skewed>>

\* read_exact reaches the end of the stream before its buffer is full: the
\* bytes it did get are gone.  The kernel reports once, as ECONNRESET, that
\* the peer closed without reading everything it was sent.
ReadEof ==
    /\ pc \in {"header", "payload"}
    /\ hup
    /\ Len(d2c) < (IF pc = "header" THEN HeaderCells ELSE hdr.len)
    /\ d2c' = <<>>
    /\ Return(IF reset THEN "ConnectionReset" ELSE "UnexpectedEof", 0, Bad)
    /\ reset' = FALSE
    /\ UNCHANGED <<c2d, hup, cur, hdr, sent, taken, orphans, skewed>>

\* The locals of request()/read_message() die with the call.
Forget == pc' = "idle" /\ cur' = NoCall /\ hdr' = NoFrame /\ ret' = NoRet

\* The future of request()/recv_notification() is dropped at an .await: in
\* write_all after n cells went out, or in a read_exact that had taken n
\* cells into the buffer that dies with the future.
DropFuture ==
    /\ Forget
    /\ \/ /\ pc = "write"
          /\ \E n \in 0..(FrameCells(cur) - 1) :
                /\ c2d' = c2d \o SubSeq(Frame(cur), 1, n)
                /\ sent' = IF n = 0 THEN sent ELSE cur.num
                /\ skewed' = (skewed \/ n > 0)
          /\ UNCHANGED <<d2c, orphans>>
       \/ /\ pc = "header"
          /\ \E n \in 0..(HeaderCells - 1) :
                /\ n <= Len(d2c)
                /\ d2c' = After(d2c, n)
                /\ skewed' = (skewed \/ n > 0)
          /\ orphans' = IF cur.ty = "Notification" THEN orphans ELSE orphans + 1
          /\ UNCHANGED <<c2d, sent>>
       \/ /\ pc = "payload"
          /\ \E n \in 0..(HMSG_MAX_SIZE - 1) :
                /\ n < hdr.len /\ n <= Len(d2c)
                /\ d2c' = After(d2c, n)
          /\ skewed' = TRUE
          /\ UNCHANGED <<c2d, sent, orphans>>
    /\ UNCHANGED <<hup, reset, taken>>

\* The caller has taken the Result of request()/recv_notification().
Release ==
    /\ pc = "done"
    /\ Forget
    /\ UNCHANGED <<c2d, d2c, hup, reset, sent, taken, orphans, skewed>>

TransportStep == WriteAll \/ WriteFails \/ ReadHeader \/ ReadPayload \/ ReadEof

=============================================================================
