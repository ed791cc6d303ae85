------------------------------- MODULE Lldpd -------------------------------
(***************************************************************************)
(* lldpd at the other end of the connection, as far as the client relies   *)
(* on it (external: it is not part of this repository).  It takes whole    *)
(* requests in order and pushes one reply for each; once subscribed it     *)
(* also pushes notifications; interfaces come and go; it may close the     *)
(* connection at any moment.  Faults says in which ways its frames may be  *)
(* other than the client expects.                                          *)
(***************************************************************************)
EXTENDS Transport

CONSTANTS
    InitialIfs,  \* the interfaces lldpd knows at first
    Faults,      \* a subset of FaultKind
    MaxFlaps,    \* bound: how often an interface comes or goes
    MaxNotes     \* bound: notifications that lldpd pushes

VARIABLES
    ifs,      \* the interfaces lldpd knows, in the order it lists them
    dsub,     \* the connection is subscribed
    applied,  \* ids of the SET_PORT requests that lldpd carried out
    pushed,   \* frames pushed to the client
    notes,    \* of which notifications
    flaps     \* interface arrivals and departures so far

lldpdVars == <<ifs, dsub, applied, pushed, notes, flaps>>

FaultKind == {"undecodable", "wrong_type", "oversize", "reject", "none_payload"}

ASSUME LldpdAssumption ==
    /\ InitialIfs \in Seq(Iface)
    /\ \A j, k \in DOMAIN InitialIfs : InitialIfs[j] = InitialIfs[k] => j = k
    /\ Faults \subseteq FaultKind
    /\ MaxFlaps \in Nat /\ MaxNotes \in Nat

Known == {ifs[k] : k \in DOMAIN ifs}

LldpdInit ==
    /\ ifs = InitialIfs
    /\ dsub = FALSE /\ applied = {}
    /\ pushed = 0 /\ notes = 0 /\ flaps = 0

-----------------------------------------------------------------------------
(* Frames that lldpd builds.  Replies with data are as long as a payload    *)
(* may be.                                                                 *)

Reply(q) ==
    [ty   |-> q.ty,
     len  |-> IF q.ty \in {"GetInterfaces", "GetInterface"} THEN HMSG_MAX_SIZE ELSE 0,
     num  |-> q.num,
     body |-> IF q.ty = "GetInterfaces" THEN ifs
              ELSE IF q.ty = "GetInterface" THEN <<q.arg[1]>> ELSE <<>>]

Notification(n) == [ty |-> "Notification", len |-> 1, num |-> n, body |-> <<>>]

Rejections(n) ==
    [ty : {"None"}, len : {0} \cup (IF "none_payload" \in Faults THEN {1} ELSE {}),
     num : {n}, body : {<<>>}]

\* What may reach the client instead of a well-formed frame f.
Faulty(f) ==
    [ty   : {f.ty} \cup (IF "wrong_type" \in Faults THEN {"Other"} ELSE {}),
     len  : {f.len} \cup (IF "oversize" \in Faults THEN {HMSG_MAX_SIZE + 1} ELSE {}),
     num  : {f.num},
     body : {f.body} \cup (IF "undecodable" \in Faults THEN {Bad} ELSE {})]

Push(f) ==
    /\ d2c' = d2c \o Frame(f)
    /\ pushed' = pushed + 1

\* A whole request, of a length that lldpd accepts, is at the head of the stream.
WholeRequest ==
    /\ c2d # <<>> /\ ~hup
    /\ c2d[1].frame.len <= HMSG_MAX_SIZE
    /\ Len(c2d) >= FrameCells(c2d[1].frame)
    /\ SubSeq(c2d, 1, FrameCells(c2d[1].frame)) = Frame(c2d[1].frame)

TakeRequest == c2d' = After(c2d, FrameCells(c2d[1].frame))

\* Not knowing the interface is a reason to say no, and the only one it has
\* for GET_INTERFACE; other requests may be refused as well.
CanHonour(q) == q.ty \in {"GetInterface", "SetPort"} => q.arg[1] \in Known

Honour ==
    /\ WholeRequest
    /\ TakeRequest
    /\ LET q == c2d[1].frame IN
          /\ CanHonour(q)
          /\ \E f \in Faulty(Reply(q)) : Push(f)
          /\ dsub' = (dsub \/ q.ty = "Subscribe")
          /\ applied' = IF q.ty = "SetPort" THEN applied \cup {q.num} ELSE applied
    /\ UNCHANGED <<hup, reset, pc, cur, hdr, ret, sent, taken, orphans, skewed,
                   ifs, notes, flaps>>

Refuse ==
    /\ WholeRequest
    /\ TakeRequest
    /\ \/ ~CanHonour(c2d[1].frame)
       \/ "reject" \in Faults /\ c2d[1].frame.ty # "GetInterface"
    /\ \E f \in Rejections(c2d[1].frame.num) : Push(f)
    /\ UNCHANGED <<hup, reset, pc, cur, hdr, ret, sent, taken, orphans, skewed,
                   ifs, dsub, applied, notes, flaps>>

\* A torn request and what was written after it, read as one request: lldpd
\* cannot decode it and says no (or hangs up).
RefuseGarbled ==
    /\ c2d # <<>> /\ ~hup
    /\ c2d[1].pos = 1 /\ c2d[1].frame.len <= HMSG_MAX_SIZE
    /\ Len(c2d) >= FrameCells(c2d[1].frame)
    /\ ~WholeRequest
    /\ TakeRequest
    /\ \E f \in Rejections(0) : Push(f)
    /\ UNCHANGED <<hup, reset, pc, cur, hdr, ret, sent, taken, orphans, skewed,
                   ifs, dsub, applied, notes, flaps>>

Notify ==
    /\ dsub /\ ~hup /\ notes < MaxNotes
    /\ \E f \in Faulty(Notification(pushed + 1)) : Push(f)
    /\ notes' = notes + 1
    /\ UNCHANGED <<c2d, hup, reset, pc, cur, hdr, ret, sent, taken, orphans, skewed,
                   ifs, dsub, applied, flaps>>

\* lldpd closes the connection, or dies; what it had not flushed is lost.
Hangup ==
    /\ ~hup
    /\ hup' = TRUE
    /\ reset' = (c2d # <<>>)
    /\ c2d' = <<>>
    /\ \E n \in 0..Len(d2c) : d2c' = SubSeq(d2c, 1, n)
    /\ UNCHANGED <<pc, cur, hdr, ret, sent, taken, orphans, skewed>>
    /\ UNCHANGED lldpdVars

\* It does so when the header of a request announces more than the cap.
HangupTooLong ==
    /\ Len(c2d) >= HeaderCells
    /\ c2d[1].pos = 1 /\ c2d[1].frame.len > HMSG_MAX_SIZE
    /\ Hangup

IfUp(i) ==
    /\ flaps < MaxFlaps
    /\ i \notin Known
    /\ ifs' = Append(ifs, i)
    /\ flaps' = flaps + 1
    /\ UNCHANGED <<dsub, applied, pushed, notes>>
    /\ UNCHANGED transportVars

IfDown(i) ==
    /\ flaps < MaxFlaps
    /\ \E k \in DOMAIN ifs :
          /\ ifs[k] = i
          /\ ifs' = SubSeq(ifs, 1, k - 1) \o SubSeq(ifs, k + 1, Len(ifs))
    /\ flaps' = flaps + 1
    /\ UNCHANGED <<dsub, applied, pushed, notes>>
    /\ UNCHANGED transportVars

Serve == Honour \/ Refuse \/ RefuseGarbled

=============================================================================
