---------------------------- MODULE DecodeProofs ----------------------------
(***************************************************************************)
(* Every decoder stays inside every payload and comes to an end: for any   *)
(* Inputs, and either pointer width.                                       *)
(***************************************************************************)
EXTENDS DecodeWalk, CursorLemmas

-----------------------------------------------------------------------------
(* Sequences of anything.                                                   *)

IsSeq(q) == q \in Seq({q[k] : k \in DOMAIN q})

LEMMA SeqIsSeq ==
    ASSUME NEW S, NEW q \in Seq(S)
    PROVE  IsSeq(q) /\ Len(q) \in Nat /\ DOMAIN q = 1..Len(q)
<1>1. Len(q) \in Nat /\ DOMAIN q = 1..Len(q) /\ q \in [1..Len(q) -> S]
    BY LenProperties
<1>2. q \in [1..Len(q) -> {q[k] : k \in DOMAIN q}]
    BY <1>1
<1> QED
    BY <1>1, <1>2, SeqDef DEF IsSeq

LEMMA Concat ==
    ASSUME NEW a, NEW b, IsSeq(a), IsSeq(b)
    PROVE  /\ IsSeq(a \o b) /\ Len(a) \in Nat /\ Len(b) \in Nat
           /\ Len(a \o b) = Len(a) + Len(b)
           /\ \A k \in 1..Len(a \o b) :
                 (a \o b)[k] = IF k <= Len(a) THEN a[k] ELSE b[k - Len(a)]
<1> DEFINE S == {a[k] : k \in DOMAIN a} \cup {b[k] : k \in DOMAIN b}
<1>1. a \in Seq({a[k] : k \in DOMAIN a}) /\ b \in Seq({b[k] : k \in DOMAIN b})
    BY DEF IsSeq
<1>2. Len(a) \in Nat /\ DOMAIN a = 1..Len(a) /\ Len(b) \in Nat /\ DOMAIN b = 1..Len(b)
    BY <1>1, SeqIsSeq
<1>3. a \in [1..Len(a) -> S] /\ b \in [1..Len(b) -> S]
  <2>1. a \in [1..Len(a) -> {a[k] : k \in DOMAIN a}]
        /\ b \in [1..Len(b) -> {b[k] : k \in DOMAIN b}]
      BY <1>1, <1>2, LenProperties
  <2> QED
      BY <2>1
<1>4. a \in Seq(S) /\ b \in Seq(S)
    BY <1>2, <1>3, SeqDef
<1> HIDE DEF S
<1>5. a \o b \in Seq(S)
    BY <1>4, ConcatProperties
<1> QED
    BY <1>2, <1>4, <1>5, ConcatProperties, SeqIsSeq

-----------------------------------------------------------------------------
(* Reads that can be made of a structure, and those that are still to be    *)
(* made when the cursor is at p.                                            *)

Kinds == {"value", "opt", "location", "chassis", "required", "local port", "one port",
          "unchained", "list", "rest", "begin", "cons", "whole", "some"}
TailqName == {"RawInterface", "RawMgmt", "RawVlan", "RawPpvid", "RawPi", "RawPort"}

Fits(s, T) ==
    /\ s.read \in Kinds
    /\ s.read \in {"list", "rest"} => s.ty \in TailqName
    /\ s.read = "local port" => T \in HardwareName /\ s.field = "h_lport"

\* At most n reads of a T.
Legal(reads, T, n) ==
    /\ IsSeq(reads) /\ Len(reads) <= n
    /\ \A k \in 1..Len(reads) : Fits(reads[k], T)

Inside(raw, p) == raw.at \in Nat /\ raw.ty \in StructName /\ raw.at + SizeOf[raw.ty] <= p

Sound(q, p) ==
    /\ IsSeq(q)
    /\ \A k \in 1..Len(q) : Inside(q[k].raw, p) /\ Fits(q[k].do, q[k].raw.ty)

LEMMA LegalConcat ==
    ASSUME NEW a, NEW b, NEW T, NEW m \in Nat, NEW n \in Nat, Legal(a, T, m), Legal(b, T, n)
    PROVE  Legal(a \o b, T, m + n)
<1>1. /\ IsSeq(a \o b) /\ Len(a) \in Nat /\ Len(b) \in Nat /\ Len(a \o b) = Len(a) + Len(b)
      /\ \A k \in 1..Len(a \o b) : (a \o b)[k] = IF k <= Len(a) THEN a[k] ELSE b[k - Len(a)]
    BY Concat DEF Legal
<1>2. \A k \in 1..Len(a \o b) : Fits((a \o b)[k], T)
  <2> SUFFICES ASSUME NEW k \in 1..Len(a \o b) PROVE Fits((a \o b)[k], T)
      OBVIOUS
  <2>1. CASE k <= Len(a)
      BY <1>1, <2>1 DEF Legal
  <2>2. CASE ~(k <= Len(a))
    <3>1. k - Len(a) \in 1..Len(b)
        BY <1>1, <2>2
    <3> QED
        BY <1>1, <2>2, <3>1 DEF Legal
  <2> QED
      BY <2>1, <2>2
<1> QED
    BY <1>1, <1>2 DEF Legal

LEMMA SoundConcat ==
    ASSUME NEW a, NEW b, NEW p, Sound(a, p), Sound(b, p)
    PROVE  Sound(a \o b, p) /\ Len(a \o b) = Len(a) + Len(b)
<1>1. /\ IsSeq(a \o b) /\ Len(a) \in Nat /\ Len(b) \in Nat /\ Len(a \o b) = Len(a) + Len(b)
      /\ \A k \in 1..Len(a \o b) : (a \o b)[k] = IF k <= Len(a) THEN a[k] ELSE b[k - Len(a)]
    BY Concat DEF Sound
<1>2. ASSUME NEW k \in 1..Len(a \o b)
      PROVE  Inside((a \o b)[k].raw, p) /\ Fits((a \o b)[k].do, (a \o b)[k].raw.ty)
  <2>1. CASE k <= Len(a)
      BY <1>1, <2>1 DEF Sound
  <2>2. CASE ~(k <= Len(a))
    <3>1. k - Len(a) \in 1..Len(b)
        BY <1>1, <2>2
    <3> QED
        BY <1>1, <2>2, <3>1 DEF Sound
  <2> QED
      BY <2>1, <2>2
<1> QED
    BY <1>1, <1>2 DEF Sound

LEMMA SoundLater ==
    ASSUME NEW q, NEW p \in Nat, NEW r \in Nat, p <= r, Sound(q, p)
    PROVE  Sound(q, r)
<1>1. ASSUME NEW k \in 1..Len(q) PROVE Inside(q[k].raw, r)
  <2>1. /\ q[k].raw.at \in Nat /\ q[k].raw.ty \in StructName
        /\ q[k].raw.at + SizeOf[q[k].raw.ty] <= p
      BY DEF Sound, Inside
  <2>2. SizeOf[q[k].raw.ty] \in Nat
      BY <2>1, SizeAssumption
  <2>3. q[k].raw.at + SizeOf[q[k].raw.ty] <= r
      BY <2>1, <2>2
  <2> QED
      BY <2>1, <2>3 DEF Inside
<1> QED
    BY <1>1 DEF Sound

LEMMA SoundTail ==
    ASSUME NEW q, NEW p, Sound(q, p), q # <<>>
    PROVE  /\ Len(q) \in Nat \ {0} /\ Len(Tail(q)) = Len(q) - 1
           /\ Inside(Head(q).raw, p) /\ Fits(Head(q).do, Head(q).raw.ty)
           /\ Sound(Tail(q), p)
<1> DEFINE S == {q[k] : k \in DOMAIN q}
<1>1. q \in Seq(S)
    BY DEF Sound, IsSeq
<1> HIDE DEF S
<1>2. /\ Len(q) \in Nat \ {0} /\ Tail(q) \in Seq(S) /\ Len(Tail(q)) = Len(q) - 1
      /\ \A k \in 1..Len(Tail(q)) : Tail(q)[k] = q[k + 1]
    BY <1>1, HeadTailProperties, EmptySeq
<1>3. IsSeq(Tail(q))
    BY <1>2, SeqIsSeq
<1>4. Head(q) = q[1] /\ 1 \in 1..Len(q)
    BY <1>1, <1>2
<1>5. ASSUME NEW k \in 1..Len(Tail(q))
      PROVE  Inside(Tail(q)[k].raw, p) /\ Fits(Tail(q)[k].do, Tail(q)[k].raw.ty)
  <2>1. k + 1 \in 1..Len(q) /\ Tail(q)[k] = q[k + 1]
      BY <1>2
  <2> QED
      BY <2>1 DEF Sound
<1>6. Inside(Head(q).raw, p) /\ Fits(Head(q).do, Head(q).raw.ty)
    BY <1>4 DEF Sound
<1>7. Sound(Tail(q), p)
    BY <1>3, <1>5 DEF Sound
<1> QED
    BY <1>2, <1>6, <1>7

\* What Push puts on top of todo.
LEMMA SoundPushed ==
    ASSUME NEW reads, NEW raw, NEW p, NEW n \in Nat, Legal(reads, raw.ty, n), Inside(raw, p),
           NEW q, q = [k \in DOMAIN reads |-> [raw |-> raw, do |-> reads[k]]]
    PROVE  Sound(q, p) /\ Len(q) = Len(reads) /\ Len(reads) \in Nat /\ Len(reads) <= n
<1>1. Len(reads) \in Nat /\ DOMAIN reads = 1..Len(reads)
    BY SeqIsSeq DEF Legal, IsSeq
<1> DEFINE S == {[raw |-> raw, do |-> reads[k]] : k \in DOMAIN reads}
<1>2. q \in [1..Len(reads) -> S]
    BY <1>1
<1> HIDE DEF S
<1>3. q \in Seq(S)
    BY <1>1, <1>2, SeqDef
<1>4. Len(q) = Len(reads)
    BY <1>1, <1>2, <1>3, LenProperties
<1>5. ASSUME NEW k \in 1..Len(q)
      PROVE  Inside(q[k].raw, p) /\ Fits(q[k].do, q[k].raw.ty)
  <2>1. q[k] = [raw |-> raw, do |-> reads[k]]
      BY <1>1, <1>4
  <2>2. q[k].raw = raw /\ q[k].do = reads[k]
      BY <2>1
  <2> QED
      BY <1>4, <2>2 DEF Legal
<1> QED
    BY <1>1, <1>3, <1>4, <1>5, SeqIsSeq DEF Sound, Legal

-----------------------------------------------------------------------------
(* The reads of each decoder are legal for the structure it makes them of.  *)

LEMMA LegalTuple ==
    ASSUME NEW T, NEW n \in Nat, NEW X, NEW q \in [1..n -> X], \A k \in 1..n : Fits(q[k], T)
    PROVE  Legal(q, T, n)
<1>1. q \in Seq(X) /\ Len(q) = n
    BY SeqDef, LenProperties
<1> QED
    BY <1>1, SeqIsSeq DEF Legal

LEMMA FitsPlain ==
    ASSUME NEW T, NEW f
    PROVE  /\ Fits(Value(f), T) /\ Fits(Opt(f), T) /\ Fits(ChassisOf(f), T) /\ Fits(Required(f), T)
           /\ Fits(OnePort(f), T) /\ Fits(Whole(f), T) /\ Fits(Unchained, T)
           /\ Fits([read |-> "begin"], T) /\ Fits([read |-> "cons"], T)
           /\ \A i : Fits(Location(i), T)
           /\ \A key : Fits(Some(f, key), T)
BY DEF Fits, Kinds, Value, Opt, ChassisOf, Required, OnePort, Whole, Unchained, Location, Some

LEMMA FitsList ==
    ASSUME NEW T, NEW f, NEW U \in TailqName
    PROVE  Fits(List(f, U), T) /\ Fits([read |-> "rest", field |-> f, ty |-> U], T)
BY DEF Fits, Kinds, List

LEMMA FitsLocalPort ==
    ASSUME NEW T \in HardwareName
    PROVE  Fits(LocalPort("h_lport"), T)
BY DEF Fits, Kinds, LocalPort

LEMMA LegalOne ==
    ASSUME NEW T, NEW a, Fits(a, T)
    PROVE  Legal(<<a>>, T, 1)
<1>1. <<a>> \in [1..1 -> {a}] /\ \A k \in 1..1 : Fits(<<a>>[k], T)
    OBVIOUS
<1> QED
    BY <1>1, LegalTuple

LEMMA LegalMore ==
    ASSUME NEW T, NEW a, Fits(a, T), NEW q, NEW n \in Nat, Legal(q, T, n)
    PROVE  Legal(<<a>> \o q, T, n + 1)
<1>1. Legal(<<a>> \o q, T, 1 + n)
    BY LegalOne, LegalConcat
<1> QED
    BY <1>1

LEMMA LegalPort ==
    ASSUME NEW T
    PROVE  Legal(decode_port_fields, T, 10) /\ Legal(build_neighbor, T, 13)
<1> DEFINE X == {decode_port_fields[k] : k \in 1..10}
<1>1. decode_port_fields \in [1..10 -> X]
    BY DEF decode_port_fields
<1>2. \A k \in 1..10 : Fits(decode_port_fields[k], T)
  <2>1. /\ Fits(List("p_vlans_tqh_first", "RawVlan"), T)
        /\ Fits(List("p_ppvids_tqh_first", "RawPpvid"), T)
        /\ Fits(List("p_pids_tqh_first", "RawPi"), T)
      BY FitsList DEF TailqName
  <2> QED
      BY <2>1, FitsPlain DEF decode_port_fields
<1> HIDE DEF X
<1>3. Legal(decode_port_fields, T, 10)
    BY <1>1, <1>2, LegalTuple
<1> DEFINE q == <<Required("p_chassis"), Value("p_id_subtype"), Value("p_ttl")>>
<1>4. q \in [1..3 -> {q[k] : k \in 1..3}] /\ \A k \in 1..3 : Fits(q[k], T)
    BY FitsPlain
<1>5. Legal(q, T, 3)
    BY <1>4, LegalTuple
<1> HIDE DEF q
<1>6. Legal(decode_port_fields \o q, T, 10 + 3)
    BY <1>3, <1>5, LegalConcat
<1> QED
    BY <1>3, <1>6 DEF build_neighbor, q

LEMMA LegalChassis ==
    ASSUME NEW T
    PROVE  Legal(decode_chassis, T, 13)
<1> DEFINE q == <<Opt("c_id"), Opt("c_name"), Opt("c_descr"), List("c_mgmt_tqh_first", "RawMgmt")>>
           m == [i \in DOMAIN MedFields |-> Opt(MedFields[i])]
           r == <<Value("c_id_subtype"), Value("c_cap_available")>>
<1>1. Legal(q, T, 4)
  <2>0. Fits(List("c_mgmt_tqh_first", "RawMgmt"), T)
      BY FitsList DEF TailqName
  <2>1. q \in [1..4 -> {q[k] : k \in 1..4}] /\ \A k \in 1..4 : Fits(q[k], T)
      BY <2>0, FitsPlain
  <2> QED
      BY <2>1, LegalTuple
<1>2. Legal(m, T, 7)
  <2>1. DOMAIN MedFields = 1..7
      BY DEF MedFields
  <2>2. m \in [1..7 -> {m[k] : k \in 1..7}] /\ \A k \in 1..7 : Fits(m[k], T)
      BY <2>1, FitsPlain
  <2> QED
      BY <2>2, LegalTuple
<1>3. Legal(r, T, 2)
  <2>1. r \in [1..2 -> {r[k] : k \in 1..2}] /\ \A k \in 1..2 : Fits(r[k], T)
      BY FitsPlain
  <2> QED
      BY <2>1, LegalTuple
<1> HIDE DEF q, m, r
<1>4. Legal(q \o m, T, 4 + 7)
    BY <1>1, <1>2, LegalConcat
<1>5. Legal((q \o m) \o r, T, 11 + 2)
    BY <1>3, <1>4, LegalConcat
<1> QED
    BY <1>5 DEF decode_chassis, q, m, r

LEMMA LegalElement ==
    ASSUME NEW U \in TailqName, NEW T
    PROVE  Legal(Reads(U), T, 13)
<1>1. CASE U = "RawInterface"
  <2> DEFINE q == decode_interface_chain
  <2>1. q \in [1..2 -> {q[k] : k \in 1..2}] /\ \A k \in 1..2 : Fits(q[k], T)
      BY FitsPlain DEF decode_interface_chain
  <2>2. Legal(q, T, 2)
      BY <2>1, LegalTuple
  <2> QED
      BY <1>1, <2>2 DEF Reads, Legal
<1>2. CASE U = "RawMgmt"
  <2> DEFINE q == decode_mgmt_chain
  <2>1. q \in [1..3 -> {q[k] : k \in 1..3}] /\ \A k \in 1..3 : Fits(q[k], T)
      BY FitsPlain DEF decode_mgmt_chain
  <2>2. Legal(q, T, 3)
      BY <2>1, LegalTuple
  <2> QED
      BY <1>2, <2>2 DEF Reads, Legal
<1>3. CASE U = "RawVlan"
    BY <1>3, LegalOne, FitsPlain DEF Reads, Legal, discard_vlan_chain
<1>4. CASE U = "RawPpvid"
  <2>1. Legal(<<>>, T, 0)
    <3>1. <<>> \in [1..0 -> {}]
        OBVIOUS
    <3> QED
        BY <3>1, LegalTuple
  <2> QED
      BY <1>4, <2>1 DEF Reads, Legal, discard_ppvid_chain
<1>5. CASE U = "RawPi"
    BY <1>5, LegalOne, FitsPlain DEF Reads, Legal, discard_pi_chain
<1>6. CASE U = "RawPort"
    BY <1>6, LegalPort DEF Reads
<1> QED
    BY <1>1, <1>2, <1>3, <1>4, <1>5, <1>6 DEF TailqName

LEMMA LegalRoot ==
    ASSUME NEW T \in DOMAIN Decoders
    PROVE  T \in StructName /\ Legal(Decoders[T], T, MaxReads)
<1>1. CASE T = "RawInterfaceList"
  <2>1. Fits(List("tqh_first", "RawInterface"), T)
      BY FitsList DEF TailqName
  <2>2. Legal(InterfaceListReads, T, 1)
      BY <2>1, LegalOne DEF InterfaceListReads
  <2> QED
      BY <1>1, <2>2 DEF Decoders, StructName, Legal, MaxReads
<1>2. CASE T \in HardwareName
  <2> DEFINE q == HardwareReads
  <2>1. q \in [1..5 -> {q[k] : k \in 1..5}] /\ \A k \in 1..5 : Fits(q[k], T)
    <3>1. Fits(List("h_rports_tqh_first", "RawPort"), T)
        BY FitsList DEF TailqName
    <3> QED
        BY <1>2, <3>1, FitsPlain, FitsLocalPort DEF HardwareReads
  <2>2. Legal(q, T, 5)
      BY <2>1, LegalTuple
  <2> HIDE DEF q
  <2>3. Legal(q, T, MaxReads)
      BY <2>2 DEF Legal, MaxReads
  <2> QED
      BY <1>2, <2>3 DEF Decoders, HardwareName, StructName, q
<1>3. CASE T = "RawNeighborChange"
  <2> DEFINE q == NeighborChangeReads
  <2>1. q \in [1..4 -> {q[k] : k \in 1..4}] /\ \A k \in 1..4 : Fits(q[k], T)
      BY FitsPlain DEF NeighborChangeReads
  <2>2. Legal(q, T, 4)
      BY <2>1, LegalTuple
  <2> HIDE DEF q
  <2>3. Legal(q, T, MaxReads)
      BY <2>2 DEF Legal, MaxReads
  <2> QED
      BY <1>3, <2>3 DEF Decoders, StructName, q
<1> QED
    BY <1>1, <1>2, <1>3 DEF Decoders, HardwareName

-----------------------------------------------------------------------------
(* One operation on a walk.                                                 *)

IsWalk(w) == w = [c |-> w.c, todo |-> w.todo, frames |-> w.frames, cache |-> w.cache]

\* A walk that goes on, and one that may have ended.
Good(w) == IsWalk(w) /\ w.c.ok = TRUE /\ Within(w.c) /\ Sound(w.todo, w.c.pos)
Valid(w) == IsWalk(w) /\ w.c.ok \in BOOLEAN /\ (w.c.ok => Good(w))

\* v is w with other frames.
Alike(v, w) == IsWalk(v) /\ v.c = w.c /\ v.todo = w.todo

\* v is w after a chunk that brought at most n reads with it.
Grown(v, w, n) ==
    /\ Valid(v)
    /\ v.c.ok => /\ v.c.len = w.c.len /\ v.c.pos >= w.c.pos + header_len
                 /\ Len(v.todo) <= Len(w.todo) + n

\* v is w after one read, whatever it was: with no more bytes read there are
\* no more reads to make.
Went(v, w) ==
    /\ Valid(v)
    /\ v.c.ok => /\ v.c.len = w.c.len
                 /\ \/ v.c.pos = w.c.pos /\ Len(v.todo) <= Len(w.todo)
                    \/ /\ v.c.pos >= w.c.pos + header_len
                       /\ Len(v.todo) <= Len(w.todo) + MaxReads

LEMMA PartsOnly ==
    ASSUME NEW w, IsWalk(w)
    PROVE  /\ \A x : Alike([w EXCEPT !.frames = x], w)
           /\ \A x : Alike([w EXCEPT !.cache = x], w)
           /\ \A x : LET v == [w EXCEPT !.todo = x] IN IsWalk(v) /\ v.c = w.c /\ v.todo = x
           /\ \A x : LET v == [w EXCEPT !.c = x] IN IsWalk(v) /\ v.c = x /\ v.todo = w.todo
<1> DEFINE C == w.c
           D == w.todo
           F == w.frames
           H == w.cache
<1>1. w = [c |-> C, todo |-> D, frames |-> F, cache |-> H]
    BY DEF IsWalk
<1> HIDE DEF C, D, F, H
<1> QED
    BY <1>1 DEF Alike, IsWalk

LEMMA AlikeTwice ==
    ASSUME NEW u, NEW v, NEW w, Alike(u, v), Alike(v, w)
    PROVE  Alike(u, w)
BY DEF Alike

LEMMA FramesOnly ==
    ASSUME NEW w, IsWalk(w)
    PROVE  /\ \A f, v : Alike(Keep(w, f, v), w)
           /\ Alike(Enter(w), w) /\ Alike(Leave(w), w)
           /\ \A s, v : Alike(Kept(w, s, v), w)
           /\ \A c : IsWalk(To(w, c)) /\ To(w, c).c = c /\ To(w, c).todo = w.todo
           /\ IsWalk(Failed(w)) /\ Failed(w).c.ok = FALSE
<1>1. \A x : Alike([w EXCEPT !.frames = x], w)
    BY PartsOnly
<1>2. \A v : Alike([w EXCEPT !.frames[1] = v], w)
    BY <1>1
<1>3. ASSUME NEW f, NEW v PROVE Alike(Keep(w, f, v), w)
    BY <1>2, Zenon DEF Keep
<1>4. Alike(Enter(w), w) /\ Alike(Leave(w), w)
    BY <1>1, Zenon DEF Enter, Leave
<1>5. ASSUME NEW s, NEW v PROVE Alike(Kept(w, s, v), w)
  <2> DEFINE u == Keep(w, s.field, <<v>>)
             H == IF s.key = 0 THEN u.cache ELSE u.cache @@ (s.key :> v)
  <2>1. Alike(u, w) /\ IsWalk(u)
      BY <1>3 DEF Alike
  <2>2. Kept(w, s, v) = [u EXCEPT !.cache = H]
      BY Zenon DEF Kept
  <2> HIDE DEF u, H
  <2>3. Alike([u EXCEPT !.cache = H], u)
      BY <2>1, PartsOnly
  <2> QED
      BY <2>1, <2>2, <2>3, AlikeTwice
<1>6. \A c : IsWalk(To(w, c)) /\ To(w, c).c = c /\ To(w, c).todo = w.todo
    BY PartsOnly DEF To
<1>7. IsWalk(Failed(w)) /\ Failed(w).c.ok = FALSE
    BY <1>6 DEF Failed, Err
<1> QED
    BY <1>3, <1>4, <1>5, <1>6, <1>7

\* The same bytes have been read and the same reads are left.
LEMMA AlikeGood ==
    ASSUME NEW v, NEW w, Alike(v, w), Good(w)
    PROVE  Good(v)
BY DEF Alike, Good

LEMMA PushGood ==
    ASSUME NEW w, Good(w), NEW raw, NEW n \in Nat, NEW reads,
           Legal(reads, raw.ty, n), Inside(raw, w.c.pos)
    PROVE  /\ Good(Push(w, raw, reads)) /\ Push(w, raw, reads).c = w.c
           /\ Len(w.todo) \in Nat /\ Len(Push(w, raw, reads).todo) \in Nat
           /\ Len(Push(w, raw, reads).todo) <= Len(w.todo) + n
<1> DEFINE q == [k \in DOMAIN reads |-> [raw |-> raw, do |-> reads[k]]]
           v == [w EXCEPT !.todo = q \o @]
<1>1. Sound(q, w.c.pos) /\ Len(q) \in Nat /\ Len(q) <= n
    BY SoundPushed
<1>2. Push(w, raw, reads) = v
    BY DEF Push, Good
<1> HIDE DEF q
<1>3. Sound(q \o w.todo, w.c.pos) /\ Len(q \o w.todo) = Len(q) + Len(w.todo)
    BY <1>1, SoundConcat DEF Good
<1>4. Len(w.todo) \in Nat
    BY SeqIsSeq DEF Good, Sound, IsSeq
<1>5. IsWalk(v) /\ v.c = w.c /\ v.todo = q \o w.todo
  <2> DEFINE x == q \o w.todo
             y == [w EXCEPT !.todo = x]
  <2>1. v = y
      OBVIOUS
  <2> HIDE DEF x, v
  <2>2. IsWalk(y) /\ y.c = w.c /\ y.todo = x
      BY PartsOnly DEF Good
  <2> QED
      BY <2>1, <2>2 DEF x
<1> HIDE DEF v
<1>6. Good(v)
    BY <1>3, <1>5 DEF Good
<1> QED
    BY <1>1, <1>2, <1>3, <1>4, <1>5, <1>6

\* A cursor moved on by an operation: what was sound is sound.
LEMMA MovedGood ==
    ASSUME NEW w, Good(w), NEW r, r.ok = TRUE, Beyond(r, w.c)
    PROVE  Good(To(w, r))
<1>1. IsWalk(To(w, r)) /\ To(w, r).c = r /\ To(w, r).todo = w.todo
    BY FramesOnly DEF Good
<1>2. r.pos \in Nat /\ w.c.pos \in Nat /\ w.c.pos <= r.pos
    BY CursorAssumption DEF Beyond, Good, Within, header_len
<1>3. Within(r)
    BY DEF Good, Within, Beyond
<1>4. Sound(w.todo, r.pos)
    BY <1>2, SoundLater DEF Good
<1> QED
    BY <1>1, <1>3, <1>4 DEF Good

LEMMA PodGrown ==
    ASSUME NEW w, Good(w), NEW T \in StructName, NEW n \in Nat, NEW reads, Legal(reads, T, n)
    PROVE  Grown(Pod(w, T, reads), w, n)
<1> DEFINE r == read_chunk_pod(w.c, SizeOf[T])
           u == To(w, r)
           raw == [at |-> r.val.at, ty |-> T]
<1>1. SizeOf[T] \in Nat
    BY SizeAssumption
<1>2. /\ r.ok \in BOOLEAN
      /\ r.ok => Beyond(r, w.c) /\ r.val.at \in Nat /\ r.val.at + SizeOf[T] = r.pos
    BY <1>1, ContentRead, PodRead DEF Good
<1>3. IsWalk(u) /\ u.c = r /\ u.todo = w.todo
    BY FramesOnly DEF Good
<1>4. Pod(w, T, reads) = Push(u, raw, reads)
    BY <1>3 DEF Pod, Behind
<1> HIDE DEF r, u
<1>5. CASE r.ok = FALSE
  <2>1. Push(u, raw, reads) = u
      BY <1>3, <1>5 DEF Push
  <2> QED
      BY <1>3, <1>4, <1>5, <2>1 DEF Grown, Valid
<1>6. CASE r.ok = TRUE
  <2>1. Good(u)
      BY <1>2, <1>6, MovedGood DEF u
  <2>2. Inside(raw, u.c.pos)
      BY <1>1, <1>2, <1>3, <1>6 DEF Inside
  <2>3. raw.ty = T
      OBVIOUS
  <2> HIDE DEF raw
  <2>4. /\ Good(Push(u, raw, reads)) /\ Push(u, raw, reads).c = r
        /\ Len(Push(u, raw, reads).todo) <= Len(w.todo) + n
      BY <1>3, <2>1, <2>2, <2>3, PushGood
  <2> QED
      BY <1>2, <1>4, <1>6, <2>4 DEF Grown, Valid, Beyond, Good
<1> QED
    BY <1>2, <1>5, <1>6

LEMMA GoodFacts ==
    ASSUME NEW w, Good(w)
    PROVE  /\ IsWalk(w) /\ Len(w.todo) \in Nat /\ w.c.pos \in Nat /\ w.c.len \in Nat
           /\ w.c.pos <= w.c.len /\ header_len \in Nat
<1>1. Len(w.todo) \in Nat
    BY SeqIsSeq DEF Good, Sound, IsSeq
<1> QED
    BY <1>1, CursorAssumption DEF Good, Within, header_len

LEMMA AlikeWent ==
    ASSUME NEW v, NEW w, Good(w), Alike(v, w)
    PROVE  Went(v, w)
<1>1. Good(v) /\ v.c = w.c /\ v.todo = w.todo /\ w.c.ok = TRUE /\ IsWalk(v)
    BY AlikeGood DEF Alike, Good
<1>2. Valid(v)
    BY <1>1 DEF Valid
<1>3. Len(v.todo) <= Len(w.todo)
    BY <1>1, GoodFacts
<1> QED
    BY <1>1, <1>2, <1>3 DEF Went

LEMMA StuckWent ==
    ASSUME NEW v, NEW w, IsWalk(v), v.c.ok = FALSE
    PROVE  Went(v, w)
BY DEF Went, Valid

LEMMA GrownWent ==
    ASSUME NEW v, NEW w, NEW n \in 0..MaxReads, Good(w), Grown(v, w, n)
    PROVE  Went(v, w)
<1>1. CASE v.c.ok
  <2>1. Len(v.todo) \in Nat /\ Len(w.todo) \in Nat
      BY <1>1, GoodFacts DEF Grown, Valid
  <2>2. Len(v.todo) <= Len(w.todo) + MaxReads
      BY <1>1, <2>1 DEF Grown, MaxReads
  <2> QED
      BY <1>1, <2>2 DEF Grown, Went
<1>2. CASE ~v.c.ok
    BY <1>2 DEF Grown, Went
<1> QED
    BY <1>1, <1>2

LEMMA WentAlike ==
    ASSUME NEW v, NEW u, NEW w, Went(u, w), Alike(v, u)
    PROVE  Went(v, w)
<1>1. v.c = u.c /\ v.todo = u.todo /\ IsWalk(v)
    BY DEF Alike
<1>2. Valid(v)
    BY <1>1, AlikeGood DEF Went, Valid
<1> QED
    BY <1>1, <1>2 DEF Went

\* A walk whose cursor is moved on, or fails.
LEMMA ToWent ==
    ASSUME NEW w, Good(w), NEW r, r.ok \in BOOLEAN,
           r.ok => \/ Beyond(r, w.c)
                   \/ r.buf = w.c.buf /\ r.len = w.c.len /\ r.pos = w.c.pos
    PROVE  Went(To(w, r), w) /\ IsWalk(To(w, r))
<1>1. IsWalk(To(w, r)) /\ To(w, r).c = r /\ To(w, r).todo = w.todo
    BY FramesOnly DEF Good
<1>2. CASE r.ok = FALSE
    BY <1>1, <1>2, StuckWent
<1>3. CASE r.ok = TRUE /\ Beyond(r, w.c)
  <2>1. Good(To(w, r))
      BY <1>3, MovedGood
  <2>2. Len(w.todo) \in Nat /\ Len(w.todo) <= Len(w.todo) + MaxReads
      BY GoodFacts DEF MaxReads
  <2> QED
      BY <1>1, <1>3, <2>1, <2>2 DEF Went, Valid, Beyond
<1>4. CASE r.ok = TRUE /\ r.buf = w.c.buf /\ r.len = w.c.len /\ r.pos = w.c.pos
  <2>1. Within(r)
      BY <1>4 DEF Good, Within
  <2>2. Good(To(w, r))
      BY <1>1, <1>4, <2>1 DEF Good
  <2>3. Len(w.todo) \in Nat
      BY GoodFacts
  <2> QED
      BY <1>1, <1>4, <2>2, <2>3 DEF Went, Valid
<1> QED
    BY <1>2, <1>3, <1>4

\* read_opt, wherever the cursor is.
LEMMA OptRead ==
    ASSUME NEW c, Within(c), NEW x, NEW r, r = read_opt(c, x)
    PROVE  /\ r.ok \in BOOLEAN
           /\ r.ok => \/ Beyond(r, c)
                      \/ r.buf = c.buf /\ r.len = c.len /\ r.pos = c.pos
<1>1. CASE x = 0
  <2>1. r = Moved(c, c.pos, NoSlice)
      BY <1>1 DEF read_opt
  <2>2. r.ok = TRUE /\ r.buf = c.buf /\ r.len = c.len /\ r.pos = c.pos
      BY <2>1 DEF Moved
  <2> QED
      BY <2>2
<1>2. CASE x # 0
  <2>1. r = leaf(c)
      BY <1>2 DEF read_opt
  <2> QED
      BY <2>1, ContentRead
<1> QED
    BY <1>1, <1>2

LEMMA OptWent ==
    ASSUME NEW w, Good(w), NEW f, NEW x
    PROVE  Went(KeepText(To(w, read_opt(w.c, x)), f), w)
<1> DEFINE u == To(w, read_opt(w.c, x))
<1>1. Went(u, w) /\ IsWalk(u)
  <2> DEFINE r == read_opt(w.c, x)
  <2>1. /\ r.ok \in BOOLEAN
        /\ r.ok => \/ Beyond(r, w.c)
                   \/ r.buf = w.c.buf /\ r.len = w.c.len /\ r.pos = w.c.pos
      BY OptRead DEF Good
  <2> HIDE DEF r
  <2>2. Went(To(w, r), w) /\ IsWalk(To(w, r))
      BY <2>1, ToWent
  <2> QED
      BY <2>2 DEF r
<1> HIDE DEF u
<1>2. Alike(u, u)
    BY <1>1 DEF Alike
<1>3. \A y : Alike(Keep(u, f, y), u)
    BY <1>1, FramesOnly
<1>4. Alike(KeepText(u, f), u)
    BY <1>2, <1>3, Zenon DEF KeepText
<1> QED
    BY <1>1, <1>4, WentAlike DEF u

LEMMA LocationWent ==
    ASSUME NEW w, Good(w), NEW x
    PROVE  Went(decode_med_location_marker(w, x), w)
<1> DEFINE m == chunk_header(w.c)
           r == IF m.ok THEN read_opt(m, x) ELSE m
<1>1. m.ok \in BOOLEAN /\ (m.ok => Beyond(m, w.c))
    BY HeaderRead DEF Good
<1>2. decode_med_location_marker(w, x) = To(w, r)
    BY Zenon DEF decode_med_location_marker, consume_substruct_marker
<1> HIDE DEF m
<1>3. CASE m.ok
  <2>1. Within(m)
      BY <1>1, <1>3 DEF Good, Within, Beyond
  <2>2. r = read_opt(m, x)
      BY <1>3
  <2> HIDE DEF r
  <2>3. /\ r.ok \in BOOLEAN
        /\ r.ok => Beyond(r, m) \/ (r.buf = m.buf /\ r.len = m.len /\ r.pos = m.pos)
      BY <1>3, <2>1, <2>2, OptRead
  <2>4. r.ok => Beyond(r, w.c)
      BY <1>1, <1>3, <2>3, GoodFacts DEF Beyond
  <2>5. Went(To(w, r), w)
      BY <2>3, <2>4, ToWent
  <2> QED
      BY <1>2, <2>5
<1>4. CASE ~m.ok
  <2>1. r = m /\ m.ok = FALSE
      BY <1>1, <1>4
  <2>2. Went(To(w, m), w)
      BY <1>1, <2>1, ToWent
  <2> QED
      BY <1>2, <2>1, <2>2
<1> QED
    BY <1>3, <1>4

\* A structure read in frames of its own.
LEMMA EnterPodWent ==
    ASSUME NEW w, Good(w), NEW T \in StructName, NEW n \in 0..MaxReads, NEW reads,
           Legal(reads, T, n)
    PROVE  Went(Pod(Enter(w), T, reads), w)
<1> DEFINE u == Enter(w)
<1>1. Alike(u, w) /\ Good(u)
    BY FramesOnly, AlikeGood DEF Good
<1>2. n \in Nat
    BY DEF MaxReads
<1> HIDE DEF u
<1>3. Grown(Pod(u, T, reads), u, n)
    BY <1>1, <1>2, PodGrown
<1>4. Grown(Pod(u, T, reads), w, n)
    BY <1>1, <1>3 DEF Grown, Alike
<1>5. Went(Pod(u, T, reads), w)
    BY <1>4, GrownWent
<1> QED
    BY <1>5 DEF u

\* One element of a list, whatever the rest of the list is.
LEMMA ChainGrown ==
    ASSUME NEW w, Good(w), NEW T \in TailqName
    PROVE  Grown(Chain(w, T), w, 16)
<1> DEFINE a == <<[read |-> "rest", field |-> Link(T), ty |-> T], [read |-> "begin"]>>
           z == [read |-> "cons"]
<1>1. Legal(a, T, 2)
  <2>1. Fits([read |-> "rest", field |-> Link(T), ty |-> T], T) /\ Fits([read |-> "begin"], T)
      BY FitsList, FitsPlain
  <2>2. a \in [1..2 -> {a[k] : k \in 1..2}] /\ \A k \in 1..2 : Fits(a[k], T)
      BY <2>1
  <2> QED
      BY <2>2, LegalTuple
<1>2. Legal(Reads(T), T, 13)
    BY LegalElement
<1>3. Legal(<<z>>, T, 1)
    BY LegalOne, FitsPlain
<1> HIDE DEF a, z
<1>4. Legal(a \o Reads(T), T, 2 + 13)
    BY <1>1, <1>2, LegalConcat
<1>5. Legal((a \o Reads(T)) \o <<z>>, T, 15 + 1)
    BY <1>3, <1>4, LegalConcat
<1>6. T \in StructName
    BY DEF TailqName, StructName
<1>7. Grown(Pod(w, T, (a \o Reads(T)) \o <<z>>), w, 16)
    BY <1>5, <1>6, PodGrown
<1> QED
    BY <1>7 DEF Chain, a, z

LEMMA ListWent ==
    ASSUME NEW w, Good(w), NEW raw, Inside(raw, w.c.pos), NEW f, NEW T \in TailqName
    PROVE  Went(Chain(Push(Enter(w), raw, <<Whole(f)>>), T), w)
<1> DEFINE u == Enter(w)
           v == Push(u, raw, <<Whole(f)>>)
<1>1. Alike(u, w) /\ Good(u)
    BY FramesOnly, AlikeGood DEF Good
<1>2. Legal(<<Whole(f)>>, raw.ty, 1)
    BY LegalOne, FitsPlain
<1>3. Inside(raw, u.c.pos)
    BY <1>1 DEF Alike
<1> HIDE DEF u
<1>4. /\ Good(v) /\ v.c = u.c /\ Len(u.todo) \in Nat /\ Len(v.todo) \in Nat
      /\ Len(v.todo) <= Len(u.todo) + 1
    BY <1>1, <1>2, <1>3, PushGood
<1> HIDE DEF v
<1>5. Grown(Chain(v, T), v, 16)
    BY <1>4, ChainGrown
<1>6. Grown(Chain(v, T), w, 17)
  <2>1. CASE Chain(v, T).c.ok
    <3>1. Len(Chain(v, T).todo) \in Nat /\ Len(Chain(v, T).todo) <= Len(v.todo) + 16
        BY <1>5, <2>1, GoodFacts DEF Grown, Valid
    <3>2. Len(Chain(v, T).todo) <= Len(w.todo) + 17
        BY <1>1, <1>4, <3>1 DEF Alike
    <3> QED
        BY <1>1, <1>4, <1>5, <2>1, <3>2 DEF Grown, Alike
  <2>2. CASE ~Chain(v, T).c.ok
      BY <1>5, <2>2 DEF Grown
  <2> QED
      BY <2>1, <2>2
<1>7. 17 \in 0..MaxReads
    BY DEF MaxReads
<1>8. Went(Chain(v, T), w)
    BY <1>6, <1>7, GrownWent
<1> QED
    BY <1>8 DEF u, v

LEMMA ChassisWent ==
    ASSUME NEW w, Good(w), NEW f, NEW key
    PROVE  Went(PortChassis(w, f, key), w)
<1> DEFINE reads == decode_chassis \o <<Some(f, key)>>
<1>1. \A y : Went(Keep(w, f, y), w)
    BY FramesOnly, AlikeWent DEF Good
<1>2. Legal(reads, "RawChassis", 14)
  <2>1. Legal(decode_chassis, "RawChassis", 13) /\ Legal(<<Some(f, key)>>, "RawChassis", 1)
      BY LegalChassis, LegalOne, FitsPlain
  <2>2. Legal(reads, "RawChassis", 13 + 1)
      BY <2>1, LegalConcat
  <2> QED
      BY <2>2
<1> HIDE DEF reads
<1>3. Went(Pod(Enter(w), "RawChassis", reads), w)
    BY <1>2, EnterPodWent DEF StructName, MaxReads
<1> QED
    BY <1>1, <1>3, Zenon DEF PortChassis, reads

LEMMA OnePortWent ==
    ASSUME NEW w, Good(w), NEW f
    PROVE  Went(Pod(Enter(w), "RawPort", (<<Unchained>> \o build_neighbor) \o <<Some(f, 0)>>), w)
<1> DEFINE reads == (<<Unchained>> \o build_neighbor) \o <<Some(f, 0)>>
<1>1. Legal(<<Unchained>> \o build_neighbor, "RawPort", 13 + 1)
    BY LegalPort, LegalMore, FitsPlain
<1>2. Legal(<<Some(f, 0)>>, "RawPort", 1)
    BY LegalOne, FitsPlain
<1>3. Legal(reads, "RawPort", 14 + 1)
    BY <1>1, <1>2, LegalConcat
<1> HIDE DEF reads
<1>4. Went(Pod(Enter(w), "RawPort", reads), w)
    BY <1>3, EnterPodWent DEF StructName, MaxReads
<1> QED
    BY <1>4 DEF reads

\* h_lport, inside of the structure raw.
LEMMA LocalPortWent ==
    ASSUME NEW w, Good(w), NEW raw, Inside(raw, w.c.pos), raw.ty \in HardwareName, NEW port,
           port = [at |-> raw.at + OffsetOf[raw.ty]["h_lport"], ty |-> "RawPort"]
    PROVE  Went(Push(To(w, consume_substruct_marker(w.c)), port,
                     <<Unchained>> \o decode_port_fields), w)
<1> DEFINE m == chunk_header(w.c)
           u == To(w, m)
           reads == <<Unchained>> \o decode_port_fields
           v == Push(u, port, reads)
<1>1. m.ok \in BOOLEAN /\ (m.ok => Beyond(m, w.c))
    BY HeaderRead DEF Good
<1>2. IsWalk(u) /\ u.c = m /\ u.todo = w.todo
    BY FramesOnly DEF Good
<1>3. Legal(reads, "RawPort", 10 + 1)
    BY LegalPort, LegalMore, FitsPlain
<1> HIDE DEF m, reads
<1>4. CASE m.ok = FALSE
  <2>1. v = u
      BY <1>2, <1>4 DEF Push
  <2>2. Went(v, w)
      BY <1>2, <1>4, <2>1, StuckWent
  <2> QED
      BY <2>2 DEF m, reads, consume_substruct_marker
<1>5. CASE m.ok = TRUE
  <2>1. Good(u)
      BY <1>1, <1>5, MovedGood
  <2> HIDE DEF u
  <2>2. w.c.pos \in Nat /\ m.pos \in Nat /\ m.pos >= w.c.pos + header_len /\ header_len \in Nat
        /\ m.len = w.c.len
      BY <1>1, <1>5, GoodFacts DEF Beyond
  <2>3. port.at + SizeOf["RawPort"] <= raw.at + SizeOf[raw.ty] /\ port.at \in Nat
    <3>1. /\ OffsetOf[raw.ty]["h_lport"] \in Nat
          /\ OffsetOf[raw.ty]["h_lport"] + SizeOf["RawPort"] <= SizeOf[raw.ty]
        BY SizeAssumption
    <3>2. SizeOf["RawPort"] \in Nat /\ SizeOf[raw.ty] \in Nat /\ raw.at \in Nat
        BY SizeAssumption DEF Inside, StructName
    <3>3. port.at = raw.at + OffsetOf[raw.ty]["h_lport"]
        OBVIOUS
    <3> QED
        BY <3>1, <3>2, <3>3
  <2>4. Inside(port, u.c.pos)
    <3>1. SizeOf["RawPort"] \in Nat /\ SizeOf[raw.ty] \in Nat /\ raw.at \in Nat
          /\ raw.at + SizeOf[raw.ty] <= w.c.pos
        BY SizeAssumption DEF Inside, StructName
    <3>2. port.at + SizeOf["RawPort"] <= m.pos
        BY <2>2, <2>3, <3>1
    <3>3. port.ty = "RawPort" /\ "RawPort" \in StructName
        BY DEF StructName
    <3> QED
        BY <1>2, <2>3, <3>2, <3>3 DEF Inside
  <2>5. port.ty = "RawPort"
      OBVIOUS
  <2>6. Good(v) /\ v.c = u.c /\ Len(v.todo) \in Nat /\ Len(v.todo) <= Len(u.todo) + 11
      BY <1>3, <2>1, <2>4, <2>5, PushGood
  <2> HIDE DEF v
  <2>7. Grown(v, w, 11)
    <3>1. v.c = m /\ Len(v.todo) <= Len(w.todo) + 11
        BY <1>2, <2>6 DEF u
    <3>2. Valid(v)
        BY <1>5, <2>6, <3>1 DEF Valid, Good
    <3> QED
        BY <2>2, <3>1, <3>2 DEF Grown
  <2>8. Went(v, w)
      BY <2>7, GrownWent DEF MaxReads
  <2> QED
      BY <2>8 DEF v, u, m, reads, consume_substruct_marker
<1> QED
    BY <1>1, <1>4, <1>5

\* Each read, whatever its field holds.
LEMMA ReadWent ==
    ASSUME NEW w, Good(w), NEW raw, Inside(raw, w.c.pos), NEW s, Fits(s, raw.ty), NEW v
    PROVE  Went(Read(w, raw, s, v), w)
<1>1. IsWalk(w) /\ Alike(w, w) /\ Went(w, w)
  <2>1. IsWalk(w) /\ Alike(w, w)
      BY DEF Good, Alike
  <2> QED
      BY <2>1, AlikeWent
<1>2. \A f, y : Went(Keep(w, f, y), w)
    BY <1>1, FramesOnly, AlikeWent
<1>3. Went(Failed(w), w)
    BY <1>1, FramesOnly, StuckWent
<1>4. Alike(Enter(w), w) /\ Went(Enter(w), w)
    BY <1>1, FramesOnly, AlikeWent
<1>5. Alike(Leave(w), w) /\ IsWalk(Leave(w))
    BY <1>1, FramesOnly DEF Alike
<1>6. ASSUME s.read = "value" PROVE Went(Read(w, raw, s, v), w)
  <2>1. Read(w, raw, s, v) = Keep(w, s.field, v)
      BY <1>6 DEF Read
  <2> QED
      BY <1>2, <2>1
<1>7. ASSUME s.read = "opt" PROVE Went(Read(w, raw, s, v), w)
  <2>1. Read(w, raw, s, v) = KeepText(To(w, read_opt(w.c, v)), s.field)
      BY <1>7 DEF Read
  <2> QED
      BY <2>1, OptWent
<1>8. ASSUME s.read = "location" PROVE Went(Read(w, raw, s, v), w)
  <2>1. Read(w, raw, s, v) = decode_med_location_marker(w, LocationData(w, raw, s.nth))
      BY <1>8 DEF Read
  <2> QED
      BY <2>1, LocationWent
<1>9. ASSUME s.read = "chassis" PROVE Went(Read(w, raw, s, v), w)
  <2>1. Read(w, raw, s, v) = PortChassis(w, s.field, v)
      BY <1>9 DEF Read
  <2> QED
      BY <2>1, ChassisWent
<1>10. ASSUME s.read = "required" PROVE Went(Read(w, raw, s, v), w)
  <2>1. Read(w, raw, s, v) = IF w.frames[1][s.field] = <<>> THEN Failed(w) ELSE w
      BY <1>10 DEF Read
  <2> QED
      BY <1>1, <1>3, <2>1
<1>11. ASSUME s.read = "local port" PROVE Went(Read(w, raw, s, v), w)
  <2>1. raw.ty \in HardwareName /\ s.field = "h_lport"
      BY <1>11 DEF Fits
  <2>2. Read(w, raw, s, v) =
            Push(To(w, consume_substruct_marker(w.c)),
                 [at |-> raw.at + OffsetOf[raw.ty]["h_lport"], ty |-> "RawPort"],
                 <<Unchained>> \o decode_port_fields)
      BY <1>11, <2>1 DEF Read
  <2> QED
      BY <2>1, <2>2, LocalPortWent
<1>12. ASSUME s.read = "one port" PROVE Went(Read(w, raw, s, v), w)
  <2>1. Read(w, raw, s, v) =
            IF v = 0 THEN Keep(w, s.field, <<>>)
            ELSE Pod(Enter(w), "RawPort", (<<Unchained>> \o build_neighbor) \o <<Some(s.field, 0)>>)
      BY <1>12 DEF Read
  <2> QED
      BY <1>2, <2>1, OnePortWent
<1>13. ASSUME s.read = "unchained" PROVE Went(Read(w, raw, s, v), w)
  <2>1. Read(w, raw, s, v) = IF v # 0 THEN Failed(w) ELSE w
      BY <1>13 DEF Read
  <2> QED
      BY <1>1, <1>3, <2>1
<1>14. ASSUME s.read = "list" PROVE Went(Read(w, raw, s, v), w)
  <2>1. Read(w, raw, s, v) =
            IF v = 0 THEN Keep(w, s.field, <<>>)
            ELSE Chain(Push(Enter(w), raw, <<Whole(s.field)>>), s.ty)
      BY <1>14 DEF Read
  <2>2. s.ty \in TailqName
      BY <1>14 DEF Fits
  <2> QED
      BY <1>2, <2>1, <2>2, ListWent
<1>15. ASSUME s.read = "rest" PROVE Went(Read(w, raw, s, v), w)
  <2>1. Read(w, raw, s, v) = IF v # 0 THEN Chain(w, s.ty) ELSE w
      BY <1>15 DEF Read
  <2>2. s.ty \in TailqName
      BY <1>15 DEF Fits
  <2>3. Went(Chain(w, s.ty), w)
      BY <2>2, ChainGrown, GrownWent DEF MaxReads
  <2> QED
      BY <1>1, <2>1, <2>3
<1>16. ASSUME s.read = "begin" PROVE Went(Read(w, raw, s, v), w)
  <2>1. Read(w, raw, s, v) = Enter(w)
      BY <1>16 DEF Read
  <2> QED
      BY <1>4, <2>1
<1>17. ASSUME s.read = "cons" PROVE Went(Read(w, raw, s, v), w)
  <2> DEFINE u == Leave(w)
             x == <<w.frames[1]>> \o u.frames[1]
  <2>1. Read(w, raw, s, v) = [u EXCEPT !.frames[1] = x]
      BY <1>17 DEF Read
  <2> HIDE DEF u, x
  <2>2. IsWalk(u) /\ Alike(u, w)
      BY <1>5 DEF u
  <2>3. Alike([u EXCEPT !.frames[1] = x], u)
      BY <2>2, PartsOnly
  <2> QED
      BY <2>1, <2>2, <2>3, AlikeTwice, AlikeWent
<1>18. ASSUME s.read = "whole" PROVE Went(Read(w, raw, s, v), w)
  <2> DEFINE u == Leave(w)
             y == w.frames[1]
  <2>1. Read(w, raw, s, v) = Keep(u, s.field, y)
      BY <1>18 DEF Read
  <2>2. IsWalk(u) /\ Alike(u, w)
      BY <1>5
  <2> HIDE DEF u, y
  <2>3. Alike(Keep(u, s.field, y), u)
      BY <2>2, FramesOnly
  <2> QED
      BY <2>1, <2>2, <2>3, AlikeTwice, AlikeWent
<1>19. ASSUME s.read = "some" PROVE Went(Read(w, raw, s, v), w)
  <2> DEFINE u == Leave(w)
             y == w.frames[1] @@ ("arc" :> w.c.pos)
  <2>1. Read(w, raw, s, v) = Kept(u, s, y)
      BY <1>19 DEF Read
  <2>2. IsWalk(u) /\ Alike(u, w)
      BY <1>5
  <2> HIDE DEF u, y
  <2>3. Alike(Kept(u, s, y), u)
      BY <2>2, FramesOnly
  <2> QED
      BY <2>1, <2>2, <2>3, AlikeTwice, AlikeWent
<1> QED
    BY <1>6, <1>7, <1>8, <1>9, <1>10, <1>11, <1>12, <1>13, <1>14, <1>15, <1>16, <1>17, <1>18, <1>19
       DEF Fits, Kinds

-----------------------------------------------------------------------------
\* Work of a decoder that has not failed.
LEMMA WorkLeft ==
    ASSUME NEW w, Good(w)
    PROVE  Work(w) \in Nat \ {0}
           /\ Work(w) = 17 * (w.c.len - w.c.pos) + Len(w.todo) + 1
<1>1. w.c.len - w.c.pos \in Nat /\ Len(w.todo) \in Nat
    BY GoodFacts
<1>2. Work(w) = 17 * (w.c.len - w.c.pos) + Len(w.todo) + 1
    BY DEF Work, MaxReads, Good
<1> QED
    BY <1>1, <1>2

LEMMA StepShrinks ==
    ASSUME NEW w, Valid(w), w.c.ok, w.todo # <<>>, NEW v, v = Step(w, Head(w.todo))
    PROVE  Valid(v) /\ Work(v) < Work(w)
<1> DEFINE u == [w EXCEPT !.todo = Tail(@)]
           t == Head(w.todo)
           x == Field(w.c, t.raw, t.do.field)
<1>1. Good(w)
    BY DEF Valid
<1>2. /\ Len(w.todo) \in Nat \ {0} /\ Len(Tail(w.todo)) = Len(w.todo) - 1
      /\ Inside(t.raw, w.c.pos) /\ Fits(t.do, t.raw.ty) /\ Sound(Tail(w.todo), w.c.pos)
    BY <1>1, SoundTail DEF Good
<1>3. IsWalk(u) /\ u.c = w.c /\ u.todo = Tail(w.todo)
    BY <1>1, PartsOnly DEF Good
<1>4. v = Read(u, t.raw, t.do, x)
    BY DEF Step
<1> HIDE DEF u, t, x
<1>5. Good(u)
    BY <1>1, <1>2, <1>3 DEF Good
<1>6. Went(v, u)
    BY <1>2, <1>3, <1>4, <1>5, ReadWent
<1>7. Valid(v)
    BY <1>6 DEF Went
<1>8. CASE v.c.ok
  <2>1. Good(v)
      BY <1>7, <1>8 DEF Valid
  <2> DEFINE n == w.c.len
             p == w.c.pos
             r == v.c.pos
  <2>2. /\ n \in Nat /\ p \in Nat /\ p <= n /\ header_len \in Nat \ {0}
        /\ r \in Nat /\ r <= v.c.len /\ Len(v.todo) \in Nat
      BY <1>1, <2>1, GoodFacts, CursorAssumption DEF header_len
  <2>3. /\ v.c.len = n
        /\ \/ r = p /\ Len(v.todo) <= Len(w.todo) - 1
           \/ r >= p + header_len /\ Len(v.todo) <= Len(w.todo) - 1 + 17
      BY <1>2, <1>3, <1>6, <1>8 DEF Went, MaxReads
  <2>4. /\ Work(w) = 17 * (n - p) + Len(w.todo) + 1
        /\ Work(v) = 17 * (n - r) + Len(v.todo) + 1
      BY <1>1, <2>1, <2>3, WorkLeft
  <2> HIDE DEF n, p, r
  <2>5. CASE r = p /\ Len(v.todo) <= Len(w.todo) - 1
    <3> DEFINE a == 17 * (n - p)
               k == Len(v.todo)
               l == Len(w.todo)
    <3>1. /\ a \in Nat /\ k \in Nat /\ l \in Nat /\ k <= l - 1
          /\ Work(w) = a + l + 1 /\ Work(v) = a + k + 1
      <4>1. n - p \in Nat /\ k \in Nat /\ l \in Nat /\ k <= l - 1
          BY <1>2, <2>2, <2>5
      <4>2. a \in Nat
          BY <4>1
      <4>3. Work(w) = a + l + 1 /\ Work(v) = a + k + 1
          BY <2>4, <2>5
      <4> QED
          BY <4>1, <4>2, <4>3
    <3> HIDE DEF a, k, l
    <3>2. Work(v) < Work(w)
        BY <3>1
    <3> QED
        BY <1>7, <3>2
  <2>6. CASE r >= p + header_len /\ Len(v.todo) <= Len(w.todo) - 1 + 17
    <3>1. r \in p + 1..n
        BY <2>2, <2>3, <2>6
    <3>2. /\ 17 * (n - r) <= 17 * (n - p) - 17
          /\ 17 * (n - r) \in Nat /\ 17 * (n - p) \in Nat
      <4>1. n - r \in Nat /\ n - p \in Nat /\ n - r <= n - p - 1
          BY <2>2, <3>1
      <4> QED
          BY <4>1
    <3> DEFINE a == 17 * (n - r)
               b == 17 * (n - p)
               k == Len(v.todo)
               l == Len(w.todo)
    <3>3. /\ a \in Nat /\ b \in Nat /\ k \in Nat /\ l \in Nat /\ a <= b - 17 /\ k <= l - 1 + 17
          /\ Work(w) = b + l + 1 /\ Work(v) = a + k + 1
        BY <1>2, <2>2, <2>4, <2>6, <3>2
    <3> HIDE DEF a, b, k, l
    <3>4. Work(v) < Work(w)
        BY <3>3
    <3> QED
        BY <1>7, <3>4
  <2> QED
      BY <1>7, <2>3, <2>5, <2>6
<1>9. CASE ~v.c.ok
  <2>1. Work(v) = 0
      BY <1>9 DEF Work
  <2> QED
      BY <1>1, <1>7, <2>1, WorkLeft
<1> QED
    BY <1>8, <1>9

-----------------------------------------------------------------------------
\* The inductive invariant: every read on the stack is of a structure that has
\* been read whole, and can be made of it.
DecodeInv == Valid(walk)

LEMMA StartsValid == DecodeInit => DecodeInv
<1> SUFFICES ASSUME NEW b \in Inputs, NEW T \in DOMAIN Decoders,
                    walk = Pod(Start(b), T, Decoders[T])
             PROVE  DecodeInv
    BY DEF DecodeInit
<1> DEFINE w == Start(b)
<1>1. /\ b.w \in Seq(0..USIZE_MAX) /\ Len(b.w) * PTR_SIZE + 2 * PTR_SIZE <= USIZE_MAX
      /\ b.n \in 0..(Len(b.w) * PTR_SIZE)
    BY InputAssumption
<1>2. Buffer(b.w) /\ b.n \in Nat /\ b.n <= Len(b.w) * PTR_SIZE
  <2>1. Buffer(b.w)
      BY <1>1 DEF Buffer
  <2> QED
      BY <1>1, <2>1, BufferWords
<1>3. w.c = Cursor(b.w, b.n) /\ w.todo = <<>> /\ IsWalk(w)
    BY DEF Start, IsWalk
<1>4. /\ w.c.buf = b.w /\ w.c.len = b.n /\ w.c.pos = 0 /\ w.c.ok = TRUE
    BY <1>3 DEF Cursor
<1> HIDE DEF w
<1>5. Within(w.c)
    BY <1>2, <1>4 DEF Within
<1>6. Sound(<<>>, 0)
  <2>1. IsSeq(<<>>) /\ Len(<<>>) = 0
      BY EmptySeq, SeqIsSeq
  <2> QED
      BY <2>1 DEF Sound
<1>7. Good(w)
    BY <1>3, <1>4, <1>5, <1>6 DEF Good
<1>8. T \in StructName /\ Legal(Decoders[T], T, MaxReads) /\ MaxReads \in Nat
    BY LegalRoot DEF MaxReads
<1>9. Grown(Pod(w, T, Decoders[T]), w, MaxReads)
    BY <1>7, <1>8, PodGrown
<1> QED
    BY <1>9 DEF Grown, DecodeInv, w

LEMMA StaysValid == DecodeInv /\ [DecodeNext]_walk => DecodeInv'
<1>1. ASSUME DecodeInv, DecodeNext PROVE DecodeInv'
    BY <1>1, StepShrinks DEF DecodeNext, DecodeInv
<1>2. ASSUME DecodeInv, UNCHANGED walk PROVE DecodeInv'
    BY <1>2 DEF DecodeInv
<1> QED
    BY <1>1, <1>2

LEMMA AlwaysValid == DecodeSpec => []DecodeInv
BY StartsValid, StaysValid, PTL DEF DecodeSpec

\* decode_interfaces, decode_hardware and decode_neighbor_change: no payload
\* makes a decoder look at a byte that is not there.
THEOREM DecodersInBounds == DecodeSpec => []FieldsInBounds
<1>1. ASSUME DecodeInv PROVE FieldsInBounds
  <2> SUFFICES ASSUME walk.c.ok
               PROVE  /\ walk.c.pos <= walk.c.len
                      /\ \A k \in DOMAIN walk.todo :
                            walk.todo[k].raw.at + SizeOf[walk.todo[k].raw.ty] <= walk.c.pos
      BY DEF FieldsInBounds
  <2>1. Good(walk)
      BY <1>1 DEF DecodeInv, Valid
  <2>2. DOMAIN walk.todo = 1..Len(walk.todo)
      BY <2>1, SeqIsSeq DEF Good, Sound, IsSeq
  <2> QED
      BY <2>1, <2>2 DEF Good, Within, Sound, Inside
<1> QED
    BY <1>1, AlwaysValid, PTL

\* The same decoders: none of them goes on for ever, whatever the payload.
THEOREM DecodersEnd == DecodeSpec => WorkShrinks
<1>1. ASSUME DecodeInv, [DecodeNext]_walk PROVE [Work(walk') < Work(walk)]_walk
    BY <1>1, StepShrinks DEF DecodeNext, DecodeInv
<1> QED
    BY <1>1, AlwaysValid, PTL DEF DecodeSpec, WorkShrinks

=============================================================================
