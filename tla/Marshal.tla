------------------------------ MODULE Marshal ------------------------------
(***************************************************************************)
(* The writer of a payload.  marshal_serialize is lldpd's (external: known *)
(* from the docs of src/wire and the captures in its tests); the encoders  *)
(* of src/wire/mod.rs write the same format by hand.                       *)
(*                                                                         *)
(* An object is a string of len bytes, a structure, or a substructure      *)
(* whose bytes are part of its parent's.  ptrs are its pointer-shaped      *)
(* fields that are marshalled and not null, in marshalling order; own are  *)
(* the plain ones with a value of interest, and fill is what all the       *)
(* others hold.                                                            *)
(***************************************************************************)
EXTENDS Decode
LOCAL INSTANCE SequencesExt

CONSTANT HeapAddress  \* a pointer of lldpd's that is not null

ASSUME MarshalAssumption == HeapAddress \in Nat \ {0}

Null == 0  \* share of an object that only one pointer leads to

Str(text, len) ==
    [kind |-> "leaf", ty |-> "char", size |-> len, share |-> Null, ptrs |-> <<>>, text |-> text]
Obj(T, fill, own, ptrs) ==
    [kind |-> "struct", ty |-> T, share |-> Null, ptrs |-> ptrs, own |-> own, fill |-> fill]
Shared(id, obj) == [obj EXCEPT !.share = id]
Sub(T, ptrs) == [kind |-> "sub", ty |-> T, share |-> Null, ptrs |-> ptrs]

\* Field f points to obj; or the nth element of the array f is obj.
Ptr(f, obj) == <<[field |-> f, nth |-> 0, obj |-> obj]>>
Nth(f, n, obj) == <<[field |-> f, nth |-> n, obj |-> obj]>>
When(present, ptrs) == IF present THEN ptrs ELSE <<>>

\* A TAILQ: each element holds the rest of the list, then its own strings.
Tailq(elems, next) ==
    FoldLeft(LAMBDA rest, e : [e EXCEPT !.ptrs = Ptr(next, rest) \o @],
             Last(elems), Reverse(Front(elems)))

WordOf(T, f) == (OffsetOf[T][f] \div PTR_SIZE) + 1

\* The plain word k of T: h_lport is filled like any other port.
Filler(T, k, fill) ==
    IF T \in {"RawHardware", "RawHardwareWithFlagsPrevious"}
       /\ (k < WordOf(T, "h_lport") \/ k >= WordOf(T, "h_rports_tqh_first"))
    THEN fill.hw ELSE fill.port

\* Pointers that are no part of the format, copied as they are (a capture at
\* decode.rs:520 shows some): the end of a list is never null, nor is the way
\* back from an element; others in a RawHardware, h_lport included, may be.
Ends == {"tqh_last", "c_mgmt_tqh_last", "p_vlans_tqh_last", "p_ppvids_tqh_last",
         "p_pids_tqh_last", "h_rports_tqh_last"}
Unmarshalled(T) == DOMAIN OffsetOf[T] \cap
    (Ends \cup {"tqe_prev", "next_tqe_prev", "p_lastframe", "h_entries_tqe_next",
                "h_entries_tqe_prev", "h_cfg", "h_recv", "h_ops", "h_data", "h_timer",
                "h_lport_previous", "h_lchassis_previous_id", "h_lport_previous_id",
                "h_ifdescr_previous"}
          \cup (IF T = "RawChassis" THEN {"tqe_next"} ELSE {}))

\* Where those are in a T.
Copied(T, fields) ==
    {OffsetOf[T][f] : f \in fields \cap Unmarshalled(T)}
        \cup (IF T \in HardwareName
              THEN {OffsetOf[T]["h_lport"] + OffsetOf["RawPort"][f] :
                       f \in fields \cap Unmarshalled("RawPort")}
              ELSE {})
NeverNull ==
    [T \in StructName |-> Copied(T, IF T \in HardwareName THEN Ends ELSE Unmarshalled(T))]
MayBeNull ==
    [T \in HardwareName |-> Copied(T, Unmarshalled(T) \cup Unmarshalled("RawPort")) \ NeverNull[T]]

\* The bytes of an object, all its marshalled pointers still null.
SizeIn(obj) ==
    CASE obj.kind = "leaf" -> obj.size [] obj.kind = "sub" -> 0 [] OTHER -> SizeOf[obj.ty]
WordIn(obj, k) ==
    LET set == {f \in DOMAIN obj.own : WordOf(obj.ty, f) = k}
        at == (k - 1) * PTR_SIZE
    IN  IF set # {} THEN obj.own[CHOOSE f \in set : TRUE]
        ELSE IF at \in NeverNull[obj.ty] THEN HeapAddress
        ELSE IF obj.ty \in HardwareName /\ at \in MayBeNull[obj.ty] THEN obj.fill.ptr
        ELSE IF at \in PointersOf[obj.ty] THEN 0
        ELSE Filler(obj.ty, k, obj.fill)
Body(obj) ==
    [k \in 1..(Up(SizeIn(obj), PTR_SIZE) \div PTR_SIZE) |->
        IF obj.kind = "leaf" THEN obj.text ELSE WordIn(obj, k)]

-----------------------------------------------------------------------------
(* lldpd's marshal_serialize.  m is the message so far: its words w, its    *)
(* length n in bytes, the last reference id given out, and the ids of the   *)
(* shared objects it already holds.                                         *)

Empty == [w |-> <<>>, n |-> 0, id |-> 0, refs |-> <<>>]

\* The id that a pointer to obj is replaced with.
DummyId(m, obj) == IF obj.share \in DOMAIN m.refs THEN m.refs[obj.share] ELSE m.id + 1

\* A new chunk, then its size: header, content and every chunk nested in it.
Opened(m, obj) ==
    [w |-> m.w \o <<m.id + 1, 0>> \o Body(obj),
     n |-> Up(m.n, PTR_SIZE) + header_len + SizeIn(obj),
     id |-> m.id + 1,
     refs |-> IF obj.share = Null THEN m.refs ELSE m.refs @@ (obj.share :> m.id + 1)]
Closed(m, start) == [m EXCEPT !.w[(start \div PTR_SIZE) + 2] = m.n - start]

\* The offset of p in an object of type T at offset at.
FieldAt(at, T, p) ==
    at + OffsetOf[T][p.field] + (IF p.nth = 0 THEN 0 ELSE (p.nth - 1) * SizeOf[p.obj.ty])

RECURSIVE marshal_serialize_(_, _, _), linked(_, _, _), nested(_, _, _, _)

marshal_serialize_(m, obj, parent) ==
    IF obj.share \in DOMAIN m.refs THEN m
    ELSE Closed(nested(Opened(m, obj), obj,
                       IF obj.kind = "sub" THEN parent ELSE Up(m.n, PTR_SIZE) + header_len,
                       Len(obj.ptrs)),
                Up(m.n, PTR_SIZE))

\* What p leads to, and its reference id in place of the pointer.
linked(m, p, field) ==
    LET after == marshal_serialize_(m, p.obj, field)
    IN  IF p.obj.kind = "sub" THEN after
        ELSE [after EXCEPT !.w[(field \div PTR_SIZE) + 1] = DummyId(m, p.obj)]

\* The first k pointers of obj, which is at offset at.
nested(m, obj, at, k) ==
    IF k = 0 THEN m
    ELSE linked(nested(m, obj, at, k - 1), obj.ptrs[k], FieldAt(at, obj.ty, obj.ptrs[k]))

marshal_serialize(obj) ==
    LET m == marshal_serialize_(Empty, obj, 0) IN [w |-> m.w, n |-> m.n]

-----------------------------------------------------------------------------
(* The requests of src/wire/mod.rs.  A name is a text and its length, the   *)
(* NUL not counted.                                                         *)

\* The zeroed RawPortSet with vlan_tx_enabled = -1: Minus1 in its second half.
PortSetBody(minus1) ==
    [k \in 1..(SizeOf["RawPortSet"] \div PTR_SIZE) |->
        IF k = WordOf("RawPortSet", "vlan_tx_enabled") THEN minus1 ELSE 0]

\* Mutant: the size of the content alone.
push_string_chunk_NoHeader(b, orig, s) ==
    LET start == align_up(b.n, PTR_SIZE)
    IN  [w |-> b.w \o <<orig, s.size>> \o Body(s), n |-> start + header_len + s.size]

push_string_chunk(b, orig, s) ==
    LET start == align_up(b.n, PTR_SIZE)
    IN  [w |-> b.w \o <<orig, header_len + s.size>> \o Body(s),
         n |-> start + header_len + s.size]

encode_interface_name_request(name) ==
    push_string_chunk([w |-> <<>>, n |-> 0], 1, Str(name.text, name.len + 1))

encode_set_port_description_request(ifname, descr, minus1) ==
    LET pod1 == [PortSetBody(minus1) EXCEPT ![WordOf("RawPortSet", "ifname")] = 2,
                                            ![WordOf("RawPortSet", "local_descr")] = 3]
        body == push_string_chunk(
                    push_string_chunk([w |-> pod1, n |-> SizeOf["RawPortSet"]], 2,
                                      Str(ifname.text, ifname.len + 1)),
                    3, Str(descr.text, descr.len + 1))
    IN  [w |-> <<1, header_len + body.n>> \o body.w, n |-> header_len + body.n]

\* lldpcli's own request, which lldpd is known to accept.
ReferenceName(name) == marshal_serialize(Str(name.text, name.len + 1))
ReferenceSetPort(ifname, descr, minus1) ==
    marshal_serialize(Obj("RawPortSet", [port |-> 0], [vlan_tx_enabled |-> minus1],
        Ptr("ifname", Str(ifname.text, ifname.len + 1))
        \o Ptr("local_descr", Str(descr.text, descr.len + 1))))

=============================================================================
