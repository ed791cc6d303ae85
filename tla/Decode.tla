------------------------------- MODULE Decode -------------------------------
(***************************************************************************)
(* The decoders of src/wire/decode.rs: recursive walks over the chunks of  *)
(* one payload.  A decoder is the sequence of reads it makes behind its    *)
(* structure; their call stack is explicit, todo for the reads that it and *)
(* its callers still have to make, frames for what each has read so far.   *)
(*                                                                         *)
(* A raw structure is where its bytes start and its type.  An Option is a  *)
(* sequence of at most one element; of a string the first word is kept, 0  *)
(* when it is empty, and a word stands for the plain field in it that is   *)
(* used (c_cap_available for both sets of capabilities).                   *)
(***************************************************************************)
EXTENDS Cursor, Layout, Integers
LOCAL INSTANCE SequencesExt

ASSUME DecodeAssumption == WordSize = PTR_SIZE

-----------------------------------------------------------------------------
(* The reads, each at a field of the raw structure.                         *)

Value(f) == [read |-> "value", field |-> f]
Opt(f) == [read |-> "opt", field |-> f]
List(f, T) == [read |-> "list", field |-> f, ty |-> T]
ChassisOf(f) == [read |-> "chassis", field |-> f]
Required(f) == [read |-> "required", field |-> f]
Location(i) == [read |-> "location", field |-> "p_med_location", nth |-> i]
LocalPort(f) == [read |-> "local port", field |-> f]
OnePort(f) == [read |-> "one port", field |-> f]

\* Mutant: alias before name.
decode_interface_chain_Swapped == <<Opt("alias"), Opt("name")>>

decode_interface_chain == <<Opt("name"), Opt("alias")>>

decode_mgmt_chain == <<Value("m_family"), Value("m_addrsize"), Value("m_iface")>>

MedFields == <<"c_med_hw", "c_med_fw", "c_med_sw", "c_med_sn", "c_med_manuf",
               "c_med_model", "c_med_asset">>

decode_chassis ==
    <<Opt("c_id"), Opt("c_name"), Opt("c_descr"), List("c_mgmt_tqh_first", "RawMgmt")>>
        \o [i \in DOMAIN MedFields |-> Opt(MedFields[i])]
        \o <<Value("c_id_subtype"), Value("c_cap_available")>>

discard_vlan_chain == <<Opt("v_name")>>
discard_ppvid_chain == << >>
discard_pi_chain == <<Opt("p_pi")>>

decode_port_fields ==
    <<ChassisOf("p_chassis"), Opt("p_id"), Opt("p_descr"), Opt("p_vlan_advertise_pattern"),
      Location(1), Location(2), Location(3), List("p_vlans_tqh_first", "RawVlan"),
      List("p_ppvids_tqh_first", "RawPpvid"), List("p_pids_tqh_first", "RawPi")>>

\* A neighbor without a chassis is an error.
build_neighbor ==
    decode_port_fields \o <<Required("p_chassis"), Value("p_id_subtype"), Value("p_ttl")>>

\* Of an element of a TAILQ of T: its link and its own reads.
Link(T) == IF T = "RawInterface" THEN "next_tqe_next" ELSE "tqe_next"
Reads(T) ==
    CASE T = "RawInterface" -> decode_interface_chain
      [] T = "RawMgmt" -> decode_mgmt_chain
      [] T = "RawVlan" -> discard_vlan_chain
      [] T = "RawPpvid" -> discard_ppvid_chain
      [] T = "RawPi" -> discard_pi_chain
      [] T = "RawPort" -> build_neighbor

-----------------------------------------------------------------------------
(* A walk: the cursor c, todo and frames, innermost first, and the chassis  *)
(* decoded so far by their reference.                                       *)

Start(b) == [c |-> Cursor(b.w, b.n), todo |-> <<>>, frames |-> << <<>> >>, cache |-> <<>>]

To(w, c) == [w EXCEPT !.c = c]
Failed(w) == To(w, Err(w.c))
Keep(w, f, v) == [w EXCEPT !.frames[1] = @ @@ (f :> v)]
Enter(w) == [w EXCEPT !.frames = << <<>> >> \o @]
Leave(w) == [w EXCEPT !.frames = Tail(@)]

\* A word of a structure that has been read.
Field(c, raw, f) == Word(c, raw.at + OffsetOf[raw.ty][f])

\* The reads to be made of raw, before everything else.
Push(w, raw, reads) ==
    IF w.c.ok THEN [w EXCEPT !.todo = [k \in DOMAIN reads |-> [raw |-> raw, do |-> reads[k]]] \o @]
    ELSE w

\* read_chunk_pod::<T>, with its reads behind it.
Behind(w, T, reads) == Push(w, [at |-> w.c.val.at, ty |-> T], reads)
Pod(w, T, reads) == Behind(To(w, read_chunk_pod(w.c, SizeOf[T])), T, reads)

\* read_opt_cstring and read_opt_bytes.
Text(c) ==
    IF c.val = NoSlice THEN <<>>
    ELSE IF c.val.len = 0 THEN <<0>> ELSE <<Word(c, c.val.at)>>
KeepText(w, f) == IF w.c.ok THEN Keep(w, f, Text(w.c)) ELSE w

\* One element of a TAILQ: the rest of the list is nested inside it, in front
\* of its own reads.
Chain(w, T) ==
    Pod(w, T, <<[read |-> "rest", field |-> Link(T), ty |-> T], [read |-> "begin"]>>
              \o Reads(T) \o <<[read |-> "cons"]>>)

\* What is read is one structure, or a list, that goes to field f of the caller.
Some(f, key) == [read |-> "some", field |-> f, key |-> key]
Whole(f) == [read |-> "whole", field |-> f]

\* Mutant: every pointer to a chassis is taken for a new one.
PortChassis_NoCache(w, f, key) ==
    IF key = 0 THEN Keep(w, f, <<>>)
    ELSE Pod(Enter(w), "RawChassis", decode_chassis \o <<Some(f, key)>>)

\* Mutant: the cached chassis is copied, not shared.
PortChassis_Clone(w, f, key) ==
    IF key = 0 THEN Keep(w, f, <<>>)
    ELSE IF key \in DOMAIN w.cache
         THEN Keep(w, f, <<[w.cache[key] EXCEPT !["arc"] = w.c.pos]>>)
    ELSE Pod(Enter(w), "RawChassis", decode_chassis \o <<Some(f, key)>>)

\* The chassis of a port: absent, already decoded, or next on the wire.
PortChassis(w, f, key) ==
    IF key = 0 THEN Keep(w, f, <<>>)
    ELSE IF key \in DOMAIN w.cache THEN Keep(w, f, <<w.cache[key]>>)
    ELSE Pod(Enter(w), "RawChassis", decode_chassis \o <<Some(f, key)>>)

\* Mutant: no marker for an empty location.
decode_med_location_marker_Skipped(w, data) ==
    IF data = 0 THEN w
    ELSE LET m == consume_substruct_marker(w.c)
         IN  To(w, IF m.ok THEN read_opt(m, data) ELSE m)

decode_med_location_marker(w, data) ==
    LET m == consume_substruct_marker(w.c) IN To(w, IF m.ok THEN read_opt(m, data) ELSE m)

\* The data of p_med_location[i].
LocationData(w, raw, i) ==
    Field(w.c, [at |-> raw.at + OffsetOf[raw.ty]["p_med_location"] + (i - 1) * SizeOf["RawMedLoc"],
                ty |-> "RawMedLoc"], "data")

\* A port outside of any list is not chained to another one.
Unchained == [read |-> "unchained", field |-> "tqe_next"]

\* The structure v, new on the heap: arc is its address.
Kept(w, s, v) ==
    [Keep(w, s.field, <<v>>) EXCEPT !.cache = IF s.key = 0 THEN @ ELSE @ @@ (s.key :> v)]

\* One read, where v is the word of its field.
Read(w, raw, s, v) ==
    CASE s.read = "value" -> Keep(w, s.field, v)
      [] s.read = "opt" -> KeepText(To(w, read_opt(w.c, v)), s.field)
      [] s.read = "location" -> decode_med_location_marker(w, LocationData(w, raw, s.nth))
      [] s.read = "chassis" -> PortChassis(w, s.field, v)
      [] s.read = "required" -> IF w.frames[1][s.field] = <<>> THEN Failed(w) ELSE w
      [] s.read = "local port" ->
            Push(To(w, consume_substruct_marker(w.c)),
                 [at |-> raw.at + OffsetOf[raw.ty][s.field], ty |-> "RawPort"],
                 <<Unchained>> \o decode_port_fields)
      [] s.read = "one port" ->
            IF v = 0 THEN Keep(w, s.field, <<>>)
            ELSE Pod(Enter(w), "RawPort", <<Unchained>> \o build_neighbor \o <<Some(s.field, 0)>>)
      [] s.read = "unchained" -> IF v # 0 THEN Failed(w) ELSE w
      [] s.read = "list" ->
            IF v = 0 THEN Keep(w, s.field, <<>>)
            ELSE Chain(Push(Enter(w), raw, <<Whole(s.field)>>), s.ty)
      [] s.read = "rest" -> IF v # 0 THEN Chain(w, s.ty) ELSE w
      [] s.read = "begin" -> Enter(w)
      [] s.read = "cons" -> [Leave(w) EXCEPT !.frames[1] = <<w.frames[1]>> \o @]
      [] s.read = "whole" -> Keep(Leave(w), s.field, w.frames[1])
      [] s.read = "some" -> Kept(Leave(w), s, w.frames[1] @@ ("arc" :> w.c.pos))

Step(w, t) == Read([w EXCEPT !.todo = Tail(@)], t.raw, t.do, Field(w.c, t.raw, t.do.field))

-----------------------------------------------------------------------------
(* The three payloads: the structure each starts with, and its reads.       *)

InterfaceListReads == <<List("tqh_first", "RawInterface")>>

HardwareReads ==
    <<LocalPort("h_lport"), List("h_rports_tqh_first", "RawPort"), Opt("h_ifalias"),
      Value("h_ifname"), Value("h_lladdr")>>

NeighborChangeReads == <<Opt("ifname"), Opt("ifalias"), OnePort("neighbor"), Value("state")>>

=============================================================================
