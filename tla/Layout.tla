------------------------------- MODULE Layout -------------------------------
(***************************************************************************)
(* The C structures of src/wire/raw.rs and where #[repr(C)] puts their     *)
(* fields.  lldpd copies its structs to the wire as they are, so an offset *)
(* here is an offset in a message.                                         *)
(***************************************************************************)
EXTENDS Naturals, Sequences, TLC
LOCAL INSTANCE SequencesExt

CONSTANTS
    WordSize,    \* size_of::<usize>(), and its alignment
    AlignOfU64   \* 8, except on targets like i386

ASSUME LayoutAssumption == WordSize \in {4, 8} /\ AlignOfU64 \in {4, 8}

-----------------------------------------------------------------------------
(* Structures: sequences of <<field, type>> in declaration order.           *)

RawMgmt == <<
    <<"tqe_next", "usize">>, <<"tqe_prev", "usize">>, <<"m_family", "i32">>,
    <<"m_addr", "u8x16">>, <<"m_addrsize", "usize">>, <<"m_iface", "u32">> >>

RawVlan == <<
    <<"tqe_next", "usize">>, <<"tqe_prev", "usize">>, <<"v_name", "usize">>,
    <<"v_vid", "u16">> >>

RawPpvid == <<
    <<"tqe_next", "usize">>, <<"tqe_prev", "usize">>, <<"p_cap_status", "u8">>,
    <<"p_ppvid", "u16">> >>

RawPi == <<
    <<"tqe_next", "usize">>, <<"tqe_prev", "usize">>, <<"p_pi", "usize">>,
    <<"p_pi_len", "i32">> >>

RawMedPolicy == <<
    <<"index", "u8">>, <<"kind", "u8">>, <<"unknown", "u8">>, <<"tagged", "u8">>,
    <<"vid", "u16">>, <<"priority", "u8">>, <<"dscp", "u8">> >>

RawMedLoc == <<
    <<"index", "u8">>, <<"format", "u8">>, <<"data", "usize">>, <<"data_len", "i32">> >>

RawMedPower == <<
    <<"devicetype", "u8">>, <<"source", "u8">>, <<"priority", "u8">>,
    <<"val", "u16">> >>

RawDot3MacPhy == <<
    <<"autoneg_support", "u8">>, <<"autoneg_enabled", "u8">>,
    <<"autoneg_advertised", "u16">>, <<"mau_type", "u16">> >>

RawDot3Power == <<
    <<"devicetype", "u8">>, <<"supported", "u8">>, <<"enabled", "u8">>,
    <<"paircontrol", "u8">>, <<"pairs", "u8">>, <<"class", "u8">>,
    <<"powertype", "u8">>, <<"source", "u8">>, <<"priority", "u8">>,
    <<"requested", "u16">>, <<"allocated", "u16">>, <<"pd_4pid", "u8">>,
    <<"requested_a", "u16">>, <<"requested_b", "u16">>, <<"allocated_a", "u16">>,
    <<"allocated_b", "u16">>, <<"pse_status", "u16">>, <<"pd_status", "u8">>,
    <<"pse_pairs_ext", "u8">>, <<"class_a", "u8">>, <<"class_b", "u8">>,
    <<"class_ext", "u8">>, <<"type_ext", "u8">>, <<"pd_load", "u8">>,
    <<"pse_max", "u16">> >>

RawCdpPower == <<
    <<"request_id", "u16">>, <<"management_id", "u16">> >>

RawChassis == <<
    <<"tqe_next", "usize">>, <<"tqe_prev", "usize">>, <<"c_refcount", "u16">>,
    <<"c_index", "u16">>, <<"c_protocol", "u8">>, <<"c_id_subtype", "u8">>,
    <<"c_id", "usize">>, <<"c_id_len", "i32">>, <<"c_name", "usize">>,
    <<"c_descr", "usize">>, <<"c_cap_available", "u16">>, <<"c_cap_enabled", "u16">>,
    <<"c_mgmt_tqh_first", "usize">>, <<"c_mgmt_tqh_last", "usize">>,
    <<"c_med_cap_available", "u16">>, <<"c_med_type", "u8">>, <<"c_med_hw", "usize">>,
    <<"c_med_fw", "usize">>, <<"c_med_sw", "usize">>, <<"c_med_sn", "usize">>,
    <<"c_med_manuf", "usize">>, <<"c_med_model", "usize">>,
    <<"c_med_asset", "usize">> >>

RawPort == <<
    <<"tqe_next", "usize">>, <<"tqe_prev", "usize">>, <<"p_chassis", "usize">>,
    <<"p_lastchange", "isize">>, <<"p_lastupdate", "isize">>,
    <<"p_lastremove", "isize">>, <<"p_lastframe", "usize">>, <<"p_protocol", "u8">>,
    <<"p_bitfield_flags", "u8">>, <<"p_hardware_flags", "i32">>,
    <<"p_id_subtype", "u8">>, <<"p_id", "usize">>, <<"p_id_len", "i32">>,
    <<"p_descr", "usize">>, <<"p_descr_force", "i32">>, <<"p_mfs", "u16">>,
    <<"p_ttl", "u16">>, <<"p_vlan_tx_tag", "i32">>, <<"p_vlan_tx_enabled", "i32">>,
    <<"p_vlan_advertise_pattern", "usize">>, <<"p_aggregid", "u32">>,
    <<"p_macphy", "RawDot3MacPhy">>, <<"p_power", "RawDot3Power">>,
    <<"p_med_cap_enabled", "u16">>, <<"p_med_policy", "RawMedPolicyx8">>,
    <<"p_med_location", "RawMedLocx3">>, <<"p_med_power", "RawMedPower">>,
    <<"p_cdp_power", "RawCdpPower">>, <<"p_pvid", "u16">>,
    <<"p_vlans_tqh_first", "usize">>, <<"p_vlans_tqh_last", "usize">>,
    <<"p_ppvids_tqh_first", "usize">>, <<"p_ppvids_tqh_last", "usize">>,
    <<"p_pids_tqh_first", "usize">>, <<"p_pids_tqh_last", "usize">> >>

RawInterface == <<
    <<"next_tqe_next", "usize">>, <<"next_tqe_prev", "usize">>, <<"name", "usize">>,
    <<"alias", "usize">> >>

RawInterfaceList == <<
    <<"tqh_first", "usize">>, <<"tqh_last", "usize">> >>

RawHardware == <<
    <<"h_entries_tqe_next", "usize">>, <<"h_entries_tqe_prev", "usize">>,
    <<"h_cfg", "usize">>, <<"h_recv", "usize">>, <<"h_sendfd", "i32">>,
    <<"h_mangle", "i32">>, <<"h_ops", "usize">>, <<"h_data", "usize">>,
    <<"h_timer", "usize">>, <<"h_mtu", "i32">>, <<"h_flags", "i32">>,
    <<"h_ifindex", "i32">>, <<"h_ifindex_changed", "i32">>, <<"h_ifname", "u8x16">>,
    <<"h_ifalias", "usize">>, <<"h_lladdr", "u8x6">>, <<"h_tx_cnt", "u64">>,
    <<"h_rx_cnt", "u64">>, <<"h_rx_discarded_cnt", "u64">>,
    <<"h_rx_unrecognized_cnt", "u64">>, <<"h_ageout_cnt", "u64">>,
    <<"h_insert_cnt", "u64">>, <<"h_delete_cnt", "u64">>, <<"h_drop_cnt", "u64">>,
    <<"h_lport_previous", "usize">>, <<"h_lport_previous_len", "isize">>,
    <<"h_lchassis_previous_id_subtype", "u8">>, <<"h_lchassis_previous_id", "usize">>,
    <<"h_lchassis_previous_id_len", "i32">>, <<"h_lport_previous_id_subtype", "u8">>,
    <<"h_lport_previous_id", "usize">>, <<"h_lport_previous_id_len", "i32">>,
    <<"h_ifdescr_previous", "usize">>, <<"h_lport", "RawPort">>,
    <<"h_rports_tqh_first", "usize">>, <<"h_rports_tqh_last", "usize">>,
    <<"h_tx_fast", "i32">> >>

\* Mutant: the field is declared last, where 64-bit padding absorbs it.
RawHardwareWithFlagsPrevious_Last == Append(RawHardware, <<"h_flags_previous", "i32">>)

\* RawHardware with h_flags_previous after h_flags.
RawHardwareWithFlagsPrevious ==
    SubSeq(RawHardware, 1, 11) \o << <<"h_flags_previous", "i32">> >>
        \o SubSeq(RawHardware, 12, Len(RawHardware))

RawNeighborChange == <<
    <<"ifname", "usize">>, <<"ifalias", "usize">>, <<"state", "i32">>,
    <<"neighbor", "usize">> >>

RawPortSet == <<
    <<"ifname", "usize">>, <<"local_id", "usize">>, <<"local_descr", "usize">>,
    <<"vlan_advertise_pattern", "usize">>, <<"rxtx", "i32">>, <<"vlan_tx_tag", "i32">>,
    <<"vlan_tx_enabled", "i32">>, <<"med_policy", "usize">>,
    <<"med_location", "usize">>, <<"med_power", "usize">>, <<"dot3_power", "usize">> >>

-----------------------------------------------------------------------------
\* ptrs: the offsets of the pointer-sized words, which may hold a reference.
Plain(size, align) == [size |-> size, align |-> align, at |-> <<>>, ptrs |-> {}]
Scalar == [u8  |-> Plain(1, 1), u16 |-> Plain(2, 2), i32 |-> Plain(4, 4), u32 |-> Plain(4, 4),
           u64 |-> Plain(8, AlignOfU64), isize |-> Plain(WordSize, WordSize),
           usize |-> [Plain(WordSize, WordSize) EXCEPT !.ptrs = {0}]]

\* IFNAMSIZ, ETHER_ADDR_LEN, MED_APPTYPE_LAST and MED_LOCFORMAT_LAST.
Array == [u8x16 |-> <<"u8", 16>>, u8x6 |-> <<"u8", 6>>,
          RawMedPolicyx8 |-> <<"RawMedPolicy", 8>>, RawMedLocx3 |-> <<"RawMedLoc", 3>>]

Struct == [
    RawMgmt |-> RawMgmt, RawVlan |-> RawVlan, RawPpvid |-> RawPpvid,
    RawPi |-> RawPi, RawMedPolicy |-> RawMedPolicy, RawMedLoc |-> RawMedLoc,
    RawMedPower |-> RawMedPower, RawDot3MacPhy |-> RawDot3MacPhy,
    RawDot3Power |-> RawDot3Power, RawCdpPower |-> RawCdpPower,
    RawChassis |-> RawChassis, RawPort |-> RawPort, RawInterface |-> RawInterface,
    RawInterfaceList |-> RawInterfaceList, RawHardware |-> RawHardware,
    RawHardwareWithFlagsPrevious |-> RawHardwareWithFlagsPrevious,
    RawNeighborChange |-> RawNeighborChange, RawPortSet |-> RawPortSet]

-----------------------------------------------------------------------------
(* #[repr(C)]: each field at the next multiple of its alignment, the whole  *)
(* padded to the largest one.                                               *)

Up(n, align) == n + ((align - (n % align)) % align)
Larger(a, b) == IF a > b THEN a ELSE b

Nothing == [end |-> 0, align |-> 1, at |-> <<>>, ptrs |-> {}]

\* Field f with layout l at the offset here, behind the fields in p.
Put(p, f, l, here) ==
    [end |-> here + l.size, align |-> Larger(p.align, l.align), at |-> p.at @@ (f :> here),
     ptrs |-> p.ptrs \cup {here + o : o \in l.ptrs}]
Padded(p) == [size |-> Up(p.end, p.align), align |-> p.align, at |-> p.at, ptrs |-> p.ptrs]
Times(n, l) == [size |-> l.size * n, align |-> l.align, at |-> <<>>,
                ptrs |-> {i * l.size + o : i \in 0..(n - 1), o \in l.ptrs}]

TypeName == DOMAIN Scalar \cup DOMAIN Array \cup DOMAIN Struct
layout[t \in TypeName] ==
    LET place(p, f) == Put(p, f[1], layout[f[2]], Up(p.end, layout[f[2]].align))
    IN  IF t \in DOMAIN Scalar THEN Scalar[t]
        ELSE IF t \in DOMAIN Array THEN Times(Array[t][2], layout[Array[t][1]])
        ELSE Padded(FoldLeft(place, Nothing, Struct[t]))

\* size_of::<T>() and offset_of!(T, f), computed once.
StructName == {"RawMgmt", "RawVlan", "RawPpvid", "RawPi", "RawMedLoc", "RawChassis", "RawPort",
               "RawInterface", "RawInterfaceList", "RawHardware",
               "RawHardwareWithFlagsPrevious", "RawNeighborChange", "RawPortSet"}
SizeOf == [T \in StructName |-> layout[T].size]
OffsetOf == [T \in StructName |-> layout[T].at]
PointersOf == [T \in StructName |-> layout[T].ptrs]

HardwareName == {"RawHardware", "RawHardwareWithFlagsPrevious"}

\* h_lport is part of its structure: a result of the arithmetic above, for
\* each value of the constants.
ASSUME SizeAssumption ==
    /\ \A T \in StructName : SizeOf[T] \in Nat
    /\ \A T \in HardwareName :
          /\ OffsetOf[T]["h_lport"] \in Nat
          /\ OffsetOf[T]["h_lport"] + SizeOf["RawPort"] <= SizeOf[T]

=============================================================================
