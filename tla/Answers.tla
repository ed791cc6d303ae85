------------------------------ MODULE Answers ------------------------------
(***************************************************************************)
(* What decode_interfaces, decode_hardware and decode_neighbor_change      *)
(* answer: a walk of Decode from its first structure to its end, and the   *)
(* values of src/model.rs made of the fields it has read.                  *)
(***************************************************************************)
EXTENDS Decode
LOCAL INSTANCE SequencesExt

\* The ? after every read: nothing follows the first one that fails.
RECURSIVE Walk(_)
Walk(w) == IF w.todo = <<>> \/ ~w.c.ok THEN w ELSE Walk(Step(w, Head(w.todo)))

-----------------------------------------------------------------------------
(* What is made of the fields.                                              *)

\* unwrap_or_default.
OrEmpty(text) == IF text = <<>> THEN <<0>> ELSE text

Interface(v) == [name |-> OrEmpty(v["name"]), alias |-> v["alias"]]

\* An enum value: the name of v, or Other(v).
Variant(names, v) == IF v \in DOMAIN names THEN <<names[v]>> ELSE <<"Other", v>>

NeighborChangeKind(v) == Variant((1 :> "Added") @@ (0 :> "Updated") @@ (-1 :> "Deleted"), v)

ChassisIdSubtype(v) ==
    Variant(<<"ChassisComponent", "IfAlias", "PortComponent", "MacAddress", "NetworkAddress",
              "IfName", "Local">>, v)

PortIdSubtype(v) ==
    IF v = 0 THEN <<"Unknown">>
    ELSE Variant(<<"IfAlias", "PortComponent", "MacAddress", "NetworkAddress", "IfName",
                   "AgentCircuitId", "Local">>, v)

\* The kind of IpAddr that len octets of a family make, if any.
ip(family, len) ==
    CASE family = 1 /\ len >= 4 -> <<"V4">> [] family = 2 /\ len >= 16 -> <<"V6">> [] OTHER -> <<>>

\* What ip(), raw_octets() and interface_index show of an address of len octets.
ManagementAddress(family, len, iface) == [ip |-> ip(family, len), len |-> len, iface |-> iface]

\* m_addrsize is cut to the 16 bytes of m_addr.
Address(v) ==
    ManagementAddress(v["m_family"], IF v["m_addrsize"] < 16 THEN v["m_addrsize"] ELSE 16, v["m_iface"])

Chassis(v) ==
    [subtype |-> ChassisIdSubtype(v["c_id_subtype"]), id |-> OrEmpty(v["c_id"]),
     name |-> v["c_name"], descr |-> v["c_descr"], caps |-> v["c_cap_available"],
     mgmt |-> [k \in DOMAIN v["c_mgmt_tqh_first"] |-> Address(v["c_mgmt_tqh_first"][k])],
     med |-> [f \in ToSet(MedFields) |-> v[f]]]

Neighbor(v) ==
    [chassis |-> Chassis(v["p_chassis"][1]), subtype |-> PortIdSubtype(v["p_id_subtype"]),
     id |-> OrEmpty(v["p_id"]), descr |-> v["p_descr"], ttl |-> v["p_ttl"]]

\* What read has made of a payload, as the decoder returns it.
Result(w, v) == IF w.c.ok THEN [ok |-> TRUE, val |-> v] ELSE [ok |-> FALSE, val |-> <<>>]

Interfaces(w, list) == Result(w, [k \in DOMAIN list |-> Interface(list[k])])

\* Where the chassis of local_chassis and of each neighbor is.
Arcs(chassis) == [k \in DOMAIN chassis |-> chassis[k]["arc"]]

InterfaceDetails(w, v, list) ==
    Result(w, [name |-> v["h_ifname"], alias |-> v["h_ifalias"], mac |-> v["h_lladdr"],
               arcs |-> Arcs(v["p_chassis"]) \o [k \in DOMAIN list |-> Arcs(list[k]["p_chassis"])[1]],
               chassis |-> [k \in DOMAIN v["p_chassis"] |-> Chassis(v["p_chassis"][k])],
               neighbors |-> [k \in DOMAIN list |-> Neighbor(list[k])]])

NeighborChange(w, v) ==
    Result(w, [name |-> OrEmpty(v["ifname"]), alias |-> v["ifalias"],
               kind |-> NeighborChangeKind(v["state"]),
               neighbor |-> [k \in DOMAIN v["neighbor"] |-> Neighbor(v["neighbor"][k])]])

-----------------------------------------------------------------------------
(* The three payloads.                                                      *)

Payload(b, T, reads) == Walk(Pod(Start(b), T, reads))

InterfacesOf(w) == Interfaces(w, w.frames[1]["tqh_first"])
decode_interfaces(b) ==
    InterfacesOf(Payload(b, "RawInterfaceList", InterfaceListReads))

\* The tie-breaker between the layouts.
Exhausted(w) == IF w.c.ok /\ ~is_exhausted(w.c) THEN Failed(w) ELSE w
DetailsOf(w) == InterfaceDetails(w, w.frames[1], w.frames[1]["h_rports_tqh_first"])
decode_hardware_as(b, T) ==
    DetailsOf(Exhausted(Payload(b, T, HardwareReads)))

FirstOk(legacy, master) == IF ~legacy.ok /\ master.ok THEN master ELSE legacy
decode_hardware(b) ==
    FirstOk(decode_hardware_as(b, "RawHardware"),
            decode_hardware_as(b, "RawHardwareWithFlagsPrevious"))

ChangeOf(w) == NeighborChange(w, w.frames[1])

\* Mutant: ifalias before ifname.
decode_neighbor_change_Swapped(b) ==
    ChangeOf(Payload(b, "RawNeighborChange",
                     <<Opt("ifalias"), Opt("ifname"), OnePort("neighbor"), Value("state")>>))

decode_neighbor_change(b) ==
    ChangeOf(Payload(b, "RawNeighborChange", NeighborChangeReads))

=============================================================================
