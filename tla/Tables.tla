------------------------------- MODULE Tables -------------------------------
(***************************************************************************)
(* lldpd's tables (external), the payloads it makes of them, and what the  *)
(* decoders of src/wire/decode.rs make of those payloads.  Interfaces and  *)
(* neighbors come and go and chassis change; in every state each payload   *)
(* that lldpd could send is decoded.                                       *)
(***************************************************************************)
EXTENDS Marshal, Answers, FiniteSets
LOCAL INSTANCE SequencesExt

CONSTANTS
    ChassisIds,    \* remote chassis; LocalChassis is lldpd's own
    ChassisShape,  \* what is known of a chassis: [subtype, name, mgmt, med]
    PortShape,     \* what a neighbor sent: [chassis, subtype, id, descr, pattern,
                   \* vlans, ppvids, pids, locs]
    NoiseWord,     \* what the plain fields of a structure may hold
    MaxStr,        \* bound: bytes in a string of a reply
    NameLens,      \* lengths of the names in the client's requests
    MaxIfs,        \* bound: interfaces
    MaxNeighbors   \* bound: neighbors in all

LocalChassis == 1

ASSUME TablesAssumption ==
    /\ ChassisIds \subseteq Nat \ {0, LocalChassis}
    /\ \A p \in PortShape : p.chassis \in ChassisIds \cup {LocalChassis}
    /\ MaxStr \in Nat \ {0} /\ MaxIfs \in Nat /\ MaxNeighbors \in Nat

VARIABLES
    layout_,  \* which lldpd this is: the structure behind GET_INTERFACE
    noise,    \* plain fields: [hw, port], pointers of RawHardware that are not
              \* marshalled: ptr, and whether h_lport has a chassis
    ifs,      \* interfaces, in order: [alias, rports]
    chassis   \* chassis table

tableVars == <<layout_, noise, ifs, chassis>>

-----------------------------------------------------------------------------
(* Objects.  Every text is a number of its own, so that a string that ends  *)
(* up in the wrong place is seen; lengths run through all alignments.       *)

Label(owner, field) == 1000000 + owner * 100 + field
Named(owner, field) == Str(Label(owner, field), 1 + (Label(owner, field) % MaxStr))

\* lldp-const.h and lldpd-structs.h.
LLDP_CHASSISID_SUBTYPE == [MacAddress |-> 4, IfName |-> 6, Local |-> 7]
LLDP_PORTID_SUBTYPE == [MacAddress |-> 3, IfName |-> 5, Local |-> 7]
NEIGHBOR_CHANGE == [Deleted |-> -1, Updated |-> 0, Added |-> 1]

\* Management addresses as a neighbor may announce them: Short is no IPv6
\* address, though it says so, and Long has more octets than a message takes.
MgmtShape == [V4 |-> [family |-> 1, size |-> 4], V6 |-> [family |-> 2, size |-> 16],
              Short |-> [family |-> 2, size |-> 4], Mac |-> [family |-> 6, size |-> 6],
              Long |-> [family |-> 7, size |-> 24]]

ChassisObj(c) ==
    LET s == chassis[c]
        str(f, i) == Ptr(f, Named(c, i))
        mgmt == [k \in DOMAIN s.mgmt |->
                    Obj("RawMgmt", noise, [m_family |-> MgmtShape[s.mgmt[k]].family,
                                           m_addrsize |-> MgmtShape[s.mgmt[k]].size,
                                           m_iface |-> k], <<>>)]
        med == FoldLeft(LAMBDA ps, i : ps \o When(MedFields[i] \in s.med, str(MedFields[i], 10 + i)),
                        <<>>, [i \in DOMAIN MedFields |-> i])
    IN  Shared(c, Obj("RawChassis", noise,
            [c_id_subtype |-> LLDP_CHASSISID_SUBTYPE[s.subtype], c_cap_available |-> Label(c, 50)],
            str("c_id", 1) \o When(s.name, str("c_name", 2))
            \o When(s.mgmt # <<>>, Ptr("c_mgmt_tqh_first", Tailq(mgmt, "tqe_next")))
            \o med))

\* The fields of a port after its TAILQ entry; owner names its strings.
PortPtrs(owner, p, hasChassis) ==
    LET str(f, i) == Ptr(f, Named(owner, i))
        loc(i) == Nth("p_med_location", i,
                      Sub("RawMedLoc", When(i \in p.locs, str("data", 20 + i))))
        list(n, f, Elem(_)) == When(n > 0, Ptr(f, Tailq([k \in 1..n |-> Elem(k)], "tqe_next")))
        vlan(k) == Obj("RawVlan", noise, <<>>, str("v_name", 30 + k))
        ppvid(k) == Obj("RawPpvid", noise, <<>>, <<>>)
        pi(k) == Obj("RawPi", noise, <<>>, str("p_pi", 40 + k))
    IN  When(hasChassis, Ptr("p_chassis", ChassisObj(p.chassis)))
        \o When(p.id, str("p_id", 3)) \o When(p.descr, str("p_descr", 4))
        \o When(p.pattern, str("p_vlan_advertise_pattern", 5))
        \o loc(1) \o loc(2) \o loc(3)
        \o list(p.vlans, "p_vlans_tqh_first", vlan)
        \o list(p.ppvids, "p_ppvids_tqh_first", ppvid)
        \o list(p.pids, "p_pids_tqh_first", pi)

PortObj(owner, p) ==
    Obj("RawPort", noise, [p_id_subtype |-> LLDP_PORTID_SUBTYPE[p.subtype], p_ttl |-> Label(owner, 51)],
        PortPtrs(owner, p, TRUE))

\* lldpd's own end of the link.
OwnPort == [chassis |-> LocalChassis, subtype |-> "Local", id |-> TRUE, descr |-> TRUE, pattern |-> FALSE,
              vlans |-> 0, ppvids |-> 0, pids |-> 0, locs |-> {}]

Owner(i, k) == 10 * i + k

-----------------------------------------------------------------------------
(* The payloads of GET_INTERFACES, GET_INTERFACE and NOTIFICATION.          *)

InterfacesPayload ==
    LET elem(i) == Obj("RawInterface", noise, <<>>,
                       Ptr("name", Named(Owner(i, 0), 1))
                       \o When(ifs[i].alias, Ptr("alias", Named(Owner(i, 0), 2))))
        list == [i \in DOMAIN ifs |-> elem(i)]
    IN  marshal_serialize(Obj("RawInterfaceList", noise, <<>>,
            When(ifs # <<>>, Ptr("tqh_first", Tailq(list, "next_tqe_next")))))

HardwarePayload(i) ==
    LET rports == ifs[i].rports
        list == [k \in DOMAIN rports |-> PortObj(Owner(i, k), rports[k])]
    IN  marshal_serialize(Obj(layout_, noise,
            [h_ifname |-> Label(Owner(i, 0), 1), h_lladdr |-> Label(Owner(i, 0), 52)],
            Ptr("h_lport", Sub("RawPort", PortPtrs(Owner(i, 0), OwnPort, noise.chassis)))
            \o When(rports # <<>>, Ptr("h_rports_tqh_first", Tailq(list, "tqe_next")))
            \o When(ifs[i].alias, Ptr("h_ifalias", Named(Owner(i, 0), 2)))))

\* levent_ctl_notify clears the port's own TAILQ entry.
ChangePayload(i, k, kind) ==
    marshal_serialize(Obj("RawNeighborChange", noise, [state |-> NEIGHBOR_CHANGE[kind]],
        Ptr("ifname", Named(Owner(i, 0), 1))
        \o When(ifs[i].alias, Ptr("ifalias", Named(Owner(i, 0), 2)))
        \o Ptr("neighbor",
               [PortObj(Owner(i, k), ifs[i].rports[k]) EXCEPT !.own = @ @@ [tqe_prev |-> 0]])))

-----------------------------------------------------------------------------
EmptyShape == [subtype |-> "IfName", name |-> FALSE, mgmt |-> <<>>, med |-> {}]

TablesInit ==
    /\ layout_ \in {"RawHardware", "RawHardwareWithFlagsPrevious"}
    /\ noise \in [hw : NoiseWord, port : NoiseWord, ptr : {0, HeapAddress}, chassis : BOOLEAN]
    /\ ifs = <<>>
    /\ chassis = [c \in ChassisIds \cup {LocalChassis} |-> EmptyShape]

Neighbors == FoldLeft(LAMBDA n, i : n + Len(i.rports), 0, ifs)

\* A chassis on which the last neighbor is gone is forgotten.
Forget ==
    chassis' = [c \in DOMAIN chassis |->
                   IF \E i \in DOMAIN ifs' : \E k \in DOMAIN ifs'[i].rports :
                         ifs'[i].rports[k].chassis = c
                   THEN chassis[c] ELSE EmptyShape]

IfAdded(alias) ==
    /\ Len(ifs) < MaxIfs
    /\ ifs' = Append(ifs, [alias |-> alias, rports |-> <<>>])
    /\ UNCHANGED <<layout_, noise, chassis>>

IfGone(i) ==
    /\ ifs' = RemoveAt(ifs, i)
    /\ Forget
    /\ UNCHANGED <<layout_, noise>>

NeighborAdded(i, p) ==
    /\ Neighbors < MaxNeighbors
    /\ ifs' = [ifs EXCEPT ![i].rports = Append(@, p)]
    /\ UNCHANGED <<layout_, noise, chassis>>

NeighborDeleted(i, k) ==
    /\ ifs' = [ifs EXCEPT ![i].rports = RemoveAt(@, k)]
    /\ Forget
    /\ UNCHANGED <<layout_, noise>>

\* A new frame from a chassis with at least one neighbor on it.
ChassisUpdated(c, s) ==
    /\ \E i \in DOMAIN ifs : \E k \in DOMAIN ifs[i].rports : ifs[i].rports[k].chassis = c
    /\ chassis' = [chassis EXCEPT ![c] = s]
    /\ UNCHANGED <<layout_, noise, ifs>>

TablesNext ==
    \/ \E alias \in BOOLEAN : IfAdded(alias)
    \/ \E i \in DOMAIN ifs :
          \/ IfGone(i)
          \/ \E p \in PortShape : NeighborAdded(i, p)
          \/ \E k \in DOMAIN ifs[i].rports : NeighborDeleted(i, k)
    \/ \E c \in ChassisIds, s \in ChassisShape : ChassisUpdated(c, s)

TablesSpec == TablesInit /\ [][TablesNext]_tableVars

-----------------------------------------------------------------------------
(* What the API should say of these tables.                                 *)

Known(owner, field, present) == IF present THEN <<Label(owner, field)>> ELSE <<>>

TheChassis(c) ==
    LET s == chassis[c]
    IN  [subtype |-> <<s.subtype>>, id |-> <<Label(c, 1)>>, name |-> Known(c, 2, s.name),
         descr |-> <<>>, caps |-> Label(c, 50),
         mgmt |-> [k \in DOMAIN s.mgmt |->
                     [ip |-> IF s.mgmt[k] \in {"V4", "V6"} THEN <<s.mgmt[k]>> ELSE <<>>,
                      len |-> IF s.mgmt[k] = "Long" THEN 16 ELSE MgmtShape[s.mgmt[k]].size,
                      iface |-> k]],
         med |-> [f \in ToSet(MedFields) |->
                    LET i == CHOOSE j \in DOMAIN MedFields : MedFields[j] = f
                    IN  Known(c, 10 + i, f \in s.med)]]

TheNeighbor(i, k) ==
    LET p == ifs[i].rports[k]
    IN  [chassis |-> TheChassis(p.chassis), subtype |-> <<p.subtype>>, ttl |-> Label(Owner(i, k), 51),
         id |-> OrEmpty(Known(Owner(i, k), 3, p.id)),
         descr |-> Known(Owner(i, k), 4, p.descr)]

Accepts(c, v) == c.ok /\ c.val = v

\* The same, but for the fields that v does not have.
Agrees(c, v) == c.ok /\ \A f \in DOMAIN v : c.val[f] = v[f]

\* decode_hardware: for every interface, from either layout, whatever the
\* plain fields and the unmarshalled pointers hold, the details are those of
\* lldpd's tables: each neighbor in order, with its own strings, numbers and
\* names of numbers and its own chassis, shared or not.
HardwareRoundTrip ==
    \A i \in DOMAIN ifs :
        Agrees(decode_hardware(HardwarePayload(i)),
                [name      |-> Label(Owner(i, 0), 1),
                 mac       |-> Label(Owner(i, 0), 52),
                 alias     |-> Known(Owner(i, 0), 2, ifs[i].alias),
                 chassis   |-> IF noise.chassis THEN <<TheChassis(LocalChassis)>> ELSE <<>>,
                 neighbors |-> [k \in DOMAIN ifs[i].rports |-> TheNeighbor(i, k)]])

\* model.rs:33 says that neighbors of the same device "share one Chassis": in
\* the details of an interface two chassis are one Arc exactly if lldpd has
\* them as one chassis, the local one included.
ChassisShared ==
    \A i \in DOMAIN ifs :
        LET hw == decode_hardware(HardwarePayload(i))
            owners == (IF noise.chassis THEN <<LocalChassis>> ELSE <<>>)
                        \o [k \in DOMAIN ifs[i].rports |-> ifs[i].rports[k].chassis]
        IN  hw.ok => \A a, b \in DOMAIN owners :
                        (hw.val.arcs[a] = hw.val.arcs[b]) = (owners[a] = owners[b])

\* decode_hardware_as tells the layouts apart: the one that did not write the
\* message never parses it, so the order of the two attempts is immaterial.
LayoutsNotConfused ==
    \A i \in DOMAIN ifs : \A T \in {"RawHardware", "RawHardwareWithFlagsPrevious"} :
        T # layout_ => ~decode_hardware_as(HardwarePayload(i), T).ok

\* raw.rs:300 says of h_flags_previous that it shifts "every field from
\* `h_ifindex` onward" by 4 bytes, h_lport, h_rports and h_ifalias included.
FieldsShiftByFour ==
    layout_ = "RawHardwareWithFlagsPrevious" =>
        \A k \in 12..Len(RawHardware) :
            LET f == RawHardware[k][1]
            IN  OffsetOf[layout_][f] = OffsetOf["RawHardware"][f] + 4

\* decode_interfaces gives the interfaces in lldpd's order, though the first
\* one's name is the last on the wire.
InterfacesRoundTrip ==
    Accepts(decode_interfaces(InterfacesPayload),
            [i \in DOMAIN ifs |-> [name  |-> <<Label(Owner(i, 0), 1)>>,
                                   alias |-> Known(Owner(i, 0), 2, ifs[i].alias)]])

\* decode_neighbor_change: a notification carries the neighbor that
\* GET_INTERFACE lists, on the interface it is listed for, and what happened.
ChangeMatchesHardware ==
    \A i \in DOMAIN ifs :
        LET hw == decode_hardware(HardwarePayload(i))
        IN  \A k \in DOMAIN ifs[i].rports, kind \in DOMAIN NEIGHBOR_CHANGE :
                Accepts(decode_neighbor_change(ChangePayload(i, k, kind)),
                        [name |-> <<hw.val.name>>, alias |-> hw.val.alias, kind |-> <<kind>>,
                         neighbor |-> <<hw.val.neighbors[k]>>])

\* A message cut short in front of each of its words, and by its last byte.
Cut(b) == {[w |-> b.w, n |-> n] : n \in {m \in 0..(b.n - 1) : m % PTR_SIZE = 0 \/ m = b.n - 1}}

\* The words that the sender's layout ignores are all zero or all not: to that
\* layout a mixture of the two is the same message.
Uniform == noise.hw = noise.port /\ (noise.ptr = 0) = (noise.hw = 0)

\* decode_interfaces, decode_neighbor_change and decode_hardware_as with the
\* layout of the sender: a message cut short anywhere is an error, never a
\* shorter answer; so is a GET_INTERFACE reply with something left at its end.
WholeOrNothing ==
    Uniform =>
        /\ \A b \in Cut(InterfacesPayload) : ~decode_interfaces(b).ok
        /\ \A i \in DOMAIN ifs :
              LET h == HardwarePayload(i)
              IN  /\ \A b \in Cut(h) : ~decode_hardware_as(b, layout_).ok
                  /\ ~decode_hardware_as([w |-> Append(h.w, 0), n |-> h.n + 1], layout_).ok
                  /\ \A k \in DOMAIN ifs[i].rports :
                        \A b \in Cut(ChangePayload(i, k, "Added")) : ~decode_neighbor_change(b).ok

\* encode_interface_name_request and encode_set_port_description_request write
\* what lldpd's own client would for the same interface, byte for byte,
\* whatever the lengths of the two strings are.
RequestsAsMarshalled ==
    \A i \in DOMAIN ifs : \A m, n \in NameLens :
        LET a == [text |-> Label(Owner(i, 0), 1), len |-> m]
            b == [text |-> Label(Owner(i, 0), 4), len |-> n]
        IN  /\ encode_interface_name_request(a) = ReferenceName(a)
            /\ encode_set_port_description_request(a, b, 5) = ReferenceSetPort(a, b, 5)

=============================================================================
