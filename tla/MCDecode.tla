------------------------------ MODULE MCDecode ------------------------------
(***************************************************************************)
(* Instances of DecodeWalk for TLC: payloads of lldpd, damaged.            *)
(***************************************************************************)
EXTENDS DecodeWalk, Marshal

CONSTANTS Damage  \* what a damaged word may hold

Fill == [hw |-> 0, port |-> 0, ptr |-> 0]
Text9 == Str(7, 9)

InterfaceObj(ptrs) == Obj("RawInterface", Fill, <<>>, Ptr("name", Text9) \o ptrs)
InterfaceList ==
    Obj("RawInterfaceList", Fill, <<>>,
        Ptr("tqh_first", Tailq(<<InterfaceObj(Ptr("alias", Text9)), InterfaceObj(<<>>)>>,
                               "next_tqe_next")))

TheChassis ==
    Shared(2, Obj("RawChassis", Fill, [c_id_subtype |-> 4],
                  Ptr("c_id", Text9)
                  \o Ptr("c_mgmt_tqh_first", Obj("RawMgmt", Fill, [m_family |-> 1], <<>>))))
Locations(n) ==
    [i \in 1..3 |-> Nth("p_med_location", i, Sub("RawMedLoc", When(i = n, Ptr("data", Text9))))[1]]
ThePort(ptrs) ==
    Ptr("p_chassis", TheChassis) \o Ptr("p_id", Text9) \o Locations(2) \o ptrs

Hardware(T) ==
    Obj(T, Fill, <<>>,
        Ptr("h_lport", Sub("RawPort", ThePort(<<>>)))
        \o Ptr("h_rports_tqh_first", Obj("RawPort", Fill, <<>>, ThePort(<<>>))))
Change ==
    Obj("RawNeighborChange", Fill, [state |-> 1],
        Ptr("ifname", Text9)
        \o Ptr("neighbor",
               Obj("RawPort", Fill, <<>>,
                   ThePort(Ptr("p_vlans_tqh_first",
                               Obj("RawVlan", Fill, <<>>, Ptr("v_name", Text9)))
                           \o Ptr("p_ppvids_tqh_first", Obj("RawPpvid", Fill, <<>>, <<>>))))))

Undamaged == {marshal_serialize(o) :
              o \in {InterfaceList, Hardware("RawHardwareWithFlagsPrevious"), Change}}

\* One word replaced, or the end cut off in the middle of a word.
Damaged(b) ==
    {[b EXCEPT !.w[k] = v] : k \in DOMAIN b.w, v \in Damage}
        \cup {[b EXCEPT !.n = k * PTR_SIZE - 1] : k \in {j \in DOMAIN b.w : j * PTR_SIZE <= b.n}}

MCInputs == Undamaged \cup UNION {Damaged(b) : b \in Undamaged}

=============================================================================
