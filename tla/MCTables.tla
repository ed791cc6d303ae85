------------------------------ MODULE MCTables ------------------------------
(***************************************************************************)
(* Instances of Tables for TLC.                                            *)
(***************************************************************************)
EXTENDS Tables

MCChassisShape ==
    {[subtype |-> "MacAddress", name |-> TRUE, mgmt |-> <<"V4", "V6">>, med |-> {}],
     [subtype |-> "Local", name |-> FALSE, mgmt |-> <<"Short", "Mac", "Long">>,
      med |-> {"c_med_hw", "c_med_sn", "c_med_asset"}]}

Port(c) == [chassis |-> c, subtype |-> "IfName", id |-> TRUE, descr |-> FALSE, pattern |-> FALSE,
            vlans |-> 0, ppvids |-> 0, pids |-> 0, locs |-> {}]

\* A bare port, one with every list, and one that hides its id.
MCPortShape ==
    {Port(2), [Port(3) EXCEPT !.subtype = "MacAddress"],
     [Port(2) EXCEPT !.descr = TRUE, !.vlans = 2, !.ppvids = 2, !.pids = 1, !.locs = {2}],
     [Port(1) EXCEPT !.id = FALSE, !.pattern = TRUE, !.pids = 2, !.locs = {1, 3}]}

=============================================================================
