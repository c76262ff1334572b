---------------------------- MODULE MCBlockList ----------------------------
(* One IP that is blockable and one stale record that is not; two requests *)
(* at a time, over any number of exits, reboots and changes of privileges,  *)
(* with each of the firewall tools, whose commands may fail at any time, and *)
(* with a second copy of the program on a machine where they do not.         *)
EXTENDS BlockList, TLC

Symmetry == Permutations(Workers)

Every ==
    {[tool |-> t, flaky |-> TRUE, twice |-> FALSE] : t \in {"iptables", "nft", "netsh"}}
        \cup {[tool |-> "iptables", flaky |-> FALSE, twice |-> TRUE]}
=============================================================================
