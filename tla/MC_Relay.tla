------------------------------ MODULE MC_Relay ------------------------------
(* Instances of Relay: one upstream and one downstream netdev, a host       *)
(* behind the latter, and the contents its config file may have.            *)
EXTENDS Relay, TLC

Wan == [Ifname |-> "eth0", master |-> "yes", ndproxy_routing |-> TRUE]
Lan == [Ifname |-> "eth1", master |-> "no", ndproxy_routing |-> TRUE]

MCNames   == {"wan", "lan"}
MCDevs    == {"eth0", "eth1"}
MCHosts   == {"h1"}
MCBehind  == [h \in MCHosts |-> "eth1"]

OneFile   == {"wan" :> Wan @@ "lan" :> Lan}
Shrinking == OneFile \cup {"wan" :> Wan}
=============================================================================
