------------------------------ MODULE MC_Dhcpv6 ------------------------------
(* Instances of Dhcpv6: two interfaces whose roles a reload may swap, and a   *)
(* third link that may come in the place of either's.                         *)
EXTENDS Dhcpv6

CONSTANTS wan, lan, l1, l2, l3, c1, a2

On(m, l) == [master |-> m, link |-> l]
Two(w, l) == [n \in Names |-> IF n = wan THEN w ELSE l]

MCConfigs == {Two(On(TRUE, l1), On(FALSE, l2)), Two(On(FALSE, l1), On(TRUE, l2)),
              Two(On(TRUE, l1), On(TRUE, l2))}

\* l2 has an address for the link-address field, the others have none.
MCLinkAddress == [l \in Links |-> IF l = l2 THEN a2 ELSE NoAddr]

\* A request of a client, and one that two other relays have wrapped.
Relayed(hop) == [hop |-> hop, link |-> NoAddr, peer |-> c1, id |-> NoLink, from |-> <<NoLink, c1>>]
MCOuter == {<< >>, <<Relayed(1), Relayed(0)>>}
=============================================================================
