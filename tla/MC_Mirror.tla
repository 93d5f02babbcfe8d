----------------------------- MODULE MC_Mirror ------------------------------
(***************************************************************************)
(* Instances of Mirror for TLC: two links, wan and lan.                    *)
(***************************************************************************)
EXTENDS Mirror, TLC

CONSTANTS wan, lan, h1, gua, ll

TwoNames == {"wan", "lan"}
TwoIdx   == ("wan" :> wan @@ "lan" :> lan)

Cfg(master, learn, fromLL) ==
  [Master |-> master, LearnRoutes |-> learn, NdpFromLinkLocal |-> fromLL]

\* A host behind lan, which is the slave, the master or one of two masters.  The
\* source-address option only matters where there are link-local addresses.
OneHome == (h1 :> {lan})
HostConfigs ==
  {[n \in TwoNames |-> Cfg(n \in M, learn, FALSE)] :
     M \in {{"wan"}, {"lan"}, TwoNames}, learn \in BOOLEAN}

\* Own addresses: a global and a link-local one on lan, wan's never change.
OwnHome == (gua :> {lan} @@ ll :> {lan})
OwnConfigs ==
  {[n \in TwoNames |-> Cfg(n = "wan", n \in L, n = "lan")] : L \in SUBSET TwoNames}
=============================================================================
