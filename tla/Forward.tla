------------------------------- MODULE Forward -------------------------------
(***************************************************************************)
(* Relaying of Router Solicitations and Advertisements: handleICMPv6,      *)
(* forwardRouterSolicitation and forwardRouterAdvertisement.               *)
(*                                                                         *)
(* An advertisement is its sequence of options.  Every slave gets a copy   *)
(* in which the Source Link-Layer Address option holds the slave's own MAC *)
(* address; the slaves are visited in no particular order, and the kernel  *)
(* may take a netdev's address away between two of them.                   *)
(***************************************************************************)
EXTENDS Naturals, Sequences

CONSTANTS
  Ifaces, Masters,
  Open,         \* the interfaces with a router socket and RA in relay mode
  Unstable,     \* the interfaces whose MAC address may be missing (getMAC fails)
  Adverts,      \* option sequences routers advertise
  MaxHeard,     \* bound: packets in the engine's channel
  MaxNews       \* bound: solicitations of hosts and unsolicited advertisements

\* An option: its type, the address in it, and whether its length field is sound,
\* that is, not zero and within the packet.
Option == [type : {"slla", "other"}, addr : Ifaces \cup {"router"}, sound : BOOLEAN]

ASSUME ForwardAssumption ==
  /\ Masters \subseteq Ifaces /\ Open \subseteq Ifaces /\ Unstable \subseteq Ifaces
  /\ "router" \notin Ifaces
  /\ \A a \in Adverts : a \in Seq(Option)
  /\ MaxHeard \in Nat /\ MaxNews \in Nat

VARIABLES
  hasMAC,       \* the interfaces getMAC succeeds for
  heard,        \* packets read from the sockets and posted: [iface, type, opts]
  busy, todo,   \* the advertisement being forwarded, and the slaves left for it
  data,         \* the packet buffer the handler was given
  sent,         \* packets on the links: [iface, type, opts, of], of being the original
  news          \* packets hosts and routers have sent on their own

vars == <<hasMAC, heard, busy, todo, data, sent, news>>

Init ==
  /\ hasMAC = Ifaces
  /\ heard = << >>
  /\ busy = << >> /\ todo = {} /\ data = << >>
  /\ sent = {}
  /\ news = 0

-----------------------------------------------------------------------------
(* The network (external) and the read loop.                                *)

Hear(i, type, opts) ==
  /\ i \in Open /\ Len(heard) < MaxHeard
  /\ heard' = Append(heard, [iface |-> i, type |-> type, opts |-> opts])

HostSolicits(i) ==
  /\ news < MaxNews /\ news' = news + 1
  /\ i \notin Masters /\ Hear(i, "rs", << >>)
  /\ UNCHANGED <<hasMAC, busy, todo, data, sent>>

\* A router behind any interface advertises; nothing keeps one from a slave's link.
RouterAdvertises(i, a) ==
  /\ news < MaxNews /\ news' = news + 1
  /\ Hear(i, "ra", a)
  /\ UNCHANGED <<hasMAC, busy, todo, data, sent>>

\* The router upstream answers a solicitation.
RouterAnswers(p, a) ==
  /\ p.type = "rs" /\ p.iface \in Masters /\ Hear(p.iface, "ra", a)
  /\ sent' = sent \ {p}
  /\ UNCHANGED <<hasMAC, busy, todo, data, news>>

HostReceives(p) ==
  /\ p.type = "ra"
  /\ sent' = sent \ {p}
  /\ UNCHANGED <<hasMAC, heard, busy, todo, data, news>>

MACChanges(i) ==
  /\ i \in Unstable
  /\ hasMAC' = IF i \in hasMAC THEN hasMAC \ {i} ELSE hasMAC \cup {i}
  /\ UNCHANGED <<heard, busy, todo, data, sent, news>>

-----------------------------------------------------------------------------
(* handleICMPv6.                                                            *)

\* sendRouterSolicitation: a new packet, with the sender's address if it is known.
Solicitation(c) ==
  [iface |-> c, type |-> "rs", of |-> << >>,
   opts |-> IF c \in hasMAC THEN <<[type |-> "slla", addr |-> c, sound |-> TRUE]>> ELSE << >>]

\* Fault: the solicitation goes to the interfaces of its own side.
ToSlaves(i) == {c \in Open : c # i /\ c \notin Masters}
SolicitTargets(i) == {c \in Open : c # i /\ c \in Masters}

ForwardRouterSolicitation ==
  /\ busy = << >> /\ heard # << >> /\ Head(heard).type = "rs"
  /\ heard' = Tail(heard)
  /\ sent' = sent \cup {Solicitation(c) : c \in SolicitTargets(Head(heard).iface)}
  /\ UNCHANGED <<hasMAC, busy, todo, data, news>>

StartAdvertisement ==
  /\ busy = << >> /\ heard # << >> /\ Head(heard).type = "ra"
  /\ heard' = Tail(heard)
  /\ busy' = <<Head(heard)>>
  /\ data' = Head(heard).opts
  /\ todo' = {c \in Open : c # Head(heard).iface /\ c \notin Masters}
  /\ UNCHANGED <<hasMAC, sent, news>>

\* fixSourceLinkAddrOption walks the options by their lengths, writing into the packet
\* it is given, and stops at the first unsound one.
FixSourceLinkAddrOption(opts, mac) ==
  LET walk[k \in 0..Len(opts)] ==      \* the packet once k options are dealt with
        IF k = 0 THEN opts
        ELSE IF opts[k].type = "slla" /\ \A j \in 1..k : opts[j].sound
        THEN [walk[k - 1] EXCEPT ![k].addr = mac] ELSE walk[k - 1]
  IN walk[Len(opts)]

\* Fault: the packet is patched in place.
ForwardInPlace(c) ==
  LET out == IF c \in hasMAC THEN FixSourceLinkAddrOption(data, c) ELSE data
  IN /\ c \in todo /\ todo' = todo \ {c}
     /\ data' = out
     /\ sent' = sent \cup {[iface |-> c, type |-> "ra", opts |-> out, of |-> Head(busy).opts]}
     /\ UNCHANGED <<hasMAC, heard, busy, news>>
ForwardTo(c) ==
  LET out == IF c \in hasMAC THEN FixSourceLinkAddrOption(data, c) ELSE data
  IN /\ c \in todo /\ todo' = todo \ {c}
     /\ sent' = sent \cup {[iface |-> c, type |-> "ra", opts |-> out, of |-> Head(busy).opts]}
     /\ UNCHANGED <<hasMAC, heard, busy, data, news>>

Finish ==
  /\ busy # << >> /\ todo = {}
  /\ busy' = << >> /\ data' = << >>
  /\ UNCHANGED <<hasMAC, heard, todo, sent, news>>

-----------------------------------------------------------------------------
Handler ==
  \/ ForwardRouterSolicitation \/ StartAdvertisement \/ Finish
  \/ \E c \in Ifaces : ForwardTo(c)

Answers == \E p \in sent, a \in Adverts : RouterAnswers(p, a)

Next ==
  \/ \E i \in Ifaces : HostSolicits(i) \/ MACChanges(i)
  \/ \E i \in Ifaces, a \in Adverts : RouterAdvertises(i, a)
  \/ \E p \in sent : HostReceives(p)
  \/ Answers \/ Handler

Spec == Init /\ [][Next]_vars

\* The engine runs, and the router upstream answers.
FairSpec == Spec /\ WF_vars(Handler) /\ WF_vars(Answers)

-----------------------------------------------------------------------------
(* Properties.                                                              *)

\* Whatever the order of the slaves and whenever addresses cannot be read: as far as
\* the options of the packet can be followed, every address option a slave is sent
\* holds the slave's own MAC address or, where that may be unknown, the router's,
\* never another slave's; the rest of the packet is the router's.
OwnMAC ==
  \A p \in sent : p.type = "ra" =>
    /\ Len(p.opts) = Len(p.of)
    /\ \A i \in DOMAIN p.of :
         LET own == [p.of[i] EXCEPT !.addr = p.iface]
             patched == p.of[i].type = "slla" /\ \A j \in 1..i : p.of[j].sound
         IN p.opts[i] \in IF ~patched THEN {p.of[i]}
                          ELSE IF p.iface \in Unstable THEN {own, p.of[i]} ELSE {own}

\* A host that solicits behind a slave is sent an advertisement on its link in the
\* end, by way of a solicitation the relay sends on the masters.
SolicitationAnswered ==
  \A i \in Open \ Masters :
    (\E k \in DOMAIN heard : heard[k].iface = i /\ heard[k].type = "rs")
      ~> (\E p \in sent : p.iface = i /\ p.type = "ra")

=============================================================================
