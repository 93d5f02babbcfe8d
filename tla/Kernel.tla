------------------------------- MODULE Kernel -------------------------------
(***************************************************************************)
(* The part of the Linux kernel that the daemon reads and writes through   *)
(* netlink and sysctl, as far as the code in internal/relay relies on it:  *)
(* IPv6 neighbour-cache entries and their NUD states, interface addresses, *)
(* /128 host routes, proxy-NDP entries, the proxy_ndp sysctl, and the four *)
(* netlink subscriptions.  None of it is code of the repository; every     *)
(* definition here is external.                                            *)
(*                                                                         *)
(* A key <<a, ix>> is an address on a link index.  Netlink delivers the    *)
(* events of one key in order, which is all the order the model keeps:     *)
(* StartNetlinkMonitor selects over four channels, so the program has none *)
(* between kinds of events, and between keys the model allows more         *)
(* interleavings than the program shows.                                   *)
(***************************************************************************)
EXTENDS Naturals, Sequences

CONSTANTS
  Idx,          \* link indexes
  NoIdx,        \* "no link"
  Hosts,        \* addresses of hosts behind the links
  Own,          \* addresses that this machine's own links may carry
  LinkLocal,    \* the link-local ones among Hosts and Own
  Special,      \* the loopback and multicast ones among Hosts and Own
  Behind,       \* Behind[a] : the links that may ever carry the address a
  MaxQueue      \* bound: netlink events of one key that are queued at once

Addrs == Hosts \cup Own
Keys  == Addrs \X Idx

ASSUME KernelAssumption ==
  /\ NoIdx \notin Idx
  /\ Hosts \cap Own = {}
  /\ LinkLocal \subseteq Addrs
  /\ Special \subseteq Addrs
  /\ Behind \in [Addrs -> SUBSET Idx]
  /\ MaxQueue \in Nat \ {0}

\* NUD_REACHABLE also stands for DELAY, PERMANENT and NOARP: the daemon tells
\* none of them apart.
Resolved  == {"reachable", "stale", "probe"}
Nud       == Resolved \cup {"none", "incomplete", "failed"}
NeighMsg  == Resolved \cup {"failed", "gone"}     \* "gone" is RTM_DELNEIGH
AddrState == {"absent", "tentative", "valid"}
AddrMsg   == {"new", "del"}

VARIABLES
  home,         \* home[h] : the link the host h is attached to, or NoIdx
  neigh,        \* neigh[k] : NUD state of the real (non-proxy) entry
  addrs,        \* addrs[k] : the address k[1] on link k[2]
  route,        \* route[a] : output link of the metric-1024 /128 route to a
  proxy,        \* the proxy-NDP (NTF_PROXY) entries
  proxyNdp,     \* the links with proxy_ndp = 1
  neighCh,      \* neighCh[k] : RTM_NEWNEIGH / RTM_DELNEIGH of key k, in order
  addrCh,       \* addrCh[k]  : RTM_NEWADDR / RTM_DELADDR of key k, in order
  routeCh       \* links for which at least one RTM_DELROUTE of a metric-1024
                \* /128 route is queued (how many is abstracted away)

kernelVars == <<home, neigh, addrs, route, proxy, proxyNdp, neighCh, addrCh, routeCh>>

KernelTypeOK ==
  /\ home \in [Hosts -> Idx \cup {NoIdx}]
  /\ neigh \in [Keys -> Nud]
  /\ addrs \in [Keys -> AddrState]
  /\ route \in [Addrs -> Idx \cup {NoIdx}]
  /\ proxy \subseteq Keys
  /\ proxyNdp \subseteq Idx
  /\ neighCh \in [Keys -> Seq(NeighMsg)]
  /\ addrCh \in [Keys -> Seq(AddrMsg)]
  /\ routeCh \subseteq Idx

\* The machine before the daemon's first neighbour event: own addresses may be
\* configured, the neighbour cache is empty, nothing has been mirrored.
KernelInit ==
  /\ home \in [Hosts -> Idx \cup {NoIdx}]
  /\ \A h \in Hosts : home[h] \in Behind[h] \cup {NoIdx}
  /\ neigh = [k \in Keys |-> "none"]
  /\ addrs \in [Keys -> {"absent", "valid"}]
  /\ \A k \in Keys : k[1] \in Hosts \/ k[2] \notin Behind[k[1]] => addrs[k] = "absent"
  /\ route = [a \in Addrs |-> NoIdx]
  /\ proxy = {}
  /\ neighCh = [k \in Keys |-> << >>]
  /\ addrCh = [k \in Keys |-> << >>]
  /\ routeCh = {}

-----------------------------------------------------------------------------
(* Hosts and the neighbour cache.                                          *)

NeighUnchanged == UNCHANGED <<addrs, route, proxy, proxyNdp, addrCh, routeCh>>

\* A host is plugged in, unplugged or moved.
HostMoves(h, ix) ==
  /\ home[h] # ix
  /\ ix \in Behind[h] \cup {NoIdx}
  /\ home' = [home EXCEPT ![h] = ix]
  /\ UNCHANGED <<neigh, neighCh>> /\ NeighUnchanged

\* The entry changes state and the kernel announces it.
NeighBecomes(k, state, msg) ==
  /\ Len(neighCh[k]) < MaxQueue
  /\ neigh' = [neigh EXCEPT ![k] = state]
  /\ neighCh' = [neighCh EXCEPT ![k] = Append(@, msg)]
  /\ UNCHANGED home /\ NeighUnchanged

\* Traffic to an unresolved address starts a resolution; not announced.
Unresolved == {"none", "failed"}

NeighLookup(k) ==
  /\ neigh[k] \in Unresolved
  /\ Len(neighCh[k]) < MaxQueue
  /\ neigh' = [neigh EXCEPT ![k] = "incomplete"]
  /\ UNCHANGED <<home, neighCh>> /\ NeighUnchanged

\* The host answers, or is first heard of through its own solicitation.
NeighAnswers(k) ==
  /\ k[1] \in Hosts /\ home[k[1]] = k[2]
  /\ \/ neigh[k] \in {"incomplete", "stale", "probe"} /\ NeighBecomes(k, "reachable", "reachable")
     \/ neigh[k] \in Unresolved /\ NeighBecomes(k, "stale", "stale")

NeighAges(k)   == neigh[k] = "reachable" /\ NeighBecomes(k, "stale", "stale")
NeighProbed(k) == neigh[k] = "stale" /\ NeighBecomes(k, "probe", "probe")
NeighFails(k)  == neigh[k] \in {"incomplete", "probe"} /\ NeighBecomes(k, "failed", "failed")

\* What the kernel announces when an entry in the given state is deleted: an
\* entry that was not already FAILED passes through FAILED first.
DelMsgs(state) ==
  CASE state = "none"   -> << >>
    [] state = "failed" -> <<"gone">>
    [] OTHER            -> <<"failed", "gone">>

\* Garbage collection frees the entry without that detour.
NeighGC(k)     == neigh[k] \in {"stale", "failed"} /\ NeighBecomes(k, "none", "gone")

-----------------------------------------------------------------------------
(* Addresses of the machine's own links.                                   *)

AddrBecomes(k, state, msg) ==
  /\ k[1] \in Own /\ k[2] \in Behind[k[1]]
  /\ Len(addrCh[k]) < MaxQueue
  /\ addrs' = [addrs EXCEPT ![k] = state]
  /\ addrCh' = [addrCh EXCEPT ![k] = Append(@, msg)]
  /\ UNCHANGED <<home, neigh, route, proxy, proxyNdp, neighCh, routeCh>>

AddrAdded(k)   == addrs[k] = "absent" /\ AddrBecomes(k, "tentative", "new")
AddrReady(k)   == addrs[k] = "tentative" /\ AddrBecomes(k, "valid", "new")
AddrRemoved(k) == addrs[k] # "absent" /\ AddrBecomes(k, "absent", "del")

-----------------------------------------------------------------------------
(* An external network manager (netplan apply): it deletes one of our host *)
(* routes, which is announced, and in the same pass may reset proxy_ndp on *)
(* any links, which is not.                                                *)

RouteFlushed(a, reset) ==
  /\ route[a] # NoIdx
  /\ routeCh' = routeCh \cup {route[a]}
  /\ route' = [route EXCEPT ![a] = NoIdx]
  /\ proxyNdp' = proxyNdp \ reset
  /\ UNCHANGED <<home, neigh, addrs, proxy, neighCh, addrCh>>

KernelNext ==
  \/ \E h \in Hosts, ix \in Idx \cup {NoIdx} : HostMoves(h, ix)
  \/ \E k \in Hosts \X Idx :
       \/ NeighLookup(k) \/ NeighAnswers(k) \/ NeighAges(k)
       \/ NeighProbed(k) \/ NeighFails(k) \/ NeighGC(k)
  \/ \E k \in Own \X Idx : AddrAdded(k) \/ AddrReady(k) \/ AddrRemoved(k)
  \/ \E a \in Addrs, reset \in SUBSET Idx : RouteFlushed(a, reset)
=============================================================================
