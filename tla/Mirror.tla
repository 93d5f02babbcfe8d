------------------------------- MODULE Mirror -------------------------------
(***************************************************************************)
(* The NDP mirror of internal/relay/netlink.go and ndp.go.  For every host *)
(* the kernel resolves on one link, and for every address of the links     *)
(* themselves, the daemon keeps a proxy-NDP entry on each other master     *)
(* link and a /128 host route back to the link the address lives behind.   *)
(*                                                                         *)
(* Every action below is one closure run by the Engine goroutine, hence    *)
(* atomic with respect to the others; the kernel (module Kernel), the      *)
(* hosts and a foreign network manager act between any two of them.  The   *)
(* configuration is any one Reload can produce and stays fixed, and the    *)
(* links are up.                                                           *)
(***************************************************************************)
EXTENDS Kernel

CONSTANTS
  Names,        \* config names, the keys of the map interfaces
  IdxOf,        \* the link index of each
  Configs,      \* the configurations considered
  NoAddr        \* cachedLL when cachedLLValid is false

ASSUME MirrorAssumption ==
  /\ IdxOf \in [Names -> Idx]
  /\ \A m, n \in Names : m # n => IdxOf[m] # IdxOf[n]
  /\ NoAddr \notin Addrs
  /\ Configs \subseteq [Names -> [Master : BOOLEAN, LearnRoutes : BOOLEAN,
                                 NdpFromLinkLocal : BOOLEAN]]

VARIABLES
  interfaces,         \* the configured interfaces, by name
  mirroredNeighs,     \* the hosts whose mirror is believed to be installed
  reconcileScheduled, \* guards against stacking debounce timers
  pendingReconciles   \* debounce timers armed, or fired and waiting in the
                      \* engine's backlog

mirrorVars == <<interfaces, mirroredNeighs, reconcileScheduled, pendingReconciles>>
vars == <<kernelVars, mirrorVars>>

Mode == {"disabled", "relay"}

Interface ==
  [Ifindex : Idx, Master : BOOLEAN, LearnRoutes : BOOLEAN, NdpFromLinkLocal : BOOLEAN,
   NDP : Mode, ndp : BOOLEAN, Addr6 : [Addrs -> AddrState], cachedLL : LinkLocal \cup {NoAddr}]

\* One type invariant: of the daemon's own state and of the kernel state it
\* manages.
TypeOK ==
  /\ KernelTypeOK
  /\ interfaces \in [Names -> Interface]
  /\ mirroredNeighs \subseteq Keys
  /\ reconcileScheduled \in BOOLEAN
  /\ pendingReconciles \in Nat

-----------------------------------------------------------------------------
(* Lookups and the address list.                                           *)

\* At most one element; the empty set is the nil of ifaceByIndex.
IfaceByIndex(ix) == {n \in DOMAIN interfaces : interfaces[n].Ifindex = ix}

\* The configured relay interface of a link, the guard of every handler.
RelayIface(ix) == {n \in IfaceByIndex(ix) : interfaces[n].NDP = "relay"}

\* fetchAddr6: what the kernel has on the interface now.
FetchAddr6(n) == [a \in Addrs |-> addrs[<<a, interfaces[n].Ifindex>>]]

\* refreshInterfaceAddresses with updateLinkLocalState.
\* Fault: the cached link-local address outlives the list.
RefreshNoReset(n) == [interfaces EXCEPT ![n] = [@ EXCEPT !.Addr6 = FetchAddr6(n)]]
RefreshInterfaceAddresses(n) ==
  [interfaces EXCEPT ![n] = [@ EXCEPT !.Addr6 = FetchAddr6(n), !.cachedLL = NoAddr]]

\* Filters of the handlers, on the class of the address.
NeighFilter(a)   == a \notin LinkLocal \cup Special
AddrFilter(a, n) == a \notin Special /\ (a \notin LinkLocal \/ interfaces[n].LearnRoutes)

\* The values getLinkLocalAddr may leave in the cache; the kernel's list has no
\* order the daemon relies on.
\* Fault: any address of the interface will do.
AnyAddr(i) ==
  LET usable == {a \in Addrs : i.Addr6[a] = "valid"}
  IN IF i.cachedLL # NoAddr THEN {i.cachedLL}
     ELSE IF usable = {} THEN {NoAddr} ELSE usable
GetLinkLocalAddr(i) ==
  LET usable == {a \in LinkLocal : i.Addr6[a] = "valid"}
  IN IF i.cachedLL # NoAddr THEN {i.cachedLL}
     ELSE IF usable = {} THEN {NoAddr} ELSE usable

-----------------------------------------------------------------------------
(* ndpMirrorAddr, for a set M of pairs <<address, interface>>.  The loops  *)
(* over Go maps run in any order; the calls of one pass commute except     *)
(* where two links claim the same address, and then any of them may win    *)
(* the route.                                                              *)

MirrorTargets(n) ==
  {c \in DOMAIN interfaces : /\ interfaces[c].Ifindex # interfaces[n].Ifindex
                             /\ interfaces[c].Master
                             /\ interfaces[c].NDP = "relay"}

ProxiesOf(M) ==
  UNION {{<<m[1], interfaces[c].Ifindex>> : c \in MirrorTargets(m[2])} : m \in M}

SysctlsOf(M) ==
  UNION {{interfaces[c].Ifindex : c \in MirrorTargets(m[2])} : m \in M}

\* The links ndpMirrorAddr routes the address a to.
RouteLinks(M, a) ==
  {interfaces[m[2]].Ifindex :
     m \in {x \in M : x[1] = a /\ interfaces[x[2]].LearnRoutes /\ a \notin LinkLocal}}

\* RouteReplace: there is one route of this metric per destination.
RoutesAfterAdd(M) ==
  {r \in [Addrs -> Idx \cup {NoIdx}] :
     \A a \in Addrs : IF RouteLinks(M, a) = {} THEN r[a] = route[a] ELSE r[a] \in RouteLinks(M, a)}

MirrorAdd(M) ==
  /\ proxyNdp' = proxyNdp \cup SysctlsOf(M)
  /\ proxy' = proxy \cup ProxiesOf(M)
  /\ route' \in RoutesAfterAdd(M)

\* RouteDel matches the link, so a route another link has taken over stays;
\* the kernel announces each deletion to the daemon's own route subscription.
\* Fault: the route is left behind.
DelKeepsRoute(M) ==
  /\ proxy' = proxy \ ProxiesOf(M)
  /\ UNCHANGED <<route, routeCh>>
MirrorDel(M) ==
  LET lost == {a \in Addrs : route[a] \in RouteLinks(M, a)}
  IN /\ proxy' = proxy \ ProxiesOf(M)
     /\ route' = [a \in Addrs |-> IF a \in lost THEN NoIdx ELSE route[a]]
     /\ routeCh' = routeCh \cup {route[a] : a \in lost}

-----------------------------------------------------------------------------
(* Initial state: a Reload has run with all links up, before the first     *)
(* event.  A master without any slave to relay for is disabled.            *)

Init ==
  /\ KernelInit
  /\ \E cfg \in Configs :
       LET ndpMode(n) == IF cfg[n].Master /\ \A m \in Names : cfg[m].Master
                         THEN "disabled" ELSE "relay"
       IN interfaces = [n \in Names |->
            [Ifindex |-> IdxOf[n], Master |-> cfg[n].Master, LearnRoutes |-> cfg[n].LearnRoutes,
             NdpFromLinkLocal |-> cfg[n].NdpFromLinkLocal,
             NDP |-> ndpMode(n), ndp |-> ndpMode(n) = "relay",
             Addr6 |-> [a \in Addrs |-> addrs[<<a, IdxOf[n]>>]], cachedLL |-> NoAddr]]
  /\ proxyNdp = {IdxOf[n] : n \in {m \in Names : interfaces[m].ndp}}
  /\ mirroredNeighs = {}
  /\ reconcileScheduled = FALSE
  /\ pendingReconciles = 0

-----------------------------------------------------------------------------
(* handleNeighEvent.                                                       *)

NeighIgnored(k) ==
  LET msg == Head(neighCh[k])
  IN /\ \/ msg = "gone"
        \/ RelayIface(k[2]) = {}
        \/ ~NeighFilter(k[1])
        \/ msg \in Resolved /\ k \in mirroredNeighs
     /\ neighCh' = [neighCh EXCEPT ![k] = Tail(@)]
     /\ UNCHANGED <<neigh, proxyNdp, proxy, route, routeCh, mirroredNeighs>>

\* Fault: STALE is missing from resolvedMask.
AppearsReachableOnly(k, n) ==
  /\ Head(neighCh[k]) \in Resolved
  /\ k \notin mirroredNeighs
  /\ NeighFilter(k[1])
  /\ neighCh' = [neighCh EXCEPT ![k] = Tail(@)]
  /\ IF Head(neighCh[k]) = "stale"
     THEN UNCHANGED <<mirroredNeighs, proxyNdp, proxy, route>>
     ELSE mirroredNeighs' = mirroredNeighs \cup {k} /\ MirrorAdd({<<k[1], n>>})
  /\ UNCHANGED <<neigh, routeCh>>

NeighAppears(k, n) ==
  /\ Head(neighCh[k]) \in Resolved
  /\ k \notin mirroredNeighs
  /\ NeighFilter(k[1])
  /\ mirroredNeighs' = mirroredNeighs \cup {k}
  /\ MirrorAdd({<<k[1], n>>})
  /\ neighCh' = [neighCh EXCEPT ![k] = Tail(@)]
  /\ UNCHANGED <<neigh, routeCh>>

\* deleteFailedNeigh, on the NUD state of the entry.
DeleteFailedNeigh(state) == "none"

\* The entry is deleted whatever its state is by now: the event may be old.
NeighGone(k, n) ==
  /\ Head(neighCh[k]) = "failed"
  /\ NeighFilter(k[1])
  /\ mirroredNeighs' = mirroredNeighs \ {k}
  /\ IF k \in mirroredNeighs
     THEN MirrorDel({<<k[1], n>>})
     ELSE UNCHANGED <<proxy, route, routeCh>>
  /\ neigh' = [neigh EXCEPT ![k] = DeleteFailedNeigh(@)]
  /\ neighCh' = [neighCh EXCEPT ![k] = Tail(@) \o DelMsgs(neigh[k])]
  /\ UNCHANGED proxyNdp

HandleNeighEvent(k) ==
  /\ neighCh[k] # << >>
  /\ \/ NeighIgnored(k)
     \/ \E n \in RelayIface(k[2]) : NeighAppears(k, n) \/ NeighGone(k, n)
  /\ UNCHANGED <<home, addrs, addrCh, interfaces, reconcileScheduled, pendingReconciles>>

-----------------------------------------------------------------------------
(* handleRouteEvent, scheduleReconcile, reconcileKernelState.              *)

\* Fault: the debounce flag is not consulted.
ScheduleAlways ==
  /\ reconcileScheduled' = TRUE
  /\ pendingReconciles' = pendingReconciles + 1
ScheduleReconcile ==
  IF reconcileScheduled
  THEN UNCHANGED <<reconcileScheduled, pendingReconciles>>
  ELSE reconcileScheduled' = TRUE /\ pendingReconciles' = pendingReconciles + 1

\* Fault: the deletion is not acted on.
IgnoreRouteEvent(ix, last) ==
  /\ ix \in routeCh
  /\ routeCh' = IF last THEN routeCh \ {ix} ELSE routeCh
  /\ UNCHANGED <<home, neigh, addrs, route, proxy, proxyNdp, neighCh, addrCh, mirrorVars>>

\* RTM_DELROUTE of a metric-1024 /128 route on link ix; last says whether it was
\* the last one queued for that link.  Every other route event is ignored.
HandleRouteEvent(ix, last) ==
  /\ ix \in routeCh
  /\ routeCh' = IF last THEN routeCh \ {ix} ELSE routeCh
  /\ IF RelayIface(ix) # {}
     THEN ScheduleReconcile
     ELSE UNCHANGED <<reconcileScheduled, pendingReconciles>>
  /\ UNCHANGED <<home, neigh, addrs, route, proxy, proxyNdp, neighCh, addrCh,
                 interfaces, mirroredNeighs>>

\* What reconcileKernelState re-asserts: the links' own addresses and the hosts.
OwnMirrors ==
  {m \in Addrs \X DOMAIN interfaces :
     /\ interfaces[m[2]].NDP = "relay"
     /\ interfaces[m[2]].Addr6[m[1]] # "absent"
     /\ AddrFilter(m[1], m[2])}

\* Fault: learned hosts are forgotten by the reconcile.
NoHostMirrors == {m \in Addrs \X DOMAIN interfaces : FALSE}
HostMirrors ==
  {m \in Addrs \X DOMAIN interfaces : <<m[1], interfaces[m[2]].Ifindex>> \in mirroredNeighs}

Reconcile ==
  /\ pendingReconciles > 0
  /\ pendingReconciles' = pendingReconciles - 1
  /\ reconcileScheduled' = FALSE
  /\ LET M == OwnMirrors \cup HostMirrors
     IN /\ proxyNdp' = proxyNdp \cup SysctlsOf(M)
             \cup {interfaces[n].Ifindex : n \in {m \in DOMAIN interfaces :
                                 interfaces[m].NDP = "relay" /\ interfaces[m].ndp}}
        /\ proxy' = proxy \cup ProxiesOf(M)
        /\ route' \in RoutesAfterAdd(M)
  /\ UNCHANGED <<home, neigh, addrs, neighCh, addrCh, routeCh, interfaces, mirroredNeighs>>

-----------------------------------------------------------------------------
(* handleAddrEvent: the list is read afresh, but the mirror follows the    *)
(* event, which may be older than the list.                                *)

HandleAddrEvent(k) ==
  /\ addrCh[k] # << >>
  /\ addrCh' = [addrCh EXCEPT ![k] = Tail(@)]
  /\ \/ IfaceByIndex(k[2]) = {} /\ UNCHANGED <<interfaces, proxyNdp, proxy, route, routeCh>>
     \/ \E n \in IfaceByIndex(k[2]) :
          /\ interfaces' = RefreshInterfaceAddresses(n)
          /\ IF interfaces[n].NDP # "relay" \/ ~AddrFilter(k[1], n)
             THEN UNCHANGED <<proxyNdp, proxy, route, routeCh>>
             ELSE IF Head(addrCh[k]) = "new"
                  THEN MirrorAdd({<<k[1], n>>}) /\ UNCHANGED routeCh
                  ELSE MirrorDel({<<k[1], n>>}) /\ UNCHANGED proxyNdp
  /\ UNCHANGED <<home, neigh, addrs, neighCh, mirroredNeighs, reconcileScheduled, pendingReconciles>>

-----------------------------------------------------------------------------
(* sweepFailedAndOrphans, every mirrorSweepInterval.                       *)

Scanned == {k \in Keys : RelayIface(k[2]) # {} /\ NeighFilter(k[1])}
Live    == {k \in Scanned : neigh[k] \notin Unresolved}

\* A route of ours whose destination is not in the neighbour cache of its link.
Orphaned == {k \in Keys : RelayIface(k[2]) # {} /\ route[k[1]] = k[2] /\ k \notin Live}

\* probeNeighbor of the stale entries.
\* Fault: nothing is probed.
ProbeNone(k, state) == FALSE
Probed(k, state) == k \in Live /\ state = "stale"

Sweep ==
  LET failed == {k \in Scanned : neigh[k] = "failed"}
      reaped == (failed \cap mirroredNeighs) \cup Orphaned
  IN /\ mirroredNeighs' = mirroredNeighs \ reaped
     /\ MirrorDel({m \in Addrs \X DOMAIN interfaces :
                     <<m[1], interfaces[m[2]].Ifindex>> \in reaped})
     /\ neigh' = [k \in Keys |-> IF k \in failed THEN DeleteFailedNeigh(neigh[k])
                                 ELSE IF Probed(k, neigh[k]) THEN "probe" ELSE neigh[k]]
     /\ neighCh' = [k \in Keys |-> IF k \in failed THEN neighCh[k] \o DelMsgs(neigh[k])
                                   ELSE IF Probed(k, neigh[k]) THEN Append(neighCh[k], "probe")
                                   ELSE neighCh[k]]
     /\ UNCHANGED <<home, addrs, proxyNdp, addrCh, interfaces, reconcileScheduled, pendingReconciles>>

-----------------------------------------------------------------------------
(* handleSolicit and relayPing: a Neighbor Solicitation for t is captured  *)
(* on interface n, sent by one of our own MACs or by another machine.  A   *)
(* ping to an own address stays local and resolves nothing.                *)
(* The metric-128 route that pins the ping is added and removed within the *)
(* handler, and its deletion is one of the route events that are ignored.  *)

HandleSolicit(n, t, ownMAC) ==
  LET pinged == {c \in DOMAIN interfaces \ {n} : interfaces[c].NDP = "relay" /\ interfaces[c].ndp}
      looked == {k \in ({t} \cap Hosts) \X Idx : \E c \in pinged : interfaces[c].Ifindex = k[2]}
  IN /\ interfaces[n].ndp /\ interfaces[n].NDP = "relay"
     /\ NeighFilter(t)
     /\ ~(ownMAC /\ ~interfaces[n].Master)
     /\ \A k \in looked : Len(neighCh[k]) < MaxQueue
     /\ neigh' = [k \in Keys |-> IF k \in looked /\ neigh[k] \in Unresolved
                                 THEN "incomplete" ELSE neigh[k]]
     /\ \E ll \in [pinged -> Addrs \cup {NoAddr}] :
          /\ \A c \in pinged : ll[c] \in IF interfaces[c].NdpFromLinkLocal
                                         THEN GetLinkLocalAddr(interfaces[c])
                                         ELSE {interfaces[c].cachedLL}
          /\ interfaces' = [c \in DOMAIN interfaces |->
                 IF c \in pinged THEN [interfaces[c] EXCEPT !.cachedLL = ll[c]] ELSE interfaces[c]]
     /\ UNCHANGED <<home, addrs, route, proxy, proxyNdp, neighCh, addrCh, routeCh,
                    mirroredNeighs, reconcileScheduled, pendingReconciles>>

-----------------------------------------------------------------------------
Engine ==
  \/ \E k \in Keys : HandleNeighEvent(k) \/ HandleAddrEvent(k)
  \/ \E ix \in Idx, last \in BOOLEAN : HandleRouteEvent(ix, last)
  \/ Reconcile
  \/ Sweep
  \/ \E n \in DOMAIN interfaces, t \in Addrs, ownMAC \in BOOLEAN : HandleSolicit(n, t, ownMAC)

Next == Engine \/ (KernelNext /\ UNCHANGED mirrorVars)

Spec == Init /\ [][Next]_vars

\* The engine drains its backlog and timers fire; the kernel ages entries and
\* finishes the resolutions it has started.  Hosts, traffic, other solicitations
\* and the network manager owe nothing.
NeighSettles(k) == neigh[k] \in {"incomplete", "probe"} /\ (NeighAnswers(k) \/ NeighFails(k))

Fairness ==
  /\ \A k \in Keys :
       /\ WF_vars(HandleNeighEvent(k))
       /\ WF_vars(HandleAddrEvent(k))
       /\ WF_vars(NeighAges(k) /\ UNCHANGED mirrorVars)
       /\ WF_vars(NeighSettles(k) /\ UNCHANGED mirrorVars)
  /\ \A ix \in Idx : WF_vars(\E last \in BOOLEAN : HandleRouteEvent(ix, last))
  /\ WF_vars(Reconcile)
  /\ WF_vars(Sweep)

FairSpec == Spec /\ Fairness

-----------------------------------------------------------------------------
(* Safety.                                                                 *)

\* A reconcile is on its way: scheduled, or the deletion that will schedule it
\* is queued.
RepairPending == reconcileScheduled \/ \E ix \in routeCh : RelayIface(ix) # {}

Installed(k, n) ==
  /\ \A c \in MirrorTargets(n) :
       <<k[1], interfaces[c].Ifindex>> \in proxy /\ interfaces[c].Ifindex \in proxyNdp
  /\ interfaces[n].LearnRoutes /\ k[1] \notin LinkLocal => route[k[1]] = k[2]

\* Whatever a network manager flushes, whenever it does: a host the daemon holds
\* for mirrored has its route, its proxy entries and proxy_ndp on every master,
\* or a repair is pending (handleRouteEvent's claim that the deletion is signal
\* enough to restore all three together).
MirrorIntact ==
  \A k \in mirroredNeighs : \A n \in IfaceByIndex(k[2]) : Installed(k, n) \/ RepairPending

\* The daemon's reason to keep state for an address on an interface: a mirrored
\* host, an address of the link, or an address event not yet handled.
Reason(a, n) ==
  LET k == <<a, interfaces[n].Ifindex>>
  IN k \in mirroredNeighs \/ interfaces[n].Addr6[a] # "absent" \/ addrCh[k] # << >>

\* No step forgets an address and leaves its route or a proxy entry behind:
\* ndpMirrorAddr(false) and delete(mirroredNeighs) always go together.
NoLeak ==
  /\ \A a \in Addrs : route[a] # NoIdx =>
       \E n \in DOMAIN interfaces : interfaces[n].Ifindex = route[a] /\ Reason(a, n)
  /\ \A k \in proxy :
       \E n \in DOMAIN interfaces :
          /\ Reason(k[1], n)
          /\ \E c \in MirrorTargets(n) : interfaces[c].Ifindex = k[2]

\* scheduleReconcile: one reconcile outstanding exactly while the flag is up, so
\* bursts neither stack timers nor lose the reconcile.
OneReconcile == pendingReconciles = IF reconcileScheduled THEN 1 ELSE 0

\* Once the events of a key are handled, a host the kernel has resolved on a
\* relay link is mirrored, however failures, late answers, deletions by the
\* daemon itself and sweeps were interleaved.
LearnedWhenDrained ==
  \A k \in Scanned : neigh[k] \in Resolved /\ neighCh[k] = << >> => k \in mirroredNeighs

\* Addr6 differs from the kernel, and the cached link-local source is one the
\* kernel no longer accepts, only while an address event of the link is queued.
AddrViewFresh ==
  \A n \in DOMAIN interfaces :
    LET key(a) == <<a, interfaces[n].Ifindex>>
    IN /\ \A a \in Addrs : interfaces[n].Addr6[a] # addrs[key(a)] => addrCh[key(a)] # << >>
       /\ interfaces[n].cachedLL # NoAddr =>
            interfaces[n].Addr6[interfaces[n].cachedLL] = "valid"

-----------------------------------------------------------------------------
(* Liveness, under FairSpec.                                               *)

\* Every hole a flush makes in the mirror of a host is closed, unless the host
\* is given up meanwhile.
FlushHealed ==
  \A k \in Keys :
    (k \in mirroredNeighs /\ \E n \in RelayIface(k[2]) : ~Installed(k, n))
      ~> (k \notin mirroredNeighs \/ \A n \in RelayIface(k[2]) : Installed(k, n))

NoMirror(h) ==
  /\ \A ix \in Idx : <<h, ix>> \notin mirroredNeighs /\ <<h, ix>> \notin proxy
  /\ route[h] = NoIdx

NetworkManager ==
  \E a \in Addrs, reset \in SUBSET Idx : RouteFlushed(a, reset) /\ UNCHANGED mirrorVars

\* A host that leaves for good loses its route and proxy entries, even though
\* nothing announces its departure: the sweep's probe of stale entries, the
\* FAILED reap and the orphan pass together.  (A manager that flushes for ever
\* could hide the orphan route from every sweep.)
DepartedReaped ==
  \A h \in Hosts :
    (/\ <>[](home[h] = NoIdx)
     /\ <>[][~NetworkManager]_vars
     /\ [](\A n \in DOMAIN interfaces : interfaces[n].LearnRoutes)) => <>[]NoMirror(h)

=============================================================================
