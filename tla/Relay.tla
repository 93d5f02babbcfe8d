-------------------------------- MODULE Relay --------------------------------
(***************************************************************************)
(* The life of an interface: Reload (config.go), link events (netlink.go)  *)
(* and restarts of the daemon, and what they do to the NDP service and to  *)
(* the mirror of the hosts behind the links.                               *)
(*                                                                         *)
(* Reload and the handlers run on the engine goroutine and exclude each    *)
(* other, but the kernel does not wait for them: Reload is one step per    *)
(* interface it parses and per interface it applies, and the kernel moves  *)
(* between the steps.  The neighbour cache is reduced to what a mirror     *)
(* depends on (Mirror has its states, the links' own addresses and the     *)
(* network manager); the RA and DHCPv6 services change mode and sockets    *)
(* together with NDP (see Solicit and Readers).                            *)
(***************************************************************************)
EXTENDS Naturals, Sequences

CONSTANTS
  Names,        \* config names, the keys of the map interfaces
  Devs,         \* netdev names
  Hosts,        \* addresses of hosts
  Behind,       \* Behind[h] : the netdev the host h is behind
  Files,        \* contents of the config file; an unreadable one is the empty one
  Bouncing,     \* the netdevs that may be set down and up again
  Replaced,     \* the netdevs that may be removed and created again
  MaxIdx,       \* bound: link indexes the kernel ever gives out
  MaxLinkQueue, \* bound: link events queued at once
  MaxNeighQueue \* bound: neighbour events queued at once

Idx   == 1..MaxIdx
NoIdx == 0
Entry == [Ifname : Devs, master : {"yes", "no", "unset"}, ndproxy_routing : BOOLEAN]

ASSUME RelayAssumption ==
  /\ "" \notin Devs /\ Behind \in [Hosts -> Devs]
  /\ \A f \in Files : DOMAIN f \subseteq Names /\ \A n \in DOMAIN f : f[n] \in Entry
  /\ Bouncing \subseteq Devs /\ Replaced \subseteq Devs
  /\ MaxIdx \in Nat /\ MaxLinkQueue \in Nat \ {0} /\ MaxNeighQueue \in Nat \ {0}

VARIABLES
  dev,          \* dev[d] : index (or NoIdx) and IFF_RUNNING of the netdev d
  lastIdx,      \* the last index given out
  neigh,        \* neigh[h] : the entry of h on its netdev
  route,        \* route[h] : output link of the metric-1024 route to h
  pin,          \* pin[h] : output link of a metric-128 route left behind
  proxy,        \* proxy-NDP entries, as <<host, link>>
  proxyNdp,     \* the netdevs with proxy_ndp = 1
  linkCh, neighCh, routeCh,   \* netlink events on their way
  file,         \* content of the config file
  reload,       \* a Reload is in the backlog
  monitor,      \* the netlink monitor goroutine is alive
  registered,   \* the keys of the map interfaces
  interfaces,   \* the interfaces by name
  mirroredNeighs,
  reconcileScheduled,
  phase, todo,  \* the closure the engine is in the middle of
  root          \* the config it parsed last

linkVars   == <<dev, lastIdx, linkCh>>
tableVars  == <<route, proxy, proxyNdp, routeCh>>
configVars == <<file, reload, monitor, root>>
daemonVars == <<registered, interfaces, mirroredNeighs, reconcileScheduled, phase, todo>>
vars == <<linkVars, neigh, neighCh, tableVars, pin, configVars, daemonVars>>

NewInterface ==
  [Ifname |-> "", Ifindex |-> NoIdx, Running |-> FALSE, Master |-> FALSE, LearnRoutes |-> TRUE,
   NDP |-> "relay", ndp |-> NoIdx, Inuse |-> FALSE]

\* ndp is the link the capture socket is bound to.
Interface ==
  [Ifname : Devs \cup {""}, Ifindex : 0..MaxIdx, Running : BOOLEAN, Master : BOOLEAN,
   LearnRoutes : BOOLEAN, NDP : {"disabled", "relay"}, ndp : 0..MaxIdx, Inuse : BOOLEAN]

LinkEvent  == [type : {"new", "del"}, dev : Devs, ix : Idx, running : BOOLEAN]
NeighEvent == [host : Hosts, ix : Idx, state : {"resolved", "failed"}]

\* The type invariant of kernel tables, queues and the daemon.
TypeOK ==
  /\ dev \in [Devs -> [ix : 0..MaxIdx, running : BOOLEAN]]
  /\ lastIdx \in 0..MaxIdx
  /\ neigh \in [Hosts -> {"none", "resolved", "failed"}]
  /\ route \in [Hosts -> 0..MaxIdx] /\ pin \in [Hosts -> 0..MaxIdx]
  /\ proxy \subseteq Hosts \X (0..MaxIdx)
  /\ proxyNdp \subseteq Devs
  /\ linkCh \in Seq(LinkEvent) /\ neighCh \in Seq(NeighEvent) /\ routeCh \subseteq Idx
  /\ file \in Files /\ root \in Files \cup {<< >>} /\ reload \in BOOLEAN /\ monitor \in BOOLEAN
  /\ registered \subseteq Names
  /\ interfaces \in [Names -> Interface]
  /\ mirroredNeighs \subseteq Hosts \X Idx
  /\ reconcileScheduled \in BOOLEAN
  /\ phase \in {"idle", "parse", "apply"} /\ todo \subseteq Names

\* The netdevs exist, nothing is resolved, and main has posted the first Reload.
Init ==
  /\ \E ix \in [Devs -> Idx] :
       /\ \A d, e \in Devs : d # e => ix[d] # ix[e]
       /\ dev = [d \in Devs |-> [ix |-> ix[d], running |-> TRUE]]
       /\ lastIdx \in Idx /\ \A i \in Idx : i <= lastIdx <=> \E d \in Devs : ix[d] = i
  /\ neigh = [h \in Hosts |-> "none"]
  /\ route = [h \in Hosts |-> NoIdx] /\ pin = route
  /\ proxy = {} /\ proxyNdp = {}
  /\ linkCh = << >> /\ neighCh = << >> /\ routeCh = {}
  /\ file \in Files /\ root = << >> /\ reload = TRUE /\ monitor = TRUE
  /\ registered = {} /\ interfaces = [n \in Names |-> NewInterface]
  /\ mirroredNeighs = {} /\ reconcileScheduled = FALSE
  /\ phase = "idle" /\ todo = {}

-----------------------------------------------------------------------------
(* The kernel (external).                                                  *)

Exists(ix) == \E d \in Devs : dev[d].ix = ix
LinkUp(ix) == \E d \in Devs : dev[d].ix = ix /\ dev[d].running
OnLink(h)  == dev[Behind[h]].ix

\* What a link takes with it when it goes down or away.
Flush(d) ==
  LET ix == dev[d].ix
  IN /\ neigh' = [h \in Hosts |-> IF Behind[h] = d THEN "none" ELSE neigh[h]]
     /\ route' = [h \in Hosts |-> IF route[h] = ix THEN NoIdx ELSE route[h]]
     /\ pin'   = [h \in Hosts |-> IF pin[h] = ix THEN NoIdx ELSE pin[h]]
     /\ routeCh' = IF \E h \in Hosts : route[h] = ix THEN routeCh \cup {ix} ELSE routeCh
     /\ proxy' = {p \in proxy : p[2] # ix}

Announce(type, d, ix, running) ==
  /\ Len(linkCh) < MaxLinkQueue
  /\ linkCh' = Append(linkCh, [type |-> type, dev |-> d, ix |-> ix, running |-> running])

LinkGoesDown(d) ==
  /\ d \in Bouncing /\ dev[d].running
  /\ dev' = [dev EXCEPT ![d].running = FALSE]
  /\ Flush(d)
  /\ Announce("new", d, dev[d].ix, FALSE)
  /\ UNCHANGED <<lastIdx, neighCh, proxyNdp, configVars, daemonVars>>

LinkComesUp(d) ==
  /\ dev[d].ix # NoIdx /\ ~dev[d].running
  /\ dev' = [dev EXCEPT ![d].running = TRUE]
  /\ Announce("new", d, dev[d].ix, TRUE)
  /\ UNCHANGED <<lastIdx, neigh, neighCh, tableVars, pin, configVars, daemonVars>>

LinkDeleted(d) ==
  /\ d \in Replaced /\ dev[d].ix # NoIdx
  /\ dev' = [dev EXCEPT ![d] = [ix |-> NoIdx, running |-> FALSE]]
  /\ Flush(d)
  /\ proxyNdp' = proxyNdp \ {d}
  /\ Announce("del", d, dev[d].ix, FALSE)
  /\ UNCHANGED <<lastIdx, neighCh, configVars, daemonVars>>

LinkCreated(d) ==
  /\ dev[d].ix = NoIdx /\ lastIdx < MaxIdx
  /\ lastIdx' = lastIdx + 1
  /\ dev' = [dev EXCEPT ![d] = [ix |-> lastIdx', running |-> FALSE]]
  /\ Announce("new", d, lastIdx', FALSE)
  /\ UNCHANGED <<neigh, neighCh, tableVars, pin, configVars, daemonVars>>

NeighBecomes(h, state) ==
  /\ Len(neighCh) < MaxNeighQueue
  /\ neigh' = [neigh EXCEPT ![h] = state]
  /\ neighCh' = Append(neighCh, [host |-> h, ix |-> OnLink(h), state |-> state])
  /\ UNCHANGED <<linkVars, tableVars, pin, configVars, daemonVars>>

NeighAnswers(h) == dev[Behind[h]].running /\ neigh[h] # "resolved" /\ NeighBecomes(h, "resolved")
NeighFails(h)   == neigh[h] = "resolved" /\ NeighBecomes(h, "failed")

\* Garbage collection; the RTM_DELNEIGH it sends is ignored by the daemon.
NeighGC(h) ==
  /\ neigh[h] # "none"
  /\ neigh' = [neigh EXCEPT ![h] = "none"]
  /\ UNCHANGED <<linkVars, neighCh, tableVars, pin, configVars, daemonVars>>

\* The administrator edits the file, or not, and sends SIGHUP.
EditConfig(f) ==
  /\ file' = f /\ reload' = TRUE
  /\ UNCHANGED <<linkVars, neigh, neighCh, tableVars, pin, monitor, root, daemonVars>>

-----------------------------------------------------------------------------
(* ndpMirrorAddr for a set M of pairs <<host, interface>>.                 *)

IfaceByIndex(ix) == {n \in registered : interfaces[n].Ifindex = ix}

\* Fault: a master whose capture is not open at the moment is passed over.
OpenTargets(n) ==
  {c \in registered : /\ interfaces[c].Ifindex # interfaces[n].Ifindex
                      /\ interfaces[c].Master
                      /\ interfaces[c].ndp # NoIdx}
Targets(n) ==
  {c \in registered : /\ interfaces[c].Ifindex # interfaces[n].Ifindex
                      /\ interfaces[c].Master
                      /\ interfaces[c].NDP = "relay"}

ProxiesOf(M) == UNION {{<<m[1], interfaces[c].Ifindex>> : c \in Targets(m[2])} : m \in M}

RouteLinks(M, h) ==
  {interfaces[m[2]].Ifindex : m \in {x \in M : x[1] = h /\ interfaces[x[2]].LearnRoutes}}

\* A write for a link that is gone fails and is logged; a route needs its link to
\* be up.  Index 0 names no link: the kernel takes such a proxy entry for all of
\* them.  The sysctl goes by netdev name; on holds the ones switched on anyway.
MirrorAdd(M, on) ==
  /\ proxyNdp' = on \cup {d \in Devs : dev[d].ix # NoIdx /\
                            \E m \in M : \E c \in Targets(m[2]) : interfaces[c].Ifname = d}
  /\ proxy' = proxy \cup {p \in ProxiesOf(M) : p[2] = NoIdx \/ Exists(p[2])}
  /\ route' = [h \in Hosts |-> LET up == {ix \in RouteLinks(M, h) : LinkUp(ix)}
                               IN IF up = {} THEN route[h] ELSE CHOOSE ix \in up : TRUE]

MirrorDel(M) ==
  LET lost == {h \in Hosts : route[h] # NoIdx /\ route[h] \in RouteLinks(M, h)}
  IN /\ proxy' = proxy \ ProxiesOf(M)
     /\ route' = [h \in Hosts |-> IF h \in lost THEN NoIdx ELSE route[h]]
     /\ routeCh' = routeCh \cup {route[h] : h \in lost}

\* disableServices and clearMirroredState, as always in one go.
\* Fault: the bookkeeping is cleared and the kernel is not told.
ClearsKeysOnly(n, ix) ==
  /\ proxyNdp' = proxyNdp \ {interfaces[n].Ifname}
  /\ UNCHANGED <<proxy, route, routeCh>>
  /\ mirroredNeighs' = {k \in mirroredNeighs : k[2] # interfaces[n].Ifindex}
Detach(n, ix) ==
  /\ proxyNdp' = proxyNdp \ {interfaces[n].Ifname}
  /\ MirrorDel({h \in Hosts : <<h, interfaces[n].Ifindex>> \in mirroredNeighs} \X {n})
  /\ mirroredNeighs' = {k \in mirroredNeighs : k[2] # interfaces[n].Ifindex}

-----------------------------------------------------------------------------
(* Reload.                                                                 *)

ReloadStart ==
  /\ phase = "idle" /\ reload
  /\ reload' = FALSE
  /\ interfaces' = [n \in Names |->
       IF n \in registered
       THEN [interfaces[n] EXCEPT !.NDP = "relay", !.LearnRoutes = TRUE, !.Inuse = FALSE]
       ELSE interfaces[n]]
  /\ root' = file
  /\ phase' = "parse" /\ todo' = DOMAIN file
  /\ UNCHANGED <<linkVars, neigh, neighCh, tableVars, pin, file, monitor, registered,
                 mirroredNeighs, reconcileScheduled>>

\* parseInterfaceJSON.  A missing netdev leaves the entry registered and unused;
\* an absent master option leaves the old value.
ParseInterface(n) ==
  LET e == root[n]
      i == interfaces[n]
      link == dev[e.Ifname]
      relinked == i.Ifindex # NoIdx /\ (i.Ifname # e.Ifname \/ i.Ifindex # link.ix)
  IN /\ phase = "parse" /\ n \in todo
     /\ todo' = todo \ {n}
     /\ registered' = registered \cup {n}
     /\ IF link.ix = NoIdx
        THEN UNCHANGED <<interfaces, tableVars, mirroredNeighs>>
        ELSE /\ interfaces' = [interfaces EXCEPT ![n] =
                  [i EXCEPT !.Ifname = e.Ifname, !.Ifindex = link.ix, !.Running = link.running,
                            !.Inuse = TRUE, !.LearnRoutes = e.ndproxy_routing,
                            !.Master = IF e.master = "unset" THEN @ ELSE e.master = "yes",
                            !.ndp = IF relinked THEN NoIdx ELSE @]]
             /\ IF relinked
                THEN Detach(n, link.ix)
                ELSE UNCHANGED <<tableVars, mirroredNeighs>>
     /\ UNCHANGED <<linkVars, neigh, neighCh, pin, configVars, reconcileScheduled, phase>>

\* "disable master relay if there is no slave".
ReloadModes ==
  LET slave == \E n \in registered : ~interfaces[n].Master
  IN /\ phase = "parse" /\ todo = {}
     /\ interfaces' = [n \in Names |->
          IF n \in registered /\ interfaces[n].Master /\ ~slave
          THEN [interfaces[n] EXCEPT !.NDP = "disabled"] ELSE interfaces[n]]
     /\ phase' = IF registered = {} THEN "idle" ELSE "apply"
     /\ todo' = registered
     /\ UNCHANGED <<linkVars, neigh, neighCh, tableVars, pin, configVars, registered,
                    mirroredNeighs, reconcileScheduled>>

\* seedMirroredNeighbors.
\* Fault: hosts resolved before the socket was opened are not looked for.
NoSeed(n) == {h \in Hosts : FALSE}
Seeded(n) ==
  {h \in Hosts : /\ OnLink(h) = interfaces[n].Ifindex /\ neigh[h] = "resolved"
                 /\ <<h, interfaces[n].Ifindex>> \notin mirroredNeighs}

\* The netdevs setProxyNDP(i, true) leaves switched on.
SwitchedOn(i) ==
  proxyNdp \cup {d \in Devs : d = i.Ifname /\ dev[d].ix # NoIdx}

\* ndpSetup(true): it fails half-way when the link has changed under it, first at
\* SO_BINDTODEVICE (by name), then at bind (by index).
NdpSetup(n) ==
  LET i == interfaces[n]
      opens == \E d \in Devs : d = i.Ifname /\ dev[d].ix = i.Ifindex /\ i.Ifindex # NoIdx
      seeded == IF opens THEN Seeded(n) ELSE {}
  IN /\ interfaces' = [interfaces EXCEPT ![n].ndp = IF opens THEN i.Ifindex ELSE NoIdx]
     /\ mirroredNeighs' = mirroredNeighs \cup (seeded \X {i.Ifindex})
     /\ MirrorAdd(seeded \X {n}, SwitchedOn(i))
     /\ UNCHANGED <<registered, routeCh>>

\* ndpSetup(false).
NdpDisable(n) ==
  /\ interfaces' = [interfaces EXCEPT ![n].ndp = NoIdx]
  /\ proxyNdp' = proxyNdp \ {interfaces[n].Ifname}
  /\ UNCHANGED <<registered, mirroredNeighs, proxy, route, routeCh>>

CloseInterface(n) ==
  /\ registered' = registered \ {n}
  /\ interfaces' = [interfaces EXCEPT ![n] = NewInterface]
  /\ proxyNdp' = proxyNdp \ {interfaces[n].Ifname}
  /\ UNCHANGED <<mirroredNeighs, proxy, route, routeCh>>

ReloadServices(n) ==
  IF interfaces[n].Running /\ interfaces[n].NDP = "relay" THEN NdpSetup(n) ELSE NdpDisable(n)

ApplyInterface(n) ==
  /\ phase = "apply" /\ n \in todo
  /\ IF interfaces[n].Inuse THEN ReloadServices(n) ELSE CloseInterface(n)
  /\ todo' = todo \ {n}
  /\ phase' = IF todo' = {} THEN "idle" ELSE "apply"
  /\ UNCHANGED <<linkVars, neigh, neighCh, pin, configVars, reconcileScheduled>>

-----------------------------------------------------------------------------
(* handleLinkEvent; where it goes on to reloadServices, ApplyInterface is  *)
(* the rest of the closure.                                                *)

LinkIgnored ==
  LET e == Head(linkCh)
  IN /\ \/ \A n \in registered : interfaces[n].Ifname # e.dev
        \/ \E n \in registered :
             /\ interfaces[n].Ifname = e.dev
             /\ IF e.type = "del" THEN interfaces[n].Ifindex # e.ix
                ELSE interfaces[n].Ifindex = e.ix /\ interfaces[n].Running = e.running
     /\ UNCHANGED <<tableVars, registered, interfaces, mirroredNeighs, phase, todo>>

\* Fault: the services are left running.
DeletedKeepsSocket(n) ==
  LET e == Head(linkCh)
  IN /\ e.type = "del" /\ interfaces[n].Ifindex = e.ix
     /\ Detach(n, NoIdx)
     /\ interfaces' = [interfaces EXCEPT ![n] = [@ EXCEPT !.Ifindex = NoIdx, !.Running = FALSE]]
     /\ UNCHANGED <<registered, phase, todo>>
HandleLinkDeleted(n) ==
  LET e == Head(linkCh)
  IN /\ e.type = "del" /\ interfaces[n].Ifindex = e.ix
     /\ Detach(n, NoIdx)
     /\ interfaces' = [interfaces EXCEPT ![n] =
                         [@ EXCEPT !.Ifindex = NoIdx, !.Running = FALSE, !.ndp = NoIdx]]
     /\ UNCHANGED <<registered, phase, todo>>

\* Fault: only a lost carrier reloads the services.
ToggledDownOnly(n) ==
  LET e == Head(linkCh)
  IN /\ e.type = "new" /\ interfaces[n].Ifindex = e.ix /\ interfaces[n].Running # e.running
     /\ interfaces' = [interfaces EXCEPT ![n].Running = e.running]
     /\ IF e.running THEN UNCHANGED <<phase, todo>> ELSE phase' = "apply" /\ todo' = {n}
     /\ UNCHANGED <<registered, tableVars, mirroredNeighs>>
HandleLinkToggled(n) ==
  LET e == Head(linkCh)
  IN /\ e.type = "new" /\ interfaces[n].Ifindex = e.ix /\ interfaces[n].Running # e.running
     /\ interfaces' = [interfaces EXCEPT ![n].Running = e.running]
     /\ phase' = "apply" /\ todo' = {n}
     /\ UNCHANGED <<registered, tableVars, mirroredNeighs>>

HandleLinkReplaced(n) ==
  LET e == Head(linkCh)
  IN /\ e.type = "new" /\ interfaces[n].Ifindex # e.ix
     /\ Detach(n, e.ix)
     /\ interfaces' = [interfaces EXCEPT ![n] =
                         [@ EXCEPT !.Ifindex = e.ix, !.Running = e.running, !.ndp = NoIdx]]
     /\ phase' = "apply" /\ todo' = {n}
     /\ UNCHANGED registered

HandleLinkEvent ==
  /\ phase = "idle" /\ monitor /\ linkCh # << >>
  /\ linkCh' = Tail(linkCh)
  /\ \/ LinkIgnored
     \/ \E n \in registered :
          /\ interfaces[n].Ifname = Head(linkCh).dev
          /\ HandleLinkDeleted(n) \/ HandleLinkToggled(n) \/ HandleLinkReplaced(n)
  /\ UNCHANGED <<dev, lastIdx, neigh, neighCh, pin, configVars, reconcileScheduled>>

-----------------------------------------------------------------------------
(* The other handlers, as far as they change the mirror of a host.         *)

RelayIface(ix) == {n \in IfaceByIndex(ix) : interfaces[n].NDP = "relay"}

HandleNeighEvent ==
  LET e == Head(neighCh)
      k == <<e.host, e.ix>>
      deletes == e.state = "failed" /\ RelayIface(e.ix) # {} /\ OnLink(e.host) = e.ix
  IN /\ phase = "idle" /\ monitor /\ neighCh # << >>
     /\ \/ /\ RelayIface(e.ix) = {} \/ (e.state = "resolved") = (k \in mirroredNeighs)
           /\ UNCHANGED <<tableVars, mirroredNeighs>>
        \/ \E n \in RelayIface(e.ix) :
             \/ /\ e.state = "resolved" /\ k \notin mirroredNeighs
                /\ mirroredNeighs' = mirroredNeighs \cup {k}
                /\ MirrorAdd({<<e.host, n>>}, proxyNdp) /\ UNCHANGED routeCh
             \/ /\ e.state = "failed" /\ k \in mirroredNeighs
                /\ mirroredNeighs' = mirroredNeighs \ {k}
                /\ MirrorDel({<<e.host, n>>}) /\ UNCHANGED proxyNdp
     /\ neigh' = IF deletes THEN [neigh EXCEPT ![e.host] = "none"] ELSE neigh
     /\ neighCh' = IF deletes /\ neigh[e.host] = "resolved"
                   THEN Append(Tail(neighCh), e) ELSE Tail(neighCh)
     /\ UNCHANGED <<linkVars, pin, configVars, registered, interfaces, reconcileScheduled,
                    phase, todo>>

HandleRouteEvent(ix) ==
  /\ phase = "idle" /\ monitor /\ ix \in routeCh
  /\ routeCh' = routeCh \ {ix}
  /\ reconcileScheduled' = (reconcileScheduled \/ RelayIface(ix) # {})
  /\ UNCHANGED <<linkVars, neigh, neighCh, route, proxy, proxyNdp, pin, configVars, registered,
                 interfaces, mirroredNeighs, phase, todo>>

Reconcile ==
  /\ phase = "idle" /\ reconcileScheduled
  /\ reconcileScheduled' = FALSE
  /\ MirrorAdd({m \in Hosts \X registered : <<m[1], interfaces[m[2]].Ifindex>> \in mirroredNeighs},
               proxyNdp \cup {d \in Devs : dev[d].ix # NoIdx /\
                                \E n \in registered : /\ interfaces[n].Ifname = d
                                                      /\ interfaces[n].NDP = "relay"
                                                      /\ interfaces[n].ndp # NoIdx})
  /\ UNCHANGED <<linkVars, neigh, neighCh, routeCh, pin, configVars, registered, interfaces,
                 mirroredNeighs, phase, todo>>

\* sweepFailedAndOrphans: failed entries, and routes without an entry.
\* Fault: only failed entries are looked at.
NotOrphaned(h, n) == FALSE
Orphaned(h, n) ==
  route[h] = interfaces[n].Ifindex /\ ~(OnLink(h) = route[h] /\ neigh[h] = "resolved")

Sweep ==
  LET swept  == {n \in registered : interfaces[n].NDP = "relay" /\ interfaces[n].Ifindex # NoIdx
                                    /\ Exists(interfaces[n].Ifindex)}
      failed == {m \in Hosts \X swept : OnLink(m[1]) = interfaces[m[2]].Ifindex /\ neigh[m[1]] = "failed"}
      key(m) == <<m[1], interfaces[m[2]].Ifindex>>
      reaped == {m \in failed : key(m) \in mirroredNeighs} \cup
                {m \in Hosts \X swept : Orphaned(m[1], m[2])}
  IN /\ phase = "idle"
     /\ mirroredNeighs' = mirroredNeighs \ {key(m) : m \in reaped}
     /\ MirrorDel(reaped)
     /\ neigh' = [h \in Hosts |-> IF \E m \in failed : m[1] = h THEN "none" ELSE neigh[h]]
     /\ UNCHANGED <<linkVars, neighCh, proxyNdp, pin, configVars, registered, interfaces,
                    reconcileScheduled, phase, todo>>

\* handleSolicit and relayPing: the metric-128 route of every ping is gone again
\* at the end, and one left by an earlier process with it.
HandleSolicit(h, n) ==
  /\ phase = "idle" /\ n \in registered /\ interfaces[n].ndp # NoIdx /\ interfaces[n].NDP = "relay"
  /\ pin[h] # NoIdx
  /\ \E c \in registered \ {n} : /\ interfaces[c].NDP = "relay" /\ interfaces[c].ndp # NoIdx
                                /\ LinkUp(interfaces[c].Ifindex)
  /\ pin' = [pin EXCEPT ![h] = NoIdx]
  /\ UNCHANGED <<linkVars, neigh, neighCh, tableVars, configVars, daemonVars>>

\* The process exits (SIGTERM, a crash), possibly in the middle of a closure or
\* of a ping of h on interface n, and is started again.
Restart(h, n, pinging) ==
  /\ IF pinging
     THEN /\ phase = "idle" /\ n \in registered /\ interfaces[n].ndp # NoIdx
          /\ LinkUp(interfaces[n].Ifindex)
          /\ pin' = [pin EXCEPT ![h] = interfaces[n].Ifindex]
     ELSE UNCHANGED pin
  /\ registered' = {} /\ interfaces' = [m \in Names |-> NewInterface]
  /\ mirroredNeighs' = {} /\ reconcileScheduled' = FALSE
  /\ linkCh' = << >> /\ neighCh' = << >> /\ routeCh' = {}
  /\ phase' = "idle" /\ todo' = {} /\ root' = << >>
  /\ reload' = TRUE /\ monitor' = TRUE
  /\ UNCHANGED <<dev, lastIdx, neigh, route, proxy, proxyNdp, file>>

\* A subscription breaks off; the monitor goroutine returns.
SubscriptionEnds ==
  /\ monitor
  /\ monitor' = FALSE
  /\ UNCHANGED <<linkVars, neigh, neighCh, tableVars, pin, file, reload, root, daemonVars>>

-----------------------------------------------------------------------------
Kernel ==
  \/ \E d \in Devs : LinkGoesDown(d) \/ LinkComesUp(d) \/ LinkDeleted(d) \/ LinkCreated(d)
  \/ \E h \in Hosts : NeighAnswers(h) \/ NeighFails(h) \/ NeighGC(h)

Reloading ==
  \/ ReloadStart
  \/ \E n \in Names : ParseInterface(n) \/ ApplyInterface(n)
  \/ ReloadModes

Handlers ==
  \/ HandleLinkEvent \/ HandleNeighEvent \/ Reconcile \/ Sweep
  \/ \E ix \in Idx : HandleRouteEvent(ix)
  \/ \E h \in Hosts, n \in Names : HandleSolicit(h, n)

Next == Kernel \/ Reloading \/ Handlers \/ \E f \in Files : EditConfig(f)

\* One process lives on; or it may lose its monitor and be restarted.
Spec == Init /\ [][Next]_vars
FaultyNext ==
  \/ Next \/ SubscriptionEnds
  \/ \E h \in Hosts, n \in Names, pinging \in BOOLEAN : Restart(h, n, pinging)

\* The engine runs closures in the order they are posted, and the sweep's timer
\* fires: none is passed over for ever in favour of reloads, which is what SF says.
FairFaultySpec ==
  Init /\ [][FaultyNext]_vars
       /\ WF_vars(Reloading) /\ SF_vars(HandleLinkEvent) /\ SF_vars(Sweep)

-----------------------------------------------------------------------------
(* Safety.                                                                 *)

Settled == phase = "idle" /\ ~reload /\ linkCh = << >> /\ neighCh = << >>
           /\ routeCh = {} /\ ~reconcileScheduled

\* Whatever order links are replaced, reloads run and events are handled in, no
\* capture socket outlives the link index, the carrier or the mode it was opened
\* for, except inside the closure that is about to close it.
SocketsCurrent ==
  phase = "idle" => \A n \in Names :
    interfaces[n].ndp # NoIdx => /\ n \in registered
                                 /\ interfaces[n].ndp = interfaces[n].Ifindex
                                 /\ interfaces[n].Running /\ interfaces[n].NDP = "relay"

\* Hosts resolved before an interface was opened (seed) or while its events were
\* dropped (unknown index, mode disabled) are known once the events are handled.
LearnedThroughLifecycle ==
  phase = "idle" /\ neighCh = << >> => \A h \in Hosts : \A n \in registered :
    interfaces[n].ndp # NoIdx /\ interfaces[n].ndp = OnLink(h) /\ neigh[h] = "resolved"
      => <<h, OnLink(h)>> \in mirroredNeighs

\* Between closures, a route or proxy entry on a link has a mirrored host behind it.
NothingLeftBehind ==
  phase = "idle" =>
    /\ \A h \in Hosts : route[h] # NoIdx => <<h, route[h]>> \in mirroredNeighs
    /\ \A p \in proxy : p[2] # NoIdx => \E k \in mirroredNeighs : k[1] = p[1] /\ k[2] # p[2]

Installed(h, n) ==
  /\ \A c \in Targets(n) : LinkUp(interfaces[c].Ifindex) => <<h, interfaces[c].Ifindex>> \in proxy
  /\ interfaces[n].LearnRoutes => route[h] = interfaces[n].Ifindex

\* With nothing left to handle, a host that is resolved on an open interface has
\* its route and its proxy entry on every master link that is up.
InstalledWhenSettled ==
  Settled => \A h \in Hosts : \A n \in registered :
    interfaces[n].ndp # NoIdx /\ interfaces[n].ndp = OnLink(h) /\ neigh[h] = "resolved"
      => Installed(h, n)

-----------------------------------------------------------------------------
(* Liveness.                                                               *)

\* A registered interface whose link is up for good is served in the end, whatever
\* stale link events (of its predecessor, or of its own way up) and reloads are still
\* on their way, as long as the monitor lives.
LinkUpServed ==
  \A n \in Names :
    <>[](monitor /\ n \in registered /\ interfaces[n].NDP = "relay"
         /\ \E d \in Devs : interfaces[n].Ifname = d /\ dev[d].running)
    => []<>(\E d \in Devs : interfaces[n].Ifname = d /\ interfaces[n].ndp = dev[d].ix)

\* Routes of a previous process whose host is gone are found by the sweep, with or
\* without a monitor, as long as the interface is configured and learns routes.
LeftoverRouteReaped ==
  \A h \in Hosts :
    <>[](neigh[h] # "resolved" /\ \E n \in registered :
           /\ interfaces[n].Ifname = Behind[h] /\ interfaces[n].NDP = "relay"
           /\ interfaces[n].LearnRoutes /\ interfaces[n].Ifindex = OnLink(h) /\ OnLink(h) # NoIdx)
    => <>[](route[h] = NoIdx)
=============================================================================
