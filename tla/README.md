# A TLA+ verification of ipv6-relay

ipv6-relay is a Go daemon that relays Router Advertisements, DHCPv6 and Neighbor
Discovery between an upstream (master) link and downstream (slave) links.  Packet
forwarding keeps little state; what is hard to get right is the state around it: the
mirror of neighbours into the kernel's proxy-NDP and route tables, interfaces whose
links are replaced while a reload is under way, timers and readers that outlive what
they were started for, and the one event loop everything goes through.  This project
models them, and the forwarding of packets through them, and says what holds.

## The system

| part | state | operations | interacts through |
|---|---|---|---|
| engine (`engine.go`) | channel of 1024 closures | `Post`, `Run` | everything posts to it; all state below is touched only by its goroutine |
| `main.go` | signal channel of 4, `done` | startup, SIGHUP → `Reload`, SIGINT/SIGTERM → exit | posts to the engine, then *becomes* it |
| netlink monitor (`netlink.go`) | four subscriptions, one goroutine, a sweep timer | forwards link/addr/neigh/route events; sweep every 300 s | posts handlers |
| NDP mirror (`netlink.go`, `ndp.go`) | `mirroredNeighs`, `reconcileScheduled`, each interface's `Addr6` and cached link-local address; in the kernel: proxy entries, /128 routes of metric 1024, `proxy_ndp` | `handleNeighEvent`, `handleAddrEvent`, `handleRouteEvent`, `reconcileKernelState`, `sweepFailedAndOrphans`, `handleSolicit`/`relayPing` | netlink and sysctl; its own changes come back as events |
| router service (`router.go`) | socket, `raSent`, `rsTimer`, `rsTimerN` per interface | `routerSetup`, `solicitTimerFire`, RS/RA forwarding | timers post closures over the `*Interface` |
| DHCPv6 service (`dhcpv6.go`) | socket | wrap client messages, unwrap replies | interface-id option carries the ifindex |
| configuration (`config.go`, `iface.go`) | the map `interfaces` | `Reload`, `parseInterfaceJSON`, `closeInterface`, `reloadServices` | restarts all services, clears mirrors |
| sockets (`rawsock.go`, read loops) | descriptors, `done` channels | readers post packets | stale sockets recognised by pointer comparison |
| logging, CLI, systemd unit | – | – | – |

The hard behaviours, and the property each calls for:

- *The kernel moves on while events wait.*  An event is handled after the entry or
  address it speaks of has changed again, and the daemon's own deletions generate
  further events.  A resolved host must end up mirrored (`LearnedWhenDrained`), a
  forgotten one must leave nothing behind (`NoLeak`), cached addresses must be
  stale only while an event is queued (`AddrViewFresh`).
- *A network manager flushes routes and resets sysctls* in any order relative to
  the debounce timer: holes are covered by a pending reconcile (`MirrorIntact`,
  `OneReconcile`) and closed (`FlushHealed`).
- *Departure is silent*: state of hosts that are gone must still go
  (`DepartedReaped`).
- *Timers outlive what they were armed for*: old generations and old interface
  objects must neither solicit nor disturb the current one (`OneLiveTimer`,
  `KeepsPromise`, `ClosedFallsSilent`) and failures must not end the chain
  (`SolicitsAll`).
- *The channel fills up, signals are dropped*: `BoundedBacklog`, `NoReloadLost`,
  `HupServed`, `TermServed`, `SweepRecurs`.
- *Links change under the daemon*, between the steps of a reload and while events of
  the old link are queued: sockets, bookkeeping and kernel state must follow
  (`SocketsCurrent`, `NothingLeftBehind`, `LearnedThroughLifecycle`,
  `InstalledWhenSettled`, `LinkUpServed`).
- *The process is restarted or loses its netlink subscriptions*, at any moment:
  `LeftoverRouteReaped`.
- *Descriptor numbers are reused* while a reader still has the old one:
  `DescriptorsOwned`, `RelayedFromOwnSocket`, `OneLatePacket`, `LiveSocketRead`.
- *Frames arrive while a socket is being set up*: `OnlySolicitations`.
- *The daemon hears itself*: its probes and its Relay-Forwards come back to it
  (`ProbesEnd`, `TargetFound`, `LoopsEnd`).
- *A reply finds other interfaces than its request left*: `HandledInRole`,
  `ReplyGoesBack`, `RequestRelayed`.
- *One packet for several slaves*: `OwnMAC`, `SolicitationAnswered`.
- *A copied address list grows old*, with 32-bit times: `PicksAsDocumented`,
  `SourceAssigned`.

`PROJECT.json` lists the hazards line by line, covered or not.

## Modules

**Kernel** (external) is what the daemon relies on of Linux: the NUD state of each
real neighbour entry, addresses with their tentative phase, the one metric-1024
route per destination, proxy entries, `proxy_ndp`, and the events still queued for
the daemon, in order per address and link.  `RTM_DELROUTE` events are a set of
links, since `handleRouteEvent` looks at nothing else of them.  Actions: hosts
come, go and move; entries are looked up, answered, age, are probed, fail, are
garbage-collected; addresses come and go; a network manager deletes a route and
resets `proxy_ndp` with it.

**Mirror** extends it with the daemon.  Each action is one closure on the engine
goroutine and hence atomic to the other handlers; everything in Kernel interleaves
with them.  `MirrorAdd(M)` and `MirrorDel(M)` are `ndpMirrorAddr` over a set of
⟨address, interface⟩ pairs, so that the reconcile and the sweep, which loop over
Go maps in random order, are one step with the nondeterminism where the order shows
(two links claiming one address: any may win the route).

| action | code |
|---|---|
| `HandleNeighEvent` (`NeighIgnored`, `NeighAppears`, `NeighGone`) | `handleNeighEvent`, `deleteFailedNeigh` |
| `HandleAddrEvent` | `handleAddrEvent` with the refresh |
| `HandleRouteEvent`, `ScheduleReconcile` | the same names |
| `Reconcile` | the timer's closure and `reconcileKernelState` |
| `Sweep` | `sweepFailedAndOrphans` over all interfaces, with probes and reaps |
| `HandleSolicit` | `handleSolicit` and `relayPing` |

Init is the state after a `Reload` with all links up and an empty neighbour cache;
every configuration in `Configs` is started from, and the mode of a master without
slaves is disabled as `Reload` does.  The own addresses present at that point are
*not* mirrored: only `handleAddrEvent` and the reconcile do that in the code too.
The debounce delay is the gap between arming (`pendingReconciles` goes up) and
`Reconcile`; the time a fired timer spends in the engine's backlog is part of it.

**SolicitBudget** is the abstract promise of the router-solicitation machinery:
the router service runs in sessions, every (re)start is a session of its own with
three solicitations, and whatever goes out comes from the session that runs.
**Solicit** is the machinery, for one config name: `routerSetup` with its failure
path, its callers (`Reload` keeping, creating and closing an interface; link
toggled, deleted, replaced), `time.AfterFunc` timers that become closures in the
backlog where `Timer.Stop` no longer reaches them, and `solicitTimerFire`.  The
objects matter: closures capture the `*Interface`, and a name that is dropped and
added again is a new object whose generations start over.  A session is an object and
a generation of it; `wire` is the one whose closure put a solicitation on the link in
the last step, whoever that was, so that one sent by a closed, disabled or superseded
session is a step SolicitBudget does not allow.

**Engine** is the channel, main's startup order, the signal goroutine, the netlink
monitor, the sweep chain and a socket reader.  A Go channel serves blocked senders
first come first served, so channel and blocked senders are one queue and a sender
is blocked while its closure is beyond the capacity.  Closures are identified by
their sender; only `Reload` has an effect here, through versions of the config
file.

**Relay** composes configuration, link events, the NDP service and the mirror over
the life of an interface: created, relinked, disabled, closed, the process restarted.
It has the netdevs with their indexes (never reused, as in Linux), a neighbour entry
per host reduced to none, resolved and failed, the kernel's tables, the three event
queues and the config file.  `Reload` and the rest of a link handler are several
steps (`phase`, `todo`), because they look the kernel up repeatedly while it moves;
no other handler runs in between.

| action | code |
|---|---|
| `ReloadStart`, `ParseInterface`, `ReloadModes`, `ApplyInterface` | `Reload`, `loadConfigJSON`, `parseInterfaceJSON`, the two passes over the modes, and `reloadServices` or `closeInterface` per interface in any order |
| `HandleLinkEvent` (`LinkIgnored`, `HandleLinkDeleted`, `HandleLinkToggled`, `HandleLinkReplaced`) | `handleLinkEvent`; the `reloadServices` at its end is an `ApplyInterface` |
| `Detach` | `disableServices` and `clearMirroredState` |
| `NdpSetup`, `NdpDisable`, `Seeded` | `ndpSetup`, `seedMirroredNeighbors` |
| `HandleNeighEvent`, `HandleRouteEvent`, `Reconcile`, `Sweep`, `HandleSolicit` | as in Mirror, on hosts only |
| `Restart`, `SubscriptionEnds` | the process ends, also in the middle of a closure or a ping, and is started again; the monitor goroutine returns |

**Readers** is one level below: the fields `router`, `dhcp` and `ndp` of an interface,
descriptor numbers, kernel sockets, and the read loops.  A system call looks its
number up when it is entered and holds the kernel socket from then on, so closing a
descriptor neither wakes nor redirects a reader that is inside; one that is between
its look at `done` and the call may find another socket.  The setup functions are one
step per descriptor opened or closed and may fail at each; those of `ndpSetup` also
attach the two filters and drain the capture socket, with a frame arriving between any
two system calls.

**Probe** is the exchange `handleSolicit` sets off: a ping on every other interface,
the kernel's own solicitations for it, which an `ETH_P_ALL` socket captures as well,
and the FAILED entry at the end.  On a slave the relay's own solicitations are known by
the MAC address; while that cannot be read they are relayed.

**Dhcpv6** follows messages, as stacks of relay envelopes, from a client through the
relay to a server and back, over a network that loses, repeats, reorders and loops
them, while reloads and link events change the interfaces.  **Forward** is RS and RA
forwarding with packets as sequences of options.  **Addresses** is the address list
of one interface, with absolute lifetimes in a small word.

The modules do not share variables: all of them take from Engine that handlers are
atomic and that closures run in the end, which Engine's `HupServed` and `SweepRecurs`
show for its own senders.

The modules `MC_*` hold the values of the constants.  Operators marked
*Fault* are deliberate deviations used to see that each property can fail; no
specification uses them.

## Runs

All passing runs finish in under five minutes with two workers.  Liveness properties are
checked together with the invariants of a component, on one instance.

| run | instance | distinct states | shows |
|---|---|---|---|
| `mirror` | 2 links, 1 host behind lan, 6 configurations, 2 queued events per key, fairness | 47,636 | `MirrorIntact`, `NoLeak`, `OneReconcile`, `LearnedWhenDrained`, `FlushHealed`, `DepartedReaped` |
| `mirror_own` | 2 links, a global and a link-local own address on lan, 4 configurations | 36,918 | `TypeOK`, `AddrViewFresh`, `NoLeak` |
| `solicit` | 2 objects, 2 timers, 2 generations each, fairness | 273,563 | `TypeOK`, `OneLiveTimer`, `KeepsPromise`, `SolicitsAll`, `ClosedFallsSilent` |
| `engine` | channel of 2, signal buffer of 2, 2 edits, fairness | 270,029 | `BoundedBacklog`, `NoReloadLost`, `HupServed`, `TermServed`, `SweepRecurs` |
| `relay_life` | 2 netdevs, 1 host, lan in the config or not; lan's link goes down and is replaced | 1,744,036 | `SocketsCurrent`, `LearnedThroughLifecycle`, `NothingLeftBehind` |
| `relay_live` | one config, lan's link replaced; restarts and a monitor that ends, fairness | 505,884 | `InstalledWhenSettled`, `LinkUpServed`, `LeftoverRouteReaped` |
| `readers` | a router and an ndp slot, 2 objects, 3 descriptor numbers, fairness | 514,299 | `DescriptorsOwned`, `RelayedFromOwnSocket`, `OneLatePacket`, `OnlySolicitations`, `LiveSocketRead` |
| `probe` | 1 master, 2 slaves, 2 host solicitations, 2 tries, 2 failing reads of a MAC address, fairness | 71,086 | `ProbesEnd`, `TargetFound` |
| `dhcpv6` | 2 interfaces, 3 links, hop limit 2, fairness | 62,479 | `HandledInRole`, `ReplyGoesBack`, `LoopsEnd`, `RequestRelayed` |
| `forward` | 1 master, 2 slaves, 2 shapes of advertisement, fairness | 37,032 | `OwnMAC`, `SolicitationAnswered` |
| `addresses` | 2 global and 1 link-local address, largest word 7, clock to 3 | 685,809 | `PicksAsDocumented`, `SourceAssigned` |
| `claim_reply_to_peer` | as `dhcpv6` with hop limit 1 | – | `ReplyReachesPeer` is violated |

Bounds.  *MaxQueue = 2* kernel events per key leaves room for an event that is out
of date and the one that supersedes it; the daemon's own deletions go past the bound (they
are not throttled), so queues of four occur.  One host is enough for per-host
properties, as hosts share no daemon state but the reconcile flag; the theorems
below hold for any number, `SettledHostsStayIntact` also beside hosts that roam.  *Two objects, two generations* are the smallest case in
which a closure of an old object or generation meets a current one; *two timers*
let a stale chain of re-armed timers run beside the current one if the generation did not stop it.  *A channel of two with five senders* is full with up to five blocked.
In Relay *one new index* is one replacement of lan's link, with up to two link events
waiting and two neighbour events (one in `relay_live`): enough for the deletion of the
old link to be handled after a reload has found the new one, for the new link to be up
while the event that announced it without a carrier is still queued, and for a
neighbour event to meet either index.  `relay_live` never sets a link down by itself:
see the second departure from the source below.  *Two failing reads* of a MAC address
let each slave relay an own probe once, or one slave twice.  *Two
socket objects over three numbers* are the smallest case in which a number changes
hands between an ndp socket (two descriptors) and another.  *Hop limit 2* lets a
message loop twice and be stopped; the network holds one message at a time and loses
the old one, or delivers it any number of times, when another is sent.  In Addresses the assigned lifetimes 1 and 6 around
a clock of 1 to 3 end before, at and past the largest word.

Deadlock is checked in the runs of Mirror and Solicit.  In the others the system may
stop: the process has exited (Engine), or the bounded supply of packets, link indexes,
socket objects or time is used up.  Where a bound is exhausted nothing is hidden from the invariants; the
guards on bounds only cut kernel actions, restarts (`MaxSetups`) and edits.

Fairness.  The engine goroutine runs its closures and none of them blocks, so each
handler with an event queued is weakly fair, and so are the debounce and sweep
timers.  For the kernel: REACHABLE entries age and started resolutions end (both
driven by kernel timers).  Nothing is assumed of hosts, traffic, garbage
collection, the network manager, signals, or packets.  In Solicit timers fire and
posted closures run.  In Relay a started reload goes on, and link events and the sweep
are *strongly* fair: the engine takes closures in the order they were posted, so a
queued event is never passed over for ever in favour of further reloads, although
it cannot be taken in the middle of one.  The Readers' goroutines are scheduled, and a
blocked `recvmsg` with packets waiting returns one in the end even if signals interrupt
it again and again (strong fairness of `Receive`).  In Probe the kernel's retransmit
timers run and a target that is there answers; in Forward the router upstream answers;
in Dhcpv6 only the engine is fair.  That reading a MAC address fails finitely often
(`MaxFails`) is an assumption of `ProbesEnd`: with every lookup failing the probes of two
slaves would answer each other as those of two masters do.

### Departures from what the source says

One is refuted by a run of its own: `claim_reply_to_peer`.  `relayServerResponse` reads
the destination of a reply from bytes 2 to 17 of the relay header, where by the layout it
quotes (dhcpv6.go:179) the link address is and not the peer address, so replies do not go
to who sent the request.

The others were met while modelling.  They are not failures of the properties above, which
state what the code does keep; each bounds one of them.

| what the source says | what the code does |
|---|---|
| only NUD_FAILED reaps a mirror; garbage collection leaves it (netlink.go:438-441) | the sweep's orphan pass reaps it after a plain garbage collection |
| re-enabling an interface mirrors the resolved hosts at once (netlink.go:617-621) | the key of a host whose route failed while the link was down is kept, so the seed skips it (`InstalledWhenSettled` with `Bouncing = {"eth1"}`) |
| a replaced link is replaced as one lifecycle change (netlink.go:373-375) | a replaced master never gets the proxy entries of the slaves' hosts (`InstalledWhenSettled` with `Replaced = {"eth0"}`) |
| a mirror lasts until its own entry fails (netlink.go:437-439) | a host moves from one slave to another; the old link's FAILED deletes the proxy entry both mirrors share, and nothing restores it (`MirrorIntact` with an address behind two links) |
| the reconcile changes something only if something external did (netlink.go:291-293) | the sweep takes the machine's own addresses for orphans, its deletion schedules a reconcile, which re-installs them; every 300 s |
| `proxy_ndp` stays enabled, periodically re-asserted (ndp.go:49-50) | a reset while there is no host route is not noticed for hosts already mirrored |
| the sweep catches orphaned routes and proxy entries (netlink.go:102-104) | with `ndproxy_routing` off there is no route, and the sweep walks routes; routes installed before it was switched off are not removed either |
| only interfaces no longer in the config are dropped (config.go:264-266) | a netdev missing during the reload has its interface closed |
| master relay is disabled if there is no slave (config.go:222-224) | slaves closed by the same reload still count |
| `closeInterface` tears down and forgets (config.go:185-186) | keys, routes and proxy entries stay, together (`NothingLeftBehind`) |
| the config is re-read from scratch, master defaults to false (config.go:222, README.md:69) | an entry without `master` keeps the old role |
| the key of an entry is just a name (README.md:64) | after a rename the old interface, if closed last, switches `proxy_ndp` off |
| the ping's route is temporary (ndp.go:290-292) | a process that ends during the ping leaves it (`Restart`) |
| a later link-up event can find and enable the interface (config.go:265-266) | not after one of the four subscriptions has ended (`LinkUpServed` without its condition on `monitor`) |
| no stray frames at startup (ndp.go:142-143) | frames other than solicitations are kept out (`OnlySolicitations`), solicitations of other links come in between filter and bind |
| an RA received on the master is relayed (router.go:225-226) | so is one received on a slave |
| `Post` is safe from the engine goroutine itself (engine.go:20-21) | main posts before it runs the loop; with the channel full it would block for ever |

The second in detail, as TLC finds it in 16 steps with `Bouncing = {"eth1"}`: a host
answers on lan and lan loses its carrier, both events wait while the first reload runs;
`handleNeighEvent` sets the key, and `RouteReplace` fails because the link is down; the link
comes up and the host answers again; `handleLinkEvent` enables the interface and the seed
passes over the host because of its key, and so does the handler of the second neighbour
event.  Nothing is left to handle and there is no route.

## Proofs

Checked by TLAPS for every value of the constants (any links, hosts, addresses,
config files, objects, timers, descriptors, capacities) under the assumptions
`KernelAssumption`, `MirrorAssumption`, `SolicitAssumption`, `EngineAssumption`,
`Dhcpv6Assumption`, `ReadersAssumption`, `AddressesAssumption`, `ForwardAssumption` and
`RelayAssumption`, which TLC evaluates in the runs.  The assumption on link indexes in Mirror (config names have
different ones) excludes two config entries naming one netdev.  Each inductive invariant below was a TLC invariant of
the component's runs before it was proved.

- `MirrorProofs`: `TypeCorrect`, `ReconcileIsSingle`.  `AddrViewIsFresh` needs more
  than itself: that the *last* queued event of an address tells its present state
  (`AddrLast`), and that the configuration is static.  `ResolvedIsMirrored` rests
  on the like fact for neighbours: the last queued event of a resolved entry is a
  resolved one (`NeighLast`), also after the daemon's own deletions.
  `NothingLeaks` goes through `NoLeakInv`, which says of every
  route and proxy entry which mirrored host, address or queued event justifies it,
  and that mirrored hosts are on relay links (or the sweep could not reach them).
  `SettledHostsStayIntact`, that every flush leaves a repair pending, holds of each
  mirrored host that can be behind one link only (`Stays`), whatever the others do:
  entries of such a host elsewhere are never resolved and never mirrored (`HomeInv`), so a
  deletion for another link is always one for another address.  For the roaming host
  itself it is false (see above).  `MirrorStaysIntact` is the case in which all hosts
  stay (`SingleHomed`).
- `SolicitProofs`: with `Inv` (types, `OneLiveTimer`, `ClosuresOK`: closures
  have different timers, belong to allocated objects and to generations not above
  the object's, and `ObjectsOK`: only the registered object solicits) `TimerIsUnique` and
  `SolicitTypeCorrect` follow, and each step maps to a step or a stutter of
  `SolicitBudget` (`BudgetIsKept`): a closure that passes the guard of
  `solicitTimerFire` belongs to the current session (`FireRefines`), and a setup opens
  one that never ran (`SetupRefines`).
- `EngineProofs`: `BacklogIsBounded` (strengthened with what a sender blocked in `Post`
  may not do), `ReloadIsNotLost`; both rest on the types (`EngineTypeCorrect`).
- `Dhcpv6Proofs`: `RoleIsKept`, `RepliesGoBack` and `LoopsAreCut`, from one invariant.
  A posted packet carries the socket it was read from and the generation of that socket;
  `ClosureOK` says that as long as the generation is the current one, the interface still
  has the role and the link the socket was opened for, which is why a packet that outlives
  a reload is either dropped or handled as it would have been.  `UpstreamOK` says of every
  message sent to a server that its hop count accounts for the envelopes inside it
  (`Counted`) and that the outermost one is this relay's own (`Own`); the first bounds a
  loop by the hop limit, the second sends the reply back to the link it came from.
- `ReadersProofs`: `ReadersTypeCorrect`, `DescriptorsAreOwned`, `NothingFromReusedNumbers`,
  `LateReadersStop`, `CaptureIsClean`.  The heart is `FilesOwned`: a number is open exactly
  if the object it was opened for is in a slot or in the hands of the setup that opened it,
  with one exception, the number a teardown has closed while the ping socket beside it is
  still open (`JustClosed`).  `ReadingOK` allows a reader of a *replaced* object to be in
  `recvmsg` on somebody else's socket, since its number may have been used again; what
  keeps such a packet out is that `done` of the old object is closed before its number
  (`EngOK`), so the reader can post at most one packet more (`LateOK`) and the engine finds
  the object no longer in its slot (`PostedOK`).  `StrayOK` is the order of filter, drain
  and second filter in the capture's setup.
- `AddressesProofs`: `SourceIsAssigned`, because the cache is emptied with every new list,
  a failing dump leaves a list with nothing to take a source from (`CacheOK`), and any
  other list with no event waiting agrees with the kernel's (`CopyOK`).
  `LifetimesAreExact` is the arithmetic under `PicksAsDocumented`: the tests of
  `relayLinkAddress` on the copy's absolute times give what the kernel's times would, since
  a saturated sum stands for ends the clock does not reach and a time in the past for any
  end before it (`Stands`), and no lifetime with an end reads as one without (`EndsOK`).
  `LinkAddressIsRight` is `PicksAsDocumented` itself.  The loop's invariant, `BestOf`, says
  after each round that `best` is a usable address of the part walked that is preferred or,
  if none there is, outlasts the others (or that nothing there is usable);
  `RoundKeepsBest` carries it
  from round to round, and at the end of the list it is the documented choice.
- `ForwardProofs`: `SlavesSeeTheirOwnMAC`.  The received packet is read once for every
  slave, between calls that may find a slave's address or not; `BufferOK` says that as long
  as slaves are left it still is what the router sent, because each patch is made in a
  private copy.  `FixIsAfter` is what the patch does to options of any number: the
  addresses of the options before the first that cannot be followed are replaced, and
  nothing else.
- `RelayProofs`: `RelayTypeCorrect` and `SocketsStayCurrent`, for `FaultySpec`, that is with
  restarts of the daemon and with subscriptions that end.  A reload takes several steps, so
  the property is strengthened to the interfaces the closure in progress has dealt with
  (`Ready`, `ReadyOK`); `DaemonOK` says what is left to do between the steps, and `IndexOK`
  that the kernel never gives the index of one netdev to another, or an interface whose
  link was replaced could not be told from one that was not.

  The rest of the module is what the lifecycle does to the mirror.
  - `HostsAreLearned` (for `FaultySpec`, if no file has two entries for one netdev,
    `OneNamePerDev`): a host that is resolved on a link being captured is known or a
    resolved event of it is queued (`LearnOK`).  With two entries the detaching of one drops
    the keys the other relies on.
  - `NothingIsLeftBehind` (for `Spec`, with `StableUpstream` and `RoutesLearned`): every
    route and proxy entry has its key (`LeftOK`), so a sweep will reach it.  `StableUpstream`
    says that every entry states its role and the files agree on the masters, whose netdevs
    are not replaced: `MastersOK` follows the masters through each step of a reload.  A master
    that changes leaves proxy entries on a link the daemon no longer looks at.
    `RoutesLearned` is `ndproxy_routing` on: without routes the sweep finds nothing.  It
    cannot hold for `FaultySpec`: a restart forgets all keys, and `LeftoverRouteReaped` is
    what is left to say.
  - `InstalledInTheEnd` (for `FaultySpec`, with all three and `Bouncing = {}`): a key means
    that route and proxy entries are there (`KeysOK`), because a mirrored host's interface
    is on the host's present link (`CurrentLinks`) and an event of that link is handled
    while it has a carrier (`EventsOK`).  Links that lose their carrier and get it back are
    excluded because there the key of a host whose route failed in between is kept (see
    above); links that are removed and come back under another index are not.

  Every hypothesis is one of the config files or the netdevs, met by the instances of the
  runs (`relay_life` meets those of the first two, `relay_live` all).

What the two loops compute is shown by induction over their rounds.  The provers cannot
instantiate an induction theorem that takes a predicate, so the induction is by least
counterexample: if the loop's invariant failed in some round it would fail in a first one
(`LeastElement`, from the well-foundedness of `<`), which is not round 0 and whose
predecessor contradicts the lemma on one round.  `LoopHasHistory` and
`WalkEquation` show that the recursive function each loop is written as exists.

With this, every invariant of a passing run is a theorem, with the hypotheses named above
where it needs them.  Only model-checked: the
liveness properties, which need fairness, and so all of Probe; and the refutation.

## Not modelled

Failures of single netlink or sysctl writes other than those a missing or downed link
causes (logged and ignored by the code), and of reads: an address dump that fails is in
Addresses only, Mirror's always work (a failing one leaves `Addr6` empty, which
`AddrViewFresh` would not allow), and `ndpSetup` in Relay fails only with its link;
config entries without `ifname` (config.go:121-125: a new one is refused, a known
interface keeps its link);
the scan of the sweep as several system calls
(the races between listing an entry and deleting it are the ones `HandleNeighEvent`
already has); a machine's own addresses across link changes (Mirror has them with the
links up, Relay has hosts only); two config entries for one netdev; the link a frame on
a capture socket that is not bound yet came from; the bytes of packets, so malformed DHCPv6 options and short
packets, which the handlers drop; negative lifetimes, all ones in a 32-bit `int`, which
`lifetimeAbs` takes for all ones (config.go:94); the router socket before its ICMP6_FILTER (in Readers it never has
another packet); a reader that has taken a packet and waits in `Post` (in Readers it takes
the packet when there is room, so a full engine channel delays it but is not told apart
from a slow reader; Engine has the blocked sender); `log_level`, logging, control-message and socket-option
wrappers, CLI and deployment files.

With two masters the probes of Probe keep each other going for an absent target
(`ProbesEnd` fails); the repository does not speak of the case.

## Left to do

A refinement from Relay's mirror to Mirror's for fixed links.  The two differ in what a
neighbour entry is (reduced to three states in Relay) and in when a reload looks at the
kernel, so that it needs a mapping of the queued events as well; what it would add is
that Mirror's theorems hold between two link changes, and Relay's own theorems say the
most important of it.
