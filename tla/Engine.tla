------------------------------- MODULE Engine -------------------------------
(***************************************************************************)
(* The event loop of internal/relay/engine.go and the goroutines that feed *)
(* it: main (cmd/ipv6-relay/main.go), its signal handler, the netlink      *)
(* monitor and the sweep timer (netlink.go), and a socket reader.          *)
(*                                                                         *)
(* A closure is identified by the goroutine that posts it, which says what *)
(* it does.  The channel and the senders blocked on it are one queue: a Go *)
(* channel serves blocked senders in the order they arrived, so a sender   *)
(* is blocked exactly while its closure is beyond the channel's capacity.  *)
(***************************************************************************)
EXTENDS Naturals, Sequences

CONSTANTS
  Capacity,     \* of the channel events (1024)
  SigBuffer,    \* of the channel sigCh (4)
  MaxVersion    \* bound: edits of the config file

ASSUME EngineAssumption ==
  Capacity \in Nat \ {0} /\ SigBuffer \in Nat \ {0} /\ MaxVersion \in Nat

Senders == {"main", "signals", "monitor", "sweep", "reader"}
Signals == {"HUP", "TERM"}      \* TERM is also SIGINT

VARIABLES
  pc,           \* main: "subscribed", "notified", "posted", "running", "exited"
  queue,        \* posted closures, by sender; the first Capacity are in the channel
  sigCh,        \* signals delivered to the process and not yet received
  monitor,      \* the monitor goroutine: "selecting" or "returned"
  sweep,        \* the sweep timer: "armed" or "posting"
  file,         \* version of the config file
  asked,        \* the version the last SIGHUP was about
  loaded        \* the version Reload last read

vars == <<pc, queue, sigCh, monitor, sweep, file, asked, loaded>>

TypeOK ==
  /\ pc \in {"subscribed", "notified", "posted", "running", "exited"}
  /\ queue \in Seq(Senders)
  /\ sigCh \in Seq(Signals) /\ Len(sigCh) <= SigBuffer
  /\ monitor \in {"selecting", "returned"}
  /\ sweep \in {"armed", "posting"}
  /\ file \in 1..MaxVersion + 1
  /\ asked \in 0..file
  /\ loaded \in 0..file

\* StartNetlinkMonitor has returned.
Init ==
  /\ pc = "subscribed"
  /\ queue = << >>
  /\ sigCh = << >>
  /\ monitor = "selecting"
  /\ sweep = "armed"
  /\ file = 1
  /\ asked = 0
  /\ loaded = 0

-----------------------------------------------------------------------------
(* Post.  A goroutine goes on once its closure is in the channel.          *)

Blocked(s) == \E i \in 1..Len(queue) : i > Capacity /\ queue[i] = s

Post(s) == queue' = Append(queue, s)

-----------------------------------------------------------------------------
(* main.                                                                   *)

Notify ==
  /\ pc = "subscribed"
  /\ pc' = "notified"
  /\ UNCHANGED <<queue, sigCh, monitor, sweep, file, asked, loaded>>

PostReload ==
  /\ pc = "notified"
  /\ Post("main")
  /\ pc' = "posted"
  /\ UNCHANGED <<sigCh, monitor, sweep, file, asked, loaded>>

EnterRun ==
  /\ pc = "posted"
  /\ ~Blocked("main")
  /\ pc' = "running"
  /\ UNCHANGED <<queue, sigCh, monitor, sweep, file, asked, loaded>>

\* One turn of Run; only Reload is told apart here.
Step ==
  /\ pc = "running"
  /\ queue # << >>
  /\ queue' = Tail(queue)
  /\ loaded' = IF Head(queue) \in {"main", "signals"} THEN file ELSE loaded
  /\ UNCHANGED <<pc, sigCh, monitor, sweep, file, asked>>

-----------------------------------------------------------------------------
(* Signals.  The runtime drops one that finds sigCh full.                  *)

Signal(sig) ==
  /\ pc \in {"notified", "posted", "running"}
  /\ sigCh' = IF Len(sigCh) < SigBuffer THEN Append(sigCh, sig) ELSE sigCh
  /\ asked' = IF sig = "HUP" THEN file ELSE asked
  /\ UNCHANGED <<pc, queue, monitor, sweep, file, loaded>>

\* Fault: the reload is posted only if the channel has room.
PostIfRoom(s) == queue' = IF Len(queue) < Capacity THEN Append(queue, s) ELSE queue
PostSignal(s) == Post(s)

HandleHup ==
  /\ Head(sigCh) = "HUP"
  /\ PostSignal("signals")
  /\ UNCHANGED pc

\* Fault: the exit waits for the backlog to drain.
HandleTermDrained ==
  /\ Head(sigCh) = "TERM"
  /\ queue = << >>
  /\ pc' = "exited"
  /\ UNCHANGED queue
HandleTerm ==
  /\ Head(sigCh) = "TERM"
  /\ pc' = "exited"
  /\ UNCHANGED queue

HandleSignal ==
  /\ pc # "exited"
  /\ sigCh # << >>
  /\ ~Blocked("signals")
  /\ sigCh' = Tail(sigCh)
  /\ HandleHup \/ HandleTerm
  /\ UNCHANGED <<monitor, sweep, file, asked, loaded>>

-----------------------------------------------------------------------------
(* The other senders.                                                      *)

\* An update of any of the four subscriptions.
\* Fault: each update is posted from a goroutine of its own.
ForwardAsync ==
  /\ pc # "exited"
  /\ monitor = "selecting"
  /\ Post("monitor")
  /\ UNCHANGED <<pc, sigCh, monitor, sweep, file, asked, loaded>>
Forward ==
  /\ pc # "exited"
  /\ monitor = "selecting"
  /\ ~Blocked("monitor")
  /\ Post("monitor")
  /\ UNCHANGED <<pc, sigCh, monitor, sweep, file, asked, loaded>>

\* A subscription breaks off and its channel is closed; none is renewed.
SubscriptionEnds ==
  /\ pc # "exited"
  /\ monitor = "selecting"
  /\ ~Blocked("monitor")
  /\ monitor' = "returned"
  /\ UNCHANGED <<pc, queue, sigCh, sweep, file, asked, loaded>>

\* startMirrorSweep: the timer is armed again when Post has returned.
Tick ==
  /\ pc # "exited"
  /\ sweep = "armed"
  /\ Post("sweep")
  /\ sweep' = "posting"
  /\ UNCHANGED <<pc, sigCh, monitor, file, asked, loaded>>

\* Fault: the timer is armed again only if the channel has room at once.
RearmIfRoom ==
  /\ pc # "exited"
  /\ sweep = "posting"
  /\ Len(queue) < Capacity
  /\ ~Blocked("sweep")
  /\ sweep' = "armed"
  /\ UNCHANGED <<pc, queue, sigCh, monitor, file, asked, loaded>>
Rearm ==
  /\ pc # "exited"
  /\ sweep = "posting"
  /\ ~Blocked("sweep")
  /\ sweep' = "armed"
  /\ UNCHANGED <<pc, queue, sigCh, monitor, file, asked, loaded>>

\* A packet arrives on an open socket: sockets are opened by the first Reload.
Receive ==
  /\ pc # "exited"
  /\ loaded > 0
  /\ ~Blocked("reader")
  /\ Post("reader")
  /\ UNCHANGED <<pc, sigCh, monitor, sweep, file, asked, loaded>>

EditConfig ==
  /\ file <= MaxVersion
  /\ file' = file + 1
  /\ UNCHANGED <<pc, queue, sigCh, monitor, sweep, asked, loaded>>

Main == Notify \/ PostReload \/ EnterRun \/ Step

Next ==
  \/ Main
  \/ \E sig \in Signals : Signal(sig)
  \/ HandleSignal
  \/ Forward \/ SubscriptionEnds
  \/ Tick \/ Rearm
  \/ Receive
  \/ EditConfig

Spec == Init /\ [][Next]_vars

\* Goroutines are scheduled, closures return and the sweep timer fires.  What
\* comes from outside (signals, updates, packets, edits) owes nothing.
Fairness == WF_vars(Main) /\ WF_vars(HandleSignal) /\ WF_vars(Tick) /\ WF_vars(Rearm)

FairSpec == Spec /\ Fairness

-----------------------------------------------------------------------------
\* However far the loop is behind, a goroutine has at most one closure waiting
\* outside the channel, so the backlog is bounded and the goroutine's closures
\* are run in the order it posted them.
BoundedBacklog ==
  \A i, j \in 1..Len(queue) : i > Capacity /\ j > Capacity /\ queue[i] = queue[j] => i = j

\* A SIGHUP that is dropped costs nothing: as long as the version it was about is
\* not loaded, a reload that will read it, or the exit, is on its way.
NoReloadLost ==
  asked > loaded =>
    \/ pc = "exited"
    \/ sigCh # << >>
    \/ \E i \in 1..Len(queue) : queue[i] \in {"main", "signals"}

\* Once the loop runs, a SIGHUP about a version is followed by a load of it or of
\* a later one, with senders blocked on a full channel meanwhile.
HupServed ==
  \A v \in 1..MaxVersion + 1 :
    (pc = "running" /\ asked = v) ~> (loaded >= v \/ pc = "exited")

\* A SIGTERM that got into sigCh ends the process, even behind SIGHUPs whose
\* handler is blocked in Post.
TermServed ==
  (pc = "running" /\ \E i \in 1..Len(sigCh) : sigCh[i] = "TERM") ~> (pc = "exited")

\* The periodic sweep does not die out: its timer chain survives a full channel.
SweepRecurs ==
  (pc = "running") ~> (pc = "exited" \/ (queue # << >> /\ Head(queue) = "sweep"))
=============================================================================
