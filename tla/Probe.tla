-------------------------------- MODULE Probe --------------------------------
(***************************************************************************)
(* What a captured Neighbor Solicitation sets off.  handleSolicit pings    *)
(* its target on every other interface; to send the ping the kernel        *)
(* solicits the target itself, and the capture sockets see those           *)
(* solicitations too.  On a slave they are recognised by their MAC address *)
(* and dropped; on a master they are handled like any other.               *)
(*                                                                         *)
(* One target address; Mirror has what becomes of resolved targets.        *)
(***************************************************************************)
EXTENDS Naturals

CONSTANTS
  Ifaces, Masters,
  Home,         \* the interfaces the target may be behind, or NoIface
  NoIface,
  MaxTries,     \* solicitations the kernel sends before it gives up
  MaxNews,      \* bound: solicitations of hosts
  MaxFails      \* bound: the times the MAC address of an interface cannot be read

ASSUME ProbeAssumption ==
  /\ Masters \subseteq Ifaces /\ NoIface \notin Ifaces
  /\ Home \subseteq Ifaces \cup {NoIface}
  /\ MaxTries \in Nat \ {0} /\ MaxNews \in Nat /\ MaxFails \in Nat

VARIABLES
  home,         \* where the target is
  neigh,        \* neigh[i] : the neighbour entry of the target on i
  tries,        \* tries[i] : solicitations the kernel has sent for it
  captured,     \* captured[i] : solicitations on i that are not handled yet, by sender
  events,       \* the interfaces with a NUD_FAILED event on its way
  news,         \* solicitations hosts have sent
  fails         \* the times getMAC has failed

vars == <<home, neigh, tries, captured, events, news, fails>>

\* The types of the entries and of what is captured.
TypeOK ==
  /\ home \in Home
  /\ neigh \in [Ifaces -> {"none", "incomplete", "resolved", "failed"}]
  /\ tries \in [Ifaces -> 0..MaxTries]
  /\ captured \in [Ifaces -> SUBSET {"host", "self"}]
  /\ events \subseteq Ifaces
  /\ news \in 0..MaxNews /\ fails \in 0..MaxFails

Init ==
  /\ home \in Home
  /\ neigh = [i \in Ifaces |-> "none"] /\ tries = [i \in Ifaces |-> 0]
  /\ captured = [i \in Ifaces |-> {}]
  /\ events = {} /\ news = 0 /\ fails = 0

-----------------------------------------------------------------------------
(* The hosts and the kernel (external).                                     *)

HostSolicits(i) ==
  /\ news < MaxNews /\ news' = news + 1
  /\ captured' = [captured EXCEPT ![i] = @ \cup {"host"}]
  /\ UNCHANGED <<home, neigh, tries, events, fails>>

\* The retransmit timer sends another solicitation.
Retransmit(i) ==
  /\ neigh[i] = "incomplete" /\ tries[i] < MaxTries
  /\ tries' = [tries EXCEPT ![i] = @ + 1]
  /\ captured' = [captured EXCEPT ![i] = @ \cup {"self"}]
  /\ UNCHANGED <<home, neigh, events, news, fails>>

\* The entry of a target that is not there fails.
GiveUp(i) ==
  /\ neigh[i] = "incomplete" /\ tries[i] = MaxTries /\ home # i
  /\ neigh' = [neigh EXCEPT ![i] = "failed"]
  /\ events' = events \cup {i}
  /\ UNCHANGED <<home, tries, captured, news, fails>>

TargetAnswers(i) ==
  /\ neigh[i] = "incomplete" /\ home = i
  /\ neigh' = [neigh EXCEPT ![i] = "resolved"]
  /\ UNCHANGED <<home, tries, captured, events, news, fails>>

\* A packet to a target without a usable entry makes the kernel solicit it.
Lookup(S) ==
  LET new == {i \in S : neigh[i] \in {"none", "failed"}}
  IN /\ neigh' = [i \in Ifaces |-> IF i \in new THEN "incomplete" ELSE neigh[i]]
     /\ tries' = [i \in Ifaces |-> IF i \in new THEN 1 ELSE tries[i]]

-----------------------------------------------------------------------------
(* handleSolicit, relayPing and the FAILED branch of handleNeighEvent.      *)

\* getMAC looks the interface up by name, which may fail.
GetMAC(known) == \/ known /\ UNCHANGED fails
                 \/ ~known /\ fails < MaxFails /\ fails' = fails + 1

\* An own probe on a slave is dropped, if the MAC address to know it by is there.
\* Fault: nobody asks who has sent the solicitation.
RelaysAll(i, from, known) == TRUE
Relays(i, from, known) == ~(known /\ from = "self" /\ i \notin Masters)

\* Fault: only the masters are pinged.
PingsMasters(i) == Masters \ {i}
Pinged(i) == Ifaces \ {i}

HandleSolicit(i, from, known) ==
  LET pinged == IF Relays(i, from, known) THEN Pinged(i) ELSE {}
  IN /\ from \in captured[i]
     /\ GetMAC(known)
     /\ Lookup(pinged)
     /\ captured' = [c \in Ifaces |->
          (IF c = i THEN captured[c] \ {from} ELSE captured[c]) \cup
          (IF c \in pinged /\ neigh[c] \in {"none", "failed"} THEN {"self"} ELSE {})]
     /\ UNCHANGED <<home, events, news>>

\* deleteFailedNeigh removes the entry, whatever its state is by now.
HandleFailed(i) ==
  /\ i \in events
  /\ events' = events \ {i}
  /\ neigh' = [neigh EXCEPT ![i] = "none"]
  /\ tries' = [tries EXCEPT ![i] = 0]
  /\ UNCHANGED <<home, captured, news, fails>>

-----------------------------------------------------------------------------
Daemon(i) ==
  \/ HandleFailed(i)
  \/ \E from \in {"host", "self"}, known \in BOOLEAN : HandleSolicit(i, from, known)

Next == \E i \in Ifaces :
  HostSolicits(i) \/ Retransmit(i) \/ GiveUp(i) \/ TargetAnswers(i) \/ Daemon(i)

Spec == Init /\ [][Next]_vars

\* The engine runs, the kernel's timers fire and a target that is there answers.
FairSpec ==
  Spec /\ \A i \in Ifaces :
    WF_vars(Retransmit(i) \/ GiveUp(i)) /\ WF_vars(TargetAnswers(i)) /\ WF_vars(Daemon(i))

-----------------------------------------------------------------------------
(* Properties.                                                              *)

Quiet == \A i \in Ifaces : captured[i] = {} /\ neigh[i] \in {"none", "resolved"}

\* With one master, whatever hosts ask for, wherever the target is, and although a
\* slave that cannot read its MAC address now and then relays one of the relay's own
\* probes, these do not keep each other going: in the end nothing is captured,
\* nothing is being resolved and no FAILED entry is left.
ProbesEnd == <>[]Quiet

\* Where the target is behind another interface than the host, the relay finds it.
TargetFound ==
  \A i \in Ifaces : \A c \in Ifaces \ {i} :
    ("host" \in captured[i] /\ home = c) ~> (neigh[c] = "resolved")
=============================================================================
