------------------------------- MODULE Solicit -------------------------------
(***************************************************************************)
(* Router solicitations on a master interface: routerSetup and             *)
(* solicitTimerFire of internal/relay/router.go, driven by Reload          *)
(* (config.go) and by link events (netlink.go), for one config name.       *)
(*                                                                         *)
(* Timers run beside the engine goroutine: one that has fired sits in the  *)
(* engine's backlog as a closure over the *Interface and the generation it *)
(* was armed for, where Timer.Stop no longer reaches it.  routerSetup does *)
(* not stop the timer of an interface that stays enabled, and a config     *)
(* entry that is dropped and added again is a new object whose generations *)
(* start over; old closures still point at the old object.                 *)
(***************************************************************************)
EXTENDS Naturals

CONSTANTS
  Objects,      \* bound: the *Interface objects the config name goes through
  Timers,       \* bound: the timers outstanding at once
  MaxSetups,    \* bound: generations of one object
  None          \* nil

\* One run of the service: an object and the generation of a setup of it.
Sessions == Objects \X (1..MaxSetups)

ASSUME SolicitAssumption == None \notin Objects \cup Timers \cup Sessions /\ MaxSetups \in Nat

VARIABLES
  iface,        \* the objects
  created,      \* the ones that have been allocated
  registered,   \* interfaces[name]
  armed,        \* timers running, each with what its closure captured
  posted,       \* the fired ones, whose closure is in the engine's backlog
  haveLL,       \* getLinkLocalAddr would find an address
  sendOK,       \* sendRouterSolicitation would succeed
  wire          \* the session whose solicitation the last step put on the link

vars == <<iface, created, registered, armed, posted, haveLL, sendOK, wire>>

maxRtrSolicitations == 3

Interface ==
  [Master : BOOLEAN, RA : {"disabled", "relay"}, Running : BOOLEAN, router : BOOLEAN,
   raSent : 0..maxRtrSolicitations, rsTimer : Timers \cup {None}, rsTimerN : 0..MaxSetups]

Closure == [id : Timers, obj : Objects, gen : 1..MaxSetups]

\* The type invariant; that raSent stays within the budget and the generation
\* within the bound are its two non-structural parts.
TypeOK ==
  /\ iface \in [Objects -> Interface]
  /\ created \subseteq Objects
  /\ registered \in created \cup {None}
  /\ armed \subseteq Closure
  /\ posted \subseteq Closure
  /\ haveLL \in BOOLEAN
  /\ sendOK \in BOOLEAN
  /\ wire \in Sessions \cup {None}

NewInterface ==
  [Master |-> FALSE, RA |-> "relay", Running |-> FALSE, router |-> FALSE,
   raSent |-> 0, rsTimer |-> None, rsTimerN |-> 0]

Init ==
  /\ iface = [o \in Objects |-> NewInterface]
  /\ created = {}
  /\ registered = None
  /\ armed = {}
  /\ posted = {}
  /\ haveLL \in BOOLEAN
  /\ sendOK \in BOOLEAN
  /\ wire = None

-----------------------------------------------------------------------------
(* time.AfterFunc.                                                         *)

\* A timer nobody holds: not running, not in the backlog, not pointed to.
Free == Timers \ ({c.id : c \in armed \cup posted} \cup {iface[o].rsTimer : o \in Objects})

\* Which of the free ones it takes tells nothing apart, so a setup takes a fixed one.
AfterFunc(t, o, gen) == [id |-> t, obj |-> o, gen |-> gen]

\* Timer.Stop of rsTimer, which may be nil or have fired already.
Stop(A, i) == {c \in A : c.id # i.rsTimer}

-----------------------------------------------------------------------------
(* routerSetup(i, enable) on the object o, in the state i its caller has   *)
(* brought it to; A is the set of running timers at that point.            *)

\* Fault: the timer is stopped, but the socket is left open.
DisabledOpen(i) == [i EXCEPT !.rsTimer = None]
Disabled(i) == [i EXCEPT !.router = FALSE, !.rsTimer = None]

SetupDisable(o, i, A) ==
  /\ iface' = [iface EXCEPT ![o] = Disabled(i)]
  /\ armed' = Stop(A, i)

\* A socket call fails: the old socket is gone, the timer is left alone.
SetupFails(o, i, A) ==
  /\ iface' = [iface EXCEPT ![o] = [i EXCEPT !.router = FALSE]]
  /\ armed' = A

SetupSlave(o, i, A) ==
  /\ ~i.Master
  /\ iface' = [iface EXCEPT ![o] = [i EXCEPT !.router = TRUE, !.raSent = 0]]
  /\ armed' = A

\* Fault: a new timer, but for the old generation.
SetupMasterSameGen(o, i, A) ==
  /\ i.Master
  /\ i.rsTimerN < MaxSetups
  /\ \E t \in Free :
       /\ t = CHOOSE x \in Free : TRUE
       /\ iface' = [iface EXCEPT ![o] = [i EXCEPT !.router = TRUE, !.raSent = 0, !.rsTimer = t]]
       /\ armed' = A \cup {AfterFunc(t, o, i.rsTimerN)}
SetupMaster(o, i, A) ==
  /\ i.Master
  /\ i.rsTimerN < MaxSetups
  /\ \E t \in Free :
       /\ t = CHOOSE x \in Free : TRUE
       /\ iface' = [iface EXCEPT ![o] = [i EXCEPT !.router = TRUE, !.raSent = 0,
                                         !.rsTimerN = i.rsTimerN + 1, !.rsTimer = t]]
       /\ armed' = A \cup {AfterFunc(t, o, i.rsTimerN + 1)}

RouterSetup(o, i, A, enable) ==
  IF enable /\ i.RA # "disabled"
  THEN SetupFails(o, i, A) \/ SetupSlave(o, i, A) \/ SetupMaster(o, i, A)
  ELSE SetupDisable(o, i, A)

\* Nothing goes out in this step.
Silent == wire' = None

-----------------------------------------------------------------------------
(* The callers, each one closure on the engine goroutine.                  *)

\* The address list is read afresh, whatever the kernel has by now.
RefreshInterfaceAddresses == haveLL' \in BOOLEAN

\* Reload brings the object to the configuration; slave says whether the file
\* gives any other interface that is not a master.
Configured(i, master, slave, running) ==
  [i EXCEPT !.Master = master, !.Running = running,
            !.RA = IF master /\ ~slave THEN "disabled" ELSE "relay"]

\* The config file has the name and its link exists.  When the link is another
\* one than before, parseInterfaceJSON disables the services first.
ReloadKeeps(master, slave, running, relinked) ==
  /\ registered # None
  /\ LET o == registered
         i == IF relinked THEN Disabled(iface[o]) ELSE iface[o]
         A == IF relinked THEN Stop(armed, iface[o]) ELSE armed
     IN RouterSetup(o, Configured(i, master, slave, running), A, running)
  /\ RefreshInterfaceAddresses
  /\ UNCHANGED <<created, registered, posted, sendOK>>
  /\ Silent

\* A new object; which of the unused names it gets tells nothing apart.
ReloadCreates(o, master, slave, running) ==
  /\ registered = None
  /\ o \in Objects \ created
  /\ o = CHOOSE x \in Objects \ created : TRUE
  /\ created' = created \cup {o}
  /\ registered' = o
  /\ RouterSetup(o, Configured(NewInterface, master, slave, running), armed, running)
  /\ RefreshInterfaceAddresses
  /\ UNCHANGED <<posted, sendOK>>
  /\ Silent

\* The name is gone from the file, or its link from the machine: closeInterface.
ReloadCloses(slave) ==
  /\ registered # None
  /\ registered' = None
  /\ LET i == iface[registered]
     IN RouterSetup(registered, Configured(i, i.Master, slave, i.Running), armed, FALSE)
  /\ UNCHANGED <<created, posted, haveLL, sendOK>>
  /\ Silent

\* IFF_RUNNING toggles on the link.
HandleLinkEvent(running) ==
  /\ registered # None
  /\ iface[registered].Running # running
  /\ RouterSetup(registered, [iface[registered] EXCEPT !.Running = running], armed, running)
  /\ IF running THEN RefreshInterfaceAddresses ELSE UNCHANGED haveLL
  /\ UNCHANGED <<created, registered, posted, sendOK>>
  /\ Silent

\* RTM_DELLINK.
HandleLinkDeleted ==
  /\ registered # None
  /\ RouterSetup(registered, [iface[registered] EXCEPT !.Running = FALSE], armed, FALSE)
  /\ haveLL' = FALSE
  /\ UNCHANGED <<created, registered, posted, sendOK>>
  /\ Silent

\* RTM_NEWLINK of the same name with another index.
HandleLinkReplaced(running) ==
  /\ registered # None
  /\ RouterSetup(registered, [Disabled(iface[registered]) EXCEPT !.Running = running],
                 Stop(armed, iface[registered]), running)
  /\ RefreshInterfaceAddresses
  /\ UNCHANGED <<created, registered, posted, sendOK>>
  /\ Silent

-----------------------------------------------------------------------------
\* The timer's goroutine posts the closure; from here on Stop is too late.
TimerFires(c) ==
  /\ armed' = armed \ {c}
  /\ posted' = posted \cup {c}
  /\ UNCHANGED <<iface, created, registered, haveLL, sendOK>>
  /\ Silent

\* The guard at the head of solicitTimerFire.
\* Fault: a dead socket is not noticed, sendRouterSolicitation just fails.
IgnoresSocket(c) ==
  LET i == iface[c.obj] IN i.rsTimerN = c.gen /\ i.Master /\ i.RA = "relay"
\* Fault: stale generations are not told apart.
AnyGeneration(c) ==
  LET i == iface[c.obj] IN i.router /\ i.Master /\ i.RA = "relay"
Current(c) ==
  LET i == iface[c.obj] IN i.rsTimerN = c.gen /\ i.router /\ i.Master /\ i.RA = "relay"

\* The next timer of the same generation, the count standing at n.  It goes
\* by the identity of the one that has just fired, which nobody holds any more.
\* Fault: a solicitation that could not be sent is given up.
RearmIfSent(c, n) ==
  IF n = iface[c.obj].raSent
  THEN UNCHANGED <<iface, armed>>
  ELSE /\ iface' = [iface EXCEPT ![c.obj].raSent = n, ![c.obj].rsTimer = c.id]
       /\ armed' = armed \cup {AfterFunc(c.id, c.obj, c.gen)}
Rearm(c, n) ==
  /\ iface' = [iface EXCEPT ![c.obj].raSent = n, ![c.obj].rsTimer = c.id]
  /\ armed' = armed \cup {AfterFunc(c.id, c.obj, c.gen)}

SendRouterSolicitation(i) == i.router /\ sendOK

\* The solicitation of the closure's session is on the link.
Sent(c) == wire' = <<c.obj, c.gen>>

SolicitTimerFire(c) ==
  LET i == iface[c.obj]
      sends == haveLL /\ SendRouterSolicitation(i)
  IN /\ posted' = posted \ {c}
     /\ \/ ~Current(c) /\ UNCHANGED <<iface, armed>> /\ Silent
        \/ Current(c) /\ ~sends /\ Rearm(c, i.raSent) /\ Silent
        \/ /\ Current(c) /\ sends /\ i.raSent + 1 < maxRtrSolicitations
           /\ Rearm(c, i.raSent + 1) /\ Sent(c)
        \/ /\ Current(c) /\ sends /\ i.raSent + 1 >= maxRtrSolicitations
           /\ iface' = [iface EXCEPT ![c.obj].raSent = i.raSent + 1]
           /\ Sent(c) /\ UNCHANGED armed
     /\ UNCHANGED <<created, registered, haveLL, sendOK>>

\* Address events come and go, and so does the ability to send.
AddressEvent == haveLL' = ~haveLL /\ UNCHANGED <<iface, created, registered, armed, posted, sendOK>> /\ Silent
SendChanges  == sendOK' = ~sendOK /\ UNCHANGED <<iface, created, registered, armed, posted, haveLL>> /\ Silent

Next ==
  \/ \E master, slave, running, relinked \in BOOLEAN :
       \/ ReloadKeeps(master, slave, running, relinked)
       \/ \E o \in Objects : ReloadCreates(o, master, slave, running)
  \/ \E slave \in BOOLEAN : ReloadCloses(slave)
  \/ \E running \in BOOLEAN : HandleLinkEvent(running) \/ HandleLinkReplaced(running)
  \/ HandleLinkDeleted
  \/ \E c \in armed : TimerFires(c)
  \/ \E c \in posted : SolicitTimerFire(c)
  \/ AddressEvent
  \/ SendChanges

Spec == Init /\ [][Next]_vars

\* Timers fire and the engine drains its backlog.
Fairness ==
  \A t \in Timers :
    /\ WF_vars(\E c \in armed : c.id = t /\ TimerFires(c))
    /\ WF_vars(\E c \in posted : c.id = t /\ SolicitTimerFire(c))

FairSpec == Spec /\ Fairness

-----------------------------------------------------------------------------
Active(o) == iface[o].router /\ iface[o].Master /\ iface[o].RA = "relay"

\* The timers solicitTimerFire will not discard as stale.
Live(o) == {c \in armed \cup posted : c.obj = o /\ c.gen = iface[o].rsTimerN}

\* However reloads, link events and late closures interleave, an interface that
\* is soliciting has exactly one live timer while it has solicitations left, and
\* none afterwards: the generation silences old timers and never the new one.
OneLiveTimer ==
  \A o \in Objects : Active(o) =>
    /\ Live(o) # {} <=> iface[o].raSent < maxRtrSolicitations
    /\ \A c, d \in Live(o) : c = d

CurrentActive == registered # None /\ Active(registered)

\* The session routerSetup started last, while it is neither stopped nor failed.
CurrentSession == IF CurrentActive THEN <<registered, iface[registered].rsTimerN>> ELSE None

SolicitsLeft == IF CurrentActive THEN maxRtrSolicitations - iface[registered].raSent ELSE 0

Promise == INSTANCE SolicitBudget
             WITH Budget <- maxRtrSolicitations, NoSession <- None,
                  started <- {s \in Sessions : s[2] <= iface[s[1]].rsTimerN},
                  session <- CurrentSession, left <- SolicitsLeft, wire <- wire

\* The timers implement the budget.  Whatever closures are still in the backlog,
\* each solicitation that goes out belongs to the session that is current at
\* that moment, so none comes from an object that is closed, disabled or no
\* longer registered or from a generation that has been superseded; it is one of
\* three of its session, and every start of the service is a new session.
KeepsPromise == Promise!Spec

\* An interface that stays up with an address and a working socket sends all
\* three, whatever failed before.
SolicitsAll ==
  \A o \in Objects :
    (/\ <>[](Active(o) /\ haveLL /\ sendOK)
     /\ <>[][iface'[o].rsTimerN = iface[o].rsTimerN]_vars)
    => <>[](iface[o].raSent = maxRtrSolicitations)

\* A dropped interface object is left alone in the end: no timer keeps coming
\* back for it.
ClosedFallsSilent ==
  \A o \in Objects :
    (o \in created /\ registered # o) ~> \A c \in armed \cup posted : c.obj # o
=============================================================================
