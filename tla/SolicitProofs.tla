---------------------------- MODULE SolicitProofs ----------------------------
(***************************************************************************)
(* The router-solicitation timers keep their budget, for any number of     *)
(* interface objects, timers and generations.                              *)
(***************************************************************************)
EXTENDS Solicit, TLAPS

\* No closure is ahead of its interface or belongs to an object not yet
\* allocated, a timer is either running or fired and has one
\* closure, and rsTimer never points at a
\* timer of another object, so Stop cannot hit one.
ClosuresOK ==
  /\ \A c \in armed \cup posted : c.gen <= iface[c.obj].rsTimerN /\ c.obj \in created
  /\ armed \cap posted = {}
  /\ \A c, d \in armed \cup posted : c.id = d.id => c = d
  /\ \A o \in Objects : \A c \in armed \cup posted : c.id = iface[o].rsTimer => c.obj = o

\* Only the registered object solicits, and an object that has not been
\* allocated is as new.
ObjectsOK ==
  /\ \A o \in Objects : Active(o) => registered = o
  /\ \A o \in Objects \ created : iface[o] = NewInterface

Inv == TypeOK /\ OneLiveTimer /\ ClosuresOK /\ ObjectsOK

LEMMA InitInv == Init => Inv
<1> SUFFICES ASSUME Init PROVE Inv
  OBVIOUS
<1>1. NewInterface \in Interface
  BY SolicitAssumption DEF NewInterface, Interface, maxRtrSolicitations
<1>2. TypeOK
  BY <1>1 DEF Init, TypeOK
<1>3. OneLiveTimer
  BY DEF Init, OneLiveTimer, Active, NewInterface
<1>4. ObjectsOK
  BY DEF Init, ObjectsOK, Active, NewInterface
<1> QED
  BY <1>2, <1>3, <1>4 DEF Init, Inv, ClosuresOK

\* How a caller of routerSetup may have changed the object and the timers.
Prepared(o, i, A) ==
  /\ o \in Objects /\ i \in Interface /\ A \subseteq armed
  /\ \A c \in armed \ A : c.obj = o
  /\ \A c \in armed \cup posted : c.id = i.rsTimer => c.obj = o
  /\ \A c \in armed \cup posted : c.obj = o => c.gen <= i.rsTimerN
  /\ i.rsTimerN = iface[o].rsTimerN

Stopped(o, i) ==
  /\ iface'[o].rsTimerN = i.rsTimerN
  /\ iface'[o].rsTimer \in {i.rsTimer, None}
  /\ ~(iface'[o].router /\ iface'[o].Master)
  /\ armed' \subseteq armed
  /\ \A c \in armed \ armed' : c.obj = o

Started(o, i, A, t) ==
  /\ iface'[o].rsTimerN = i.rsTimerN + 1 /\ i.rsTimerN + 1 \in 1..MaxSetups
  /\ iface'[o].rsTimer = t /\ iface'[o].raSent = 0
  /\ iface'[o].router /\ iface'[o].Master /\ iface'[o].RA = "relay"
  /\ armed' = A \cup {AfterFunc(t, o, i.rsTimerN + 1)}

\* routerSetup either leaves the object not soliciting, or starts a generation.
LEMMA SetupOutcome ==
  ASSUME TypeOK, NEW o, NEW i, NEW A, NEW enable \in BOOLEAN,
         Prepared(o, i, A), RouterSetup(o, i, A, enable)
  PROVE  /\ iface'[o] \in Interface
         /\ \A x \in Objects : x # o => iface'[x] = iface[x]
         /\ iface' \in [Objects -> Interface]
         /\ Stopped(o, i) \/ \E t \in Free : Started(o, i, A, t)
         /\ ~enable => Stopped(o, i)
<1> USE SolicitAssumption DEF Prepared
<1>0. 0 \in 0..maxRtrSolicitations
  BY DEF maxRtrSolicitations
<1>1. CASE SetupDisable(o, i, A)
  <2>1. iface'[o] = Disabled(i)
    BY <1>1 DEF SetupDisable, TypeOK
  <2>2. Disabled(i) \in Interface /\ Disabled(i).rsTimerN = i.rsTimerN
        /\ ~Disabled(i).router /\ Disabled(i).rsTimer = None
    BY DEF Disabled, Interface
  <2> QED
    BY <1>1, <2>1, <2>2 DEF SetupDisable, Stop, TypeOK, Stopped
<1>2. CASE SetupFails(o, i, A)
  <2>1. iface'[o] = [i EXCEPT !.router = FALSE]
    BY <1>2 DEF SetupFails, TypeOK
  <2> QED
    BY <1>2, <2>1 DEF SetupFails, Interface, TypeOK, Stopped
<1>3. CASE SetupSlave(o, i, A)
  <2>1. iface'[o] = [i EXCEPT !.router = TRUE, !.raSent = 0] /\ ~i.Master
    BY <1>3 DEF SetupSlave, TypeOK
  <2>2. iface'[o] \in Interface
    BY <1>0, <2>1 DEF Interface
  <2>3. Stopped(o, i)
    <3>1. ~iface'[o].Master /\ iface'[o].rsTimerN = i.rsTimerN /\ iface'[o].rsTimer = i.rsTimer
      BY <2>1 DEF Interface
    <3> QED
      BY <1>3, <3>1 DEF SetupSlave, Stopped
  <2> QED
    BY <1>3, <2>2, <2>3 DEF SetupSlave, TypeOK
<1>4. CASE SetupMaster(o, i, A) /\ i.RA # "disabled" /\ enable
  <2> DEFINE new(t) == [i EXCEPT !.router = TRUE, !.raSent = 0,
                                 !.rsTimerN = i.rsTimerN + 1, !.rsTimer = t]
  <2>1. PICK t \in Free : /\ i.Master /\ i.rsTimerN < MaxSetups
                          /\ iface' = [iface EXCEPT ![o] = new(t)]
                          /\ armed' = A \cup {AfterFunc(t, o, i.rsTimerN + 1)}
    BY <1>4 DEF SetupMaster
  <2>2. t \in Timers
    BY DEF Free
  <2>3. i.rsTimerN + 1 \in 1..MaxSetups /\ i.RA = "relay"
    BY <1>4, <2>1 DEF Interface
  <2>4. iface'[o] = new(t)
    BY <2>1 DEF TypeOK
  <2>5. new(t) \in Interface
    <3>1. i.rsTimerN + 1 \in 0..MaxSetups
      BY <2>3
    <3> QED
      BY <1>0, <2>2, <3>1 DEF Interface
  <2>6. /\ new(t).rsTimerN = i.rsTimerN + 1 /\ new(t).rsTimer = t /\ new(t).raSent = 0
        /\ new(t).router = TRUE /\ new(t).Master = i.Master /\ new(t).RA = i.RA
    BY DEF Interface
  <2> HIDE DEF new
  <2>7. Started(o, i, A, t)
    BY <2>1, <2>3, <2>4, <2>6 DEF Started
  <2> QED
    BY <1>4, <2>1, <2>4, <2>5, <2>7 DEF TypeOK
<1> QED
  BY <1>1, <1>2, <1>3, <1>4 DEF RouterSetup

\* routerSetup keeps the invariant: an interface that starts soliciting does so
\* in a generation no outstanding closure has.
LEMMA SetupInv ==
  ASSUME Inv, NEW o, NEW i, NEW A, NEW enable \in BOOLEAN,
         Prepared(o, i, A), RouterSetup(o, i, A, enable),
         created \subseteq created', o \in created', created' \subseteq Objects,
         registered \in {o, None}, registered' = o \/ (registered' = None /\ ~enable),
         haveLL' \in BOOLEAN, sendOK' \in BOOLEAN, UNCHANGED posted, Silent
  PROVE  Inv'
<1> USE SolicitAssumption
<1>0. /\ TypeOK /\ OneLiveTimer /\ ClosuresOK /\ ObjectsOK /\ posted' = posted
      /\ \A c \in armed \cup posted : c \in Closure /\ c.gen \in Nat /\ c.obj \in Objects /\ c.id \in Timers
      /\ o \in Objects /\ i.rsTimerN \in Nat /\ A \subseteq armed
  BY DEF Inv, TypeOK, Closure, Interface, Prepared
<1>1. /\ iface'[o] \in Interface
      /\ \A x \in Objects : x # o => iface'[x] = iface[x]
      /\ iface' \in [Objects -> Interface]
      /\ Stopped(o, i) \/ \E t \in Free : Started(o, i, A, t)
      /\ ~enable => Stopped(o, i)
  BY <1>0, SetupOutcome
<1>4. ObjectsOK'
  <2>1. \A x \in Objects : x # o => ~Active(x) /\ ~Active(x)'
    BY <1>0, <1>1 DEF ObjectsOK, Active
  <2>2. ~enable => ~Active(o)'
    BY <1>1 DEF Stopped, Active
  <2> QED
    BY <1>0, <1>1, <2>1, <2>2 DEF ObjectsOK
<1>2. CASE Stopped(o, i)
  <2>1. TypeOK'
    BY <1>0, <1>1, <1>2 DEF TypeOK, Stopped, Silent
  <2>2. ClosuresOK'
    <3>1. ASSUME NEW c \in (armed \cup posted)'
          PROVE  /\ c.gen <= iface'[c.obj].rsTimerN /\ c.obj \in created'
                 /\ \A x \in Objects : c.id = iface'[x].rsTimer => c.obj = x
      <4>1. c \in armed \cup posted
        BY <1>0, <1>2 DEF Stopped
      <4>2. c.gen <= iface'[c.obj].rsTimerN /\ c.obj \in created'
        BY <1>0, <1>1, <1>2, <4>1 DEF Stopped, ClosuresOK, Prepared
      <4>3. \A x \in Objects : c.id = iface'[x].rsTimer => c.obj = x
        BY <1>0, <1>1, <1>2, <4>1 DEF Stopped, ClosuresOK, Prepared
      <4> QED
        BY <4>2, <4>3
    <3> QED
      BY <1>0, <1>2, <3>1 DEF ClosuresOK, Stopped
  <2>3. OneLiveTimer'
    <3>1. SUFFICES ASSUME NEW x \in Objects, Active(x)'
                   PROVE  /\ Live(x)' # {} <=> iface'[x].raSent < maxRtrSolicitations
                          /\ \A c, d \in Live(x)' : c = d
      BY DEF OneLiveTimer, maxRtrSolicitations
    <3>2. x # o /\ iface'[x] = iface[x] /\ Active(x)
      BY <1>1, <1>2, <3>1 DEF Active, Stopped
    <3>3. Live(x)' = Live(x)
      BY <1>0, <1>2, <3>2 DEF Live, Stopped
    <3> QED
      BY <1>0, <3>2, <3>3 DEF OneLiveTimer
  <2> QED
    BY <1>4, <2>1, <2>2, <2>3 DEF Inv
<1>3. ASSUME NEW t \in Free, Started(o, i, A, t) PROVE Inv'
  <2> DEFINE new == AfterFunc(t, o, i.rsTimerN + 1)
  <2>1. /\ new \in Closure /\ new.id = t /\ new.obj = o /\ new.gen = i.rsTimerN + 1
        /\ \A c \in armed \cup posted : c.id # t
        /\ \A x \in Objects : iface[x].rsTimer # t
    BY <1>0, <1>3 DEF AfterFunc, Closure, Free, Started
  <2>2. armed' = A \cup {new}
    BY <1>3 DEF Started
  <2> HIDE DEF new
  <2>3. TypeOK'
    BY <1>0, <1>1, <2>1, <2>2 DEF TypeOK, Silent
  <2>4. ClosuresOK'
    <3>1. ASSUME NEW c \in (armed \cup posted)'
          PROVE  /\ c.gen <= iface'[c.obj].rsTimerN /\ c.obj \in created'
                 /\ \A x \in Objects : c.id = iface'[x].rsTimer => c.obj = x
      <4>1. CASE c = new
        BY <1>0, <1>1, <1>3, <2>1, <4>1 DEF Started
      <4>2. CASE c \in armed \cup posted
        <5>1. c.gen <= iface'[c.obj].rsTimerN /\ c.obj \in created'
          BY <1>0, <1>1, <1>3, <4>2 DEF Started, ClosuresOK, Prepared
        <5>2. \A x \in Objects : c.id = iface'[x].rsTimer => c.obj = x
          BY <1>0, <1>1, <1>3, <2>1, <4>2 DEF Started, ClosuresOK
        <5> QED
          BY <5>1, <5>2
      <4> QED
        BY <1>0, <2>2, <4>1, <4>2
    <3>2. armed' \cap posted' = {}
      BY <1>0, <2>1, <2>2 DEF ClosuresOK
    <3>3. \A c, d \in (armed \cup posted)' : c.id = d.id => c = d
      BY <1>0, <2>1, <2>2 DEF ClosuresOK
    <3> QED
      BY <3>1, <3>2, <3>3 DEF ClosuresOK
  <2>5. OneLiveTimer'
    <3>1. SUFFICES ASSUME NEW x \in Objects, Active(x)'
                   PROVE  /\ Live(x)' # {} <=> iface'[x].raSent < maxRtrSolicitations
                          /\ \A c, d \in Live(x)' : c = d
      BY DEF OneLiveTimer, maxRtrSolicitations
    <3>2. CASE x = o
      <4>1. Live(o)' = {new}
        BY <1>0, <1>3, <2>1, <2>2 DEF Live, Started, Prepared
      <4> QED
        BY <1>3, <3>2, <4>1 DEF Started, maxRtrSolicitations
    <3>3. CASE x # o
      <4>1. iface'[x] = iface[x] /\ Active(x)
        BY <1>1, <3>1, <3>3 DEF Active
      <4>2. Live(x)' = Live(x)
        BY <1>0, <2>1, <2>2, <3>3, <4>1 DEF Live, Prepared
      <4> QED
        BY <1>0, <4>1, <4>2 DEF OneLiveTimer
    <3> QED
      BY <3>2, <3>3
  <2> QED
    BY <1>4, <2>3, <2>4, <2>5 DEF Inv
<1> QED
  BY <1>1, <1>2, <1>3

-----------------------------------------------------------------------------
(* The callers of routerSetup.                                             *)

\* The record keeps its type and its generation when a link event has disabled
\* the service or set Running.
LEMMA CallerRecords ==
  ASSUME NEW i \in Interface, NEW running \in BOOLEAN
  PROVE  /\ Disabled(i) \in Interface /\ Disabled(i).rsTimerN = i.rsTimerN /\ Disabled(i).rsTimer = None
         /\ LET j == [i EXCEPT !.Running = running]
            IN j \in Interface /\ j.rsTimerN = i.rsTimerN /\ j.rsTimer = i.rsTimer
<1> USE SolicitAssumption
<1>1. Disabled(i) \in Interface /\ Disabled(i).rsTimerN = i.rsTimerN /\ Disabled(i).rsTimer = None
  BY DEF Disabled, Interface
<1>2. LET j == [i EXCEPT !.Running = running]
      IN j \in Interface /\ j.rsTimerN = i.rsTimerN /\ j.rsTimer = i.rsTimer
  BY DEF Interface
<1> QED
  BY <1>1, <1>2

LEMMA PreparedKept ==
  ASSUME Inv, NEW o \in Objects, NEW i \in Interface, i.rsTimerN = iface[o].rsTimerN,
         i.rsTimer \in {iface[o].rsTimer, None},
         NEW A, A = armed \/ A = Stop(armed, iface[o])
  PROVE  Prepared(o, i, A)
<1>1. \A c \in armed \cup posted : c.id # None
  BY SolicitAssumption DEF Inv, TypeOK, Closure
<1> QED
  BY <1>1 DEF Inv, ClosuresOK, Stop, Prepared

\* What the callers have in common.
SetupStep ==
  \E o \in Objects : \E i, A : \E enable \in BOOLEAN :
    /\ Prepared(o, i, A) /\ RouterSetup(o, i, A, enable)
    /\ created \subseteq created' /\ o \in created' /\ created' \subseteq Objects
    /\ registered \in {o, None} /\ (registered' = o \/ (registered' = None /\ ~enable))
    /\ haveLL' \in BOOLEAN /\ sendOK' \in BOOLEAN /\ posted' = posted /\ Silent

LEMMA SetupStepIntro ==
  ASSUME NEW o \in Objects, NEW i, NEW A, NEW enable \in BOOLEAN,
         Prepared(o, i, A), RouterSetup(o, i, A, enable),
         created \subseteq created', o \in created', created' \subseteq Objects,
         registered \in {o, None}, registered' = o \/ (registered' = None /\ ~enable),
         haveLL' \in BOOLEAN, sendOK' \in BOOLEAN, UNCHANGED posted, Silent
  PROVE  SetupStep
  BY DEF SetupStep

LEMMA CallersSetup ==
  ASSUME Inv, NEW master \in BOOLEAN, NEW slave \in BOOLEAN, NEW running \in BOOLEAN,
         NEW relinked \in BOOLEAN, NEW o \in Objects,
         \/ ReloadKeeps(master, slave, running, relinked)
         \/ ReloadCreates(o, master, slave, running)
         \/ ReloadCloses(slave)
         \/ HandleLinkEvent(running)
         \/ HandleLinkReplaced(running)
         \/ HandleLinkDeleted
  PROVE  SetupStep
<1> USE SolicitAssumption
<1>0. TypeOK /\ ClosuresOK /\ ObjectsOK
  BY DEF Inv
<1>1. ASSUME registered # None
      PROVE  /\ registered \in created /\ registered \in Objects /\ iface[registered] \in Interface
             /\ iface[registered].Master \in BOOLEAN /\ iface[registered].Running \in BOOLEAN
  BY <1>0, <1>1 DEF TypeOK, Interface
<1>2. CASE ReloadKeeps(master, slave, running, relinked)
  <2> DEFINE old == iface[registered]
             i == IF relinked THEN Disabled(old) ELSE old
             j == Configured(i, master, slave, running)
             A == IF relinked THEN Stop(armed, old) ELSE armed
  <2>1. registered # None /\ RouterSetup(registered, j, A, running)
        /\ haveLL' \in BOOLEAN /\ UNCHANGED <<created, registered, posted, sendOK>> /\ Silent
    BY <1>2 DEF ReloadKeeps, RefreshInterfaceAddresses
  <2>2. i \in Interface /\ i.rsTimerN = old.rsTimerN /\ i.rsTimer \in {old.rsTimer, None}
    BY <1>1, <2>1, CallerRecords
  <2>3. j \in Interface /\ j.rsTimerN = old.rsTimerN /\ j.rsTimer \in {old.rsTimer, None}
    <3> HIDE DEF i
    <3> QED
      BY <2>2 DEF Configured, Interface
  <2>4. A = armed \/ A = Stop(armed, old)
    OBVIOUS
  <2> HIDE DEF j, A
  <2>5. Prepared(registered, j, A)
    BY <1>1, <2>1, <2>3, <2>4, PreparedKept
  <2> QED
    BY <1>0, <1>1, <2>1, <2>5, SetupStepIntro DEF TypeOK
<1>3. CASE ReloadCreates(o, master, slave, running)
  <2> DEFINE j == Configured(NewInterface, master, slave, running)
  <2>1. /\ o \notin created /\ registered = None /\ created' = created \cup {o} /\ registered' = o
        /\ RouterSetup(o, j, armed, running) /\ haveLL' \in BOOLEAN /\ UNCHANGED <<posted, sendOK>> /\ Silent
    BY <1>3 DEF ReloadCreates, RefreshInterfaceAddresses
  <2>2. NewInterface \in Interface /\ NewInterface.rsTimerN = 0 /\ NewInterface.rsTimer = None
    BY DEF NewInterface, Interface, maxRtrSolicitations
  <2>3. j \in Interface /\ j.rsTimerN = 0 /\ j.rsTimer = None
    BY <2>2 DEF Configured, Interface
  <2>4. \A c \in armed \cup posted : c.obj # o /\ c.id # None
    BY <1>0, <2>1 DEF ClosuresOK, TypeOK, Closure
  <2> HIDE DEF j
  <2>5. Prepared(o, j, armed)
    BY <1>0, <2>1, <2>2, <2>3, <2>4 DEF Prepared, ObjectsOK
  <2> QED
    BY <1>0, <2>1, <2>5, SetupStepIntro DEF TypeOK
<1>4. ASSUME NEW j \in Interface, NEW A, NEW enable \in BOOLEAN,
             registered # None, j.rsTimerN = iface[registered].rsTimerN,
             j.rsTimer \in {iface[registered].rsTimer, None},
             A = armed \/ A = Stop(armed, iface[registered]),
             RouterSetup(registered, j, A, enable),
             registered' = registered \/ (registered' = None /\ ~enable),
             haveLL' \in BOOLEAN, UNCHANGED <<created, posted, sendOK>>, Silent
      PROVE  SetupStep
  <2>1. Prepared(registered, j, A)
    BY <1>1, <1>4, PreparedKept
  <2> QED
    BY <1>0, <1>1, <1>4, <2>1, SetupStepIntro DEF TypeOK
<1>5. CASE ReloadCloses(slave)
  <2> DEFINE j == Configured(iface[registered], iface[registered].Master, slave, iface[registered].Running)
  <2>1. j \in Interface /\ j.rsTimerN = iface[registered].rsTimerN /\ j.rsTimer = iface[registered].rsTimer
    <3>1. registered # None
      BY <1>5 DEF ReloadCloses
    <3> QED
      BY <1>1, <3>1 DEF Configured, Interface
  <2>2. /\ registered # None /\ RouterSetup(registered, j, armed, FALSE) /\ registered' = None
        /\ UNCHANGED <<created, posted, haveLL, sendOK>> /\ Silent
    BY <1>5 DEF ReloadCloses
  <2> HIDE DEF j
  <2> QED
    BY <1>0, <1>4, <2>1, <2>2 DEF TypeOK
<1>6. CASE HandleLinkEvent(running)
  <2> DEFINE j == [iface[registered] EXCEPT !.Running = running]
  <2>1. j \in Interface /\ j.rsTimerN = iface[registered].rsTimerN /\ j.rsTimer = iface[registered].rsTimer
    BY <1>1, <1>6, CallerRecords DEF HandleLinkEvent
  <2>2. /\ registered # None /\ RouterSetup(registered, j, armed, running)
        /\ haveLL' \in BOOLEAN /\ UNCHANGED <<created, registered, posted, sendOK>> /\ Silent
    BY <1>0, <1>6 DEF HandleLinkEvent, RefreshInterfaceAddresses, TypeOK
  <2> HIDE DEF j
  <2> QED
    BY <1>0, <1>4, <2>1, <2>2 DEF TypeOK
<1>7. CASE HandleLinkReplaced(running)
  <2> DEFINE j == [Disabled(iface[registered]) EXCEPT !.Running = running]
  <2>0. Disabled(iface[registered]) \in Interface
        /\ Disabled(iface[registered]).rsTimerN = iface[registered].rsTimerN
        /\ Disabled(iface[registered]).rsTimer = None
    BY <1>1, <1>7, CallerRecords DEF HandleLinkReplaced
  <2>1. j \in Interface /\ j.rsTimerN = iface[registered].rsTimerN /\ j.rsTimer = None
    BY <2>0, CallerRecords
  <2>2. /\ registered # None /\ RouterSetup(registered, j, Stop(armed, iface[registered]), running)
        /\ haveLL' \in BOOLEAN /\ UNCHANGED <<created, registered, posted, sendOK>> /\ Silent
    BY <1>7 DEF HandleLinkReplaced, RefreshInterfaceAddresses
  <2> HIDE DEF j
  <2> QED
    BY <1>0, <1>4, <2>1, <2>2 DEF TypeOK
<1>8. CASE HandleLinkDeleted
  <2> DEFINE j == [iface[registered] EXCEPT !.Running = FALSE]
  <2>1. j \in Interface /\ j.rsTimerN = iface[registered].rsTimerN /\ j.rsTimer = iface[registered].rsTimer
    BY <1>1, <1>8, CallerRecords DEF HandleLinkDeleted
  <2>2. /\ registered # None /\ RouterSetup(registered, j, armed, FALSE) /\ haveLL' = FALSE
        /\ UNCHANGED <<created, registered, posted, sendOK>> /\ Silent
    BY <1>8 DEF HandleLinkDeleted
  <2> HIDE DEF j
  <2> QED
    BY <1>4, <2>1, <2>2
<1> QED
  BY <1>2, <1>3, <1>5, <1>6, <1>7, <1>8

-----------------------------------------------------------------------------
(* The timers.                                                             *)

LEMMA TimerFiresInv ==
  ASSUME Inv, NEW c \in armed, TimerFires(c)
  PROVE  Inv'
<1>1. armed' \cup posted' = armed \cup posted /\ iface' = iface
  BY DEF TimerFires
<1>2. TypeOK' /\ ClosuresOK' /\ ObjectsOK'
  BY <1>1 DEF Inv, TypeOK, ClosuresOK, ObjectsOK, Active, TimerFires, Silent
<1>3. \A o \in Objects : Live(o)' = Live(o) /\ (Active(o)' <=> Active(o))
  BY <1>1 DEF Live, Active
<1>4. OneLiveTimer'
  BY <1>1, <1>3 DEF Inv, OneLiveTimer, maxRtrSolicitations
<1> QED
  BY <1>2, <1>4 DEF Inv

\* A closure that is not stale is the one live timer, so the budget is not used
\* up yet.
LEMMA CurrentIsLive ==
  ASSUME Inv, NEW c \in posted, Current(c)
  PROVE  /\ c.obj \in Objects /\ Active(c.obj) /\ Live(c.obj) = {c}
         /\ registered = c.obj /\ iface[c.obj].raSent \in 0..2
<1>1. c.obj \in Objects
  BY DEF Inv, TypeOK, Closure
<1>2. Active(c.obj) /\ c \in Live(c.obj)
  BY DEF Current, Active, Live
<1>3. Live(c.obj) = {c} /\ iface[c.obj].raSent < 3
  BY <1>1, <1>2 DEF Inv, OneLiveTimer, maxRtrSolicitations
<1>4. iface[c.obj].raSent \in 0..3
  BY <1>1 DEF Inv, TypeOK, Interface, maxRtrSolicitations
<1> QED
  BY <1>1, <1>2, <1>3, <1>4 DEF Inv, ObjectsOK

LEMMA SolicitTimerFireInv ==
  ASSUME Inv, NEW c \in posted, SolicitTimerFire(c)
  PROVE  Inv'
<1> USE SolicitAssumption
<1>0. /\ TypeOK /\ OneLiveTimer /\ ClosuresOK /\ ObjectsOK
      /\ posted' = posted \ {c} /\ UNCHANGED <<created, registered, haveLL, sendOK>>
      /\ c \in Closure /\ c.obj \in Objects /\ c.gen \in 1..MaxSetups /\ c \notin armed
      /\ wire' \in Sessions \cup {None}
  <2>1. c \in Closure
    BY DEF Inv, TypeOK
  <2>2. <<c.obj, c.gen>> \in Sessions
    BY <2>1 DEF Closure, Sessions
  <2>3. wire' \in {<<c.obj, c.gen>>, None}
    BY DEF SolicitTimerFire, Silent, Sent
  <2> QED
    BY <2>1, <2>2, <2>3 DEF Inv, SolicitTimerFire, TypeOK, Closure, ClosuresOK
<1>1. CASE ~Current(c) /\ UNCHANGED <<iface, armed>>
  <2>1. TypeOK' /\ ClosuresOK' /\ ObjectsOK'
    BY <1>0, <1>1 DEF TypeOK, ClosuresOK, ObjectsOK, Active
  <2>2. ASSUME NEW o \in Objects, Active(o)'
        PROVE  Active(o) /\ Live(o)' = Live(o)
    <3>1. Active(o)
      BY <1>1, <2>2 DEF Active
    <3>2. c \notin Live(o)
      BY <1>1, <3>1 DEF Live, Active, Current
    <3> QED
      BY <1>0, <1>1, <3>1, <3>2 DEF Live
  <2>3. OneLiveTimer'
    BY <1>0, <1>1, <2>2 DEF OneLiveTimer, maxRtrSolicitations
  <2> QED
    BY <2>1, <2>3 DEF Inv
<1>2. ASSUME Current(c), NEW n \in 0..2, Rearm(c, n) PROVE Inv'
  <2> DEFINE o == c.obj
  <2>1. Active(o) /\ Live(o) = {c}
    BY <1>2, CurrentIsLive
  <2> DEFINE t == c.id
  <2>2. /\ iface' = [iface EXCEPT ![o] = [@ EXCEPT !.raSent = n, !.rsTimer = t]]
        /\ armed' = armed \cup {AfterFunc(t, o, c.gen)}
    BY <1>0, <1>2 DEF Rearm, TypeOK, Interface
  <2> DEFINE new == AfterFunc(t, o, c.gen)
  <2>3. /\ new \in Closure /\ new.id = t /\ new.obj = o /\ new.gen = c.gen
        /\ \A d \in armed \cup posted : d # c => d.id # t
    BY <1>0 DEF AfterFunc, Closure, ClosuresOK
  <2>4. /\ \A x \in Objects : x # o => iface'[x] = iface[x]
        /\ iface'[o] \in Interface /\ iface' \in [Objects -> Interface]
        /\ iface'[o].raSent = n /\ iface'[o].rsTimer = t
        /\ iface'[o].rsTimerN = iface[o].rsTimerN /\ iface'[o].router = iface[o].router
        /\ iface'[o].Master = iface[o].Master /\ iface'[o].RA = iface[o].RA
    <3>1. iface'[o] = [iface[o] EXCEPT !.raSent = n, !.rsTimer = t]
      BY <1>0, <2>2 DEF TypeOK
    <3>2. iface[o] \in Interface /\ t \in Timers /\ n \in 0..maxRtrSolicitations
      BY <1>0 DEF TypeOK, Closure, maxRtrSolicitations
    <3>3. iface'[o] \in Interface
      BY <3>1, <3>2 DEF Interface
    <3>4. \A x \in Objects : x # o => iface'[x] = iface[x]
      BY <1>0, <2>2 DEF TypeOK
    <3>5. iface' \in [Objects -> Interface]
      BY <1>0, <2>2, <3>1, <3>3 DEF TypeOK
    <3> QED
      BY <3>1, <3>2, <3>3, <3>4, <3>5 DEF Interface
  <2>5. armed' = armed \cup {new}
    BY <2>2
  <2> HIDE DEF new
  <2>6. TypeOK'
    BY <1>0, <2>3, <2>4, <2>5 DEF TypeOK
  <2>7. \A x \in Objects : iface'[x].rsTimerN = iface[x].rsTimerN
    BY <2>4
  <2>8. c.gen = iface[o].rsTimerN /\ o \in created
    BY <1>0, <1>2 DEF Current, ClosuresOK
  <2>9. ClosuresOK'
    <3>1. ASSUME NEW d \in (armed \cup posted)'
          PROVE  /\ d.gen <= iface'[d.obj].rsTimerN /\ d.obj \in created'
                 /\ \A x \in Objects : d.id = iface'[x].rsTimer => d.obj = x
      <4>1. CASE d = new
        <5>1. d.gen <= iface'[d.obj].rsTimerN /\ d.obj \in created'
          BY <1>0, <2>3, <2>7, <2>8, <4>1
        <5>2. \A x \in Objects : x # o => iface[x].rsTimer # t
          BY <1>0 DEF ClosuresOK
        <5> QED
          BY <2>3, <2>4, <4>1, <5>1, <5>2
      <4>2. CASE d \in (armed \cup posted) \ {c}
        <5>1. d.obj \in Objects /\ d.id # t
          BY <1>0, <2>3, <4>2 DEF TypeOK, Closure
        <5> QED
          BY <1>0, <2>4, <2>7, <4>2, <5>1 DEF ClosuresOK
      <4> QED
        BY <1>0, <2>5, <4>1, <4>2
    <3>2. armed' \cap posted' = {}
      BY <1>0, <2>3, <2>5 DEF ClosuresOK
    <3>3. \A d, e \in (armed \cup posted)' : d.id = e.id => d = e
      BY <1>0, <2>3, <2>5 DEF ClosuresOK
    <3> QED
      BY <3>1, <3>2, <3>3 DEF ClosuresOK
  <2>10. OneLiveTimer'
    <3>1. SUFFICES ASSUME NEW x \in Objects, Active(x)'
                   PROVE  /\ Live(x)' # {} <=> iface'[x].raSent < maxRtrSolicitations
                          /\ \A d, e \in Live(x)' : d = e
      BY DEF OneLiveTimer, maxRtrSolicitations
    <3>2. CASE x = o
      <4>1. Live(o)' = {new}
        BY <1>0, <2>1, <2>3, <2>5, <2>7, <2>8 DEF Live
      <4> QED
        BY <2>4, <3>2, <4>1 DEF maxRtrSolicitations
    <3>3. CASE x # o
      <4>1. iface'[x] = iface[x] /\ Active(x)
        BY <2>4, <3>1, <3>3 DEF Active
      <4>2. Live(x)' = Live(x)
        BY <1>0, <2>3, <2>5, <3>3, <4>1 DEF Live
      <4> QED
        BY <1>0, <4>1, <4>2 DEF OneLiveTimer
    <3> QED
      BY <3>2, <3>3
  <2>11. ObjectsOK'
    BY <1>0, <2>4, <2>8 DEF ObjectsOK, Active
  <2> QED
    BY <2>6, <2>9, <2>10, <2>11 DEF Inv
<1>3. ASSUME Current(c), iface[c.obj].raSent = 2,
             iface' = [iface EXCEPT ![c.obj].raSent = 3], UNCHANGED armed
      PROVE  Inv'
  <2> DEFINE o == c.obj
  <2>1. Active(o) /\ Live(o) = {c}
    BY <1>3, CurrentIsLive
  <2>2. /\ \A x \in Objects : x # o => iface'[x] = iface[x]
        /\ iface'[o] \in Interface /\ iface' \in [Objects -> Interface]
        /\ iface'[o].raSent = 3 /\ iface'[o].rsTimer = iface[o].rsTimer
        /\ iface'[o].rsTimerN = iface[o].rsTimerN /\ iface'[o].router = iface[o].router
        /\ iface'[o].Master = iface[o].Master /\ iface'[o].RA = iface[o].RA
    <3>1. iface'[o] = [iface[o] EXCEPT !.raSent = 3]
      BY <1>0, <1>3 DEF TypeOK
    <3>2. iface[o] \in Interface /\ 3 \in 0..maxRtrSolicitations
      BY <1>0 DEF TypeOK, maxRtrSolicitations
    <3>3. iface'[o] \in Interface
      BY <3>1, <3>2 DEF Interface
    <3> QED
      BY <1>0, <1>3, <3>1, <3>2, <3>3 DEF TypeOK, Interface
  <2>3. TypeOK'
    BY <1>0, <1>3, <2>2 DEF TypeOK
  <2>4. \A x \in Objects : iface'[x].rsTimerN = iface[x].rsTimerN /\ iface'[x].rsTimer = iface[x].rsTimer
    BY <2>2
  <2>5. ClosuresOK'
    <3>1. \A d \in armed \cup posted : d.obj \in Objects
      BY <1>0 DEF TypeOK, Closure
    <3> QED
      BY <1>0, <1>3, <2>4, <3>1 DEF ClosuresOK
  <2>6. OneLiveTimer'
    <3>1. SUFFICES ASSUME NEW x \in Objects, Active(x)'
                   PROVE  /\ Live(x)' # {} <=> iface'[x].raSent < maxRtrSolicitations
                          /\ \A d, e \in Live(x)' : d = e
      BY DEF OneLiveTimer, maxRtrSolicitations
    <3>2. CASE x = o
      <4>1. Live(o)' = {}
        BY <1>0, <1>3, <2>1, <2>4 DEF Live
      <4> QED
        BY <2>2, <3>2, <4>1 DEF maxRtrSolicitations
    <3>3. CASE x # o
      <4>1. iface'[x] = iface[x] /\ Active(x)
        BY <2>2, <3>1, <3>3 DEF Active
      <4>2. Live(x)' = Live(x)
        BY <1>0, <1>3, <3>3, <4>1 DEF Live
      <4> QED
        BY <1>0, <4>1, <4>2 DEF OneLiveTimer
    <3> QED
      BY <3>2, <3>3
  <2>7. ObjectsOK'
    BY <1>0, <2>2 DEF ObjectsOK, ClosuresOK, Active
  <2> QED
    BY <2>3, <2>5, <2>6, <2>7 DEF Inv
<1>4. Current(c) => iface[c.obj].raSent \in 0..2
  BY CurrentIsLive
<1> QED
  <2>1. CASE Current(c) /\ Rearm(c, iface[c.obj].raSent)
    BY <1>2, <1>4, <2>1
  <2>2. CASE Current(c) /\ iface[c.obj].raSent + 1 < 3 /\ Rearm(c, iface[c.obj].raSent + 1)
    <3>1. iface[c.obj].raSent + 1 \in 0..2
      BY <1>4, <2>2
    <3> QED
      BY <1>2, <2>2, <3>1
  <2>3. CASE /\ Current(c) /\ iface[c.obj].raSent + 1 >= 3 /\ UNCHANGED armed
             /\ iface' = [iface EXCEPT ![c.obj].raSent = iface[c.obj].raSent + 1]
    <3>1. iface[c.obj].raSent = 2
      BY <1>4, <2>3
    <3> QED
      BY <1>3, <2>3, <3>1
  <2> QED
    BY <1>1, <2>1, <2>2, <2>3 DEF SolicitTimerFire, maxRtrSolicitations

LEMMA NextSplit ==
  ASSUME Inv, [Next]_vars
  PROVE  \/ SetupStep
         \/ \E c \in armed : TimerFires(c)
         \/ \E c \in posted : SolicitTimerFire(c)
         \/ /\ UNCHANGED <<iface, created, registered, armed, posted>>
            /\ haveLL' \in BOOLEAN /\ sendOK' \in BOOLEAN /\ (Silent \/ UNCHANGED vars)
<1>1. ASSUME NEW o \in Objects,
             \E master, slave, running, relinked \in BOOLEAN :
               \/ ReloadKeeps(master, slave, running, relinked)
               \/ ReloadCreates(o, master, slave, running)
               \/ ReloadCloses(slave)
               \/ HandleLinkEvent(running)
               \/ HandleLinkReplaced(running)
               \/ HandleLinkDeleted
      PROVE  SetupStep
  BY <1>1, CallersSetup
<1>2. ASSUME registered # None PROVE registered \in Objects
  BY <1>2 DEF Inv, TypeOK
<1>3. CASE AddressEvent \/ SendChanges \/ UNCHANGED vars
  BY <1>3 DEF AddressEvent, SendChanges, vars, Inv, TypeOK
<1> QED
  BY <1>1, <1>2, <1>3
  DEF Next, ReloadKeeps, ReloadCloses, HandleLinkEvent, HandleLinkReplaced, HandleLinkDeleted

LEMMA NextInv == Inv /\ [Next]_vars => Inv'
<1> SUFFICES ASSUME Inv, [Next]_vars PROVE Inv'
  OBVIOUS
<1>1. ASSUME NEW c \in armed, TimerFires(c) PROVE Inv'
  BY <1>1, TimerFiresInv
<1>2. ASSUME NEW c \in posted, SolicitTimerFire(c) PROVE Inv'
  BY <1>2, SolicitTimerFireInv
<1>3. ASSUME UNCHANGED <<iface, created, registered, armed, posted>>,
             haveLL' \in BOOLEAN, sendOK' \in BOOLEAN, Silent \/ UNCHANGED vars
      PROVE  Inv'
  BY <1>3 DEF Inv, TypeOK, OneLiveTimer, ClosuresOK, ObjectsOK, Silent, vars, Active, Live, maxRtrSolicitations
<1>4. CASE SetupStep
  BY <1>4, SetupInv DEF SetupStep
<1> QED
  BY <1>1, <1>2, <1>3, <1>4, NextSplit

LEMMA Invariance == Spec => []Inv
  BY InitInv, NextInv, PTL DEF Spec

\* Exactly one live timer while solicitations are left, none afterwards.
THEOREM TimerIsUnique == Spec => []OneLiveTimer
<1>1. Inv => OneLiveTimer
  BY DEF Inv
<1> QED
  BY <1>1, Invariance, PTL

\* The type invariant, which bounds the solicitations of a generation by three.
THEOREM SolicitTypeCorrect == Spec => []TypeOK
<1>1. Inv => TypeOK
  BY DEF Inv
<1> QED
  BY <1>1, Invariance, PTL

-----------------------------------------------------------------------------
(* Refinement of SolicitBudget.                                            *)

StartedSessions == {s \in Sessions : s[2] <= iface[s[1]].rsTimerN}

PromiseVars == <<StartedSessions, CurrentSession, SolicitsLeft, wire>>

\* The mapped variables depend on these alone.
LEMMA SameView ==
  ASSUME UNCHANGED <<iface, registered>>
  PROVE  UNCHANGED <<StartedSessions, CurrentSession, SolicitsLeft>>
  BY DEF StartedSessions, CurrentSession, SolicitsLeft, CurrentActive, Active

\* routerSetup stops the service or starts a session of its own, with a full
\* budget.
LEMMA SetupRefines ==
  ASSUME Inv, NEW o, NEW i, NEW A, NEW enable \in BOOLEAN,
         Prepared(o, i, A), RouterSetup(o, i, A, enable),
         registered' = o \/ (registered' = None /\ ~enable), Silent
  PROVE  Promise!Next
<1> USE SolicitAssumption
<1>1. /\ \A x \in Objects : x # o => iface'[x] = iface[x]
      /\ Stopped(o, i) \/ \E t \in Free : Started(o, i, A, t)
      /\ ~enable => Stopped(o, i)
      /\ o \in Objects /\ o # None /\ i.rsTimerN = iface[o].rsTimerN
  BY SetupOutcome DEF Inv, Prepared
<1>2. \A s \in Sessions : s[1] \in Objects /\ s[2] \in 1..MaxSetups /\ s = <<s[1], s[2]>>
  BY DEF Sessions
<1>3. CASE Stopped(o, i)
  <2>0. ~CurrentActive'
    BY <1>1, <1>3 DEF CurrentActive, Active, Stopped
  <2>1. \A x \in Objects : iface'[x].rsTimerN = iface[x].rsTimerN
    BY <1>1, <1>3 DEF Stopped
  <2>2. UNCHANGED StartedSessions
    BY <1>2, <2>1 DEF StartedSessions
  <2>3. CurrentSession' = None /\ SolicitsLeft' = 0
    BY <2>0 DEF CurrentSession, SolicitsLeft
  <2> QED
    BY <2>2, <2>3 DEF Promise!Next, Promise!Stop, StartedSessions, Silent
<1>4. CASE ~Stopped(o, i)
  <2>1. PICK t \in Free : Started(o, i, A, t)
    BY <1>1, <1>4
  <2> DEFINE new == <<o, i.rsTimerN + 1>>
  <2>2. /\ iface'[o].rsTimerN = i.rsTimerN + 1 /\ iface'[o].raSent = 0
        /\ new \in Sessions /\ i.rsTimerN \in Nat
    <3>1. i.rsTimerN + 1 \in 1..MaxSetups /\ i.rsTimerN \in 0..MaxSetups
      BY <2>1 DEF Started, Prepared, Interface
    <3> QED
      BY <1>1, <2>1, <3>1 DEF Started, Sessions
  <2>3. new \notin StartedSessions
    BY <1>1, <2>2 DEF StartedSessions
  <2>4. StartedSessions' = StartedSessions \cup {new}
    <3>1. ASSUME NEW s \in Sessions
          PROVE  s[2] <= iface'[s[1]].rsTimerN <=> (s[2] <= iface[s[1]].rsTimerN \/ s = new)
      <4>1. CASE s[1] = o
        BY <1>1, <1>2, <2>2, <4>1
      <4>2. CASE s[1] # o
        BY <1>1, <1>2, <4>2
      <4> QED
        BY <4>1, <4>2
    <3> QED
      BY <2>2, <3>1 DEF StartedSessions
  <2>5. registered' = o
    BY <1>1, <1>4
  <2>6. CurrentActive'
    BY <1>1, <2>1, <2>5 DEF CurrentActive, Active, Started
  <2>7. CurrentSession' = new /\ SolicitsLeft' = maxRtrSolicitations
    BY <2>2, <2>5, <2>6 DEF CurrentSession, SolicitsLeft, maxRtrSolicitations
  <2>8. Promise!Start(new)
    BY <2>3, <2>4, <2>7 DEF Promise!Start, StartedSessions, Silent
  <2> QED
    BY <2>2, <2>8 DEF Promise!Next
<1> QED
  BY <1>3, <1>4

\* A closure that is not stale belongs to the session that runs, and what it
\* sends is taken from that session's budget.
LEMMA FireRefines ==
  ASSUME Inv, NEW c \in posted, SolicitTimerFire(c), Current(c)
  PROVE  Promise!Next
<1> USE SolicitAssumption
<1> DEFINE o == c.obj
<1>1. /\ o \in Objects /\ Active(o) /\ iface[o].raSent \in 0..2 /\ iface[o] \in Interface
      /\ registered = o /\ registered' = o /\ o # None /\ c.gen = iface[o].rsTimerN
  BY CurrentIsLive DEF Inv, TypeOK, SolicitTimerFire, Current
<1>2. /\ \A x \in Objects : x # o => iface'[x] = iface[x]
      /\ iface'[o].router = iface[o].router /\ iface'[o].Master = iface[o].Master
      /\ iface'[o].RA = iface[o].RA /\ iface'[o].rsTimerN = iface[o].rsTimerN
      /\ \/ iface'[o].raSent = iface[o].raSent /\ Silent
         \/ iface'[o].raSent = iface[o].raSent + 1 /\ Sent(c)
  <2>1. ASSUME NEW n, Rearm(c, n)
        PROVE  /\ \A x \in Objects : x # o => iface'[x] = iface[x]
               /\ iface'[o].router = iface[o].router /\ iface'[o].Master = iface[o].Master
               /\ iface'[o].RA = iface[o].RA /\ iface'[o].rsTimerN = iface[o].rsTimerN
               /\ iface'[o].raSent = n
    BY <1>1, <2>1 DEF Rearm, Inv, TypeOK, Interface
  <2>2. ASSUME iface' = [iface EXCEPT ![c.obj].raSent = iface[c.obj].raSent + 1]
        PROVE  /\ \A x \in Objects : x # o => iface'[x] = iface[x]
               /\ iface'[o].router = iface[o].router /\ iface'[o].Master = iface[o].Master
               /\ iface'[o].RA = iface[o].RA /\ iface'[o].rsTimerN = iface[o].rsTimerN
               /\ iface'[o].raSent = iface[o].raSent + 1
    BY <1>1, <2>2 DEF Inv, TypeOK, Interface
  <2> QED
    BY <2>1, <2>2 DEF SolicitTimerFire
<1>3. CurrentActive /\ CurrentActive'
  BY <1>1, <1>2 DEF CurrentActive, Active
<1>4. /\ CurrentSession = <<c.obj, c.gen>> /\ UNCHANGED CurrentSession
      /\ SolicitsLeft = 3 - iface[o].raSent /\ SolicitsLeft' = 3 - iface'[o].raSent
  BY <1>1, <1>2, <1>3 DEF CurrentSession, SolicitsLeft, maxRtrSolicitations
<1>5. UNCHANGED StartedSessions
  <2>1. \A x \in Objects : iface'[x].rsTimerN = iface[x].rsTimerN
    BY <1>2
  <2>2. \A s \in Sessions : s[1] \in Objects
    BY DEF Sessions
  <2> QED
    BY <2>1, <2>2 DEF StartedSessions
<1>6. CASE iface'[o].raSent = iface[o].raSent /\ Silent
  BY <1>4, <1>5, <1>6 DEF Promise!Next, Promise!Pause, StartedSessions, Silent
<1>7. CASE iface'[o].raSent = iface[o].raSent + 1 /\ Sent(c)
  <2>1. SolicitsLeft > 0 /\ SolicitsLeft' = SolicitsLeft - 1
    BY <1>1, <1>4, <1>7
  <2>2. CurrentSession # None
    <3>1. <<c.obj, c.gen>> \in Sessions
      BY DEF Inv, TypeOK, Closure, Sessions
    <3> QED
      BY <1>4, <3>1
  <2> QED
    BY <1>4, <1>5, <1>7, <2>1, <2>2 DEF Promise!Next, Promise!Solicit, StartedSessions, Sent
<1> QED
  BY <1>2, <1>6, <1>7

LEMMA StepRefines ==
  ASSUME Inv, [Next]_vars
  PROVE  Promise!Next \/ UNCHANGED PromiseVars
<1>1. CASE SetupStep
  BY <1>1, SetupRefines DEF SetupStep
<1>2. ASSUME UNCHANGED <<iface, registered>>, Silent
      PROVE  Promise!Next
  BY <1>2, SameView DEF Promise!Next, Promise!Pause, StartedSessions, Silent
<1>3. ASSUME NEW c \in posted, SolicitTimerFire(c)
      PROVE  Promise!Next
  <2>1. CASE Current(c)
    BY <1>3, <2>1, FireRefines
  <2>2. CASE ~Current(c)
    BY <1>2, <1>3, <2>2 DEF SolicitTimerFire
  <2> QED
    BY <2>1, <2>2
<1>4. ASSUME UNCHANGED vars PROVE UNCHANGED PromiseVars
  BY <1>4, SameView DEF PromiseVars, vars
<1> QED
  BY <1>1, <1>2, <1>3, <1>4, NextSplit DEF TimerFires

\* The timers, generations and closures implement SolicitBudget: every
\* solicitation that solicitTimerFire sends is one of the three of the session
\* that runs at that moment, so no closure of an object that is closed, disabled
\* or set up anew ever sends one.
THEOREM BudgetIsKept == Spec => KeepsPromise
<1>1. Init => Promise!Init
  <2>1. ASSUME Init PROVE StartedSessions = {}
    <3>1. \A s \in Sessions : s[1] \in Objects /\ s[2] \in 1..MaxSetups
      BY DEF Sessions
    <3>2. \A o \in Objects : iface[o].rsTimerN = 0
      BY <2>1 DEF Init, NewInterface
    <3> QED
      BY <3>1, <3>2, SolicitAssumption DEF StartedSessions
  <2> QED
    BY <2>1 DEF Init, Promise!Init, CurrentActive, CurrentSession, SolicitsLeft, StartedSessions
<1>2. Inv /\ [Next]_vars => [Promise!Next]_PromiseVars
  BY StepRefines
<1> QED
  BY <1>1, <1>2, Invariance, PTL
  DEF Spec, KeepsPromise, Promise!Spec, PromiseVars, StartedSessions
=============================================================================
