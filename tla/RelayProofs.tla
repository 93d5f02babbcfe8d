---------------------------- MODULE RelayProofs ----------------------------
(***************************************************************************)
(* The life of an interface, for any config files, netdevs and hosts, with *)
(* restarts of the daemon and a monitor that may end.                      *)
(***************************************************************************)
EXTENDS Relay, TLAPS

\* Spec with the restarts and the end of the monitor: FairFaultySpec but for fairness.
FaultySpec == Init /\ [][FaultyNext]_vars

Events(ch) == {ch[i] : i \in DOMAIN ch}

\* The links with a carrier or a resolved neighbour exist.
KernelOK ==
  /\ \A d \in Devs : dev[d].running => dev[d].ix # NoIdx
  /\ \A h \in Hosts : neigh[h] = "resolved" => dev[Behind[h]].running

\* The interfaces that the closure in progress, if any, has dealt with.
Ready == IF phase = "parse" THEN {} ELSE registered \ todo

\* Between the steps of Reload: what is left to do, and which interfaces Inuse marks.
DaemonOK ==
  /\ phase = "idle" => todo = {}
  /\ phase = "apply" => todo \subseteq registered
  /\ phase = "parse" => todo \subseteq DOMAIN root
  /\ \A n \in Names : n \notin registered => interfaces[n] = NewInterface
  /\ \A n \in Names : interfaces[n].Inuse =>
       n \in DOMAIN root /\ interfaces[n].Ifname = root[n].Ifname

SocketOK(n) ==
  /\ interfaces[n].Inuse
  /\ interfaces[n].ndp # NoIdx => /\ interfaces[n].ndp = interfaces[n].Ifindex
                                  /\ interfaces[n].Running /\ interfaces[n].NDP = "relay"
ReadyOK == \A n \in Ready : SocketOK(n)

\* Nobody takes an index for that of another netdev: own[ix] is the one that ever
\* had it, whether the kernel, an event, a key, a route or an interface remembers it.
Owned(own, ix, d) == ix # NoIdx => ix <= lastIdx /\ own[ix] = d
Owns(own) ==
  /\ \A d \in Devs : Owned(own, dev[d].ix, d)
  /\ \A n \in Names : Owned(own, interfaces[n].Ifindex, interfaces[n].Ifname)
  /\ \A e \in Events(linkCh) : Owned(own, e.ix, e.dev)
  /\ \A e \in Events(neighCh) : Owned(own, e.ix, Behind[e.host])
  /\ \A k \in mirroredNeighs : Owned(own, k[2], Behind[k[1]])
  /\ \A h \in Hosts : Owned(own, route[h], Behind[h])
IndexOK == \E own \in [Idx -> Devs] : Owns(own)

Inv == TypeOK /\ KernelOK /\ DaemonOK /\ ReadyOK /\ IndexOK

-----------------------------------------------------------------------------
(* Event queues.                                                           *)

LEMMA Appended ==
  ASSUME NEW S, NEW s \in Seq(S), NEW x \in S
  PROVE  Append(s, x) \in Seq(S) /\ Events(Append(s, x)) = Events(s) \cup {x}
<1>1. /\ Append(s, x) \in Seq(S) /\ DOMAIN Append(s, x) = DOMAIN s \cup {Len(s) + 1}
      /\ Append(s, x)[Len(s) + 1] = x /\ \A i \in DOMAIN s : Append(s, x)[i] = s[i]
  OBVIOUS
<1> QED
  BY <1>1 DEF Events

LEMMA Taken ==
  ASSUME NEW S, NEW s \in Seq(S), s # << >>
  PROVE  /\ Head(s) \in S /\ Tail(s) \in Seq(S)
         /\ Events(s) = {Head(s)} \cup Events(Tail(s))
<1>1. /\ Head(s) \in S /\ Tail(s) \in Seq(S) /\ Head(s) = s[1] /\ Len(s) \in Nat \ {0}
      /\ DOMAIN s = 1..Len(s) /\ DOMAIN Tail(s) = 1..(Len(s) - 1)
      /\ \A i \in 1..(Len(s) - 1) : Tail(s)[i] = s[i + 1]
  OBVIOUS
<1>2. \A e \in Events(s) : e = Head(s) \/ e \in Events(Tail(s))
  <2> SUFFICES ASSUME NEW i \in DOMAIN s, i # 1 PROVE s[i] \in Events(Tail(s))
    BY <1>1 DEF Events
  <2>1. i - 1 \in DOMAIN Tail(s) /\ Tail(s)[i - 1] = s[i]
    BY <1>1
  <2> QED
    BY <2>1 DEF Events
<1>3. \A e \in Events(Tail(s)) : e \in Events(s)
  <2> SUFFICES ASSUME NEW i \in DOMAIN Tail(s) PROVE Tail(s)[i] \in Events(s)
    BY DEF Events
  <2>1. i + 1 \in DOMAIN s /\ Tail(s)[i] = s[i + 1]
    BY <1>1
  <2> QED
    BY <2>1 DEF Events
<1>4. Head(s) \in Events(s)
  BY <1>1 DEF Events
<1> QED
  BY <1>1, <1>2, <1>3, <1>4

LEMMA EventType ==
  ASSUME NEW S, NEW s \in Seq(S)
  PROVE  Events(s) \subseteq S /\ (s = << >> <=> Events(s) = {})
<1>1. Events(s) \subseteq S
  BY DEF Events
<1>2. s # << >> => Head(s) \in Events(s)
  BY Taken
<1>3. s = << >> => Events(s) = {}
  BY DEF Events
<1> QED
  BY <1>1, <1>2, <1>3

-----------------------------------------------------------------------------
(* The kernel.                                                             *)

LEMMA Constants ==
  /\ MaxIdx \in Nat /\ Idx = 1..MaxIdx /\ NoIdx = 0 /\ NoIdx \notin Idx
  /\ 0..MaxIdx = Idx \cup {NoIdx}
  /\ Behind \in [Hosts -> Devs]
<1>1. MaxIdx \in Nat /\ Behind \in [Hosts -> Devs]
  BY RelayAssumption
<1> QED
  BY <1>1 DEF Idx, NoIdx

LEMMA FieldTypes ==
  ASSUME TypeOK
  PROVE  /\ \A d \in Devs : dev[d].ix \in Idx \cup {NoIdx} /\ dev[d].running \in BOOLEAN
         /\ \A n \in Names : /\ interfaces[n].Ifindex \in Idx \cup {NoIdx}
                             /\ interfaces[n].ndp \in Idx \cup {NoIdx}
                             /\ interfaces[n].Ifname \in Devs \cup {""}
         /\ \A h \in Hosts : route[h] \in Idx \cup {NoIdx} /\ OnLink(h) \in Idx \cup {NoIdx}
         /\ \A e \in Events(linkCh) : e \in LinkEvent
         /\ \A e \in Events(neighCh) : e \in NeighEvent
<1>1. \A d \in Devs : dev[d].ix \in Idx \cup {NoIdx} /\ dev[d].running \in BOOLEAN
  BY Constants DEF TypeOK
<1>2. \A n \in Names : /\ interfaces[n].Ifindex \in Idx \cup {NoIdx}
                       /\ interfaces[n].ndp \in Idx \cup {NoIdx}
                       /\ interfaces[n].Ifname \in Devs \cup {""}
  BY Constants DEF TypeOK, Interface
<1>3. \A h \in Hosts : route[h] \in Idx \cup {NoIdx} /\ OnLink(h) \in Idx \cup {NoIdx}
  BY <1>1, Constants DEF TypeOK, OnLink
<1>4. linkCh \in Seq(LinkEvent) /\ neighCh \in Seq(NeighEvent)
  BY DEF TypeOK
<1>5. \A e \in Events(linkCh) : e \in LinkEvent
  BY <1>4, EventType
<1>6. \A e \in Events(neighCh) : e \in NeighEvent
  BY <1>4, EventType
<1> QED
  BY <1>1, <1>2, <1>3, <1>5, <1>6

\* What Flush takes away, and that nothing else changes.
LEMMA FlushEffect ==
  ASSUME TypeOK, NEW d \in Devs, Flush(d), dev[d].ix # NoIdx
  PROVE  /\ neigh' \in [Hosts -> {"none", "resolved", "failed"}]
         /\ \A h \in Hosts : neigh'[h] = "resolved" => neigh[h] = "resolved" /\ Behind[h] # d
         /\ route' \in [Hosts -> 0..MaxIdx] /\ pin' \in [Hosts -> 0..MaxIdx]
         /\ \A h \in Hosts : route'[h] = (IF route[h] = dev[d].ix THEN NoIdx ELSE route[h])
         /\ routeCh' \subseteq Idx
         /\ proxy' = {p \in proxy : p[2] # dev[d].ix}
<1>1. dev[d].ix \in Idx /\ NoIdx \in 0..MaxIdx
  BY FieldTypes, Constants
<1> QED
  BY <1>1 DEF Flush, TypeOK

LEMMA AnnounceEffect ==
  ASSUME TypeOK, NEW type \in {"new", "del"}, NEW d \in Devs, NEW ix \in Idx,
         NEW running \in BOOLEAN, Announce(type, d, ix, running)
  PROVE  /\ linkCh' \in Seq(LinkEvent)
         /\ Events(linkCh') = Events(linkCh) \cup
              {[type |-> type, dev |-> d, ix |-> ix, running |-> running]}
<1>1. linkCh \in Seq(LinkEvent)
  BY DEF TypeOK
<1>2. [type |-> type, dev |-> d, ix |-> ix, running |-> running] \in LinkEvent
  BY DEF LinkEvent
<1> QED
  BY <1>1, <1>2, Appended DEF Announce

\* The event names the link by the index it has or had.
LEMMA AnnounceOwned ==
  ASSUME TypeOK, NEW own, Owns(own), lastIdx' = lastIdx, NEW type \in {"new", "del"},
         NEW d \in Devs, dev[d].ix \in Idx, NEW running \in BOOLEAN,
         Announce(type, d, dev[d].ix, running)
  PROVE  \A e \in Events(linkCh)' : Owned(own, e.ix, e.dev)'
<1> DEFINE new == [type |-> type, dev |-> d, ix |-> dev[d].ix, running |-> running]
<1>1. \A e \in Events(linkCh)' : e \in Events(linkCh) \/ e = new
  BY AnnounceEffect
<1>2. new.ix = dev[d].ix /\ new.dev = d
  OBVIOUS
<1> HIDE DEF new
<1> QED
  BY <1>1, <1>2 DEF Owns, Owned

LEMMA LinkGoesDownInv ==
  ASSUME Inv, NEW d \in Devs, LinkGoesDown(d)
  PROVE  Inv'
<1>0. /\ dev[d].running /\ dev[d].ix \in Idx /\ dev[d].ix # NoIdx
      /\ dev' = [dev EXCEPT ![d].running = FALSE]
      /\ Flush(d) /\ Announce("new", d, dev[d].ix, FALSE)
      /\ UNCHANGED <<lastIdx, neighCh, proxyNdp, file, reload, monitor, root, registered, interfaces,
                     mirroredNeighs, reconcileScheduled, phase, todo>>
  BY FieldTypes DEF LinkGoesDown, Inv, KernelOK, configVars, daemonVars
<1>a. /\ dev' \in [Devs -> [ix : 0..MaxIdx, running : BOOLEAN]]
      /\ \A c \in Devs : dev'[c].ix = dev[c].ix /\ (c # d => dev'[c] = dev[c])
  BY <1>0 DEF Inv, TypeOK
<1>1. TypeOK'
  <2>1. linkCh' \in Seq(LinkEvent)
    BY <1>0, AnnounceEffect DEF Inv
  <2>2. /\ neigh' \in [Hosts -> {"none", "resolved", "failed"}]
        /\ route' \in [Hosts -> 0..MaxIdx] /\ pin' \in [Hosts -> 0..MaxIdx]
        /\ routeCh' \subseteq Idx /\ proxy' \subseteq proxy
    BY <1>0, FlushEffect DEF Inv
  <2> QED
    BY <1>0, <1>a, <2>1, <2>2 DEF Inv, TypeOK
<1>2. KernelOK'
  BY <1>0, <1>a, FlushEffect, Constants DEF Inv, KernelOK
<1>3. DaemonOK' /\ ReadyOK'
  BY <1>0 DEF Inv, DaemonOK, ReadyOK, Ready, SocketOK
<1>4. IndexOK'
  <2>1. PICK own \in [Idx -> Devs] : Owns(own)
    BY DEF Inv, IndexOK
  <2>2. Owns(own)'
    <3>1. \A e \in Events(linkCh)' : Owned(own, e.ix, e.dev)'
      BY <1>0, <2>1, AnnounceOwned DEF Inv
    <3>2. \A h \in Hosts : Owned(own, route[h], Behind[h])'
      BY <1>0, <2>1, FlushEffect DEF Inv, Owns, Owned
    <3> QED
      BY <1>0, <1>a, <2>1, <3>1, <3>2 DEF Owns, Owned
  <2> QED
    BY <2>2 DEF IndexOK
<1> QED
  BY <1>1, <1>2, <1>3, <1>4 DEF Inv

LEMMA LinkComesUpInv ==
  ASSUME Inv, NEW d \in Devs, LinkComesUp(d)
  PROVE  Inv'
<1>0. /\ dev[d].ix \in Idx /\ dev[d].ix # NoIdx
      /\ dev' = [dev EXCEPT ![d].running = TRUE]
      /\ Announce("new", d, dev[d].ix, TRUE)
      /\ UNCHANGED <<lastIdx, neigh, neighCh, route, proxy, proxyNdp, routeCh, pin, file, reload,
                     monitor, root, registered, interfaces, mirroredNeighs, reconcileScheduled,
                     phase, todo>>
  BY FieldTypes DEF LinkComesUp, Inv, tableVars, configVars, daemonVars
<1>a. /\ dev' \in [Devs -> [ix : 0..MaxIdx, running : BOOLEAN]]
      /\ \A c \in Devs : dev'[c].ix = dev[c].ix /\ (c # d => dev'[c] = dev[c])
      /\ dev'[d].running
  BY <1>0 DEF Inv, TypeOK
<1>1. TypeOK'
  BY <1>0, <1>a, AnnounceEffect DEF Inv, TypeOK
<1>2. KernelOK'
  BY <1>0, <1>a, Constants DEF Inv, KernelOK
<1>3. DaemonOK' /\ ReadyOK'
  BY <1>0 DEF Inv, DaemonOK, ReadyOK, Ready, SocketOK
<1>4. IndexOK'
  <2>1. PICK own \in [Idx -> Devs] : Owns(own)
    BY DEF Inv, IndexOK
  <2>2. Owns(own)'
    <3>1. \A e \in Events(linkCh)' : Owned(own, e.ix, e.dev)'
      BY <1>0, <2>1, AnnounceOwned DEF Inv
    <3> QED
      BY <1>0, <1>a, <2>1, <3>1 DEF Owns, Owned
  <2> QED
    BY <2>2 DEF IndexOK
<1> QED
  BY <1>1, <1>2, <1>3, <1>4 DEF Inv

LEMMA LinkDeletedInv ==
  ASSUME Inv, NEW d \in Devs, LinkDeleted(d)
  PROVE  Inv'
<1>0. /\ dev[d].ix \in Idx /\ dev[d].ix # NoIdx
      /\ dev' = [dev EXCEPT ![d] = [ix |-> NoIdx, running |-> FALSE]]
      /\ Flush(d) /\ Announce("del", d, dev[d].ix, FALSE)
      /\ proxyNdp' = proxyNdp \ {d}
      /\ UNCHANGED <<lastIdx, neighCh, file, reload, monitor, root, registered, interfaces,
                     mirroredNeighs, reconcileScheduled, phase, todo>>
  BY FieldTypes DEF LinkDeleted, Inv, configVars, daemonVars
<1>a. /\ dev' \in [Devs -> [ix : 0..MaxIdx, running : BOOLEAN]]
      /\ dev'[d].ix = NoIdx /\ ~dev'[d].running /\ \A c \in Devs : c # d => dev'[c] = dev[c]
  BY <1>0, Constants DEF Inv, TypeOK
<1>1. TypeOK'
  <2>1. linkCh' \in Seq(LinkEvent)
    BY <1>0, AnnounceEffect DEF Inv
  <2>2. /\ neigh' \in [Hosts -> {"none", "resolved", "failed"}]
        /\ route' \in [Hosts -> 0..MaxIdx] /\ pin' \in [Hosts -> 0..MaxIdx]
        /\ routeCh' \subseteq Idx /\ proxy' \subseteq proxy
    BY <1>0, FlushEffect DEF Inv
  <2> QED
    BY <1>0, <1>a, <2>1, <2>2 DEF Inv, TypeOK
<1>2. KernelOK'
  BY <1>0, <1>a, FlushEffect, Constants DEF Inv, KernelOK
<1>3. DaemonOK' /\ ReadyOK'
  BY <1>0 DEF Inv, DaemonOK, ReadyOK, Ready, SocketOK
<1>4. IndexOK'
  <2>1. PICK own \in [Idx -> Devs] : Owns(own)
    BY DEF Inv, IndexOK
  <2>2. Owns(own)'
    <3>1. \A e \in Events(linkCh)' : Owned(own, e.ix, e.dev)'
      BY <1>0, <2>1, AnnounceOwned DEF Inv
    <3>2. \A h \in Hosts : Owned(own, route[h], Behind[h])'
      BY <1>0, <2>1, FlushEffect DEF Inv, Owns, Owned
    <3> QED
      BY <1>0, <1>a, <2>1, <3>1, <3>2 DEF Owns, Owned
  <2> QED
    BY <2>2 DEF IndexOK
<1> QED
  BY <1>1, <1>2, <1>3, <1>4 DEF Inv

\* The index of a new link is one that nobody has heard of.
LEMMA LinkCreatedInv ==
  ASSUME Inv, NEW d \in Devs, LinkCreated(d)
  PROVE  Inv'
<1>n. PICK new : new = lastIdx + 1
  OBVIOUS
<1>0. /\ dev[d].ix = NoIdx /\ lastIdx' = new /\ new \in Idx /\ new # NoIdx
      /\ lastIdx \in Nat /\ lastIdx' \in 0..MaxIdx
      /\ dev' = [dev EXCEPT ![d] = [ix |-> new, running |-> FALSE]]
      /\ Announce("new", d, new, FALSE)
      /\ UNCHANGED <<neigh, neighCh, route, proxy, proxyNdp, routeCh, pin, file, reload, monitor,
                     root, registered, interfaces, mirroredNeighs, reconcileScheduled, phase, todo>>
  <2>1. /\ dev[d].ix = NoIdx /\ lastIdx < MaxIdx /\ lastIdx \in 0..MaxIdx /\ lastIdx' = new
        /\ dev' = [dev EXCEPT ![d] = [ix |-> new, running |-> FALSE]]
        /\ Announce("new", d, new, FALSE)
    BY <1>n DEF LinkCreated, Inv, TypeOK
  <2>2. new \in Idx /\ new # NoIdx /\ lastIdx \in Nat /\ lastIdx' \in 0..MaxIdx
    BY <1>n, <2>1, Constants
  <2> QED
    BY <2>1, <2>2 DEF LinkCreated, tableVars, configVars, daemonVars
<1>a. /\ dev' \in [Devs -> [ix : 0..MaxIdx, running : BOOLEAN]]
      /\ dev'[d].ix = new /\ ~dev'[d].running /\ \A c \in Devs : c # d => dev'[c] = dev[c]
  BY <1>0, Constants DEF Inv, TypeOK
<1>1. TypeOK'
  BY <1>0, <1>a, AnnounceEffect DEF Inv, TypeOK
<1>2. KernelOK'
  BY <1>0, <1>a, Constants DEF Inv, KernelOK
<1>3. DaemonOK' /\ ReadyOK'
  BY <1>0 DEF Inv, DaemonOK, ReadyOK, Ready, SocketOK
<1>4. IndexOK'
  <2>1. PICK own \in [Idx -> Devs] : Owns(own)
    BY DEF Inv, IndexOK
  <2> DEFINE own1 == [own EXCEPT ![new] = d]
  <2>2. /\ own1 \in [Idx -> Devs] /\ own1[new] = d
        /\ \A ix \in Idx : ix <= lastIdx => own1[ix] = own[ix]
        /\ \A ix \in Idx : ix <= lastIdx => ix <= lastIdx'
        /\ new <= lastIdx'
    BY <1>n, <1>0, Constants
  <2>3. \A ix \in Idx \cup {NoIdx} : \A c : Owned(own, ix, c) => Owned(own1, ix, c)'
    BY <2>2 DEF Owned
  <2>4. Owned(own1, new, d)' /\ (\A c : Owned(own1, NoIdx, c)')
    BY <2>2 DEF Owned
  <2> HIDE DEF own1
  <2>5. \A c \in Devs : Owned(own1, dev[c].ix, c)'
    BY <1>a, <2>1, <2>3, <2>4, FieldTypes DEF Inv, Owns
  <2>6. \A n \in Names : Owned(own1, interfaces[n].Ifindex, interfaces[n].Ifname)'
    BY <1>0, <2>1, <2>3, FieldTypes DEF Inv, Owns
  <2>7. \A e \in Events(linkCh)' : Owned(own1, e.ix, e.dev)'
    <3>1. \A e \in Events(linkCh) : e.ix \in Idx
      BY FieldTypes DEF Inv, LinkEvent
    <3>2. Events(linkCh)' = Events(linkCh) \cup
              {[type |-> "new", dev |-> d, ix |-> new, running |-> FALSE]}
      BY <1>0, AnnounceEffect DEF Inv
    <3> QED
      BY <2>1, <2>3, <2>4, <3>1, <3>2 DEF Owns
  <2>8. \A e \in Events(neighCh)' : Owned(own1, e.ix, Behind[e.host])'
    <3>1. \A e \in Events(neighCh) : e.ix \in Idx
      BY FieldTypes DEF Inv, NeighEvent
    <3> QED
      BY <1>0, <2>1, <2>3, <3>1 DEF Owns
  <2>9. \A k \in mirroredNeighs' : Owned(own1, k[2], Behind[k[1]])'
    BY <1>0, <2>1, <2>3 DEF Inv, TypeOK, Owns
  <2>10. \A h \in Hosts : Owned(own1, route[h], Behind[h])'
    BY <1>0, <2>1, <2>3, FieldTypes DEF Inv, Owns
  <2> QED
    BY <2>2, <2>5, <2>6, <2>7, <2>8, <2>9, <2>10 DEF IndexOK, Owns
<1> QED
  BY <1>1, <1>2, <1>3, <1>4 DEF Inv

\* An entry changes, and an event for the link of the host may be queued.
LEMMA NeighStep ==
  ASSUME Inv, NEW h \in Hosts, NEW state \in {"none", "resolved", "failed"},
         neigh' = [neigh EXCEPT ![h] = state],
         neighCh' \in Seq(NeighEvent),
         \A e \in Events(neighCh)' : e \in Events(neighCh) \/ (e.ix = OnLink(h) /\ e.host = h),
         state = "resolved" => dev[Behind[h]].running,
         UNCHANGED <<dev, lastIdx, linkCh, route, proxy, proxyNdp, routeCh, pin, file, reload,
                     monitor, root, registered, interfaces, mirroredNeighs, reconcileScheduled,
                     phase, todo>>
  PROVE  Inv'
<1>1. TypeOK'
  BY DEF Inv, TypeOK
<1>2. KernelOK'
  BY DEF Inv, TypeOK, KernelOK
<1>3. DaemonOK' /\ ReadyOK'
  BY DEF Inv, DaemonOK, ReadyOK, Ready, SocketOK
<1>4. IndexOK'
  <2>1. PICK own \in [Idx -> Devs] : Owns(own)
    BY DEF Inv, IndexOK
  <2>2. Behind[h] \in Devs
    BY RelayAssumption
  <2>3. \A e \in Events(neighCh)' : Owned(own, e.ix, Behind[e.host])'
    BY <2>1, <2>2 DEF Owns, Owned, OnLink
  <2>4. Owns(own)'
    BY <2>1, <2>3 DEF Owns, Owned
  <2> QED
    BY <2>4 DEF IndexOK
<1> QED
  BY <1>1, <1>2, <1>3, <1>4 DEF Inv

LEMMA NeighBecomesInv ==
  ASSUME Inv, NEW h \in Hosts, NEW state \in {"resolved", "failed"}, NeighBecomes(h, state),
         dev[Behind[h]].running
  PROVE  /\ Inv'
         /\ Events(neighCh)' =
              Events(neighCh) \cup {[host |-> h, ix |-> OnLink(h), state |-> state]}
<1> DEFINE e == [host |-> h, ix |-> OnLink(h), state |-> state]
<1>1. OnLink(h) \in Idx
  BY RelayAssumption, FieldTypes DEF Inv, KernelOK, OnLink
<1>2. e \in NeighEvent /\ neighCh \in Seq(NeighEvent) /\ neighCh' = Append(neighCh, e)
  BY <1>1 DEF NeighEvent, NeighBecomes, Inv, TypeOK
<1>3. neighCh' \in Seq(NeighEvent) /\ Events(neighCh)' = Events(neighCh) \cup {e}
  BY <1>2, Appended
<1>4. e.ix = OnLink(h) /\ e.host = h
  OBVIOUS
<1> HIDE DEF e
<1>5. \A d \in Events(neighCh)' : d \in Events(neighCh) \/ (d.ix = OnLink(h) /\ d.host = h)
  BY <1>3, <1>4
<1>6. /\ neigh' = [neigh EXCEPT ![h] = state]
      /\ UNCHANGED <<dev, lastIdx, linkCh, route, proxy, proxyNdp, routeCh, pin, file, reload,
                     monitor, root, registered, interfaces, mirroredNeighs, reconcileScheduled,
                     phase, todo>>
  BY DEF NeighBecomes, linkVars, tableVars, configVars, daemonVars
<1>7. Inv'
  BY <1>3, <1>5, <1>6, NeighStep
<1> QED
  BY <1>3, <1>7 DEF e

LEMMA NeighAnswersInv ==
  ASSUME Inv, NEW h \in Hosts, NeighAnswers(h)
  PROVE  Inv'
BY NeighBecomesInv DEF NeighAnswers

LEMMA NeighFailsInv ==
  ASSUME Inv, NEW h \in Hosts, NeighFails(h)
  PROVE  Inv'
BY NeighBecomesInv DEF NeighFails, Inv, KernelOK

LEMMA NeighGCInv ==
  ASSUME Inv, NEW h \in Hosts, NeighGC(h)
  PROVE  Inv'
<1>1. /\ neigh' = [neigh EXCEPT ![h] = "none"] /\ neighCh' = neighCh
      /\ UNCHANGED <<dev, lastIdx, linkCh, route, proxy, proxyNdp, routeCh, pin, file, reload,
                     monitor, root, registered, interfaces, mirroredNeighs, reconcileScheduled,
                     phase, todo>>
  BY DEF NeighGC, linkVars, tableVars, configVars, daemonVars
<1>2. /\ neighCh' \in Seq(NeighEvent)
      /\ \A e \in Events(neighCh)' : e \in Events(neighCh) \/ (e.ix = OnLink(h) /\ e.host = h)
  BY <1>1 DEF Inv, TypeOK
<1>3. "none" \in {"none", "resolved", "failed"} /\ "none" # "resolved"
  OBVIOUS
<1> QED
  BY <1>1, <1>2, <1>3, NeighStep

-----------------------------------------------------------------------------
(* ndpMirrorAddr.                                                          *)

\* A route is set to the link of an interface in M whose link is up.
LEMMA MirrorAddEffect ==
  ASSUME TypeOK, KernelOK, NEW M \in SUBSET (Hosts \X registered), NEW on \in SUBSET Devs,
         MirrorAdd(M, on)
  PROVE  /\ proxyNdp' \subseteq Devs
         /\ proxy' \subseteq Hosts \X (0..MaxIdx) /\ proxy \subseteq proxy'
         /\ route' \in [Hosts -> 0..MaxIdx]
         /\ \A h \in Hosts : \/ route'[h] = route[h]
                             \/ \E n \in registered : /\ <<h, n>> \in M
                                                      /\ route'[h] = interfaces[n].Ifindex
                                                      /\ LinkUp(interfaces[n].Ifindex)
<1>1. registered \subseteq Names /\ \A n \in Names : interfaces[n].Ifindex \in 0..MaxIdx
  BY DEF TypeOK, Interface
<1>2. proxyNdp' \subseteq Devs
  BY DEF MirrorAdd, TypeOK
<1>3. proxy' \subseteq Hosts \X (0..MaxIdx) /\ proxy \subseteq proxy'
  BY <1>1 DEF MirrorAdd, TypeOK, ProxiesOf, Targets
<1>4. ASSUME NEW h \in Hosts
      PROVE  /\ route'[h] \in 0..MaxIdx
             /\ \/ route'[h] = route[h]
                \/ \E n \in registered : /\ <<h, n>> \in M
                                         /\ route'[h] = interfaces[n].Ifindex
                                         /\ LinkUp(interfaces[n].Ifindex)
  <2> DEFINE up == {ix \in RouteLinks(M, h) : LinkUp(ix)}
  <2>1. route'[h] = IF up = {} THEN route[h] ELSE CHOOSE ix \in up : TRUE
    BY DEF MirrorAdd
  <2>2. \A ix \in up :
          LinkUp(ix) /\ \E n \in registered : <<h, n>> \in M /\ ix = interfaces[n].Ifindex
    BY DEF RouteLinks
  <2> HIDE DEF up
  <2>3. CASE up = {}
    BY <2>1, <2>3 DEF TypeOK
  <2>4. CASE up # {}
    <3>1. route'[h] \in up
      BY <2>1, <2>4
    <3> QED
      BY <1>1, <2>2, <3>1
  <2> QED
    BY <2>3, <2>4
<1>5. route' \in [Hosts -> 0..MaxIdx]
  BY <1>4 DEF MirrorAdd
<1> QED
  BY <1>2, <1>3, <1>4, <1>5

LEMMA MirrorDelEffect ==
  ASSUME TypeOK, NEW M \in SUBSET (Hosts \X registered), MirrorDel(M)
  PROVE  /\ proxy' \subseteq proxy
         /\ route' \in [Hosts -> 0..MaxIdx] /\ routeCh' \subseteq Idx
         /\ \A h \in Hosts : route'[h] = route[h] \/ route'[h] = NoIdx
<1> DEFINE lost == {h \in Hosts : route[h] # NoIdx /\ route[h] \in RouteLinks(M, h)}
<1>1. /\ proxy' = proxy \ ProxiesOf(M)
      /\ route' = [h \in Hosts |-> IF h \in lost THEN NoIdx ELSE route[h]]
      /\ routeCh' = routeCh \cup {route[h] : h \in lost}
  BY DEF MirrorDel
<1>2. \A h \in lost : route[h] \in Idx
  BY FieldTypes
<1>3. \A h \in Hosts : route[h] \in 0..MaxIdx /\ NoIdx \in 0..MaxIdx
  BY Constants DEF TypeOK
<1>4. routeCh \subseteq Idx
  BY DEF TypeOK
<1> HIDE DEF lost
<1> QED
  BY <1>1, <1>2, <1>3, <1>4

LEMMA DetachEffect ==
  ASSUME TypeOK, NEW n \in registered, NEW ix, Detach(n, ix)
  PROVE  /\ proxyNdp' \subseteq Devs /\ proxy' \subseteq proxy
         /\ route' \in [Hosts -> 0..MaxIdx] /\ routeCh' \subseteq Idx
         /\ \A h \in Hosts : route'[h] = route[h] \/ route'[h] = NoIdx
         /\ mirroredNeighs' = {k \in mirroredNeighs : k[2] # interfaces[n].Ifindex}
<1> DEFINE M == {h \in Hosts : <<h, interfaces[n].Ifindex>> \in mirroredNeighs} \X {n}
<1>1. M \in SUBSET (Hosts \X registered) /\ MirrorDel(M)
  BY DEF Detach
<1>2. /\ proxyNdp' \subseteq Devs
      /\ mirroredNeighs' = {k \in mirroredNeighs : k[2] # interfaces[n].Ifindex}
  BY DEF Detach, TypeOK
<1> HIDE DEF M
<1> QED
  BY <1>1, <1>2, MirrorDelEffect

-----------------------------------------------------------------------------
(* Reload.                                                                 *)

LEMMA Unregistered ==
  /\ NewInterface \in Interface /\ NewInterface.Ifindex = NoIdx /\ NewInterface.ndp = NoIdx
  /\ ~NewInterface.Inuse /\ ~NewInterface.Master /\ NewInterface.LearnRoutes
  /\ NewInterface.NDP = "relay"
BY Constants DEF NewInterface, Interface

LEMMA ReloadStartInv ==
  ASSUME Inv, ReloadStart
  PROVE  Inv'
<1>0. /\ phase = "idle" /\ reload' = FALSE /\ root' = file
      /\ phase' = "parse" /\ todo' = DOMAIN file
      /\ UNCHANGED <<dev, lastIdx, linkCh, neigh, neighCh, route, proxy, proxyNdp, routeCh, pin,
                     file, monitor, registered, mirroredNeighs, reconcileScheduled>>
  BY DEF ReloadStart, linkVars, tableVars
<1>1. interfaces' = [n \in Names |->
        IF n \in registered
        THEN [interfaces[n] EXCEPT !.NDP = "relay", !.LearnRoutes = TRUE, !.Inuse = FALSE]
        ELSE interfaces[n]]
  BY DEF ReloadStart
<1>2. \A n \in Names : LET i == [interfaces[n] EXCEPT !.NDP = "relay", !.LearnRoutes = TRUE, !.Inuse = FALSE]
                       IN /\ i \in Interface /\ i.Ifindex = interfaces[n].Ifindex
                          /\ i.Ifname = interfaces[n].Ifname /\ ~i.Inuse
  BY DEF Inv, TypeOK, Interface
<1>3. /\ interfaces' \in [Names -> Interface]
      /\ \A n \in Names : /\ interfaces'[n].Ifindex = interfaces[n].Ifindex
                          /\ interfaces'[n].Ifname = interfaces[n].Ifname
                          /\ n \in registered => ~interfaces'[n].Inuse
                          /\ n \notin registered => interfaces'[n] = interfaces[n]
  BY <1>1, <1>2 DEF Inv, TypeOK
<1>4. file \in Files /\ DOMAIN file \subseteq Names
  BY RelayAssumption DEF Inv, TypeOK
<1>5. TypeOK'
  BY <1>0, <1>3, <1>4 DEF Inv, TypeOK
<1>6. KernelOK' /\ ReadyOK'
  BY <1>0 DEF Inv, KernelOK, ReadyOK, Ready
<1>7. DaemonOK'
  <2>1. \A n \in Names : ~interfaces'[n].Inuse
    BY <1>3, Unregistered DEF Inv, DaemonOK
  <2> QED
    BY <1>0, <1>3, <2>1 DEF Inv, DaemonOK
<1>8. IndexOK'
  BY <1>0, <1>3 DEF Inv, IndexOK, Owns, Owned
<1> QED
  BY <1>5, <1>6, <1>7, <1>8 DEF Inv

\* The entry that is parsed is one of the file that was read.
LEMMA ParsedEntry ==
  ASSUME Inv, phase = "parse", NEW n \in todo
  PROVE  /\ n \in Names /\ root \in Files /\ n \in DOMAIN root
         /\ root[n] \in Entry /\ root[n].Ifname \in Devs
<1>1. n \in Names /\ n \in DOMAIN root /\ root \in Files \cup {<< >>}
  BY DEF Inv, TypeOK, DaemonOK
<1>2. root # << >>
  BY <1>1
<1> QED
  BY <1>1, <1>2, RelayAssumption DEF Entry

\* What parseInterfaceJSON does: nothing when the netdev is missing; else the entry
\* is in use and has the netdev's index, and an old link is detached.
LEMMA ParseEffect ==
  ASSUME Inv, NEW n \in Names, ParseInterface(n)
  PROVE  /\ n \in todo /\ phase = "parse" /\ todo' = todo \ {n} /\ registered' = registered \cup {n}
         /\ interfaces' \in [Names -> Interface]
         /\ \A m \in Names : m # n => interfaces'[m] = interfaces[m]
         /\ \/ /\ dev[root[n].Ifname].ix = NoIdx
               /\ UNCHANGED <<interfaces, route, proxy, proxyNdp, routeCh, mirroredNeighs>>
            \/ /\ dev[root[n].Ifname].ix # NoIdx
               /\ interfaces'[n].Ifname = root[n].Ifname
               /\ interfaces'[n].Ifindex = dev[root[n].Ifname].ix
               /\ interfaces'[n].Inuse
               /\ interfaces'[n].LearnRoutes = root[n].ndproxy_routing
               /\ interfaces'[n].NDP = interfaces[n].NDP
               /\ interfaces'[n].Master = IF root[n].master = "unset" THEN interfaces[n].Master
                                                                     ELSE root[n].master = "yes"
               /\ \/ UNCHANGED <<route, proxy, proxyNdp, routeCh, mirroredNeighs>>
                  \/ /\ n \in registered /\ interfaces[n].Ifindex # NoIdx
                     /\ \/ interfaces[n].Ifname # root[n].Ifname
                        \/ interfaces[n].Ifindex # dev[root[n].Ifname].ix
                     /\ Detach(n, dev[root[n].Ifname].ix)
         /\ UNCHANGED <<dev, lastIdx, linkCh, neigh, neighCh, pin, file, reload, monitor, root,
                        reconcileScheduled, phase>>
<1> DEFINE e == root[n]
           i == interfaces[n]
           link == dev[e.Ifname]
           relinked == i.Ifindex # NoIdx /\ (i.Ifname # e.Ifname \/ i.Ifindex # link.ix)
           new == [i EXCEPT !.Ifname = e.Ifname, !.Ifindex = link.ix, !.Running = link.running,
                            !.Inuse = TRUE, !.LearnRoutes = e.ndproxy_routing,
                            !.Master = IF e.master = "unset" THEN @ ELSE e.master = "yes",
                            !.ndp = IF relinked THEN NoIdx ELSE @]
<1>1. /\ n \in todo /\ phase = "parse" /\ todo' = todo \ {n} /\ registered' = registered \cup {n}
      /\ UNCHANGED <<dev, lastIdx, linkCh, neigh, neighCh, pin, file, reload, monitor, root,
                     reconcileScheduled, phase>>
  BY DEF ParseInterface, linkVars, configVars
<1>2. /\ e \in Entry /\ e.Ifname \in Devs /\ i \in Interface
      /\ link \in [ix : 0..MaxIdx, running : BOOLEAN] /\ NoIdx \in 0..MaxIdx
  BY <1>1, ParsedEntry, Constants DEF Inv, TypeOK
<1>3. /\ new \in Interface /\ new.Ifname = e.Ifname /\ new.Ifindex = link.ix /\ new.Inuse
      /\ new.LearnRoutes = e.ndproxy_routing /\ new.NDP = i.NDP
      /\ new.Master = IF e.master = "unset" THEN i.Master ELSE e.master = "yes"
  BY <1>2 DEF Interface, Entry
<1>4. CASE link.ix = NoIdx
  <2>1. UNCHANGED <<interfaces, route, proxy, proxyNdp, routeCh, mirroredNeighs>>
    BY <1>4 DEF ParseInterface, tableVars
  <2> QED
    BY <1>1, <1>4, <2>1 DEF Inv, TypeOK
<1>5. CASE link.ix # NoIdx
  <2>1. interfaces' = [interfaces EXCEPT ![n] = new]
    BY <1>5 DEF ParseInterface
  <2>2. IF relinked THEN Detach(n, link.ix)
                    ELSE UNCHANGED <<route, proxy, proxyNdp, routeCh, mirroredNeighs>>
    BY <1>5 DEF ParseInterface, tableVars
  <2>3. i.Ifindex # NoIdx => n \in registered
    BY Unregistered DEF Inv, DaemonOK
  <2> HIDE DEF new
  <2>4. /\ interfaces' \in [Names -> Interface] /\ interfaces'[n] = new
        /\ \A m \in Names : m # n => interfaces'[m] = interfaces[m]
    BY <1>3, <2>1 DEF Inv, TypeOK
  <2> QED
    BY <1>1, <1>3, <1>5, <2>2, <2>3, <2>4
<1> QED
  BY <1>4, <1>5

LEMMA ParseInterfaceInv ==
  ASSUME Inv, NEW n \in Names, ParseInterface(n)
  PROVE  Inv'
<1>0. /\ n \in todo /\ phase = "parse" /\ todo' = todo \ {n} /\ registered' = registered \cup {n}
      /\ interfaces' \in [Names -> Interface]
      /\ \A m \in Names : m # n => interfaces'[m] = interfaces[m]
      /\ UNCHANGED <<dev, lastIdx, linkCh, neigh, neighCh, pin, file, reload, monitor, root,
                     reconcileScheduled, phase>>
  BY ParseEffect
<1>1. root[n].Ifname \in Devs /\ n \in DOMAIN root
  BY <1>0, ParsedEntry
<1>2. \/ interfaces'[n] = interfaces[n]
      \/ /\ interfaces'[n].Ifname = root[n].Ifname
         /\ interfaces'[n].Ifindex = dev[root[n].Ifname].ix
  BY ParseEffect
<1>3. /\ proxyNdp' \subseteq Devs /\ proxy' \subseteq proxy
      /\ route' \in [Hosts -> 0..MaxIdx] /\ routeCh' \subseteq Idx
      /\ \A h \in Hosts : route'[h] = route[h] \/ route'[h] = NoIdx
      /\ mirroredNeighs' \subseteq mirroredNeighs
  <2>1. \/ UNCHANGED <<route, proxy, proxyNdp, routeCh, mirroredNeighs>>
        \/ n \in registered /\ Detach(n, dev[root[n].Ifname].ix)
    BY ParseEffect
  <2>2. CASE UNCHANGED <<route, proxy, proxyNdp, routeCh, mirroredNeighs>>
    BY <2>2 DEF Inv, TypeOK
  <2>3. CASE n \in registered /\ Detach(n, dev[root[n].Ifname].ix)
    BY <2>3, DetachEffect DEF Inv
  <2> QED
    BY <2>1, <2>2, <2>3
<1>4. TypeOK'
  BY <1>0, <1>3 DEF Inv, TypeOK
<1>5. KernelOK' /\ ReadyOK'
  BY <1>0 DEF Inv, KernelOK, ReadyOK, Ready
<1>6. DaemonOK'
  BY <1>0, <1>1, <1>2 DEF Inv, DaemonOK
<1>7. IndexOK'
  <2>1. PICK own \in [Idx -> Devs] : Owns(own)
    BY DEF Inv, IndexOK
  <2>2. \A m \in Names : Owned(own, interfaces[m].Ifindex, interfaces[m].Ifname)'
    BY <1>0, <1>1, <1>2, <2>1 DEF Owns, Owned
  <2>3. \A h \in Hosts : Owned(own, route[h], Behind[h])'
    BY <1>0, <1>3, <2>1 DEF Owns, Owned
  <2>4. Owns(own)'
    BY <1>0, <1>3, <2>1, <2>2, <2>3 DEF Owns, Owned
  <2> QED
    BY <2>4 DEF IndexOK
<1> QED
  BY <1>4, <1>5, <1>6, <1>7 DEF Inv

LEMMA ModesEffect ==
  ASSUME Inv, ReloadModes
  PROVE  /\ phase = "parse" /\ todo = {} /\ todo' = registered
         /\ phase' = IF registered = {} THEN "idle" ELSE "apply"
         /\ UNCHANGED <<dev, lastIdx, linkCh, neigh, neighCh, route, proxy, proxyNdp, routeCh, pin,
                        file, reload, monitor, root, registered, mirroredNeighs, reconcileScheduled>>
         /\ interfaces' \in [Names -> Interface]
         /\ \A n \in Names :
              \/ interfaces'[n] = interfaces[n]
                 /\ ~(n \in registered /\ interfaces[n].Master
                        /\ \A m \in registered : interfaces[m].Master)
              \/ /\ n \in registered /\ interfaces[n].Master
                 /\ \A m \in registered : interfaces[m].Master
                 /\ interfaces'[n].NDP = "disabled"
                 /\ interfaces'[n].Ifindex = interfaces[n].Ifindex
                 /\ interfaces'[n].Ifname = interfaces[n].Ifname
                 /\ interfaces'[n].Inuse = interfaces[n].Inuse
                 /\ interfaces'[n].Master = interfaces[n].Master
                 /\ interfaces'[n].LearnRoutes = interfaces[n].LearnRoutes
<1> DEFINE slave == \E n \in registered : ~interfaces[n].Master
           off(n) == [interfaces[n] EXCEPT !.NDP = "disabled"]
<1>1. /\ phase = "parse" /\ todo = {} /\ todo' = registered
      /\ phase' = IF registered = {} THEN "idle" ELSE "apply"
      /\ UNCHANGED <<dev, lastIdx, linkCh, neigh, neighCh, route, proxy, proxyNdp, routeCh, pin,
                     file, reload, monitor, root, registered, mirroredNeighs, reconcileScheduled>>
  BY DEF ReloadModes, linkVars, tableVars, configVars
<1>2. interfaces' = [n \in Names |-> IF n \in registered /\ interfaces[n].Master /\ ~slave
                                     THEN off(n) ELSE interfaces[n]]
  BY DEF ReloadModes
<1>3. \A n \in Names : /\ off(n) \in Interface /\ off(n).NDP = "disabled"
                       /\ off(n).Ifindex = interfaces[n].Ifindex
                       /\ off(n).Ifname = interfaces[n].Ifname
                       /\ off(n).Inuse = interfaces[n].Inuse
                       /\ off(n).Master = interfaces[n].Master
                       /\ off(n).LearnRoutes = interfaces[n].LearnRoutes
  BY DEF Inv, TypeOK, Interface
<1>4. \A n \in Names : interfaces'[n] = IF n \in registered /\ interfaces[n].Master /\ ~slave
                                        THEN off(n) ELSE interfaces[n]
  BY <1>2
<1>5. slave <=> ~\A m \in registered : interfaces[m].Master
  OBVIOUS
<1> HIDE DEF slave, off
<1>6. interfaces' \in [Names -> Interface]
  BY <1>2, <1>3 DEF Inv, TypeOK
<1> QED
  BY <1>1, <1>3, <1>4, <1>5, <1>6

LEMMA ReloadModesInv ==
  ASSUME Inv, ReloadModes
  PROVE  Inv'
<1>0. /\ phase = "parse" /\ todo = {} /\ todo' = registered
      /\ phase' = IF registered = {} THEN "idle" ELSE "apply"
      /\ UNCHANGED <<dev, lastIdx, linkCh, neigh, neighCh, route, proxy, proxyNdp, routeCh, pin,
                     file, reload, monitor, root, registered, mirroredNeighs, reconcileScheduled>>
      /\ interfaces' \in [Names -> Interface]
  BY ModesEffect
<1>1. \A n \in Names : /\ interfaces'[n].Ifindex = interfaces[n].Ifindex
                       /\ interfaces'[n].Ifname = interfaces[n].Ifname
                       /\ interfaces'[n].Inuse = interfaces[n].Inuse
                       /\ n \notin registered => interfaces'[n] = interfaces[n]
  BY ModesEffect
<1>2. TypeOK'
  BY <1>0 DEF Inv, TypeOK
<1>3. KernelOK' /\ ReadyOK'
  BY <1>0 DEF Inv, KernelOK, ReadyOK, Ready
<1>4. DaemonOK'
  BY <1>0, <1>1 DEF Inv, DaemonOK
<1>5. IndexOK'
  BY <1>0, <1>1 DEF Inv, IndexOK, Owns, Owned
<1> QED
  BY <1>2, <1>3, <1>4, <1>5 DEF Inv

\* ndpSetup(true) finds the link it was configured for, and the hosts it then seeds.
Opens(n) ==
  /\ interfaces[n].Ifindex # NoIdx /\ interfaces[n].Ifname \in Devs
  /\ dev[interfaces[n].Ifname].ix = interfaces[n].Ifindex
Found(n) == IF Opens(n) THEN Seeded(n) ELSE {}

LEMMA FoundOnLink ==
  ASSUME NEW n, NEW h \in Found(n)
  PROVE  /\ h \in Hosts /\ OnLink(h) = interfaces[n].Ifindex /\ OnLink(h) # NoIdx
         /\ neigh[h] = "resolved" /\ Opens(n)
BY DEF Found, Seeded, Opens

LEMMA SetupEffect ==
  ASSUME Inv, NEW n \in registered, NdpSetup(n)
  PROVE  /\ interfaces' \in [Names -> Interface]
         /\ \A m \in Names : m # n => interfaces'[m] = interfaces[m]
         /\ interfaces'[n].ndp = IF Opens(n) THEN interfaces[n].Ifindex ELSE NoIdx
         /\ interfaces'[n].Ifindex = interfaces[n].Ifindex
         /\ interfaces'[n].Ifname = interfaces[n].Ifname
         /\ interfaces'[n].Inuse = interfaces[n].Inuse
         /\ interfaces'[n].Running = interfaces[n].Running
         /\ interfaces'[n].NDP = interfaces[n].NDP
         /\ interfaces'[n].Master = interfaces[n].Master
         /\ interfaces'[n].LearnRoutes = interfaces[n].LearnRoutes
         /\ mirroredNeighs' = mirroredNeighs \cup (Found(n) \X {interfaces[n].Ifindex})
         /\ MirrorAdd(Found(n) \X {n}, SwitchedOn(interfaces[n]))
         /\ UNCHANGED <<registered, routeCh>>
<1> DEFINE i == interfaces[n]
           opens == \E d \in Devs : d = i.Ifname /\ dev[d].ix = i.Ifindex /\ i.Ifindex # NoIdx
           new == [i EXCEPT !.ndp = IF opens THEN i.Ifindex ELSE NoIdx]
<1>1. opens = Opens(n)
  BY DEF Opens
<1>2. /\ interfaces' = [interfaces EXCEPT ![n] = new]
      /\ mirroredNeighs' = mirroredNeighs \cup (Found(n) \X {i.Ifindex})
      /\ MirrorAdd(Found(n) \X {n}, SwitchedOn(i))
      /\ UNCHANGED <<registered, routeCh>>
  BY <1>1 DEF NdpSetup, Found
<1>3. n \in Names /\ i \in Interface /\ NoIdx \in 0..MaxIdx
  BY Constants DEF Inv, TypeOK
<1>4. /\ new \in Interface /\ new.ndp = (IF opens THEN i.Ifindex ELSE NoIdx)
      /\ new.Ifindex = i.Ifindex /\ new.Ifname = i.Ifname /\ new.Inuse = i.Inuse
      /\ new.Running = i.Running /\ new.NDP = i.NDP /\ new.Master = i.Master
      /\ new.LearnRoutes = i.LearnRoutes
  BY <1>3 DEF Interface
<1> HIDE DEF new, opens
<1>5. /\ interfaces' \in [Names -> Interface] /\ interfaces'[n] = new
      /\ \A m \in Names : m # n => interfaces'[m] = interfaces[m]
  BY <1>2, <1>3, <1>4 DEF Inv, TypeOK
<1> QED
  BY <1>1, <1>2, <1>4, <1>5

LEMMA DisableEffect ==
  ASSUME Inv, NEW n \in registered, NdpDisable(n)
  PROVE  /\ interfaces' \in [Names -> Interface]
         /\ \A m \in Names : m # n => interfaces'[m] = interfaces[m]
         /\ interfaces'[n].ndp = NoIdx
         /\ interfaces'[n].Ifindex = interfaces[n].Ifindex
         /\ interfaces'[n].Ifname = interfaces[n].Ifname
         /\ interfaces'[n].Inuse = interfaces[n].Inuse
         /\ interfaces'[n].NDP = interfaces[n].NDP
         /\ interfaces'[n].Master = interfaces[n].Master
         /\ interfaces'[n].LearnRoutes = interfaces[n].LearnRoutes
         /\ proxyNdp' \subseteq Devs
         /\ UNCHANGED <<registered, mirroredNeighs, proxy, route, routeCh>>
<1> DEFINE i == interfaces[n]
           new == [i EXCEPT !.ndp = NoIdx]
<1>1. /\ interfaces' = [interfaces EXCEPT ![n] = new] /\ proxyNdp' \subseteq Devs
      /\ UNCHANGED <<registered, mirroredNeighs, proxy, route, routeCh>>
  BY DEF NdpDisable, Inv, TypeOK
<1>2. n \in Names /\ i \in Interface /\ NoIdx \in 0..MaxIdx
  BY Constants DEF Inv, TypeOK
<1>3. /\ new \in Interface /\ new.ndp = NoIdx
      /\ new.Ifindex = i.Ifindex /\ new.Ifname = i.Ifname /\ new.Inuse = i.Inuse
      /\ new.NDP = i.NDP /\ new.Master = i.Master /\ new.LearnRoutes = i.LearnRoutes
  BY <1>2 DEF Interface
<1> HIDE DEF new
<1> QED
  BY <1>1, <1>2, <1>3 DEF Inv, TypeOK

\* One interface is applied; the rest of the daemon stays as it is.
LEMMA ApplyFrame ==
  ASSUME Inv, NEW n \in Names, ApplyInterface(n)
  PROVE  /\ phase = "apply" /\ n \in todo /\ n \in registered /\ todo' = todo \ {n}
         /\ phase' = IF todo' = {} THEN "idle" ELSE "apply"
         /\ UNCHANGED <<dev, lastIdx, linkCh, neigh, neighCh, pin, file, reload, monitor, root,
                        reconcileScheduled>>
         /\ \/ /\ interfaces[n].Inuse /\ interfaces[n].Running /\ interfaces[n].NDP = "relay"
               /\ NdpSetup(n)
            \/ interfaces[n].Inuse /\ NdpDisable(n)
            \/ ~interfaces[n].Inuse /\ CloseInterface(n)
BY DEF ApplyInterface, ReloadServices, linkVars, configVars, Inv, DaemonOK

LEMMA NdpSetupInv ==
  ASSUME Inv, NEW n \in Names, ApplyInterface(n), interfaces[n].Inuse, interfaces[n].Running,
         interfaces[n].NDP = "relay", NdpSetup(n)
  PROVE  Inv'
<1>0. /\ phase = "apply" /\ n \in todo /\ n \in registered /\ todo' = todo \ {n}
      /\ phase' = IF todo' = {} THEN "idle" ELSE "apply"
      /\ UNCHANGED <<dev, lastIdx, linkCh, neigh, neighCh, pin, file, reload, monitor, root,
                     reconcileScheduled>>
  BY ApplyFrame
<1>1. /\ interfaces' \in [Names -> Interface]
      /\ \A m \in Names : m # n => interfaces'[m] = interfaces[m]
      /\ interfaces'[n].ndp = IF Opens(n) THEN interfaces[n].Ifindex ELSE NoIdx
      /\ interfaces'[n].Ifindex = interfaces[n].Ifindex
      /\ interfaces'[n].Ifname = interfaces[n].Ifname
      /\ interfaces'[n].Inuse = interfaces[n].Inuse
      /\ interfaces'[n].Running = interfaces[n].Running
      /\ interfaces'[n].NDP = interfaces[n].NDP
      /\ mirroredNeighs' = mirroredNeighs \cup (Found(n) \X {interfaces[n].Ifindex})
      /\ UNCHANGED <<registered, routeCh>>
  BY <1>0, SetupEffect
<1> DEFINE M == Found(n) \X {n}
<1>2. /\ M \in SUBSET (Hosts \X registered) /\ SwitchedOn(interfaces[n]) \in SUBSET Devs
      /\ MirrorAdd(M, SwitchedOn(interfaces[n]))
  BY <1>0, SetupEffect, FoundOnLink DEF SwitchedOn, Inv, TypeOK
<1>3. \A h \in Hosts : \A m \in registered : <<h, m>> \in M => m = n /\ h \in Found(n)
  OBVIOUS
<1> HIDE DEF M
<1>4. /\ proxyNdp' \subseteq Devs /\ proxy' \subseteq Hosts \X (0..MaxIdx)
      /\ route' \in [Hosts -> 0..MaxIdx]
      /\ \A h \in Hosts : \/ route'[h] = route[h]
                          \/ h \in Found(n) /\ route'[h] = interfaces[n].Ifindex
  BY <1>2, <1>3, MirrorAddEffect DEF Inv
<1>5. Found(n) \subseteq Hosts /\ (Found(n) # {} => interfaces[n].Ifindex \in Idx)
  BY FoundOnLink, FieldTypes DEF Inv
<1>6. TypeOK'
  <2>1. mirroredNeighs' \subseteq Hosts \X Idx
    BY <1>1, <1>5 DEF Inv, TypeOK
  <2> QED
    BY <1>0, <1>1, <1>4, <2>1 DEF Inv, TypeOK
<1>7. KernelOK'
  BY <1>0 DEF Inv, KernelOK
<1>8. DaemonOK'
  BY <1>0, <1>1 DEF Inv, DaemonOK
<1>9. ReadyOK'
  <2>1. SocketOK(n)'
    BY <1>1 DEF SocketOK
  <2>2. \A m \in Ready' : m = n \/ (m \in Ready /\ interfaces'[m] = interfaces[m])
    BY <1>0, <1>1 DEF Ready, Inv, TypeOK
  <2> QED
    BY <2>1, <2>2 DEF Inv, ReadyOK, SocketOK
<1>10. IndexOK'
  <2>1. PICK own \in [Idx -> Devs] : Owns(own)
    BY DEF Inv, IndexOK
  <2>2. \A h \in Found(n) : Owned(own, interfaces[n].Ifindex, Behind[h])'
    <3> SUFFICES ASSUME NEW h \in Found(n) PROVE Owned(own, interfaces[n].Ifindex, Behind[h])'
      OBVIOUS
    <3>1. h \in Hosts /\ Behind[h] \in Devs /\ dev[Behind[h]].ix = interfaces[n].Ifindex
      BY FoundOnLink, RelayAssumption DEF OnLink
    <3> QED
      BY <1>0, <1>1, <2>1, <3>1 DEF Owns, Owned
  <2>3. \A k \in mirroredNeighs' : Owned(own, k[2], Behind[k[1]])'
    BY <1>0, <1>1, <2>1, <2>2 DEF Owns, Owned
  <2>4. \A h \in Hosts : Owned(own, route[h], Behind[h])'
    BY <1>0, <1>1, <1>4, <2>1, <2>2 DEF Owns, Owned
  <2>5. \A m \in Names : Owned(own, interfaces[m].Ifindex, interfaces[m].Ifname)'
    BY <1>0, <1>1, <2>1 DEF Owns, Owned
  <2> QED
    BY <1>0, <2>1, <2>3, <2>4, <2>5 DEF IndexOK, Owns, Owned
<1> QED
  BY <1>6, <1>7, <1>8, <1>9, <1>10 DEF Inv

LEMMA NdpDisableInv ==
  ASSUME Inv, NEW n \in Names, ApplyInterface(n), interfaces[n].Inuse, NdpDisable(n)
  PROVE  Inv'
<1>0. /\ phase = "apply" /\ n \in todo /\ n \in registered /\ todo' = todo \ {n}
      /\ phase' = IF todo' = {} THEN "idle" ELSE "apply"
      /\ UNCHANGED <<dev, lastIdx, linkCh, neigh, neighCh, pin, file, reload, monitor, root,
                     reconcileScheduled>>
  BY ApplyFrame
<1>1. /\ interfaces' \in [Names -> Interface]
      /\ \A m \in Names : m # n => interfaces'[m] = interfaces[m]
      /\ interfaces'[n].ndp = NoIdx
      /\ interfaces'[n].Ifindex = interfaces[n].Ifindex
      /\ interfaces'[n].Ifname = interfaces[n].Ifname
      /\ interfaces'[n].Inuse = interfaces[n].Inuse
      /\ proxyNdp' \subseteq Devs
      /\ UNCHANGED <<registered, mirroredNeighs, proxy, route, routeCh>>
  BY <1>0, DisableEffect
<1>2. TypeOK'
  BY <1>0, <1>1 DEF Inv, TypeOK
<1>3. KernelOK'
  BY <1>0 DEF Inv, KernelOK
<1>4. DaemonOK'
  BY <1>0, <1>1 DEF Inv, DaemonOK
<1>5. ReadyOK'
  <2>1. SocketOK(n)'
    BY <1>1 DEF SocketOK
  <2>2. \A m \in Ready' : m = n \/ (m \in Ready /\ interfaces'[m] = interfaces[m])
    BY <1>0, <1>1 DEF Ready, Inv, TypeOK
  <2> QED
    BY <2>1, <2>2 DEF Inv, ReadyOK, SocketOK
<1>6. IndexOK'
  BY <1>0, <1>1 DEF Inv, IndexOK, Owns, Owned
<1> QED
  BY <1>2, <1>3, <1>4, <1>5, <1>6 DEF Inv

LEMMA CloseInterfaceInv ==
  ASSUME Inv, NEW n \in Names, ApplyInterface(n), CloseInterface(n)
  PROVE  Inv'
<1>0. /\ phase = "apply" /\ n \in todo /\ n \in registered /\ todo' = todo \ {n}
      /\ phase' = IF todo' = {} THEN "idle" ELSE "apply"
      /\ UNCHANGED <<dev, lastIdx, linkCh, neigh, neighCh, pin, file, reload, monitor, root,
                     reconcileScheduled>>
  BY ApplyFrame
<1>1. /\ interfaces' \in [Names -> Interface]
      /\ \A m \in Names : m # n => interfaces'[m] = interfaces[m]
      /\ interfaces'[n] = NewInterface /\ proxyNdp' \subseteq Devs
      /\ registered' = registered \ {n}
      /\ UNCHANGED <<mirroredNeighs, proxy, route, routeCh>>
  BY Unregistered DEF CloseInterface, Inv, TypeOK
<1>2. TypeOK'
  BY <1>0, <1>1 DEF Inv, TypeOK
<1>3. KernelOK'
  BY <1>0 DEF Inv, KernelOK
<1>4. DaemonOK'
  BY <1>0, <1>1, Unregistered DEF Inv, DaemonOK
<1>5. ReadyOK'
  <2>1. \A m \in Ready' : m \in Ready /\ interfaces'[m] = interfaces[m]
    BY <1>0, <1>1 DEF Ready, Inv, TypeOK
  <2> QED
    BY <2>1 DEF Inv, ReadyOK, SocketOK
<1>6. IndexOK'
  BY <1>0, <1>1, Unregistered DEF Inv, IndexOK, Owns, Owned
<1> QED
  BY <1>2, <1>3, <1>4, <1>5, <1>6 DEF Inv

LEMMA ApplyInterfaceInv ==
  ASSUME Inv, NEW n \in Names, ApplyInterface(n)
  PROVE  Inv'
BY ApplyFrame, NdpSetupInv, NdpDisableInv, CloseInterfaceInv

-----------------------------------------------------------------------------
(* handleLinkEvent.                                                        *)

LEMMA LinkEventTaken ==
  ASSUME Inv, HandleLinkEvent
  PROVE  /\ phase = "idle" /\ monitor /\ todo = {}
         /\ Head(linkCh) \in LinkEvent /\ Head(linkCh) \in Events(linkCh)
         /\ linkCh' \in Seq(LinkEvent) /\ Events(linkCh)' \subseteq Events(linkCh)
         /\ UNCHANGED <<dev, lastIdx, neigh, neighCh, pin, file, reload, monitor, root,
                        reconcileScheduled>>
<1>1. /\ phase = "idle" /\ monitor /\ linkCh # << >> /\ linkCh' = Tail(linkCh)
      /\ UNCHANGED <<dev, lastIdx, neigh, neighCh, pin, file, reload, monitor, root,
                     reconcileScheduled>>
  BY DEF HandleLinkEvent, configVars
<1>2. linkCh \in Seq(LinkEvent) /\ (phase = "idle" => todo = {})
  BY DEF Inv, TypeOK, DaemonOK
<1>3. /\ Head(linkCh) \in LinkEvent /\ Tail(linkCh) \in Seq(LinkEvent)
      /\ Events(linkCh) = {Head(linkCh)} \cup Events(Tail(linkCh))
  BY <1>1, <1>2, Taken
<1> QED
  BY <1>1, <1>2, <1>3

\* The old link is detached and the index is gone or is the one of the event.
LEMMA RelinkEffect ==
  ASSUME Inv, HandleLinkEvent, NEW n \in registered, interfaces[n].Ifname = Head(linkCh).dev,
         HandleLinkDeleted(n) \/ HandleLinkReplaced(n)
  PROVE  /\ interfaces' \in [Names -> Interface]
         /\ \A m \in Names : m # n => interfaces'[m] = interfaces[m]
         /\ interfaces'[n].ndp = NoIdx
         /\ \/ HandleLinkDeleted(n) /\ interfaces'[n].Ifindex = NoIdx
            \/ HandleLinkReplaced(n) /\ interfaces'[n].Ifindex = Head(linkCh).ix
         /\ interfaces'[n].Ifname = interfaces[n].Ifname
         /\ interfaces'[n].Inuse = interfaces[n].Inuse
         /\ interfaces'[n].NDP = interfaces[n].NDP
         /\ interfaces'[n].Master = interfaces[n].Master
         /\ interfaces'[n].LearnRoutes = interfaces[n].LearnRoutes
         /\ UNCHANGED registered
         /\ (phase' = phase /\ todo' = todo) \/ (phase' = "apply" /\ todo' = {n})
         /\ \E ix : Detach(n, ix)
<1> DEFINE e == Head(linkCh)
           i == interfaces[n]
           del == [i EXCEPT !.Ifindex = NoIdx, !.Running = FALSE, !.ndp = NoIdx]
           new == [i EXCEPT !.Ifindex = e.ix, !.Running = e.running, !.ndp = NoIdx]
<1>1. /\ n \in Names /\ i \in Interface /\ NoIdx \in 0..MaxIdx
      /\ e.ix \in 0..MaxIdx /\ e.running \in BOOLEAN
  BY LinkEventTaken, Constants DEF Inv, TypeOK, LinkEvent
<1>2. CASE HandleLinkDeleted(n)
  <2>1. /\ del \in Interface /\ del.ndp = NoIdx /\ del.Ifindex = NoIdx /\ del.Ifname = i.Ifname
        /\ del.Inuse = i.Inuse /\ del.NDP = i.NDP /\ del.Master = i.Master
        /\ del.LearnRoutes = i.LearnRoutes
    BY <1>1 DEF Interface
  <2>2. /\ interfaces' = [interfaces EXCEPT ![n] = del] /\ Detach(n, NoIdx)
        /\ UNCHANGED <<registered, phase, todo>>
    BY <1>2 DEF HandleLinkDeleted
  <2> HIDE DEF del
  <2>3. /\ interfaces' \in [Names -> Interface] /\ interfaces'[n] = del
        /\ \A m \in Names : m # n => interfaces'[m] = interfaces[m]
    BY <1>1, <2>1, <2>2 DEF Inv, TypeOK
  <2> QED
    BY <1>2, <2>1, <2>2, <2>3
<1>3. CASE HandleLinkReplaced(n)
  <2>1. /\ new \in Interface /\ new.ndp = NoIdx /\ new.Ifindex = e.ix /\ new.Ifname = i.Ifname
        /\ new.Inuse = i.Inuse /\ new.NDP = i.NDP /\ new.Master = i.Master
        /\ new.LearnRoutes = i.LearnRoutes
    BY <1>1 DEF Interface
  <2>2. /\ interfaces' = [interfaces EXCEPT ![n] = new] /\ Detach(n, e.ix)
        /\ phase' = "apply" /\ todo' = {n} /\ UNCHANGED registered
    BY <1>3 DEF HandleLinkReplaced
  <2> HIDE DEF new, e
  <2>3. /\ interfaces' \in [Names -> Interface] /\ interfaces'[n] = new
        /\ \A m \in Names : m # n => interfaces'[m] = interfaces[m]
    BY <1>1, <2>1, <2>2 DEF Inv, TypeOK
  <2> QED
    BY <1>3, <2>1, <2>2, <2>3 DEF e
<1> QED
  BY <1>2, <1>3

LEMMA RelinkInv ==
  ASSUME Inv, HandleLinkEvent, NEW n \in registered, interfaces[n].Ifname = Head(linkCh).dev,
         HandleLinkDeleted(n) \/ HandleLinkReplaced(n)
  PROVE  Inv'
<1>0. /\ phase = "idle" /\ todo = {}
      /\ Head(linkCh) \in Events(linkCh)
      /\ linkCh' \in Seq(LinkEvent) /\ Events(linkCh)' \subseteq Events(linkCh)
      /\ UNCHANGED <<dev, lastIdx, neigh, neighCh, pin, file, reload, monitor, root,
                     reconcileScheduled>>
  BY LinkEventTaken
<1>1. /\ interfaces' \in [Names -> Interface]
      /\ \A m \in Names : m # n => interfaces'[m] = interfaces[m]
      /\ interfaces'[n].ndp = NoIdx
      /\ interfaces'[n].Ifindex = NoIdx \/ interfaces'[n].Ifindex = Head(linkCh).ix
      /\ interfaces'[n].Ifname = interfaces[n].Ifname
      /\ interfaces'[n].Inuse = interfaces[n].Inuse
      /\ UNCHANGED registered
      /\ (phase' = phase /\ todo' = todo) \/ (phase' = "apply" /\ todo' = {n})
      /\ \E ix : Detach(n, ix)
  BY RelinkEffect
<1>2. /\ proxyNdp' \subseteq Devs /\ proxy' \subseteq proxy
      /\ route' \in [Hosts -> 0..MaxIdx] /\ routeCh' \subseteq Idx
      /\ \A h \in Hosts : route'[h] = route[h] \/ route'[h] = NoIdx
      /\ mirroredNeighs' \subseteq mirroredNeighs
  BY <1>1, DetachEffect DEF Inv
<1>3. n \in Names
  BY DEF Inv, TypeOK
<1>4. TypeOK'
  BY <1>0, <1>1, <1>2, <1>3 DEF Inv, TypeOK
<1>5. KernelOK'
  BY <1>0 DEF Inv, KernelOK
<1>6. DaemonOK'
  BY <1>0, <1>1, <1>3 DEF Inv, DaemonOK
<1>7. ReadyOK'
  <2>1. \A m \in Ready' : m \in Ready /\ m \in Names
    BY <1>0, <1>1 DEF Ready, Inv, TypeOK
  <2>2. \A m \in Ready' : SocketOK(m)'
    BY <1>1, <2>1 DEF Inv, ReadyOK, SocketOK
  <2> QED
    BY <2>2 DEF ReadyOK
<1>8. IndexOK'
  <2>1. PICK own \in [Idx -> Devs] : Owns(own)
    BY DEF Inv, IndexOK
  <2>2. Owned(own, interfaces[n].Ifindex, interfaces[n].Ifname)'
    BY <1>0, <1>1, <2>1 DEF Owns, Owned
  <2>3. \A m \in Names : Owned(own, interfaces[m].Ifindex, interfaces[m].Ifname)'
    BY <1>0, <1>1, <2>1, <2>2 DEF Owns, Owned
  <2>4. \A h \in Hosts : Owned(own, route[h], Behind[h])'
    BY <1>0, <1>2, <2>1 DEF Owns, Owned
  <2> QED
    BY <1>0, <1>2, <2>1, <2>3, <2>4 DEF IndexOK, Owns, Owned
<1> QED
  BY <1>4, <1>5, <1>6, <1>7, <1>8 DEF Inv

LEMMA ToggleEffect ==
  ASSUME Inv, HandleLinkEvent, NEW n \in registered, HandleLinkToggled(n)
  PROVE  /\ interfaces' \in [Names -> Interface]
         /\ \A m \in Names : m # n => interfaces'[m] = interfaces[m]
         /\ interfaces'[n].ndp = interfaces[n].ndp
         /\ interfaces'[n].Ifindex = interfaces[n].Ifindex
         /\ interfaces'[n].Ifname = interfaces[n].Ifname
         /\ interfaces'[n].Inuse = interfaces[n].Inuse
         /\ interfaces'[n].NDP = interfaces[n].NDP
         /\ interfaces'[n].Master = interfaces[n].Master
         /\ interfaces'[n].LearnRoutes = interfaces[n].LearnRoutes
         /\ phase' = "apply" /\ todo' = {n}
         /\ UNCHANGED <<registered, route, proxy, proxyNdp, routeCh, mirroredNeighs>>
<1> DEFINE e == Head(linkCh)
           i == interfaces[n]
           new == [i EXCEPT !.Running = e.running]
<1>1. n \in Names /\ i \in Interface /\ e.running \in BOOLEAN
  BY LinkEventTaken DEF Inv, TypeOK, LinkEvent
<1>2. /\ new \in Interface /\ new.ndp = i.ndp /\ new.Ifindex = i.Ifindex /\ new.Ifname = i.Ifname
      /\ new.Inuse = i.Inuse /\ new.NDP = i.NDP /\ new.Master = i.Master
      /\ new.LearnRoutes = i.LearnRoutes
  BY <1>1 DEF Interface
<1>3. /\ interfaces' = [interfaces EXCEPT ![n] = new] /\ phase' = "apply" /\ todo' = {n}
      /\ UNCHANGED <<registered, route, proxy, proxyNdp, routeCh, mirroredNeighs>>
  BY DEF HandleLinkToggled, tableVars
<1> HIDE DEF new
<1> QED
  BY <1>1, <1>2, <1>3 DEF Inv, TypeOK

LEMMA ToggledInv ==
  ASSUME Inv, HandleLinkEvent, NEW n \in registered, HandleLinkToggled(n)
  PROVE  Inv'
<1>0. /\ phase = "idle" /\ todo = {}
      /\ linkCh' \in Seq(LinkEvent) /\ Events(linkCh)' \subseteq Events(linkCh)
      /\ UNCHANGED <<dev, lastIdx, neigh, neighCh, pin, file, reload, monitor, root,
                     reconcileScheduled>>
  BY LinkEventTaken
<1>1. /\ interfaces' \in [Names -> Interface]
      /\ \A m \in Names : m # n => interfaces'[m] = interfaces[m]
      /\ interfaces'[n].Ifindex = interfaces[n].Ifindex
      /\ interfaces'[n].Ifname = interfaces[n].Ifname
      /\ interfaces'[n].Inuse = interfaces[n].Inuse
      /\ phase' = "apply" /\ todo' = {n}
      /\ UNCHANGED <<registered, route, proxy, proxyNdp, routeCh, mirroredNeighs>>
  BY ToggleEffect
<1>2. n \in Names
  BY DEF Inv, TypeOK
<1>3. TypeOK'
  BY <1>0, <1>1, <1>2 DEF Inv, TypeOK
<1>4. KernelOK'
  BY <1>0 DEF Inv, KernelOK
<1>5. DaemonOK'
  BY <1>0, <1>1, <1>2 DEF Inv, DaemonOK
<1>6. ReadyOK'
  <2>1. \A m \in Ready' : m \in Ready /\ interfaces'[m] = interfaces[m]
    BY <1>0, <1>1 DEF Ready, Inv, TypeOK
  <2> QED
    BY <2>1 DEF Inv, ReadyOK, SocketOK
<1>7. IndexOK'
  BY <1>0, <1>1 DEF Inv, IndexOK, Owns, Owned
<1> QED
  BY <1>3, <1>4, <1>5, <1>6, <1>7 DEF Inv

LEMMA LinkIgnoredInv ==
  ASSUME Inv, HandleLinkEvent, LinkIgnored
  PROVE  Inv'
<1>0. /\ linkCh' \in Seq(LinkEvent) /\ Events(linkCh)' \subseteq Events(linkCh)
      /\ UNCHANGED <<dev, lastIdx, neigh, neighCh, pin, file, reload, monitor, root,
                     reconcileScheduled>>
  BY LinkEventTaken
<1>1. UNCHANGED <<route, proxy, proxyNdp, routeCh, registered, interfaces, mirroredNeighs, phase,
                  todo>>
  BY DEF LinkIgnored, tableVars
<1>2. TypeOK'
  BY <1>0, <1>1 DEF Inv, TypeOK
<1>3. KernelOK' /\ DaemonOK' /\ ReadyOK'
  BY <1>0, <1>1 DEF Inv, KernelOK, DaemonOK, ReadyOK, Ready, SocketOK
<1>4. IndexOK'
  BY <1>0, <1>1 DEF Inv, IndexOK, Owns, Owned
<1> QED
  BY <1>2, <1>3, <1>4 DEF Inv

LEMMA HandleLinkEventInv ==
  ASSUME Inv, HandleLinkEvent
  PROVE  Inv'
<1>1. \/ LinkIgnored
      \/ \E n \in registered :
           /\ interfaces[n].Ifname = Head(linkCh).dev
           /\ HandleLinkDeleted(n) \/ HandleLinkToggled(n) \/ HandleLinkReplaced(n)
  BY DEF HandleLinkEvent
<1> QED
  BY <1>1, LinkIgnoredInv, RelinkInv, ToggledInv

-----------------------------------------------------------------------------
(* The other handlers.                                                     *)

\* The mirror changes and the interfaces do not: a new key and a new route are on a
\* link that the host is known to be behind.
LEMMA MirrorStep ==
  ASSUME Inv,
         UNCHANGED <<dev, lastIdx, linkCh, pin, file, reload, monitor, root, registered, interfaces,
                     phase, todo>>,
         reconcileScheduled' \in BOOLEAN,
         neigh' \in [Hosts -> {"none", "resolved", "failed"}],
         \A h \in Hosts : neigh'[h] = neigh[h] \/ neigh'[h] = "none",
         neighCh' \in Seq(NeighEvent), Events(neighCh)' \subseteq Events(neighCh),
         proxyNdp' \subseteq Devs, proxy' \subseteq Hosts \X (0..MaxIdx), routeCh' \subseteq Idx,
         route' \in [Hosts -> 0..MaxIdx], mirroredNeighs' \subseteq Hosts \X Idx,
         \A own \in [Idx -> Devs] : Owns(own) =>
           /\ \A k \in mirroredNeighs' : Owned(own, k[2], Behind[k[1]])
           /\ \A h \in Hosts : Owned(own, route'[h], Behind[h])
  PROVE  Inv'
<1>1. TypeOK'
  BY DEF Inv, TypeOK
<1>2. KernelOK'
  BY DEF Inv, KernelOK
<1>3. DaemonOK' /\ ReadyOK'
  BY DEF Inv, DaemonOK, ReadyOK, Ready, SocketOK
<1>4. IndexOK'
  <2>1. PICK own \in [Idx -> Devs] : Owns(own)
    BY DEF Inv, IndexOK
  <2>2. /\ \A k \in mirroredNeighs' : Owned(own, k[2], Behind[k[1]])'
        /\ \A h \in Hosts : Owned(own, route[h], Behind[h])'
    BY <2>1 DEF Owned
  <2> QED
    BY <2>1, <2>2 DEF IndexOK, Owns, Owned
<1> QED
  BY <1>1, <1>2, <1>3, <1>4 DEF Inv

LEMMA NeighEventTaken ==
  ASSUME Inv, HandleNeighEvent
  PROVE  /\ phase = "idle" /\ monitor /\ todo = {}
         /\ Head(neighCh) \in NeighEvent /\ Head(neighCh) \in Events(neighCh)
         /\ neighCh' \in Seq(NeighEvent) /\ Events(neighCh)' \subseteq Events(neighCh)
         /\ Events(neighCh) \subseteq Events(neighCh)' \cup {Head(neighCh)}
         /\ neigh' = IF /\ Head(neighCh).state = "failed" /\ RelayIface(Head(neighCh).ix) # {}
                        /\ OnLink(Head(neighCh).host) = Head(neighCh).ix
                     THEN [neigh EXCEPT ![Head(neighCh).host] = "none"] ELSE neigh
         /\ UNCHANGED <<dev, lastIdx, linkCh, pin, file, reload, monitor, root, registered,
                        interfaces, reconcileScheduled, phase, todo>>
<1> DEFINE e == Head(neighCh)
           deletes == e.state = "failed" /\ RelayIface(e.ix) # {} /\ OnLink(e.host) = e.ix
<1>1. /\ phase = "idle" /\ monitor /\ neighCh # << >>
      /\ neigh' = IF deletes THEN [neigh EXCEPT ![e.host] = "none"] ELSE neigh
      /\ neighCh' = Append(Tail(neighCh), e) \/ neighCh' = Tail(neighCh)
      /\ UNCHANGED <<dev, lastIdx, linkCh, pin, file, reload, monitor, root, registered,
                     interfaces, reconcileScheduled, phase, todo>>
  BY DEF HandleNeighEvent, linkVars, configVars
<1>2. neighCh \in Seq(NeighEvent) /\ (phase = "idle" => todo = {})
  BY DEF Inv, TypeOK, DaemonOK
<1>3. /\ e \in NeighEvent /\ Tail(neighCh) \in Seq(NeighEvent)
      /\ Events(neighCh) = {e} \cup Events(Tail(neighCh))
  BY <1>1, <1>2, Taken
<1>4. /\ Append(Tail(neighCh), e) \in Seq(NeighEvent)
      /\ Events(Append(Tail(neighCh), e)) = Events(Tail(neighCh)) \cup {e}
  <2> DEFINE t == Tail(neighCh)
  <2>1. t \in Seq(NeighEvent) /\ e \in NeighEvent
    BY <1>3
  <2> HIDE DEF t, e
  <2>2. Append(t, e) \in Seq(NeighEvent) /\ Events(Append(t, e)) = Events(t) \cup {e}
    BY <2>1, Appended
  <2> QED
    BY <2>2 DEF t
<1> HIDE DEF deletes
<1>5. neighCh' \in Seq(NeighEvent) /\ Events(neighCh)' \subseteq Events(neighCh)
      /\ Events(neighCh) \subseteq Events(neighCh)' \cup {e}
  BY <1>1, <1>3, <1>4
<1> QED
  BY <1>1, <1>2, <1>3, <1>5 DEF deletes

LEMMA NeighEventCases ==
  ASSUME Inv, HandleNeighEvent
  PROVE  LET e == Head(neighCh)
             k == <<e.host, e.ix>>
         IN \/ /\ RelayIface(e.ix) = {} \/ (e.state = "resolved") = (k \in mirroredNeighs)
               /\ UNCHANGED <<route, proxy, proxyNdp, routeCh, mirroredNeighs>>
            \/ \E n \in RelayIface(e.ix) :
                 \/ /\ e.state = "resolved" /\ k \notin mirroredNeighs
                    /\ mirroredNeighs' = mirroredNeighs \cup {k}
                    /\ MirrorAdd({<<e.host, n>>}, proxyNdp) /\ UNCHANGED routeCh
                 \/ /\ e.state = "failed" /\ k \in mirroredNeighs
                    /\ mirroredNeighs' = mirroredNeighs \ {k}
                    /\ MirrorDel({<<e.host, n>>}) /\ UNCHANGED proxyNdp
BY DEF HandleNeighEvent, tableVars

LEMMA HandleNeighEventInv ==
  ASSUME Inv, HandleNeighEvent
  PROVE  Inv'
<1> DEFINE e == Head(neighCh)
           k == <<e.host, e.ix>>
<1>0. /\ e \in NeighEvent /\ e.host \in Hosts /\ e.ix \in Idx /\ e \in Events(neighCh)
      /\ neighCh' \in Seq(NeighEvent) /\ Events(neighCh)' \subseteq Events(neighCh)
      /\ UNCHANGED <<dev, lastIdx, linkCh, pin, file, reload, monitor, root, registered,
                     interfaces, reconcileScheduled, phase, todo>>
  BY NeighEventTaken DEF NeighEvent
<1>1. /\ neigh' \in [Hosts -> {"none", "resolved", "failed"}]
      /\ \A h \in Hosts : neigh'[h] = neigh[h] \/ neigh'[h] = "none"
  BY NeighEventTaken DEF Inv, TypeOK
<1>2. /\ mirroredNeighs \subseteq Hosts \X Idx /\ proxy \subseteq Hosts \X (0..MaxIdx)
      /\ proxyNdp \subseteq Devs /\ routeCh \subseteq Idx /\ route \in [Hosts -> 0..MaxIdx]
      /\ reconcileScheduled' \in BOOLEAN
  BY <1>0 DEF Inv, TypeOK
<1>3. CASE UNCHANGED <<route, proxy, proxyNdp, routeCh, mirroredNeighs>>
  BY <1>0, <1>1, <1>2, <1>3, MirrorStep DEF Owns
<1>4. ASSUME NEW n \in RelayIface(e.ix), mirroredNeighs' = mirroredNeighs \cup {k},
             MirrorAdd({<<e.host, n>>}, proxyNdp), UNCHANGED routeCh
      PROVE  Inv'
  <2>1. n \in registered /\ n \in Names /\ interfaces[n].Ifindex = e.ix
    BY DEF RelayIface, IfaceByIndex, Inv, TypeOK
  <2> DEFINE M == {<<e.host, n>>}
  <2>2. M \in SUBSET (Hosts \X registered)
    BY <1>0, <2>1
  <2>3. \A h \in Hosts : \A m \in registered : <<h, m>> \in M => h = e.host /\ m = n
    OBVIOUS
  <2>4. MirrorAdd(M, proxyNdp)
    BY <1>4
  <2> HIDE DEF M
  <2>5. /\ proxyNdp' \subseteq Devs /\ proxy' \subseteq Hosts \X (0..MaxIdx)
        /\ route' \in [Hosts -> 0..MaxIdx]
        /\ \A h \in Hosts : route'[h] = route[h] \/ (h = e.host /\ route'[h] = e.ix)
    BY <1>2, <2>1, <2>2, <2>3, <2>4, MirrorAddEffect DEF Inv
  <2>6. ASSUME NEW own \in [Idx -> Devs], Owns(own)
        PROVE  /\ \A j \in mirroredNeighs' : Owned(own, j[2], Behind[j[1]])
               /\ \A h \in Hosts : Owned(own, route'[h], Behind[h])
    <3>1. Owned(own, e.ix, Behind[e.host])
      BY <1>0, <2>6 DEF Owns
    <3> QED
      BY <1>4, <2>5, <2>6, <3>1 DEF Owns
  <2>7. mirroredNeighs' \subseteq Hosts \X Idx /\ routeCh' \subseteq Idx
    BY <1>0, <1>2, <1>4
  <2> QED
    BY <1>0, <1>1, <1>2, <2>5, <2>6, <2>7, MirrorStep
<1>5. ASSUME NEW n \in RelayIface(e.ix), mirroredNeighs' = mirroredNeighs \ {k},
             MirrorDel({<<e.host, n>>}), UNCHANGED proxyNdp
      PROVE  Inv'
  <2>1. n \in registered
    BY DEF RelayIface, IfaceByIndex
  <2> DEFINE M == {<<e.host, n>>}
  <2>2. M \in SUBSET (Hosts \X registered) /\ MirrorDel(M)
    BY <1>0, <1>5, <2>1
  <2> HIDE DEF M
  <2>3. /\ proxy' \subseteq proxy /\ route' \in [Hosts -> 0..MaxIdx] /\ routeCh' \subseteq Idx
        /\ \A h \in Hosts : route'[h] = route[h] \/ route'[h] = NoIdx
    BY <2>2, MirrorDelEffect DEF Inv
  <2>4. ASSUME NEW own \in [Idx -> Devs], Owns(own)
        PROVE  /\ \A j \in mirroredNeighs' : Owned(own, j[2], Behind[j[1]])
               /\ \A h \in Hosts : Owned(own, route'[h], Behind[h])
    BY <1>5, <2>3, <2>4 DEF Owns, Owned
  <2>5. /\ mirroredNeighs' \subseteq Hosts \X Idx /\ proxy' \subseteq Hosts \X (0..MaxIdx)
        /\ proxyNdp' \subseteq Devs
    BY <1>2, <1>5, <2>3
  <2> QED
    BY <1>0, <1>1, <1>2, <2>3, <2>4, <2>5, MirrorStep
<1> QED
  BY <1>3, <1>4, <1>5, NeighEventCases

LEMMA HandleRouteEventInv ==
  ASSUME Inv, NEW ix \in Idx, HandleRouteEvent(ix)
  PROVE  Inv'
<1>1. /\ routeCh' = routeCh \ {ix} /\ reconcileScheduled' \in BOOLEAN
      /\ UNCHANGED <<dev, lastIdx, linkCh, neigh, neighCh, route, proxy, proxyNdp, pin, file, reload,
                     monitor, root, registered, interfaces, mirroredNeighs, phase, todo>>
  BY DEF HandleRouteEvent, linkVars, configVars, Inv, TypeOK
<1>2. TypeOK'
  BY <1>1 DEF Inv, TypeOK
<1>3. KernelOK' /\ DaemonOK' /\ ReadyOK'
  BY <1>1 DEF Inv, KernelOK, DaemonOK, ReadyOK, Ready, SocketOK
<1>4. IndexOK'
  BY <1>1 DEF Inv, IndexOK, Owns, Owned
<1> QED
  BY <1>2, <1>3, <1>4 DEF Inv

\* The hosts a reconcile goes through, with the interfaces they are mirrored on.
Mirrored == {m \in Hosts \X registered : <<m[1], interfaces[m[2]].Ifindex>> \in mirroredNeighs}

LEMMA ReconcileEffect ==
  ASSUME Inv, Reconcile
  PROVE  /\ phase = "idle" /\ reconcileScheduled' = FALSE
         /\ \E on \in SUBSET Devs : MirrorAdd(Mirrored, on)
         /\ UNCHANGED <<dev, lastIdx, linkCh, neigh, neighCh, routeCh, pin, file, reload, monitor,
                        root, registered, interfaces, mirroredNeighs, phase, todo>>
<1> DEFINE on == proxyNdp \cup {d \in Devs : dev[d].ix # NoIdx /\
                                \E n \in registered : /\ interfaces[n].Ifname = d
                                                      /\ interfaces[n].NDP = "relay"
                                                      /\ interfaces[n].ndp # NoIdx}
<1>1. on \in SUBSET Devs
  BY DEF Inv, TypeOK
<1>2. MirrorAdd(Mirrored, on)
  BY DEF Reconcile, Mirrored
<1>3. /\ phase = "idle" /\ reconcileScheduled' = FALSE
      /\ UNCHANGED <<dev, lastIdx, linkCh, neigh, neighCh, routeCh, pin, file, reload, monitor,
                     root, registered, interfaces, mirroredNeighs, phase, todo>>
  BY DEF Reconcile, linkVars, configVars
<1> HIDE DEF on
<1> QED
  BY <1>1, <1>2, <1>3

LEMMA ReconcileInv ==
  ASSUME Inv, Reconcile
  PROVE  Inv'
<1>0. /\ reconcileScheduled' = FALSE
      /\ UNCHANGED <<dev, lastIdx, linkCh, neigh, neighCh, routeCh, pin, file, reload, monitor,
                     root, registered, interfaces, mirroredNeighs, phase, todo>>
  BY ReconcileEffect
<1>1. PICK on \in SUBSET Devs : MirrorAdd(Mirrored, on)
  BY ReconcileEffect
<1>2. Mirrored \in SUBSET (Hosts \X registered)
  BY DEF Mirrored
<1>3. \A h \in Hosts : \A n \in registered : <<h, n>> \in Mirrored =>
        <<h, interfaces[n].Ifindex>> \in mirroredNeighs
  BY DEF Mirrored
<1>4. /\ proxyNdp' \subseteq Devs /\ proxy' \subseteq Hosts \X (0..MaxIdx)
      /\ route' \in [Hosts -> 0..MaxIdx]
      /\ \A h \in Hosts : route'[h] = route[h] \/ <<h, route'[h]>> \in mirroredNeighs
  BY <1>1, <1>2, <1>3, MirrorAddEffect DEF Inv
<1>5. ASSUME NEW own \in [Idx -> Devs], Owns(own)
      PROVE  /\ \A j \in mirroredNeighs' : Owned(own, j[2], Behind[j[1]])
             /\ \A h \in Hosts : Owned(own, route'[h], Behind[h])
  BY <1>0, <1>4, <1>5 DEF Owns
<1>6. /\ neigh' \in [Hosts -> {"none", "resolved", "failed"}]
      /\ \A h \in Hosts : neigh'[h] = neigh[h]
      /\ neighCh' \in Seq(NeighEvent) /\ Events(neighCh)' \subseteq Events(neighCh)
      /\ routeCh' \subseteq Idx /\ mirroredNeighs' \subseteq Hosts \X Idx
      /\ reconcileScheduled' \in BOOLEAN
  BY <1>0 DEF Inv, TypeOK
<1> QED
  BY <1>0, <1>4, <1>5, <1>6, MirrorStep

\* What the sweep goes through: the failed entries of the links it scans, and of the
\* mirrored hosts those that failed or are not on the link their route points to.
Swept == {n \in registered : interfaces[n].NDP = "relay" /\ interfaces[n].Ifindex # NoIdx
                             /\ Exists(interfaces[n].Ifindex)}
Failed == {m \in Hosts \X Swept : OnLink(m[1]) = interfaces[m[2]].Ifindex /\ neigh[m[1]] = "failed"}
Key(m) == <<m[1], interfaces[m[2]].Ifindex>>
Reaped == {m \in Failed : Key(m) \in mirroredNeighs} \cup
          {m \in Hosts \X Swept : Orphaned(m[1], m[2])}

LEMMA SweepEffect ==
  ASSUME Inv, Sweep
  PROVE  /\ phase = "idle" /\ todo = {}
         /\ Reaped \in SUBSET (Hosts \X registered)
         /\ mirroredNeighs' = mirroredNeighs \ {Key(m) : m \in Reaped}
         /\ MirrorDel(Reaped)
         /\ neigh' \in [Hosts -> {"none", "resolved", "failed"}]
         /\ \A h \in Hosts : neigh'[h] = neigh[h] \/ neigh'[h] = "none"
         /\ UNCHANGED <<dev, lastIdx, linkCh, neighCh, proxyNdp, pin, file, reload, monitor, root,
                        registered, interfaces, reconcileScheduled, phase, todo>>
<1>1. Sweep <=>
        /\ phase = "idle"
        /\ mirroredNeighs' = mirroredNeighs \ {Key(m) : m \in Reaped}
        /\ MirrorDel(Reaped)
        /\ neigh' = [h \in Hosts |-> IF \E m \in Failed : m[1] = h THEN "none" ELSE neigh[h]]
        /\ UNCHANGED <<linkVars, neighCh, proxyNdp, pin, configVars, registered, interfaces,
                       reconcileScheduled, phase, todo>>
  BY Zenon DEF Sweep, Swept, Failed, Key, Reaped
<1>2. Reaped \in SUBSET (Hosts \X registered)
  BY DEF Reaped, Failed, Swept
<1>3. /\ neigh' \in [Hosts -> {"none", "resolved", "failed"}]
      /\ \A h \in Hosts : neigh'[h] = neigh[h] \/ neigh'[h] = "none"
  BY <1>1 DEF Inv, TypeOK
<1>4. UNCHANGED <<dev, lastIdx, linkCh, neighCh, proxyNdp, pin, file, reload, monitor, root,
                  registered, interfaces, reconcileScheduled, phase, todo>>
  BY <1>1 DEF linkVars, configVars
<1> QED
  BY <1>1, <1>2, <1>3, <1>4 DEF Inv, DaemonOK

LEMMA SweepInv ==
  ASSUME Inv, Sweep
  PROVE  Inv'
<1>0. /\ Reaped \in SUBSET (Hosts \X registered) /\ MirrorDel(Reaped)
      /\ mirroredNeighs' \subseteq mirroredNeighs
      /\ neigh' \in [Hosts -> {"none", "resolved", "failed"}]
      /\ \A h \in Hosts : neigh'[h] = neigh[h] \/ neigh'[h] = "none"
      /\ UNCHANGED <<dev, lastIdx, linkCh, neighCh, proxyNdp, pin, file, reload, monitor, root,
                     registered, interfaces, reconcileScheduled, phase, todo>>
  BY SweepEffect
<1>1. /\ proxy' \subseteq proxy /\ route' \in [Hosts -> 0..MaxIdx] /\ routeCh' \subseteq Idx
      /\ \A h \in Hosts : route'[h] = route[h] \/ route'[h] = NoIdx
  BY <1>0, MirrorDelEffect DEF Inv
<1>2. ASSUME NEW own \in [Idx -> Devs], Owns(own)
      PROVE  /\ \A j \in mirroredNeighs' : Owned(own, j[2], Behind[j[1]])
             /\ \A h \in Hosts : Owned(own, route'[h], Behind[h])
  BY <1>0, <1>1, <1>2 DEF Owns, Owned
<1>3. /\ mirroredNeighs' \subseteq Hosts \X Idx /\ proxy' \subseteq Hosts \X (0..MaxIdx)
      /\ proxyNdp' \subseteq Devs /\ neighCh' \in Seq(NeighEvent)
      /\ Events(neighCh)' \subseteq Events(neighCh) /\ reconcileScheduled' \in BOOLEAN
  BY <1>0, <1>1 DEF Inv, TypeOK
<1> QED
  BY <1>0, <1>1, <1>2, <1>3, MirrorStep

LEMMA HandleSolicitInv ==
  ASSUME Inv, NEW h \in Hosts, NEW n \in Names, HandleSolicit(h, n)
  PROVE  Inv'
<1>1. /\ pin' = [pin EXCEPT ![h] = NoIdx]
      /\ UNCHANGED <<dev, lastIdx, linkCh, neigh, neighCh, route, proxy, proxyNdp, routeCh, file,
                     reload, monitor, root, registered, interfaces, mirroredNeighs,
                     reconcileScheduled, phase, todo>>
  BY DEF HandleSolicit, linkVars, tableVars, configVars, daemonVars
<1>2. TypeOK'
  BY <1>1, Constants DEF Inv, TypeOK
<1>3. KernelOK' /\ DaemonOK' /\ ReadyOK'
  BY <1>1 DEF Inv, KernelOK, DaemonOK, ReadyOK, Ready, SocketOK
<1>4. IndexOK'
  BY <1>1 DEF Inv, IndexOK, Owns, Owned
<1> QED
  BY <1>2, <1>3, <1>4 DEF Inv

LEMMA EditConfigInv ==
  ASSUME Inv, NEW f \in Files, EditConfig(f)
  PROVE  Inv'
<1>1. /\ file' = f /\ reload' = TRUE
      /\ UNCHANGED <<dev, lastIdx, linkCh, neigh, neighCh, route, proxy, proxyNdp, routeCh, pin,
                     monitor, root, registered, interfaces, mirroredNeighs, reconcileScheduled,
                     phase, todo>>
  BY DEF EditConfig, linkVars, tableVars, daemonVars
<1>2. TypeOK'
  BY <1>1 DEF Inv, TypeOK
<1>3. KernelOK' /\ DaemonOK' /\ ReadyOK'
  BY <1>1 DEF Inv, KernelOK, DaemonOK, ReadyOK, Ready, SocketOK
<1>4. IndexOK'
  BY <1>1 DEF Inv, IndexOK, Owns, Owned
<1> QED
  BY <1>2, <1>3, <1>4 DEF Inv

LEMMA SubscriptionEndsInv ==
  ASSUME Inv, SubscriptionEnds
  PROVE  Inv'
<1>1. /\ monitor' = FALSE
      /\ UNCHANGED <<dev, lastIdx, linkCh, neigh, neighCh, route, proxy, proxyNdp, routeCh, pin,
                     file, reload, root, registered, interfaces, mirroredNeighs, reconcileScheduled,
                     phase, todo>>
  BY DEF SubscriptionEnds, linkVars, tableVars, daemonVars
<1>2. TypeOK'
  BY <1>1 DEF Inv, TypeOK
<1>3. KernelOK' /\ DaemonOK' /\ ReadyOK'
  BY <1>1 DEF Inv, KernelOK, DaemonOK, ReadyOK, Ready, SocketOK
<1>4. IndexOK'
  BY <1>1 DEF Inv, IndexOK, Owns, Owned
<1> QED
  BY <1>2, <1>3, <1>4 DEF Inv

LEMMA RestartInv ==
  ASSUME Inv, NEW h \in Hosts, NEW n \in Names, NEW pinging \in BOOLEAN, Restart(h, n, pinging)
  PROVE  Inv'
<1>1. /\ registered' = {} /\ interfaces' = [m \in Names |-> NewInterface]
      /\ mirroredNeighs' = {} /\ reconcileScheduled' = FALSE
      /\ linkCh' = << >> /\ neighCh' = << >> /\ routeCh' = {}
      /\ phase' = "idle" /\ todo' = {} /\ root' = << >> /\ reload' = TRUE /\ monitor' = TRUE
      /\ UNCHANGED <<dev, lastIdx, neigh, route, proxy, proxyNdp, file>>
  BY DEF Restart
<1>2. pin' \in [Hosts -> 0..MaxIdx]
  BY DEF Restart, Inv, TypeOK, Interface
<1>3. /\ linkCh' \in Seq(LinkEvent) /\ neighCh' \in Seq(NeighEvent)
      /\ Events(linkCh)' = {} /\ Events(neighCh)' = {}
  BY <1>1 DEF Events
<1>4. interfaces' \in [Names -> Interface] /\ \A m \in Names : interfaces'[m] = NewInterface
  BY <1>1, Unregistered
<1>5. TypeOK'
  BY <1>1, <1>2, <1>3, <1>4 DEF Inv, TypeOK
<1>6. KernelOK' /\ DaemonOK' /\ ReadyOK'
  BY <1>1, <1>4, Unregistered DEF Inv, KernelOK, DaemonOK, ReadyOK, Ready
<1>7. IndexOK'
  BY <1>1, <1>3, <1>4, Unregistered DEF Inv, IndexOK, Owns, Owned
<1> QED
  BY <1>5, <1>6, <1>7 DEF Inv

-----------------------------------------------------------------------------
LEMMA InitInv == Init => Inv
<1> SUFFICES ASSUME Init PROVE Inv
  OBVIOUS
<1>1. PICK ix \in [Devs -> Idx] :
        /\ \A d, e \in Devs : d # e => ix[d] # ix[e]
        /\ dev = [d \in Devs |-> [ix |-> ix[d], running |-> TRUE]]
        /\ lastIdx \in Idx /\ \A i \in Idx : i <= lastIdx <=> \E d \in Devs : ix[d] = i
  BY DEF Init
<1>2. /\ \A d \in Devs : dev[d].ix = ix[d] /\ dev[d].running
      /\ dev \in [Devs -> [ix : 0..MaxIdx, running : BOOLEAN]] /\ lastIdx \in 0..MaxIdx
  BY <1>1, Constants
<1>3. /\ interfaces \in [Names -> Interface] /\ \A n \in Names : interfaces[n] = NewInterface
  BY Unregistered DEF Init
<1>4. /\ linkCh \in Seq(LinkEvent) /\ neighCh \in Seq(NeighEvent)
      /\ Events(linkCh) = {} /\ Events(neighCh) = {}
  BY DEF Init, Events
<1>5. TypeOK
  BY <1>2, <1>3, <1>4, Constants DEF Init, TypeOK
<1>6. KernelOK /\ DaemonOK /\ ReadyOK
  <2>1. Behind \in [Hosts -> Devs]
    BY RelayAssumption
  <2> QED
    BY <1>2, <1>3, <2>1, Unregistered, Constants DEF Init, KernelOK, DaemonOK, ReadyOK, Ready
<1>7. IndexOK
  <2>1. PICK c \in Devs : ix[c] = lastIdx
    BY <1>1, Constants
  <2> DEFINE own == [i \in Idx |-> IF \E d \in Devs : ix[d] = i
                                   THEN CHOOSE d \in Devs : ix[d] = i ELSE c]
  <2>2. own \in [Idx -> Devs]
    BY <2>1
  <2>3. \A d \in Devs : own[ix[d]] = d
    BY <1>1
  <2> HIDE DEF own
  <2>4. \A d \in Devs : Owned(own, dev[d].ix, d)
    BY <1>1, <1>2, <2>3 DEF Owned
  <2>5. \A n \in Names : Owned(own, interfaces[n].Ifindex, interfaces[n].Ifname)
    BY <1>3, Unregistered DEF Owned
  <2>6. mirroredNeighs = {} /\ \A h \in Hosts : route[h] = NoIdx
    BY DEF Init
  <2> QED
    BY <1>4, <2>2, <2>4, <2>5, <2>6 DEF IndexOK, Owns, Owned
<1> QED
  BY <1>5, <1>6, <1>7 DEF Inv

LEMMA KernelInv == Inv /\ Kernel => Inv'
BY LinkGoesDownInv, LinkComesUpInv, LinkDeletedInv, LinkCreatedInv, NeighAnswersInv, NeighFailsInv,
   NeighGCInv DEF Kernel

LEMMA StutterInv == Inv /\ UNCHANGED vars => Inv'
<1> SUFFICES ASSUME Inv, UNCHANGED vars PROVE Inv'
  OBVIOUS
<1>1. UNCHANGED <<dev, lastIdx, linkCh, neigh, neighCh, route, proxy, proxyNdp, routeCh, pin, file,
                  reload, monitor, root, registered, interfaces, mirroredNeighs, reconcileScheduled,
                  phase, todo>>
  BY DEF vars, linkVars, tableVars, configVars, daemonVars
<1>2. TypeOK'
  BY <1>1 DEF Inv, TypeOK
<1>3. KernelOK' /\ DaemonOK' /\ ReadyOK'
  BY <1>1 DEF Inv, KernelOK, DaemonOK, ReadyOK, Ready, SocketOK
<1>4. IndexOK'
  BY <1>1 DEF Inv, IndexOK, Owns, Owned
<1> QED
  BY <1>2, <1>3, <1>4 DEF Inv

LEMMA StepInv == Inv /\ [FaultyNext]_vars => Inv'
<1> SUFFICES ASSUME Inv, FaultyNext \/ UNCHANGED vars PROVE Inv'
  OBVIOUS
<1>1. CASE Reloading
  BY <1>1, ReloadStartInv, ParseInterfaceInv, ApplyInterfaceInv, ReloadModesInv DEF Reloading
<1>2. CASE Handlers
  BY <1>2, HandleLinkEventInv, HandleNeighEventInv, ReconcileInv, SweepInv, HandleRouteEventInv,
     HandleSolicitInv DEF Handlers
<1> QED
  BY <1>1, <1>2, KernelInv, StutterInv, EditConfigInv, SubscriptionEndsInv, RestartInv
     DEF FaultyNext, Next

LEMMA Invariance == FaultySpec => []Inv
BY InitInv, StepInv, PTL DEF FaultySpec

LEMMA SpecIsFaultless == Spec => FaultySpec
<1>1. [Next]_vars => [FaultyNext]_vars
  BY DEF FaultyNext
<1> QED
  BY <1>1, PTL DEF Spec, FaultySpec

\* Kernel tables, queues and the daemon keep their types, restarts included: no event,
\* key or route is ever on the index 0 of a missing link.
THEOREM RelayTypeCorrect == FaultySpec => []TypeOK
<1>1. Inv => TypeOK
  BY DEF Inv
<1> QED
  BY <1>1, Invariance, PTL

\* No capture socket outlives the index, the carrier or the mode it was opened for,
\* with any number of interfaces, netdevs and files, and also when the daemon is
\* restarted in the middle of a reload or the monitor ends.
THEOREM SocketsStayCurrent == FaultySpec => []SocketsCurrent
<1>1. Inv => SocketsCurrent
  <2> SUFFICES ASSUME Inv, phase = "idle", NEW n \in Names, interfaces[n].ndp # NoIdx
               PROVE  /\ n \in registered /\ interfaces[n].ndp = interfaces[n].Ifindex
                      /\ interfaces[n].Running /\ interfaces[n].NDP = "relay"
    BY DEF SocketsCurrent
  <2>1. n \in registered
    BY Unregistered DEF Inv, DaemonOK
  <2>2. n \in Ready
    BY <2>1 DEF Inv, DaemonOK, Ready
  <2> QED
    BY <2>1, <2>2 DEF Inv, ReadyOK, SocketOK
<1> QED
  BY <1>1, Invariance, PTL

-----------------------------------------------------------------------------
(* What the mirror of a host is worth over the life of the interfaces.      *)

\* No config file has two entries for one netdev.
OneNamePerDev ==
  \A f \in Files : \A m, n \in DOMAIN f : f[m].Ifname = f[n].Ifname => m = n

\* The capture of n sees the link of h and h is resolved there; the daemon knows, or
\* an event will tell it.
Wants(n, h) ==
  interfaces[n].ndp # NoIdx /\ interfaces[n].ndp = OnLink(h) /\ neigh[h] = "resolved"
Known(h) ==
  \/ <<h, OnLink(h)>> \in mirroredNeighs
  \/ [host |-> h, ix |-> OnLink(h), state |-> "resolved"] \in Events(neighCh)
LearnOK == \A h \in Hosts : \A n \in Ready : Wants(n, h) => Known(h)

-----------------------------------------------------------------------------
\* Two entries in use are for different netdevs, and have different links.
LEMMA SameName ==
  ASSUME Inv, OneNamePerDev, NEW m \in Names, NEW n \in Names,
         interfaces[m].Inuse, interfaces[n].Inuse, interfaces[m].Ifname = interfaces[n].Ifname
  PROVE  m = n
<1>1. /\ m \in DOMAIN root /\ interfaces[m].Ifname = root[m].Ifname
      /\ n \in DOMAIN root /\ interfaces[n].Ifname = root[n].Ifname
  BY DEF Inv, DaemonOK
<1>2. root \in Files
  <2>1. root \in Files \/ root = << >>
    BY DEF Inv, TypeOK
  <2>2. DOMAIN << >> = {}
    OBVIOUS
  <2> QED
    BY <1>1, <2>1, <2>2
<1> QED
  BY <1>1, <1>2 DEF OneNamePerDev

LEMMA SameLink ==
  ASSUME Inv, OneNamePerDev, NEW m \in Names, NEW n \in Names,
         interfaces[m].Inuse, interfaces[n].Inuse,
         interfaces[m].Ifindex = interfaces[n].Ifindex, interfaces[m].Ifindex # NoIdx
  PROVE  m = n
<1>1. PICK own \in [Idx -> Devs] : Owns(own)
  BY DEF Inv, IndexOK
<1>2. interfaces[m].Ifname = interfaces[n].Ifname
  BY <1>1 DEF Owns, Owned
<1> QED
  BY <1>2, SameName

\* Nothing is forgotten, and no interface is to know more than before.
LEMMA LearnFrame ==
  ASSUME LearnOK, Ready' \subseteq Ready,
         \A n \in Ready' : interfaces'[n].ndp # NoIdx => interfaces'[n].ndp = interfaces[n].ndp,
         \A h \in Hosts : neigh'[h] = "resolved" => neigh[h] = "resolved" /\ OnLink(h)' = OnLink(h),
         mirroredNeighs \subseteq mirroredNeighs', Events(neighCh) \subseteq Events(neighCh)'
  PROVE  LearnOK'
<1> SUFFICES ASSUME NEW h \in Hosts, NEW n \in Ready', Wants(n, h)'
             PROVE  Known(h)'
  BY DEF LearnOK
<1>1. neigh'[h] = "resolved" /\ interfaces'[n].ndp # NoIdx /\ interfaces'[n].ndp = OnLink(h)'
  BY DEF Wants
<1>2. OnLink(h)' = OnLink(h) /\ Wants(n, h)
  BY <1>1 DEF Wants
<1>3. Known(h)
  BY <1>2 DEF LearnOK
<1> QED
  BY <1>2, <1>3 DEF Known

LEMMA LearnEmpty ==
  ASSUME Ready' = {}
  PROVE  LearnOK'
BY DEF LearnOK

\* The same daemon, and a kernel that forgets at most.
LEMMA LearnKernel ==
  ASSUME LearnOK, UNCHANGED <<registered, interfaces, mirroredNeighs, neighCh, phase, todo>>,
         \A h \in Hosts : neigh'[h] = "resolved" => neigh[h] = "resolved" /\ OnLink(h)' = OnLink(h)
  PROVE  LearnOK'
<1>1. Ready' = Ready
  BY DEF Ready
<1> QED
  BY <1>1, LearnFrame

LEMMA LinkGoesDownLearn ==
  ASSUME Inv, LearnOK, NEW d \in Devs, LinkGoesDown(d)
  PROVE  LearnOK'
<1>1. UNCHANGED <<registered, interfaces, mirroredNeighs, neighCh, phase, todo>>
  BY DEF LinkGoesDown, daemonVars
<1>2. \A e \in Devs : dev'[e].ix = dev[e].ix
  BY DEF LinkGoesDown, Inv, TypeOK
<1>3. \A h \in Hosts : OnLink(h)' = OnLink(h)
  BY <1>2, Constants DEF OnLink
<1>4. \A h \in Hosts : neigh'[h] = "resolved" => neigh[h] = "resolved"
  BY FlushEffect DEF LinkGoesDown, Inv, KernelOK
<1> QED
  BY <1>1, <1>3, <1>4, LearnKernel

LEMMA LinkComesUpLearn ==
  ASSUME Inv, LearnOK, NEW d \in Devs, LinkComesUp(d)
  PROVE  LearnOK'
<1>1. UNCHANGED <<registered, interfaces, mirroredNeighs, neighCh, phase, todo, neigh>>
  BY DEF LinkComesUp, daemonVars
<1>2. \A e \in Devs : dev'[e].ix = dev[e].ix
  BY DEF LinkComesUp, Inv, TypeOK
<1>3. \A h \in Hosts : OnLink(h)' = OnLink(h)
  BY <1>2, Constants DEF OnLink
<1> QED
  BY <1>1, <1>3, LearnKernel

LEMMA LinkDeletedLearn ==
  ASSUME Inv, LearnOK, NEW d \in Devs, LinkDeleted(d)
  PROVE  LearnOK'
<1>1. UNCHANGED <<registered, interfaces, mirroredNeighs, neighCh, phase, todo>>
  BY DEF LinkDeleted, daemonVars
<1>2. \A e \in Devs : e # d => dev'[e].ix = dev[e].ix
  BY DEF LinkDeleted, Inv, TypeOK
<1>3. \A h \in Hosts : neigh'[h] = "resolved" => neigh[h] = "resolved" /\ Behind[h] # d
  BY FlushEffect DEF LinkDeleted, Inv
<1>4. \A h \in Hosts : neigh'[h] = "resolved" => OnLink(h)' = OnLink(h)
  BY <1>2, <1>3, Constants DEF OnLink
<1> QED
  BY <1>1, <1>3, <1>4, LearnKernel

\* A link that was just created has no hosts yet.
LEMMA LinkCreatedLearn ==
  ASSUME Inv, LearnOK, NEW d \in Devs, LinkCreated(d)
  PROVE  LearnOK'
<1>1. UNCHANGED <<registered, interfaces, mirroredNeighs, neighCh, phase, todo, neigh>>
  BY DEF LinkCreated, daemonVars
<1>2. \A e \in Devs : e # d => dev'[e].ix = dev[e].ix
  BY DEF LinkCreated, Inv, TypeOK
<1>3. \A h \in Hosts : neigh[h] = "resolved" => Behind[h] # d
  BY Constants DEF LinkCreated, Inv, KernelOK
<1>4. \A h \in Hosts : neigh'[h] = "resolved" => OnLink(h)' = OnLink(h)
  BY <1>1, <1>2, <1>3, Constants DEF OnLink
<1> QED
  BY <1>1, <1>4, LearnKernel

\* A host that is resolved now is announced now.
LEMMA NeighBecomesLearn ==
  ASSUME Inv, LearnOK, NEW h \in Hosts, NEW state \in {"resolved", "failed"},
         NeighBecomes(h, state), dev[Behind[h]].running
  PROVE  LearnOK'
<1>1. UNCHANGED <<dev, registered, interfaces, mirroredNeighs, phase, todo>>
  BY DEF NeighBecomes, linkVars, daemonVars
<1>2. \A g \in Hosts : neigh'[g] = IF g = h THEN state ELSE neigh[g]
  BY DEF NeighBecomes, Inv, TypeOK
<1>3. Events(neighCh)' = Events(neighCh) \cup {[host |-> h, ix |-> OnLink(h), state |-> state]}
  BY NeighBecomesInv
<1>4. Ready' = Ready /\ \A g \in Hosts : OnLink(g)' = OnLink(g)
  BY <1>1 DEF Ready, OnLink
<1> SUFFICES ASSUME NEW g \in Hosts, NEW n \in Ready, Wants(n, g)'
             PROVE  Known(g)'
  BY <1>4 DEF LearnOK
<1>5. CASE g = h
  BY <1>2, <1>3, <1>4, <1>5 DEF Wants, Known
<1>6. CASE g # h
  <2>1. Wants(n, g)
    BY <1>1, <1>2, <1>4, <1>6 DEF Wants
  <2>2. Known(g)
    BY <2>1 DEF LearnOK
  <2> QED
    BY <2>2, <1>1, <1>3, <1>4 DEF Known
<1> QED
  BY <1>5, <1>6

LEMMA NeighGCLearn ==
  ASSUME Inv, LearnOK, NEW h \in Hosts, NeighGC(h)
  PROVE  LearnOK'
<1>1. UNCHANGED <<dev, registered, interfaces, mirroredNeighs, neighCh, phase, todo>>
  BY DEF NeighGC, linkVars, daemonVars
<1>2. \A g \in Hosts : neigh'[g] = IF g = h THEN "none" ELSE neigh[g]
  BY DEF NeighGC, Inv, TypeOK
<1>3. \A g \in Hosts : OnLink(g)' = OnLink(g)
  BY <1>1 DEF OnLink
<1> QED
  BY <1>1, <1>2, <1>3, LearnKernel

LEMMA KernelLearn == Inv /\ LearnOK /\ Kernel => LearnOK'
<1>1. ASSUME Inv, LearnOK, NEW h \in Hosts, NeighFails(h) PROVE LearnOK'
  BY <1>1, NeighBecomesLearn DEF NeighFails, Inv, KernelOK
<1>2. ASSUME Inv, LearnOK, NEW h \in Hosts, NeighAnswers(h) PROVE LearnOK'
  BY <1>2, NeighBecomesLearn DEF NeighAnswers
<1> QED
  BY <1>1, <1>2, LinkGoesDownLearn, LinkComesUpLearn, LinkDeletedLearn, LinkCreatedLearn,
     NeighGCLearn DEF Kernel

-----------------------------------------------------------------------------

(* The daemon's steps.                                                     *)

LEMMA ReloadLearn ==
  ASSUME Inv, ReloadStart \/ ReloadModes \/ (\E n \in Names : ParseInterface(n))
  PROVE  LearnOK'
<1>1. CASE ReloadStart
  BY <1>1, LearnEmpty DEF ReloadStart, Ready
<1>2. CASE ReloadModes
  <2>1. registered' = registered /\ todo' = registered
    BY <1>2, ModesEffect
  <2> QED
    BY <2>1, LearnEmpty DEF Ready
<1>3. CASE \E n \in Names : ParseInterface(n)
  <2>1. phase' = "parse"
    BY <1>3, ParseEffect
  <2> QED
    BY <2>1, LearnEmpty DEF Ready
<1> QED
  BY <1>1, <1>2, <1>3

\* An interface that opens its capture finds the hosts that are there already.
LEMMA NdpSetupLearn ==
  ASSUME Inv, LearnOK, NEW n \in Names, ApplyInterface(n), NdpSetup(n)
  PROVE  LearnOK'
<1>1. /\ phase = "apply" /\ n \in todo /\ n \in registered /\ todo' = todo \ {n} /\ phase' # "parse"
      /\ UNCHANGED <<dev, neigh, neighCh>>
  BY ApplyFrame
<1>2. /\ \A m \in Names : m # n => interfaces'[m] = interfaces[m]
      /\ interfaces'[n].ndp = IF Opens(n) THEN interfaces[n].Ifindex ELSE NoIdx
      /\ mirroredNeighs' = mirroredNeighs \cup (Found(n) \X {interfaces[n].Ifindex})
      /\ UNCHANGED registered
  BY <1>1, SetupEffect
<1>3. \A h \in Hosts : OnLink(h)' = OnLink(h)
  BY <1>1 DEF OnLink
<1>4. \A m \in Ready' : m = n \/ (m \in Ready /\ m \in Names)
  BY <1>1, <1>2 DEF Ready, Inv, TypeOK
<1> SUFFICES ASSUME NEW h \in Hosts, NEW m \in Ready', Wants(m, h)'
             PROVE  Known(h)'
  BY DEF LearnOK
<1>5. neigh[h] = "resolved" /\ interfaces'[m].ndp # NoIdx /\ interfaces'[m].ndp = OnLink(h)
  BY <1>1, <1>3 DEF Wants
<1>6. CASE m = n
  <2>1. Opens(n) /\ OnLink(h) = interfaces[n].Ifindex
    BY <1>2, <1>5, <1>6
  <2>2. <<h, OnLink(h)>> \in mirroredNeighs \/ h \in Found(n)
    BY <2>1, <1>5 DEF Found, Seeded
  <2>3. <<h, OnLink(h)>> \in mirroredNeighs'
    BY <2>1, <2>2, <1>2
  <2> QED
    BY <2>3, <1>3 DEF Known
<1>7. CASE m # n
  <2>1. Wants(m, h) /\ m \in Ready
    BY <1>2, <1>4, <1>5, <1>7 DEF Wants
  <2>2. Known(h)
    BY <2>1 DEF LearnOK
  <2> QED
    BY <2>2, <1>1, <1>2, <1>3 DEF Known
<1> QED
  BY <1>6, <1>7

LEMMA ApplyLearn ==
  ASSUME Inv, LearnOK, NEW n \in Names, ApplyInterface(n)
  PROVE  LearnOK'
<1>1. /\ phase = "apply" /\ n \in todo /\ n \in registered /\ todo' = todo \ {n} /\ phase' # "parse"
      /\ UNCHANGED <<dev, neigh, neighCh>>
  BY ApplyFrame
<1>2. \A h \in Hosts : OnLink(h)' = OnLink(h)
  BY <1>1 DEF OnLink
<1>3. CASE NdpDisable(n)
  <2>1. /\ \A m \in Names : m # n => interfaces'[m] = interfaces[m]
        /\ interfaces'[n].ndp = NoIdx /\ UNCHANGED <<registered, mirroredNeighs>>
    BY <1>1, <1>3, DisableEffect
  <2> SUFFICES ASSUME NEW h \in Hosts, NEW m \in Ready', Wants(m, h)'
               PROVE  Known(h)'
    BY DEF LearnOK
  <2>2. m # n /\ m \in Ready /\ m \in Names
    BY <1>1, <2>1 DEF Ready, Wants, Inv, TypeOK
  <2>3. Wants(m, h)
    BY <1>1, <1>2, <2>1, <2>2 DEF Wants
  <2>4. Known(h)
    BY <2>2, <2>3 DEF LearnOK
  <2> QED
    BY <2>4, <1>1, <1>2, <2>1 DEF Known
<1>4. CASE CloseInterface(n)
  <2>1. /\ \A m \in Names : m # n => interfaces'[m] = interfaces[m]
        /\ registered' = registered \ {n} /\ UNCHANGED mirroredNeighs
    BY <1>4 DEF CloseInterface, Inv, TypeOK
  <2>2. Ready' \subseteq Ready /\ \A m \in Ready' : m # n /\ m \in Names
    BY <1>1, <2>1 DEF Ready, Inv, TypeOK
  <2> QED
    BY <1>1, <1>2, <2>1, <2>2, LearnFrame
<1> QED
  BY <1>3, <1>4, NdpSetupLearn, ApplyFrame

\* A replaced link takes the keys of its own index only, and the interface that had
\* it has no capture now.
LEMMA RelinkLearn ==
  ASSUME Inv, LearnOK, OneNamePerDev, HandleLinkEvent, NEW n \in registered,
         interfaces[n].Ifname = Head(linkCh).dev, HandleLinkDeleted(n) \/ HandleLinkReplaced(n)
  PROVE  LearnOK'
<1>1. /\ phase = "idle" /\ todo = {} /\ UNCHANGED <<dev, neigh, neighCh>>
  BY LinkEventTaken
<1>2. /\ \A m \in Names : m # n => interfaces'[m] = interfaces[m]
      /\ interfaces'[n].ndp = NoIdx
      /\ UNCHANGED registered
      /\ (phase' = phase /\ todo' = todo) \/ (phase' = "apply" /\ todo' = {n})
      /\ \E ix : Detach(n, ix)
  BY RelinkEffect
<1>3. mirroredNeighs' = {k \in mirroredNeighs : k[2] # interfaces[n].Ifindex}
  BY <1>2, DetachEffect DEF Inv
<1>4. \A h \in Hosts : OnLink(h)' = OnLink(h)
  BY <1>1 DEF OnLink
<1> SUFFICES ASSUME NEW h \in Hosts, NEW m \in Ready', Wants(m, h)'
             PROVE  Known(h)'
  BY DEF LearnOK
<1>5. m # n /\ m \in Ready /\ m \in Names /\ n \in Ready /\ n \in Names
  BY <1>1, <1>2 DEF Ready, Wants, Inv, TypeOK
<1>6. Wants(m, h)
  BY <1>1, <1>2, <1>4, <1>5 DEF Wants
<1>7. Known(h)
  BY <1>5, <1>6 DEF LearnOK
<1>8. OnLink(h) # interfaces[n].Ifindex
  <2>1. /\ interfaces[m].Inuse /\ interfaces[n].Inuse
        /\ interfaces[m].Ifindex = OnLink(h) /\ OnLink(h) # NoIdx
    BY <1>5, <1>6 DEF Inv, ReadyOK, SocketOK, Wants
  <2> QED
    BY <2>1, <1>5, SameLink
<1> QED
  BY <1>1, <1>3, <1>4, <1>7, <1>8 DEF Known

LEMMA HandleLinkEventLearn ==
  ASSUME Inv, LearnOK, OneNamePerDev, HandleLinkEvent
  PROVE  LearnOK'
<1>1. /\ phase = "idle" /\ todo = {} /\ UNCHANGED <<dev, neigh, neighCh>>
  BY LinkEventTaken
<1>2. \A h \in Hosts : OnLink(h)' = OnLink(h)
  BY <1>1 DEF OnLink
<1>3. CASE LinkIgnored
  BY <1>1, <1>2, <1>3, LearnKernel DEF LinkIgnored
<1>4. ASSUME NEW n \in registered, HandleLinkToggled(n) PROVE LearnOK'
  <2>1. /\ \A m \in Names : m # n => interfaces'[m] = interfaces[m]
        /\ phase' = "apply" /\ todo' = {n} /\ UNCHANGED <<registered, mirroredNeighs>>
    BY <1>4, ToggleEffect
  <2>2. Ready' \subseteq Ready /\ \A m \in Ready' : m # n /\ m \in Names
    BY <1>1, <2>1 DEF Ready, Inv, TypeOK
  <2> QED
    BY <1>1, <1>2, <2>1, <2>2, LearnFrame
<1> QED
  BY <1>3, <1>4, RelinkLearn DEF HandleLinkEvent

\* The event of a host is only taken to learn the host, or the entry is not resolved.
LEMMA HandleNeighEventLearn ==
  ASSUME Inv, LearnOK, HandleNeighEvent
  PROVE  LearnOK'
<1> DEFINE e == Head(neighCh)
           k == <<e.host, e.ix>>
<1>1. /\ phase = "idle" /\ e \in NeighEvent
      /\ Events(neighCh) \subseteq Events(neighCh)' \cup {e}
      /\ neigh' = IF e.state = "failed" /\ RelayIface(e.ix) # {} /\ OnLink(e.host) = e.ix
                  THEN [neigh EXCEPT ![e.host] = "none"] ELSE neigh
      /\ UNCHANGED <<dev, registered, interfaces, phase, todo>>
  BY NeighEventTaken
<1>2. \/ /\ RelayIface(e.ix) = {} \/ (e.state = "resolved") = (k \in mirroredNeighs)
         /\ mirroredNeighs' = mirroredNeighs
      \/ /\ RelayIface(e.ix) # {} /\ e.state = "resolved"
         /\ mirroredNeighs' = mirroredNeighs \cup {k}
      \/ /\ RelayIface(e.ix) # {} /\ e.state = "failed"
         /\ mirroredNeighs' = mirroredNeighs \ {k}
  BY NeighEventCases
<1>3. Ready' = Ready /\ \A h \in Hosts : OnLink(h)' = OnLink(h)
  BY <1>1 DEF Ready, OnLink
<1>4. neigh \in [Hosts -> {"none", "resolved", "failed"}] /\ e.host \in Hosts
  BY <1>1 DEF Inv, TypeOK, NeighEvent
<1> HIDE DEF e
<1> SUFFICES ASSUME NEW h \in Hosts, NEW n \in Ready, Wants(n, h)'
             PROVE  Known(h)'
  BY <1>3 DEF LearnOK
<1>5. /\ Wants(n, h)
      /\ ~(e.state = "failed" /\ RelayIface(e.ix) # {} /\ OnLink(e.host) = e.ix /\ e.host = h)
  BY <1>1, <1>3, <1>4 DEF Wants
<1>6. Known(h)
  BY <1>5 DEF LearnOK
<1>7. n \in RelayIface(OnLink(h))
  BY <1>5 DEF Wants, RelayIface, IfaceByIndex, Ready, Inv, ReadyOK, SocketOK
<1>8. CASE <<h, OnLink(h)>> \in mirroredNeighs
  <2>1. <<h, OnLink(h)>> \in mirroredNeighs'
    BY <1>2, <1>5, <1>8
  <2> QED
    BY <2>1, <1>3 DEF Known
<1>9. CASE <<h, OnLink(h)>> \notin mirroredNeighs
  <2> DEFINE v == [host |-> h, ix |-> OnLink(h), state |-> "resolved"]
  <2>1. v \in Events(neighCh)' \/ v = e
    BY <1>1, <1>6, <1>9 DEF Known
  <2>2. CASE v = e
    <3>1. e.host = h /\ e.ix = OnLink(h) /\ e.state = "resolved"
      BY <2>2
    <3>2. <<h, OnLink(h)>> \in mirroredNeighs'
      BY <3>1, <1>2, <1>7, <1>9
    <3> QED
      BY <3>2, <1>3 DEF Known
  <2>3. CASE v \in Events(neighCh)'
    BY <2>3, <1>3 DEF Known
  <2> QED
    BY <2>1, <2>2, <2>3
<1> QED
  BY <1>8, <1>9

\* The sweep drops no host that is resolved.
LEMMA SweepLearn ==
  ASSUME Inv, LearnOK, Sweep
  PROVE  LearnOK'
<1>1. /\ mirroredNeighs' = mirroredNeighs \ {Key(m) : m \in Reaped}
      /\ \A h \in Hosts : neigh'[h] = neigh[h] \/ neigh'[h] = "none"
      /\ UNCHANGED <<dev, neighCh, registered, interfaces, phase, todo>>
  BY SweepEffect
<1>2. Ready' = Ready /\ \A h \in Hosts : OnLink(h)' = OnLink(h)
  BY <1>1 DEF Ready, OnLink
<1> SUFFICES ASSUME NEW h \in Hosts, NEW n \in Ready, Wants(n, h)'
             PROVE  Known(h)'
  BY <1>2 DEF LearnOK
<1>3. Wants(n, h) /\ neigh[h] = "resolved"
  BY <1>1, <1>2 DEF Wants
<1>4. Known(h)
  BY <1>3 DEF LearnOK
<1>5. ASSUME NEW m \in Reaped, Key(m) = <<h, OnLink(h)>> PROVE FALSE
  <2>1. m[1] = h /\ interfaces[m[2]].Ifindex = OnLink(h)
    BY <1>5 DEF Key
  <2>2. m \notin Failed
    BY <2>1, <1>3 DEF Failed
  <2>3. ~Orphaned(m[1], m[2])
    BY <2>1, <1>3 DEF Orphaned
  <2> QED
    BY <2>2, <2>3 DEF Reaped
<1> QED
  BY <1>1, <1>2, <1>4, <1>5 DEF Known

LEMMA OtherLearn ==
  ASSUME LearnOK,
         \/ Reconcile \/ SubscriptionEnds \/ (\E ix \in Idx : HandleRouteEvent(ix))
         \/ (\E h \in Hosts, n \in Names : HandleSolicit(h, n)) \/ (\E f \in Files : EditConfig(f))
         \/ UNCHANGED vars
  PROVE  LearnOK'
<1>1. UNCHANGED <<dev, neigh, neighCh, registered, interfaces, mirroredNeighs, phase, todo>>
  BY DEF Reconcile, SubscriptionEnds, HandleRouteEvent, HandleSolicit, EditConfig, vars, linkVars,
         daemonVars
<1>2. \A h \in Hosts : OnLink(h)' = OnLink(h)
  BY <1>1 DEF OnLink
<1> QED
  BY <1>1, <1>2, LearnKernel

LEMMA StepLearn ==
  ASSUME OneNamePerDev, Inv, LearnOK, [FaultyNext]_vars
  PROVE  LearnOK'
<1>1. ASSUME NEW h \in Hosts, NEW n \in Names, NEW pinging \in BOOLEAN, Restart(h, n, pinging)
      PROVE  LearnOK'
  BY <1>1, LearnEmpty DEF Restart, Ready
<1> QED
  BY <1>1, KernelLearn, ReloadLearn, ApplyLearn, HandleLinkEventLearn, HandleNeighEventLearn,
     SweepLearn, OtherLearn DEF FaultyNext, Next, Reloading, Handlers

\* Hosts that were resolved before their interface was opened, or while events were
\* dropped, are known once the events are handled: with any files in which no netdev
\* has two entries, and restarts and a monitor that ends included.
THEOREM HostsAreLearned ==
  ASSUME OneNamePerDev
  PROVE  FaultySpec => []LearnedThroughLifecycle
<1>1. Init => LearnOK
  BY DEF Init, LearnOK, Ready
<1>2. Inv /\ LearnOK /\ [FaultyNext]_vars => LearnOK'
  BY StepLearn
<1>3. Inv /\ LearnOK => LearnedThroughLifecycle
  <2> SUFFICES ASSUME Inv, LearnOK, phase = "idle", neighCh = << >>, NEW h \in Hosts,
                      NEW n \in registered, Wants(n, h)
               PROVE  <<h, OnLink(h)>> \in mirroredNeighs
    BY DEF LearnedThroughLifecycle, Wants
  <2>1. n \in Ready
    BY DEF Ready, Inv, DaemonOK
  <2>2. Events(neighCh) = {}
    BY DEF Events
  <2> QED
    BY <2>1, <2>2 DEF LearnOK, Known
<1> QED
  BY <1>1, <1>2, <1>3, Invariance, PTL DEF FaultySpec

-----------------------------------------------------------------------------

(* The upstream interfaces, in configs that name them once and for all.    *)

\* Every entry has its ndproxy_routing on.
RoutesLearned == \A f \in Files : \A n \in DOMAIN f : f[n].ndproxy_routing

\* Every entry says whether it is a master, and every file but an unreadable one has
\* the same masters, on netdevs that stay.
StableUpstream ==
  /\ \A f \in Files : \A n \in DOMAIN f : f[n].master # "unset"
  /\ \A f, g \in Files : \A n \in DOMAIN f : f[n].master = "yes" =>
       /\ f[n].Ifname \notin Replaced
       /\ DOMAIN g # {} => /\ n \in DOMAIN g /\ g[n].master = "yes"
                           /\ g[n].Ifname = f[n].Ifname
Masters == {n \in Names : \E f \in Files : n \in DOMAIN f /\ f[n].master = "yes"}
Upstream(c) == CHOOSE d \in Devs :
  \E f \in Files : c \in DOMAIN f /\ f[c].master = "yes" /\ f[c].Ifname = d

\* The netdevs that stay exist, and every event tells what is the case.
LinksOK ==
  /\ \A d \in Devs : d \notin Replaced => dev[d].ix # NoIdx
  /\ \A e \in Events(linkCh) : e.dev \notin Replaced => e.type = "new" /\ e.ix = dev[e.dev].ix

\* A registered master is on its netdev.
RolesOK ==
  /\ \A n \in Names : interfaces[n].Master => n \in Masters
  /\ \A c \in Masters : c \in registered =>
       /\ interfaces[c].Master /\ interfaces[c].Ifname = Upstream(c)
       /\ interfaces[c].Ifindex = dev[Upstream(c)].ix
ModesOK ==
  /\ phase = "parse" => \A n \in registered : interfaces[n].NDP = "relay"
  /\ \A m, n \in registered : interfaces[m].NDP = interfaces[n].NDP
  /\ \A n \in registered : ~interfaces[n].Master => interfaces[n].NDP = "relay"

\* The masters are there before any interface has a link to lose.
ParsedOK ==
  /\ phase = "parse" =>
       /\ \A n \in DOMAIN root : n \notin todo =>
            n \in registered /\ (n \in Masters => interfaces[n].Inuse)
       /\ Masters \subseteq registered \/ \A n \in todo : interfaces[n].Ifindex = NoIdx
  /\ phase # "parse" /\ (\E n \in registered : interfaces[n].Inuse) =>
       \A c \in Masters : c \in registered /\ interfaces[c].Inuse
LearningOK == \A n \in Names : interfaces[n].LearnRoutes
MastersOK == LinksOK /\ RolesOK /\ ModesOK /\ ParsedOK /\ LearningOK

LEMMA UpstreamConstant ==
  ASSUME StableUpstream, NEW c \in Masters
  PROVE  /\ c \in Names /\ Upstream(c) \in Devs /\ Upstream(c) \notin Replaced
         /\ \A g \in Files : DOMAIN g # {} =>
              c \in DOMAIN g /\ g[c].master = "yes" /\ g[c].Ifname = Upstream(c)
<1>1. PICK f \in Files : c \in DOMAIN f /\ f[c].master = "yes"
  BY DEF Masters
<1>2. f[c].Ifname \in Devs
  BY <1>1, RelayAssumption DEF Entry
<1>3. /\ Upstream(c) \in Devs
      /\ \E g \in Files : c \in DOMAIN g /\ g[c].master = "yes" /\ g[c].Ifname = Upstream(c)
  BY <1>1, <1>2 DEF Upstream
<1> HIDE DEF Upstream
<1> QED
  BY <1>3 DEF StableUpstream, Masters

LEMMA SlavesStay ==
  ASSUME StableUpstream, NEW f \in Files, NEW n \in DOMAIN f, n \notin Masters
  PROVE  f[n].master = "no"
<1>1. n \in Names /\ f[n] \in Entry
  BY RelayAssumption
<1> QED
  BY <1>1 DEF StableUpstream, Masters, Entry

-----------------------------------------------------------------------------
\* The daemon does not move, and no link that stays changes its index.
LEMMA MastersFrame ==
  ASSUME MastersOK, StableUpstream, LinksOK',
         UNCHANGED <<registered, interfaces, phase, todo, root>>,
         \A d \in Devs : d \notin Replaced => dev'[d].ix = dev[d].ix
  PROVE  MastersOK'
<1>1. \A c \in Masters : dev'[Upstream(c)].ix = dev[Upstream(c)].ix
  BY UpstreamConstant
<1>2. RolesOK'
  BY <1>1 DEF MastersOK, RolesOK
<1>3. ModesOK' /\ ParsedOK' /\ LearningOK'
  BY DEF MastersOK, ModesOK, ParsedOK, LearningOK
<1> QED
  BY <1>2, <1>3 DEF MastersOK

LEMMA LinksFrame ==
  ASSUME LinksOK, UNCHANGED dev, Events(linkCh)' \subseteq Events(linkCh)
  PROVE  LinksOK'
BY DEF LinksOK

LEMMA AnnounceLinks ==
  ASSUME TypeOK, LinksOK, NEW type \in {"new", "del"}, NEW d \in Devs, NEW ix \in Idx,
         NEW running \in BOOLEAN, Announce(type, d, ix, running),
         d \notin Replaced => type = "new" /\ ix = dev[d].ix,
         \A x \in Devs : x \notin Replaced => dev'[x].ix = dev[x].ix
  PROVE  LinksOK'
<1> DEFINE new == [type |-> type, dev |-> d, ix |-> ix, running |-> running]
<1>1. Events(linkCh') = Events(linkCh) \cup {new}
  BY AnnounceEffect
<1>2. new.type = type /\ new.dev = d /\ new.ix = ix
  OBVIOUS
<1>3. \A e \in Events(linkCh) : e.dev \in Devs
  BY FieldTypes DEF LinkEvent
<1> HIDE DEF new
<1>4. \A e \in Events(linkCh') : e.dev \notin Replaced => e.type = "new" /\ e.ix = dev'[e.dev].ix
  BY <1>1, <1>2, <1>3 DEF LinksOK
<1>5. Events(linkCh)' = Events(linkCh')
  BY DEF Events
<1> QED
  BY <1>4, <1>5 DEF LinksOK

LEMMA LinkStepMasters ==
  ASSUME Inv, MastersOK, StableUpstream, NEW d \in Devs,
         LinkGoesDown(d) \/ LinkComesUp(d) \/ LinkDeleted(d) \/ LinkCreated(d)
  PROVE  /\ MastersOK'
         /\ \A c \in Masters : dev'[Upstream(c)].ix = dev[Upstream(c)].ix
<1>0. UNCHANGED <<registered, interfaces, phase, todo, root>>
  BY DEF LinkGoesDown, LinkComesUp, LinkDeleted, LinkCreated, daemonVars, configVars
<1>1. dev[d].ix \in Idx \cup {NoIdx} /\ LinksOK
  BY FieldTypes DEF Inv, MastersOK
<1>2. \A x \in Devs : x \notin Replaced => dev'[x].ix = dev[x].ix
  <2>1. CASE LinkGoesDown(d)
    BY <2>1 DEF LinkGoesDown, Inv, TypeOK
  <2>2. CASE LinkComesUp(d)
    BY <2>2 DEF LinkComesUp, Inv, TypeOK
  <2>3. CASE LinkDeleted(d)
    BY <2>3 DEF LinkDeleted, Inv, TypeOK
  <2>4. CASE LinkCreated(d)
    BY <2>4, <1>1 DEF LinkCreated, Inv, TypeOK, LinksOK
  <2> QED
    BY <2>1, <2>2, <2>3, <2>4
<1>3. LinksOK'
  <2>1. CASE LinkGoesDown(d)
    BY <2>1, <1>1, <1>2, AnnounceLinks DEF LinkGoesDown, Inv, KernelOK
  <2>2. CASE LinkComesUp(d)
    BY <2>2, <1>1, <1>2, AnnounceLinks DEF LinkComesUp, Inv
  <2>3. CASE LinkDeleted(d)
    BY <2>3, <1>1, <1>2, AnnounceLinks DEF LinkDeleted, Inv
  <2>4. CASE LinkCreated(d)
    <3>1. lastIdx' \in Idx /\ d \in Replaced
      BY <2>4, <1>1, Constants DEF LinkCreated, Inv, TypeOK, LinksOK
    <3> QED
      BY <2>4, <3>1, <1>1, <1>2, AnnounceLinks DEF LinkCreated, Inv
  <2> QED
    BY <2>1, <2>2, <2>3, <2>4
<1> QED
  BY <1>0, <1>2, <1>3, MastersFrame, UpstreamConstant

LEMMA QuietMasters ==
  ASSUME MastersOK, StableUpstream,
         UNCHANGED <<dev, registered, interfaces, phase, todo, root>>,
         Events(linkCh)' \subseteq Events(linkCh)
  PROVE  MastersOK'
BY LinksFrame, MastersFrame DEF MastersOK

\* Reload first resets what the file may set again.
LEMMA StartEffect ==
  ASSUME Inv, ReloadStart
  PROVE  /\ phase = "idle" /\ todo = {} /\ phase' = "parse" /\ root' = file /\ todo' = DOMAIN file
         /\ UNCHANGED <<dev, lastIdx, linkCh, neigh, neighCh, route, proxy, proxyNdp, routeCh, pin,
                        file, monitor, registered, mirroredNeighs, reconcileScheduled>>
         /\ \A n \in Names : /\ interfaces'[n].Ifname = interfaces[n].Ifname
                             /\ interfaces'[n].Ifindex = interfaces[n].Ifindex
                             /\ interfaces'[n].Master = interfaces[n].Master
         /\ \A n \in registered : interfaces'[n].NDP = "relay" /\ interfaces'[n].LearnRoutes
         /\ \A n \in Names : n \notin registered => interfaces'[n] = interfaces[n]
<1>1. /\ phase = "idle" /\ todo = {} /\ phase' = "parse" /\ root' = file /\ todo' = DOMAIN file
      /\ UNCHANGED <<dev, lastIdx, linkCh, neigh, neighCh, route, proxy, proxyNdp, routeCh, pin,
                     file, monitor, registered, mirroredNeighs, reconcileScheduled>>
  BY DEF ReloadStart, linkVars, tableVars, Inv, DaemonOK
<1>2. ASSUME NEW n \in Names
      PROVE  LET i == [interfaces[n] EXCEPT !.NDP = "relay", !.LearnRoutes = TRUE, !.Inuse = FALSE]
             IN /\ i.Ifname = interfaces[n].Ifname /\ i.Ifindex = interfaces[n].Ifindex
                /\ i.Master = interfaces[n].Master /\ i.NDP = "relay" /\ i.LearnRoutes = TRUE
  <2>1. interfaces[n] \in Interface
    BY DEF Inv, TypeOK
  <2> QED
    BY <2>1 DEF Interface
<1>3. \A n \in Names : interfaces'[n] =
        IF n \in registered
        THEN [interfaces[n] EXCEPT !.NDP = "relay", !.LearnRoutes = TRUE, !.Inuse = FALSE]
        ELSE interfaces[n]
  BY DEF ReloadStart
<1>4. registered \subseteq Names
  BY DEF Inv, TypeOK
<1> QED
  BY <1>1, <1>2, <1>3, <1>4

LEMMA ReloadStartMasters ==
  ASSUME Inv, MastersOK, ReloadStart
  PROVE  MastersOK'
<1>1. /\ phase = "idle" /\ todo = {} /\ phase' = "parse" /\ root' = file /\ todo' = DOMAIN file
      /\ UNCHANGED <<dev, linkCh, registered>>
  BY StartEffect
<1>2. /\ \A n \in Names : /\ interfaces'[n].Ifname = interfaces[n].Ifname
                          /\ interfaces'[n].Ifindex = interfaces[n].Ifindex
                          /\ interfaces'[n].Master = interfaces[n].Master
      /\ \A n \in registered : interfaces'[n].NDP = "relay" /\ interfaces'[n].LearnRoutes
      /\ \A n \in Names : n \notin registered => interfaces'[n] = interfaces[n]
  BY StartEffect
<1>3. registered \subseteq Names /\ Masters \subseteq Names /\ todo' \subseteq Names
  BY <1>1, RelayAssumption DEF Inv, TypeOK, Masters
<1>4. LinksOK'
  BY <1>1, LinksFrame DEF MastersOK, Events
<1>5. RolesOK'
  BY <1>1, <1>2, <1>3 DEF MastersOK, RolesOK
<1>6. ModesOK'
  BY <1>1, <1>2 DEF ModesOK
<1>7. LearningOK'
  BY <1>2, <1>3 DEF MastersOK, LearningOK
<1>8. Masters \subseteq registered \/ \A n \in todo' : interfaces'[n].Ifindex = NoIdx
  <2>1. CASE registered = {}
    <3>1. \A n \in Names : interfaces[n] = NewInterface
      BY <2>1 DEF Inv, DaemonOK
    <3> QED
      BY <3>1, <1>2, <1>3, Unregistered
  <2>2. CASE registered # {}
    <3>1. \A n \in registered : interfaces[n].Inuse
      BY <1>1 DEF Inv, ReadyOK, Ready, SocketOK
    <3> QED
      BY <2>2, <3>1, <1>1 DEF MastersOK, ParsedOK
  <2> QED
    BY <2>1, <2>2
<1>9. ParsedOK'
  BY <1>1, <1>8 DEF ParsedOK
<1> QED
  BY <1>4, <1>5, <1>6, <1>7, <1>9 DEF MastersOK

LEMMA ParseMasters ==
  ASSUME Inv, MastersOK, StableUpstream, RoutesLearned, NEW n \in Names, ParseInterface(n)
  PROVE  MastersOK'
<1>1. /\ n \in todo /\ phase = "parse" /\ todo' = todo \ {n} /\ registered' = registered \cup {n}
      /\ \A m \in Names : m # n => interfaces'[m] = interfaces[m]
      /\ UNCHANGED <<dev, linkCh, root, phase>>
  BY ParseEffect
<1>2. /\ root \in Files /\ n \in DOMAIN root /\ root[n].Ifname \in Devs
  BY <1>1, ParsedEntry
<1>3. \/ /\ dev[root[n].Ifname].ix = NoIdx
         /\ interfaces' = interfaces
      \/ /\ dev[root[n].Ifname].ix # NoIdx
         /\ interfaces'[n].Ifname = root[n].Ifname
         /\ interfaces'[n].Ifindex = dev[root[n].Ifname].ix
         /\ interfaces'[n].Inuse
         /\ interfaces'[n].LearnRoutes = root[n].ndproxy_routing
         /\ interfaces'[n].NDP = interfaces[n].NDP
         /\ interfaces'[n].Master = IF root[n].master = "unset" THEN interfaces[n].Master
                                                                ELSE root[n].master = "yes"
  BY ParseEffect
<1>4. n \in Masters => /\ root[n].master = "yes" /\ root[n].Ifname = Upstream(n)
                       /\ Upstream(n) \in Devs /\ dev[Upstream(n)].ix # NoIdx
  BY <1>2, UpstreamConstant DEF MastersOK, LinksOK
<1>5. n \notin Masters => root[n].master = "no"
  BY <1>2, SlavesStay
<1>6. interfaces[n].NDP = "relay"
  BY <1>1, Unregistered DEF Inv, DaemonOK, MastersOK, ModesOK
<1>7. interfaces'[n].NDP = "relay"
  BY <1>3, <1>6
<1>8. registered \subseteq Names /\ Masters \subseteq Names /\ todo \subseteq Names
  BY DEF Inv, TypeOK, Masters
<1>9. LinksOK'
  BY <1>1, LinksFrame DEF MastersOK, Events
<1>10. RolesOK'
  <2>1. interfaces'[n].Master => n \in Masters
    BY <1>3, <1>5 DEF MastersOK, RolesOK
  <2>2. n \in Masters => /\ interfaces'[n].Master /\ interfaces'[n].Ifname = Upstream(n)
                         /\ interfaces'[n].Ifindex = dev[Upstream(n)].ix
    BY <1>3, <1>4
  <2> QED
    BY <1>1, <1>8, <2>1, <2>2 DEF MastersOK, RolesOK
<1>11. ModesOK'
  BY <1>1, <1>7, <1>8 DEF MastersOK, ModesOK
<1>12. LearningOK'
  BY <1>1, <1>2, <1>3 DEF MastersOK, LearningOK, RoutesLearned
<1>13. ParsedOK'
  <2>1. n \in Masters => interfaces'[n].Inuse
    BY <1>3, <1>4
  <2>2. \A m \in DOMAIN root : m \in Names
    BY <1>2, RelayAssumption
  <2>3. /\ \A m \in DOMAIN root : m \notin todo =>
             m \in registered /\ (m \in Masters => interfaces[m].Inuse)
        /\ Masters \subseteq registered \/ \A m \in todo : interfaces[m].Ifindex = NoIdx
    BY <1>1 DEF MastersOK, ParsedOK
  <2>4. \A m \in DOMAIN root : m \notin todo' =>
             m \in registered' /\ (m \in Masters => interfaces'[m].Inuse)
    BY <1>1, <2>1, <2>2, <2>3
  <2>5. Masters \subseteq registered' \/ \A m \in todo' : interfaces'[m].Ifindex = NoIdx
    BY <1>1, <1>8, <2>3
  <2> QED
    BY <1>1, <2>4, <2>5 DEF ParsedOK
<1> QED
  BY <1>9, <1>10, <1>11, <1>12, <1>13 DEF MastersOK

LEMMA ReloadModesMasters ==
  ASSUME Inv, MastersOK, StableUpstream, ReloadModes
  PROVE  MastersOK'
<1>1. /\ phase = "parse" /\ todo = {} /\ phase' # "parse"
      /\ UNCHANGED <<dev, linkCh, root, registered>>
  BY ModesEffect
<1>2. \A n \in Names :
        /\ interfaces'[n].Ifindex = interfaces[n].Ifindex
        /\ interfaces'[n].Ifname = interfaces[n].Ifname
        /\ interfaces'[n].Inuse = interfaces[n].Inuse
        /\ interfaces'[n].Master = interfaces[n].Master
        /\ interfaces'[n].LearnRoutes = interfaces[n].LearnRoutes
  BY ModesEffect
<1>3. registered \subseteq Names /\ Masters \subseteq Names
  BY DEF Inv, TypeOK, Masters
<1>4. LinksOK' /\ RolesOK' /\ LearningOK'
  <2>1. LinksOK'
    BY <1>1, LinksFrame DEF MastersOK, Events
  <2> QED
    BY <2>1, <1>1, <1>2, <1>3 DEF MastersOK, RolesOK, LearningOK
<1>5. ModesOK'
  <2>1. \A n \in registered : interfaces[n].NDP = "relay"
    BY <1>1 DEF MastersOK, ModesOK
  <2>2. CASE \A m \in registered : interfaces[m].Master
    <3>1. \A n \in registered : interfaces'[n].NDP = "disabled"
      BY <2>2, <1>3, ModesEffect
    <3> QED
      BY <3>1, <2>2, <1>1, <1>2, <1>3 DEF ModesOK
  <2>3. CASE ~\A m \in registered : interfaces[m].Master
    <3>1. \A n \in registered : interfaces'[n].NDP = "relay"
      BY <2>1, <2>3, <1>3, ModesEffect
    <3> QED
      BY <3>1, <1>1 DEF ModesOK
  <2> QED
    BY <2>2, <2>3
<1>6. ParsedOK'
  <2> SUFFICES ASSUME NEW n \in registered, interfaces[n].Inuse, NEW c \in Masters
               PROVE  c \in registered /\ interfaces[c].Inuse
    BY <1>1, <1>2, <1>3 DEF ParsedOK
  <2>1. n \in DOMAIN root
    BY <1>3 DEF Inv, DaemonOK
  <2>2. root \in Files
    <3>1. root \in Files \/ root = << >>
      BY DEF Inv, TypeOK
    <3>2. DOMAIN << >> = {}
      OBVIOUS
    <3> QED
      BY <2>1, <3>1, <3>2
  <2>3. c \in DOMAIN root
    BY <2>1, <2>2, UpstreamConstant
  <2> QED
    BY <2>3, <1>1 DEF MastersOK, ParsedOK
<1> QED
  BY <1>4, <1>5, <1>6 DEF MastersOK

\* Interfaces keep all but their captures, and the masters their links.
LEMMA FieldsMasters ==
  ASSUME Inv, MastersOK, UNCHANGED <<dev, root, registered>>,
         Events(linkCh)' \subseteq Events(linkCh), phase # "parse", phase' # "parse",
         \A m \in Names : /\ interfaces'[m].Ifname = interfaces[m].Ifname
                          /\ interfaces'[m].Master = interfaces[m].Master
                          /\ interfaces'[m].NDP = interfaces[m].NDP
                          /\ interfaces'[m].Inuse = interfaces[m].Inuse
                          /\ interfaces'[m].LearnRoutes = interfaces[m].LearnRoutes,
         \A c \in Masters : interfaces'[c].Ifindex = interfaces[c].Ifindex
  PROVE  MastersOK'
<1>1. registered \subseteq Names /\ Masters \subseteq Names
  BY DEF Inv, TypeOK, Masters
<1>2. LinksOK'
  BY LinksFrame DEF MastersOK
<1>3. RolesOK'
  BY <1>1 DEF MastersOK, RolesOK
<1>4. ModesOK' /\ LearningOK'
  BY <1>1 DEF MastersOK, ModesOK, LearningOK
<1>5. ParsedOK'
  BY <1>1 DEF MastersOK, ParsedOK
<1> QED
  BY <1>2, <1>3, <1>4, <1>5 DEF MastersOK

LEMMA ApplyMasters ==
  ASSUME Inv, MastersOK, NEW n \in Names, ApplyInterface(n)
  PROVE  MastersOK'
<1>1. /\ phase = "apply" /\ n \in registered /\ phase' # "parse"
      /\ UNCHANGED <<dev, linkCh, root>>
  BY ApplyFrame
<1>2. Events(linkCh)' = Events(linkCh) /\ Masters \subseteq Names
  BY <1>1 DEF Events, Masters
<1>3. CASE NdpSetup(n)
  <2>1. /\ \A m \in Names : m # n => interfaces'[m] = interfaces[m]
        /\ interfaces'[n].Ifindex = interfaces[n].Ifindex
        /\ interfaces'[n].Ifname = interfaces[n].Ifname
        /\ interfaces'[n].Inuse = interfaces[n].Inuse
        /\ interfaces'[n].NDP = interfaces[n].NDP
        /\ interfaces'[n].Master = interfaces[n].Master
        /\ interfaces'[n].LearnRoutes = interfaces[n].LearnRoutes
        /\ UNCHANGED registered
    BY <1>1, <1>3, SetupEffect
  <2> QED
    BY <1>1, <1>2, <2>1, FieldsMasters
<1>4. CASE NdpDisable(n)
  <2>1. /\ \A m \in Names : m # n => interfaces'[m] = interfaces[m]
        /\ interfaces'[n].Ifindex = interfaces[n].Ifindex
        /\ interfaces'[n].Ifname = interfaces[n].Ifname
        /\ interfaces'[n].Inuse = interfaces[n].Inuse
        /\ interfaces'[n].NDP = interfaces[n].NDP
        /\ interfaces'[n].Master = interfaces[n].Master
        /\ interfaces'[n].LearnRoutes = interfaces[n].LearnRoutes
        /\ UNCHANGED registered
    BY <1>1, <1>4, DisableEffect
  <2> QED
    BY <1>1, <1>2, <2>1, FieldsMasters
<1>5. CASE ~interfaces[n].Inuse /\ CloseInterface(n)
  <2>1. /\ registered' = registered \ {n} /\ interfaces'[n] = NewInterface
        /\ \A m \in Names : m # n => interfaces'[m] = interfaces[m]
    BY <1>5 DEF CloseInterface, Inv, TypeOK
  <2>2. registered \subseteq Names
    BY DEF Inv, TypeOK
  <2>3. LinksOK'
    BY <1>1, <1>2, LinksFrame DEF MastersOK
  <2>4. RolesOK' /\ LearningOK'
    BY <1>1, <1>2, <2>1, <2>2, Unregistered DEF MastersOK, RolesOK, LearningOK
  <2>5. ModesOK'
    BY <1>1, <2>1, <2>2 DEF MastersOK, ModesOK
  <2>6. ParsedOK'
    BY <1>1, <1>2, <1>5, <2>1, <2>2 DEF MastersOK, ParsedOK
  <2> QED
    BY <2>3, <2>4, <2>5, <2>6 DEF MastersOK
<1> QED
  BY <1>3, <1>4, <1>5, ApplyFrame

\* No link event moves a master.
LEMMA SlaveRelinked ==
  ASSUME Inv, MastersOK, StableUpstream, HandleLinkEvent, NEW n \in registered,
         interfaces[n].Ifname = Head(linkCh).dev, HandleLinkDeleted(n) \/ HandleLinkReplaced(n)
  PROVE  n \notin Masters /\ ~interfaces[n].Master
<1>1. Head(linkCh) \in Events(linkCh) /\ n \in Names
  BY LinkEventTaken DEF Inv, TypeOK
<1>2. SUFFICES ASSUME n \in Masters PROVE FALSE
  BY <1>1 DEF MastersOK, RolesOK
<1>3. /\ interfaces[n].Ifname = Upstream(n) /\ interfaces[n].Ifindex = dev[Upstream(n)].ix
      /\ Upstream(n) \notin Replaced
  BY <1>2, UpstreamConstant DEF MastersOK, RolesOK
<1>4. Head(linkCh).type = "new" /\ Head(linkCh).ix = interfaces[n].Ifindex
  BY <1>1, <1>3 DEF MastersOK, LinksOK
<1> QED
  BY <1>4 DEF HandleLinkDeleted, HandleLinkReplaced

LEMMA HandleLinkEventMasters ==
  ASSUME Inv, MastersOK, StableUpstream, HandleLinkEvent
  PROVE  MastersOK'
<1>1. /\ phase = "idle" /\ Events(linkCh)' \subseteq Events(linkCh) /\ UNCHANGED <<dev, root>>
  BY LinkEventTaken
<1>2. Masters \subseteq Names
  BY DEF Masters
<1>3. CASE LinkIgnored
  BY <1>1, <1>3, QuietMasters DEF LinkIgnored
<1>4. ASSUME NEW n \in registered, HandleLinkToggled(n) PROVE MastersOK'
  <2>1. /\ \A m \in Names : m # n => interfaces'[m] = interfaces[m]
        /\ interfaces'[n].Ifindex = interfaces[n].Ifindex
        /\ interfaces'[n].Ifname = interfaces[n].Ifname
        /\ interfaces'[n].Inuse = interfaces[n].Inuse
        /\ interfaces'[n].NDP = interfaces[n].NDP
        /\ interfaces'[n].Master = interfaces[n].Master
        /\ interfaces'[n].LearnRoutes = interfaces[n].LearnRoutes
        /\ phase' = "apply" /\ UNCHANGED registered
    BY <1>4, ToggleEffect
  <2> QED
    BY <1>1, <1>2, <2>1, FieldsMasters
<1>5. ASSUME NEW n \in registered, interfaces[n].Ifname = Head(linkCh).dev,
             HandleLinkDeleted(n) \/ HandleLinkReplaced(n)
      PROVE  MastersOK'
  <2>1. /\ \A m \in Names : m # n => interfaces'[m] = interfaces[m]
        /\ interfaces'[n].Ifname = interfaces[n].Ifname
        /\ interfaces'[n].Inuse = interfaces[n].Inuse
        /\ interfaces'[n].NDP = interfaces[n].NDP
        /\ interfaces'[n].Master = interfaces[n].Master
        /\ interfaces'[n].LearnRoutes = interfaces[n].LearnRoutes
        /\ UNCHANGED registered /\ phase' \in {phase, "apply"}
    BY <1>5, RelinkEffect
  <2>2. n \notin Masters
    BY <1>5, SlaveRelinked
  <2> QED
    BY <1>1, <1>2, <2>1, <2>2, FieldsMasters
<1> QED
  BY <1>3, <1>4, <1>5 DEF HandleLinkEvent

LEMMA OtherMasters ==
  ASSUME Inv, MastersOK, StableUpstream,
         \/ HandleNeighEvent \/ Reconcile \/ Sweep \/ SubscriptionEnds
         \/ (\E ix \in Idx : HandleRouteEvent(ix))
         \/ (\E h \in Hosts : NeighAnswers(h) \/ NeighFails(h) \/ NeighGC(h))
         \/ (\E h \in Hosts, n \in Names : HandleSolicit(h, n)) \/ (\E f \in Files : EditConfig(f))
         \/ UNCHANGED vars
  PROVE  MastersOK'
<1>1. UNCHANGED <<dev, linkCh, registered, interfaces, phase, todo, root>>
  <2>1. CASE HandleNeighEvent
    BY <2>1, NeighEventTaken
  <2>2. CASE Sweep
    BY <2>2, SweepEffect
  <2>3. CASE Reconcile
    BY <2>3, ReconcileEffect
  <2> QED
    BY <2>1, <2>2, <2>3 DEF SubscriptionEnds, HandleRouteEvent, NeighAnswers, NeighFails,
         NeighBecomes, NeighGC, HandleSolicit, EditConfig, vars, linkVars, daemonVars, configVars
<1>2. Events(linkCh)' \subseteq Events(linkCh)
  BY <1>1 DEF Events
<1> QED
  BY <1>1, <1>2, QuietMasters

\* After a restart nobody is registered.
LEMMA RestartMasters ==
  ASSUME Inv, MastersOK, NEW h \in Hosts, NEW n \in Names, NEW pinging \in BOOLEAN,
         Restart(h, n, pinging)
  PROVE  MastersOK'
<1>1. /\ registered' = {} /\ phase' = "idle" /\ linkCh' = << >> /\ dev' = dev
      /\ \A m \in Names : interfaces'[m] = NewInterface
  BY DEF Restart
<1>2. LinksOK'
  <2>1. Events(linkCh)' = {}
    BY <1>1 DEF Events
  <2> QED
    BY <1>1, <2>1 DEF MastersOK, LinksOK
<1> QED
  BY <1>1, <1>2, Unregistered DEF MastersOK, RolesOK, ModesOK, ParsedOK, LearningOK

LEMMA StepMasters ==
  ASSUME StableUpstream, RoutesLearned, Inv, MastersOK, [FaultyNext]_vars
  PROVE  MastersOK'
BY LinkStepMasters, ReloadStartMasters, ParseMasters, ReloadModesMasters, ApplyMasters,
   HandleLinkEventMasters, OtherMasters, RestartMasters
   DEF FaultyNext, Next, Kernel, Reloading, Handlers

LEMMA InitMasters == Init => MastersOK
<1> SUFFICES ASSUME Init PROVE MastersOK
  OBVIOUS
<1>1. /\ registered = {} /\ phase = "idle" /\ linkCh = << >>
      /\ \A m \in Names : interfaces[m] = NewInterface
  BY DEF Init
<1>2. \A d \in Devs : dev[d].ix # NoIdx
  BY Constants DEF Init
<1>3. Events(linkCh) = {}
  BY <1>1 DEF Events
<1> QED
  BY <1>1, <1>2, <1>3, Unregistered DEF MastersOK, LinksOK, RolesOK, ModesOK, ParsedOK, LearningOK

-----------------------------------------------------------------------------

(* Routes and proxy entries have a key.                                    *)

RoutesKeyed == \A h \in Hosts : route[h] # NoIdx => <<h, route[h]>> \in mirroredNeighs
ProxiesKeyed ==
  \A p \in proxy : /\ \E c \in Masters : p[2] = dev[Upstream(c)].ix
                   /\ \E k \in mirroredNeighs : k[1] = p[1] /\ k[2] # p[2]
LeftOK == RoutesKeyed /\ ProxiesKeyed

LEMMA LeftFrame ==
  ASSUME LeftOK, mirroredNeighs' = mirroredNeighs, proxy' \subseteq proxy,
         \A h \in Hosts : route'[h] = route[h] \/ route'[h] = NoIdx,
         \A c \in Masters : dev'[Upstream(c)].ix = dev[Upstream(c)].ix
  PROVE  LeftOK'
<1>1. RoutesKeyed'
  BY DEF LeftOK, RoutesKeyed
<1>2. ProxiesKeyed'
  BY DEF LeftOK, ProxiesKeyed
<1> QED
  BY <1>1, <1>2 DEF LeftOK

\* What is added is keyed.
LEMMA AddLeft ==
  ASSUME Inv, MastersOK, LeftOK, UNCHANGED dev, NEW M \in SUBSET (Hosts \X registered),
         NEW on \in SUBSET Devs, MirrorAdd(M, on), mirroredNeighs \subseteq mirroredNeighs',
         \A m \in M : Key(m) \in mirroredNeighs'
  PROVE  LeftOK'
<1>1. RoutesKeyed'
  <2>1. \A h \in Hosts : \/ route'[h] = route[h]
                         \/ \E n \in registered : /\ <<h, n>> \in M
                                                  /\ route'[h] = interfaces[n].Ifindex
    BY MirrorAddEffect DEF Inv
  <2>2. \A h \in Hosts : \A n \in registered :
          <<h, n>> \in M => <<h, interfaces[n].Ifindex>> \in mirroredNeighs'
    BY DEF Key
  <2> QED
    BY <2>1, <2>2 DEF LeftOK, RoutesKeyed
<1>2. ProxiesKeyed'
  <2> SUFFICES ASSUME NEW p \in proxy'
               PROVE  /\ \E c \in Masters : p[2] = dev[Upstream(c)].ix
                      /\ \E k \in mirroredNeighs' : k[1] = p[1] /\ k[2] # p[2]
    BY DEF ProxiesKeyed
  <2>1. CASE p \in proxy
    BY <2>1 DEF LeftOK, ProxiesKeyed
  <2>2. CASE p \notin proxy
    <3>1. p \in ProxiesOf(M)
      BY <2>2 DEF MirrorAdd
    <3>2. PICK m \in M : \E c \in Targets(m[2]) : p = <<m[1], interfaces[c].Ifindex>>
      BY <3>1 DEF ProxiesOf
    <3>3. PICK c \in Targets(m[2]) : p = <<m[1], interfaces[c].Ifindex>>
      BY <3>2
    <3>4. /\ c \in registered /\ interfaces[c].Ifindex # interfaces[m[2]].Ifindex
          /\ interfaces[c].Master
      BY <3>3 DEF Targets
    <3>5. c \in Masters /\ interfaces[c].Ifindex = dev[Upstream(c)].ix
      BY <3>4 DEF MastersOK, RolesOK, Inv, TypeOK
    <3>6. Key(m) \in mirroredNeighs' /\ Key(m)[1] = p[1] /\ Key(m)[2] # p[2]
      BY <3>3, <3>4 DEF Key
    <3>7. p[2] = dev[Upstream(c)].ix
      BY <3>3, <3>5
    <3> QED
      BY <3>5, <3>6, <3>7
  <2> QED
    BY <2>1, <2>2
<1> QED
  BY <1>1, <1>2 DEF LeftOK

\* With its keys a host loses its route, and its proxy entries on all the masters.
LEMMA DelLeft ==
  ASSUME Inv, MastersOK, LeftOK, UNCHANGED dev, NEW M \in SUBSET (Hosts \X registered),
         MirrorDel(M), mirroredNeighs' = mirroredNeighs \ {Key(m) : m \in M},
         \A m \in M : interfaces[m[2]].NDP = "relay" /\ Masters \subseteq registered
  PROVE  LeftOK'
<1>1. RoutesKeyed'
  <2> SUFFICES ASSUME NEW h \in Hosts, route'[h] # NoIdx
               PROVE  <<h, route'[h]>> \in mirroredNeighs'
    BY DEF RoutesKeyed
  <2>1. route'[h] = route[h] /\ route[h] \notin RouteLinks(M, h)
    BY DEF MirrorDel
  <2>2. <<h, route[h]>> \in mirroredNeighs
    BY <2>1 DEF LeftOK, RoutesKeyed
  <2>3. ASSUME NEW m \in M, Key(m) = <<h, route[h]>> PROVE FALSE
    <3>1. m[1] = h /\ interfaces[m[2]].Ifindex = route[h]
      BY <2>3 DEF Key
    <3>2. m[2] \in Names
      BY DEF Inv, TypeOK
    <3>3. interfaces[m[2]].LearnRoutes
      BY <3>2 DEF MastersOK, LearningOK
    <3>4. route[h] \in RouteLinks(M, h)
      BY <3>1, <3>3 DEF RouteLinks
    <3> QED
      BY <3>4, <2>1
  <2> QED
    BY <2>1, <2>2, <2>3
<1>2. ProxiesKeyed'
  <2> SUFFICES ASSUME NEW p \in proxy'
               PROVE  /\ \E c \in Masters : p[2] = dev[Upstream(c)].ix
                      /\ \E k \in mirroredNeighs' : k[1] = p[1] /\ k[2] # p[2]
    BY DEF ProxiesKeyed
  <2>1. p \in proxy /\ p \notin ProxiesOf(M) /\ p = <<p[1], p[2]>>
    BY DEF MirrorDel, Inv, TypeOK
  <2>2. PICK c \in Masters : p[2] = dev[Upstream(c)].ix
    BY <2>1 DEF LeftOK, ProxiesKeyed
  <2>3. PICK k \in mirroredNeighs : k[1] = p[1] /\ k[2] # p[2]
    BY <2>1 DEF LeftOK, ProxiesKeyed
  <2>4. ASSUME NEW m \in M, k = Key(m) PROVE FALSE
    <3>1. m[1] = p[1] /\ interfaces[m[2]].Ifindex # p[2] /\ m[2] \in registered
      BY <2>3, <2>4 DEF Key
    <3>2. c \in registered /\ interfaces[c].Master /\ interfaces[c].Ifindex = p[2]
      BY <2>2 DEF MastersOK, RolesOK
    <3>3. interfaces[c].NDP = "relay"
      BY <3>1, <3>2 DEF MastersOK, ModesOK
    <3>4. c \in Targets(m[2])
      BY <3>1, <3>2, <3>3 DEF Targets
    <3>5. p = <<m[1], interfaces[c].Ifindex>>
      BY <2>1, <3>1, <3>2
    <3>6. p \in ProxiesOf(M)
      BY <3>4, <3>5 DEF ProxiesOf
    <3> QED
      BY <3>6, <2>1
  <2> QED
    BY <2>2, <2>3, <2>4
<1> QED
  BY <1>1, <1>2 DEF LeftOK

\* What disableServices deletes: the keys of the link that n had.
LEMMA DetachDeletes ==
  ASSUME Inv, NEW n \in registered, NEW ix, Detach(n, ix)
  PROVE  \E M \in SUBSET (Hosts \X registered) :
           /\ MirrorDel(M) /\ mirroredNeighs' = mirroredNeighs \ {Key(m) : m \in M}
           /\ \A m \in M : m[2] = n /\ Key(m) \in mirroredNeighs
<1> DEFINE M == {h \in Hosts : <<h, interfaces[n].Ifindex>> \in mirroredNeighs} \X {n}
<1>1. M \in SUBSET (Hosts \X registered) /\ \A m \in M : m[2] = n
  OBVIOUS
<1>2. MirrorDel(M) /\ mirroredNeighs' = {k \in mirroredNeighs : k[2] # interfaces[n].Ifindex}
  BY DEF Detach
<1>3. \A m \in M : Key(m) \in mirroredNeighs /\ Key(m)[2] = interfaces[n].Ifindex
  BY DEF Key
<1>4. ASSUME NEW k \in mirroredNeighs, k[2] = interfaces[n].Ifindex
      PROVE  k \in {Key(m) : m \in M}
  <2>1. k[1] \in Hosts /\ k = <<k[1], k[2]>>
    BY DEF Inv, TypeOK
  <2>2. <<k[1], n>> \in M
    BY <2>1, <1>4
  <2>3. Key(<<k[1], n>>) = k
    BY <2>1, <1>4 DEF Key
  <2> QED
    BY <2>2, <2>3
<1> HIDE DEF M
<1>5. mirroredNeighs' = mirroredNeighs \ {Key(m) : m \in M}
  BY <1>2, <1>3, <1>4
<1> QED
  BY <1>1, <1>2, <1>3, <1>5

LEMMA DetachLeft ==
  ASSUME Inv, MastersOK, LeftOK, UNCHANGED dev, NEW n \in registered, NEW ix, Detach(n, ix),
         interfaces[n].NDP = "relay", Masters \subseteq registered
  PROVE  LeftOK'
BY DetachDeletes, DelLeft

\* Between closures, the masters are there with any interface.
LEMMA MastersThere ==
  ASSUME Inv, MastersOK, phase = "idle", NEW n \in registered
  PROVE  Masters \subseteq registered
<1>1. interfaces[n].Inuse
  BY DEF Inv, DaemonOK, ReadyOK, Ready, SocketOK
<1> QED
  BY <1>1 DEF MastersOK, ParsedOK

LEMMA ParseLeft ==
  ASSUME Inv, MastersOK, LeftOK, NEW n \in Names, ParseInterface(n)
  PROVE  LeftOK'
<1>1. /\ n \in todo /\ phase = "parse" /\ dev' = dev
      /\ \/ UNCHANGED <<route, proxy, mirroredNeighs>>
         \/ /\ n \in registered /\ interfaces[n].Ifindex # NoIdx
            /\ Detach(n, dev[root[n].Ifname].ix)
  BY ParseEffect
<1>2. CASE UNCHANGED <<route, proxy, mirroredNeighs>>
  BY <1>1, <1>2, LeftFrame
<1>3. CASE n \in registered /\ interfaces[n].Ifindex # NoIdx /\ Detach(n, dev[root[n].Ifname].ix)
  <2>1. interfaces[n].NDP = "relay" /\ Masters \subseteq registered
    BY <1>1, <1>3 DEF MastersOK, ModesOK, ParsedOK
  <2> QED
    BY <2>1, <1>1, <1>3, DetachLeft
<1> QED
  BY <1>1, <1>2, <1>3

LEMMA ApplyLeft ==
  ASSUME Inv, MastersOK, LeftOK, NEW n \in Names, ApplyInterface(n)
  PROVE  LeftOK'
<1>1. n \in registered /\ dev' = dev
  BY ApplyFrame
<1>2. CASE NdpSetup(n)
  <2> DEFINE M == Found(n) \X {n}
             on == SwitchedOn(interfaces[n])
  <2>1. /\ mirroredNeighs' = mirroredNeighs \cup (Found(n) \X {interfaces[n].Ifindex})
        /\ MirrorAdd(M, on)
    BY <1>1, <1>2, SetupEffect
  <2>2. M \in SUBSET (Hosts \X registered)
    BY <1>1, FoundOnLink
  <2>3. on \in SUBSET Devs
    BY DEF SwitchedOn, Inv, TypeOK
  <2>4. \A m \in M : Key(m) \in mirroredNeighs'
    BY <2>1 DEF Key
  <2> HIDE DEF M, on
  <2> QED
    BY <1>1, <2>1, <2>2, <2>3, <2>4, AddLeft
<1>3. CASE NdpDisable(n) \/ CloseInterface(n)
  <2>1. UNCHANGED <<mirroredNeighs, proxy, route>>
    BY <1>3 DEF NdpDisable, CloseInterface
  <2> QED
    BY <1>1, <2>1, LeftFrame
<1> QED
  BY <1>2, <1>3, ApplyFrame

LEMMA HandleLinkEventLeft ==
  ASSUME Inv, MastersOK, StableUpstream, LeftOK, HandleLinkEvent
  PROVE  LeftOK'
<1>1. phase = "idle" /\ dev' = dev
  BY LinkEventTaken
<1>2. ASSUME NEW n \in registered, interfaces[n].Ifname = Head(linkCh).dev,
             HandleLinkDeleted(n) \/ HandleLinkReplaced(n)
      PROVE  LeftOK'
  <2>1. \E ix : Detach(n, ix)
    BY <1>2, RelinkEffect
  <2>2. ~interfaces[n].Master
    BY <1>2, SlaveRelinked
  <2>3. interfaces[n].NDP = "relay"
    BY <2>2 DEF MastersOK, ModesOK
  <2>4. Masters \subseteq registered
    BY <1>1, MastersThere
  <2> QED
    BY <1>1, <2>1, <2>3, <2>4, DetachLeft
<1>3. ASSUME UNCHANGED <<mirroredNeighs, proxy, route>> PROVE LeftOK'
  BY <1>1, <1>3, LeftFrame
<1> QED
  BY <1>2, <1>3 DEF HandleLinkEvent, HandleLinkToggled, LinkIgnored, tableVars

LEMMA HandleNeighEventLeft ==
  ASSUME Inv, MastersOK, LeftOK, HandleNeighEvent
  PROVE  LeftOK'
<1> DEFINE e == Head(neighCh)
           k == <<e.host, e.ix>>
<1>1. phase = "idle" /\ e \in NeighEvent /\ dev' = dev
  BY NeighEventTaken
<1>2. ASSUME UNCHANGED <<mirroredNeighs, proxy, route>> PROVE LeftOK'
  BY <1>1, <1>2, LeftFrame
<1>3. e.host \in Hosts
  BY <1>1 DEF NeighEvent
<1>4. ASSUME NEW n \in RelayIface(e.ix)
      PROVE  /\ n \in registered /\ interfaces[n].NDP = "relay" /\ Masters \subseteq registered
             /\ Key(<<e.host, n>>) = k /\ {<<e.host, n>>} \in SUBSET (Hosts \X registered)
  <2>1. n \in registered /\ interfaces[n].NDP = "relay" /\ interfaces[n].Ifindex = e.ix
    BY DEF RelayIface, IfaceByIndex
  <2>2. Masters \subseteq registered
    BY <2>1, <1>1, MastersThere
  <2>3. Key(<<e.host, n>>) = k
    BY <2>1 DEF Key
  <2> QED
    BY <1>3, <2>1, <2>2, <2>3
<1>5. proxyNdp \in SUBSET Devs
  BY DEF Inv, TypeOK
<1> HIDE DEF e, k
<1>6. ASSUME NEW n \in RelayIface(e.ix), mirroredNeighs' = mirroredNeighs \cup {k},
             MirrorAdd({<<e.host, n>>}, proxyNdp)
      PROVE  LeftOK'
  <2>1. \A m \in {<<e.host, n>>} : Key(m) \in mirroredNeighs'
    BY <1>4, <1>6
  <2> QED
    BY <2>1, <1>1, <1>4, <1>5, <1>6, AddLeft
<1>7. ASSUME NEW n \in RelayIface(e.ix), mirroredNeighs' = mirroredNeighs \ {k},
             MirrorDel({<<e.host, n>>})
      PROVE  LeftOK'
  <2>1. {Key(m) : m \in {<<e.host, n>>}} = {k}
    BY <1>4
  <2>2. \A m \in {<<e.host, n>>} : interfaces[m[2]].NDP = "relay" /\ Masters \subseteq registered
    BY <1>4
  <2> QED
    BY <2>1, <2>2, <1>1, <1>4, <1>7, DelLeft
<1> QED
  BY <1>2, <1>6, <1>7, NeighEventCases DEF e, k

LEMMA ReconcileLeft ==
  ASSUME Inv, MastersOK, LeftOK, Reconcile
  PROVE  LeftOK'
<1>1. PICK on \in SUBSET Devs : MirrorAdd(Mirrored, on)
  BY ReconcileEffect
<1>2. UNCHANGED <<dev, mirroredNeighs>>
  BY ReconcileEffect
<1>3. Mirrored \in SUBSET (Hosts \X registered) /\ \A m \in Mirrored : Key(m) \in mirroredNeighs
  BY DEF Mirrored, Key
<1> QED
  BY <1>1, <1>2, <1>3, AddLeft

LEMMA SweepLeft ==
  ASSUME Inv, MastersOK, LeftOK, Sweep
  PROVE  LeftOK'
<1>1. /\ phase = "idle" /\ Reaped \in SUBSET (Hosts \X registered)
      /\ mirroredNeighs' = mirroredNeighs \ {Key(m) : m \in Reaped}
      /\ MirrorDel(Reaped) /\ dev' = dev
  BY SweepEffect
<1>2. \A m \in Reaped : m[2] \in Swept
  BY DEF Reaped, Failed
<1>3. \A m \in Reaped : interfaces[m[2]].NDP = "relay" /\ Masters \subseteq registered
  BY <1>1, <1>2, MastersThere DEF Swept
<1> QED
  BY <1>1, <1>3, DelLeft

LEMMA KernelLeft ==
  ASSUME Inv, MastersOK, StableUpstream, LeftOK, Kernel
  PROVE  LeftOK'
<1>1. ASSUME NEW d \in Devs, LinkGoesDown(d) \/ LinkDeleted(d) PROVE LeftOK'
  <2>1. Flush(d) /\ dev[d].ix # NoIdx /\ mirroredNeighs' = mirroredNeighs
    BY <1>1 DEF LinkGoesDown, LinkDeleted, daemonVars, Inv, KernelOK
  <2>2. /\ \A h \in Hosts : route'[h] = (IF route[h] = dev[d].ix THEN NoIdx ELSE route[h])
        /\ proxy' = {p \in proxy : p[2] # dev[d].ix}
    BY <2>1, FlushEffect DEF Inv
  <2>3. \A c \in Masters : dev'[Upstream(c)].ix = dev[Upstream(c)].ix
    BY <1>1, LinkStepMasters
  <2> QED
    BY <2>1, <2>2, <2>3, LeftFrame
<1>2. ASSUME NEW d \in Devs, LinkComesUp(d) \/ LinkCreated(d) PROVE LeftOK'
  <2>1. UNCHANGED <<mirroredNeighs, proxy, route>>
    BY <1>2 DEF LinkComesUp, LinkCreated, daemonVars, tableVars
  <2>2. \A c \in Masters : dev'[Upstream(c)].ix = dev[Upstream(c)].ix
    BY <1>2, LinkStepMasters
  <2> QED
    BY <2>1, <2>2, LeftFrame
<1>3. ASSUME NEW h \in Hosts, NeighAnswers(h) \/ NeighFails(h) \/ NeighGC(h) PROVE LeftOK'
  <2>1. UNCHANGED <<mirroredNeighs, proxy, route, dev>>
    BY <1>3 DEF NeighAnswers, NeighFails, NeighBecomes, NeighGC, daemonVars, tableVars, linkVars
  <2> QED
    BY <2>1, LeftFrame
<1> QED
  BY <1>1, <1>2, <1>3 DEF Kernel

LEMMA OtherLeft ==
  ASSUME Inv, LeftOK,
         \/ ReloadStart \/ ReloadModes \/ (\E ix \in Idx : HandleRouteEvent(ix))
         \/ (\E h \in Hosts, n \in Names : HandleSolicit(h, n)) \/ (\E f \in Files : EditConfig(f))
         \/ UNCHANGED vars
  PROVE  LeftOK'
<1>1. UNCHANGED <<mirroredNeighs, proxy, route, dev>>
  BY DEF ReloadStart, ReloadModes, HandleRouteEvent, HandleSolicit, EditConfig, vars, linkVars,
         tableVars, daemonVars
<1> QED
  BY <1>1, LeftFrame

\* Whatever the links of the slaves do and however often the file is edited, every
\* route and every proxy entry of a daemon that lives has a mirrored host behind it,
\* between closures and within them.
THEOREM NothingIsLeftBehind ==
  ASSUME StableUpstream, RoutesLearned
  PROVE  Spec => []NothingLeftBehind
<1>1. Init => LeftOK
  <2>1. Init => proxy = {} /\ \A h \in Hosts : route[h] = NoIdx
    BY DEF Init
  <2> QED
    BY <2>1 DEF LeftOK, RoutesKeyed, ProxiesKeyed
<1>2. Inv /\ MastersOK /\ LeftOK /\ [Next]_vars => LeftOK'
  BY KernelLeft, ParseLeft, ApplyLeft, HandleLinkEventLeft, HandleNeighEventLeft, ReconcileLeft,
     SweepLeft, OtherLeft DEF Next, Reloading, Handlers
<1>3. Inv /\ MastersOK /\ [FaultyNext]_vars => MastersOK'
  BY StepMasters
<1>4. LeftOK => NothingLeftBehind
  BY DEF LeftOK, RoutesKeyed, ProxiesKeyed, NothingLeftBehind
<1>5. [Next]_vars => [FaultyNext]_vars
  BY DEF FaultyNext
<1> QED
  BY <1>1, <1>2, <1>3, <1>4, <1>5, InitMasters, InitInv, StepInv, PTL DEF Spec

-----------------------------------------------------------------------------

(* Every key that is current has its route and its proxy entries.          *)

\* An interface that is on the netdev of a host mirrored on its present link has that
\* link, but for those that the reload in progress is about to close.
CurrentLinks ==
  \A h \in Hosts : <<h, OnLink(h)>> \in mirroredNeighs =>
    \A n \in registered :
      interfaces[n].Ifname = Behind[h] /\ (phase # "apply" \/ interfaces[n].Inuse) =>
        interfaces[n].Ifindex = OnLink(h)

\* A link that is not set down is up when its neighbour events are handled.
EventsOK ==
  \A e \in Events(neighCh) : e.ix = OnLink(e.host) => dev[Behind[e.host]].running

KeysOK ==
  \A h \in Hosts : <<h, OnLink(h)>> \in mirroredNeighs =>
    /\ route[h] = OnLink(h)
    /\ \A c \in Masters : Upstream(c) # Behind[h] => <<h, dev[Upstream(c)].ix>> \in proxy
InstOK == CurrentLinks /\ EventsOK /\ KeysOK

LEMMA OwnIndexes ==
  ASSUME Inv, NEW d \in Devs, NEW e \in Devs, dev[d].ix = dev[e].ix, dev[d].ix # NoIdx
  PROVE  d = e
BY DEF Inv, IndexOK, Owns, Owned

\* A link with a host's key, or with its route, is or was the host's.
LEMMA KeyOwned ==
  ASSUME Inv, NEW h \in Hosts, NEW n \in Names, interfaces[n].Ifindex # NoIdx,
         <<h, interfaces[n].Ifindex>> \in mirroredNeighs \/ route[h] = interfaces[n].Ifindex
  PROVE  interfaces[n].Ifname = Behind[h]
<1>1. PICK own \in [Idx -> Devs] : Owns(own)
  BY DEF Inv, IndexOK
<1>2. own[interfaces[n].Ifindex] = interfaces[n].Ifname
  BY <1>1 DEF Owns, Owned
<1>3. CASE route[h] = interfaces[n].Ifindex
  BY <1>1, <1>2, <1>3 DEF Owns, Owned
<1>4. CASE <<h, interfaces[n].Ifindex>> \in mirroredNeighs
  <2> DEFINE k == <<h, interfaces[n].Ifindex>>
  <2>1. k \in mirroredNeighs /\ k[1] = h /\ k[2] = interfaces[n].Ifindex
    BY <1>4
  <2>2. Owned(own, k[2], Behind[k[1]])
    BY <2>1, <1>1 DEF Owns
  <2> QED
    BY <2>1, <2>2, <1>2 DEF Owned
<1> QED
  BY <1>3, <1>4

\* What is added for a key that is current is the whole of it.
LEMMA AddKeys ==
  ASSUME Inv, Inv', MastersOK, StableUpstream, KeysOK, UNCHANGED dev,
         NEW M \in SUBSET (Hosts \X registered), NEW on \in SUBSET Devs, MirrorAdd(M, on),
         \A h \in Hosts : <<h, OnLink(h)>> \in mirroredNeighs' =>
           \/ <<h, OnLink(h)>> \in mirroredNeighs
           \/ /\ \E n \in registered : /\ <<h, n>> \in M /\ interfaces[n].Ifindex = OnLink(h)
                                       /\ interfaces[n].NDP = "relay"
              /\ Masters \subseteq registered /\ dev[Behind[h]].running
  PROVE  KeysOK'
<1>1. \A h \in Hosts : OnLink(h)' = OnLink(h) /\ Behind[h] \in Devs
  BY Constants DEF OnLink
<1>2. proxy \subseteq proxy' /\ route' \in [Hosts -> 0..MaxIdx]
  BY MirrorAddEffect DEF Inv
<1>3. ASSUME NEW h \in Hosts, LinkUp(route'[h]) PROVE route'[h] = OnLink(h)
  <2>1. PICK d \in Devs : dev[d].ix = route'[h] /\ dev[d].running
    BY <1>3 DEF LinkUp
  <2>2. route'[h] # NoIdx
    BY <2>1 DEF Inv, KernelOK
  <2>3. PICK own \in [Idx -> Devs] : Owns(own)'
    BY DEF Inv, IndexOK
  <2>4. own[route'[h]] = Behind[h]
    BY <2>2, <2>3 DEF Owns, Owned
  <2>5. own[dev[d].ix] = d
    BY <2>1, <2>2, <2>3 DEF Owns, Owned
  <2> QED
    BY <2>1, <2>4, <2>5 DEF OnLink
<1>4. ASSUME NEW h \in Hosts
      PROVE  LET up == {ix \in RouteLinks(M, h) : LinkUp(ix)}
             IN route'[h] = IF up = {} THEN route[h] ELSE CHOOSE ix \in up : TRUE
  BY DEF MirrorAdd
<1>5. ASSUME NEW h \in Hosts
      PROVE  \/ {ix \in RouteLinks(M, h) : LinkUp(ix)} = {} /\ route'[h] = route[h]
             \/ LinkUp(route'[h])
  <2> DEFINE up == {ix \in RouteLinks(M, h) : LinkUp(ix)}
  <2>1. route'[h] = IF up = {} THEN route[h] ELSE CHOOSE ix \in up : TRUE
    BY <1>4
  <2>2. \A ix \in up : LinkUp(ix)
    OBVIOUS
  <2> HIDE DEF up
  <2>3. (up = {} /\ route'[h] = route[h]) \/ route'[h] \in up
    BY <2>1
  <2> QED
    BY <2>2, <2>3 DEF up
<1> SUFFICES ASSUME NEW h \in Hosts, <<h, OnLink(h)>> \in mirroredNeighs'
             PROVE  /\ route'[h] = OnLink(h)
                    /\ \A c \in Masters :
                         Upstream(c) # Behind[h] => <<h, dev[Upstream(c)].ix>> \in proxy'
  BY <1>1 DEF KeysOK
<1>6. CASE <<h, OnLink(h)>> \in mirroredNeighs
  BY <1>2, <1>3, <1>5, <1>6 DEF KeysOK
<1>7. CASE <<h, OnLink(h)>> \notin mirroredNeighs
  <2>1. /\ dev[Behind[h]].running /\ Masters \subseteq registered
        /\ \E n \in registered : /\ <<h, n>> \in M /\ interfaces[n].Ifindex = OnLink(h)
                                 /\ interfaces[n].NDP = "relay"
    BY <1>7
  <2>2. PICK n \in registered : /\ <<h, n>> \in M /\ interfaces[n].Ifindex = OnLink(h)
                                /\ interfaces[n].NDP = "relay"
    BY <2>1
  <2>3. LinkUp(OnLink(h)) /\ OnLink(h) # NoIdx
    BY <2>1, <1>1 DEF LinkUp, OnLink, Inv, KernelOK
  <2>4. OnLink(h) \in RouteLinks(M, h)
    <3> DEFINE x == <<h, n>>
    <3>1. x \in M /\ x[1] = h /\ x[2] = n
      BY <2>2
    <3>2. interfaces[n].LearnRoutes
      BY DEF MastersOK, LearningOK, Inv, TypeOK
    <3> QED
      BY <3>1, <3>2, <2>2 DEF RouteLinks
  <2>5. route'[h] = OnLink(h)
    BY <2>3, <2>4, <1>3, <1>5
  <2>6. ASSUME NEW c \in Masters, Upstream(c) # Behind[h]
        PROVE  <<h, dev[Upstream(c)].ix>> \in proxy'
    <3>1. /\ c \in registered /\ interfaces[c].Master /\ Upstream(c) \in Devs
          /\ interfaces[c].Ifindex = dev[Upstream(c)].ix
      BY <2>1, UpstreamConstant DEF MastersOK, RolesOK
    <3>2. dev[Upstream(c)].ix # OnLink(h)
      BY <2>3, <2>6, <3>1, <1>1, OwnIndexes DEF OnLink
    <3>3. c \in Targets(n)
      BY <2>2, <3>1, <3>2 DEF Targets, MastersOK, ModesOK
    <3> DEFINE x == <<h, n>>
               p == <<h, dev[Upstream(c)].ix>>
    <3>4. x \in M /\ x[1] = h /\ x[2] = n
      BY <2>2
    <3>5. p \in {<<x[1], interfaces[b].Ifindex>> : b \in Targets(x[2])}
      BY <3>1, <3>3, <3>4
    <3>6. p \in ProxiesOf(M)
      BY <3>4, <3>5 DEF ProxiesOf
    <3>7. Exists(p[2])
      BY <3>1 DEF Exists
    <3> QED
      BY <3>6, <3>7 DEF MirrorAdd
  <2> QED
    BY <2>5, <2>6
<1> QED
  BY <1>6, <1>7

\* A key that goes takes nothing from the present link of its host.
LEMMA DelKeys ==
  ASSUME Inv, KeysOK, CurrentLinks, phase # "apply", UNCHANGED dev,
         NEW M \in SUBSET (Hosts \X registered), MirrorDel(M),
         mirroredNeighs' = mirroredNeighs \ {Key(m) : m \in M},
         \A m \in M : /\ interfaces[m[2]].Ifindex # NoIdx
                      /\ Key(m) \in mirroredNeighs \/ route[m[1]] = interfaces[m[2]].Ifindex
  PROVE  KeysOK'
<1>1. \A h \in Hosts : OnLink(h)' = OnLink(h)
  BY DEF OnLink
<1> SUFFICES ASSUME NEW h \in Hosts, <<h, OnLink(h)>> \in mirroredNeighs'
             PROVE  /\ route'[h] = OnLink(h)
                    /\ \A c \in Masters :
                         Upstream(c) # Behind[h] => <<h, dev[Upstream(c)].ix>> \in proxy'
  BY <1>1 DEF KeysOK
<1>2. <<h, OnLink(h)>> \in mirroredNeighs /\ \A m \in M : Key(m) # <<h, OnLink(h)>>
  OBVIOUS
<1>3. \A m \in M : m[1] # h
  <2> SUFFICES ASSUME NEW m \in M, m[1] = h PROVE FALSE
    OBVIOUS
  <2>1. m[2] \in registered /\ m[2] \in Names
    BY DEF Inv, TypeOK
  <2>2. interfaces[m[2]].Ifname = Behind[h]
    BY <2>1, KeyOwned DEF Key
  <2>3. interfaces[m[2]].Ifindex = OnLink(h)
    BY <1>2, <2>1, <2>2 DEF CurrentLinks
  <2> QED
    BY <1>2, <2>3 DEF Key
<1>4. RouteLinks(M, h) = {}
  BY <1>3 DEF RouteLinks
<1>5. route'[h] = route[h]
  BY <1>4 DEF MirrorDel
<1>6. \A x : <<h, x>> \notin ProxiesOf(M)
  BY <1>3 DEF ProxiesOf
<1>7. \A x : <<h, x>> \in proxy => <<h, x>> \in proxy'
  BY <1>6 DEF MirrorDel
<1> QED
  BY <1>2, <1>5, <1>7 DEF KeysOK

\* No key that is current is new, no interface moves, and the closure goes on or starts.
LEMMA CurrentFrame ==
  ASSUME Inv, CurrentLinks, registered' \subseteq registered,
         \A h \in Hosts : <<h, OnLink(h)>>' \in mirroredNeighs' =>
           <<h, OnLink(h)>> \in mirroredNeighs /\ OnLink(h)' = OnLink(h),
         \A n \in registered' : /\ interfaces'[n].Ifname = interfaces[n].Ifname
                                /\ interfaces'[n].Ifindex = interfaces[n].Ifindex
                                /\ phase' # "apply" \/ interfaces'[n].Inuse =>
                                   phase # "apply" \/ interfaces[n].Inuse
  PROVE  CurrentLinks'
<1> SUFFICES ASSUME NEW h \in Hosts, <<h, OnLink(h)>>' \in mirroredNeighs', NEW n \in registered',
                    interfaces'[n].Ifname = Behind[h], phase' # "apply" \/ interfaces'[n].Inuse
             PROVE  interfaces'[n].Ifindex = OnLink(h)'
  BY DEF CurrentLinks
<1> QED
  BY DEF CurrentLinks

\* The same interfaces between closures.
LEMMA QuietCurrent ==
  ASSUME Inv, CurrentLinks, UNCHANGED <<dev, registered, interfaces, phase>>,
         \A h \in Hosts :
           <<h, OnLink(h)>> \in mirroredNeighs' => <<h, OnLink(h)>> \in mirroredNeighs
  PROVE  CurrentLinks'
<1>1. \A h \in Hosts : OnLink(h)' = OnLink(h)
  BY DEF OnLink
<1> QED
  BY <1>1 DEF CurrentLinks

LEMMA KeysFrame ==
  ASSUME KeysOK, mirroredNeighs' = mirroredNeighs, UNCHANGED <<route, proxy>>,
         \A h \in Hosts : OnLink(h)' = OnLink(h),
         \A c \in Masters : dev'[Upstream(c)].ix = dev[Upstream(c)].ix
  PROVE  KeysOK'
<1>1. ASSUME NEW h \in Hosts, <<h, OnLink(h)>>' \in mirroredNeighs'
      PROVE  /\ route'[h] = OnLink(h)'
             /\ \A c \in Masters : Upstream(c) # Behind[h] => <<h, dev'[Upstream(c)].ix>> \in proxy'
  <2>1. <<h, OnLink(h)>> \in mirroredNeighs
    BY <1>1
  <2> QED
    BY <2>1 DEF KeysOK
<1> QED
  BY <1>1 DEF KeysOK

LEMMA EventsFrame ==
  ASSUME EventsOK, UNCHANGED dev, Events(neighCh)' \subseteq Events(neighCh)
  PROVE  EventsOK'
BY DEF EventsOK, OnLink

LEMMA LinkComesUpInst ==
  ASSUME Inv, InstOK, MastersOK, StableUpstream, NEW d \in Devs, LinkComesUp(d)
  PROVE  InstOK'
<1>0. UNCHANGED <<registered, interfaces, mirroredNeighs, neighCh, phase, todo, route, proxy>>
  BY DEF LinkComesUp, daemonVars, tableVars
<1>1. \A e \in Devs : dev'[e].ix = dev[e].ix /\ (dev[e].running => dev'[e].running)
  BY DEF LinkComesUp, Inv, TypeOK
<1>2. \A h \in Hosts : OnLink(h)' = OnLink(h) /\ Behind[h] \in Devs
  BY <1>1, Constants DEF OnLink
<1>3. \A e \in Events(neighCh) : e.host \in Hosts
  BY FieldTypes DEF Inv, NeighEvent
<1>4. CurrentLinks'
  BY <1>0, <1>2, CurrentFrame DEF InstOK
<1>5. EventsOK'
  <2>1. Events(neighCh)' = Events(neighCh)
    BY <1>0 DEF Events
  <2> QED
    BY <2>1, <1>1, <1>2, <1>3 DEF InstOK, EventsOK
<1>6. KeysOK'
  BY <1>0, <1>2, LinkStepMasters, KeysFrame DEF InstOK
<1> QED
  BY <1>4, <1>5, <1>6 DEF InstOK

\* The keys of a deleted link are not current any more, and the other links keep theirs.
LEMMA LinkDeletedInst ==
  ASSUME Inv, InstOK, StableUpstream, NEW d \in Devs, LinkDeleted(d)
  PROVE  InstOK'
<1>0. UNCHANGED <<registered, interfaces, mirroredNeighs, neighCh, phase, todo>>
  BY DEF LinkDeleted, daemonVars
<1>1. /\ \A e \in Devs : e # d => dev'[e] = dev[e]
      /\ dev'[d].ix = NoIdx /\ d \in Replaced /\ dev[d].ix # NoIdx
  BY DEF LinkDeleted, Inv, TypeOK
<1>2. \A h \in Hosts : /\ Behind[h] \in Devs
                       /\ Behind[h] # d => OnLink(h)' = OnLink(h)
                       /\ Behind[h] = d => OnLink(h)' = NoIdx
  BY <1>1, Constants DEF OnLink
<1>3. \A h \in Hosts : <<h, OnLink(h)>>' \in mirroredNeighs' =>
        Behind[h] # d /\ OnLink(h)' = OnLink(h) /\ <<h, OnLink(h)>> \in mirroredNeighs
  <2>1. \A h \in Hosts : <<h, NoIdx>> \notin mirroredNeighs
    BY Constants DEF Inv, TypeOK
  <2> QED
    BY <2>1, <1>0, <1>2
<1>4. /\ \A h \in Hosts : route'[h] = (IF route[h] = dev[d].ix THEN NoIdx ELSE route[h])
      /\ proxy' = {p \in proxy : p[2] # dev[d].ix}
  BY <1>1, FlushEffect DEF LinkDeleted, Inv
<1>5. CurrentLinks'
  BY <1>0, <1>3, CurrentFrame DEF InstOK
<1>6. EventsOK'
  <2>1. Events(neighCh)' = Events(neighCh)
    BY <1>0 DEF Events
  <2>2. \A e \in Events(neighCh) : e.host \in Hosts /\ e.ix # NoIdx
    BY FieldTypes, Constants DEF Inv, NeighEvent
  <2> QED
    BY <2>1, <2>2, <1>1, <1>2 DEF InstOK, EventsOK
<1>7. KeysOK'
  <2> SUFFICES ASSUME NEW h \in Hosts, <<h, OnLink(h)>>' \in mirroredNeighs'
               PROVE  /\ route'[h] = OnLink(h)'
                      /\ \A c \in Masters :
                           Upstream(c) # Behind[h] => <<h, dev'[Upstream(c)].ix>> \in proxy'
    BY DEF KeysOK
  <2>1. Behind[h] # d /\ OnLink(h)' = OnLink(h) /\ <<h, OnLink(h)>> \in mirroredNeighs
    BY <1>3
  <2>2. OnLink(h) # dev[d].ix
    BY <2>1, <1>1, <1>2, OwnIndexes DEF OnLink
  <2>3. route[h] = OnLink(h)
    BY <2>1 DEF InstOK, KeysOK
  <2>4. ASSUME NEW c \in Masters, Upstream(c) # Behind[h]
        PROVE  <<h, dev'[Upstream(c)].ix>> \in proxy'
    <3>1. Upstream(c) \in Devs /\ Upstream(c) # d
      BY <1>1, UpstreamConstant
    <3>2. dev'[Upstream(c)] = dev[Upstream(c)] /\ dev[Upstream(c)].ix # dev[d].ix
      BY <3>1, <1>1, OwnIndexes
    <3>3. <<h, dev[Upstream(c)].ix>> \in proxy
      BY <2>1, <2>4 DEF InstOK, KeysOK
    <3> QED
      BY <3>2, <3>3, <1>4
  <2> QED
    BY <2>1, <2>2, <2>3, <2>4, <1>4
<1> QED
  BY <1>5, <1>6, <1>7 DEF InstOK

\* No key and no event is for the index of a new link.
LEMMA LinkCreatedInst ==
  ASSUME Inv, InstOK, MastersOK, StableUpstream, NEW d \in Devs, LinkCreated(d)
  PROVE  InstOK'
<1>0. UNCHANGED <<registered, interfaces, mirroredNeighs, neighCh, phase, todo, route, proxy>>
  BY DEF LinkCreated, daemonVars, tableVars
<1>1. /\ \A e \in Devs : e # d => dev'[e] = dev[e]
      /\ dev'[d].ix = lastIdx + 1 /\ lastIdx \in Nat
  BY Constants DEF LinkCreated, Inv, TypeOK
<1>2. \A h \in Hosts : /\ Behind[h] \in Devs
                       /\ Behind[h] # d => OnLink(h)' = OnLink(h)
                       /\ Behind[h] = d => OnLink(h)' = lastIdx + 1
  BY <1>1, Constants DEF OnLink
<1>3. PICK own \in [Idx -> Devs] : Owns(own)
  BY DEF Inv, IndexOK
<1>4. \A k \in mirroredNeighs : k[2] # lastIdx + 1
  <2>1. \A k \in mirroredNeighs : k[2] \in Idx
    BY DEF Inv, TypeOK
  <2> QED
    BY <2>1, <1>1, <1>3, Constants DEF Owns, Owned
<1>5. \A e \in Events(neighCh) : e.ix # lastIdx + 1 /\ e.host \in Hosts
  <2>1. \A e \in Events(neighCh) : e.ix \in Idx /\ e.host \in Hosts
    BY FieldTypes DEF Inv, NeighEvent
  <2> QED
    BY <2>1, <1>1, <1>3, Constants DEF Owns, Owned
<1>6. \A h \in Hosts : <<h, OnLink(h)>>' \in mirroredNeighs' =>
        OnLink(h)' = OnLink(h) /\ <<h, OnLink(h)>> \in mirroredNeighs
  BY <1>0, <1>2, <1>4
<1>7. CurrentLinks'
  BY <1>0, <1>6, CurrentFrame DEF InstOK
<1>8. EventsOK'
  <2>1. Events(neighCh)' = Events(neighCh)
    BY <1>0 DEF Events
  <2> QED
    BY <2>1, <1>1, <1>2, <1>5 DEF InstOK, EventsOK
<1>9. KeysOK'
  <2>1. \A c \in Masters : dev'[Upstream(c)].ix = dev[Upstream(c)].ix
    BY LinkStepMasters
  <2> QED
    BY <2>1, <1>0, <1>6 DEF InstOK, KeysOK
<1> QED
  BY <1>7, <1>8, <1>9 DEF InstOK

\* The tables and the interfaces stay, and the events are those of links that are up.
LEMMA QuietInst ==
  ASSUME Inv, InstOK,
         UNCHANGED <<dev, registered, interfaces, mirroredNeighs, phase, route, proxy>>,
         \A e \in Events(neighCh)' : \/ e \in Events(neighCh)
                                     \/ e.host \in Hosts /\ dev[Behind[e.host]].running
  PROVE  InstOK'
<1>1. \A h \in Hosts : OnLink(h)' = OnLink(h)
  BY DEF OnLink
<1>2. CurrentLinks'
  BY QuietCurrent DEF InstOK
<1>3. KeysOK'
  BY <1>1, KeysFrame DEF InstOK
<1>4. EventsOK'
  BY DEF InstOK, EventsOK, OnLink
<1> QED
  BY <1>2, <1>3, <1>4 DEF InstOK

LEMMA NeighInst ==
  ASSUME Inv, InstOK, NEW h \in Hosts, NeighAnswers(h) \/ NeighFails(h) \/ NeighGC(h)
  PROVE  InstOK'
<1>1. UNCHANGED <<dev, registered, interfaces, mirroredNeighs, phase, route, proxy>>
  BY DEF NeighAnswers, NeighFails, NeighBecomes, NeighGC, linkVars, tableVars, daemonVars
<1>2. CASE NeighGC(h)
  <2>1. Events(neighCh)' = Events(neighCh)
    BY <1>2 DEF NeighGC, Events
  <2> QED
    BY <1>1, <2>1, QuietInst
<1>3. ASSUME NEW state \in {"resolved", "failed"}, NeighBecomes(h, state), dev[Behind[h]].running
      PROVE  InstOK'
  <2> DEFINE v == [host |-> h, ix |-> OnLink(h), state |-> state]
  <2>1. Events(neighCh)' = Events(neighCh) \cup {v}
    BY <1>3, NeighBecomesInv
  <2>2. v.host = h
    OBVIOUS
  <2> HIDE DEF v
  <2> QED
    BY <1>1, <1>3, <2>1, <2>2, QuietInst
<1>4. NeighFails(h) => dev[Behind[h]].running
  BY DEF NeighFails, Inv, KernelOK
<1> QED
  BY <1>2, <1>3, <1>4 DEF NeighAnswers, NeighFails

LEMMA ReloadStartInst ==
  ASSUME Inv, InstOK, ReloadStart
  PROVE  InstOK'
<1>1. /\ phase = "idle" /\ phase' = "parse"
      /\ UNCHANGED <<dev, neighCh, route, proxy, registered, mirroredNeighs>>
      /\ \A n \in Names : /\ interfaces'[n].Ifname = interfaces[n].Ifname
                          /\ interfaces'[n].Ifindex = interfaces[n].Ifindex
  BY StartEffect
<1>2. registered \subseteq Names /\ \A h \in Hosts : OnLink(h)' = OnLink(h)
  BY <1>1 DEF Inv, TypeOK, OnLink
<1>3. CurrentLinks'
  BY <1>1, <1>2, CurrentFrame DEF InstOK
<1>4. EventsOK'
  BY <1>1, EventsFrame DEF InstOK, Events
<1>5. KeysOK'
  BY <1>1, <1>2, KeysFrame DEF InstOK
<1> QED
  BY <1>3, <1>4, <1>5 DEF InstOK

LEMMA ReloadModesInst ==
  ASSUME Inv, InstOK, ReloadModes
  PROVE  InstOK'
<1>1. /\ phase = "parse"
      /\ UNCHANGED <<dev, neighCh, route, proxy, registered, mirroredNeighs>>
      /\ \A n \in Names : /\ interfaces'[n].Ifname = interfaces[n].Ifname
                          /\ interfaces'[n].Ifindex = interfaces[n].Ifindex
  BY ModesEffect
<1>2. registered \subseteq Names /\ \A h \in Hosts : OnLink(h)' = OnLink(h)
  BY <1>1 DEF Inv, TypeOK, OnLink
<1>3. CurrentLinks'
  BY <1>1, <1>2, CurrentFrame DEF InstOK
<1>4. EventsOK'
  BY <1>1, EventsFrame DEF InstOK, Events
<1>5. KeysOK'
  BY <1>1, <1>2, KeysFrame DEF InstOK
<1> QED
  BY <1>3, <1>4, <1>5 DEF InstOK

\* A link that is detached takes the keys of its old index.
LEMMA DetachKeys ==
  ASSUME Inv, KeysOK, CurrentLinks, phase # "apply", UNCHANGED dev, NEW n \in registered, NEW ix,
         interfaces[n].Ifindex # NoIdx, Detach(n, ix)
  PROVE  KeysOK'
BY DetachDeletes, DelKeys

LEMMA Unnamed == NewInterface.Ifname = ""
BY DEF NewInterface

LEMMA ParseInst ==
  ASSUME Inv, InstOK, NEW n \in Names, ParseInterface(n)
  PROVE  InstOK'
<1>1. /\ n \in todo /\ phase = "parse" /\ registered' = registered \cup {n}
      /\ \A m \in Names : m # n => interfaces'[m] = interfaces[m]
      /\ UNCHANGED <<dev, neighCh, phase>>
  BY ParseEffect
<1>2. \/ /\ dev[root[n].Ifname].ix = NoIdx
         /\ UNCHANGED <<interfaces, route, proxy, mirroredNeighs>>
      \/ /\ interfaces'[n].Ifname = root[n].Ifname
         /\ interfaces'[n].Ifindex = dev[root[n].Ifname].ix
         /\ \/ UNCHANGED <<route, proxy, mirroredNeighs>>
            \/ /\ n \in registered /\ interfaces[n].Ifindex # NoIdx
               /\ Detach(n, dev[root[n].Ifname].ix)
  BY ParseEffect
<1>3. registered \subseteq Names /\ \A h \in Hosts : OnLink(h)' = OnLink(h) /\ Behind[h] \in Devs
  BY <1>1, Constants DEF Inv, TypeOK, OnLink
<1>4. EventsOK'
  BY <1>1, EventsFrame DEF InstOK, Events
<1>5. ASSUME UNCHANGED <<route, proxy, mirroredNeighs>> PROVE KeysOK'
  BY <1>1, <1>3, <1>5, KeysFrame DEF InstOK
<1>6. KeysOK'
  BY <1>1, <1>2, <1>5, DetachKeys DEF InstOK
<1>7. mirroredNeighs' \subseteq mirroredNeighs
  BY <1>2, DetachEffect DEF Inv
<1>8. CurrentLinks'
  <2> SUFFICES ASSUME NEW h \in Hosts, <<h, OnLink(h)>> \in mirroredNeighs', NEW m \in registered',
                      interfaces'[m].Ifname = Behind[h]
               PROVE  interfaces'[m].Ifindex = OnLink(h)
    BY <1>3 DEF CurrentLinks
  <2>1. CASE interfaces'[m] = interfaces[m] /\ m \in registered
    BY <2>1, <1>1, <1>7 DEF InstOK, CurrentLinks
  <2>2. CASE m \notin registered /\ interfaces' = interfaces
    <3>0. interfaces[m] = NewInterface
      BY <2>2, <1>1 DEF Inv, DaemonOK
    <3>1. interfaces[m].Ifname = ""
      BY <3>0, Unnamed
    <3>2. "" \notin Devs
      BY RelayAssumption
    <3> QED
      BY <2>2, <3>1, <3>2, <1>3
  <2>3. CASE /\ m = n /\ interfaces'[n].Ifname = root[n].Ifname
             /\ interfaces'[n].Ifindex = dev[root[n].Ifname].ix
    BY <2>3 DEF OnLink
  <2> QED
    BY <2>1, <2>2, <2>3, <1>1, <1>2, <1>3
<1> QED
  BY <1>4, <1>6, <1>8 DEF InstOK

\* What an interface finds when it opens its capture is on its present link.
LEMMA NdpSetupInst ==
  ASSUME Inv, Inv', InstOK, MastersOK, StableUpstream, OneNamePerDev, NEW n \in Names,
         ApplyInterface(n), interfaces[n].Inuse, interfaces[n].NDP = "relay", NdpSetup(n)
  PROVE  InstOK'
<1>1. /\ phase = "apply" /\ n \in registered /\ phase' = IF todo' = {} THEN "idle" ELSE "apply"
      /\ UNCHANGED <<dev, neigh, neighCh>>
  BY ApplyFrame
<1> DEFINE M == Found(n) \X {n}
           on == SwitchedOn(interfaces[n])
<1>2. /\ \A m \in Names : m # n => interfaces'[m] = interfaces[m]
      /\ interfaces'[n].Ifindex = interfaces[n].Ifindex
      /\ interfaces'[n].Ifname = interfaces[n].Ifname
      /\ interfaces'[n].Inuse = interfaces[n].Inuse
      /\ mirroredNeighs' = mirroredNeighs \cup (Found(n) \X {interfaces[n].Ifindex})
      /\ MirrorAdd(M, on)
      /\ registered' = registered
  BY <1>1, SetupEffect
<1>3. M \in SUBSET (Hosts \X registered)
  BY <1>1, FoundOnLink
<1>4. on \in SUBSET Devs
  BY DEF SwitchedOn, Inv, TypeOK
<1>5. registered \subseteq Names /\ \A h \in Hosts : OnLink(h)' = OnLink(h) /\ Behind[h] \in Devs
  BY <1>1, Constants DEF Inv, TypeOK, OnLink
<1>6. \A h \in Hosts : <<h, OnLink(h)>> \in mirroredNeighs' =>
        <<h, OnLink(h)>> \in mirroredNeighs \/ h \in Found(n)
  BY <1>2
<1>7. \A h \in Found(n) : /\ OnLink(h) = interfaces[n].Ifindex /\ OnLink(h) # NoIdx
                          /\ dev[Behind[h]].running /\ <<h, n>> \in M
  BY FoundOnLink DEF Inv, KernelOK
<1>8. Masters \subseteq registered
  BY <1>1 DEF MastersOK, ParsedOK
<1>9. KeysOK'
  <2>1. \A h \in Hosts : <<h, OnLink(h)>> \in mirroredNeighs' =>
           \/ <<h, OnLink(h)>> \in mirroredNeighs
           \/ /\ \E m \in registered : /\ <<h, m>> \in M /\ interfaces[m].Ifindex = OnLink(h)
                                       /\ interfaces[m].NDP = "relay"
              /\ Masters \subseteq registered /\ dev[Behind[h]].running
    BY <1>1, <1>6, <1>7, <1>8
  <2> HIDE DEF M, on
  <2> QED
    BY <1>1, <1>2, <1>3, <1>4, <2>1, AddKeys DEF InstOK
<1>10. EventsOK'
  BY <1>1, EventsFrame DEF InstOK, Events
<1>11. \A m \in registered : phase' # "apply" \/ interfaces'[m].Inuse => interfaces'[m].Inuse
  <2>1. phase' # "apply" => phase' = "idle" /\ todo' = {}
    BY <1>1
  <2>2. phase' # "apply" => Ready' = registered
    BY <2>1, <1>2 DEF Ready
  <2> QED
    BY <2>2 DEF Inv, ReadyOK, SocketOK
<1>12. CurrentLinks'
  <2> SUFFICES ASSUME NEW h \in Hosts, <<h, OnLink(h)>> \in mirroredNeighs', NEW m \in registered,
                      interfaces'[m].Ifname = Behind[h], interfaces'[m].Inuse
               PROVE  interfaces'[m].Ifindex = OnLink(h)
    BY <1>2, <1>5, <1>11 DEF CurrentLinks
  <2>1. /\ interfaces[m].Ifname = Behind[h] /\ interfaces[m].Inuse
        /\ interfaces'[m].Ifindex = interfaces[m].Ifindex /\ m \in Names
    BY <1>2, <1>5
  <2>2. CASE <<h, OnLink(h)>> \in mirroredNeighs
    BY <2>1, <2>2 DEF InstOK, CurrentLinks
  <2>3. CASE h \in Found(n)
    <3>1. interfaces[n].Ifname = Behind[h]
      <4>1. OnLink(h) = interfaces[n].Ifindex /\ OnLink(h) # NoIdx
        BY <2>3, <1>7
      <4> QED
        BY <4>1, <1>5 DEF OnLink, Inv, IndexOK, Owns, Owned
    <3>2. m = n
      BY <3>1, <2>1, SameName
    <3> QED
      BY <3>2, <2>1, <2>3, <1>7
  <2> QED
    BY <2>2, <2>3, <1>6
<1> QED
  BY <1>9, <1>10, <1>12 DEF InstOK

LEMMA ApplyInst ==
  ASSUME Inv, Inv', InstOK, MastersOK, StableUpstream, OneNamePerDev, NEW n \in Names,
         ApplyInterface(n)
  PROVE  InstOK'
<1>1. /\ phase = "apply" /\ n \in registered /\ phase' = IF todo' = {} THEN "idle" ELSE "apply"
      /\ UNCHANGED <<dev, neighCh>>
  BY ApplyFrame
<1>2. registered \subseteq Names /\ \A h \in Hosts : OnLink(h)' = OnLink(h)
  BY <1>1 DEF Inv, TypeOK, OnLink
<1>3. EventsOK'
  BY <1>1, EventsFrame DEF InstOK, Events
<1>4. ASSUME NdpDisable(n) \/ CloseInterface(n) PROVE InstOK'
  <2>1. /\ UNCHANGED <<mirroredNeighs, proxy, route>> /\ registered' \subseteq registered
        /\ \A m \in registered' : /\ interfaces'[m].Ifname = interfaces[m].Ifname
                                  /\ interfaces'[m].Ifindex = interfaces[m].Ifindex
                                  /\ interfaces'[m].Inuse = interfaces[m].Inuse
    <3>1. CASE NdpDisable(n)
      BY <3>1, <1>1, <1>2, DisableEffect
    <3>2. CASE CloseInterface(n)
      BY <3>2, <1>2 DEF CloseInterface, Inv, TypeOK
    <3> QED
      BY <1>4, <3>1, <3>2
  <2>2. KeysOK'
    BY <1>1, <1>2, <2>1, KeysFrame DEF InstOK
  <2>3. \A m \in registered' : phase' # "apply" \/ interfaces'[m].Inuse => interfaces[m].Inuse
    <3>1. phase' # "apply" => phase' = "idle" /\ todo' = {}
      BY <1>1
    <3>2. phase' # "apply" => Ready' = registered'
      BY <3>1 DEF Ready
    <3> QED
      BY <3>2, <2>1 DEF Inv, ReadyOK, SocketOK
  <2>4. CurrentLinks'
    BY <1>2, <2>1, <2>3, CurrentFrame DEF InstOK
  <2> QED
    BY <1>3, <2>2, <2>4 DEF InstOK
<1> QED
  BY <1>4, NdpSetupInst, ApplyFrame

\* An event that moves an interface drops the keys of the link it had, so that none is
\* left that could be current.
LEMMA RelinkInst ==
  ASSUME Inv, InstOK, HandleLinkEvent, NEW n \in registered,
         interfaces[n].Ifname = Head(linkCh).dev, HandleLinkDeleted(n) \/ HandleLinkReplaced(n)
  PROVE  InstOK'
<1>1. phase = "idle" /\ UNCHANGED <<dev, neighCh>>
  BY LinkEventTaken
<1>2. /\ \A m \in Names : m # n => interfaces'[m] = interfaces[m]
      /\ interfaces'[n].Ifname = interfaces[n].Ifname
      /\ registered' = registered
  BY RelinkEffect
<1>3. PICK ix : Detach(n, ix)
  BY RelinkEffect
<1>4. mirroredNeighs' = {k \in mirroredNeighs : k[2] # interfaces[n].Ifindex}
  BY <1>3, DetachEffect DEF Inv
<1>5. registered \subseteq Names /\ \A h \in Hosts : OnLink(h)' = OnLink(h)
  BY <1>1 DEF Inv, TypeOK, OnLink
<1>6. EventsOK'
  BY <1>1, EventsFrame DEF InstOK, Events
<1>7. KeysOK'
  <2>1. CASE interfaces[n].Ifindex # NoIdx
    BY <1>1, <1>3, <2>1, DetachKeys DEF InstOK
  <2>2. CASE interfaces[n].Ifindex = NoIdx
    <3>1. {h \in Hosts : <<h, interfaces[n].Ifindex>> \in mirroredNeighs} = {}
      BY <2>2, Constants DEF Inv, TypeOK
    <3>2. MirrorDel({})
      BY <3>1, <1>3 DEF Detach
    <3>3. mirroredNeighs' = mirroredNeighs
      BY <2>2, <1>4, Constants DEF Inv, TypeOK
    <3>4. mirroredNeighs' = mirroredNeighs \ {Key(m) : m \in {}}
      BY <3>3
    <3> QED
      BY <3>2, <3>4, <1>1, DelKeys DEF InstOK
  <2> QED
    BY <2>1, <2>2
<1>8. CurrentLinks'
  <2> SUFFICES ASSUME NEW h \in Hosts, <<h, OnLink(h)>> \in mirroredNeighs', NEW m \in registered,
                      interfaces'[m].Ifname = Behind[h]
               PROVE  interfaces'[m].Ifindex = OnLink(h)
    BY <1>2, <1>5 DEF CurrentLinks
  <2>1. <<h, OnLink(h)>> \in mirroredNeighs /\ OnLink(h) # interfaces[n].Ifindex
    BY <1>4
  <2>2. interfaces[m].Ifname = Behind[h]
    BY <1>2, <1>5
  <2>3. interfaces[m].Ifindex = OnLink(h)
    BY <2>1, <2>2, <1>1 DEF InstOK, CurrentLinks
  <2> QED
    BY <2>1, <2>3, <1>2, <1>5
<1> QED
  BY <1>6, <1>7, <1>8 DEF InstOK

LEMMA HandleLinkEventInst ==
  ASSUME Inv, InstOK, HandleLinkEvent
  PROVE  InstOK'
<1>1. phase = "idle" /\ UNCHANGED <<dev, neighCh>>
  BY LinkEventTaken
<1>2. registered \subseteq Names /\ \A h \in Hosts : OnLink(h)' = OnLink(h)
  BY <1>1 DEF Inv, TypeOK, OnLink
<1>3. CASE LinkIgnored
  <2>1. UNCHANGED <<registered, interfaces, mirroredNeighs, phase, route, proxy>>
    BY <1>3 DEF LinkIgnored, tableVars
  <2>2. Events(neighCh)' = Events(neighCh)
    BY <1>1 DEF Events
  <2> QED
    BY <1>1, <2>1, <2>2, QuietInst
<1>4. ASSUME NEW n \in registered, HandleLinkToggled(n) PROVE InstOK'
  <2>1. /\ \A m \in Names : m # n => interfaces'[m] = interfaces[m]
        /\ interfaces'[n].Ifindex = interfaces[n].Ifindex
        /\ interfaces'[n].Ifname = interfaces[n].Ifname
        /\ UNCHANGED <<registered, route, proxy, mirroredNeighs>>
    BY <1>4, ToggleEffect
  <2>2. CurrentLinks'
    BY <1>1, <1>2, <2>1, CurrentFrame DEF InstOK
  <2>3. EventsOK'
    BY <1>1, EventsFrame DEF InstOK, Events
  <2>4. KeysOK'
    BY <1>1, <1>2, <2>1, KeysFrame DEF InstOK
  <2> QED
    BY <2>2, <2>3, <2>4 DEF InstOK
<1> QED
  BY <1>3, <1>4, RelinkInst DEF HandleLinkEvent

\* A host that is learned is learned with its route and its proxy entries.
LEMMA HandleNeighEventInst ==
  ASSUME Inv, Inv', InstOK, MastersOK, StableUpstream, OneNamePerDev, HandleNeighEvent
  PROVE  InstOK'
<1> DEFINE e == Head(neighCh)
           k == <<e.host, e.ix>>
<1>1. /\ phase = "idle" /\ todo = {} /\ e \in NeighEvent /\ e \in Events(neighCh)
      /\ Events(neighCh)' \subseteq Events(neighCh)
      /\ UNCHANGED <<dev, registered, interfaces, phase>>
  BY NeighEventTaken
<1>2. e.host \in Hosts /\ e.ix \in Idx
  BY <1>1 DEF NeighEvent
<1>3. ASSUME NEW n \in RelayIface(e.ix)
      PROVE  /\ n \in registered /\ interfaces[n].NDP = "relay" /\ Masters \subseteq registered
             /\ interfaces[n].Ifindex = e.ix /\ e.ix # NoIdx
             /\ Key(<<e.host, n>>) = k /\ {<<e.host, n>>} \in SUBSET (Hosts \X registered)
  <2>1. n \in registered /\ interfaces[n].NDP = "relay" /\ interfaces[n].Ifindex = e.ix
    BY DEF RelayIface, IfaceByIndex
  <2>2. Masters \subseteq registered
    BY <2>1, <1>1, MastersThere
  <2>3. Key(<<e.host, n>>) = k
    BY <2>1 DEF Key
  <2> QED
    BY <1>2, <2>1, <2>2, <2>3, Constants
<1>4. proxyNdp \in SUBSET Devs /\ registered \subseteq Names
  BY DEF Inv, TypeOK
<1>5. /\ e.ix = OnLink(e.host) => dev[Behind[e.host]].running
      /\ \E own \in [Idx -> Devs] : Owns(own) /\ Owned(own, e.ix, Behind[e.host])
  BY <1>1 DEF InstOK, EventsOK, Inv, IndexOK, Owns
<1> HIDE DEF e, k
<1>6. EventsOK'
  BY <1>1, EventsFrame DEF InstOK
<1>7. CASE UNCHANGED <<mirroredNeighs, route, proxy>>
  BY <1>1, <1>7, QuietInst
<1>8. ASSUME NEW n \in RelayIface(e.ix), mirroredNeighs' = mirroredNeighs \cup {k},
             MirrorAdd({<<e.host, n>>}, proxyNdp)
      PROVE  InstOK'
  <2>1. \A h \in Hosts : <<h, OnLink(h)>> \in mirroredNeighs' =>
          <<h, OnLink(h)>> \in mirroredNeighs \/ (h = e.host /\ OnLink(h) = e.ix)
    BY <1>8 DEF k
  <2>2. \A h \in Hosts : <<h, OnLink(h)>> \in mirroredNeighs' =>
           \/ <<h, OnLink(h)>> \in mirroredNeighs
           \/ /\ \E m \in registered : /\ <<h, m>> \in {<<e.host, n>>}
                                       /\ interfaces[m].Ifindex = OnLink(h)
                                       /\ interfaces[m].NDP = "relay"
              /\ Masters \subseteq registered /\ dev[Behind[h]].running
    BY <2>1, <1>3, <1>5
  <2>3. KeysOK'
    BY <2>2, <1>1, <1>3, <1>4, <1>8, AddKeys DEF InstOK
  <2>4. CurrentLinks'
    <3> SUFFICES ASSUME NEW h \in Hosts, <<h, OnLink(h)>> \in mirroredNeighs', NEW m \in registered,
                        interfaces[m].Ifname = Behind[h]
                 PROVE  interfaces[m].Ifindex = OnLink(h)
      BY <1>1 DEF CurrentLinks, OnLink
    <3>1. CASE <<h, OnLink(h)>> \in mirroredNeighs
      BY <3>1, <1>1 DEF InstOK, CurrentLinks
    <3>2. CASE h = e.host /\ OnLink(h) = e.ix
      <4>1. interfaces[n].Ifname = Behind[h]
        <5>1. PICK own \in [Idx -> Devs] : Owns(own) /\ Owned(own, e.ix, Behind[e.host])
          BY <1>5
        <5>2. interfaces[n].Ifindex = e.ix /\ e.ix # NoIdx /\ n \in Names
          BY <1>3, <1>4
        <5>3. own[e.ix] = interfaces[n].Ifname
          BY <5>1, <5>2 DEF Owns, Owned
        <5> QED
          BY <5>1, <5>2, <5>3, <3>2 DEF Owned
      <4>2. interfaces[n].Inuse /\ interfaces[m].Inuse
        BY <1>1, <1>3 DEF Inv, ReadyOK, Ready, SocketOK
      <4>3. m = n
        BY <4>1, <4>2, <1>3, <1>4, SameName
      <4> QED
        BY <4>3, <3>2, <1>3
    <3> QED
      BY <3>1, <3>2, <2>1
  <2> QED
    BY <2>3, <2>4, <1>6 DEF InstOK
<1>9. ASSUME NEW n \in RelayIface(e.ix), k \in mirroredNeighs,
             mirroredNeighs' = mirroredNeighs \ {k}, MirrorDel({<<e.host, n>>})
      PROVE  InstOK'
  <2>1. {Key(m) : m \in {<<e.host, n>>}} = {k}
    BY <1>3
  <2>2. \A m \in {<<e.host, n>>} : interfaces[m[2]].Ifindex # NoIdx /\ Key(m) \in mirroredNeighs
    BY <1>3, <1>9
  <2>3. KeysOK'
    BY <2>1, <2>2, <1>1, <1>3, <1>9, DelKeys DEF InstOK
  <2>4. CurrentLinks'
    BY <1>1, <1>9, QuietCurrent DEF InstOK
  <2> QED
    BY <2>3, <2>4, <1>6 DEF InstOK
<1> QED
  BY <1>7, <1>8, <1>9, NeighEventCases DEF e, k

LEMMA ReconcileInst ==
  ASSUME Inv, Inv', InstOK, MastersOK, StableUpstream, Reconcile
  PROVE  InstOK'
<1>1. PICK on \in SUBSET Devs : MirrorAdd(Mirrored, on)
  BY ReconcileEffect
<1>2. UNCHANGED <<dev, neighCh, registered, interfaces, mirroredNeighs, phase>>
  BY ReconcileEffect
<1>3. Mirrored \in SUBSET (Hosts \X registered)
  BY DEF Mirrored
<1>4. KeysOK'
  BY <1>1, <1>2, <1>3, AddKeys DEF InstOK
<1>5. CurrentLinks'
  BY <1>2, QuietCurrent DEF InstOK
<1>6. EventsOK'
  BY <1>2, EventsFrame DEF InstOK, Events
<1> QED
  BY <1>4, <1>5, <1>6 DEF InstOK

LEMMA SweepInst ==
  ASSUME Inv, InstOK, Sweep
  PROVE  InstOK'
<1>1. /\ phase = "idle" /\ Reaped \in SUBSET (Hosts \X registered)
      /\ mirroredNeighs' = mirroredNeighs \ {Key(m) : m \in Reaped}
      /\ MirrorDel(Reaped) /\ UNCHANGED <<dev, neighCh, registered, interfaces, phase>>
  BY SweepEffect
<1>2. \A m \in Reaped : /\ m[2] \in Swept
                        /\ Key(m) \in mirroredNeighs \/ route[m[1]] = interfaces[m[2]].Ifindex
  BY DEF Reaped, Failed, Orphaned
<1>3. KeysOK'
  BY <1>1, <1>2, DelKeys DEF InstOK, Swept
<1>4. CurrentLinks'
  BY <1>1, QuietCurrent DEF InstOK
<1>5. EventsOK'
  BY <1>1, EventsFrame DEF InstOK, Events
<1> QED
  BY <1>3, <1>4, <1>5 DEF InstOK

LEMMA OtherInst ==
  ASSUME Inv, InstOK,
         \/ SubscriptionEnds \/ (\E ix \in Idx : HandleRouteEvent(ix))
         \/ (\E h \in Hosts, n \in Names : HandleSolicit(h, n)) \/ (\E f \in Files : EditConfig(f))
         \/ UNCHANGED vars
  PROVE  InstOK'
<1>1. UNCHANGED <<dev, neighCh, registered, interfaces, mirroredNeighs, phase, route, proxy>>
  BY DEF SubscriptionEnds, HandleRouteEvent, HandleSolicit, EditConfig, vars, linkVars, tableVars,
         daemonVars
<1>2. Events(neighCh)' = Events(neighCh)
  BY <1>1 DEF Events
<1> QED
  BY <1>1, <1>2, QuietInst

LEMMA RestartInst ==
  ASSUME NEW h \in Hosts, NEW n \in Names, NEW pinging \in BOOLEAN, Restart(h, n, pinging)
  PROVE  InstOK'
<1>1. mirroredNeighs' = {} /\ Events(neighCh)' = {}
  BY DEF Restart, Events
<1> QED
  BY <1>1 DEF InstOK, CurrentLinks, EventsOK, KeysOK

LEMMA StepInst ==
  ASSUME OneNamePerDev, StableUpstream, Bouncing = {}, Inv, Inv', MastersOK, InstOK,
         [FaultyNext]_vars
  PROVE  InstOK'
<1>1. ASSUME NEW d \in Devs, LinkGoesDown(d) PROVE FALSE
  BY <1>1 DEF LinkGoesDown
<1>2. CASE Kernel
  BY <1>1, <1>2, LinkComesUpInst, LinkDeletedInst, LinkCreatedInst, NeighInst DEF Kernel
<1>3. CASE Reloading
  BY <1>3, ReloadStartInst, ParseInst, ApplyInst, ReloadModesInst DEF Reloading
<1>4. CASE Handlers
  BY <1>4, HandleLinkEventInst, HandleNeighEventInst, ReconcileInst, SweepInst, OtherInst
     DEF Handlers
<1> QED
  BY <1>2, <1>3, <1>4, OtherInst, RestartInst DEF FaultyNext, Next

\* Wherever no link is set down and the masters stay as they are, a host that is
\* resolved on an open interface has its route and all its proxy entries as soon as
\* nothing is left to handle: whatever became of the slaves' links and the file,
\* and also after restarts and when the monitor has ended.
THEOREM InstalledInTheEnd ==
  ASSUME OneNamePerDev, StableUpstream, RoutesLearned, Bouncing = {}
  PROVE  FaultySpec => []InstalledWhenSettled
<1>1. Init => InstOK
  <2>1. Init => mirroredNeighs = {} /\ Events(neighCh) = {}
    BY DEF Init, Events
  <2> QED
    BY <2>1 DEF InstOK, CurrentLinks, EventsOK, KeysOK
<1>2. Inv /\ Inv' /\ MastersOK /\ InstOK /\ [FaultyNext]_vars => InstOK'
  BY StepInst
<1>3. Inv /\ MastersOK /\ [FaultyNext]_vars => MastersOK'
  BY StepMasters
<1>4. Inv /\ MastersOK /\ InstOK /\ LearnedThroughLifecycle => InstalledWhenSettled
  <2> SUFFICES ASSUME Inv, MastersOK, KeysOK, LearnedThroughLifecycle, Settled, NEW h \in Hosts,
                      NEW n \in registered, interfaces[n].ndp # NoIdx,
                      interfaces[n].ndp = OnLink(h), neigh[h] = "resolved"
               PROVE  Installed(h, n)
    BY DEF InstalledWhenSettled, InstOK
  <2>1. phase = "idle" /\ neighCh = << >>
    BY DEF Settled
  <2>2. <<h, OnLink(h)>> \in mirroredNeighs
    BY <2>1 DEF LearnedThroughLifecycle
  <2>3. interfaces[n].Ifindex = OnLink(h)
    BY <2>1 DEF Inv, DaemonOK, ReadyOK, Ready, SocketOK
  <2>4. route[h] = interfaces[n].Ifindex
    BY <2>2, <2>3 DEF KeysOK
  <2>5. ASSUME NEW c \in Targets(n) PROVE <<h, interfaces[c].Ifindex>> \in proxy
    <3>1. c \in registered /\ interfaces[c].Ifindex # OnLink(h) /\ interfaces[c].Master
      BY <2>3 DEF Targets
    <3>2. c \in Masters /\ interfaces[c].Ifindex = dev[Upstream(c)].ix
      BY <3>1 DEF MastersOK, RolesOK, Inv, TypeOK
    <3>3. Upstream(c) # Behind[h]
      BY <3>1, <3>2 DEF OnLink
    <3> QED
      BY <3>2, <3>3, <2>2 DEF KeysOK
  <2> QED
    BY <2>4, <2>5 DEF Installed
<1> QED
  BY <1>1, <1>2, <1>3, <1>4, InitMasters, InitInv, StepInv, HostsAreLearned, PTL DEF FaultySpec

=============================================================================
