---------------------------- MODULE MirrorProofs ----------------------------
(***************************************************************************)
(* Proofs about module Mirror, for every set of links, hosts, addresses    *)
(* and configurations.                                                     *)
(***************************************************************************)
EXTENDS Mirror, SequenceTheorems, TLAPS

-----------------------------------------------------------------------------
(* Event queues.                                                           *)

Last(s) == s[Len(s)]

\* Appending: the new event is the last one.
LEMMA AppendLast ==
  ASSUME NEW S, NEW s \in Seq(S), NEW x \in S
  PROVE  /\ Append(s, x) \in Seq(S)
         /\ Append(s, x) # << >>
         /\ Last(Append(s, x)) = x
  BY DEF Last

\* Taking the head: the last event stays last, or was the only one.
LEMMA TailLast ==
  ASSUME NEW S, NEW s \in Seq(S), s # << >>
  PROVE  /\ Head(s) \in S
         /\ Tail(s) \in Seq(S)
         /\ Tail(s) # << >> => Last(Tail(s)) = Last(s)
         /\ Tail(s) = << >> => Head(s) = Last(s)
<1>1. /\ Head(s) \in S
      /\ Tail(s) \in Seq(S)
      /\ Len(Tail(s)) = Len(s) - 1
      /\ \A i \in 1..Len(Tail(s)) : Tail(s)[i] = s[i + 1]
  BY HeadTailProperties
<1>2. Len(s) \in Nat /\ Len(s) # 0 /\ Head(s) = s[1]
  BY LenProperties, EmptySeq
<1>3. Tail(s) # << >> => Len(Tail(s)) # 0
  BY <1>1, EmptySeq
<1>4. Tail(s) = << >> => Len(Tail(s)) = 0
  BY <1>1, EmptySeq
<1> QED
  BY <1>1, <1>2, <1>3, <1>4 DEF Last

\* Deleting an entry announces neighbour messages only.
LEMMA DelMsgsType ==
  ASSUME NEW state \in Nud
  PROVE  DelMsgs(state) \in Seq(NeighMsg)
<1>1. CASE state = "none"
  BY <1>1 DEF DelMsgs
<1>2. CASE state = "failed"
  BY <1>2 DEF DelMsgs, NeighMsg
<1>3. CASE state # "none" /\ state # "failed"
  BY <1>3 DEF DelMsgs, NeighMsg
<1> QED
  BY <1>1, <1>2, <1>3

LEMMA ConcatDelMsgs ==
  ASSUME NEW s \in Seq(NeighMsg), NEW state \in Nud
  PROVE  s \o DelMsgs(state) \in Seq(NeighMsg)
  BY DelMsgsType, ConcatProperties

-----------------------------------------------------------------------------
(* Types.                                                                  *)

\* The helpers of ndpMirrorAddr stay within keys and links.
LEMMA MirrorTypes ==
  ASSUME TypeOK, NEW M \in SUBSET (Addrs \X Names)
  PROVE  /\ ProxiesOf(M) \subseteq Keys
         /\ SysctlsOf(M) \subseteq Idx
         /\ \A a \in Addrs : RouteLinks(M, a) \subseteq Idx
         /\ RoutesAfterAdd(M) \subseteq [Addrs -> Idx \cup {NoIdx}]
<1>1. DOMAIN interfaces = Names /\ \A n \in Names : interfaces[n].Ifindex \in Idx
  BY DEF TypeOK, Interface
<1>2. \A n : MirrorTargets(n) \subseteq Names
  BY <1>1 DEF MirrorTargets
<1>3. ProxiesOf(M) \subseteq Keys
  BY <1>1, <1>2 DEF ProxiesOf, Keys
<1>4. SysctlsOf(M) \subseteq Idx
  BY <1>1, <1>2 DEF SysctlsOf
<1>5. \A a \in Addrs : RouteLinks(M, a) \subseteq Idx
  BY <1>1 DEF RouteLinks
<1> QED
  BY <1>3, <1>4, <1>5 DEF RoutesAfterAdd

LEMMA MirrorAddType ==
  ASSUME TypeOK, NEW M \in SUBSET (Addrs \X Names), MirrorAdd(M)
  PROVE  /\ proxyNdp' \subseteq Idx
         /\ proxy' \subseteq Keys
         /\ route' \in [Addrs -> Idx \cup {NoIdx}]
  BY MirrorTypes DEF MirrorAdd, TypeOK, KernelTypeOK

LEMMA MirrorDelType ==
  ASSUME TypeOK, NEW M \in SUBSET (Addrs \X Names), MirrorDel(M)
  PROVE  /\ proxy' \subseteq Keys
         /\ route' \in [Addrs -> Idx \cup {NoIdx}]
         /\ routeCh' \subseteq Idx
  BY MirrorTypes DEF MirrorDel, TypeOK, KernelTypeOK

LEMMA IfaceTypes ==
  ASSUME TypeOK
  PROVE  /\ DOMAIN interfaces = Names
         /\ \A ix : RelayIface(ix) \subseteq Names /\ IfaceByIndex(ix) \subseteq Names
         /\ Scanned \subseteq Keys /\ Orphaned \subseteq Keys /\ Live \subseteq Keys
  BY DEF TypeOK, RelayIface, IfaceByIndex, Scanned, Orphaned, Live

\* Replacing the address list and the cached source keeps an interface one.
LEMMA IfaceUpdate ==
  ASSUME NEW i \in Interface, NEW A \in [Addrs -> AddrState], NEW c \in LinkLocal \cup {NoAddr}
  PROVE  /\ [i EXCEPT !.Addr6 = A, !.cachedLL = c] \in Interface
         /\ [i EXCEPT !.cachedLL = c] \in Interface
  BY DEF Interface

LEMMA KernelStepType ==
  ASSUME TypeOK, KernelNext, UNCHANGED mirrorVars
  PROVE  TypeOK'
<1> USE DEF TypeOK, KernelTypeOK
<1>0. /\ mirroredNeighs' = mirroredNeighs /\ interfaces' = interfaces
      /\ reconcileScheduled' = reconcileScheduled /\ pendingReconciles' = pendingReconciles
  BY DEF mirrorVars
<1>1. ASSUME NEW h \in Hosts, NEW ix \in Idx \cup {NoIdx}, HostMoves(h, ix)
      PROVE  TypeOK'
  BY <1>0, <1>1 DEF HostMoves, NeighUnchanged
<1>2. ASSUME NEW k \in Keys, NEW state \in Nud, NEW msg \in NeighMsg, NeighBecomes(k, state, msg)
      PROVE  TypeOK'
  <2>1. Append(neighCh[k], msg) \in Seq(NeighMsg)
    BY AppendLast
  <2> QED
    BY <1>0, <1>2, <2>1 DEF NeighBecomes, NeighUnchanged
<1>3. ASSUME NEW k \in Hosts \X Idx,
             \/ NeighLookup(k) \/ NeighAnswers(k) \/ NeighAges(k)
             \/ NeighProbed(k) \/ NeighFails(k) \/ NeighGC(k)
      PROVE  TypeOK'
  <2>1. k \in Keys
    BY DEF Keys, Addrs
  <2>2. CASE NeighLookup(k)
    BY <1>0, <2>1, <2>2 DEF NeighLookup, NeighUnchanged, Nud
  <2>3. /\ {"reachable", "stale", "probe", "failed", "none"} \subseteq Nud
        /\ {"reachable", "stale", "probe", "failed", "gone"} \subseteq NeighMsg
    BY DEF Nud, NeighMsg, Resolved
  <2> QED
    BY <1>2, <1>3, <2>1, <2>2, <2>3 DEF NeighAnswers, NeighAges, NeighProbed, NeighFails, NeighGC
<1>4. ASSUME NEW k \in Own \X Idx, AddrAdded(k) \/ AddrReady(k) \/ AddrRemoved(k)
      PROVE  TypeOK'
  <2>1. k \in Keys
    BY DEF Keys, Addrs
  <2>2. PICK state \in AddrState, msg \in AddrMsg : AddrBecomes(k, state, msg)
    BY <1>4 DEF AddrAdded, AddrReady, AddrRemoved, AddrState, AddrMsg
  <2>3. Append(addrCh[k], msg) \in Seq(AddrMsg)
    BY <2>1, AppendLast
  <2> QED
    BY <1>0, <2>1, <2>2, <2>3 DEF AddrBecomes
<1>5. ASSUME NEW a \in Addrs, NEW reset \in SUBSET Idx, RouteFlushed(a, reset)
      PROVE  TypeOK'
  BY <1>0, <1>5 DEF RouteFlushed
<1> QED
  BY <1>1, <1>3, <1>4, <1>5 DEF KernelNext

LEMMA HandleNeighEventType ==
  ASSUME TypeOK, NEW k \in Keys, HandleNeighEvent(k)
  PROVE  TypeOK'
<1> USE DEF TypeOK, KernelTypeOK
<1>1. Tail(neighCh[k]) \in Seq(NeighMsg)
  BY TailLast DEF HandleNeighEvent
<1>2. CASE NeighIgnored(k)
  BY <1>1, <1>2 DEF HandleNeighEvent, NeighIgnored
<1>3. ASSUME NEW n \in RelayIface(k[2])
      PROVE  n \in Names /\ {<<k[1], n>>} \in SUBSET (Addrs \X Names)
  BY IfaceTypes DEF Keys
<1>4. ASSUME NEW n \in RelayIface(k[2]), NeighAppears(k, n)
      PROVE  TypeOK'
  <2>1. /\ proxyNdp' \subseteq Idx
        /\ proxy' \subseteq Keys
        /\ route' \in [Addrs -> Idx \cup {NoIdx}]
    BY <1>3, <1>4, MirrorAddType DEF NeighAppears
  <2> QED
    BY <1>1, <1>4, <2>1 DEF HandleNeighEvent, NeighAppears
<1>5. ASSUME NEW n \in RelayIface(k[2]), NeighGone(k, n)
      PROVE  TypeOK'
  <2>1. /\ proxy' \subseteq Keys
        /\ route' \in [Addrs -> Idx \cup {NoIdx}]
        /\ routeCh' \subseteq Idx
    BY <1>3, <1>5, MirrorDelType DEF NeighGone
  <2>2. Tail(neighCh[k]) \o DelMsgs(neigh[k]) \in Seq(NeighMsg)
    BY <1>1, ConcatDelMsgs
  <2>3. neigh' \in [Keys -> Nud]
    BY <1>5 DEF NeighGone, DeleteFailedNeigh, Nud
  <2> QED
    BY <1>5, <2>1, <2>2, <2>3 DEF HandleNeighEvent, NeighGone
<1> QED
  BY <1>2, <1>4, <1>5 DEF HandleNeighEvent

LEMMA HandleAddrEventType ==
  ASSUME TypeOK, NEW k \in Keys, HandleAddrEvent(k)
  PROVE  TypeOK'
<1> USE DEF TypeOK, KernelTypeOK
<1>1. addrCh' \in [Keys -> Seq(AddrMsg)]
  <2>1. Tail(addrCh[k]) \in Seq(AddrMsg)
    BY TailLast DEF HandleAddrEvent
  <2> QED
    BY <2>1 DEF HandleAddrEvent
<1>2. CASE UNCHANGED <<interfaces, proxyNdp, proxy, route, routeCh>>
  BY <1>1, <1>2 DEF HandleAddrEvent
<1>3. ASSUME NEW n \in IfaceByIndex(k[2]), interfaces' = RefreshInterfaceAddresses(n)
      PROVE  interfaces' \in [Names -> Interface]
  <2>1. n \in Names
    BY IfaceTypes
  <2>2. FetchAddr6(n) \in [Addrs -> AddrState]
    BY <2>1 DEF FetchAddr6, Interface, Keys
  <2> QED
    BY <1>3, <2>1, <2>2, IfaceUpdate DEF RefreshInterfaceAddresses
<1>4. ASSUME NEW n \in IfaceByIndex(k[2])
      PROVE  {<<k[1], n>>} \in SUBSET (Addrs \X Names)
  BY IfaceTypes DEF Keys
<1>5. ASSUME NEW n \in IfaceByIndex(k[2]), MirrorAdd({<<k[1], n>>}), UNCHANGED routeCh
      PROVE  /\ proxyNdp' \subseteq Idx /\ proxy' \subseteq Keys /\ routeCh' \subseteq Idx
             /\ route' \in [Addrs -> Idx \cup {NoIdx}]
  BY <1>4, <1>5, MirrorAddType
<1>6. ASSUME NEW n \in IfaceByIndex(k[2]), MirrorDel({<<k[1], n>>}), UNCHANGED proxyNdp
      PROVE  /\ proxyNdp' \subseteq Idx /\ proxy' \subseteq Keys /\ routeCh' \subseteq Idx
             /\ route' \in [Addrs -> Idx \cup {NoIdx}]
  BY <1>4, <1>6, MirrorDelType
<1> QED
  BY <1>1, <1>2, <1>3, <1>5, <1>6 DEF HandleAddrEvent

LEMMA HandleRouteEventType ==
  ASSUME TypeOK, NEW ix \in Idx, NEW last \in BOOLEAN, HandleRouteEvent(ix, last)
  PROVE  TypeOK'
<1> USE DEF TypeOK, KernelTypeOK
<1>1. reconcileScheduled' \in BOOLEAN
  BY Zenon DEF HandleRouteEvent, ScheduleReconcile
<1>2. pendingReconciles' \in Nat
  BY DEF HandleRouteEvent, ScheduleReconcile
<1>3. routeCh' \subseteq Idx
  BY DEF HandleRouteEvent
<1> QED
  BY <1>1, <1>2, <1>3 DEF HandleRouteEvent

LEMMA ReconcileMirrors ==
  ASSUME TypeOK
  PROVE  OwnMirrors \cup HostMirrors \in SUBSET (Addrs \X Names)
  BY IfaceTypes DEF OwnMirrors, HostMirrors

LEMMA ReconcileType ==
  ASSUME TypeOK, Reconcile
  PROVE  TypeOK'
<1> USE DEF TypeOK, KernelTypeOK
<1> DEFINE M == OwnMirrors \cup HostMirrors
<1>1. /\ ProxiesOf(M) \subseteq Keys
      /\ SysctlsOf(M) \subseteq Idx
      /\ RoutesAfterAdd(M) \subseteq [Addrs -> Idx \cup {NoIdx}]
  BY ReconcileMirrors, MirrorTypes
<1>2. {interfaces[n].Ifindex : n \in {m \in DOMAIN interfaces :
           interfaces[m].NDP = "relay" /\ interfaces[m].ndp}} \subseteq Idx
  BY DEF Interface
<1>3. /\ proxyNdp' \subseteq Idx /\ proxy' \subseteq Keys
      /\ route' \in [Addrs -> Idx \cup {NoIdx}]
  BY <1>1, <1>2 DEF Reconcile
<1>4. reconcileScheduled' \in BOOLEAN
  BY Zenon DEF Reconcile
<1>5. pendingReconciles' \in Nat
  BY DEF Reconcile
<1> QED
  BY <1>3, <1>4, <1>5 DEF Reconcile

LEMMA SweepType ==
  ASSUME TypeOK, Sweep
  PROVE  TypeOK'
<1> USE DEF TypeOK, KernelTypeOK
<1> DEFINE failed == {k \in Scanned : neigh[k] = "failed"}
           reaped == (failed \cap mirroredNeighs) \cup Orphaned
           M == {m \in Addrs \X DOMAIN interfaces :
                    <<m[1], interfaces[m[2]].Ifindex>> \in reaped}
<1>1. M \in SUBSET (Addrs \X Names) /\ MirrorDel(M)
  BY DEF Sweep
<1>2. /\ proxy' \subseteq Keys
      /\ route' \in [Addrs -> Idx \cup {NoIdx}]
      /\ routeCh' \subseteq Idx
  <2> HIDE DEF M
  <2> QED
    BY <1>1, MirrorDelType
<1>3. neigh' \in [Keys -> Nud]
  BY DEF Sweep, DeleteFailedNeigh, Nud, Resolved
<1>4. neighCh' \in [Keys -> Seq(NeighMsg)]
  <2>1. \A k \in Keys : neighCh[k] \o DelMsgs(neigh[k]) \in Seq(NeighMsg)
    BY ConcatDelMsgs
  <2>2. \A k \in Keys : Append(neighCh[k], "probe") \in Seq(NeighMsg)
    BY AppendLast DEF NeighMsg, Resolved
  <2> QED
    BY <2>1, <2>2 DEF Sweep
<1>5. mirroredNeighs' \subseteq Keys
  BY DEF Sweep
<1> QED
  BY <1>2, <1>3, <1>4, <1>5 DEF Sweep

\* getLinkLocalAddr caches a usable link-local address, or nothing.
LEMMA LinkLocalAddr ==
  ASSUME TypeOK, NEW c \in Names, NEW ll \in GetLinkLocalAddr(interfaces[c])
  PROVE  /\ ll \in LinkLocal \cup {NoAddr}
         /\ ll = interfaces[c].cachedLL \/ ll = NoAddr \/ interfaces[c].Addr6[ll] = "valid"
  BY DEF GetLinkLocalAddr, TypeOK, Interface

LEMMA HandleSolicitType ==
  ASSUME TypeOK, NEW n \in DOMAIN interfaces, NEW t \in Addrs, NEW ownMAC \in BOOLEAN,
         HandleSolicit(n, t, ownMAC)
  PROVE  TypeOK'
<1> USE DEF TypeOK, KernelTypeOK
<1>1. neigh' \in [Keys -> Nud]
  BY DEF HandleSolicit, Nud
<1>2. interfaces' \in [Names -> Interface]
  <2> DEFINE pinged == {c \in DOMAIN interfaces \ {n} : interfaces[c].NDP = "relay" /\ interfaces[c].ndp}
  <2>1. PICK ll \in [pinged -> Addrs \cup {NoAddr}] :
          /\ \A c \in pinged : ll[c] \in IF interfaces[c].NdpFromLinkLocal
                                         THEN GetLinkLocalAddr(interfaces[c])
                                         ELSE {interfaces[c].cachedLL}
          /\ interfaces' = [c \in DOMAIN interfaces |->
                 IF c \in pinged THEN [interfaces[c] EXCEPT !.cachedLL = ll[c]] ELSE interfaces[c]]
    BY DEF HandleSolicit
  <2>2. \A c \in pinged : c \in Names /\ ll[c] \in LinkLocal \cup {NoAddr}
    BY <2>1, LinkLocalAddr DEF Interface
  <2>3. \A c \in pinged : [interfaces[c] EXCEPT !.cachedLL = ll[c]] \in Interface
    <3>1. \A c \in pinged : interfaces[c].Addr6 \in [Addrs -> AddrState] /\ interfaces[c] \in Interface
      BY DEF Interface
    <3> QED
      BY <2>2, <3>1, IfaceUpdate
  <2> QED
    BY <2>1, <2>3
<1> QED
  BY <1>1, <1>2 DEF HandleSolicit

LEMMA InitType == Init => TypeOK
<1> SUFFICES ASSUME Init PROVE TypeOK
  OBVIOUS
<1>1. PICK cfg \in Configs :
        LET ndpMode(n) == IF cfg[n].Master /\ \A m \in Names : cfg[m].Master
                          THEN "disabled" ELSE "relay"
        IN interfaces = [n \in Names |->
             [Ifindex |-> IdxOf[n], Master |-> cfg[n].Master, LearnRoutes |-> cfg[n].LearnRoutes,
              NdpFromLinkLocal |-> cfg[n].NdpFromLinkLocal,
              NDP |-> ndpMode(n), ndp |-> ndpMode(n) = "relay",
              Addr6 |-> [a \in Addrs |-> addrs[<<a, IdxOf[n]>>]], cachedLL |-> NoAddr]]
  BY DEF Init
<1>2. interfaces \in [Names -> Interface]
  <2>1. \A n \in Names : [a \in Addrs |-> addrs[<<a, IdxOf[n]>>]] \in [Addrs -> AddrState]
    BY MirrorAssumption DEF Init, KernelInit, Keys, AddrState
  <2>2. \A n \in Names : /\ IdxOf[n] \in Idx
                         /\ cfg[n].Master \in BOOLEAN
                         /\ cfg[n].LearnRoutes \in BOOLEAN
                         /\ cfg[n].NdpFromLinkLocal \in BOOLEAN
    BY MirrorAssumption
  <2> QED
    BY <1>1, <2>1, <2>2 DEF Interface, Mode
<1>3. KernelTypeOK
  <2>1. proxyNdp \subseteq Idx
    BY MirrorAssumption DEF Init
  <2>2. << >> \in Seq(NeighMsg) /\ << >> \in Seq(AddrMsg)
    BY EmptySeq
  <2>3. neighCh \in [Keys -> Seq(NeighMsg)] /\ addrCh \in [Keys -> Seq(AddrMsg)]
    BY <2>2, Zenon DEF Init, KernelInit
  <2>4. neigh \in [Keys -> Nud] /\ addrs \in [Keys -> AddrState]
    BY DEF Init, KernelInit, Nud, AddrState
  <2>5. home \in [Hosts -> Idx \cup {NoIdx}] /\ route \in [Addrs -> Idx \cup {NoIdx}]
    BY DEF Init, KernelInit
  <2> QED
    BY <2>1, <2>3, <2>4, <2>5 DEF Init, KernelInit, KernelTypeOK
<1> QED
  BY <1>2, <1>3 DEF TypeOK, Init

LEMMA EngineStepType ==
  ASSUME TypeOK, Engine
  PROVE  TypeOK'
  BY HandleNeighEventType, HandleAddrEventType, HandleRouteEventType, ReconcileType, SweepType,
     HandleSolicitType DEF Engine

LEMMA StutterType ==
  ASSUME TypeOK, UNCHANGED vars
  PROVE  TypeOK'
  BY DEF TypeOK, KernelTypeOK, vars, kernelVars, mirrorVars

\* Type correctness of the mirror and of the kernel state it manages.
THEOREM TypeCorrect == Spec => []TypeOK
<1>1. TypeOK /\ [Next]_vars => TypeOK'
  BY KernelStepType, EngineStepType, StutterType DEF Next
<1> QED
  BY InitType, <1>1, PTL DEF Spec

-----------------------------------------------------------------------------
(* scheduleReconcile.                                                      *)

\* The debounce flag and the outstanding reconcile agree in every state.
THEOREM ReconcileIsSingle == Spec => []OneReconcile
<1>1. Init => OneReconcile
  BY DEF Init, OneReconcile
<1>2. TypeOK /\ OneReconcile /\ [Next]_vars => OneReconcile'
  <2> SUFFICES ASSUME TypeOK, OneReconcile, [Next]_vars PROVE OneReconcile'
    OBVIOUS
  <2>1. CASE UNCHANGED <<reconcileScheduled, pendingReconciles>>
    BY <2>1 DEF OneReconcile
  <2>2. ASSUME NEW ix \in Idx, NEW last \in BOOLEAN, HandleRouteEvent(ix, last)
        PROVE  OneReconcile'
    <3>1. CASE RelayIface(ix) # {} /\ ~reconcileScheduled
      BY <2>2, <3>1 DEF HandleRouteEvent, ScheduleReconcile, OneReconcile
    <3> QED
      BY <2>1, <2>2, <3>1 DEF HandleRouteEvent, ScheduleReconcile
  <2>3. CASE Reconcile
    BY <2>3 DEF Reconcile, OneReconcile, TypeOK
  <2> QED
    BY <2>1, <2>2, <2>3 DEF Next, Engine, HandleNeighEvent, HandleAddrEvent, Sweep, HandleSolicit,
                            vars, mirrorVars
<1> QED
  BY <1>1, <1>2, TypeCorrect, PTL DEF Spec

-----------------------------------------------------------------------------
(* The configuration does not change, and an index belongs to at most one  *)
(* interface.                                                              *)

Static == \A n \in Names : interfaces[n].Ifindex = IdxOf[n]

SameConfig ==
  /\ DOMAIN interfaces = Names /\ DOMAIN interfaces' = Names
  /\ \A n \in Names : /\ interfaces'[n].Ifindex = interfaces[n].Ifindex
                      /\ interfaces'[n].Master = interfaces[n].Master
                      /\ interfaces'[n].LearnRoutes = interfaces[n].LearnRoutes
                      /\ interfaces'[n].NDP = interfaces[n].NDP
                      /\ interfaces'[n].ndp = interfaces[n].ndp

\* What handleSolicit does to the interfaces: it may fill link-local caches.
LEMMA SolicitIfaces ==
  ASSUME TypeOK, NEW n \in DOMAIN interfaces, NEW t \in Addrs, NEW ownMAC \in BOOLEAN,
         HandleSolicit(n, t, ownMAC)
  PROVE  /\ DOMAIN interfaces' = Names
         /\ \A c \in Names :
              \E ll \in LinkLocal \cup {NoAddr} :
                /\ interfaces'[c] = [interfaces[c] EXCEPT !.cachedLL = ll]
                /\ ll = interfaces[c].cachedLL \/ ll = NoAddr \/ interfaces[c].Addr6[ll] = "valid"
<1> DEFINE pinged == {c \in DOMAIN interfaces \ {n} : interfaces[c].NDP = "relay" /\ interfaces[c].ndp}
<1>1. PICK ll \in [pinged -> Addrs \cup {NoAddr}] :
        /\ \A c \in pinged : ll[c] \in IF interfaces[c].NdpFromLinkLocal
                                       THEN GetLinkLocalAddr(interfaces[c])
                                       ELSE {interfaces[c].cachedLL}
        /\ interfaces' = [c \in DOMAIN interfaces |->
               IF c \in pinged THEN [interfaces[c] EXCEPT !.cachedLL = ll[c]] ELSE interfaces[c]]
  BY DEF HandleSolicit
<1>2. DOMAIN interfaces = Names /\ \A c \in Names : interfaces[c] \in Interface
  BY DEF TypeOK
<1>3. ASSUME NEW c \in Names
      PROVE  \E x \in LinkLocal \cup {NoAddr} :
                /\ interfaces'[c] = [interfaces[c] EXCEPT !.cachedLL = x]
                /\ x = interfaces[c].cachedLL \/ x = NoAddr \/ interfaces[c].Addr6[x] = "valid"
  <2>1. CASE c \in pinged /\ interfaces[c].NdpFromLinkLocal
    <3>1. ll[c] \in GetLinkLocalAddr(interfaces[c])
      BY <1>1, <2>1
    <3> QED
      BY <1>1, <1>2, <2>1, <3>1, LinkLocalAddr
  <2>2. CASE c \in pinged /\ ~interfaces[c].NdpFromLinkLocal
    BY <1>1, <1>2, <2>2 DEF Interface
  <2>3. CASE c \notin pinged
    <3>1. interfaces'[c] = interfaces[c]
      BY <1>1, <1>2, <2>3
    <3>2. interfaces[c] = [interfaces[c] EXCEPT !.cachedLL = interfaces[c].cachedLL]
          /\ interfaces[c].cachedLL \in LinkLocal \cup {NoAddr}
      BY <1>2 DEF Interface
    <3> QED
      BY <3>1, <3>2
  <2> QED
    BY <2>1, <2>2, <2>3
<1> QED
  BY <1>1, <1>2, <1>3

LEMMA ConfigFixed ==
  ASSUME TypeOK, [Next]_vars
  PROVE  SameConfig
<1>1. DOMAIN interfaces = Names /\ \A c \in Names : interfaces[c] \in Interface
  BY DEF TypeOK
<1>2. CASE UNCHANGED interfaces
  BY <1>1, <1>2 DEF SameConfig
<1>3. ASSUME NEW n \in Names, interfaces' = RefreshInterfaceAddresses(n)
      PROVE  SameConfig
  BY <1>1, <1>3 DEF SameConfig, RefreshInterfaceAddresses, Interface
<1>4. ASSUME NEW k \in Keys, HandleAddrEvent(k)
      PROVE  SameConfig
  BY <1>2, <1>3, <1>4, IfaceTypes DEF HandleAddrEvent
<1>5. ASSUME NEW n \in DOMAIN interfaces, NEW t \in Addrs, NEW ownMAC \in BOOLEAN,
             HandleSolicit(n, t, ownMAC)
      PROVE  SameConfig
  <2>1. DOMAIN interfaces' = Names
    BY <1>5, SolicitIfaces
  <2>2. \A c \in Names : \E ll \in LinkLocal \cup {NoAddr} :
                interfaces'[c] = [interfaces[c] EXCEPT !.cachedLL = ll]
    BY <1>5, SolicitIfaces
  <2> QED
    BY <1>1, <2>1, <2>2 DEF SameConfig, Interface
<1> QED
  BY <1>2, <1>4, <1>5 DEF Next, Engine, HandleNeighEvent, HandleRouteEvent, Reconcile, Sweep,
                          vars, mirrorVars

\* Hence everything computed from the configuration is a constant of the step.
LEMMA ConfigDerived ==
  ASSUME SameConfig
  PROVE  /\ \A ix : IfaceByIndex(ix)' = IfaceByIndex(ix) /\ RelayIface(ix)' = RelayIface(ix)
         /\ \A n \in Names : MirrorTargets(n)' = MirrorTargets(n)
         /\ Scanned' = Scanned
<1>1. ASSUME NEW ix PROVE IfaceByIndex(ix)' = IfaceByIndex(ix)
  BY DEF SameConfig, IfaceByIndex
<1>2. ASSUME NEW ix PROVE RelayIface(ix)' = RelayIface(ix)
  BY <1>1 DEF SameConfig, RelayIface, IfaceByIndex
<1>3. ASSUME NEW n \in Names PROVE MirrorTargets(n)' = MirrorTargets(n)
  BY DEF SameConfig, MirrorTargets
<1>4. Scanned' = Scanned
  BY <1>2 DEF Scanned
<1> QED
  BY <1>1, <1>2, <1>3, <1>4

LEMMA StaticInvariant == Spec => []Static
<1>1. Init => Static
  BY DEF Init, Static
<1>2. TypeOK /\ Static /\ [Next]_vars => Static'
  BY ConfigFixed DEF Static, SameConfig
<1> QED
  BY <1>1, <1>2, TypeCorrect, PTL DEF Spec

-----------------------------------------------------------------------------
(* Own addresses.  The view of the daemon is fresh up to queued events; in *)
(* addition the last queued event of an address agrees with the kernel.    *)

AddrLast ==
  \A k \in Keys : addrCh[k] # << >> => (Last(addrCh[k]) = "del" <=> addrs[k] = "absent")

\* The address part of a kernel step: nothing, or one address changes and its
\* event is appended.
LEMMA KernelAddrStep ==
  ASSUME TypeOK, KernelNext
  PROVE  \/ UNCHANGED <<addrs, addrCh>>
         \/ \E k \in Keys, state \in AddrState, msg \in AddrMsg :
              /\ addrs' = [addrs EXCEPT ![k] = state]
              /\ addrCh' = [addrCh EXCEPT ![k] = Append(@, msg)]
              /\ msg = "del" <=> state = "absent"
<1>1. ASSUME NEW k \in Own \X Idx, AddrAdded(k) \/ AddrReady(k) \/ AddrRemoved(k)
      PROVE  \E kk \in Keys, state \in AddrState, msg \in AddrMsg :
              /\ addrs' = [addrs EXCEPT ![kk] = state]
              /\ addrCh' = [addrCh EXCEPT ![kk] = Append(@, msg)]
              /\ msg = "del" <=> state = "absent"
  BY <1>1 DEF AddrAdded, AddrReady, AddrRemoved, AddrBecomes, AddrState, AddrMsg, Keys, Addrs
<1> QED
  BY <1>1 DEF KernelNext, HostMoves, NeighLookup, NeighAnswers, NeighAges, NeighProbed, NeighFails,
              NeighGC, NeighBecomes, NeighUnchanged, RouteFlushed

LEMMA AddrStep ==
  ASSUME TypeOK, TypeOK', Static, SameConfig, AddrViewFresh, AddrLast, [Next]_vars
  PROVE  AddrViewFresh' /\ AddrLast'
<1> DEFINE key(n, a) == <<a, IdxOf[n]>>
           Fresh(n) == /\ \A a \in Addrs : interfaces[n].Addr6[a] # addrs[key(n, a)]
                                             => addrCh[key(n, a)] # << >>
                       /\ interfaces[n].cachedLL # NoAddr =>
                            interfaces[n].Addr6[interfaces[n].cachedLL] = "valid"
<1>0. \A n \in Names, a \in Addrs : key(n, a) \in Keys
  BY MirrorAssumption DEF Keys
<1>1. /\ DOMAIN interfaces = Names /\ DOMAIN interfaces' = Names
      /\ \A n \in Names : interfaces[n].Ifindex = IdxOf[n] /\ interfaces'[n].Ifindex = IdxOf[n]
  BY DEF Static, SameConfig
<1>2. \A n \in Names : Fresh(n)
  BY <1>1 DEF AddrViewFresh
<1>3. SUFFICES AddrLast' /\ \A n \in Names : Fresh(n)'
  BY <1>1 DEF AddrViewFresh
<1>4. CASE UNCHANGED <<addrs, addrCh, interfaces>>
  BY <1>2, <1>4 DEF AddrLast
<1>5. ASSUME NEW k \in Keys, NEW state \in AddrState, NEW msg \in AddrMsg,
             addrs' = [addrs EXCEPT ![k] = state],
             addrCh' = [addrCh EXCEPT ![k] = Append(@, msg)],
             msg = "del" <=> state = "absent", UNCHANGED interfaces
      PROVE  AddrLast' /\ \A n \in Names : Fresh(n)'
  <2>1. /\ addrCh'[k] = Append(addrCh[k], msg) /\ addrs'[k] = state
        /\ \A j \in Keys : j # k => addrCh'[j] = addrCh[j] /\ addrs'[j] = addrs[j]
    BY <1>5 DEF TypeOK, KernelTypeOK
  <2>2. addrCh'[k] # << >> /\ Last(addrCh'[k]) = msg
    <3>1. addrCh[k] \in Seq(AddrMsg)
      BY DEF TypeOK, KernelTypeOK
    <3>2. Append(addrCh[k], msg) # << >> /\ Last(Append(addrCh[k], msg)) = msg
      BY <3>1, AppendLast
    <3> QED
      BY <2>1, <3>2
  <2>3. AddrLast'
    BY <1>5, <2>1, <2>2 DEF AddrLast
  <2>4. \A n \in Names : Fresh(n)'
    BY <1>0, <1>2, <1>5, <2>1, <2>2
  <2> QED
    BY <2>3, <2>4
<1>6. ASSUME NEW k \in Keys, HandleAddrEvent(k)
      PROVE  AddrLast' /\ \A n \in Names : Fresh(n)'
  <2>1. /\ addrCh'[k] = Tail(addrCh[k]) /\ addrCh[k] # << >> /\ addrs' = addrs
        /\ \A j \in Keys : j # k => addrCh'[j] = addrCh[j]
    BY <1>6 DEF HandleAddrEvent, TypeOK, KernelTypeOK
  <2>2. addrCh'[k] # << >> => Last(addrCh'[k]) = Last(addrCh[k])
    BY <2>1, TailLast DEF TypeOK, KernelTypeOK
  <2>3. AddrLast'
    BY <2>1, <2>2 DEF AddrLast
  <2>4. ASSUME IfaceByIndex(k[2]) = {}, UNCHANGED interfaces, NEW n \in Names
        PROVE  Fresh(n)'
    <3>1. IdxOf[n] # k[2]
      BY <1>1, <2>4 DEF IfaceByIndex
    <3>2. \A a \in Addrs : key(n, a) # k
      BY <3>1
    <3> QED
      BY <1>0, <1>2, <2>1, <2>4, <3>2
  <2>5. ASSUME NEW m \in IfaceByIndex(k[2]), interfaces' = RefreshInterfaceAddresses(m),
               NEW n \in Names
        PROVE  Fresh(n)'
    <3>1. m \in Names /\ IdxOf[m] = k[2]
      BY <1>1, <2>5 DEF IfaceByIndex
    <3>2. CASE n = m
      <4>1. interfaces'[n].Addr6 = FetchAddr6(n) /\ interfaces'[n].cachedLL = NoAddr
        BY <2>5, <3>1, <3>2 DEF RefreshInterfaceAddresses, TypeOK, Interface
      <4>2. \A a \in Addrs : FetchAddr6(n)[a] = addrs[key(n, a)]
        BY <1>1 DEF FetchAddr6
      <4> QED
        BY <2>1, <4>1, <4>2
    <3>3. CASE n # m
      <4>1. IdxOf[n] # k[2]
        BY <3>1, <3>3, MirrorAssumption
      <4>2. \A a \in Addrs : key(n, a) # k
        BY <4>1
      <4>3. interfaces'[n] = interfaces[n]
        BY <2>5, <3>1, <3>3 DEF RefreshInterfaceAddresses, TypeOK
      <4> QED
        BY <1>0, <1>2, <2>1, <4>2, <4>3
    <3> QED
      BY <3>2, <3>3
  <2> QED
    BY <1>6, <2>3, <2>4, <2>5 DEF HandleAddrEvent
<1>7. ASSUME NEW n \in DOMAIN interfaces, NEW t \in Addrs, NEW ownMAC \in BOOLEAN,
             HandleSolicit(n, t, ownMAC)
      PROVE  AddrLast' /\ \A m \in Names : Fresh(m)'
  <2>1. UNCHANGED <<addrs, addrCh>>
    BY <1>7 DEF HandleSolicit
  <2>2. ASSUME NEW m \in Names PROVE Fresh(m)'
    <3>1. PICK ll \in LinkLocal \cup {NoAddr} :
            /\ interfaces'[m] = [interfaces[m] EXCEPT !.cachedLL = ll]
            /\ ll = interfaces[m].cachedLL \/ ll = NoAddr \/ interfaces[m].Addr6[ll] = "valid"
      BY <1>7, SolicitIfaces
    <3>2. interfaces'[m].Addr6 = interfaces[m].Addr6 /\ interfaces'[m].cachedLL = ll
      BY <3>1 DEF TypeOK, Interface
    <3> QED
      BY <1>2, <2>1, <3>1, <3>2
  <2> QED
    BY <2>1, <2>2 DEF AddrLast
<1>8. ASSUME KernelNext, UNCHANGED mirrorVars
      PROVE  AddrLast' /\ \A n \in Names : Fresh(n)'
  <2>1. UNCHANGED interfaces
    BY <1>8 DEF mirrorVars
  <2>2. CASE UNCHANGED <<addrs, addrCh>>
    BY <1>4, <2>1, <2>2
  <2>3. CASE \E k \in Keys, state \in AddrState, msg \in AddrMsg :
               /\ addrs' = [addrs EXCEPT ![k] = state]
               /\ addrCh' = [addrCh EXCEPT ![k] = Append(@, msg)]
               /\ msg = "del" <=> state = "absent"
    <3> HIDE DEF Fresh
    <3> QED
      BY <1>5, <2>1, <2>3
  <2> QED
    BY <1>8, <2>2, <2>3, KernelAddrStep
<1> HIDE DEF Fresh
<1> QED
  BY <1>4, <1>6, <1>7, <1>8
  DEF Next, Engine, HandleNeighEvent, HandleRouteEvent, Reconcile, Sweep, vars, kernelVars, mirrorVars

LEMMA AddrInvariant == Spec => [](AddrViewFresh /\ AddrLast)
<1>1. Init => AddrViewFresh /\ AddrLast
  BY DEF Init, KernelInit, AddrViewFresh, AddrLast
<1>2. /\ TypeOK /\ TypeOK' /\ Static /\ AddrViewFresh /\ AddrLast /\ [Next]_vars
      => AddrViewFresh' /\ AddrLast'
  BY AddrStep, ConfigFixed
<1> QED
  BY <1>1, <1>2, TypeCorrect, StaticInvariant, PTL DEF Spec

\* The daemon's address list and its cached link-local source are out of date
\* only while an address event of that link is queued.
THEOREM AddrViewIsFresh == Spec => []AddrViewFresh
  BY AddrInvariant, PTL

-----------------------------------------------------------------------------
(* Learning.  A resolved entry whose events are all handled is mirrored:   *)
(* inductive once the last queued event of a resolved entry is known to    *)
(* say so.                                                                 *)

NeighLast ==
  \A k \in Keys : neigh[k] \in Resolved /\ neighCh[k] # << >> => Last(neighCh[k]) \in Resolved

\* Both, for one key.
Learned(k) ==
  neigh[k] \in Resolved =>
    IF neighCh[k] = << >> THEN k \in Scanned => k \in mirroredNeighs
                          ELSE Last(neighCh[k]) \in Resolved

LEMMA LearnedSplit ==
  ASSUME TypeOK
  PROVE  (\A k \in Keys : Learned(k)) <=> (NeighLast /\ LearnedWhenDrained)
  BY IfaceTypes DEF Learned, NeighLast, LearnedWhenDrained

\* The neighbour part of a kernel step: nothing, a resolution starts, or one
\* entry changes state and its event is appended.
KernelNeighStep ==
  \/ UNCHANGED <<neigh, neighCh>>
  \/ \E k \in Keys : /\ neigh' = [neigh EXCEPT ![k] = "incomplete"]
                     /\ UNCHANGED neighCh
  \/ \E k \in Keys, state \in Nud, msg \in NeighMsg :
       /\ neigh' = [neigh EXCEPT ![k] = state]
       /\ neighCh' = [neighCh EXCEPT ![k] = Append(@, msg)]
       /\ state \in Resolved <=> msg \in Resolved
       /\ state \in Resolved => k[1] \in Hosts /\ (neigh[k] \in Resolved \/ home[k[1]] = k[2])

LEMMA KernelNeigh ==
  ASSUME TypeOK, KernelNext
  PROVE  KernelNeighStep
<1>1. ASSUME NEW k \in Hosts \X Idx, NeighLookup(k)
      PROVE  KernelNeighStep
  <2>1. k \in Keys
    BY DEF Keys, Addrs
  <2> QED
    BY <1>1, <2>1 DEF NeighLookup, KernelNeighStep
<1>2. ASSUME NEW k \in Hosts \X Idx,
             NeighAnswers(k) \/ NeighAges(k) \/ NeighProbed(k) \/ NeighFails(k) \/ NeighGC(k)
      PROVE  KernelNeighStep
  <2>1. k \in Keys /\ k[1] \in Hosts
    BY DEF Keys, Addrs
  <2>2. ASSUME NEW state \in Nud, NEW msg \in NeighMsg, NeighBecomes(k, state, msg),
               state \in Resolved <=> msg \in Resolved,
               state \in Resolved => neigh[k] \in Resolved \/ home[k[1]] = k[2]
        PROVE  KernelNeighStep
    BY <2>1, <2>2 DEF NeighBecomes, KernelNeighStep
  <2>3. CASE NeighAnswers(k)
    BY <2>2, <2>3 DEF NeighAnswers, Nud, NeighMsg, Resolved
  <2>4. CASE NeighAges(k)
    BY <2>2, <2>4 DEF NeighAges, Nud, NeighMsg, Resolved
  <2>5. CASE NeighProbed(k)
    BY <2>2, <2>5 DEF NeighProbed, Nud, NeighMsg, Resolved
  <2>6. CASE NeighFails(k)
    BY <2>2, <2>6 DEF NeighFails, Nud, NeighMsg, Resolved
  <2>7. CASE NeighGC(k)
    BY <2>2, <2>7 DEF NeighGC, Nud, NeighMsg, Resolved
  <2> QED
    BY <1>2, <2>3, <2>4, <2>5, <2>6, <2>7
<1>3. CASE UNCHANGED <<neigh, neighCh>>
  BY <1>3 DEF KernelNeighStep
<1> QED
  BY <1>1, <1>2, <1>3 DEF KernelNext, HostMoves, AddrAdded, AddrReady, AddrRemoved, AddrBecomes,
                          RouteFlushed

LEMMA LearnedStep ==
  ASSUME TypeOK, TypeOK', SameConfig, \A k \in Keys : Learned(k), [Next]_vars, NEW k \in Keys
  PROVE  Learned(k)'
<1>0. Scanned' = Scanned /\ neighCh[k] \in Seq(NeighMsg)
  BY ConfigDerived DEF TypeOK, KernelTypeOK
<1>1. CASE neigh'[k] = neigh[k] /\ neighCh'[k] = neighCh[k] /\ (k \in mirroredNeighs => k \in mirroredNeighs')
  BY <1>0, <1>1 DEF Learned
<1>2. CASE neigh'[k] \notin Resolved
  BY <1>2 DEF Learned
<1>3. ASSUME NEW j \in Keys, HandleNeighEvent(j) PROVE Learned(k)'
  <2>1. CASE j # k
    BY <1>1, <1>3, <2>1 DEF HandleNeighEvent, NeighIgnored, NeighAppears, NeighGone, TypeOK, KernelTypeOK
  <2>2. CASE j = k /\ neigh'[k] \in Resolved
    <3>1. /\ Tail(neighCh[k]) # << >> => Last(Tail(neighCh[k])) = Last(neighCh[k])
          /\ Tail(neighCh[k]) = << >> => Head(neighCh[k]) = Last(neighCh[k])
      BY <1>0, <1>3, <2>2, TailLast DEF HandleNeighEvent
    <3>2. CASE NeighIgnored(k)
      <4>1. neigh' = neigh /\ neighCh'[k] = Tail(neighCh[k]) /\ mirroredNeighs' = mirroredNeighs
        BY <3>2 DEF NeighIgnored, TypeOK, KernelTypeOK
      <4>2. Last(neighCh[k]) \in Resolved
        BY <1>3, <2>2, <4>1 DEF Learned, HandleNeighEvent
      <4>3. neighCh'[k] = << >> /\ k \in Scanned => k \in mirroredNeighs
        BY <3>1, <3>2, <4>1, <4>2 DEF NeighIgnored, Scanned, Resolved
      <4> QED
        BY <1>0, <3>1, <4>1, <4>2, <4>3 DEF Learned
    <3>3. ASSUME NEW n \in RelayIface(k[2]), NeighAppears(k, n) PROVE Learned(k)'
      <4>1. neigh' = neigh /\ neighCh'[k] = Tail(neighCh[k]) /\ k \in mirroredNeighs'
        BY <3>3 DEF NeighAppears, TypeOK, KernelTypeOK
      <4>2. Last(neighCh[k]) \in Resolved
        BY <1>3, <2>2, <4>1 DEF Learned, HandleNeighEvent
      <4> QED
        BY <1>0, <3>1, <4>1, <4>2 DEF Learned
    <3>4. ASSUME NEW n \in RelayIface(k[2]), NeighGone(k, n) PROVE FALSE
      BY <2>2, <3>4 DEF NeighGone, DeleteFailedNeigh, TypeOK, KernelTypeOK, Resolved
    <3> QED
      BY <1>3, <2>2, <3>2, <3>3, <3>4 DEF HandleNeighEvent
  <2> QED
    BY <1>2, <2>1, <2>2
<1>4. CASE Sweep
  <2>1. CASE k \in Scanned /\ neigh[k] = "failed"
    <3>1. neigh'[k] = "none"
      BY <1>4, <2>1 DEF Sweep, DeleteFailedNeigh
    <3> QED
      BY <1>2, <3>1 DEF Resolved
  <2>2. CASE ~(k \in Scanned /\ neigh[k] = "failed") /\ Probed(k, neigh[k])
    <3>1. neighCh'[k] = Append(neighCh[k], "probe")
      BY <1>4, <2>2 DEF Sweep
    <3>2. Append(neighCh[k], "probe") # << >> /\ Last(Append(neighCh[k], "probe")) = "probe"
      BY <1>0, AppendLast DEF NeighMsg, Resolved
    <3> QED
      BY <3>1, <3>2 DEF Learned, Resolved
  <2>3. CASE ~(k \in Scanned /\ neigh[k] = "failed") /\ ~Probed(k, neigh[k])
    <3>1. neigh'[k] = neigh[k] /\ neighCh'[k] = neighCh[k]
      BY <1>4, <2>3 DEF Sweep
    <3>2. k \in Scanned /\ neigh[k] \in Resolved /\ k \in mirroredNeighs => k \in mirroredNeighs'
      BY <1>4 DEF Sweep, Orphaned, Live, Resolved, Unresolved
    <3> QED
      BY <1>0, <3>1, <3>2 DEF Learned
  <2> QED
    BY <2>1, <2>2, <2>3
<1>5. ASSUME NEW n \in DOMAIN interfaces, NEW t \in Addrs, NEW ownMAC \in BOOLEAN,
             HandleSolicit(n, t, ownMAC)
      PROVE  Learned(k)'
  <2>1. neighCh' = neighCh /\ mirroredNeighs' = mirroredNeighs
    BY <1>5 DEF HandleSolicit
  <2>2. neigh'[k] = neigh[k] \/ neigh'[k] = "incomplete"
    BY <1>5 DEF HandleSolicit
  <2> QED
    BY <1>1, <1>2, <2>1, <2>2 DEF Resolved
<1>6. ASSUME KernelNext, UNCHANGED mirrorVars PROVE Learned(k)'
  <2>1. mirroredNeighs' = mirroredNeighs
    BY <1>6 DEF mirrorVars
  <2>2. KernelNeighStep
    BY <1>6, KernelNeigh
  <2>3. CASE UNCHANGED <<neigh, neighCh>>
    BY <1>1, <2>1, <2>3
  <2>4. CASE \E j \in Keys : neigh' = [neigh EXCEPT ![j] = "incomplete"] /\ UNCHANGED neighCh
    <3>1. neigh'[k] = neigh[k] \/ neigh'[k] = "incomplete"
      BY <2>4 DEF TypeOK, KernelTypeOK
    <3> QED
      BY <1>1, <1>2, <2>1, <2>4, <3>1 DEF Resolved
  <2>5. ASSUME NEW j \in Keys, NEW state \in Nud, NEW msg \in NeighMsg,
               neigh' = [neigh EXCEPT ![j] = state],
               neighCh' = [neighCh EXCEPT ![j] = Append(@, msg)],
               state \in Resolved <=> msg \in Resolved
        PROVE  Learned(k)'
    <3>1. CASE j # k
      BY <1>1, <2>1, <2>5, <3>1 DEF TypeOK, KernelTypeOK
    <3>2. CASE j = k
      <4>1. neigh'[k] = state /\ neighCh'[k] = Append(neighCh[k], msg)
        BY <2>5, <3>2 DEF TypeOK, KernelTypeOK
      <4>2. Append(neighCh[k], msg) # << >> /\ Last(Append(neighCh[k], msg)) = msg
        BY <1>0, AppendLast
      <4> QED
        BY <2>5, <4>1, <4>2 DEF Learned
    <3> QED
      BY <3>1, <3>2
  <2> QED
    BY <2>2, <2>3, <2>4, <2>5 DEF KernelNeighStep
<1>7. CASE UNCHANGED <<neigh, neighCh, mirroredNeighs>>
  BY <1>1, <1>7
<1> QED
  BY <1>3, <1>4, <1>5, <1>6, <1>7
  DEF Next, Engine, HandleAddrEvent, HandleRouteEvent, Reconcile, vars, kernelVars, mirrorVars

\* However failures, late answers and sweeps interleave: a host the kernel holds
\* resolved, with no event of it left to handle, is mirrored.
THEOREM ResolvedIsMirrored == Spec => []LearnedWhenDrained
<1>1. Init => NeighLast /\ LearnedWhenDrained
  <2> SUFFICES ASSUME Init PROVE NeighLast /\ LearnedWhenDrained
    OBVIOUS
  <2>1. \A k \in Keys : neigh[k] \notin Resolved
    BY DEF Init, KernelInit, Resolved
  <2> QED
    BY <2>1 DEF NeighLast, LearnedWhenDrained, Scanned
<1>2. TypeOK /\ TypeOK' /\ NeighLast /\ LearnedWhenDrained /\ [Next]_vars
        => NeighLast' /\ LearnedWhenDrained'
  <2> SUFFICES ASSUME TypeOK, TypeOK', NeighLast, LearnedWhenDrained, [Next]_vars
               PROVE  NeighLast' /\ LearnedWhenDrained'
    OBVIOUS
  <2>1. \A k \in Keys : Learned(k)
    BY LearnedSplit
  <2>2. \A k \in Keys : Learned(k)'
    BY <2>1, LearnedStep, ConfigFixed
  <2>3. Scanned' \subseteq Keys
    BY DEF Scanned
  <2> QED
    BY <2>2, <2>3 DEF Learned, NeighLast, LearnedWhenDrained
<1> QED
  BY <1>1, <1>2, TypeCorrect, PTL DEF Spec

-----------------------------------------------------------------------------
(* NoLeak.  Strengthened so that it is inductive: the interface is one     *)
(* that mirrors at all, the address passes its filters, and a route exists *)
(* only where routes are learned.                                          *)

Just(a, n) == interfaces[n].NDP = "relay" /\ AddrFilter(a, n) /\ Reason(a, n)

RoutesJustified ==
  \A a \in Addrs : route[a] # NoIdx =>
    \E n \in Names : /\ interfaces[n].Ifindex = route[a]
                     /\ interfaces[n].LearnRoutes
                     /\ a \notin LinkLocal
                     /\ Just(a, n)

ProxiesJustified ==
  \A k \in proxy :
    \E n \in Names : Just(k[1], n) /\ \E c \in MirrorTargets(n) : interfaces[c].Ifindex = k[2]

NoLeakInv == RoutesJustified /\ ProxiesJustified /\ mirroredNeighs \subseteq Scanned

LEMMA NoLeakFromInv ==
  ASSUME TypeOK, NoLeakInv
  PROVE  NoLeak
  BY IfaceTypes DEF NoLeakInv, RoutesJustified, ProxiesJustified, NoLeak, Just

\* Installing what is justified afterwards, losing no reason.
LEMMA AddKeepsJustified ==
  ASSUME TypeOK, SameConfig, RoutesJustified, ProxiesJustified,
         NEW M \in SUBSET (Addrs \X Names),
         \A a \in Addrs, n \in Names : Just(a, n) => Just(a, n)',
         \A m \in M : Just(m[1], m[2])',
         proxy' = proxy \cup ProxiesOf(M), route' \in RoutesAfterAdd(M)
  PROVE  RoutesJustified' /\ ProxiesJustified'
<1>0. DOMAIN interfaces = Names
  BY DEF SameConfig
<1>1. RoutesJustified'
  <2> SUFFICES ASSUME NEW a \in Addrs, route'[a] # NoIdx
               PROVE  \E n \in Names : /\ interfaces'[n].Ifindex = route'[a]
                                       /\ interfaces'[n].LearnRoutes
                                       /\ a \notin LinkLocal
                                       /\ Just(a, n)'
    BY DEF RoutesJustified
  <2>1. CASE RouteLinks(M, a) = {}
    <3>1. route'[a] = route[a]
      BY <2>1 DEF RoutesAfterAdd
    <3>2. PICK n \in Names : /\ interfaces[n].Ifindex = route[a] /\ interfaces[n].LearnRoutes
                             /\ a \notin LinkLocal /\ Just(a, n)
      BY <3>1 DEF RoutesJustified
    <3>3. Just(a, n)'
      BY <3>2
    <3> QED
      BY <3>1, <3>2, <3>3 DEF SameConfig
  <2>2. CASE RouteLinks(M, a) # {}
    <3>1. route'[a] \in RouteLinks(M, a)
      BY <2>2 DEF RoutesAfterAdd
    <3>2. PICK m \in M : /\ m[1] = a /\ interfaces[m[2]].LearnRoutes /\ a \notin LinkLocal
                         /\ interfaces[m[2]].Ifindex = route'[a]
      BY <3>1 DEF RouteLinks
    <3>3. Just(a, m[2])' /\ m[2] \in Names
      BY <3>2
    <3> QED
      BY <3>2, <3>3 DEF SameConfig
  <2> QED
    BY <2>1, <2>2
<1>2. ProxiesJustified'
  <2> SUFFICES ASSUME NEW k \in proxy'
               PROVE  \E n \in Names : /\ Just(k[1], n)'
                                       /\ \E c \in MirrorTargets(n)' : interfaces'[c].Ifindex = k[2]
    BY DEF ProxiesJustified
  <2>0. \A n \in Names : MirrorTargets(n)' = MirrorTargets(n) /\ MirrorTargets(n) \subseteq Names
    BY <1>0, ConfigDerived DEF MirrorTargets
  <2>1. CASE k \in proxy
    <3>1. k[1] \in Addrs
      BY <2>1 DEF TypeOK, KernelTypeOK, Keys
    <3>2. PICK n \in Names : Just(k[1], n) /\ \E c \in MirrorTargets(n) : interfaces[c].Ifindex = k[2]
      BY <2>1 DEF ProxiesJustified
    <3>3. Just(k[1], n)'
      BY <3>1, <3>2
    <3> QED
      BY <2>0, <3>2, <3>3 DEF SameConfig
  <2>2. CASE k \in ProxiesOf(M)
    <3>1. PICK m \in M : \E c \in MirrorTargets(m[2]) : k = <<m[1], interfaces[c].Ifindex>>
      BY <2>2 DEF ProxiesOf
    <3>2. Just(k[1], m[2])' /\ m[2] \in Names
      BY <3>1
    <3> QED
      BY <2>0, <3>1, <3>2 DEF SameConfig
  <2> QED
    BY <2>1, <2>2
<1> QED
  BY <1>1, <1>2

\* Removing the mirrors of exactly the pairs that may have lost their reason.
LEMMA DelKeepsJustified ==
  ASSUME TypeOK, SameConfig, RoutesJustified, ProxiesJustified,
         NEW M \in SUBSET (Addrs \X Names),
         \A a \in Addrs, n \in Names : Just(a, n) => Just(a, n)' \/ <<a, n>> \in M,
         MirrorDel(M)
  PROVE  RoutesJustified' /\ ProxiesJustified'
<1>0. DOMAIN interfaces = Names
  BY DEF SameConfig
<1>1. RoutesJustified'
  <2> SUFFICES ASSUME NEW a \in Addrs, route'[a] # NoIdx
               PROVE  \E n \in Names : /\ interfaces'[n].Ifindex = route'[a]
                                       /\ interfaces'[n].LearnRoutes
                                       /\ a \notin LinkLocal
                                       /\ Just(a, n)'
    BY DEF RoutesJustified
  <2>1. route'[a] = route[a] /\ route[a] \notin RouteLinks(M, a)
    BY DEF MirrorDel
  <2>2. PICK n \in Names : /\ interfaces[n].Ifindex = route[a] /\ interfaces[n].LearnRoutes
                           /\ a \notin LinkLocal /\ Just(a, n)
    BY <2>1 DEF RoutesJustified
  <2>3. <<a, n>> \notin M
    BY <2>1, <2>2 DEF RouteLinks
  <2>4. Just(a, n)'
    BY <2>2, <2>3
  <2> QED
    BY <2>1, <2>2, <2>4 DEF SameConfig
<1>2. ProxiesJustified'
  <2> SUFFICES ASSUME NEW k \in proxy'
               PROVE  \E n \in Names : /\ Just(k[1], n)'
                                       /\ \E c \in MirrorTargets(n)' : interfaces'[c].Ifindex = k[2]
    BY DEF ProxiesJustified
  <2>0. \A n \in Names : MirrorTargets(n)' = MirrorTargets(n) /\ MirrorTargets(n) \subseteq Names
    BY <1>0, ConfigDerived DEF MirrorTargets
  <2>1. k \in proxy /\ k \notin ProxiesOf(M)
    BY DEF MirrorDel
  <2>2. k[1] \in Addrs /\ k = <<k[1], k[2]>>
    BY <2>1 DEF TypeOK, KernelTypeOK, Keys
  <2>3. PICK n \in Names : Just(k[1], n) /\ \E c \in MirrorTargets(n) : interfaces[c].Ifindex = k[2]
    BY <2>1 DEF ProxiesJustified
  <2>4. <<k[1], n>> \notin M
    BY <2>1, <2>2, <2>3 DEF ProxiesOf
  <2>5. Just(k[1], n)'
    BY <2>2, <2>3, <2>4
  <2> QED
    BY <2>0, <2>3, <2>5 DEF SameConfig
<1> QED
  BY <1>1, <1>2

\* Leaving everything in place, or losing routes to a flush.
LEMMA SameKeepsJustified ==
  ASSUME TypeOK, SameConfig, RoutesJustified, ProxiesJustified,
         \A a \in Addrs, n \in Names : Just(a, n) => Just(a, n)',
         proxy' = proxy, \A a \in Addrs : route'[a] \in {route[a], NoIdx}
  PROVE  RoutesJustified' /\ ProxiesJustified'
<1>0. \A n \in Names : MirrorTargets(n)' = MirrorTargets(n) /\ MirrorTargets(n) \subseteq Names
  BY ConfigDerived DEF MirrorTargets, SameConfig
<1>1. RoutesJustified'
  BY DEF RoutesJustified, SameConfig
<1>2. ProxiesJustified'
  <2>1. \A k \in proxy : k[1] \in Addrs
    BY DEF TypeOK, KernelTypeOK, Keys
  <2> QED
    BY <1>0, <2>1 DEF ProxiesJustified, SameConfig
<1> QED
  BY <1>1, <1>2

LEMMA JustFrame ==
  ASSUME TypeOK, SameConfig, NEW a \in Addrs, NEW n \in Names, Just(a, n),
         Reason(a, n) => Reason(a, n)'
  PROVE  Just(a, n)'
  BY DEF Just, AddrFilter, SameConfig

\* A reason survives a step that forgets no host and drops no address.
LEMMA ReasonFrame ==
  ASSUME SameConfig, NEW a \in Addrs, NEW n \in Names, Reason(a, n),
         <<a, interfaces[n].Ifindex>> \in mirroredNeighs => <<a, interfaces[n].Ifindex>> \in mirroredNeighs',
         interfaces'[n].Addr6 = interfaces[n].Addr6,
         addrCh[<<a, interfaces[n].Ifindex>>] # << >> => addrCh'[<<a, interfaces[n].Ifindex>>] # << >>
  PROVE  Reason(a, n)'
  BY DEF Reason, SameConfig

\* An index belongs to one interface.
LEMMA IfaceUnique ==
  ASSUME TypeOK, Static, NEW m \in Names, NEW n \in Names,
         interfaces[m].Ifindex = interfaces[n].Ifindex
  PROVE  m = n
  BY MirrorAssumption DEF Static

LEMMA ReasonStable ==
  ASSUME TypeOK, SameConfig, mirroredNeighs \subseteq mirroredNeighs', UNCHANGED <<interfaces, addrCh>>
  PROVE  \A a \in Addrs, n \in Names : Just(a, n) => Just(a, n)'
  BY JustFrame, ReasonFrame

LEMMA NoLeakNeighEvent ==
  ASSUME TypeOK, Static, SameConfig, NoLeakInv, NEW k \in Keys, HandleNeighEvent(k)
  PROVE  NoLeakInv'
<1> USE DEF NoLeakInv
<1>0. UNCHANGED <<interfaces, addrCh>> /\ Scanned' = Scanned
  BY ConfigDerived DEF HandleNeighEvent
<1>1. ASSUME NEW n \in RelayIface(k[2])
      PROVE  /\ n \in Names /\ interfaces[n].Ifindex = k[2] /\ interfaces[n].NDP = "relay"
             /\ {<<k[1], n>>} \in SUBSET (Addrs \X Names)
             /\ k = <<k[1], k[2]>> /\ k[1] \in Addrs
  BY IfaceTypes DEF RelayIface, IfaceByIndex, Keys
<1>2. CASE NeighIgnored(k)
  <2>1. /\ mirroredNeighs' = mirroredNeighs /\ proxy' = proxy /\ route' = route
    BY <1>2 DEF NeighIgnored
  <2>2. RoutesJustified' /\ ProxiesJustified'
    BY <1>0, <2>1, ReasonStable, SameKeepsJustified
  <2> QED
    BY <1>0, <2>1, <2>2
<1>3. ASSUME NEW n \in RelayIface(k[2]), NeighAppears(k, n)
      PROVE  NoLeakInv'
  <2>1. mirroredNeighs' = mirroredNeighs \cup {k} /\ NeighFilter(k[1])
    BY <1>3 DEF NeighAppears
  <2>2. Just(k[1], n)'
    BY <1>0, <1>1, <2>1 DEF Just, AddrFilter, NeighFilter, Reason
  <2>3. proxy' = proxy \cup ProxiesOf({<<k[1], n>>}) /\ route' \in RoutesAfterAdd({<<k[1], n>>})
    BY <1>3 DEF NeighAppears, MirrorAdd
  <2>4. \A m \in {<<k[1], n>>} : Just(m[1], m[2])'
    BY <2>2
  <2>5. \A a \in Addrs, m \in Names : Just(a, m) => Just(a, m)'
    BY <1>0, <2>1, ReasonStable
  <2>6. RoutesJustified' /\ ProxiesJustified'
    BY <1>1, <2>3, <2>4, <2>5, AddKeepsJustified
  <2>7. k \in Scanned
    BY <2>1 DEF Scanned
  <2> QED
    BY <1>0, <2>1, <2>6, <2>7
<1>4. ASSUME NEW n \in RelayIface(k[2]), NeighGone(k, n)
      PROVE  NoLeakInv'
  <2>1. mirroredNeighs' = mirroredNeighs \ {k}
    BY <1>4 DEF NeighGone
  <2>2. CASE k \notin mirroredNeighs
    <3>1. mirroredNeighs' = mirroredNeighs /\ proxy' = proxy /\ route' = route
      BY <1>4, <2>1, <2>2 DEF NeighGone
    <3>2. RoutesJustified' /\ ProxiesJustified'
      BY <1>0, <3>1, ReasonStable, SameKeepsJustified
    <3> QED
      BY <1>0, <3>1, <3>2
  <2>3. CASE k \in mirroredNeighs
    <3>1. MirrorDel({<<k[1], n>>})
      BY <1>4, <2>3 DEF NeighGone
    <3>2. ASSUME NEW a \in Addrs, NEW m \in Names, Just(a, m), <<a, m>> \notin {<<k[1], n>>}
          PROVE  Just(a, m)'
      <4>1. <<a, interfaces[m].Ifindex>> # k
        <5>1. SUFFICES ASSUME <<a, interfaces[m].Ifindex>> = k PROVE FALSE
          OBVIOUS
        <5>2. a = k[1] /\ interfaces[m].Ifindex = interfaces[n].Ifindex /\ n \in Names
          BY <1>1, <5>1
        <5>3. m = n
          BY <5>2, IfaceUnique
        <5> QED
          BY <3>2, <5>2, <5>3
      <4> QED
        BY <1>0, <2>1, <3>2, <4>1, JustFrame, ReasonFrame
    <3>3. RoutesJustified' /\ ProxiesJustified'
      BY <1>1, <3>1, <3>2, DelKeepsJustified
    <3> QED
      BY <1>0, <2>1, <3>3
  <2> QED
    BY <2>2, <2>3
<1> QED
  BY <1>2, <1>3, <1>4 DEF HandleNeighEvent

LEMMA NoLeakSweep ==
  ASSUME TypeOK, Static, SameConfig, NoLeakInv, Sweep
  PROVE  NoLeakInv'
<1> USE DEF NoLeakInv
<1> DEFINE reaped == ({k \in Scanned : neigh[k] = "failed"} \cap mirroredNeighs) \cup Orphaned
           M == {m \in Addrs \X DOMAIN interfaces : <<m[1], interfaces[m[2]].Ifindex>> \in reaped}
<1>0. UNCHANGED <<interfaces, addrCh>> /\ Scanned' = Scanned /\ DOMAIN interfaces = Names
  BY ConfigDerived DEF Sweep, SameConfig
<1>1. mirroredNeighs' = mirroredNeighs \ reaped /\ MirrorDel(M)
  BY DEF Sweep
<1>2. ASSUME NEW a \in Addrs, NEW m \in Names, Just(a, m), <<a, m>> \notin M
      PROVE  Just(a, m)'
  <2>1. <<a, interfaces[m].Ifindex>> \notin reaped
    BY <1>0, <1>2
  <2> QED
    BY <1>0, <1>1, <1>2, <2>1, JustFrame, ReasonFrame
<1>3. M \in SUBSET (Addrs \X Names)
  BY <1>0
<1>4. RoutesJustified' /\ ProxiesJustified'
  <2> HIDE DEF M
  <2> QED
    BY <1>1, <1>2, <1>3, DelKeepsJustified
<1> QED
  BY <1>0, <1>1, <1>4

LEMMA NoLeakReconcile ==
  ASSUME TypeOK, Static, SameConfig, NoLeakInv, Reconcile
  PROVE  NoLeakInv'
<1> USE DEF NoLeakInv
<1> DEFINE M == OwnMirrors \cup HostMirrors
<1>0. /\ UNCHANGED <<interfaces, addrCh, mirroredNeighs>> /\ Scanned' = Scanned
      /\ DOMAIN interfaces = Names
  BY ConfigDerived DEF Reconcile, SameConfig
<1>1. proxy' = proxy \cup ProxiesOf(M) /\ route' \in RoutesAfterAdd(M)
  BY DEF Reconcile
<1>2. M \in SUBSET (Addrs \X Names)
  BY ReconcileMirrors
<1>3. \A a \in Addrs, n \in Names : Just(a, n) => Just(a, n)'
  BY <1>0, ReasonStable
<1>4. ASSUME NEW m \in M PROVE Just(m[1], m[2])
  <2>1. m[1] \in Addrs /\ m[2] \in Names
    BY <1>2
  <2>2. CASE m \in OwnMirrors
    BY <2>1, <2>2 DEF OwnMirrors, Just, Reason
  <2>3. CASE m \in HostMirrors
    <3> DEFINE k == <<m[1], interfaces[m[2]].Ifindex>>
    <3>1. k \in mirroredNeighs /\ k \in Scanned
      BY <2>3 DEF HostMirrors
    <3>2. PICK n \in RelayIface(k[2]) : TRUE
      BY <3>1 DEF Scanned
    <3>3. n = m[2] /\ interfaces[n].NDP = "relay"
      BY <1>0, <2>1, <3>2, IfaceUnique DEF RelayIface, IfaceByIndex
    <3> QED
      BY <3>1, <3>3 DEF Just, Reason, AddrFilter, Scanned, NeighFilter
  <2> QED
    BY <2>2, <2>3
<1>5. \A m \in M : Just(m[1], m[2])'
  BY <1>2, <1>3, <1>4
<1>6. RoutesJustified' /\ ProxiesJustified'
  <2> HIDE DEF M
  <2> QED
    BY <1>1, <1>2, <1>3, <1>5, AddKeepsJustified
<1> QED
  BY <1>0, <1>6

\* handleAddrEvent takes a reason away only by handling the last queued "del" of
\* the address itself.
LEMMA AddrEventReasons ==
  ASSUME TypeOK, Static, SameConfig, AddrViewFresh, AddrLast, NEW k \in Keys, HandleAddrEvent(k),
         NEW a \in Addrs, NEW n \in Names, Reason(a, n), ~Reason(a, n)'
  PROVE  <<a, interfaces[n].Ifindex>> = k /\ Head(addrCh[k]) = "del"
<1> DEFINE key == <<a, interfaces[n].Ifindex>>
<1>0. /\ DOMAIN interfaces = Names /\ interfaces'[n].Ifindex = interfaces[n].Ifindex /\ key \in Keys
      /\ addrCh[k] \in Seq(AddrMsg)
  BY DEF SameConfig, TypeOK, KernelTypeOK, Interface, Keys
<1>1. /\ mirroredNeighs' = mirroredNeighs /\ addrs' = addrs /\ addrCh[k] # << >>
      /\ addrCh'[k] = Tail(addrCh[k]) /\ \A j \in Keys : j # k => addrCh'[j] = addrCh[j]
  BY DEF HandleAddrEvent, TypeOK, KernelTypeOK
<1>2. key \notin mirroredNeighs /\ interfaces'[n].Addr6[a] = "absent" /\ addrCh'[key] = << >>
  BY <1>0, <1>1 DEF Reason
<1>3. interfaces'[n].Addr6 = interfaces[n].Addr6 \/ interfaces'[n].Addr6 = FetchAddr6(n)
  <2>1. CASE UNCHANGED interfaces
    BY <2>1
  <2>2. ASSUME NEW m \in IfaceByIndex(k[2]), interfaces' = RefreshInterfaceAddresses(m)
        PROVE  interfaces'[n].Addr6 = interfaces[n].Addr6 \/ interfaces'[n].Addr6 = FetchAddr6(n)
    BY <2>2, IfaceTypes DEF RefreshInterfaceAddresses, TypeOK, Interface
  <2> QED
    BY <2>1, <2>2 DEF HandleAddrEvent
<1>4. interfaces[n].Addr6[a] # addrs[key] => addrCh[key] # << >>
  BY <1>0 DEF AddrViewFresh
<1>5. FetchAddr6(n)[a] = addrs[key]
  BY DEF FetchAddr6
<1>6. key = k
  <2> SUFFICES ASSUME key # k PROVE FALSE
    OBVIOUS
  <2>1. addrCh[key] = << >>
    BY <1>0, <1>1, <1>2
  <2>2. interfaces[n].Addr6[a] # "absent" /\ interfaces[n].Addr6[a] = addrs[key]
    BY <1>2, <1>4, <2>1 DEF Reason
  <2> QED
    BY <1>2, <1>3, <1>5, <2>2
<1>7. addrs[k] = "absent"
  <2>1. interfaces[n].Ifindex = k[2] /\ n \in IfaceByIndex(k[2])
    BY <1>0, <1>6 DEF IfaceByIndex
  <2>2. ASSUME NEW m \in IfaceByIndex(k[2]), interfaces' = RefreshInterfaceAddresses(m)
        PROVE  interfaces'[n].Addr6 = FetchAddr6(n)
    <3>1. m \in Names /\ interfaces[m].Ifindex = interfaces[n].Ifindex
      BY <2>1, <2>2, IfaceTypes DEF IfaceByIndex
    <3>2. m = n
      BY <3>1, IfaceUnique
    <3> QED
      BY <2>2, <3>2 DEF RefreshInterfaceAddresses, TypeOK, Interface
  <2>3. interfaces'[n].Addr6 = FetchAddr6(n)
    BY <2>1, <2>2 DEF HandleAddrEvent
  <2> QED
    BY <1>2, <1>5, <1>6, <2>3
<1>8. Tail(addrCh[k]) = << >> /\ Head(addrCh[k]) = Last(addrCh[k])
  BY <1>0, <1>1, <1>2, <1>6, TailLast
<1> QED
  BY <1>1, <1>6, <1>7, <1>8 DEF AddrLast

LEMMA NoLeakAddrEvent ==
  ASSUME TypeOK, Static, SameConfig, AddrViewFresh, AddrLast, NoLeakInv,
         AddrViewFresh', TypeOK', NEW k \in Keys, HandleAddrEvent(k)
  PROVE  NoLeakInv'
<1> USE DEF NoLeakInv
<1>0. /\ mirroredNeighs' = mirroredNeighs /\ Scanned' = Scanned /\ addrs' = addrs
      /\ DOMAIN interfaces = Names
      /\ k = <<k[1], k[2]>> /\ k[1] \in Addrs
  BY ConfigDerived DEF HandleAddrEvent, SameConfig, Keys
<1>1. ASSUME NEW a \in Addrs, NEW n \in Names, Just(a, n), ~Just(a, n)'
      PROVE  /\ <<a, interfaces[n].Ifindex>> = k /\ Head(addrCh[k]) = "del"
             /\ a = k[1] /\ n \in IfaceByIndex(k[2])
  <2>1. Reason(a, n) /\ ~Reason(a, n)'
    BY <1>1, JustFrame DEF Just
  <2>2. <<a, interfaces[n].Ifindex>> = k /\ Head(addrCh[k]) = "del"
    BY <2>1, AddrEventReasons
  <2> QED
    BY <1>0, <2>2 DEF IfaceByIndex
<1>2. CASE IfaceByIndex(k[2]) = {} /\ UNCHANGED <<interfaces, proxyNdp, proxy, route, routeCh>>
  <2>1. \A a \in Addrs, n \in Names : Just(a, n) => Just(a, n)'
    BY <1>1, <1>2
  <2>2. RoutesJustified' /\ ProxiesJustified'
    BY <1>2, <2>1, SameKeepsJustified
  <2> QED
    BY <1>0, <2>2
<1>3. ASSUME NEW n \in IfaceByIndex(k[2]),
             interfaces' = RefreshInterfaceAddresses(n),
             IF interfaces[n].NDP # "relay" \/ ~AddrFilter(k[1], n)
             THEN UNCHANGED <<proxyNdp, proxy, route, routeCh>>
             ELSE IF Head(addrCh[k]) = "new"
                  THEN MirrorAdd({<<k[1], n>>}) /\ UNCHANGED routeCh
                  ELSE MirrorDel({<<k[1], n>>}) /\ UNCHANGED proxyNdp
      PROVE  NoLeakInv'
  <2>0. /\ n \in Names /\ interfaces[n].Ifindex = k[2]
        /\ {<<k[1], n>>} \in SUBSET (Addrs \X Names)
    BY <1>0, <1>3 DEF IfaceByIndex
  <2>1. ASSUME NEW m \in IfaceByIndex(k[2]) PROVE m = n
    BY <1>0, <2>0, <2>1, IfaceUnique DEF IfaceByIndex
  <2>2. CASE interfaces[n].NDP # "relay" \/ ~AddrFilter(k[1], n)
    <3>1. ~Just(k[1], n)
      BY <2>2 DEF Just
    <3>2. \A a \in Addrs, m \in Names : Just(a, m) => Just(a, m)'
      BY <1>1, <2>1, <3>1
    <3>3. proxy' = proxy /\ route' = route
      BY <1>3, <2>2
    <3>4. RoutesJustified' /\ ProxiesJustified'
      BY <3>2, <3>3, SameKeepsJustified
    <3> QED
      BY <1>0, <3>4
  <2>3. CASE interfaces[n].NDP = "relay" /\ AddrFilter(k[1], n) /\ Head(addrCh[k]) = "new"
    <3>1. proxy' = proxy \cup ProxiesOf({<<k[1], n>>}) /\ route' \in RoutesAfterAdd({<<k[1], n>>})
      BY <1>3, <2>3 DEF MirrorAdd
    <3>2. \A a \in Addrs, m \in Names : Just(a, m) => Just(a, m)'
      BY <1>1, <2>3
    <3>3. Reason(k[1], n)'
      <4>1. addrCh[k] # << >> /\ addrCh[k] \in Seq(AddrMsg) /\ addrCh'[k] = Tail(addrCh[k])
        BY DEF HandleAddrEvent, TypeOK, KernelTypeOK
      <4>2. CASE Tail(addrCh[k]) # << >>
        BY <1>0, <2>0, <4>1, <4>2 DEF Reason, SameConfig
      <4>3. CASE Tail(addrCh[k]) = << >>
        <5>1. addrs[k] # "absent"
          BY <2>3, <4>1, <4>3, TailLast DEF AddrLast
        <5>2. interfaces'[n].Addr6 = FetchAddr6(n)
          BY <1>3, <2>0 DEF RefreshInterfaceAddresses, TypeOK, Interface
        <5>3. FetchAddr6(n)[k[1]] = addrs[k]
          BY <1>0, <2>0 DEF FetchAddr6
        <5> QED
          BY <5>1, <5>2, <5>3 DEF Reason
      <4> QED
        BY <4>2, <4>3
    <3>4. Just(k[1], n)'
      BY <2>0, <2>3, <3>3 DEF Just, AddrFilter, SameConfig
    <3>5. \A m \in {<<k[1], n>>} : Just(m[1], m[2])'
      BY <3>4
    <3>6. RoutesJustified' /\ ProxiesJustified'
      BY <2>0, <3>1, <3>2, <3>5, AddKeepsJustified
    <3> QED
      BY <1>0, <3>6
  <2>4. CASE interfaces[n].NDP = "relay" /\ AddrFilter(k[1], n) /\ Head(addrCh[k]) # "new"
    <3>1. MirrorDel({<<k[1], n>>})
      BY <1>3, <2>4
    <3>2. \A a \in Addrs, m \in Names : Just(a, m) => Just(a, m)' \/ <<a, m>> \in {<<k[1], n>>}
      BY <1>1, <2>1
    <3>3. RoutesJustified' /\ ProxiesJustified'
      BY <2>0, <3>1, <3>2, DelKeepsJustified
    <3> QED
      BY <1>0, <3>3
  <2> QED
    BY <2>2, <2>3, <2>4
<1> QED
  BY <1>2, <1>3 DEF HandleAddrEvent

LEMMA NoLeakKernel ==
  ASSUME TypeOK, SameConfig, NoLeakInv, KernelNext, UNCHANGED mirrorVars
  PROVE  NoLeakInv'
<1> USE DEF NoLeakInv
<1>0. mirroredNeighs' = mirroredNeighs /\ interfaces' = interfaces /\ Scanned' = Scanned
  BY ConfigDerived DEF mirrorVars
<1>1. \A k \in Keys : addrCh[k] # << >> => addrCh'[k] # << >>
  <2>1. CASE UNCHANGED <<addrs, addrCh>>
    BY <2>1
  <2>2. ASSUME NEW k \in Keys, NEW msg \in AddrMsg, addrCh' = [addrCh EXCEPT ![k] = Append(@, msg)],
               NEW j \in Keys, addrCh[j] # << >>
        PROVE  addrCh'[j] # << >>
    <3>1. addrCh[k] \in Seq(AddrMsg)
      BY DEF TypeOK, KernelTypeOK
    <3>2. Append(addrCh[k], msg) # << >>
      BY <3>1, AppendLast
    <3> QED
      BY <2>2, <3>2 DEF TypeOK, KernelTypeOK
  <2> QED
    BY <2>1, <2>2, KernelAddrStep
<1>2. \A a \in Addrs, n \in Names : <<a, interfaces[n].Ifindex>> \in Keys
  BY DEF TypeOK, Interface, Keys
<1>3. \A a \in Addrs, n \in Names : Just(a, n) => Just(a, n)'
  BY <1>0, <1>1, <1>2, JustFrame, ReasonFrame
<1>4. proxy' = proxy /\ \A a \in Addrs : route'[a] \in {route[a], NoIdx}
  BY DEF KernelNext, HostMoves, NeighLookup, NeighAnswers, NeighAges, NeighProbed, NeighFails,
         NeighGC, NeighBecomes, NeighUnchanged, AddrAdded, AddrReady, AddrRemoved, AddrBecomes,
         RouteFlushed, TypeOK, KernelTypeOK
<1> QED
  BY <1>0, <1>3, <1>4, SameKeepsJustified

LEMMA NoLeakStep ==
  ASSUME TypeOK, TypeOK', Static, AddrViewFresh, AddrViewFresh', AddrLast, NoLeakInv, [Next]_vars
  PROVE  NoLeakInv'
<1>0. SameConfig
  BY ConfigFixed
<1>1. ASSUME NEW k \in Keys, HandleNeighEvent(k) PROVE NoLeakInv'
  BY <1>0, <1>1, NoLeakNeighEvent
<1>2. ASSUME NEW k \in Keys, HandleAddrEvent(k) PROVE NoLeakInv'
  BY <1>0, <1>2, NoLeakAddrEvent
<1>3. CASE Reconcile
  BY <1>0, <1>3, NoLeakReconcile
<1>4. CASE Sweep
  BY <1>0, <1>4, NoLeakSweep
<1>5. CASE KernelNext /\ UNCHANGED mirrorVars
  BY <1>0, <1>5, NoLeakKernel
<1>6. ASSUME UNCHANGED <<route, proxy, mirroredNeighs, addrCh>>,
             \A n \in Names : interfaces'[n].Addr6 = interfaces[n].Addr6
      PROVE  NoLeakInv'
  <2>1. \A a \in Addrs, n \in Names : Just(a, n) => Just(a, n)'
    BY <1>0, <1>6, JustFrame, ReasonFrame
  <2>2. RoutesJustified' /\ ProxiesJustified'
    BY <1>0, <1>6, <2>1, SameKeepsJustified DEF NoLeakInv
  <2> QED
    BY <1>0, <1>6, <2>2, ConfigDerived DEF NoLeakInv
<1>7. ASSUME NEW n \in DOMAIN interfaces, NEW t \in Addrs, NEW ownMAC \in BOOLEAN,
             HandleSolicit(n, t, ownMAC)
      PROVE  NoLeakInv'
  <2>1. \A m \in Names : interfaces'[m].Addr6 = interfaces[m].Addr6
    <3>1. \A m \in Names : \E ll \in LinkLocal \cup {NoAddr} :
                interfaces'[m] = [interfaces[m] EXCEPT !.cachedLL = ll]
      BY <1>7, SolicitIfaces
    <3> QED
      BY <3>1 DEF TypeOK, Interface
  <2>2. UNCHANGED <<route, proxy, mirroredNeighs, addrCh>>
    BY <1>7 DEF HandleSolicit
  <2> QED
    BY <1>6, <2>1, <2>2
<1>8. ASSUME NEW ix \in Idx, NEW last \in BOOLEAN, HandleRouteEvent(ix, last) PROVE NoLeakInv'
  BY <1>6, <1>8 DEF HandleRouteEvent
<1>9. CASE UNCHANGED vars
  BY <1>6, <1>9 DEF vars, kernelVars, mirrorVars
<1> QED
  BY <1>1, <1>2, <1>3, <1>4, <1>5, <1>7, <1>8, <1>9 DEF Next, Engine

LEMMA NoLeakInvariant == Spec => []NoLeakInv
<1>1. Init => NoLeakInv
  BY DEF Init, KernelInit, NoLeakInv, RoutesJustified, ProxiesJustified
<1>2. /\ TypeOK /\ TypeOK' /\ Static /\ AddrViewFresh /\ AddrViewFresh' /\ AddrLast
      /\ NoLeakInv /\ [Next]_vars
      => NoLeakInv'
  BY NoLeakStep
<1> QED
  BY <1>1, <1>2, TypeCorrect, StaticInvariant, AddrInvariant, PTL DEF Spec

\* No route and no proxy entry outlives the daemon's reason for it.
THEOREM NothingLeaks == Spec => []NoLeak
<1>1. TypeOK /\ NoLeakInv => NoLeak
  BY NoLeakFromInv
<1> QED
  BY <1>1, TypeCorrect, NoLeakInvariant, PTL

-----------------------------------------------------------------------------
(* MirrorIntact, for the hosts that never change links.  Three facts about *)
(* where things can be: entries are resolved, and hosts mirrored, only on  *)
(* a link the host can be on; no address of a host is an address of ours.  *)

\* The host can be behind one link only.
Stays(h) == \A i, j \in Behind[h] : i = j

SingleHomed == \A h \in Hosts : Stays(h)

\* MirrorIntact of the hosts that stay where they are, whatever the others do.
SettledIntact ==
  \A k \in mirroredNeighs : Stays(k[1]) =>
     \A n \in IfaceByIndex(k[2]) : Installed(k, n) \/ RepairPending

AtHome(k) == k[1] \in Hosts /\ k[2] \in Behind[k[1]]

HomeInv ==
  /\ \A h \in Hosts : home[h] \in Behind[h] \cup {NoIdx}
  /\ \A k \in Keys : ~AtHome(k) => neigh[k] \notin Resolved /\ neighCh[k] \in Seq({"failed", "gone"})
  /\ \A k \in mirroredNeighs : AtHome(k)
  /\ \A k \in Keys : k[1] \in Hosts => addrs[k] = "absent" /\ addrCh[k] = << >>

\* Deleting an unresolved entry announces no resolved state.
LEMMA DelMsgsUnresolved ==
  ASSUME NEW state \in Nud
  PROVE  DelMsgs(state) \in Seq({"failed", "gone"})
<1>1. CASE state = "none"
  BY <1>1 DEF DelMsgs
<1>2. CASE state = "failed"
  BY <1>2 DEF DelMsgs
<1>3. CASE state # "none" /\ state # "failed"
  BY <1>3 DEF DelMsgs
<1> QED
  BY <1>1, <1>2, <1>3

LEMMA HomeNeighEvent ==
  ASSUME TypeOK, TypeOK', HomeInv, NEW k \in Keys, HandleNeighEvent(k)
  PROVE  HomeInv'
<1>0. UNCHANGED <<home, addrs, addrCh>> /\ neighCh[k] # << >>
  BY DEF HandleNeighEvent
<1>1. ~AtHome(k) => /\ Tail(neighCh[k]) \in Seq({"failed", "gone"})
                    /\ Head(neighCh[k]) \notin Resolved
  BY <1>0, TailLast DEF HomeInv, Resolved
<1>2. CASE NeighIgnored(k)
  BY <1>0, <1>1, <1>2 DEF HomeInv, NeighIgnored, TypeOK, KernelTypeOK, AtHome
<1>3. ASSUME NEW n \in RelayIface(k[2]), NeighAppears(k, n) PROVE HomeInv'
  <2>1. AtHome(k)
    BY <1>1, <1>3 DEF NeighAppears
  <2> QED
    BY <1>0, <1>3, <2>1 DEF HomeInv, NeighAppears, TypeOK, KernelTypeOK, AtHome
<1>4. ASSUME NEW n \in RelayIface(k[2]), NeighGone(k, n) PROVE HomeInv'
  <2>1. ~AtHome(k) => Tail(neighCh[k]) \o DelMsgs(neigh[k]) \in Seq({"failed", "gone"})
    BY <1>1, DelMsgsUnresolved, ConcatProperties DEF TypeOK, KernelTypeOK
  <2>2. /\ neigh'[k] = "none" /\ neighCh'[k] = Tail(neighCh[k]) \o DelMsgs(neigh[k])
        /\ \A j \in Keys : j # k => neigh'[j] = neigh[j] /\ neighCh'[j] = neighCh[j]
        /\ mirroredNeighs' \subseteq mirroredNeighs
    BY <1>4 DEF NeighGone, DeleteFailedNeigh, TypeOK, KernelTypeOK
  <2> QED
    BY <1>0, <2>1, <2>2 DEF HomeInv, Resolved, AtHome
<1> QED
  BY <1>2, <1>3, <1>4 DEF HandleNeighEvent

LEMMA HomeStep ==
  ASSUME TypeOK, TypeOK', HomeInv, [Next]_vars
  PROVE  HomeInv'
<1>1. ASSUME NEW k \in Keys, HandleNeighEvent(k) PROVE HomeInv'
  BY <1>1, HomeNeighEvent
<1>2. ASSUME NEW k \in Keys, HandleAddrEvent(k) PROVE HomeInv'
  <2>1. k[1] \notin Hosts
    BY <1>2 DEF HomeInv, HandleAddrEvent
  <2>2. \A j \in Keys : j # k => addrCh'[j] = addrCh[j]
    BY <1>2 DEF HandleAddrEvent, TypeOK, KernelTypeOK
  <2> QED
    BY <1>2, <2>1, <2>2 DEF HomeInv, HandleAddrEvent, AtHome
<1>3. CASE Sweep
  <2>1. /\ UNCHANGED <<home, addrs, addrCh>> /\ mirroredNeighs' \subseteq mirroredNeighs
    BY <1>3 DEF Sweep
  <2>2. ASSUME NEW k \in Keys, ~AtHome(k)
        PROVE  neigh'[k] \notin Resolved /\ neighCh'[k] \in Seq({"failed", "gone"})
    <3>1. neigh[k] \notin Resolved /\ neighCh[k] \in Seq({"failed", "gone"})
      BY <2>2 DEF HomeInv
    <3>2. ~Probed(k, neigh[k])
      BY <3>1 DEF Probed, Resolved
    <3>3. CASE k \in Scanned /\ neigh[k] = "failed"
      <4>1. neigh'[k] = "none" /\ neighCh'[k] = neighCh[k] \o DelMsgs(neigh[k])
        BY <1>3, <3>3 DEF Sweep, DeleteFailedNeigh
      <4>2. neighCh[k] \o DelMsgs(neigh[k]) \in Seq({"failed", "gone"})
        BY <3>1, DelMsgsUnresolved, ConcatProperties DEF TypeOK, KernelTypeOK
      <4> QED
        BY <4>1, <4>2 DEF Resolved
    <3>4. CASE ~(k \in Scanned /\ neigh[k] = "failed")
      BY <1>3, <3>1, <3>2, <3>4 DEF Sweep
    <3> QED
      BY <3>3, <3>4
  <2> QED
    BY <2>1, <2>2 DEF HomeInv, AtHome
<1>4. ASSUME NEW n \in DOMAIN interfaces, NEW t \in Addrs, NEW ownMAC \in BOOLEAN,
             HandleSolicit(n, t, ownMAC)
      PROVE  HomeInv'
  <2>1. \A k \in Keys : neigh'[k] = neigh[k] \/ neigh'[k] = "incomplete"
    BY <1>4 DEF HandleSolicit
  <2> QED
    BY <1>4, <2>1 DEF HandleSolicit, HomeInv, AtHome, Resolved
<1>5. ASSUME KernelNext, UNCHANGED mirrorVars PROVE HomeInv'
  <2>1. mirroredNeighs' = mirroredNeighs
    BY <1>5 DEF mirrorVars
  <2>2. \A h \in Hosts : home'[h] \in Behind[h] \cup {NoIdx}
    BY <1>5 DEF KernelNext, HostMoves, NeighLookup, NeighAnswers, NeighAges, NeighProbed, NeighFails,
         NeighGC, NeighBecomes, NeighUnchanged, AddrAdded, AddrReady, AddrRemoved, AddrBecomes,
         RouteFlushed, TypeOK, KernelTypeOK, HomeInv
  <2>3. \A k \in Keys : k[1] \in Hosts => addrs'[k] = "absent" /\ addrCh'[k] = << >>
    <3>1. CASE UNCHANGED <<addrs, addrCh>>
      BY <3>1 DEF HomeInv
    <3>2. ASSUME NEW j \in Own \X Idx, AddrAdded(j) \/ AddrReady(j) \/ AddrRemoved(j),
                 NEW k \in Keys, k[1] \in Hosts
          PROVE  addrs'[k] = "absent" /\ addrCh'[k] = << >>
      <4>1. k # j
        BY <3>2, KernelAssumption
      <4>2. addrs'[k] = addrs[k] /\ addrCh'[k] = addrCh[k]
        BY <3>2, <4>1 DEF AddrAdded, AddrReady, AddrRemoved, AddrBecomes, TypeOK, KernelTypeOK
      <4> QED
        BY <3>2, <4>2 DEF HomeInv
    <3> QED
      BY <1>5, <3>1, <3>2 DEF KernelNext, HostMoves, NeighLookup, NeighAnswers, NeighAges,
           NeighProbed, NeighFails, NeighGC, NeighBecomes, NeighUnchanged, RouteFlushed
  <2>4. ASSUME NEW k \in Keys, ~AtHome(k)
        PROVE  neigh'[k] \notin Resolved /\ neighCh'[k] \in Seq({"failed", "gone"})
    <3>0. neigh[k] \notin Resolved /\ neighCh[k] \in Seq({"failed", "gone"})
      BY <2>4 DEF HomeInv
    <3>1. CASE neigh'[k] \in {neigh[k], "incomplete"} /\ neighCh'[k] = neighCh[k]
      BY <3>0, <3>1 DEF Resolved
    <3>2. ASSUME NEW state \in Nud, NEW msg \in NeighMsg,
                 neigh'[k] = state, neighCh'[k] = Append(neighCh[k], msg),
                 state \in Resolved <=> msg \in Resolved,
                 state \in Resolved => k[1] \in Hosts /\ (neigh[k] \in Resolved \/ home[k[1]] = k[2])
          PROVE  neigh'[k] \notin Resolved /\ neighCh'[k] \in Seq({"failed", "gone"})
      <4>1. state \notin Resolved
        BY <2>4, <3>0, <3>2, KernelAssumption DEF AtHome, HomeInv, Keys
      <4>2. msg \in {"failed", "gone"}
        BY <3>2, <4>1 DEF NeighMsg
      <4> QED
        BY <3>0, <3>2, <4>1, <4>2, AppendLast
    <3>3. CASE \E j \in Keys : neigh' = [neigh EXCEPT ![j] = "incomplete"] /\ UNCHANGED neighCh
      BY <3>1, <3>3 DEF TypeOK, KernelTypeOK
    <3>4. ASSUME NEW j \in Keys, NEW state \in Nud, NEW msg \in NeighMsg,
                 neigh' = [neigh EXCEPT ![j] = state],
                 neighCh' = [neighCh EXCEPT ![j] = Append(@, msg)],
                 state \in Resolved <=> msg \in Resolved,
                 state \in Resolved => j[1] \in Hosts /\ (neigh[j] \in Resolved \/ home[j[1]] = j[2])
          PROVE  neigh'[k] \notin Resolved /\ neighCh'[k] \in Seq({"failed", "gone"})
      <4>1. CASE j # k
        BY <3>1, <3>4, <4>1 DEF TypeOK, KernelTypeOK
      <4>2. CASE j = k
        <5>1. neigh'[k] = state /\ neighCh'[k] = Append(neighCh[k], msg)
          BY <3>4, <4>2 DEF TypeOK, KernelTypeOK
        <5> QED
          BY <3>2, <3>4, <4>2, <5>1
      <4> QED
        BY <4>1, <4>2
    <3>5. CASE UNCHANGED <<neigh, neighCh>>
      BY <3>1, <3>5
    <3>6. KernelNeighStep
      BY <1>5, KernelNeigh
    <3> QED
      BY <3>3, <3>4, <3>5, <3>6 DEF KernelNeighStep
  <2> QED
    BY <2>1, <2>2, <2>3, <2>4 DEF HomeInv, AtHome
<1>6. CASE UNCHANGED <<home, neigh, neighCh, addrs, addrCh, mirroredNeighs>>
  BY <1>6 DEF HomeInv, AtHome
<1> QED
  BY <1>1, <1>2, <1>3, <1>4, <1>5, <1>6
  DEF Next, Engine, HandleRouteEvent, Reconcile, vars, kernelVars, mirrorVars

LEMMA HomeInvariant == Spec => []HomeInv
<1>1. Init => HomeInv
  BY EmptySeq DEF Init, KernelInit, HomeInv, Resolved
<1>2. TypeOK /\ TypeOK' /\ HomeInv /\ [Next]_vars => HomeInv'
  BY HomeStep
<1> QED
  BY <1>1, <1>2, TypeCorrect, PTL DEF Spec

-----------------------------------------------------------------------------
(* What a step does to the mirror of one host.                             *)

LEMMA PendingKept ==
  ASSUME SameConfig, RepairPending,
         reconcileScheduled => reconcileScheduled', routeCh \subseteq routeCh'
  PROVE  RepairPending'
  BY ConfigDerived DEF RepairPending

\* Nothing it needs is taken away.
LEMMA InstalledSame ==
  ASSUME SameConfig, NEW k, NEW n \in Names, Installed(k, n),
         \A ix : <<k[1], ix>> \in proxy => <<k[1], ix>> \in proxy',
         proxyNdp \subseteq proxyNdp', route'[k[1]] = route[k[1]]
  PROVE  Installed(k, n)'
<1>1. MirrorTargets(n)' = MirrorTargets(n) /\ MirrorTargets(n) \subseteq Names
  BY ConfigDerived DEF MirrorTargets, SameConfig
<1> QED
  BY <1>1 DEF Installed, SameConfig

\* Mirrors of other addresses are added.
LEMMA AddOther ==
  ASSUME SameConfig, NEW M \in SUBSET (Addrs \X Names), NEW k \in Keys, NEW n \in Names,
         Installed(k, n), \A m \in M : m[1] # k[1], MirrorAdd(M)
  PROVE  Installed(k, n)'
<1>1. RouteLinks(M, k[1]) = {}
  BY DEF RouteLinks
<1>2. route'[k[1]] = route[k[1]]
  BY <1>1 DEF MirrorAdd, RoutesAfterAdd, Keys
<1> QED
  BY <1>2, InstalledSame DEF MirrorAdd

\* Mirrors of other addresses are removed.
LEMMA DelOther ==
  ASSUME SameConfig, NEW M \in SUBSET (Addrs \X Names), NEW k \in Keys, NEW n \in Names,
         Installed(k, n), \A m \in M : m[1] # k[1], MirrorDel(M), UNCHANGED proxyNdp,
         route[k[1]] \in Idx \cup {NoIdx}
  PROVE  Installed(k, n)'
<1>1. RouteLinks(M, k[1]) = {}
  BY DEF RouteLinks
<1>2. route'[k[1]] = route[k[1]]
  BY <1>1 DEF MirrorDel, Keys
<1>3. \A ix : <<k[1], ix>> \notin ProxiesOf(M)
  BY DEF ProxiesOf
<1> QED
  BY <1>2, <1>3, InstalledSame DEF MirrorDel

\* Its own mirror is among those added, and no other interface claims the address.
LEMMA AddSelf ==
  ASSUME SameConfig, NEW M \in SUBSET (Addrs \X Names), NEW k \in Keys, NEW n \in Names,
         interfaces[n].Ifindex = k[2], <<k[1], n>> \in M, \A m \in M : m[1] = k[1] => m[2] = n,
         SysctlsOf(M) \subseteq proxyNdp', proxy' = proxy \cup ProxiesOf(M),
         route' \in RoutesAfterAdd(M)
  PROVE  Installed(k, n)'
<1>1. MirrorTargets(n)' = MirrorTargets(n) /\ MirrorTargets(n) \subseteq Names
  BY ConfigDerived DEF MirrorTargets, SameConfig
<1>2. ASSUME NEW c \in MirrorTargets(n)
      PROVE  <<k[1], interfaces[c].Ifindex>> \in proxy' /\ interfaces[c].Ifindex \in proxyNdp'
  <2> DEFINE own == <<k[1], n>>
  <2>1. own \in M /\ own[1] = k[1] /\ own[2] = n
    OBVIOUS
  <2>2. interfaces[c].Ifindex \in SysctlsOf(M)
    BY <1>2, <2>1 DEF SysctlsOf
  <2>3. <<k[1], interfaces[c].Ifindex>> \in ProxiesOf(M)
    BY <1>2, <2>1 DEF ProxiesOf
  <2> QED
    BY <2>2, <2>3
<1>3. interfaces[n].LearnRoutes /\ k[1] \notin LinkLocal => route'[k[1]] = k[2]
  <2> SUFFICES ASSUME interfaces[n].LearnRoutes, k[1] \notin LinkLocal
               PROVE  route'[k[1]] = k[2]
    OBVIOUS
  <2>1. k[2] \in RouteLinks(M, k[1])
    BY DEF RouteLinks
  <2>2. \A ix \in RouteLinks(M, k[1]) : ix = k[2]
    BY DEF RouteLinks
  <2>3. k[1] \in Addrs
    BY DEF Keys
  <2> QED
    BY <2>1, <2>2, <2>3 DEF RoutesAfterAdd
<1> QED
  BY <1>1, <1>2, <1>3 DEF Installed, SameConfig

\* A host that cannot move is mirrored on one link only.
LEMMA OneHome ==
  ASSUME NEW j \in Keys, Stays(j[1]), NEW k \in Keys, AtHome(j), AtHome(k), j[1] = k[1]
  PROVE  j = k
<1>1. j = <<j[1], j[2]>> /\ k = <<k[1], k[2]>>
  BY DEF Keys
<1>2. j[2] = k[2]
  BY DEF Stays, AtHome
<1> QED
  BY <1>1, <1>2

IntactContext ==
  /\ TypeOK /\ TypeOK' /\ Static /\ SameConfig /\ AddrViewFresh
  /\ NoLeakInv /\ HomeInv /\ HomeInv' /\ SettledIntact

\* What the cases below have to show for one mirrored host.
LEMMA IntactGoal ==
  ASSUME IntactContext,
         \A k \in Keys : \A n \in Names :
            k \in mirroredNeighs' /\ Stays(k[1]) /\ interfaces[n].Ifindex = k[2]
            => Installed(k, n)' \/ RepairPending'
  PROVE  SettledIntact'
<1>1. \A k \in mirroredNeighs' : k \in Keys
  BY DEF IntactContext, TypeOK
<1>2. \A k : \A n \in IfaceByIndex(k[2])' : n \in Names /\ interfaces[n].Ifindex = k[2]
  BY DEF IntactContext, SameConfig, IfaceByIndex
<1> QED
  BY <1>1, <1>2 DEF SettledIntact, Stays

LEMMA IntactBefore ==
  ASSUME IntactContext, NEW k \in mirroredNeighs, Stays(k[1]), NEW n \in Names,
         interfaces[n].Ifindex = k[2]
  PROVE  Installed(k, n) \/ RepairPending
  BY DEF IntactContext, SettledIntact, IfaceByIndex, SameConfig

LEMMA IntactNeighEvent ==
  ASSUME IntactContext, NEW k \in Keys, HandleNeighEvent(k)
  PROVE  SettledIntact'
<1>0. /\ SameConfig /\ Static /\ TypeOK /\ TypeOK' /\ DOMAIN interfaces = Names
      /\ reconcileScheduled' = reconcileScheduled
      /\ \A j \in mirroredNeighs : AtHome(j) /\ j \in Keys
      /\ \A j \in mirroredNeighs' : AtHome(j)
  BY DEF IntactContext, HandleNeighEvent, HomeInv, AtHome, SameConfig, TypeOK
<1>1. SUFFICES ASSUME NEW j \in Keys, NEW m \in Names, j \in mirroredNeighs', Stays(j[1]),
                      interfaces[m].Ifindex = j[2]
               PROVE  Installed(j, m)' \/ RepairPending'
  BY IntactGoal
<1>2. ASSUME NEW n \in RelayIface(k[2])
      PROVE  n \in Names /\ interfaces[n].Ifindex = k[2] /\ {<<k[1], n>>} \in SUBSET (Addrs \X Names)
  BY <1>0, IfaceTypes DEF RelayIface, IfaceByIndex, Keys
<1>3. CASE NeighIgnored(k)
  <2>1. UNCHANGED <<proxyNdp, proxy, route, routeCh, mirroredNeighs>>
    BY <1>3 DEF NeighIgnored
  <2>2. Installed(j, m) \/ RepairPending
    BY <1>1, <2>1, IntactBefore
  <2> QED
    BY <1>0, <2>1, <2>2, InstalledSame, PendingKept
<1>4. ASSUME NEW n \in RelayIface(k[2]), NeighAppears(k, n)
      PROVE  Installed(j, m)' \/ RepairPending'
  <2>1. /\ mirroredNeighs' = mirroredNeighs \cup {k} /\ MirrorAdd({<<k[1], n>>})
        /\ routeCh' = routeCh
    BY <1>4 DEF NeighAppears
  <2>2. CASE j = k
    <3>1. m = n
      BY <1>0, <1>1, <1>2, <2>2, IfaceUnique
    <3>2. \A x \in {<<k[1], n>>} : x[1] = k[1] => x[2] = n
      OBVIOUS
    <3>3. Installed(k, n)'
      BY <1>0, <1>2, <2>1, <3>2, AddSelf DEF MirrorAdd
    <3> QED
      BY <2>2, <3>1, <3>3
  <2>3. CASE j # k
    <3>1. j \in mirroredNeighs /\ j[1] # k[1]
      BY <1>0, <1>1, <2>1, <2>3, OneHome
    <3>2. Installed(j, m) \/ RepairPending
      BY <1>1, <3>1, IntactBefore
    <3>3. \A x \in {<<k[1], n>>} : x[1] # j[1]
      BY <3>1
    <3>4. Installed(j, m) => Installed(j, m)'
      BY <1>0, <1>2, <2>1, <3>3, AddOther
    <3> QED
      BY <1>0, <2>1, <3>2, <3>4, PendingKept
  <2> QED
    BY <2>2, <2>3
<1>5. ASSUME NEW n \in RelayIface(k[2]), NeighGone(k, n)
      PROVE  Installed(j, m)' \/ RepairPending'
  <2>1. mirroredNeighs' = mirroredNeighs \ {k} /\ proxyNdp' = proxyNdp
    BY <1>5 DEF NeighGone
  <2>2. j \in mirroredNeighs /\ j # k /\ (Installed(j, m) \/ RepairPending)
    BY <1>1, <2>1, IntactBefore
  <2>3. CASE k \notin mirroredNeighs
    <3>1. UNCHANGED <<proxy, route, routeCh>>
      BY <1>5, <2>3 DEF NeighGone
    <3> QED
      BY <1>0, <2>1, <2>2, <3>1, InstalledSame, PendingKept
  <2>4. CASE k \in mirroredNeighs
    <3>1. MirrorDel({<<k[1], n>>})
      BY <1>5, <2>4 DEF NeighGone
    <3>2. j[1] # k[1]
      BY <1>0, <1>1, <2>2, <2>4, OneHome
    <3>3. \A x \in {<<k[1], n>>} : x[1] # j[1]
      BY <3>2
    <3>4. route[j[1]] \in Idx \cup {NoIdx}
      BY <1>0 DEF TypeOK, KernelTypeOK, Keys
    <3>5. Installed(j, m) => Installed(j, m)'
      BY <1>0, <1>2, <2>1, <3>1, <3>3, <3>4, DelOther
    <3>6. routeCh \subseteq routeCh'
      BY <3>1 DEF MirrorDel
    <3> QED
      BY <1>0, <2>2, <3>5, <3>6, PendingKept
  <2> QED
    BY <2>3, <2>4
<1> QED
  BY <1>3, <1>4, <1>5 DEF HandleNeighEvent

LEMMA IntactAddrEvent ==
  ASSUME IntactContext, NEW k \in Keys, HandleAddrEvent(k)
  PROVE  SettledIntact'
<1>0. /\ SameConfig /\ Static /\ TypeOK /\ DOMAIN interfaces = Names
      /\ UNCHANGED <<reconcileScheduled, mirroredNeighs>>
      /\ \A j \in mirroredNeighs : j[1] \in Hosts
      /\ k[1] \notin Hosts
  BY DEF IntactContext, HandleAddrEvent, HomeInv, AtHome, SameConfig
<1>1. SUFFICES ASSUME NEW j \in Keys, NEW m \in Names, j \in mirroredNeighs', Stays(j[1]),
                      interfaces[m].Ifindex = j[2]
               PROVE  Installed(j, m)' \/ RepairPending'
  BY IntactGoal
<1>2. (Installed(j, m) \/ RepairPending) /\ j[1] # k[1] /\ route[j[1]] \in Idx \cup {NoIdx}
  BY <1>0, <1>1, IntactBefore DEF TypeOK, KernelTypeOK, Keys
<1>3. CASE UNCHANGED <<proxyNdp, proxy, route, routeCh>>
  BY <1>0, <1>2, <1>3, InstalledSame, PendingKept
<1>4. ASSUME NEW n \in IfaceByIndex(k[2]), MirrorAdd({<<k[1], n>>}), UNCHANGED routeCh
      PROVE  Installed(j, m)' \/ RepairPending'
  <2>1. {<<k[1], n>>} \in SUBSET (Addrs \X Names) /\ \A x \in {<<k[1], n>>} : x[1] # j[1]
    BY <1>0, <1>2, IfaceTypes DEF Keys
  <2>2. Installed(j, m) => Installed(j, m)'
    BY <1>0, <1>4, <2>1, AddOther
  <2> QED
    BY <1>0, <1>2, <1>4, <2>2, PendingKept
<1>5. ASSUME NEW n \in IfaceByIndex(k[2]), MirrorDel({<<k[1], n>>}), UNCHANGED proxyNdp
      PROVE  Installed(j, m)' \/ RepairPending'
  <2>1. {<<k[1], n>>} \in SUBSET (Addrs \X Names) /\ \A x \in {<<k[1], n>>} : x[1] # j[1]
    BY <1>0, <1>2, IfaceTypes DEF Keys
  <2>2. Installed(j, m) => Installed(j, m)'
    BY <1>0, <1>2, <1>5, <2>1, DelOther
  <2>3. routeCh \subseteq routeCh'
    BY <1>5 DEF MirrorDel
  <2> QED
    BY <1>0, <1>2, <2>2, <2>3, PendingKept
<1> QED
  BY <1>3, <1>4, <1>5 DEF HandleAddrEvent

LEMMA IntactReconcile ==
  ASSUME IntactContext, Reconcile
  PROVE  SettledIntact'
<1> DEFINE M == OwnMirrors \cup HostMirrors
<1>0. /\ SameConfig /\ Static /\ TypeOK /\ DOMAIN interfaces = Names
      /\ mirroredNeighs' = mirroredNeighs
      /\ \A j \in mirroredNeighs : AtHome(j) /\ j \in Keys
  BY DEF IntactContext, Reconcile, HomeInv, AtHome, SameConfig, TypeOK
<1>1. SUFFICES ASSUME NEW j \in Keys, NEW m \in Names, j \in mirroredNeighs', Stays(j[1]),
                      interfaces[m].Ifindex = j[2]
               PROVE  Installed(j, m)'
  BY IntactGoal
<1>2. M \in SUBSET (Addrs \X Names)
  BY <1>0, ReconcileMirrors
<1>3. <<j[1], m>> \in M
  <2>1. j = <<j[1], interfaces[m].Ifindex>> /\ j[1] \in Addrs
    BY <1>1 DEF Keys
  <2> QED
    BY <1>0, <1>1, <2>1 DEF HostMirrors
<1>4. ASSUME NEW x \in M, x[1] = j[1] PROVE x[2] = m
  <2> DEFINE key == <<x[1], interfaces[x[2]].Ifindex>>
  <2>0. x[1] \in Addrs /\ x[2] \in Names /\ key \in Keys /\ j[1] \in Hosts
    BY <1>0, <1>1, <1>2, <1>4 DEF TypeOK, Interface, Keys, AtHome
  <2>1. x \notin OwnMirrors
    <3>1. addrs[key] = "absent" /\ addrCh[key] = << >>
      BY <1>4, <2>0 DEF IntactContext, HomeInv
    <3>2. interfaces[x[2]].Addr6[x[1]] = "absent"
      BY <1>0, <2>0, <3>1 DEF IntactContext, AddrViewFresh
    <3> QED
      BY <3>2 DEF OwnMirrors
  <2>2. key \in mirroredNeighs
    BY <1>4, <2>1 DEF HostMirrors
  <2>3. key = j
    BY <1>0, <1>1, <1>4, <2>0, <2>2, OneHome
  <2> QED
    BY <1>0, <1>1, <2>0, <2>3, IfaceUnique
<1>5. SysctlsOf(M) \subseteq proxyNdp' /\ proxy' = proxy \cup ProxiesOf(M) /\ route' \in RoutesAfterAdd(M)
  BY DEF Reconcile
<1> HIDE DEF M
<1> QED
  BY <1>0, <1>1, <1>2, <1>3, <1>4, <1>5, AddSelf

LEMMA IntactSweep ==
  ASSUME IntactContext, Sweep
  PROVE  SettledIntact'
<1> DEFINE reaped == ({k \in Scanned : neigh[k] = "failed"} \cap mirroredNeighs) \cup Orphaned
           M == {m \in Addrs \X DOMAIN interfaces : <<m[1], interfaces[m[2]].Ifindex>> \in reaped}
<1>0. /\ SameConfig /\ Static /\ TypeOK /\ DOMAIN interfaces = Names
      /\ UNCHANGED <<reconcileScheduled, proxyNdp>>
      /\ mirroredNeighs' = mirroredNeighs \ reaped /\ MirrorDel(M)
      /\ \A j \in mirroredNeighs : AtHome(j) /\ j \in Keys
  BY DEF IntactContext, Sweep, HomeInv, AtHome, SameConfig, TypeOK
<1>1. SUFFICES ASSUME NEW j \in Keys, NEW m \in Names, j \in mirroredNeighs', Stays(j[1]),
                      interfaces[m].Ifindex = j[2]
               PROVE  Installed(j, m)' \/ RepairPending'
  BY IntactGoal
<1>2. /\ j \in mirroredNeighs /\ j \notin reaped /\ (Installed(j, m) \/ RepairPending)
      /\ route[j[1]] \in Idx \cup {NoIdx}
  BY <1>0, <1>1, IntactBefore DEF TypeOK, KernelTypeOK, Keys
<1>3. ASSUME NEW k \in reaped, k[1] = j[1] PROVE FALSE
  <2>0. k \in Keys /\ j[1] \in Hosts
    BY <1>0, <1>2, IfaceTypes DEF AtHome
  <2>1. k \in mirroredNeighs
    <3>1. CASE k \in mirroredNeighs
      BY <3>1
    <3>2. CASE k \in Orphaned
      <4>1. route[k[1]] = k[2] /\ k[2] \in Idx /\ k[1] \in Addrs /\ k = <<k[1], k[2]>>
        BY <2>0, <3>2 DEF Orphaned, Keys
      <4>2. PICK n \in Names : interfaces[n].Ifindex = k[2] /\ Reason(k[1], n)
        BY <4>1, KernelAssumption DEF IntactContext, NoLeakInv, RoutesJustified, Just
      <4>3. addrs[k] = "absent" /\ addrCh[k] = << >>
        BY <1>3, <2>0 DEF IntactContext, HomeInv
      <4>4. interfaces[n].Addr6[k[1]] = "absent"
        BY <1>0, <4>1, <4>2, <4>3 DEF IntactContext, AddrViewFresh
      <4> QED
        BY <4>1, <4>2, <4>3, <4>4 DEF Reason
    <3> QED
      BY <1>3, <3>1, <3>2
  <2>2. k = j
    BY <1>0, <1>1, <1>2, <1>3, <2>0, <2>1, OneHome
  <2> QED
    BY <1>2, <1>3, <2>2
<1>4. M \in SUBSET (Addrs \X Names) /\ \A x \in M : x[1] # j[1]
  BY <1>0, <1>3
<1>5. routeCh \subseteq routeCh'
  BY <1>0 DEF MirrorDel
<1> HIDE DEF M, reaped
<1>6. Installed(j, m) => Installed(j, m)'
  BY <1>0, <1>2, <1>4, DelOther
<1> QED
  BY <1>0, <1>2, <1>5, <1>6, PendingKept

LEMMA IntactKernel ==
  ASSUME IntactContext, KernelNext, UNCHANGED mirrorVars
  PROVE  SettledIntact'
<1>0. SameConfig /\ TypeOK /\ UNCHANGED <<mirroredNeighs, reconcileScheduled>>
  BY DEF IntactContext, mirrorVars
<1>1. SUFFICES ASSUME NEW j \in Keys, NEW m \in Names, j \in mirroredNeighs', Stays(j[1]),
                      interfaces[m].Ifindex = j[2]
               PROVE  Installed(j, m)' \/ RepairPending'
  BY IntactGoal
<1>2. Installed(j, m) \/ RepairPending
  BY <1>0, <1>1, IntactBefore
<1>3. CASE UNCHANGED <<route, proxy, proxyNdp, routeCh>>
  BY <1>0, <1>2, <1>3, InstalledSame, PendingKept
<1>4. ASSUME NEW a \in Addrs, NEW reset \in SUBSET Idx, RouteFlushed(a, reset)
      PROVE  RepairPending'
  <2>1. route[a] # NoIdx /\ route[a] \in routeCh'
    BY <1>4 DEF RouteFlushed
  <2>2. PICK n \in Names : interfaces[n].Ifindex = route[a] /\ interfaces[n].NDP = "relay"
    BY <2>1 DEF IntactContext, NoLeakInv, RoutesJustified, Just
  <2>3. PICK ix \in routeCh' : ix = route[a]
    BY <2>1
  <2>4. n \in RelayIface(ix)'
    BY <1>0, <2>2, <2>3 DEF RelayIface, IfaceByIndex, SameConfig
  <2> QED
    BY <2>4 DEF RepairPending
<1> QED
  BY <1>3, <1>4 DEF KernelNext, HostMoves, NeighLookup, NeighAnswers, NeighAges, NeighProbed,
       NeighFails, NeighGC, NeighBecomes, NeighUnchanged, AddrAdded, AddrReady, AddrRemoved, AddrBecomes

LEMMA IntactStep ==
  ASSUME TypeOK, TypeOK', Static, AddrViewFresh, NoLeakInv, HomeInv, HomeInv',
         SettledIntact, [Next]_vars
  PROVE  SettledIntact'
<1>0. IntactContext
  BY ConfigFixed DEF IntactContext
<1>1. ASSUME NEW k \in Keys, HandleNeighEvent(k) PROVE SettledIntact'
  BY <1>0, <1>1, IntactNeighEvent
<1>2. ASSUME NEW k \in Keys, HandleAddrEvent(k) PROVE SettledIntact'
  BY <1>0, <1>2, IntactAddrEvent
<1>3. CASE Reconcile
  BY <1>0, <1>3, IntactReconcile
<1>4. CASE Sweep
  BY <1>0, <1>4, IntactSweep
<1>5. CASE KernelNext /\ UNCHANGED mirrorVars
  BY <1>0, <1>5, IntactKernel
<1>6. ASSUME UNCHANGED <<route, proxy, proxyNdp, mirroredNeighs>>, RepairPending => RepairPending'
      PROVE  SettledIntact'
  <2> SUFFICES ASSUME NEW j \in Keys, NEW m \in Names, j \in mirroredNeighs', Stays(j[1]),
                      interfaces[m].Ifindex = j[2]
               PROVE  Installed(j, m)' \/ RepairPending'
    BY <1>0, IntactGoal
  <2>1. Installed(j, m) \/ RepairPending
    BY <1>0, <1>6, IntactBefore
  <2> QED
    BY <1>0, <1>6, <2>1, InstalledSame DEF IntactContext
<1>7. ASSUME NEW ix \in Idx, NEW last \in BOOLEAN, HandleRouteEvent(ix, last) PROVE SettledIntact'
  <2>1. CASE RelayIface(ix) # {}
    <3>1. reconcileScheduled'
      BY <1>7, <2>1 DEF HandleRouteEvent, ScheduleReconcile
    <3> QED
      BY <1>6, <1>7, <3>1 DEF HandleRouteEvent, RepairPending
  <2>2. CASE RelayIface(ix) = {}
    <3>1. /\ reconcileScheduled' = reconcileScheduled
          /\ \A i \in routeCh : i = ix \/ i \in routeCh'
      BY <1>7, <2>2 DEF HandleRouteEvent
    <3>2. RepairPending => RepairPending'
      BY <1>0, <2>2, <3>1, ConfigDerived DEF RepairPending, IntactContext
    <3> QED
      BY <1>6, <1>7, <3>2 DEF HandleRouteEvent
  <2> QED
    BY <2>1, <2>2
<1>8. CASE UNCHANGED <<route, proxy, proxyNdp, routeCh, mirroredNeighs, reconcileScheduled>>
  BY <1>0, <1>6, <1>8, PendingKept DEF IntactContext
<1> QED
  BY <1>1, <1>2, <1>3, <1>4, <1>5, <1>7, <1>8
  DEF Next, Engine, HandleSolicit, vars, kernelVars, mirrorVars

\* A flush never leaves a mirrored host without its route, proxy entries or
\* proxy_ndp unless a repair is pending, provided that host cannot change links:
\* however often other hosts roam, the FAILED events of the links they leave
\* take nothing from a host that stays.
THEOREM SettledHostsStayIntact == Spec => []SettledIntact
<1>1. Init => SettledIntact
  BY DEF Init, SettledIntact
<1>2. /\ TypeOK /\ TypeOK' /\ Static /\ AddrViewFresh /\ NoLeakInv /\ HomeInv /\ HomeInv'
      /\ SettledIntact /\ [Next]_vars
      => SettledIntact'
  BY IntactStep
<1> QED
  BY <1>1, <1>2, TypeCorrect, StaticInvariant, AddrInvariant, NoLeakInvariant, HomeInvariant,
     PTL DEF Spec

\* Where no host ever changes links, that is MirrorIntact.  (For a host that
\* roams between two slaves it is false: the one route follows the host while
\* the old link's mirror is still held, and the FAILED event of the old link
\* then removes the proxy entry that the new link's mirror needs.)
THEOREM MirrorStaysIntact ==
  ASSUME SingleHomed
  PROVE  Spec => []MirrorIntact
<1>1. HomeInv /\ SettledIntact => MirrorIntact
  BY DEF HomeInv, AtHome, SettledIntact, MirrorIntact, SingleHomed
<1> QED
  BY <1>1, HomeInvariant, SettledHostsStayIntact, PTL
=============================================================================
