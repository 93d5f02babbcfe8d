--------------------------- MODULE AddressesProofs ---------------------------
(***************************************************************************)
(* The copy of the address list, for any addresses, lifetimes, word size   *)
(* and clock.                                                              *)
(***************************************************************************)
EXTENDS Addresses, SequenceTheorems, WellFoundedInduction, TLAPS

Assignment == [addr : Addrs, pref : 1..Forever, valid : 1..Forever, tentative : BOOLEAN]
Copied == [addr : Addrs, pref : 0..Word, valid : 0..Word, tentative : BOOLEAN]

\* No lifetime with an end is as long as the word, so none looks like one without.
Finite(end) == end = Forever \/ end < now + Word
EndsOK == \A k \in DOMAIN kernel : Finite(kernel[k].pref) /\ Finite(kernel[k].valid)

\* The absolute time t stands for end: 0 for none, the word for all from there on,
\* and for an end that has passed any time since.
Stands(t, end) ==
  IF end = Forever THEN t = 0
  ELSE t # 0 /\ (t = end \/ (t = Word /\ end >= Word) \/ (end <= t /\ t <= now))

CopyOK ==
  UpToDate =>
    /\ DOMAIN addr6 = DOMAIN kernel
    /\ \A k \in DOMAIN kernel :
         /\ addr6[k].addr = kernel[k].addr /\ addr6[k].tentative = kernel[k].tentative
         /\ Stands(addr6[k].pref, kernel[k].pref)
         /\ Stands(addr6[k].valid, kernel[k].valid)

\* The cached source was taken from the list that is there now, and there is none
\* to take it from after a failing dump.
CacheOK ==
  /\ ~fetched => addr6 = <<>>
  /\ cachedLL # NoAddr => \E k \in DOMAIN addr6 : addr6[k].addr = cachedLL /\ ~addr6[k].tentative

Inv == TypeOK /\ EndsOK /\ CopyOK /\ CacheOK

\* What relayLinkAddress tests on the copy, an address's being expired or preferred, is
\* what the kernel's own times say at that moment, whatever time has passed since
\* fetchAddr6 made the copy.
LifetimesExact ==
  UpToDate =>
    \A k \in DOMAIN kernel :
      /\ Expired(addr6[k]) <=> kernel[k].valid <= now
      /\ Preferred(addr6[k]) <=> kernel[k].pref > now

-----------------------------------------------------------------------------
\* The times in the two lists.
LEMMA Elements ==
  ASSUME TypeOK
  PROVE  /\ now \in 1..MaxNow /\ kernel \in Seq(Assignment) /\ addr6 \in Seq(Copied)
         /\ \A k \in DOMAIN kernel : /\ kernel[k] \in Assignment
                                     /\ kernel[k].addr \in Addrs
                                     /\ kernel[k].pref \in 1..Forever
                                     /\ kernel[k].valid \in 1..Forever
         /\ \A k \in DOMAIN addr6 : /\ addr6[k].addr \in Addrs
                                    /\ addr6[k].pref \in 0..Word
                                    /\ addr6[k].valid \in 0..Word
<1>1. now \in 1..MaxNow /\ kernel \in Seq(Assignment) /\ addr6 \in Seq(Copied)
  BY DEF TypeOK, Assignment, Copied
<1>2. /\ \A k \in DOMAIN kernel : kernel[k] \in Assignment
      /\ \A k \in DOMAIN addr6 : addr6[k] \in Copied
  BY <1>1
<1> QED
  BY <1>1, <1>2 DEF Assignment, Copied

\* LifetimeAbs of what a dump reports stands for the end of the lifetime.
LEMMA AbsStands ==
  ASSUME now \in 1..MaxNow, NEW end \in 1..Forever, Finite(end)
  PROVE  LifetimeAbs(Lft(end), now) \in 0..Word /\ Stands(LifetimeAbs(Lft(end), now), end)
BY AddressesAssumption DEF LifetimeAbs, Lft, Stands, Finite, Forever

LEMMA FetchOK ==
  ASSUME TypeOK, EndsOK
  PROVE  /\ FetchAddr6 \in Seq(Copied) /\ DOMAIN FetchAddr6 = DOMAIN kernel
         /\ \A k \in DOMAIN kernel :
              /\ FetchAddr6[k].addr = kernel[k].addr
              /\ FetchAddr6[k].tentative = kernel[k].tentative
              /\ Stands(FetchAddr6[k].pref, kernel[k].pref)
              /\ Stands(FetchAddr6[k].valid, kernel[k].valid)
<1>1. kernel \in Seq(Assignment) /\ now \in 1..MaxNow
  BY DEF TypeOK, Assignment
<1>2. ASSUME NEW k \in DOMAIN kernel
      PROVE  /\ FetchAddr6[k] \in Copied
             /\ FetchAddr6[k].addr = kernel[k].addr
             /\ FetchAddr6[k].tentative = kernel[k].tentative
             /\ Stands(FetchAddr6[k].pref, kernel[k].pref)
             /\ Stands(FetchAddr6[k].valid, kernel[k].valid)
  <2>1. kernel[k] \in Assignment
    BY <1>1
  <2>2. /\ kernel[k].pref \in 1..Forever /\ kernel[k].valid \in 1..Forever
        /\ Finite(kernel[k].pref) /\ Finite(kernel[k].valid)
    BY <2>1 DEF Assignment, EndsOK
  <2>3. /\ LifetimeAbs(Lft(kernel[k].pref), now) \in 0..Word
        /\ LifetimeAbs(Lft(kernel[k].valid), now) \in 0..Word
        /\ Stands(LifetimeAbs(Lft(kernel[k].pref), now), kernel[k].pref)
        /\ Stands(LifetimeAbs(Lft(kernel[k].valid), now), kernel[k].valid)
    BY <1>1, <2>2, AbsStands
  <2> QED
    BY <2>1, <2>3 DEF FetchAddr6, Assignment, Copied
<1>3. DOMAIN FetchAddr6 = 1..Len(kernel) /\ Len(kernel) \in Nat
  BY <1>1 DEF FetchAddr6
<1>4. FetchAddr6 \in [1..Len(kernel) -> Copied]
  BY <1>2, <1>3 DEF FetchAddr6
<1>5. FetchAddr6 \in Seq(Copied)
  BY <1>3, <1>4, SeqDef
<1> QED
  BY <1>2, <1>5 DEF FetchAddr6

\* The lifetimes the kernel assigns have an end within the word, or none.
LEMMA TimesOK ==
  ASSUME now \in 1..MaxNow, NEW a \in Addrs, NEW t \in Times(a)
  PROVE  t[1] \in 1..Forever /\ t[2] \in 1..Forever /\ Finite(t[1]) /\ Finite(t[2])
<1> DEFINE until == {now + l : l \in Lifetimes} \cup {Forever}
<1>1. \A u \in until : u \in 1..Forever /\ Finite(u)
  BY AddressesAssumption DEF Finite, Forever
<1>2. t[1] \in until /\ t[2] \in until
  BY DEF Times
<1> QED
  BY <1>1, <1>2

LEMMA InitInv == Init => Inv
BY AddressesAssumption
   DEF Init, Inv, TypeOK, EndsOK, CopyOK, CacheOK

\* A step of the kernel leaves an event to be handled.
LEMMA KernelStep ==
  ASSUME Inv, Notify, UNCHANGED <<now, addr6, cachedLL, fetched>>,
         kernel' \in Seq(Assignment),
         \A k \in DOMAIN kernel' : Finite(kernel'[k].pref) /\ Finite(kernel'[k].valid)
  PROVE  Inv'
<1>1. TypeOK'
  BY AddressesAssumption DEF Inv, TypeOK, Notify, Assignment, Forever
<1>2. EndsOK'
  BY DEF EndsOK, Finite, Forever
<1>3. CopyOK'
  BY AddressesAssumption DEF Inv, TypeOK, CopyOK, UpToDate, Notify
<1>4. CacheOK'
  BY DEF Inv, CacheOK
<1> QED
  BY <1>1, <1>2, <1>3, <1>4 DEF Inv

LEMMA AddrAddedStep ==
  ASSUME Inv, NEW a \in Addrs, AddrAdded(a)
  PROVE  Inv'
<1>1. PICK t \in Times(a) :
        kernel' = Append(kernel, [addr |-> a, pref |-> t[1], valid |-> t[2], tentative |-> TRUE])
  BY DEF AddrAdded
<1>2. t[1] \in 1..Forever /\ t[2] \in 1..Forever /\ Finite(t[1]) /\ Finite(t[2])
  BY TimesOK DEF Inv, TypeOK
<1>3. kernel \in Seq(Assignment)
  BY DEF Inv, TypeOK, Assignment
<1>4. [addr |-> a, pref |-> t[1], valid |-> t[2], tentative |-> TRUE] \in Assignment
  BY <1>2 DEF Assignment
<1>5. kernel' \in Seq(Assignment)
  BY <1>1, <1>3, <1>4
<1>6. ASSUME NEW k \in DOMAIN kernel' PROVE Finite(kernel'[k].pref) /\ Finite(kernel'[k].valid)
  <2>1. CASE k \in DOMAIN kernel
    <3>1. kernel'[k] = kernel[k]
      BY <1>1, <1>3, <1>4, <2>1
    <3> QED
      BY <2>1, <3>1 DEF Inv, EndsOK
  <2>2. CASE k \notin DOMAIN kernel
    <3>1. k = Len(kernel) + 1
      BY <1>1, <1>3, <1>4, <2>2
    <3> QED
      BY <1>1, <1>2, <1>3, <1>4, <3>1
  <2> QED
    BY <2>1, <2>2
<1> QED
  BY <1>5, <1>6, KernelStep DEF AddrAdded

LEMMA AddrChangedStep ==
  ASSUME Inv, NEW k \in DOMAIN kernel, AddrChanged(k)
  PROVE  Inv'
<1>1. kernel \in Seq(Assignment) /\ kernel[k] \in Assignment /\ now \in 1..MaxNow
  BY Elements DEF Inv
<1>2. CASE kernel' = [kernel EXCEPT ![k].tentative = FALSE]
  <2>1. [kernel[k] EXCEPT !.tentative = FALSE] \in Assignment
    BY <1>1 DEF Assignment
  <2>2. kernel' \in Seq(Assignment)
    BY <1>1, <1>2, <2>1
  <2>3. \A j \in DOMAIN kernel' : Finite(kernel'[j].pref) /\ Finite(kernel'[j].valid)
    BY <1>1, <1>2 DEF Inv, EndsOK, Assignment
  <2> QED
    BY <2>2, <2>3, KernelStep DEF AddrChanged
<1>3. CASE \E t \in Times(kernel[k].addr) :
             kernel' = [kernel EXCEPT ![k].pref = t[1], ![k].valid = t[2]]
  <2>1. PICK t \in Times(kernel[k].addr) :
          kernel' = [kernel EXCEPT ![k].pref = t[1], ![k].valid = t[2]]
    BY <1>3
  <2>2. t[1] \in 1..Forever /\ t[2] \in 1..Forever /\ Finite(t[1]) /\ Finite(t[2])
    BY <1>1, TimesOK DEF Assignment
  <2>3. [kernel[k] EXCEPT !.pref = t[1], !.valid = t[2]] \in Assignment
    BY <1>1, <2>2 DEF Assignment
  <2>4. kernel' = [kernel EXCEPT ![k] = [kernel[k] EXCEPT !.pref = t[1], !.valid = t[2]]]
    BY <1>1, <2>1 DEF Assignment
  <2>5. kernel' \in Seq(Assignment)
    BY <1>1, <2>3, <2>4
  <2>6. \A j \in DOMAIN kernel' : Finite(kernel'[j].pref) /\ Finite(kernel'[j].valid)
    BY <1>1, <2>2, <2>4 DEF Inv, EndsOK, Assignment
  <2> QED
    BY <2>5, <2>6, KernelStep DEF AddrChanged
<1> QED
  BY <1>2, <1>3 DEF AddrChanged

LEMMA AddrRemovedStep ==
  ASSUME Inv, NEW k \in DOMAIN kernel, AddrRemoved(k)
  PROVE  Inv'
<1> DEFINE front == SubSeq(kernel, 1, k - 1)
           back == SubSeq(kernel, k + 1, Len(kernel))
<1>1. kernel \in Seq(Assignment) /\ k \in 1..Len(kernel) /\ Len(kernel) \in Nat
  BY DEF Inv, TypeOK, Assignment
<1>2. kernel' = front \o back
  BY DEF AddrRemoved, RemoveAt
<1>3. /\ front \in Seq(Assignment) /\ Len(front) = k - 1
      /\ back \in Seq(Assignment) /\ Len(back) = Len(kernel) - k
      /\ \A j \in 1..(k - 1) : front[j] = kernel[j]
      /\ \A j \in 1..(Len(kernel) - k) : back[j] = kernel[k + j]
  BY <1>1
<1> HIDE DEF front, back
<1>4. kernel' \in Seq(Assignment)
  BY <1>2, <1>3
<1>5. ASSUME NEW j \in DOMAIN kernel' PROVE \E i \in DOMAIN kernel : kernel'[j] = kernel[i]
  <2>1. DOMAIN kernel = 1..Len(kernel) /\ j \in 1..(Len(kernel) - 1)
    BY <1>1, <1>2, <1>3
  <2>2. CASE j < k
    <3>1. kernel'[j] = front[j] /\ front[j] = kernel[j]
      BY <1>1, <1>2, <1>3, <2>1, <2>2
    <3> QED
      BY <1>1, <2>1, <3>1
  <2>3. CASE ~(j < k)
    <3>1. kernel'[j] = back[j - (k - 1)]
      BY <1>1, <1>2, <1>3, <2>1, <2>3
    <3>2. j - (k - 1) \in 1..(Len(kernel) - k) /\ k + (j - (k - 1)) = j + 1
      BY <1>1, <2>1, <2>3
    <3>3. back[j - (k - 1)] = kernel[j + 1]
      BY <1>3, <3>2, Zenon
    <3> QED
      BY <1>1, <2>1, <2>3, <3>1, <3>3
  <2> QED
    BY <2>2, <2>3
<1>6. \A j \in DOMAIN kernel' : Finite(kernel'[j].pref) /\ Finite(kernel'[j].valid)
  BY <1>5 DEF Inv, EndsOK
<1> QED
  BY <1>4, <1>6, KernelStep DEF AddrRemoved

LEMMA TickStep ==
  ASSUME Inv, Tick
  PROVE  Inv'
<1>1. now \in 1..MaxNow /\ now' = now + 1 /\ now' \in 1..MaxNow
  BY AddressesAssumption DEF Inv, TypeOK, Tick
<1>2. TypeOK'
  BY <1>1 DEF Inv, TypeOK, Tick, Forever
<1>3. \A k \in DOMAIN kernel : kernel[k].pref \in 1..Forever /\ kernel[k].valid \in 1..Forever
  BY Elements DEF Inv
<1>4. EndsOK'
  BY <1>1, <1>3, AddressesAssumption DEF Inv, EndsOK, Finite, Forever, Tick
<1>5. CopyOK'
  <2> SUFFICES ASSUME UpToDate, DOMAIN addr6 = DOMAIN kernel, NEW k \in DOMAIN kernel
               PROVE  /\ Stands(addr6[k].pref, kernel[k].pref)'
                      /\ Stands(addr6[k].valid, kernel[k].valid)'
    BY DEF Inv, CopyOK, UpToDate, Tick
  <2>1. addr6[k].pref \in 0..Word /\ addr6[k].valid \in 0..Word
    BY Elements DEF Inv
  <2>2. Stands(addr6[k].pref, kernel[k].pref) /\ Stands(addr6[k].valid, kernel[k].valid)
    BY DEF Inv, CopyOK
  <2> QED
    BY <1>1, <1>3, <2>1, <2>2, AddressesAssumption DEF Stands, Forever, Tick
<1>6. CacheOK'
  BY DEF Inv, CacheOK, Tick
<1> QED
  BY <1>2, <1>4, <1>5, <1>6 DEF Inv

LEMMA RefreshStep ==
  ASSUME Inv, RefreshInterfaceAddresses, UNCHANGED <<now, kernel>>, events' \in 0..MaxEvents
  PROVE  Inv'
<1>1. addr6' = FetchAddr6 \/ (addr6' = <<>> /\ fetched' = FALSE)
  BY DEF RefreshInterfaceAddresses
<1>2. FetchAddr6 \in Seq(Copied)
  BY FetchOK DEF Inv
<1>3. addr6' \in Seq(Copied)
  BY <1>1, <1>2, EmptySeq
<1>4. TypeOK'
  BY <1>3 DEF Inv, TypeOK, RefreshInterfaceAddresses, Copied, Forever
<1>5. EndsOK'
  BY DEF Inv, EndsOK, Finite, Forever
<1>6. CopyOK'
  BY <1>1, FetchOK DEF Inv, CopyOK, UpToDate, Stands, Forever
<1>7. CacheOK'
  BY DEF CacheOK, RefreshInterfaceAddresses
<1> QED
  BY <1>4, <1>5, <1>6, <1>7 DEF Inv

LEMMA GetLinkLocalAddrStep ==
  ASSUME Inv, GetLinkLocalAddr
  PROVE  Inv'
<1>1. PICK k \in DOMAIN addr6 : /\ ~addr6[k].tentative /\ addr6[k].addr \in LinkLocals
                                /\ cachedLL' = addr6[k].addr
  BY DEF GetLinkLocalAddr
<1>2. UNCHANGED <<now, kernel, events, addr6, fetched>>
  BY DEF GetLinkLocalAddr
<1>3. TypeOK'
  BY <1>1, <1>2 DEF Inv, TypeOK, Forever
<1>4. EndsOK'
  BY <1>2 DEF Inv, EndsOK, Finite, Forever
<1>5. CopyOK'
  BY <1>2 DEF Inv, CopyOK, UpToDate, Stands, Forever
<1>6. CacheOK'
  BY <1>1, <1>2 DEF Inv, CacheOK
<1> QED
  BY <1>3, <1>4, <1>5, <1>6 DEF Inv

LEMMA InvStep == Inv /\ [Next]_vars => Inv'
<1> SUFFICES ASSUME Inv, [Next]_vars PROVE Inv'
  OBVIOUS
<1>1. CASE \E a \in Addrs : AddrAdded(a)
  BY <1>1, AddrAddedStep
<1>2. CASE \E k \in DOMAIN kernel : AddrChanged(k) \/ AddrRemoved(k)
  BY <1>2, AddrChangedStep, AddrRemovedStep
<1>3. CASE Tick
  BY <1>3, TickStep
<1>4. CASE HandleAddrEvent
  <2>1. events' \in 0..MaxEvents
    BY <1>4, AddressesAssumption DEF Inv, TypeOK, HandleAddrEvent
  <2> QED
    BY <1>4, <2>1, RefreshStep DEF HandleAddrEvent
<1>5. CASE Refresh
  <2>1. events' \in 0..MaxEvents
    BY <1>5 DEF Inv, TypeOK, Refresh
  <2> QED
    BY <1>5, <2>1, RefreshStep DEF Refresh
<1>6. CASE GetLinkLocalAddr
  BY <1>6, GetLinkLocalAddrStep
<1>7. CASE UNCHANGED vars
  BY <1>7 DEF Inv, TypeOK, EndsOK, CopyOK, CacheOK, UpToDate, Finite, Stands, Forever, vars
<1> QED
  BY <1>1, <1>2, <1>3, <1>4, <1>5, <1>6, <1>7 DEF Next

LEMMA InvHolds == Spec => []Inv
BY InitInv, InvStep, PTL DEF Spec

-----------------------------------------------------------------------------
\* Once the address events are handled, the cached link-local source is an address
\* the interface has and may use, whether the dumps of refreshInterfaceAddresses
\* worked or failed (getLinkLocalAddr, fetchAddr6).
THEOREM SourceIsAssigned == Spec => []SourceAssigned
<1>1. Inv => SourceAssigned
  BY DEF Inv, CopyOK, CacheOK, UpToDate, SourceAssigned
<1> QED
  BY <1>1, InvHolds, PTL

LEMMA InvExact == Inv => LifetimesExact
<1>1. ASSUME Inv, UpToDate, NEW k \in DOMAIN kernel
      PROVE  /\ Expired(addr6[k]) <=> kernel[k].valid <= now
             /\ Preferred(addr6[k]) <=> kernel[k].pref > now
  <2>1. /\ addr6[k].pref \in 0..Word /\ addr6[k].valid \in 0..Word
        /\ kernel[k].pref \in 1..Forever /\ kernel[k].valid \in 1..Forever
        /\ now \in 1..MaxNow
    BY <1>1, Elements DEF Inv, CopyOK
  <2>2. Stands(addr6[k].pref, kernel[k].pref) /\ Stands(addr6[k].valid, kernel[k].valid)
    BY <1>1 DEF Inv, CopyOK
  <2> QED
    BY <2>1, <2>2, AddressesAssumption DEF Stands, Expired, Preferred, Forever
<1> QED
  BY <1>1 DEF LifetimesExact

\* Lifetimes stay exact in the copy for every word size: the saturation of fetchAddr6
\* never makes an address that is in use look expired, nor an end look like none.
THEOREM LifetimesAreExact == Spec => []LifetimesExact
BY InvExact, InvHolds, PTL

-----------------------------------------------------------------------------
(* Loops.  The library's induction principles have an operator for the      *)
(* statement to be proved, which the provers cannot instantiate; the least   *)
(* counterexample of a statement does as well and is about a set only.       *)

LEMMA LeastElement ==
  ASSUME NEW T, T \subseteq Nat, T # {}
  PROVE  \E x \in T : \A y \in T : x <= y
<1> DEFINE R == OpToRel(<, Nat)
<1>1. IsWellFoundedOn(R, Nat)
  BY NatLessThanWellFounded
<1>2. \A x, y \in Nat : x < y => <<x, y>> \in R
  BY SMT DEF OpToRel
<1> HIDE DEF R
<1>3. PICK x \in T : \A y \in T : ~(<<y, x>> \in R)
  BY <1>1, WFMin
<1>4. ASSUME NEW y \in T PROVE x <= y
  <2>1. x \in Nat /\ y \in Nat /\ <<y, x>> \notin R
    BY <1>3
  <2>2. ~(y < x)
    BY <1>2, <2>1, Zenon
  <2> QED
    BY <2>1, <2>2
<1> QED
  BY <1>3, <1>4

\* The history f of a loop of n rounds on a value in S, where round k turns v into
\* round[k][v].
History(f, n, S, start, round) ==
  /\ f \in [0..n -> S]
  /\ f[0] = start /\ \A k \in 1..n : f[k] = round[k][f[k - 1]]

LEMMA LoopHasHistory ==
  ASSUME NEW n \in Nat, NEW S, NEW start \in S, NEW round \in [1..n -> [S -> S]]
  PROVE  \E f : History(f, n, S, start, round)
<1> DEFINE Upto(m, f) == f[0] = start /\ \A k \in 1..m : f[k] = round[k][f[k - 1]]
           Bad == {m \in 0..n : ~\E f \in [0..m -> S] : Upto(m, f)}
<1> SUFFICES ASSUME Bad # {} PROVE FALSE
  <2>1. n \notin Bad => \E f \in [0..n -> S] : Upto(n, f)
    OBVIOUS
  <2> QED
    BY <2>1 DEF History
<1>1. PICK m \in Bad : \A j \in Bad : m <= j
  <2>1. Bad \subseteq Nat
    OBVIOUS
  <2> HIDE DEF Bad
  <2> QED
    BY <2>1, LeastElement
<1>2. CASE m = 0
  <2>1. [k \in 0..0 |-> start] \in [0..0 -> S] /\ Upto(0, [k \in 0..0 |-> start])
    OBVIOUS
  <2> QED
    BY <1>2, <2>1
<1>3. CASE m # 0
  <2>0. m \in 1..n /\ m - 1 \in 0..n /\ ~(m <= m - 1)
    BY <1>3
  <2>1. m \in 1..n /\ m - 1 \in 0..n /\ m - 1 \notin Bad
    <3> HIDE DEF Bad
    <3> QED
      BY <1>1, <2>0
  <2>2. PICK f \in [0..(m - 1) -> S] : Upto(m - 1, f)
    BY <2>1
  <2> DEFINE g == [k \in 0..m |-> IF k = m THEN round[m][f[m - 1]] ELSE f[k]]
  <2>3. round[m][f[m - 1]] \in S
    BY <2>1
  <2>4. g \in [0..m -> S]
    BY <2>1, <2>3
  <2>5. g[0] = start
    BY <2>1, <2>2
  <2>6. ASSUME NEW k \in 1..m PROVE g[k] = round[k][g[k - 1]]
    <3>1. CASE k = m
      <4>1. g[m] = round[m][f[m - 1]] /\ g[m - 1] = f[m - 1]
        BY <2>1
      <4> QED
        BY <3>1, <4>1
    <3>2. CASE k # m
      <4>1. k \in 1..(m - 1) /\ g[k] = f[k] /\ g[k - 1] = f[k - 1]
        BY <2>1, <3>2
      <4> QED
        BY <2>2, <4>1
    <3> QED
      BY <3>1, <3>2
  <2> HIDE DEF g
  <2> QED
    BY <2>4, <2>5, <2>6
<1> QED
  BY <1>2, <1>3

-----------------------------------------------------------------------------
(* The loop of relayLinkAddress.                                            *)

Usable(k) == ~addr6[k].tentative /\ ~Expired(addr6[k])

\* The copy says that address b is valid at least as long as j.
Outlasts(b, j) == addr6[b].valid = 0 \/ (addr6[j].valid # 0 /\ addr6[b].valid >= addr6[j].valid)

\* The best address of the first k: none if none can be used, otherwise a preferred one
\* or, if there is none, one that outlasts the others.
BestOf(b, k) ==
  /\ b = 0 => \A j \in 1..k : ~Usable(j)
  /\ b # 0 => /\ b \in 1..k /\ Usable(b)
              /\ \/ Preferred(addr6[b])
                 \/ \A j \in 1..k : Usable(j) => ~Preferred(addr6[j]) /\ Outlasts(b, j)

Round(b, k) ==
  IF b # 0 /\ Preferred(addr6[b]) THEN b ELSE IF Better(b, k) THEN k ELSE b

Best == CHOOSE best : best = [k \in 0..Len(addr6) |->
                                IF k = 0 THEN 0 ELSE Round(best[k - 1], k)]

LEMMA LinkAddressIsBest ==
  RelayLinkAddress = IF Best[Len(addr6)] = 0 THEN NoAddr ELSE addr6[Best[Len(addr6)]].addr
BY Zenon DEF RelayLinkAddress, Best, Round

LEMMA BestEquation ==
  ASSUME TypeOK
  PROVE  Best = [k \in 0..Len(addr6) |-> IF k = 0 THEN 0 ELSE Round(Best[k - 1], k)]
<1> DEFINE n == Len(addr6)
           Eq(f) == f = [k \in 0..n |-> IF k = 0 THEN 0 ELSE Round(f[k - 1], k)]
           round == [k \in 1..n |-> [b \in 0..n |-> Round(b, k)]]
<1>1. n \in Nat /\ 0 \in 0..n
  BY Elements
<1>2. round \in [1..n -> [0..n -> 0..n]]
  BY <1>1 DEF Round
<1>3. \E f : History(f, n, 0..n, 0, round)
  <2> HIDE DEF round, n
  <2> QED
    BY <1>1, <1>2, LoopHasHistory
<1>4. PICK f \in [0..n -> 0..n] : f[0] = 0 /\ \A k \in 1..n : f[k] = round[k][f[k - 1]]
  BY <1>3 DEF History
<1>5. ASSUME NEW k \in 1..n PROVE f[k] = Round(f[k - 1], k)
  <2>1. f[k] = round[k][f[k - 1]] /\ k - 1 \in 0..n
    BY <1>1, <1>4
  <2>2. f[k - 1] \in 0..n
    BY <2>1
  <2> QED
    BY <2>1, <2>2
<1>6. Eq(f)
  BY <1>1, <1>4, <1>5
<1>7. Best = CHOOSE best : Eq(best)
  BY Zenon DEF Best
<1> HIDE DEF Eq
<1>8. Eq(Best)
  BY <1>6, <1>7
<1> QED
  BY <1>8 DEF Eq

LEMMA RoundKeepsBest ==
  ASSUME TypeOK, NEW k \in 1..Len(addr6), NEW b, BestOf(b, k - 1)
  PROVE  BestOf(Round(b, k), k)
<1>1. Len(addr6) \in Nat /\ DOMAIN addr6 = 1..Len(addr6)
  BY Elements
<1>2. \A j \in 1..Len(addr6) : addr6[j].valid \in Nat
  BY <1>1, Elements, AddressesAssumption
<1>3. \A j \in 1..k : j \in 1..(k - 1) \/ j = k
  BY <1>1
<1> QED
  BY <1>1, <1>2, <1>3 DEF BestOf, Round, Better, Usable, Outlasts

LEMMA BestIsBest ==
  ASSUME TypeOK
  PROVE  BestOf(Best[Len(addr6)], Len(addr6))
<1> DEFINE n == Len(addr6)
           Bad == {k \in 0..n : ~BestOf(Best[k], k)}
<1>1. n \in Nat
  BY Elements
<1>2. Best[0] = 0 /\ \A k \in 1..n : Best[k] = Round(Best[k - 1], k)
  BY <1>1, BestEquation
<1> SUFFICES ASSUME Bad # {} PROVE FALSE
  BY <1>1
<1>3. PICK k \in Bad : \A j \in Bad : k <= j
  <2>1. Bad \subseteq Nat
    OBVIOUS
  <2> HIDE DEF Bad
  <2> QED
    BY <2>1, LeastElement
<1>4. k # 0
  BY <1>2 DEF BestOf
<1>5. k \in 1..n /\ BestOf(Best[k - 1], k - 1)
  BY <1>1, <1>3, <1>4
<1>6. BestOf(Best[k], k)
  BY <1>2, <1>5, RoundKeepsBest
<1> QED
  BY <1>6

\* relayLinkAddress on an up-to-date copy picks what the kernel's list would have it
\* pick, for lists of any length, any lifetimes and any age of the copy.
THEOREM LinkAddressIsRight == Spec => []PicksAsDocumented
<1>1. ASSUME Inv, UpToDate
      PROVE  PicksAsDocumented
  <2> DEFINE usable == {k \in DOMAIN kernel : ~kernel[k].tentative /\ kernel[k].valid > now}
             prefs == {k \in usable : kernel[k].pref > now}
             longest == {k \in usable : \A j \in usable :
                           kernel[k].valid >= kernel[j].valid
                             \/ (kernel[k].valid >= Word /\ kernel[j].valid # Forever)}
             b == Best[Len(addr6)]
  <2>1. /\ DOMAIN kernel = 1..Len(addr6) /\ DOMAIN addr6 = DOMAIN kernel
        /\ \A k \in DOMAIN kernel :
             /\ addr6[k].addr = kernel[k].addr /\ addr6[k].tentative = kernel[k].tentative
             /\ Stands(addr6[k].valid, kernel[k].valid)
             /\ addr6[k].valid \in 0..Word /\ kernel[k].valid \in 1..Forever
             /\ kernel[k].pref \in 1..Forever
        /\ now \in 1..MaxNow
    BY <1>1, Elements DEF Inv, CopyOK
  <2>2. \A k \in DOMAIN kernel : /\ Expired(addr6[k]) <=> kernel[k].valid <= now
                                 /\ Preferred(addr6[k]) <=> kernel[k].pref > now
    BY <1>1, InvExact DEF LifetimesExact
  <2>3. /\ \A k \in DOMAIN kernel : Usable(k) <=> k \in usable
        /\ \A k \in usable : Preferred(addr6[k]) <=> k \in prefs
    BY <2>1, <2>2, AddressesAssumption DEF Usable, Forever
  <2>4. \A j, k \in usable : Outlasts(k, j) =>
          \/ kernel[k].valid >= kernel[j].valid
          \/ kernel[k].valid >= Word /\ kernel[j].valid # Forever
    BY <2>1, AddressesAssumption DEF Outlasts, Stands, Forever
  <2>5. BestOf(b, Len(addr6))
    BY <1>1, BestIsBest DEF Inv
  <2>6. RelayLinkAddress = IF b = 0 THEN NoAddr ELSE addr6[b].addr
    BY LinkAddressIsBest
  <2>7. CASE b = 0
    <3>1. usable = {}
      BY <2>1, <2>3, <2>5, <2>7 DEF BestOf
    <3> QED
      BY <2>6, <2>7, <3>1 DEF PicksAsDocumented
  <2>8. CASE b # 0
    <3>1. b \in usable /\ RelayLinkAddress = kernel[b].addr
      BY <2>1, <2>3, <2>5, <2>6, <2>8 DEF BestOf
    <3>2. prefs # {} => b \in prefs
      BY <2>1, <2>3, <2>5, <2>8, <3>1 DEF BestOf
    <3>3. prefs = {} => b \in longest
      <4> SUFFICES ASSUME prefs = {}, NEW j \in usable PROVE Outlasts(b, j)
        BY <2>4, <3>1
      <4> QED
        BY <2>1, <2>3, <2>5, <2>8, <3>1 DEF BestOf
    <3>4. b \in IF prefs # {} THEN prefs ELSE longest
      BY <3>2, <3>3
    <3> HIDE DEF b
    <3> QED
      BY <3>1, <3>4 DEF PicksAsDocumented
  <2> QED
    BY <2>7, <2>8
<1>2. Inv => PicksAsDocumented
  BY <1>1 DEF PicksAsDocumented
<1> QED
  BY <1>2, InvHolds, PTL
=============================================================================
