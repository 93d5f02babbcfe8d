---------------------------- MODULE ForwardProofs ----------------------------
(***************************************************************************)
(* Advertisements of any length, forwarded to any number of slaves.        *)
(***************************************************************************)
EXTENDS Forward, SequenceTheorems, WellFoundedInduction, TLAPS

-----------------------------------------------------------------------------
(* What fixSourceLinkAddrOption makes of the options, by induction: there   *)
(* is no least round after which the packet is not as it should be.         *)

LEMMA LeastElement ==
  ASSUME NEW T, T \subseteq Nat, T # {}
  PROVE  \E x \in T : \A y \in T : x <= y
<1> DEFINE R == OpToRel(<, Nat)
<1>1. IsWellFoundedOn(R, Nat)
  BY NatLessThanWellFounded
<1>2. \A x, y \in Nat : x < y => <<x, y>> \in R
  BY SMT DEF OpToRel
<1> HIDE DEF R
<1>3. PICK x \in T : \A y \in T : ~(<<y, x>> \in R)
  BY <1>1, WFMin
<1>4. ASSUME NEW y \in T PROVE x <= y
  <2>1. x \in Nat /\ y \in Nat /\ <<y, x>> \notin R
    BY <1>3
  <2>2. ~(y < x)
    BY <1>2, <2>1, Zenon
  <2> QED
    BY <2>1, <2>2
<1> QED
  BY <1>3, <1>4

Own(option, mac) == [type |-> option.type, addr |-> mac, sound |-> option.sound]
Patched(opts, i) == opts[i].type = "slla" /\ \A j \in 1..i : opts[j].sound

\* The packet once k options are dealt with.
After(opts, mac, k) ==
  [i \in 1..Len(opts) |-> IF i <= k /\ Patched(opts, i) THEN Own(opts[i], mac) ELSE opts[i]]

Write(packet, opts, mac, k) ==
  IF Patched(opts, k) THEN [packet EXCEPT ![k].addr = mac] ELSE packet

Walk(opts, mac) ==
  CHOOSE walk : walk = [k \in 0..Len(opts) |->
                          IF k = 0 THEN opts ELSE Write(walk[k - 1], opts, mac, k)]

LEMMA FixIsWalk ==
  ASSUME NEW opts, NEW mac
  PROVE  FixSourceLinkAddrOption(opts, mac) = Walk(opts, mac)[Len(opts)]
BY Zenon DEF FixSourceLinkAddrOption, Walk, Write, Patched

LEMMA AfterNone ==
  ASSUME NEW opts \in Seq(Option), NEW mac \in Ifaces
  PROVE  After(opts, mac, 0) = opts
<1>1. \A i \in 1..Len(opts) : After(opts, mac, 0)[i] = opts[i]
  BY DEF After
<1>2. After(opts, mac, 0) = [i \in 1..Len(opts) |-> After(opts, mac, 0)[i]]
  BY DEF After
<1>3. opts = [i \in 1..Len(opts) |-> opts[i]]
  OBVIOUS
<1> QED
  BY <1>1, <1>2, <1>3

LEMMA AfterStep ==
  ASSUME NEW opts \in Seq(Option), NEW mac \in Ifaces, NEW k \in 1..Len(opts)
  PROVE  Write(After(opts, mac, k - 1), opts, mac, k) = After(opts, mac, k)
<1> DEFINE n == Len(opts)
           old == After(opts, mac, k - 1)
           new == After(opts, mac, k)
<1>1. n \in Nat /\ k \in 1..n /\ DOMAIN opts = 1..n /\ opts[k] \in Option
  OBVIOUS
<1>2. DOMAIN old = 1..n /\ DOMAIN new = 1..n
  BY DEF After
<1>3. old[k] = opts[k] /\ \A i \in 1..n : i # k => new[i] = old[i]
  BY <1>1 DEF After
<1>4. new[k] = IF Patched(opts, k) THEN Own(opts[k], mac) ELSE opts[k]
  BY <1>1 DEF After
<1>5. CASE ~Patched(opts, k)
  <2>1. \A i \in 1..n : new[i] = old[i]
    BY <1>3, <1>4, <1>5
  <2>2. new = old
    <3>1. old = [i \in 1..n |-> old[i]] /\ new = [i \in 1..n |-> new[i]]
      BY DEF After
    <3> HIDE DEF old, new, n
    <3> QED
      BY <2>1, <3>1
  <2> QED
    BY <1>5, <2>2 DEF Write
<1>6. CASE Patched(opts, k)
  <2>1. [opts[k] EXCEPT !.addr = mac] = Own(opts[k], mac)
    BY <1>1 DEF Own, Option
  <2>2. [old EXCEPT ![k].addr = mac] =
          [i \in 1..n |-> IF i = k THEN [old[k] EXCEPT !.addr = mac] ELSE old[i]]
    BY <1>1, <1>2
  <2>3. new = [i \in 1..n |-> new[i]]
    BY DEF After
  <2>4. \A i \in 1..n : new[i] = IF i = k THEN [old[k] EXCEPT !.addr = mac] ELSE old[i]
    BY <1>3, <1>4, <1>6, <2>1
  <2>5. new = [old EXCEPT ![k].addr = mac]
    <3> HIDE DEF old, new, n
    <3> QED
      BY <2>2, <2>3, <2>4
  <2> QED
    BY <1>6, <2>5 DEF Write
<1> QED
  BY <1>5, <1>6

LEMMA WalkEquation ==
  ASSUME NEW opts \in Seq(Option), NEW mac \in Ifaces
  PROVE  Walk(opts, mac) = [k \in 0..Len(opts) |->
           IF k = 0 THEN opts ELSE Write(Walk(opts, mac)[k - 1], opts, mac, k)]
<1> DEFINE n == Len(opts)
           Eq(f) == f = [k \in 0..n |-> IF k = 0 THEN opts ELSE Write(f[k - 1], opts, mac, k)]
           f == [k \in 0..n |-> After(opts, mac, k)]
<1>1. n \in Nat
  OBVIOUS
<1>2. f[0] = opts
  BY <1>1, AfterNone
<1>3. ASSUME NEW k \in 0..n, k # 0 PROVE f[k] = Write(f[k - 1], opts, mac, k)
  <2>1. k \in 1..n /\ k - 1 \in 0..n
    BY <1>1, <1>3
  <2>2. f[k] = After(opts, mac, k) /\ f[k - 1] = After(opts, mac, k - 1)
    BY <2>1
  <2> QED
    BY <2>1, <2>2, AfterStep
<1>4. f = [k \in 0..n |-> f[k]]
  OBVIOUS
<1>5. Eq(f)
  <2> HIDE DEF f, n
  <2> QED
    BY <1>2, <1>3, <1>4
<1>6. Walk(opts, mac) = CHOOSE g : Eq(g)
  BY Zenon DEF Walk
<1> HIDE DEF Eq, f
<1>7. Eq(Walk(opts, mac))
  BY <1>5, <1>6
<1> QED
  BY <1>7 DEF Eq

\* The result, option by option.
LEMMA FixIsAfter ==
  ASSUME NEW opts \in Seq(Option), NEW mac \in Ifaces
  PROVE  FixSourceLinkAddrOption(opts, mac) = After(opts, mac, Len(opts))
<1> DEFINE n == Len(opts)
           walk == Walk(opts, mac)
           Bad == {k \in 0..n : walk[k] # After(opts, mac, k)}
<1>1. n \in Nat
  OBVIOUS
<1>2. walk[0] = opts /\ \A k \in 1..n : walk[k] = Write(walk[k - 1], opts, mac, k)
  BY <1>1, WalkEquation
<1> SUFFICES ASSUME Bad # {} PROVE FALSE
  BY <1>1, FixIsWalk
<1>3. PICK k \in Bad : \A j \in Bad : k <= j
  <2>1. Bad \subseteq Nat
    OBVIOUS
  <2> HIDE DEF Bad
  <2> QED
    BY <2>1, LeastElement
<1>4. k # 0
  BY <1>2, AfterNone
<1>5. k \in 1..n /\ k - 1 \in 0..n /\ ~(k <= k - 1)
  BY <1>1, <1>4
<1>6. walk[k - 1] = After(opts, mac, k - 1)
  <2>1. k - 1 \notin Bad
    <3> HIDE DEF Bad
    <3> QED
      BY <1>3, <1>5
  <2> QED
    BY <1>5, <2>1
<1>7. walk[k] = After(opts, mac, k)
  <2> HIDE DEF walk, n
  <2> QED
    BY <1>2, <1>5, <1>6, AfterStep DEF n
<1> QED
  BY <1>7

-----------------------------------------------------------------------------
(* The packets under way.                                                   *)

Packet == [iface : Ifaces, type : {"rs", "ra"}, opts : Seq(Option)]

\* While slaves are left, the buffer still holds what the router sent.
BufferOK == todo \subseteq Ifaces /\ (todo # {} => data = Head(busy).opts /\ data \in Seq(Option))

Inv ==
  /\ hasMAC \subseteq Ifaces /\ Ifaces \ Unstable \subseteq hasMAC
  /\ heard \in Seq(Packet)
  /\ BufferOK
  /\ OwnMAC

\* What a slave may be sent.
Right(p) ==
  /\ Len(p.opts) = Len(p.of)
  /\ \A i \in DOMAIN p.of :
       p.opts[i] \in IF ~Patched(p.of, i) THEN {p.of[i]}
                     ELSE IF p.iface \in Unstable THEN {[p.of[i] EXCEPT !.addr = p.iface], p.of[i]}
                     ELSE {[p.of[i] EXCEPT !.addr = p.iface]}

LEMMA OwnMACIsRight == OwnMAC <=> \A p \in sent : p.type = "ra" => Right(p)
BY Zenon DEF OwnMAC, Right, Patched

LEMMA InitInv == Init => Inv
<1> SUFFICES ASSUME Init PROVE Inv
  OBVIOUS
<1>1. heard \in Seq(Packet)
  BY EmptySeq DEF Init
<1> QED
  BY <1>1 DEF Init, Inv, BufferOK, OwnMAC

LEMMA HearOK ==
  ASSUME Inv, NEW i \in Ifaces, NEW type \in {"rs", "ra"}, NEW opts \in Seq(Option),
         Hear(i, type, opts), sent' \subseteq sent, UNCHANGED <<hasMAC, busy, todo, data>>
  PROVE  Inv'
<1>1. [iface |-> i, type |-> type, opts |-> opts] \in Packet
  BY DEF Packet
<1>2. heard' \in Seq(Packet)
  BY <1>1, AppendProperties DEF Inv, Hear
<1> QED
  BY <1>2 DEF Inv, BufferOK, OwnMAC

LEMMA RightFix ==
  ASSUME NEW opts \in Seq(Option), NEW c \in Ifaces, NEW p,
         p.opts = FixSourceLinkAddrOption(opts, c), p.of = opts, p.iface = c
  PROVE  Right(p)
<1>1. p.opts = After(opts, c, Len(opts))
  BY FixIsAfter
<1>2. Len(opts) \in Nat /\ DOMAIN opts = 1..Len(opts)
  OBVIOUS
<1>3. Len(After(opts, c, Len(opts))) = Len(opts)
  BY <1>2 DEF After
<1>4. ASSUME NEW i \in DOMAIN opts
      PROVE  p.opts[i] = IF Patched(opts, i) THEN [opts[i] EXCEPT !.addr = c] ELSE opts[i]
  <2>1. p.opts[i] = IF Patched(opts, i) THEN Own(opts[i], c) ELSE opts[i]
    BY <1>1, <1>2 DEF After
  <2>2. opts[i] \in Option
    BY <1>2
  <2>3. Own(opts[i], c) = [opts[i] EXCEPT !.addr = c]
    BY <2>2 DEF Own, Option
  <2> QED
    BY <2>1, <2>3
<1> QED
  BY <1>1, <1>3, <1>4 DEF Right

LEMMA RightUnknown ==
  ASSUME NEW opts \in Seq(Option), NEW c \in Unstable, NEW p,
         p.opts = opts, p.of = opts, p.iface = c
  PROVE  Right(p)
BY DEF Right

LEMMA ForwardToOK ==
  ASSUME Inv, NEW c \in Ifaces, ForwardTo(c)
  PROVE  Inv'
<1> DEFINE out == IF c \in hasMAC THEN FixSourceLinkAddrOption(data, c) ELSE data
           p == [iface |-> c, type |-> "ra", opts |-> out, of |-> Head(busy).opts]
<1>1. data = Head(busy).opts /\ data \in Seq(Option)
  BY DEF Inv, BufferOK, ForwardTo
<1>2. p.opts = out /\ p.of = data /\ p.iface = c
  BY <1>1
<1>3. sent' = sent \cup {p}
  BY DEF ForwardTo
<1>4. Right(p)
  <2> HIDE DEF p
  <2>1. CASE c \in hasMAC
    BY <1>1, <1>2, <2>1, RightFix
  <2>2. CASE c \notin hasMAC
    <3>1. c \in Unstable
      BY <2>2 DEF Inv
    <3> QED
      BY <1>1, <1>2, <2>2, <3>1, RightUnknown
  <2> QED
    BY <2>1, <2>2
<1>5. OwnMAC'
  <2>1. \A q \in sent' : q.type = "ra" => Right(q)
    <3> HIDE DEF p
    <3> QED
      BY <1>3, <1>4, OwnMACIsRight DEF Inv
  <2> QED
    BY <2>1 DEF OwnMAC, Right, Patched
<1> QED
  BY <1>5 DEF Inv, BufferOK, ForwardTo

LEMMA InvStep == Inv /\ [Next]_vars => Inv'
<1> SUFFICES ASSUME Inv, [Next]_vars PROVE Inv'
  OBVIOUS
<1>1. << >> \in Seq(Option) /\ Adverts \subseteq Seq(Option)
  BY ForwardAssumption, EmptySeq
<1>2. CASE \E i \in Ifaces : HostSolicits(i)
  BY <1>1, <1>2, HearOK DEF HostSolicits
<1>3. CASE \E i \in Ifaces : MACChanges(i)
  BY <1>3, ForwardAssumption DEF MACChanges, Inv, BufferOK, OwnMAC
<1>4. CASE \E i \in Ifaces, a \in Adverts : RouterAdvertises(i, a)
  BY <1>1, <1>4, HearOK DEF RouterAdvertises
<1>5. CASE \E p \in sent : HostReceives(p)
  BY <1>5 DEF HostReceives, Inv, BufferOK, OwnMAC
<1>6. CASE Answers
  <2>1. PICK p \in sent, a \in Adverts : RouterAnswers(p, a)
    BY <1>6 DEF Answers
  <2>2. p.iface \in Ifaces /\ sent' \subseteq sent
    BY <2>1, ForwardAssumption DEF RouterAnswers
  <2> QED
    BY <1>1, <2>1, <2>2, HearOK DEF RouterAnswers
<1>7. CASE ForwardRouterSolicitation
  <2>1. heard' \in Seq(Packet)
    BY <1>7, HeadTailProperties DEF ForwardRouterSolicitation, Inv
  <2>2. \A c : Solicitation(c).type = "rs"
    BY DEF Solicitation
  <2>3. \A p \in sent' : p.type = "ra" => p \in sent
    BY <1>7, <2>2 DEF ForwardRouterSolicitation
  <2> QED
    BY <1>7, <2>1, <2>3 DEF ForwardRouterSolicitation, Inv, BufferOK, OwnMAC
<1>8. CASE StartAdvertisement
  <2>1. heard' \in Seq(Packet) /\ Head(heard) \in Packet
    BY <1>8, HeadTailProperties DEF StartAdvertisement, Inv
  <2>2. Head(heard).opts \in Seq(Option) /\ Head(busy') = Head(heard)
    BY <1>8, <2>1 DEF Packet, StartAdvertisement
  <2> QED
    BY <1>8, <2>1, <2>2, ForwardAssumption DEF StartAdvertisement, Inv, BufferOK, OwnMAC
<1>9. CASE Finish
  BY <1>9 DEF Finish, Inv, BufferOK, OwnMAC
<1>10. CASE \E c \in Ifaces : ForwardTo(c)
  BY <1>10, ForwardToOK
<1>11. CASE UNCHANGED vars
  BY <1>11 DEF vars, Inv, BufferOK, OwnMAC
<1> QED
  BY <1>2, <1>3, <1>4, <1>5, <1>6, <1>7, <1>8, <1>9, <1>10, <1>11 DEF Next, Handler

\* No slave is sent another's MAC address, or the router's where its own is known, in any
\* address option that fixSourceLinkAddrOption can reach, and nothing else is changed.
THEOREM SlavesSeeTheirOwnMAC == Spec => []OwnMAC
<1>1. Inv => OwnMAC
  BY DEF Inv
<1> QED
  BY <1>1, InitInv, InvStep, PTL DEF Spec
=============================================================================
