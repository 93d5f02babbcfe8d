---------------------------- MODULE Dhcpv6Proofs ----------------------------
(***************************************************************************)
(* The stateless DHCPv6 relay keeps requests and replies together, for any *)
(* set of interfaces, configurations, links, clients and bounds.           *)
(***************************************************************************)
EXTENDS Dhcpv6, TLAPS

LEMMA HopLimit == dhcpv6HopLimit \in 0..254
BY Dhcpv6Assumption

LinkOrNone == Links \cup {NoLink}
Message == [core : {"request", "reply"}, env : Seq(Envelope)]
Closure == [iface : Names, ds : Nat \ {0}, src : Address, msg : Message,
            master : BOOLEAN, link : LinkOrNone]

\* Generations grow, and an open socket has a link.
SocketsOK ==
  /\ opened \in Nat
  /\ iface \in [Names -> [Master : BOOLEAN, Ifindex : LinkOrNone, dhcp : Nat]]
  /\ \A n \in Names : /\ iface[n].dhcp <= opened
                      /\ iface[n].dhcp # 0 => iface[n].Ifindex # NoLink

\* The hop count on the outside accounts for every envelope inside.
Counted(m) == m.env # << >> => Len(m.env) <= Head(m.env).hop + 1

\* The outermost envelope is one of this relay's.
Own(m) ==
  /\ m.env # << >>
  /\ Head(m.env).id = Head(m.env).from[1]
  /\ Head(m.env).hop <= dhcpv6HopLimit

ClosureOK(p) ==
  /\ p \in Closure /\ p.ds <= opened
  /\ Counted(p.msg) /\ (p.master => Own(p.msg))
  /\ Current(p) => p.master = iface[p.iface].Master /\ p.link = iface[p.iface].Ifindex

PostedOK   == posted \in Seq(Closure) /\ \A i \in DOMAIN posted : ClosureOK(posted[i])
UpstreamOK == upstream \subseteq Message /\ \A m \in upstream : Counted(m) /\ Own(m)

Inv == SocketsOK /\ PostedOK /\ UpstreamOK /\ ReplyGoesBack

LEMMA InitInv == Init => Inv
<1> SUFFICES ASSUME Init PROVE Inv
  OBVIOUS
<1>1. SocketsOK
  BY DEF Init, SocketsOK, LinkOrNone
<1>2. PostedOK /\ UpstreamOK /\ ReplyGoesBack
  BY DEF Init, PostedOK, UpstreamOK, ReplyGoesBack
<1> QED
  BY <1>1, <1>2 DEF Inv

-----------------------------------------------------------------------------
(* Reload and link events: a socket is closed or has a new generation, so   *)
(* that no closure which is current afterwards was not so before.           *)

\* What reloads and link events do to the interfaces.
Reopened ==
  /\ opened \in Nat /\ opened' \in Nat /\ opened <= opened'
  /\ iface' \in [Names -> [Master : BOOLEAN, Ifindex : LinkOrNone, dhcp : Nat]]
  /\ \A n \in Names :
       \/ iface'[n] = iface[n]
       \/ iface'[n].dhcp = 0
       \/ opened < opened' /\ iface'[n].dhcp = opened' /\ iface'[n].Ifindex # NoLink

LEMMA ReopenedInv ==
  ASSUME Inv, Reopened, UNCHANGED <<posted, upstream, out>>
  PROVE  Inv'
<1>1. SocketsOK'
  BY DEF Inv, SocketsOK, Reopened
<1>2. ASSUME NEW i \in DOMAIN posted PROVE ClosureOK(posted[i])'
  <2> DEFINE p == posted[i]
  <2>1. ClosureOK(p) /\ p.iface \in Names /\ p.ds \in Nat \ {0}
    BY DEF Inv, PostedOK, ClosureOK, Closure
  <2>2. p.ds <= opened' /\ (iface'[p.iface].dhcp = p.ds => iface'[p.iface] = iface[p.iface])
    BY <2>1 DEF Reopened, ClosureOK
  <2> QED
    BY <2>1, <2>2 DEF ClosureOK, Current, Counted, Own
<1>3. PostedOK'
  BY <1>2 DEF Inv, PostedOK
<1>4. UpstreamOK' /\ ReplyGoesBack'
  BY DEF Inv, UpstreamOK, Counted, Own, ReplyGoesBack
<1> QED
  BY <1>1, <1>3, <1>4 DEF Inv

LEMMA ReloadInv ==
  ASSUME Inv, NEW c \in Configs, NEW up \in SUBSET Names, Reload(c, up)
  PROVE  Inv'
<1>1. c \in [Names -> [master : BOOLEAN, link : LinkOrNone]]
  BY Dhcpv6Assumption DEF LinkOrNone
<1>2. Reopened
  BY <1>1 DEF Inv, SocketsOK, Reload, Reopened, Opens
<1> QED
  BY <1>2, ReopenedInv DEF Reload

LEMMA LinkLostInv ==
  ASSUME Inv, NEW n \in Names, NEW gone \in BOOLEAN, LinkLost(n, gone)
  PROVE  Inv'
<1> DEFINE ix == IF gone THEN NoLink ELSE iface[n].Ifindex
<1>1. iface[n] \in [Master : BOOLEAN, Ifindex : LinkOrNone, dhcp : Nat] /\ ix \in LinkOrNone
  BY DEF Inv, SocketsOK, LinkOrNone
<1>2. iface' = [iface EXCEPT ![n] = [iface[n] EXCEPT !.dhcp = 0, !.Ifindex = ix]]
  BY <1>1 DEF LinkLost
<1> HIDE DEF ix
<1>3. iface'[n] = [iface[n] EXCEPT !.dhcp = 0, !.Ifindex = ix]
      /\ \A m \in Names \ {n} : iface'[m] = iface[m]
  BY <1>2 DEF Inv, SocketsOK
<1>4. Reopened
  BY <1>1, <1>2, <1>3 DEF Inv, SocketsOK, LinkLost, Reopened
<1> QED
  BY <1>4, ReopenedInv DEF LinkLost

LEMMA LinkReadyInv ==
  ASSUME Inv, NEW n \in Names, NEW l \in Links, LinkReady(n, l)
  PROVE  Inv'
<1> DEFINE gen == IF iface[n].Master => \E s \in Names : ~iface[s].Master THEN opened' ELSE 0
<1>1. opened \in Nat /\ opened' = opened + 1 /\ l \in LinkOrNone /\ l # NoLink
  BY Dhcpv6Assumption DEF LinkReady, Inv, SocketsOK, LinkOrNone
<1>2. gen \in {opened', 0} /\ gen \in Nat
  BY <1>1
<1>3. iface' = [iface EXCEPT ![n] = [@ EXCEPT !.Ifindex = l, !.dhcp = gen]]
  BY DEF LinkReady, Inv, SocketsOK
<1> HIDE DEF gen
<1>4. iface[n] \in [Master : BOOLEAN, Ifindex : LinkOrNone, dhcp : Nat]
  BY DEF Inv, SocketsOK
<1>5. iface'[n] = [iface[n] EXCEPT !.Ifindex = l, !.dhcp = gen]
      /\ \A m \in Names \ {n} : iface'[m] = iface[m]
  BY <1>3 DEF Inv, SocketsOK
<1>6. iface'[n] \in [Master : BOOLEAN, Ifindex : LinkOrNone, dhcp : Nat]
      /\ iface'[n].Ifindex = l /\ iface'[n].dhcp = gen
  BY <1>1, <1>2, <1>4, <1>5
<1>7. iface' \in [Names -> [Master : BOOLEAN, Ifindex : LinkOrNone, dhcp : Nat]]
  BY <1>3, <1>5, <1>6 DEF Inv, SocketsOK
<1>8. opened < opened' /\ opened <= opened' /\ opened' \in Nat
  BY <1>1
<1>9. Reopened
  BY <1>1, <1>2, <1>5, <1>6, <1>7, <1>8 DEF Reopened
<1> QED
  BY <1>9, ReopenedInv DEF LinkReady

-----------------------------------------------------------------------------
(* Messages.                                                                *)

LEMMA ReceiveInv ==
  ASSUME Inv, NEW n \in Names, NEW src \in Address, NEW m \in Message,
         Receive(n, src, m), Counted(m), iface[n].Master => Own(m)
  PROVE  Inv'
<1> DEFINE p == [iface |-> n, ds |-> iface[n].dhcp, src |-> src, msg |-> m,
                 master |-> iface[n].Master, link |-> iface[n].Ifindex]
<1>1. p \in Closure /\ ClosureOK(p)
  BY DEF Inv, SocketsOK, Receive, Closure, ClosureOK, Current
<1>2. posted' = Append(posted, p) /\ posted \in Seq(Closure) /\ UNCHANGED <<iface, opened>>
  BY DEF Receive, Inv, PostedOK
<1> HIDE DEF p
<1>3. posted' \in Seq(Closure)
      /\ \A i \in DOMAIN posted' : posted'[i] = p \/ (i \in DOMAIN posted /\ posted'[i] = posted[i])
  BY <1>1, <1>2
<1>4. \A i \in DOMAIN posted' : ClosureOK(posted'[i])
  BY <1>1, <1>3 DEF Inv, PostedOK
<1>5. PostedOK'
  BY <1>2, <1>3, <1>4 DEF PostedOK, ClosureOK, Current, Counted, Own
<1>6. SocketsOK' /\ UpstreamOK' /\ ReplyGoesBack'
  BY DEF Receive, Inv, SocketsOK, UpstreamOK, Counted, Own, ReplyGoesBack
<1> QED
  BY <1>5, <1>6 DEF Inv

\* Whatever Send makes room for, what is upstream was there or is the new message.
LEMMA SendInv ==
  ASSUME Inv, NEW m \in Message, Counted(m), Own(m), Send(m)
  PROVE  UpstreamOK'
<1>1. upstream' \subseteq upstream \cup {m}
  BY DEF Send
<1> QED
  BY <1>1 DEF Inv, UpstreamOK, Counted, Own

LEMMA ServerAnswersInv ==
  ASSUME Inv, NEW m \in upstream, ServerAnswers(m)
  PROVE  Inv'
<1> DEFINE a == [m EXCEPT !.core = "reply"]
<1>1. a \in Message /\ a.env = m.env /\ Counted(m) /\ Own(m)
  BY DEF Inv, UpstreamOK, Message
<1>2. Send(a)
  BY DEF ServerAnswers
<1> HIDE DEF a
<1>3. UpstreamOK'
  BY <1>1, <1>2, SendInv DEF Counted, Own
<1>4. SocketsOK' /\ PostedOK' /\ ReplyGoesBack'
  BY DEF ServerAnswers, Inv, SocketsOK, PostedOK, ClosureOK, Current, Counted, Own, ReplyGoesBack
<1> QED
  BY <1>3, <1>4 DEF Inv

-----------------------------------------------------------------------------
(* handleDHCPv6.                                                            *)

\* The closure at the head of the channel, and what is left behind it.
LEMMA HeadOfPosted ==
  ASSUME Inv, posted # << >>, posted' = Tail(posted), UNCHANGED <<iface, opened>>
  PROVE  ClosureOK(Head(posted)) /\ PostedOK'
<1>1. posted \in Seq(Closure) /\ \A i \in DOMAIN posted : ClosureOK(posted[i])
  BY DEF Inv, PostedOK
<1>2. Len(posted) \in Nat \ {0} /\ Head(posted) = posted[1] /\ 1 \in DOMAIN posted
  BY <1>1
<1>3. posted' \in Seq(Closure)
      /\ \A i \in DOMAIN posted' : i + 1 \in DOMAIN posted /\ posted'[i] = posted[i + 1]
  BY <1>1, <1>2
<1>4. \A i \in DOMAIN posted' : ClosureOK(posted'[i])
  BY <1>1, <1>3
<1> QED
  BY <1>1, <1>2, <1>3, <1>4 DEF PostedOK, ClosureOK, Current, Counted, Own

\* The Relay-Forward for a message that is forwarded accounts for its envelopes.
LEMMA WrappedOK ==
  ASSUME Inv, NEW p, ClosureOK(p), Current(p), Forwards(p.msg)
  PROVE  Wrapped(p) \in Message /\ Counted(Wrapped(p)) /\ Own(Wrapped(p))
<1> DEFINE m == p.msg
           hop == IF Type(m) = "forw" THEN (Head(m.env).hop + 1) % 256 ELSE 0
           e == [hop |-> hop, link |-> LinkAddress[iface[p.iface].Ifindex], peer |-> p.src,
                 id |-> iface[p.iface].Ifindex, from |-> <<p.link, p.src>>]
<1>1. m \in Message /\ m.env \in Seq(Envelope) /\ p.src \in Address /\ p.iface \in Names
      /\ p.link = iface[p.iface].Ifindex /\ p.link \in Links
  BY DEF Inv, SocketsOK, ClosureOK, Closure, Message, Current, LinkOrNone
<1>2. /\ hop \in 0..255 /\ hop <= dhcpv6HopLimit
      /\ m.env # << >> => hop = Head(m.env).hop + 1
  <2>1. CASE m.env = << >>
    BY <1>1, <2>1, HopLimit DEF Forwards, Type, Message
  <2>2. CASE m.env # << >>
    <3>1. Head(m.env) \in Envelope
      BY <1>1, <2>2
    <3>2. Head(m.env).hop \in 0..255
      BY <3>1 DEF Envelope
    <3>3. Type(m) = "forw" /\ Head(m.env).hop < dhcpv6HopLimit
      BY <1>1, <2>2 DEF Forwards, Type, Message
    <3> DEFINE h == Head(m.env).hop
    <3>4. h \in 0..255 /\ h < dhcpv6HopLimit /\ hop = (h + 1) % 256
      BY <3>2, <3>3
    <3> HIDE DEF h, hop
    <3>5. hop = h + 1 /\ hop \in 0..255 /\ hop <= dhcpv6HopLimit
      BY <3>4, HopLimit
    <3> QED
      BY <3>5 DEF h
  <2> QED
    BY <2>1, <2>2
<1> HIDE DEF hop
<1>3. e \in Envelope
  BY <1>1, <1>2 DEF Envelope, Address
<1>4. Wrapped(p) = [m EXCEPT !.env = <<e>> \o m.env]
  BY <1>1 DEF Wrapped, hop, Message
<1>5. e.hop = hop /\ e.id = e.from[1]
  BY <1>1
<1> HIDE DEF e
<1>6. <<e>> \o m.env \in Seq(Envelope) /\ Len(<<e>> \o m.env) = Len(m.env) + 1
      /\ Head(<<e>> \o m.env) = e /\ <<e>> \o m.env # << >>
  BY <1>1, <1>3
<1>7. Wrapped(p) \in Message /\ Wrapped(p).env = <<e>> \o m.env
  BY <1>1, <1>4, <1>6 DEF Message
<1>8. Len(m.env) <= hop
  <2>1. CASE m.env = << >>
    BY <2>1, <1>2
  <2>2. CASE m.env # << >>
    BY <2>2, <1>2 DEF ClosureOK, Counted
  <2> QED
    BY <2>1, <2>2
<1> QED
  BY <1>1, <1>2, <1>5, <1>6, <1>7, <1>8 DEF Counted, Own

LEMMA HandleDHCPv6Inv ==
  ASSUME Inv, HandleDHCPv6
  PROVE  Inv'
<1> DEFINE p == Head(posted)
<1>1. ClosureOK(p) /\ PostedOK' /\ UNCHANGED <<iface, opened>>
  BY HeadOfPosted DEF HandleDHCPv6
<1>2. SocketsOK'
  BY <1>1 DEF Inv, SocketsOK
<1>3. CASE UNCHANGED <<upstream, out>>
  BY <1>1, <1>2, <1>3 DEF Inv, UpstreamOK, Counted, Own, ReplyGoesBack
<1>4. CASE Current(p) /\ iface[p.iface].Master /\ RelayServerResponse(p)
  <2> DEFINE e == Head(p.msg.env)
  <2>1. Own(p.msg)
    BY <1>1, <1>4 DEF ClosureOK
  <2>2. UpstreamOK'
    BY <1>4 DEF RelayServerResponse, Inv, UpstreamOK, Counted, Own
  <2>3. CASE UNCHANGED out
    BY <1>1, <1>2, <2>2, <2>3 DEF Inv, ReplyGoesBack
  <2>4. CASE \E n \in IfaceByIndex(e.id) : \E port, msg :
               out' = <<[link |-> iface[n].Ifindex, dest |-> e.link, port |-> port,
                         msg |-> msg, from |-> e.from]>>
    <3>1. ReplyGoesBack'
      BY <2>1, <2>4 DEF ReplyGoesBack, IfaceByIndex, Own
    <3> QED
      BY <1>1, <1>2, <2>2, <3>1 DEF Inv
  <2> QED
    BY <1>4, <2>3, <2>4 DEF RelayServerResponse
<1>5. CASE Current(p) /\ ~iface[p.iface].Master /\ RelayClientRequest(p)
  <2>1. UpstreamOK'
    <3>1. CASE UNCHANGED upstream
      BY <3>1 DEF Inv, UpstreamOK, Counted, Own
    <3>2. CASE Forwards(p.msg) /\ Send(Wrapped(p))
      BY <1>1, <1>5, <3>2, WrappedOK, SendInv
    <3> QED
      BY <1>5, <3>1, <3>2 DEF RelayClientRequest
  <2> QED
    BY <1>1, <1>2, <1>5, <2>1 DEF RelayClientRequest, Inv, ReplyGoesBack
<1> QED
  BY <1>3, <1>4, <1>5 DEF HandleDHCPv6

-----------------------------------------------------------------------------
LEMMA NextInv == Inv /\ [Next]_vars => Inv'
<1> SUFFICES ASSUME Inv, [Next]_vars PROVE Inv'
  OBVIOUS
<1>1. ASSUME NEW n \in Names, NEW src \in Clients, NEW env \in Outer, ClientSends(n, src, env)
      PROVE  Inv'
  <2> DEFINE m == [core |-> "request", env |-> env]
  <2>1. m \in Message /\ Counted(m) /\ src \in Address /\ ~iface[n].Master /\ Receive(n, src, m)
    BY <1>1, Dhcpv6Assumption DEF Message, Counted, Address, ClientSends
  <2> QED
    BY <2>1, ReceiveInv
<1>2. ASSUME NEW n \in Names, NEW m \in upstream, Delivered(n, m)
      PROVE  Inv'
  BY <1>2, ReceiveInv DEF Delivered, Inv, UpstreamOK, Address
<1>3. CASE UNCHANGED vars
  BY <1>3 DEF vars, Inv, SocketsOK, PostedOK, UpstreamOK, ReplyGoesBack, ClosureOK, Current,
              Counted, Own
<1> QED
  BY <1>1, <1>2, <1>3, ReloadInv, LinkLostInv, LinkReadyInv, ServerAnswersInv, HandleDHCPv6Inv
     DEF Next

LEMMA Invariance == Spec => []Inv
BY InitInv, NextInv, PTL DEF Spec

\* handleDHCPv6 works on a packet in the role and for the link its socket was opened
\* for, however reloads and link events reassign the interface while the closure waits:
\* a socket that is open again is another generation.
THEOREM RoleIsKept == Spec => []HandledInRole
<1>1. Inv => HandledInRole
  BY DEF Inv, PostedOK, ClosureOK, HandledInRole
<1> QED
  BY <1>1, Invariance, PTL

\* relayServerResponse sends a reply out on the link its request came in on, though the
\* relay remembers nothing but the index in the Interface-ID option.
THEOREM RepliesGoBack == Spec => []ReplyGoesBack
<1>1. Inv => ReplyGoesBack
  BY DEF Inv
<1> QED
  BY <1>1, Invariance, PTL

\* No loop in the network makes relayClientRequest pile up more than
\* dhcpv6HopLimit + 1 envelopes, whatever hop limit below 255 is compiled in.
THEOREM LoopsAreCut == Spec => []LoopsEnd
<1>1. Inv => LoopsEnd
  <2> SUFFICES ASSUME Inv, NEW m \in upstream PROVE Len(m.env) <= dhcpv6HopLimit + 1
    BY DEF LoopsEnd
  <2>1. m.env \in Seq(Envelope) /\ m.env # << >> /\ Head(m.env).hop <= dhcpv6HopLimit
        /\ Len(m.env) <= Head(m.env).hop + 1
    BY DEF Inv, UpstreamOK, Message, Counted, Own
  <2>2. Head(m.env) \in Envelope
    BY <2>1
  <2>3. Head(m.env).hop \in 0..255
    BY <2>2 DEF Envelope
  <2>4. Len(m.env) \in Nat
    BY <2>1
  <2> DEFINE len == Len(m.env)
             hop == Head(m.env).hop
  <2>5. len \in Nat /\ hop \in 0..255 /\ len <= hop + 1 /\ hop <= dhcpv6HopLimit
    BY <2>1, <2>3, <2>4
  <2> HIDE DEF len, hop
  <2>6. len <= dhcpv6HopLimit + 1
    BY <2>5, HopLimit
  <2> QED
    BY <2>6 DEF len
<1> QED
  BY <1>1, Invariance, PTL
=============================================================================
