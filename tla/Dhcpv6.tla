------------------------------- MODULE Dhcpv6 -------------------------------
(***************************************************************************)
(* The DHCPv6 relay: client messages are wrapped in a Relay-Forward and    *)
(* sent to every master, the Relay-Replies that come back are unwrapped    *)
(* and sent out on the slave their Interface-ID option names.  The relay   *)
(* keeps no transaction state: the index in that option is all that        *)
(* connects a reply with the link of its request, and interfaces may be    *)
(* re-linked, swapped or closed in between.                                *)
(*                                                                         *)
(* A message is its innermost part and the stack of relay envelopes around *)
(* it, outermost first; a server answers the innermost part and returns    *)
(* the envelopes (RFC 8415, 19.3).  What is upstream may be lost, repeated *)
(* and reordered, and a loop in the network may lead it back to a slave.   *)
(* The history field from of an envelope is not on the wire: the link and  *)
(* the sender that the relay received the message from.                    *)
(***************************************************************************)
EXTENDS Naturals, Sequences, FiniteSets

CONSTANTS
  Names,        \* config names
  Links,        \* links by index; an index is never used again
  LinkAddress,  \* LinkAddress[l] : what relayLinkAddressOrZero finds on link l
  Configs,      \* the configurations a Reload may find
  Clients,      \* addresses of the clients and relays behind the slaves
  Outer,        \* envelope stacks their messages have already
  NoLink, NoAddr,
  dhcpv6HopLimit,
  MaxSock,      \* bound: socket generations
  MaxPosted,    \* bound: closures in the engine's channel
  MaxNet        \* bound: messages upstream at once

Address  == Clients \cup {NoAddr} \cup {LinkAddress[l] : l \in Links}
Envelope == [hop : 0..255, link : Address, peer : Address, id : Links \cup {NoLink},
             from : (Links \cup {NoLink}) \X Address]

\* The relays below count hops as this one does, starting from 0.
ASSUME Dhcpv6Assumption ==
  /\ Outer \subseteq Seq(Envelope)
  /\ \A env \in Outer : env # << >> => Len(env) <= Head(env).hop + 1
  /\ \A c \in Configs : c \in [Names -> [master : BOOLEAN, link : Links \cup {NoLink}]]
  /\ NoLink \notin Links
  /\ dhcpv6HopLimit \in 0..254 /\ {MaxSock, MaxPosted, MaxNet} \subseteq Nat \ {0}

VARIABLES
  iface,        \* iface[n] : Master, Ifindex and the generation of its socket (0: nil)
  opened,       \* socket generations so far
  posted,       \* closures on their way to the engine
  upstream,     \* messages on the master side, from the relay and from the server
  out           \* the message sent last on a slave, as a sequence of at most one

vars == <<iface, opened, posted, upstream, out>>

Type(m) == IF m.env = << >> THEN m.core ELSE IF m.core = "request" THEN "forw" ELSE "repl"

Init ==
  /\ iface = [n \in Names |-> [Master |-> FALSE, Ifindex |-> NoLink, dhcp |-> 0]]
  /\ opened = 0
  /\ posted = << >> /\ upstream = {} /\ out = << >>

-----------------------------------------------------------------------------
(* Reload and link events, as far as they concern the service.              *)

\* dhcpv6Setup opens a socket in relay mode only, which a master without slaves
\* is not in.
Opens(c, up) ==
  {n \in up : c[n].link # NoLink /\ (c[n].master => \E s \in Names : ~c[s].master)}

\* Reload; up holds the interfaces that are running and for which no system call of
\* dhcpv6Setup fails.
\* Fault: a socket that is open is left alone.
ReloadKeepsSockets(c, up) ==
  /\ opened < MaxSock /\ opened' = opened + 1
  /\ iface' = [n \in Names |->
       [Master |-> c[n].master, Ifindex |-> c[n].link,
        dhcp |-> IF n \notin Opens(c, up) THEN 0
                 ELSE IF iface[n].dhcp # 0 THEN iface[n].dhcp ELSE opened']]
  /\ UNCHANGED <<posted, upstream, out>>
Reload(c, up) ==
  /\ opened < MaxSock /\ opened' = opened + 1
  /\ iface' = [n \in Names |->
       [Master |-> c[n].master, Ifindex |-> c[n].link,
        dhcp |-> IF n \in Opens(c, up) THEN opened' ELSE 0]]
  /\ UNCHANGED <<posted, upstream, out>>

\* handleLinkEvent: the link goes away, or loses its carrier.
LinkLost(n, gone) ==
  /\ iface[n].Ifindex # NoLink
  /\ iface' = [iface EXCEPT ![n].dhcp = 0, ![n].Ifindex = IF gone THEN NoLink ELSE @]
  /\ UNCHANGED <<opened, posted, upstream, out>>

\* handleLinkEvent: the carrier is back, or another link has come in its place.
LinkReady(n, l) ==
  /\ 0 < opened /\ opened < MaxSock /\ opened' = opened + 1
  /\ IF iface[n].Ifindex = l THEN iface[n].dhcp = 0 ELSE \A m \in Names : iface[m].Ifindex # l
  /\ iface' = [iface EXCEPT ![n].Ifindex = l,
       ![n].dhcp = IF iface[n].Master => \E s \in Names : ~iface[s].Master THEN opened' ELSE 0]
  /\ UNCHANGED <<posted, upstream, out>>

-----------------------------------------------------------------------------
(* dhcpReadLoop and, external, clients, network and server.                 *)

\* A message from src arrives on the socket of n and is posted with it.
Receive(n, src, m) ==
  /\ iface[n].dhcp # 0 /\ Len(posted) < MaxPosted
  /\ posted' = Append(posted, [iface |-> n, ds |-> iface[n].dhcp, src |-> src, msg |-> m,
                               master |-> iface[n].Master, link |-> iface[n].Ifindex])
  /\ UNCHANGED <<iface, opened, upstream, out>>

ClientSends(n, src, env) ==
  ~iface[n].Master /\ Receive(n, src, [core |-> "request", env |-> env])

\* Whatever is upstream may reach any socket: a master's, or through a loop a slave's.
Delivered(n, m) == Receive(n, NoAddr, m)

\* The network has room for MaxNet messages and loses one when there are more.
Send(m) ==
  upstream' \in IF m \in upstream \/ Cardinality(upstream) < MaxNet
                THEN {upstream \cup {m}}
                ELSE {(upstream \ {x}) \cup {m} : x \in upstream}

ServerAnswers(m) ==
  /\ m.core = "request"
  /\ Send([m EXCEPT !.core = "reply"])
  /\ UNCHANGED <<iface, opened, posted, out>>

-----------------------------------------------------------------------------
(* handleDHCPv6.                                                            *)

\* relayClientRequest relays neither messages of a server nor a Relay-Forward that
\* has been through too many relays.
\* Fault: the limit is off by one.
HopLimitEarly(m) ==
  Type(m) = "request" \/ (Type(m) = "forw" /\ Head(m.env).hop + 1 < dhcpv6HopLimit)
Forwards(m) ==
  Type(m) = "request" \/ (Type(m) = "forw" /\ Head(m.env).hop < dhcpv6HopLimit)

\* Fault: the hop count starts again with every relay.
HopRestarts(p) ==
  [p.msg EXCEPT !.env = <<[hop |-> 0, link |-> LinkAddress[iface[p.iface].Ifindex], peer |-> p.src,
                           id |-> iface[p.iface].Ifindex, from |-> <<p.link, p.src>>]>> \o @]
Wrapped(p) ==
  [p.msg EXCEPT !.env =
     <<[hop  |-> IF Type(p.msg) = "forw" THEN (Head(p.msg.env).hop + 1) % 256 ELSE 0,
        link |-> LinkAddress[iface[p.iface].Ifindex], peer |-> p.src,
        id   |-> iface[p.iface].Ifindex, from |-> <<p.link, p.src>>]>> \o @]

RelayClientRequest(p) ==
  /\ IF Forwards(p.msg) /\ \E c \in Names : iface[c].Master /\ iface[c].dhcp # 0
     THEN Send(Wrapped(p)) ELSE UNCHANGED upstream
  /\ UNCHANGED out

\* relayServerResponse finds the interface by the index in the option.
\* Fault: it takes any slave whose socket is open.
AnySlave(id) == {n \in Names : ~iface[n].Master /\ iface[n].dhcp # 0}
IfaceByIndex(id) == {n \in Names : iface[n].Ifindex = id}

Port(m) == IF Type(m) = "repl" THEN 547 ELSE 546

\* The destination is read from bytes 2 to 17, where the header has link-address.
RelayServerResponse(p) ==
  LET e == Head(p.msg.env)
      payload == [p.msg EXCEPT !.env = Tail(@)]
  IN /\ \/ /\ Type(p.msg) = "repl"
           /\ \E n \in IfaceByIndex(e.id) :
                /\ ~iface[n].Master /\ iface[n].dhcp # 0
                /\ out' = <<[link |-> iface[n].Ifindex, dest |-> e.link, port |-> Port(payload),
                             msg |-> payload, from |-> e.from]>>
        \/ /\ \/ Type(p.msg) # "repl" \/ IfaceByIndex(e.id) = {}
              \/ \E n \in IfaceByIndex(e.id) : iface[n].Master \/ iface[n].dhcp = 0
           /\ UNCHANGED out
     /\ UNCHANGED upstream

Current(p) == iface[p.iface].dhcp = p.ds

HandleDHCPv6 ==
  LET p == Head(posted)
  IN /\ posted # << >>
     /\ posted' = Tail(posted)
     /\ \/ ~Current(p) /\ UNCHANGED <<upstream, out>>
        \/ Current(p) /\ iface[p.iface].Master /\ RelayServerResponse(p)
        \/ Current(p) /\ ~iface[p.iface].Master /\ RelayClientRequest(p)
     /\ UNCHANGED <<iface, opened>>

-----------------------------------------------------------------------------
Next ==
  \/ \E c \in Configs, up \in SUBSET Names : Reload(c, up)
  \/ \E n \in Names, gone \in BOOLEAN : LinkLost(n, gone)
  \/ \E n \in Names, l \in Links : LinkReady(n, l)
  \/ \E n \in Names, src \in Clients, env \in Outer : ClientSends(n, src, env)
  \/ \E n \in Names, m \in upstream : Delivered(n, m)
  \/ \E m \in upstream : ServerAnswers(m)
  \/ HandleDHCPv6

Spec == Init /\ [][Next]_vars

\* The engine runs what is posted.
FairSpec == Spec /\ WF_vars(HandleDHCPv6)

-----------------------------------------------------------------------------
(* Properties.                                                              *)

\* What reached a socket while its interface was a slave (or master) of one link is
\* handled under that role and for that link or not at all, however Reload swaps
\* roles and links while the closure waits.
HandledInRole ==
  \A i \in DOMAIN posted : Current(posted[i]) =>
    /\ posted[i].master = iface[posted[i].iface].Master
    /\ posted[i].link = iface[posted[i].iface].Ifindex

\* A reply leaves on the link its request came in on, after any re-linking, swapping
\* or closing of interfaces between request and reply.
ReplyGoesBack == \A i \in DOMAIN out : out[i].link = out[i].from[1]

\* A message that runs in circles is stopped by the hop count: no more than
\* dhcpv6HopLimit + 1 envelopes pile up.
LoopsEnd == \A m \in upstream : Len(m.env) <= dhcpv6HopLimit + 1

\* relayServerResponse calls where it sends the reply "peer", and the header it reads
\* it from has "link_address(16) + peer_address(16)": the reply goes to the sender of
\* the request.
ReplyReachesPeer == \A i \in DOMAIN out : out[i].dest = out[i].from[2]

\* A request that has been through no more than dhcpv6HopLimit relays is relayed,
\* unless its socket, or the last one of a master, is closed before its turn.
Awaits(n, ds, src, depth) ==
  \E i \in DOMAIN posted : /\ posted[i].iface = n /\ posted[i].ds = ds /\ posted[i].src = src
                           /\ posted[i].msg.core = "request" /\ Len(posted[i].msg.env) = depth
Serving(n, ds) ==
  iface[n].dhcp = ds /\ ~iface[n].Master /\ \E c \in Names : iface[c].Master /\ iface[c].dhcp # 0
RequestRelayed ==
  \A n \in Names : \A ds \in 1..MaxSock : \A src \in Clients : \A depth \in 0..dhcpv6HopLimit :
    Awaits(n, ds, src, depth) /\ Serving(n, ds)
      ~> (\/ ~Serving(n, ds)
          \/ \E m \in upstream : Head(m.env).peer = src /\ Len(m.env) = depth + 1)
=============================================================================
