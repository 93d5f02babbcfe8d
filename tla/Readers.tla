------------------------------- MODULE Readers -------------------------------
(***************************************************************************)
(* Sockets of the three services and the goroutines that read them.        *)
(*                                                                         *)
(* routerSetup, dhcpv6Setup and ndpSetup run on the engine goroutine; they *)
(* close(done), close the descriptor and open a new one while the reader   *)
(* of the old socket runs on, knowing only a descriptor NUMBER that the    *)
(* kernel may have given to another socket by the time it is used.  A      *)
(* reader inside Recvmsg holds the kernel socket itself: closing the       *)
(* descriptor neither wakes it nor frees the socket.                       *)
(*                                                                         *)
(* An AF_PACKET capture socket sees every frame from the system call on; a *)
(* filter decides when a frame arrives and removes nothing that is queued, *)
(* and handleSolicit does not look at the type of what it is given.        *)
(***************************************************************************)
EXTENDS Naturals, Sequences

CONSTANTS
  Slots,        \* interface and service: the fields router, dhcp and ndp
  Pinging,      \* the ndp slots: a capture socket, and a second descriptor (pingFd)
  Socks,        \* routerSock, dhcpSock and ndpSock objects, numbered (bound: setups)
  Fds,          \* descriptor numbers
  None,         \* nil, no descriptor, no file
  MaxQueue,     \* bound: packets waiting on a kernel socket
  MaxPosted     \* bound: closures in the engine's channel

Files == Socks \X {"read", "ping"}   \* kernel sockets, by the object that opened them

ASSUME ReadersAssumption ==
  /\ Pinging \subseteq Slots /\ Socks \subseteq Nat
  /\ None \notin Socks \cup Fds \cup Slots \cup Files
  /\ MaxQueue \in Nat /\ MaxPosted \in Nat

VARIABLES
  file,         \* file[f] : the kernel socket behind descriptor f
  queue,        \* queue[s] : packets waiting on the kernel socket of s
  stray,        \* stray[s] : frames among them that came before its filter
  cur,          \* cur[x] : the object in slot x
  sock,         \* sock[s] : slot, fd and pingFd of the object s
  done,         \* the objects whose done channel is closed
  reader,       \* reader[s] : where the goroutine of s is, and the socket it holds
  posted,       \* closures on their way to the engine
  eng,          \* the step of the setup function the engine is in
  late          \* late[s] : packets the reader of s took after close(done)

vars == <<file, queue, stray, cur, sock, done, reader, posted, eng, late>>

Idle  == [at |-> "idle", slot |-> None, enable |-> FALSE, sock |-> None]
Unused == [slot |-> None, fd |-> None, pingFd |-> None]
\* The object of a new setup; there is none beyond the bound.
Fresh == {s \in Socks : sock[s] = Unused /\ \A t \in Socks : sock[t] = Unused => s <= t}

\* The type invariant of descriptors, sockets, readers and the engine.
TypeOK ==
  /\ file \in [Fds -> Files \cup {None}]
  /\ queue \in [Socks -> 0..MaxQueue] /\ stray \in [Socks -> 0..MaxQueue]
  /\ cur \in [Slots -> Socks \cup {None}]
  /\ sock \in [Socks -> [slot : Slots \cup {None}, fd : Fds \cup {None}, pingFd : Fds \cup {None}]]
  /\ done \subseteq Socks
  /\ reader \in [Socks -> [at : {"none", "check", "enter", "recv", "exit"}, holds : Files \cup {None}]]
  /\ posted \in Seq([sock : Socks, from : Socks]) /\ Len(posted) <= MaxPosted
  /\ eng \in [at : {"idle", "done", "fd", "pingFd", "openPing", "open", "dropAll", "drain",
                    "nsFilter", "start"},
              slot : Slots \cup {None}, enable : BOOLEAN, sock : Socks \cup {None}]
  /\ late \in [Socks -> Nat]

Init ==
  /\ file = [f \in Fds |-> None]
  /\ queue = [s \in Socks |-> 0] /\ stray = queue
  /\ cur = [x \in Slots |-> None]
  /\ sock = [s \in Socks |-> Unused]
  /\ done = {}
  /\ reader = [s \in Socks |-> [at |-> "none", holds |-> None]]
  /\ posted = << >>
  /\ eng = Idle
  /\ late = [s \in Socks |-> 0]

-----------------------------------------------------------------------------
(* routerSetup, dhcpv6Setup and ndpSetup.                                  *)

Closed(F) == file' = [f \in Fds |-> IF f \in F THEN None ELSE file[f]]

\* Where a setup goes when the old socket is gone.
Opening(x) == IF x \in Pinging THEN "openPing" ELSE "open"

SetupStart(x, enable) ==
  /\ eng = Idle
  /\ cur[x] # None \/ enable
  /\ eng' = [at |-> IF cur[x] # None THEN "done" ELSE Opening(x),
             slot |-> x, enable |-> enable, sock |-> None]
  /\ UNCHANGED <<file, queue, stray, cur, sock, done, reader, posted, late>>

CloseDone ==
  /\ eng.at = "done"
  /\ done' = done \cup {cur[eng.slot]}
  /\ eng' = [eng EXCEPT !.at = "fd"]
  /\ UNCHANGED <<file, queue, stray, cur, sock, reader, posted, late>>

CloseFd ==
  /\ eng.at = "fd"
  /\ Closed({sock[cur[eng.slot]].fd})
  /\ eng' = [eng EXCEPT !.at = "pingFd"]
  /\ UNCHANGED <<queue, stray, cur, sock, done, reader, posted, late>>

\* closeFD ignores a descriptor that is not there.
ClosePingFd ==
  /\ eng.at = "pingFd"
  /\ Closed({sock[cur[eng.slot]].pingFd})
  /\ cur' = [cur EXCEPT ![eng.slot] = None]
  /\ eng' = IF eng.enable THEN [eng EXCEPT !.at = Opening(eng.slot)] ELSE Idle
  /\ UNCHANGED <<queue, stray, sock, done, reader, posted, late>>

OpenPing(s, f) ==
  /\ eng.at = "openPing"
  /\ s \in Fresh /\ file[f] = None
  /\ file' = [file EXCEPT ![f] = <<s, "ping">>]
  /\ sock' = [sock EXCEPT ![s] = [slot |-> eng.slot, fd |-> None, pingFd |-> f]]
  /\ eng' = [eng EXCEPT !.at = "open", !.sock = s]
  /\ UNCHANGED <<queue, stray, cur, done, reader, posted, late>>

Open(s, f) ==
  /\ eng.at = "open"
  /\ IF eng.sock = None THEN s \in Fresh ELSE s = eng.sock
  /\ file[f] = None
  /\ file' = [file EXCEPT ![f] = <<s, "read">>]
  /\ sock' = [sock EXCEPT ![s] = [slot |-> eng.slot, fd |-> f, pingFd |-> sock[s].pingFd]]
  /\ eng' = [eng EXCEPT !.at = IF eng.slot \in Pinging THEN "dropAll" ELSE "start", !.sock = s]
  /\ UNCHANGED <<queue, stray, cur, done, reader, posted, late>>

\* The filter that drops everything, drainSocket (a frame at a time, until there is
\* none), and the filter for Neighbor Solicitations.
\* Fault: the first filter is not attached.
SkipDropAll ==
  /\ eng.at = "dropAll"
  /\ eng' = [eng EXCEPT !.at = "nsFilter"]
  /\ UNCHANGED <<file, queue, stray, cur, sock, done, reader, posted, late>>
AttachDropAll ==
  /\ eng.at = "dropAll"
  /\ eng' = [eng EXCEPT !.at = "drain"]
  /\ UNCHANGED <<file, queue, stray, cur, sock, done, reader, posted, late>>

DrainSocket ==
  LET s == eng.sock
  IN /\ eng.at = "drain"
     /\ IF queue[s] = 0
        THEN eng' = [eng EXCEPT !.at = "nsFilter"] /\ UNCHANGED <<queue, stray>>
        ELSE /\ queue' = [queue EXCEPT ![s] = @ - 1]
             /\ stray' = [stray EXCEPT ![s] = IF @ > 0 THEN @ - 1 ELSE 0]
             /\ UNCHANGED eng
     /\ UNCHANGED <<file, cur, sock, done, reader, posted, late>>

AttachNSFilter ==
  /\ eng.at = "nsFilter"
  /\ eng' = [eng EXCEPT !.at = "start"]
  /\ UNCHANGED <<file, queue, stray, cur, sock, done, reader, posted, late>>

\* An error at any system call of the setup; the deferred functions close what has
\* been opened.
Failing == {"openPing", "open", "dropAll", "nsFilter", "start"}

\* Fault: only the descriptor opened last is closed.
ClosesLast ==
  /\ eng.at \in Failing
  /\ Closed(IF eng.at = "start" THEN {sock[eng.sock].fd} ELSE {})
  /\ eng' = Idle
  /\ UNCHANGED <<queue, stray, cur, sock, done, reader, posted, late>>
SetupFails ==
  /\ eng.at \in Failing
  /\ Closed(IF eng.sock = None THEN {} ELSE {sock[eng.sock].fd, sock[eng.sock].pingFd})
  /\ eng' = Idle
  /\ UNCHANGED <<queue, stray, cur, sock, done, reader, posted, late>>

SetupDone ==
  /\ eng.at = "start"
  /\ cur' = [cur EXCEPT ![eng.slot] = eng.sock]
  /\ reader' = [reader EXCEPT ![eng.sock].at = "check"]
  /\ eng' = Idle
  /\ UNCHANGED <<file, queue, stray, sock, done, posted, late>>

-----------------------------------------------------------------------------
(* routerReadLoop, dhcpReadLoop and ndpReadLoop.                           *)

Goes(s, at, holds) == reader' = [reader EXCEPT ![s] = [at |-> at, holds |-> holds]]

\* Fault: done is looked at only after an error.
NeverChecks(s) ==
  /\ reader[s].at = "check"
  /\ Goes(s, "enter", None)
  /\ UNCHANGED <<file, queue, stray, cur, sock, done, posted, eng, late>>
CheckDone(s) ==
  /\ reader[s].at = "check"
  /\ Goes(s, IF s \in done THEN "exit" ELSE "enter", None)
  /\ UNCHANGED <<file, queue, stray, cur, sock, done, posted, eng, late>>

\* The system call looks the descriptor number up; a bad one is an error, after
\* which done is looked at again.
EnterRecv(s) ==
  /\ reader[s].at = "enter"
  /\ IF file[sock[s].fd] = None THEN Goes(s, "check", None)
                                ELSE Goes(s, "recv", file[sock[s].fd])
  /\ UNCHANGED <<file, queue, stray, cur, sock, done, posted, eng, late>>

\* Fault: an interrupted call ends the loop.
InterruptEnds(s) ==
  /\ reader[s].at = "recv"
  /\ Goes(s, "exit", None)
  /\ UNCHANGED <<file, queue, stray, cur, sock, done, posted, eng, late>>
Interrupted(s) ==
  /\ reader[s].at = "recv"
  /\ Goes(s, "check", None)
  /\ UNCHANGED <<file, queue, stray, cur, sock, done, posted, eng, late>>

\* A packet is taken from the socket the call holds; it is posted unless its hop
\* limit or source address does not do.
Receive(s, valid) ==
  LET k == reader[s].holds[1]
  IN /\ reader[s].at = "recv" /\ reader[s].holds[2] = "read"
     /\ queue[k] > 0 /\ (valid => Len(posted) < MaxPosted)
     /\ queue' = [queue EXCEPT ![k] = @ - 1]
     /\ stray' = [stray EXCEPT ![k] = IF @ > 0 THEN @ - 1 ELSE 0]
     /\ posted' = IF valid THEN Append(posted, [sock |-> s, from |-> k]) ELSE posted
     /\ late' = IF s \in done THEN [late EXCEPT ![s] = @ + 1] ELSE late
     /\ Goes(s, "check", None)
     /\ UNCHANGED <<file, cur, sock, done, eng>>

\* handleICMPv6, handleDHCPv6 and handleSolicit drop a packet whose object is no
\* longer the one in its slot.
\* Fault: descriptor numbers are compared.
SameNumber(p) ==
  LET c == cur[sock[p.sock].slot]
  IN c # None /\ sock[c].fd = sock[p.sock].fd
Current(p) == cur[sock[p.sock].slot] = p.sock

Handle ==
  /\ eng = Idle /\ posted # << >>
  /\ posted' = Tail(posted)
  /\ UNCHANGED <<file, queue, stray, cur, sock, done, reader, eng, late>>

-----------------------------------------------------------------------------
(* The kernel (external): a packet for a socket that is open or held, which *)
(* the filter on it lets in.                                                *)

Alive(s) == <<s, "read">> \in {file[f] : f \in Fds} \cup {reader[t].holds : t \in Socks}

Passes(s, wanted) ==
  CASE eng.sock = s /\ eng.at \in {"drain", "nsFilter"}  -> FALSE
    [] eng.sock = s /\ eng.at = "dropAll"                -> TRUE
    [] OTHER                                             -> wanted

Arrives(s, wanted) ==
  /\ Alive(s) /\ queue[s] < MaxQueue /\ Passes(s, wanted)
  /\ queue' = [queue EXCEPT ![s] = @ + 1]
  /\ stray' = IF wanted THEN stray ELSE [stray EXCEPT ![s] = @ + 1]
  /\ UNCHANGED <<file, cur, sock, done, reader, posted, eng, late>>

-----------------------------------------------------------------------------
Engine ==
  \/ CloseDone \/ CloseFd \/ ClosePingFd
  \/ \E s \in Socks, f \in Fds : OpenPing(s, f) \/ Open(s, f)
  \/ AttachDropAll \/ DrainSocket \/ AttachNSFilter
  \/ SetupFails \/ SetupDone \/ Handle

Read(s) == CheckDone(s) \/ EnterRecv(s) \/ \E valid \in BOOLEAN : Receive(s, valid)

Next ==
  \/ \E x \in Slots, enable \in BOOLEAN : SetupStart(x, enable)
  \/ Engine
  \/ \E s \in Socks : Read(s) \/ Interrupted(s)
  \/ \E s \in Socks, wanted \in BOOLEAN : Arrives(s, wanted)

Spec == Init /\ [][Next]_vars

\* Goroutines are scheduled; a signal does not interrupt every single call.
FairSpec ==
  /\ Spec /\ WF_vars(Engine)
  /\ \A s \in Socks : WF_vars(Read(s)) /\ SF_vars(\E valid \in BOOLEAN : Receive(s, valid))

-----------------------------------------------------------------------------
(* Properties.                                                             *)

\* Between setups the process has exactly the descriptors of the objects in the
\* slots open, and each of them is the socket its object opened: failed setups leak
\* none, and no teardown closes a number that has gone to somebody else.
DescriptorsOwned ==
  eng = Idle => \A f \in Fds : \A k \in Files :
    file[f] = k <=> /\ \E x \in Slots : cur[x] = k[1]
                    /\ f = IF k[2] = "read" THEN sock[k[1]].fd ELSE sock[k[1]].pingFd

\* A packet that passes the handler's test for stale objects was read from the very
\* socket the object opened, never from one that reused its descriptor number.
RelayedFromOwnSocket ==
  \A i \in DOMAIN posted : Current(posted[i]) => posted[i].from = posted[i].sock

\* A reader takes at most one packet, from whichever socket it finds behind its
\* descriptor number, after its socket was torn down.
OneLatePacket == \A s \in Socks : late[s] <= 1

\* Whatever arrives between the steps of ndpSetup, a reader finds nothing but
\* Neighbor Solicitations on a capture socket: the race the drop-all filter is there
\* for is closed.
OnlySolicitations == \A s \in Socks : reader[s].at # "none" => stray[s] = 0

\* Packets on a socket that stays in its slot are read, however many stale readers
\* and interrupted calls there are.
LiveSocketRead ==
  \A s \in Socks : <>[](\E x \in Slots : cur[x] = s) => []<>(queue[s] = 0)
=============================================================================
