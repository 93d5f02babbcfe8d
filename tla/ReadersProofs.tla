---------------------------- MODULE ReadersProofs ----------------------------
(***************************************************************************)
(* Sockets, descriptor numbers and readers, for any number of slots,       *)
(* socket objects and descriptors.                                         *)
(***************************************************************************)
EXTENDS Readers, TLAPS

\* Where the engine is in a setup, and what it has in hand there.
EngOK ==
  /\ eng.at = "idle" => eng = Idle
  /\ eng.at # "idle" => eng.slot \in Slots
  /\ eng.at \in {"done", "fd", "pingFd"} => cur[eng.slot] # None /\ eng.sock = None
  /\ eng.at \in {"fd", "pingFd"} => cur[eng.slot] \in done
  /\ eng.at = "pingFd" => file[sock[cur[eng.slot]].fd] = None
  /\ eng.at = "openPing" => eng.sock = None /\ eng.slot \in Pinging
  /\ eng.at \in {"openPing", "open", "dropAll", "drain", "nsFilter", "start"} =>
       cur[eng.slot] = None
  /\ eng.at = "open" /\ eng.sock # None => eng.slot \in Pinging /\ sock[eng.sock].fd = None
  /\ eng.at \in {"dropAll", "drain", "nsFilter", "start"} =>
       eng.sock # None /\ sock[eng.sock].fd \in Fds
  /\ eng.sock # None => /\ sock[eng.sock].slot = eng.slot
                        /\ reader[eng.sock].at = "none"

\* An object is in at most one slot, the one it was opened for, and is being read.
SlotsOK ==
  \A x \in Slots : cur[x] # None =>
    sock[cur[x]].slot = x /\ reader[cur[x]].at # "none"

Number(k) == IF k[2] = "read" THEN sock[k[1]].fd ELSE sock[k[1]].pingFd

\* The object is in a slot or in the hands of the setup that opened it.
InUse(s) == eng.sock = s \/ \E x \in Slots : cur[x] = s

\* The only open number that is missing: the one a teardown has just closed.
JustClosed(k) == eng.at = "pingFd" /\ k = <<cur[eng.slot], "read">>

FilesOwned ==
  \A f \in Fds : \A k \in Files :
    file[f] = k <=> InUse(k[1]) /\ f = Number(k) /\ ~JustClosed(k)

\* A reader has a descriptor number; it holds a socket inside the call only, and if
\* its object is still in a slot, its own.
ReadingOK ==
  \A s \in Socks :
    /\ reader[s].at # "none" => sock[s].slot \in Slots /\ sock[s].fd \in Fds
    /\ IF reader[s].at = "recv"
       THEN /\ reader[s].holds \in Files
            /\ sock[reader[s].holds[1]] # Unused
            /\ (\E x \in Slots : cur[x] = s) => reader[s].holds = <<s, "read">>
       ELSE reader[s].holds = None

\* What is posted comes from a reader that was started, and for an object that is
\* still in its slot from its own socket.
PostedOK ==
  \A i \in DOMAIN posted :
    /\ reader[posted[i].sock].at # "none"
    /\ (\E x \in Slots : cur[x] = posted[i].sock) => posted[i].from = posted[i].sock

\* The late packet is the last thing a reader takes.
LateOK ==
  \A s \in Socks :
    late[s] # 0 => late[s] = 1 /\ s \in done /\ reader[s].at \in {"check", "exit"}

\* Unwanted frames are on a socket that is being set up, or that never got a reader.
StrayOK ==
  \A s \in Socks :
    /\ stray[s] <= queue[s]
    /\ sock[s] = Unused => stray[s] = 0
    /\ reader[s].at # "none" => stray[s] = 0
    /\ eng.sock = s /\ eng.at \in {"nsFilter", "start"} => stray[s] = 0

Inv ==
  /\ TypeOK /\ EngOK /\ SlotsOK /\ FilesOwned
  /\ ReadingOK /\ PostedOK /\ LateOK /\ StrayOK

LEMMA InitInv == Init => Inv
<1> SUFFICES ASSUME Init PROVE Inv
  OBVIOUS
<1>1. TypeOK
  BY ReadersAssumption DEF Init, TypeOK, Unused, Idle
<1>2. EngOK /\ SlotsOK /\ ReadingOK /\ PostedOK /\ LateOK /\ StrayOK
  BY ReadersAssumption DEF Init, EngOK, SlotsOK, ReadingOK, PostedOK, LateOK, StrayOK, Idle
<1>3. FilesOwned
  BY ReadersAssumption DEF Init, FilesOwned, InUse, Idle, Files
<1> QED
  BY <1>1, <1>2, <1>3 DEF Inv

\* What Append does to the closures that wait.
LEMMA AppendOne ==
  ASSUME NEW R, NEW q \in Seq(R), NEW p \in R
  PROVE  /\ Append(q, p) \in Seq(R) /\ Len(Append(q, p)) = Len(q) + 1
         /\ \A i \in DOMAIN Append(q, p) :
              (i \in DOMAIN q /\ Append(q, p)[i] = q[i]) \/ Append(q, p)[i] = p
OBVIOUS

LEMMA SeqElement ==
  ASSUME NEW R, NEW q \in Seq(R), NEW i \in DOMAIN q
  PROVE  q[i] \in R
OBVIOUS

LEMMA PostedType ==
  ASSUME Inv
  PROVE  \A i \in DOMAIN posted : posted[i].sock \in Socks /\ posted[i].from \in Socks
<1> DEFINE R == [sock : Socks, from : Socks]
<1>1. posted \in Seq(R)
  BY DEF Inv, TypeOK
<1>2. \A r \in R : r.sock \in Socks /\ r.from \in Socks
  OBVIOUS
<1> HIDE DEF R
<1> QED
  BY <1>1, <1>2, SeqElement

\* A frame is taken from the kernel socket of k.
LEMMA OneTaken ==
  ASSUME Inv, NEW k \in Socks, queue[k] > 0,
         queue' = [queue EXCEPT ![k] = @ - 1],
         stray' = [stray EXCEPT ![k] = IF @ > 0 THEN @ - 1 ELSE 0]
  PROVE  /\ queue' \in [Socks -> 0..MaxQueue] /\ stray' \in [Socks -> 0..MaxQueue]
         /\ \A t \in Socks : stray'[t] <= queue'[t] /\ (stray[t] = 0 => stray'[t] = 0)
<1>1. MaxQueue \in Nat
  BY ReadersAssumption
<1>2. /\ queue \in [Socks -> 0..MaxQueue] /\ stray \in [Socks -> 0..MaxQueue]
      /\ \A t \in Socks : stray[t] <= queue[t]
  BY DEF Inv, TypeOK, StrayOK
<1>3. queue[k] \in 1..MaxQueue /\ stray[k] \in 0..MaxQueue /\ stray[k] <= queue[k]
  BY <1>1, <1>2
<1>4. /\ queue'[k] = queue[k] - 1 /\ stray'[k] = IF stray[k] > 0 THEN stray[k] - 1 ELSE 0
      /\ \A t \in Socks : t # k => queue'[t] = queue[t] /\ stray'[t] = stray[t]
  BY <1>2
<1>5. stray'[k] <= queue'[k] /\ (stray[k] = 0 => stray'[k] = 0)
  BY <1>3, <1>4
<1>6. queue[k] - 1 \in 0..MaxQueue /\ (IF stray[k] > 0 THEN stray[k] - 1 ELSE 0) \in 0..MaxQueue
  BY <1>1, <1>3
<1>7. queue' \in [Socks -> 0..MaxQueue] /\ stray' \in [Socks -> 0..MaxQueue]
  BY <1>2, <1>6
<1> QED
  BY <1>2, <1>4, <1>5, <1>7

\* Kernel sockets are pairs; nil is none of them.
LEMMA FilesType ==
  ASSUME NEW k \in Files
  PROVE  /\ k[1] \in Socks /\ k[2] \in {"read", "ping"} /\ k = <<k[1], k[2]>>
         /\ k # None /\ k[1] # None /\ None \notin Fds
BY ReadersAssumption DEF Files

\* An open socket belongs to an object that a setup has filled in.
LEMMA OpenIsUsed ==
  ASSUME Inv, NEW f \in Fds, file[f] # None
  PROVE  file[f] \in Files /\ sock[file[f][1]] # Unused
<1>1. file[f] \in Files
  BY DEF Inv, TypeOK
<1>2. InUse(file[f][1]) /\ file[f][1] \in Socks
  BY <1>1, FilesType DEF Inv, FilesOwned
<1>3. sock[file[f][1]].slot \in Slots
  <2>1. CASE eng.sock = file[f][1]
    BY <1>2, <2>1, ReadersAssumption DEF Inv, EngOK, Idle
  <2>2. CASE \E x \in Slots : cur[x] = file[f][1]
    BY <1>2, <2>2, ReadersAssumption DEF Inv, SlotsOK
  <2> QED
    BY <1>2, <2>1, <2>2 DEF InUse
<1> QED
  BY <1>1, <1>3, ReadersAssumption DEF Unused

-----------------------------------------------------------------------------
LEMMA SetupStartInv ==
  ASSUME Inv, NEW x \in Slots, NEW enable \in BOOLEAN, SetupStart(x, enable)
  PROVE  Inv'
<1>1. TypeOK'
  BY ReadersAssumption DEF Inv, TypeOK, SetupStart, Opening, Idle
<1>2. EngOK'
  BY ReadersAssumption DEF Inv, TypeOK, EngOK, SetupStart, Opening, Idle
<1>3. FilesOwned'
  BY ReadersAssumption DEF Inv, TypeOK, FilesOwned, InUse, Number, JustClosed, SetupStart,
     Opening, Idle
<1>4. StrayOK'
  BY ReadersAssumption DEF Inv, TypeOK, StrayOK, SetupStart, Opening, Idle
<1>5. SlotsOK' /\ ReadingOK' /\ PostedOK' /\ LateOK'
  BY DEF Inv, SlotsOK, ReadingOK, PostedOK, LateOK, SetupStart
<1> QED
  BY <1>1, <1>2, <1>3, <1>4, <1>5 DEF Inv

LEMMA CloseDoneInv ==
  ASSUME Inv, CloseDone
  PROVE  Inv'
<1>1. TypeOK'
  <2>1. cur[eng.slot] \in Socks
    BY DEF Inv, TypeOK, EngOK, CloseDone
  <2> QED
    BY <2>1 DEF Inv, TypeOK, CloseDone
<1>2. EngOK'
  BY ReadersAssumption DEF Inv, TypeOK, EngOK, CloseDone
<1>3. FilesOwned'
  BY ReadersAssumption DEF Inv, TypeOK, FilesOwned, InUse, Number, JustClosed, CloseDone
<1>4. LateOK'
  BY ReadersAssumption DEF Inv, TypeOK, LateOK, CloseDone
<1>5. StrayOK'
  BY ReadersAssumption DEF Inv, TypeOK, StrayOK, CloseDone
<1>6. SlotsOK' /\ ReadingOK' /\ PostedOK'
  BY DEF Inv, SlotsOK, ReadingOK, PostedOK, CloseDone
<1> QED
  BY <1>1, <1>2, <1>3, <1>4, <1>5, <1>6 DEF Inv

\* The number a teardown closes is the old socket's own.
LEMMA CloseFdInv ==
  ASSUME Inv, CloseFd
  PROVE  Inv'
<1> DEFINE s == cur[eng.slot]
           n == sock[s].fd
<1>0. /\ eng.at = "fd" /\ eng.slot \in Slots /\ s \in Socks /\ n \in Fds /\ eng.sock = None
      /\ InUse(s) /\ <<s, "read">> \in Files
  BY DEF Inv, TypeOK, EngOK, SlotsOK, ReadingOK, InUse, CloseFd, Files
<1>1. TypeOK'
  BY ReadersAssumption DEF Inv, TypeOK, CloseFd, Closed
<1>2. EngOK'
  <2>1. file'[n] = None
    BY <1>0 DEF CloseFd, Closed
  <2>2. eng'.at = "pingFd" /\ eng'.slot = eng.slot /\ eng'.sock = eng.sock
    BY DEF CloseFd, Inv, TypeOK
  <2> QED
    BY <1>0, <2>1, <2>2 DEF Inv, EngOK, CloseFd
<1>3. FilesOwned'
  <2> SUFFICES ASSUME NEW f \in Fds, NEW k \in Files
               PROVE  file'[f] = k <=> InUse(k[1])' /\ f = Number(k)' /\ ~JustClosed(k)'
    BY DEF FilesOwned
  <2>1. /\ file'[f] = IF f = n THEN None ELSE file[f]
        /\ InUse(k[1])' = InUse(k[1]) /\ Number(k)' = Number(k)
        /\ JustClosed(k)' = (k = <<s, "read">>)
    BY <1>0 DEF CloseFd, Closed, InUse, Number, JustClosed, Inv, TypeOK
  <2>2. \A g \in Fds : file[g] = k <=> InUse(k[1]) /\ g = Number(k)
    BY <1>0 DEF Inv, FilesOwned, JustClosed
  <2>3. file[n] = <<s, "read">> /\ Number(<<s, "read">>) = n
    BY <1>0 DEF Inv, FilesOwned, JustClosed, Number
  <2>4. k # None
    BY ReadersAssumption
  <2> QED
    BY <1>0, <2>1, <2>2, <2>3, <2>4
<1>4. StrayOK'
  BY ReadersAssumption DEF Inv, TypeOK, StrayOK, CloseFd, Closed
<1>5. SlotsOK' /\ ReadingOK' /\ PostedOK' /\ LateOK'
  BY DEF Inv, SlotsOK, ReadingOK, PostedOK, LateOK, CloseFd
<1> QED
  BY <1>1, <1>2, <1>3, <1>4, <1>5 DEF Inv

LEMMA ClosePingFdInv ==
  ASSUME Inv, ClosePingFd
  PROVE  Inv'
<1> DEFINE s == cur[eng.slot]
           n == sock[s].pingFd
<1>0. /\ eng.at = "pingFd" /\ eng.slot \in Slots /\ s \in Socks /\ eng.sock = None
      /\ \A x \in Slots : x # eng.slot => cur[x] # s
      /\ cur' = [cur EXCEPT ![eng.slot] = None]
  BY DEF Inv, TypeOK, EngOK, SlotsOK, ClosePingFd
<1>a. /\ eng' \in [at : {"idle", "openPing", "open"}, slot : Slots \cup {None},
                    enable : BOOLEAN, sock : {None}]
      /\ eng'.at = "idle" => eng' = Idle
      /\ eng'.at # "idle" => eng'.slot = eng.slot /\ eng'.at = Opening(eng.slot)
  BY <1>0 DEF Inv, TypeOK, ClosePingFd, Opening, Idle
<1>1. TypeOK'
  BY <1>0, <1>a DEF Inv, TypeOK, ClosePingFd, Closed
<1>2. EngOK'
  BY <1>0, <1>a DEF Inv, TypeOK, EngOK, Opening
<1>3. SlotsOK'
  BY <1>0 DEF Inv, TypeOK, SlotsOK, ClosePingFd
<1>4. FilesOwned'
  <2> SUFFICES ASSUME NEW f \in Fds, NEW k \in Files
               PROVE  file'[f] = k <=> InUse(k[1])' /\ f = Number(k)' /\ ~JustClosed(k)'
    BY DEF FilesOwned
  <2>1. /\ file'[f] = IF f = n THEN None ELSE file[f]
        /\ Number(k)' = Number(k) /\ ~JustClosed(k)'
    BY <1>0, <1>a DEF ClosePingFd, Closed, Number, JustClosed
  <2>2. k[1] \in Socks /\ k[2] \in {"read", "ping"} /\ k = <<k[1], k[2]>>
        /\ k # None /\ k[1] # None
    BY FilesType
  <2>3. InUse(k[1])' = (InUse(k[1]) /\ k[1] # s)
    BY <1>0, <1>a, <2>2 DEF InUse, Inv, TypeOK
  <2>4. file[f] = k <=> InUse(k[1]) /\ f = Number(k) /\ ~(k = <<s, "read">>)
    BY <1>0 DEF Inv, FilesOwned, JustClosed
  <2>5. CASE k[1] = s
    BY <2>1, <2>2, <2>3, <2>4, <2>5 DEF Number
  <2>6. CASE k[1] # s
    <3>1. f = n => file[f] = <<s, "ping">>
      <4>1. <<s, "ping">> \in Files /\ InUse(s) /\ Number(<<s, "ping">>) = n
            /\ ~JustClosed(<<s, "ping">>)
        BY <1>0 DEF Files, InUse, Number, JustClosed
      <4> QED
        BY <4>1 DEF Inv, FilesOwned
    <3>2. k # <<s, "ping">> /\ k # <<s, "read">>
      BY <2>6
    <3> QED
      BY <2>1, <2>2, <2>3, <2>4, <2>6, <3>1, <3>2
  <2> QED
    BY <2>5, <2>6
<1>5. ReadingOK'
  <2>1. \A t \in Socks : (\E x \in Slots : cur'[x] = t) => \E x \in Slots : cur[x] = t
    BY <1>0, ReadersAssumption DEF Inv, TypeOK
  <2> QED
    BY <2>1 DEF Inv, ReadingOK, ClosePingFd
<1>6. PostedOK'
  <2>1. \A t \in Socks : (\E x \in Slots : cur'[x] = t) => \E x \in Slots : cur[x] = t
    BY <1>0, ReadersAssumption DEF Inv, TypeOK
  <2> QED
    BY <2>1, PostedType DEF Inv, PostedOK, ClosePingFd
<1>7. StrayOK'
  BY <1>0, <1>a, ReadersAssumption DEF Inv, StrayOK, ClosePingFd
<1>8. LateOK'
  BY DEF Inv, LateOK, ClosePingFd
<1> QED
  BY <1>1, <1>2, <1>3, <1>4, <1>5, <1>6, <1>7, <1>8 DEF Inv

LEMMA OpenPingInv ==
  ASSUME Inv, NEW s \in Socks, NEW f \in Fds, OpenPing(s, f)
  PROVE  Inv'
<1> DEFINE new == [slot |-> eng.slot, fd |-> None, pingFd |-> f]
<1>0. /\ eng.at = "openPing" /\ eng.slot \in Slots /\ eng.slot \in Pinging /\ eng.sock = None
      /\ cur[eng.slot] = None /\ sock[s] = Unused /\ file[f] = None /\ s # None
      /\ sock' = [sock EXCEPT ![s] = new] /\ file' = [file EXCEPT ![f] = <<s, "ping">>]
      /\ UNCHANGED <<queue, stray, cur, done, reader, posted, late>>
  BY ReadersAssumption DEF Inv, EngOK, OpenPing, Fresh
<1>a. eng' = [eng EXCEPT !.at = "open", !.sock = s]
  BY DEF OpenPing
<1>b. eng'.at = "open" /\ eng'.slot = eng.slot /\ eng'.sock = s /\ eng'.enable = eng.enable
  BY <1>a DEF Inv, TypeOK
<1>c. /\ sock'[s] = new /\ new.slot = eng.slot /\ new.fd = None /\ new.pingFd = f
      /\ \A t \in Socks : t # s => sock'[t] = sock[t]
  BY <1>0 DEF Inv, TypeOK
<1>d. reader[s].at = "none" /\ stray[s] = 0 /\ \A x \in Slots : cur[x] # s
  BY <1>0, ReadersAssumption DEF Inv, ReadingOK, StrayOK, SlotsOK, Unused
<1> HIDE DEF new
<1>1. TypeOK'
  <2>1. <<s, "ping">> \in Files /\ new \in [slot : Slots \cup {None}, fd : Fds \cup {None},
                                             pingFd : Fds \cup {None}]
    BY <1>0 DEF Files, new
  <2> QED
    BY <1>0, <1>a, <2>1 DEF Inv, TypeOK
<1>2. EngOK'
  BY <1>0, <1>b, <1>c, <1>d DEF EngOK
<1>3. SlotsOK'
  BY <1>0, <1>c, <1>d DEF Inv, TypeOK, SlotsOK
<1>4. FilesOwned'
  <2> SUFFICES ASSUME NEW g \in Fds, NEW k \in Files
               PROVE  file'[g] = k <=> InUse(k[1])' /\ g = Number(k)' /\ ~JustClosed(k)'
    BY DEF FilesOwned
  <2>1. k[1] \in Socks /\ k[2] \in {"read", "ping"} /\ k = <<k[1], k[2]>>
        /\ k # None /\ k[1] # None /\ None \notin Fds
    BY FilesType
  <2>2. file'[g] = (IF g = f THEN <<s, "ping">> ELSE file[g]) /\ ~JustClosed(k)'
    BY <1>0, <1>b DEF Inv, TypeOK, JustClosed
  <2>3. file[g] = k <=> InUse(k[1]) /\ g = Number(k)
    BY <1>0 DEF Inv, FilesOwned, JustClosed
  <2>4. CASE k[1] = s
    <3>1. ~InUse(s) /\ InUse(s)'
      BY <1>0, <1>b, <1>d DEF InUse
    <3>2. Number(k)' = IF k[2] = "read" THEN None ELSE f
      BY <1>c, <2>4 DEF Number
    <3> QED
      BY <2>1, <2>2, <2>3, <2>4, <3>1, <3>2
  <2>5. CASE k[1] # s
    <3>1. InUse(k[1])' = InUse(k[1]) /\ Number(k)' = Number(k)
      BY <1>0, <1>b, <1>c, <2>1, <2>5 DEF InUse, Number
    <3> QED
      BY <1>0, <2>1, <2>2, <2>3, <2>5, <3>1
  <2> QED
    BY <2>4, <2>5
<1>5. ReadingOK'
  <2>1. \A t \in Socks : sock[t] # Unused => sock'[t] # Unused /\ sock'[t] = sock[t]
    BY <1>0, <1>c
  <2>2. \A t \in Socks : reader[t].at = "recv" => reader[t].holds[1] \in Socks
    BY DEF Inv, ReadingOK, Files
  <2> QED
    BY <1>0, <1>c, <1>d, <2>1, <2>2 DEF Inv, ReadingOK
<1>6. StrayOK'
  BY <1>0, <1>b, <1>c, <1>d DEF Inv, StrayOK
<1>7. PostedOK' /\ LateOK'
  BY DEF Inv, PostedOK, LateOK, OpenPing
<1> QED
  BY <1>1, <1>2, <1>3, <1>4, <1>5, <1>6, <1>7 DEF Inv

LEMMA OpenInv ==
  ASSUME Inv, NEW s \in Socks, NEW f \in Fds, Open(s, f)
  PROVE  Inv'
<1> DEFINE new == [slot |-> eng.slot, fd |-> f, pingFd |-> sock[s].pingFd]
           at == IF eng.slot \in Pinging THEN "dropAll" ELSE "start"
<1>0. /\ eng.at = "open" /\ eng.slot \in Slots /\ cur[eng.slot] = None
      /\ IF eng.sock = None THEN sock[s] = Unused ELSE s = eng.sock /\ eng.slot \in Pinging
      /\ file[f] = None /\ s # None
      /\ sock' = [sock EXCEPT ![s] = new] /\ file' = [file EXCEPT ![f] = <<s, "read">>]
      /\ UNCHANGED <<queue, stray, cur, done, reader, posted, late>>
  BY ReadersAssumption DEF Inv, EngOK, Open, Fresh
<1>a. eng' = [eng EXCEPT !.at = at, !.sock = s] /\ at \in {"dropAll", "start"}
  BY DEF Open
<1>b. eng'.at = at /\ eng'.slot = eng.slot /\ eng'.sock = s /\ eng'.enable = eng.enable
  BY <1>a DEF Inv, TypeOK
<1>c. /\ sock'[s] = new /\ new.slot = eng.slot /\ new.fd = f /\ new.pingFd = sock[s].pingFd
      /\ \A t \in Socks : t # s => sock'[t] = sock[t]
  BY <1>0 DEF Inv, TypeOK
<1>d. /\ reader[s].at = "none" /\ sock[s].fd = None /\ \A x \in Slots : cur[x] # s
      /\ sock[s] # Unused => eng.sock = s
      /\ at = "start" => stray[s] = 0
  <2>1. CASE eng.sock = None
    BY <1>0, <2>1, ReadersAssumption DEF Inv, ReadingOK, StrayOK, SlotsOK, Unused
  <2>2. CASE eng.sock = s
    BY <1>0, <2>2 DEF Inv, EngOK, SlotsOK
  <2> QED
    BY <1>0, <2>1, <2>2
<1> HIDE DEF new, at
<1>1. TypeOK'
  <2>1. <<s, "read">> \in Files /\ new \in [slot : Slots \cup {None}, fd : Fds \cup {None},
                                             pingFd : Fds \cup {None}]
    BY <1>0 DEF Files, new, Inv, TypeOK
  <2> QED
    BY <1>0, <1>a, <2>1 DEF Inv, TypeOK
<1>2. EngOK'
  BY <1>0, <1>a, <1>b, <1>c, <1>d DEF EngOK
<1>3. SlotsOK'
  BY <1>0, <1>c, <1>d DEF Inv, TypeOK, SlotsOK
<1>4. FilesOwned'
  <2> SUFFICES ASSUME NEW g \in Fds, NEW k \in Files
               PROVE  file'[g] = k <=> InUse(k[1])' /\ g = Number(k)' /\ ~JustClosed(k)'
    BY DEF FilesOwned
  <2>1. k[1] \in Socks /\ k[2] \in {"read", "ping"} /\ k = <<k[1], k[2]>>
        /\ k # None /\ k[1] # None /\ None \notin Fds
    BY FilesType
  <2>2. file'[g] = (IF g = f THEN <<s, "read">> ELSE file[g]) /\ ~JustClosed(k)'
    BY <1>0, <1>a, <1>b DEF Inv, TypeOK, JustClosed
  <2>3. file[g] = k <=> InUse(k[1]) /\ g = Number(k)
    BY <1>0 DEF Inv, FilesOwned, JustClosed
  <2>4. CASE k[1] = s
    <3>1. InUse(s)' /\ (InUse(s) <=> eng.sock = s)
      BY <1>0, <1>b, <1>d DEF InUse
    <3>2. Number(k)' = (IF k[2] = "read" THEN f ELSE sock[s].pingFd)
          /\ Number(k) = (IF k[2] = "read" THEN None ELSE sock[s].pingFd)
      BY <1>c, <1>d, <2>4 DEF Number
    <3>3. eng.sock # s => sock[s].pingFd = None
      BY <1>d DEF Unused
    <3> QED
      BY <1>0, <2>1, <2>2, <2>3, <2>4, <3>1, <3>2, <3>3
  <2>5. CASE k[1] # s
    <3>1. InUse(k[1])' = InUse(k[1]) /\ Number(k)' = Number(k)
      BY <1>0, <1>b, <1>c, <2>1, <2>5 DEF InUse, Number
    <3> QED
      BY <1>0, <2>1, <2>2, <2>3, <2>5, <3>1
  <2> QED
    BY <2>4, <2>5
<1>5. ReadingOK'
  <2>1. sock'[s] # Unused /\ \A t \in Socks : sock[t] # Unused => sock'[t] # Unused
    BY <1>0, <1>c, ReadersAssumption DEF Unused
  <2>2. \A t \in Socks : reader[t].at = "recv" => reader[t].holds[1] \in Socks
    BY DEF Inv, ReadingOK, Files
  <2> QED
    BY <1>0, <1>c, <1>d, <2>1, <2>2 DEF Inv, ReadingOK
<1>6. StrayOK'
  <2>1. sock'[s] # Unused
    BY <1>0, <1>c, ReadersAssumption DEF Unused
  <2> QED
    BY <1>0, <1>a, <1>b, <1>c, <1>d, <2>1 DEF Inv, StrayOK
<1>7. PostedOK' /\ LateOK'
  BY DEF Inv, PostedOK, LateOK, Open
<1> QED
  BY <1>1, <1>2, <1>3, <1>4, <1>5, <1>6, <1>7 DEF Inv

LEMMA AttachDropAllInv ==
  ASSUME Inv, AttachDropAll
  PROVE  Inv'
<1>1. TypeOK'
  BY ReadersAssumption DEF Inv, TypeOK, AttachDropAll
<1>2. EngOK'
  BY ReadersAssumption DEF Inv, TypeOK, EngOK, AttachDropAll
<1>3. FilesOwned'
  BY ReadersAssumption DEF Inv, TypeOK, FilesOwned, InUse, Number, JustClosed, AttachDropAll
<1>4. StrayOK'
  BY ReadersAssumption DEF Inv, TypeOK, StrayOK, AttachDropAll
<1>5. SlotsOK' /\ ReadingOK' /\ PostedOK' /\ LateOK'
  BY DEF Inv, SlotsOK, ReadingOK, PostedOK, LateOK, AttachDropAll
<1> QED
  BY <1>1, <1>2, <1>3, <1>4, <1>5 DEF Inv

LEMMA DrainSocketInv ==
  ASSUME Inv, DrainSocket
  PROVE  Inv'
<1> DEFINE s == eng.sock
<1>0. /\ eng.at = "drain" /\ s \in Socks /\ s # None
      /\ queue[s] \in 0..MaxQueue /\ stray[s] \in 0..MaxQueue
      /\ UNCHANGED <<file, cur, sock, done, reader, posted, late>>
  BY DEF Inv, TypeOK, EngOK, DrainSocket
<1>a. \/ /\ queue[s] = 0 /\ eng' = [eng EXCEPT !.at = "nsFilter"] /\ UNCHANGED <<queue, stray>>
      \/ /\ queue[s] > 0 /\ eng' = eng
         /\ queue' = [queue EXCEPT ![s] = @ - 1]
         /\ stray' = [stray EXCEPT ![s] = IF @ > 0 THEN @ - 1 ELSE 0]
  BY <1>0 DEF DrainSocket
<1>b. /\ eng'.at \in {"drain", "nsFilter"} /\ eng'.slot = eng.slot /\ eng'.sock = s
      /\ eng' \in [at : {"drain", "nsFilter"}, slot : Slots \cup {None}, enable : BOOLEAN,
                    sock : Socks \cup {None}]
      /\ eng'.at = "nsFilter" => queue'[s] = 0
  BY <1>0, <1>a DEF Inv, TypeOK
<1>c. /\ queue' \in [Socks -> 0..MaxQueue] /\ stray' \in [Socks -> 0..MaxQueue]
      /\ \A t \in Socks : stray'[t] <= queue'[t] /\ (stray[t] = 0 => stray'[t] = 0)
  <2>1. CASE queue' = queue /\ stray' = stray
    BY <2>1 DEF Inv, TypeOK, StrayOK
  <2>2. CASE /\ queue[s] > 0 /\ queue' = [queue EXCEPT ![s] = @ - 1]
             /\ stray' = [stray EXCEPT ![s] = IF @ > 0 THEN @ - 1 ELSE 0]
    BY <1>0, <2>2, OneTaken
  <2> QED
    BY <1>a, <2>1, <2>2
<1>1. TypeOK'
  BY <1>0, <1>b, <1>c DEF Inv, TypeOK
<1>2. EngOK'
  BY <1>0, <1>b DEF Inv, EngOK
<1>3. FilesOwned'
  BY <1>0, <1>b DEF Inv, FilesOwned, InUse, Number, JustClosed
<1>4. StrayOK'
  <2>1. eng'.at = "nsFilter" => stray'[s] = 0
    <3> SUFFICES ASSUME eng'.at = "nsFilter" PROVE stray'[s] = 0
      OBVIOUS
    <3>1. stray'[s] \in 0..MaxQueue /\ stray'[s] <= 0
      BY <1>0, <1>b, <1>c
    <3> HIDE DEF s
    <3> QED
      BY <3>1, ReadersAssumption
  <2> QED
    BY <1>0, <1>b, <1>c, <2>1 DEF Inv, StrayOK
<1>5. SlotsOK' /\ ReadingOK' /\ PostedOK' /\ LateOK'
  BY DEF Inv, SlotsOK, ReadingOK, PostedOK, LateOK, DrainSocket
<1> QED
  BY <1>1, <1>2, <1>3, <1>4, <1>5 DEF Inv

LEMMA AttachNSFilterInv ==
  ASSUME Inv, AttachNSFilter
  PROVE  Inv'
<1>1. TypeOK'
  BY ReadersAssumption DEF Inv, TypeOK, AttachNSFilter
<1>2. EngOK'
  BY ReadersAssumption DEF Inv, TypeOK, EngOK, AttachNSFilter
<1>3. FilesOwned'
  BY ReadersAssumption DEF Inv, TypeOK, FilesOwned, InUse, Number, JustClosed, AttachNSFilter
<1>4. StrayOK'
  BY ReadersAssumption DEF Inv, TypeOK, StrayOK, AttachNSFilter
<1>5. SlotsOK' /\ ReadingOK' /\ PostedOK' /\ LateOK'
  BY DEF Inv, SlotsOK, ReadingOK, PostedOK, LateOK, AttachNSFilter
<1> QED
  BY <1>1, <1>2, <1>3, <1>4, <1>5 DEF Inv

LEMMA SetupFailsInv ==
  ASSUME Inv, SetupFails
  PROVE  Inv'
<1> DEFINE s == eng.sock
           F == IF s = None THEN {} ELSE {sock[s].fd, sock[s].pingFd}
<1>0. /\ eng.at \in Failing /\ eng' = Idle /\ s \in Socks \cup {None}
      /\ s # None => reader[s].at = "none" /\ \A x \in Slots : cur[x] # s
      /\ file' = [f \in Fds |-> IF f \in F THEN None ELSE file[f]]
      /\ UNCHANGED <<queue, stray, cur, sock, done, reader, posted, late>>
  BY DEF Inv, TypeOK, EngOK, SlotsOK, SetupFails, Closed
<1>1. TypeOK'
  BY <1>0 DEF Inv, TypeOK, Idle
<1>2. EngOK'
  BY <1>0 DEF EngOK, Idle
<1>3. FilesOwned'
  <2> SUFFICES ASSUME NEW f \in Fds, NEW k \in Files
               PROVE  file'[f] = k <=> InUse(k[1])' /\ f = Number(k)' /\ ~JustClosed(k)'
    BY DEF FilesOwned
  <2>1. k[1] \in Socks /\ k[2] \in {"read", "ping"} /\ k = <<k[1], k[2]>>
        /\ k # None /\ k[1] # None /\ None \notin Fds
    BY FilesType
  <2>2. /\ file'[f] = IF f \in F THEN None ELSE file[f]
        /\ Number(k)' = Number(k) /\ ~JustClosed(k)'
    BY <1>0 DEF Number, JustClosed, Idle
  <2>3. \A j \in Files : file[f] = j <=> InUse(j[1]) /\ f = Number(j)
    BY <1>0 DEF Inv, FilesOwned, JustClosed, Failing
  <2>4. InUse(k[1])' = (InUse(k[1]) /\ k[1] # s)
    BY <1>0, <2>1 DEF InUse, Idle
  <2>5. CASE k[1] = s
    <3>1. Number(k) \in F
      BY <2>1, <2>5 DEF Number
    <3> QED
      BY <2>1, <2>2, <2>3, <2>4, <2>5, <3>1
  <2>6. CASE k[1] # s
    <3>1. f \in F => file[f] = <<s, "read">> \/ file[f] = <<s, "ping">>
      <4> SUFFICES ASSUME f \in F PROVE file[f] = <<s, "read">> \/ file[f] = <<s, "ping">>
        OBVIOUS
      <4>1. s \in Socks /\ <<s, "read">> \in Files /\ <<s, "ping">> \in Files /\ InUse(s)
        BY <1>0 DEF Files, InUse
      <4>2. f = Number(<<s, "read">>) \/ f = Number(<<s, "ping">>)
        BY <4>1 DEF Number
      <4> QED
        BY <2>3, <4>1, <4>2
    <3>2. k # <<s, "read">> /\ k # <<s, "ping">>
      BY <2>6
    <3> QED
      BY <2>1, <2>2, <2>3, <2>4, <2>6, <3>1, <3>2
  <2> QED
    BY <2>5, <2>6
<1>4. StrayOK'
  BY <1>0, ReadersAssumption DEF Inv, StrayOK, Idle
<1>5. SlotsOK' /\ ReadingOK' /\ PostedOK' /\ LateOK'
  BY DEF Inv, SlotsOK, ReadingOK, PostedOK, LateOK, SetupFails
<1> QED
  BY <1>1, <1>2, <1>3, <1>4, <1>5 DEF Inv

LEMMA SetupDoneInv ==
  ASSUME Inv, SetupDone
  PROVE  Inv'
<1> DEFINE s == eng.sock
<1>0. /\ eng.at = "start" /\ eng' = Idle /\ s \in Socks /\ s # None /\ eng.slot \in Slots
      /\ cur[eng.slot] = None /\ sock[s].slot = eng.slot /\ sock[s].fd \in Fds
      /\ reader[s].at = "none" /\ reader[s].holds = None /\ stray[s] = 0
      /\ UNCHANGED <<file, queue, stray, sock, done, posted, late>>
  BY DEF Inv, TypeOK, EngOK, ReadingOK, StrayOK, SetupDone
<1>a. /\ cur' = [cur EXCEPT ![eng.slot] = s]
      /\ cur'[eng.slot] = s /\ \A x \in Slots : x # eng.slot => cur'[x] = cur[x]
      /\ reader' \in [Socks -> [at : {"none", "check", "enter", "recv", "exit"},
                                holds : Files \cup {None}]]
      /\ reader'[s].at = "check" /\ reader'[s].holds = None
      /\ \A t \in Socks : t # s => reader'[t] = reader[t]
  <2>1. cur' = [cur EXCEPT ![eng.slot] = s]
    BY DEF SetupDone
  <2>2. cur'[eng.slot] = s /\ \A x \in Slots : x # eng.slot => cur'[x] = cur[x]
    BY <1>0, <2>1 DEF Inv, TypeOK
  <2>3. reader' = [reader EXCEPT ![s] = [reader[s] EXCEPT !.at = "check"]]
    BY DEF SetupDone
  <2>4. /\ [reader[s] EXCEPT !.at = "check"].at = "check"
        /\ [reader[s] EXCEPT !.at = "check"].holds = None
        /\ [reader[s] EXCEPT !.at = "check"] \in [at : {"none", "check", "enter", "recv", "exit"},
                                                   holds : Files \cup {None}]
    BY <1>0 DEF Inv, TypeOK
  <2>5. \A t \in Socks : t # s => reader'[t] = reader[t]
    BY <2>3 DEF Inv, TypeOK
  <2>6. reader'[s] = [reader[s] EXCEPT !.at = "check"]
    BY <1>0, <2>3 DEF Inv, TypeOK
  <2>7. reader' \in [Socks -> [at : {"none", "check", "enter", "recv", "exit"},
                              holds : Files \cup {None}]]
    BY <1>0, <2>3, <2>4 DEF Inv, TypeOK
  <2> QED
    BY <2>1, <2>2, <2>4, <2>5, <2>6, <2>7
<1>b. \A x \in Slots : cur[x] # s
  BY <1>0 DEF Inv, SlotsOK
<1>1. TypeOK'
  BY <1>0, <1>a DEF Inv, TypeOK, Idle
<1>2. EngOK'
  BY <1>0 DEF EngOK, Idle
<1>3. SlotsOK'
  BY <1>0, <1>a, <1>b DEF Inv, TypeOK, SlotsOK
<1>4. FilesOwned'
  <2>1. \A k \in Files : InUse(k[1])' = InUse(k[1])
    BY <1>0, <1>a, FilesType DEF InUse, Idle
  <2>2. \A k \in Files : Number(k)' = Number(k) /\ ~JustClosed(k) /\ ~JustClosed(k)'
    BY <1>0 DEF Number, JustClosed, Idle
  <2> QED
    BY <1>0, <2>1, <2>2 DEF Inv, FilesOwned
<1>5. ReadingOK'
  <2>1. \A t \in Socks : t # s => ((\E x \in Slots : cur'[x] = t) => \E x \in Slots : cur[x] = t)
    BY <1>0, <1>a
  <2>2. \A t \in Socks : reader[t].at = "recv" => reader[t].holds[1] \in Socks
    BY FilesType DEF Inv, ReadingOK
  <2> QED
    BY <1>0, <1>a, <2>1, <2>2 DEF Inv, ReadingOK
<1>6. PostedOK'
  <2>1. \A t \in Socks : t # s => ((\E x \in Slots : cur'[x] = t) => \E x \in Slots : cur[x] = t)
    BY <1>0, <1>a
  <2>2. \A i \in DOMAIN posted : posted[i].sock \in Socks /\ posted[i].sock # s
    BY <1>0, PostedType DEF Inv, PostedOK
  <2> QED
    BY <1>0, <1>a, <2>1, <2>2 DEF Inv, PostedOK
<1>7. LateOK'
  BY <1>0, <1>a DEF Inv, LateOK
<1>8. StrayOK'
  BY <1>0, <1>a, ReadersAssumption DEF Inv, StrayOK, Idle
<1> QED
  BY <1>1, <1>2, <1>3, <1>4, <1>5, <1>6, <1>7, <1>8 DEF Inv

LEMMA HandleInv ==
  ASSUME Inv, Handle
  PROVE  Inv'
<1>1. TypeOK'
  BY ReadersAssumption DEF Inv, TypeOK, Handle
<1>2. PostedOK'
  BY ReadersAssumption DEF Inv, TypeOK, PostedOK, Handle
<1>3. EngOK' /\ SlotsOK' /\ FilesOwned' /\ ReadingOK' /\ LateOK' /\ StrayOK'
  BY DEF Inv, EngOK, SlotsOK, FilesOwned, InUse, Number, JustClosed, ReadingOK, LateOK, StrayOK,
     Handle
<1> QED
  BY <1>1, <1>2, <1>3 DEF Inv

LEMMA CheckDoneInv ==
  ASSUME Inv, NEW s \in Socks, CheckDone(s)
  PROVE  Inv'
<1>1. TypeOK'
  BY ReadersAssumption DEF Inv, TypeOK, CheckDone, Goes
<1>2. EngOK'
  BY ReadersAssumption DEF Inv, TypeOK, EngOK, CheckDone, Goes
<1>3. SlotsOK'
  BY ReadersAssumption DEF Inv, TypeOK, SlotsOK, CheckDone, Goes
<1>4. ReadingOK'
  BY ReadersAssumption DEF Inv, TypeOK, ReadingOK, CheckDone, Goes
<1>5. PostedOK'
  BY ReadersAssumption DEF Inv, TypeOK, PostedOK, CheckDone, Goes
<1>6. LateOK'
  BY ReadersAssumption DEF Inv, TypeOK, LateOK, CheckDone, Goes
<1>7. StrayOK'
  BY ReadersAssumption DEF Inv, TypeOK, StrayOK, CheckDone, Goes
<1>8. FilesOwned'
  BY DEF Inv, FilesOwned, InUse, Number, JustClosed, CheckDone
<1> QED
  BY <1>1, <1>2, <1>3, <1>4, <1>5, <1>6, <1>7, <1>8 DEF Inv

LEMMA EnterRecvInv ==
  ASSUME Inv, NEW s \in Socks, EnterRecv(s)
  PROVE  Inv'
<1> DEFINE n == sock[s].fd
           r == IF file[n] = None THEN [at |-> "check", holds |-> None]
                                  ELSE [at |-> "recv", holds |-> file[n]]
<1>0. /\ reader[s].at = "enter" /\ n \in Fds /\ sock[s].slot \in Slots
      /\ reader' = [reader EXCEPT ![s] = r]
      /\ UNCHANGED <<file, queue, stray, cur, sock, done, posted, eng, late>>
  BY DEF Inv, ReadingOK, EnterRecv, Goes
<1>a. /\ r.at \in {"check", "recv"}
      /\ r.at = "check" => r.holds = None
      /\ r.at = "recv" => /\ r.holds \in Files /\ sock[r.holds[1]] # Unused
                          /\ (\E x \in Slots : cur[x] = s) => r.holds = <<s, "read">>
  <2>1. CASE file[n] = None
    BY <2>1
  <2>2. CASE file[n] # None
    <3>1. file[n] \in Files /\ sock[file[n][1]] # Unused
      BY <1>0, <2>2, OpenIsUsed
    <3>2. ASSUME NEW x \in Slots, cur[x] = s PROVE file[n] = <<s, "read">>
      <4>1. <<s, "read">> \in Files /\ Number(<<s, "read">>) = n /\ InUse(s)
        BY <3>2 DEF Files, Number, InUse
      <4>2. ~JustClosed(<<s, "read">>)
        BY <2>2 DEF JustClosed, Inv, EngOK
      <4> QED
        BY <1>0, <4>1, <4>2 DEF Inv, FilesOwned
    <3> QED
      BY <2>2, <3>1, <3>2
  <2> QED
    BY <2>1, <2>2
<1>b. r \in [at : {"check", "recv"}, holds : Files \cup {None}]
  BY <1>0 DEF Inv, TypeOK
<1>c. reader'[s] = r /\ \A t \in Socks : t # s => reader'[t] = reader[t]
  BY <1>0 DEF Inv, TypeOK
<1> HIDE DEF r
<1>1. TypeOK'
  BY <1>0, <1>b DEF Inv, TypeOK
<1>2. EngOK'
  BY <1>0, <1>c DEF Inv, TypeOK, EngOK
<1>3. SlotsOK'
  BY <1>0, <1>a, <1>c DEF Inv, TypeOK, SlotsOK
<1>4. ReadingOK'
  BY <1>0, <1>a, <1>c DEF Inv, ReadingOK
<1>5. PostedOK'
  BY <1>0, <1>a, <1>c, PostedType DEF Inv, PostedOK
<1>6. LateOK'
  BY <1>0, <1>a, <1>c DEF Inv, LateOK
<1>7. StrayOK'
  BY <1>0, <1>a, <1>c DEF Inv, StrayOK
<1>8. FilesOwned'
  BY DEF Inv, FilesOwned, InUse, Number, JustClosed, EnterRecv
<1> QED
  BY <1>1, <1>2, <1>3, <1>4, <1>5, <1>6, <1>7, <1>8 DEF Inv

LEMMA InterruptedInv ==
  ASSUME Inv, NEW s \in Socks, Interrupted(s)
  PROVE  Inv'
<1>1. TypeOK'
  BY ReadersAssumption DEF Inv, TypeOK, Interrupted, Goes
<1>2. EngOK'
  BY ReadersAssumption DEF Inv, TypeOK, EngOK, Interrupted, Goes
<1>3. SlotsOK'
  BY ReadersAssumption DEF Inv, TypeOK, SlotsOK, Interrupted, Goes
<1>4. ReadingOK'
  BY ReadersAssumption DEF Inv, TypeOK, ReadingOK, Interrupted, Goes
<1>5. PostedOK'
  BY ReadersAssumption DEF Inv, TypeOK, PostedOK, Interrupted, Goes
<1>6. LateOK'
  BY ReadersAssumption DEF Inv, TypeOK, LateOK, Interrupted, Goes
<1>7. StrayOK'
  BY ReadersAssumption DEF Inv, TypeOK, StrayOK, Interrupted, Goes
<1>8. FilesOwned'
  BY DEF Inv, FilesOwned, InUse, Number, JustClosed, Interrupted
<1> QED
  BY <1>1, <1>2, <1>3, <1>4, <1>5, <1>6, <1>7, <1>8 DEF Inv

LEMMA ReceiveInv ==
  ASSUME Inv, NEW s \in Socks, NEW valid \in BOOLEAN, Receive(s, valid)
  PROVE  Inv'
<1> DEFINE k == reader[s].holds[1]
           p == [sock |-> s, from |-> k]
<1>0. /\ reader[s].at = "recv" /\ reader[s].holds \in Files /\ reader[s].holds[2] = "read"
      /\ k \in Socks /\ queue[k] > 0
      /\ (\E x \in Slots : cur[x] = s) => k = s
      /\ UNCHANGED <<file, cur, sock, done, eng>>
  <2>1. /\ reader[s].at = "recv" /\ reader[s].holds[2] = "read" /\ queue[k] > 0
        /\ UNCHANGED <<file, cur, sock, done, eng>>
    BY DEF Receive
  <2>2. /\ reader[s].holds \in Files
        /\ (\E x \in Slots : cur[x] = s) => reader[s].holds = <<s, "read">>
    BY <2>1 DEF Inv, ReadingOK
  <2> QED
    BY <2>1, <2>2, FilesType
<1>a. /\ queue' = [queue EXCEPT ![k] = @ - 1]
      /\ stray' = [stray EXCEPT ![k] = IF @ > 0 THEN @ - 1 ELSE 0]
      /\ posted' = IF valid THEN Append(posted, p) ELSE posted
      /\ valid => Len(posted) < MaxPosted
      /\ late' = IF s \in done THEN [late EXCEPT ![s] = @ + 1] ELSE late
      /\ reader' = [reader EXCEPT ![s] = [at |-> "check", holds |-> None]]
  BY DEF Receive, Goes
<1>b. /\ reader'[s].at = "check" /\ reader'[s].holds = None
      /\ \A t \in Socks : t # s => reader'[t] = reader[t]
  BY <1>a DEF Inv, TypeOK
<1>c. /\ queue' \in [Socks -> 0..MaxQueue] /\ stray' \in [Socks -> 0..MaxQueue]
      /\ \A t \in Socks : stray'[t] <= queue'[t] /\ (stray[t] = 0 => stray'[t] = 0)
  BY <1>0, <1>a, OneTaken
<1>d. /\ posted' \in Seq([sock : Socks, from : Socks]) /\ Len(posted') <= MaxPosted
      /\ \A i \in DOMAIN posted' : \/ i \in DOMAIN posted /\ posted'[i] = posted[i]
                                   \/ posted'[i] = p
  <2> DEFINE R == [sock : Socks, from : Socks]
  <2>1. p \in R /\ posted \in Seq(R) /\ Len(posted) <= MaxPosted
    BY <1>0 DEF Inv, TypeOK
  <2>2. MaxPosted \in Nat
    BY ReadersAssumption
  <2>3. /\ posted' = IF valid THEN Append(posted, p) ELSE posted
        /\ valid => Len(posted) < MaxPosted
    BY <1>a
  <2>4. posted' \in Seq(R) /\ Len(posted') <= MaxPosted
        /\ \A i \in DOMAIN posted' : \/ i \in DOMAIN posted /\ posted'[i] = posted[i]
                                     \/ posted'[i] = p
    <3> HIDE DEF R, p
    <3>1. CASE valid
      <4>1. posted' = Append(posted, p) /\ Len(posted) < MaxPosted
        BY <2>3, <3>1
      <4>2. Len(posted') = Len(posted) + 1 /\ Len(posted) \in Nat
        BY <2>1, <4>1, AppendOne
      <4>3. Len(posted') <= MaxPosted
        BY <2>2, <4>1, <4>2
      <4> QED
        BY <2>1, <4>1, <4>3, AppendOne
    <3>2. CASE ~valid
      BY <2>1, <2>3, <3>2
    <3> QED
      BY <3>1, <3>2
  <2> QED
    BY <2>4
<1>1. TypeOK'
  <2>1. late' \in [Socks -> Nat]
    BY <1>a DEF Inv, TypeOK
  <2>2. reader' \in [Socks -> [at : {"none", "check", "enter", "recv", "exit"},
                              holds : Files \cup {None}]]
    BY <1>a DEF Inv, TypeOK
  <2> QED
    BY <1>0, <1>c, <1>d, <2>1, <2>2 DEF Inv, TypeOK
<1>2. EngOK'
  BY <1>0, <1>b DEF Inv, TypeOK, EngOK
<1>3. SlotsOK'
  <2>1. \A t \in Socks : reader[t].at # "none" => reader'[t].at # "none"
    BY <1>b
  <2>2. \A x \in Slots : cur[x] # None => cur[x] \in Socks
    BY DEF Inv, TypeOK
  <2> QED
    BY <1>0, <2>1, <2>2 DEF Inv, SlotsOK
<1>4. ReadingOK'
  BY <1>0, <1>b DEF Inv, ReadingOK
<1>5. PostedOK'
  <2>1. \A t \in Socks : reader[t].at # "none" => reader'[t].at # "none"
    BY <1>b
  <2>2. p.sock = s /\ p.from = k
    OBVIOUS
  <2> QED
    BY <1>0, <1>b, <1>d, <2>1, <2>2, PostedType DEF Inv, PostedOK
<1>6. LateOK'
  BY <1>0, <1>a, <1>b DEF Inv, TypeOK, LateOK
<1>7. StrayOK'
  <2>1. \A t \in Socks : reader'[t].at # "none" => reader[t].at # "none"
    BY <1>0, <1>b
  <2> QED
    BY <1>0, <1>c, <2>1 DEF Inv, StrayOK
<1>8. FilesOwned'
  BY <1>0 DEF Inv, FilesOwned, InUse, Number, JustClosed
<1> QED
  BY <1>1, <1>2, <1>3, <1>4, <1>5, <1>6, <1>7, <1>8 DEF Inv

LEMMA ArrivesInv ==
  ASSUME Inv, NEW s \in Socks, NEW wanted \in BOOLEAN, Arrives(s, wanted)
  PROVE  Inv'
<1>0. /\ Alive(s) /\ queue[s] < MaxQueue /\ Passes(s, wanted)
      /\ queue' = [queue EXCEPT ![s] = @ + 1]
      /\ stray' = IF wanted THEN stray ELSE [stray EXCEPT ![s] = @ + 1]
      /\ UNCHANGED <<file, cur, sock, done, reader, posted, eng, late>>
  BY DEF Arrives
<1>a. sock[s] # Unused
  <2>1. CASE \E f \in Fds : file[f] = <<s, "read">>
    <3>1. PICK f \in Fds : file[f] = <<s, "read">>
      BY <2>1
    <3>2. file[f] # None /\ file[f][1] = s
      BY <3>1, FilesType DEF Files
    <3> QED
      BY <3>2, OpenIsUsed
  <2>2. CASE \E t \in Socks : reader[t].holds = <<s, "read">>
    <3>1. PICK t \in Socks : reader[t].holds = <<s, "read">>
      BY <2>2
    <3>2. reader[t].holds # None /\ reader[t].holds[1] = s
      BY <3>1, FilesType DEF Files
    <3> QED
      BY <3>2 DEF Inv, ReadingOK
  <2> QED
    BY <1>0, <2>1, <2>2 DEF Alive
<1>b. ~wanted => eng.sock = s /\ eng.at = "dropAll" /\ reader[s].at = "none"
  BY <1>0, ReadersAssumption DEF Passes, Inv, EngOK
<1>1. TypeOK'
  <2>1. queue' \in [Socks -> 0..MaxQueue] /\ stray' \in [Socks -> 0..MaxQueue]
    BY <1>0, ReadersAssumption DEF Inv, TypeOK, StrayOK
  <2> QED
    BY <1>0, <2>1 DEF Inv, TypeOK
<1>2. StrayOK'
  <2>1. \A t \in Socks : stray'[t] <= queue'[t] /\ (t # s \/ wanted => stray'[t] = stray[t])
    BY <1>0, ReadersAssumption DEF Inv, TypeOK, StrayOK
  <2> QED
    BY <1>0, <1>a, <1>b, <2>1 DEF Inv, StrayOK
<1>3. EngOK' /\ SlotsOK' /\ FilesOwned' /\ ReadingOK' /\ PostedOK' /\ LateOK'
  BY DEF Inv, EngOK, SlotsOK, FilesOwned, InUse, Number, JustClosed, ReadingOK, PostedOK,
     LateOK, Arrives
<1> QED
  BY <1>1, <1>2, <1>3 DEF Inv

-----------------------------------------------------------------------------
LEMMA NextInv == Inv /\ [Next]_vars => Inv'
<1> SUFFICES ASSUME Inv, [Next]_vars PROVE Inv'
  OBVIOUS
<1>1. CASE Engine
  BY <1>1, CloseDoneInv, CloseFdInv, ClosePingFdInv, OpenPingInv, OpenInv, AttachDropAllInv,
     DrainSocketInv, AttachNSFilterInv, SetupFailsInv, SetupDoneInv, HandleInv DEF Engine
<1>2. ASSUME NEW s \in Socks, Read(s) \/ Interrupted(s) PROVE Inv'
  BY <1>2, CheckDoneInv, EnterRecvInv, ReceiveInv, InterruptedInv DEF Read
<1>3. CASE UNCHANGED vars
  BY <1>3 DEF vars, Inv, TypeOK, EngOK, SlotsOK, FilesOwned, InUse, Number, JustClosed, ReadingOK,
     PostedOK, LateOK, StrayOK
<1> QED
  BY <1>1, <1>2, <1>3, SetupStartInv, ArrivesInv DEF Next

LEMMA Invariance == Spec => []Inv
BY InitInv, NextInv, PTL DEF Spec

\* Descriptors, readers, queues and the engine keep their types; in particular at
\* most MaxQueue frames are on a socket, the ones ahead of the filter included.
THEOREM ReadersTypeCorrect == Spec => []TypeOK
<1>1. Inv => TypeOK
  BY DEF Inv
<1> QED
  BY <1>1, Invariance, PTL

\* Between setups exactly the descriptors of the objects in the slots are open: the
\* setup functions leak none on any error path and never close a number that has gone
\* to another socket.
THEOREM DescriptorsAreOwned == Spec => []DescriptorsOwned
<1>1. Inv => DescriptorsOwned
  <2> SUFFICES ASSUME Inv, eng = Idle, NEW f \in Fds, NEW k \in Files
               PROVE  file[f] = k <=> /\ \E x \in Slots : cur[x] = k[1]
                                      /\ f = IF k[2] = "read" THEN sock[k[1]].fd ELSE sock[k[1]].pingFd
    BY DEF DescriptorsOwned
  <2>1. InUse(k[1]) <=> \E x \in Slots : cur[x] = k[1]
    BY FilesType DEF InUse, Idle
  <2> QED
    BY <2>1 DEF Inv, FilesOwned, Number, JustClosed, Idle
<1> QED
  BY <1>1, Invariance, PTL

\* What a handler does not discard as stale was read from the socket of the object it
\* was posted with, though the reader knows only a descriptor number the kernel reuses.
THEOREM NothingFromReusedNumbers == Spec => []RelayedFromOwnSocket
<1>1. Inv => RelayedFromOwnSocket
  <2> SUFFICES ASSUME Inv, NEW i \in DOMAIN posted, Current(posted[i])
               PROVE  posted[i].from = posted[i].sock
    BY DEF RelayedFromOwnSocket
  <2>1. sock[posted[i].sock].slot \in Slots
    BY PostedType DEF Inv, PostedOK, ReadingOK
  <2> QED
    BY <2>1 DEF Inv, PostedOK, Current
<1> QED
  BY <1>1, Invariance, PTL

\* A reader whose done channel is closed takes at most one more packet.
THEOREM LateReadersStop == Spec => []OneLatePacket
<1>1. Inv => OneLatePacket
  <2> SUFFICES ASSUME Inv, NEW s \in Socks PROVE late[s] <= 1
    BY DEF OneLatePacket
  <2>1. late[s] = 0 \/ late[s] = 1
    BY DEF Inv, LateOK
  <2> QED
    BY <2>1
<1> QED
  BY <1>1, Invariance, PTL

\* The two filters and the drain of ndpSetup leave the reader nothing but Neighbor
\* Solicitations, whatever arrives between the system calls.
THEOREM CaptureIsClean == Spec => []OnlySolicitations
<1>1. Inv => OnlySolicitations
  BY DEF Inv, StrayOK, OnlySolicitations
<1> QED
  BY <1>1, Invariance, PTL
=============================================================================
