------------------------------ MODULE Addresses ------------------------------
(***************************************************************************)
(* The address list the daemon keeps of one interface: fetchAddr6 turns    *)
(* the kernel's remaining lifetimes into absolute ones, relayLinkAddress   *)
(* picks the link address of a Relay-Forward from the list, and            *)
(* getLinkLocalAddr caches the source of the daemon's own packets.  The    *)
(* list is a copy: it is as old as the last address event.                 *)
(*                                                                         *)
(* Times are whole seconds.  Word stands for 0xffffffff, the largest       *)
(* uint32, which the kernel also reports as the lifetime "forever".        *)
(***************************************************************************)
EXTENDS Naturals, Sequences, SequencesExt

CONSTANTS
  Addrs, LinkLocals, NoAddr,
  Word,
  Lifetimes,    \* the finite remaining lifetimes that are assigned
  MaxNow,       \* bound: the clock
  MaxEvents     \* bound: address events on their way

ASSUME AddressesAssumption ==
  /\ LinkLocals \subseteq Addrs /\ NoAddr \notin Addrs
  /\ Word \in Nat /\ Lifetimes \subseteq 0..(Word - 1)
  /\ MaxNow \in 1..(Word - 1) /\ MaxEvents \in Nat \ {0}

\* The end of a lifetime that has none: after every other end.
Forever == MaxNow + Word

VARIABLES
  now,          \* nowMono, at least 1: the daemon starts after boot
  kernel,       \* the kernel's list, with the times at which lifetimes end
  events,       \* address events the engine has not handled
  addr6,        \* iface.Addr6
  cachedLL,     \* iface.cachedLL, NoAddr while cachedLLValid is false
  fetched       \* the last fetchAddr6 could read the list

vars == <<now, kernel, events, addr6, cachedLL, fetched>>

\* The two lists, in the two conventions for their times.
TypeOK ==
  /\ now \in 1..MaxNow
  /\ kernel \in Seq([addr : Addrs, pref : 1..Forever, valid : 1..Forever, tentative : BOOLEAN])
  /\ events \in 0..MaxEvents
  /\ addr6 \in Seq([addr : Addrs, pref : 0..Word, valid : 0..Word, tentative : BOOLEAN])
  /\ cachedLL \in LinkLocals \cup {NoAddr}
  /\ fetched \in BOOLEAN

Init ==
  /\ now = 1 /\ kernel = <<>> /\ events = 0
  /\ addr6 = <<>> /\ cachedLL = NoAddr /\ fetched = TRUE

-----------------------------------------------------------------------------
(* The kernel (external).                                                   *)

Assigned(a) == \E k \in DOMAIN kernel : kernel[k].addr = a

\* Preferred and valid lifetimes from now, link-local ones without an end.
Times(a) ==
  LET until == {now + l : l \in Lifetimes} \cup {Forever}
  IN IF a \in LinkLocals
     THEN {<<Forever, Forever>>}
     ELSE {pv \in until \X until : pv[1] <= pv[2]}

Notify == events < MaxEvents /\ events' = events + 1

AddrAdded(a) ==
  /\ ~Assigned(a) /\ Notify
  /\ \E t \in Times(a) :
       kernel' = Append(kernel, [addr |-> a, pref |-> t[1], valid |-> t[2], tentative |-> TRUE])
  /\ UNCHANGED <<now, addr6, cachedLL, fetched>>

\* Duplicate address detection is over, or an advertisement renews the lifetimes.
AddrChanged(k) ==
  /\ k \in DOMAIN kernel /\ Notify
  /\ \/ kernel[k].tentative /\ kernel' = [kernel EXCEPT ![k].tentative = FALSE]
     \/ \E t \in Times(kernel[k].addr) :
          kernel' = [kernel EXCEPT ![k].pref = t[1], ![k].valid = t[2]]
  /\ UNCHANGED <<now, addr6, cachedLL, fetched>>

AddrRemoved(k) ==
  /\ k \in DOMAIN kernel /\ Notify
  /\ kernel' = RemoveAt(kernel, k)
  /\ UNCHANGED <<now, addr6, cachedLL, fetched>>

Tick ==
  /\ now < MaxNow /\ now' = now + 1
  /\ UNCHANGED <<kernel, events, addr6, cachedLL, fetched>>

\* A lifetime as a dump reports it: seconds from now, all ones for no end.
Lft(end) == IF end = Forever THEN Word ELSE IF end > now THEN end - now ELSE 0

-----------------------------------------------------------------------------
(* fetchAddr6 and its readers.                                              *)

\* Fault: a sum past the word wraps around.
WrapsAround(lft, t) == IF lft = Word THEN 0 ELSE (lft + t) % (Word + 1)

\* 0 is "infinite"; a sum past the word saturates.
LifetimeAbs(lft, t) ==
  IF lft = Word THEN 0 ELSE IF lft > Word - t THEN Word ELSE lft + t

FetchAddr6 ==
  [k \in DOMAIN kernel |->
     [addr |-> kernel[k].addr, tentative |-> kernel[k].tentative,
      pref |-> LifetimeAbs(Lft(kernel[k].pref), now),
      valid |-> LifetimeAbs(Lft(kernel[k].valid), now)]]

\* Fault: what a failing dump cannot replace is kept.
FailureKeepsOld ==
  \/ addr6' = FetchAddr6 /\ fetched' = TRUE /\ cachedLL' = NoAddr
  \/ fetched' = FALSE /\ UNCHANGED <<addr6, cachedLL>>

\* A failing dump leaves the list empty.
RefreshInterfaceAddresses ==
  /\ \/ addr6' = FetchAddr6 /\ fetched' = TRUE
     \/ addr6' = <<>> /\ fetched' = FALSE
  /\ cachedLL' = NoAddr

HandleAddrEvent ==
  /\ events > 0 /\ events' = events - 1
  /\ RefreshInterfaceAddresses
  /\ UNCHANGED <<now, kernel>>

\* A reload and a link that comes up read the list without an address event.
Refresh == RefreshInterfaceAddresses /\ UNCHANGED <<now, kernel, events>>

GetLinkLocalAddr ==
  LET usable == {k \in DOMAIN addr6 : ~addr6[k].tentative /\ addr6[k].addr \in LinkLocals}
  IN /\ cachedLL = NoAddr
     /\ \E k \in usable : (\A j \in usable : k <= j) /\ cachedLL' = addr6[k].addr
     /\ UNCHANGED <<now, kernel, events, addr6, fetched>>

Expired(a) == a.valid # 0 /\ a.valid <= now
Preferred(a) == a.pref = 0 \/ a.pref > now

\* The k-th address takes the place of best, the position found so far (0: none): a
\* preferred one ends the loop, the others are for want of one.
Better(best, k) ==
  /\ ~addr6[k].tentative /\ ~Expired(addr6[k])
  /\ \/ best = 0
     \/ Preferred(addr6[k]) \/ addr6[k].valid = 0
     \/ addr6[best].valid # 0 /\ addr6[k].valid > addr6[best].valid

RelayLinkAddress ==
  LET best[k \in 0..Len(addr6)] ==
        IF k = 0 THEN 0
        ELSE IF best[k - 1] # 0 /\ Preferred(addr6[best[k - 1]]) THEN best[k - 1]
        ELSE IF Better(best[k - 1], k) THEN k ELSE best[k - 1]
      found == best[Len(addr6)]
  IN IF found = 0 THEN NoAddr ELSE addr6[found].addr

-----------------------------------------------------------------------------
Next ==
  \/ \E a \in Addrs : AddrAdded(a)
  \/ \E k \in DOMAIN kernel : AddrChanged(k) \/ AddrRemoved(k)
  \/ Tick \/ HandleAddrEvent \/ Refresh \/ GetLinkLocalAddr

Spec == Init /\ [][Next]_vars

-----------------------------------------------------------------------------
(* Properties.                                                              *)

\* The copy agrees with the kernel: the last dump worked and every event is handled.
UpToDate == events = 0 /\ fetched

\* While the copy is up to date, relayLinkAddress picks from it what a look at the
\* kernel's own list would pick, however long ago the copy was made: never a tentative
\* or an expired address, a preferred one if there is any, otherwise one that stays
\* valid longest (ends past the largest word count as one), and none only if none can
\* be used.
PicksAsDocumented ==
  LET usable == {k \in DOMAIN kernel : ~kernel[k].tentative /\ kernel[k].valid > now}
      prefs == {k \in usable : kernel[k].pref > now}
      longest == {k \in usable : \A j \in usable :
                    kernel[k].valid >= kernel[j].valid
                      \/ (kernel[k].valid >= Word /\ kernel[j].valid # Forever)}
      picks == IF prefs # {} THEN prefs ELSE longest
  IN UpToDate =>
       IF usable = {} THEN RelayLinkAddress = NoAddr
       ELSE \E k \in picks : RelayLinkAddress = kernel[k].addr

\* Once the address events are handled, the cached source of the daemon's probes
\* and solicitations is a link-local address the interface has and may use, also
\* when fetchAddr6 could not read the list and the copy is not the kernel's: a source
\* read from an older copy must not outlive a failing dump.
SourceAssigned ==
  events = 0 /\ cachedLL # NoAddr =>
    \E k \in DOMAIN kernel : kernel[k].addr = cachedLL /\ ~kernel[k].tentative
=============================================================================
