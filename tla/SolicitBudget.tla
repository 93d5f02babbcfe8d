---------------------------- MODULE SolicitBudget ----------------------------
(***************************************************************************)
(* What the router-solicitation machinery promises.  The router service of *)
(* a master interface runs in sessions, one at a time, and every start is  *)
(* a session of its own.  A session may send a fixed number of             *)
(* solicitations, and only while it runs.  The ones relayed for hosts on   *)
(* slave links are not counted.                                            *)
(***************************************************************************)
EXTENDS Naturals

CONSTANTS
  Sessions,     \* what a run of the service may be called
  Budget,       \* a natural number
  NoSession     \* nobody

VARIABLES
  started,      \* the sessions there have been
  session,      \* the one that runs
  left,         \* what it may still send
  wire          \* whose solicitation the last step put on the link

Init == started = {} /\ session = NoSession /\ left = 0 /\ wire = NoSession

\* A session that has never run; the one that runs is cut off.
Start(s) ==
  /\ s \notin started
  /\ started' = started \cup {s}
  /\ session' = s
  /\ left' = Budget
  /\ wire' = NoSession

Stop == session' = NoSession /\ left' = 0 /\ wire' = NoSession /\ UNCHANGED started

Solicit ==
  /\ session # NoSession
  /\ left > 0
  /\ left' = left - 1
  /\ wire' = session
  /\ UNCHANGED <<started, session>>

\* Nothing is sent.
Pause == wire' = NoSession /\ UNCHANGED <<started, session, left>>

Next == (\E s \in Sessions : Start(s)) \/ Stop \/ Solicit \/ Pause

Spec == Init /\ [][Next]_<<started, session, left, wire>>
=============================================================================
