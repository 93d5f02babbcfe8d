---------------------------- MODULE EngineProofs ----------------------------
(***************************************************************************)
(* The backlog is bounded and no reload is lost, for every capacity of the *)
(* two channels and any number of edits.                                   *)
(***************************************************************************)
EXTENDS Engine, TLAPS

\* main posts once; the sweep timer is armed only after its last Post returned.
OneAtATime ==
  /\ BoundedBacklog
  /\ pc \in {"subscribed", "notified"} => \A i \in 1..Len(queue) : queue[i] # "main"
  /\ sweep = "armed" => ~Blocked("sweep")

LEMMA AppendFacts ==
  ASSUME NEW S, NEW q \in Seq(S), NEW s \in S
  PROVE  /\ Append(q, s) \in Seq(S) /\ Len(Append(q, s)) = Len(q) + 1 /\ Len(q) \in Nat
         /\ Append(q, s)[Len(q) + 1] = s /\ Append(q, s) # << >>
         /\ \A i \in 1..Len(q) : Append(q, s)[i] = q[i]
  OBVIOUS

LEMMA TailFacts ==
  ASSUME NEW S, NEW q \in Seq(S), q # << >>
  PROVE  /\ Tail(q) \in Seq(S) /\ Len(Tail(q)) = Len(q) - 1 /\ Len(q) \in Nat \ {0}
         /\ \A i \in 1..Len(Tail(q)) : i + 1 \in 1..Len(q) /\ Tail(q)[i] = q[i + 1]
         /\ Head(q) = q[1] /\ Head(q) \in S
  OBVIOUS

\* The type invariant, with the bound of sigCh.
LEMMA EngineTypeCorrect == Spec => []TypeOK
<1> USE EngineAssumption
<1>1. Init => TypeOK
  BY DEF Init, TypeOK
<1>2. TypeOK /\ [Next]_vars => TypeOK'
  <2> SUFFICES ASSUME TypeOK, [Next]_vars PROVE TypeOK'
    OBVIOUS
  <2>0. file \in Nat /\ asked \in Nat /\ loaded \in Nat
    BY DEF TypeOK
  <2>1. ASSUME NEW s \in Senders, Post(s), UNCHANGED <<sigCh, file, asked, loaded>>,
               pc' \in {"subscribed", "notified", "posted", "running", "exited"},
               monitor' \in {"selecting", "returned"}, sweep' \in {"armed", "posting"}
        PROVE  TypeOK'
    BY <2>1, AppendFacts DEF Post, TypeOK
  <2>2. CASE Notify
    BY <2>2 DEF Notify, TypeOK
  <2>3. CASE PostReload
    BY <2>1, <2>3 DEF PostReload, TypeOK, Senders
  <2>4. CASE EnterRun
    BY <2>4 DEF EnterRun, TypeOK
  <2>5. CASE Step
    BY <2>0, <2>5, TailFacts DEF Step, TypeOK
  <2>6. ASSUME NEW sig \in Signals, Signal(sig) PROVE TypeOK'
    BY <2>0, <2>6, AppendFacts DEF Signal, TypeOK
  <2>7. CASE HandleSignal
    <3>1. sigCh' \in Seq(Signals) /\ Len(sigCh') <= SigBuffer
      BY <2>7, TailFacts DEF HandleSignal, TypeOK
    <3>2. queue' \in Seq(Senders)
      <4>1. queue' = queue \/ queue' = Append(queue, "signals")
        BY <2>7 DEF HandleSignal, HandleHup, HandleTerm, PostSignal, Post
      <4>2. "signals" \in Senders /\ queue \in Seq(Senders)
        BY DEF Senders, TypeOK
      <4> QED
        BY <4>1, <4>2, AppendFacts
    <3>3. pc' \in {"subscribed", "notified", "posted", "running", "exited"}
      BY <2>7 DEF HandleSignal, HandleHup, HandleTerm, TypeOK
    <3> QED
      BY <2>7, <3>1, <3>2, <3>3 DEF HandleSignal, TypeOK
  <2>8. CASE Forward
    BY <2>1, <2>8 DEF Forward, TypeOK, Senders
  <2>9. CASE SubscriptionEnds
    BY <2>9 DEF SubscriptionEnds, TypeOK
  <2>10. CASE Tick
    BY <2>1, <2>10 DEF Tick, TypeOK, Senders
  <2>11. CASE Rearm
    BY <2>11 DEF Rearm, TypeOK
  <2>12. CASE Receive
    BY <2>1, <2>12 DEF Receive, TypeOK, Senders
  <2>13. CASE EditConfig
    BY <2>0, <2>13 DEF EditConfig, TypeOK
  <2>14. CASE UNCHANGED vars
    BY <2>14 DEF vars, TypeOK
  <2> QED
    BY <2>2, <2>3, <2>4, <2>5, <2>6, <2>7, <2>8, <2>9, <2>10, <2>11, <2>12, <2>13, <2>14
    DEF Next, Main
<1> QED
  BY <1>1, <1>2, PTL DEF Spec

\* A sender that is not waiting posts.
LEMMA PostKeeps ==
  ASSUME TypeOK, OneAtATime, NEW s \in Senders, Post(s), ~Blocked(s)
  PROVE  /\ BoundedBacklog'
         /\ \A x \in Senders : x # s /\ ~Blocked(x) => ~Blocked(x)'
         /\ \A x \in Senders : (\A i \in 1..Len(queue) : queue[i] # x) /\ x # s
                                 => \A i \in 1..Len(queue') : queue'[i] # x
<1> USE EngineAssumption
<1>1. /\ queue' = Append(queue, s) /\ Len(queue') = Len(queue) + 1 /\ Len(queue) \in Nat
      /\ queue'[Len(queue) + 1] = s /\ \A i \in 1..Len(queue) : queue'[i] = queue[i]
  BY AppendFacts DEF Post, TypeOK
<1>2. BoundedBacklog'
  BY <1>1 DEF OneAtATime, BoundedBacklog, Blocked
<1>3. \A x \in Senders : x # s /\ ~Blocked(x) => ~Blocked(x)'
  BY <1>1 DEF Blocked
<1>4. \A x \in Senders : (\A i \in 1..Len(queue) : queue[i] # x) /\ x # s
                           => \A i \in 1..Len(queue') : queue'[i] # x
  BY <1>1
<1> QED
  BY <1>2, <1>3, <1>4

LEMMA OneAtATimeStep ==
  ASSUME TypeOK, OneAtATime, [Next]_vars
  PROVE  OneAtATime'
<1> USE EngineAssumption DEF OneAtATime
<1>1. CASE UNCHANGED queue /\ (sweep' = sweep \/ Rearm) /\ (pc' = pc \/ Notify \/ EnterRun \/ pc' = "exited")
  <2>1. BoundedBacklog'
    BY <1>1 DEF BoundedBacklog
  <2>2. sweep' = "armed" => ~Blocked("sweep")'
    BY <1>1 DEF Blocked, Rearm
  <2>3. pc' \in {"subscribed", "notified"} => pc \in {"subscribed", "notified"}
    BY <1>1 DEF Notify, EnterRun
  <2> QED
    BY <1>1, <2>1, <2>2, <2>3
<1>2. CASE Step
  <2>1. /\ pc' = "running" /\ sweep' = sweep
        /\ Len(queue') = Len(queue) - 1 /\ Len(queue) \in Nat \ {0}
        /\ \A i \in 1..Len(queue') : i + 1 \in 1..Len(queue) /\ queue'[i] = queue[i + 1]
    BY <1>2, TailFacts DEF Step, TypeOK
  <2>2. BoundedBacklog'
    BY <2>1 DEF BoundedBacklog
  <2>3. ~Blocked("sweep") => ~Blocked("sweep")'
    BY <2>1 DEF Blocked
  <2> QED
    BY <2>1, <2>2, <2>3
<1>3. CASE PostReload
  <2>1. ~Blocked("main") /\ Post("main") /\ pc' = "posted" /\ sweep' = sweep
    BY <1>3 DEF PostReload, Blocked
  <2> QED
    BY <2>1, PostKeeps DEF Senders
<1>4. ASSUME NEW s \in {"signals", "monitor", "reader"}, ~Blocked(s), Post(s), UNCHANGED <<pc, sweep>>
      PROVE  OneAtATime'
  BY <1>4, PostKeeps DEF Senders
<1>5. CASE Tick
  <2>1. ~Blocked("sweep") /\ Post("sweep") /\ pc' = pc /\ sweep' = "posting"
    BY <1>5 DEF Tick
  <2> QED
    BY <2>1, PostKeeps DEF Senders
<1> QED
  BY <1>1, <1>2, <1>3, <1>4, <1>5
  DEF Next, Main, Notify, EnterRun, Signal, HandleSignal, HandleHup, HandleTerm, PostSignal, Forward,
      SubscriptionEnds, Rearm, Receive, EditConfig, vars

\* No goroutine has two closures waiting for room in the channel.
THEOREM BacklogIsBounded == Spec => []BoundedBacklog
<1>1. Init => OneAtATime
  BY DEF Init, OneAtATime, BoundedBacklog, Blocked
<1>2. TypeOK /\ OneAtATime /\ [Next]_vars => OneAtATime'
  BY OneAtATimeStep
<1>3. OneAtATime => BoundedBacklog
  BY DEF OneAtATime
<1> QED
  BY <1>1, <1>2, <1>3, EngineTypeCorrect, PTL DEF Spec

LEMMA NoReloadLostStep ==
  ASSUME TypeOK, TypeOK', NoReloadLost, [Next]_vars
  PROVE  NoReloadLost'
<1> USE EngineAssumption
<1> DEFINE Queued == \E i \in 1..Len(queue) : queue[i] \in {"main", "signals"}
<1>0. file \in Nat /\ asked \in Nat /\ loaded \in Nat /\ asked <= file
  BY DEF TypeOK
<1>1. ASSUME NEW s \in Senders, Post(s)
      PROVE  (Queued => Queued') /\ (s = "signals" => Queued')
  BY <1>1, AppendFacts DEF Post, TypeOK
<1>2. CASE UNCHANGED <<asked, loaded, sigCh>> /\ (pc = "exited" => pc' = "exited") /\ (Queued => Queued')
  BY <1>2 DEF NoReloadLost
<1>3. CASE Step
  <2>1. /\ queue # << >> /\ queue' = Tail(queue) /\ UNCHANGED <<pc, sigCh, asked, file>>
        /\ loaded' = IF Head(queue) \in {"main", "signals"} THEN file ELSE loaded
    BY <1>3 DEF Step
  <2>2. CASE Head(queue) \in {"main", "signals"}
    BY <1>0, <2>1, <2>2 DEF NoReloadLost
  <2>3. CASE Head(queue) \notin {"main", "signals"}
    <3>1. Queued => Queued'
      <4> SUFFICES ASSUME NEW i \in 1..Len(queue), queue[i] \in {"main", "signals"} PROVE Queued'
        OBVIOUS
      <4>1. i # 1 /\ i - 1 \in 1..Len(Tail(queue)) /\ Tail(queue)[i - 1] = queue[i]
        BY <2>1, <2>3, TailFacts DEF TypeOK
      <4> QED
        BY <2>1, <4>1
    <3> QED
      BY <2>1, <2>3, <3>1 DEF NoReloadLost
  <2> QED
    BY <2>2, <2>3
<1>4. ASSUME NEW sig \in Signals, Signal(sig) PROVE NoReloadLost'
  <2>1. sigCh' # << >>
    BY <1>4, AppendFacts DEF Signal, TypeOK
  <2> QED
    BY <2>1 DEF NoReloadLost
<1>5. CASE HandleSignal
  <2>1. CASE HandleHup
    BY <1>1, <2>1 DEF HandleHup, PostSignal, NoReloadLost, Senders
  <2>2. CASE HandleTerm
    BY <2>2 DEF HandleTerm, NoReloadLost
  <2> QED
    BY <1>5, <2>1, <2>2 DEF HandleSignal
<1>6. CASE PostReload \/ Forward \/ Tick \/ Receive
  <2>1. \E s \in Senders : Post(s)
    BY <1>6 DEF PostReload, Forward, Tick, Receive, Senders
  <2>2. Queued => Queued'
    BY <1>1, <2>1
  <2> QED
    BY <1>2, <1>6, <2>2 DEF PostReload, Forward, Tick, Receive
<1>7. CASE Notify \/ EnterRun \/ SubscriptionEnds \/ Rearm \/ EditConfig \/ UNCHANGED vars
  BY <1>2, <1>7 DEF Notify, EnterRun, SubscriptionEnds, Rearm, EditConfig, vars
<1> QED
  BY <1>3, <1>4, <1>5, <1>6, <1>7 DEF Next, Main

\* A reload that was asked for is done, on its way, or overtaken by the exit.
THEOREM ReloadIsNotLost == Spec => []NoReloadLost
<1>1. Init => NoReloadLost
  BY DEF Init, NoReloadLost
<1>2. TypeOK /\ TypeOK' /\ NoReloadLost /\ [Next]_vars => NoReloadLost'
  BY NoReloadLostStep
<1> QED
  BY <1>1, <1>2, EngineTypeCorrect, PTL DEF Spec
=============================================================================
