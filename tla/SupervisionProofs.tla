------------------------- MODULE SupervisionProofs -------------------------
(* What a supervised call promises, for every number of attempts, every    *)
(* limit, poll and grace period, and any number of signals.                *)
(*                                                                         *)
(* The time of a call runs out by itself (TimeRunsOut needs the types      *)
(* only); three inductive invariants carry the rest: what silence and the  *)
(* idle deadline come to together (IdleInv), who is alive at each point of *)
(* a cleanup (StopInv), and what every tick of the outer deadline was      *)
(* charged to (ChargeInv).                                                 *)
EXTENDS Supervision, TLAPS

USE SupervisionAssumption DEF Supervisors

\* Where a supervisor can be.
Tags == {"off", "ready", "launched", "wait", "term", "kill", "check", "done"}

ControlTyped ==
  /\ kind \in Kinds
  /\ pc \in [Supervisors -> Tags]
  /\ why \in [Supervisors -> {"none", "total", "idle", "signal"}]
  /\ attempt \in Nat /\ attempt <= AttemptsOf[kind]
  /\ answer \in {"none", "good", "off", "failed"}
  /\ code \in {"none", "answer", "timeout", "error"}

TimersTyped ==
  /\ left \in [Supervisors -> Nat] /\ poll \in [Supervisors -> 0 .. PollTicks]
  /\ grace \in [Supervisors -> 0 .. GraceTicks] /\ idle \in 0 .. IdleLimit
  /\ silence \in Nat /\ own \in 0 .. Headroom /\ signals \in 0 .. MaxSignals

OthersTyped ==
  /\ alive \subseteq Processes /\ pending \in BOOLEAN
  /\ wrote \in BOOLEAN /\ roots \in {"before", "touched"}
  /\ outcome \in {"none", "answer", "timeout", "idle", "interrupted", "model timeout", "error",
                  "mutation", "killed"}
  /\ slept \in BOOLEAN /\ late \in BOOLEAN
  /\ excuses \subseteq {"ignored", "unguarded", "twice"}

\* The type invariant, by what a step disturbs together.
LEMMA Parts == TypeOK <=> ControlTyped /\ TimersTyped /\ OthersTyped
  BY DEF TypeOK, ControlTyped, TimersTyped, OthersTyped, Tags

\* Whatever happens to a call is one of these steps.
LEMMA Steps ==
  ASSUME [Next]_vars
  PROVE  \/ StartAdapter \/ GapctlReaps \/ AdapterReaps \/ IdleTimeout \/ Return
         \/ \E s \in Supervisors : InstallHandler(s)
         \/ \E s \in Supervisors : Completes(s)
         \/ \E s \in Supervisors : PollAgain(s)
         \/ \E s \in Supervisors : TotalTimeout(s)
         \/ \E s \in Supervisors : Kill(s)
         \/ HandleTerm \/ CustomHandlesTerm
         \/ StartModel \/ AdapterAnswers \/ Tick \/ Sleep
         \/ ModelEnds \/ CustomEnds \/ CustomWrites \/ StartHelper \/ HelperEnds \/ TouchRoots
         \/ \E signal \in {"SIGTERM", "Ctrl+C"} : Interrupt(signal)
         \/ UNCHANGED vars
  BY DEF Next, Supervise, Adapt, Environment

\* No step leaves the tags, the reasons or the number of attempts.
LEMMA ControlStep == ControlTyped /\ [Next]_vars => ControlTyped'
<1> SUFFICES ASSUME ControlTyped, [Next]_vars
             PROVE  ControlTyped'
  OBVIOUS
<1> USE DEF ControlTyped, Tags, calls, timers, history
<1>1. CASE StartAdapter
  BY <1>1 DEF StartAdapter
<1>2. CASE GapctlReaps
  BY <1>2 DEF GapctlReaps
<1>3. CASE AdapterReaps
  BY <1>3 DEF AdapterReaps, AdapterGone
<1>4. CASE IdleTimeout
  BY <1>4 DEF IdleTimeout, Stop
<1>5. CASE Return
  BY <1>5 DEF Return
<1>6. ASSUME NEW s \in Supervisors, InstallHandler(s) PROVE ControlTyped'
  BY <1>6 DEF InstallHandler
<1>7. ASSUME NEW s \in Supervisors, Completes(s) PROVE ControlTyped'
  BY <1>7 DEF Completes
<1>8. ASSUME NEW s \in Supervisors, PollAgain(s) PROVE ControlTyped'
  BY <1>8 DEF PollAgain
<1>9. ASSUME NEW s \in Supervisors, TotalTimeout(s) PROVE ControlTyped'
  BY <1>9 DEF TotalTimeout, Stop
<1>10. ASSUME NEW s \in Supervisors, Kill(s) PROVE ControlTyped'
  BY <1>10 DEF Kill
<1>11. CASE HandleTerm
  BY <1>11 DEF HandleTerm, Stop, AdapterGone
<1>12. CASE CustomHandlesTerm
  BY <1>12 DEF CustomHandlesTerm, AdapterGone
<1>13. CASE StartModel
  BY <1>13 DEF StartModel
<1>14. CASE AdapterAnswers
  BY <1>14 DEF AdapterAnswers, AdapterGone
<1>15. CASE Tick
  BY <1>15 DEF Tick
<1>16. CASE Sleep
  BY <1>16 DEF Sleep
<1>17. CASE ModelEnds
  BY <1>17 DEF ModelEnds
<1>18. CASE CustomEnds
  BY <1>18 DEF CustomEnds, AdapterGone
<1>19. CASE CustomWrites
  BY <1>19 DEF CustomWrites
<1>20. CASE StartHelper \/ HelperEnds \/ TouchRoots
  BY <1>20 DEF StartHelper, HelperEnds, TouchRoots
<1>21. ASSUME NEW signal \in {"SIGTERM", "Ctrl+C"}, Interrupt(signal) PROVE ControlTyped'
  BY <1>21 DEF Interrupt, Stop
<1>22. CASE UNCHANGED vars
  BY <1>22 DEF vars
<1> QED
  BY <1>1, <1>2, <1>3, <1>4, <1>5, <1>6, <1>7, <1>8, <1>9, <1>10, <1>11, <1>12, <1>13, <1>14,
     <1>15, <1>16, <1>17, <1>18, <1>19, <1>20, <1>21, <1>22, Steps

\* What stopping a child does to the clocks and the control.
LEMMA StopControl ==
  ASSUME NEW s, NEW reason, Stop(s, reason)
  PROVE  /\ pc' = [pc EXCEPT ![s] = "term"]
         /\ why' = [why EXCEPT ![s] = reason]
         /\ grace' = [grace EXCEPT ![s] = GraceTicks]
  BY DEF Stop

\* No timer runs below zero or is set beyond its limit.
LEMMA TimersStep == ControlTyped /\ TimersTyped /\ [Next]_vars => TimersTyped'
<1> SUFFICES ASSUME ControlTyped, TimersTyped, [Next]_vars
             PROVE  TimersTyped'
  OBVIOUS
<1> USE DEF TimersTyped, timers, history
<1>1. ASSUME NEW s \in Supervisors, InstallHandler(s) PROVE TimersTyped'
  BY <1>1 DEF InstallHandler, ControlTyped, LimitOf, Least, HasIdleLimit, Builtin
<1>2. ASSUME NEW s \in Supervisors, PollAgain(s) PROVE TimersTyped'
  BY <1>2 DEF PollAgain, IdleLeft, Progress, NextPoll, Least
<1>3. ASSUME NEW s \in Supervisors, TotalTimeout(s) PROVE TimersTyped'
  BY <1>3, StopControl DEF TotalTimeout
<1>4. ASSUME NEW s \in Supervisors, Kill(s) PROVE TimersTyped'
  BY <1>4 DEF Kill
<1>5. CASE IdleTimeout
  BY <1>5, StopControl DEF IdleTimeout
<1>6. CASE HandleTerm
  BY <1>6, StopControl DEF HandleTerm
<1>7. CASE Tick
  BY <1>7 DEF Tick, Due, Passed, Least, Waiting
<1>8. CASE Sleep
  BY <1>8 DEF Sleep
<1>9. CASE CustomWrites
  BY <1>9 DEF CustomWrites
<1>10. ASSUME NEW signal \in {"SIGTERM", "Ctrl+C"}, Interrupt(signal) PROVE TimersTyped'
  <2>1. signals' = signals + 1 /\ signals < MaxSignals
    BY <1>10 DEF Interrupt
  <2>2. /\ left' = left /\ idle' = idle /\ poll' = poll /\ silence' = silence /\ own' = own
    BY <1>10 DEF Interrupt
  <2>3. CASE pc["gapctl"] = "wait"
    BY <1>10, <2>1, <2>2, <2>3, StopControl DEF Interrupt
  <2>4. CASE pc["gapctl"] # "wait"
    BY <1>10, <2>1, <2>2, <2>4 DEF Interrupt
  <2> QED
    BY <2>3, <2>4
<1>11. ASSUME NEW s \in Supervisors, Completes(s) PROVE TimersTyped'
  BY <1>11 DEF Completes
<1>12. CASE StartAdapter \/ StartModel \/ GapctlReaps \/ AdapterReaps \/ Return
            \/ CustomHandlesTerm \/ AdapterAnswers
  BY <1>12 DEF StartAdapter, StartModel, GapctlReaps, AdapterReaps, Return,
               CustomHandlesTerm, AdapterAnswers
<1>13. CASE ModelEnds \/ CustomEnds \/ StartHelper \/ HelperEnds \/ TouchRoots \/ UNCHANGED vars
  BY <1>13 DEF ModelEnds, CustomEnds, StartHelper, HelperEnds, TouchRoots, vars
<1> QED
  BY <1>1, <1>2, <1>3, <1>4, <1>5, <1>6, <1>7, <1>8, <1>9, <1>10, <1>11, <1>12, <1>13, Steps

\* Whoever stops its child, the processes stay processes.
LEMMA StopOthers ==
  ASSUME OthersTyped, NEW s \in Supervisors, NEW reason, Stop(s, reason)
  PROVE  alive' \subseteq Processes /\ pending' \in BOOLEAN
         /\ excuses' \subseteq {"ignored", "unguarded", "twice"}
<1>1. pending' \in BOOLEAN
  <2>1. CASE s = "gapctl"
    <3>1. pending' = ("adapter" \in alive)
      BY <2>1, Zenon DEF Stop
    <3> QED
      BY <3>1
  <2>2. CASE s # "gapctl"
    <3>1. pending' = FALSE \/ pending' = pending
      BY <2>2 DEF Stop
    <3> QED
      BY <3>1 DEF OthersTyped
  <2> QED
    BY <2>1, <2>2
<1>2. alive' \subseteq Processes /\ excuses' \subseteq {"ignored", "unguarded", "twice"}
  BY DEF OthersTyped, Stop
<1> QED
  BY <1>1, <1>2

\* A signal leaves one of two excuses.
LEMMA ExcuseTyped ==
  ASSUME NEW at
  PROVE  Excuse(at) \subseteq {"unguarded", "twice"}
  BY DEF Excuse

\* The processes, the roots and the outcome keep to their values.
LEMMA OthersStep == ControlTyped /\ OthersTyped /\ [Next]_vars => OthersTyped'
<1> SUFFICES ASSUME ControlTyped, OthersTyped, [Next]_vars
             PROVE  OthersTyped'
  OBVIOUS
<1> USE DEF OthersTyped, Processes, timers, history, calls
<1>1. CASE StartAdapter \/ StartModel \/ GapctlReaps
  BY <1>1 DEF StartAdapter, StartModel, GapctlReaps
<1>2. CASE AdapterReaps
  BY <1>2 DEF AdapterReaps, AdapterGone
<1>3. CASE AdapterAnswers
  BY <1>3 DEF AdapterAnswers, AdapterGone
<1>4. CASE CustomHandlesTerm
  BY <1>4 DEF CustomHandlesTerm, AdapterGone
<1>5. CASE CustomEnds
  BY <1>5 DEF CustomEnds, AdapterGone
<1>6. CASE Return
  BY <1>6 DEF Return, Verdict, Rejected, ControlTyped
<1>7. ASSUME NEW s \in Supervisors, InstallHandler(s) \/ Completes(s) \/ PollAgain(s)
      PROVE  OthersTyped'
  BY <1>7 DEF InstallHandler, Completes, PollAgain
<1>8. ASSUME NEW s \in Supervisors, TotalTimeout(s) PROVE OthersTyped'
  BY <1>8, StopOthers DEF TotalTimeout
<1>9. ASSUME NEW s \in Supervisors, Kill(s) PROVE OthersTyped'
  BY <1>9 DEF Kill
<1>10. CASE IdleTimeout
  BY <1>10, StopOthers DEF IdleTimeout
<1>11. CASE HandleTerm
  <2>1. CASE pc["adapter"] = "wait"
    BY <1>11, <2>1, StopOthers DEF HandleTerm
  <2>2. CASE pc["adapter"] # "wait"
    BY <1>11, <2>2, ExcuseTyped DEF HandleTerm, AdapterGone
  <2> QED
    BY <2>1, <2>2
<1>12. CASE Tick
  BY <1>12 DEF Tick
<1>13. CASE Sleep
  BY <1>13 DEF Sleep
<1>14. CASE ModelEnds \/ StartHelper \/ HelperEnds \/ CustomWrites
  BY <1>14 DEF ModelEnds, StartHelper, HelperEnds, CustomWrites
<1>15. CASE TouchRoots
  BY <1>15 DEF TouchRoots
<1>16. ASSUME NEW signal \in {"SIGTERM", "Ctrl+C"}, Interrupt(signal) PROVE OthersTyped'
  <2>1. wrote' = wrote /\ roots' = roots /\ slept' = slept /\ late' = late
    BY <1>16 DEF Interrupt
  <2>2. CASE pc["gapctl"] = "wait"
    <3>1. Stop("gapctl", "signal") /\ outcome' = outcome
      BY <1>16, <2>2 DEF Interrupt
    <3> QED
      BY <2>1, <3>1, StopOthers
  <2>3. CASE pc["gapctl"] # "wait"
    <3>1. /\ outcome' \in {"killed", outcome}
          /\ excuses' = excuses \cup Excuse(pc["gapctl"])
          /\ pending' = pending /\ alive' = alive
      BY <1>16, <2>3 DEF Interrupt
    <3> QED
      BY <2>1, <3>1, ExcuseTyped
  <2> QED
    BY <2>2, <2>3
<1>17. CASE UNCHANGED vars
  BY <1>17 DEF vars
<1> QED
  BY <1>1, <1>2, <1>3, <1>4, <1>5, <1>6, <1>7, <1>8, <1>9, <1>10, <1>11, <1>12, <1>13, <1>14,
     <1>15, <1>16, <1>17, Steps

\* Every variable keeps to its values, whatever the limits.
THEOREM TypeCorrect == Spec => []TypeOK
<1>1. Init => TypeOK
  <2> SUFFICES ASSUME Init
               PROVE  ControlTyped /\ TimersTyped /\ OthersTyped
    BY Parts
  <2>1. ControlTyped
    BY DEF Init, ControlTyped, Tags
  <2>2. TimersTyped
    BY DEF Init, TimersTyped
  <2>3. OthersTyped
    BY DEF Init, OthersTyped, Processes
  <2> QED
    BY <2>1, <2>2, <2>3
<1>2. TypeOK /\ [Next]_vars => TypeOK'
  <2>1. TypeOK' <=> ControlTyped' /\ TimersTyped' /\ OthersTyped'
    BY DEF TypeOK, ControlTyped, TimersTyped, OthersTyped, Tags
  <2> QED
    BY <2>1, Parts, ControlStep, TimersStep, OthersStep
<1> QED
  BY <1>1, <1>2, PTL DEF Spec

-----------------------------------------------------------------------------
(* How long a call takes.                                                  *)

\* The steps that leave the clock of gapctl alone, or end its wait.
RestStutter ==
  /\ left'["gapctl"] <= left["gapctl"] /\ poll'["gapctl"] = poll["gapctl"]
  /\ grace'["gapctl"] = grace["gapctl"]
  /\ pc'["gapctl"] = pc["gapctl"] \/ pc'["gapctl"] \in {"check", "done"}

\* Such a step gives the call no time back.
LEMMA RestStutterKeeps ==
  ASSUME ControlTyped, TimersTyped, TimersTyped', RestStutter
  PROVE  Rest' <= Rest
  BY DEF RestStutter, Rest, Most, TimersTyped

\* A child is stopped with both grace periods to come, which Rest holds ready.
LEMMA RestOfStop ==
  ASSUME ControlTyped, TimersTyped, NEW reason, Stop("gapctl", reason), pc["gapctl"] = "wait"
  PROVE  Rest' <= Rest
<1>1. pc'["gapctl"] = "term" /\ grace'["gapctl"] = GraceTicks
  BY StopControl DEF ControlTyped, TimersTyped
<1>2. Rest' = GraceTicks + GraceTicks
  BY <1>1 DEF Rest
<1>3. left["gapctl"] \in Nat /\ poll["gapctl"] \in Nat
  BY DEF TimersTyped
<1> QED
  BY <1>2, <1>3 DEF Rest, Most

\* Every tick counts, and no step gives time back: a call is over after its
\* limit and two grace periods (run_captured), whatever else happens.
THEOREM TimeIsBounded == Spec => TimeRunsOut
<1>1. TypeOK /\ TypeOK' /\ [Next]_vars => [Rest' <= Rest /\ (Tick => Rest' < Rest)]_vars
  <2> SUFFICES ASSUME ControlTyped, TimersTyped, TimersTyped', [Next]_vars
               PROVE  Rest' <= Rest /\ (Tick => Rest' < Rest)
    BY Parts, TimersStep
  <2> USE DEF calls, timers, history
  <2>1. ASSUME Tick PROVE Rest' < Rest
    <3>1. /\ pc' = pc /\ pc["gapctl"] \in {"wait", "term", "kill"}
          /\ left["gapctl"] \in Nat /\ poll["gapctl"] \in Nat /\ grace["gapctl"] \in Nat
      BY <2>1 DEF Tick, Waiting, TimersTyped
    <3>2. CASE pc["gapctl"] = "wait"
      <4>1. /\ poll["gapctl"] # 0 /\ poll'["gapctl"] = poll["gapctl"] - 1
            /\ left'["gapctl"] = (IF left["gapctl"] = 0 THEN 0 ELSE left["gapctl"] - 1)
        BY <2>1, <3>2 DEF Tick, Due, Passed
      <4> QED
        BY <3>1, <3>2, <4>1 DEF Rest, Most
    <3>3. CASE pc["gapctl"] \in {"term", "kill"}
      <4>1. grace["gapctl"] # 0 /\ grace'["gapctl"] = grace["gapctl"] - 1
        BY <2>1, <3>3 DEF Tick, Due, Waiting
      <4> QED
        BY <3>1, <3>3, <4>1 DEF Rest
    <3> QED
      BY <3>1, <3>2, <3>3
  <2>2. Rest \in Int /\ Rest' \in Int
    BY DEF Rest, Most, TimersTyped
  <2>3. Rest' <= Rest
    <3>1. CASE Tick
      BY <2>1, <2>2, <3>1
    <3>2. CASE StartAdapter
      BY <3>2 DEF StartAdapter, Rest
    <3>3. ASSUME NEW s \in Supervisors, InstallHandler(s) PROVE Rest' <= Rest
      <4>1. CASE s = "adapter"
        BY <3>3, <4>1, RestStutterKeeps DEF InstallHandler, RestStutter, ControlTyped, TimersTyped
      <4>2. CASE s = "gapctl"
        <5>1. /\ pc["gapctl"] = "launched" /\ pc'["gapctl"] = "wait"
              /\ left'["gapctl"] = CallLimit /\ poll'["gapctl"] <= CallLimit
          BY <3>3, <4>2
          DEF InstallHandler, LimitOf, HasIdleLimit, Least, ControlTyped, TimersTyped
        <5> QED
          BY <5>1 DEF Rest, Most, TimersTyped
      <4> QED
        BY <4>1, <4>2
    <3>4. ASSUME NEW s \in Supervisors, PollAgain(s) PROVE Rest' <= Rest
      <4>1. CASE s = "adapter"
        BY <3>4, <4>1, RestStutterKeeps DEF PollAgain, RestStutter, TimersTyped
      <4>2. CASE s = "gapctl"
        <5>1. /\ pc["gapctl"] = "wait" /\ pc' = pc /\ left' = left /\ poll["gapctl"] = 0
              /\ poll'["gapctl"] <= left["gapctl"]
          <6>1. IdleLeft("gapctl") \in Nat
            BY DEF IdleLeft, Progress, TimersTyped
          <6> QED
            BY <3>4, <4>2, <6>1 DEF PollAgain, NextPoll, Least, TimersTyped
        <5> QED
          BY <5>1 DEF Rest, Most, TimersTyped
      <4> QED
        BY <4>1, <4>2
    <3>5. ASSUME NEW s \in Supervisors, TotalTimeout(s) PROVE Rest' <= Rest
      <4>1. CASE s = "adapter"
        BY <3>5, <4>1, StopControl, RestStutterKeeps
        DEF TotalTimeout, RestStutter, ControlTyped, TimersTyped
      <4>2. CASE s = "gapctl"
        BY <3>5, <4>2, RestOfStop DEF TotalTimeout
      <4> QED
        BY <4>1, <4>2
    <3>6. CASE IdleTimeout
      BY <3>6, RestOfStop DEF IdleTimeout
    <3>7. ASSUME NEW s \in Supervisors, Kill(s) PROVE Rest' <= Rest
      <4>1. CASE s = "adapter"
        BY <3>7, <4>1, RestStutterKeeps DEF Kill, RestStutter, ControlTyped, TimersTyped
      <4>2. CASE s = "gapctl"
        BY <3>7, <4>2 DEF Kill, Rest, ControlTyped, TimersTyped
      <4> QED
        BY <4>1, <4>2
    <3>8. CASE HandleTerm
      BY <3>8, StopControl, RestStutterKeeps
      DEF HandleTerm, AdapterGone, RestStutter, ControlTyped, TimersTyped
    <3>9. ASSUME NEW signal \in {"SIGTERM", "Ctrl+C"}, Interrupt(signal) PROVE Rest' <= Rest
      <4>1. CASE pc["gapctl"] = "wait"
        BY <3>9, <4>1, RestOfStop DEF Interrupt
      <4>2. CASE pc["gapctl"] # "wait"
        BY <3>9, <4>2, RestStutterKeeps DEF Interrupt, RestStutter, ControlTyped, TimersTyped
      <4> QED
        BY <4>1, <4>2
    <3>10. ASSUME NEW s \in Supervisors, Completes(s) PROVE Rest' <= Rest
      BY <3>10, RestStutterKeeps DEF Completes, RestStutter, ControlTyped, TimersTyped
    <3>11. CASE GapctlReaps \/ Return
      BY <3>11, RestStutterKeeps DEF GapctlReaps, Return, RestStutter, ControlTyped, TimersTyped
    <3>12. CASE AdapterReaps \/ AdapterAnswers \/ CustomEnds \/ CustomHandlesTerm \/ StartModel
      BY <3>12, RestStutterKeeps
      DEF AdapterReaps, AdapterAnswers, CustomEnds, CustomHandlesTerm, StartModel, AdapterGone,
          RestStutter, ControlTyped, TimersTyped
    <3>13. CASE Sleep
      BY <3>13, RestStutterKeeps DEF Sleep, RestStutter, TimersTyped
    <3>14. CASE ModelEnds \/ CustomWrites \/ StartHelper \/ HelperEnds \/ TouchRoots
                \/ UNCHANGED vars
      BY <3>14, RestStutterKeeps
      DEF ModelEnds, CustomWrites, StartHelper, HelperEnds, TouchRoots, vars, RestStutter,
          TimersTyped
    <3> QED
      BY <3>1, <3>2, <3>3, <3>4, <3>5, <3>6, <3>7, <3>8, <3>9, <3>10, <3>11, <3>12, <3>13,
         <3>14, Steps
  <2> QED
    BY <2>1, <2>3
<1> QED
  BY <1>1, TypeCorrect, PTL DEF Spec, TimeRunsOut

-----------------------------------------------------------------------------
(* The idle deadline of a configured adapter.                              *)

\* While gapctl waits without output since the last poll, silence and what is
\* left of the idle deadline make up the whole idle time; neither they nor
\* silence and the rest of the poll exceed it by more than a poll.
Quiet ==
  /\ wrote => silence + poll["gapctl"] <= PollTicks
  /\ ~wrote => /\ silence + idle <= IdleLimit + PollTicks
               /\ silence + poll["gapctl"] <= IdleLimit + PollTicks
  /\ ~wrote /\ ~slept => silence + idle >= IdleLimit

\* Before the wait nothing is counted, during it Quiet holds, and an idle
\* timeout came after the whole idle time.
IdleInv ==
  /\ pc["gapctl"] \in {"ready", "launched", "wait"} => why["gapctl"] = "none"
  /\ pc["gapctl"] \in {"ready", "launched"} => silence = 0
  /\ pc["gapctl"] = "wait" /\ ~Builtin => Quiet
  /\ why["gapctl"] = "idle" /\ ~slept => silence >= IdleLimit

\* The steps that leave silence, what gapctl waits for and why it stopped.
IdleStutter ==
  /\ UNCHANGED <<idle, wrote, silence, kind>> /\ slept' = slept
  /\ poll'["gapctl"] = poll["gapctl"] /\ why'["gapctl"] = why["gapctl"]
  /\ pc'["gapctl"] # pc["gapctl"] =>
       \/ pc'["gapctl"] \in {"term", "kill", "check", "done"}
       \/ pc["gapctl"] = "ready" /\ pc'["gapctl"] = "launched"

\* Such a step keeps the invariant of the idle deadline.
LEMMA IdleStutterKeeps ==
  ASSUME IdleInv, IdleStutter
  PROVE  IdleInv'
  BY DEF IdleInv, IdleStutter, Quiet, Builtin

\* Output puts silence to zero and the next poll puts the deadline back;
\* in between a tick moves one as far up as the other down.
LEMMA IdleStep ==
  TypeOK /\ IdleInv /\ [Next]_vars => IdleInv'
<1> SUFFICES ASSUME ControlTyped, TimersTyped, IdleInv, [Next]_vars
             PROVE  IdleInv'
  BY Parts
<1> USE DEF calls, timers, history
<1>1. CASE StartAdapter
  BY <1>1, IdleStutterKeeps DEF StartAdapter, IdleStutter, ControlTyped
<1>2. CASE GapctlReaps
  BY <1>2, IdleStutterKeeps DEF GapctlReaps, IdleStutter, ControlTyped
<1>3. CASE AdapterReaps \/ AdapterAnswers \/ CustomEnds \/ CustomHandlesTerm
  <2>1. pc'["gapctl"] = pc["gapctl"]
    BY <1>3 DEF AdapterReaps, AdapterAnswers, CustomEnds, CustomHandlesTerm, AdapterGone,
                ControlTyped
  <2> QED
    BY <1>3, <2>1, IdleStutterKeeps
    DEF AdapterReaps, AdapterAnswers, CustomEnds, CustomHandlesTerm, IdleStutter
<1>4. CASE Return
  BY <1>4, IdleStutterKeeps DEF Return, IdleStutter, ControlTyped
<1>5. CASE StartModel
  BY <1>5, IdleStutterKeeps DEF StartModel, IdleStutter, ControlTyped
<1>6. ASSUME NEW s \in Supervisors, Completes(s) PROVE IdleInv'
  BY <1>6, IdleStutterKeeps DEF Completes, IdleStutter, ControlTyped
<1>7. ASSUME NEW s \in Supervisors, Kill(s) PROVE IdleInv'
  BY <1>7, IdleStutterKeeps DEF Kill, IdleStutter, ControlTyped
<1>8. CASE HandleTerm
  <2>1. pc'["gapctl"] = pc["gapctl"] /\ why'["gapctl"] = why["gapctl"]
    BY <1>8, StopControl DEF HandleTerm, AdapterGone, ControlTyped
  <2> QED
    BY <1>8, <2>1, IdleStutterKeeps DEF HandleTerm, IdleStutter
<1>9. CASE ModelEnds \/ StartHelper \/ HelperEnds \/ TouchRoots \/ UNCHANGED vars
  BY <1>9, IdleStutterKeeps
  DEF ModelEnds, StartHelper, HelperEnds, TouchRoots, vars, IdleStutter
<1>10. CASE InstallHandler("adapter")
  BY <1>10, IdleStutterKeeps
  DEF InstallHandler, HasIdleLimit, IdleStutter, ControlTyped, TimersTyped
<1>11. CASE PollAgain("adapter")
  BY <1>11, IdleStutterKeeps
  DEF PollAgain, IdleLeft, HasIdleLimit, IdleStutter, ControlTyped, TimersTyped
<1>12. CASE TotalTimeout("adapter")
  BY <1>12, IdleStutterKeeps, StopControl DEF TotalTimeout, IdleStutter, ControlTyped
<1>13. CASE InstallHandler("gapctl")
  <2>1. /\ pc["gapctl"] = "launched" /\ pc'["gapctl"] = "wait"
        /\ why' = why /\ silence' = silence /\ wrote' = wrote /\ slept' = slept /\ kind' = kind
    BY <1>13 DEF InstallHandler, ControlTyped
  <2>2. ~Builtin => idle' = IdleLimit
    BY <1>13 DEF InstallHandler, HasIdleLimit
  <2>3. poll'["gapctl"] \in 0 .. PollTicks
    BY TimersStep DEF TimersTyped
  <2> QED
    BY <2>1, <2>2, <2>3 DEF IdleInv, Quiet, Builtin
<1>14. CASE PollAgain("gapctl")
  <2>1. /\ pc["gapctl"] = "wait" /\ pc' = pc /\ why' = why /\ poll["gapctl"] = 0
        /\ silence' = silence /\ wrote' = FALSE /\ slept' = slept /\ kind' = kind
    BY <1>14 DEF PollAgain
  <2>2. ~Builtin => idle' = Progress
    BY <1>14 DEF PollAgain, IdleLeft, HasIdleLimit
  <2>3. ~Builtin => poll'["gapctl"] <= PollTicks /\ poll'["gapctl"] <= idle'
    <3>1. ~Builtin => poll'["gapctl"] = Least(PollTicks, Least(left["gapctl"], idle'))
      BY <1>14, <2>2 DEF PollAgain, IdleLeft, HasIdleLimit, NextPoll, TimersTyped
    <3>2. left["gapctl"] \in Nat /\ idle' \in Nat
      BY TimersStep DEF TimersTyped
    <3> QED
      BY <3>1, <3>2 DEF Least
  <2>4. silence \in Nat /\ idle \in Nat /\ poll'["gapctl"] \in Nat
    BY TimersStep DEF TimersTyped
  <2> QED
    BY <2>1, <2>2, <2>3, <2>4 DEF IdleInv, Quiet, Builtin, Progress
<1>15. CASE TotalTimeout("gapctl")
  BY <1>15, StopControl DEF TotalTimeout, ControlTyped, IdleInv
<1>16. CASE IdleTimeout
  <2>1. /\ pc["gapctl"] = "wait" /\ poll["gapctl"] = 0 /\ ~Builtin /\ Progress = 0
        /\ silence' = silence /\ slept' = slept
    BY <1>16 DEF IdleTimeout, HasIdleLimit, IdleLeft
  <2>2. pc'["gapctl"] = "term" /\ why'["gapctl"] = "idle"
    BY <1>16, StopControl DEF IdleTimeout, ControlTyped
  <2>3. ~wrote /\ idle = 0
    BY <2>1 DEF Progress
  <2> QED
    BY <2>1, <2>2, <2>3 DEF IdleInv, Quiet, TimersTyped
<1>17. CASE Tick
  <2>1. /\ pc' = pc /\ why' = why /\ wrote' = wrote /\ slept' = slept /\ kind' = kind
        /\ pc["gapctl"] \notin {"ready", "launched"}
    BY <1>17 DEF Tick, Waiting
  <2>2. CASE pc["gapctl"] = "wait" /\ ~Builtin
    <3>1. /\ silence' = silence + 1 /\ idle' = (IF idle = 0 THEN 0 ELSE idle - 1)
          /\ poll["gapctl"] # 0 /\ poll'["gapctl"] = poll["gapctl"] - 1
      BY <1>17, <2>2 DEF Tick, Due, Passed
    <3>2. silence \in Nat /\ idle \in Nat /\ poll["gapctl"] \in Nat
      BY DEF TimersTyped
    <3> QED
      BY <2>1, <2>2, <3>1, <3>2 DEF IdleInv, Quiet, Builtin
  <2>3. CASE ~(pc["gapctl"] = "wait" /\ ~Builtin)
    <3>1. silence' = silence
      BY <1>17, <2>3 DEF Tick
    <3> QED
      BY <2>1, <2>3, <3>1 DEF IdleInv, Builtin
  <2> QED
    BY <2>2, <2>3
<1>18. CASE Sleep
  <2>1. /\ pc["gapctl"] \in {"wait", "term", "kill"} /\ pc' = pc /\ why' = why /\ slept' = TRUE
        /\ silence' = silence /\ wrote' = wrote /\ poll' = poll /\ idle' = 0 /\ kind' = kind
    BY <1>18 DEF Sleep, Waiting
  <2> QED
    BY <2>1 DEF IdleInv, Quiet, Builtin, TimersTyped
<1>19. CASE CustomWrites
  <2>1. /\ pc["gapctl"] = "wait" /\ pc' = pc /\ why' = why /\ slept' = slept
        /\ silence' = 0 /\ wrote' = TRUE /\ poll' = poll /\ idle' = idle /\ kind' = kind
    BY <1>19 DEF CustomWrites
  <2> QED
    BY <2>1 DEF IdleInv, Quiet, Builtin, TimersTyped
<1>20. ASSUME NEW signal \in {"SIGTERM", "Ctrl+C"}, Interrupt(signal) PROVE IdleInv'
  <2>1. UNCHANGED <<idle, wrote, silence, kind, slept, poll>>
    BY <1>20 DEF Interrupt
  <2>2. pc'["gapctl"] \in {"term", "check", "done"} /\ why'["gapctl"] = "signal"
    <3>1. CASE pc["gapctl"] = "wait"
      BY <1>20, <3>1, StopControl DEF Interrupt, ControlTyped
    <3>2. CASE pc["gapctl"] # "wait"
      BY <1>20, <3>2 DEF Interrupt, ControlTyped
    <3> QED
      BY <3>1, <3>2
  <2> QED
    BY <2>1, <2>2 DEF IdleInv
<1> QED
  BY <1>1, <1>2, <1>3, <1>4, <1>5, <1>6, <1>7, <1>8, <1>9, <1>10, <1>11, <1>12, <1>13, <1>14,
     <1>15, <1>16, <1>17, <1>18, <1>19, <1>20, Steps

\* The invariant of the idle deadline holds throughout.
LEMMA IdleHolds == Spec => []IdleInv
<1>1. Init => IdleInv
  BY DEF Init, IdleInv
<1> QED
  BY <1>1, TypeCorrect, IdleStep, PTL DEF Spec

\* The idle deadline of a configured adapter stops it only after the whole
\* idle time without output, and at the latest a poll after that
\* (_communicate_with_wall_timeout), whatever the limits and the polls are.
THEOREM IdleDeadlineHolds == Spec => []IdleDeadlineKept
<1>1. TypeOK /\ IdleInv => IdleDeadlineKept
  <2>1. TypeOK => silence \in Nat /\ idle \in Nat /\ poll["gapctl"] \in Nat
    BY Parts DEF TimersTyped
  <2> QED
    BY <2>1 DEF IdleInv, Quiet, IdleDeadlineKept
<1> QED
  BY <1>1, TypeCorrect, IdleHolds, PTL

-----------------------------------------------------------------------------
(* Who is left behind.                                                     *)

\* A SIGTERM on its way to the adapter was sent by a cleanup whose grace
\* period has not begun to run out.
PendingInv ==
  /\ pc["gapctl"] \in {"ready", "launched", "wait"} => ~pending
  /\ pc["gapctl"] = "term" /\ pending => grace["gapctl"] = GraceTicks

\* The adapter runs exactly until it is off; it is off once a cleanup has
\* begun to kill, or has ended without an excuse; and it never waits for its
\* model once it has been told to stop.
AdapterInv ==
  /\ pc["gapctl"] = "ready" => alive = {} /\ code = "none"
  /\ "adapter" \in alive <=> pc["adapter"] # "off"
  /\ pc["adapter"] \in {"off", "ready"} \/ (Builtin /\ pc["adapter"] \notin {"check", "done"})
  /\ code # "none" => pc["adapter"] = "off"
  /\ pc["gapctl"] = "kill" => pc["adapter"] = "off"
  /\ pc["gapctl"] \in {"check", "done"} /\ excuses = {} => pc["adapter"] = "off"
  /\ pc["gapctl"] \in Waiting /\ Builtin /\ ~pending => pc["adapter"] \in {"off", "term", "kill"}

\* A model that runs belongs to a built-in adapter that has not answered; if
\* that adapter is stopping it, or is gone, something excuses the model.
ModelInv ==
  /\ "model" \in alive =>
       /\ Builtin /\ code # "answer" /\ outcome # "answer"
       /\ pc["adapter"] \notin {"ready", "kill"}
       /\ pc["adapter"] \in {"off", "term"} => excuses # {}
  /\ outcome = "answer" => pc["gapctl"] = "done" /\ pc["adapter"] = "off"

StopInv == PendingInv /\ AdapterInv /\ ModelInv

\* What stopping a child does to the processes.
LEMMA StopGapctl ==
  ASSUME NEW reason, Stop("gapctl", reason)
  PROVE  alive' = alive /\ excuses' = excuses /\ (pending' <=> "adapter" \in alive)
  BY Zenon DEF Stop

\* A model that outlives the SIGTERM of its adapter leaves an excuse.
LEMMA StopAdapter ==
  ASSUME NEW reason, Stop("adapter", reason)
  PROVE  /\ reason = "signal" => ~pending'
         /\ reason # "signal" => (pending' <=> pending)
         /\ excuses \subseteq excuses'
         /\ alive' \subseteq alive /\ ("adapter" \in alive <=> "adapter" \in alive')
         /\ "model" \in alive' => excuses' # {}
  BY DEF Stop

\* Time waits for a signal on its way, so the grace period does as well.
LEMMA PendingStep ==
  TypeOK /\ PendingInv /\ [Next]_vars => PendingInv'
<1> SUFFICES ASSUME ControlTyped, TimersTyped, PendingInv, [Next]_vars
             PROVE  PendingInv'
  BY Parts
<1> USE DEF PendingInv, ControlTyped, TimersTyped, calls, timers, history
<1>1. CASE StartAdapter
  BY <1>1 DEF StartAdapter
<1>2. CASE GapctlReaps
  BY <1>2 DEF GapctlReaps
<1>3. CASE AdapterReaps \/ AdapterAnswers \/ CustomEnds
  BY <1>3 DEF AdapterReaps, AdapterAnswers, CustomEnds, AdapterGone
<1>4. CASE Return
  BY <1>4 DEF Return
<1>5. CASE StartModel
  BY <1>5 DEF StartModel
<1>6. ASSUME NEW s \in Supervisors, Completes(s) PROVE PendingInv'
  BY <1>6 DEF Completes
<1>7. ASSUME NEW s \in Supervisors, Kill(s) PROVE PendingInv'
  BY <1>7 DEF Kill
<1>8. CASE HandleTerm
  <2>1. ~pending'
    BY <1>8, StopAdapter DEF HandleTerm, AdapterGone
  <2> QED
    BY <2>1
<1>9. CASE ModelEnds \/ StartHelper \/ HelperEnds \/ TouchRoots \/ CustomWrites \/ UNCHANGED vars
  BY <1>9 DEF ModelEnds, StartHelper, HelperEnds, TouchRoots, CustomWrites, vars
<1>10. ASSUME NEW s \in Supervisors, InstallHandler(s) PROVE PendingInv'
  BY <1>10 DEF InstallHandler
<1>11. ASSUME NEW s \in Supervisors, PollAgain(s) PROVE PendingInv'
  BY <1>11 DEF PollAgain
<1>12. CASE TotalTimeout("adapter")
  <2>1. pending' <=> pending
    BY <1>12, StopAdapter DEF TotalTimeout
  <2> QED
    BY <1>12, <2>1, StopControl DEF TotalTimeout
<1>13. CASE TotalTimeout("gapctl")
  BY <1>13, StopControl DEF TotalTimeout
<1>14. CASE IdleTimeout
  BY <1>14, StopControl DEF IdleTimeout
<1>15. CASE Tick
  BY <1>15 DEF Tick
<1>16. CASE Sleep
  BY <1>16 DEF Sleep
<1>17. CASE CustomHandlesTerm
  <2>1. pending' = FALSE
    BY <1>17 DEF CustomHandlesTerm, AdapterGone
  <2> QED
    BY <2>1
<1>18. ASSUME NEW signal \in {"SIGTERM", "Ctrl+C"}, Interrupt(signal) PROVE PendingInv'
  <2>1. CASE pc["gapctl"] = "wait"
    BY <1>18, <2>1, StopControl DEF Interrupt
  <2>2. CASE pc["gapctl"] # "wait"
    BY <1>18, <2>2 DEF Interrupt
  <2> QED
    BY <2>1, <2>2
<1> QED
  BY <1>1, <1>2, <1>3, <1>4, <1>5, <1>6, <1>7, <1>8, <1>9, <1>10, <1>11, <1>12, <1>13, <1>14,
     <1>15, <1>16, <1>17, <1>18, Steps

\* A supervisor that a signal ends where its child is not looked after leaves
\* an excuse, and every answer came from the adapter.
LEMMA Excused ==
  ASSUME NEW at, at = "launched" \/ at \in Waiting
  PROVE  Excuse(at) # {}
  BY DEF Excuse

\* Only an adapter that exits with an answer makes a call an answer.
LEMMA AnswerFromAdapter == Verdict = "answer" => code = "answer"
  BY DEF Verdict

\* No step loses sight of the adapter.
LEMMA AdapterStep ==
  TypeOK /\ PendingInv /\ AdapterInv /\ ModelInv /\ [Next]_vars => AdapterInv'
<1> SUFFICES ASSUME ControlTyped, TimersTyped, OthersTyped,
                    PendingInv, AdapterInv, ModelInv, [Next]_vars
             PROVE  AdapterInv'
  BY Parts
<1> USE DEF AdapterInv, ControlTyped, Builtin, Waiting, calls, timers, history
<1>1. CASE StartAdapter
  BY <1>1 DEF StartAdapter
<1>2. CASE GapctlReaps
  BY <1>2 DEF GapctlReaps, Reaped, Finished, Child
<1>3. CASE AdapterReaps \/ AdapterAnswers \/ CustomEnds
  <2>1. /\ pc'["adapter"] = "off" /\ pc'["gapctl"] = pc["gapctl"]
        /\ alive' = alive \ {"adapter"}
    BY <1>3 DEF AdapterReaps, AdapterAnswers, CustomEnds, AdapterGone
  <2>2. pc["gapctl"] # "ready"
    BY <1>3 DEF AdapterReaps, AdapterAnswers, CustomEnds, Reaped
  <2> QED
    BY <2>1, <2>2
<1>4. CASE Return
  BY <1>4 DEF Return
<1>5. CASE StartModel
  BY <1>5 DEF StartModel
<1>6. ASSUME NEW s \in Supervisors, Completes(s) PROVE AdapterInv'
  BY <1>6 DEF Completes, Finished, Child
<1>7. CASE Kill("adapter")
  BY <1>7 DEF Kill
<1>8. CASE Kill("gapctl")
  BY <1>8 DEF Kill
<1>9. CASE HandleTerm
  <2>1. pending /\ Builtin /\ pc["gapctl"] # "ready" /\ kind' = kind
    BY <1>9 DEF HandleTerm, PendingInv
  <2>2. CASE pc["adapter"] = "wait"
    <3>1. Stop("adapter", "signal") /\ code' = code
      BY <1>9, <2>2 DEF HandleTerm
    <3>2. pc'["adapter"] = "term" /\ pc'["gapctl"] = pc["gapctl"]
      BY <3>1, StopControl
    <3> QED
      BY <2>1, <2>2, <3>1, <3>2, StopAdapter
  <2>3. CASE pc["adapter"] # "wait"
    BY <1>9, <2>1, <2>3 DEF HandleTerm, AdapterGone
  <2> QED
    BY <2>2, <2>3
<1>10. CASE CustomHandlesTerm
  <2>1. pending /\ ~Builtin /\ pc["gapctl"] # "ready" /\ kind' = kind
    BY <1>10 DEF CustomHandlesTerm, PendingInv
  <2>2. CASE AdapterGone("error")
    BY <1>10, <2>1, <2>2 DEF CustomHandlesTerm, AdapterGone
  <2>3. CASE pending' = FALSE /\ UNCHANGED <<alive, pc, code>>
    BY <1>10, <2>1, <2>3 DEF CustomHandlesTerm
  <2> QED
    BY <1>10, <2>2, <2>3 DEF CustomHandlesTerm
<1>11. CASE ModelEnds \/ StartHelper \/ HelperEnds \/ TouchRoots \/ CustomWrites \/ UNCHANGED vars
  BY <1>11 DEF ModelEnds, StartHelper, HelperEnds, TouchRoots, CustomWrites, vars
<1>12. ASSUME NEW s \in Supervisors, InstallHandler(s) PROVE AdapterInv'
  BY <1>12 DEF InstallHandler
<1>13. ASSUME NEW s \in Supervisors, PollAgain(s) PROVE AdapterInv'
  BY <1>13 DEF PollAgain
<1>14. CASE TotalTimeout("adapter")
  BY <1>14, StopAdapter, StopControl DEF TotalTimeout
<1>15. CASE TotalTimeout("gapctl")
  BY <1>15, StopGapctl, StopControl DEF TotalTimeout
<1>16. CASE IdleTimeout
  BY <1>16, StopGapctl, StopControl DEF IdleTimeout
<1>17. CASE Tick \/ Sleep
  BY <1>17 DEF Tick, Sleep
<1>18. ASSUME NEW signal \in {"SIGTERM", "Ctrl+C"}, Interrupt(signal) PROVE AdapterInv'
  <2>1. CASE pc["gapctl"] = "wait"
    BY <1>18, <2>1, StopGapctl, StopControl DEF Interrupt
  <2>2. CASE pc["gapctl"] # "wait"
    BY <1>18, <2>2, Excused DEF Interrupt
  <2> QED
    BY <2>1, <2>2
<1> QED
  BY <1>1, <1>2, <1>3, <1>4, <1>5, <1>6, <1>7, <1>8, <1>9, <1>10, <1>11, <1>12, <1>13, <1>14,
     <1>15, <1>16, <1>17, <1>18, Steps

\* No step loses sight of the model.
LEMMA ModelStep ==
  TypeOK /\ PendingInv /\ AdapterInv /\ ModelInv /\ [Next]_vars => ModelInv'
<1> SUFFICES ASSUME ControlTyped, TimersTyped, OthersTyped,
                    PendingInv, AdapterInv, ModelInv, [Next]_vars
             PROVE  ModelInv'
  BY Parts
<1> USE DEF ModelInv, ControlTyped, Builtin, calls, timers, history
<1>1. CASE StartAdapter
  BY <1>1 DEF StartAdapter
<1>2. CASE GapctlReaps
  BY <1>2 DEF GapctlReaps, Reaped, Waiting
<1>3. CASE AdapterReaps
  BY <1>3 DEF AdapterReaps, AdapterGone, Reaped, Finished, Child, Waiting
<1>4. CASE Return
  BY <1>4, AnswerFromAdapter DEF Return, Rejected, AdapterInv
<1>5. CASE StartModel
  BY <1>5 DEF StartModel, AdapterInv
<1>6. ASSUME NEW s \in Supervisors, Completes(s) PROVE ModelInv'
  BY <1>6 DEF Completes, Finished, Child
<1>7. CASE Kill("adapter")
  BY <1>7 DEF Kill
<1>8. CASE Kill("gapctl")
  BY <1>8 DEF Kill, AdapterInv, PendingInv, Waiting
<1>9. CASE HandleTerm
  <2>1. Builtin /\ UNCHANGED <<kind, outcome>>
    BY <1>9 DEF HandleTerm
  <2>2. CASE pc["adapter"] = "wait"
    <3>1. Stop("adapter", "signal") /\ code' = code
      BY <1>9, <2>2 DEF HandleTerm
    <3>2. pc'["adapter"] = "term"
      BY <3>1, StopControl
    <3> QED
      BY <2>1, <2>2, <3>1, <3>2, StopAdapter
  <2>3. CASE pc["adapter"] # "wait"
    <3>1. /\ pc'["adapter"] = "off" /\ pc'["gapctl"] = pc["gapctl"]
          /\ alive' = alive \ {"adapter"} /\ code' = "error"
          /\ excuses' = excuses \cup Excuse(pc["adapter"])
      BY <1>9, <2>3 DEF HandleTerm, AdapterGone
    <3>2. "model" \in alive /\ pc["adapter"] \notin {"off", "term"} =>
            pc["adapter"] \in {"launched"} \cup Waiting
      BY <2>3, <1>9 DEF AdapterInv, Tags, Waiting
    <3> QED
      BY <2>1, <3>1, <3>2, Excused
  <2> QED
    BY <2>2, <2>3
<1>10. CASE CustomHandlesTerm \/ CustomEnds
  BY <1>10 DEF CustomHandlesTerm, CustomEnds, AdapterGone
<1>11. CASE ModelEnds \/ StartHelper \/ HelperEnds \/ TouchRoots \/ CustomWrites \/ UNCHANGED vars
  BY <1>11 DEF ModelEnds, StartHelper, HelperEnds, TouchRoots, CustomWrites, vars
<1>12. ASSUME NEW s \in Supervisors, InstallHandler(s) PROVE ModelInv'
  BY <1>12 DEF InstallHandler
<1>13. ASSUME NEW s \in Supervisors, PollAgain(s) PROVE ModelInv'
  BY <1>13 DEF PollAgain
<1>14. CASE TotalTimeout("adapter")
  BY <1>14, StopAdapter, StopControl DEF TotalTimeout
<1>15. CASE TotalTimeout("gapctl")
  BY <1>15, StopGapctl, StopControl DEF TotalTimeout
<1>16. CASE IdleTimeout
  BY <1>16, StopGapctl, StopControl DEF IdleTimeout
<1>17. CASE Tick \/ Sleep
  BY <1>17 DEF Tick, Sleep
<1>18. CASE AdapterAnswers
  BY <1>18 DEF AdapterAnswers, AdapterGone
<1>19. ASSUME NEW signal \in {"SIGTERM", "Ctrl+C"}, Interrupt(signal) PROVE ModelInv'
  <2>1. CASE pc["gapctl"] = "wait"
    BY <1>19, <2>1, StopGapctl, StopControl DEF Interrupt
  <2>2. CASE pc["gapctl"] # "wait"
    BY <1>19, <2>2 DEF Interrupt, Waiting
  <2> QED
    BY <2>1, <2>2
<1> QED
  BY <1>1, <1>2, <1>3, <1>4, <1>5, <1>6, <1>7, <1>8, <1>9, <1>10, <1>11, <1>12, <1>13, <1>14,
     <1>15, <1>16, <1>17, <1>18, <1>19, Steps

\* Who is alive at each point of a cleanup.
LEMMA StopHolds == Spec => []StopInv
<1>1. Init => StopInv
  BY DEF Init, StopInv, PendingInv, AdapterInv, ModelInv, Waiting
<1>2. TypeOK /\ StopInv /\ [Next]_vars => StopInv'
  BY PendingStep, AdapterStep, ModelStep DEF StopInv
<1> QED
  BY <1>1, <1>2, TypeCorrect, PTL DEF Spec

\* However a call ends, run_captured leaves neither adapter nor model running,
\* but for a model that ignored SIGTERM and for signals where no handler is
\* installed or a cleanup is under way.
THEOREM NobodyLeft == Spec => []NobodyLeftBehind
<1>1. StopInv => NobodyLeftBehind
  BY DEF StopInv, AdapterInv, ModelInv, NobodyLeftBehind
<1> QED
  BY <1>1, StopHolds, PTL

-----------------------------------------------------------------------------
(* The protected roots.                                                    *)

\* Once a call has ended and compared the roots, its outcome says what they
\* were, for as long as nobody touches them again.
RootsInv ==
  pc["gapctl"] = "done" /\ ~late /\ outcome # "killed" =>
    (roots = "touched" <=> outcome = "mutation")

\* The steps that leave the roots and the outcome alone.
RootsStutter ==
  /\ UNCHANGED <<roots, outcome>> /\ (late' <=> late)
  /\ pc'["gapctl"] = "done" => pc["gapctl"] = "done"

\* Between the comparison of the roots and the next touch nothing changes.
LEMMA RootsStep ==
  TypeOK /\ RootsInv /\ [Next]_vars => RootsInv'
<1> SUFFICES ASSUME ControlTyped, RootsInv, [Next]_vars
             PROVE  RootsInv'
  BY Parts
<1> USE DEF RootsInv, ControlTyped, calls, timers, history
<1>1. RootsStutter => RootsInv'
  BY DEF RootsStutter
<1>2. CASE StartAdapter \/ StartModel
  BY <1>1, <1>2 DEF StartAdapter, StartModel, RootsStutter
<1>3. CASE GapctlReaps \/ AdapterReaps \/ AdapterAnswers \/ CustomEnds
  BY <1>1, <1>3
  DEF GapctlReaps, AdapterReaps, AdapterAnswers, CustomEnds, AdapterGone, RootsStutter
<1>4. CASE HandleTerm \/ CustomHandlesTerm
  BY <1>1, <1>4, StopControl DEF HandleTerm, CustomHandlesTerm, AdapterGone, RootsStutter
<1>5. ASSUME NEW s \in Supervisors, InstallHandler(s) \/ Completes(s) \/ PollAgain(s)
      PROVE  RootsInv'
  BY <1>1, <1>5 DEF InstallHandler, Completes, PollAgain, RootsStutter
<1>6. ASSUME NEW s \in Supervisors, TotalTimeout(s) \/ IdleTimeout
      PROVE  RootsInv'
  BY <1>1, <1>6, StopControl DEF TotalTimeout, IdleTimeout, RootsStutter
<1>7. ASSUME NEW s \in Supervisors, Kill(s)
      PROVE  RootsInv'
  BY <1>1, <1>7 DEF Kill, RootsStutter
<1>8. CASE Tick \/ Sleep \/ ModelEnds \/ StartHelper \/ HelperEnds \/ CustomWrites \/ UNCHANGED vars
  BY <1>1, <1>8
  DEF Tick, Sleep, ModelEnds, StartHelper, HelperEnds, CustomWrites, vars, RootsStutter
<1>9. CASE Return
  <2>1. Verdict # "mutation"
    BY DEF Verdict
  <2> QED
    BY <1>9, <2>1 DEF Return, Rejected
<1>10. CASE TouchRoots
  <2>1. pc' = pc /\ outcome' = outcome /\ (late' <=> late \/ pc["gapctl"] = "done")
    BY <1>10, Zenon DEF TouchRoots
  <2> QED
    BY <2>1
<1>11. ASSUME NEW signal \in {"SIGTERM", "Ctrl+C"}, Interrupt(signal)
       PROVE  RootsInv'
  <2>1. CASE pc["gapctl"] = "wait"
    BY <1>1, <1>11, <2>1, StopControl DEF Interrupt, RootsStutter
  <2>2. CASE pc["gapctl"] # "wait"
    BY <1>1, <1>11, <2>2 DEF Interrupt, RootsStutter, Waiting
  <2> QED
    BY <2>1, <2>2
<1> QED
  BY <1>2, <1>3, <1>4, <1>5, <1>6, <1>7, <1>8, <1>9, <1>10, <1>11, Steps

\* A call that finds its protected roots changed reports the mutation, and an
\* answer is returned only when adapter and model are gone: nobody but a
\* helper can change the roots after the comparison
\* (_reject_protected_root_mutation).
THEOREM TouchesAreReported == Spec => []TouchesReported
<1>1. Init => RootsInv
  BY DEF Init, RootsInv
<1>2. RootsInv /\ StopInv => TouchesReported
  BY DEF RootsInv, StopInv, AdapterInv, ModelInv, TouchesReported
<1> QED
  BY <1>1, <1>2, RootsStep, StopHolds, TypeCorrect, PTL DEF Spec

-----------------------------------------------------------------------------
(* The outer deadline of a built-in adapter.                               *)

\* gapctl has not stopped waiting.
Early == {"ready", "launched", "wait"}

\* The ticks that gapctl has left for its adapter.
Budget == IF pc["gapctl"] = "wait" THEN left["gapctl"] ELSE CallLimit

\* The ticks that all calls of the model so far may take.
Granted == attempt * ModelLimitOf[kind]

\* Every tick since gapctl waits was one of a call of the model within its
\* limit, or one outside of it, which is the adapter's own; what the call
\* that runs has left is still to come.
Charged ==
  LET charge == Budget + own + Granted
  IN  /\ pc["adapter"] \in {"ready", "term", "kill", "off"} => CallLimit <= charge
      /\ pc["adapter"] = "launched" => CallLimit + ModelLimitOf[kind] <= charge
      /\ pc["adapter"] = "wait" =>
           CallLimit + left["adapter"] <= charge /\ poll["adapter"] <= left["adapter"]

\* While gapctl waits the account is balanced, unless the machine slept or the
\* adapter has used up its headroom; and the outer deadline did not pass.
ChargeInv ==
  Builtin /\ ~slept /\ own < Headroom =>
    /\ pc["gapctl"] \in Early => Charged
    /\ why["gapctl"] # "total"

\* Another call of the model grants its limit once more.
LEMMA MoreCalls ==
  ASSUME NEW a \in Nat, NEW b \in Nat, NEW m \in Nat, a <= b
  PROVE  a * m <= b * m /\ a * m \in Nat /\ (a + 1) * m = a * m + m
  OBVIOUS

\* All calls of the model and the adapter's headroom fit into the call.
LEMMA GrantedBounded ==
  ASSUME ControlTyped
  PROVE  /\ Granted \in Nat
         /\ Builtin => Granted + Headroom <= CallLimit
<1>1. /\ kind \in Kinds /\ attempt \in Nat /\ attempt <= AttemptsOf[kind]
      /\ AttemptsOf[kind] \in Nat /\ ModelLimitOf[kind] \in Nat
  BY DEF ControlTyped
<1>2. Granted \in Nat /\ Granted <= AttemptsOf[kind] * ModelLimitOf[kind]
      /\ AttemptsOf[kind] * ModelLimitOf[kind] \in Nat
  BY <1>1, MoreCalls DEF Granted
<1>3. Builtin => AttemptsOf[kind] * ModelLimitOf[kind] + Headroom <= CallLimit
  BY <1>1, BoundaryAssumption DEF Builtin
<1> QED
  BY <1>2, <1>3

\* The steps that use up no tick of gapctl, and leave the adapter where it is.
ChargeStutter ==
  /\ UNCHANGED <<kind, attempt, own>> /\ (slept' <=> slept)
  /\ pc'["adapter"] = pc["adapter"] /\ left'["adapter"] = left["adapter"]
  /\ poll'["adapter"] = poll["adapter"] /\ grace'["adapter"] = grace["adapter"]
  /\ why'["gapctl"] \in {why["gapctl"], "idle", "signal"}
  /\ pc'["gapctl"] \in Early => pc["gapctl"] \in Early /\ Budget' = Budget

\* Such a step leaves the account as it is.
LEMMA ChargeStutterKeeps ==
  ASSUME ChargeInv, ChargeStutter
  PROVE  ChargeInv'
<1>1. Granted' = Granted /\ ModelLimitOf[kind]' = ModelLimitOf[kind] /\ Builtin' = Builtin
  BY DEF ChargeStutter, Granted, Builtin
<1>2. pc'["gapctl"] \in Early => (Charged => Charged')
  BY <1>1 DEF ChargeStutter, Charged
<1> QED
  BY <1>1, <1>2 DEF ChargeStutter, ChargeInv

\* The steps of the adapter that take no time.
AdapterMoves ==
  /\ UNCHANGED <<kind, own>> /\ (slept' <=> slept)
  /\ pc'["gapctl"] = pc["gapctl"] /\ left'["gapctl"] = left["gapctl"]
  /\ why'["gapctl"] = why["gapctl"]

\* Such a step may move ticks between the entries of the account.
LEMMA AdapterMovesKeep ==
  ASSUME ChargeInv, AdapterMoves, Builtin /\ Charged => Charged'
  PROVE  ChargeInv'
  BY DEF ChargeInv, AdapterMoves, Builtin

\* A tick that the adapter is charged for is one less for gapctl.
LEMMA TickCharged ==
  ASSUME NEW limit \in Nat, NEW b \in Nat, NEW c \in Nat, NEW o \in Nat, NEW p \in Nat,
         NEW g \in Nat, limit <= b + o + g, b - 1 <= c, o + 1 <= p
  PROVE  limit <= c + p + g
  OBVIOUS

\* A tick is charged to what the adapter is doing.
LEMMA ChargeTick ==
  ASSUME ControlTyped, TimersTyped, AdapterInv, ChargeInv, Tick
  PROVE  ChargeInv'
<1> USE DEF calls, timers, history
<1>0. UNCHANGED <<kind, attempt, pc, why>> /\ (slept' <=> slept)
  BY DEF Tick
<1>1. pc' = pc /\ own \in Nat /\ own' \in Nat /\ own <= own'
  BY DEF Tick, TimersTyped, Least
<1>2. Granted' = Granted /\ Granted \in Nat /\ ModelLimitOf[kind] \in Nat
  BY <1>0, GrantedBounded DEF Granted, ControlTyped
<1>3. CASE pc["gapctl"] = "wait" /\ Builtin /\ own' < Headroom /\ ~slept
  <2>1. Charged
    BY <1>1, <1>3 DEF ChargeInv, Early, TimersTyped
  <2>2. /\ Budget \in Nat /\ Budget' \in Nat /\ Budget - 1 <= Budget'
        /\ left["adapter"] \in Nat /\ poll["adapter"] \in Nat /\ grace["adapter"] \in Nat
    BY <1>1, <1>3 DEF Tick, Passed, Budget, TimersTyped
  <2>3. ASSUME pc["adapter"] \in {"ready", "term", "kill"} PROVE Charged'
    <3>1. own + 1 <= own'
      BY <1>3, <2>3 DEF Tick, Least, TimersTyped, Waiting
    <3>2. CallLimit <= Budget + own + Granted
      BY <2>1, <2>3 DEF Charged
    <3>3. CallLimit <= Budget' + own' + Granted'
      BY <1>1, <1>2, <2>2, <3>1, <3>2, TickCharged
    <3> QED
      BY <1>1, <2>3, <3>3 DEF Charged
  <2>4. ASSUME pc["adapter"] = "wait" PROVE Charged'
    <3>1. /\ poll["adapter"] # 0
          /\ poll'["adapter"] = poll["adapter"] - 1
          /\ left'["adapter"] = (IF left["adapter"] = 0 THEN 0 ELSE left["adapter"] - 1)
      BY <2>4 DEF Tick, Due, Passed
    <3> QED
      BY <1>1, <1>2, <2>1, <2>2, <2>4, <3>1 DEF Charged
  <2>6. pc["adapter"] \notin {"off", "launched"}
    BY <1>3 DEF Tick, Due, Finished, Child, HelperOf, AdapterInv
  <2>7. pc["adapter"] \in {"ready", "wait", "term", "kill"}
    BY <2>6 DEF ControlTyped, AdapterInv, Tags
  <2>8. Charged'
    BY <2>3, <2>4, <2>7
  <2> QED
    BY <1>0, <1>1, <1>3, <2>8 DEF ChargeInv, Builtin
<1>4. CASE ~(pc["gapctl"] = "wait" /\ Builtin /\ own' < Headroom /\ ~slept)
  <2>1. pc["gapctl"] \notin {"ready", "launched"}
    BY DEF Tick, Waiting
  <2> QED
    BY <1>0, <1>1, <1>4, <2>1 DEF ChargeInv, Early, Builtin
<1> QED
  BY <1>3, <1>4

\* Every step keeps the account balanced.
LEMMA ChargeStep ==
  TypeOK /\ IdleInv /\ StopInv /\ ChargeInv /\ [Next]_vars => ChargeInv'
<1> SUFFICES ASSUME ControlTyped, TimersTyped, IdleInv, PendingInv, AdapterInv, ModelInv,
                    ChargeInv, [Next]_vars
             PROVE  ChargeInv'
  BY Parts DEF StopInv
<1> USE DEF calls, timers, history
<1>1. /\ Granted \in Nat /\ own \in Nat /\ Budget \in Nat /\ ModelLimitOf[kind] \in Nat
      /\ left["adapter"] \in Nat /\ poll["adapter"] \in Nat /\ grace["adapter"] \in Nat
  BY GrantedBounded DEF Budget, TimersTyped, ControlTyped
<1>2. CASE StartAdapter
  <2>1. /\ Granted' = Granted /\ Budget' = CallLimit /\ own' = own /\ (slept' <=> slept)
        /\ Builtin' = Builtin /\ pc'["adapter"] = "ready" /\ why' = why
        /\ pc["gapctl"] \in Early
    BY <1>2 DEF StartAdapter, Granted, Budget, Builtin, Early
  <2>2. Charged'
    BY <1>1, <2>1 DEF Charged
  <2> QED
    BY <2>1, <2>2 DEF ChargeInv
<1>3. CASE StartModel
  <2>1. /\ AdapterMoves /\ pc["adapter"] = "ready" /\ pc'["adapter"] = "launched"
        /\ attempt' = attempt + 1 /\ kind' = kind
    BY <1>3 DEF StartModel, AdapterMoves, ControlTyped
  <2>2. Granted' = Granted + ModelLimitOf[kind]
    BY <1>1, <2>1, MoreCalls DEF Granted, ControlTyped
  <2>3. Budget' = Budget
    BY <2>1 DEF AdapterMoves, Budget
  <2>4. Charged => Charged'
    BY <1>1, <2>1, <2>2, <2>3 DEF Charged, AdapterMoves
  <2> QED
    BY <2>1, <2>4, AdapterMovesKeep
<1>4. CASE InstallHandler("adapter")
  <2>1. /\ AdapterMoves /\ UNCHANGED <<kind, attempt>>
        /\ pc["adapter"] = "launched" /\ pc'["adapter"] = "wait"
        /\ left'["adapter"] = ModelLimitOf[kind]
        /\ poll'["adapter"] = Least(PollTicks, ModelLimitOf[kind])
    BY <1>4 DEF InstallHandler, AdapterMoves, LimitOf, HasIdleLimit, ControlTyped, TimersTyped
  <2>2. Budget' = Budget /\ Granted' = Granted /\ own' = own
    BY <2>1 DEF AdapterMoves, Budget, Granted
  <2>3. Charged => Charged'
    BY <1>1, <2>1, <2>2 DEF Charged, Least
  <2> QED
    BY <2>1, <2>3, AdapterMovesKeep
<1>5. CASE Completes("adapter")
  <2>1. /\ AdapterMoves /\ UNCHANGED <<kind, attempt>>
        /\ pc["adapter"] = "wait" /\ pc'["adapter"] = "ready"
    BY <1>5 DEF Completes, AdapterMoves, ControlTyped
  <2>2. Budget' = Budget /\ Granted' = Granted /\ own' = own
    BY <2>1 DEF AdapterMoves, Budget, Granted
  <2>3. Charged => Charged'
    BY <1>1, <2>1, <2>2 DEF Charged
  <2> QED
    BY <2>1, <2>3, AdapterMovesKeep
<1>6. CASE PollAgain("adapter")
  <2>1. /\ AdapterMoves /\ UNCHANGED <<kind, attempt, pc, left>> /\ pc["adapter"] = "wait"
        /\ poll'["adapter"] = Least(PollTicks, left["adapter"])
    BY <1>6 DEF PollAgain, AdapterMoves, NextPoll, HasIdleLimit, TimersTyped
  <2>2. Budget' = Budget /\ Granted' = Granted /\ own' = own
    BY <2>1 DEF AdapterMoves, Budget, Granted
  <2>3. Charged => Charged'
    BY <1>1, <2>1, <2>2 DEF Charged, Least
  <2> QED
    BY <2>1, <2>3, AdapterMovesKeep
<1>7. ASSUME NEW reason, Stop("adapter", reason), pc["adapter"] = "wait",
             UNCHANGED <<kind, left, poll, attempt, own, slept>>
      PROVE  ChargeInv'
  <2>1. /\ AdapterMoves /\ pc'["adapter"] = "term" /\ grace'["adapter"] = GraceTicks
    BY <1>7, StopControl DEF AdapterMoves, ControlTyped, TimersTyped
  <2>2. Budget' = Budget /\ Granted' = Granted /\ own' = own
    BY <1>7, <2>1 DEF AdapterMoves, Budget, Granted
  <2>3. Charged => Charged'
    BY <1>1, <1>7, <2>1, <2>2 DEF Charged
  <2> QED
    BY <2>1, <2>3, AdapterMovesKeep
<1>8. CASE TotalTimeout("adapter")
  BY <1>7, <1>8 DEF TotalTimeout
<1>9. ASSUME pc'["adapter"] = "off", pc["adapter"] \in {"ready", "term", "kill"} \/ ~Builtin,
             AdapterMoves, UNCHANGED attempt
      PROVE  ChargeInv'
  <2>1. Budget' = Budget /\ Granted' = Granted /\ own' = own
    BY <1>9 DEF AdapterMoves, Budget, Granted
  <2>2. Builtin /\ Charged => Charged'
    BY <1>1, <1>9, <2>1 DEF Charged
  <2> QED
    BY <1>9, <2>2, AdapterMovesKeep
<1>10. CASE AdapterReaps \/ AdapterAnswers
  BY <1>9, <1>10
  DEF AdapterReaps, AdapterAnswers, Reaped, Waiting, AdapterGone, AdapterMoves, ControlTyped
<1>11. CASE CustomEnds
  BY <1>9, <1>11 DEF CustomEnds, AdapterGone, AdapterMoves, ControlTyped
<1>12. CASE HandleTerm \/ CustomHandlesTerm
  <2>1. pc["gapctl"] \notin Early
    BY <1>12 DEF HandleTerm, CustomHandlesTerm, PendingInv, Early
  <2>2. pc'["gapctl"] = pc["gapctl"] /\ why'["gapctl"] = why["gapctl"]
    BY <1>12, StopControl DEF HandleTerm, CustomHandlesTerm, AdapterGone, ControlTyped
  <2>3. UNCHANGED <<kind, own, slept>>
    BY <1>12 DEF HandleTerm, CustomHandlesTerm
  <2> QED
    BY <2>1, <2>2, <2>3 DEF ChargeInv, Builtin
<1>13. CASE Kill("adapter")
  <2>1. /\ AdapterMoves /\ UNCHANGED <<kind, attempt>>
        /\ pc["adapter"] = "term" /\ pc'["adapter"] = "kill"
        /\ grace["adapter"] = 0 /\ grace'["adapter"] = GraceTicks
    BY <1>13 DEF Kill, AdapterMoves, ControlTyped, TimersTyped
  <2>2. Budget' = Budget /\ Granted' = Granted /\ own' = own
    BY <2>1 DEF AdapterMoves, Budget, Granted
  <2>3. Charged => Charged'
    BY <1>1, <2>1, <2>2 DEF Charged
  <2> QED
    BY <2>1, <2>3, AdapterMovesKeep
<1>14. CASE Kill("gapctl")
  BY <1>14 DEF Kill, ChargeInv, Early, Builtin
<1>15. CASE TotalTimeout("gapctl")
  <2>1. pc["gapctl"] = "wait" /\ left["gapctl"] = 0 /\ UNCHANGED <<kind, own, slept>>
    BY <1>15 DEF TotalTimeout, TimedOut
  <2>2. pc'["gapctl"] = "term" /\ why'["gapctl"] = "total"
    BY <1>15, StopControl DEF TotalTimeout, ControlTyped
  <2>3. Builtin /\ ~slept => own = Headroom
    <3> SUFFICES ASSUME Builtin, ~slept, own < Headroom
                 PROVE  FALSE
      BY DEF TimersTyped
    <3>1. Charged /\ Budget = 0
      BY <2>1 DEF ChargeInv, Early, Budget
    <3>2. CallLimit <= own + Granted
      BY <1>1, <3>1 DEF Charged, ControlTyped, Tags, AdapterInv
    <3> QED
      BY <1>1, <3>2, GrantedBounded
  <2> QED
    BY <1>1, <2>1, <2>2, <2>3 DEF ChargeInv, Early, Builtin
<1>16. CASE IdleTimeout
  BY <1>16, StopControl, ChargeStutterKeeps
  DEF IdleTimeout, ChargeStutter, ControlTyped, TimersTyped, Early
<1>17. ASSUME NEW signal \in {"SIGTERM", "Ctrl+C"}, Interrupt(signal) PROVE ChargeInv'
  <2>1. UNCHANGED <<kind, attempt, own, slept, left, poll>>
    BY <1>17 DEF Interrupt
  <2>2. CASE pc["gapctl"] = "wait"
    BY <1>17, <2>1, <2>2, StopControl, ChargeStutterKeeps
    DEF Interrupt, ChargeStutter, ControlTyped, TimersTyped, Early
  <2>3. CASE pc["gapctl"] # "wait"
    BY <1>17, <2>1, <2>3, ChargeStutterKeeps
    DEF Interrupt, ChargeStutter, ControlTyped, TimersTyped, Early
  <2> QED
    BY <2>2, <2>3
<1>18. CASE InstallHandler("gapctl")
  <2>1. /\ UNCHANGED <<kind, attempt, own, slept, why, grace>>
        /\ pc["gapctl"] = "launched" /\ pc'["gapctl"] = "wait" /\ left'["gapctl"] = CallLimit
        /\ pc'["adapter"] = pc["adapter"] /\ left'["adapter"] = left["adapter"]
        /\ poll'["adapter"] = poll["adapter"]
    BY <1>18 DEF InstallHandler, LimitOf, ControlTyped, TimersTyped
  <2> QED
    BY <2>1, ChargeStutterKeeps DEF ChargeStutter, Early, Budget
<1>19. CASE PollAgain("gapctl")
  BY <1>19, ChargeStutterKeeps DEF PollAgain, ChargeStutter, Budget, TimersTyped
<1>20. CASE Completes("gapctl")
  BY <1>20, ChargeStutterKeeps DEF Completes, ChargeStutter, ControlTyped, Early
<1>21. CASE GapctlReaps
  BY <1>21, ChargeStutterKeeps DEF GapctlReaps, ChargeStutter, ControlTyped, Early
<1>22. CASE Return
  BY <1>22, ChargeStutterKeeps DEF Return, ChargeStutter, ControlTyped, Early
<1>23. CASE ModelEnds \/ CustomWrites \/ StartHelper \/ HelperEnds \/ TouchRoots \/ UNCHANGED vars
  BY <1>23, ChargeStutterKeeps
  DEF ModelEnds, CustomWrites, StartHelper, HelperEnds, TouchRoots, vars, ChargeStutter, Budget
<1>24. CASE Tick
  BY <1>24, ChargeTick
<1>25. CASE Sleep
  BY <1>25 DEF Sleep, ChargeInv
<1> QED
  BY <1>2, <1>3, <1>4, <1>5, <1>6, <1>8, <1>10, <1>11, <1>12, <1>13, <1>14, <1>15, <1>16, <1>17,
     <1>18, <1>19, <1>20, <1>21, <1>22, <1>23, <1>24, <1>25, Steps

\* The outer deadline stops a built-in adapter only when its own work and the
\* stopping of its model have used up the headroom, for all limits that keep
\* the boundary the adapters document.
THEOREM ModelTimeoutsAreReported == Spec => []ModelTimeoutsReported
<1>1. Init => ChargeInv
  BY DEF Init, ChargeInv, Charged, Early, Budget, Granted, Builtin
<1>2. TypeOK /\ ChargeInv => ModelTimeoutsReported
  <2>1. TypeOK => own \in 0 .. Headroom
    BY DEF TypeOK
  <2> QED
    BY <2>1 DEF ChargeInv, ModelTimeoutsReported
<1> QED
  BY <1>1, <1>2, IdleHolds, ChargeStep, StopHolds, TypeCorrect, PTL DEF Spec
=============================================================================
