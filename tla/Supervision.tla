---------------------------- MODULE Supervision ----------------------------
(***************************************************************************)
(* One generator call: dispatch_generator runs an adapter as a supervised  *)
(* subprocess (run_captured), and a built-in adapter runs its model as     *)
(* another one with the same function.  Adapter and model lead sessions of *)
(* their own, so that a signal reaches one of them only from whoever       *)
(* supervises it.                                                          *)
(*                                                                         *)
(* A supervisor polls its child under a total deadline, gapctl also under  *)
(* an idle deadline.  When one passes, or a signal arrives, it sends       *)
(* SIGTERM, waits for a grace period, sends SIGKILL, waits again, and then *)
(* closes the pipes.  Models may ignore SIGTERM, start helpers in sessions *)
(* of their own that keep the pipes open, and write to the protected roots;*)
(* an adapter of the configuration file may do all of that and also write  *)
(* output as it goes.                                                      *)
(*                                                                         *)
(* Time is counted in ticks.  Supervisors react within one: the clock does *)
(* not advance past a deadline or a signal that somebody has yet to handle.*)
(* The machine may sleep: deadlines are wall-clock times and pass meanwhile,*)
(* polls and grace periods do not.                                         *)
(***************************************************************************)
EXTENDS Integers

CONSTANTS
  Kinds,        \* the adapters: the built-in ones and Custom
  Custom,       \* an adapter of the configuration file
  AttemptsOf,   \* MAX_ATTEMPTS of each adapter
  ModelLimitOf, \* ticks for one call of its model
  CallLimit,    \* timeout_seconds of the call, in ticks
  IdleLimit,    \* idle_timeout_seconds, which only Custom has
  PollTicks,    \* WALL_TIMEOUT_POLL_SECONDS
  GraceTicks,   \* TERMINATION_GRACE_SECONDS
  Headroom,     \* ticks of a call beyond the limits of its model calls
  MaxSignals,   \* signals sent to gapctl
  MaySleep      \* whether the machine may sleep, once

ASSUME SupervisionAssumption ==
  /\ Custom \in Kinds
  /\ AttemptsOf \in [Kinds -> Nat \ {0}] /\ ModelLimitOf \in [Kinds -> Nat \ {0}]
  /\ CallLimit \in Nat \ {0} /\ IdleLimit \in 1 .. CallLimit
  /\ PollTicks \in Nat \ {0} /\ GraceTicks \in Nat \ {0}
  /\ Headroom \in Nat /\ MaxSignals \in Nat /\ MaySleep \in BOOLEAN

\* "Keep either route plus two minutes of adapter/serialization headroom inside
\* the outer boundary": 1680, or twice 840, and 120 are 1800 seconds.
ASSUME BoundaryAssumption ==
  \A k \in Kinds \ {Custom} : AttemptsOf[k] * ModelLimitOf[k] + Headroom <= CallLimit

Supervisors == {"gapctl", "adapter"}

Processes == {"adapter", "model", "helper"}

Child == [gapctl |-> "adapter", adapter |-> "model"]

VARIABLES
  kind,     \* the adapter in use
  pc,       \* where each supervisor is in run_captured, or around it
  why,      \* why it stopped waiting for its child
  left,     \* ticks to its total deadline
  idle,     \* ticks to gapctl's idle deadline
  poll,     \* ticks to the end of the current communicate
  grace,    \* ticks to the end of the current grace period
  alive,    \* the processes that run
  pending,  \* a SIGTERM is on its way to the adapter
  attempt,  \* calls of the model so far
  answer,   \* what the model's last call came to
  code,     \* the adapter's exit
  wrote,    \* the adapter has written output since the last poll
  roots,    \* the protected roots
  outcome,  \* what dispatch_generator came to
  signals,  \* signals sent to gapctl
  silence,  \* history: ticks since the adapter wrote while gapctl waits
  own,      \* history: ticks the adapter spent on its own work and on stopping
            \* a model, which the limits of the model calls do not count
  slept,    \* history: the machine has slept during the call
  late,     \* history: the roots were touched after they were compared
  excuses   \* history: what spares a process that should have been stopped

calls == <<pc, why>>
timers == <<left, idle, poll, grace>>
history == <<silence, own, slept, late>>
vars ==
  <<kind, calls, timers, alive, pending, attempt, answer, code, wrote, roots, outcome,
    signals, history, excuses>>

Builtin == kind # Custom

Waiting == {"term", "kill"}

\* Who may keep the pipes of a child open after its death.
HelperOf == IF Builtin THEN "adapter" ELSE "gapctl"

\* communicate returns: the child is gone and nobody holds its pipes.
Finished(s) ==
  /\ Child[s] \notin alive
  /\ "helper" \in alive => s # HelperOf

Least(a, b) == IF a <= b THEN a ELSE b

\* Mutant: the adapter gives its model as long as it has itself.
LimitOfCall(s) == CallLimit

LimitOf(s) == IF s = "gapctl" THEN CallLimit ELSE ModelLimitOf[kind]

HasIdleLimit(s) == s = "gapctl" /\ ~Builtin

NextPoll(s, idleLeft) ==
  Least(PollTicks, IF HasIdleLimit(s) THEN Least(left[s], idleLeft) ELSE left[s])

-----------------------------------------------------------------------------
(* Starting and waiting.                                                   *)

\* dispatch_generator: the roots are hashed and the adapter is started.
StartAdapter ==
  /\ pc["gapctl"] = "ready"
  /\ pc' = [gapctl |-> "launched", adapter |-> "ready"]
  /\ alive' = {"adapter"}
  /\ UNCHANGED <<kind, why, timers, pending, attempt, answer, code, wrote, roots, outcome,
                 signals, history, excuses>>

\* A built-in adapter calls its model, again after an answer off the schema.
StartModel ==
  /\ Builtin /\ pc["adapter"] = "ready"
  /\ answer \in {"none", "off"} /\ attempt < AttemptsOf[kind]
  /\ pc' = [pc EXCEPT !["adapter"] = "launched"]
  /\ alive' = alive \cup {"model"}
  /\ attempt' = attempt + 1 /\ answer' = "none"
  /\ UNCHANGED <<kind, why, timers, pending, code, wrote, roots, outcome, signals, history,
                 excuses>>

\* The SIGTERM handler is installed after the child was started.
InstallHandler(s) ==
  /\ pc[s] = "launched"
  /\ pc' = [pc EXCEPT ![s] = "wait"]
  /\ left' = [left EXCEPT ![s] = LimitOf(s)]
  /\ idle' = IF HasIdleLimit(s) THEN IdleLimit ELSE idle
  /\ poll' = [poll EXCEPT
       ![s] = Least(PollTicks,
                    IF HasIdleLimit(s) THEN Least(LimitOf(s), IdleLimit) ELSE LimitOf(s))]
  /\ UNCHANGED <<kind, why, grace, alive, pending, attempt, answer, code, wrote, roots,
                 outcome, signals, history, excuses>>

\* Somebody has to act before time goes on.
Due(s) ==
  \/ pc[s] \in {"launched", "check"}
  \/ pc[s] \in Waiting \cup {"wait"} /\ Finished(s)
  \/ pc[s] = "wait" /\ poll[s] = 0
  \/ pc[s] \in Waiting /\ grace[s] = 0

Passed(ticks) == IF ticks = 0 THEN 0 ELSE ticks - 1

Tick ==
  /\ pc["gapctl"] \in {"wait"} \cup Waiting
  /\ ~pending
  /\ \A s \in Supervisors : ~Due(s)
  /\ left' = [s \in Supervisors |-> IF pc[s] = "wait" THEN Passed(left[s]) ELSE left[s]]
  /\ poll' = [s \in Supervisors |-> IF pc[s] = "wait" THEN poll[s] - 1 ELSE poll[s]]
  /\ grace' = [s \in Supervisors |-> IF pc[s] \in Waiting THEN grace[s] - 1 ELSE grace[s]]
  /\ idle' = IF pc["gapctl"] = "wait" /\ ~Builtin THEN Passed(idle) ELSE idle
  /\ silence' = IF pc["gapctl"] = "wait" /\ ~Builtin THEN silence + 1 ELSE silence
  /\ own' = IF Builtin /\ pc["adapter"] \in {"ready"} \cup Waiting
            THEN Least(own + 1, Headroom) ELSE own
  /\ UNCHANGED <<kind, calls, alive, pending, attempt, answer, code, wrote, roots, outcome,
                 signals, slept, late, excuses>>

\* The machine sleeps for longer than any deadline.
Sleep ==
  /\ MaySleep /\ ~slept /\ slept' = TRUE
  /\ pc["gapctl"] \in {"wait"} \cup Waiting
  /\ left' = [s \in Supervisors |-> 0] /\ idle' = 0
  /\ UNCHANGED <<kind, calls, poll, grace, alive, pending, attempt, answer, code, wrote,
                 roots, outcome, signals, silence, own, late, excuses>>

\* communicate returned.
Completes(s) ==
  /\ pc[s] = "wait" /\ Finished(s)
  /\ pc' = [pc EXCEPT ![s] = IF s = "gapctl" THEN "check" ELSE "ready"]
  /\ UNCHANGED <<kind, why, timers, alive, pending, attempt, answer, code, wrote, roots,
                 outcome, signals, history, excuses>>

-----------------------------------------------------------------------------
(* Stopping a child.                                                       *)

\* _stop_and_reap begins: SIGTERM to the child's group.  A model obeys it or
\* not; the adapter handles it in HandleTerm.  The signal that an adapter stops
\* for has arrived; one on its way while a deadline passes arrives later.
Stop(s, reason) ==
  /\ pc' = [pc EXCEPT ![s] = "term"]
  /\ why' = [why EXCEPT ![s] = reason]
  /\ grace' = [grace EXCEPT ![s] = GraceTicks]
  /\ IF s = "gapctl"
     THEN /\ pending' = ("adapter" \in alive)
          /\ UNCHANGED <<alive, excuses>>
     ELSE /\ pending' = IF reason = "signal" THEN FALSE ELSE pending
          /\ \/ alive' = alive \ {"model"} /\ UNCHANGED excuses
             \/ /\ "model" \in alive
                /\ excuses' = excuses \cup {"ignored"} /\ UNCHANGED alive

\* Mutant: progress is not looked at.
ProgressNever == idle

\* A poll has ended without the child: first progress moves the idle deadline,
\* then the total deadline is looked at, then the idle one.
Progress == IF wrote THEN IdleLimit ELSE idle

IdleLeft(s) == IF HasIdleLimit(s) THEN Progress ELSE idle

\* Mutant: only the idle deadline ends the wait of a call that has one.
TimedOutIfSilent(s) == left[s] = 0 /\ ~HasIdleLimit(s)

TimedOut(s) == left[s] = 0

\* Mutant: progress moves the total deadline as well.
PollAfresh(s) ==
  /\ pc[s] = "wait" /\ poll[s] = 0
  /\ ~TimedOut(s) /\ ~(HasIdleLimit(s) /\ IdleLeft(s) = 0)
  /\ idle' = IdleLeft(s)
  /\ left' = IF s = "gapctl" /\ wrote THEN [left EXCEPT ![s] = LimitOf(s)] ELSE left
  /\ wrote' = IF s = "gapctl" THEN FALSE ELSE wrote
  /\ poll' = [poll EXCEPT ![s] = NextPoll(s, IdleLeft(s))]
  /\ UNCHANGED <<kind, calls, grace, alive, pending, attempt, answer, code, roots,
                 outcome, signals, history, excuses>>

PollAgain(s) ==
  /\ pc[s] = "wait" /\ poll[s] = 0
  /\ ~TimedOut(s) /\ ~(HasIdleLimit(s) /\ IdleLeft(s) = 0)
  /\ idle' = IdleLeft(s)
  /\ wrote' = IF s = "gapctl" THEN FALSE ELSE wrote
  /\ poll' = [poll EXCEPT ![s] = NextPoll(s, IdleLeft(s))]
  /\ UNCHANGED <<kind, calls, left, grace, alive, pending, attempt, answer, code, roots,
                 outcome, signals, history, excuses>>

TotalTimeout(s) ==
  /\ pc[s] = "wait" /\ poll[s] = 0 /\ TimedOut(s)
  /\ Stop(s, "total")
  /\ UNCHANGED <<kind, left, idle, poll, attempt, answer, code, wrote, roots, outcome,
                 signals, history>>

IdleTimeout ==
  /\ pc["gapctl"] = "wait" /\ poll["gapctl"] = 0
  /\ ~TimedOut("gapctl") /\ HasIdleLimit("gapctl") /\ IdleLeft("gapctl") = 0
  /\ Stop("gapctl", "idle")
  /\ UNCHANGED <<kind, left, idle, poll, attempt, answer, code, wrote, roots, outcome,
                 signals, history>>

\* The adapter is gone, with what it had in hand.
AdapterGone(exit) ==
  /\ alive' = alive \ {"adapter"}
  /\ pc' = [pc EXCEPT !["adapter"] = "off"]
  /\ code' = exit /\ pending' = FALSE

\* The child did not go within the grace period: SIGKILL to its group.
Kill(s) ==
  /\ pc[s] = "term" /\ grace[s] = 0 /\ ~Finished(s)
  /\ grace' = [grace EXCEPT ![s] = GraceTicks]
  /\ IF s = "gapctl"
     THEN /\ pc' = [gapctl |-> "kill", adapter |-> "off"]
          /\ alive' = alive \ {"adapter"} /\ code' = "error"
     ELSE /\ pc' = [pc EXCEPT !["adapter"] = "kill"]
          /\ alive' = alive \ {"model"} /\ UNCHANGED code
  /\ UNCHANGED <<kind, why, left, idle, poll, pending, attempt, answer, wrote, roots,
                 outcome, signals, history, excuses>>

\* Mutant: the signals are sent and nobody waits.
ReapedAtOnce(s) == pc[s] \in Waiting

\* The child is reaped, or its pipes are closed although somebody holds them.
Reaped(s) == pc[s] \in Waiting /\ (Finished(s) \/ (pc[s] = "kill" /\ grace[s] = 0))

GapctlReaps ==
  /\ Reaped("gapctl")
  /\ pc' = [pc EXCEPT !["gapctl"] = "check"]
  /\ UNCHANGED <<kind, why, timers, alive, pending, attempt, answer, code, wrote, roots,
                 outcome, signals, history, excuses>>

\* main: exit 124 if the model timed out; a termination ends the adapter.
AdapterReaps ==
  /\ Reaped("adapter")
  /\ AdapterGone(IF why["adapter"] = "total" THEN "timeout" ELSE "error")
  /\ UNCHANGED <<kind, why, timers, attempt, answer, wrote, roots, outcome, signals, history,
                 excuses>>

\* A signal between the start of a child and the installation of the handler,
\* or in the middle of a cleanup, ends the supervisor there.
Excuse(at) ==
  CASE at = "launched" -> {"unguarded"}
    [] at \in Waiting -> {"twice"}
    [] OTHER -> {}

\* SIGTERM reaches the adapter.  Outside of run_captured, and between the
\* start of the model and the handler, it simply dies; within, it stops its
\* model; while it does that, it gives up doing so.
HandleTerm ==
  /\ pending /\ Builtin
  /\ \/ /\ pc["adapter"] = "wait"
        /\ Stop("adapter", "signal")
        /\ UNCHANGED code
     \/ /\ pc["adapter"] # "wait"
        /\ AdapterGone("error")
        /\ excuses' = excuses \cup Excuse(pc["adapter"])
        /\ UNCHANGED <<why, grace>>
  /\ UNCHANGED <<kind, left, idle, poll, attempt, answer, wrote, roots, outcome, signals,
                 history>>

\* A configured adapter obeys or not.
CustomHandlesTerm ==
  /\ pending /\ ~Builtin
  /\ \/ AdapterGone("error")
     \/ pending' = FALSE /\ UNCHANGED <<alive, pc, code>>
  /\ UNCHANGED <<kind, why, timers, attempt, answer, wrote, roots, outcome, signals, history,
                 excuses>>

-----------------------------------------------------------------------------
(* What the children do.                                                   *)

\* The model ends with an answer on or off the schema, or fails.
ModelEnds ==
  /\ "model" \in alive
  /\ alive' = alive \ {"model"}
  /\ answer' \in {"good", "off", "failed"}
  /\ UNCHANGED <<kind, calls, timers, pending, attempt, code, wrote, roots, outcome, signals,
                 history, excuses>>

\* A built-in adapter passes a good answer on, and gives up otherwise.
AdapterAnswers ==
  /\ Builtin /\ pc["adapter"] = "ready"
  /\ \/ answer = "good" /\ AdapterGone("answer")
     \/ answer = "failed" /\ AdapterGone("error")
     \/ answer = "off" /\ attempt = AttemptsOf[kind] /\ AdapterGone("error")
  /\ UNCHANGED <<kind, why, timers, attempt, answer, wrote, roots, outcome, signals, history,
                 excuses>>

CustomEnds ==
  /\ ~Builtin /\ "adapter" \in alive
  /\ \E exit \in {"answer", "timeout", "error"} : AdapterGone(exit)
  /\ UNCHANGED <<kind, why, timers, attempt, answer, wrote, roots, outcome, signals, history,
                 excuses>>

CustomWrites ==
  /\ ~Builtin /\ "adapter" \in alive /\ pc["gapctl"] = "wait"
  /\ wrote' = TRUE /\ silence' = 0
  /\ UNCHANGED <<kind, calls, timers, alive, pending, attempt, answer, code, roots, outcome,
                 signals, own, slept, late, excuses>>

\* The model, or a configured adapter, leaves a process behind in a session of
\* its own; that process may end or not.
StartHelper ==
  /\ (IF Builtin THEN "model" ELSE "adapter") \in alive /\ "helper" \notin alive
  /\ alive' = alive \cup {"helper"}
  /\ UNCHANGED <<kind, calls, timers, pending, attempt, answer, code, wrote, roots, outcome,
                 signals, history, excuses>>

HelperEnds ==
  /\ "helper" \in alive
  /\ alive' = alive \ {"helper"}
  /\ UNCHANGED <<kind, calls, timers, pending, attempt, answer, code, wrote, roots, outcome,
                 signals, history, excuses>>

\* Any of them but a built-in adapter changes a protected file, or puts it back.
TouchRoots ==
  /\ alive \ (IF Builtin THEN {"adapter"} ELSE {}) # {}
  /\ roots' \in {"before", "touched"} \ {roots}
  /\ late' = (late \/ pc["gapctl"] = "done")
  /\ UNCHANGED <<kind, calls, timers, alive, pending, attempt, answer, code, wrote, outcome,
                 signals, silence, own, slept, excuses>>

-----------------------------------------------------------------------------
(* Ctrl+C or SIGTERM at gapctl, and the end of the call.                   *)

\* Without its handler gapctl dies of SIGTERM, and Ctrl+C ends the call
\* without stopping the adapter; a signal during the cleanup ends the cleanup.
Interrupt(signal) ==
  /\ pc["gapctl"] \in {"launched", "wait", "check"} \cup Waiting
  /\ signals < MaxSignals /\ signals' = signals + 1
  /\ IF pc["gapctl"] = "wait"
     THEN Stop("gapctl", "signal") /\ UNCHANGED outcome
     ELSE /\ IF pc["gapctl"] = "check" \/ (pc["gapctl"] = "launched" /\ signal = "SIGTERM")
             THEN /\ pc' = [pc EXCEPT !["gapctl"] = "done"] /\ outcome' = "killed"
             ELSE /\ pc' = [pc EXCEPT !["gapctl"] = "check"] /\ UNCHANGED outcome
          /\ why' = [why EXCEPT !["gapctl"] = "signal"]
          /\ excuses' = excuses \cup Excuse(pc["gapctl"])
          /\ UNCHANGED <<grace, pending, alive>>
  /\ UNCHANGED <<kind, left, idle, poll, attempt, answer, code, wrote, roots, history>>

\* What the call comes to if the roots are as they were.
Verdict ==
  CASE why["gapctl"] = "total" -> "timeout"
    [] why["gapctl"] = "idle" -> "idle"
    [] why["gapctl"] = "signal" -> "interrupted"
    [] OTHER -> IF code = "timeout" THEN "model timeout" ELSE code

\* Mutant: the roots are compared only when the adapter has ended by itself.
RejectedIfCompleted == roots = "touched" /\ why["gapctl"] = "none"

\* _reject_protected_root_mutation
Rejected == roots = "touched"

\* Every way out of the runner compares the roots first.
Return ==
  /\ pc["gapctl"] = "check"
  /\ pc' = [pc EXCEPT !["gapctl"] = "done"]
  /\ outcome' = IF Rejected THEN "mutation" ELSE Verdict
  /\ UNCHANGED <<kind, why, timers, alive, pending, attempt, answer, code, wrote, roots,
                 signals, history, excuses>>

-----------------------------------------------------------------------------

Init ==
  /\ kind \in Kinds
  /\ pc = [gapctl |-> "ready", adapter |-> "off"]
  /\ why = [s \in Supervisors |-> "none"]
  /\ left = [s \in Supervisors |-> 0] /\ poll = [s \in Supervisors |-> 0]
  /\ grace = [s \in Supervisors |-> 0] /\ idle = 0
  /\ alive = {} /\ pending = FALSE
  /\ attempt = 0 /\ answer = "none" /\ code = "none" /\ wrote = FALSE
  /\ roots = "before" /\ outcome = "none" /\ signals = 0
  /\ silence = 0 /\ own = 0 /\ slept = FALSE /\ late = FALSE /\ excuses = {}

\* The steps of gapctl and of a built-in adapter.
Supervise ==
  \/ StartAdapter \/ GapctlReaps \/ AdapterReaps \/ IdleTimeout \/ Return
  \/ \E s \in Supervisors :
       InstallHandler(s) \/ Completes(s) \/ PollAgain(s) \/ TotalTimeout(s) \/ Kill(s)
  \/ HandleTerm \/ CustomHandlesTerm

\* The steps of a built-in adapter outside of run_captured.
Adapt == StartModel \/ AdapterAnswers

Environment ==
  \/ ModelEnds \/ CustomEnds \/ CustomWrites \/ StartHelper \/ HelperEnds \/ TouchRoots
  \/ \E signal \in {"SIGTERM", "Ctrl+C"} : Interrupt(signal)

Next == Supervise \/ Adapt \/ Tick \/ Sleep \/ Environment

Spec == Init /\ [][Next]_vars

\* gapctl and the clock go on; a child need not do anything.
FairSpec == Spec /\ WF_vars(Supervise) /\ WF_vars(Tick)

-----------------------------------------------------------------------------

TypeOK ==
  /\ kind \in Kinds
  /\ pc \in [Supervisors -> {"off", "ready", "launched", "wait", "term", "kill", "check", "done"}]
  /\ why \in [Supervisors -> {"none", "total", "idle", "signal"}]
  /\ left \in [Supervisors -> Nat] /\ poll \in [Supervisors -> 0 .. PollTicks]
  /\ grace \in [Supervisors -> 0 .. GraceTicks] /\ idle \in 0 .. IdleLimit
  /\ alive \subseteq Processes /\ pending \in BOOLEAN
  /\ attempt \in Nat /\ attempt <= AttemptsOf[kind]
  /\ answer \in {"none", "good", "off", "failed"}
  /\ code \in {"none", "answer", "timeout", "error"}
  /\ wrote \in BOOLEAN /\ roots \in {"before", "touched"}
  /\ outcome \in {"none", "answer", "timeout", "idle", "interrupted", "model timeout", "error",
                  "mutation", "killed"}
  /\ signals \in 0 .. MaxSignals
  /\ silence \in Nat /\ own \in 0 .. Headroom /\ slept \in BOOLEAN /\ late \in BOOLEAN
  /\ excuses \subseteq {"ignored", "unguarded", "twice"}

\* When a call has ended, however it ended, neither adapter nor model is left
\* running, unless a model ignored SIGTERM, a signal fell between the start of
\* a child and the installation of the handler, or a signal cut a cleanup
\* short.
NobodyLeftBehind ==
  pc["gapctl"] = "done" /\ alive \cap {"adapter", "model"} # {} => excuses # {}

\* A call whose processes changed the protected roots before it compared them
\* says so, and an answer is returned only when adapter and model are gone.
TouchesReported ==
  pc["gapctl"] = "done" =>
    /\ roots = "touched" /\ ~late /\ outcome # "killed" => outcome = "mutation"
    /\ outcome = "answer" => alive \cap {"adapter", "model"} = {}

\* The idle deadline ends a call only after the whole idle time without
\* output, and no call stays silent for longer than that and one poll.
IdleDeadlineKept ==
  /\ why["gapctl"] = "idle" /\ ~slept => silence >= IdleLimit
  /\ pc["gapctl"] = "wait" /\ ~Builtin => silence <= IdleLimit + PollTicks

\* The outer deadline stops a built-in adapter only when it has used up its
\* headroom, by its own work and by the grace periods of a model it stops: an
\* adapter that leaves room for these reports a model that hangs itself, and
\* has reaped it.
ModelTimeoutsReported ==
  why["gapctl"] = "total" /\ Builtin /\ ~slept => own = Headroom

Most(a, b) == IF a <= b THEN b ELSE a

\* The ticks that a call may still take.
Rest ==
  IF pc["gapctl"] \in {"ready", "launched"} THEN CallLimit + 2 * GraceTicks
  ELSE IF pc["gapctl"] = "wait"
       THEN Most(left["gapctl"], poll["gapctl"]) + 2 * GraceTicks
  ELSE IF pc["gapctl"] = "term" THEN grace["gapctl"] + GraceTicks
  ELSE IF pc["gapctl"] = "kill" THEN grace["gapctl"]
  ELSE 0

\* Every tick is one less for the call and nothing gives it time back, whatever
\* its processes write and whoever interrupts it: it takes no longer than its
\* time limit and two grace periods, even if the machine sleeps meanwhile.
TimeRunsOut == [][Rest' <= Rest /\ (Tick => Rest' < Rest)]_vars

\* Whatever adapter, model and helper do, the call ends.
EveryCallEnds == <>(pc["gapctl"] = "done")
=============================================================================
