------------------------------ MODULE AgentPool ------------------------------
(***************************************************************************)
(* The in-process sub-agent pool of core/agents/agent-pool.ts: concurrency *)
(* slots handed over as leases, the FIFO of slot waiters, the life of one  *)
(* delegateTask call from registration to its terminal event, and every    *)
(* way it can be stopped: cancelTask, abort of the caller's signal, the    *)
(* hard and idle timers, the turn/token budget and dispose().              *)
(*                                                                         *)
(* JavaScript runs one callback at a time, so an action is the code        *)
(* between two awaits; what another callback may do at an await is an      *)
(* interleaved action.  The child AgentSession is modelled from            *)
(* AgentSession.prompt and the agent loop: a preflight with awaits, then   *)
(* runs, each with an abort signal of its own.                             *)
(***************************************************************************)
EXTENDS Naturals, Sequences, FiniteSets, FiniteSetsExt

CONSTANTS
    Tasks,            \* the agent ids delegate_task may be given
    MaxConcurrency,   \* slots of the pool
    MaxRecords,       \* MAX_RETAINED_AGENT_RECORDS
    Graceful,         \* ids run with cancelStrategy "graceful"
    MaxTools,         \* bound: tool calls of one child in flight at once
    MaxMessages       \* bound: control messages of one task not yet consumed

ASSUME PoolAssumption ==
    /\ IsFiniteSet(Tasks)
    /\ MaxConcurrency \in Nat \ {0}
    /\ MaxRecords \in Nat
    /\ Graceful \subseteq Tasks
    /\ MaxTools \in Nat
    /\ MaxMessages \in Nat

VARIABLES
    pc,           \* where each delegateTask call is suspended
    job,          \* the local variables of each delegateTask call
    activeCount,  \* activeCountValue
    leases,       \* tasks that hold a slot they have not released
    waiters,      \* FIFO of suspended acquire() calls
    disposed,
    status,       \* record.snapshot.status, "none" when there is no record
    finals        \* history: terminal events emitted since registration

slotVars == <<activeCount, leases, waiters>>
recordVars == <<status, finals>>
vars == <<pc, job, activeCount, leases, waiters, disposed, status, finals>>

-----------------------------------------------------------------------------
(* Phases of one delegateTask call, statuses and local variables.          *)

QueuePhases == {"waiting", "granted", "claimed", "rejected"}
SetupPhases == {"opening", "creating"}            \* slot held, no child yet
ChildPhases == {"draining", "preflight", "running", "settling", "settled"}
ExecPhases  == SetupPhases \cup ChildPhases       \* the hard timer is armed
SlotPhases  == {"granted", "claimed"} \cup ExecPhases
Phases      == {"idle"} \cup QueuePhases \cup ExecPhases

TerminalStatus == {"completed", "failed", "cancelled", "timed_out"}
Statuses == {"none", "starting", "running"} \cup TerminalStatus
StopReasons == {"none", "stop", "error", "aborted"}

Job == [waitAborted : BOOLEAN,      \* waitAbortController.signal.aborted
        parentAborted : BOOLEAN,    \* signal.aborted of the caller
        cancelRequested : BOOLEAN,  \* cancellationRequested
        timedOut : BOOLEAN,
        budgetExceeded : BOOLEAN,
        pendingGraceful : BOOLEAN,  \* pendingGracefulCancellation
        tools : 0..MaxTools,        \* activeTools
        pending : 0..MaxMessages,   \* activeTask.pendingMessages
        draining : 0..MaxMessages,  \* spliced, not yet handed to the child
        queue : 0..MaxMessages,     \* steering and follow-up queues of the child
        aborted : BOOLEAN,          \* abort signal of the child's current run
        stop : StopReasons]         \* stopReason of the last assistant message

FreshJob == [waitAborted |-> FALSE, parentAborted |-> FALSE,
             cancelRequested |-> FALSE, timedOut |-> FALSE,
             budgetExceeded |-> FALSE, pendingGraceful |-> FALSE,
             tools |-> 0, pending |-> 0, draining |-> 0, queue |-> 0,
             aborted |-> FALSE, stop |-> "none"]

Active(t)   == pc[t] # "idle"                      \* activeTasks.has(t)
HasChild(t) == pc[t] \in ChildPhases
Records     == {t \in Tasks : status[t] # "none"}  \* keys of taskRecords
Waiting     == {waiters[i] : i \in DOMAIN waiters}
Messages(t) == job[t].pending + job[t].draining + job[t].queue

Init ==
    /\ pc = [t \in Tasks |-> "idle"]
    /\ job = [t \in Tasks |-> FreshJob]
    /\ activeCount = 0
    /\ leases = {}
    /\ waiters = <<>>
    /\ disposed = FALSE
    /\ status = [t \in Tasks |-> "none"]
    /\ finals = [t \in Tasks |-> 0]

-----------------------------------------------------------------------------
(* Slots.                                                                  *)

\* Mutant: the hand-over forgets to claim the slot for the waiter.
ReleaseWithoutClaim(t, p) ==
    LET live    == {i \in DOMAIN waiters : ~job[waiters[i]].waitAborted}
        granted == IF live # {} THEN {waiters[Min(live)]} ELSE {}
    IN  /\ activeCount' = activeCount - 1
        /\ leases' = (leases \ {t}) \cup granted
        /\ waiters' = IF granted = {} THEN waiters ELSE Tail(waiters)
        /\ pc' = [u \in Tasks |-> IF u \in granted THEN "granted" ELSE p[u]]

\* Mutant: the waiters are a stack.
ReleaseToLatest(t, p) ==
    LET n       == Len(waiters)
        granted == IF n > 0 THEN {waiters[n]} ELSE {}
    IN  /\ activeCount' = IF n > 0 THEN activeCount ELSE activeCount - 1
        /\ leases' = (leases \ {t}) \cup granted
        /\ waiters' = IF n > 0 THEN SubSeq(waiters, 1, n - 1) ELSE waiters
        /\ pc' = [u \in Tasks |-> IF u \in granted THEN "granted" ELSE p[u]]

\* release(): give the slot back, then hand it to the first waiter whose
\* signal is not aborted; aborted waiters met on the way are rejected.
\* p holds the phases the releasing step has already set.
Release(t, p) ==
    LET free    == IF activeCount = 0 THEN 0 ELSE activeCount - 1
        loop    == free < MaxConcurrency /\ waiters # <<>>
        live    == {i \in DOMAIN waiters : ~job[waiters[i]].waitAborted}
        k       == IF live = {} THEN Len(waiters) ELSE Min(live)
        granted == IF loop /\ live # {} THEN {waiters[k]} ELSE {}
        dropped == IF loop THEN {waiters[i] : i \in 1..k} \ granted ELSE {}
    IN  /\ activeCount' = IF granted = {} THEN free ELSE free + 1
        /\ leases' = (leases \ {t}) \cup granted
        /\ waiters' = IF loop THEN SubSeq(waiters, k + 1, Len(waiters)) ELSE waiters
        /\ pc' = [u \in Tasks |-> IF u \in granted THEN "granted"
                                  ELSE IF u \in dropped THEN "rejected"
                                  ELSE p[u]]

-----------------------------------------------------------------------------
(* The end of a delegateTask call.                                         *)

\* emitTerminal, then the finally block: timers, listener and child go, the
\* task leaves activeTasks and its slot is released.
Finish(t, final) ==
    /\ status' = [status EXCEPT ![t] = final]
    /\ finals' = [finals EXCEPT ![t] = @ + 1]
    /\ job' = [job EXCEPT ![t] = FreshJob]
    /\ IF t \in leases
       THEN Release(t, [pc EXCEPT ![t] = "idle"])
       ELSE /\ pc' = [pc EXCEPT ![t] = "idle"]
            /\ UNCHANGED slotVars
    /\ UNCHANGED disposed

\* Status of a call that throws (catch block).
CatchStatus(t) ==
    IF job[t].timedOut THEN "timed_out"
    ELSE IF job[t].parentAborted \/ job[t].cancelRequested THEN "cancelled"
    ELSE "failed"

\* Mutant: the child's stop reason is reported as the task's status.
ResultStatusIsStopReason(t) == IF job[t].timedOut THEN "timed_out" ELSE job[t].stop

\* Status of a call whose child.prompt returned.
ResultStatus(t) ==
    IF job[t].timedOut THEN "timed_out"
    ELSE IF job[t].budgetExceeded THEN "failed"
    ELSE IF job[t].cancelRequested \/ job[t].stop = "aborted" THEN "cancelled"
    ELSE IF job[t].stop = "error" THEN "failed"
    ELSE "completed"

-----------------------------------------------------------------------------
(* delegateTask up to its first await.                                     *)

\* Mutant: pruning does not look at what a record is still needed for.
RegisterPrunesAny(t, st, count) ==
    /\ t \notin Records
    /\ \E victims \in SUBSET Records :
         /\ Cardinality(victims) = Max({0, Cardinality(Records) + 1 - MaxRecords})
         /\ status' = [u \in Tasks |-> IF u = t THEN st
                                       ELSE IF u \in victims THEN "none" ELSE status[u]]
         /\ finals' = [finals EXCEPT ![t] = count]

\* registerTaskRecord and pruneTaskRecords: an id that has a record is
\* refused; beyond the limit, terminal records of inactive tasks go (the
\* code takes the oldest; which ones is left open here).
Register(t, st, count) ==
    LET prunable == {u \in Records : ~Active(u) /\ status[u] \in TerminalStatus}
        excess   == Cardinality(Records) + 1 - MaxRecords
    IN  /\ t \notin Records
        /\ \E victims \in SUBSET prunable :
             /\ IF excess <= Cardinality(prunable)
                THEN Cardinality(victims) = Max({0, excess})
                ELSE victims = prunable
             /\ status' = [u \in Tasks |-> IF u = t THEN st
                                           ELSE IF u \in victims THEN "none"
                                           ELSE status[u]]
             /\ finals' = [u \in Tasks |-> IF u = t THEN count
                                           ELSE IF u \in victims THEN 0
                                           ELSE finals[u]]

\* invalid_task and profile_not_found: recorded and reported, never active.
DelegateRefused(t) ==
    /\ Register(t, "failed", 1)
    /\ UNCHANGED <<pc, job, slotVars, disposed>>

\* delegateTask up to the await of acquire(): refused when the pool is
\* disposed or the caller's signal is already aborted, claims a free slot,
\* or joins the waiters.
Delegate(t, parentAborted) ==
    /\ Register(t, "starting", 0)
    /\ job' = [job EXCEPT ![t] = [FreshJob EXCEPT !.parentAborted = parentAborted,
                                                  !.waitAborted = parentAborted,
                                                  !.cancelRequested = parentAborted]]
    /\ IF disposed \/ parentAborted
       THEN pc' = [pc EXCEPT ![t] = "rejected"] /\ UNCHANGED slotVars
       ELSE IF activeCount < MaxConcurrency
       THEN /\ pc' = [pc EXCEPT ![t] = "claimed"]
            /\ activeCount' = activeCount + 1
            /\ leases' = leases \cup {t}
            /\ UNCHANGED waiters
       ELSE /\ pc' = [pc EXCEPT ![t] = "waiting"]
            /\ waiters' = Append(waiters, t)
            /\ UNCHANGED <<activeCount, leases>>
    /\ UNCHANGED disposed

-----------------------------------------------------------------------------
(* From the slot to the child's prompt.                                    *)

\* acquire() resumes in the waiter a slot was handed to; the lease goes back
\* if the pool was disposed or the wait aborted since.
AcquireResumes(t) ==
    /\ pc[t] = "granted"
    /\ IF disposed \/ job[t].waitAborted
       THEN Release(t, [pc EXCEPT ![t] = "rejected"])
       ELSE pc' = [pc EXCEPT ![t] = "claimed"] /\ UNCHANGED slotVars
    /\ UNCHANGED <<job, disposed, recordVars>>

\* acquire() rejected: the catch block and the finally block, no slot held.
AcquireRejected(t) ==
    /\ pc[t] = "rejected"
    /\ Finish(t, CatchStatus(t))

\* Mutant: no check for an abort that came with the slot.
BeginUnchecked(t) ==
    /\ pc[t] = "claimed"
    /\ pc' = [pc EXCEPT ![t] = "creating"]
    /\ status' = [status EXCEPT ![t] = "running"]
    /\ UNCHANGED <<job, slotVars, disposed, finals>>

\* acquire() returned: arm the timers, check for an abort, mark the record
\* running and open the tmux transcript (or go on to createSession).
Begin(t) ==
    /\ pc[t] = "claimed"
    /\ IF job[t].waitAborted \/ job[t].parentAborted \/ disposed
       THEN Finish(t, CatchStatus(t))
       ELSE /\ pc' \in {[pc EXCEPT ![t] = "opening"], [pc EXCEPT ![t] = "creating"]}
            /\ status' = [status EXCEPT ![t] = "running"]
            /\ UNCHANGED <<job, slotVars, disposed, finals>>

\* terminalRuntime.open settles; a failure is only a diagnostic.
TerminalOpened(t) ==
    /\ pc[t] = "opening"
    /\ pc' = [pc EXCEPT ![t] = "creating"]
    /\ UNCHANGED <<job, slotVars, disposed, recordVars>>

\* After the pending messages: a timeout or an abort of the caller's signal
\* ends the call, otherwise subscribe and call child.prompt.
Launch(t) ==
    IF job[t].timedOut \/ job[t].parentAborted
    THEN Finish(t, CatchStatus(t))
    ELSE /\ pc' = [pc EXCEPT ![t] = "preflight"]
         /\ UNCHANGED <<job, slotVars, disposed, recordVars>>

\* createSession resolves: the child is published, the pending messages are
\* spliced out and the first one is handed to it.
SessionCreated(t) ==
    /\ pc[t] = "creating"
    /\ IF job[t].pending = 0
       THEN Launch(t)
       ELSE /\ pc' = [pc EXCEPT ![t] = "draining"]
            /\ job' = [job EXCEPT ![t].draining = job[t].pending - 1,
                                  ![t].pending = 0,
                                  ![t].queue = @ + 1]
            /\ UNCHANGED <<slotVars, disposed, recordVars>>

\* createSession rejects.
SessionFailed(t) ==
    /\ pc[t] = "creating"
    /\ Finish(t, CatchStatus(t))

\* child.steer or child.followUp settles; the next message, or the launch.
MessageDrained(t) ==
    /\ pc[t] = "draining"
    /\ IF job[t].draining = 0
       THEN Launch(t)
       ELSE /\ job' = [job EXCEPT ![t].draining = @ - 1, ![t].queue = @ + 1]
            /\ UNCHANGED <<pc, slotVars, disposed, recordVars>>

\* child.steer rejects a message that names an extension command.
MessageRefused(t) ==
    /\ pc[t] = "draining"
    /\ Finish(t, CatchStatus(t))

-----------------------------------------------------------------------------
(* The child session.                                                      *)

\* AgentSession.prompt ends in its preflight: it throws (no model, no
\* credentials), or an extension handles the input and no run happens.
PreflightEnds(t) ==
    /\ pc[t] = "preflight"
    /\ \/ Finish(t, CatchStatus(t))
       \/ Finish(t, ResultStatus(t))

\* The preflight's awaits are over: agent.prompt starts a run, which has a
\* fresh abort signal.
RunStarts(t) ==
    /\ pc[t] = "preflight"
    /\ pc' = [pc EXCEPT ![t] = "running"]
    /\ job' = [job EXCEPT ![t].aborted = FALSE]
    /\ UNCHANGED <<slotVars, disposed, recordVars>>

\* The loop takes a queued steering or follow-up message.
MessageTaken(t) ==
    /\ pc[t] = "running"
    /\ job[t].queue > 0
    /\ job' = [job EXCEPT ![t].queue = @ - 1]
    /\ UNCHANGED <<pc, slotVars, disposed, recordVars>>

\* tool_execution_start
ToolStarts(t) ==
    /\ pc[t] = "running"
    /\ job[t].tools < MaxTools
    /\ job' = [job EXCEPT ![t].tools = @ + 1]
    /\ UNCHANGED <<pc, slotVars, disposed, recordVars>>

\* Mutant: the end of the last tool forgets the pending cancellation.
ToolEndsForgets(t) ==
    /\ pc[t] = "running"
    /\ job[t].tools > 0
    /\ job' = [job EXCEPT ![t].tools = @ - 1]
    /\ UNCHANGED <<pc, slotVars, disposed, recordVars>>

\* tool_execution_end: a pending graceful cancellation aborts the run with
\* the last tool.
ToolEnds(t) ==
    /\ pc[t] = "running"
    /\ job[t].tools > 0
    /\ LET last == job[t].pendingGraceful /\ job[t].tools = 1
       IN  job' = [job EXCEPT ![t].tools = @ - 1,
                              ![t].pendingGraceful = @ /\ ~last,
                              ![t].aborted = @ \/ last]
    /\ UNCHANGED <<pc, slotVars, disposed, recordVars>>

\* shouldStopAfterTurn finds the turn or token budget used up.
BudgetStops(t) ==
    /\ pc[t] = "running"
    /\ job[t].tools = 0
    /\ pc' = [pc EXCEPT ![t] = "settling"]
    /\ job' = [job EXCEPT ![t].budgetExceeded = TRUE, ![t].stop = "stop"]
    /\ UNCHANGED <<slotVars, disposed, recordVars>>

\* agent_end: the loop stops by itself once both queues are drained, on a
\* provider error, or because its signal was aborted.
RunEnds(t) ==
    /\ pc[t] = "running"
    /\ job[t].tools = 0
    /\ \E reason \in StopReasons \ {"none"} :
         /\ reason = "stop" => job[t].queue = 0
         /\ reason = "aborted" => job[t].aborted
         /\ job' = [job EXCEPT ![t].stop = reason]
    /\ pc' = [pc EXCEPT ![t] = "settling"]
    /\ UNCHANGED <<slotVars, disposed, recordVars>>

\* _handlePostAgentRun: queued messages start another run.
RunSettles(t) ==
    /\ pc[t] = "settling"
    /\ IF job[t].queue > 0
       THEN /\ pc' = [pc EXCEPT ![t] = "running"]
            /\ job' = [job EXCEPT ![t].aborted = FALSE, ![t].queue = @ - 1]
       ELSE pc' = [pc EXCEPT ![t] = "settled"] /\ UNCHANGED job
    /\ UNCHANGED <<slotVars, disposed, recordVars>>

\* child.prompt returned.
PromptReturns(t) ==
    /\ pc[t] = "settled"
    /\ Finish(t, ResultStatus(t))

-----------------------------------------------------------------------------
(* Stopping and steering a task from outside.                              *)

\* child.agent.abort(): without a run in progress it does nothing.
Aborted(t) == job[t].aborted \/ pc[t] = "running"

\* stopForTimeout, from the hard timer or the idle timer.
TimerFires(t) ==
    /\ pc[t] \in ExecPhases
    /\ ~job[t].timedOut
    /\ job' = [job EXCEPT ![t].timedOut = TRUE,
                          ![t].pendingGraceful = FALSE,
                          ![t].aborted = IF HasChild(t) THEN Aborted(t) ELSE @,
                          ![t].waitAborted = @ \/ ~HasChild(t)]
    /\ UNCHANGED <<pc, slotVars, disposed, recordVars>>

\* Mutant: the graceful strategy is ignored.
CancelledAtOnce(t) ==
    [job[t] EXCEPT !.cancelRequested = TRUE,
                   !.waitAborted = @ \/ ~HasChild(t),
                   !.aborted = Aborted(t)]

\* cancelChild: abort the wait when there is no child, wait for the running
\* tools under the graceful strategy, else abort the child's run.
Cancelled(t) ==
    LET j == [job[t] EXCEPT !.cancelRequested = TRUE]
    IN  IF ~HasChild(t) THEN [j EXCEPT !.waitAborted = TRUE]
        ELSE IF t \in Graceful /\ job[t].tools > 0 THEN [j EXCEPT !.pendingGraceful = TRUE]
        ELSE [j EXCEPT !.aborted = Aborted(t)]

\* Mutant: the aborted waiter is rejected but stays in the queue.
LeaveQueueStays(t) ==
    /\ pc' = IF t \in Waiting THEN [pc EXCEPT ![t] = "rejected"] ELSE pc
    /\ UNCHANGED waiters

\* The abort listener of acquire(): a waiter leaves the queue and is rejected.
LeaveQueue(t) ==
    IF t \in Waiting
    THEN LET i == CHOOSE i \in DOMAIN waiters : waiters[i] = t
         IN  /\ waiters' = SubSeq(waiters, 1, i - 1) \o SubSeq(waiters, i + 1, Len(waiters))
             /\ pc' = [pc EXCEPT ![t] = "rejected"]
    ELSE UNCHANGED <<waiters, pc>>

\* Mutant: cancelling reports the end of the task, which reports it again.
CancelTaskReports(t) ==
    /\ Active(t)
    /\ job' = [job EXCEPT ![t] = Cancelled(t)]
    /\ LeaveQueue(t)
    /\ finals' = [finals EXCEPT ![t] = @ + 1]
    /\ UNCHANGED <<activeCount, leases, disposed, status>>

\* cancelTask, agent_control cancel
CancelTask(t) ==
    /\ Active(t)
    /\ job' = [job EXCEPT ![t] = Cancelled(t)]
    /\ LeaveQueue(t)
    /\ UNCHANGED <<activeCount, leases, disposed, recordVars>>

\* The caller's signal is aborted; the listener fires once.
ParentAborts(t) ==
    /\ Active(t)
    /\ ~job[t].parentAborted
    /\ job' = [job EXCEPT ![t] = [Cancelled(t) EXCEPT !.parentAborted = TRUE]]
    /\ LeaveQueue(t)
    /\ UNCHANGED <<activeCount, leases, disposed, recordVars>>

\* Mutant: the child is published only after the pending messages.
SendAgentMessageLate(t) ==
    /\ Active(t)
    /\ Messages(t) < MaxMessages
    /\ job' = IF HasChild(t) /\ pc[t] # "draining" THEN [job EXCEPT ![t].queue = @ + 1]
              ELSE [job EXCEPT ![t].pending = @ + 1]
    /\ UNCHANGED <<pc, slotVars, disposed, recordVars>>

\* sendAgentMessage: kept while there is no child, else queued in the child.
SendAgentMessage(t) ==
    /\ Active(t)
    /\ Messages(t) < MaxMessages
    /\ job' = IF HasChild(t) THEN [job EXCEPT ![t].queue = @ + 1]
              ELSE [job EXCEPT ![t].pending = @ + 1]
    /\ UNCHANGED <<pc, slotVars, disposed, recordVars>>

\* Mutant: the waiters are dropped without being rejected.
DisposeForgetsWaiters ==
    /\ ~disposed
    /\ disposed' = TRUE
    /\ waiters' = <<>>
    /\ UNCHANGED <<pc, job, activeCount, leases, recordVars>>

\* dispose(): reject every waiter, cancel every active task.
Dispose ==
    /\ ~disposed
    /\ disposed' = TRUE
    /\ waiters' = <<>>
    /\ pc' = [t \in Tasks |-> IF t \in Waiting THEN "rejected" ELSE pc[t]]
    /\ job' = [t \in Tasks |-> IF Active(t) THEN Cancelled(t) ELSE job[t]]
    /\ UNCHANGED <<activeCount, leases, recordVars>>

-----------------------------------------------------------------------------

Next ==
    \/ \E t \in Tasks :
         \/ DelegateRefused(t)
         \/ \E parentAborted \in BOOLEAN : Delegate(t, parentAborted)
         \/ AcquireResumes(t) \/ AcquireRejected(t) \/ Begin(t) \/ TerminalOpened(t)
         \/ SessionCreated(t) \/ SessionFailed(t) \/ MessageDrained(t) \/ MessageRefused(t)
         \/ PreflightEnds(t) \/ RunStarts(t) \/ MessageTaken(t) \/ ToolStarts(t)
         \/ ToolEnds(t) \/ BudgetStops(t) \/ RunEnds(t) \/ RunSettles(t)
         \/ PromptReturns(t) \/ TimerFires(t) \/ CancelTask(t) \/ ParentAborts(t)
         \/ SendAgentMessage(t)
    \/ Dispose

Spec == Init /\ [][Next]_vars

\* Every promise the call awaits settles: the event loop runs continuations,
\* and terminalRuntime.open, createSession and the preflight answer.
Awaits(t) ==
    \/ AcquireResumes(t) \/ AcquireRejected(t) \/ Begin(t) \/ TerminalOpened(t)
    \/ SessionCreated(t) \/ SessionFailed(t) \/ MessageDrained(t)
    \/ PreflightEnds(t) \/ RunStarts(t) \/ RunSettles(t) \/ PromptReturns(t)

\* An aborted run stops: tools and providers receive the signal.
AbortedRunEnds(t) == job[t].aborted /\ (ToolEnds(t) \/ RunEnds(t))

\* Child runs end by themselves (the provider answers, the model stops).
FairSpec ==
    /\ Spec
    /\ \A t \in Tasks : WF_vars(Awaits(t)) /\ SF_vars(ToolEnds(t)) /\ SF_vars(RunEnds(t))

\* Nothing makes a child run end except an abort; the hard timer always fires.
TimerSpec ==
    /\ Spec
    /\ \A t \in Tasks : /\ WF_vars(Awaits(t))
                        /\ WF_vars(TimerFires(t))
                        /\ SF_vars(AbortedRunEnds(t))

-----------------------------------------------------------------------------
(* Properties.                                                             *)

\* Every variable keeps its type; a lease is held by a task.
TypeOK ==
    /\ pc \in [Tasks -> Phases]
    /\ job \in [Tasks -> Job]
    /\ activeCount \in Nat
    /\ leases \in SUBSET Tasks
    /\ waiters \in Seq(Tasks)
    /\ disposed \in BOOLEAN
    /\ status \in [Tasks -> Statuses]
    /\ finals \in [Tasks -> Nat]

\* claimSlot/release keep activeCountValue equal to the number of leases that
\* are out, never above maxConcurrency, whatever mix of hand-overs, aborts
\* during a hand-over, timeouts and disposal happens; and exactly the calls
\* between acquire() and their finally block hold one.
SlotsConserved ==
    /\ activeCount = Cardinality(leases)
    /\ activeCount <= MaxConcurrency
    /\ leases = {t \in Tasks : pc[t] \in SlotPhases}

\* acquire/release never leave a task waiting while a slot is free: a waiter
\* in the queue means that every slot is taken.
NoStrandedWaiter == waiters # <<>> => activeCount = MaxConcurrency

\* The queue holds exactly the calls suspended in acquire(), once each, and
\* none whose wait was aborted: the abort listener always takes it out.
QueueIsExact ==
    /\ Waiting = {t \in Tasks : pc[t] = "waiting"}
    /\ \A i, j \in DOMAIN waiters : waiters[i] = waiters[j] => i = j
    /\ \A t \in Waiting : ~job[t].waitAborted

\* emitTerminal runs exactly once for a registered task: a record is terminal
\* iff its one terminal event was emitted, and never while the task is active.
OneTerminalEvent ==
    \A t \in Tasks : /\ status[t] \in TerminalStatus <=> finals[t] = 1
                     /\ finals[t] <= 1
                     /\ Active(t) => finals[t] = 0

\* pruneTaskRecords never drops the record of a task that is still active, so
\* its id cannot be registered a second time and agent_control still finds it.
PruneKeepsActive == \A t \in Tasks : Active(t) => t \in Records

\* A message accepted by sendAgentMessage before the child existed is in the
\* child's queues before its prompt starts; none stays behind in pendingMessages.
NoStrandedMessage ==
    \A t \in Tasks : HasChild(t) =>
        /\ job[t].pending = 0
        /\ pc[t] # "draining" => job[t].draining = 0

\* A graceful cancellation that waits for tools is never forgotten: while it
\* is pending a tool of the current run is still active.
GracefulNotForgotten ==
    \A t \in Tasks : job[t].pendingGraceful => pc[t] = "running" /\ job[t].tools > 0

\* Under cancelStrategy "graceful" only a timeout aborts a run while a tool
\* is active.
GracefulSparesTools ==
    [][\A t \in Graceful : ~job[t].aborted /\ job'[t].aborted /\ job'[t].tools > 0
                              => job'[t].timedOut]_vars

\* A task cancelled, or whose caller's signal is aborted, before it starts to
\* execute never gets a child: it goes from the queue to its terminal event.
QueuedCancelIsFinal ==
    [][\A t \in Tasks : pc[t] \in QueuePhases /\ job[t].cancelRequested
                              => pc'[t] \in QueuePhases \cup {"idle"}]_vars

\* Every delegateTask call returns, queued ones included, if child runs end.
EveryDelegationEnds == \A t \in Tasks : Active(t) ~> ~Active(t)

\* timeoutMs is "Final wall-clock limit once the task acquires a pool slot":
\* a task that executes ends even if its child's run never would.
HardLimitEnds == \A t \in Tasks : pc[t] \in ExecPhases ~> ~Active(t)

\* A task that was cancelled does not start to run its child.
CancelledChildNeverRuns ==
    [][\A t \in Tasks : pc[t] = "preflight" /\ pc'[t] = "running"
                              => ~job[t].cancelRequested]_vars

\* _handlePostAgentRun: "The agent loop drains both queues before emitting
\* agent_end."
QueuesDrainedAtAgentEnd ==
    [][\A t \in Tasks : pc[t] = "running" /\ pc'[t] = "settling"
                              => job'[t].queue = 0]_vars

\* acquire() and release() are a fair counting semaphore: the slots are
\* granted in the order they were asked for, a newcomer overtakes no waiter,
\* a slot given back is free in no state in which somebody waits, an aborted
\* wait costs nobody else his turn, and after dispose() no slot is granted.
Sem == INSTANCE Semaphore WITH
         Slots <- MaxConcurrency, holders <- leases, waiting <- waiters, closed <- disposed
FairSlots == Sem!Spec
=============================================================================
