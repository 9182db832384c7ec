------------------------------ MODULE Workflow ------------------------------
(***************************************************************************)
(* The workflow runtime of core/workflow/workflow-runtime.ts and the       *)
(* worktree manager of worktree.ts: execute() schedules the nodes of a     *)
(* DAG, runNode() takes one node from its Git worktree to the end of its   *)
(* sub-agent, and write policies are respected across the workflows that   *)
(* run at the same time.                                                   *)
(*                                                                         *)
(* An action is the code between two awaits.  runNode() of an isolated     *)
(* node awaits its worktree before it sets the node's status, so a node    *)
(* may be launched again meanwhile: runs[n] holds every runNode() call.    *)
(***************************************************************************)
EXTENDS Naturals, Sequences, FiniteSets

CONSTANTS
    Order,           \* workflow -> its nodes in the order of the definition
    DependsOn,       \* node -> the nodes it depends on
    Condition,       \* node -> "always", "all_succeeded" or "any_failed"
    WritePolicy,     \* node -> "none", "shared" or "isolated"
    FailurePolicy,   \* node -> "fail-workflow", "continue" or "skip-dependents"
    MaxConcurrency,  \* definition.maxConcurrency
    MaxStarts        \* bound: runNode() calls for one node

Workflows == DOMAIN Order
NodesOf(w) == {Order[w][i] : i \in DOMAIN Order[w]}
Nodes == UNION {NodesOf(w) : w \in Workflows}
Owner(n) == CHOOSE w \in Workflows : n \in NodesOf(w)

\* duplicate_node_id: no node is listed twice.
OnceEach(order) == \A i, j \in DOMAIN order : order[i] = order[j] => i = j

\* assertAcyclic: some node of every set depends on no other node of it.
Acyclic == \A S \in SUBSET Nodes : S # {} => \E n \in S : DependsOn[n] \cap S = {}

ASSUME WorkflowAssumption ==
    /\ IsFiniteSet(Workflows)
    /\ \A w \in Workflows : Order[w] \in Seq(NodesOf(w)) /\ OnceEach(Order[w])
    /\ \A v, w \in Workflows : v # w => NodesOf(v) \cap NodesOf(w) = {}
    /\ \A n \in Nodes : DependsOn[n] \subseteq NodesOf(Owner(n)) \ {n}
    /\ Acyclic
    /\ \A n \in Nodes : /\ Condition[n] \in {"always", "all_succeeded", "any_failed"}
                        /\ WritePolicy[n] \in {"none", "shared", "isolated"}
                        /\ FailurePolicy[n] \in {"fail-workflow", "continue", "skip-dependents"}
    /\ MaxConcurrency \in Nat \ {0} /\ MaxStarts \in Nat \ {0}

VARIABLES
    node,      \* status of each node
    runs,      \* the runNode() calls made for each node
    ctl,       \* nodeControllers: index of the run whose controller is kept, or 0
    running,   \* the running Map of execute(): index of the run it holds, or 0
    wf,        \* status and flags of each workflow, and where execute() is suspended
    lease,     \* the worktree of each node
    queue,     \* worktree creations, in the order they are served
    disposed

vars == <<node, runs, ctl, running, wf, lease, queue, disposed>>

-----------------------------------------------------------------------------

NodeTerminal == {"completed", "failed", "timed_out", "skipped", "cancelled", "lost"}
NodeFailure  == {"failed", "timed_out", "lost"}
WorkflowTerminal == {"completed", "failed", "cancelled"}

\* A runNode() call: awaiting its worktree, its agent or its cleanup, or done.
Run == [phase : {"creating", "agent", "cleanup", "settled"},
        aborted : BOOLEAN,     \* controller.signal.aborted
        leased : BOOLEAN]      \* this call made the worktree

Idle == [pc |-> "idle", status |-> "none", cancel |-> FALSE, failure |-> FALSE, race |-> {}]

RunsOf(w)     == {<<n, k>> : n \in NodesOf(w), k \in 1..MaxStarts}
Settled(r, x) == x[1] \in DOMAIN r /\ x[2] <= Len(r[x[1]]) /\ r[x[1]][x[2]].phase = "settled"
Held(w, m)    == {<<n, m[n]>> : n \in {x \in NodesOf(w) : m[x] # 0}}   \* values of a Map
AgentRunning(n) == \E k \in DOMAIN runs[n] : runs[n][k].phase = "agent"

Init ==
    /\ node = [n \in Nodes |-> "none"]
    /\ runs = [n \in Nodes |-> <<>>]
    /\ ctl = [n \in Nodes |-> 0]
    /\ running = [n \in Nodes |-> 0]
    /\ wf = [w \in Workflows |-> Idle]
    /\ lease = [n \in Nodes |-> "none"]
    /\ queue = <<>>
    /\ disposed = FALSE

-----------------------------------------------------------------------------
(* Conditions, locks and failure policies.                                 *)

\* evaluateWorkflowCondition; expressions over outputs are left out.
ConditionHolds(n, status) ==
    CASE Condition[n] = "always" -> TRUE
      [] Condition[n] = "all_succeeded" -> \A d \in DependsOn[n] : status[d] = "completed"
      [] Condition[n] = "any_failed" -> \E d \in DependsOn[n] : status[d] \in NodeFailure

\* Mutant: a writer only keeps other writers out.
CanStartWriters(n, status) ==
    LET active == {m \in Nodes : status[m] = "running"}
    IN  WritePolicy[n] = "shared" => \A m \in active : WritePolicy[m] # "shared"

\* canStart: over the nodes of every active workflow.
CanStart(n, status) ==
    LET active == {m \in Nodes : status[m] = "running"}
    IN  CASE WritePolicy[n] = "isolated" -> TRUE
          [] WritePolicy[n] = "shared" -> \A m \in active : WritePolicy[m] = "isolated"
          [] WritePolicy[n] = "none" -> \A m \in active : WritePolicy[m] # "shared"

\* The transitive dependents of n, breadth first.
Dependents(n) ==
    LET within[i \in 0..Cardinality(Nodes)] ==
          IF i = 0 THEN {n}
          ELSE UNION {r \cup {m \in Nodes : DependsOn[m] \cap r # {}} : r \in {within[i - 1]}}
    IN  within[Cardinality(Nodes)] \ {n}

\* finishNode: a node that is over keeps its status.
Finished(status, ns, final) ==
    [n \in Nodes |-> IF n \in ns /\ status[n] \notin NodeTerminal THEN final ELSE status[n]]

\* controller.abort() for the runs in x.
Abort(r, x) ==
    [n \in Nodes |-> [k \in DOMAIN r[n] |-> IF <<n, k>> \in x
                                            THEN [r[n][k] EXCEPT !.aborted = TRUE]
                                            ELSE r[n][k]]]

Pending(w, status) == {n \in NodesOf(w) : status[n] = "pending"}

\* Mutant: only the workflow that publishes looks at its nodes again.
PublishedToNobody(x) == x

\* publish(): the executions suspended in waitForScheduleChange go on.
Published(x) == [w \in Workflows |-> IF x[w].pc = "waiting" THEN [x[w] EXCEPT !.pc = "ready"] ELSE x[w]]

-----------------------------------------------------------------------------
(* execute(): one pass over the nodes, passes until the next await.        *)

\* Mutant: a node is launched before its dependencies are over.
ReadyIgnoringRunning(s, n) ==
    /\ s.node[n] = "pending"
    /\ \A d \in DependsOn[n] : s.node[d] # "pending"

\* The node is pending and its dependencies are over.
Ready(s, n) ==
    /\ s.node[n] = "pending"
    /\ \A d \in DependsOn[n] : s.node[d] \in NodeTerminal

\* runNode() up to its first await: an isolated node stays pending until its
\* worktree is there, any other one is running and has its agent.
Launch(s, n) ==
    LET k        == Len(s.runs[n]) + 1
        isolated == WritePolicy[n] = "isolated"
        run      == [phase |-> IF isolated THEN "creating" ELSE "agent",
                     aborted |-> FALSE, leased |-> FALSE]
    IN  [s EXCEPT !.runs[n] = Append(@, run),
                  !.ctl[n] = k,
                  !.running[n] = k,
                  !.node[n] = IF isolated THEN @ ELSE "running",
                  !.queue = IF isolated THEN Append(@, <<n, k>>) ELSE @,
                  !.started = TRUE]

\* The body of the for loop.
Consider(w, s, n) ==
    IF ~Ready(s, n) THEN s
    ELSE IF ~ConditionHolds(n, s.node) THEN [s EXCEPT !.node[n] = "skipped", !.started = TRUE]
    ELSE IF \/ Cardinality(Held(w, s.running)) >= MaxConcurrency
            \/ ~CanStart(n, s.node)
            \/ Len(s.runs[n]) = MaxStarts
    THEN s
    ELSE Launch(s, n)

Over(w, s) == \A n \in NodesOf(w) : s.node[n] \in NodeTerminal
The(S) == CHOOSE x \in S : TRUE     \* the element of a singleton

\* The for loop.
Pass(w, s) ==
    LET after[i \in 0..Len(Order[w])] ==
          IF i = 0 THEN [s EXCEPT !.started = FALSE]
          ELSE The({Consider(w, p, Order[w][i]) : p \in {after[i - 1]}})
    IN  after[Len(Order[w])]

\* Passes are repeated while they only skip nodes.
Passes(w, s) ==
    LET after[i \in 0..Len(Order[w])] ==
          IF i = 0 THEN Pass(w, s)
          ELSE The({IF p.started /\ Held(w, p.running) = {} /\ ~Over(w, p) THEN Pass(w, p) ELSE p
                      : p \in {after[i - 1]}})
    IN  after[Len(Order[w])]

\* Mutant: a workflow whose nodes another one blocks is taken for stuck.
SuspendWithoutOthers(w, s) ==
    IF Held(w, s.running) # {} THEN [s EXCEPT !.pc = "racing"]
    ELSE [s EXCEPT !.node = Finished(@, Pending(w, @), "lost"), !.pc = "draining"]

\* Where the loop is suspended after its passes: Promise.race over the
\* running nodes, waitForScheduleChange while another workflow runs a node,
\* or the end, with the nodes that can never start marked lost.
Suspend(w, s) ==
    IF Held(w, s.running) # {} THEN [s EXCEPT !.pc = "racing"]
    ELSE IF ~s.started /\ \E n \in Nodes \ NodesOf(w) : s.node[n] = "running"
    THEN [s EXCEPT !.pc = "waiting"]
    ELSE [s EXCEPT !.node = Finished(@, Pending(w, @), "lost"), !.pc = "draining"]

\* One turn of the loop: a cancellation or a failure first aborts every node.
Scheduled(w, nd, x) ==
    LET stop  == x[w].cancel \/ x[w].failure
        enter == [node |-> nd, ctl |-> ctl, running |-> running, queue |-> queue, started |-> FALSE,
                  runs |-> IF stop THEN Abort(runs, Held(w, ctl)) ELSE runs, pc |-> "draining"]
    IN  The({IF Over(w, s) THEN s ELSE The({Suspend(w, p) : p \in {Passes(w, s)}}) : s \in {enter}})

Schedule(w, nd, x) ==
    \E s \in {Scheduled(w, nd, x)} :
        /\ node' = s.node /\ runs' = s.runs /\ ctl' = s.ctl /\ running' = s.running
        /\ queue' = s.queue
        /\ wf' = [(IF \E n \in Nodes : nd[n] = "pending" /\ s.node[n] = "running"
                  THEN Published(x) ELSE x)
                    EXCEPT ![w].pc = s.pc, ![w].race = Held(w, s.running)]
        /\ UNCHANGED <<lease, disposed>>

\* start(): the snapshot is published and execute() runs to its first await.
Start(w) ==
    /\ ~disposed
    /\ wf[w].pc = "idle"
    /\ Schedule(w, [n \in Nodes |-> IF n \in NodesOf(w) THEN "pending" ELSE node[n]],
                [Published(wf) EXCEPT ![w].status = "running"])

\* The loop goes on: the race has a winner, or the schedule changed.
Resume(w) ==
    /\ \/ wf[w].pc = "ready"
       \/ wf[w].pc = "racing" /\ \E x \in wf[w].race : Settled(runs, x)
    /\ Schedule(w, node, wf)

\* Promise.all(running.values())
Drained(w) == \A x \in wf[w].race : Settled(runs, x)

FinalStatus(w) ==
    IF wf[w].cancel THEN "cancelled"
    ELSE IF \E n \in NodesOf(w) : node[n] \in NodeFailure THEN "failed"
    ELSE "completed"

\* The loop is over: the status is set, and unless it is "completed" the
\* worktrees are cleaned, which is awaited.
Conclude(w) ==
    /\ wf[w].pc = "draining"
    /\ Drained(w)
    /\ wf' = IF FinalStatus(w) = "completed"
             THEN Published([wf EXCEPT ![w].status = "completed", ![w].pc = "over"])
             ELSE [wf EXCEPT ![w].status = FinalStatus(w), ![w].pc = "cleaning"]
    /\ UNCHANGED <<node, runs, ctl, running, lease, queue, disposed>>

\* cleanupLease for the nodes in ns: each active lease is "cleaned" or, when a
\* Git command or the removal fails, "cleanup_failed", which nobody retries.
Cleaned(ns) ==
    LET active == {n \in ns : lease[n] = "active"}
    IN  {[n \in Nodes |-> IF n \in active THEN outcome[n] ELSE lease[n]] :
            outcome \in [active -> {"cleaned", "cleanup_failed"}]}

\* Mutant: the worktrees of a workflow that did not succeed are kept.
CleanupSkipped(w) ==
    /\ wf[w].pc = "cleaning"
    /\ wf' = Published([wf EXCEPT ![w].pc = "over"])
    /\ UNCHANGED <<node, runs, ctl, running, lease, queue, disposed>>

\* cleanupWorkflow is done; the completion promise is resolved.
CleanupWorkflow(w) ==
    /\ wf[w].pc = "cleaning"
    /\ lease' \in Cleaned(NodesOf(w))
    /\ wf' = Published([wf EXCEPT ![w].pc = "over"])
    /\ UNCHANGED <<node, runs, ctl, running, queue, disposed>>

-----------------------------------------------------------------------------
(* runNode().                                                              *)

\* The finally block without a worktree to clean, or after it: the promise
\* settles and leaves the running Map, by the node's id.
Settle(n, k, r, c) ==
    /\ runs' = [r EXCEPT ![n][k].phase = "settled"]
    /\ ctl' = c
    /\ running' = [running EXCEPT ![n] = 0]

\* The node statuses after finishNode and, when failed, the failure policy.
AfterFinish(n, final, failed) ==
    LET w    == Owner(n)
        done == Finished(node, {n}, final)
    IN  IF ~failed \/ FailurePolicy[n] = "continue" THEN done
        ELSE IF FailurePolicy[n] = "fail-workflow"
        THEN Finished(done, Pending(w, done), "cancelled")
        ELSE Finished(done, Dependents(n) \cap Pending(w, done), "skipped")

\* finishNode, the failure policy, and the finally block of runNode().
Finish(n, k, final, failed) ==
    LET w    == Owner(n)
        stop == failed /\ FailurePolicy[n] = "fail-workflow"
    IN  \E after \in {AfterFinish(n, final, failed)},
           r \in {IF stop THEN Abort(runs, Held(w, [ctl EXCEPT ![n] = 0])) ELSE runs},
           x \in {[wf EXCEPT ![w].failure = @ \/ stop]} :
          /\ node' = after
          /\ IF runs[n][k].leased /\ after[n] # "completed"
             THEN /\ runs' = [r EXCEPT ![n][k].phase = "cleanup"]
                  /\ ctl' = [ctl EXCEPT ![n] = 0]
                  /\ wf' = x
                  /\ UNCHANGED running
             ELSE Settle(n, k, r, [ctl EXCEPT ![n] = 0]) /\ wf' = Published(x)

\* worktrees.create() is served: refused when the signal is aborted, when the
\* path or the branch exists (as it may after a failed cleanup) or when Git
\* fails, else the node gets its agent.
CreateWorktree(n, k) ==
    /\ queue # <<>> /\ Head(queue) = <<n, k>>
    /\ queue' = Tail(queue)
    /\ LET aborted == runs[n][k].aborted
       IN  \/ /\ Finish(n, k, IF aborted THEN "cancelled" ELSE "failed", ~aborted)
              /\ UNCHANGED <<lease, disposed>>
           \/ /\ ~aborted /\ lease[n] # "active"
              /\ lease' = [lease EXCEPT ![n] = "active"]
              /\ node' = [node EXCEPT ![n] = "running"]
              /\ runs' = [runs EXCEPT ![n][k].phase = "agent", ![n][k].leased = TRUE]
              /\ wf' = Published(wf)
              /\ UNCHANGED <<ctl, running, disposed>>

\* agentPool.delegateTask returns; an agent id can be used only once.
AgentEnds(n, k) ==
    /\ runs[n][k].phase = "agent"
    /\ \E result \in IF k > 1 THEN {"failed"} ELSE {"completed", "failed", "timed_out", "cancelled"} :
         Finish(n, k, result, result \in NodeFailure)
    /\ UNCHANGED <<lease, queue, disposed>>

\* cleanupNode is done.
CleanupNode(n, k) ==
    /\ runs[n][k].phase = "cleanup"
    /\ lease' \in Cleaned({n})
    /\ Settle(n, k, runs, ctl)
    /\ wf' = Published(wf)
    /\ UNCHANGED <<node, queue, disposed>>

-----------------------------------------------------------------------------
(* Cancellation and dispose().                                             *)

\* requestCancel for the workflows in ws: the workflow's signal reaches every
\* runNode() call that is under way, pending nodes are over.
RequestCancel(ws) ==
    LET open == {w \in ws : wf[w].status = "running" /\ ~wf[w].cancel}
        x    == [w \in Workflows |-> IF w \in open THEN [wf[w] EXCEPT !.cancel = TRUE] ELSE wf[w]]
    IN  /\ runs' = Abort(runs, {r \in UNION {RunsOf(w) : w \in open} :
                                  r[2] <= Len(runs[r[1]]) /\ runs[r[1]][r[2]].phase \in {"creating", "agent"}})
        /\ node' = Finished(node, UNION {Pending(w, node) : w \in open}, "cancelled")
        /\ wf' = IF open = {} THEN wf ELSE Published(x)
        /\ UNCHANGED <<ctl, running, lease, queue>>

\* workflow_cancel, monitor_stop, or the abort of the caller's signal.
CancelWorkflow(w) ==
    /\ wf[w].status = "running" /\ ~wf[w].cancel
    /\ RequestCancel({w})
    /\ UNCHANGED disposed

\* dispose(), or the rebuild of a tree navigation: every workflow is cancelled.
Dispose ==
    /\ ~disposed
    /\ disposed' = TRUE
    /\ RequestCancel(Workflows)

\* dispose() goes on when every workflow is over: the worktrees that
\* successful nodes kept are cleaned.
DisposeWorktrees ==
    /\ disposed
    /\ \A w \in Workflows : wf[w].pc \in {"idle", "over"}
    /\ \E n \in Nodes : lease[n] = "active"
    /\ lease' \in Cleaned(Nodes)
    /\ UNCHANGED <<node, runs, ctl, running, wf, queue, disposed>>

-----------------------------------------------------------------------------

Next ==
    \/ \E w \in Workflows : Start(w) \/ Resume(w) \/ Conclude(w) \/ CleanupWorkflow(w)
                            \/ CancelWorkflow(w)
    \/ \E n \in Nodes : \E k \in DOMAIN runs[n] :
         CreateWorktree(n, k) \/ AgentEnds(n, k) \/ CleanupNode(n, k)
    \/ Dispose \/ DisposeWorktrees

Spec == Init /\ [][Next]_vars

\* What does not depend on the user: continuations run, Git commands end and
\* sub-agents end (the pool's hard limit).
Progress ==
    \/ \E w \in Workflows : Conclude(w) \/ CleanupWorkflow(w)
    \/ \E n \in Nodes : \E k \in DOMAIN runs[n] :
         CleanupNode(n, k) \/ CreateWorktree(n, k) \/ AgentEnds(n, k)
    \/ DisposeWorktrees
    \/ \E w \in Workflows : Resume(w)

FairSpec == Spec /\ WF_vars(Progress)

-----------------------------------------------------------------------------
(* Properties.                                                             *)

\* Every variable keeps its type; controllers and the running Map point at
\* runNode() calls that were made.
TypeOK ==
    /\ node \in [Nodes -> NodeTerminal \cup {"none", "pending", "running"}]
    /\ \A n \in Nodes : /\ runs[n] \in Seq(Run) /\ Len(runs[n]) <= MaxStarts
                        /\ ctl[n] \in 0..Len(runs[n]) /\ running[n] \in 0..Len(runs[n])
    /\ \A w \in Workflows :
         /\ wf[w].pc \in {"idle", "ready", "racing", "waiting", "draining", "cleaning", "over"}
         /\ wf[w].status \in WorkflowTerminal \cup {"none", "running"}
    /\ lease \in [Nodes -> {"none", "active", "cleaned", "cleanup_failed"}]
    /\ disposed \in BOOLEAN

\* The shared workspace has one writer across all workflows, and nobody reads
\* it meanwhile: while the agent of a shared node works, the only other agents
\* are those of isolated nodes.
OneSharedWriter ==
    \A m, n \in Nodes :
        /\ m # n
        /\ AgentRunning(m) /\ AgentRunning(n)
        /\ WritePolicy[m] = "shared"
        => WritePolicy[n] = "isolated"

\* A node that is over, and every node of a workflow that is over, has no
\* agent at work; so a node starts only when its dependencies are quiet.
QuietWhenOver ==
    /\ \A n \in Nodes : node[n] \in NodeTerminal => ~AgentRunning(n)
    /\ \A w \in Workflows : wf[w].status \in WorkflowTerminal =>
         \A n \in NodesOf(w) : ~AgentRunning(n)
    /\ \A n \in Nodes : AgentRunning(n) => \A d \in DependsOn[n] : node[d] \in NodeTerminal

\* Two workflows that block each other's nodes are never taken for a deadlock
\* of the scheduler: no node is given up as lost.
NoFalseDeadlock == \A n \in Nodes : node[n] # "lost"

\* A workflow that ended without success has given up every worktree: each was
\* removed, or its removal was tried and is recorded as failed, so none is left
\* that its lease still calls active (cleanupNode, cleanupWorkflow).
NoWorktreeForgotten ==
    \A w \in Workflows : wf[w].pc = "over" /\ wf[w].status # "completed" =>
        \A n \in NodesOf(w) : lease[n] # "active"

\* Every workflow ends if its agents do, the ones that wait for a node of
\* another workflow included, and dispose() tries to remove every worktree.
EveryWorkflowEnds ==
    /\ \A w \in Workflows : wf[w].pc # "idle" ~> wf[w].pc = "over"
    /\ disposed ~> \A n \in Nodes : lease[n] # "active"
=============================================================================
