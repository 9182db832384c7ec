# Verification of BeauPi's coordination core

BeauPi is a coding agent: a Coordinator session that runs an agent loop, delegates
to in-process sub-agents, starts background processes and is woken by them, and
keeps all of it on a session tree in JSONL files.  This directory holds TLA+
specifications of the parts whose correctness depends on the order of events, the
TLC configurations that check them on small instances, and TLAPS proofs.

JavaScript is single threaded.  Nothing is preempted, but every `await` is a place
where other callbacks run, and most of the code's state is read before one and used
after it.  Throughout, **an action is the code between two awaits**, and whatever
the event loop may do at an await is another action.

## 1. Inventory

Paths are relative to `src/packages/coding-agent/src/core/` unless they start with
`packages/`.

| Component | State | Operations | Talks to | What is hard | What makes it correct |
|---|---|---|---|---|---|
| Agent pool `agents/agent-pool.ts` | `activeCountValue`, `waiters`, `activeTasks`, `taskRecords`, per-call locals (timers, flags, pending messages, active tools) | `delegateTask`, `acquire`/`claimSlot`/`release`, `cancelTask`, `sendAgentMessage`, `dispose`, timers, child events | child `AgentSession`, tmux terminal, tool calls of the Coordinator | hand-over of a slot to a waiter that is being aborted; cancellation at every await; messages sent before the child exists; graceful cancellation waiting for tools | slots conserved, nobody stranded, one terminal event, active records kept, every call returns |
| Background task manager `background/background-runtime.ts` | `tasks`, `wakeEvents`, `consumedEventKeys`, `operationTail`, `wakeDelivery`, `generation`, `pollTimer` | `start`, `attach`, `wait`, `logs`, `cancel`, `poll`, `initialize`, `rebuild`, `dispose`, wake delivery | Monitor runtime, process adapter, session (snapshots, wake host), reviewer model | operations queued behind slow ones; a delivery that settles after a branch switch; crash between delivery and record; review budget | no wake repeated unless the host rejected it, one delivery at a time, none missed, budget and capacity respected, poll chain alive and single |
| Background process adapter `background/process-adapter.ts` | child process handle, exit file | `spawn`, `stop`, `forceStop` | operating system | process exits between checks | a stopped process is not reported running |
| Agent session `agent-session.ts` | agent, queues, session manager, tree leaf | `prompt`, `steer`, `followUp`, `navigateTree`, retry, compaction | nearly everything | prompt's preflight awaits; leaf moves before the runtimes are rebuilt | queued messages handled, runtimes follow the branch |
| Agent and agent loop `packages/agent/src/agent.ts`, `agent-loop.ts` | messages, steering and follow-up queues, active run | `prompt`, `continue`, `abort`, `runLoop` | provider streams, tools | abort between two runs; queue drained at a turn boundary | each message handled once, every tool call answered, every run settles |
| Monitor runtime `monitor/monitor-runtime.ts` | monitor records, waiters, log cursors, poll timer | `attach`, `poll`, `wait`, `stop`, `rebuild`, `dispose` | adapters (tmux, ssh, pid), log files, session | records replaced by `rebuild` while a poll holds an old one | waiters answered, with an ended record; what ended stays ended |
| Dynamic task runtime `tasks/dynamic-task-runtime.ts` | task graph with revisions | compare-and-swap updates, rebase, review | reviewer, session | lost updates, stale review | memory agrees with the branch, patches hit the plan that was judged, no progress reverted |
| Workflow runtime `workflow/workflow-runtime.ts` | node states, write locks | run, retry, cancel | agent pool, worktrees | failure policies with nodes in flight, locks | dependencies and write policies respected, nobody works after the end, no worktree forgotten, every workflow ends |
| Privilege runtime `privilege/runtime.ts` | the pending request | request, confirm, cancel | terminal, user | confirmation racing a cancel | nothing runs unconfirmed |
| Remote runtime and client `remote/`, `remote-agent/` | connection, pending requests, frame buffer | request, reconnect, framing | SSH | responses after a timeout, split frames | each request settles once |
| Search runtime `search/search-runtime.ts` | budget, cache | search, fetch | network | budget charged across awaits | budget never exceeded |
| Session manager and storage `session-manager.ts`, `packages/agent/src/harness/session/` | entry tree, leaf, pending writes | append, branch, load, flush | files | truncated last line, write in flight at exit | tree well formed, no entry lost once flushed |
| Execution journal `execution/execution-journal.ts` | JSONL file, `revision`, chain of operations | `appendBatch`, `readAfter`, `inspect`, `repairTail` | session manager, file system | a write cut anywhere, a crash during the repair, a counter that restarts | acknowledged events stay, in order; always readable; one winner per revision within one process |
| Task ledger `state/task-ledger.ts` | projection of events | fold | UI | – | fold agrees with events |
| Playwright, documents, agent terminal | handles of external programs | sequenced I/O | external programs | – | – |
| Providers `packages/ai`, TUI and modes | – | network and rendering | – | – | – |

How they interact.  `delegate_task` and `background_*` are tools of the Coordinator's
agent loop.  The pool creates a child `AgentSession` per task and listens to its
events.  The background manager listens to the Monitor runtime, persists snapshots as
entries of the session's current branch and injects wake turns through a host object of
`AgentSession`, which queues them like any prompt.  `AgentSession.navigateTree` moves
the leaf and then asks the Monitor, the background manager and other runtimes, one
after the other, to rebuild from the new branch.

The hazards of this code, each at its line, are in `PROJECT.json` under `hazards`, with
the properties that cover them.

## 2. Modules

| Module | Content |
|---|---|
| `AgentPool` | the sub-agent pool and, as its environment, the child session's prompt and run boundaries |
| `Semaphore` | the abstract fair semaphore that the pool's `acquire`/`release` implement |
| `AgentPoolProofs` | TLAPS proofs about `AgentPool`: types, slots, queue, the refinement of `Semaphore`, events, records |
| `AgentPoolCancelProofs` | TLAPS proofs about `AgentPool`: messages and cancellation |
| `MCAgentPool` | instances of `AgentPool` for TLC |
| `BackgroundTasks` | the background task manager with the Monitor's status machine, the wake host, tree navigation, restart and disposal |
| `MCBackgroundTasks` | instances of `BackgroundTasks` for TLC |
| `BackgroundProofs` | TLAPS proofs about `BackgroundTasks` |
| `Monitor`, `MCMonitor` | the Monitor runtime: registry, poll loop, waits, stops, rebuild, restart |
| `MonitorProofs` | TLAPS proofs about `Monitor` |
| `Workflow`, `MCWorkflow` | the workflow scheduler, its nodes and the worktree manager |
| `WorkflowProofs` | TLAPS proofs about `Workflow` |
| `AgentSession`, `MCAgentSession` | the run control of a session over the agent and its loop |
| `SessionProofs` | TLAPS proofs about `AgentSession` |
| `Journal`, `MCJournal` | the execution journal over a file whose writes may be cut |
| `DurableLog` | the abstract log that `Journal` implements |
| `JournalProofs` | TLAPS proofs about `Journal`, the refinement included |
| `DynamicTasks`, `MCDynamicTasks` | the dynamic task plan, its facts and its reviewer |
| `DynamicTasksProofs` | TLAPS proofs about `DynamicTasks` |

The components are modelled one by one, each with the others as far as they touch it:
`AgentPool` contains the boundaries of a child session's runs, `BackgroundTasks` the
Monitor's status machine, `Workflow` the pool as an agent that ends, `DynamicTasks` the
session tree.  What crosses a boundary is written down there as a free choice of everything
the other side may do.

### AgentPool

`pc[t]` is where the call `delegateTask(t)` is suspended; `job[t]` its local variables.

| Phase | Suspended in |
|---|---|
| `waiting` | the promise of `acquire()`, in `waiters` |
| `granted` | the same promise, resolved by `release()` but not resumed |
| `claimed` | `acquire()` returned a lease, caller not resumed |
| `rejected` | `acquire()` rejected, catch block not run |
| `opening`, `creating` | `terminalRuntime.open`, `createSession` |
| `draining` | `child.steer`/`followUp` of messages sent before the child existed |
| `preflight` | `child.prompt` before the agent runs (no run to abort) |
| `running`, `settling`, `settled` | a run of the child, `_handlePostAgentRun`, prompt returned |

`Release` is the whole of `release()`, with the loop over aborted waiters.  `Finish` is
`emitTerminal` and the `finally` block.  `Register` is `registerTaskRecord` with its
pruning.  `CancelTask`, `ParentAborts`, `TimerFires` (hard and idle timer), `BudgetStops`,
`SendAgentMessage` and `Dispose` are the ways in from outside.  A child run's abort signal
is `job[t].aborted`: `child.agent.abort()` without a run in progress changes nothing, which
is what `Agent.abort` does.

Abstracted: which terminal record is pruned (the code takes the oldest), texts, usage
numbers, profiles, tools' names, whether a message steers or follows up, the clock (a
timer may fire in any phase in which it is armed), and the turn/token budget (it may be
used up at any turn end).  `finals` is a history variable.

### BackgroundTasks

`enqueue()` chains operations on a promise: `queue` holds the ones not started, `todo`
the remaining steps of the running one, cut at its awaits, and `conts` the continuations
of callers (`poll().then(schedulePoll)` and the like), which run outside of the chain.
`Quiescent` says that the microtask queue is drained: only then may timers, users, the
Monitor and the host act.

`mem` is the manager's memory (tasks, wake events, consumed keys), `saved` the snapshot on
the current branch; `Persist` writes both because `persist()` is synchronous.  `mon[t]` is
the status of the Monitor's record.  A log is a version number: version `n` stands for its
content and its hash, and `ErrorLogs` are the versions whose new text matches the pattern.
A wake key is task, reason, status and hash, as in the code.  `inflight` holds the calls
of `wakeHost.deliver` that have not settled, tagged with their generation and branch.

`NavigateBegins`, `Navigate` and `CallRebuild` are `navigateTree`: refused unless idle,
then the await of the branch summary, then the move of the leaf, then the await of the
Monitor's rebuild, then the background rebuild.  `Restart` is a crash at any point
followed by constructor, `bindWakeHost` and `initialize`; a delivery under way may or may
not have reached the transcript.

`wakeHost.deliver` is `sendCustomMessage`.  In trigger mode it resolves when the turn it
started has ended; in follow-up mode as soon as the message is in the agent's in-memory
queue, `followUps`, from where the loop takes it later (`FollowUpTaken`), `clearQueue` drops
it (`FollowUpsCleared`) or a crash loses it.  Which of the two a call turns out to be is
decided when it settles.  A triggered turn may also reject after its message has entered the
transcript (`DeliverRejects`, second case); `failWakeDelivery` then queues the events again.

Abstracted: the Monitor's own polling (any transition of a live record may happen),
cursor bytes, the text of wakes, the review interval (`due`), the reviewer's verdict, the
order of the follow-ups; a follow-up that was made for another branch is not counted as
received on this one.  Left out: `normalizeTriggers` throwing after the process was spawned
(`background-runtime.ts:352`), which leaves a Monitor record without a task, the state in which
`MonitorAttaches` puts one.  `accepted` (received keys), `repeated` (received again),
`refused` (received in a delivery that was rejected), `dropped` (lost from the follow-up
queue) and `reviewed` are history variables.

### Monitor

`objs[m]` are all record objects ever made for the id `m` and `cur[m]` the registered one:
`pollOnce`, `stop` and `initialize` keep an object across an await, and `rebuild` may put
another under the same id.  `Transition` is `transition()` with `persist` and
`resolveWaiters`; `Update` the events that tools, sub-agents and workflows push.  `loop` is
the running `pollOnce`, which visits the live iterator of the registry (`Unseen`), `wait[w]`
a `monitor_wait` call with its first poll, `Navigate` the `rebuild` of a tree navigation and
`Restart` the end of the process, which only leaves the branch.  Event-driven records come
in two kinds: `reporting` holds those whose owner reports on that very record.  `monitor_attach`
of a tool call that has ended, or of a sub-agent under another id (the id is a hash of the
whole target, profile and log path included), makes a record that nobody reports on.

Abstracted: the clock (a record may stall or time out whenever it is visited), log cursors,
activity, `healthy` (treated as `running`), event-driven, reported and polled ids (chosen in
`Init`).  That the sub-agent adapter may confirm `running` from a snapshot older than the end
(`monitor-runtime.ts:996`, `adapters.ts:153`) is left out: the owner's event has ended the
record by then, and an ended record is not polled; one without an owner stays live either way.

### Workflow

`execute()` is `Schedule`: the passes over the nodes up to the next await, then `Suspend`,
which says where the loop waits (`racing`, `waiting`, or the end).  `runs[n]` are the
`runNode()` calls made for a node, because an isolated node stays pending while its worktree
is created and may be launched again; `ctl` and `running` are the two Maps, keyed by node
id as in the code.  `Published` is the wake-up of other workflows in `publish()`.  Worktree
creations are served in order (`queue`), and their cleanup is awaited.  `lease[n]` is the
status of a worktree: `Cleaned` is `cleanupLease`, which removes it or, when a Git command
fails, sets `cleanup_failed`, leaves it on disk and is never repeated for it.

Abstracted: conditions over outputs, prompts, budgets, Monitor records; a sub-agent ends in
any of its statuses; a second launch of a node whose agent id is in use fails, as
`delegateTask` refuses it (in the model also when the first launch never reached
`delegateTask`, where the code would run it).  `create`'s own rollback after a failed command
is taken to succeed, and `AgentSession.dispose` (`agent-session.ts:1295`) does not await the
cleanup that `dispose()` starts: the process may end before it.

### AgentSession

A message stands for the `prompt()` or `sendCustomMessage()` call that brings it, and
`call[m].pc` is where that call is suspended.  `run` is the agent's active run with the
position of its loop, `steer` and `follow` the two queues, `sess` the flags of the session.
`last` and `saved` are the kinds of the last message in memory and in the session file,
which is what `continue()` looks at after a retry, a compaction or a reload.  `Streamed`
chooses among the answers that matter: a stop, tool calls, a truncated message, an overflow
(as an error or by its length), a retryable or final error, an abort.

Abstracted: the transcript (only which queued messages it holds), contents, thresholds of
compaction (open), the retry delay.  A host's `shouldStopAfterTurn` is `MayStop`.  Left out:
an exception of the loop itself appears only as a streamed error (`handleRunFailure`,
`packages/agent/src/agent.ts:500`), so that a throwing listener (`agent-session.ts:931`) or a
failing write of the session file (`agent-session.ts:1081`) between the drain of a queue and
the injection of its messages, which would lose them, is not covered by `ExactlyOnce`;
overflow with compaction disabled, of another model or older than the last compaction, where
`_checkCompaction` returns without dropping the message (`agent-session.ts:2563`).

### Journal

The file is its terminated lines and at most one unterminated rest; a line is an event or
text that does not parse.  `Cut` says what an interrupted write leaves, `AppendText` goes on
where the text ends, which may be in the middle of a line, and `RewriteText` is `writeFile`.
`Faults` selects the fault model: `"torn"` cuts between or inside lines, `"whole"` between
a line and its newline, `"repair"` cuts the rewriting of `repairTail` too.  `queue` is the
promise chain of `serial`; `acked`, `seen` and `won` are history variables.

### DynamicTasks

Operations run to their end inside `serial`, so an operation is one action, except for the
review (capture, answer, entry) and for navigation (the leaf moves several awaits before the
runtime is rebuilt; `navigateTree` asks whether the session is idle only at its start, so
runs and reviews may begin in between).  Reviews overlap: `reviewAfterSettled` does not ask
for one under way, and a prompt during a review settles into the next.  `inReview` holds
them all, `controller` is the one whose `AbortController` the runtime still has, which is
the only one that `abortReview` reaches; an earlier one that a rebuild finds in flight is
marked `survived`.  `snapshot` and `history` are the memory, `branch` the entries, `seen`
the plan in the coordinator's prompt, from which `expectedRevision` comes. `Accept` is
`acceptSnapshot`, `RestoredHistory` the loop of `rebuild`.

Abstracted: goal, titles, dependencies and hints are a plan's `shape`; which task a fact
matches is any candidate; blockers, activity, times and plan validation are left out.  The
set of tasks and their dependencies are fixed: an update that adds or removes tasks is
another `shape`, and a fact of a tool whose task was removed (`dynamic-task-runtime.ts:531`)
is left out.

## 3. Runs

| Run | Instance | Shows |
|---|---|---|
| `pool` | 3 tasks (one graceful), 1 slot, 2 records, 2 messages, 1 tool | all safety and action properties of the pool (about 880 000 states) |
| `pool_live` | 2 tasks, 1 slot | every call returns if child runs end |
| `wake` | 1 task, 1 log version, 1 review, 1 restart | delivery, budget and timer properties across a crash (3.3 million states) |
| `wake_branches` | 1 task, 1 log version, 2 branches, disposal | one delivery at a time across a branch switch (4.2 million states) |
| `wake_live` | 2 tasks, capacity 1 | the capacity bound, and a completion that is waited for is recorded as consumed (0.22 million states) |
| `monitor` | 1 id (polled, reported or without an owner), 2 objects, 1 wait, 1 navigation, restarts | the Monitor's properties (0.41 million states) |
| `workflow` | 2 workflows with 3 and 2 nodes, every write and failure policy | the scheduler's properties (94 000 states) |
| `session` | 2 messages, 1 retry, 2 tool calls | message, tool and settling properties (0.45 million states) |
| `journal` | 4 events in batches of up to 2, 2 queued operations, 3 processes, torn writes | the journal implements `DurableLog` (2.2 million states) |
| `dynamic_tasks` | 2 dependent tasks, 2 shapes, 1 tool, 1 report, 2 reviews, 1 navigation | recovery, overlapping reviews and rebase (2.1 million states) |
| `workflow_isolated` | 1 workflow with 2 isolated nodes | **violated**: see findings |
| `journal_newline` | `journal` with the fault `"whole"` | **violated** |

Why the bounds suffice.  Three tasks on one slot are the smallest instance in which a slot
is handed over while a further waiter exists, and in which the waiter handed to can be
aborted before it resumes; two records make pruning happen with tasks active; two messages
let one arrive while the other is drained.  The slot, queue and record properties are also
proved for all sizes.  In `BackgroundTasks`, one queued operation besides the running one
and the operations that are not limited by `MaxQueue` (`finish` and `fail` of a delivery,
`rebuild`, and the `observe` that a cancellation causes) gives every order of two external
callers; one log version, which matches the error pattern and is reviewed, puts up to three
wake keys in a delivery; one restart is one crash point anywhere.  The user's messages only
hold back a queue of progress reviews, and the clearing of the queue matters to what was
handed over: `MayType` is on in `wake`, which has both, and off in the other two.  In
`Monitor`, records of different ids meet only in the poll loop, which treats them one after the
other, so one id with two objects shows every race of an id with itself; restarts are not bounded.  The two
workflows of `workflow` block each other in both directions and reach every policy;
`MaxStarts` is 2, one relaunch.  Two messages are one under way and one that meets it; one
retry and one recovery each reach their limit. Three processes let a repair follow a
repaired file; four events, two appends of two.  Two reviews are one that is overtaken and
one that overtakes it; four accepted changes are a plan, two facts or patches and an update
that is rebased over them. `MaxQueue`, `MaxLog`, `MaxBranches`, `MaxRestarts`, `MaxTools`,
`MaxMessages`, `MaxObjects`, `MaxPolls`, `MaxNavs`, `MaxStarts`, `MaxTurns`, `MaxCalls`,
`MaxEvents`, `MaxPending`, `MaxAccepted`, `MaxSequence`, `MaxReviews` of `DynamicTasks` and
`MaxNavigations` are bounds of the model, not limits of the code.

`CHECK_DEADLOCK FALSE`: a disposed pool or manager, a session without messages, or an
instance in which every bounded resource was used, may rightly stop.

### Properties

Pool: `FairSlots` (the refinement of `Semaphore`: slots are granted in the order they were
asked for, a newcomer overtakes no waiter, none is free while somebody waits, none is granted
after `dispose()`), `SlotsConserved`, `QueueIsExact` (counter, leases and queue agree);
`OneTerminalEvent`, `PruneKeepsActive` (records); `NoStrandedMessage` (messages sent before
the child exists); `GracefulNotForgotten`, `GracefulSparesTools`, `QueuedCancelIsFinal`
(cancellation; `QueuedCancelIsFinal` ends where the slot is taken up, and
`CancelledChildNeverRuns` below shows that a cancellation in setup or preflight is not final);
`EveryDelegationEnds` (liveness).

Background: `OnceUnlessRejected` (a wake is received again only after a rejected delivery),
`OneDelivery`, `DeliveredHasOwner`, `ConsumedWasHandedOver` (what is recorded as consumed
was received, is a follow-up, or was lost as one) for the wake protocol; `ReviewBudget`,
`CapacityRespected` (bounds); `PollChain` (the timer chain is neither broken nor, on one
branch, doubled); `WakeNotMissed` (liveness: the host resolves a delivery of the wake, which
in follow-up mode is not yet a turn).

Monitor: `NoLostWakeup` and `EveryWaitEnds` (a wait is answered however the end of its
target races with it), `WaitReturnsEnded` (dispose never answers with a live record),
`EndedIsFinal` (stale answers and restarts do not revive a record).  `EveryWaitEnds` is
about records that are polled or reported on: the wait for a record without an owner ends by
its timeout, a stop or an abort only, and TLC refutes the property without this
restriction.  All of them except a navigation, which drops and replaces records without
regard to waits under way: a wait for a dropped record ends by its timeout or the user's
abort only, and a poll under way writes the entry of an object that is not registered any
more on the new branch.

Workflow: `OneSharedWriter` (across workflows), `QuietWhenOver` (no agent of a finished node
or workflow, none before its dependencies), `NoFalseDeadlock`, `NoWorktreeForgotten` (each
worktree of a workflow that did not succeed was removed, or its removal tried and recorded
as failed), `EveryWorkflowEnds` (with, after `dispose()`, an attempt to remove every
worktree).  The instance of `workflow` has one isolated node, which runs alone in its
workflow; with two, `QuietWhenOver` fails (`workflow_isolated`).

Session: `ExactlyOnce` (an accepted message is in one place, once), `LiveRequestComplete` (a
request answers every tool call before it), `EveryRunSettles`.

Journal: `SeqInOrder`, `AlwaysReadable`, `CasExclusive`, and `LogSpec`, the refinement of
`DurableLog`.  `CasExclusive` is about one process: the counter that `expectedRevision` is
compared with starts at 0 in the next one, and the history `won` starts again with it.  The run
of `LogSpec` has crashes and torn writes but no crash inside the repair (fault `"repair"`).

Dynamic tasks: `RecoveryMatchesLive` (memory is what the branch restores),
`PatchOnJudgedPlan` (no patch of a plan the reviewer has not seen, although plans of two
branches can carry the same revision; the reviews that `abortReview` misses are excepted, and
TLC refutes the property without this exception), `NoProgressReverted` (the rebase).

`TypeOK` of each module documents its state space; it is checked in the runs of the modules
that are also proved about.  Every property of a passing run has a mutant in
`PROJECT.json`: a small change of a modelled definition, of the kind an edit of the code
could make, under which TLC refutes it.

### Fairness

`FairSpec` of the pool: continuations of settled promises run, and `createSession`, the
tmux terminal and the preflight answer (weak fairness of `Awaits`); tools and runs end
(strong fairness, because messages and steering may keep interrupting them).
`TimerSpec` assumes less of the child, namely that only an aborted run ends, and that armed
timers fire.  `RunsOn` of the background manager: the operation chain and its continuations
make progress, an armed timer fires although other callbacks keep it from the front, and a
delivery settles one way or the other.  `HostSpec` adds that the host does not reject for
ever, without which no wake can be promised.

`FairSpec` of the Monitor: the interval timer fires, adapters answer, a target ends some day
and its owner, where the record has one (`reporting`), reports it; nothing is assumed of
users.  Of the workflows: Git commands and sub-agents end (they have time limits) and
continuations run; weak fairness of their disjunction, as every such step uses up work.  Of
the session: providers, tools, sleeps, compactions and reviews end; that there are finitely
many turns with tool calls (`MaxTurns`) is a bound on the model of the provider, not on
retries or recoveries, which the property is about.  Two overlapping runs (see below) are
excepted in its statement.

### Findings

* `workflow_isolated`: `runNode` sets an isolated node to `running` only after the awaited
  worktree creation.  When another node ends meanwhile, the loop of `execute()` launches the
  pending node again; the second creation throws because the path exists, so the node is
  `failed` and its failure policy is applied, while the agent of the first launch works on.
  `src/docs/beaupi/workflows.md:62` promises that isolated nodes run in parallel.
* `journal_newline`: an append cut just before its newline leaves a last line that parses.
  `parseJournalFile` accepts it, `repairTail` finds nothing to repair, the next append
  continues the line, and from then on every read and append of that journal throws
  (`session-manager.ts:1018`: "Deterministically repair an interrupted append before the
  journal is used.").

### Further disagreements

These properties state what a document or comment says, are defined in their modules, and are
refuted by TLC when they are added to a configuration with the specification and constants
given.  They have no run of their own.

| Property | Configuration | What happens, and what is said |
|---|---|---|
| `AgentPool!HardLimitEnds` | `TimerSpec`, 1 task | a timer that fires in the preflight of `child.prompt` aborts nothing and is not repeated; `agents/agent-profile.ts:20` "Final wall-clock limit once the task acquires a pool slot." |
| `AgentPool!CancelledChildNeverRuns` | `Spec`, 1 task | `cancelTask` during setup or preflight does not keep the child from running: only the timeout and the caller's signal are looked at again (`test/agent-pool.test.ts:548` "supports timeout and user cancellation while terminating the child operation") |
| `AgentPool!QueuesDrainedAtAgentEnd` | `Spec`, 1 task, 1 message | a run that ends by abort, error or budget leaves messages queued, which start another run; `agent-session.ts:1648` "The agent loop drains both queues before emitting agent_end." |
| `BackgroundTasks!BranchFactsOnly` | `Spec`, 1 task, `MaxBranches = 2` | an operation under way persists old-branch facts on the branch the leaf moved to, and `rebuild` restores them; `docs/beaupi/background-tasks.md:252` "切换分支时旧 wake delivery 失效，只恢复目标分支事实" |
| `BackgroundTasks!DisposeLeavesNoTimer` | `Spec`, 1 task, `MaxBranches = 2`, `MaxQueue = 2`, `MaxLog = 0`, `MayDispose` | `schedulePoll` overwrites an armed handle, whose timer survives `dispose()`; `docs/beaupi/plans/12-background-task-auto-wake/01-runtime-and-store.md:38` "dispose 后无 timer、无注入" |
| `BackgroundTasks!FiniteRetries` | `Spec /\ RunsOn`, 1 task | a delivery that keeps failing is repeated at every poll; `.../03-triggers-and-wake-queue.md:28` "有限重试" |
| `AgentSession!IdleIsQuiet` | `Spec`, 2 messages | two prompts pass the busy check while an extension command runs; the second is refused by the agent and clears the active flag of the first run; `packages/coding-agent/docs/extensions.md:1018` "`ctx.isIdle()` is false while Pi is processing an agent run" |
| `AgentSession!RetryAccepted` | `Spec`, 1 message | after an overflow with stop reason `length` the compacted transcript ends in an assistant message and `continue()` throws; `packages/coding-agent/docs/rpc.md:1083` "`willRetry` is `true` and the agent will automatically retry the prompt" |
| `DynamicTasks!BranchLocal` | `Spec`, 1 task, `Reported = {"running", "completed"}`, `MaxReviews = 0`, `MaxNavigations = 2` | a fact recorded between the move of the leaf and the rebuild is written on the new branch, where it extends another plan's history; `docs/beaupi/architecture.md:253` calls the plan branch-local |

Also visible in the models, where no document speaks against it: `reload` during a run keeps
that run from settling; a custom message sent during the task review is queued with no run to
take it; tool calls prepared in parallel before an abort still execute; a review that failed
counts its facts as reviewed; `repairTail` truncates the file before it writes it back, so
that a crash there loses acknowledged events (fault `"repair"`); a wake whose triggered turn
rejects after its message is in the transcript is delivered again; a wake recorded as consumed
is lost when `clearQueue` or a crash empties the follow-up queue; a `monitor_wait` on an
attached target without an owner may wait for ever; a worktree whose removal failed stays on
disk and is not tried again (`worktree.ts:228`, expected by
`packages/coding-agent/test/workflow-worktree.test.ts:49`); a task review that was overtaken by
a later one survives a navigation, and its patch may land on a plan of the other branch with
the same revision and facts.

## 4. Proofs

`AgentPoolProofs` proves, for every finite set of tasks, every number of slots, record
limit, tool and message bound (`PoolAssumption`; `maxConcurrency` is at least one because
`resolveAgentProfiles` refuses anything else and the CPU limit is at least one):

| Theorem | Property |
|---|---|
| `TypeCorrect` | `TypeOK` |
| `SlotSafety` | `SlotsConserved` |
| `NoTaskStranded` | `NoStrandedWaiter`, which `FairSlots` implies in the run |
| `SlotsAreFair` | `FairSlots`: the pool implements `Semaphore` |
| `QueueExact` | `QueueIsExact` |
| `TerminalOnce` | `OneTerminalEvent` |
| `ActiveRecorded` | `PruneKeepsActive` |

The inductive invariant `IInv` is their conjunction with `MessageBound` (the sum of a
task's messages stays within the bound, which is what `SendAgentMessage` tests while the
types speak of the single counters).  None of the parts is inductive alone:

* `Release` gives the slot to the *first* waiter because no queued waiter is aborted
  (`QueueIsExact`), and the count stays at its maximum because a waiter implies that all
  slots were taken (`NoStrandedWaiter`).  `ReleaseEffect` turns the loop of `release()`
  into these two cases; `ReleaseKeeps` then counts the leases.
* `Delegate` adds a *new* lease or a *new* queue entry only because the task was idle, and
  that follows from `PruneKeepsActive`: an active task has a record, so its id is refused.
* `Finish` moves `finals` from 0 to 1 because an active task has not reported yet.

`RemoveAt` and `RemoveFirst` are the facts about sequences: taking out one element of a
sequence without repetitions.  `JobTaskStep` types the locals, `SameSlots`,
`LeaveQueueKeeps`, `FinishKeeps`, `QuietKeeps`, `DelegateKeeps` and `DisposeKeeps` treat the
kinds of steps, and `TaskStepKeeps` has one case per action.

The refinement maps the leases to the holders, the FIFO to the waiting callers and `disposed`
to `closed`.  Each step is then a step of `Semaphore` or leaves it alone (`TaskStepRefines`):
`release()` is `Free` or `HandOver` by `ReleaseEffect`, the abort listener is `GiveUp`,
`delegateTask` is `Take` or `Wait`, `dispose()` is `Close`.  That a newcomer with a free slot
finds an empty queue is `NoStrandedWaiter`, and that it is a newcomer is `PruneKeepsActive`.

`JournalProofs` proves, for every batch size, every number of events, queued operations and
processes, and every set of faults the theorem does not exclude:

| Theorem | Excluded faults | Property |
|---|---|---|
| `TypeCorrect` | none | `TypeOK` |
| `InOrder` | none | `SeqInOrder` |
| `Readability` | `"whole"`, `"repair"` | `AlwaysReadable` and `ReadsStay` |
| `Durability` | `"whole"`, `"repair"` | `LogSpec`: the journal implements `DurableLog` |
| `CasSafe` | `"repair"` | `CasExclusive` |

The excluded faults are the ones under which TLC finds the property violated.  The inductive
invariant is `Inv == TypeOK /\ WriteInv /\ FileInv`: what is being written is numbered from
the end of what can be read (`WriteInv`), and a file that can be read is numbered from 1
(`FileInv`); neither is inductive without the other, as a cut write turns content into file.
`Readability` adds `CleanInv` (no malformed line, an unterminated rest is a torn one) and
`KeptInv` (what was acknowledged or read is in the terminated lines), since an append can only
meet a clean end of the file: `Refuses` turns it away from a torn one and no rest parses.
`Durability` maps each step to growth by a part of the written batch or to a stutter.
`CasSafe` needs `CasInv`: the revisions that have won lie below the current revision, which
in turn does not exceed the events in the file.

`AgentPoolCancelProofs` proves, also under `PoolAssumption`, what concerns the child of a
task:

| Theorem | Property |
|---|---|
| `CoherentCalls` | `ChildInv`, the invariant the others rest on |
| `NoMessageStranded` | `NoStrandedMessage` |
| `GracefulKept` | `GracefulNotForgotten` |
| `GracefulSpares` | `GracefulSparesTools` |
| `QueuedCancelFinal` | `QueuedCancelIsFinal` |

`ChildInv` says for each call which values its locals can have in its phase.  It adds to the
properties that tools run only in a run, without which a pending cancellation could outlive
its run, and that a cancellation of a queued call has aborted its wait, without which
`acquire()` could return to it.  A step of one call touches another one only through
`release()`, and there only a suspended one (`Apart`), by `QueueIsExact` of `IInv`.

`BackgroundProofs` proves, for every finite set of tasks and all limits, and with any number
of branches, restarts and failed deliveries:

| Theorem | Holds | Property |
|---|---|---|
| `SingleDelivery` | always | `OneDelivery` |
| `DeliveredOwned` | until a restart (in the property) | `DeliveredHasOwner` |
| `ChainUnbroken` | always; exactly one chain until a branch switch | `PollChain` |
| `ConsumedHandedOver` | until a branch switch (in the property) | `ConsumedWasHandedOver` |
| `ReceivedOnce` | until a branch switch | `OnceUnlessRejected` |
| `ReviewsBounded` | until a branch switch | `ReviewBudget` |
| `CapacityKept` | until a branch switch | `CapacityRespected` |

The last three are stated as `[](leaf = 1 => ...)`, which is what the runs with one branch
check: after a switch an operation under way persists the facts of the old branch on the new
one (`BranchFactsOnly`, section 3), and memory no longer tells what the branch has spent.
The inductive invariant has four parts:

* `Shape`: the types, and the form of the operation queue and of the steps left in `todo`
  (an operation's last step is the one that ends it, a start or an attachment has one step).
* `WakeInv` and `OwnerInv`: a single token stands for the delivery of the current generation,
  in the host or in the queue, and it owns the keys of every delivered event.  A switch
  increments `generation`, so that every older token is void.
* `FirstBranch`, guarded by `leaf = 1`: the branch holds what the manager holds (`NoSwitch`);
  the starts under way are of unused ids (`StartsInv`); a review is charged before it is
  made (`TasksInv`); there is room for the process being spawned, since nothing else can
  become active while its operation has the queue (`CapacityInv`); and the keys of a
  delivery were not handed over before, rejected deliveries excepted, and are not settled until
  it ends, while the follow-ups share no key with the transcript, again but for rejected ones
  (`KeysInv`); this is why neither a restart nor a late completion or follow-up repeats one.
* `PollInv`: the timer, a queued poll, an operation that will end a poll and a pending
  continuation exclude each other until a switch, and are never all absent.

`MonitorProofs` proves, for every finite set of monitors and of waits:

| Theorem | Property |
|---|---|
| `NoWakeupLost` | `NoLostWakeup` |
| `WaitAnswersEnded` | `WaitReturnsEnded` |
| `EndIsFinal` | `EndedIsFinal` |

`MonitorAssumption` keeps the name `"timer"`, which marks the polls nobody waits for, apart
from the names of the waits.  `NoLostWakeup` is kept by a step only because a registered
waiter is past its poll and is registered under the id it waits for (`WaitersWait`,
`PollsOwned`); `EndedIsFinal` needs `BranchAgrees` (until a navigation the branch has the
status of every registered object, and every object held across an await is registered), as
a restart reads the branch.

`WorkflowProofs` proves, for every set of workflows, every DAG and order of its nodes, every
condition, write and failure policy and every concurrency limit:

| Theorem | Hypothesis | Property |
|---|---|---|
| `OneWriter` | none | `OneSharedWriter` |
| `NoNodeLost` | until a node is launched twice | `NoFalseDeadlock` |
| `WorktreesGivenUp` | until a node is launched twice | `NoWorktreeForgotten` |
| `QuietUntilRelaunch` | until a node is launched twice | `QuietWhenOver` |
| `NoSecondLaunch` | `OneAtATime` | no node is ever launched twice |
| `KeptWithoutRelaunch` | `OneAtATime` | `NoFalseDeadlock`, `NoWorktreeForgotten`, `QuietWhenOver` |
| `QuietWithoutIsolation` | no node is isolated | `QuietWhenOver` |

`WorkflowAssumption` is what `validateWorkflowDefinition` lets through: the order of a workflow
lists its own nodes, each once (`OnceEach`, `duplicate_node_id` at `workflow/schema.ts:181`),
dependencies stay inside the workflow, and they have no cycle (`Acyclic`, `assertAcyclic` at
`workflow/schema.ts:134`).  TLC evaluates it on the instances of the runs.

The first invariant, `IInv`, speaks about the nodes outside worktrees: each is launched once,
and its call, its place in the Map of running nodes and its status agree (`Calls`); beside a
running shared writer only isolated nodes run (`Lock`); what was launched has its dependencies
behind it (`Deps`); the nodes of a workflow are over when its loop is (`WfInv`).  `Lock` alone
is not inductive: `canStart` looks at statuses, and only `Calls` ties the agents at work to
them.

An isolated node stays pending while its worktree is created, so that a second turn of the
loop may launch it again.  After that `QuietWhenOver` fails (`workflow_isolated`, two
isolated nodes side by side) and so does `NoWorktreeForgotten` (three of them, TLC); for
`NoFalseDeadlock` TLC found no violation on instances of two and three isolated nodes, but
the argument below does not reach it.  The second invariant, `SInv`, says what holds until
then (`LaunchedOnce`), for isolated nodes too:

* `OneCalls`: the one call of a node agrees with its status and with both Maps, and a node
  that ended before it got its worktree was aborted;
* `Behind`: what was launched had its dependencies over and its condition true;
* `Upward`: whatever ended a node that waits for one that is not over ended everything behind
  it too.  A failure policy skips the transitive dependents, and without this a node could
  stay pending behind a skipped one, with nothing to wake its loop;
* `Requests`: the worktree queue is the list of the calls that wait for one;
* `WfOnce`: a draining loop waits for every call that is under way, so that nothing is under
  way when the worktrees are cleaned, and what cleanup has dealt with stays dealt with.

The scheduler gives nodes up as lost when a pass launches nothing while nothing runs, in its
workflow or in another.  In such a state some pending node has all its dependencies over
(`Acyclic`, applied to the set of pending nodes), so that the pass would have launched or
ended it; hence the verdict is never reached.  That the passes end is not taken for granted:
each one that goes on leaves fewer nodes pending.

`OneAtATime` says that workflows run one node at a time (`MaxConcurrency = 1`) or that every
isolated node is ordered by the dependencies against every other node of its workflow
(`InLine`).  The instance of `workflow` is `InLine`, that of `workflow_isolated` is neither.
The invariant `AInv` is that no node was launched twice and that a loop with an isolated call
under way races on this call alone (`Waits`): a second launch needs a turn of the loop, and
the only call that could cause one is the isolated call itself.  A workflow without isolated
nodes is `InLine`, so `KeptWithoutRelaunch` covers `QuietWithoutIsolation`.

The two nested loops of `execute()` are recursive functions; a property that each turn keeps
holds at their end because a least turn that breaks it cannot exist (`Least`, from the
well-foundedness of `<` on the natural numbers), which needs no induction scheme.

`DynamicTasksProofs` proves, for every set of tasks, tools and plan shapes:

| Theorem | Property |
|---|---|
| `Recovery` | `RecoveryMatchesLive` |
| `PatchJudged` | `PatchOnJudgedPlan` |
| `ProgressKept` | `NoProgressReverted` |

The invariant is that a history has the revisions 1 to n, each under its own number
(`HistoryInv`), that the snapshots on every branch are plans (`BranchInv`, as a navigation
may go to any of them), that the plan of a review with the current revision *is* the current
plan, unless the review is one that `abortReview` missed (`ReviewInv`), and
`RecoveryMatchesLive` itself.  What a resume restores is a recursive function over the
branch, treated like the loops of `Workflow`.

`SessionProofs` proves, for every set of messages, both queue modes, every retry budget and
every number of tool calls and turns, with or without a host that stops runs:

| Theorem | Property |
|---|---|
| `TypeCorrect` | `TypeOK`, the retry budget included |
| `OnePlace` | `ExactlyOnce` |
| `RequestComplete` | `LiveRequestComplete` |

`Placed` is `ExactlyOnce` without counting: the two queues, the loop's pending messages and
the transcript have no message twice, share none, and together hold the accepted ones;
`ConcatDistinct` leads from there to the one position in their concatenation.  A step keeps
it because a call that is still in its preflight has accepted nothing (`Unsent`), and because
a poll, which overwrites the pending messages, finds none: the loop holds messages only from
a poll to the next injection (`Held`).  `Complete` says that past its batch a run has the
results of all its calls or was aborted; `LiveRequestComplete` alone speaks of the moment of
the request only, several steps after the batch that an abort may have broken.

Every inductive invariant was also checked by TLC, on the instances of the runs or, where
those are too large for it, without reviews (`BackgroundTasks`); those of
`Workflow` on further instances with isolated nodes side by side and with `MaxConcurrency = 1`.

Only model-checked:

* the liveness properties (`EveryDelegationEnds`, `WakeNotMissed`, `EveryWaitEnds`,
  `EveryWorkflowEnds`, `EveryRunSettles`): fairness is out of the prover's reach.

Every other property of a passing run is stated by a theorem.  `NoFalseDeadlock`,
`NoWorktreeForgotten` and `QuietWhenOver` are the ones with a hypothesis: the run's own instance
satisfies it, and where isolated nodes run side by side they are proved only up to the
second launch.

## 5. Not modelled

Log rotation and byte cursors, process groups and exit files, tmux, providers, rendering,
formatting, settings, plan validation: input/output and data conversion without an order
that a property is about.  The larger part of the repository is of this kind: the terminal
user interface, the provider adapters and generated model tables, the package manager,
export templates and tests.  The remaining
components of the inventory are listed in `PROJECT.json` with the reason or the plan.

## 6. Plan

1. Compositions: the Monitor in place of the free status machine of `BackgroundTasks`;
   `Workflow` with `AgentPool` as its executor.
2. Abstract specifications: a one-place mailbox that the wake queue implements, with
   repetition only after a rejection.
3. Session manager: the entry tree and its file, along the lines of `Journal`; the log
   reader and the framing of the remote protocol as pure operators against a reference.
4. Privilege runtime, remote client and search budget.
