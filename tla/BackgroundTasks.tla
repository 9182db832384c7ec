--------------------------- MODULE BackgroundTasks ---------------------------
(***************************************************************************)
(* The background task manager of core/background/background-runtime.ts:   *)
(* tasks bound to Monitor records, the wake queue that resumes the         *)
(* Coordinator, the snapshots it persists on the session branch, branch    *)
(* switches (AgentSession.navigateTree), restarts, disposal and the chain  *)
(* of poll timers.                                                         *)
(*                                                                         *)
(* Operations go through enqueue() and run one after the other; an         *)
(* operation is cut at its awaits into the steps of todo.  After an        *)
(* operation its caller's continuation runs outside of the queue (conts).  *)
(* Timers, users, the Monitor and the wake host act when the microtasks    *)
(* are drained, that is at an await or when nothing is queued.             *)
(***************************************************************************)
EXTENDS Naturals, Sequences, FiniteSets, SequencesExt

CONSTANTS
    Ids,             \* background tasks; each has a Monitor record of its own
    MaxConcurrency,
    TriggerSets,     \* the trigger sets start and wait may be given
    MaxReviews,      \* progressReview.maxReviews
    MaxLog,          \* bound: versions a task's log goes through
    ErrorLogs,       \* versions whose new text matches the error pattern
    MaxQueue,        \* bound: operations waiting in the queue
    MaxBranches,     \* bound: session branches visited
    MaxRestarts,     \* bound: process restarts
    MayDispose,      \* whether the session may be disposed
    MayType          \* whether the user queues messages and clears the queue

ASSUME BackgroundAssumption ==
    /\ IsFiniteSet(Ids)
    /\ MaxConcurrency \in Nat \ {0}
    /\ MaxBranches \in Nat \ {0}
    /\ {MaxReviews, MaxLog, MaxQueue, MaxRestarts} \subseteq Nat
    /\ ErrorLogs \subseteq 1..MaxLog
    /\ {MayDispose, MayType} \subseteq BOOLEAN

VARIABLES
    mon,         \* status of each Monitor record: "fresh" before its id is used,
                 \* "none" when the record is gone
    log,         \* version (hash) of each log on disk
    mem,         \* tasks, wakeEvents, consumedEventKeys of the manager
    saved,       \* latest snapshot entry on the session's current branch
    mark,        \* snapshot at an earlier entry the user may navigate to
    leaf,        \* number of the current session branch
    nav,         \* progress of navigateTree
    queue,       \* operations chained on operationTail
    todo,        \* remaining steps of the running operation
    conts,       \* continuations of finished operations, in order
    delivering,  \* wakeDelivery is set
    generation,
    inflight,    \* wakeHost.deliver calls that have not settled
    pollTimer,   \* the timer handle is set
    strays,      \* armed timers whose handle was overwritten
    disposed,
    userPending, \* wakeHost.hasPendingUserMessages()
    followUps,   \* deliveries in the follow-up queue of the agent, in memory
    restarts,
    accepted,    \* history: keys the Coordinator received on this branch
    repeated,    \* history: keys it received more than once
    refused,     \* history: keys it received in a delivery that then rejected
    dropped,     \* history: keys of follow-ups it never received
    reviewed     \* history: reviewer calls per task on this branch

opVars    == <<queue, todo, conts>>
wakeVars  == <<delivering, generation, inflight>>
timerVars == <<pollTimer, strays>>
navVars   == <<mark, leaf, nav>>
hostVars  == <<userPending, followUps, restarts>>
keyVars   == <<accepted, repeated, refused, dropped>>
histVars  == <<keyVars, reviewed>>
vars == <<mon, log, mem, saved, mark, leaf, nav, queue, todo, conts, delivering,
          generation, inflight, pollTimer, strays, disposed, userPending, followUps,
          restarts, accepted, repeated, refused, dropped, reviewed>>

-----------------------------------------------------------------------------
(* Data.                                                                   *)

\* "timeout" stands for status failed with exit reason monitor_timeout.
TerminalMon == {"completed", "failed", "timeout", "cancelled", "lost"}
MonStatus   == {"fresh", "none", "running", "stalled"} \cup TerminalMon
Reasons     == {"completed", "failed", "timeout", "stalled", "error-pattern",
                "progress-review"}
WakeStates  == {"queued", "delivered", "consumed"}

Task  == [known : BOOLEAN, wait : BOOLEAN, triggers : SUBSET Reasons,
          cursor : 0..MaxLog, unconfirmed : BOOLEAN,
          reviewCount : 0..MaxReviews, lastReview : 0..MaxLog]
Key   == [task : Ids, reason : Reasons, status : MonStatus, hash : 0..MaxLog]
Event == [key : Key, state : WakeStates]
Snapshot == [branch : 1..MaxBranches, tasks : [Ids -> Task],
             events : SUBSET Event, keys : SUBSET Key]

NoTask == [known |-> FALSE, wait |-> FALSE, triggers |-> {}, cursor |-> 0,
           unconfirmed |-> FALSE, reviewCount |-> 0, lastReview |-> 0]
NoSnapshot == [branch |-> 1, tasks |-> [t \in Ids |-> NoTask], events |-> {}, keys |-> {}]

\* reasonForStatus and mapMonitorEventReason
ReasonFor(status) ==
    CASE status \in {"completed", "timeout", "stalled"} -> status
      [] status \in {"failed", "lost"} -> "failed"
      [] OTHER -> "none"

\* Tasks that count against the concurrency limit: no record reads as lost.
ActiveTasks(m) == {t \in Ids : m.tasks[t].known /\ mon[t] \in {"running", "stalled"}}

Init ==
    /\ mon = [t \in Ids |-> "fresh"]
    /\ log = [t \in Ids |-> 0]
    /\ mem = NoSnapshot
    /\ saved = NoSnapshot
    /\ mark = NoSnapshot
    /\ leaf = 1
    /\ nav = "none"
    /\ queue = <<>> /\ todo = <<>> /\ conts = <<>>
    /\ delivering = FALSE /\ generation = 0 /\ inflight = {}
    /\ pollTimer = TRUE /\ strays = 0
    /\ disposed = FALSE
    /\ userPending = FALSE /\ followUps = {} /\ restarts = 0
    /\ accepted = {} /\ repeated = {} /\ refused = {} /\ dropped = {}
    /\ reviewed = [t \in Ids |-> 0]

-----------------------------------------------------------------------------
(* The wake queue.                                                         *)

\* enqueueWake: nothing before background_wait, nothing whose key was
\* consumed or is already an event.
EnqueueWake(m, t, reason, status, hash) ==
    LET key == [task |-> t, reason |-> reason, status |-> status, hash |-> hash]
    IN  IF \/ ~m.tasks[t].wait
           \/ key \in m.keys
           \/ \E e \in m.events : e.key = key
        THEN m
        ELSE [m EXCEPT !.events = @ \cup {[key |-> key, state |-> "queued"]}]

\* The events of keys move to a state.
Mark(m, keys, state) ==
    [m EXCEPT !.events = {IF e.key \in keys THEN [e EXCEPT !.state = state] ELSE e : e \in @}]

\* Mutant: the delivery is recorded only when it has settled.
ConsumeWakeQueueUnsaved(m, s, busy, gen, fl) ==
    LET queued == {e \in m.events : e.state = "queued"}
        keys   == {e.key : e \in queued}
        go     == /\ ~disposed /\ ~busy /\ queued # {}
                  /\ ~(userPending /\ \A k \in keys : k.reason = "progress-review")
    IN  /\ mem' = IF go THEN Mark(m, keys, "delivered") ELSE m
        /\ saved' = s
        /\ delivering' = (busy \/ go)
        /\ inflight' = IF go THEN fl \cup {[gen |-> gen, branch |-> m.branch, keys |-> keys]}
                       ELSE fl
        /\ generation' = gen

\* Mutant: a delivery under way does not hold back the next one.
ConsumeWakeQueueAtOnce(m, s, busy, gen, fl) ==
    LET queued == {e \in m.events : e.state = "queued"}
        keys   == {e.key : e \in queued}
        go     == ~disposed /\ queued # {}
        sent   == Mark(m, keys, "delivered")
    IN  /\ mem' = IF go THEN sent ELSE m
        /\ saved' = IF go THEN sent ELSE s
        /\ delivering' = (busy \/ go)
        /\ inflight' = IF go THEN fl \cup {[gen |-> gen, branch |-> m.branch, keys |-> keys]}
                       ELSE fl
        /\ generation' = gen

\* consumeWakeQueue, with the memory m, the branch snapshot s, the delivery
\* flag busy and the calls in flight fl left by the code before it: all the
\* queued events go out in one delivery, recorded as delivered before the
\* host is called; progress reviews alone wait for the user's messages.
ConsumeWakeQueue(m, s, busy, gen, fl) ==
    LET queued == {e \in m.events : e.state = "queued"}
        keys   == {e.key : e \in queued}
        go     == /\ ~disposed /\ ~busy /\ queued # {}
                  /\ ~(userPending /\ \A k \in keys : k.reason = "progress-review")
        sent   == Mark(m, keys, "delivered")
    IN  /\ mem' = IF go THEN sent ELSE m
        /\ saved' = IF go THEN sent ELSE s
        /\ delivering' = (busy \/ go)
        /\ inflight' = IF go THEN fl \cup {[gen |-> gen, branch |-> m.branch, keys |-> keys]}
                       ELSE fl
        /\ generation' = gen

\* The keys of deliveries made for the branch the session is on.
KeysOf(ds) == UNION {d.keys : d \in {d \in ds : d.branch = leaf}}

\* The messages of deliveries enter the Coordinator's transcript.
Receive(ds) ==
    /\ accepted' = accepted \cup KeysOf(ds)
    /\ repeated' = repeated \cup (accepted \cap KeysOf(ds))

-----------------------------------------------------------------------------
(* Running operations.                                                     *)

Ready(kind)  == todo = <<>> /\ queue # <<>> /\ Head(queue).kind = kind
At(do)       == todo # <<>> /\ Head(todo).do = do
Resumes      == {"apply", "review", "spawned", "polled", "attached", "read", "stopped", "grace"}
Quiescent    == /\ conts = <<>>
                /\ IF todo = <<>> THEN queue = <<>> ELSE Head(todo).do \in Resumes
Enqueue(op)  == queue' = Append(queue, op) /\ UNCHANGED <<todo, conts>>
Room         == Len(queue) < MaxQueue
Observe(t)   == [do |-> "observe", t |-> t, reason |-> "none"]
ObserveAll   == SetToSeq({Observe(t) : t \in {u \in Ids : mem.tasks[u].known}})
RunOp(steps) == queue' = Tail(queue) /\ todo' = steps /\ UNCHANGED conts
Then(steps)  == todo' = steps \o Tail(todo) /\ UNCHANGED <<queue, conts>>
Quit         == todo' = <<>> /\ UNCHANGED <<queue, conts>>
Persist(m)   == mem' = m /\ saved' = m
KeepMem      == UNCHANGED <<mem, saved>>

\* Mutant: what an observation changes is not persisted at once.
ChangeUnsaved(m) == mem' = m /\ UNCHANGED saved

\* What an observation changes is persisted before anything else is awaited.
Change(m)    == IF m = mem THEN KeepMem ELSE Persist(m)
Rest         == UNCHANGED <<wakeVars, timerVars, navVars, disposed, hostVars>>

\* The operation's last step: its caller goes on.
StepEnd ==
    /\ At("end")
    /\ conts' = Append(conts, Head(todo).cont)
    /\ todo' = Tail(todo)
    /\ UNCHANGED <<mon, log, mem, saved, queue, histVars>>
    /\ Rest

\* observeTaskByMonitor up to the await of the log read: the Monitor record
\* is read here and used after it.
StepObserve ==
    /\ At("observe")
    /\ LET t == Head(todo).t
           unconfirmed == [mem EXCEPT !.tasks[t].unconfirmed = TRUE]
       IN  IF ~mem.tasks[t].known \/ disposed
           THEN Then(<<>>) /\ KeepMem
           ELSE IF mon[t] = "none"
           THEN Then(<<>>) /\ Change(unconfirmed)
           ELSE /\ Then(<<[do |-> "apply", t |-> t, reason |-> Head(todo).reason,
                           status |-> mon[t]]>>)
                /\ KeepMem
    /\ UNCHANGED <<mon, log, histVars>>
    /\ Rest

\* The early returns of maybeReview.
ReviewAllowed(task, hash) ==
    /\ task.wait /\ "progress-review" \in task.triggers
    /\ task.lastReview # hash
    /\ task.reviewCount < MaxReviews

\* maybeReview takes the review out of the budget.
ChargeReview(m, t, hash) ==
    [m EXCEPT !.tasks[t].lastReview = hash, !.tasks[t].reviewCount = @ + 1]

\* observeTaskByMonitor after the log read: cursor, error-pattern wake, wake
\* for the reason, and up to the reviewer call of maybeReview, whose budget
\* is persisted before the call.  due: the minimum interval has elapsed; a
\* log that is missing leaves the cursor where it was.
StepApply ==
    /\ At("apply")
    /\ \E due \in BOOLEAN, missing \in BOOLEAN :
         LET t      == Head(todo).t
             status == Head(todo).status
             task   == mem.tasks[t]
             hash   == IF missing THEN task.cursor ELSE log[t]
             new    == (task.cursor + 1)..hash
             reason == IF Head(todo).reason # "none" THEN Head(todo).reason ELSE ReasonFor(status)
             m1     == [mem EXCEPT !.tasks[t].cursor = hash]
             m2     == IF "error-pattern" \in task.triggers /\ new \cap ErrorLogs # {}
                       THEN EnqueueWake(m1, t, "error-pattern", status, hash) ELSE m1
             m3     == IF reason \in task.triggers
                       THEN EnqueueWake(m2, t, reason, status, hash) ELSE m2
             review == due /\ new # {} /\ ReviewAllowed(task, hash)
             m4     == IF review THEN ChargeReview(m3, t, hash) ELSE m3
         IN  /\ Change(m4)
             /\ IF review
                THEN /\ Then(<<[do |-> "review", t |-> t, status |-> status, hash |-> hash]>>)
                     /\ reviewed' = [reviewed EXCEPT ![t] = @ + 1]
                ELSE Then(<<>>) /\ UNCHANGED reviewed
    /\ UNCHANGED <<mon, log, keyVars>>
    /\ Rest

\* The progress reviewer answers, or fails, which wakes nobody.
StepReview ==
    /\ At("review")
    /\ \E wake \in BOOLEAN :
         Persist(IF wake THEN EnqueueWake(mem, Head(todo).t, "progress-review",
                                          Head(todo).status, Head(todo).hash)
                 ELSE mem)
    /\ Then(<<>>)
    /\ UNCHANGED <<mon, log, histVars>>
    /\ Rest

\* monitorRuntime.poll() returned; what it found came as Monitor events.
StepPolled ==
    /\ At("polled")
    /\ Then(<<>>)
    /\ KeepMem
    /\ UNCHANGED <<mon, log, histVars>>
    /\ Rest

\* consumeWakeQueue called inside an operation.
StepConsume ==
    /\ At("consume")
    /\ Then(<<>>)
    /\ ConsumeWakeQueue(mem, saved, delivering, generation, inflight)
    /\ UNCHANGED <<mon, log, timerVars, navVars, disposed, hostVars, histVars>>

-----------------------------------------------------------------------------
(* Operations, each with the steps that follow its awaits.                 *)

\* A Monitor event: observe its task, then consume the wake queue.
OpObserve ==
    /\ Ready("observe")
    /\ RunOp(<<[do |-> "observe", t |-> Head(queue).t, reason |-> Head(queue).reason],
               [do |-> "consume"]>>)
    /\ KeepMem
    /\ UNCHANGED <<mon, log, histVars>>
    /\ Rest

\* poll and initialize observe every task; poll asks the Monitor first.
OpSweep ==
    /\ \/ /\ Ready("poll")
          /\ RunOp(<<[do |-> "polled"]>> \o ObserveAll \o <<[do |-> "end", cont |-> "poll"]>>)
       \/ /\ Ready("init")
          /\ RunOp(ObserveAll \o <<[do |-> "end", cont |-> "init"]>>)
    /\ KeepMem
    /\ UNCHANGED <<mon, log, histVars>>
    /\ Rest

\* Mutant: start does not look at the capacity.
OpStartUnchecked ==
    /\ Ready("start")
    /\ RunOp(<<[do |-> "spawned", t |-> Head(queue).t, triggers |-> Head(queue).triggers]>>)
    /\ KeepMem
    /\ UNCHANGED <<mon, log, histVars>>
    /\ Rest

\* start: the capacity check, then the spawn is awaited.
OpStart ==
    /\ Ready("start")
    /\ RunOp(IF Cardinality(ActiveTasks(mem)) >= MaxConcurrency THEN <<>>
             ELSE <<[do |-> "spawned", t |-> Head(queue).t, triggers |-> Head(queue).triggers]>>)
    /\ KeepMem
    /\ UNCHANGED <<mon, log, histVars>>
    /\ Rest

\* start after the spawn: it failed or was aborted, or the process gets its
\* Monitor record and task, which is persisted.
StepSpawned ==
    /\ At("spawned")
    /\ LET t == Head(todo).t
       IN  \/ Quit /\ KeepMem /\ mon' = [mon EXCEPT ![t] = "none"]
           \/ /\ mon' = [mon EXCEPT ![t] = "running"]
              /\ Persist([mem EXCEPT !.tasks[t] = [NoTask EXCEPT !.known = TRUE,
                                                       !.triggers = Head(todo).triggers]])
              /\ Then(<<[do |-> "polled"], Observe(t)>>)
    /\ UNCHANGED <<log, histVars>>
    /\ Rest

\* attach: a monitor that already has a task is returned as it is; without a
\* record the operation throws; else the Monitor is polled.
OpAttach ==
    /\ Ready("attach")
    /\ LET t == Head(queue).t
       IN  RunOp(IF mem.tasks[t].known \/ mon[t] \in {"fresh", "none"} THEN <<>>
                 ELSE <<[do |-> "attached", t |-> t, triggers |-> Head(queue).triggers]>>)
    /\ KeepMem
    /\ UNCHANGED <<mon, log, histVars>>
    /\ Rest

\* attach after the poll: the target may be of another kind or unconfirmed;
\* with a record and capacity the task starts at the Monitor's log cursor.
StepAttached ==
    /\ At("attached")
    /\ LET t == Head(todo).t
       IN  \/ Quit /\ KeepMem
           \/ /\ mon[t] # "none"
              /\ Cardinality(ActiveTasks(mem)) < MaxConcurrency
              /\ \E cursor \in 0..log[t] :
                   Persist([mem EXCEPT !.tasks[t] = [NoTask EXCEPT !.known = TRUE,
                                !.triggers = Head(todo).triggers, !.cursor = cursor]])
              /\ Then(<<Observe(t)>>)
    /\ UNCHANGED <<mon, log, histVars>>
    /\ Rest

\* wait registers the Coordinator's interest, then observes at once.
OpWait ==
    /\ Ready("wait")
    /\ LET t == Head(queue).t
       IN  IF mem.tasks[t].known
           THEN /\ Persist([mem EXCEPT !.tasks[t].wait = TRUE,
                                       !.tasks[t].triggers = Head(queue).triggers])
                /\ RunOp(<<Observe(t), [do |-> "consume"]>>)
           ELSE RunOp(<<>>) /\ KeepMem
    /\ UNCHANGED <<mon, log, histVars>>
    /\ Rest

\* logs: the read is awaited, then the consumer cursor moves and is persisted,
\* except in mode full.
OpLogs ==
    /\ Ready("logs")
    /\ LET t == Head(queue).t
       IN  RunOp(IF mem.tasks[t].known /\ mon[t] # "none" THEN <<[do |-> "read", t |-> t]>> ELSE <<>>)
    /\ KeepMem
    /\ UNCHANGED <<mon, log, histVars>>
    /\ Rest

StepRead ==
    /\ At("read")
    /\ \/ KeepMem
       \/ Persist([mem EXCEPT !.tasks[Head(todo).t].cursor = log[Head(todo).t]])
    /\ Then(<<>>)
    /\ UNCHANGED <<mon, log, histVars>>
    /\ Rest

\* cancel: unknown and terminal tasks are answered at once, else the Monitor
\* is asked to stop the target.
OpCancel ==
    /\ Ready("cancel")
    /\ LET t == Head(queue).t
       IN  RunOp(IF t \in ActiveTasks(mem) THEN <<[do |-> "stopped", t |-> t]>> ELSE <<>>)
    /\ KeepMem
    /\ UNCHANGED <<mon, log, histVars>>
    /\ Rest

\* monitorRuntime.stop settles: refused, or the record is cancelled (its
\* event is queued) and the grace period starts, with the queue held.
StepStopped ==
    /\ At("stopped")
    /\ LET t == Head(todo).t
       IN  \/ Quit /\ UNCHANGED mon
           \/ /\ mon[t] \in {"running", "stalled"}
              /\ mon' = [mon EXCEPT ![t] = "cancelled"]
              /\ todo' = <<[do |-> "grace", t |-> t]>>
              /\ queue' = IF disposed THEN queue
                          ELSE Append(queue, [kind |-> "observe", t |-> t, reason |-> "none"])
              /\ UNCHANGED conts
    /\ KeepMem
    /\ UNCHANGED <<log, histVars>>
    /\ Rest

\* The grace period ends (the process is killed if it still runs), or the
\* caller's signal aborts it.
StepGrace ==
    /\ At("grace")
    /\ \/ KeepMem
       \/ Persist(mem)
    /\ Then(<<>>)
    /\ UNCHANGED <<mon, log, histVars>>
    /\ Rest

\* Mutant: a rebuild keeps the generation of the deliveries under way.
OpRebuildSameGeneration ==
    /\ Ready("rebuild")
    /\ LET m    == Head(queue).entries
           keys == {e.key : e \in {e \in m.events : e.state = "delivered"}}
       IN  Persist([Mark(m, keys, "consumed") EXCEPT !.keys = @ \cup keys])
    /\ RunOp(<<[do |-> "end", cont |-> "rebuild"]>>)
    /\ pollTimer' = FALSE
    /\ delivering' = FALSE
    /\ nav' = "none"
    /\ UNCHANGED <<mon, log, mark, leaf, inflight, generation, strays, disposed, hostVars, histVars>>

\* rebuild: one synchronous step.  Deliveries under way belong to an older
\* generation from now on; what the branch says was delivered counts as
\* consumed.
OpRebuild ==
    /\ Ready("rebuild")
    /\ LET m    == Head(queue).entries
           keys == {e.key : e \in {e \in m.events : e.state = "delivered"}}
       IN  Persist([Mark(m, keys, "consumed") EXCEPT !.keys = @ \cup keys])
    /\ RunOp(<<[do |-> "end", cont |-> "rebuild"]>>)
    /\ pollTimer' = FALSE
    /\ generation' = generation + 1
    /\ delivering' = FALSE
    /\ nav' = "none"
    /\ UNCHANGED <<mon, log, mark, leaf, inflight, strays, disposed, hostVars, histVars>>

\* finishWakeDelivery
OpFinish ==
    /\ Ready("finish")
    /\ RunOp(<<>>)
    /\ LET op == Head(queue)
           m  == [Mark(mem, op.keys, "consumed") EXCEPT !.keys = @ \cup op.keys]
       IN  IF disposed \/ op.gen # generation
           THEN KeepMem /\ UNCHANGED wakeVars
           ELSE ConsumeWakeQueue(m, m, FALSE, generation, inflight)
    /\ UNCHANGED <<mon, log, timerVars, navVars, disposed, hostVars, histVars>>

\* Mutant: a failed delivery leaves its events in state delivered.
OpFailDropsEvents ==
    /\ Ready("fail")
    /\ RunOp(<<>>)
    /\ KeepMem
    /\ delivering' = (delivering /\ (disposed \/ Head(queue).gen # generation))
    /\ UNCHANGED <<mon, log, generation, inflight, timerVars, navVars, disposed, hostVars, histVars>>

\* Mutant: a failed delivery counts as consumed.
OpFailConsumes ==
    /\ Ready("fail")
    /\ RunOp(<<>>)
    /\ LET keys == Head(queue).keys
       IN  Persist([Mark(mem, keys, "consumed") EXCEPT !.keys = @ \cup keys])
    /\ delivering' = FALSE
    /\ UNCHANGED <<mon, log, generation, inflight, timerVars, navVars, disposed, hostVars, histVars>>

\* Mutant: a failed delivery leaves wakeDelivery set.
OpFailKeepsDelivery ==
    /\ Ready("fail")
    /\ RunOp(<<>>)
    /\ Persist(Mark(mem, Head(queue).keys, "queued"))
    /\ UNCHANGED <<mon, log, wakeVars, timerVars, navVars, disposed, hostVars, histVars>>

\* failWakeDelivery
OpFail ==
    /\ Ready("fail")
    /\ RunOp(<<>>)
    /\ LET op == Head(queue)
       IN  IF disposed \/ op.gen # generation
           THEN KeepMem /\ UNCHANGED delivering
           ELSE Persist(Mark(mem, op.keys, "queued")) /\ delivering' = FALSE
    /\ UNCHANGED <<mon, log, generation, inflight, timerVars, navVars, disposed, hostVars, histVars>>

\* Mutant: no timer is armed while a delivery is under way.
ContinueUnlessDelivering ==
    /\ conts # <<>>
    /\ conts' = Tail(conts)
    /\ LET arm == ~disposed /\ ~pollTimer /\ ~delivering
       IN  pollTimer' = (pollTimer \/ arm) /\ UNCHANGED strays
    /\ ConsumeWakeQueue(mem, saved, delivering, generation, inflight)
    /\ UNCHANGED <<mon, log, queue, todo, navVars, disposed, hostVars, histVars>>

\* What follows poll, initialize and rebuild in their callers: poll consumes
\* the wake queue and arms the next timer; the others arm a timer only when
\* no handle is set.
Continue ==
    /\ conts # <<>>
    /\ conts' = Tail(conts)
    /\ LET arm == ~disposed /\ (Head(conts) = "poll" \/ ~pollTimer)
       IN  /\ pollTimer' = (pollTimer \/ arm)
           /\ strays' = IF arm /\ pollTimer THEN strays + 1 ELSE strays
    /\ ConsumeWakeQueue(mem, saved, delivering, generation, inflight)
    /\ UNCHANGED <<mon, log, queue, todo, navVars, disposed, hostVars, histVars>>

-----------------------------------------------------------------------------
(* Tools, Monitor, timers, wake host and session.                          *)

\* A background_* tool call or command enqueues its operation.
Call(op) ==
    /\ Quiescent /\ ~disposed /\ Room
    /\ Enqueue(op)
    /\ UNCHANGED <<mon, log, mem, saved, histVars>>
    /\ Rest

ToolCall(t) ==
    \/ /\ mon[t] = "fresh"
       /\ \A i \in DOMAIN queue : queue[i].kind = "start" => queue[i].t # t
       /\ ~(At("spawned") /\ Head(todo).t = t)
       /\ \E triggers \in TriggerSets : Call([kind |-> "start", t |-> t, triggers |-> triggers])
    \/ \E triggers \in TriggerSets : Call([kind |-> "wait", t |-> t, triggers |-> triggers])
    \/ \E triggers \in TriggerSets : Call([kind |-> "attach", t |-> t, triggers |-> triggers])
    \/ Call([kind |-> "logs", t |-> t])
    \/ Call([kind |-> "cancel", t |-> t])

\* MonitorRuntime.attach of a target that is no background task.
MonitorAttaches(t) ==
    /\ Quiescent /\ mon[t] = "fresh"
    /\ \A i \in DOMAIN queue : queue[i].kind = "start" => queue[i].t # t
    /\ ~(At("spawned") /\ Head(todo).t = t)
    /\ mon' = [mon EXCEPT ![t] = "running"]
    /\ KeepMem
    /\ UNCHANGED <<log, opVars, histVars>>
    /\ Rest

\* A Monitor transition and the event its listener turns into an operation.
MonitorChanges(t) ==
    /\ Quiescent /\ Room
    /\ mon[t] \in {"running", "stalled"}
    /\ \E status \in {"running", "stalled", "completed", "failed", "timeout", "lost"} \ {mon[t]} :
         /\ mon' = [mon EXCEPT ![t] = status]
         /\ IF disposed THEN UNCHANGED opVars
            ELSE Enqueue([kind |-> "observe", t |-> t, reason |-> ReasonFor(status)])
    /\ KeepMem
    /\ UNCHANGED <<log, histVars>>
    /\ Rest

\* The process, or a child it left behind, writes to the log.
LogGrows(t) ==
    /\ Quiescent /\ mon[t] \notin {"fresh", "none"} /\ log[t] < MaxLog
    /\ log' = [log EXCEPT ![t] = @ + 1]
    /\ KeepMem
    /\ UNCHANGED <<mon, opVars, histVars>>
    /\ Rest

\* The callback of schedulePoll: it forgets whatever handle is stored and
\* polls; after dispose() poll and schedulePoll do nothing.
TimerFires ==
    /\ Quiescent /\ Room
    /\ \/ pollTimer /\ UNCHANGED strays
       \/ strays > 0 /\ strays' = IF pollTimer THEN strays ELSE strays - 1
    /\ pollTimer' = FALSE
    /\ IF disposed THEN UNCHANGED opVars ELSE Enqueue([kind |-> "poll"])
    /\ KeepMem
    /\ UNCHANGED <<mon, log, wakeVars, navVars, disposed, hostVars, histVars>>

\* wakeHost.deliver resolves: the turn it triggered has ended, or, when the
\* session was busy, the message is in the agent's follow-up queue.
DeliverResolves ==
    /\ Quiescent
    /\ \E d \in inflight :
         /\ \/ Receive({d}) /\ UNCHANGED followUps
            \/ followUps' = followUps \cup {d} /\ UNCHANGED <<accepted, repeated>>
         /\ inflight' = inflight \ {d}
         /\ Enqueue([kind |-> "finish", gen |-> d.gen, keys |-> d.keys])
    /\ KeepMem
    /\ UNCHANGED <<mon, log, delivering, generation, timerVars, navVars, disposed, userPending,
                   restarts, refused, dropped, reviewed>>

\* wakeHost.deliver rejects: the turn it triggered could not start, or threw
\* when its message was in the transcript already.
DeliverRejects ==
    /\ Quiescent
    /\ \E d \in inflight :
         /\ \/ UNCHANGED <<accepted, repeated, refused>>
            \/ Receive({d}) /\ refused' = refused \cup KeysOf({d})
         /\ inflight' = inflight \ {d}
         /\ Enqueue([kind |-> "fail", gen |-> d.gen, keys |-> d.keys])
    /\ KeepMem
    /\ UNCHANGED <<mon, log, delivering, generation, timerVars, navVars, disposed, hostVars,
                   dropped, reviewed>>

\* The agent's loop takes a follow-up; their order is left open.
FollowUpTaken ==
    /\ Quiescent
    /\ \E d \in followUps : Receive({d}) /\ followUps' = followUps \ {d}
    /\ KeepMem
    /\ UNCHANGED <<mon, log, opVars, wakeVars, timerVars, navVars, disposed, userPending,
                   restarts, refused, dropped, reviewed>>

\* clearQueue, when the user aborts: the follow-ups are lost with the user's
\* own queued messages (only those go back to the editor).
FollowUpsCleared ==
    /\ Quiescent /\ MayType /\ followUps # {}
    /\ dropped' = dropped \cup KeysOf(followUps)
    /\ followUps' = {}
    /\ userPending' = FALSE
    /\ KeepMem
    /\ UNCHANGED <<mon, log, opVars, wakeVars, timerVars, navVars, disposed, restarts,
                   accepted, repeated, refused, reviewed>>

\* The user queues a message, or the queued ones are taken.
UserMessages ==
    /\ Quiescent /\ MayType
    /\ userPending' = ~userPending
    /\ KeepMem
    /\ UNCHANGED <<mon, log, opVars, wakeVars, timerVars, navVars, disposed, followUps,
                   restarts, histVars>>

\* An entry of the current branch the user will later navigate back to.
MarkEntry ==
    /\ Quiescent /\ nav = "none" /\ leaf < MaxBranches /\ mark # saved
    /\ mark' = saved
    /\ KeepMem
    /\ UNCHANGED <<mon, log, opVars, wakeVars, timerVars, leaf, nav, disposed, hostVars, histVars>>

\* navigateTree is refused while the Coordinator runs a turn, the one of a
\* wake delivery or of a tool call included; then the branch summary is
\* awaited, while timers, Monitor events, deliveries and calls go on.
NavigateBegins ==
    /\ ~disposed /\ nav = "none" /\ leaf < MaxBranches
    /\ conts = <<>> /\ queue = <<>> /\ todo = <<>> /\ inflight = {}
    /\ nav' = "summary"
    /\ KeepMem
    /\ UNCHANGED <<mon, log, opVars, wakeVars, timerVars, mark, leaf, disposed, hostVars, histVars>>

\* It moves the leaf, then awaits the Monitor's rebuild, which may leave
\* tasks unknown on the target without a record.
Navigate ==
    /\ Quiescent /\ nav = "summary"
    /\ leaf' = leaf + 1
    /\ nav' = "monitor"
    /\ saved' = [mark EXCEPT !.branch = leaf + 1]
    /\ \E gone \in SUBSET {t \in Ids : ~mark.tasks[t].known /\ mon[t] # "fresh"} :
         mon' = [t \in Ids |-> IF t \in gone THEN "none" ELSE mon[t]]
    /\ accepted' = {} /\ repeated' = {} /\ refused' = {} /\ dropped' = {}
    /\ reviewed' = [t \in Ids |-> mark.tasks[t].reviewCount]
    /\ UNCHANGED <<mem, mark, log, opVars, wakeVars, timerVars, disposed, hostVars>>

\* navigateTree calls rebuild with the entries of the branch as they are now.
CallRebuild ==
    /\ Quiescent /\ nav = "monitor"
    /\ IF disposed THEN nav' = "none" /\ UNCHANGED opVars
       ELSE nav' = "queued" /\ Enqueue([kind |-> "rebuild", entries |-> saved])
    /\ KeepMem
    /\ UNCHANGED <<mon, log, mark, leaf, wakeVars, timerVars, disposed, hostVars, histVars>>

\* dispose() clears the timer whose handle it has and drops the wake host.
Dispose ==
    /\ Quiescent /\ MayDispose /\ ~disposed
    /\ disposed' = TRUE
    /\ generation' = generation + 1
    /\ pollTimer' = FALSE
    /\ delivering' = FALSE
    /\ KeepMem
    /\ UNCHANGED <<mon, log, opVars, inflight, strays, navVars, hostVars, histVars>>

\* The process ends, at any point, and the session is resumed: constructor,
\* bindWakeHost, which delivers what is queued, and initialize.  A delivery
\* that was under way may or may not have reached the Coordinator's
\* transcript; follow-ups and user messages that were queued are lost.
Restart ==
    /\ restarts < MaxRestarts
    /\ restarts' = restarts + 1
    /\ disposed' = FALSE
    /\ \E ds \in SUBSET inflight : Receive(ds)
    /\ dropped' = dropped \cup KeysOf(followUps)
    /\ followUps' = {} /\ userPending' = FALSE
    /\ LET queued == {e.key : e \in {e \in saved.events : e.state = "queued"}}
           sent   == Mark(saved, queued, "delivered")
           go     == queued # {}
       IN  /\ mem' = IF go THEN sent ELSE saved
           /\ saved' = IF go THEN sent ELSE saved
           /\ delivering' = go
           /\ inflight' = IF go THEN {[gen |-> 0, branch |-> saved.branch, keys |-> queued]} ELSE {}
    /\ generation' = 0
    /\ queue' = <<[kind |-> "init"]>> /\ todo' = <<>> /\ conts' = <<>>
    /\ pollTimer' = FALSE /\ strays' = 0
    /\ nav' = "none"
    /\ UNCHANGED <<mon, log, mark, leaf, refused, reviewed>>

-----------------------------------------------------------------------------

Steps == \/ StepEnd \/ StepObserve \/ StepApply \/ StepReview \/ StepPolled \/ StepConsume
         \/ StepSpawned \/ StepAttached \/ StepRead \/ StepStopped \/ StepGrace
         \/ OpObserve \/ OpSweep \/ OpStart \/ OpAttach \/ OpWait \/ OpLogs \/ OpCancel
         \/ OpRebuild \/ OpFinish \/ OpFail

Next ==
    \/ Steps \/ Continue
    \/ \E t \in Ids : ToolCall(t) \/ MonitorAttaches(t) \/ MonitorChanges(t) \/ LogGrows(t)
    \/ TimerFires \/ DeliverResolves \/ DeliverRejects
    \/ FollowUpTaken \/ FollowUpsCleared \/ UserMessages
    \/ MarkEntry \/ NavigateBegins \/ Navigate \/ CallRebuild \/ Dispose \/ Restart

Spec == Init /\ [][Next]_vars

\* Operations run to their end and their continuations after them (adapters,
\* log reads and the reviewer answer), a due timer fires even if other
\* callbacks keep coming, and a delivery settles.
RunsOn ==
    /\ WF_vars(Steps) /\ WF_vars(Continue)
    /\ SF_vars(TimerFires)
    /\ SF_vars(DeliverResolves \/ DeliverRejects)

\* The host may reject any number of deliveries.
FairSpec == Spec /\ RunsOn

\* The host does not reject every delivery for ever.
HostSpec == Spec /\ RunsOn /\ SF_vars(DeliverResolves)

-----------------------------------------------------------------------------
(* Properties.                                                             *)

Ops(kinds) == {i \in DOMAIN queue : queue[i].kind \in kinds}

\* Every variable keeps its type.
TypeOK ==
    /\ mon \in [Ids -> MonStatus]
    /\ log \in [Ids -> 0..MaxLog]
    /\ {mem, saved, mark} \subseteq Snapshot
    /\ leaf \in 1..MaxBranches
    /\ nav \in {"none", "summary", "monitor", "queued"}
    /\ \A d \in inflight \cup followUps : d.gen \in 0..generation /\ d.keys \subseteq Key
    /\ {delivering, pollTimer, disposed, userPending} \subseteq BOOLEAN
    /\ {generation, strays, restarts} \subseteq Nat

\* The Coordinator receives a wake key again on a branch only when the host
\* rejected a delivery of it whose message was in the transcript already
\* (failWakeDelivery queues its events again).  No crash repeats a wake: an
\* event is persisted as delivered before wakeHost.deliver is called, and a
\* follow-up of an earlier process or one taken late is not delivered again.
OnceUnlessRejected == repeated \subseteq refused

\* Exactly one delivery of the current generation is under way while
\* wakeDelivery is set (in the host, or its finish/fail operation queued),
\* and none while it is clear: two turns are never triggered at once.
OneDelivery ==
    ~disposed =>
      Cardinality({d \in inflight : d.gen = generation})
        + Cardinality({i \in Ops({"finish", "fail"}) : queue[i].gen = generation})
      = IF delivering THEN 1 ELSE 0

\* Until a restart, an event in state delivered belongs to a delivery that
\* will still settle it: failWakeDelivery, finishWakeDelivery and rebuild
\* leave no event behind in that state.
DeliveredHasOwner ==
    restarts = 0 /\ ~disposed =>
      {e.key : e \in {e \in mem.events : e.state = "delivered"}}
        \subseteq (UNION {d.keys : d \in {d \in inflight : d.gen = generation}})
                    \cup (UNION {queue[i].keys : i \in {i \in Ops({"finish", "fail"}) :
                                                            queue[i].gen = generation}})

\* Without a branch switch, what is marked consumed was handed over: it was
\* received, waits in the follow-up queue, or was lost from that queue (by
\* clearQueue or with the process).  A rejected delivery, a restart or a
\* stale completion never consumes a wake.
ConsumedWasHandedOver ==
    leaf = 1 => mem.keys \cup {e.key : e \in {e \in mem.events : e.state = "consumed"}}
                  \subseteq accepted \cup KeysOf(followUps) \cup dropped

\* assertCapacity bounds the active tasks although the process starts, or the
\* attached target is found, only after an await that follows the check.
CapacityRespected == Cardinality(ActiveTasks(mem)) <= MaxConcurrency

\* A task is reviewed at most maxReviews times on a branch, also when the
\* process dies during a review: the budget is persisted before the call.
ReviewBudget == \A t \in Ids : reviewed[t] <= MaxReviews

\* The chain of poll timers is never broken and, until a branch switch, never
\* doubled: a timer is armed, or code that will arm one is pending.
PollChain ==
    LET poll   == (IF pollTimer THEN 1 ELSE 0) + strays + Cardinality(Ops({"poll"}))
                    + Cardinality({i \in DOMAIN todo : todo[i].do = "end" /\ todo[i].cont = "poll"})
                    + Cardinality({i \in DOMAIN conts : conts[i] = "poll"})
        other  == Cardinality(Ops({"init", "rebuild"}))
                    + Cardinality({i \in DOMAIN todo : todo[i].do = "end" /\ todo[i].cont # "poll"})
                    + Cardinality({i \in DOMAIN conts : conts[i] # "poll"})
    IN  ~disposed => /\ poll + other >= 1
                     /\ leaf = 1 => poll + other = 1

\* A task that has completed, with a Coordinator waiting for that, wakes it:
\* the host resolves a delivery of it.
WakeNotMissed ==
    \A t \in Ids :
      (mem.tasks[t].wait /\ "completed" \in mem.tasks[t].triggers /\ mon[t] = "completed")
        ~> \E k \in mem.keys : k.task = t /\ k.reason = "completed"

\* "切换分支时旧 wake delivery 失效，只恢复目标分支事实": after a branch switch
\* the manager holds the facts of the branch it is on, no others.
BranchFactsOnly == nav \in {"none", "summary"} => mem.branch = leaf

\* "dispose 后无 timer、无注入": no poll timer is left after dispose().
DisposeLeavesNoTimer == disposed => ~pollTimer /\ strays = 0

\* "sendCustomMessage 失败：事件保持 queued，有限重试": a wake whose delivery
\* keeps failing is retried finitely often.
FiniteRetries == <>[][~DeliverRejects]_vars
=============================================================================
