------------------------------- MODULE Monitor -------------------------------
(***************************************************************************)
(* The monitor runtime of core/monitor/monitor-runtime.ts: the registry of *)
(* monitor records, the serialised poll loop, monitor_wait, monitor_stop,  *)
(* the updates that sub-agents, tools and workflows push, the rebuild that *)
(* session tree navigation asks for, and dispose().                        *)
(*                                                                         *)
(* A record is a mutable object: pollOnce, stop and initialize keep a      *)
(* reference to it across an await, while rebuild may put another object   *)
(* under the same id.  objs[m] holds every object made for the id m and    *)
(* cur[m] says which of them is in the registry.                           *)
(***************************************************************************)
EXTENDS Naturals, Sequences, FiniteSets

CONSTANTS
    Ids,          \* monitor ids
    EndReports,   \* how a target may be reported to have ended
    Waits,        \* monitor_wait calls
    MaxObjects,   \* bound: record objects made for one id
    MaxPolls,     \* bound: poll() calls queued at once
    MaxNavs       \* bound: session tree navigations

ASSUME MonitorAssumption ==
    /\ IsFiniteSet(Ids) /\ IsFiniteSet(Waits)
    /\ EndReports \subseteq {"completed", "failed", "cancelled"}
    /\ MaxObjects \in Nat \ {0} /\ MaxPolls \in Nat \ {0} /\ MaxNavs \in Nat
    /\ "timer" \notin Waits   \* the name of the poll() calls that nobody waits for

VARIABLES
    polled,     \* ids whose adapter observes the target; the others are told by events
    reporting,  \* of those, the ids that the owner of the target reports on
    target,     \* external: what is monitored, "none", "alive" or "ended"
    objs,       \* status of every record object, per id in the order made
    cur,        \* index in objs[m] of the registered object, 0 if there is none
    branch,     \* status of the last entry of each id on the session branch
    nodes,      \* the earlier branch states, while navigation may go there
    pollQueue,  \* the poll() calls not yet done, the first one is running
    loop,       \* the running pollOnce
    wait,       \* the monitor_wait calls
    waiters,    \* registered waiters per id
    stopCall,   \* the monitor_stop call under way
    init,       \* the rebuild/initialize under way
    navs,       \* navigations so far
    disposed

vars == <<polled, reporting, target, objs, cur, branch, nodes, pollQueue, loop, wait,
          waiters, stopCall, init, navs, disposed>>

-----------------------------------------------------------------------------

Terminal == {"completed", "failed", "cancelled", "lost"}
Live     == {"starting", "running", "stalled"}   \* "healthy" is "running" here
Statuses == Live \cup Terminal

NoRef   == [id |-> "none", gen |-> 0]
Refs    == {NoRef} \cup [id : Ids, gen : 1..MaxObjects]
Answers == {"none", "running", "unknown", "missing"} \cup EndReports

Object(r)    == objs[r.id][r.gen]
Current(m)   == objs[m][cur[m]]
Registered   == {m \in Ids : cur[m] # 0}
Visited      == IF navs < MaxNavs THEN nodes \cup {branch} ELSE {}
NoWait       == [phase |-> "idle", id |-> "none", nav |-> 0, aborted |-> FALSE]
Idle         == [phase |-> "idle", ref |-> NoRef, answer |-> "none"]
IdleLoop     == [phase |-> "idle", ref |-> NoRef, answer |-> "none", seen |-> {}]

Init ==
    /\ polled \in SUBSET Ids
    /\ reporting = {}
    /\ target = [m \in Ids |-> "none"]
    /\ objs = [m \in Ids |-> <<>>]
    /\ cur = [m \in Ids |-> 0]
    /\ branch = [m \in Ids |-> "none"]
    /\ nodes = {[m \in Ids |-> "none"]}
    /\ pollQueue = <<>>
    /\ loop = IdleLoop
    /\ wait = [w \in Waits |-> NoWait]
    /\ waiters = [m \in Ids |-> {}]
    /\ stopCall = Idle
    /\ init = [todo |-> {}, ref |-> NoRef, answer |-> "none"]
    /\ navs = 0
    /\ disposed = FALSE

-----------------------------------------------------------------------------
(* transition().                                                           *)

\* transitionAllowed
TransitionAllowed(from, to) ==
    \/ from = to
    \/ from \in Live /\ to \notin {"starting"} \cup (IF from = "starting" THEN {"stalled"} ELSE {})

\* Mutant: the entry is written before the new status is assigned.
PersistBefore(r, status) == branch' = [branch EXCEPT ![r.id] = Object(r)]

\* persist(record): the entry goes to the branch the session is on now,
\* whichever object it comes from.
Persist(r, status) == branch' = [branch EXCEPT ![r.id] = status]

\* Mutant: only a clean end is reported to the waiters.
ResolvedIfCompleted(r, status) == IF status = "completed" THEN waiters[r.id] ELSE {}

\* resolveWaiters: every waiter of the id gets a snapshot of the record.
Resolved(r, status) == IF status \in Terminal THEN waiters[r.id] ELSE {}

\* transition(record, status): refused, or assigned, persisted and, when it
\* is terminal, reported to the waiters.  An entry is also written without a
\* change of status when other facts of the record changed.
Transition(r, status) ==
    IF ~TransitionAllowed(Object(r), status)
    THEN UNCHANGED <<objs, branch, nodes, wait, waiters>>
    ELSE LET done == Resolved(r, status)
         IN  /\ objs' = [objs EXCEPT ![r.id][r.gen] = status]
             /\ \/ Persist(r, status) /\ nodes' = Visited
                \/ Object(r) = status /\ UNCHANGED <<branch, nodes>>
             /\ waiters' = [waiters EXCEPT ![r.id] = @ \ done]
             /\ wait' = [w \in Waits |-> IF w \in done
                                         THEN [wait[w] EXCEPT !.phase = status]
                                         ELSE wait[w]]

-----------------------------------------------------------------------------
(* Targets and the events they push.                                       *)

\* attach(): a record that is registered is returned as it is.  monitor_attach
\* takes any target, one that has ended and one that its owner reports under
\* another id included (the id is a hash over the profile and the log path too).
Attach(m) ==
    /\ ~disposed
    /\ cur[m] = 0
    /\ Len(objs[m]) < MaxObjects
    /\ \E t \in {"alive", "ended"} : target' = [target EXCEPT ![m] = IF @ = "none" THEN t ELSE @]
    /\ \E owner \in SUBSET ({m} \ polled) : reporting' = (reporting \ {m}) \cup owner
    /\ objs' = [objs EXCEPT ![m] = Append(@, "starting")]
    /\ cur' = [cur EXCEPT ![m] = Len(objs[m]) + 1]
    /\ branch' = [branch EXCEPT ![m] = "starting"]
    /\ nodes' = Visited
    /\ UNCHANGED <<polled, pollQueue, loop, wait, waiters, stopCall, init, navs,
                   disposed>>

\* The process exits, the tool returns, the sub-agent ends.
TargetEnds(m) ==
    /\ target[m] = "alive"
    /\ target' = [target EXCEPT ![m] = "ended"]
    /\ UNCHANGED <<polled, reporting, objs, cur, branch, nodes, pollQueue, loop, wait,
                   waiters, stopCall, init, navs, disposed>>

\* handleAgentEvent, handleAgentLifecycleEvent and update(): the runtime that
\* owns the target reports on it.
Update(m) ==
    /\ ~disposed
    /\ m \in Registered \cap reporting
    /\ \E status \in IF target[m] = "alive" THEN {"running"} ELSE EndReports :
         Transition([id |-> m, gen |-> cur[m]], status)
    /\ UNCHANGED <<polled, reporting, target, cur, pollQueue, loop, stopCall, init, navs,
                   disposed>>

-----------------------------------------------------------------------------
(* The poll loop.                                                          *)

\* What adapter.poll says about the target of id m.
AdapterAnswers(m) ==
    IF m \notin polled THEN {"unknown"}
    ELSE IF target[m] = "alive" THEN {"running", "unknown"}
    ELSE EndReports \cup {"missing"}

\* The statuses applyAdapterSnapshot and checkStalled leave a record with;
\* whether its last activity is too long ago is left open.
Observed(status, answer) ==
    LET applied == IF answer \in EndReports THEN answer
                   ELSE IF answer = "unknown" \/ status = "stalled" THEN status
                   ELSE answer
    IN  IF applied \in Terminal \/ applied = "starting" THEN {applied}
        ELSE {"stalled", "running"}

\* Records the loop has still to visit: the iterator of the registry's Map is
\* live, so objects that a rebuild puts there meanwhile are visited too.
Unseen(seen, o) ==
    {[id |-> m, gen |-> cur[m]] : m \in {n \in Registered : o[n][cur[n]] \in Live}} \ seen

\* The loop goes on to a record and awaits its adapter: poll, or stop when
\* the record's timeout is over; after the last one it awaits the listeners.
Visit(seen, o) ==
    \/ \E r \in Unseen(seen, o) :
         loop' \in {[phase |-> "polling", ref |-> r, answer |-> a, seen |-> seen \cup {r}]
                      : a \in AdapterAnswers(r.id)}
                   \cup {[phase |-> "timeout", ref |-> r, answer |-> "none", seen |-> seen \cup {r}]}
    \/ Unseen(seen, o) = {} /\ loop' = [IdleLoop EXCEPT !.phase = "flushing"]

\* poll(), from the interval timer or the background runtime.
Poll ==
    /\ ~disposed
    /\ Len(pollQueue) < MaxPolls
    /\ pollQueue' = Append(pollQueue, "timer")
    /\ UNCHANGED <<polled, reporting, target, objs, cur, branch, nodes, loop, wait,
                   waiters, stopCall, init, navs, disposed>>

\* pollOnce starts.
PollStarts ==
    /\ pollQueue # <<>> /\ loop.phase = "idle"
    /\ IF disposed THEN loop' = [IdleLoop EXCEPT !.phase = "flushing"] ELSE Visit({}, objs)
    /\ UNCHANGED <<polled, reporting, target, objs, cur, branch, nodes, pollQueue, wait,
                   waiters, stopCall, init, navs, disposed>>

\* adapter.poll answered for the record the loop is at; on to the next.
PollAnswered ==
    /\ loop.phase = "polling"
    /\ IF loop.answer = "missing" THEN Transition(loop.ref, "lost")
       ELSE \E status \in Observed(Object(loop.ref), loop.answer) : Transition(loop.ref, status)
    /\ Visit(loop.seen, objs')
    /\ UNCHANGED <<polled, reporting, target, cur, pollQueue, stopCall, init, navs,
                   disposed>>

\* The record's timeout is over and adapter.stop was awaited, which may have
\* failed to end the target.
PollTimedOut ==
    /\ loop.phase = "timeout"
    /\ Transition(loop.ref, "failed")
    /\ Visit(loop.seen, objs')
    /\ target' \in {target, [target EXCEPT ![loop.ref.id] = "ended"]}
    /\ UNCHANGED <<polled, reporting, cur, pollQueue, stopCall, init, navs, disposed>>

\* flushEvents settles: the poll() call at the head of the queue is done.
PollEnds ==
    /\ loop.phase = "flushing"
    /\ loop' = IdleLoop
    /\ pollQueue' = Tail(pollQueue)
    /\ wait' = IF Head(pollQueue) \in Waits
               THEN [wait EXCEPT ![Head(pollQueue)].phase = "polled"] ELSE wait
    /\ UNCHANGED <<polled, reporting, target, objs, cur, branch, nodes, waiters, stopCall,
                   init, navs, disposed>>

-----------------------------------------------------------------------------
(* monitor_wait and monitor_stop.                                          *)

\* wait(): answered at once when the record ended, else poll() first.
Wait(w, m) ==
    /\ wait[w] = NoWait /\ ~disposed
    /\ m \in Registered
    /\ IF Current(m) \in Terminal
       THEN wait' = [wait EXCEPT ![w] = [NoWait EXCEPT !.phase = Current(m), !.id = m]]
            /\ UNCHANGED pollQueue
       ELSE /\ Len(pollQueue) < MaxPolls + Cardinality(Waits)
            /\ wait' = [wait EXCEPT ![w] = [NoWait EXCEPT !.phase = "polling", !.id = m]]
            /\ pollQueue' = Append(pollQueue, w)
    /\ UNCHANGED <<polled, reporting, target, objs, cur, branch, nodes, loop, waiters,
                   stopCall, init, navs, disposed>>

\* Mutant: the record that was looked up before the poll is trusted.
WaitRegistersUnchecked(w) ==
    /\ wait[w].phase = "polled"
    /\ wait' = [wait EXCEPT ![w].phase = "waiting", ![w].nav = navs]
    /\ waiters' = [waiters EXCEPT ![wait[w].id] = @ \cup {w}]
    /\ UNCHANGED <<polled, reporting, target, objs, cur, branch, nodes, pollQueue, loop,
                   stopCall, init, navs, disposed>>

\* wait() after its poll: the signal and the record are looked at again, then
\* the waiter is registered.
WaitRegisters(w) ==
    LET m == wait[w].id
    IN  /\ wait[w].phase = "polled"
        /\ IF wait[w].aborted \/ m \notin Registered
           THEN wait' = [wait EXCEPT ![w].phase = "rejected"] /\ UNCHANGED waiters
           ELSE IF Current(m) \in Terminal
           THEN wait' = [wait EXCEPT ![w].phase = Current(m)] /\ UNCHANGED waiters
           ELSE /\ wait' = [wait EXCEPT ![w].phase = "waiting", ![w].nav = navs]
                /\ waiters' = [waiters EXCEPT ![m] = @ \cup {w}]
        /\ UNCHANGED <<polled, reporting, target, objs, cur, branch, nodes, pollQueue,
                       loop, stopCall, init, navs, disposed>>

\* The abort listener of a registered waiter; before that the flag is only
\* read when the poll is over.
Rejected(w) ==
    IF wait[w].phase = "waiting" THEN [wait[w] EXCEPT !.phase = "rejected", !.aborted = TRUE]
    ELSE IF wait[w].phase \in {"polling", "polled"} THEN [wait[w] EXCEPT !.aborted = TRUE]
    ELSE wait[w]

\* The user aborts the run that called monitor_wait; a registered waiter may
\* also be rejected by its timeoutMs.
WaitAborted(w) ==
    /\ wait[w].phase \in {"polling", "polled", "waiting"} /\ ~wait[w].aborted
    /\ wait' = [wait EXCEPT ![w] = Rejected(w)]
    /\ waiters' = [m \in Ids |-> waiters[m] \ {w}]
    /\ UNCHANGED <<polled, reporting, target, objs, cur, branch, nodes, pollQueue, loop,
                   stopCall, init, navs, disposed>>

\* stop(): the adapter is asked to stop the target, which it refuses or does.
Stop(m) ==
    /\ stopCall.phase = "idle" /\ ~disposed
    /\ m \in Registered /\ Current(m) \in Live
    /\ \E accepted \in BOOLEAN :
         /\ stopCall' = [phase |-> "stopping", ref |-> [id |-> m, gen |-> cur[m]],
                         answer |-> IF accepted THEN "cancelled" ELSE "none"]
         /\ target' = IF accepted THEN [target EXCEPT ![m] = "ended"] ELSE target
    /\ UNCHANGED <<polled, reporting, objs, cur, branch, nodes, pollQueue, loop, wait,
                   waiters, init, navs, disposed>>

\* adapter.stop answered.
StopAnswered ==
    /\ stopCall.phase = "stopping"
    /\ IF stopCall.answer = "cancelled" THEN Transition(stopCall.ref, "cancelled")
       ELSE UNCHANGED <<objs, branch, nodes, wait, waiters>>
    /\ stopCall' = Idle
    /\ UNCHANGED <<polled, reporting, target, cur, pollQueue, loop, init, navs, disposed>>

-----------------------------------------------------------------------------
(* navigateTree: rebuild, then initialize.                                 *)

\* initialize() goes on to a restored record that is live and polls it.
InitializeNext(todo, o, c) ==
    LET live == {m \in todo : c[m] # 0 /\ o[m][c[m]] \in Live}
    IN  \/ live = {} /\ init' = [todo |-> {}, ref |-> NoRef, answer |-> "none"]
        \/ \E m \in live, a \in Answers :
             /\ a \in AdapterAnswers(m)
             /\ init' = [todo |-> todo \ {m}, ref |-> [id |-> m, gen |-> c[m]], answer |-> a]

\* restoreRecords: a new object for every id with an entry on the branch,
\* after the objects of old; every other record is dropped.
Restore(old, entries) ==
    LET kept == {m \in Ids : entries[m] # "none"}
        o    == [m \in Ids |-> IF m \in kept THEN Append(old[m], entries[m]) ELSE old[m]]
        c    == [m \in Ids |-> IF m \in kept THEN Len(o[m]) ELSE 0]
    IN  objs' = o /\ cur' = c /\ InitializeNext(kept, o, c)

\* The leaf moved to an earlier entry or to another branch, then rebuild():
\* the operations under way keep the objects they have.
Navigate(node) ==
    /\ ~disposed /\ navs < MaxNavs
    /\ init.ref = NoRef
    /\ \A m \in Ids : Len(objs[m]) < MaxObjects
    /\ Restore(objs, node)
    /\ branch' = node
    /\ nodes' = IF navs + 1 < MaxNavs THEN nodes \cup {branch} ELSE {}
    /\ navs' = navs + 1
    /\ UNCHANGED <<polled, reporting, target, pollQueue, loop, wait, waiters, stopCall,
                   disposed>>

\* The program ends, with or without dispose(), and the session is resumed:
\* the constructor restores the branch and initialize() runs.
Restart ==
    /\ Restore([m \in Ids |-> <<>>], branch)
    /\ pollQueue' = <<>> /\ loop' = IdleLoop /\ stopCall' = Idle
    /\ wait' = [w \in Waits |-> NoWait]
    /\ waiters' = [m \in Ids |-> {}]
    /\ disposed' = FALSE
    /\ reporting' = {}   \* the tools, sub-agents and workflows are gone
    /\ UNCHANGED <<polled, target, branch, nodes, navs>>

\* The adapter answered: a target that is not confirmed is lost.
InitializeAnswered ==
    /\ init.ref # NoRef
    /\ IF init.answer \in {"missing", "unknown"} THEN Transition(init.ref, "lost")
       ELSE \E status \in Observed(Object(init.ref), init.answer) : Transition(init.ref, status)
    /\ InitializeNext(init.todo, objs', cur)
    /\ UNCHANGED <<polled, reporting, target, cur, pollQueue, loop, stopCall, navs,
                   disposed>>

\* Mutant: the monitor is disposed of before the run's signal is aborted.
DisposeFirst ==
    /\ ~disposed
    /\ disposed' = TRUE
    /\ wait' = [w \in Waits |-> IF wait[w].phase = "waiting" /\ wait[w].id \in Registered
                                THEN [wait[w] EXCEPT !.phase = Current(wait[w].id)]
                                ELSE wait[w]]
    /\ waiters' = [m \in Ids |-> {}]
    /\ UNCHANGED <<polled, reporting, target, objs, cur, branch, nodes, pollQueue, loop,
                   stopCall, init, navs>>

\* AgentSession.dispose: agent.abort() aborts the waits, then the monitor's
\* dispose() stops the timer and drops what waiters are left.
Dispose ==
    /\ ~disposed
    /\ disposed' = TRUE
    /\ wait' = [w \in Waits |-> Rejected(w)]
    /\ waiters' = [m \in Ids |-> {}]
    /\ UNCHANGED <<polled, reporting, target, objs, cur, branch, nodes, pollQueue, loop,
                   stopCall, init, navs>>

-----------------------------------------------------------------------------

Next ==
    \/ \E m \in Ids : Attach(m) \/ TargetEnds(m) \/ Update(m) \/ Stop(m)
    \/ Poll \/ PollStarts \/ PollAnswered \/ PollTimedOut  \/ PollEnds
    \/ \E w \in Waits : \/ \E m \in Ids : Wait(w, m)
                        \/ WaitRegisters(w) \/ WaitAborted(w)
    \/ StopAnswered
    \/ \E node \in nodes : Navigate(node)
    \/ InitializeAnswered
    \/ Dispose \/ Restart

Spec == Init /\ [][Next]_vars

\* The event loop runs continuations and adapters answer; the interval timer
\* fires; a target ends some day, and a runtime that reports on a record
\* reports that.
FairSpec ==
    /\ Spec
    /\ WF_vars(Poll) /\ WF_vars(PollStarts) /\ WF_vars(PollAnswered) /\ WF_vars(PollTimedOut)
    /\ WF_vars(PollEnds) /\ WF_vars(StopAnswered) /\ WF_vars(InitializeAnswered)
    /\ \A w \in Waits : WF_vars(WaitRegisters(w))
    /\ \A m \in Ids : WF_vars(TargetEnds(m)) /\ WF_vars(target[m] = "ended" /\ Update(m))

-----------------------------------------------------------------------------
(* Properties.                                                             *)

\* Every variable keeps its type; the registry points at existing objects.
TypeOK ==
    /\ polled \subseteq Ids /\ reporting \subseteq Ids \ polled
    /\ target \in [Ids -> {"none", "alive", "ended"}]
    /\ \A m \in Ids : /\ objs[m] \in Seq(Statuses) /\ Len(objs[m]) <= MaxObjects
                      /\ cur[m] \in 0..Len(objs[m])
                      /\ waiters[m] \subseteq Waits
    /\ branch \in [Ids -> Statuses \cup {"none"}]
    /\ loop.ref \in Refs /\ stopCall.ref \in Refs /\ init.ref \in Refs
    /\ loop.answer \in Answers /\ init.answer \in Answers
    /\ navs \in 0..MaxNavs
    /\ disposed \in BOOLEAN

\* transition and wait together lose no wake-up: nobody waits for a record
\* that has ended, however the end races with the poll before the wait, with
\* monitor_stop and with pushed events.  Only a navigation since the waiter
\* was registered, which replaces records without looking at the waiters,
\* leaves one behind.
NoLostWakeup ==
    \A m \in Ids : \A w \in waiters[m] :
        wait[w].nav = navs => m \in Registered /\ Current(m) \in Live

\* monitor_wait returns a record only when it has ended: it is never resolved
\* by dispose() with a live one, because the run's signal is aborted first.
WaitReturnsEnded == \A w \in Waits : wait[w].phase \notin Live

\* A record that ended stays as it ended while a poll, a stop and pushed
\* events still hold it, and across a restart of the program, because every
\* change of status is persisted.  A navigation is excepted: it goes back to
\* older entries, and the operations that are under way then write entries of
\* objects that are no longer registered.
EndedIsFinal ==
    [][\A m \in Registered : Current(m) \in Terminal /\ navs' = 0
                                => m \in Registered' /\ Current(m)' = Current(m)]_vars

\* Every monitor_wait for a record that an adapter observes or an owner reports
\* on ends once the target does, unless a navigation takes the record away.  (A
\* record nobody reports on keeps its waits until a timeout, a stop or an abort.)
EveryWaitEnds ==
    \A w \in Waits :
        /\ wait[w].phase \in {"polling", "polled", "waiting"}
        /\ wait[w].id \in polled \cup reporting
        ~> (navs > 0 \/ wait[w].phase \notin {"polling", "polled", "waiting"})
=============================================================================
