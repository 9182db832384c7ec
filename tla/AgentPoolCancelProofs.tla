------------------------ MODULE AgentPoolCancelProofs ------------------------
(***************************************************************************)
(* Proofs about what reaches the child of a delegateTask call: the control *)
(* messages kept before there is a child, and the three ways cancelChild   *)
(* can stop a task (abort the wait, wait for the running tools, abort the  *)
(* run).  They rest on the invariant of AgentPoolProofs: that only a       *)
(* queued call can be moved by another call's release() follows from       *)
(* QueueIsExact.                                                           *)
(***************************************************************************)
EXTENDS AgentPoolProofs

\* What a call in phase p may have in its local variables j.  Beyond the
\* properties themselves, tools run only in a run, and a cancellation that
\* found no child has aborted the wait.
Coherent(p, j) ==
    /\ p \in ChildPhases => j.pending = 0
    /\ p # "draining" => j.draining = 0
    /\ j.tools > 0 => p = "running"
    /\ j.pendingGraceful => p = "running" /\ j.tools > 0
    /\ p \in QueuePhases /\ j.cancelRequested => j.waitAborted

\* The inductive invariant, on top of that of AgentPoolProofs.
ChildInv == \A t \in Tasks : Coherent(pc[t], job[t])

\* One step of one task: a graceful cancellation spares the tools, a
\* cancellation of a queued task is final.
SparesTools(t) ==
    t \in Graceful /\ ~job[t].aborted /\ job'[t].aborted /\ job'[t].tools > 0 => job'[t].timedOut
StaysCancelled(t) ==
    pc[t] \in QueuePhases /\ job[t].cancelRequested => pc'[t] \in QueuePhases \cup {"idle"}

\* What a step does to a task it is not about.
Apart(u) ==
    /\ job'[u] = job[u]
    /\ pc'[u] = pc[u] \/ (pc[u] = "waiting" /\ pc'[u] \in {"granted", "rejected"})

\* What a step makes of the task it is about.
Good(t) == Coherent(pc'[t], job'[t]) /\ SparesTools(t) /\ StaysCancelled(t)

-----------------------------------------------------------------------------

USE DEF JobTypes

\* The phases, told apart.
LEMMA PhaseFacts ==
    /\ QueuePhases = {"waiting", "granted", "claimed", "rejected"}
    /\ ChildPhases = {"draining", "preflight", "running", "settling", "settled"}
    /\ ExecPhases = {"opening", "creating", "draining", "preflight", "running", "settling", "settled"}
  BY DEF QueuePhases, ChildPhases, ExecPhases, SetupPhases

\* A task that a step leaves alone, or that a release() takes out of the
\* queue, keeps the invariant.
LEMMA ApartKeeps ==
    ASSUME ChildInv, NEW u \in Tasks, Apart(u)
    PROVE  Good(u)
  <1>1. Coherent(pc[u], job[u]) /\ job'[u] = job[u]
    BY DEF ChildInv, Apart
  <1>2. SparesTools(u)
    BY <1>1 DEF SparesTools
  <1>3. CASE pc'[u] = pc[u]
    BY <1>1, <1>2, <1>3 DEF Good, StaysCancelled
  <1>4. CASE pc[u] = "waiting" /\ pc'[u] \in {"granted", "rejected"}
    BY <1>1, <1>2, <1>4, PhaseFacts DEF Good, StaysCancelled, Coherent
  <1> QED BY <1>3, <1>4 DEF Apart

\* release() changes the phase of no other call than the waiter it serves.
LEMMA ReleaseApart ==
    ASSUME SlotTypes, SlotInv, NEW t \in leases, NEW x \in {"idle", "rejected"},
           Release(t, [pc EXCEPT ![t] = x])
    PROVE  /\ pc'[t] = x
           /\ \A u \in Tasks \ {t} : pc'[u] = pc[u] \/ (pc[u] = "waiting" /\ pc'[u] = "granted")
  <1> DEFINE p == [pc EXCEPT ![t] = x]
             w == waiters[1]
  <1>1. /\ t \in Tasks /\ x \in Phases /\ pc[t] # "waiting"
    BY DEF SlotTypes, SlotInv, SlotsConserved, SlotPhases, ExecPhases, SetupPhases, ChildPhases,
           Phases, QueuePhases
  <1>2. p \in [Tasks -> Phases] /\ \A u \in Tasks : p[u] = IF u = t THEN x ELSE pc[u]
    BY <1>1 DEF SlotTypes
  <1>3. Release(t, p)
    OBVIOUS
  <1> HIDE DEF p
  <1>4. CASE pc' = p
    BY <1>1, <1>2, <1>4
  <1>5. CASE waiters # <<>> /\ pc' = [p EXCEPT ![w] = "granted"]
    <2>1. waiters \in Seq(Tasks) /\ 1 \in DOMAIN waiters
      <3>1. waiters \in Seq(Tasks) /\ Len(waiters) \in Nat /\ DOMAIN waiters = 1..Len(waiters)
        BY LenProperties DEF SlotTypes
      <3>2. Len(waiters) # 0
        BY <1>5, <3>1, EmptySeq
      <3> QED BY <3>1, <3>2
    <2>2. w \in Waiting
      BY <2>1 DEF Waiting
    <2>3. w \in Tasks /\ pc[w] = "waiting"
      BY <2>2 DEF SlotInv, QueueIsExact
    <2> HIDE DEF w
    <2> QED BY <1>1, <1>2, <1>5, <2>3
  <1> QED BY <1>2, <1>3, <1>4, <1>5, ReleaseEffect

\* The end of a call.
LEMMA FinishGood ==
    ASSUME IInv, NEW t \in Tasks, NEW final, Finish(t, final)
    PROVE  Good(t) /\ \A u \in Tasks \ {t} : Apart(u)
  <1> USE DEF IInv
  <1>1. /\ job'[t] = FreshJob /\ \A u \in Tasks \ {t} : job'[u] = job[u]
    BY DEF Finish
  <1>2. /\ pc'[t] = "idle"
        /\ \A u \in Tasks \ {t} : pc'[u] = pc[u] \/ (pc[u] = "waiting" /\ pc'[u] = "granted")
    <2>1. CASE t \in leases
      BY <2>1, ReleaseApart DEF Finish
    <2>2. CASE t \notin leases
      <3>1. pc' = [pc EXCEPT ![t] = "idle"]
        BY <2>2 DEF Finish
      <3> QED BY <3>1 DEF SlotTypes
    <2> QED BY <2>1, <2>2
  <1>3. Good(t)
    <2>1. /\ FreshJob.draining = 0 /\ FreshJob.tools = 0
          /\ FreshJob.pendingGraceful = FALSE /\ FreshJob.aborted = FALSE
      BY DEF FreshJob
    <2>2. Coherent(pc'[t], job'[t])
      BY <1>1, <1>2, <2>1, PhaseFacts DEF Coherent
    <2> QED BY <1>1, <1>2, <2>1, <2>2 DEF Good, SparesTools, StaysCancelled
  <1> QED BY <1>1, <1>2, <1>3 DEF Apart

\* What cancelChild makes of the variables of a call that does not wait.
LEMMA CancelledCoherent ==
    ASSUME IInv, ChildInv, NEW t \in Tasks, NEW j \in {Cancelled(t), [Cancelled(t) EXCEPT !.parentAborted = TRUE]},
           NEW p \in {pc[t], "rejected"}, p = "rejected" => pc[t] \in QueuePhases
    PROVE  /\ Coherent(p, j)
           /\ t \in Graceful /\ ~job[t].aborted /\ j.aborted => ~(j.tools > 0)
  <1>1. job[t] \in Job /\ Coherent(pc[t], job[t])
    BY DEF IInv, ChildInv
  <1>2. /\ j.pending = job[t].pending /\ j.draining = job[t].draining /\ j.tools = job[t].tools
        /\ j.cancelRequested = TRUE
        /\ ~HasChild(t) => j.waitAborted /\ j.pendingGraceful = job[t].pendingGraceful
                           /\ j.aborted = job[t].aborted
        /\ HasChild(t) /\ t \in Graceful /\ job[t].tools > 0 =>
             j.pendingGraceful /\ j.aborted = job[t].aborted
        /\ HasChild(t) /\ ~(t \in Graceful /\ job[t].tools > 0) =>
             j.pendingGraceful = job[t].pendingGraceful
    BY <1>1 DEF Cancelled, Job
  <1>3. HasChild(t) => pc[t] \notin QueuePhases /\ p = pc[t]
    BY PhaseFacts DEF HasChild
  <1>4. CASE HasChild(t)
    BY <1>1, <1>2, <1>3, <1>4 DEF Coherent
  <1>5. CASE ~HasChild(t)
    <2>1. pc[t] # "draining" /\ pc[t] # "running" /\ pc[t] \notin ChildPhases
      BY <1>5, PhaseFacts DEF HasChild
    <2>2. p # "draining" /\ p # "running" /\ p \notin ChildPhases
      BY <2>1, PhaseFacts
    <2> QED BY <1>1, <1>2, <1>5, <2>1, <2>2 DEF Coherent
  <1> QED BY <1>4, <1>5

\* A step of one call, or of cancelTask or sendAgentMessage for it.
LEMMA TaskStepGood ==
    ASSUME IInv, ChildInv, NEW t \in Tasks, TaskStep(t)
    PROVE  Good(t) /\ \A u \in Tasks \ {t} : Apart(u)
  <1> USE DEF IInv
  <1> DEFINE j == job[t]
             Rest == \A u \in Tasks \ {t} : Apart(u)
  <1>1. /\ j \in Job /\ Coherent(pc[t], j) /\ pc \in [Tasks -> Phases] /\ job \in [Tasks -> Job]
        /\ j.tools \in Nat /\ j.pending \in Nat /\ j.draining \in Nat /\ j.queue \in Nat
    <2>1. j \in Job /\ Coherent(pc[t], j) /\ pc \in [Tasks -> Phases]
      BY DEF ChildInv, SlotTypes
    <2> QED BY <2>1, PoolAssumption DEF Job
  <1>2. ASSUME NEW x, NEW y, pc' = [pc EXCEPT ![t] = x], job' = [job EXCEPT ![t] = y]
        PROVE  pc'[t] = x /\ job'[t] = y /\ Rest
    BY <1>1, <1>2 DEF Apart
  <1>3. pc = [pc EXCEPT ![t] = pc[t]] /\ job = [job EXCEPT ![t] = j]
    BY <1>1
  <1>4. CASE DelegateRefused(t)
    <2>1. pc' = pc /\ job' = job
      BY <1>4 DEF DelegateRefused
    <2>2. \A u \in Tasks : Apart(u)
      BY <2>1 DEF Apart
    <2> QED BY <2>2, ApartKeeps
  <1>5. ASSUME NEW parentAborted \in BOOLEAN, Delegate(t, parentAborted)
        PROVE  Good(t) /\ Rest
    <2> DEFINE y == [FreshJob EXCEPT !.parentAborted = parentAborted,
                                     !.waitAborted = parentAborted,
                                     !.cancelRequested = parentAborted]
    <2>1. /\ job' = [job EXCEPT ![t] = y]
          /\ \E x \in {"rejected", "claimed", "waiting"} : pc' = [pc EXCEPT ![t] = x]
      BY <1>5 DEF Delegate
    <2>2. PICK x \in {"rejected", "claimed", "waiting"} : pc' = [pc EXCEPT ![t] = x]
      BY <2>1
    <2>3. /\ y.draining = 0 /\ y.tools = 0 /\ y.pendingGraceful = FALSE /\ y.aborted = FALSE
          /\ y.waitAborted = y.cancelRequested
      BY DEF FreshJob
    <2> HIDE DEF y
    <2>4. pc'[t] = x /\ job'[t] = y /\ Rest
      BY <1>2, <2>1, <2>2
    <2>5. Coherent(x, y)
      BY <2>3, PhaseFacts DEF Coherent
    <2> QED BY <2>3, <2>4, <2>5, PhaseFacts DEF Good, SparesTools, StaysCancelled
  <1>6. ASSUME NEW x, pc' = [pc EXCEPT ![t] = x], job' = job,
               Coherent(x, j), StaysCancelled(t)
        PROVE  Good(t) /\ Rest
    BY <1>2, <1>3, <1>6 DEF Good, SparesTools
  <1>7. CASE AcquireResumes(t)
    <2>1. pc[t] = "granted" /\ job' = job
      BY <1>7 DEF AcquireResumes
    <2>2. CASE disposed \/ j.waitAborted
      <3>1. Release(t, [pc EXCEPT ![t] = "rejected"])
        BY <1>7, <2>2 DEF AcquireResumes
      <3>2. t \in leases
        BY <2>1 DEF SlotInv, SlotsConserved, SlotPhases
      <3>3. pc'[t] = "rejected" /\ Rest
        BY <2>1, <3>1, <3>2, ReleaseApart DEF Apart
      <3>4. Coherent("rejected", j)
        BY <1>1, <2>1, PhaseFacts DEF Coherent
      <3> QED BY <2>1, <3>3, <3>4, PhaseFacts DEF Good, SparesTools, StaysCancelled
    <2>3. CASE ~(disposed \/ j.waitAborted)
      <3>1. pc' = [pc EXCEPT ![t] = "claimed"]
        BY <1>7, <2>3 DEF AcquireResumes
      <3>2. Coherent("claimed", j)
        BY <1>1, <2>1, PhaseFacts DEF Coherent
      <3>3. StaysCancelled(t)
        BY <1>1, <3>1, PhaseFacts DEF StaysCancelled
      <3> QED BY <1>6, <2>1, <3>1, <3>2, <3>3
    <2> QED BY <2>2, <2>3
  <1>8. CASE AcquireRejected(t) \/ SessionFailed(t) \/ MessageRefused(t) \/ PreflightEnds(t)
             \/ PromptReturns(t)
    BY <1>8, FinishGood DEF AcquireRejected, SessionFailed, MessageRefused, PreflightEnds, PromptReturns
  <1>9. CASE Begin(t)
    <2>1. CASE Finish(t, CatchStatus(t))
      BY <2>1, FinishGood
    <2>2. CASE ~Finish(t, CatchStatus(t))
      <3>1. /\ pc[t] = "claimed" /\ job' = job /\ ~j.waitAborted
            /\ \E x \in {"opening", "creating"} : pc' = [pc EXCEPT ![t] = x]
        BY <1>9, <2>2 DEF Begin
      <3>2. PICK x \in {"opening", "creating"} : pc' = [pc EXCEPT ![t] = x]
        BY <3>1
      <3>3. Coherent(x, j)
        BY <1>1, <3>1, PhaseFacts DEF Coherent
      <3>4. StaysCancelled(t)
        BY <1>1, <3>1, PhaseFacts DEF StaysCancelled, Coherent
      <3> QED BY <1>6, <3>1, <3>2, <3>3, <3>4
    <2> QED BY <2>1, <2>2
  <1>10. ASSUME NEW x, NEW y, pc[t] \in ExecPhases, pc' = [pc EXCEPT ![t] = x],
                job' = [job EXCEPT ![t] = y], Coherent(x, y),
                j.aborted \/ ~y.aborted \/ ~(y.tools > 0) \/ y.timedOut
         PROVE  Good(t) /\ Rest
    BY <1>2, <1>10, PhaseFacts DEF Good, SparesTools, StaysCancelled
  <1>11. CASE TerminalOpened(t)
    <2>1. pc[t] = "opening" /\ pc' = [pc EXCEPT ![t] = "creating"] /\ job' = job
      BY <1>11 DEF TerminalOpened
    <2>2. Coherent("creating", j)
      BY <1>1, <2>1, PhaseFacts DEF Coherent
    <2> QED BY <1>3, <1>10, <2>1, <2>2, PhaseFacts
  <1>12. ASSUME Launch(t), pc[t] \in {"creating", "draining"}, j.pending = 0, j.draining = 0
         PROVE  Good(t) /\ Rest
    <2>1. CASE Finish(t, CatchStatus(t))
      BY <2>1, FinishGood
    <2>2. CASE ~Finish(t, CatchStatus(t))
      <3>1. pc' = [pc EXCEPT ![t] = "preflight"] /\ job' = job
        BY <1>12, <2>2 DEF Launch
      <3>2. Coherent("preflight", j)
        BY <1>1, <1>12, PhaseFacts DEF Coherent
      <3> QED BY <1>3, <1>10, <1>12, <3>1, <3>2, PhaseFacts
    <2> QED BY <2>1, <2>2
  <1>13. CASE SessionCreated(t)
    <2>1. pc[t] = "creating" /\ j.draining = 0
      BY <1>1, <1>13 DEF SessionCreated, Coherent
    <2>2. CASE j.pending = 0
      BY <1>12, <1>13, <2>1, <2>2 DEF SessionCreated
    <2>3. CASE j.pending # 0
      <3> DEFINE y == [j EXCEPT !.draining = j.pending - 1, !.pending = 0, !.queue = @ + 1]
      <3>1. pc' = [pc EXCEPT ![t] = "draining"] /\ job' = [job EXCEPT ![t] = y]
        BY <1>13, <2>3 DEF SessionCreated
      <3>2. /\ y.pending = 0 /\ y.tools = j.tools /\ y.pendingGraceful = j.pendingGraceful
            /\ y.aborted = j.aborted
        BY <1>1 DEF Job
      <3> HIDE DEF y
      <3>3. Coherent("draining", y)
        BY <1>1, <2>1, <3>2, PhaseFacts DEF Coherent
      <3> QED BY <1>10, <2>1, <3>1, <3>2, <3>3, PhaseFacts
    <2> QED BY <2>2, <2>3
  <1>14. CASE MessageDrained(t)
    <2>1. pc[t] = "draining" /\ j.pending = 0
      BY <1>1, <1>14, PhaseFacts DEF MessageDrained, Coherent
    <2>2. CASE j.draining = 0
      BY <1>12, <1>14, <2>1, <2>2 DEF MessageDrained
    <2>3. CASE j.draining # 0
      <3> DEFINE y == [j EXCEPT !.draining = @ - 1, !.queue = @ + 1]
      <3>1. pc' = [pc EXCEPT ![t] = "draining"] /\ job' = [job EXCEPT ![t] = y]
        BY <1>3, <1>14, <2>1, <2>3 DEF MessageDrained
      <3>2. /\ y.pending = 0 /\ y.tools = j.tools /\ y.pendingGraceful = j.pendingGraceful
            /\ y.aborted = j.aborted
        BY <1>1, <2>1 DEF Job
      <3> HIDE DEF y
      <3>3. Coherent("draining", y)
        BY <1>1, <2>1, <3>2, PhaseFacts DEF Coherent
      <3> QED BY <1>10, <2>1, <3>1, <3>2, <3>3, PhaseFacts
    <2> QED BY <2>2, <2>3
  <1>15. CASE RunStarts(t)
    <2> DEFINE y == [j EXCEPT !.aborted = FALSE]
    <2>1. pc[t] = "preflight" /\ pc' = [pc EXCEPT ![t] = "running"] /\ job' = [job EXCEPT ![t] = y]
      BY <1>15 DEF RunStarts
    <2>2. /\ y.pending = j.pending /\ y.draining = j.draining /\ y.tools = j.tools
          /\ y.pendingGraceful = j.pendingGraceful /\ y.aborted = FALSE
      BY <1>1 DEF Job
    <2> HIDE DEF y
    <2>3. Coherent("running", y)
      BY <1>1, <2>1, <2>2, PhaseFacts DEF Coherent
    <2> QED BY <1>10, <2>1, <2>2, <2>3, PhaseFacts
  <1>16. ASSUME pc[t] = "running", pc' = pc, NEW y, job' = [job EXCEPT ![t] = y],
                y.pending = j.pending, y.draining = j.draining,
                y.pendingGraceful => y.tools > 0,
                y.aborted = j.aborted \/ ~(y.tools > 0)
         PROVE  Good(t) /\ Rest
    <2>1. Coherent("running", y)
      BY <1>1, <1>16, PhaseFacts DEF Coherent
    <2>2. pc' = [pc EXCEPT ![t] = "running"]
      BY <1>3, <1>16
    <2> QED BY <1>10, <1>16, <2>1, <2>2, PhaseFacts
  <1>17. j.pendingGraceful => j.tools > 0
    BY <1>1 DEF Coherent
  <1>18. CASE MessageTaken(t)
    <2> DEFINE y == [j EXCEPT !.queue = @ - 1]
    <2>1. pc[t] = "running" /\ pc' = pc /\ job' = [job EXCEPT ![t] = y]
      BY <1>18 DEF MessageTaken
    <2>2. /\ y.pending = j.pending /\ y.draining = j.draining /\ y.tools = j.tools
          /\ y.pendingGraceful = j.pendingGraceful /\ y.aborted = j.aborted
      BY <1>1 DEF Job
    <2> HIDE DEF y
    <2> QED BY <1>16, <1>17, <2>1, <2>2
  <1>19. CASE ToolStarts(t)
    <2> DEFINE y == [j EXCEPT !.tools = @ + 1]
    <2>1. pc[t] = "running" /\ pc' = pc /\ job' = [job EXCEPT ![t] = y]
      BY <1>19 DEF ToolStarts
    <2>2. /\ y.pending = j.pending /\ y.draining = j.draining /\ y.tools > 0
          /\ y.pendingGraceful = j.pendingGraceful /\ y.aborted = j.aborted
      BY <1>1 DEF Job
    <2> HIDE DEF y
    <2> QED BY <1>16, <1>17, <2>1, <2>2
  <1>20. CASE ToolEnds(t)
    <2> DEFINE last == j.pendingGraceful /\ j.tools = 1
               y == [j EXCEPT !.tools = @ - 1, !.pendingGraceful = @ /\ ~last, !.aborted = @ \/ last]
    <2>1. pc[t] = "running" /\ pc' = pc /\ job' = [job EXCEPT ![t] = y] /\ j.tools > 0
      BY <1>20 DEF ToolEnds
    <2>2. /\ y.pending = j.pending /\ y.draining = j.draining /\ y.tools = j.tools - 1
          /\ y.pendingGraceful = (j.pendingGraceful /\ ~last) /\ y.aborted = (j.aborted \/ last)
      BY <1>1 DEF Job
    <2>3. /\ y.pendingGraceful => y.tools > 0
          /\ y.aborted = j.aborted \/ ~(y.tools > 0)
      <3> HIDE DEF y
      <3>1. CASE last
        <4>1. ~y.pendingGraceful
          BY <2>2, <3>1, Zenon
        <4>2. y.tools = 0
          BY <2>2, <3>1
        <4> QED BY <4>1, <4>2
      <3>2. CASE ~last
        <4>1. j.aborted \in BOOLEAN
          BY <1>1 DEF Job
        <4>2. y.aborted = j.aborted
          <5> HIDE DEF last
          <5> QED BY <2>2, <3>2, <4>1, Zenon
        <4>3. y.pendingGraceful => j.pendingGraceful
          <5> HIDE DEF last
          <5> QED BY <2>2, Zenon
        <4>4. j.pendingGraceful => j.tools # 1
          BY <3>2
        <4>5. j.tools # 1 => y.tools > 0
          BY <1>1, <2>1, <2>2
        <4> QED BY <4>2, <4>3, <4>4, <4>5, Zenon
      <3> QED BY <3>1, <3>2
    <2> HIDE DEF y
    <2> QED BY <1>16, <2>1, <2>2, <2>3
  <1>21. CASE BudgetStops(t) \/ RunEnds(t)
    <2>1. \E y \in Job : /\ pc[t] = "running" /\ j.tools = 0
                         /\ pc' = [pc EXCEPT ![t] = "settling"] /\ job' = [job EXCEPT ![t] = y]
                         /\ y.pending = j.pending /\ y.draining = j.draining /\ y.tools = j.tools
                         /\ y.pendingGraceful = j.pendingGraceful
      <3>1. CASE BudgetStops(t)
        <4> DEFINE y == [j EXCEPT !.budgetExceeded = TRUE, !.stop = "stop"]
        <4>1. y \in Job
          BY <1>1 DEF Job, StopReasons
        <4> QED BY <1>1, <3>1, <4>1 DEF BudgetStops, Job
      <3>2. CASE RunEnds(t)
        <4>1. PICK reason \in StopReasons : job' = [job EXCEPT ![t].stop = reason]
          BY <3>2 DEF RunEnds
        <4> DEFINE y == [j EXCEPT !.stop = reason]
        <4>2. y \in Job
          BY <1>1 DEF Job
        <4> QED BY <1>1, <3>2, <4>1, <4>2 DEF RunEnds, Job
      <3> QED BY <1>21, <3>1, <3>2
    <2>2. PICK y \in Job : /\ pc[t] = "running" /\ j.tools = 0
                           /\ pc' = [pc EXCEPT ![t] = "settling"] /\ job' = [job EXCEPT ![t] = y]
                           /\ y.pending = j.pending /\ y.draining = j.draining /\ y.tools = j.tools
                           /\ y.pendingGraceful = j.pendingGraceful
      BY <2>1
    <2>3. Coherent("settling", y)
      BY <1>1, <2>2, PhaseFacts DEF Coherent
    <2>4. pc[t] \in ExecPhases
      BY <2>2, PhaseFacts
    <2>5. ~(y.tools > 0)
      BY <2>2
    <2> QED BY <1>10, <2>2, <2>3, <2>4, <2>5, Zenon
  <1>22. CASE RunSettles(t)
    <2>1. pc[t] = "settling" /\ j.tools = 0
      <3>1. pc[t] = "settling"
        BY <1>22 DEF RunSettles
      <3> QED BY <1>1, <3>1 DEF Coherent
    <2>2. CASE j.queue > 0
      <3> DEFINE y == [j EXCEPT !.aborted = FALSE, !.queue = @ - 1]
      <3>1. pc' = [pc EXCEPT ![t] = "running"] /\ job' = [job EXCEPT ![t] = y]
        BY <1>22, <2>2 DEF RunSettles
      <3>2. /\ y.pending = j.pending /\ y.draining = j.draining /\ y.tools = j.tools
            /\ y.pendingGraceful = j.pendingGraceful /\ y.aborted = FALSE
        BY <1>1 DEF Job
      <3> HIDE DEF y
      <3>3. Coherent("running", y)
        BY <1>1, <2>1, <3>2, PhaseFacts DEF Coherent
      <3> QED BY <1>10, <2>1, <3>1, <3>2, <3>3, PhaseFacts
    <2>3. CASE ~(j.queue > 0)
      <3>1. pc' = [pc EXCEPT ![t] = "settled"] /\ job' = job
        BY <1>22, <2>3 DEF RunSettles
      <3>2. Coherent("settled", j)
        BY <1>1, <2>1, PhaseFacts DEF Coherent
      <3> QED BY <1>3, <1>10, <2>1, <3>1, <3>2, PhaseFacts
    <2> QED BY <2>2, <2>3
  <1>23. CASE TimerFires(t)
    <2> DEFINE y == [j EXCEPT !.timedOut = TRUE, !.pendingGraceful = FALSE,
                              !.aborted = IF HasChild(t) THEN Aborted(t) ELSE @,
                              !.waitAborted = @ \/ ~HasChild(t)]
    <2>1. pc[t] \in ExecPhases /\ pc' = [pc EXCEPT ![t] = pc[t]] /\ job' = [job EXCEPT ![t] = y]
      BY <1>3, <1>23 DEF TimerFires
    <2>2. /\ y.pending = j.pending /\ y.draining = j.draining /\ y.tools = j.tools
          /\ y.pendingGraceful = FALSE /\ y.timedOut = TRUE
      BY <1>1 DEF Job
    <2> HIDE DEF y
    <2>3. Coherent(pc[t], y)
      BY <1>1, <2>1, <2>2, PhaseFacts DEF Coherent
    <2> QED BY <1>10, <2>1, <2>2, <2>3
  <1>24. CASE CancelTask(t) \/ ParentAborts(t)
    <2>1. /\ LeaveQueue(t)
          /\ \E y \in {Cancelled(t), [Cancelled(t) EXCEPT !.parentAborted = TRUE]} :
               job' = [job EXCEPT ![t] = y]
      BY <1>24 DEF CancelTask, ParentAborts
    <2>2. PICK y \in {Cancelled(t), [Cancelled(t) EXCEPT !.parentAborted = TRUE]} :
               job' = [job EXCEPT ![t] = y]
      BY <2>1
    <2>3. \E x \in {pc[t], "rejected"} : /\ pc' = [pc EXCEPT ![t] = x]
                                         /\ x = "rejected" => pc[t] \in QueuePhases
      <3>1. CASE t \in Waiting
        <4>1. pc[t] = "waiting"
          BY <3>1 DEF SlotInv, QueueIsExact
        <4>2. pc' = [pc EXCEPT ![t] = "rejected"]
          BY <2>1, <3>1 DEF LeaveQueue
        <4> QED BY <4>1, <4>2, PhaseFacts
      <3>2. CASE t \notin Waiting
        <4>1. pc' = [pc EXCEPT ![t] = pc[t]]
          BY <1>3, <2>1, <3>2 DEF LeaveQueue
        <4> QED BY <4>1, PhaseFacts
      <3> QED BY <3>1, <3>2
    <2>4. PICK x \in {pc[t], "rejected"} : /\ pc' = [pc EXCEPT ![t] = x]
                                           /\ x = "rejected" => pc[t] \in QueuePhases
      BY <2>3
    <2>5. pc'[t] = x /\ job'[t] = y /\ Rest
      <3>1. pc' = [pc EXCEPT ![t] = x] /\ job' = [job EXCEPT ![t] = y]
        BY <2>2, <2>4, Zenon
      <3> HIDE DEF Rest
      <3> QED BY <1>2, <3>1, Zenon
    <2>6. Coherent(x, y) /\ (t \in Graceful /\ ~j.aborted /\ y.aborted => ~(y.tools > 0))
      <3>1. x \in {pc[t], "rejected"} /\ (x = "rejected" => pc[t] \in QueuePhases)
        BY <2>4, Zenon
      <3>2. IInv
        OBVIOUS
      <3> HIDE DEF IInv
      <3> QED BY <2>2, <3>1, <3>2, CancelledCoherent, Zenon
    <2>7. SparesTools(t) /\ StaysCancelled(t)
      BY <2>4, <2>5, <2>6, PhaseFacts DEF SparesTools, StaysCancelled
    <2> QED BY <2>5, <2>6, <2>7 DEF Good
  <1>25. CASE SendAgentMessage(t)
    <2> DEFINE y == IF HasChild(t) THEN [j EXCEPT !.queue = @ + 1] ELSE [j EXCEPT !.pending = @ + 1]
    <2>1. pc' = [pc EXCEPT ![t] = pc[t]] /\ job' = [job EXCEPT ![t] = y]
      BY <1>3, <1>25 DEF SendAgentMessage
    <2>2. /\ HasChild(t) => y.pending = j.pending
          /\ y.draining = j.draining /\ y.tools = j.tools /\ y.aborted = j.aborted
          /\ y.pendingGraceful = j.pendingGraceful
          /\ y.cancelRequested = j.cancelRequested /\ y.waitAborted = j.waitAborted
      BY <1>1 DEF Job
    <2> HIDE DEF y
    <2>3. Coherent(pc[t], y)
      BY <1>1, <2>2 DEF Coherent, HasChild
    <2>4. pc'[t] = pc[t] /\ job'[t] = y /\ Rest
      BY <1>2, <2>1
    <2> QED BY <2>2, <2>3, <2>4 DEF Good, SparesTools, StaysCancelled
  <1> QED BY <1>4, <1>5, <1>7, <1>8, <1>9, <1>11, <1>13, <1>14, <1>15, <1>18, <1>19, <1>20,
             <1>21, <1>22, <1>23, <1>24, <1>25 DEF TaskStep

\* dispose() does to every active call what cancelTask does.
LEMMA DisposeGood ==
    ASSUME IInv, ChildInv, NEW t \in Tasks, Dispose
    PROVE  Good(t)
  <1> USE DEF IInv
  <1> DEFINE x == IF t \in Waiting THEN "rejected" ELSE pc[t]
             y == IF Active(t) THEN Cancelled(t) ELSE job[t]
  <1>1. pc'[t] = x /\ job'[t] = y
    BY DEF Dispose
  <1>2. t \in Waiting => pc[t] = "waiting" /\ Active(t)
    BY DEF SlotInv, QueueIsExact, Active
  <1>3. x = "rejected" => pc[t] \in QueuePhases
    BY <1>2, PhaseFacts
  <1>4. CASE Active(t)
    <2>1. Coherent(x, y) /\ (t \in Graceful /\ ~job[t].aborted /\ y.aborted => ~(y.tools > 0))
      BY <1>3, <1>4, CancelledCoherent
    <2> QED BY <1>1, <1>3, <2>1, PhaseFacts DEF Good, SparesTools, StaysCancelled
  <1>5. CASE ~Active(t)
    <2>1. pc'[t] = pc[t] /\ job'[t] = job[t]
      BY <1>1, <1>2, <1>5
    <2>2. Apart(t)
      BY <2>1 DEF Apart
    <2> QED BY <2>2, ApartKeeps
  <1> QED BY <1>4, <1>5

\* Every step, for every task.
LEMMA StepGood ==
    ASSUME IInv, ChildInv, [Next]_vars, NEW u \in Tasks
    PROVE  Good(u)
  <1>1. ASSUME NEW t \in Tasks, TaskStep(t)
        PROVE  Good(u)
    <2>1. Good(t) /\ \A v \in Tasks \ {t} : Apart(v)
      BY <1>1, TaskStepGood
    <2>2. CASE u = t
      BY <2>1, <2>2
    <2>3. CASE u # t
      BY <2>1, <2>3, ApartKeeps
    <2> QED BY <2>2, <2>3
  <1>2. CASE Dispose
    BY <1>2, DisposeGood
  <1>3. CASE UNCHANGED vars
    <2>1. Apart(u)
      BY <1>3 DEF vars, Apart
    <2> QED BY <2>1, ApartKeeps
  <1> QED BY <1>1, <1>2, <1>3 DEF Next, TaskStep

-----------------------------------------------------------------------------
(* The theorems.                                                           *)

\* A call before it starts is coherent.
LEMMA InitCoherent == Init => ChildInv
  <1>1. Coherent("idle", FreshJob)
    BY PhaseFacts DEF Coherent, FreshJob
  <1> QED BY <1>1 DEF Init, ChildInv

\* Every step keeps every call coherent.
LEMMA StepCoherent == IInv /\ ChildInv /\ [Next]_vars => ChildInv'
  BY StepGood DEF Good, ChildInv

\* In every reachable state the local variables of every call fit its phase.
THEOREM CoherentCalls == Spec => []ChildInv
  BY InitCoherent, StepCoherent, Invariance, PTL DEF Spec

\* No message that sendAgentMessage accepted before the child existed stays
\* behind in pendingMessages once there is a child.
THEOREM NoMessageStranded == Spec => []NoStrandedMessage
  <1>1. ChildInv => NoStrandedMessage
    BY DEF ChildInv, Coherent, NoStrandedMessage, HasChild
  <1> QED BY <1>1, CoherentCalls, PTL

\* While a graceful cancellation waits, a tool whose end will abort the run
\* is active.
THEOREM GracefulKept == Spec => []GracefulNotForgotten
  <1>1. ChildInv => GracefulNotForgotten
    BY DEF ChildInv, Coherent, GracefulNotForgotten
  <1> QED BY <1>1, CoherentCalls, PTL

\* Under the graceful strategy only a timeout aborts a run that has a tool
\* active: neither cancelTask, the caller's signal nor dispose() does.
THEOREM GracefulSpares == Spec => GracefulSparesTools
  <1>1. IInv /\ ChildInv /\ [Next]_vars
          => [\A t \in Graceful : ~job[t].aborted /\ job'[t].aborted /\ job'[t].tools > 0
                                     => job'[t].timedOut]_vars
    <2> SUFFICES ASSUME IInv, ChildInv, [Next]_vars, NEW t \in Graceful,
                        ~job[t].aborted, job'[t].aborted, job'[t].tools > 0
                 PROVE  job'[t].timedOut
      OBVIOUS
    <2>1. Good(t)
      BY StepGood, PoolAssumption
    <2> QED BY <2>1 DEF Good, SparesTools
  <1> QED BY <1>1, Invariance, CoherentCalls, PTL DEF Spec, GracefulSparesTools

\* A task that is cancelled while it is queued, or between the grant of its
\* slot and its start, never gets a child.
THEOREM QueuedCancelFinal == Spec => QueuedCancelIsFinal
  <1>1. IInv /\ ChildInv /\ [Next]_vars
          => [\A t \in Tasks : pc[t] \in QueuePhases /\ job[t].cancelRequested
                                  => pc'[t] \in QueuePhases \cup {"idle"}]_vars
    BY StepGood DEF Good, StaysCancelled
  <1> QED BY <1>1, Invariance, CoherentCalls, PTL DEF Spec, QueuedCancelIsFinal
=============================================================================
