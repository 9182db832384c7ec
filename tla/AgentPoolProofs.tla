--------------------------- MODULE AgentPoolProofs ---------------------------
(***************************************************************************)
(* Proofs about AgentPool for every set of tasks, number of slots, record  *)
(* limit and bound: its type invariant, the slot discipline of acquire,    *)
(* claimSlot and release, which implement Semaphore, and the record        *)
(* discipline of registerTaskRecord, pruneTaskRecords and emitTerminal.    *)
(*                                                                         *)
(* The parts of the invariant are proved together because they need each   *)
(* other.  Release hands a slot to the first waiter only because no        *)
(* aborted waiter is queued (QueueIsExact), and keeps the count at its     *)
(* maximum only because a waiter implies that every slot is taken          *)
(* (NoStrandedWaiter).  Delegate starts from an idle call only because an  *)
(* active task keeps its record (PruneKeepsActive), so that its id is      *)
(* refused.  MessageBound makes the types of the message counters          *)
(* inductive: their sum is what SendAgentMessage tests.                    *)
(***************************************************************************)
EXTENDS AgentPool, TLAPS, FiniteSetTheorems, SequenceTheorems

\* The messages of a task, wherever they are, stay within the bound.
MessageBound == \A t \in Tasks : Messages(t) <= MaxMessages

\* The parts of the type invariant.
SlotTypes ==
    /\ pc \in [Tasks -> Phases]
    /\ activeCount \in Nat
    /\ leases \in SUBSET Tasks
    /\ waiters \in Seq(Tasks)
JobTypes == job \in [Tasks -> Job]
RecordTypes ==
    /\ disposed \in BOOLEAN
    /\ status \in [Tasks -> Statuses]
    /\ finals \in [Tasks -> Nat]

\* The slot discipline.
SlotInv == SlotsConserved /\ NoStrandedWaiter /\ QueueIsExact

\* The record discipline.
RecordInv == PruneKeepsActive /\ OneTerminalEvent

\* The inductive invariant.
IInv == SlotTypes /\ JobTypes /\ RecordTypes /\ MessageBound /\ SlotInv /\ RecordInv

-----------------------------------------------------------------------------
(* Sequences.                                                              *)

\* Taking the element at position i out of a sequence without repetitions.
LEMMA RemoveAt ==
    ASSUME NEW S, NEW s \in Seq(S), NEW i \in DOMAIN s,
           \A j, k \in DOMAIN s : s[j] = s[k] => j = k
    PROVE  LET r == SubSeq(s, 1, i - 1) \o SubSeq(s, i + 1, Len(s))
           IN  /\ r \in Seq(S)
               /\ \A j, k \in DOMAIN r : r[j] = r[k] => j = k
               /\ {r[j] : j \in DOMAIN r} = {s[j] : j \in DOMAIN s} \ {s[i]}
  <1> DEFINE n == Len(s)
             a == SubSeq(s, 1, i - 1)
             b == SubSeq(s, i + 1, n)
             r == a \o b
  <1>1. n \in Nat /\ DOMAIN s = 1..n /\ i \in 1..n
    BY LenProperties
  <1>2. \A j \in 1..n : s[j] \in S
    BY <1>1, ElementOfSeq
  <1>3. /\ 1 \in Int /\ i - 1 \in Int /\ i + 1 \in Int /\ n \in Int
        /\ \A j \in 1..(i - 1) : s[j] \in S
        /\ \A j \in (i + 1)..n : s[j] \in S
    <2> HIDE DEF n
    <2> QED BY <1>1, <1>2
  <1>4. /\ a \in Seq(S)
        /\ Len(a) = IF 1 <= i - 1 THEN (i - 1) - 1 + 1 ELSE 0
        /\ \A j \in 1..((i - 1) - 1 + 1) : a[j] = s[1 + j - 1]
    BY <1>3, SubSeqProperties
  <1>5. /\ b \in Seq(S)
        /\ Len(b) = IF i + 1 <= n THEN n - (i + 1) + 1 ELSE 0
        /\ \A j \in 1..(n - (i + 1) + 1) : b[j] = s[(i + 1) + j - 1]
    BY <1>3, SubSeqProperties
  <1>6. /\ r \in Seq(S) /\ Len(r) = Len(a) + Len(b)
        /\ \A j \in 1..(Len(a) + Len(b)) : r[j] = IF j <= Len(a) THEN a[j] ELSE b[j - Len(a)]
    <2>1. a \in Seq(S) /\ b \in Seq(S)
      BY <1>4, <1>5
    <2> HIDE DEF a, b
    <2> QED BY <2>1, ConcatProperties
  <1>7. DOMAIN r = 1..(Len(a) + Len(b))
    <2> HIDE DEF r, a, b
    <2> QED BY <1>6, LenProperties
  <1> HIDE DEF r, a, b, n
  <1>8. Len(a) = i - 1 /\ Len(b) = n - i
    BY <1>1, <1>4, <1>5
  <1>9. DOMAIN r = 1..(n - 1)
    BY <1>1, <1>7, <1>8
  <1>10. ASSUME NEW j \in 1..(n - 1), j < i
        PROVE  r[j] = s[j]
    BY <1>1, <1>4, <1>6, <1>8, <1>10
  <1>11. ASSUME NEW j \in 1..(n - 1), ~(j < i)
        PROVE  r[j] = s[j + 1]
    <2>1. r[j] = b[j - (i - 1)]
      BY <1>1, <1>6, <1>8, <1>11
    <2>2. j - (i - 1) \in 1..(n - (i + 1) + 1) /\ (i + 1) + (j - (i - 1)) - 1 = j + 1
      BY <1>1, <1>11
    <2> QED BY <2>1, <2>2, <1>5
  <1>12. \A j, k \in DOMAIN r : r[j] = r[k] => j = k
    <2> SUFFICES ASSUME NEW j \in 1..(n - 1), NEW k \in 1..(n - 1), r[j] = r[k]
                 PROVE  j = k
      BY <1>9
    <2> DEFINE f(x) == IF x < i THEN x ELSE x + 1
    <2>1. f(j) \in 1..n /\ f(k) \in 1..n /\ (f(j) = f(k) => j = k)
      BY <1>1
    <2>2. r[j] = s[f(j)] /\ r[k] = s[f(k)]
      BY <1>10, <1>11
    <2> HIDE DEF f
    <2> QED BY <2>1, <2>2, <1>1
  <1>13. ASSUME NEW k \in 1..n, k # i
        PROVE  \E j \in DOMAIN r : r[j] = s[k]
    <2>1. CASE k < i
      <3>1. k \in 1..(n - 1)
        BY <1>1, <2>1
      <3> QED BY <2>1, <3>1, <1>9, <1>10
    <2>2. CASE ~(k < i)
      <3>1. k - 1 \in 1..(n - 1) /\ ~(k - 1 < i) /\ (k - 1) + 1 = k
        BY <1>1, <2>2, <1>13
      <3>2. r[k - 1] = s[k]
        BY <3>1, <1>11
      <3> QED BY <3>1, <3>2, <1>9
    <2> QED BY <2>1, <2>2
  <1>14. ASSUME NEW j \in 1..(n - 1)
        PROVE  \E k \in 1..n : k # i /\ r[j] = s[k]
    <2>1. CASE j < i
      <3>1. j \in 1..n /\ j # i
        BY <1>1, <2>1
      <3> QED BY <2>1, <3>1, <1>10
    <2>2. CASE ~(j < i)
      <3>1. j + 1 \in 1..n /\ j + 1 # i
        BY <1>1, <2>2
      <3> QED BY <2>2, <3>1, <1>11
    <2> QED BY <2>1, <2>2
  <1>15. ASSUME NEW j \in DOMAIN r
        PROVE  r[j] \in {s[k] : k \in DOMAIN s} \ {s[i]}
    <2>1. PICK k \in 1..n : k # i /\ r[j] = s[k]
      BY <1>9, <1>14
    <2>2. s[k] # s[i]
      BY <1>1, <2>1
    <2> QED BY <1>1, <2>1, <2>2
  <1>16. ASSUME NEW x \in {s[k] : k \in DOMAIN s} \ {s[i]}
        PROVE  x \in {r[j] : j \in DOMAIN r}
    <2>1. PICK k \in 1..n : k # i /\ x = s[k]
      BY <1>1
    <2> QED BY <2>1, <1>13
  <1>17. {r[j] : j \in DOMAIN r} = {s[j] : j \in DOMAIN s} \ {s[i]}
    <2>1. \A x \in {r[j] : j \in DOMAIN r} : x \in {s[j] : j \in DOMAIN s} \ {s[i]}
      BY <1>15
    <2>2. \A x \in {s[j] : j \in DOMAIN s} \ {s[i]} : x \in {r[j] : j \in DOMAIN r}
      BY <1>16
    <2> QED BY <2>1, <2>2
  <1> QED BY <1>6, <1>12, <1>17 DEF r, a, b, n

\* Taking the first element out.
LEMMA RemoveFirst ==
    ASSUME NEW S, NEW s \in Seq(S), s # <<>>,
           \A j, k \in DOMAIN s : s[j] = s[k] => j = k
    PROVE  LET r == SubSeq(s, 2, Len(s))
           IN  /\ s[1] \in S /\ 1 \in DOMAIN s
               /\ r \in Seq(S)
               /\ \A j, k \in DOMAIN r : r[j] = r[k] => j = k
               /\ {r[j] : j \in DOMAIN r} = {s[j] : j \in DOMAIN s} \ {s[1]}
  <1> DEFINE n == Len(s)
             r == SubSeq(s, 2, n)
  <1>1. n \in Nat /\ DOMAIN s = 1..n
    BY LenProperties
  <1>2. n # 0
    BY EmptySeq
  <1>3. /\ 1 \in 1..n /\ 2 \in Int /\ n \in Int
        /\ 1 - 1 = 0 /\ 1 + 1 = 2 /\ 0 \in Int /\ 1 \in Int /\ 0 < 1
    <2> HIDE DEF n
    <2> QED BY <1>1, <1>2
  <1>4. \A j \in 1..n : s[j] \in S
    BY <1>1, ElementOfSeq
  <1>5. \A j \in 2..n : s[j] \in S
    <2> HIDE DEF n
    <2> QED BY <1>1, <1>4
  <1>6. r \in Seq(S)
    BY <1>3, <1>5, SubSeqProperties
  <1>7. SubSeq(s, 1, 0) = <<>>
    BY <1>3, SubSeqEmpty
  <1>8. SubSeq(s, 1, 1 - 1) \o SubSeq(s, 1 + 1, Len(s)) = r
    <2>1. <<>> \o r = r
      <3> HIDE DEF r
      <3> QED BY <1>6, ConcatEmptySeq
    <2> QED BY <1>3, <1>7, <2>1, Zenon
  <1>9. LET q == SubSeq(s, 1, 1 - 1) \o SubSeq(s, 1 + 1, Len(s))
        IN  /\ \A j, k \in DOMAIN q : q[j] = q[k] => j = k
            /\ {q[j] : j \in DOMAIN q} = {s[j] : j \in DOMAIN s} \ {s[1]}
    BY <1>1, <1>3, RemoveAt
  <1>10. /\ \A j, k \in DOMAIN r : r[j] = r[k] => j = k
         /\ {r[j] : j \in DOMAIN r} = {s[j] : j \in DOMAIN s} \ {s[1]}
    <2> HIDE DEF r
    <2> QED BY <1>8, <1>9, Zenon
  <1> QED BY <1>1, <1>3, <1>4, <1>6, <1>10

-----------------------------------------------------------------------------
(* The types of the local variables, of the records and of the history.    *)

USE DEF JobTypes

\* One call's variables change to a record of the right type and bound.
LEMMA JobUpdate ==
    ASSUME JobTypes, MessageBound, NEW t \in Tasks, NEW j \in Job,
           j.pending + j.draining + j.queue <= MaxMessages,
           job' = [job EXCEPT ![t] = j]
    PROVE  JobTypes' /\ MessageBound'
  <1>1. JobTypes'
    OBVIOUS
  <1>2. \A u \in Tasks : job'[u] = IF u = t THEN j ELSE job[u]
    OBVIOUS
  <1> QED BY <1>1, <1>2 DEF MessageBound, Messages

\* The variables of a call before it starts.
LEMMA FreshJobType == FreshJob \in Job /\ FreshJob.pending + FreshJob.draining + FreshJob.queue = 0
  BY PoolAssumption DEF FreshJob, Job, StopReasons

\* cancelChild keeps the types of the variables.
LEMMA CancelledType ==
    ASSUME JobTypes, MessageBound, NEW t \in Tasks
    PROVE  /\ Cancelled(t) \in Job
           /\ Cancelled(t).pending + Cancelled(t).draining + Cancelled(t).queue <= MaxMessages
  <1>1. job[t] \in Job /\ job[t].pending + job[t].draining + job[t].queue <= MaxMessages
    BY DEF MessageBound, Messages
  <1>2. Aborted(t) \in BOOLEAN
    BY <1>1 DEF Aborted, Job
  <1> QED BY <1>1, <1>2 DEF Cancelled, Job

\* The end of a call resets its variables.
LEMMA FinishJob ==
    ASSUME JobTypes, MessageBound, NEW t \in Tasks, NEW final, Finish(t, final)
    PROVE  JobTypes' /\ MessageBound'
  <1>1. job' = [job EXCEPT ![t] = FreshJob]
    BY DEF Finish
  <1>2. FreshJob.pending + FreshJob.draining + FreshJob.queue <= MaxMessages
    BY FreshJobType, PoolAssumption
  <1> QED BY <1>1, <1>2, FreshJobType, JobUpdate

\* A step of one call keeps the types of its variables.
LEMMA JobTaskStep ==
    ASSUME JobTypes, MessageBound, NEW t \in Tasks,
           \/ DelegateRefused(t)
           \/ \E parentAborted \in BOOLEAN : Delegate(t, parentAborted)
           \/ AcquireResumes(t) \/ AcquireRejected(t) \/ Begin(t) \/ TerminalOpened(t)
           \/ SessionCreated(t) \/ SessionFailed(t) \/ MessageDrained(t) \/ MessageRefused(t)
           \/ PreflightEnds(t) \/ RunStarts(t) \/ MessageTaken(t) \/ ToolStarts(t)
           \/ ToolEnds(t) \/ BudgetStops(t) \/ RunEnds(t) \/ RunSettles(t)
           \/ PromptReturns(t) \/ TimerFires(t) \/ CancelTask(t) \/ ParentAborts(t)
           \/ SendAgentMessage(t)
    PROVE  JobTypes' /\ MessageBound'
  <1> DEFINE j == job[t]
             Fits(x) == x \in Job /\ x.pending + x.draining + x.queue <= MaxMessages
  <1>1. /\ Fits(j)
        /\ MaxMessages \in Nat /\ MaxTools \in Nat
        /\ j.pending \in 0..MaxMessages /\ j.draining \in 0..MaxMessages
        /\ j.queue \in 0..MaxMessages /\ j.tools \in 0..MaxTools
    BY PoolAssumption DEF MessageBound, Messages, Job
  <1>2. ASSUME NEW x, Fits(x), job' = [job EXCEPT ![t] = x]
        PROVE  JobTypes' /\ MessageBound'
    BY <1>2, JobUpdate
  <1>3. ASSUME job' = job
        PROVE  JobTypes' /\ MessageBound'
    BY <1>3 DEF MessageBound, Messages
  <1>4. CASE DelegateRefused(t)
    BY <1>3, <1>4 DEF DelegateRefused
  <1>5. ASSUME NEW parentAborted \in BOOLEAN, Delegate(t, parentAborted)
        PROVE  JobTypes' /\ MessageBound'
    <2> DEFINE x == [FreshJob EXCEPT !.parentAborted = parentAborted,
                                     !.waitAborted = parentAborted,
                                     !.cancelRequested = parentAborted]
    <2>1. Fits(x)
      <3>1. x \in Job
        BY FreshJobType DEF Job
      <3>2. x.pending = 0 /\ x.draining = 0 /\ x.queue = 0
        BY DEF FreshJob
      <3> HIDE DEF x
      <3> QED BY <3>1, <3>2, <1>1
    <2>2. job' = [job EXCEPT ![t] = x]
      BY <1>5 DEF Delegate
    <2> HIDE DEF x, Fits
    <2> QED BY <1>2, <2>1, <2>2
  <1>6. CASE AcquireResumes(t) \/ TerminalOpened(t)
    BY <1>3, <1>6 DEF AcquireResumes, TerminalOpened
  <1>7. CASE AcquireRejected(t) \/ SessionFailed(t) \/ MessageRefused(t) \/ PreflightEnds(t)
             \/ PromptReturns(t)
    BY <1>7, FinishJob DEF AcquireRejected, SessionFailed, MessageRefused, PreflightEnds, PromptReturns
  <1>8. CASE Begin(t)
    BY <1>3, <1>8, FinishJob DEF Begin
  <1>9. ASSUME Launch(t)
        PROVE  JobTypes' /\ MessageBound'
    BY <1>3, <1>9, FinishJob DEF Launch
  <1>10. CASE SessionCreated(t)
    <2>1. CASE j.pending = 0
      BY <1>9, <1>10, <2>1 DEF SessionCreated
    <2>2. CASE j.pending # 0
      <3> DEFINE x == [j EXCEPT !.draining = j.pending - 1, !.pending = 0, !.queue = @ + 1]
      <3>1. Fits(x)
        <4>1. /\ j.pending - 1 \in 0..MaxMessages /\ 0 \in 0..MaxMessages
              /\ j.queue + 1 \in 0..MaxMessages
              /\ 0 + (j.pending - 1) + (j.queue + 1) <= MaxMessages
          BY <1>1, <2>2
        <4>2. x \in Job
          BY <1>1, <4>1 DEF Job
        <4>3. x.pending = 0 /\ x.draining = j.pending - 1 /\ x.queue = j.queue + 1
          BY <1>1 DEF Job
        <4> HIDE DEF x
        <4> QED BY <4>1, <4>2, <4>3
      <3>2. job' = [job EXCEPT ![t] = x]
        BY <1>10, <2>2 DEF SessionCreated
      <3> HIDE DEF x, Fits
      <3> QED BY <1>2, <3>1, <3>2
    <2> QED BY <2>1, <2>2
  <1>11. CASE MessageDrained(t)
    <2>1. CASE j.draining = 0
      BY <1>9, <1>11, <2>1 DEF MessageDrained
    <2>2. CASE j.draining # 0
      <3> DEFINE x == [j EXCEPT !.draining = @ - 1, !.queue = @ + 1]
      <3>1. Fits(x)
        <4>1. /\ j.draining - 1 \in 0..MaxMessages
              /\ j.queue + 1 \in 0..MaxMessages
              /\ j.pending + (j.draining - 1) + (j.queue + 1) <= MaxMessages
          BY <1>1, <2>2
        <4>2. x \in Job
          BY <1>1, <4>1 DEF Job
        <4>3. x.pending = j.pending /\ x.draining = j.draining - 1 /\ x.queue = j.queue + 1
          BY <1>1 DEF Job
        <4> HIDE DEF x
        <4> QED BY <4>1, <4>2, <4>3
      <3>2. job' = [job EXCEPT ![t] = x]
        BY <1>11, <2>2 DEF MessageDrained
      <3> HIDE DEF x, Fits
      <3> QED BY <1>2, <3>1, <3>2
    <2> QED BY <2>1, <2>2
  <1>12. CASE RunStarts(t)
    <2> DEFINE x == [j EXCEPT !.aborted = FALSE]
    <2>1. Fits(x)
      BY <1>1 DEF Job
    <2>2. job' = [job EXCEPT ![t] = x]
      BY <1>12 DEF RunStarts
    <2> HIDE DEF x, Fits
    <2> QED BY <1>2, <2>1, <2>2
  <1>13. CASE MessageTaken(t)
    <2> DEFINE x == [j EXCEPT !.queue = @ - 1]
    <2>1. Fits(x)
      BY <1>1, <1>13, PoolAssumption DEF Job, MessageTaken
    <2>2. job' = [job EXCEPT ![t] = x]
      BY <1>13 DEF MessageTaken
    <2> HIDE DEF x, Fits
    <2> QED BY <1>2, <2>1, <2>2
  <1>14. CASE ToolStarts(t)
    <2> DEFINE x == [j EXCEPT !.tools = @ + 1]
    <2>1. Fits(x)
      BY <1>1, <1>14, PoolAssumption DEF Job, ToolStarts
    <2>2. job' = [job EXCEPT ![t] = x]
      BY <1>14 DEF ToolStarts
    <2> HIDE DEF x, Fits
    <2> QED BY <1>2, <2>1, <2>2
  <1>15. CASE ToolEnds(t)
    <2> DEFINE last == j.pendingGraceful /\ j.tools = 1
               x == [j EXCEPT !.tools = @ - 1, !.pendingGraceful = @ /\ ~last, !.aborted = @ \/ last]
    <2>1. Fits(x)
      <3>1. /\ j.tools - 1 \in 0..MaxTools
            /\ (j.pendingGraceful /\ ~last) \in BOOLEAN /\ (j.aborted \/ last) \in BOOLEAN
        BY <1>1, <1>15 DEF ToolEnds
      <3>2. x \in Job
        <4> HIDE DEF last
        <4> QED BY <1>1, <3>1 DEF Job
      <3>3. x.pending = j.pending /\ x.draining = j.draining /\ x.queue = j.queue
        BY <1>1 DEF Job
      <3> HIDE DEF x
      <3> QED BY <1>1, <3>2, <3>3
    <2>2. job' = [job EXCEPT ![t] = x]
      BY <1>15 DEF ToolEnds
    <2> HIDE DEF x, Fits
    <2> QED BY <1>2, <2>1, <2>2
  <1>16. CASE BudgetStops(t)
    <2> DEFINE x == [j EXCEPT !.budgetExceeded = TRUE, !.stop = "stop"]
    <2>1. Fits(x)
      BY <1>1 DEF Job, StopReasons
    <2>2. job' = [job EXCEPT ![t] = x]
      BY <1>16 DEF BudgetStops
    <2> HIDE DEF x, Fits
    <2> QED BY <1>2, <2>1, <2>2
  <1>17. CASE RunEnds(t)
    <2>1. PICK reason \in StopReasons : job' = [job EXCEPT ![t].stop = reason]
      BY <1>17 DEF RunEnds
    <2> DEFINE x == [j EXCEPT !.stop = reason]
    <2>2. Fits(x)
      BY <1>1 DEF Job
    <2>3. job' = [job EXCEPT ![t] = x]
      BY <2>1
    <2> HIDE DEF x, Fits
    <2> QED BY <1>2, <2>2, <2>3
  <1>18. CASE RunSettles(t)
    <2>1. CASE j.queue > 0
      <3> DEFINE x == [j EXCEPT !.aborted = FALSE, !.queue = @ - 1]
      <3>1. Fits(x)
        <4>1. /\ j.queue - 1 \in 0..MaxMessages
              /\ j.pending + j.draining + (j.queue - 1) <= MaxMessages
          BY <1>1, <2>1
        <4>2. x \in Job
          BY <1>1, <4>1 DEF Job
        <4>3. x.pending = j.pending /\ x.draining = j.draining /\ x.queue = j.queue - 1
          BY <1>1 DEF Job
        <4> HIDE DEF x
        <4> QED BY <4>1, <4>2, <4>3
      <3>2. job' = [job EXCEPT ![t] = x]
        BY <1>18, <2>1 DEF RunSettles
      <3> HIDE DEF x, Fits
      <3> QED BY <1>2, <3>1, <3>2
    <2>2. CASE ~(j.queue > 0)
      BY <1>3, <1>18, <2>2 DEF RunSettles
    <2> QED BY <2>1, <2>2
  <1>19. CASE TimerFires(t)
    <2> DEFINE x == [j EXCEPT !.timedOut = TRUE, !.pendingGraceful = FALSE,
                              !.aborted = IF HasChild(t) THEN Aborted(t) ELSE @,
                              !.waitAborted = @ \/ ~HasChild(t)]
    <2>1. Aborted(t) \in BOOLEAN /\ HasChild(t) \in BOOLEAN
      BY <1>1 DEF Aborted, HasChild, Job
    <2>2. Fits(x)
      BY <1>1, <2>1 DEF Job
    <2>3. job' = [job EXCEPT ![t] = x]
      BY <1>19 DEF TimerFires
    <2> HIDE DEF x, Fits
    <2> QED BY <1>2, <2>2, <2>3
  <1>20. CASE CancelTask(t)
    BY <1>2, <1>20, CancelledType DEF CancelTask
  <1>21. CASE ParentAborts(t)
    <2> DEFINE x == [Cancelled(t) EXCEPT !.parentAborted = TRUE]
    <2>1. Fits(x)
      BY CancelledType DEF Job
    <2>2. job' = [job EXCEPT ![t] = x]
      BY <1>21 DEF ParentAborts
    <2> HIDE DEF x, Fits
    <2> QED BY <1>2, <2>1, <2>2
  <1>22. CASE SendAgentMessage(t)
    <2> DEFINE x == IF HasChild(t) THEN [j EXCEPT !.queue = @ + 1] ELSE [j EXCEPT !.pending = @ + 1]
    <2>1. Fits(x)
      BY <1>1, <1>22, PoolAssumption DEF Job, SendAgentMessage, Messages
    <2>2. job' = [job EXCEPT ![t] = x]
      BY <1>22 DEF SendAgentMessage
    <2> HIDE DEF x, Fits
    <2> QED BY <1>2, <2>1, <2>2
  <1> QED BY <1>4, <1>5, <1>6, <1>7, <1>8, <1>10, <1>11, <1>12, <1>13, <1>14, <1>15, <1>16,
             <1>17, <1>18, <1>19, <1>20, <1>21, <1>22

-----------------------------------------------------------------------------
(* The slots.                                                              *)

\* The leases are finitely many, so that they can be counted.
LEMMA LeasesFinite ==
    ASSUME SlotTypes, SlotsConserved
    PROVE  /\ IsFiniteSet(leases) /\ Cardinality(leases) \in Nat
           /\ \A t \in leases : activeCount > 0
  <1>1. IsFiniteSet(leases)
    BY PoolAssumption, FS_Subset DEF SlotTypes
  <1>2. Cardinality(leases) \in Nat
    BY <1>1, FS_CardinalityType
  <1>3. Cardinality(leases) = 0 <=> leases = {}
    BY <1>1, FS_EmptySet
  <1> QED BY <1>1, <1>2, <1>3 DEF SlotsConserved

\* What release() does when no aborted waiter is in the queue: without a
\* waiter the slot becomes free, otherwise the first waiter gets it.
LEMMA ReleaseEffect ==
    ASSUME SlotTypes, SlotInv, NEW t \in leases, NEW p \in [Tasks -> Phases], Release(t, p)
    PROVE  \/ /\ waiters = <<>> /\ waiters' = <<>>
              /\ activeCount' = activeCount - 1
              /\ leases' = leases \ {t}
              /\ pc' = p
           \/ /\ waiters # <<>> /\ waiters' = SubSeq(waiters, 2, Len(waiters))
              /\ activeCount' = activeCount
              /\ leases' = (leases \ {t}) \cup {waiters[1]}
              /\ pc' = [p EXCEPT ![waiters[1]] = "granted"]
  <1> DEFINE free    == IF activeCount = 0 THEN 0 ELSE activeCount - 1
             loop    == free < MaxConcurrency /\ waiters # <<>>
             live    == {i \in DOMAIN waiters : ~job[waiters[i]].waitAborted}
             k       == IF live = {} THEN Len(waiters) ELSE Min(live)
             granted == IF loop /\ live # {} THEN {waiters[k]} ELSE {}
             dropped == IF loop THEN {waiters[i] : i \in 1..k} \ granted ELSE {}
  <1>1. /\ activeCount' = IF granted = {} THEN free ELSE free + 1
        /\ leases' = (leases \ {t}) \cup granted
        /\ waiters' = IF loop THEN SubSeq(waiters, k + 1, Len(waiters)) ELSE waiters
        /\ pc' = [u \in Tasks |-> IF u \in granted THEN "granted"
                                  ELSE IF u \in dropped THEN "rejected"
                                  ELSE p[u]]
    BY DEF Release
  <1>2. activeCount \in Nat /\ activeCount > 0 /\ activeCount <= MaxConcurrency
    BY LeasesFinite DEF SlotTypes, SlotInv, SlotsConserved
  <1>3. free = activeCount - 1
    BY <1>2
  <1>4. CASE waiters = <<>>
    <2>1. loop = FALSE /\ granted = {} /\ dropped = {}
      BY <1>4
    <2>2. pc' = [u \in Tasks |-> p[u]]
      <3> HIDE DEF granted, dropped
      <3> QED BY <1>1, <2>1
    <2>3. activeCount' = free /\ leases' = leases \ {t} /\ waiters' = waiters
      <3> HIDE DEF granted, dropped, loop, free, k
      <3> QED BY <1>1, <2>1
    <2> QED BY <1>3, <1>4, <2>2, <2>3
  <1>5. CASE waiters # <<>>
    <2>1. Len(waiters) \in Nat /\ DOMAIN waiters = 1..Len(waiters) /\ Len(waiters) # 0
      BY <1>5, LenProperties, EmptySeq DEF SlotTypes
    <2>2. live = 1..Len(waiters)
      BY <2>1 DEF SlotInv, QueueIsExact, Waiting
    <2>3. 1 \in live /\ \A i \in live : 1 <= i /\ i \in Nat
      <3> HIDE DEF live
      <3> QED BY <2>1, <2>2
    <2>4. Min(live) = 1
      <3> HIDE DEF live
      <3> QED BY <2>3 DEF Min
    <2>5. k = 1
      <3> HIDE DEF live
      <3> QED BY <2>3, <2>4
    <2>6. activeCount = MaxConcurrency
      BY <1>5 DEF SlotInv, NoStrandedWaiter
    <2>7. loop
      BY <1>2, <1>3, <1>5, <2>6
    <2>8. granted = {waiters[1]}
      <3> HIDE DEF live, k, loop
      <3> QED BY <2>3, <2>5, <2>7
    <2>9. dropped = {}
      <3> HIDE DEF granted, k, loop
      <3>1. \A i \in 1..k : i = 1
        BY <2>5
      <3> QED BY <2>7, <2>8, <3>1
    <2>10. pc' = [u \in Tasks |-> IF u \in {waiters[1]} THEN "granted" ELSE p[u]]
      <3> HIDE DEF granted, dropped
      <3> QED BY <1>1, <2>8, <2>9
    <2>11. waiters[1] \in Tasks
      BY <2>1, ElementOfSeq DEF SlotTypes
    <2>12. pc' = [p EXCEPT ![waiters[1]] = "granted"]
      BY <2>10, <2>11
    <2>13. waiters' = SubSeq(waiters, 1 + 1, Len(waiters))
      <3> HIDE DEF k, loop
      <3> QED BY <1>1, <2>5, <2>7
    <2>14. 1 + 1 = 2 /\ free + 1 = activeCount
      BY <1>2, <1>3
    <2>15. waiters' = SubSeq(waiters, 2, Len(waiters))
      <3> HIDE DEF free
      <3> QED BY <2>13, <2>14
    <2>16. activeCount' = free + 1 /\ leases' = (leases \ {t}) \cup {waiters[1]}
      <3> HIDE DEF granted, free
      <3> QED BY <1>1, <2>8
    <2>17. activeCount' = activeCount
      <3> HIDE DEF free
      <3> QED BY <2>14, <2>16
    <2> HIDE DEF free, loop, live, k, granted, dropped
    <2> QED BY <1>5, <2>12, <2>15, <2>16, <2>17, Zenon
  <1> QED BY <1>4, <1>5

\* The flags acquire() looks at do not change for the calls it suspends.
SameWaits == \A u \in Tasks : pc[u] = "waiting" => job'[u].waitAborted = job[u].waitAborted

\* A step of one call that neither takes nor gives back a slot.
LEMMA SameSlots ==
    ASSUME SlotTypes, SlotInv, NEW t \in Tasks, NEW x \in Phases,
           UNCHANGED slotVars, pc' = [pc EXCEPT ![t] = x], SameWaits,
           pc[t] = "waiting" <=> x = "waiting",
           pc[t] \in SlotPhases <=> x \in SlotPhases
    PROVE  SlotTypes' /\ SlotInv'
  <1>1. activeCount' = activeCount /\ leases' = leases /\ waiters' = waiters
    BY DEF slotVars
  <1>2. SlotTypes'
    BY <1>1 DEF SlotTypes
  <1>3. \A u \in Tasks : pc'[u] = IF u = t THEN x ELSE pc[u]
    BY DEF SlotTypes
  <1>4. SlotsConserved'
    BY <1>1, <1>3 DEF SlotInv, SlotsConserved
  <1>5. NoStrandedWaiter'
    BY <1>1 DEF SlotInv, NoStrandedWaiter
  <1>6. Waiting' = Waiting
    BY <1>1 DEF Waiting
  <1>7. QueueIsExact'
    BY <1>1, <1>3, <1>6 DEF SlotInv, QueueIsExact, SameWaits
  <1> QED BY <1>2, <1>4, <1>5, <1>7 DEF SlotInv

\* release() in a call that leaves its slot phases.
LEMMA ReleaseKeeps ==
    ASSUME SlotTypes, SlotInv, NEW t \in leases, NEW x \in {"idle", "rejected"},
           Release(t, [pc EXCEPT ![t] = x]), SameWaits
    PROVE  /\ SlotTypes' /\ SlotInv'
           /\ pc'[t] = x
           /\ \A u \in Tasks \ {t} : pc'[u] = "idle" <=> pc[u] = "idle"
  <1> DEFINE p == [pc EXCEPT ![t] = x]
             w == waiters[1]
  <1>1. /\ t \in Tasks /\ pc[t] \in SlotPhases /\ pc[t] # "waiting"
        /\ x \in Phases /\ x \notin SlotPhases /\ x # "waiting"
    BY DEF SlotTypes, SlotInv, SlotsConserved, SlotPhases, ExecPhases, SetupPhases, ChildPhases,
           Phases, QueuePhases
  <1>2. p \in [Tasks -> Phases] /\ \A u \in Tasks : p[u] = IF u = t THEN x ELSE pc[u]
    BY <1>1 DEF SlotTypes
  <1>3. Release(t, p)
    OBVIOUS
  <1>4. activeCount \in Nat /\ activeCount = Cardinality(leases) /\ activeCount > 0
    BY LeasesFinite DEF SlotInv, SlotsConserved, SlotTypes
  <1>5. IsFiniteSet(leases \ {t}) /\ Cardinality(leases \ {t}) = activeCount - 1
    <2>1. IsFiniteSet(leases)
      BY LeasesFinite DEF SlotInv
    <2> QED BY <1>4, <2>1, FS_RemoveElement
  <1> HIDE DEF p
  <1>6. CASE /\ waiters = <<>> /\ waiters' = <<>>
             /\ activeCount' = activeCount - 1
             /\ leases' = leases \ {t}
             /\ pc' = p
    <2>1. SlotTypes'
      BY <1>2, <1>4, <1>6 DEF SlotTypes
    <2>2. SlotsConserved'
      BY <1>1, <1>2, <1>4, <1>5, <1>6, PoolAssumption DEF SlotInv, SlotsConserved
    <2>3. NoStrandedWaiter'
      BY <1>6 DEF NoStrandedWaiter
    <2>4. Waiting' = Waiting
      BY <1>6 DEF Waiting
    <2>5. QueueIsExact'
      BY <1>1, <1>2, <1>6, <2>4 DEF SlotInv, QueueIsExact, SameWaits
    <2> QED BY <1>1, <1>2, <1>6, <2>1, <2>2, <2>3, <2>5 DEF SlotInv
  <1>7. CASE /\ waiters # <<>> /\ waiters' = SubSeq(waiters, 2, Len(waiters))
             /\ activeCount' = activeCount
             /\ leases' = (leases \ {t}) \cup {w}
             /\ pc' = [p EXCEPT ![w] = "granted"]
    <2>1. /\ w \in Tasks /\ 1 \in DOMAIN waiters
          /\ waiters' \in Seq(Tasks)
          /\ \A j, k \in DOMAIN waiters' : waiters'[j] = waiters'[k] => j = k
          /\ Waiting' = Waiting \ {w}
      <3>1. waiters \in Seq(Tasks) /\ \A j, k \in DOMAIN waiters : waiters[j] = waiters[k] => j = k
        BY DEF SlotTypes, SlotInv, QueueIsExact
      <3>2. LET r == SubSeq(waiters, 2, Len(waiters))
            IN  /\ w \in Tasks /\ 1 \in DOMAIN waiters
                /\ r \in Seq(Tasks)
                /\ \A j, k \in DOMAIN r : r[j] = r[k] => j = k
                /\ {r[j] : j \in DOMAIN r} = {waiters[j] : j \in DOMAIN waiters} \ {w}
        BY <1>7, <3>1, RemoveFirst
      <3> HIDE DEF w
      <3> QED BY <1>7, <3>2, Zenon DEF Waiting
    <2>2. w \in Waiting
      BY <2>1 DEF Waiting
    <2>3. pc[w] = "waiting" /\ w \notin leases /\ w # t
      BY <1>1, <2>1, <2>2 DEF SlotInv, QueueIsExact, SlotsConserved, SlotPhases, ExecPhases, SetupPhases, ChildPhases
    <2>4. "granted" \in Phases /\ "granted" \in SlotPhases /\ "granted" # "waiting"
      BY DEF Phases, QueuePhases, SlotPhases
    <2> HIDE DEF w
    <2>5. \A u \in Tasks : pc'[u] = IF u = w THEN "granted" ELSE IF u = t THEN x ELSE pc[u]
      BY <1>2, <1>7, <2>1
    <2>6. SlotTypes'
      BY <1>1, <1>2, <1>4, <1>7, <2>1, <2>4 DEF SlotTypes
    <2>7. Cardinality(leases') = activeCount
      <3>1. w \notin leases \ {t}
        BY <2>3
      <3>2. Cardinality((leases \ {t}) \cup {w}) = (activeCount - 1) + 1
        BY <1>5, <3>1, FS_AddElement
      <3> QED BY <1>4, <1>7, <3>2
    <2>8. leases' = {u \in Tasks : pc'[u] \in SlotPhases}
      BY <1>1, <1>7, <2>1, <2>3, <2>4, <2>5 DEF SlotInv, SlotsConserved
    <2>9. SlotsConserved' /\ NoStrandedWaiter'
      BY <1>7, <2>7, <2>8 DEF SlotInv, SlotsConserved, NoStrandedWaiter
    <2>10. QueueIsExact'
      BY <1>1, <2>1, <2>2, <2>3, <2>4, <2>5 DEF SlotInv, QueueIsExact, SameWaits
    <2> QED BY <2>3, <2>4, <2>5, <2>6, <2>9, <2>10, <1>1 DEF SlotInv
  <1> QED BY <1>2, <1>3, <1>6, <1>7, ReleaseEffect

\* The abort listener takes a waiter whose wait is aborted out of the queue.
LEMMA LeaveQueueKeeps ==
    ASSUME SlotTypes, SlotInv, NEW t \in Tasks, LeaveQueue(t),
           activeCount' = activeCount, leases' = leases,
           \A u \in Tasks \ {t} : job'[u].waitAborted = job[u].waitAborted
    PROVE  /\ SlotTypes' /\ SlotInv'
           /\ \A u \in Tasks : pc'[u] = "idle" <=> pc[u] = "idle"
  <1>1. CASE t \notin Waiting
    <2>1. waiters' = waiters /\ pc' = pc
      BY <1>1 DEF LeaveQueue
    <2>2. Waiting' = Waiting
      BY <2>1 DEF Waiting
    <2>3. SlotTypes'
      BY <2>1 DEF SlotTypes
    <2>4. SlotsConserved' /\ NoStrandedWaiter'
      BY <2>1 DEF SlotInv, SlotsConserved, NoStrandedWaiter
    <2>5. QueueIsExact'
      BY <1>1, <2>1, <2>2 DEF SlotInv, QueueIsExact
    <2> QED BY <2>1, <2>3, <2>4, <2>5 DEF SlotInv
  <1>2. CASE t \in Waiting
    <2>1. PICK i \in DOMAIN waiters :
            /\ waiters[i] = t
            /\ waiters' = SubSeq(waiters, 1, i - 1) \o SubSeq(waiters, i + 1, Len(waiters))
      <3> DEFINE i == CHOOSE i \in DOMAIN waiters : waiters[i] = t
      <3>1. i \in DOMAIN waiters /\ waiters[i] = t
        BY <1>2 DEF Waiting
      <3>2. waiters' = SubSeq(waiters, 1, i - 1) \o SubSeq(waiters, i + 1, Len(waiters))
        BY <1>2 DEF LeaveQueue
      <3> HIDE DEF i
      <3> QED BY <3>1, <3>2
    <2>2. pc' = [pc EXCEPT ![t] = "rejected"]
      BY <1>2 DEF LeaveQueue
    <2>3. /\ waiters' \in Seq(Tasks)
          /\ \A j, k \in DOMAIN waiters' : waiters'[j] = waiters'[k] => j = k
          /\ Waiting' = Waiting \ {t}
      <3>1. \A j, k \in DOMAIN waiters : waiters[j] = waiters[k] => j = k
        BY DEF SlotInv, QueueIsExact
      <3>2. waiters \in Seq(Tasks)
        BY DEF SlotTypes
      <3>3. LET r == SubSeq(waiters, 1, i - 1) \o SubSeq(waiters, i + 1, Len(waiters))
            IN  /\ r \in Seq(Tasks)
                /\ \A j, k \in DOMAIN r : r[j] = r[k] => j = k
                /\ {r[j] : j \in DOMAIN r} = {waiters[j] : j \in DOMAIN waiters} \ {waiters[i]}
        BY <3>1, <3>2, RemoveAt, Zenon
      <3> QED BY <2>1, <2>2, <3>3, Zenon DEF Waiting
    <2>4. pc[t] = "waiting" /\ \A u \in Tasks : pc'[u] = IF u = t THEN "rejected" ELSE pc[u]
      BY <1>2, <2>2 DEF SlotTypes, SlotInv, QueueIsExact
    <2>5. /\ "rejected" \in Phases /\ "rejected" \notin SlotPhases /\ "waiting" \notin SlotPhases
          /\ "rejected" # "waiting" /\ "rejected" # "idle" /\ "waiting" # "idle"
      BY DEF Phases, QueuePhases, SlotPhases, ExecPhases, SetupPhases, ChildPhases
    <2>6. SlotTypes'
      BY <2>2, <2>3, <2>5 DEF SlotTypes
    <2>7. SlotsConserved'
      BY <2>4, <2>5 DEF SlotInv, SlotsConserved
    <2>8. NoStrandedWaiter'
      BY <2>1, <2>3 DEF SlotInv, NoStrandedWaiter
    <2>9. QueueIsExact'
      BY <2>3, <2>4, <2>5 DEF SlotInv, QueueIsExact
    <2> QED BY <2>4, <2>5, <2>6, <2>7, <2>8, <2>9 DEF SlotInv
  <1> QED BY <1>1, <1>2

-----------------------------------------------------------------------------
(* The records.                                                            *)

\* A call ends with a terminal status.
LEMMA EndStatus ==
    ASSUME NEW t \in Tasks
    PROVE  CatchStatus(t) \in TerminalStatus /\ ResultStatus(t) \in TerminalStatus
  BY DEF CatchStatus, ResultStatus, TerminalStatus

\* The records do not change, or an active call is marked running, and no
\* call becomes active.
LEMMA SameRecords ==
    ASSUME RecordTypes, RecordInv, disposed' \in BOOLEAN, finals' = finals,
           NEW t \in Tasks,
           status' = status \/ (Active(t) /\ status' = [status EXCEPT ![t] = "running"]),
           \A u \in Tasks : pc'[u] # "idle" => pc[u] # "idle"
    PROVE  RecordTypes' /\ RecordInv'
  <1>1. /\ "running" \in Statuses /\ "running" # "none" /\ "running" \notin TerminalStatus
    BY DEF Statuses, TerminalStatus
  <1>2. RecordTypes'
    BY <1>1 DEF RecordTypes
  <1>3. \A u \in Tasks : \/ status'[u] = status[u]
                         \/ Active(u) /\ status'[u] = "running"
    BY DEF RecordTypes
  <1>4. PruneKeepsActive'
    BY <1>1, <1>3 DEF RecordInv, PruneKeepsActive, Active, Records
  <1>5. OneTerminalEvent'
    <2>1. ASSUME NEW u \in Tasks
          PROVE  /\ status'[u] \in TerminalStatus <=> finals'[u] = 1
                 /\ finals'[u] <= 1
                 /\ pc'[u] # "idle" => finals'[u] = 0
      <3>1. CASE status'[u] = status[u]
        BY <3>1 DEF RecordInv, OneTerminalEvent, Active
      <3>2. CASE Active(u) /\ status'[u] = "running"
        BY <1>1, <3>2 DEF RecordInv, OneTerminalEvent, Active
      <3> QED BY <1>3, <3>1, <3>2
    <2> QED BY <2>1 DEF OneTerminalEvent, Active
  <1> QED BY <1>2, <1>4, <1>5 DEF RecordInv

\* registerTaskRecord gives a record to a task that has none, and so is not
\* active; only records of inactive tasks are pruned.
LEMMA RegisterKeeps ==
    ASSUME RecordTypes, RecordInv, NEW t \in Tasks, NEW st \in {"starting", "failed"},
           NEW count, count = IF st = "failed" THEN 1 ELSE 0,
           Register(t, st, count), disposed' = disposed,
           \A u \in Tasks \ {t} : pc'[u] = pc[u],
           st = "failed" => pc'[t] = pc[t]
    PROVE  RecordTypes' /\ RecordInv' /\ pc[t] = "idle"
  <1>1. pc[t] = "idle"
    BY DEF Register, RecordInv, PruneKeepsActive, Active
  <1>2. PICK victims \in SUBSET {u \in Records : ~Active(u) /\ status[u] \in TerminalStatus} :
          /\ status' = [u \in Tasks |-> IF u = t THEN st
                                        ELSE IF u \in victims THEN "none" ELSE status[u]]
          /\ finals' = [u \in Tasks |-> IF u = t THEN count
                                        ELSE IF u \in victims THEN 0 ELSE finals[u]]
    BY DEF Register
  <1>3. /\ st \in Statuses /\ st # "none" /\ (st \in TerminalStatus <=> st = "failed")
        /\ "none" \in Statuses /\ "none" \notin TerminalStatus /\ count \in Nat /\ count <= 1
    BY DEF Statuses, TerminalStatus
  <1>4. RecordTypes'
    BY <1>2, <1>3 DEF RecordTypes
  <1>5. \A u \in victims : pc[u] = "idle"
    BY <1>2 DEF Active
  <1>6. PruneKeepsActive'
    BY <1>2, <1>3, <1>5 DEF RecordInv, PruneKeepsActive, Active, Records
  <1>7. ASSUME NEW u \in Tasks
        PROVE  /\ status'[u] \in TerminalStatus <=> finals'[u] = 1
               /\ finals'[u] <= 1
               /\ pc'[u] # "idle" => finals'[u] = 0
    <2>1. CASE u = t
      BY <1>1, <1>2, <1>3, <2>1
    <2>2. CASE u # t /\ u \in victims
      BY <1>2, <1>3, <1>5, <2>2
    <2>3. CASE u # t /\ u \notin victims
      BY <1>2, <2>3 DEF RecordInv, OneTerminalEvent, Active
    <2> QED BY <2>1, <2>2, <2>3
  <1>8. OneTerminalEvent'
    BY <1>7 DEF OneTerminalEvent, Active
  <1> QED BY <1>1, <1>4, <1>6, <1>8 DEF RecordInv

-----------------------------------------------------------------------------
(* The actions.                                                            *)

\* emitTerminal and the finally block.
LEMMA FinishKeeps ==
    ASSUME IInv, NEW t \in Tasks, pc[t] # "idle", pc[t] # "waiting",
           NEW final \in TerminalStatus, Finish(t, final)
    PROVE  IInv'
  <1> USE DEF IInv
  <1>1. JobTypes' /\ MessageBound'
    BY FinishJob
  <1>2. SameWaits
    BY DEF Finish, SameWaits
  <1>3. /\ SlotTypes' /\ SlotInv'
        /\ pc'[t] = "idle"
        /\ \A u \in Tasks \ {t} : pc'[u] = "idle" <=> pc[u] = "idle"
    <2>1. CASE t \in leases
      <3>1. Release(t, [pc EXCEPT ![t] = "idle"])
        BY <2>1 DEF Finish
      <3> QED BY <1>2, <2>1, <3>1, ReleaseKeeps
    <2>2. CASE t \notin leases
      <3>1. pc' = [pc EXCEPT ![t] = "idle"] /\ UNCHANGED slotVars
        BY <2>2 DEF Finish
      <3>2. pc[t] \notin SlotPhases
        BY <2>2 DEF SlotInv, SlotsConserved
      <3>3. "idle" \notin SlotPhases /\ "idle" \in Phases /\ "idle" # "waiting"
        BY DEF SlotPhases, ExecPhases, SetupPhases, ChildPhases, Phases
      <3>4. SlotTypes' /\ SlotInv'
        BY <1>2, <3>1, <3>2, <3>3, SameSlots
      <3> QED BY <3>1, <3>4 DEF SlotTypes
    <2> QED BY <2>1, <2>2
  <1>4. /\ status' = [status EXCEPT ![t] = final]
        /\ finals' = [finals EXCEPT ![t] = @ + 1]
        /\ disposed' = disposed
    BY DEF Finish
  <1>5. final \in Statuses /\ final # "none" /\ finals[t] = 0
    BY DEF Statuses, TerminalStatus, RecordInv, OneTerminalEvent, Active
  <1>6. RecordTypes'
    BY <1>4, <1>5 DEF RecordTypes
  <1>7. PruneKeepsActive'
    BY <1>3, <1>4, <1>5 DEF RecordTypes, RecordInv, PruneKeepsActive, Active, Records
  <1>8. ASSUME NEW u \in Tasks
        PROVE  /\ status'[u] \in TerminalStatus <=> finals'[u] = 1
               /\ finals'[u] <= 1
               /\ pc'[u] # "idle" => finals'[u] = 0
    <2>1. CASE u = t
      BY <1>3, <1>4, <1>5, <2>1 DEF RecordTypes
    <2>2. CASE u # t
      BY <1>3, <1>4, <2>2 DEF RecordTypes, RecordInv, OneTerminalEvent, Active
    <2> QED BY <2>1, <2>2
  <1>9. OneTerminalEvent'
    BY <1>8 DEF OneTerminalEvent, Active
  <1> QED BY <1>1, <1>3, <1>6, <1>7, <1>9 DEF RecordInv

\* A step inside one call that leaves the slots alone.
LEMMA QuietKeeps ==
    ASSUME IInv, NEW t \in Tasks, NEW x \in Phases, pc' = [pc EXCEPT ![t] = x],
           pc[t] # "idle", x # "idle",
           pc[t] = "waiting" <=> x = "waiting",
           pc[t] \in SlotPhases <=> x \in SlotPhases,
           UNCHANGED <<slotVars, disposed, finals>>, SameWaits,
           status' = status \/ status' = [status EXCEPT ![t] = "running"]
    PROVE  SlotTypes' /\ SlotInv' /\ RecordTypes' /\ RecordInv'
  <1> USE DEF IInv
  <1>1. SlotTypes' /\ SlotInv'
    BY SameSlots
  <1>2. \A u \in Tasks : pc'[u] # "idle" => pc[u] # "idle"
    BY DEF SlotTypes
  <1>3. disposed' \in BOOLEAN /\ Active(t)
    BY DEF RecordTypes, Active
  <1>4. RecordTypes' /\ RecordInv'
    BY <1>2, <1>3, SameRecords
  <1> QED BY <1>1, <1>4

\* delegateTask up to its first await.
LEMMA DelegateKeeps ==
    ASSUME IInv, NEW t \in Tasks, NEW parentAborted \in BOOLEAN, Delegate(t, parentAborted)
    PROVE  IInv'
  <1> USE DEF IInv
  <1>1. JobTypes' /\ MessageBound'
    BY JobTaskStep
  <1>2. /\ Register(t, "starting", 0) /\ disposed' = disposed
        /\ \A u \in Tasks \ {t} : pc'[u] = pc[u] /\ job'[u] = job[u]
    BY DEF Delegate, SlotTypes
  <1>3. RecordTypes' /\ RecordInv' /\ pc[t] = "idle"
    BY <1>2, RegisterKeeps
  <1>4. SameWaits
    BY <1>2, <1>3 DEF SameWaits
  <1>5. /\ "idle" \notin SlotPhases /\ "waiting" \notin SlotPhases /\ "rejected" \notin SlotPhases
        /\ "claimed" \in SlotPhases
        /\ "rejected" \in Phases /\ "claimed" \in Phases /\ "waiting" \in Phases
    BY DEF SlotPhases, ExecPhases, SetupPhases, ChildPhases, QueuePhases, Phases
  <1>6. CASE disposed \/ parentAborted
    <2>1. pc' = [pc EXCEPT ![t] = "rejected"] /\ UNCHANGED slotVars
      BY <1>6 DEF Delegate
    <2> QED BY <1>1, <1>3, <1>4, <1>5, <2>1, SameSlots
  <1>7. CASE ~(disposed \/ parentAborted) /\ activeCount < MaxConcurrency
    <2>1. /\ pc' = [pc EXCEPT ![t] = "claimed"]
          /\ activeCount' = activeCount + 1
          /\ leases' = leases \cup {t}
          /\ waiters' = waiters
      BY <1>7 DEF Delegate
    <2>2. \A u \in Tasks : pc'[u] = IF u = t THEN "claimed" ELSE pc[u]
      BY <2>1 DEF SlotTypes
    <2>3. t \notin leases /\ activeCount = Cardinality(leases) /\ activeCount \in Nat
      BY <1>3, <1>5 DEF SlotInv, SlotsConserved, SlotTypes
    <2>4. SlotTypes'
      BY <1>5, <2>1, <2>3 DEF SlotTypes
    <2>5. Cardinality(leases') = activeCount + 1
      <3>1. IsFiniteSet(leases)
        BY LeasesFinite DEF SlotInv
      <3> QED BY <2>1, <2>3, <3>1, FS_AddElement
    <2>6. activeCount' <= MaxConcurrency
      BY <1>7, <2>1, <2>3, PoolAssumption
    <2>7. SlotsConserved'
      BY <1>5, <2>1, <2>2, <2>5, <2>6 DEF SlotInv, SlotsConserved
    <2>8. waiters = <<>>
      BY <1>7, <2>3, PoolAssumption DEF SlotInv, NoStrandedWaiter
    <2>9. NoStrandedWaiter'
      BY <2>1, <2>8 DEF NoStrandedWaiter
    <2>10. Waiting' = Waiting
      BY <2>1 DEF Waiting
    <2>11. QueueIsExact'
      BY <1>3, <1>4, <2>1, <2>2, <2>10 DEF SlotInv, QueueIsExact, SameWaits
    <2> QED BY <1>1, <1>3, <2>4, <2>7, <2>9, <2>11 DEF SlotInv
  <1>8. CASE ~(disposed \/ parentAborted) /\ ~(activeCount < MaxConcurrency)
    <2>1. /\ pc' = [pc EXCEPT ![t] = "waiting"]
          /\ waiters' = Append(waiters, t)
          /\ activeCount' = activeCount /\ leases' = leases
          /\ job' = [job EXCEPT ![t] = [FreshJob EXCEPT !.parentAborted = parentAborted,
                                                        !.waitAborted = parentAborted,
                                                        !.cancelRequested = parentAborted]]
      BY <1>8 DEF Delegate
    <2>2. /\ \A u \in Tasks : pc'[u] = IF u = t THEN "waiting" ELSE pc[u]
          /\ ~job'[t].waitAborted
      BY <1>8, <2>1 DEF SlotTypes, FreshJob
    <2> DEFINE n == Len(waiters)
    <2>3. /\ n \in Nat /\ DOMAIN waiters = 1..n /\ waiters \in Seq(Tasks)
      BY LenProperties DEF SlotTypes
    <2>4. /\ waiters' \in Seq(Tasks) /\ Len(waiters') = n + 1
          /\ \A i \in 1..n : waiters'[i] = waiters[i]
          /\ waiters'[n + 1] = t
      BY <2>1, <2>3, AppendProperties
    <2>5. DOMAIN waiters' = 1..(n + 1)
      BY <2>4, LenProperties
    <2> HIDE DEF n
    <2>6. Waiting' = Waiting \cup {t}
      <3>1. \A u \in Waiting' : u \in Waiting \cup {t}
        BY <2>3, <2>4, <2>5 DEF Waiting
      <3>2. \A i \in 1..n : i \in 1..(n + 1)
        BY <2>3
      <3>3. n + 1 \in 1..(n + 1)
        BY <2>3
      <3>4. \A u \in Waiting \cup {t} : u \in Waiting'
        BY <2>3, <2>4, <2>5, <3>2, <3>3 DEF Waiting
      <3> QED BY <3>1, <3>4
    <2>7. t \notin Waiting
      BY <1>3 DEF SlotInv, QueueIsExact
    <2>8. \A i, j \in DOMAIN waiters' : waiters'[i] = waiters'[j] => i = j
      <3> SUFFICES ASSUME NEW i \in 1..(n + 1), NEW j \in 1..(n + 1), waiters'[i] = waiters'[j]
                   PROVE  i = j
        BY <2>5
      <3>1. \A k \in 1..n : waiters[k] # t
        BY <2>3, <2>7 DEF Waiting
      <3>2. CASE i \in 1..n /\ j \in 1..n
        BY <2>3, <2>4, <3>2 DEF SlotInv, QueueIsExact
      <3>3. CASE i \notin 1..n \/ j \notin 1..n
        BY <2>3, <2>4, <3>1, <3>3
      <3> QED BY <3>2, <3>3
    <2>9. SlotTypes'
      BY <1>5, <2>1, <2>4 DEF SlotTypes
    <2>10. SlotsConserved'
      BY <1>3, <1>5, <2>1, <2>2 DEF SlotInv, SlotsConserved
    <2>11. NoStrandedWaiter'
      <3>1. activeCount \in Nat /\ activeCount <= MaxConcurrency /\ MaxConcurrency \in Nat
        BY PoolAssumption DEF SlotInv, SlotsConserved, SlotTypes
      <3>2. activeCount = MaxConcurrency
        BY <1>8, <3>1
      <3> QED BY <2>1, <3>2 DEF NoStrandedWaiter
    <2>12. QueueIsExact'
      BY <1>2, <1>3, <2>2, <2>6, <2>8 DEF SlotInv, QueueIsExact, SameWaits
    <2> QED BY <1>1, <1>3, <2>9, <2>10, <2>11, <2>12 DEF SlotInv
  <1> QED BY <1>6, <1>7, <1>8

\* dispose() rejects the waiters and cancels the active calls.
LEMMA DisposeKeeps ==
    ASSUME IInv, Dispose
    PROVE  IInv'
  <1> USE DEF IInv
  <1>1. /\ disposed' = TRUE /\ waiters' = <<>>
        /\ activeCount' = activeCount /\ leases' = leases
        /\ status' = status /\ finals' = finals
        /\ pc' = [t \in Tasks |-> IF t \in Waiting THEN "rejected" ELSE pc[t]]
        /\ job' = [t \in Tasks |-> IF Active(t) THEN Cancelled(t) ELSE job[t]]
    BY DEF Dispose, recordVars
  <1>2. JobTypes' /\ MessageBound'
    <2>1. \A t \in Tasks : /\ job'[t] \in Job
                           /\ job'[t].pending + job'[t].draining + job'[t].queue <= MaxMessages
      <3> SUFFICES ASSUME NEW t \in Tasks
                   PROVE  /\ job'[t] \in Job
                          /\ job'[t].pending + job'[t].draining + job'[t].queue <= MaxMessages
        OBVIOUS
      <3>1. CASE Active(t)
        BY <1>1, <3>1, CancelledType
      <3>2. CASE ~Active(t)
        BY <1>1, <3>2 DEF MessageBound, Messages
      <3> QED BY <3>1, <3>2
    <2>2. JobTypes'
      BY <1>1, <2>1
    <2>3. MessageBound'
      BY <2>1 DEF MessageBound, Messages
    <2> QED BY <2>2, <2>3
  <1>3. /\ "rejected" \in Phases /\ "rejected" \notin SlotPhases /\ "waiting" \notin SlotPhases
        /\ "rejected" # "waiting" /\ "rejected" # "idle" /\ "waiting" # "idle"
    BY DEF Phases, QueuePhases, SlotPhases, ExecPhases, SetupPhases, ChildPhases
  <1>4. \A u \in Tasks : pc'[u] = IF pc[u] = "waiting" THEN "rejected" ELSE pc[u]
    BY <1>1 DEF SlotInv, QueueIsExact
  <1>5. SlotTypes'
    <2>1. pc' \in [Tasks -> Phases]
      BY <1>1, <1>3 DEF SlotTypes
    <2> QED BY <1>1, <2>1 DEF SlotTypes
  <1>6. SlotsConserved' /\ NoStrandedWaiter'
    BY <1>1, <1>3, <1>4 DEF SlotInv, SlotsConserved, NoStrandedWaiter
  <1>7. Waiting' = {} /\ DOMAIN waiters' = {}
    BY <1>1 DEF Waiting
  <1>8. QueueIsExact'
    BY <1>3, <1>4, <1>7 DEF QueueIsExact
  <1>9. RecordTypes'
    BY <1>1 DEF RecordTypes
  <1>10. RecordInv'
    BY <1>1, <1>3, <1>4 DEF RecordInv, PruneKeepsActive, OneTerminalEvent, Active, Records
  <1> QED BY <1>2, <1>5, <1>6, <1>8, <1>9, <1>10 DEF SlotInv

\* A step of one delegateTask call, or of a call to cancelTask or
\* sendAgentMessage for it.
TaskStep(t) ==
    \/ DelegateRefused(t)
    \/ \E parentAborted \in BOOLEAN : Delegate(t, parentAborted)
    \/ AcquireResumes(t) \/ AcquireRejected(t) \/ Begin(t) \/ TerminalOpened(t)
    \/ SessionCreated(t) \/ SessionFailed(t) \/ MessageDrained(t) \/ MessageRefused(t)
    \/ PreflightEnds(t) \/ RunStarts(t) \/ MessageTaken(t) \/ ToolStarts(t)
    \/ ToolEnds(t) \/ BudgetStops(t) \/ RunEnds(t) \/ RunSettles(t)
    \/ PromptReturns(t) \/ TimerFires(t) \/ CancelTask(t) \/ ParentAborts(t)
    \/ SendAgentMessage(t)

\* Every such step keeps the invariant.
LEMMA TaskStepKeeps ==
    ASSUME IInv, NEW t \in Tasks, TaskStep(t)
    PROVE  IInv'
  <1> USE DEF IInv
  <1> DEFINE Exec == {"opening", "creating", "draining", "preflight", "running", "settling", "settled"}
             Rest == SlotTypes' /\ SlotInv' /\ RecordTypes' /\ RecordInv'
  <1>1. JobTypes' /\ MessageBound'
    BY JobTaskStep DEF TaskStep
  <1>2. /\ pc[t] \in Phases /\ Exec \subseteq Phases /\ Exec \subseteq SlotPhases
        /\ "idle" \notin Exec /\ "waiting" \notin Exec
        /\ "granted" \in SlotPhases /\ "claimed" \in SlotPhases /\ "claimed" \in Phases
        /\ "rejected" # "idle" /\ "rejected" # "waiting"
    BY DEF SlotTypes, Phases, QueuePhases, SlotPhases, ExecPhases, SetupPhases, ChildPhases
  <1>3. ASSUME NEW x \in Exec, pc' = [pc EXCEPT ![t] = x], pc[t] \in Exec \cup {"claimed"},
               UNCHANGED <<slotVars, disposed, finals>>,
               status' = status \/ status' = [status EXCEPT ![t] = "running"],
               \A u \in Tasks \ {t} : job'[u] = job[u]
        PROVE  Rest
    <2>1. SameWaits
      BY <1>2, <1>3 DEF SameWaits
    <2>2. /\ x \in Phases /\ pc[t] # "idle" /\ x # "idle" /\ pc[t] # "waiting" /\ x # "waiting"
          /\ pc[t] \in SlotPhases /\ x \in SlotPhases
      BY <1>2, <1>3
    <2> HIDE DEF Exec
    <2> QED BY <1>3, <2>1, <2>2, QuietKeeps
  <1>4. ASSUME NEW final \in {CatchStatus(t), ResultStatus(t)}, Finish(t, final),
               pc[t] \in Exec \cup {"claimed", "rejected"}
        PROVE  Rest
    <2>1. final \in TerminalStatus /\ pc[t] # "idle" /\ pc[t] # "waiting"
      BY <1>2, <1>4, EndStatus
    <2> QED BY <1>4, <2>1, FinishKeeps
  <1>5. CASE DelegateRefused(t)
    <2>1. /\ Register(t, "failed", 1) /\ pc' = pc /\ job' = job
          /\ UNCHANGED <<slotVars, disposed>>
      BY <1>5 DEF DelegateRefused, slotVars
    <2>2. RecordTypes' /\ RecordInv' /\ pc[t] = "idle"
      BY <2>1, RegisterKeeps
    <2>3. pc' = [pc EXCEPT ![t] = "idle"] /\ "idle" \in Phases /\ SameWaits
      BY <2>1, <2>2 DEF SlotTypes, SameWaits, Phases
    <2>4. SlotTypes' /\ SlotInv'
      BY <2>1, <2>2, <2>3, SameSlots
    <2> QED BY <1>1, <2>2, <2>4
  <1>6. ASSUME NEW parentAborted \in BOOLEAN, Delegate(t, parentAborted)
        PROVE  IInv'
    BY <1>6, DelegateKeeps
  <1>7. CASE AcquireResumes(t)
    <2>1. job' = job /\ pc[t] = "granted" /\ UNCHANGED <<disposed, status, finals>>
      BY <1>7 DEF AcquireResumes, recordVars
    <2>2. SameWaits
      BY <2>1 DEF SameWaits
    <2>3. CASE disposed \/ job[t].waitAborted
      <3>1. Release(t, [pc EXCEPT ![t] = "rejected"])
        BY <1>7, <2>3 DEF AcquireResumes
      <3>2. t \in leases
        BY <1>2, <2>1 DEF SlotInv, SlotsConserved
      <3>3. /\ SlotTypes' /\ SlotInv' /\ pc'[t] = "rejected"
            /\ \A u \in Tasks \ {t} : pc'[u] = "idle" <=> pc[u] = "idle"
        BY <2>2, <3>1, <3>2, ReleaseKeeps
      <3>4. \A u \in Tasks : pc'[u] # "idle" => pc[u] # "idle"
        BY <2>1, <3>3
      <3>5. RecordTypes' /\ RecordInv'
        BY <2>1, <3>4, SameRecords DEF RecordTypes
      <3> QED BY <1>1, <3>3, <3>5
    <2>4. CASE ~(disposed \/ job[t].waitAborted)
      <3>1. pc' = [pc EXCEPT ![t] = "claimed"] /\ UNCHANGED slotVars
        BY <1>7, <2>4 DEF AcquireResumes
      <3> QED BY <1>1, <1>2, <2>1, <2>2, <3>1, QuietKeeps
    <2> QED BY <2>3, <2>4
  <1>8. CASE AcquireRejected(t)
    BY <1>1, <1>4, <1>8 DEF AcquireRejected
  <1>9. CASE Begin(t)
    <2>1. CASE Finish(t, CatchStatus(t))
      BY <1>1, <1>4, <1>9, <2>1 DEF Begin
    <2>2. CASE /\ pc' \in {[pc EXCEPT ![t] = "opening"], [pc EXCEPT ![t] = "creating"]}
               /\ status' = [status EXCEPT ![t] = "running"]
               /\ UNCHANGED <<job, slotVars, disposed, finals>>
      BY <1>1, <1>3, <1>9, <2>2 DEF Begin
    <2> QED BY <1>9, <2>1, <2>2 DEF Begin
  <1>10. CASE TerminalOpened(t)
    BY <1>1, <1>3, <1>10 DEF TerminalOpened, recordVars
  <1>11. ASSUME Launch(t), pc[t] \in Exec
         PROVE  Rest
    <2>1. CASE job[t].timedOut \/ job[t].parentAborted
      BY <1>4, <1>11, <2>1 DEF Launch
    <2>2. CASE ~(job[t].timedOut \/ job[t].parentAborted)
      BY <1>3, <1>11, <2>2 DEF Launch, recordVars
    <2> QED BY <2>1, <2>2
  <1>12. CASE SessionCreated(t)
    <2>1. CASE job[t].pending = 0
      BY <1>1, <1>11, <1>12, <2>1 DEF SessionCreated
    <2>2. CASE job[t].pending # 0
      BY <1>1, <1>3, <1>12, <2>2 DEF SessionCreated, recordVars
    <2> QED BY <2>1, <2>2
  <1>13. CASE MessageDrained(t)
    <2>1. CASE job[t].draining = 0
      BY <1>1, <1>11, <1>13, <2>1 DEF MessageDrained
    <2>2. CASE job[t].draining # 0
      <3>1. pc[t] = "draining" /\ pc' = pc
        BY <1>13, <2>2 DEF MessageDrained
      <3>2. pc' = [pc EXCEPT ![t] = "draining"]
        BY <3>1 DEF SlotTypes
      <3> QED BY <1>1, <1>3, <1>13, <2>2, <3>1, <3>2 DEF MessageDrained, recordVars
    <2> QED BY <2>1, <2>2
  <1>14. CASE SessionFailed(t) \/ MessageRefused(t) \/ PreflightEnds(t) \/ PromptReturns(t)
    BY <1>1, <1>4, <1>14 DEF SessionFailed, MessageRefused, PreflightEnds, PromptReturns
  <1>15. CASE RunStarts(t) \/ BudgetStops(t) \/ RunEnds(t)
    BY <1>1, <1>3, <1>15 DEF RunStarts, BudgetStops, RunEnds, recordVars
  <1>16. CASE RunSettles(t)
    BY <1>1, <1>3, <1>16 DEF RunSettles, recordVars
  <1>17. CASE MessageTaken(t) \/ ToolStarts(t) \/ ToolEnds(t)
    <2>1. pc[t] = "running" /\ pc' = pc
      BY <1>17 DEF MessageTaken, ToolStarts, ToolEnds
    <2>2. pc' = [pc EXCEPT ![t] = "running"]
      BY <2>1 DEF SlotTypes
    <2> QED BY <1>1, <1>3, <1>17, <2>1, <2>2 DEF MessageTaken, ToolStarts, ToolEnds, recordVars
  <1>18. CASE TimerFires(t)
    <2>1. pc[t] \in Exec /\ pc' = pc
      BY <1>18 DEF TimerFires, ExecPhases, SetupPhases, ChildPhases
    <2>2. pc' = [pc EXCEPT ![t] = pc[t]]
      BY <2>1 DEF SlotTypes
    <2> QED BY <1>1, <1>3, <1>18, <2>1, <2>2 DEF TimerFires, recordVars
  <1>19. CASE CancelTask(t) \/ ParentAborts(t)
    <2>1. /\ LeaveQueue(t) /\ activeCount' = activeCount /\ leases' = leases
          /\ UNCHANGED <<disposed, status, finals>>
          /\ \A u \in Tasks \ {t} : job'[u].waitAborted = job[u].waitAborted
      BY <1>19 DEF CancelTask, ParentAborts, recordVars
    <2>2. SlotTypes' /\ SlotInv' /\ \A u \in Tasks : pc'[u] = "idle" <=> pc[u] = "idle"
      BY <2>1, LeaveQueueKeeps
    <2>3. RecordTypes' /\ RecordInv'
      BY <2>1, <2>2, SameRecords DEF RecordTypes
    <2> QED BY <1>1, <2>2, <2>3
  <1>20. CASE SendAgentMessage(t)
    <2>1. /\ pc[t] # "idle" /\ pc' = pc /\ UNCHANGED <<slotVars, disposed, status, finals>>
          /\ \A u \in Tasks : job'[u].waitAborted = job[u].waitAborted
      BY <1>20 DEF SendAgentMessage, Active, recordVars, Job
    <2>2. pc' = [pc EXCEPT ![t] = pc[t]] /\ SameWaits
      BY <2>1 DEF SlotTypes, SameWaits
    <2> QED BY <1>1, <1>2, <2>1, <2>2, QuietKeeps
  <1> QED BY <1>5, <1>6, <1>7, <1>8, <1>9, <1>10, <1>12, <1>13, <1>14, <1>15, <1>16, <1>17,
             <1>18, <1>19, <1>20 DEF TaskStep

-----------------------------------------------------------------------------
(* The theorems.                                                           *)

\* The constructor of the pool establishes the invariant.
LEMMA InitHolds == Init => IInv
  <1> SUFFICES ASSUME Init PROVE IInv
    OBVIOUS
  <1> USE DEF Init
  <1>1. SlotTypes /\ JobTypes /\ RecordTypes
    <2>1. "idle" \in Phases /\ "none" \in Statuses
      BY DEF Phases, Statuses
    <2>2. JobTypes
      BY FreshJobType
    <2>3. SlotTypes
      BY <2>1, EmptySeq DEF SlotTypes
    <2> QED BY <2>1, <2>2, <2>3 DEF RecordTypes
  <1>2. MessageBound
    BY FreshJobType, PoolAssumption DEF MessageBound, Messages
  <1>3. "idle" \notin SlotPhases /\ "idle" # "waiting" /\ "none" \notin TerminalStatus
    BY DEF SlotPhases, ExecPhases, SetupPhases, ChildPhases, TerminalStatus
  <1>4. SlotsConserved
    BY <1>3, FS_EmptySet, PoolAssumption DEF SlotsConserved
  <1>5. NoStrandedWaiter /\ QueueIsExact
    BY <1>3 DEF NoStrandedWaiter, QueueIsExact, Waiting
  <1>6. RecordInv
    BY <1>3 DEF RecordInv, PruneKeepsActive, OneTerminalEvent, Active
  <1> QED BY <1>1, <1>2, <1>4, <1>5, <1>6 DEF IInv, SlotInv

\* Every step of the pool keeps the invariant.
LEMMA StepKeeps == IInv /\ [Next]_vars => IInv'
  <1> SUFFICES ASSUME IInv, [Next]_vars PROVE IInv'
    OBVIOUS
  <1>1. ASSUME NEW t \in Tasks, TaskStep(t)
        PROVE  IInv'
    BY <1>1, TaskStepKeeps
  <1>2. CASE Dispose
    BY <1>2, DisposeKeeps
  <1>3. CASE UNCHANGED vars
    <2> USE <1>3 DEF vars, IInv
    <2>1. SlotTypes' /\ JobTypes' /\ RecordTypes'
      BY DEF SlotTypes, RecordTypes
    <2>2. MessageBound'
      BY DEF MessageBound, Messages
    <2>3. Waiting' = Waiting
      BY DEF Waiting
    <2>4. SlotInv'
      BY <2>3 DEF SlotInv, SlotsConserved, NoStrandedWaiter, QueueIsExact
    <2>5. RecordInv'
      BY DEF RecordInv, PruneKeepsActive, OneTerminalEvent, Active, Records
    <2> QED BY <2>1, <2>2, <2>4, <2>5
  <1> QED BY <1>1, <1>2, <1>3 DEF Next, TaskStep

\* The inductive invariant holds in every reachable state.
THEOREM Invariance == Spec => []IInv
  BY InitHolds, StepKeeps, PTL DEF Spec

\* Every variable of the pool keeps its type, in particular no counter of
\* messages or tools leaves its range and no slot is released twice.
THEOREM TypeCorrect == Spec => []TypeOK
  <1>1. IInv => TypeOK
    BY DEF IInv, SlotTypes, RecordTypes, TypeOK
  <1> QED BY <1>1, Invariance, PTL

\* activeCountValue counts the leases that are out, is at most
\* maxConcurrency, and the lease holders are the calls between acquire() and
\* their finally block, for every number of tasks and slots.
THEOREM SlotSafety == Spec => []SlotsConserved
  <1>1. IInv => SlotsConserved
    BY DEF IInv, SlotInv
  <1> QED BY <1>1, Invariance, PTL

\* No task waits in acquire() while a slot is free.
THEOREM NoTaskStranded == Spec => []NoStrandedWaiter
  <1>1. IInv => NoStrandedWaiter
    BY DEF IInv, SlotInv
  <1> QED BY <1>1, Invariance, PTL

\* The queue of acquire() is exactly the set of suspended calls, each once
\* and none of them aborted.
THEOREM QueueExact == Spec => []QueueIsExact
  <1>1. IInv => QueueIsExact
    BY DEF IInv, SlotInv
  <1> QED BY <1>1, Invariance, PTL

\* emitTerminal reports the end of a registered task exactly once.
THEOREM TerminalOnce == Spec => []OneTerminalEvent
  <1>1. IInv => OneTerminalEvent
    BY DEF IInv, RecordInv
  <1> QED BY <1>1, Invariance, PTL

\* pruneTaskRecords never takes the record of an active task.
THEOREM ActiveRecorded == Spec => []PruneKeepsActive
  <1>1. IInv => PruneKeepsActive
    BY DEF IInv, RecordInv
  <1> QED BY <1>1, Invariance, PTL

-----------------------------------------------------------------------------
(* acquire() and release() implement Semaphore.                            *)

slots == <<leases, waiters, disposed>>

\* release() frees the slot or hands it to the caller that waited longest.
LEMMA ReleaseRefines ==
    ASSUME SlotTypes, SlotInv, NEW t \in leases, NEW p \in [Tasks -> Phases], Release(t, p),
           disposed' = disposed
    PROVE  Sem!Next
  <1>1. CASE waiters = <<>> /\ waiters' = <<>> /\ leases' = leases \ {t}
    <2>1. Sem!Free(t)
      BY <1>1 DEF Sem!Free
    <2> QED BY <2>1 DEF Sem!Next
  <1>2. CASE /\ waiters # <<>> /\ waiters' = SubSeq(waiters, 2, Len(waiters))
             /\ leases' = (leases \ {t}) \cup {waiters[1]}
    <2>1. waiters \in Seq(Tasks)
      BY DEF SlotTypes
    <2>2. Head(waiters) = waiters[1] /\ Tail(waiters) = SubSeq(waiters, 2, Len(waiters))
      BY <1>2, <2>1
    <2>3. Sem!HandOver(t)
      BY <1>2, <2>2 DEF Sem!HandOver
    <2> QED BY <2>3 DEF Sem!Next
  <1> QED BY <1>1, <1>2, ReleaseEffect

\* So does the finally block, if the call holds a slot.
LEMMA FinishRefines ==
    ASSUME IInv, NEW t \in Tasks, NEW final, Finish(t, final)
    PROVE  Sem!Next \/ UNCHANGED slots
  <1>1. disposed' = disposed /\ SlotTypes /\ SlotInv
    BY DEF Finish, IInv
  <1>2. CASE t \in leases
    <2>1. [pc EXCEPT ![t] = "idle"] \in [Tasks -> Phases]
      BY <1>1 DEF SlotTypes, Phases
    <2>2. Release(t, [pc EXCEPT ![t] = "idle"])
      BY <1>2 DEF Finish
    <2> QED BY <1>1, <1>2, <2>1, <2>2, ReleaseRefines
  <1>3. CASE t \notin leases
    BY <1>1, <1>3 DEF Finish, slotVars, slots
  <1> QED BY <1>2, <1>3

\* The abort listener takes one waiter out of the queue.
LEMMA LeaveQueueRefines ==
    ASSUME IInv, NEW t \in Tasks, LeaveQueue(t), leases' = leases, disposed' = disposed
    PROVE  Sem!Next \/ UNCHANGED slots
  <1>1. CASE t \notin Waiting
    BY <1>1 DEF LeaveQueue, slots
  <1>2. CASE t \in Waiting
    <2> DEFINE i == CHOOSE i \in DOMAIN waiters : waiters[i] = t
    <2>1. i \in DOMAIN waiters
      BY <1>2 DEF Waiting
    <2>2. i \in 1 .. Len(waiters)
      BY <2>1, LenProperties DEF IInv, SlotTypes
    <2>3. waiters' = SubSeq(waiters, 1, i - 1) \o SubSeq(waiters, i + 1, Len(waiters))
      BY <1>2 DEF LeaveQueue
    <2> HIDE DEF i
    <2>4. Sem!GiveUp(i)
      BY <2>3 DEF Sem!GiveUp
    <2> QED BY <2>2, <2>4 DEF Sem!Next
  <1> QED BY <1>1, <1>2

\* acquire() takes a free slot, past nobody, or joins the queue.
LEMMA DelegateRefines ==
    ASSUME IInv, NEW t \in Tasks, NEW parentAborted \in BOOLEAN, Delegate(t, parentAborted)
    PROVE  Sem!Next \/ UNCHANGED slots
  <1>1. /\ disposed' = disposed /\ Register(t, "starting", 0)
        /\ activeCount = Cardinality(leases) /\ activeCount <= MaxConcurrency
        /\ activeCount \in Nat /\ MaxConcurrency \in Nat
        /\ waiters # <<>> => activeCount = MaxConcurrency
        /\ waiters \in Seq(Tasks)
    BY PoolAssumption DEF Delegate, IInv, SlotTypes, SlotInv, SlotsConserved, NoStrandedWaiter
  <1>2. pc[t] = "idle"
    BY <1>1 DEF Register, IInv, RecordInv, PruneKeepsActive, Active
  <1>3. t \notin leases /\ t \notin Waiting
    BY <1>2 DEF IInv, SlotInv, SlotsConserved, QueueIsExact, SlotPhases, ExecPhases, SetupPhases, ChildPhases
  <1> Sem!Cardinality(leases) = Cardinality(leases)
    BY DEF Sem!Cardinality, Cardinality
  <1>4. CASE disposed \/ parentAborted
    BY <1>1, <1>4 DEF Delegate, slotVars, slots
  <1>5. CASE ~(disposed \/ parentAborted) /\ activeCount < MaxConcurrency
    <2>1. leases' = leases \cup {t} /\ waiters' = waiters
      BY <1>5 DEF Delegate
    <2>2. Sem!Take(t)
      BY <1>1, <1>3, <1>5, <2>1 DEF Sem!Take
    <2> QED BY <2>1, <2>2 DEF Sem!Next
  <1>6. CASE ~(disposed \/ parentAborted) /\ ~(activeCount < MaxConcurrency)
    <2>1. waiters' = Append(waiters, t) /\ leases' = leases
      BY <1>6 DEF Delegate
    <2>2. /\ Len(waiters) \in Nat /\ DOMAIN waiters = 1 .. Len(waiters)
          /\ Len(waiters') = Len(waiters) + 1 /\ waiters'[Len(waiters) + 1] = t
      BY <1>1, <2>1, LenProperties, AppendProperties
    <2>3. t \notin Sem!Members
      BY <1>3, <2>2 DEF Waiting, Sem!Members
    <2>4. Sem!Wait(t)
      BY <1>1, <1>3, <1>6, <2>1, <2>3 DEF Sem!Wait
    <2>5. Len(waiters) + 1 \in 1 .. Len(waiters')
      BY <2>2
    <2>6. \E i \in 1 .. Len(waiters') : Sem!Wait(waiters'[i])
      BY <2>2, <2>4, <2>5
    <2> QED BY <2>6 DEF Sem!Next
  <1> QED BY <1>4, <1>5, <1>6

\* Every step of a call is a step of the semaphore or leaves it alone.
LEMMA TaskStepRefines ==
    ASSUME IInv, NEW t \in Tasks, TaskStep(t)
    PROVE  Sem!Next \/ UNCHANGED slots
  <1>1. CASE DelegateRefused(t)
    BY <1>1 DEF DelegateRefused, slotVars, slots
  <1>2. CASE \E parentAborted \in BOOLEAN : Delegate(t, parentAborted)
    BY <1>2, DelegateRefines
  <1>3. CASE AcquireResumes(t)
    <2>1. disposed' = disposed /\ pc[t] = "granted" /\ SlotTypes /\ SlotInv
      BY <1>3 DEF AcquireResumes, IInv
    <2>2. CASE ~(disposed \/ job[t].waitAborted)
      BY <1>3, <2>1, <2>2 DEF AcquireResumes, slotVars, slots
    <2>3. CASE disposed \/ job[t].waitAborted
      <3>1. Release(t, [pc EXCEPT ![t] = "rejected"])
        BY <1>3, <2>3 DEF AcquireResumes
      <3>2. t \in leases
        BY <2>1 DEF SlotInv, SlotsConserved, SlotPhases
      <3>3. [pc EXCEPT ![t] = "rejected"] \in [Tasks -> Phases]
        BY <2>1 DEF SlotTypes, Phases, QueuePhases
      <3> QED BY <2>1, <3>1, <3>2, <3>3, ReleaseRefines
    <2> QED BY <2>2, <2>3
  <1>4. CASE AcquireRejected(t)
    BY <1>4, FinishRefines DEF AcquireRejected
  <1>5. CASE Begin(t)
    <2>1. CASE Finish(t, CatchStatus(t))
      BY <2>1, FinishRefines
    <2>2. CASE UNCHANGED <<job, slotVars, disposed, finals>>
      BY <2>2 DEF slotVars, slots
    <2> QED BY <1>5, <2>1, <2>2 DEF Begin
  <1>6. ASSUME Launch(t) PROVE Sem!Next \/ UNCHANGED slots
    <2>1. CASE Finish(t, CatchStatus(t))
      BY <2>1, FinishRefines
    <2>2. CASE UNCHANGED <<job, slotVars, disposed, recordVars>>
      BY <2>2 DEF slotVars, slots
    <2> QED BY <1>6, <2>1, <2>2 DEF Launch
  <1>7. CASE SessionCreated(t)
    <2>1. CASE job[t].pending = 0
      BY <1>6, <1>7, <2>1 DEF SessionCreated
    <2>2. CASE job[t].pending # 0
      BY <1>7, <2>2 DEF SessionCreated, slotVars, slots
    <2> QED BY <2>1, <2>2
  <1>8. CASE MessageDrained(t)
    <2>1. CASE job[t].draining = 0
      BY <1>6, <1>8, <2>1 DEF MessageDrained
    <2>2. CASE job[t].draining # 0
      BY <1>8, <2>2 DEF MessageDrained, slotVars, slots
    <2> QED BY <2>1, <2>2
  <1>9. CASE SessionFailed(t) \/ MessageRefused(t)
    BY <1>9, FinishRefines DEF SessionFailed, MessageRefused
  <1>10. CASE PreflightEnds(t) \/ PromptReturns(t)
    BY <1>10, FinishRefines DEF PreflightEnds, PromptReturns
  <1>11. CASE \/ TerminalOpened(t) \/ RunStarts(t) \/ MessageTaken(t) \/ ToolStarts(t)
              \/ ToolEnds(t) \/ BudgetStops(t) \/ RunEnds(t) \/ RunSettles(t)
              \/ TimerFires(t) \/ SendAgentMessage(t)
    BY <1>11 DEF TerminalOpened, RunStarts, MessageTaken, ToolStarts, ToolEnds, BudgetStops,
                 RunEnds, RunSettles, TimerFires, SendAgentMessage, slotVars, slots
  <1>12. CASE CancelTask(t) \/ ParentAborts(t)
    BY <1>12, LeaveQueueRefines DEF CancelTask, ParentAborts
  <1> QED BY <1>1, <1>2, <1>3, <1>4, <1>5, <1>7, <1>8, <1>9, <1>10, <1>11, <1>12 DEF TaskStep

\* The pool implements the fair semaphore, for every number of slots and
\* tasks: FIFO, no overtaking, no slot lost or granted twice in a hand-over,
\* none granted after dispose().
THEOREM SlotsAreFair == Spec => FairSlots
  <1>1. Init => Sem!Init
    BY DEF Init, Sem!Init
  <1>2. IInv /\ [Next]_vars => [Sem!Next]_<<leases, waiters, disposed>>
    <2> SUFFICES ASSUME IInv, [Next]_vars PROVE Sem!Next \/ UNCHANGED slots
      BY DEF slots
    <2>1. ASSUME NEW t \in Tasks, TaskStep(t) PROVE Sem!Next \/ UNCHANGED slots
      BY <2>1, TaskStepRefines
    <2>2. CASE Dispose
      <3>1. Sem!Close
        BY <2>2 DEF Dispose, Sem!Close
      <3> QED BY <3>1 DEF Sem!Next
    <2>3. CASE UNCHANGED vars
      BY <2>3 DEF vars, slots
    <2> QED BY <2>1, <2>2, <2>3 DEF Next, TaskStep
  <1> QED BY <1>1, <1>2, Invariance, PTL DEF Spec, FairSlots, Sem!Spec

=============================================================================
