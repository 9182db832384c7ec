---------------------------- MODULE MonitorProofs ----------------------------
(***************************************************************************)
(* Proofs about Monitor for every set of monitors, of wait calls and every *)
(* bound: no wake-up is lost between wait() and transition(), monitor_wait *)
(* answers only with records that ended, and a record that ended stays as  *)
(* it ended.                                                               *)
(*                                                                         *)
(* The wake-up argument needs two more facts.  A registered waiter is past *)
(* its poll: a poll() call in the queue belongs to a wait that is polling, *)
(* once each, so that the end of a poll never touches a waiter.  And the   *)
(* navigation count a waiter remembers is never ahead of the real one.     *)
(* That an end survives a restart needs the session branch to agree with   *)
(* the registry, which holds as long as every object that an operation     *)
(* holds across an await is the registered one, so until a navigation.     *)
(***************************************************************************)
EXTENDS Monitor, TLAPS, SequenceTheorems

WaitPhases == {"idle", "polling", "polled", "waiting", "rejected"} \cup Terminal
Entries == [Ids -> Statuses \cup {"none"}]

\* The types the proofs need.
RecordTypes ==
    /\ objs \in [Ids -> Seq(Statuses)]
    /\ cur \in [Ids -> Nat]
    /\ \A m \in Ids : cur[m] <= Len(objs[m])
    /\ branch \in Entries
    /\ nodes \subseteq Entries
    /\ navs \in Nat
WaitTypes ==
    /\ wait \in [Waits -> [phase : WaitPhases, id : Ids \cup {"none"}, nav : Nat, aborted : BOOLEAN]]
    /\ waiters \in [Ids -> SUBSET Waits]
    /\ pollQueue \in Seq(Waits \cup {"timer"})

\* A registered waiter is suspended in the wait() for its id, and no wait
\* remembers a navigation that has not happened.
WaitersWait ==
    /\ \A w \in Waits : wait[w].nav <= navs
    /\ \A m \in Ids : \A w \in waiters[m] : wait[w].phase = "waiting" /\ wait[w].id = m

\* The poll() calls of waits belong to waits that are polling, once each.
PollsOwned ==
    /\ \A i \in DOMAIN pollQueue : pollQueue[i] \in Waits => wait[pollQueue[i]].phase = "polling"
    /\ \A i, j \in DOMAIN pollQueue : pollQueue[i] \in Waits /\ pollQueue[i] = pollQueue[j] => i = j

\* r is the object that is registered for its id when the registry is c.
RefIn(r, c) == \E m \in Ids : c[m] # 0 /\ r = [id |-> m, gen |-> c[m]]

\* The operations under way hold objects of monitors.
RefsValid ==
    /\ loop.phase \in {"polling", "timeout"} => loop.ref.id \in Ids
    /\ stopCall.phase = "stopping" => stopCall.ref.id \in Ids
    /\ init.ref # NoRef => init.ref.id \in Ids
    /\ init.todo \subseteq Ids

\* Without a navigation the branch agrees with the registry, and what the
\* operations under way hold is what is registered.
BranchAgrees ==
    navs = 0 =>
        /\ \A m \in Registered : branch[m] = Current(m)
        /\ loop.phase \in {"polling", "timeout"} => RefIn(loop.ref, cur)
        /\ stopCall.phase = "stopping" => RefIn(stopCall.ref, cur)
        /\ init.ref # NoRef => RefIn(init.ref, cur)

\* The inductive invariant.
WaitInv == WaitTypes /\ WaitersWait /\ PollsOwned
IInv == RecordTypes /\ WaitInv /\ NoLostWakeup /\ RefsValid /\ BranchAgrees

\* pollOnce runs for the first poll() call of the queue.
LoopRuns == loop.phase # "idle" => pollQueue # <<>>

\* One step of one record: what EndedIsFinal says about it.
StaysEnded(m) ==
    m \in Registered /\ Current(m) \in Terminal /\ navs' = 0
        => m \in Registered' /\ Current(m)' = Current(m)

-----------------------------------------------------------------------------
(* Sequences and statuses.                                                 *)

\* Writing one position of a sequence, or none when it has no such position.
LEMMA SeqExcept ==
    ASSUME NEW S, NEW s \in Seq(S), NEW x \in S, NEW i
    PROVE  LET r == [s EXCEPT ![i] = x]
           IN  /\ r \in Seq(S) /\ Len(r) = Len(s)
               /\ \A k \in 1..Len(s) : r[k] = IF k = i THEN x ELSE s[k]
  <1>1. Len(s) \in Nat /\ DOMAIN s = 1..Len(s)
    BY LenProperties
  <1>2. CASE i \in 1..Len(s)
    BY <1>1, <1>2, ExceptSeq
  <1>3. CASE i \notin 1..Len(s)
    <2>1. s = [k \in 1..Len(s) |-> s[k]] /\ DOMAIN [s EXCEPT ![i] = x] = DOMAIN s
      BY <1>1
    <2>2. [s EXCEPT ![i] = x] = s
      BY <1>1, <1>3, <2>1
    <2> QED BY <1>1, <1>3, <2>2
  <1> QED BY <1>2, <1>3

\* The statuses are live or terminal, not both.
LEMMA StatusFacts ==
    /\ \A x \in Statuses : x \in Live <=> x \notin Terminal
    /\ {"completed", "failed", "cancelled", "lost"} \subseteq Terminal
    /\ Terminal \subseteq Statuses /\ Live \subseteq Statuses
    /\ "running" \in Statuses /\ "starting" \in Live /\ "none" \notin Statuses
    /\ Terminal \subseteq WaitPhases
    /\ \A x \in Live : x \notin WaitPhases
    /\ {"polling", "polled", "waiting"} \cap Terminal = {}
  BY DEF Statuses, Live, Terminal, WaitPhases

\* What an adapter's answer makes of a record is a status.
LEMMA ObservedType ==
    ASSUME NEW from, NEW answer, NEW status \in Observed(from, answer)
    PROVE  status \in Statuses
  BY DEF Observed, Statuses, Live, Terminal

\* The object of a registered id is one of those made for it.
LEMMA CurrentType ==
    ASSUME RecordTypes, NEW m \in Registered
    PROVE  m \in Ids /\ cur[m] \in 1..Len(objs[m]) /\ Current(m) \in Statuses
  <1>1. m \in Ids /\ cur[m] \in Nat /\ cur[m] # 0 /\ cur[m] <= Len(objs[m]) /\ objs[m] \in Seq(Statuses)
    BY DEF RecordTypes, Registered
  <1>2. Len(objs[m]) \in Nat
    BY <1>1, LenProperties
  <1>3. cur[m] \in 1..Len(objs[m])
    BY <1>1, <1>2
  <1> QED BY <1>1, <1>3, ElementOfSeq DEF Current

-----------------------------------------------------------------------------
(* transition().                                                           *)

\* The records after transition(): at most the object r has another status,
\* which then was a step that transitionAllowed accepts.
LEMMA TransitionRecords ==
    ASSUME RecordTypes, NEW r, NEW status \in Statuses, Transition(r, status),
           cur' = cur, navs' = navs
    PROVE  /\ RecordTypes'
           /\ \A m \in Registered :
                \/ Current(m)' = Current(m)
                \/ /\ m = r.id /\ cur[m] = r.gen /\ Current(m)' = status
                   /\ Current(m) \in Live
           /\ \A m \in Registered : m = r.id /\ cur[m] = r.gen
                => \/ Current(m)' = Current(m) /\ branch' = branch
                   \/ Current(m)' = status /\ branch' = [branch EXCEPT ![m] = status]
           /\ branch' = branch \/ branch' = [branch EXCEPT ![r.id] = status]
  <1>1. CASE ~TransitionAllowed(Object(r), status)
    <2>1. objs' = objs /\ branch' = branch /\ nodes' = nodes
      BY <1>1 DEF Transition
    <2> QED BY <2>1 DEF RecordTypes, Current
  <1>2. CASE TransitionAllowed(Object(r), status)
    <2>1. /\ objs' = [objs EXCEPT ![r.id][r.gen] = status]
          /\ \/ branch' = [branch EXCEPT ![r.id] = status] /\ nodes' = Visited
             \/ Object(r) = status /\ branch' = branch /\ nodes' = nodes
      BY <1>2 DEF Transition, Persist
    <2>2. ASSUME NEW m \in Ids
          PROVE  /\ objs'[m] \in Seq(Statuses) /\ Len(objs'[m]) = Len(objs[m])
                 /\ \A k \in 1..Len(objs[m]) :
                      objs'[m][k] = IF m = r.id /\ k = r.gen THEN status ELSE objs[m][k]
      <3>1. objs \in [Ids -> Seq(Statuses)] /\ objs[m] \in Seq(Statuses)
        BY DEF RecordTypes
      <3>2. CASE m = r.id
        <4>1. objs'[m] = [objs[m] EXCEPT ![r.gen] = status]
          BY <2>1, <3>1, <3>2
        <4> QED BY <3>1, <3>2, <4>1, SeqExcept
      <3>3. CASE m # r.id
        <4>1. objs'[m] = objs[m]
          BY <2>1, <3>1, <3>3
        <4> QED BY <3>1, <3>3, <4>1
      <3> QED BY <3>2, <3>3
    <2>3. RecordTypes'
      <3>1. objs' \in [Ids -> Seq(Statuses)]
        <4>1. objs' = [m \in Ids |-> objs'[m]]
          BY <2>1 DEF RecordTypes
        <4> QED BY <2>2, <4>1
      <3>2. branch' \in Entries /\ nodes' \subseteq Entries
        BY <2>1 DEF RecordTypes, Entries, Visited
      <3> QED BY <2>2, <3>1, <3>2 DEF RecordTypes
    <2>4. \A m \in Registered : Current(m)' = IF m = r.id /\ cur[m] = r.gen THEN status ELSE Current(m)
      <3> SUFFICES ASSUME NEW m \in Registered
                   PROVE  Current(m)' = IF m = r.id /\ cur[m] = r.gen THEN status ELSE Current(m)
        OBVIOUS
      <3>1. m \in Ids /\ cur[m] \in 1..Len(objs[m])
        BY CurrentType
      <3> QED BY <2>2, <3>1 DEF Current
    <2>5. ASSUME NEW m \in Registered, m = r.id, cur[m] = r.gen
          PROVE  /\ Current(m)' = status
                 /\ Current(m) = status \/ Current(m) \in Live
                 /\ branch' = [branch EXCEPT ![m] = status] \/ (Current(m) = status /\ branch' = branch)
      <3>1. Object(r) = Current(m)
        BY <2>5 DEF Object, Current
      <3> QED BY <1>2, <2>1, <2>4, <2>5, <3>1 DEF TransitionAllowed
    <2>6. \A m \in Registered :
                \/ Current(m)' = Current(m)
                \/ /\ m = r.id /\ cur[m] = r.gen /\ Current(m)' = status
                   /\ Current(m) \in Live
      BY <2>4, <2>5
    <2>7. \A m \in Registered : m = r.id /\ cur[m] = r.gen
                => \/ Current(m)' = Current(m) /\ branch' = branch
                   \/ Current(m)' = status /\ branch' = [branch EXCEPT ![m] = status]
      BY <2>5
    <2> QED BY <2>1, <2>3, <2>6, <2>7
  <1> QED BY <1>1, <1>2

\* The waiters after transition(): those of the record are resolved when it
\* ended, and with them nothing that was polling.
LEMMA TransitionWaits ==
    ASSUME WaitInv, NEW r, r.id \in Ids, NEW status \in Statuses, Transition(r, status),
           navs' = navs, pollQueue' = pollQueue
    PROVE  /\ WaitInv'
           /\ \A m \in Ids : waiters'[m] \subseteq waiters[m]
           /\ \A w \in Waits : wait'[w].nav = wait[w].nav
           /\ objs' = objs \/ (status \in Terminal => waiters'[r.id] = {})
  <1> USE DEF WaitInv
  <1>1. CASE ~TransitionAllowed(Object(r), status)
    <2>1. objs' = objs /\ wait' = wait /\ waiters' = waiters
      BY <1>1 DEF Transition
    <2> QED BY <2>1 DEF WaitTypes, WaitersWait, PollsOwned
  <1>2. CASE TransitionAllowed(Object(r), status)
    <2> DEFINE done == Resolved(r, status)
    <2>1. /\ waiters' = [waiters EXCEPT ![r.id] = @ \ done]
          /\ wait' = [w \in Waits |-> IF w \in done THEN [wait[w] EXCEPT !.phase = status] ELSE wait[w]]
      BY <1>2 DEF Transition
    <2>2. done = IF status \in Terminal THEN waiters[r.id] ELSE {}
      BY DEF Resolved
    <2> HIDE DEF done
    <2>3. \A m \in Ids : waiters'[m] = IF m = r.id THEN waiters[m] \ done ELSE waiters[m]
      BY <2>1 DEF WaitTypes
    <2>4. \A w \in Waits : /\ wait'[w].nav = wait[w].nav /\ wait'[w].id = wait[w].id
                           /\ wait'[w].phase = IF w \in done THEN status ELSE wait[w].phase
      BY <2>1 DEF WaitTypes
    <2>5. \A w \in done : /\ status \in Terminal
                          /\ w \in Waits /\ wait[w].phase = "waiting" /\ wait[w].id = r.id
      BY <2>2 DEF WaitersWait, WaitTypes
    <2>6. WaitTypes'
      <3>1. ASSUME NEW w \in Waits
            PROVE  wait'[w] \in [phase : WaitPhases, id : Ids \cup {"none"}, nav : Nat, aborted : BOOLEAN]
        <4>1. wait'[w] = IF w \in done THEN [wait[w] EXCEPT !.phase = status] ELSE wait[w]
          BY <2>1
        <4>2. w \in done => status \in WaitPhases
          BY <2>5, StatusFacts
        <4> QED BY <4>1, <4>2 DEF WaitTypes
      <3>2. waiters' \in [Ids -> SUBSET Waits]
        BY <2>1 DEF WaitTypes
      <3>3. DOMAIN wait' = Waits /\ wait' = [w \in Waits |-> wait'[w]]
        BY <2>1
      <3> QED BY <3>1, <3>2, <3>3 DEF WaitTypes
    <2>7. ASSUME NEW m \in Ids, NEW w \in waiters'[m]
          PROVE  wait'[w].phase = "waiting" /\ wait'[w].id = m
      <3>1. w \in waiters[m] /\ w \in Waits /\ wait[w].phase = "waiting" /\ wait[w].id = m
        BY <2>3 DEF WaitTypes, WaitersWait
      <3>2. w \notin done
        BY <2>3, <2>5, <3>1
      <3> QED BY <2>4, <3>1, <3>2
    <2>8. WaitersWait'
      BY <2>4, <2>7 DEF WaitersWait
    <2>9. ASSUME NEW i \in DOMAIN pollQueue, pollQueue[i] \in Waits
          PROVE  wait'[pollQueue[i]].phase = "polling"
      <3>1. wait[pollQueue[i]].phase = "polling"
        BY <2>9 DEF PollsOwned
      <3> QED BY <2>4, <2>5, <2>9, <3>1
    <2>10. PollsOwned'
      BY <2>9 DEF PollsOwned
    <2> QED BY <2>2, <2>3, <2>4, <2>6, <2>8, <2>10
  <1> QED BY <1>1, <1>2

\* Any step that calls transition() and leaves the registry alone.
LEMMA TransitionKeeps ==
    ASSUME RecordTypes, WaitInv, NoLostWakeup, NEW r, r.id \in Ids, NEW status \in Statuses,
           Transition(r, status), cur' = cur, navs' = navs, pollQueue' = pollQueue
    PROVE  /\ RecordTypes' /\ WaitInv' /\ NoLostWakeup'
           /\ \A m \in Ids : StaysEnded(m)
           /\ RefIn(r, cur) /\ (\A m \in Registered : branch[m] = Current(m))
                => \A m \in Registered : branch'[m] = Current(m)'
  <1>1. /\ RecordTypes'
        /\ \A m \in Registered :
                \/ Current(m)' = Current(m)
                \/ /\ m = r.id /\ cur[m] = r.gen /\ Current(m)' = status
                   /\ Current(m) \in Live
        /\ \A m \in Registered : m = r.id /\ cur[m] = r.gen
                => \/ Current(m)' = Current(m) /\ branch' = branch
                   \/ Current(m)' = status /\ branch' = [branch EXCEPT ![m] = status]
        /\ branch' = branch \/ branch' = [branch EXCEPT ![r.id] = status]
    BY TransitionRecords
  <1>2. /\ WaitInv'
        /\ \A m \in Ids : waiters'[m] \subseteq waiters[m]
        /\ \A w \in Waits : wait'[w].nav = wait[w].nav
        /\ objs' = objs \/ (status \in Terminal => waiters'[r.id] = {})
    BY TransitionWaits
  <1>3. Registered' = Registered
    BY DEF Registered
  <1>4. NoLostWakeup'
    <2> SUFFICES ASSUME NEW m \in Ids, NEW w \in waiters'[m], wait'[w].nav = navs
                 PROVE  m \in Registered /\ Current(m)' \in Live
      BY <1>3 DEF NoLostWakeup
    <2>1. w \in waiters[m] /\ w \in Waits /\ wait[w].nav = navs
      BY <1>2 DEF WaitInv, WaitTypes
    <2>2. m \in Registered /\ Current(m) \in Live
      BY <2>1 DEF NoLostWakeup
    <2>3. CASE Current(m)' = Current(m)
      BY <2>2, <2>3
    <2>4. CASE Current(m)' # Current(m)
      <3>1. m = r.id /\ Current(m)' = status
        BY <1>1, <2>2, <2>4
      <3>2. objs' # objs
        BY <2>4 DEF Current
      <3>3. status \notin Terminal
        BY <1>2, <3>1, <3>2
      <3> QED BY <2>2, <3>1, <3>3, StatusFacts
    <2> QED BY <2>3, <2>4
  <1>5. ASSUME NEW m \in Ids
        PROVE  StaysEnded(m)
    BY <1>1, <1>3, StatusFacts, CurrentType DEF StaysEnded
  <1>6. ASSUME RefIn(r, cur), \A m \in Registered : branch[m] = Current(m), NEW m \in Registered
        PROVE  branch'[m] = Current(m)'
    <2>1. r.id \in Registered /\ cur[r.id] = r.gen /\ m \in Ids
      BY <1>6 DEF RefIn, Registered
    <2>2. CASE m = r.id
      BY <1>1, <1>6, <2>1, <2>2 DEF RecordTypes, Entries
    <2>3. CASE m # r.id
      BY <1>1, <1>6, <2>1, <2>3 DEF RecordTypes, Entries
    <2> QED BY <2>2, <2>3
  <1> QED BY <1>1, <1>2, <1>4, <1>5, <1>6

-----------------------------------------------------------------------------
(* What the operations under way hold.                                     *)

\* A step keeps the invariant, and the records that ended.
Kept == IInv' /\ \A m \in Ids : StaysEnded(m)

\* A registered object is one of a monitor.
LEMMA RefId ==
    ASSUME NEW r, NEW c, RefIn(r, c)
    PROVE  r.id \in Ids
  BY DEF RefIn

\* The poll loop goes on to a registered object.
LEMMA VisitRef ==
    ASSUME NEW seen, NEW o, Visit(seen, o), loop'.phase \in {"polling", "timeout"}
    PROVE  RefIn(loop'.ref, cur)
  <1>1. CASE loop' = [IdleLoop EXCEPT !.phase = "flushing"]
    <2>1. loop'.phase = "flushing"
      BY <1>1 DEF IdleLoop
    <2> QED BY <2>1
  <1>2. CASE loop' # [IdleLoop EXCEPT !.phase = "flushing"]
    <2>1. PICK r \in Unseen(seen, o) : loop'.ref = r
      BY <1>2 DEF Visit
    <2> QED BY <2>1 DEF Unseen, RefIn, Registered
  <1> QED BY <1>1, <1>2

\* initialize() goes on to an object of the registry c.
LEMMA InitializeRef ==
    ASSUME NEW todo \in SUBSET Ids, NEW o, NEW c, InitializeNext(todo, o, c)
    PROVE  init'.todo \subseteq Ids /\ (init'.ref # NoRef => RefIn(init'.ref, c))
  BY DEF InitializeNext, RefIn

\* A step that leaves the registry alone and holds on to registered objects.
LEMMA RefsKeep ==
    ASSUME IInv, cur' = cur, navs' = navs,
           loop' = loop \/ (loop'.phase \in {"polling", "timeout"} => RefIn(loop'.ref, cur)),
           stopCall' = stopCall \/ (stopCall'.phase = "stopping" => RefIn(stopCall'.ref, cur)),
           init' = init \/ (init'.todo \subseteq Ids /\ (init'.ref # NoRef => RefIn(init'.ref, cur))),
           navs = 0 => \A m \in Registered : branch'[m] = Current(m)'
    PROVE  RefsValid' /\ BranchAgrees'
  <1> USE DEF IInv
  <1>1. \A r : RefIn(r, cur) => r.id \in Ids
    BY DEF RefIn
  <1>2. RefsValid'
    BY <1>1 DEF RefsValid
  <1>3. Registered' = Registered
    BY DEF Registered
  <1>4. BranchAgrees'
    BY <1>3 DEF BranchAgrees
  <1> QED BY <1>2, <1>4

\* A step that leaves the records alone.
LEMMA SameRecords ==
    ASSUME IInv, UNCHANGED <<objs, cur, branch, nodes, navs>>,
           loop' = loop \/ (loop'.phase \in {"polling", "timeout"} => RefIn(loop'.ref, cur)),
           stopCall' = stopCall \/ (stopCall'.phase = "stopping" => RefIn(stopCall'.ref, cur)),
           init' = init,
           WaitInv', NoLostWakeup'
    PROVE  Kept
  <1>1. RecordTypes' /\ Registered' = Registered /\ \A m : Current(m)' = Current(m)
    BY DEF IInv, RecordTypes, Registered, Current
  <1>2. RefsValid' /\ BranchAgrees'
    <2>1. navs = 0 => \A m \in Registered : branch'[m] = Current(m)'
      BY <1>1 DEF IInv, BranchAgrees
    <2> QED BY <2>1, RefsKeep
  <1>3. \A m \in Ids : StaysEnded(m)
    BY <1>1 DEF StaysEnded
  <1> QED BY <1>1, <1>2, <1>3 DEF Kept, IInv

\* A step that leaves the waits alone.
LEMMA SameWaits ==
    ASSUME IInv, UNCHANGED <<objs, cur, navs, pollQueue, wait, waiters>>
    PROVE  WaitInv' /\ NoLostWakeup'
  BY DEF IInv, WaitInv, WaitTypes, WaitersWait, PollsOwned, NoLostWakeup, Registered, Current

\* A step that calls transition().
LEMMA TransitionStep ==
    ASSUME IInv, NEW r, r.id \in Ids, navs = 0 => RefIn(r, cur),
           NEW status \in Statuses, Transition(r, status),
           UNCHANGED <<cur, navs, pollQueue>>,
           loop' = loop \/ (loop'.phase \in {"polling", "timeout"} => RefIn(loop'.ref, cur)),
           stopCall' = stopCall \/ (stopCall'.phase = "stopping" => RefIn(stopCall'.ref, cur)),
           init' = init \/ (init'.todo \subseteq Ids /\ (init'.ref # NoRef => RefIn(init'.ref, cur)))
    PROVE  Kept
  <1>1. /\ RecordTypes' /\ WaitInv' /\ NoLostWakeup'
        /\ \A m \in Ids : StaysEnded(m)
        /\ RefIn(r, cur) /\ (\A m \in Registered : branch[m] = Current(m))
             => \A m \in Registered : branch'[m] = Current(m)'
    BY TransitionKeeps DEF IInv
  <1>2. navs = 0 => \A m \in Registered : branch'[m] = Current(m)'
    BY <1>1 DEF IInv, BranchAgrees
  <1>3. RefsValid' /\ BranchAgrees'
    BY <1>2, RefsKeep
  <1> QED BY <1>1, <1>3 DEF Kept, IInv

-----------------------------------------------------------------------------
(* The actions.                                                            *)

\* The registered object of an id, as a reference.
LEMMA RefOf ==
    ASSUME NEW m \in Registered
    PROVE  RefIn([id |-> m, gen |-> cur[m]], cur)
  BY DEF RefIn, Registered

\* Steps of the targets, and the events they push.
LEMMA UpdateKeeps ==
    ASSUME IInv, NEW m \in Ids, TargetEnds(m) \/ Update(m)
    PROVE  Kept
  <1>1. CASE TargetEnds(m)
    <2>1. UNCHANGED <<objs, cur, branch, nodes, navs, pollQueue, wait, waiters, loop, stopCall, init>>
      BY <1>1 DEF TargetEnds
    <2> QED BY <2>1, SameWaits, SameRecords
  <1>2. CASE Update(m)
    <2> DEFINE r == [id |-> m, gen |-> cur[m]]
    <2>1. m \in Registered /\ UNCHANGED <<cur, pollQueue, loop, stopCall, init, navs>>
      BY <1>2 DEF Update
    <2>2. PICK status \in IF target[m] = "alive" THEN {"running"} ELSE EndReports : Transition(r, status)
      BY <1>2 DEF Update
    <2>3. status \in Statuses
      BY <2>2, StatusFacts, MonitorAssumption
    <2>4. r.id \in Ids /\ RefIn(r, cur)
      BY <2>1, RefOf
    <2> HIDE DEF r
    <2> QED BY <2>1, <2>2, <2>3, <2>4, TransitionStep
  <1> QED BY <1>1, <1>2

\* The poll loop.
LEMMA PollKeeps ==
    ASSUME IInv, PollStarts \/ PollAnswered \/ PollTimedOut
    PROVE  Kept
  <1>1. CASE PollStarts
    <2>1. UNCHANGED <<objs, cur, branch, nodes, navs, pollQueue, wait, waiters, stopCall, init>>
      BY <1>1 DEF PollStarts
    <2>2. loop'.phase \in {"polling", "timeout"} => RefIn(loop'.ref, cur)
      <3>1. CASE loop' = [IdleLoop EXCEPT !.phase = "flushing"]
        BY <3>1 DEF IdleLoop
      <3>2. CASE Visit({}, objs)
        BY <3>2, VisitRef
      <3> QED BY <1>1, <3>1, <3>2 DEF PollStarts
    <2> QED BY <2>1, <2>2, SameWaits, SameRecords
  <1>2. CASE PollAnswered \/ PollTimedOut
    <2>1. /\ UNCHANGED <<cur, pollQueue, stopCall, init, navs>>
          /\ loop.phase \in {"polling", "timeout"} /\ Visit(loop.seen, objs')
      BY <1>2 DEF PollAnswered, PollTimedOut
    <2>2. \E status \in Statuses : Transition(loop.ref, status)
      <3>1. CASE PollTimedOut
        BY <3>1, StatusFacts DEF PollTimedOut
      <3>2. CASE PollAnswered /\ loop.answer = "missing"
        BY <3>2, StatusFacts DEF PollAnswered
      <3>3. CASE PollAnswered /\ loop.answer # "missing"
        BY <3>3, ObservedType DEF PollAnswered
      <3> QED BY <1>2, <3>1, <3>2, <3>3
    <2>3. PICK status \in Statuses : Transition(loop.ref, status)
      BY <2>2
    <2>4. loop.ref.id \in Ids /\ (navs = 0 => RefIn(loop.ref, cur))
      BY <2>1 DEF IInv, RefsValid, BranchAgrees
    <2>5. loop'.phase \in {"polling", "timeout"} => RefIn(loop'.ref, cur)
      BY <2>1, VisitRef
    <2> QED BY <2>1, <2>3, <2>4, <2>5, TransitionStep
  <1> QED BY <1>1, <1>2

\* monitor_stop.
LEMMA StopKeeps ==
    ASSUME IInv, (\E m \in Ids : Stop(m)) \/ StopAnswered
    PROVE  Kept
  <1>1. ASSUME NEW m \in Ids, Stop(m)
        PROVE  Kept
    <2>1. /\ UNCHANGED <<objs, cur, branch, nodes, navs, pollQueue, wait, waiters, loop, init>>
          /\ m \in Registered /\ stopCall'.ref = [id |-> m, gen |-> cur[m]]
      BY <1>1 DEF Stop
    <2>2. RefIn(stopCall'.ref, cur)
      BY <2>1, RefOf
    <2> QED BY <2>1, <2>2, SameWaits, SameRecords
  <1>2. CASE StopAnswered
    <2>1. /\ UNCHANGED <<cur, pollQueue, loop, init, navs>>
          /\ stopCall.phase = "stopping" /\ stopCall'.phase # "stopping"
      BY <1>2 DEF StopAnswered, Idle
    <2>2. CASE stopCall.answer = "cancelled"
      <3>1. Transition(stopCall.ref, "cancelled") /\ "cancelled" \in Statuses
        BY <1>2, <2>2, StatusFacts DEF StopAnswered
      <3>2. stopCall.ref.id \in Ids /\ (navs = 0 => RefIn(stopCall.ref, cur))
        BY <2>1 DEF IInv, RefsValid, BranchAgrees
      <3> QED BY <2>1, <3>1, <3>2, TransitionStep
    <2>3. CASE stopCall.answer # "cancelled"
      <3>1. UNCHANGED <<objs, branch, nodes, wait, waiters>>
        BY <1>2, <2>3 DEF StopAnswered
      <3> QED BY <2>1, <3>1, SameWaits, SameRecords
    <2> QED BY <2>2, <2>3
  <1> QED BY <1>1, <1>2

\* initialize() after an answer.
LEMMA InitializeKeeps ==
    ASSUME IInv, InitializeAnswered
    PROVE  Kept
  <1>1. /\ UNCHANGED <<cur, pollQueue, loop, stopCall, navs>>
        /\ init.ref # NoRef /\ InitializeNext(init.todo, objs', cur)
    BY DEF InitializeAnswered
  <1>2. PICK status \in Statuses : Transition(init.ref, status)
    <2>1. CASE init.answer \in {"missing", "unknown"}
      BY <2>1, StatusFacts DEF InitializeAnswered
    <2>2. CASE init.answer \notin {"missing", "unknown"}
      BY <2>2, ObservedType DEF InitializeAnswered
    <2> QED BY <2>1, <2>2
  <1>3. /\ init.ref.id \in Ids /\ (navs = 0 => RefIn(init.ref, cur)) /\ init.todo \in SUBSET Ids
    BY <1>1 DEF IInv, RefsValid, BranchAgrees
  <1>4. init'.todo \subseteq Ids /\ (init'.ref # NoRef => RefIn(init'.ref, cur))
    BY <1>1, <1>3, InitializeRef
  <1> QED BY <1>1, <1>2, <1>3, <1>4, TransitionStep

\* poll(), and the end of a poll: the wait it belongs to is over its poll.
LEMMA PollQueueKeeps ==
    ASSUME IInv, Poll \/ PollEnds, pollQueue # <<>> \/ Poll
    PROVE  Kept
  <1> USE DEF IInv, WaitInv
  <1> DEFINE n == Len(pollQueue)
  <1>1. pollQueue \in Seq(Waits \cup {"timer"}) /\ n \in Nat /\ DOMAIN pollQueue = 1..n
    BY LenProperties DEF WaitTypes
  <1>2. CASE Poll
    <2>1. /\ UNCHANGED <<objs, cur, branch, nodes, navs, wait, waiters, loop, stopCall, init>>
          /\ pollQueue' = Append(pollQueue, "timer")
      BY <1>2 DEF Poll
    <2>2. /\ pollQueue' \in Seq(Waits \cup {"timer"}) /\ Len(pollQueue') = n + 1
          /\ \A i \in 1..n : pollQueue'[i] = pollQueue[i]
          /\ pollQueue'[n + 1] = "timer"
      BY <1>1, <2>1, AppendProperties
    <2>3. DOMAIN pollQueue' = 1..(n + 1)
      BY <2>2, LenProperties
    <2> HIDE DEF n
    <2>4. \A i \in DOMAIN pollQueue' : pollQueue'[i] \in Waits => i \in 1..n /\ pollQueue'[i] = pollQueue[i]
      BY <1>1, <2>2, <2>3, MonitorAssumption
    <2>5. PollsOwned'
      BY <1>1, <2>1, <2>4 DEF PollsOwned
    <2>6. WaitTypes' /\ WaitersWait' /\ NoLostWakeup'
      BY <2>1, <2>2 DEF WaitTypes, WaitersWait, NoLostWakeup, Registered, Current
    <2> QED BY <2>1, <2>5, <2>6, SameRecords
  <1>3. CASE PollEnds /\ pollQueue # <<>>
    <2> DEFINE h == Head(pollQueue)
    <2>1. /\ UNCHANGED <<objs, cur, branch, nodes, navs, waiters, stopCall, init>>
          /\ pollQueue' = Tail(pollQueue) /\ loop'.phase = "idle"
          /\ wait' = IF h \in Waits THEN [wait EXCEPT ![h].phase = "polled"] ELSE wait
      BY <1>3 DEF PollEnds, IdleLoop
    <2>2. /\ h = pollQueue[1] /\ n # 0
          /\ pollQueue' \in Seq(Waits \cup {"timer"}) /\ Len(pollQueue') = n - 1
          /\ \A i \in 1..(n - 1) : pollQueue'[i] = pollQueue[i + 1]
      <3>1. n # 0
        BY <1>1, <1>3, EmptySeq
      <3> QED BY <1>1, <1>3, <2>1, <3>1, HeadTailProperties
    <2>3. DOMAIN pollQueue' = 1..(n - 1)
      BY <2>2, LenProperties
    <2> HIDE DEF n, h
    <2>4. 1 \in 1..n /\ \A i \in 1..(n - 1) : i + 1 \in 1..n /\ i + 1 # 1
      BY <1>1, <2>2
    <2>5. h \in Waits => wait[h].phase = "polling"
      BY <1>1, <2>2, <2>4 DEF PollsOwned
    <2>6. \A w \in Waits : /\ wait'[w].phase = IF w = h THEN "polled" ELSE wait[w].phase
                           /\ wait'[w].nav = wait[w].nav /\ wait'[w].id = wait[w].id
      BY <2>1 DEF WaitTypes
    <2>7. WaitTypes'
      <3>1. wait' \in [Waits -> [phase : WaitPhases, id : Ids \cup {"none"}, nav : Nat, aborted : BOOLEAN]]
        BY <2>1 DEF WaitTypes, WaitPhases
      <3> QED BY <2>1, <2>2, <3>1 DEF WaitTypes
    <2>8. WaitersWait'
      <3>1. \A m \in Ids : \A w \in waiters[m] : w \in Waits /\ wait[w].phase = "waiting" /\ w # h
        BY <2>5 DEF WaitTypes, WaitersWait
      <3> QED BY <2>1, <2>6, <3>1 DEF WaitersWait
    <2>9. PollsOwned'
      <3>1. \A i \in 1..(n - 1) : pollQueue'[i] \in Waits => pollQueue'[i] # h
        BY <1>1, <2>2, <2>4 DEF PollsOwned
      <3>2. \A i \in 1..(n - 1) : pollQueue'[i] \in Waits => wait'[pollQueue'[i]].phase = "polling"
        BY <1>1, <2>2, <2>4, <2>6, <3>1 DEF PollsOwned
      <3>3. \A i, j \in 1..(n - 1) : pollQueue'[i] \in Waits /\ pollQueue'[i] = pollQueue'[j] => i = j
        <4> SUFFICES ASSUME NEW i \in 1..(n - 1), NEW j \in 1..(n - 1), pollQueue'[i] \in Waits,
                            pollQueue'[i] = pollQueue'[j]
                     PROVE  i = j
          OBVIOUS
        <4>1. i + 1 = j + 1
          BY <1>1, <2>2, <2>4 DEF PollsOwned
        <4> QED BY <1>1, <4>1
      <3> QED BY <2>3, <3>2, <3>3 DEF PollsOwned
    <2>10. NoLostWakeup'
      BY <2>1, <2>6 DEF NoLostWakeup, Registered, Current, WaitTypes
    <2> QED BY <2>1, <2>7, <2>8, <2>9, <2>10, SameRecords
  <1> QED BY <1>2, <1>3

\* wait() up to its poll.
LEMMA WaitKeeps ==
    ASSUME IInv, NEW w \in Waits, NEW m \in Ids, Wait(w, m)
    PROVE  Kept
  <1> USE DEF IInv, WaitInv
  <1> DEFINE n == Len(pollQueue)
  <1>1. /\ UNCHANGED <<objs, cur, branch, nodes, navs, waiters, loop, stopCall, init>>
        /\ wait[w].phase = "idle" /\ m \in Registered
    BY DEF Wait, NoWait
  <1>2. pollQueue \in Seq(Waits \cup {"timer"}) /\ n \in Nat /\ DOMAIN pollQueue = 1..n
    BY LenProperties DEF WaitTypes
  <1>3. \A v \in Ids : w \notin waiters[v]
    BY <1>1 DEF WaitersWait
  <1>4. ASSUME NEW x \in WaitPhases,
               wait' = [wait EXCEPT ![w] = [NoWait EXCEPT !.phase = x, !.id = m]]
        PROVE  /\ WaitersWait' /\ NoLostWakeup'
               /\ wait' \in [Waits -> [phase : WaitPhases, id : Ids \cup {"none"}, nav : Nat, aborted : BOOLEAN]]
               /\ \A v \in Waits \ {w} : wait'[v] = wait[v]
               /\ wait'[w].phase = x
    <2>1. /\ \A v \in Waits \ {w} : wait'[v] = wait[v]
          /\ wait'[w].phase = x /\ wait'[w].nav = 0
      BY <1>4 DEF WaitTypes, NoWait
    <2>2. wait' \in [Waits -> [phase : WaitPhases, id : Ids \cup {"none"}, nav : Nat, aborted : BOOLEAN]]
      BY <1>4 DEF WaitTypes, NoWait
    <2>3. WaitersWait'
      <3>1. navs \in Nat
        BY DEF RecordTypes
      <3>2. \A v \in Waits : wait'[v].nav <= navs
        BY <2>1, <3>1 DEF WaitersWait
      <3> QED BY <1>1, <1>3, <2>1, <3>2 DEF WaitersWait, WaitTypes
    <2>4. NoLostWakeup'
      BY <1>1, <1>3, <2>1 DEF NoLostWakeup, Registered, Current, WaitTypes
    <2> QED BY <2>1, <2>2, <2>3, <2>4
  <1>5. CASE Current(m) \in Terminal
    <2>1. /\ wait' = [wait EXCEPT ![w] = [NoWait EXCEPT !.phase = Current(m), !.id = m]]
          /\ pollQueue' = pollQueue /\ Current(m) \in WaitPhases
      BY <1>5, StatusFacts DEF Wait
    <2>2. /\ WaitersWait' /\ NoLostWakeup'
          /\ wait' \in [Waits -> [phase : WaitPhases, id : Ids \cup {"none"}, nav : Nat, aborted : BOOLEAN]]
          /\ \A v \in Waits \ {w} : wait'[v] = wait[v]
      BY <1>4, <2>1
    <2>3. WaitTypes' /\ PollsOwned'
      BY <1>1, <2>1, <2>2 DEF WaitTypes, PollsOwned
    <2> QED BY <1>1, <2>2, <2>3, SameRecords
  <1>6. CASE Current(m) \notin Terminal
    <2>1. /\ wait' = [wait EXCEPT ![w] = [NoWait EXCEPT !.phase = "polling", !.id = m]]
          /\ pollQueue' = Append(pollQueue, w) /\ "polling" \in WaitPhases
      BY <1>6 DEF Wait, WaitPhases
    <2>2. /\ WaitersWait' /\ NoLostWakeup'
          /\ wait' \in [Waits -> [phase : WaitPhases, id : Ids \cup {"none"}, nav : Nat, aborted : BOOLEAN]]
          /\ \A v \in Waits \ {w} : wait'[v] = wait[v]
          /\ wait'[w].phase = "polling"
      BY <1>4, <2>1
    <2>3. /\ pollQueue' \in Seq(Waits \cup {"timer"}) /\ Len(pollQueue') = n + 1
          /\ \A i \in 1..n : pollQueue'[i] = pollQueue[i]
          /\ pollQueue'[n + 1] = w
      BY <1>2, <2>1, AppendProperties
    <2>4. DOMAIN pollQueue' = 1..(n + 1)
      BY <2>3, LenProperties
    <2> HIDE DEF n
    <2>5. \A i \in 1..n : pollQueue[i] # w
      BY <1>1, <1>2 DEF PollsOwned
    <2>6. \A i \in 1..(n + 1) : i \in 1..n \/ i = n + 1
      BY <1>2
    <2>7. PollsOwned'
      <3>1. \A i \in 1..(n + 1) : pollQueue'[i] \in Waits => wait'[pollQueue'[i]].phase = "polling"
        BY <1>2, <2>2, <2>3, <2>5, <2>6 DEF PollsOwned
      <3>2. \A i, j \in 1..(n + 1) : pollQueue'[i] \in Waits /\ pollQueue'[i] = pollQueue'[j] => i = j
        BY <1>2, <2>3, <2>5, <2>6 DEF PollsOwned
      <3> QED BY <2>4, <3>1, <3>2 DEF PollsOwned
    <2>8. WaitTypes'
      BY <1>1, <2>2, <2>3 DEF WaitTypes
    <2> QED BY <1>1, <2>2, <2>7, <2>8, SameRecords
  <1> QED BY <1>5, <1>6

\* wait() after its poll, and the abort of the run that called it.
LEMMA WaiterKeeps ==
    ASSUME IInv, NEW w \in Waits, WaitRegisters(w) \/ WaitAborted(w)
    PROVE  Kept
  <1> USE DEF IInv, WaitInv
  <1> DEFINE m == wait[w].id
             WaitType == [phase : WaitPhases, id : Ids \cup {"none"}, nav : Nat, aborted : BOOLEAN]
  <1>1. /\ UNCHANGED <<objs, cur, branch, nodes, navs, pollQueue, loop, stopCall, init>>
    BY DEF WaitRegisters, WaitAborted
  <1>2. /\ wait \in [Waits -> WaitType] /\ navs \in Nat
        /\ {"waiting", "rejected"} \subseteq WaitPhases
    BY DEF WaitTypes, RecordTypes, WaitPhases
  <1>3. Registered' = Registered /\ \A v : Current(v)' = Current(v)
    BY <1>1 DEF Registered, Current
  <1>4. ASSUME NEW y \in WaitType, wait' = [wait EXCEPT ![w] = y], y.nav <= navs, y.id = m,
               wait[w].phase = "polling" => y.phase = "polling",
               waiters' \in [Ids -> SUBSET Waits],
               \A v \in Ids : waiters'[v] \ {w} \subseteq waiters[v],
               \A v \in Ids : w \in waiters'[v] =>
                   y.phase = "waiting" /\ v = m /\ (y.nav = navs => v \in Registered /\ Current(v) \in Live)
        PROVE  Kept
    <2>1. wait'[w] = y /\ \A v \in Waits \ {w} : wait'[v] = wait[v]
      BY <1>2, <1>4
    <2>2. WaitTypes'
      BY <1>1, <1>2, <1>4 DEF WaitTypes
    <2>3. \A v \in Ids : \A u \in waiters'[v] : u \in Waits /\ (u # w => u \in waiters[v])
      BY <1>4
    <2>4. WaitersWait'
      <3>1. \A v \in Waits : wait'[v].nav <= navs
        BY <1>4, <2>1 DEF WaitersWait
      <3>2. \A v \in Ids : \A u \in waiters'[v] : wait'[u].phase = "waiting" /\ wait'[u].id = v
        BY <1>4, <2>1, <2>3 DEF WaitersWait
      <3> QED BY <1>1, <3>1, <3>2 DEF WaitersWait
    <2>5. PollsOwned'
      <3>1. \A i \in DOMAIN pollQueue : pollQueue[i] \in Waits => wait'[pollQueue[i]].phase = "polling"
        BY <1>4, <2>1 DEF PollsOwned
      <3> QED BY <1>1, <3>1 DEF PollsOwned
    <2>6. NoLostWakeup'
      <3>1. ASSUME NEW v \in Ids, NEW u \in waiters'[v], wait'[u].nav = navs
            PROVE  v \in Registered /\ Current(v) \in Live
        <4>1. CASE u = w
          BY <1>4, <2>1, <3>1, <4>1
        <4>2. CASE u # w
          BY <2>1, <2>3, <3>1, <4>2 DEF NoLostWakeup
        <4> QED BY <4>1, <4>2
      <3> QED BY <1>1, <1>3, <3>1 DEF NoLostWakeup
    <2> QED BY <1>1, <2>2, <2>4, <2>5, <2>6, SameRecords
  <1>5. wait[w] \in WaitType /\ wait[w].nav <= navs
    BY <1>2 DEF WaitersWait
  <1>6. CASE WaitRegisters(w)
    <2>1. wait[w].phase = "polled" /\ \A v \in Ids : w \notin waiters[v]
      BY <1>6 DEF WaitRegisters, WaitersWait
    <2>2. CASE wait[w].aborted \/ m \notin Registered
      <3> DEFINE y == [wait[w] EXCEPT !.phase = "rejected"]
      <3>1. wait' = [wait EXCEPT ![w] = y] /\ waiters' = waiters
        BY <1>6, <2>2 DEF WaitRegisters
      <3>2. y \in WaitType /\ y.nav <= navs /\ y.id = m
        BY <1>2, <1>5
      <3> HIDE DEF y, WaitType
      <3> QED BY <1>4, <2>1, <3>1, <3>2 DEF WaitTypes
    <2>3. CASE ~(wait[w].aborted \/ m \notin Registered) /\ Current(m) \in Terminal
      <3> DEFINE y == [wait[w] EXCEPT !.phase = Current(m)]
      <3>1. wait' = [wait EXCEPT ![w] = y] /\ waiters' = waiters
        BY <1>6, <2>3 DEF WaitRegisters
      <3>2. Current(m) \in WaitPhases
        BY <2>3, StatusFacts
      <3>3. y \in WaitType /\ y.nav <= navs /\ y.id = m
        BY <1>2, <1>5, <3>2
      <3> HIDE DEF y, WaitType
      <3> QED BY <1>4, <2>1, <3>1, <3>3 DEF WaitTypes
    <2>4. CASE ~(wait[w].aborted \/ m \notin Registered) /\ Current(m) \notin Terminal
      <3> DEFINE y == [wait[w] EXCEPT !.phase = "waiting", !.nav = navs]
      <3>1. wait' = [wait EXCEPT ![w] = y] /\ waiters' = [waiters EXCEPT ![m] = @ \cup {w}]
        BY <1>6, <2>4 DEF WaitRegisters
      <3>2. y \in WaitType /\ y.nav <= navs /\ y.id = m /\ y.phase = "waiting"
        <4>1. y \in WaitType /\ y.nav = navs /\ y.id = m /\ y.phase = "waiting"
          BY <1>2, <1>5
        <4> HIDE DEF y
        <4> QED BY <1>2, <4>1
      <3>3. m \in Registered /\ m \in Ids /\ Current(m) \in Live
        BY <2>4, CurrentType, StatusFacts
      <3>4. \A v \in Ids : waiters'[v] = IF v = m THEN waiters[v] \cup {w} ELSE waiters[v]
        BY <3>1 DEF WaitTypes
      <3>5. waiters' \in [Ids -> SUBSET Waits]
        BY <3>1 DEF WaitTypes
      <3> HIDE DEF y, WaitType, m
      <3>6. \A v \in Ids : w \in waiters'[v] => v = m
        BY <2>1, <3>4
      <3> QED BY <1>4, <2>1, <3>1, <3>2, <3>3, <3>4, <3>5, <3>6
    <2> QED BY <2>2, <2>3, <2>4
  <1>7. CASE WaitAborted(w)
    <2> DEFINE y == Rejected(w)
    <2>1. wait' = [wait EXCEPT ![w] = y] /\ waiters' = [v \in Ids |-> waiters[v] \ {w}]
      BY <1>7 DEF WaitAborted
    <2>2. y \in WaitType /\ y.nav <= navs /\ y.id = m /\ (wait[w].phase = "polling" => y.phase = "polling")
      BY <1>2, <1>5 DEF Rejected
    <2>3. waiters' \in [Ids -> SUBSET Waits] /\ \A v \in Ids : waiters'[v] = waiters[v] \ {w}
      BY <2>1 DEF WaitTypes
    <2> HIDE DEF y, WaitType
    <2> QED BY <1>4, <2>1, <2>2, <2>3
  <1> QED BY <1>6, <1>7

\* AgentSession.dispose aborts the waits and drops the waiters.
LEMMA DisposeKeeps ==
    ASSUME IInv, Dispose
    PROVE  Kept
  <1> USE DEF IInv, WaitInv
  <1>1. /\ UNCHANGED <<objs, cur, branch, nodes, navs, pollQueue, loop, stopCall, init>>
        /\ wait' = [w \in Waits |-> Rejected(w)] /\ waiters' = [m \in Ids |-> {}]
    BY DEF Dispose
  <1>2. ASSUME NEW w \in Waits
        PROVE  /\ wait'[w] \in [phase : WaitPhases, id : Ids \cup {"none"}, nav : Nat, aborted : BOOLEAN]
               /\ wait'[w].nav = wait[w].nav
               /\ wait[w].phase = "polling" => wait'[w].phase = "polling"
    <2>1. wait'[w] = Rejected(w)
      BY <1>1
    <2> QED BY <2>1 DEF WaitTypes, Rejected, WaitPhases
  <1>3. WaitTypes'
    <2>1. wait' \in [Waits -> [phase : WaitPhases, id : Ids \cup {"none"}, nav : Nat, aborted : BOOLEAN]]
      BY <1>1, <1>2
    <2> QED BY <1>1, <2>1 DEF WaitTypes
  <1>4. WaitersWait' /\ PollsOwned' /\ NoLostWakeup'
    BY <1>1, <1>2 DEF WaitersWait, PollsOwned, NoLostWakeup
  <1> QED BY <1>1, <1>3, <1>4, SameRecords

\* attach() makes the first object of an id, or the next one of an id whose
\* record a navigation dropped.
LEMMA AttachKeeps ==
    ASSUME IInv, NEW m \in Ids, Attach(m)
    PROVE  Kept
  <1> USE DEF IInv
  <1>1. /\ UNCHANGED <<pollQueue, loop, wait, waiters, stopCall, init, navs>>
        /\ cur[m] = 0 /\ cur' = [cur EXCEPT ![m] = Len(objs[m]) + 1]
        /\ objs' = [objs EXCEPT ![m] = Append(@, "starting")]
        /\ branch' = [branch EXCEPT ![m] = "starting"] /\ nodes' = Visited
    BY DEF Attach
  <1>2. objs \in [Ids -> Seq(Statuses)] /\ cur \in [Ids -> Nat] /\ branch \in Entries /\ "starting" \in Statuses
    BY StatusFacts DEF RecordTypes
  <1>3. \A v \in Ids \ {m} : objs'[v] = objs[v] /\ cur'[v] = cur[v] /\ branch'[v] = branch[v]
    BY <1>1, <1>2 DEF Entries
  <1>4. /\ objs'[m] \in Seq(Statuses) /\ Len(objs'[m]) = Len(objs[m]) + 1 /\ Len(objs[m]) \in Nat
        /\ objs'[m][Len(objs[m]) + 1] = "starting"
        /\ cur'[m] = Len(objs[m]) + 1 /\ branch'[m] = "starting"
    <2>1. objs[m] \in Seq(Statuses) /\ objs'[m] = Append(objs[m], "starting") /\ Len(objs[m]) \in Nat
      BY <1>1, <1>2, LenProperties
    <2>2. cur'[m] = Len(objs[m]) + 1 /\ branch'[m] = "starting"
      BY <1>1, <1>2 DEF Entries
    <2> QED BY <1>2, <2>1, <2>2, AppendProperties
  <1>5. RecordTypes'
    <2>1. objs' \in [Ids -> Seq(Statuses)]
      BY <1>1, <1>2, <1>4
    <2>2. cur' \in [Ids -> Nat]
      <3>1. Len(objs[m]) + 1 \in Nat
        BY <1>4
      <3> QED BY <1>1, <1>2, <3>1
    <2>3. \A v \in Ids : cur'[v] <= Len(objs'[v])
      BY <1>3, <1>4 DEF RecordTypes
    <2>4. branch' \in Entries /\ nodes' \subseteq Entries
      BY <1>1, <1>2 DEF RecordTypes, Entries, Visited
    <2> QED BY <1>1, <2>1, <2>2, <2>3, <2>4 DEF RecordTypes
  <1>6. \A v \in Registered : v # m /\ v \in Registered' /\ Current(v)' = Current(v)
    BY <1>1, <1>3 DEF Registered, Current
  <1>7. Current(m)' = "starting" /\ \A v \in Registered' : v = m \/ v \in Registered
    BY <1>3, <1>4 DEF Registered, Current
  <1>8. WaitInv'
    BY <1>1 DEF WaitInv, WaitTypes, WaitersWait, PollsOwned
  <1>9. NoLostWakeup'
    BY <1>1, <1>6 DEF NoLostWakeup
  <1>10. RefsValid'
    BY <1>1 DEF RefsValid
  <1>11. \A r : RefIn(r, cur) => RefIn(r, cur')
    BY <1>1, <1>3 DEF RefIn
  <1>12. BranchAgrees'
    <2>1. ASSUME navs = 0, NEW v \in Registered'
          PROVE  branch'[v] = Current(v)'
      <3>1. CASE v = m
        BY <1>4, <1>7, <3>1
      <3>2. CASE v # m
        <4>1. v \in Registered /\ v \in Ids
          BY <1>7, <2>1, <3>2 DEF Registered
        <4> QED BY <1>3, <1>6, <2>1, <3>2, <4>1 DEF BranchAgrees
      <3> QED BY <3>1, <3>2
    <2>2. ASSUME navs = 0
          PROVE  /\ loop.phase \in {"polling", "timeout"} => RefIn(loop.ref, cur')
                 /\ stopCall.phase = "stopping" => RefIn(stopCall.ref, cur')
                 /\ init.ref # NoRef => RefIn(init.ref, cur')
      BY <1>11, <2>2 DEF BranchAgrees
    <2> QED BY <1>1, <2>1, <2>2 DEF BranchAgrees
  <1>13. \A v \in Ids : StaysEnded(v)
    BY <1>6 DEF StaysEnded
  <1> QED BY <1>5, <1>8, <1>9, <1>10, <1>12, <1>13 DEF Kept

\* restoreRecords: what is registered then is what the branch says.
LEMMA RestoreEffect ==
    ASSUME NEW old \in [Ids -> Seq(Statuses)], NEW entries \in Entries, Restore(old, entries)
    PROVE  /\ objs' \in [Ids -> Seq(Statuses)] /\ cur' \in [Ids -> Nat]
           /\ \A m \in Ids : /\ cur'[m] <= Len(objs'[m])
                             /\ cur'[m] # 0 <=> entries[m] # "none"
                             /\ entries[m] # "none" => objs'[m][cur'[m]] = entries[m]
           /\ init'.todo \subseteq Ids /\ (init'.ref # NoRef => RefIn(init'.ref, cur'))
  <1> DEFINE kept == {m \in Ids : entries[m] # "none"}
             o == [m \in Ids |-> IF m \in kept THEN Append(old[m], entries[m]) ELSE old[m]]
             c == [m \in Ids |-> IF m \in kept THEN Len(o[m]) ELSE 0]
  <1>1. objs' = o /\ cur' = c /\ InitializeNext(kept, o, c) /\ kept \in SUBSET Ids
    BY DEF Restore
  <1>2. init'.todo \subseteq Ids /\ (init'.ref # NoRef => RefIn(init'.ref, c))
    <2> HIDE DEF kept, o, c
    <2> QED BY <1>1, InitializeRef
  <1>3. ASSUME NEW m \in Ids
        PROVE  /\ o[m] \in Seq(Statuses) /\ c[m] \in Nat /\ c[m] <= Len(o[m])
               /\ c[m] # 0 <=> entries[m] # "none"
               /\ entries[m] # "none" => o[m][c[m]] = entries[m]
    <2>1. old[m] \in Seq(Statuses) /\ Len(old[m]) \in Nat /\ entries[m] \in Statuses \cup {"none"}
      BY LenProperties DEF Entries
    <2>2. CASE entries[m] = "none"
      <3>1. o[m] = old[m] /\ c[m] = 0
        BY <2>2
      <3> HIDE DEF o, c
      <3> QED BY <2>1, <2>2, <3>1
    <2>3. CASE entries[m] # "none"
      <3>1. o[m] = Append(old[m], entries[m]) /\ c[m] = Len(o[m]) /\ entries[m] \in Statuses
        BY <2>1, <2>3
      <3> HIDE DEF o, c
      <3>2. o[m] \in Seq(Statuses) /\ Len(o[m]) = Len(old[m]) + 1 /\ o[m][Len(old[m]) + 1] = entries[m]
        BY <2>1, <3>1, AppendProperties
      <3> QED BY <2>1, <2>3, <3>1, <3>2
    <2> QED BY <2>2, <2>3
  <1>4. o \in [Ids -> Seq(Statuses)] /\ c \in [Ids -> Nat]
    <2>1. o = [m \in Ids |-> o[m]] /\ c = [m \in Ids |-> c[m]]
      OBVIOUS
    <2> HIDE DEF o, c
    <2> QED BY <1>3, <2>1
  <1> HIDE DEF o, c
  <1> QED BY <1>1, <1>2, <1>3, <1>4

\* A navigation: every waiter is now of an earlier navigation.
LEMMA NavigateKeeps ==
    ASSUME IInv, NEW node \in nodes, Navigate(node)
    PROVE  Kept
  <1> USE DEF IInv
  <1>1. /\ UNCHANGED <<pollQueue, loop, wait, waiters, stopCall>>
        /\ Restore(objs, node) /\ branch' = node /\ navs' = navs + 1
        /\ nodes' \subseteq nodes \cup {branch}
    BY DEF Navigate
  <1>2. /\ node \in Entries /\ objs \in [Ids -> Seq(Statuses)] /\ navs \in Nat
        /\ nodes' \subseteq Entries
    BY <1>1 DEF RecordTypes
  <1>3. /\ objs' \in [Ids -> Seq(Statuses)] /\ cur' \in [Ids -> Nat]
        /\ \A m \in Ids : cur'[m] <= Len(objs'[m])
        /\ init'.todo \subseteq Ids /\ (init'.ref # NoRef => RefIn(init'.ref, cur'))
    BY <1>1, <1>2, RestoreEffect
  <1>4. RecordTypes'
    BY <1>1, <1>2, <1>3 DEF RecordTypes
  <1>5. navs' # 0 /\ \A w \in Waits : wait[w].nav <= navs' /\ wait[w].nav # navs'
    <2>1. \A w \in Waits : wait[w].nav \in Nat /\ wait[w].nav <= navs
      BY DEF WaitInv, WaitTypes, WaitersWait
    <2> QED BY <1>1, <1>2, <2>1
  <1>6. WaitInv'
    BY <1>1, <1>5 DEF WaitInv, WaitTypes, WaitersWait, PollsOwned
  <1>7. NoLostWakeup'
    BY <1>1, <1>5 DEF NoLostWakeup, WaitInv, WaitTypes
  <1>8. RefsValid'
    <2>1. init'.ref # NoRef => init'.ref.id \in Ids
      BY <1>3, RefId
    <2> QED BY <1>1, <1>3, <2>1 DEF RefsValid
  <1>9. BranchAgrees' /\ \A m \in Ids : StaysEnded(m)
    BY <1>5 DEF BranchAgrees, StaysEnded
  <1> QED BY <1>4, <1>6, <1>7, <1>8, <1>9 DEF Kept

\* A restart: the branch has the status of every registered record.
LEMMA RestartKeeps ==
    ASSUME IInv, Restart
    PROVE  Kept
  <1> USE DEF IInv
  <1> DEFINE old == [m \in Ids |-> <<>>]
  <1>1. /\ Restore(old, branch)
        /\ pollQueue' = <<>> /\ loop' = IdleLoop /\ stopCall' = Idle
        /\ wait' = [w \in Waits |-> NoWait] /\ waiters' = [m \in Ids |-> {}]
        /\ UNCHANGED <<branch, nodes, navs>>
    BY DEF Restart
  <1>2. old \in [Ids -> Seq(Statuses)] /\ branch \in Entries /\ navs \in Nat
    BY EmptySeq DEF RecordTypes
  <1> HIDE DEF old
  <1>3. /\ objs' \in [Ids -> Seq(Statuses)] /\ cur' \in [Ids -> Nat]
        /\ \A m \in Ids : /\ cur'[m] <= Len(objs'[m])
                          /\ cur'[m] # 0 <=> branch[m] # "none"
                          /\ branch[m] # "none" => objs'[m][cur'[m]] = branch[m]
        /\ init'.todo \subseteq Ids /\ (init'.ref # NoRef => RefIn(init'.ref, cur'))
    BY <1>1, <1>2, RestoreEffect
  <1>4. RecordTypes'
    BY <1>1, <1>3 DEF RecordTypes
  <1>5. WaitInv'
    <2>1. NoWait \in [phase : WaitPhases, id : Ids \cup {"none"}, nav : Nat, aborted : BOOLEAN]
      BY DEF NoWait, WaitPhases
    <2>2. WaitTypes'
      BY <1>1, <2>1, EmptySeq DEF WaitTypes
    <2>3. NoWait.nav = 0
      BY DEF NoWait
    <2>4. WaitersWait'
      BY <1>1, <1>2, <2>3 DEF WaitersWait
    <2>5. PollsOwned'
      BY <1>1 DEF PollsOwned
    <2> QED BY <2>2, <2>4, <2>5 DEF WaitInv
  <1>6. NoLostWakeup'
    BY <1>1 DEF NoLostWakeup
  <1>7. loop'.phase = "idle" /\ stopCall'.phase = "idle"
    BY <1>1 DEF IdleLoop, Idle
  <1>8. RefsValid'
    <2>1. init'.ref # NoRef => init'.ref.id \in Ids
      BY <1>3, RefId
    <2> QED BY <1>3, <1>7, <2>1 DEF RefsValid
  <1>9. \A m \in Registered' : m \in Ids /\ branch[m] = Current(m)'
    BY <1>3 DEF Registered, Current
  <1>10. BranchAgrees'
    BY <1>1, <1>3, <1>7, <1>9 DEF BranchAgrees
  <1>11. ASSUME NEW m \in Ids, m \in Registered, navs = 0
         PROVE  m \in Registered' /\ Current(m)' = Current(m)
    <2>1. branch[m] = Current(m) /\ Current(m) \in Statuses
      BY <1>11, CurrentType DEF BranchAgrees
    <2>2. branch[m] # "none"
      BY <2>1, StatusFacts
    <2> QED BY <1>3, <1>11, <2>1, <2>2 DEF Registered, Current
  <1>12. \A m \in Ids : StaysEnded(m)
    BY <1>1, <1>11 DEF StaysEnded
  <1> QED BY <1>4, <1>5, <1>6, <1>8, <1>10, <1>12 DEF Kept

-----------------------------------------------------------------------------
(* The theorems.                                                           *)

\* The loop runs only for a queued poll() call.
LEMMA LoopRunsKept ==
    ASSUME IInv, LoopRuns, [Next]_vars
    PROVE  LoopRuns'
  <1>1. \A x \in Waits \cup {"timer"} : Append(pollQueue, x) # <<>>
    <2>1. pollQueue \in Seq(Waits \cup {"timer"}) /\ Len(pollQueue) \in Nat
      BY LenProperties DEF IInv, WaitInv, WaitTypes
    <2>2. \A x \in Waits \cup {"timer"} : Len(Append(pollQueue, x)) = Len(pollQueue) + 1
      BY <2>1, AppendProperties
    <2> QED BY <2>1, <2>2, EmptySeq
  <1>2. CASE PollEnds \/ Restart
    BY <1>2 DEF PollEnds, Restart, IdleLoop, LoopRuns
  <1>3. CASE PollStarts \/ PollAnswered \/ PollTimedOut
    <2>1. pollQueue' = pollQueue /\ pollQueue # <<>>
      <3>1. CASE PollStarts
        BY <3>1 DEF PollStarts
      <3>2. CASE PollAnswered
        BY <3>2 DEF PollAnswered, LoopRuns
      <3>3. CASE PollTimedOut
        BY <3>3 DEF PollTimedOut, LoopRuns
      <3> QED BY <1>3, <3>1, <3>2, <3>3
    <2> QED BY <2>1 DEF LoopRuns
  <1>4. ASSUME loop' = loop, pollQueue' = pollQueue \/ pollQueue' # <<>>
        PROVE  LoopRuns'
    BY <1>4 DEF LoopRuns
  <1>5. CASE Poll
    BY <1>1, <1>4, <1>5 DEF Poll
  <1>6. ASSUME NEW w \in Waits, NEW m \in Ids, Wait(w, m)
        PROVE  LoopRuns'
    BY <1>1, <1>4, <1>6 DEF Wait
  <1>7. ASSUME NEW m \in Ids, Attach(m) \/ TargetEnds(m) \/ Update(m) \/ Stop(m)
        PROVE  LoopRuns'
    BY <1>4, <1>7 DEF Attach, TargetEnds, Update, Stop
  <1>8. ASSUME NEW w \in Waits, WaitRegisters(w) \/ WaitAborted(w)
        PROVE  LoopRuns'
    BY <1>4, <1>8 DEF WaitRegisters, WaitAborted
  <1>9. CASE StopAnswered \/ InitializeAnswered \/ Dispose \/ UNCHANGED vars
    BY <1>4, <1>9 DEF StopAnswered, InitializeAnswered, Dispose, vars
  <1>10. ASSUME NEW node \in nodes, Navigate(node)
         PROVE  LoopRuns'
    BY <1>4, <1>10 DEF Navigate
  <1> QED BY <1>2, <1>3, <1>5, <1>6, <1>7, <1>8, <1>9, <1>10 DEF Next

\* Every step keeps the invariant and the records that ended.
LEMMA StepKeeps ==
    ASSUME IInv, LoopRuns, [Next]_vars
    PROVE  Kept
  <1>1. ASSUME NEW m \in Ids, Attach(m) \/ TargetEnds(m) \/ Update(m) \/ Stop(m)
        PROVE  Kept
    BY <1>1, AttachKeeps, UpdateKeeps, StopKeeps
  <1>2. CASE Poll
    BY <1>2, PollQueueKeeps
  <1>3. CASE PollEnds
    <2>1. pollQueue # <<>>
      BY <1>3 DEF PollEnds, LoopRuns
    <2> QED BY <1>3, <2>1, PollQueueKeeps
  <1>4. CASE PollStarts \/ PollAnswered \/ PollTimedOut
    BY <1>4, PollKeeps
  <1>5. ASSUME NEW w \in Waits, NEW m \in Ids, Wait(w, m)
        PROVE  Kept
    BY <1>5, WaitKeeps
  <1>6. ASSUME NEW w \in Waits, WaitRegisters(w) \/ WaitAborted(w)
        PROVE  Kept
    BY <1>6, WaiterKeeps
  <1>7. ASSUME NEW node \in nodes, Navigate(node)
        PROVE  Kept
    BY <1>7, NavigateKeeps
  <1>8. CASE StopAnswered \/ InitializeAnswered \/ Dispose \/ Restart
    BY <1>8, StopKeeps, InitializeKeeps, DisposeKeeps, RestartKeeps
  <1>9. CASE UNCHANGED vars
    <2>1. UNCHANGED <<objs, cur, branch, nodes, navs, pollQueue, wait, waiters, loop, stopCall, init>>
      BY <1>9 DEF vars
    <2> QED BY <2>1, SameWaits, SameRecords
  <1> QED BY <1>1, <1>2, <1>3, <1>4, <1>5, <1>6, <1>7, <1>8, <1>9 DEF Next

\* The constructor of the runtime establishes the invariant.
LEMMA InitHolds == Init => IInv /\ LoopRuns
  <1> SUFFICES ASSUME Init PROVE IInv /\ LoopRuns
    OBVIOUS
  <1> USE DEF Init
  <1>1. RecordTypes
    <2>1. objs \in [Ids -> Seq(Statuses)] /\ \A m \in Ids : Len(objs[m]) = 0
      BY EmptySeq
    <2> QED BY <2>1 DEF RecordTypes, Entries
  <1>2. WaitInv
    <2>1. NoWait \in [phase : WaitPhases, id : Ids \cup {"none"}, nav : Nat, aborted : BOOLEAN] /\ NoWait.nav = 0
      BY DEF NoWait, WaitPhases
    <2>2. WaitTypes
      BY <2>1, EmptySeq DEF WaitTypes
    <2>3. WaitersWait /\ PollsOwned
      BY <2>1 DEF WaitersWait, PollsOwned
    <2> QED BY <2>2, <2>3 DEF WaitInv
  <1>3. NoLostWakeup
    BY DEF NoLostWakeup
  <1>4. loop.phase = "idle" /\ stopCall.phase = "idle" /\ init.ref = NoRef /\ init.todo = {} /\ Registered = {}
    BY DEF IdleLoop, Idle, Registered
  <1>5. RefsValid /\ BranchAgrees /\ LoopRuns
    BY <1>4 DEF RefsValid, BranchAgrees, LoopRuns
  <1> QED BY <1>1, <1>2, <1>3, <1>5 DEF IInv

\* The inductive invariant holds in every reachable state.
THEOREM Invariance == Spec => [](IInv /\ LoopRuns)
  <1>1. IInv /\ LoopRuns /\ [Next]_vars => (IInv /\ LoopRuns)'
    BY StepKeeps, LoopRunsKept DEF Kept
  <1> QED BY <1>1, InitHolds, PTL DEF Spec

\* Nobody waits for a record that has ended, whatever order polls, stops,
\* pushed events, aborts and restarts come in, unless a navigation came
\* since the waiter was registered.
THEOREM NoWakeupLost == Spec => []NoLostWakeup
  <1>1. IInv => NoLostWakeup
    BY DEF IInv
  <1> QED BY <1>1, Invariance, PTL

\* monitor_wait answers only with a record that ended.
THEOREM WaitAnswersEnded == Spec => []WaitReturnsEnded
  <1>1. IInv => WaitReturnsEnded
    BY StatusFacts DEF IInv, WaitInv, WaitTypes, WaitReturnsEnded
  <1> QED BY <1>1, Invariance, PTL

\* A record that ended keeps its end, across restarts too, as long as there
\* is no navigation.
THEOREM EndIsFinal == Spec => EndedIsFinal
  <1>1. IInv /\ LoopRuns /\ [Next]_vars
          => [\A m \in Registered : Current(m) \in Terminal /\ navs' = 0
                                      => m \in Registered' /\ Current(m)' = Current(m)]_vars
    <2> SUFFICES ASSUME IInv, LoopRuns, [Next]_vars, NEW m \in Registered,
                        Current(m) \in Terminal, navs' = 0
                 PROVE  m \in Registered' /\ Current(m)' = Current(m)
      OBVIOUS
    <2>1. m \in Ids /\ StaysEnded(m)
      BY StepKeeps DEF Kept, Registered
    <2> QED BY <2>1 DEF StaysEnded
  <1> QED BY <1>1, Invariance, PTL DEF Spec, EndedIsFinal
=============================================================================
