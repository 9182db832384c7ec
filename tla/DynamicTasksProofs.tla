------------------------- MODULE DynamicTasksProofs -------------------------
(***************************************************************************)
(* Theorems about DynamicTasks, for every set of tasks, tools, externals   *)
(* and shapes and for every bound: the runtime always holds what a resume  *)
(* of its branch would restore, a reviewer's patch meets the plan it was   *)
(* written for unless a rebuild has left its review running, and an update *)
(* that is rebased reverts no progress.                                    *)
(***************************************************************************)
EXTENDS DynamicTasks, TLAPS, FiniteSetTheorems, SequenceTheorems, WellFoundedInduction

-----------------------------------------------------------------------------
(* The inductive invariant.                                                *)

\* What the steps rely on in a plan: its fields, and a revision from 1 on.
IsPlan(p) ==
    /\ DOMAIN p = {"rev", "plan", "shape", "status", "evidence", "facts", "factSeq"}
    /\ p.rev \in Nat \ {0}

\* A history holds the plans of the revisions 1 to n, each under its own.
IsHistory(h) ==
    /\ DOMAIN h = 1..Cardinality(DOMAIN h)
    /\ Cardinality(DOMAIN h) \in Nat
    /\ \A r \in DOMAIN h : IsPlan(h[r]) /\ h[r].rev = r

\* The entries of a branch, the reviews among them left alone.
IsBranch(b) ==
    /\ b \in Seq(ToSet(b))
    /\ \A i \in 1..Len(b) : b[i].type = "snapshot" => IsPlan(b[i].plan)

\* The plan in memory is the last one of the history, moved leaf or not.
HistoryInv == IsHistory(history) /\ snapshot = LatestPlan(history)

BranchInv == \A b \in others \union {branch} : IsBranch(b)

\* While the reviewer is asked in the review r, and no rebuild has left it
\* running, the plan it judges is the current one p or an older revision.
Judged(r, p) ==
    r.phase = "asked" =>
        /\ "survived" \in DOMAIN r
        /\ ~r.survived => /\ r.plan.rev \in Nat
                          /\ r.plan.rev <= p.rev
                          /\ r.plan.rev = p.rev => r.plan = p

ReviewInv == \A i \in DOMAIN inReview : Judged(inReview[i], snapshot)

IInv == HistoryInv /\ BranchInv /\ ReviewInv /\ RecoveryMatchesLive

-----------------------------------------------------------------------------
(* Histories.                                                              *)

\* The latest plan of a history has the revision that counts its plans.
LEMMA Latest ==
    ASSUME NEW h, IsHistory(h)
    PROVE  /\ LatestPlan(h).rev = Cardinality(DOMAIN h)
           /\ LatestPlan(h).rev \in Nat
           /\ LatestPlan(h) = NoPlan <=> DOMAIN h = {}
           /\ LatestPlan(h) # NoPlan => IsPlan(LatestPlan(h))
           /\ DOMAIN h # {} => /\ LatestPlan(h).rev \in DOMAIN h
                               /\ LatestPlan(h) = h[LatestPlan(h).rev]
<1> DEFINE n == Cardinality(DOMAIN h)
<1>0. /\ n \in Nat
      /\ DOMAIN h = 1..n
      /\ \A r \in DOMAIN h : IsPlan(h[r]) /\ h[r].rev = r
  BY DEF IsHistory
<1>1. NoPlan.rev = 0
  BY DEF NoPlan
<1>2. CASE DOMAIN h = {}
  <2>1. n = 0
    BY <1>2, FS_EmptySet
  <2> QED BY <1>1, <1>2, <2>1 DEF LatestPlan
<1>3. CASE DOMAIN h # {}
  <2>1. n \in DOMAIN h
    BY <1>0, <1>3
  <2>2. LatestPlan(h) = h[n]
    BY <1>3 DEF LatestPlan
  <2>3. IsPlan(h[n]) /\ h[n].rev = n /\ n # 0
    BY <1>0, <2>1
  <2> QED BY <1>0, <1>1, <1>3, <2>1, <2>2, <2>3
<1> QED BY <1>2, <1>3

\* The next revision extends a history and becomes its latest plan.
LEMMA RecordedNext ==
    ASSUME NEW h, IsHistory(h), NEW p, IsPlan(p), p.rev = LatestPlan(h).rev + 1
    PROVE  IsHistory(Recorded(h, p)) /\ LatestPlan(Recorded(h, p)) = p
<1> DEFINE n == Cardinality(DOMAIN h)
           g == Recorded(h, p)
<1>0. /\ n \in Nat
      /\ DOMAIN h = 1..n
      /\ \A r \in DOMAIN h : IsPlan(h[r]) /\ h[r].rev = r
      /\ p.rev = n + 1
  BY Latest DEF IsHistory
<1> HIDE DEF n
<1>1. DOMAIN g = 1..(n + 1)
  BY <1>0 DEF Recorded
<1>2. Cardinality(DOMAIN g) = n + 1
  BY <1>0, <1>1, FS_Interval
<1>3. \A r \in DOMAIN g : g[r] = IF r = n + 1 THEN p ELSE h[r]
  BY <1>0 DEF Recorded
<1>4. \A r \in DOMAIN g : IsPlan(g[r]) /\ g[r].rev = r
  BY <1>0, <1>1, <1>3
<1>5. g[n + 1] = p /\ DOMAIN g # {}
  BY <1>0, <1>1, <1>3
<1>6. IsHistory(g)
  BY <1>0, <1>1, <1>2, <1>4 DEF IsHistory
<1>7. LatestPlan(g) = p
  BY <1>2, <1>5 DEF LatestPlan
<1> QED BY <1>6, <1>7

-----------------------------------------------------------------------------
(* Restoring.                                                              *)

\* A set of natural numbers has a least element.
LEMMA Least ==
    ASSUME NEW T, T \subseteq Nat, T # {}
    PROVE  \E m \in T : \A k \in T : m <= k
<1>1. PICK m \in T : \A k \in T : ~(<<k, m>> \in OpToRel(<, Nat))
  BY WFMin, NatLessThanWellFounded, Zenon
<1>2. \A k \in T : <<k, m>> \in Nat \X Nat /\ <<k, m>>[1] = k /\ <<k, m>>[2] = m
  OBVIOUS
<1>3. \A k \in T : ~(k < m)
  BY <1>1, <1>2 DEF OpToRel
<1> QED BY <1>3

\* The restore loop over the first n entries of b.
Loop(f, b, n) ==
    f = [i \in 0..n |-> IF i = 0 THEN <<>> ELSE WithEntry(f[i - 1], b[i])]

\* There is a function that follows the loop over the entries of a branch.
LEMMA LoopExists ==
    ASSUME NEW b, NEW n \in Nat
    PROVE  \E f : Loop(f, b, n)
<1> DEFINE T == {k \in Nat : ~\E f : Loop(f, b, k)}
<1> SUFFICES ASSUME T # {} PROVE FALSE
  OBVIOUS
<1>1. PICK m \in T : \A k \in T : m <= k
  BY Least
<1>2. m # 0
  <2> DEFINE f == [i \in 0..0 |-> <<>>]
  <2>1. Loop(f, b, 0)
    BY DEF Loop
  <2> QED BY <2>1
<1>3. m - 1 \in Nat /\ m - 1 \notin T
  BY <1>1, <1>2
<1>4. PICK f : Loop(f, b, m - 1)
  BY <1>3
<1> DEFINE g == [i \in 0..m |-> IF i = m THEN WithEntry(f[m - 1], b[m]) ELSE f[i]]
<1>5. \A i \in 0..(m - 1) : g[i] = f[i]
  BY <1>3
<1>6. ASSUME NEW i \in 0..m
      PROVE  g[i] = IF i = 0 THEN <<>> ELSE WithEntry(g[i - 1], b[i])
  <2>1. CASE i = m
    BY <1>2, <1>3, <1>5, <2>1
  <2>2. CASE i # m
    <3>1. i \in 0..(m - 1)
      BY <1>3, <2>2
    <3>2. f[i] = IF i = 0 THEN <<>> ELSE WithEntry(f[i - 1], b[i])
      BY <1>4, <3>1 DEF Loop
    <3>3. i # 0 => g[i - 1] = f[i - 1]
      BY <1>5, <3>1
    <3> QED BY <1>5, <3>1, <3>2, <3>3
  <2> QED BY <2>1, <2>2
<1>7. Loop(g, b, m)
  <2> DEFINE h == [i \in 0..m |-> IF i = 0 THEN <<>> ELSE WithEntry(g[i - 1], b[i])]
  <2>1. g = [i \in 0..m |-> g[i]]
    OBVIOUS
  <2> HIDE DEF g
  <2>2. g = h
    BY <1>6, <2>1
  <2> QED BY <2>2 DEF Loop
<1> QED BY <1>7

SameUpTo(b, c, n) == \A i \in 1..n : b[i] = c[i]

\* Two loops over the same entries agree.
LEMMA LoopAgrees ==
    ASSUME NEW b, NEW c, NEW n \in Nat, NEW m \in Nat, n <= m,
           SameUpTo(b, c, n), NEW f, NEW g, Loop(f, b, n), Loop(g, c, m)
    PROVE  f[n] = g[n]
<1> DEFINE T == {i \in 0..n : f[i] # g[i]}
<1> SUFFICES ASSUME T # {} PROVE FALSE
  OBVIOUS
<1>s. \A i \in 1..n : b[i] = c[i]
  BY DEF SameUpTo
<1>0. T \subseteq Nat
  OBVIOUS
<1>1. PICK k \in T : \A i \in T : k <= i
  <2> HIDE DEF T
  <2> QED BY <1>0, Least
<1>2. k \in 0..n /\ k \in 0..m
  OBVIOUS
<1>3. /\ f[k] = IF k = 0 THEN <<>> ELSE WithEntry(f[k - 1], b[k])
      /\ g[k] = IF k = 0 THEN <<>> ELSE WithEntry(g[k - 1], c[k])
  BY <1>2 DEF Loop
<1>4. k # 0
  BY <1>3
<1>5. k - 1 \in 0..n /\ k - 1 \notin T
  BY <1>1, <1>2, <1>4
<1> QED BY <1>s, <1>2, <1>3, <1>4, <1>5

\* What a resume restores is the end of that loop.
LEMMA RestoredIsLoop ==
    ASSUME NEW b, Len(b) \in Nat
    PROVE  \E f : Loop(f, b, Len(b)) /\ RestoredHistory(b) = f[Len(b)]
<1> DEFINE f == CHOOSE f : Loop(f, b, Len(b))
<1>1. Loop(f, b, Len(b))
  BY LoopExists
<1>2. RestoredHistory(b) = f[Len(b)]
  BY DEF RestoredHistory, Loop
<1> QED BY <1>1, <1>2

\* An appended entry is restored on top of the ones before it.
LEMMA RestoredAppend ==
    ASSUME NEW S, NEW b \in Seq(S), NEW e
    PROVE  RestoredHistory(Append(b, e)) = WithEntry(RestoredHistory(b), e)
<1> DEFINE c == Append(b, e)
<1>1. /\ Len(b) \in Nat /\ Len(c) = Len(b) + 1
      /\ \A i \in 1..Len(b) : c[i] = b[i]
      /\ c[Len(c)] = e
  OBVIOUS
<1> HIDE DEF c
<1>2. PICK f : Loop(f, b, Len(b)) /\ RestoredHistory(b) = f[Len(b)]
  BY <1>1, RestoredIsLoop
<1>3. PICK g : Loop(g, c, Len(c)) /\ RestoredHistory(c) = g[Len(c)]
  BY <1>1, RestoredIsLoop
<1>4. f[Len(b)] = g[Len(b)]
  <2>1. Len(c) \in Nat /\ Len(b) <= Len(c) /\ SameUpTo(b, c, Len(b))
    BY <1>1 DEF SameUpTo
  <2> QED BY <1>1, <1>2, <1>3, <2>1, LoopAgrees
<1>5. g[Len(c)] = WithEntry(g[Len(c) - 1], c[Len(c)])
  BY <1>1, <1>3 DEF Loop
<1> QED BY <1>1, <1>2, <1>3, <1>4, <1>5 DEF c

\* What is restored from a branch is a history, whatever its entries are.
LEMMA RestoredIsHistory ==
    ASSUME NEW b, IsBranch(b)
    PROVE  IsHistory(RestoredHistory(b))
<1>1. Len(b) \in Nat
  BY DEF IsBranch
<1>2. PICK f : Loop(f, b, Len(b)) /\ RestoredHistory(b) = f[Len(b)]
  BY <1>1, RestoredIsLoop
<1> DEFINE T == {i \in 0..Len(b) : ~IsHistory(f[i])}
<1> SUFFICES ASSUME T # {} PROVE FALSE
  BY <1>1, <1>2
<1>0. T \subseteq Nat
  BY <1>1
<1>3. PICK k \in T : \A i \in T : k <= i
  <2> HIDE DEF T
  <2> QED BY <1>0, Least
<1>4. k \in 0..Len(b) /\ ~IsHistory(f[k])
  OBVIOUS
<1>5. f[k] = IF k = 0 THEN <<>> ELSE WithEntry(f[k - 1], b[k])
  BY <1>2, <1>4 DEF Loop
<1>6. k # 0
  <2>1. IsHistory(<<>>)
    BY FS_EmptySet DEF IsHistory
  <2> QED BY <1>4, <1>5, <2>1
<1>7. k - 1 \in 0..Len(b) /\ k \in 1..Len(b) /\ k - 1 \notin T
  BY <1>1, <1>3, <1>4, <1>6
<1>8. IsHistory(f[k - 1])
  BY <1>7
<1>9. IsHistory(WithEntry(f[k - 1], b[k]))
  <2>1. CASE Extends(f[k - 1], b[k])
    <3>1. IsPlan(b[k].plan) /\ b[k].plan.rev = LatestPlan(f[k - 1]).rev + 1
      BY <1>7, <2>1 DEF Extends, IsBranch
    <3> QED BY <1>8, <2>1, <3>1, RecordedNext DEF WithEntry
  <2>2. CASE ~Extends(f[k - 1], b[k])
    BY <1>8, <2>2 DEF WithEntry
  <2> QED BY <2>1, <2>2
<1> QED BY <1>4, <1>5, <1>6, <1>9

-----------------------------------------------------------------------------
(* The steps.                                                              *)

\* The branches stay branches when one entry is added to the current one.
LEMMA BranchAppend ==
    ASSUME NEW b, IsBranch(b), NEW e, e.type = "snapshot" => IsPlan(e.plan)
    PROVE  IsBranch(Append(b, e))
<1> DEFINE S == ToSet(b) \union {e}
           c == Append(b, e)
<1>1. b \in Seq(S) /\ e \in S
  BY DEF IsBranch
<1> HIDE DEF S
<1>2. /\ c \in Seq(S)
      /\ Len(c) = Len(b) + 1 /\ Len(b) \in Nat
      /\ \A i \in 1..Len(b) : c[i] = b[i]
      /\ c[Len(b) + 1] = e
  BY <1>1
<1>3. c \in Seq(ToSet(c))
  <2> HIDE DEF c
  <2>1. DOMAIN c = 1..Len(c) /\ c = [i \in 1..Len(c) |-> c[i]] /\ Len(c) \in Nat
    BY <1>2
  <2>2. \A i \in 1..Len(c) : c[i] \in ToSet(c)
    BY <2>1 DEF ToSet
  <2> QED BY <2>1, <2>2, IsASeq
<1>4. \A i \in 1..Len(c) : c[i].type = "snapshot" => IsPlan(c[i].plan)
  <2> HIDE DEF c
  <2> QED BY <1>2 DEF IsBranch
<1> QED BY <1>3, <1>4 DEF IsBranch

\* A prefix of a branch is one.
LEMMA BranchPrefix ==
    ASSUME NEW b, IsBranch(b), NEW c \in Prefixes(b)
    PROVE  IsBranch(c)
<1> DEFINE S == ToSet(b)
<1>1. b \in Seq(S) /\ Len(b) \in Nat
  BY DEF IsBranch
<1>2. PICK l \in 0..Len(b) : c = SubSeq(b, 1, l)
  BY DEF Prefixes
<1> HIDE DEF S
<1>3. /\ c \in Seq(S) /\ Len(c) = l /\ l \in Nat
      /\ \A i \in 1..l : c[i] = b[i] /\ i \in 1..Len(b)
  BY <1>1, <1>2
<1>4. c \in Seq(ToSet(c))
  <2>1. DOMAIN c = 1..Len(c) /\ c = [i \in 1..Len(c) |-> c[i]] /\ Len(c) \in Nat
    BY <1>3
  <2>2. \A i \in 1..Len(c) : c[i] \in ToSet(c)
    BY <2>1 DEF ToSet
  <2> QED BY <2>1, <2>2, IsASeq
<1>5. \A i \in 1..Len(c) : c[i].type = "snapshot" => IsPlan(c[i].plan)
  BY <1>3 DEF IsBranch
<1> QED BY <1>4, <1>5 DEF IsBranch

\* acceptSnapshot with the next revision keeps the invariant, whatever the
\* step does with reviews that are not being asked.
LEMMA AcceptKeeps ==
    ASSUME IInv, NEW p, IsPlan(p), p.rev = snapshot.rev + 1, Accept(p),
           UNCHANGED <<others, moved>>,
           \A i \in DOMAIN inReview' : \/ i \in DOMAIN inReview /\ inReview'[i] = inReview[i]
                                       \/ inReview'[i].phase # "asked"
    PROVE  IInv'
<1> DEFINE e == [type |-> "snapshot", plan |-> p]
<1>0. /\ snapshot' = p /\ history' = Recorded(history, p)
      /\ branch' = Append(branch, e) /\ others' = others /\ moved' = moved
  BY DEF Accept
<1>1. /\ IsHistory(history) /\ snapshot = LatestPlan(history)
      /\ snapshot.rev \in Nat
  BY Latest DEF IInv, HistoryInv
<1>2. HistoryInv'
  BY <1>0, <1>1, RecordedNext DEF HistoryInv
<1>3. IsBranch(branch) /\ \A b \in others : IsBranch(b)
  BY DEF IInv, BranchInv
<1>e. e.type = "snapshot" /\ e.plan = p
  OBVIOUS
<1> HIDE DEF e
<1>4. BranchInv'
  <2>1. IsBranch(branch')
    BY <1>0, <1>3, <1>e, BranchAppend
  <2> QED BY <1>0, <1>3, <2>1 DEF BranchInv
<1>5. ReviewInv'
  <2> SUFFICES ASSUME NEW i \in DOMAIN inReview', inReview'[i].phase = "asked"
               PROVE  Judged(inReview'[i], p)
    BY <1>0 DEF ReviewInv, Judged
  <2>1. i \in DOMAIN inReview /\ inReview'[i] = inReview[i]
    OBVIOUS
  <2>2. Judged(inReview[i], snapshot)
    BY <2>1 DEF IInv, ReviewInv
  <2> QED BY <1>1, <2>1, <2>2 DEF Judged
<1>6. RecoveryMatchesLive'
  <2> SUFFICES ASSUME ~moved
               PROVE  history' = RestoredHistory(branch') /\ snapshot' = LatestPlan(history')
    BY <1>0 DEF RecoveryMatchesLive
  <2>1. history = RestoredHistory(branch)
    BY DEF IInv, RecoveryMatchesLive
  <2>2. Extends(history, e)
    BY <1>1, <1>e DEF Extends
  <2>3. RestoredHistory(branch') = WithEntry(history, e)
    BY <1>0, <1>3, <2>1, RestoredAppend DEF IsBranch
  <2>4. WithEntry(history, e) = Recorded(history, p)
    BY <2>2, <1>e DEF WithEntry
  <2> QED BY <1>0, <1>2, <2>3, <2>4 DEF HistoryInv
<1> QED BY <1>2, <1>4, <1>5, <1>6 DEF IInv

\* rebuild reads the branch back.
LEMMA RebuildKeeps ==
    ASSUME IInv, Rebuild, UNCHANGED <<branch, others>>,
           \A i \in DOMAIN inReview' : inReview'[i].phase = "asked" =>
               "survived" \in DOMAIN inReview'[i] /\ inReview'[i].survived
    PROVE  IInv'
<1>1. IsBranch(branch)
  BY DEF IInv, BranchInv
<1>2. history' = RestoredHistory(branch) /\ snapshot' = LatestPlan(history')
  BY DEF Rebuild
<1>3. HistoryInv'
  BY <1>1, <1>2, RestoredIsHistory DEF HistoryInv
<1>4. BranchInv'
  BY DEF IInv, BranchInv
<1>5. ReviewInv'
  BY DEF ReviewInv, Judged
<1>6. RecoveryMatchesLive'
  BY <1>2 DEF RecoveryMatchesLive
<1> QED BY <1>3, <1>4, <1>5, <1>6 DEF IInv

\* The facts of a plan give the next revision of it.
LEMMA WithFactsPlan ==
    ASSUME NEW p, IsPlan(p), NEW ids, NEW selected, NEW status
    PROVE  /\ IsPlan(WithFacts(p, ids, selected, status))
           /\ WithFacts(p, ids, selected, status).rev = p.rev + 1
BY DEF WithFacts, IsPlan

\* A rebuild leaves no review running that it does not mark.
LEMMA AbortReviewMarks ==
    ASSUME IInv, AbortReview, NEW i \in DOMAIN inReview', inReview'[i].phase = "asked"
    PROVE  "survived" \in DOMAIN inReview'[i] /\ inReview'[i].survived
<1>1. i \in DOMAIN inReview
  BY DEF AbortReview
<1>2. inReview'[i] = IF inReview[i].phase # "asked" THEN inReview[i]
                     ELSE IF i = controller THEN Over(inReview[i])
                     ELSE [inReview[i] EXCEPT !.survived = TRUE]
  BY <1>1 DEF AbortReview
<1>3. Over(inReview[i]).phase # "asked"
  BY DEF Over
<1>4. inReview[i].phase = "asked" /\ inReview'[i] = [inReview[i] EXCEPT !.survived = TRUE]
  BY <1>2, <1>3
<1>5. "survived" \in DOMAIN inReview[i]
  BY <1>1, <1>4 DEF IInv, ReviewInv, Judged
<1> QED BY <1>4, <1>5

\* Every step keeps the invariant.
LEMMA StepKeeps ==
    ASSUME IInv, [Next]_vars
    PROVE  IInv'
<1>0. /\ IsHistory(history) /\ snapshot = LatestPlan(history)
      /\ snapshot.rev \in Nat
      /\ snapshot # NoPlan => IsPlan(snapshot)
      /\ snapshot = NoPlan => snapshot.rev = 0
  <2>1. NoPlan.rev = 0
    BY DEF NoPlan
  <2> QED BY <2>1, Latest DEF IInv, HistoryInv
<1>1. CASE UNCHANGED vars \/ Project
  <2>1. UNCHANGED <<snapshot, history, inReview, branch, others, moved>>
    BY <1>1 DEF vars, Project
  <2> QED BY <2>1 DEF IInv, HistoryInv, BranchInv, ReviewInv, RecoveryMatchesLive
<1>2. ASSUME NEW shape \in Shapes, NEW written \in [Tasks -> Written],
             UpdatePlan(shape, written)
      PROVE  IInv'
  <2>0. UNCHANGED <<others, moved, inReview>>
    BY <1>2 DEF UpdatePlan
  <2>1. CASE snapshot = NoPlan /\ Accept(NewPlan(shape, written))
    <3>1. IsPlan(NewPlan(shape, written)) /\ NewPlan(shape, written).rev = snapshot.rev + 1
      BY <1>0, <2>1 DEF NewPlan, IsPlan
    <3> QED BY <1>2, <2>1, <3>1, <2>0, AcceptKeeps
  <2> DEFINE p == [snapshot EXCEPT !.rev = @ + 1, !.shape = shape, !.status = Merged(written)]
  <2>2. CASE snapshot # NoPlan /\ Accept(p)
    <3>1. IsPlan(p) /\ p.rev = snapshot.rev + 1
      BY <1>0, <2>2 DEF IsPlan
    <3> HIDE DEF p
    <3> QED BY <1>2, <2>2, <3>1, <2>0, AcceptKeeps
  <2> QED BY <1>2, <2>1, <2>2 DEF UpdatePlan
<1>3. ASSUME NEW tool \in Tools, NEW mutates \in BOOLEAN, ToolStarted(tool, mutates)
      PROVE  IInv'
  <2>1. PICK selected : Accept(WithFacts(snapshot, << <<tool, "started">> >>, selected, "active"))
    BY <1>3 DEF ToolStarted
  <2>2. IsPlan(snapshot) /\ UNCHANGED <<others, moved, inReview>>
    BY <1>0, <1>3 DEF ToolStarted
  <2> QED BY <2>1, <2>2, WithFactsPlan, AcceptKeeps
<1>4. ASSUME NEW tool \in Tools, NEW result \in {"success", "failed"}, ToolFinished(tool, result)
      PROVE  IInv'
  <2>0. UNCHANGED <<others, moved, inReview>>
    BY <1>4 DEF ToolFinished
  <2>1. CASE UNCHANGED <<snapshot, history, branch, accepted>>
    BY <2>0, <2>1 DEF IInv, HistoryInv, BranchInv, ReviewInv, RecoveryMatchesLive
  <2>2. CASE /\ snapshot # NoPlan
             /\ \E selected, status :
                    Accept(WithFacts(snapshot, NewFacts(snapshot, tool, result), selected, status))
    <3>1. PICK selected, status :
             Accept(WithFacts(snapshot, NewFacts(snapshot, tool, result), selected, status))
      BY <2>2
    <3>2. IsPlan(snapshot)
      BY <1>0, <2>2
    <3> QED BY <2>0, <3>1, <3>2, WithFactsPlan, AcceptKeeps
  <2> QED BY <1>4, <2>1, <2>2 DEF ToolFinished
<1>5. ASSUME NEW x \in Externals, NEW status \in Reported, ExternalReported(x, status)
      PROVE  IInv'
  <2>1. PICK selected, to :
           Accept(WithFacts(snapshot, << <<x, status>> >>, selected, to))
    BY <1>5 DEF ExternalReported
  <2>2. IsPlan(snapshot) /\ UNCHANGED <<others, moved, inReview>>
    BY <1>0, <1>5 DEF ExternalReported
  <2> QED BY <2>1, <2>2, WithFactsPlan, AcceptKeeps
<1>6. CASE ReviewStarts
  <2>1. UNCHANGED <<snapshot, history, branch, others, moved>>
    BY <1>6 DEF ReviewStarts
  <2>2. ASSUME NEW i \in DOMAIN inReview' PROVE Judged(inReview'[i], snapshot)
    <3> DEFINE r == [phase |-> "asked", plan |-> snapshot, survived |-> FALSE,
                     facts |-> Unreviewed(snapshot, lastReview)]
    <3>1. \/ inReview'[i] = r
          \/ i \in DOMAIN inReview /\ inReview'[i] = inReview[i]
      BY <1>6, <2>2 DEF ReviewStarts
    <3>2. Judged(r, snapshot)
      BY <1>0 DEF Judged
    <3> QED BY <3>1, <3>2 DEF IInv, ReviewInv
  <2>3. ReviewInv'
    BY <2>1, <2>2 DEF ReviewInv
  <2> QED BY <2>1, <2>3 DEF IInv, HistoryInv, BranchInv, RecoveryMatchesLive
<1>7. ASSUME NEW i \in DOMAIN inReview, ReviewFails(i)
      PROVE  IInv'
  <2>1. UNCHANGED <<snapshot, history, branch, others, moved>>
    BY <1>7 DEF ReviewFails
  <2>2. /\ DOMAIN inReview' = DOMAIN inReview
        /\ \A j \in DOMAIN inReview' : \/ inReview'[j] = inReview[j]
                                       \/ inReview'[j].phase # "asked"
    BY <1>7 DEF ReviewFails, Over
  <2>3. ReviewInv'
    BY <2>1, <2>2 DEF ReviewInv, Judged, IInv
  <2> QED BY <2>1, <2>3 DEF IInv, HistoryInv, BranchInv, RecoveryMatchesLive
<1>8. ASSUME NEW i \in DOMAIN inReview, ReviewRecorded(i)
      PROVE  IInv'
  <2> DEFINE e == [type |-> "review", review |-> lastReview']
  <2>1. /\ UNCHANGED <<snapshot, history, others, moved>>
        /\ inReview' = [j \in DOMAIN inReview \ {i} |-> inReview[j]]
        /\ branch' = Append(branch, e)
    BY <1>8 DEF ReviewRecorded
  <2>2. e.type = "review"
    OBVIOUS
  <2> HIDE DEF e
  <2>3. ReviewInv'
    BY <2>1 DEF IInv, ReviewInv
  <2>4. IsBranch(branch) /\ branch \in Seq(ToSet(branch))
    BY DEF IInv, BranchInv, IsBranch
  <2>5. BranchInv'
    <3>1. IsBranch(branch')
      BY <2>1, <2>2, <2>4, BranchAppend
    <3> QED BY <2>1, <3>1 DEF IInv, BranchInv
  <2>6. RestoredHistory(branch') = RestoredHistory(branch)
    BY <2>1, <2>2, <2>4, RestoredAppend DEF WithEntry, Extends
  <2> QED BY <2>1, <2>3, <2>5, <2>6 DEF IInv, HistoryInv, RecoveryMatchesLive
<1>9. ASSUME NEW i \in DOMAIN inReview, NEW t \in Tasks, NEW to \in Status, NEW evidence,
             PatchAccepted(i, t, to, evidence)
      PROVE  IInv'
  <2> DEFINE p == [snapshot EXCEPT !.rev = @ + 1, !.status[t] = to,
                                   !.evidence[t] = @ \union evidence]
  <2>1. snapshot # NoPlan /\ Accept(p) /\ UNCHANGED <<others, moved>>
    BY <1>9 DEF PatchAccepted
  <2>2. IsPlan(p) /\ p.rev = snapshot.rev + 1
    BY <1>0, <2>1 DEF IsPlan
  <2>3. \A j \in DOMAIN inReview' : \/ j \in DOMAIN inReview /\ inReview'[j] = inReview[j]
                                    \/ inReview'[j].phase # "asked"
    BY <1>9 DEF PatchAccepted, Over
  <2> HIDE DEF p
  <2> QED BY <2>1, <2>2, <2>3, AcceptKeeps
<1>10. CASE Navigate
  <2>1. UNCHANGED <<snapshot, history, inReview>> /\ moved' = TRUE
    BY <1>10 DEF Navigate
  <2>2. PICK o \in others \union {branch} : branch' \in Prefixes(o)
    BY <1>10 DEF Navigate
  <2>3. IsBranch(branch')
    BY <2>2, BranchPrefix DEF IInv, BranchInv
  <2>4. others' \subseteq others \union {branch}
    BY <1>10 DEF Navigate
  <2>5. BranchInv'
    BY <2>3, <2>4 DEF IInv, BranchInv
  <2> QED BY <2>1, <2>5 DEF IInv, HistoryInv, ReviewInv, RecoveryMatchesLive
<1>11. CASE NavigateRebuilds \/ Reload
  <2>1. Rebuild /\ AbortReview /\ UNCHANGED <<branch, others>>
    BY <1>11 DEF NavigateRebuilds, Reload
  <2> QED BY <2>1, AbortReviewMarks, RebuildKeeps
<1>12. CASE Restart
  <2>1. Rebuild /\ UNCHANGED <<branch, others>> /\ inReview' = <<>>
    BY <1>12 DEF Restart
  <2> QED BY <2>1, RebuildKeeps
<1> QED BY <1>1, <1>2, <1>3, <1>4, <1>5, <1>6, <1>7, <1>8, <1>9, <1>10, <1>11, <1>12
        DEF Next

\* The invariant holds throughout every behaviour of the runtime.
THEOREM Invariance == Spec => []IInv
<1>1. Init => IInv
  <2> SUFFICES ASSUME Init PROVE IInv
    OBVIOUS
  <2>1. /\ snapshot = NoPlan /\ history = <<>> /\ branch = <<>> /\ others = {}
        /\ inReview = <<>>
    BY DEF Init
  <2>2. IsBranch(branch)
    BY <2>1 DEF IsBranch
  <2>3. RestoredHistory(branch) = <<>>
    <3>1. PICK f : Loop(f, branch, 0) /\ RestoredHistory(branch) = f[0]
      BY <2>1, RestoredIsLoop
    <3> QED BY <3>1 DEF Loop
  <2>4. IsHistory(<<>>) /\ LatestPlan(<<>>) = NoPlan
    BY FS_EmptySet DEF IsHistory, LatestPlan
  <2>5. ReviewInv
    BY <2>1 DEF ReviewInv
  <2> QED BY <2>1, <2>2, <2>3, <2>4, <2>5 DEF IInv, HistoryInv, BranchInv, RecoveryMatchesLive
<1>2. IInv /\ [Next]_vars => IInv'
  BY StepKeeps
<1> QED BY <1>1, <1>2, PTL DEF Spec

\* RecoveryMatchesLive: the plan and the history in memory are the ones a
\* resume would restore from the branch, also after writes that raced with a
\* navigation (acceptSnapshot, navigateTree, rebuild).
THEOREM Recovery == Spec => []RecoveryMatchesLive
<1>1. IInv => RecoveryMatchesLive
  BY DEF IInv
<1> QED BY <1>1, Invariance, PTL

\* PatchOnJudgedPlan: of all the reviews in flight, only one that a rebuild has
\* left running may have applyReviewerPatch change a plan it has not judged.
THEOREM PatchJudged == Spec => PatchOnJudgedPlan
<1> DEFINE Patched(i) == /\ inReview[i].phase = "asked" /\ inReview'[i].phase = "over"
                         /\ accepted' # accepted /\ ~inReview[i].survived
           P == \A i \in DOMAIN inReview \intersect DOMAIN inReview' :
                   Patched(i) => snapshot = inReview[i].plan
<1>1. IInv /\ [Next]_vars => [P]_vars
  <2> SUFFICES ASSUME IInv, Next,
                      NEW i \in DOMAIN inReview \intersect DOMAIN inReview',
                      inReview[i].phase = "asked", inReview'[i].phase = "over",
                      accepted' # accepted, ~inReview[i].survived
               PROVE  snapshot = inReview[i].plan
    OBVIOUS
  <2>1. CASE \E j \in DOMAIN inReview : \E t, to, evidence : PatchAccepted(j, t, to, evidence)
    <3>1. PICK j \in DOMAIN inReview : \E t, to, evidence : PatchAccepted(j, t, to, evidence)
      BY <2>1
    <3>2. inReview' = [inReview EXCEPT ![j] = Over(@)] /\ PatchCurrent(inReview[j])
      BY <3>1 DEF PatchAccepted
    <3>3. i = j
      BY <3>2
    <3> QED BY <3>2, <3>3 DEF PatchCurrent, IInv, ReviewInv, Judged
  <2>2. CASE inReview' = inReview \/ accepted' = accepted
    BY <2>2
  <2> QED BY <2>1, <2>2
          DEF Next, Project, UpdatePlan, ToolStarted, ToolFinished, ExternalReported,
              ReviewStarts, ReviewFails, ReviewRecorded, Navigate, NavigateRebuilds,
              Reload, Restart
<1> QED BY <1>1, Invariance, PTL DEF Spec, PatchOnJudgedPlan

\* NoProgressReverted: a tasks_update written for an older revision never puts
\* a task back to the status the coordinator was shown.
THEOREM ProgressKept == Spec => NoProgressReverted
<1> DEFINE Update == \E shape \in Shapes, written \in [Tasks -> Written] : UpdatePlan(shape, written)
           P == Update /\ seen.rev \in DOMAIN history /\ seen = history[seen.rev]
                  => \A t \in Tasks : \/ snapshot'.status[t] = snapshot.status[t]
                                      \/ snapshot'.status[t] # seen.status[t]
<1>1. IInv /\ [Next]_vars => [P]_vars
  <2> SUFFICES ASSUME IInv, NEW shape \in Shapes, NEW written \in [Tasks -> Written],
                      UpdatePlan(shape, written),
                      seen.rev \in DOMAIN history, seen = history[seen.rev],
                      NEW t \in Tasks
               PROVE  \/ snapshot'.status[t] = snapshot.status[t]
                      \/ snapshot'.status[t] # seen.status[t]
    OBVIOUS
  <2>0. /\ IsHistory(history) /\ snapshot = LatestPlan(history)
        /\ DOMAIN history # {}
    BY DEF IInv, HistoryInv
  <2>1. snapshot # NoPlan /\ IsPlan(snapshot) /\ snapshot = history[snapshot.rev]
    BY <2>0, Latest
  <2>2. snapshot' = [snapshot EXCEPT !.rev = @ + 1, !.shape = shape, !.status = Merged(written)]
    BY <2>1 DEF UpdatePlan, Accept
  <2>3. snapshot'.status[t] = Merged(written)[t]
    BY <2>1, <2>2 DEF IsPlan
  <2>4. CASE Rebasing
    BY <2>3, <2>4 DEF Merged
  <2>5. CASE ~Rebasing
    BY <2>1, <2>5 DEF Rebasing
  <2> QED BY <2>4, <2>5
<1> QED BY <1>1, Invariance, PTL DEF Spec, NoProgressReverted
=============================================================================
