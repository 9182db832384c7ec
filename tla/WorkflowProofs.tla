--------------------------- MODULE WorkflowProofs ---------------------------
(***************************************************************************)
(* Theorems about Workflow, for every set of workflows, every DAG, every   *)
(* write and failure policy and every bound: the shared workspace has one  *)
(* writer; until a node is launched twice no node is given up as lost, no  *)
(* worktree is left behind and what is over is quiet; and no node is       *)
(* launched twice where isolated nodes run alone in their workflow.        *)
(***************************************************************************)
EXTENDS Workflow, TLAPS, SequenceTheorems, FiniteSetTheorems, WellFoundedInduction

-----------------------------------------------------------------------------
(* The inductive invariant.                                                *)

NodeStatus == NodeTerminal \cup {"none", "pending", "running"}
Isolated(n) == WritePolicy[n] = "isolated"

\* A node in the shared workspace is launched once: while it is running its
\* one call is held in the Map and has its agent, before and after it has none.
CallOK(status, calls, held) ==
    /\ DOMAIN calls \subseteq {1}
    /\ status \in {"none", "pending"} => DOMAIN calls = {} /\ held = 0
    /\ status = "running" => held = 1
    /\ status \in NodeTerminal => held = 0
    /\ \A k \in DOMAIN calls : /\ calls[k].phase \in {"agent", "settled"}
                               /\ ~calls[k].leased
                               /\ calls[k].phase = "agent" => status = "running"

Calls(nd, rs, held) == \A n \in Nodes : ~Isolated(n) => CallOK(nd[n], rs[n], held[n])

\* The lock: beside a running shared node only isolated nodes run.
Lock(nd) ==
    \A m, n \in Nodes :
        m # n /\ nd[m] = "running" /\ nd[n] = "running" /\ WritePolicy[m] = "shared"
            => Isolated(n)

\* What was launched had its dependencies behind it.
Deps(nd, rs) ==
    \A n \in Nodes : DOMAIN rs[n] # {} =>
        \A d \in DependsOn[n] \cap Nodes : ~Isolated(d) => nd[d] \in NodeTerminal

Typed(nd, rs, held, q) ==
    /\ nd \in [Nodes -> NodeStatus]
    /\ rs \in [Nodes -> Seq(Run)]
    /\ DOMAIN held = Nodes
    /\ q \in Seq(Nodes \X Nat)
    /\ \A i \in 1..Len(q) : Isolated(q[i][1])

Core(nd, rs, held, q) ==
    Typed(nd, rs, held, q) /\ Calls(nd, rs, held) /\ Lock(nd) /\ Deps(nd, rs)

WfTyped(x) ==
    /\ DOMAIN x = Workflows
    /\ \A w \in Workflows : DOMAIN x[w] = {"pc", "status", "cancel", "failure", "race"}

\* The nodes have no status until their workflow starts and are over when its
\* loop is.
Ending == {"draining", "cleaning", "over"}

WfInv(x, nd) ==
    /\ WfTyped(x)
    /\ \A w \in Workflows :
         /\ x[w].status \in WorkflowTerminal => x[w].pc \in {"cleaning", "over"}
         /\ \A n \in NodesOf(w) : ~Isolated(n) =>
              /\ x[w].pc = "idle" <=> nd[n] = "none"
              /\ x[w].pc \in Ending => nd[n] \in NodeTerminal

IInv == Core(node, runs, running, queue) /\ WfInv(wf, node)

-----------------------------------------------------------------------------
(* Loops.                                                                  *)

\* A set of natural numbers has a least element.
LEMMA Least ==
    ASSUME NEW T, T \subseteq Nat, T # {}
    PROVE  \E m \in T : \A k \in T : m <= k
<1>1. PICK m \in T : \A k \in T : ~(<<k, m>> \in OpToRel(<, Nat))
  BY WFMin, NatLessThanWellFounded, Zenon
<1>2. \A k \in T : <<k, m>> \in Nat \X Nat /\ <<k, m>>[1] = k /\ <<k, m>>[2] = m
  OBVIOUS
<1>3. \A k \in T : ~(k < m)
  BY <1>1, <1>2 DEF OpToRel
<1> QED BY <1>3

\* What holds at 0 and is passed on holds up to N.
LEMMA Climb ==
    ASSUME NEW N \in Nat, NEW T, 0 \in T, \A i \in 1..N : i - 1 \in T => i \in T
    PROVE  \A i \in 0..N : i \in T
<1> DEFINE B == {i \in 0..N : i \notin T}
<1> SUFFICES ASSUME B # {} PROVE FALSE
  OBVIOUS
<1>1. B \subseteq Nat
  OBVIOUS
<1>2. PICK k \in B : \A i \in B : k <= i
  <2> HIDE DEF B
  <2> QED BY <1>1, Least
<1>3. k \in 0..N /\ k \notin T /\ k # 0
  OBVIOUS
<1>4. k \in 1..N /\ k - 1 \in 0..N /\ ~(k <= k - 1)
  BY <1>3
<1>5. k - 1 \in T
  BY <1>2, <1>4
<1> QED BY <1>3, <1>4, <1>5

\* The only element of a set.
LEMMA TheOne ==
    ASSUME NEW e
    PROVE  The({e}) = e
BY DEF The

\* One turn of the two loops of execute().
PassTurn(w, p, i) == The({Consider(w, q, Order[w][i]) : q \in {p}})
PassesTurn(w, p) ==
    The({IF q.started /\ Held(w, q.running) = {} /\ ~Over(w, q) THEN Pass(w, q) ELSE q : q \in {p}})

PassLoop(f, w, s, n) ==
    f = [i \in 0..n |-> IF i = 0 THEN [s EXCEPT !.started = FALSE] ELSE PassTurn(w, f[i - 1], i)]
PassesLoop(f, w, s, n) ==
    f = [i \in 0..n |-> IF i = 0 THEN Pass(w, s) ELSE PassesTurn(w, f[i - 1])]

\* There is a function that follows the loop over the nodes of a workflow.
LEMMA PassLoopExists ==
    ASSUME NEW w, NEW s, NEW n \in Nat
    PROVE  \E f : PassLoop(f, w, s, n)
<1> DEFINE T == {k \in Nat : ~\E f : PassLoop(f, w, s, k)}
           s0 == [s EXCEPT !.started = FALSE]
<1> SUFFICES ASSUME T # {} PROVE FALSE
  OBVIOUS
<1>1. PICK m \in T : \A k \in T : m <= k
  BY Least
<1>2. m # 0
  <2> DEFINE f == [i \in 0..0 |-> s0]
  <2>1. PassLoop(f, w, s, 0)
    BY DEF PassLoop
  <2> QED BY <2>1
<1>3. m - 1 \in Nat /\ m - 1 \notin T
  BY <1>1, <1>2
<1>4. PICK f : PassLoop(f, w, s, m - 1)
  BY <1>3
<1> DEFINE g == [i \in 0..m |-> IF i = m THEN PassTurn(w, f[m - 1], m) ELSE f[i]]
<1>5. \A i \in 0..(m - 1) : g[i] = f[i]
  BY <1>3
<1>6. ASSUME NEW i \in 0..m
      PROVE  g[i] = IF i = 0 THEN s0 ELSE PassTurn(w, g[i - 1], i)
  <2>1. CASE i = m
    BY <1>2, <1>3, <1>5, <2>1
  <2>2. CASE i # m
    <3>1. i \in 0..(m - 1)
      BY <1>3, <2>2
    <3>2. f[i] = IF i = 0 THEN s0 ELSE PassTurn(w, f[i - 1], i)
      BY <1>4, <3>1 DEF PassLoop
    <3>3. i # 0 => g[i - 1] = f[i - 1]
      BY <1>5, <3>1
    <3> QED BY <1>5, <3>1, <3>2, <3>3
  <2> QED BY <2>1, <2>2
<1>7. PassLoop(g, w, s, m)
  <2> DEFINE h == [i \in 0..m |-> IF i = 0 THEN s0 ELSE PassTurn(w, g[i - 1], i)]
  <2>1. g = [i \in 0..m |-> g[i]]
    OBVIOUS
  <2> HIDE DEF g
  <2>2. g = h
    BY <1>6, <2>1
  <2> QED BY <2>2 DEF PassLoop
<1> QED BY <1>7

\* There is a function that follows the loop over the passes.
LEMMA PassesLoopExists ==
    ASSUME NEW w, NEW s, NEW n \in Nat
    PROVE  \E f : PassesLoop(f, w, s, n)
<1> DEFINE T == {k \in Nat : ~\E f : PassesLoop(f, w, s, k)}
<1> SUFFICES ASSUME T # {} PROVE FALSE
  OBVIOUS
<1>1. PICK m \in T : \A k \in T : m <= k
  BY Least
<1>2. m # 0
  <2> DEFINE f == [i \in 0..0 |-> Pass(w, s)]
  <2>1. PassesLoop(f, w, s, 0)
    BY DEF PassesLoop
  <2> QED BY <2>1
<1>3. m - 1 \in Nat /\ m - 1 \notin T
  BY <1>1, <1>2
<1>4. PICK f : PassesLoop(f, w, s, m - 1)
  BY <1>3
<1> DEFINE g == [i \in 0..m |-> IF i = m THEN PassesTurn(w, f[m - 1]) ELSE f[i]]
<1>5. \A i \in 0..(m - 1) : g[i] = f[i]
  BY <1>3
<1>6. ASSUME NEW i \in 0..m
      PROVE  g[i] = IF i = 0 THEN Pass(w, s) ELSE PassesTurn(w, g[i - 1])
  <2>1. CASE i = m
    BY <1>2, <1>3, <1>5, <2>1
  <2>2. CASE i # m
    <3>1. i \in 0..(m - 1)
      BY <1>3, <2>2
    <3>2. f[i] = IF i = 0 THEN Pass(w, s) ELSE PassesTurn(w, f[i - 1])
      BY <1>4, <3>1 DEF PassesLoop
    <3>3. i # 0 => g[i - 1] = f[i - 1]
      BY <1>5, <3>1
    <3> QED BY <1>5, <3>1, <3>2, <3>3
  <2> QED BY <2>1, <2>2
<1>7. PassesLoop(g, w, s, m)
  <2> DEFINE h == [i \in 0..m |-> IF i = 0 THEN Pass(w, s) ELSE PassesTurn(w, g[i - 1])]
  <2>1. g = [i \in 0..m |-> g[i]]
    OBVIOUS
  <2> HIDE DEF g
  <2>2. g = h
    BY <1>6, <2>1
  <2> QED BY <2>2 DEF PassesLoop
<1> QED BY <1>7

\* One pass of execute() is the end of its loop over the nodes.
LEMMA PassIsLoop ==
    ASSUME NEW w, NEW s, Len(Order[w]) \in Nat
    PROVE  \E f : PassLoop(f, w, s, Len(Order[w])) /\ Pass(w, s) = f[Len(Order[w])]
<1> DEFINE f == CHOOSE f : PassLoop(f, w, s, Len(Order[w]))
<1>1. PassLoop(f, w, s, Len(Order[w]))
  BY PassLoopExists
<1>2. Pass(w, s) = f[Len(Order[w])]
  BY DEF Pass, PassLoop, PassTurn
<1> QED BY <1>1, <1>2

\* The passes of execute() are the end of their loop.
LEMMA PassesIsLoop ==
    ASSUME NEW w, NEW s, Len(Order[w]) \in Nat
    PROVE  \E f : PassesLoop(f, w, s, Len(Order[w])) /\ Passes(w, s) = f[Len(Order[w])]
<1> DEFINE f == CHOOSE f : PassesLoop(f, w, s, Len(Order[w]))
<1>1. PassesLoop(f, w, s, Len(Order[w]))
  BY PassesLoopExists
<1>2. Passes(w, s) = f[Len(Order[w])]
  BY DEF Passes, PassesLoop, PassesTurn
<1> QED BY <1>1, <1>2

\* A pass, node by node.
LEMMA PassSteps ==
    ASSUME NEW w, NEW s, Len(Order[w]) \in Nat
    PROVE  \E f : /\ f[0] = [s EXCEPT !.started = FALSE]
                  /\ \A i \in 1..Len(Order[w]) : f[i] = Consider(w, f[i - 1], Order[w][i])
                  /\ Pass(w, s) = f[Len(Order[w])]
<1> DEFINE N == Len(Order[w])
<1>1. PICK f : PassLoop(f, w, s, N) /\ Pass(w, s) = f[N]
  BY PassIsLoop
<1>2. N \in Nat
  OBVIOUS
<1> HIDE DEF N
<1>3. f[0] = [s EXCEPT !.started = FALSE]
  <2>1. 0 \in 0..N
    BY <1>2
  <2> QED BY <1>1, <2>1 DEF PassLoop
<1>4. ASSUME NEW i \in 1..N
      PROVE  f[i] = Consider(w, f[i - 1], Order[w][i])
  <2>1. i \in 0..N /\ i # 0
    BY <1>2
  <2>2. f[i] = PassTurn(w, f[i - 1], i)
    BY <1>1, <2>1 DEF PassLoop
  <2>3. {Consider(w, q, Order[w][i]) : q \in {f[i - 1]}} = {Consider(w, f[i - 1], Order[w][i])}
    OBVIOUS
  <2> QED BY <2>2, <2>3, TheOne DEF PassTurn
<1> QED BY <1>1, <1>3, <1>4 DEF N

\* The loop goes round again: the last pass only skipped nodes.
Again(w, s) == s.started /\ Held(w, s.running) = {} /\ ~Over(w, s)

\* The passes, one by one.
LEMMA PassesSteps ==
    ASSUME NEW w, NEW s, Len(Order[w]) \in Nat
    PROVE  \E f : /\ f[0] = Pass(w, s)
                  /\ \A i \in 1..Len(Order[w]) :
                        f[i] = IF Again(w, f[i - 1]) THEN Pass(w, f[i - 1]) ELSE f[i - 1]
                  /\ Passes(w, s) = f[Len(Order[w])]
<1> DEFINE N == Len(Order[w])
<1>1. PICK f : PassesLoop(f, w, s, N) /\ Passes(w, s) = f[N]
  BY PassesIsLoop
<1>2. N \in Nat
  OBVIOUS
<1> HIDE DEF N
<1>3. f[0] = Pass(w, s)
  <2>1. 0 \in 0..N
    BY <1>2
  <2> QED BY <1>1, <2>1 DEF PassesLoop
<1>4. ASSUME NEW i \in 1..N
      PROVE  f[i] = IF Again(w, f[i - 1]) THEN Pass(w, f[i - 1]) ELSE f[i - 1]
  <2>1. i \in 0..N /\ i # 0
    BY <1>2
  <2>2. f[i] = PassesTurn(w, f[i - 1])
    BY <1>1, <2>1 DEF PassesLoop
  <2> DEFINE p == f[i - 1]
             e == IF p.started /\ Held(w, p.running) = {} /\ ~Over(w, p) THEN Pass(w, p) ELSE p
  <2>3. {IF q.started /\ Held(w, q.running) = {} /\ ~Over(w, q) THEN Pass(w, q) ELSE q : q \in {p}}
          = {e}
    OBVIOUS
  <2> QED BY <2>2, <2>3, TheOne DEF PassesTurn, Again
<1> QED BY <1>1, <1>3, <1>4 DEF N

-----------------------------------------------------------------------------
(* The scheduler's state between two awaits.                               *)

\* The loop moves pending nodes only.
Moved(nd, st) ==
    \A n \in Nodes : \/ st[n] = nd[n]
                     \/ nd[n] = "pending" /\ st[n] \in NodeTerminal \cup {"running"}

LoopInv(nd, s) ==
    /\ DOMAIN s = {"node", "ctl", "running", "queue", "started", "runs", "pc"}
    /\ Core(s.node, s.runs, s.running, s.queue)
    /\ Moved(nd, s.node)
    /\ s.pc = "draining"

\* A pending node that is skipped or cancelled, alone or with others.
LEMMA FinishedKeeps ==
    ASSUME NEW nd, NEW rs, NEW held, NEW q, Core(nd, rs, held, q),
           NEW st \in [Nodes -> NodeStatus],
           \A n \in Nodes : st[n] = nd[n] \/ (nd[n] = "pending" /\ st[n] \in NodeTerminal)
    PROVE  Core(st, rs, held, q)
<1>1. Typed(st, rs, held, q)
  BY DEF Core, Typed
<1>2. Calls(st, rs, held)
  <2> SUFFICES ASSUME NEW n \in Nodes, ~Isolated(n)
               PROVE  CallOK(st[n], rs[n], held[n])
    BY DEF Calls
  <2>1. CallOK(nd[n], rs[n], held[n])
    BY DEF Core, Calls
  <2> QED BY <2>1 DEF CallOK, NodeTerminal
<1>3. \A n \in Nodes : st[n] = "running" => nd[n] = "running"
  BY DEF NodeTerminal
<1>4. Lock(st)
  BY <1>3 DEF Core, Lock
<1>5. Deps(st, rs)
  <2>1. \A n \in Nodes : nd[n] \in NodeTerminal => st[n] \in NodeTerminal
    OBVIOUS
  <2> QED BY <2>1 DEF Core, Deps
<1> QED BY <1>1, <1>2, <1>4, <1>5 DEF Core

\* runNode() up to its first await keeps the lock and the order of the nodes.
LEMMA LaunchKeeps ==
    ASSUME NEW nd, NEW s, LoopInv(nd, s), NEW n \in Nodes,
           Ready(s, n), CanStart(n, s.node)
    PROVE  LoopInv(nd, Launch(s, n))
<1> DEFINE k == Len(s.runs[n]) + 1
           run == [phase |-> IF Isolated(n) THEN "creating" ELSE "agent",
                   aborted |-> FALSE, leased |-> FALSE]
           st == [s.node EXCEPT ![n] = IF Isolated(n) THEN @ ELSE "running"]
           rs == [s.runs EXCEPT ![n] = Append(@, run)]
           held == [s.running EXCEPT ![n] = k]
           q == IF Isolated(n) THEN Append(s.queue, <<n, k>>) ELSE s.queue
           t == Launch(s, n)
<1>1. /\ DOMAIN t = DOMAIN s
      /\ t.node = st /\ t.runs = rs /\ t.running = held /\ t.queue = q /\ t.pc = s.pc
  BY DEF Launch, LoopInv, Isolated
<1>2. /\ s.node \in [Nodes -> NodeStatus] /\ s.runs \in [Nodes -> Seq(Run)]
      /\ DOMAIN s.running = Nodes /\ s.queue \in Seq(Nodes \X Nat)
      /\ \A i \in 1..Len(s.queue) : Isolated(s.queue[i][1])
      /\ s.node[n] = "pending" /\ n \in Nodes
  BY DEF LoopInv, Core, Typed, Ready
<1>3. run \in Run /\ run.phase = (IF Isolated(n) THEN "creating" ELSE "agent") /\ ~run.leased
  BY DEF Run
<1>4. k \in Nat
  BY <1>2
<1> HIDE DEF run, t
<1>5. Typed(st, rs, held, q)
  <2>1. st \in [Nodes -> NodeStatus]
    BY <1>2 DEF NodeStatus
  <2>2. rs \in [Nodes -> Seq(Run)]
    BY <1>2, <1>3
  <2>3. DOMAIN held = Nodes
    BY <1>2
  <2>4. CASE ~Isolated(n)
    BY <1>2, <2>1, <2>2, <2>3, <2>4 DEF Typed
  <2>5. CASE Isolated(n)
    <3> DEFINE e == <<n, k>>
    <3>1. e \in Nodes \X Nat /\ e[1] = n
      BY <1>4
    <3> HIDE DEF e, k
    <3>2. q = Append(s.queue, e)
      BY <2>5 DEF e
    <3>3. /\ q \in Seq(Nodes \X Nat) /\ Len(q) = Len(s.queue) + 1 /\ Len(s.queue) \in Nat
          /\ \A i \in 1..Len(s.queue) : q[i] = s.queue[i]
          /\ q[Len(s.queue) + 1] = e
      BY <1>2, <3>1, <3>2
    <3>4. \A i \in 1..Len(q) : i \in 1..Len(s.queue) \/ i = Len(s.queue) + 1
      BY <3>3
    <3>5. \A i \in 1..Len(q) : Isolated(q[i][1])
      BY <1>2, <2>5, <3>1, <3>3, <3>4
    <3> QED BY <2>1, <2>2, <2>3, <3>3, <3>5 DEF Typed
  <2> QED BY <2>4, <2>5
<1>6. Calls(st, rs, held)
  <2> SUFFICES ASSUME NEW m \in Nodes, ~Isolated(m)
               PROVE  CallOK(st[m], rs[m], held[m])
    BY DEF Calls
  <2>1. CallOK(s.node[m], s.runs[m], s.running[m])
    BY DEF LoopInv, Core, Calls
  <2>2. CASE m # n
    BY <1>2, <2>1, <2>2
  <2>3. CASE m = n
    <3>1. DOMAIN s.runs[n] = {} /\ s.runs[n] \in Seq(Run)
      BY <1>2, <2>1, <2>3 DEF CallOK
    <3>2. Len(s.runs[n]) = 0
      <4>1. DOMAIN s.runs[n] = 1..Len(s.runs[n]) /\ Len(s.runs[n]) \in Nat
        BY <1>2
      <4>2. 1 \notin 1..Len(s.runs[n])
        BY <3>1, <4>1
      <4> QED BY <4>1, <4>2
    <3>3. rs[n] = Append(s.runs[n], run)
      BY <1>2
    <3>4. DOMAIN rs[n] = {1} /\ rs[n][1] = run
      BY <1>3, <3>1, <3>2, <3>3
    <3>5. st[n] = "running" /\ held[n] = 1
      BY <1>2, <2>3, <3>2
    <3> HIDE DEF st, rs, held
    <3> QED BY <1>3, <2>3, <3>4, <3>5 DEF CallOK, NodeTerminal
  <2> QED BY <2>2, <2>3
<1>7. Lock(st)
  <2> SUFFICES ASSUME NEW l \in Nodes, NEW m \in Nodes, l # m,
                      st[l] = "running", st[m] = "running", WritePolicy[l] = "shared"
               PROVE  Isolated(m)
    BY DEF Lock
  <2>1. Lock(s.node)
    BY DEF LoopInv, Core
  <2>2. CASE Isolated(n)
    <3>1. s.node[l] = "running" /\ s.node[m] = "running"
      BY <1>2, <2>2
    <3> QED BY <2>1, <3>1 DEF Lock
  <2>3. CASE ~Isolated(n) /\ l = n
    <3>1. s.node[m] = "running"
      BY <1>2, <2>3
    <3> QED BY <2>3, <3>1 DEF CanStart, Isolated
  <2>4. CASE ~Isolated(n) /\ m = n
    <3>1. s.node[l] = "running"
      BY <1>2, <2>4
    <3>2. WritePolicy[n] \in {"none", "shared"}
      BY <2>4, WorkflowAssumption DEF Isolated
    <3> QED BY <2>4, <3>1, <3>2 DEF CanStart
  <2>5. CASE l # n /\ m # n
    <3>1. s.node[l] = "running" /\ s.node[m] = "running"
      BY <1>2, <2>5
    <3> QED BY <2>1, <3>1 DEF Lock
  <2> QED BY <2>2, <2>3, <2>4, <2>5
<1>8. Deps(st, rs)
  <2> SUFFICES ASSUME NEW m \in Nodes, DOMAIN rs[m] # {},
                      NEW d \in DependsOn[m] \cap Nodes, ~Isolated(d)
               PROVE  st[d] \in NodeTerminal
    BY DEF Deps
  <2>1. s.node[d] \in NodeTerminal
    <3>1. CASE m = n
      BY <3>1 DEF Ready
    <3>2. CASE m # n
      <4>1. rs[m] = s.runs[m]
        BY <1>2, <3>2
      <4> HIDE DEF rs
      <4> QED BY <4>1 DEF LoopInv, Core, Deps
    <3> QED BY <3>1, <3>2
  <2>2. d # n
    BY <1>2, <2>1 DEF NodeTerminal
  <2> QED BY <1>2, <2>1, <2>2
<1>9. Moved(nd, st)
  <2> SUFFICES ASSUME NEW m \in Nodes
               PROVE  st[m] = nd[m] \/ (nd[m] = "pending" /\ st[m] \in NodeTerminal \cup {"running"})
    BY DEF Moved
  <2>1. s.node[m] = nd[m] \/ (nd[m] = "pending" /\ s.node[m] \in NodeTerminal \cup {"running"})
    BY DEF LoopInv, Moved
  <2> QED BY <1>2, <2>1 DEF NodeTerminal
<1> HIDE DEF st, rs, held, q
<1> QED BY <1>1, <1>5, <1>6, <1>7, <1>8, <1>9 DEF LoopInv, Core, t

\* The body of the for loop.
LEMMA ConsiderKeeps ==
    ASSUME NEW nd, NEW s, LoopInv(nd, s), NEW w, NEW n \in Nodes
    PROVE  LoopInv(nd, Consider(w, s, n))
<1>1. CASE Ready(s, n) /\ ~ConditionHolds(n, s.node)
  <2> DEFINE st == [s.node EXCEPT ![n] = "skipped"]
             t == [s EXCEPT !.node[n] = "skipped", !.started = TRUE]
  <2>1. Consider(w, s, n) = t
    BY <1>1 DEF Consider
  <2>2. /\ DOMAIN t = DOMAIN s /\ t.node = st
        /\ t.runs = s.runs /\ t.running = s.running /\ t.queue = s.queue /\ t.pc = s.pc
    BY DEF LoopInv
  <2>3. s.node \in [Nodes -> NodeStatus] /\ s.node[n] = "pending"
    BY <1>1 DEF LoopInv, Core, Typed, Ready
  <2>4. /\ st \in [Nodes -> NodeStatus]
        /\ \A m \in Nodes : st[m] = s.node[m] \/ (s.node[m] = "pending" /\ st[m] \in NodeTerminal)
    BY <2>3 DEF NodeStatus, NodeTerminal
  <2> HIDE DEF st, t
  <2>5. Core(st, s.runs, s.running, s.queue)
    BY <2>4, FinishedKeeps DEF LoopInv
  <2>6. Moved(nd, st)
    BY <2>4 DEF LoopInv, Moved, NodeTerminal
  <2> QED BY <2>1, <2>2, <2>5, <2>6 DEF LoopInv
<1>2. CASE Consider(w, s, n) = s
  BY <1>2
<1>3. CASE Ready(s, n) /\ CanStart(n, s.node) /\ Consider(w, s, n) = Launch(s, n)
  BY <1>3, LaunchKeeps
<1> QED BY <1>1, <1>2, <1>3 DEF Consider

\* The order of a workflow lists nodes.
LEMMA OrderTyped ==
    ASSUME NEW w \in Workflows
    PROVE  /\ Len(Order[w]) \in Nat
           /\ \A i \in 1..Len(Order[w]) : Order[w][i] \in Nodes
<1>1. Order[w] \in Seq(NodesOf(w))
  BY WorkflowAssumption
<1>2. NodesOf(w) \subseteq Nodes
  BY DEF Nodes
<1> QED BY <1>1, <1>2

\* The for loop, once over the nodes of the workflow.
LEMMA PassKeeps ==
    ASSUME NEW nd, NEW s, LoopInv(nd, s), NEW w \in Workflows
    PROVE  LoopInv(nd, Pass(w, s))
<1> DEFINE N == Len(Order[w])
<1>0. N \in Nat /\ \A i \in 1..N : Order[w][i] \in Nodes
  BY OrderTyped
<1>1. PICK f : /\ f[0] = [s EXCEPT !.started = FALSE]
               /\ \A i \in 1..N : f[i] = Consider(w, f[i - 1], Order[w][i])
               /\ Pass(w, s) = f[N]
  BY <1>0, PassSteps
<1> HIDE DEF N
<1> DEFINE T == {i \in 0..N : LoopInv(nd, f[i])}
<1>2. LoopInv(nd, f[0])
  <2> DEFINE t == [s EXCEPT !.started = FALSE]
  <2>1. /\ DOMAIN t = DOMAIN s /\ t.node = s.node
        /\ t.runs = s.runs /\ t.running = s.running /\ t.queue = s.queue /\ t.pc = s.pc
    BY DEF LoopInv
  <2> HIDE DEF t
  <2>2. LoopInv(nd, t)
    BY <2>1 DEF LoopInv
  <2> QED BY <1>1, <2>2 DEF t
<1>3. 0 \in T
  BY <1>0, <1>2
<1>4. ASSUME NEW i \in 1..N, i - 1 \in T PROVE i \in T
  <2>1. LoopInv(nd, f[i]) /\ i \in 0..N
    BY <1>0, <1>1, <1>4, ConsiderKeeps
  <2> QED BY <2>1
<1>5. N \in T
  <2> HIDE DEF T
  <2>1. \A i \in 0..N : i \in T
    BY <1>0, <1>3, <1>4, Climb
  <2> QED BY <1>0, <2>1
<1> QED BY <1>1, <1>5

\* Its repetitions.
LEMMA PassesKeeps ==
    ASSUME NEW nd, NEW s, LoopInv(nd, s), NEW w \in Workflows
    PROVE  LoopInv(nd, Passes(w, s))
<1> DEFINE N == Len(Order[w])
<1>0. N \in Nat
  BY OrderTyped
<1>1. PICK f : /\ f[0] = Pass(w, s)
               /\ \A i \in 1..N : f[i] = IF Again(w, f[i - 1]) THEN Pass(w, f[i - 1]) ELSE f[i - 1]
               /\ Passes(w, s) = f[N]
  BY <1>0, PassesSteps
<1> HIDE DEF N
<1> DEFINE T == {i \in 0..N : LoopInv(nd, f[i])}
<1>2. 0 \in T
  BY <1>0, <1>1, PassKeeps
<1>3. ASSUME NEW i \in 1..N, i - 1 \in T PROVE i \in T
  <2>1. LoopInv(nd, f[i]) /\ i \in 0..N
    BY <1>0, <1>1, <1>3, PassKeeps
  <2> QED BY <2>1
<1>4. N \in T
  <2> HIDE DEF T
  <2>1. \A i \in 0..N : i \in T
    BY <1>0, <1>2, <1>3, Climb
  <2> QED BY <1>0, <2>1
<1> QED BY <1>1, <1>4

\* What the loop leaves at its await: the invariant, and when it goes on to
\* its end, no node of the shared workspace that is not over.
Suspended(w, nd, s) ==
    /\ Core(s.node, s.runs, s.running, s.queue)
    /\ Moved(nd, s.node)
    /\ s.pc \in {"racing", "waiting", "draining"}
    /\ s.pc = "draining" => \A n \in NodesOf(w) : ~Isolated(n) /\ nd[n] # "none" => s.node[n] \in NodeTerminal

\* execute() suspends or leaves its loop with its nodes as WfInv wants them.
LEMMA SuspendKeeps ==
    ASSUME NEW nd, NEW s, LoopInv(nd, s), NEW w \in Workflows
    PROVE  Suspended(w, nd, Suspend(w, s))
<1>0. /\ DOMAIN s = {"node", "ctl", "running", "queue", "started", "runs", "pc"}
      /\ Core(s.node, s.runs, s.running, s.queue) /\ Moved(nd, s.node)
      /\ s.node \in [Nodes -> NodeStatus]
  BY DEF LoopInv, Core, Typed
<1>1. ASSUME NEW pc \in {"racing", "waiting"}, Suspend(w, s) = [s EXCEPT !.pc = pc]
      PROVE  Suspended(w, nd, Suspend(w, s))
  <2> DEFINE t == [s EXCEPT !.pc = pc]
  <2>1. /\ t.node = s.node /\ t.runs = s.runs /\ t.running = s.running
        /\ t.queue = s.queue /\ t.pc = pc
    BY <1>0
  <2> HIDE DEF t
  <2>2. t.pc \in {"racing", "waiting"}
    BY <2>1
  <2> QED BY <1>0, <1>1, <2>1, <2>2 DEF Suspended, t
<1>2. ASSUME Held(w, s.running) = {},
             Suspend(w, s) = [s EXCEPT !.node = Finished(@, Pending(w, @), "lost"), !.pc = "draining"]
      PROVE  Suspended(w, nd, Suspend(w, s))
  <2> DEFINE st == Finished(s.node, Pending(w, s.node), "lost")
             t == [s EXCEPT !.node = Finished(@, Pending(w, @), "lost"), !.pc = "draining"]
  <2>1. /\ t.node = st /\ t.runs = s.runs /\ t.running = s.running
        /\ t.queue = s.queue /\ t.pc = "draining"
    BY <1>0
  <2>2. /\ st \in [Nodes -> NodeStatus]
        /\ \A n \in Nodes : st[n] = IF n \in Pending(w, s.node) THEN "lost" ELSE s.node[n]
    BY <1>0 DEF Finished, NodeStatus, NodeTerminal, Pending
  <2> HIDE DEF st, t
  <2>3. \A n \in Nodes : st[n] = s.node[n] \/ (s.node[n] = "pending" /\ st[n] \in NodeTerminal)
    BY <2>2 DEF Pending, NodeTerminal
  <2>4. Core(st, s.runs, s.running, s.queue)
    BY <1>0, <2>2, <2>3, FinishedKeeps
  <2>5. Moved(nd, st)
    BY <1>0, <2>3 DEF Moved, NodeTerminal
  <2>6. ASSUME NEW n \in NodesOf(w), ~Isolated(n), nd[n] # "none"
        PROVE  st[n] \in NodeTerminal
    <3>0. n \in Nodes
      BY DEF Nodes
    <3>1. s.running[n] = 0
      <4> SUFFICES ASSUME s.running[n] # 0 PROVE FALSE
        OBVIOUS
      <4>1. n \in {x \in NodesOf(w) : s.running[x] # 0}
        OBVIOUS
      <4>2. <<n, s.running[n]>> \in Held(w, s.running)
        BY <4>1 DEF Held
      <4> QED BY <1>2, <4>2
    <3>2. s.node[n] # "running"
      <4>1. CallOK(s.node[n], s.runs[n], s.running[n])
        BY <1>0, <2>6, <3>0 DEF Core, Calls
      <4> QED BY <3>1, <4>1 DEF CallOK
    <3>3. s.node[n] # "none"
      BY <1>0, <2>6, <3>0 DEF Moved, NodeTerminal
    <3>4. s.node[n] \in NodeTerminal \cup {"pending"}
      BY <1>0, <3>0, <3>2, <3>3 DEF NodeStatus
    <3>5. CASE s.node[n] = "pending"
      <4>1. n \in Pending(w, s.node)
        BY <3>5 DEF Pending
      <4> QED BY <2>2, <3>0, <4>1 DEF NodeTerminal
    <3>6. CASE s.node[n] # "pending"
      BY <2>3, <3>0, <3>4, <3>6
    <3> QED BY <3>5, <3>6
  <2> QED BY <1>2, <2>1, <2>4, <2>5, <2>6 DEF Suspended, t
<1>3. \/ \E pc \in {"racing", "waiting"} : Suspend(w, s) = [s EXCEPT !.pc = pc]
      \/ /\ Held(w, s.running) = {}
         /\ Suspend(w, s) = [s EXCEPT !.node = Finished(@, Pending(w, @), "lost"), !.pc = "draining"]
  BY DEF Suspend
<1> QED BY <1>1, <1>2, <1>3

\* controller.abort() changes no phase.
LEMMA AbortKeeps ==
    ASSUME NEW nd, NEW rs, NEW held, NEW q, Core(nd, rs, held, q), NEW x
    PROVE  /\ Core(nd, Abort(rs, x), held, q)
           /\ \A n \in Nodes : /\ DOMAIN Abort(rs, x)[n] = DOMAIN rs[n]
                                /\ \A k \in DOMAIN rs[n] :
                                     /\ Abort(rs, x)[n][k].phase = rs[n][k].phase
                                     /\ Abort(rs, x)[n][k].leased = rs[n][k].leased
<1> DEFINE r == Abort(rs, x)
<1>0. rs \in [Nodes -> Seq(Run)]
  BY DEF Core, Typed
<1>1. ASSUME NEW n \in Nodes
      PROVE  /\ r[n] \in Seq(Run) /\ DOMAIN r[n] = DOMAIN rs[n]
             /\ \A k \in DOMAIN rs[n] : r[n][k].phase = rs[n][k].phase /\ r[n][k].leased = rs[n][k].leased
  <2> DEFINE c == rs[n]
             y(k) == IF <<n, k>> \in x THEN [c[k] EXCEPT !.aborted = TRUE] ELSE c[k]
  <2>1. c \in Seq(Run) /\ DOMAIN c = 1..Len(c) /\ Len(c) \in Nat
    BY <1>0
  <2>2. r[n] = [k \in DOMAIN c |-> y(k)]
    BY DEF Abort
  <2>3. ASSUME NEW k \in DOMAIN c
        PROVE  y(k) \in Run /\ y(k).phase = c[k].phase /\ y(k).leased = c[k].leased
    <3>1. c[k] \in Run
      BY <2>1
    <3> HIDE DEF c
    <3> QED BY <3>1 DEF Run
  <2> HIDE DEF c, y, r
  <2>4. r[n] \in Seq(Run)
    BY <2>1, <2>2, <2>3, IsASeq
  <2> QED BY <2>2, <2>3, <2>4 DEF c
<1>2. r \in [Nodes -> Seq(Run)]
  <2>1. r = [n \in Nodes |-> r[n]]
    BY DEF Abort
  <2> HIDE DEF r
  <2> QED BY <1>1, <2>1
<1> HIDE DEF r
<1>3. Calls(nd, r, held)
  <2> SUFFICES ASSUME NEW n \in Nodes, ~Isolated(n)
               PROVE  CallOK(nd[n], r[n], held[n])
    BY DEF Calls
  <2>1. CallOK(nd[n], rs[n], held[n])
    BY DEF Core, Calls
  <2> QED BY <1>1, <2>1 DEF CallOK
<1>4. Deps(nd, r)
  BY <1>1 DEF Core, Deps
<1> QED BY <1>1, <1>2, <1>3, <1>4 DEF Core, Typed, r

\* execute() enters with the statuses nd and aborts the calls it holds when
\* the workflow is to stop.
Entered(w, nd, x) ==
    [node |-> nd, ctl |-> ctl, running |-> running, queue |-> queue, started |-> FALSE,
     runs |-> IF x[w].cancel \/ x[w].failure THEN Abort(runs, Held(w, ctl)) ELSE runs,
     pc |-> "draining"]

\* A turn of the loop makes its passes unless every node is over.
LEMMA ScheduledIs ==
    ASSUME NEW w, NEW nd, NEW x
    PROVE  Scheduled(w, nd, x) = IF Over(w, Entered(w, nd, x)) THEN Entered(w, nd, x)
                                 ELSE Suspend(w, Passes(w, Entered(w, nd, x)))
<1> DEFINE enter == Entered(w, nd, x)
           e == IF Over(w, enter) THEN enter ELSE Suspend(w, Passes(w, enter))
           turn(s) == IF Over(w, s) THEN s ELSE The({Suspend(w, p) : p \in {Passes(w, s)}})
<1>1. Scheduled(w, nd, x) = The({turn(s) : s \in {enter}})
  BY DEF Scheduled, Entered
<1> HIDE DEF enter
<1>2. {Suspend(w, p) : p \in {Passes(w, enter)}} = {Suspend(w, Passes(w, enter))}
  OBVIOUS
<1>3. turn(enter) = e
  BY <1>2, TheOne
<1>4. {turn(s) : s \in {enter}} = {turn(enter)}
  OBVIOUS
<1> HIDE DEF turn, e
<1>5. Scheduled(w, nd, x) = e
  BY <1>1, <1>3, <1>4, TheOne
<1> QED BY <1>5 DEF e, enter

\* One turn of execute(), from its entry to its next await.
LEMMA ScheduledKeeps ==
    ASSUME NEW nd, NEW x, NEW w \in Workflows, Core(nd, runs, running, queue)
    PROVE  Suspended(w, nd, Scheduled(w, nd, x))
<1> DEFINE stop  == x[w].cancel \/ x[w].failure
           r     == IF stop THEN Abort(runs, Held(w, ctl)) ELSE runs
           enter == [node |-> nd, ctl |-> ctl, running |-> running, queue |-> queue,
                     started |-> FALSE, runs |-> r, pc |-> "draining"]
           e     == IF Over(w, enter) THEN enter ELSE Suspend(w, Passes(w, enter))
<1>1. Core(nd, r, running, queue)
  BY AbortKeeps
<1>2. /\ DOMAIN enter = {"node", "ctl", "running", "queue", "started", "runs", "pc"}
      /\ enter.node = nd /\ enter.runs = r /\ enter.running = running
      /\ enter.queue = queue /\ enter.pc = "draining"
  OBVIOUS
<1>3. Scheduled(w, nd, x) = e
  BY ScheduledIs DEF Entered
<1> HIDE DEF enter, r
<1>4. LoopInv(nd, enter)
  <2>1. Moved(nd, nd)
    BY DEF Moved
  <2> QED BY <1>1, <1>2, <2>1 DEF LoopInv
<1>5. CASE Over(w, enter)
  <2>1. \A n \in NodesOf(w) : nd[n] \in NodeTerminal
    BY <1>2, <1>5 DEF Over
  <2> QED BY <1>2, <1>3, <1>4, <1>5, <2>1 DEF Suspended, LoopInv
<1>6. CASE ~Over(w, enter)
  BY <1>3, <1>4, <1>6, PassesKeeps, SuspendKeeps
<1> QED BY <1>5, <1>6

-----------------------------------------------------------------------------
(* The workflows.                                                          *)

\* publish() only makes waiting executions go on.
LEMMA PublishedSame ==
    ASSUME NEW x, WfTyped(x)
    PROVE  /\ WfTyped(Published(x))
           /\ \A w \in Workflows :
                /\ Published(x)[w].status = x[w].status
                /\ \/ Published(x)[w].pc = x[w].pc
                   \/ x[w].pc = "waiting" /\ Published(x)[w].pc = "ready"
BY DEF Published, WfTyped

\* publish() only wakes the loops that wait for the schedule.
LEMMA PublishedKeeps ==
    ASSUME NEW x, NEW nd, WfInv(x, nd)
    PROVE  WfInv(Published(x), nd)
<1>1. /\ WfTyped(Published(x))
      /\ \A w \in Workflows :
           /\ Published(x)[w].status = x[w].status
           /\ \/ Published(x)[w].pc = x[w].pc
              \/ x[w].pc = "waiting" /\ Published(x)[w].pc = "ready"
  BY PublishedSame DEF WfInv
<1> QED BY <1>1 DEF WfInv, Ending

\* Nodes that only move on from pending leave the workflows' states true.
LEMMA MovedKeeps ==
    ASSUME NEW x, NEW nd, NEW st, WfInv(x, nd),
           \A n \in Nodes : ~Isolated(n) =>
              \/ st[n] = nd[n]
              \/ nd[n] # "none" /\ nd[n] \notin NodeTerminal /\ st[n] # "none"
    PROVE  WfInv(x, st)
<1>1. \A w \in Workflows : NodesOf(w) \subseteq Nodes
  BY DEF Nodes
<1> QED BY <1>1 DEF WfInv

\* execute() of w goes on with the node statuses nd and the workflows x.
LEMMA ScheduleKeeps ==
    ASSUME NEW nd, NEW x, NEW w \in Workflows,
           Core(nd, runs, running, queue),
           WfTyped(x), x[w].status \notin WorkflowTerminal,
           \A n \in NodesOf(w) : ~Isolated(n) => nd[n] # "none",
           \A v \in Workflows \ {w} :
             /\ x[v].status \in WorkflowTerminal => x[v].pc \in {"cleaning", "over"}
             /\ \A n \in NodesOf(v) : ~Isolated(n) =>
                  /\ x[v].pc = "idle" <=> nd[n] = "none"
                  /\ x[v].pc \in Ending => nd[n] \in NodeTerminal,
           Schedule(w, nd, x)
    PROVE  IInv'
<1> DEFINE s == Scheduled(w, nd, x)
<1>0. Suspended(w, nd, s)
  BY ScheduledKeeps
<1> HIDE DEF s
<1>1. PICK y \in {x, Published(x)} :
        /\ node' = s.node /\ runs' = s.runs /\ running' = s.running /\ queue' = s.queue
        /\ wf' = [y EXCEPT ![w].pc = s.pc, ![w].race = Held(w, s.running)]
  BY DEF Schedule, s
<1>2. Core(node', runs', running', queue')
  BY <1>0, <1>1 DEF Suspended
<1>3. /\ WfTyped(y)
      /\ \A v \in Workflows : /\ y[v].status = x[v].status
                               /\ \/ y[v].pc = x[v].pc
                                  \/ x[v].pc = "waiting" /\ y[v].pc = "ready"
  BY PublishedSame
<1>4. /\ WfTyped(wf')
      /\ wf'[w].pc = s.pc /\ wf'[w].status = y[w].status
      /\ \A v \in Workflows \ {w} : wf'[v] = y[v]
  BY <1>1, <1>3 DEF WfTyped
<1>5. \A v \in Workflows : NodesOf(v) \subseteq Nodes
  BY DEF Nodes
<1>6. ASSUME NEW v \in Workflows
      PROVE  /\ wf'[v].status \in WorkflowTerminal => wf'[v].pc \in {"cleaning", "over"}
             /\ \A n \in NodesOf(v) : ~Isolated(n) =>
                  /\ wf'[v].pc = "idle" <=> node'[n] = "none"
                  /\ wf'[v].pc \in Ending => node'[n] \in NodeTerminal
  <2>1. CASE v = w
    <3>1. \A n \in NodesOf(w) : ~Isolated(n) => s.node[n] # "none"
      BY <1>0, <1>5 DEF Suspended, Moved, NodeTerminal
    <3> QED BY <1>0, <1>1, <1>3, <1>4, <2>1, <3>1 DEF Suspended, Ending
  <2>2. CASE v # w
    <3>1. \A n \in NodesOf(v) : /\ s.node[n] = "none" <=> nd[n] = "none"
                                /\ nd[n] \in NodeTerminal => s.node[n] = nd[n]
      BY <1>0, <1>5 DEF Suspended, Moved, NodeTerminal
    <3>2. wf'[v] = y[v] /\ node' = s.node
      BY <1>1, <1>4, <2>2
    <3>3. /\ y[v].pc = "idle" <=> x[v].pc = "idle"
          /\ y[v].pc \in Ending => x[v].pc = y[v].pc
          /\ x[v].pc \in {"cleaning", "over"} => y[v].pc = x[v].pc
          /\ y[v].status = x[v].status
      BY <1>3 DEF Ending
    <3> QED BY <2>2, <3>1, <3>2, <3>3
  <2> QED BY <2>1, <2>2
<1>7. WfInv(wf', node')
  BY <1>4, <1>6 DEF WfInv
<1> QED BY <1>2, <1>7 DEF IInv

-----------------------------------------------------------------------------
(* runNode().                                                              *)

\* The step leaves the calls of the other nodes alone; if they were pending it
\* may end them.
OthersKept(n, nd, rs, held, st, rs2, held2) ==
    \A m \in Nodes \ {n} :
        /\ st[m] = nd[m] \/ (nd[m] = "pending" /\ st[m] \in NodeTerminal)
        /\ rs2[m] = rs[m] /\ held2[m] = held[m]

\* A step of the call of one node: an isolated node may do what it wants,
\* another one is over.
LEMMA RunKeeps ==
    ASSUME NEW nd, NEW rs, NEW held, NEW q, Core(nd, rs, held, q), NEW n \in Nodes,
           NEW st \in [Nodes -> NodeStatus], NEW rs2 \in [Nodes -> Seq(Run)],
           NEW held2, DOMAIN held2 = Nodes,
           OthersKept(n, nd, rs, held, st, rs2, held2),
           DOMAIN rs2[n] = DOMAIN rs[n],
           Isolated(n) \/ (st[n] \in NodeTerminal /\ CallOK(st[n], rs2[n], held2[n]))
    PROVE  Core(st, rs2, held2, q)
<1>0. \A m \in Nodes \ {n} :
        /\ st[m] = nd[m] \/ (nd[m] = "pending" /\ st[m] \in NodeTerminal)
        /\ rs2[m] = rs[m] /\ held2[m] = held[m]
  BY DEF OthersKept
<1>1. Typed(st, rs2, held2, q)
  BY DEF Core, Typed
<1>2. Calls(st, rs2, held2)
  <2> SUFFICES ASSUME NEW m \in Nodes, ~Isolated(m)
               PROVE  CallOK(st[m], rs2[m], held2[m])
    BY DEF Calls
  <2>1. CASE m = n
    BY <2>1
  <2>2. CASE m # n
    <3>1. CallOK(nd[m], rs[m], held[m])
      BY DEF Core, Calls
    <3> QED BY <1>0, <2>2, <3>1 DEF CallOK, NodeTerminal
  <2> QED BY <2>1, <2>2
<1>3. Lock(st)
  <2> SUFFICES ASSUME NEW l \in Nodes, NEW m \in Nodes, l # m, ~Isolated(m),
                      st[l] = "running", st[m] = "running", WritePolicy[l] = "shared"
               PROVE  FALSE
    BY DEF Lock
  <2>1. "running" \notin NodeTerminal /\ ~Isolated(l)
    BY DEF NodeTerminal, Isolated
  <2>2. l # n /\ m # n
    BY <2>1
  <2>3. nd[l] = "running" /\ nd[m] = "running"
    BY <1>0, <2>1, <2>2
  <2> QED BY <2>3 DEF Core, Lock
<1>4. Deps(st, rs2)
  <2> SUFFICES ASSUME NEW m \in Nodes, DOMAIN rs2[m] # {},
                      NEW d \in DependsOn[m] \cap Nodes, ~Isolated(d)
               PROVE  st[d] \in NodeTerminal
    BY DEF Deps
  <2>1. DOMAIN rs[m] # {}
    BY <1>0
  <2>2. nd[d] \in NodeTerminal
    BY <2>1 DEF Core, Deps
  <2>3. CASE d = n
    BY <2>3
  <2>4. CASE d # n
    BY <1>0, <2>2, <2>4
  <2> QED BY <2>3, <2>4
<1> QED BY <1>1, <1>2, <1>3, <1>4 DEF Core

\* The first worktree request leaves the queue; it is of an isolated node.
LEMMA TailKeeps ==
    ASSUME NEW nd, NEW rs, NEW held, NEW q, Core(nd, rs, held, q), q # <<>>
    PROVE  Core(nd, rs, held, Tail(q)) /\ Isolated(Head(q)[1])
<1>1. q \in Seq(Nodes \X Nat) /\ \A i \in 1..Len(q) : Isolated(q[i][1])
  BY DEF Core, Typed
<1>2. /\ Tail(q) \in Seq(Nodes \X Nat) /\ Len(Tail(q)) = Len(q) - 1
      /\ Len(q) \in Nat \ {0} /\ Head(q) = q[1]
      /\ \A i \in 1..Len(Tail(q)) : Tail(q)[i] = q[i + 1] /\ i + 1 \in 1..Len(q)
  BY <1>1
<1>3. \A i \in 1..Len(Tail(q)) : Isolated(Tail(q)[i][1])
  BY <1>1, <1>2
<1>4. Isolated(Head(q)[1])
  BY <1>1, <1>2
<1> QED BY <1>2, <1>3, <1>4 DEF Core, Typed

WithPhase(r, n, k, ph) == [r EXCEPT ![n][k].phase = ph]

\* A call that changes its phase stays a call.
LEMMA PhaseTyped ==
    ASSUME NEW r \in [Nodes -> Seq(Run)], NEW n \in Nodes, NEW k \in DOMAIN r[n],
           NEW ph \in {"creating", "agent", "cleanup", "settled"}
    PROVE  LET t == WithPhase(r, n, k, ph)
           IN  /\ t \in [Nodes -> Seq(Run)]
               /\ DOMAIN t[n] = DOMAIN r[n]
               /\ \A m \in Nodes \ {n} : t[m] = r[m]
               /\ t[n][k].phase = ph /\ t[n][k].leased = r[n][k].leased
<1> DEFINE c == r[n]
           y == [c[k] EXCEPT !.phase = ph]
           u == [c EXCEPT ![k] = y]
           t == WithPhase(r, n, k, ph)
<1>1. c \in Seq(Run) /\ DOMAIN c = 1..Len(c) /\ Len(c) \in Nat /\ k \in 1..Len(c)
  OBVIOUS
<1>2. c[k] \in Run
  BY <1>1
<1>3. t[n] = u /\ \A m \in Nodes \ {n} : t[m] = r[m]
  BY DEF WithPhase
<1>4. t = [m \in Nodes |-> IF m = n THEN u ELSE r[m]]
  BY DEF WithPhase
<1> HIDE DEF c, t
<1>5. y \in Run /\ y.phase = ph /\ y.leased = c[k].leased
  BY <1>2 DEF Run
<1> HIDE DEF y
<1>6. u \in Seq(Run) /\ DOMAIN u = DOMAIN c /\ u[k] = y
  BY <1>1, <1>5, ExceptSeq
<1> HIDE DEF u
<1>7. t \in [Nodes -> Seq(Run)]
  BY <1>4, <1>6
<1> QED BY <1>3, <1>5, <1>6, <1>7 DEF c, t

\* finishNode and the failure policy: the node is over, others only if they
\* were pending.
LEMMA AfterFinishEffect ==
    ASSUME node \in [Nodes -> NodeStatus], NEW n \in Nodes, NEW final \in NodeTerminal, NEW failed
    PROVE  LET after == AfterFinish(n, final, failed)
           IN  /\ after \in [Nodes -> NodeStatus]
               /\ after[n] \in NodeTerminal
               /\ after[n] = node[n] \/ node[n] \notin NodeTerminal
               /\ \A m \in Nodes \ {n} :
                    after[m] = node[m] \/ (node[m] = "pending" /\ after[m] \in NodeTerminal)
<1> DEFINE w == Owner(n)
           done == Finished(node, {n}, final)
           after == AfterFinish(n, final, failed)
<1>1. /\ done \in [Nodes -> NodeStatus] /\ done[n] \in NodeTerminal
      /\ done[n] = node[n] \/ node[n] \notin NodeTerminal
      /\ \A m \in Nodes \ {n} : done[m] = node[m]
  BY DEF Finished, NodeStatus
<1>2. PICK ns \in SUBSET Pending(w, done), f \in {"cancelled", "skipped"} :
         after = Finished(done, ns, f)
  <2>1. {} \in SUBSET Pending(w, done) /\ done = Finished(done, {}, "skipped")
    BY <1>1 DEF Finished
  <2>2. Dependents(n) \cap Pending(w, done) \in SUBSET Pending(w, done)
    OBVIOUS
  <2> QED BY <2>1, <2>2 DEF AfterFinish
<1> HIDE DEF done, after
<1>3. \A m \in ns : done[m] = "pending"
  BY DEF Pending
<1>4. /\ after \in [Nodes -> NodeStatus]
      /\ \A m \in Nodes : after[m] = done[m] \/ (done[m] = "pending" /\ after[m] \in NodeTerminal)
  BY <1>1, <1>2, <1>3 DEF Finished, NodeStatus, NodeTerminal
<1>5. after[n] = done[n]
  BY <1>1, <1>4 DEF NodeTerminal
<1> QED BY <1>1, <1>4, <1>5 DEF after

\* The end of a call, its finally block included.
LEMMA FinishKeeps ==
    ASSUME IInv, NEW n \in Nodes, NEW k \in DOMAIN runs[n], NEW final \in NodeTerminal,
           NEW failed, ~Isolated(n) => runs[n][k].phase = "agent", Finish(n, k, final, failed)
    PROVE  Core(node', runs', running', queue) /\ WfInv(wf', node')
<1> DEFINE w == Owner(n)
           stop == failed /\ FailurePolicy[n] = "fail-workflow"
           after == AfterFinish(n, final, failed)
           r == IF stop THEN Abort(runs, Held(w, [ctl EXCEPT ![n] = 0])) ELSE runs
           x == [wf EXCEPT ![w].failure = @ \/ stop]
<1>0. /\ Core(node, runs, running, queue) /\ WfInv(wf, node)
      /\ node \in [Nodes -> NodeStatus] /\ runs \in [Nodes -> Seq(Run)] /\ DOMAIN running = Nodes
  BY DEF IInv, Core, Typed
<1>1. /\ Core(node, r, running, queue)
      /\ DOMAIN r[n] = DOMAIN runs[n]
      /\ r[n][k].phase = runs[n][k].phase /\ r[n][k].leased = runs[n][k].leased
  BY <1>0, AbortKeeps
<1>2. PICK ph \in {"cleanup", "settled"} :
        /\ node' = after
        /\ runs' = [r EXCEPT ![n][k].phase = ph]
        /\ running' = running \/ running' = [running EXCEPT ![n] = 0]
        /\ wf' = x \/ wf' = Published(x)
        /\ ~runs[n][k].leased => ph = "settled" /\ running' = [running EXCEPT ![n] = 0]
  <2>1. CASE runs[n][k].leased /\ after[n] # "completed"
    <3>1. /\ node' = after /\ runs' = [r EXCEPT ![n][k].phase = "cleanup"]
          /\ running' = running /\ wf' = x
      BY <2>1 DEF Finish
    <3> QED BY <2>1, <3>1
  <2>2. CASE ~(runs[n][k].leased /\ after[n] # "completed")
    <3>1. /\ node' = after /\ runs' = [r EXCEPT ![n][k].phase = "settled"]
          /\ running' = [running EXCEPT ![n] = 0] /\ wf' = Published(x)
      BY <2>2 DEF Finish, Settle
    <3> QED BY <2>2, <3>1
  <2> QED BY <2>1, <2>2
<1>3. /\ after \in [Nodes -> NodeStatus]
      /\ after[n] \in NodeTerminal
      /\ after[n] = node[n] \/ node[n] \notin NodeTerminal
      /\ \A m \in Nodes \ {n} :
           after[m] = node[m] \/ (node[m] = "pending" /\ after[m] \in NodeTerminal)
  BY <1>0, AfterFinishEffect
<1> HIDE DEF after, r
<1>4. r \in [Nodes -> Seq(Run)] /\ k \in DOMAIN r[n]
  BY <1>1 DEF Core, Typed
<1>5. /\ runs' \in [Nodes -> Seq(Run)] /\ DOMAIN runs'[n] = DOMAIN r[n]
      /\ \A m \in Nodes \ {n} : runs'[m] = r[m]
      /\ runs'[n][k].phase = ph /\ runs'[n][k].leased = r[n][k].leased
  <2>1. runs' = WithPhase(r, n, k, ph) /\ ph \in {"creating", "agent", "cleanup", "settled"}
    BY <1>2 DEF WithPhase
  <2> QED BY <1>4, <2>1, PhaseTyped
<1>6. /\ DOMAIN running' = Nodes
      /\ \A m \in Nodes \ {n} : running'[m] = running[m]
  BY <1>0, <1>2
<1>7. ASSUME ~Isolated(n)
      PROVE  /\ CallOK(after[n], runs'[n], running'[n])
             /\ node[n] = "running"
  <2>1. CallOK(node[n], runs[n], running[n])
    BY <1>0, <1>7 DEF Core, Calls
  <2>2. DOMAIN runs[n] \subseteq {1} /\ k = 1 /\ ~runs[n][k].leased /\ node[n] = "running"
    BY <1>7, <2>1 DEF CallOK
  <2>3. /\ DOMAIN runs'[n] \subseteq {1} /\ runs'[n][1].phase = "settled" /\ ~runs'[n][1].leased
        /\ running'[n] = 0
    BY <1>0, <1>1, <1>2, <1>5, <2>2
  <2>4. after[n] \notin {"none", "pending", "running"}
    BY <1>3 DEF NodeTerminal
  <2> QED BY <2>2, <2>3, <2>4 DEF CallOK
<1>8. Core(after, runs', running', queue)
  <2>1. Isolated(n) \/ (after[n] \in NodeTerminal /\ CallOK(after[n], runs'[n], running'[n]))
    BY <1>3, <1>7
  <2>2. OthersKept(n, node, r, running, after, runs', running')
    BY <1>3, <1>5, <1>6 DEF OthersKept
  <2> QED BY <1>1, <1>3, <1>5, <1>6, <2>1, <2>2, RunKeeps
<1>9. WfInv(wf, after)
  <2>1. \A m \in Nodes : ~Isolated(m) =>
           \/ after[m] = node[m]
           \/ node[m] # "none" /\ node[m] \notin NodeTerminal /\ after[m] # "none"
    BY <1>3, <1>7 DEF NodeTerminal
  <2> QED BY <1>0, <2>1, MovedKeeps
<1>10. /\ WfTyped(x)
       /\ \A v \in Workflows : x[v].pc = wf[v].pc /\ x[v].status = wf[v].status
  BY <1>0 DEF WfInv, WfTyped
<1> HIDE DEF x
<1>11. WfInv(x, after)
  BY <1>9, <1>10 DEF WfInv
<1>12. WfInv(Published(x), after)
  BY <1>11, PublishedKeeps
<1> QED BY <1>2, <1>8, <1>11, <1>12

WithAgent(r, n, k) == [r EXCEPT ![n][k].phase = "agent", ![n][k].leased = TRUE]

\* A call gets its agent, the other calls are left alone.
LEMMA AgentTyped ==
    ASSUME NEW r \in [Nodes -> Seq(Run)], NEW n \in Nodes, NEW k \in DOMAIN r[n]
    PROVE  LET t == WithAgent(r, n, k)
           IN  /\ t \in [Nodes -> Seq(Run)]
               /\ DOMAIN t[n] = DOMAIN r[n] /\ t[n][k].phase = "agent"
               /\ \A m \in Nodes \ {n} : t[m] = r[m]
<1> DEFINE c == r[n]
           y == [c[k] EXCEPT !.phase = "agent", !.leased = TRUE]
           u == [c EXCEPT ![k] = y]
           t == WithAgent(r, n, k)
<1>1. c \in Seq(Run) /\ DOMAIN c = 1..Len(c) /\ Len(c) \in Nat /\ k \in 1..Len(c)
  OBVIOUS
<1>2. c[k] \in Run
  BY <1>1
<1>3. t[n] = u /\ \A m \in Nodes \ {n} : t[m] = r[m]
  BY DEF WithAgent
<1>4. t = [m \in Nodes |-> IF m = n THEN u ELSE r[m]]
  BY DEF WithAgent
<1> HIDE DEF c, t
<1>5. y \in Run /\ y.phase = "agent"
  BY <1>2 DEF Run
<1> HIDE DEF y
<1>6. u \in Seq(Run) /\ DOMAIN u = DOMAIN c /\ u[k] = y
  BY <1>1, <1>5, ExceptSeq
<1> HIDE DEF u
<1>7. t \in [Nodes -> Seq(Run)]
  BY <1>4, <1>6
<1> QED BY <1>3, <1>5, <1>6, <1>7 DEF c, t

\* worktrees.create() is served.
LEMMA CreateKeeps ==
    ASSUME IInv, NEW n \in Nodes, NEW k \in DOMAIN runs[n], CreateWorktree(n, k)
    PROVE  IInv'
<1>0. /\ Core(node, runs, running, queue) /\ WfInv(wf, node)
      /\ node \in [Nodes -> NodeStatus] /\ runs \in [Nodes -> Seq(Run)] /\ DOMAIN running = Nodes
  BY DEF IInv, Core, Typed
<1>1. Isolated(n)
  <2>1. queue # <<>> /\ Head(queue)[1] = n
    BY DEF CreateWorktree
  <2> QED BY <1>0, <2>1, TailKeeps
<1>2. ASSUME NEW final \in NodeTerminal, NEW failed, Finish(n, k, final, failed)
      PROVE  IInv'
  <2>1. Core(node', runs', running', queue) /\ WfInv(wf', node')
    BY <1>1, <1>2, FinishKeeps
  <2>2. queue' = Tail(queue) /\ queue # <<>>
    BY DEF CreateWorktree
  <2> QED BY <2>1, <2>2, TailKeeps DEF IInv
<1>3. ASSUME /\ node' = [node EXCEPT ![n] = "running"]
             /\ runs' = [runs EXCEPT ![n][k].phase = "agent", ![n][k].leased = TRUE]
             /\ wf' = Published(wf)
             /\ UNCHANGED running
      PROVE  IInv'
  <2>1. runs' = WithAgent(runs, n, k)
    BY <1>3 DEF WithAgent
  <2>2. /\ runs' \in [Nodes -> Seq(Run)] /\ DOMAIN runs'[n] = DOMAIN runs[n]
        /\ \A m \in Nodes \ {n} : runs'[m] = runs[m]
    BY <1>0, <2>1, AgentTyped
  <2>3. /\ node' \in [Nodes -> NodeStatus] /\ \A m \in Nodes \ {n} : node'[m] = node[m]
        /\ running' = running /\ DOMAIN running' = Nodes
    BY <1>0, <1>3 DEF NodeStatus
  <2>4. OthersKept(n, node, runs, running, node', runs', running')
    BY <2>2, <2>3 DEF OthersKept
  <2>5. Core(node', runs', running', queue)
    BY <1>0, <1>1, <2>2, <2>3, <2>4, RunKeeps
  <2>6. queue' = Tail(queue) /\ queue # <<>>
    BY DEF CreateWorktree
  <2>7. Core(node', runs', running', queue')
    BY <2>5, <2>6, TailKeeps
  <2>8. \A m \in Nodes : ~Isolated(m) => node'[m] = node[m]
    BY <1>1, <2>3
  <2>9. WfInv(wf, node')
    BY <1>0, <2>8, MovedKeeps
  <2>10. WfInv(wf', node')
    BY <1>3, <2>9, PublishedKeeps
  <2> QED BY <2>7, <2>10 DEF IInv
<1>4. {"cancelled", "failed"} \subseteq NodeTerminal
  BY DEF NodeTerminal
<1>5. \/ \E final \in {"cancelled", "failed"}, failed \in BOOLEAN : Finish(n, k, final, failed)
      \/ /\ node' = [node EXCEPT ![n] = "running"]
         /\ runs' = [runs EXCEPT ![n][k].phase = "agent", ![n][k].leased = TRUE]
         /\ wf' = Published(wf)
         /\ UNCHANGED running
  BY DEF CreateWorktree
<1> QED BY <1>2, <1>3, <1>4, <1>5

\* cleanupNode is done; only isolated nodes have one.
LEMMA CleanupKeeps ==
    ASSUME IInv, NEW n \in Nodes, NEW k \in DOMAIN runs[n], CleanupNode(n, k)
    PROVE  IInv'
<1>0. /\ Core(node, runs, running, queue) /\ WfInv(wf, node)
      /\ node \in [Nodes -> NodeStatus] /\ runs \in [Nodes -> Seq(Run)] /\ DOMAIN running = Nodes
  BY DEF IInv, Core, Typed
<1>1. Isolated(n)
  <2> SUFFICES ASSUME ~Isolated(n) PROVE FALSE
    OBVIOUS
  <2>1. CallOK(node[n], runs[n], running[n])
    BY <1>0 DEF Core, Calls
  <2> QED BY <2>1 DEF CallOK, CleanupNode
<1>2. /\ runs' = WithPhase(runs, n, k, "settled") /\ running' = [running EXCEPT ![n] = 0]
      /\ wf' = Published(wf) /\ UNCHANGED <<node, queue>>
  BY DEF CleanupNode, Settle, WithPhase
<1>3. /\ runs' \in [Nodes -> Seq(Run)] /\ DOMAIN runs'[n] = DOMAIN runs[n]
      /\ \A m \in Nodes \ {n} : runs'[m] = runs[m]
  <2>1. "settled" \in {"creating", "agent", "cleanup", "settled"}
    OBVIOUS
  <2> QED BY <1>0, <1>2, <2>1, PhaseTyped
<1>4. DOMAIN running' = Nodes /\ \A m \in Nodes \ {n} : running'[m] = running[m]
  BY <1>0, <1>2
<1>5. OthersKept(n, node, runs, running, node, runs', running')
  BY <1>3, <1>4 DEF OthersKept
<1>6. Core(node, runs', running', queue)
  BY <1>0, <1>1, <1>3, <1>4, <1>5, RunKeeps
<1>7. WfInv(wf', node)
  BY <1>0, <1>2, PublishedKeeps
<1> QED BY <1>2, <1>6, <1>7 DEF IInv

-----------------------------------------------------------------------------
(* Cancellation.                                                           *)

\* A cancellation ends pending nodes; a node with a call under way keeps it.
LEMMA RequestCancelKeeps ==
    ASSUME IInv, NEW ws, RequestCancel(ws)
    PROVE  IInv'
<1> DEFINE open == {w \in ws : wf[w].status = "running" /\ ~wf[w].cancel}
           x == [w \in Workflows |-> IF w \in open THEN [wf[w] EXCEPT !.cancel = TRUE] ELSE wf[w]]
           ns == UNION {Pending(w, node) : w \in open}
<1>0. /\ Core(node, runs, running, queue) /\ WfInv(wf, node) /\ WfTyped(wf)
      /\ node \in [Nodes -> NodeStatus]
  BY DEF IInv, Core, Typed, WfInv
<1>1. PICK a : runs' = Abort(runs, a)
  BY DEF RequestCancel
<1>2. /\ node' = Finished(node, ns, "cancelled")
      /\ wf' = wf \/ wf' = Published(x)
      /\ UNCHANGED <<running, queue>>
  BY DEF RequestCancel
<1>3. WfTyped(x) /\ \A w \in Workflows : x[w].pc = wf[w].pc /\ x[w].status = wf[w].status
  BY <1>0 DEF WfTyped
<1>4. \A n \in ns : node[n] = "pending"
  BY DEF Pending
<1> HIDE DEF x, ns
<1>5. /\ node' \in [Nodes -> NodeStatus]
      /\ \A n \in Nodes : node'[n] = node[n] \/ (node[n] = "pending" /\ node'[n] \in NodeTerminal)
  BY <1>0, <1>2, <1>4 DEF Finished, NodeStatus, NodeTerminal
<1>6. Core(node', runs', running', queue')
  <2>1. Core(node, runs', running, queue)
    BY <1>0, <1>1, AbortKeeps
  <2>2. Core(node', runs', running, queue)
    BY <1>5, <2>1, FinishedKeeps
  <2> QED BY <1>2, <2>2
<1>7. WfInv(wf, node')
  <2>1. \A n \in Nodes : ~Isolated(n) =>
           \/ node'[n] = node[n]
           \/ node[n] # "none" /\ node[n] \notin NodeTerminal /\ node'[n] # "none"
    BY <1>5 DEF NodeTerminal
  <2> QED BY <1>0, <2>1, MovedKeeps
<1>8. WfInv(x, node')
  BY <1>3, <1>7 DEF WfInv
<1>9. WfInv(wf', node')
  BY <1>2, <1>7, <1>8, PublishedKeeps
<1> QED BY <1>6, <1>9 DEF IInv

-----------------------------------------------------------------------------
(* execute().                                                              *)

\* The nodes of a workflow that starts are pending and have no call.
LEMMA StartCore ==
    ASSUME Core(node, runs, running, queue), WfInv(wf, node), NEW w \in Workflows,
           wf[w].pc = "idle", NEW nd \in [Nodes -> NodeStatus],
           \A n \in Nodes : nd[n] = IF n \in NodesOf(w) THEN "pending" ELSE node[n]
    PROVE  Core(nd, runs, running, queue)
<1>1. \A n \in NodesOf(w) : ~Isolated(n) => node[n] = "none"
  BY DEF WfInv
<1>2. Typed(nd, runs, running, queue)
  BY DEF Core, Typed
<1>3. Calls(nd, runs, running)
  <2> SUFFICES ASSUME NEW n \in Nodes, ~Isolated(n)
               PROVE  CallOK(nd[n], runs[n], running[n])
    BY DEF Calls
  <2>1. CallOK(node[n], runs[n], running[n])
    BY DEF Core, Calls
  <2>2. nd[n] = node[n] \/ (node[n] = "none" /\ nd[n] = "pending")
    BY <1>1
  <2> QED BY <2>1, <2>2 DEF CallOK, NodeTerminal
<1>4. Lock(nd)
  BY DEF Core, Lock
<1>5. Deps(nd, runs)
  <2>1. \A d \in Nodes : ~Isolated(d) /\ node[d] \in NodeTerminal => nd[d] = node[d]
    BY <1>1 DEF NodeTerminal
  <2> QED BY <2>1 DEF Core, Deps
<1> QED BY <1>2, <1>3, <1>4, <1>5 DEF Core

\* A workflow starts: its nodes are pending, then its loop runs.
LEMMA StartKeeps ==
    ASSUME IInv, NEW w \in Workflows, Start(w)
    PROVE  IInv'
<1> DEFINE nd == [n \in Nodes |-> IF n \in NodesOf(w) THEN "pending" ELSE node[n]]
           x == [Published(wf) EXCEPT ![w].status = "running"]
<1>0. /\ Core(node, runs, running, queue) /\ WfInv(wf, node) /\ WfTyped(wf)
      /\ node \in [Nodes -> NodeStatus] /\ wf[w].pc = "idle" /\ Schedule(w, nd, x)
  BY DEF IInv, Core, Typed, WfInv, Start
<1>1. \A v \in Workflows : NodesOf(v) \subseteq Nodes
  BY DEF Nodes
<1>2. \A n \in NodesOf(w) : ~Isolated(n) => node[n] = "none"
  BY <1>0 DEF WfInv
<1>3. /\ nd \in [Nodes -> NodeStatus]
      /\ \A n \in Nodes : nd[n] = IF n \in NodesOf(w) THEN "pending" ELSE node[n]
  BY <1>0 DEF NodeStatus
<1> HIDE DEF nd
<1>4. Core(nd, runs, running, queue)
  BY <1>0, <1>3, StartCore
<1>5. /\ WfTyped(Published(wf))
      /\ \A v \in Workflows :
           /\ Published(wf)[v].status = wf[v].status
           /\ \/ Published(wf)[v].pc = wf[v].pc
              \/ wf[v].pc = "waiting" /\ Published(wf)[v].pc = "ready"
  BY <1>0, PublishedSame
<1>6. /\ WfTyped(x) /\ x[w].status = "running"
      /\ \A v \in Workflows \ {w} : x[v] = Published(wf)[v]
  BY <1>5 DEF WfTyped
<1> HIDE DEF x
<1>7. ASSUME NEW v \in Workflows \ {w}
      PROVE  /\ x[v].status \in WorkflowTerminal => x[v].pc \in {"cleaning", "over"}
             /\ \A n \in NodesOf(v) : ~Isolated(n) =>
                  /\ x[v].pc = "idle" <=> nd[n] = "none"
                  /\ x[v].pc \in Ending => nd[n] \in NodeTerminal
  <2>1. \A n \in NodesOf(v) : n \in Nodes /\ n \notin NodesOf(w)
    BY <1>1, WorkflowAssumption
  <2>2. \A n \in NodesOf(v) : nd[n] = node[n]
    BY <1>3, <2>1
  <2>3. WfInv(Published(wf), node)
    BY <1>0, PublishedKeeps
  <2>4. x[v] = Published(wf)[v]
    BY <1>6
  <2> QED BY <2>2, <2>3, <2>4 DEF WfInv
<1>8. \A n \in NodesOf(w) : ~Isolated(n) => nd[n] # "none"
  BY <1>1, <1>3
<1>9. x[w].status \notin WorkflowTerminal
  BY <1>6 DEF WorkflowTerminal
<1> QED BY <1>0, <1>4, <1>6, <1>7, <1>8, <1>9, ScheduleKeeps

\* The loop goes on after a race or a change of the schedule.
LEMMA ResumeKeeps ==
    ASSUME IInv, NEW w \in Workflows, Resume(w)
    PROVE  IInv'
<1>0. /\ Core(node, runs, running, queue) /\ WfInv(wf, node) /\ WfTyped(wf)
      /\ wf[w].pc \in {"ready", "racing"} /\ Schedule(w, node, wf)
  BY DEF IInv, WfInv, Resume
<1>1. wf[w].status \notin WorkflowTerminal
  BY <1>0 DEF WfInv
<1>2. \A n \in NodesOf(w) : ~Isolated(n) => node[n] # "none"
  BY <1>0 DEF WfInv
<1>3. \A v \in Workflows \ {w} :
        /\ wf[v].status \in WorkflowTerminal => wf[v].pc \in {"cleaning", "over"}
        /\ \A n \in NodesOf(v) : ~Isolated(n) =>
             /\ wf[v].pc = "idle" <=> node[n] = "none"
             /\ wf[v].pc \in Ending => node[n] \in NodeTerminal
  BY <1>0 DEF WfInv
<1> QED BY <1>0, <1>1, <1>2, <1>3, ScheduleKeeps

\* A workflow whose loop is over ends, and its worktrees are removed.
LEMMA ConcludeKeeps ==
    ASSUME IInv, NEW w \in Workflows, Conclude(w) \/ CleanupWorkflow(w)
    PROVE  IInv'
<1>0. Core(node, runs, running, queue) /\ WfInv(wf, node) /\ WfTyped(wf)
  BY DEF IInv, WfInv
<1>1. UNCHANGED <<node, runs, running, queue>> /\ wf[w].pc \in {"draining", "cleaning"}
  BY DEF Conclude, CleanupWorkflow
<1>2. PICK x : /\ wf' = x \/ wf' = Published(x)
               /\ WfTyped(x) /\ x[w].pc \in {"cleaning", "over"}
               /\ \A v \in Workflows \ {w} : x[v] = wf[v]
  <2> DEFINE Ends(st, pc) == [wf EXCEPT ![w].status = st, ![w].pc = pc]
             Over1 == [wf EXCEPT ![w].pc = "over"]
  <2>1. \A st, pc : /\ WfTyped(Ends(st, pc)) /\ Ends(st, pc)[w].pc = pc
                    /\ \A v \in Workflows \ {w} : Ends(st, pc)[v] = wf[v]
    BY <1>0 DEF WfTyped
  <2>2. /\ WfTyped(Over1) /\ Over1[w].pc = "over"
        /\ \A v \in Workflows \ {w} : Over1[v] = wf[v]
    BY <1>0 DEF WfTyped
  <2>3. \/ wf' = Published(Ends("completed", "over"))
        \/ wf' = Ends(FinalStatus(w), "cleaning")
        \/ wf' = Published(Over1)
    BY DEF Conclude, CleanupWorkflow
  <2> HIDE DEF Ends, Over1
  <2>4. CASE wf' = Published(Ends("completed", "over"))
    BY <2>1, <2>4
  <2>5. CASE wf' = Ends(FinalStatus(w), "cleaning")
    BY <2>1, <2>5
  <2>6. CASE wf' = Published(Over1)
    BY <2>2, <2>6
  <2> QED BY <2>3, <2>4, <2>5, <2>6
<1>4. WfInv(x, node)
  <2>1. \A n \in NodesOf(w) : ~Isolated(n) => node[n] \in NodeTerminal
    BY <1>0, <1>1 DEF WfInv, Ending
  <2>2. "none" \notin NodeTerminal
    BY DEF NodeTerminal
  <2>3. x[w].pc \in {"cleaning", "over"} /\ x[w].pc # "idle"
    BY <1>2
  <2> QED BY <1>0, <1>2, <2>1, <2>2, <2>3 DEF WfInv
<1>5. WfInv(wf', node)
  BY <1>2, <1>4, PublishedKeeps
<1> QED BY <1>0, <1>1, <1>5 DEF IInv

-----------------------------------------------------------------------------
(* The theorems.                                                           *)

\* The invariant holds throughout every behaviour of the runtime.
THEOREM Invariance == Spec => []IInv
<1>1. Init => IInv
  <2> SUFFICES ASSUME Init PROVE IInv
    OBVIOUS
  <2>1. /\ \A n \in Nodes : node[n] = "none" /\ runs[n] = <<>> /\ running[n] = 0
        /\ node \in [Nodes -> NodeStatus] /\ runs \in [Nodes -> Seq(Run)]
        /\ DOMAIN running = Nodes /\ queue = <<>>
    BY DEF Init, NodeStatus
  <2>2. Typed(node, runs, running, queue)
    BY <2>1 DEF Typed
  <2>3. Calls(node, runs, running)
    BY <2>1 DEF Calls, CallOK, NodeTerminal
  <2>4. Lock(node) /\ Deps(node, runs)
    BY <2>1 DEF Lock, Deps
  <2>5. WfInv(wf, node)
    <3>1. \A w \in Workflows : wf[w] = Idle /\ NodesOf(w) \subseteq Nodes
      BY DEF Init, Nodes
    <3>2. DOMAIN wf = Workflows
      BY DEF Init
    <3>3. /\ Idle.pc = "idle" /\ Idle.status = "none"
          /\ DOMAIN Idle = {"pc", "status", "cancel", "failure", "race"}
      BY DEF Idle
    <3> QED BY <2>1, <3>1, <3>2, <3>3 DEF WfInv, WfTyped, Ending, WorkflowTerminal
  <2> QED BY <2>2, <2>3, <2>4, <2>5 DEF IInv, Core
<1>2. IInv /\ [Next]_vars => IInv'
  <2> SUFFICES ASSUME IInv, [Next]_vars PROVE IInv'
    OBVIOUS
  <2>1. CASE UNCHANGED vars \/ DisposeWorktrees
    <3>1. UNCHANGED <<node, runs, running, queue, wf>>
      BY <2>1 DEF vars, DisposeWorktrees
    <3> QED BY <3>1 DEF IInv
  <2>2. ASSUME NEW w \in Workflows, Start(w) PROVE IInv'
    BY <2>2, StartKeeps
  <2>3. ASSUME NEW w \in Workflows, Resume(w) PROVE IInv'
    BY <2>3, ResumeKeeps
  <2>4. ASSUME NEW w \in Workflows, Conclude(w) \/ CleanupWorkflow(w) PROVE IInv'
    BY <2>4, ConcludeKeeps
  <2>5. ASSUME NEW w \in Workflows, CancelWorkflow(w) PROVE IInv'
    BY <2>5, RequestCancelKeeps DEF CancelWorkflow
  <2>6. CASE Dispose
    BY <2>6, RequestCancelKeeps DEF Dispose
  <2>7. ASSUME NEW n \in Nodes, NEW k \in DOMAIN runs[n], CreateWorktree(n, k) PROVE IInv'
    BY <2>7, CreateKeeps
  <2>8. ASSUME NEW n \in Nodes, NEW k \in DOMAIN runs[n], AgentEnds(n, k) PROVE IInv'
    <3>1. PICK final \in {"completed", "failed", "timed_out", "cancelled"} :
            Finish(n, k, final, final \in NodeFailure)
      <4>1. CASE k > 1
        BY <2>8, <4>1 DEF AgentEnds
      <4>2. CASE ~(k > 1)
        BY <2>8, <4>2 DEF AgentEnds
      <4> QED BY <4>1, <4>2
    <3>2. final \in NodeTerminal /\ runs[n][k].phase = "agent" /\ queue' = queue
      BY <2>8 DEF AgentEnds, NodeTerminal
    <3> QED BY <3>1, <3>2, FinishKeeps DEF IInv
  <2>9. ASSUME NEW n \in Nodes, NEW k \in DOMAIN runs[n], CleanupNode(n, k) PROVE IInv'
    BY <2>9, CleanupKeeps
  <2> QED BY <2>1, <2>2, <2>3, <2>4, <2>5, <2>6, <2>7, <2>8, <2>9 DEF Next
<1> QED BY <1>1, <1>2, PTL DEF Spec

\* An agent in the shared workspace belongs to a running node.
LEMMA AgentIsRunning ==
    ASSUME IInv, NEW n \in Nodes, ~Isolated(n), AgentRunning(n)
    PROVE  node[n] = "running"
<1>1. CallOK(node[n], runs[n], running[n])
  BY DEF IInv, Core, Calls
<1> QED BY <1>1 DEF CallOK, AgentRunning

\* OneSharedWriter: canStart() looks at node statuses, which change after an
\* await for isolated nodes, in every active workflow; still no two agents
\* share the workspace when one of them writes.
THEOREM OneWriter == Spec => []OneSharedWriter
<1>1. IInv => OneSharedWriter
  <2> SUFFICES ASSUME IInv, NEW m \in Nodes, NEW n \in Nodes, m # n,
                      AgentRunning(m), AgentRunning(n), WritePolicy[m] = "shared", ~Isolated(n)
               PROVE  FALSE
    BY DEF OneSharedWriter, Isolated
  <2>1. ~Isolated(m)
    BY DEF Isolated
  <2>2. node[m] = "running" /\ node[n] = "running"
    BY <2>1, AgentIsRunning
  <2> QED BY <2>2 DEF IInv, Core, Lock
<1> QED BY <1>1, Invariance, PTL

\* QuietWhenOver: when no node is isolated, a node that is over and every node
\* of a workflow that is over has no agent at work, and an agent works only
\* behind dependencies that are over.  With isolated nodes it does not hold:
\* runNode() awaits their worktree before it sets their status.
THEOREM QuietWithoutIsolation ==
    (\A n \in Nodes : ~Isolated(n)) => (Spec => []QuietWhenOver)
<1> SUFFICES ASSUME \A n \in Nodes : ~Isolated(n) PROVE Spec => []QuietWhenOver
  OBVIOUS
<1>1. IInv => QuietWhenOver
  <2> SUFFICES ASSUME IInv PROVE QuietWhenOver
    OBVIOUS
  <2>1. \A n \in Nodes : AgentRunning(n) => node[n] = "running"
    BY AgentIsRunning
  <2>2. "running" \notin NodeTerminal
    BY DEF NodeTerminal
  <2>3. ASSUME NEW w \in Workflows, wf[w].status \in WorkflowTerminal, NEW n \in NodesOf(w)
        PROVE  ~AgentRunning(n)
    <3>1. n \in Nodes
      BY DEF Nodes
    <3>2. node[n] \in NodeTerminal
      BY <2>3, <3>1 DEF IInv, WfInv, Ending
    <3> QED BY <2>1, <2>2, <3>1, <3>2
  <2>4. ASSUME NEW n \in Nodes, AgentRunning(n), NEW d \in DependsOn[n]
        PROVE  node[d] \in NodeTerminal
    <3>1. DOMAIN runs[n] # {}
      BY <2>4 DEF AgentRunning
    <3>2. d \in Nodes
      <4>1. DependsOn[n] \subseteq NodesOf(Owner(n)) /\ Owner(n) \in Workflows
        BY WorkflowAssumption DEF Owner, Nodes
      <4> QED BY <4>1 DEF Nodes
    <3> QED BY <3>1, <3>2 DEF IInv, Core, Deps
  <2> QED BY <2>1, <2>2, <2>3, <2>4 DEF QuietWhenOver
<1> QED BY <1>1, Invariance, PTL

-----------------------------------------------------------------------------
(* The graph: finitely many nodes, and the transitive dependents of one.   *)

\* A workflow has at most as many nodes as its order is long.
LEMMA NodesOfFinite ==
    ASSUME NEW w \in Workflows
    PROVE  /\ IsFiniteSet(NodesOf(w))
           /\ Cardinality(NodesOf(w)) \in Nat
           /\ Cardinality(NodesOf(w)) <= Len(Order[w])
<1> DEFINE N == Len(Order[w])
           S == 1..N
           T == NodesOf(w)
           g == [i \in S |-> Order[w][i]]
<1>1. N \in Nat /\ DOMAIN Order[w] = S
  BY WorkflowAssumption, LenProperties
<1>2. IsFiniteSet(S) /\ Cardinality(S) = N
  BY <1>1, FS_Interval
<1>3. g \in [S -> T] /\ \A t \in T : \E i \in S : g[i] = t
  BY <1>1 DEF NodesOf
<1>4. g \in Surjection(S, T)
  BY <1>3 DEF Surjection
<1> HIDE DEF S, T, g
<1>5. IsFiniteSet(T) /\ Cardinality(T) <= Cardinality(S)
  BY <1>2, <1>4, FS_Surjection
<1> QED BY <1>2, <1>5, FS_CardinalityType DEF T

\* There are finitely many nodes.
LEMMA NodesFinite == IsFiniteSet(Nodes) /\ Cardinality(Nodes) \in Nat
<1> DEFINE T == {NodesOf(w) : w \in Workflows}
           g == [w \in Workflows |-> NodesOf(w)]
<1>1. g \in [Workflows -> T] /\ \A t \in T : \E w \in Workflows : g[w] = t
  OBVIOUS
<1>2. g \in Surjection(Workflows, T)
  BY <1>1 DEF Surjection
<1>3. \A t \in T : IsFiniteSet(t)
  BY NodesOfFinite
<1>4. Nodes = UNION T
  BY DEF Nodes
<1> HIDE DEF T, g
<1>5. IsFiniteSet(T)
  BY <1>2, FS_Surjection, WorkflowAssumption
<1>6. IsFiniteSet(UNION T)
  BY <1>3, <1>5, FS_UNION
<1> QED BY <1>4, <1>6, FS_CardinalityType

\* The dependencies of a node are nodes of its workflow.
LEMMA SameWorkflow ==
    ASSUME NEW w \in Workflows, NEW n \in NodesOf(w)
    PROVE  Owner(n) = w /\ n \in Nodes /\ DependsOn[n] \subseteq NodesOf(w)
<1>1. n \in Nodes
  BY DEF Nodes
<1>2. Owner(n) \in Workflows /\ n \in NodesOf(Owner(n))
  BY DEF Owner
<1>3. Owner(n) = w
  BY <1>2, WorkflowAssumption
<1> QED BY <1>1, <1>3, WorkflowAssumption

\* The workflow of a node.
LEMMA OwnerTyped ==
    ASSUME NEW n \in Nodes
    PROVE  Owner(n) \in Workflows /\ n \in NodesOf(Owner(n)) /\ DependsOn[n] \subseteq Nodes
<1>1. Owner(n) \in Workflows /\ n \in NodesOf(Owner(n))
  BY DEF Owner, Nodes
<1> QED BY <1>1, SameWorkflow DEF Nodes

\* One round of the search for the dependents of a node.
Wider(r) == r \cup {m \in Nodes : DependsOn[m] \cap r # {}}

WithinLoop(f, n, k) == f = [i \in 0..k |-> IF i = 0 THEN {n} ELSE Wider(f[i - 1])]

\* There is a function that follows the search.
LEMMA WithinExists ==
    ASSUME NEW n, NEW k \in Nat
    PROVE  \E f : WithinLoop(f, n, k)
<1> DEFINE T == {i \in Nat : \E f : WithinLoop(f, n, i)}
<1>1. 0 \in T
  <2> DEFINE f == [i \in 0..0 |-> {n}]
  <2>1. WithinLoop(f, n, 0)
    BY DEF WithinLoop
  <2> QED BY <2>1
<1>2. ASSUME NEW j \in 1..k, j - 1 \in T PROVE j \in T
  <2>1. j \in Nat /\ j - 1 \in Nat
    OBVIOUS
  <2>2. PICK f : WithinLoop(f, n, j - 1)
    BY <1>2
  <2> DEFINE g == [i \in 0..j |-> IF i = j THEN Wider(f[j - 1]) ELSE f[i]]
  <2>3. \A i \in 0..(j - 1) : g[i] = f[i]
    BY <2>1
  <2>4. ASSUME NEW i \in 0..j
        PROVE  g[i] = IF i = 0 THEN {n} ELSE Wider(g[i - 1])
    <3>1. CASE i = j
      BY <2>1, <2>3, <3>1
    <3>2. CASE i # j
      <4>1. i \in 0..(j - 1)
        BY <2>1, <3>2
      <4>2. f[i] = IF i = 0 THEN {n} ELSE Wider(f[i - 1])
        BY <2>2, <4>1 DEF WithinLoop
      <4>3. i # 0 => g[i - 1] = f[i - 1]
        BY <2>3, <4>1
      <4> QED BY <2>3, <4>1, <4>2, <4>3
    <3> QED BY <3>1, <3>2
  <2>5. WithinLoop(g, n, j)
    <3> DEFINE h == [i \in 0..j |-> IF i = 0 THEN {n} ELSE Wider(g[i - 1])]
    <3>1. g = [i \in 0..j |-> g[i]]
      OBVIOUS
    <3> HIDE DEF g
    <3>2. g = h
      BY <2>4, <3>1
    <3> QED BY <3>2 DEF WithinLoop
  <2> QED BY <2>1, <2>5
<1>3. k \in T
  <2> HIDE DEF T
  <2>1. \A i \in 0..k : i \in T
    BY <1>1, <1>2, Climb
  <2> QED BY <2>1
<1> QED BY <1>3

\* Dependents(n) is the search after as many rounds as there are nodes.
LEMMA DependentsSteps ==
    ASSUME NEW n \in Nodes
    PROVE  \E f : /\ f[0] = {n}
                  /\ \A i \in 1..Cardinality(Nodes) : f[i] = Wider(f[i - 1])
                  /\ Dependents(n) = f[Cardinality(Nodes)] \ {n}
<1> DEFINE N == Cardinality(Nodes)
           Body(f) == [i \in 0..N |-> IF i = 0 THEN {n}
                         ELSE UNION {r \cup {m \in Nodes : DependsOn[m] \cap r # {}} : r \in {f[i - 1]}}]
           f == CHOOSE f : f = Body(f)
<1>0. N \in Nat
  BY NodesFinite
<1>1. \A e : UNION {r \cup {m \in Nodes : DependsOn[m] \cap r # {}} : r \in {e}} = Wider(e)
  BY DEF Wider
<1>2. \A g : Body(g) = [i \in 0..N |-> IF i = 0 THEN {n} ELSE Wider(g[i - 1])]
  BY <1>1
<1>3. Dependents(n) = f[N] \ {n}
  BY DEF Dependents
<1>4. \E g : g = Body(g)
  <2>1. PICK g : WithinLoop(g, n, N)
    BY <1>0, WithinExists
  <2>2. Body(g) = [i \in 0..N |-> IF i = 0 THEN {n} ELSE Wider(g[i - 1])]
    BY <1>2
  <2> HIDE DEF Body
  <2>3. g = Body(g)
    BY <2>1, <2>2 DEF WithinLoop
  <2> QED BY <2>3
<1>5. f = Body(f)
  <2> HIDE DEF Body
  <2> QED BY <1>4
<1> HIDE DEF f, N
<1>6. f = [i \in 0..N |-> IF i = 0 THEN {n} ELSE Wider(f[i - 1])]
  BY <1>2, <1>5
<1>7. f[0] = {n}
  BY <1>0, <1>6
<1>8. ASSUME NEW i \in 1..N PROVE f[i] = Wider(f[i - 1])
  <2>1. i \in 0..N /\ i # 0
    BY <1>0
  <2> QED BY <1>6, <2>1
<1> QED BY <1>3, <1>7, <1>8 DEF N

\* Dependents(n) is closed: who depends on n or on one of them is one of them,
\* and each of them depends on n or on one of them.
LEMMA DependentsClosed ==
    ASSUME NEW n \in Nodes
    PROVE  /\ Dependents(n) \subseteq Nodes \ {n}
           /\ \A x \in Dependents(n) \cup {n}, m \in Nodes :
                x \in DependsOn[m] => m \in Dependents(n) \cup {n}
           /\ \A m \in Dependents(n) : \E z \in DependsOn[m] : z = n \/ z \in Dependents(n)
<1> DEFINE N == Cardinality(Nodes)
           D == Dependents(n)
<1>0. N \in Nat /\ IsFiniteSet(Nodes)
  BY NodesFinite
<1>1. PICK f : /\ f[0] = {n}
               /\ \A i \in 1..N : f[i] = Wider(f[i - 1])
               /\ D = f[N] \ {n}
  BY DependentsSteps
<1>2. \A r \in SUBSET Nodes : Wider(r) \in SUBSET Nodes /\ r \subseteq Wider(r)
  BY DEF Wider
<1> HIDE DEF D, N
<1>3. \A i \in 0..N : f[i] \in SUBSET Nodes /\ n \in f[i]
  <2> DEFINE T == {i \in 0..N : f[i] \in SUBSET Nodes /\ n \in f[i]}
  <2>1. 0 \in T
    BY <1>0, <1>1
  <2>2. ASSUME NEW i \in 1..N, i - 1 \in T PROVE i \in T
    <3>1. i \in 0..N /\ f[i] = Wider(f[i - 1])
      BY <1>0, <1>1
    <3> QED BY <1>2, <2>2, <3>1
  <2> HIDE DEF T
  <2>3. \A i \in 0..N : i \in T
    BY <1>0, <2>1, <2>2, Climb
  <2> QED BY <2>3 DEF T
<1>4. \A i \in 1..N : f[i - 1] \subseteq f[i] /\ f[i - 1] \in SUBSET Nodes
  <2> SUFFICES ASSUME NEW i \in 1..N PROVE f[i - 1] \subseteq f[i] /\ f[i - 1] \in SUBSET Nodes
    OBVIOUS
  <2>1. i - 1 \in 0..N
    BY <1>0
  <2> QED BY <1>1, <1>2, <1>3, <2>1
\* A round that adds nothing is the last one; else the set has grown.
<1>5. \A i \in 0..N : Wider(f[i]) = f[i] \/ Cardinality(f[i]) >= i + 1
  <2> DEFINE T == {i \in 0..N : Wider(f[i]) = f[i] \/ Cardinality(f[i]) >= i + 1}
  <2>1. 0 \in T
    <3>1. Cardinality({n}) = 1
      BY FS_Singleton
    <3> QED BY <1>0, <1>1, <3>1
  <2>2. ASSUME NEW i \in 1..N, i - 1 \in T PROVE i \in T
    <3>0. i \in 0..N /\ f[i] = Wider(f[i - 1]) /\ i - 1 \in Nat
      BY <1>0, <1>1
    <3>1. CASE f[i] = f[i - 1]
      BY <3>0, <3>1
    <3>2. CASE f[i] # f[i - 1]
      <4>1. Wider(f[i - 1]) # f[i - 1]
        BY <3>0, <3>2
      <4>2. Cardinality(f[i - 1]) >= i
        BY <2>2, <4>1, <3>0
      <4>3. f[i] \in SUBSET Nodes /\ f[i - 1] \in SUBSET f[i]
        BY <1>3, <1>4, <3>0
      <4>4. IsFiniteSet(f[i])
        BY <1>0, <4>3, FS_Subset
      <4>5. /\ IsFiniteSet(f[i - 1]) /\ Cardinality(f[i - 1]) <= Cardinality(f[i])
            /\ Cardinality(f[i]) # Cardinality(f[i - 1])
        BY <3>2, <4>3, <4>4, FS_Subset
      <4>6. Cardinality(f[i]) \in Nat /\ Cardinality(f[i - 1]) \in Nat
        BY <4>4, <4>5, FS_CardinalityType
      <4>7. Cardinality(f[i]) >= i + 1
        BY <3>0, <4>2, <4>5, <4>6
      <4> QED BY <3>0, <4>7
    <3> QED BY <3>1, <3>2
  <2> HIDE DEF T
  <2>3. \A i \in 0..N : i \in T
    BY <1>0, <2>1, <2>2, Climb
  <2> QED BY <2>3 DEF T
<1>6. Wider(f[N]) = f[N]
  <2>1. N \in 0..N /\ f[N] \in SUBSET Nodes
    BY <1>0, <1>3
  <2>2. Cardinality(f[N]) <= N /\ IsFiniteSet(f[N])
    BY <1>0, <2>1, FS_Subset DEF N
  <2>3. Cardinality(f[N]) \in Nat
    BY <2>2, FS_CardinalityType
  <2> QED BY <1>0, <1>5, <2>1, <2>2, <2>3
<1>7. n \in f[N] /\ f[N] \subseteq Nodes
  BY <1>0, <1>3
<1>8. \A i \in 0..N : \A m \in f[i] : m = n \/ DependsOn[m] \cap f[N] # {}
  <2> DEFINE P(i) == f[i] \subseteq f[N] /\ \A m \in f[i] : m = n \/ DependsOn[m] \cap f[N] # {}
             T == {i \in 0..N : f[i] \subseteq f[N] => P(i)}
  <2>1. 0 \in T
    BY <1>0, <1>1
  <2>2. ASSUME NEW i \in 1..N, i - 1 \in T PROVE i \in T
    <3> SUFFICES ASSUME f[i] \subseteq f[N], NEW m \in f[i], m # n
                 PROVE  DependsOn[m] \cap f[N] # {}
      <4>1. i \in 0..N
        BY <1>0
      <4> QED BY <4>1
    <3>1. f[i - 1] \subseteq f[N]
      BY <1>4
    <3>2. CASE m \in f[i - 1]
      BY <2>2, <3>1, <3>2
    <3>3. CASE m \notin f[i - 1]
      BY <1>1, <3>1, <3>3 DEF Wider
    <3> QED BY <3>2, <3>3
  <2>3. \A i \in 0..N : f[i] \subseteq f[N]
    <3> DEFINE U == {j \in 0..N : f[N - j] \subseteq f[N]}
    <3>1. 0 \in U
      BY <1>0
    <3>2. ASSUME NEW j \in 1..N, j - 1 \in U PROVE j \in U
      <4>1. N - (j - 1) \in 1..N /\ (N - (j - 1)) - 1 = N - j /\ j \in 0..N
        BY <1>0
      <4>2. f[N - j] \subseteq f[N - (j - 1)]
        BY <1>4, <4>1
      <4> QED BY <3>2, <4>1, <4>2
    <3> HIDE DEF U
    <3>3. \A j \in 0..N : j \in U
      BY <1>0, <3>1, <3>2, Climb
    <3>4. ASSUME NEW i \in 0..N PROVE f[i] \subseteq f[N]
      <4>1. N - i \in 0..N /\ N - (N - i) = i
        BY <1>0
      <4>2. N - i \in U
        BY <3>3, <4>1
      <4> QED BY <4>1, <4>2 DEF U
    <3> QED BY <3>4
  <2> HIDE DEF T
  <2>4. \A i \in 0..N : i \in T
    BY <1>0, <2>1, <2>2, Climb
  <2> QED BY <2>3, <2>4 DEF T
<1>9. ASSUME NEW x \in D \cup {n}, NEW m \in Nodes, x \in DependsOn[m]
      PROVE  m \in D \cup {n}
  <2>1. x \in f[N]
    BY <1>1, <1>7
  <2>2. m \in Wider(f[N])
    BY <1>9, <2>1 DEF Wider
  <2> QED BY <1>1, <1>6, <2>2
<1>10. ASSUME NEW m \in D PROVE \E z \in DependsOn[m] : z = n \/ z \in D
  <2>1. m \in f[N] /\ m # n /\ N \in 0..N
    BY <1>0, <1>1
  <2>2. DependsOn[m] \cap f[N] # {}
    BY <1>8, <2>1
  <2> QED BY <1>1, <2>2
<1> QED BY <1>1, <1>7, <1>9, <1>10 DEF D

-----------------------------------------------------------------------------
(* Up to the first second launch of a node.                                *)
(*                                                                         *)
(* runNode() of an isolated node awaits its worktree before it sets the    *)
(* node's status, and the loop may launch the node again meanwhile.  As    *)
(* long as that has not happened a node has one call, and the promises of  *)
(* the runtime hold with isolated nodes too.                               *)

Once(rs) == \A n \in Nodes : DOMAIN rs[n] \subseteq {1}

LaunchedOnce == \A n \in Nodes : Len(runs[n]) <= 1

\* The one call of a node, its place in the Maps of execute() and the node's
\* status agree; a node that ends before it has its worktree is aborted.
OneCall(status, calls, held, c) ==
    /\ DOMAIN calls = {} => held = 0 /\ status # "running"
    /\ 1 \in DOMAIN calls =>
         /\ calls[1].phase = "creating" =>
              /\ held = 1 /\ c = 1
              /\ status = "pending" \/ (status \in NodeTerminal /\ calls[1].aborted)
         /\ calls[1].phase = "agent" => held = 1 /\ status = "running"
         /\ calls[1].phase = "cleanup" => held = 1 /\ status \in NodeTerminal
         /\ calls[1].phase = "settled" => held = 0 /\ status \in NodeTerminal

OneCalls(nd, rs, c, held) == \A n \in Nodes : OneCall(nd[n], rs[n], held[n], c[n])

\* A node was launched behind its dependencies and on its condition.
Behind(nd, rs) ==
    \A n \in Nodes : DOMAIN rs[n] # {} =>
        /\ \A d \in DependsOn[n] : nd[d] \in NodeTerminal
        /\ ConditionHolds(n, nd)

\* Whatever ended a node that waits for a node that is not over ended
\* the nodes that wait for it too.
Term(nd) == {n \in Nodes : nd[n] \in NodeTerminal}

Upward(T) ==
    \A n \in Nodes \ T : \A x \in Dependents(n) \cap T : \A m \in Nodes : x \in DependsOn[m] => m \in T

\* The worktree requests are those of the calls that wait for one.
Requests(q, rs) ==
    /\ \A i \in 1..Len(q) : /\ q[i][2] = 1 /\ 1 \in DOMAIN rs[q[i][1]]
                            /\ rs[q[i][1]][1].phase = "creating"
    /\ \A i, j \in 1..Len(q) : i # j => q[i] # q[j]

NoLost(nd) == \A n \in Nodes : nd[n] # "lost"

OnceInv(nd, rs, c, held, q) ==
    /\ DOMAIN c = Nodes
    /\ OneCalls(nd, rs, c, held) /\ Behind(nd, rs) /\ Upward(Term(nd))
    /\ Requests(q, rs) /\ NoLost(nd)

\* One more node is over, its dependencies being over.
LEMMA UpwardOne ==
    ASSUME NEW T, Upward(T), NEW x \in Nodes, DependsOn[x] \subseteq T
    PROVE  Upward(T \cup {x})
<1> SUFFICES ASSUME NEW n \in Nodes, n \notin T, n # x,
                    NEW y \in Dependents(n), y \in T \/ y = x,
                    NEW m \in Nodes, y \in DependsOn[m]
             PROVE  m \in T
  BY DEF Upward
<1>1. CASE y \in T
  BY <1>1 DEF Upward
<1>2. CASE y = x
  <2>1. PICK z \in DependsOn[x] : z = n \/ z \in Dependents(n)
    BY <1>2, DependentsClosed
  <2>2. z \in T /\ z \in Dependents(n)
    BY <2>1
  <2>3. x \in T
    BY <2>1, <2>2 DEF Upward
  <2> QED BY <1>2, <2>3 DEF Upward
<1> QED BY <1>1, <1>2

\* More nodes are over, and with each of them those that depend on it.
LEMMA UpwardMore ==
    ASSUME NEW T, Upward(T), NEW U, T \subseteq U,
           \A x \in U \ T, m \in Nodes : x \in DependsOn[m] => m \in U
    PROVE  Upward(U)
BY DEF Upward

\* What is launched does not wait for a node that is not over.
LEMMA NotDownstream ==
    ASSUME NEW T, Upward(T), NEW n \in Nodes \ T, NEW m \in Nodes \ T, DependsOn[m] \subseteq T
    PROVE  m \notin Dependents(n)
<1> SUFFICES ASSUME m \in Dependents(n) PROVE FALSE
  OBVIOUS
<1>1. PICK z \in DependsOn[m] : z = n \/ z \in Dependents(n)
  BY DependentsClosed
<1> QED BY <1>1 DEF Upward

\* The condition of a node looks at its dependencies only.
LEMMA ConditionKeeps ==
    ASSUME NEW n \in Nodes, NEW nd, NEW st, ConditionHolds(n, nd),
           \A d \in DependsOn[n] : st[d] = nd[d]
    PROVE  ConditionHolds(n, st)
<1>1. Condition[n] \in {"always", "all_succeeded", "any_failed"}
  BY WorkflowAssumption
<1>2. CASE Condition[n] = "always"
  BY <1>2 DEF ConditionHolds
<1>3. CASE Condition[n] = "all_succeeded"
  BY <1>3 DEF ConditionHolds
<1>4. CASE Condition[n] = "any_failed"
  BY <1>4 DEF ConditionHolds
<1> QED BY <1>1, <1>2, <1>3, <1>4

\* A step that leaves the nodes that are over alone and launches nothing.
LEMMA BehindKeeps ==
    ASSUME NEW nd, NEW rs, NEW st, NEW rs2, Behind(nd, rs),
           \A n \in Nodes : nd[n] \in NodeTerminal => st[n] = nd[n],
           \A n \in Nodes : DOMAIN rs2[n] = DOMAIN rs[n]
    PROVE  Behind(st, rs2)
<1> SUFFICES ASSUME NEW n \in Nodes, DOMAIN rs2[n] # {}
             PROVE  /\ \A d \in DependsOn[n] : st[d] \in NodeTerminal
                    /\ ConditionHolds(n, st)
  BY DEF Behind
<1>1. \A d \in DependsOn[n] : nd[d] \in NodeTerminal /\ st[d] = nd[d]
  BY OwnerTyped DEF Behind
<1>2. ConditionHolds(n, nd)
  BY DEF Behind
<1> QED BY <1>1, <1>2, ConditionKeeps

\* The calls are the same, some of them aborted.
SameCalls(rs, rs2) ==
    \A n \in Nodes : /\ DOMAIN rs2[n] = DOMAIN rs[n]
                     /\ \A k \in DOMAIN rs[n] : /\ rs2[n][k].phase = rs[n][k].phase
                                                /\ rs[n][k].aborted => rs2[n][k].aborted

\* Pending nodes end, and with them the calls that wait for a worktree.
LEMMA EndedOnce ==
    ASSUME NEW nd, NEW rs, NEW c, NEW held, NEW q, OnceInv(nd, rs, c, held, q),
           NEW st, NEW rs2, SameCalls(rs, rs2), q \in Seq(Nodes \X Nat),
           \A n \in Nodes : \/ st[n] = nd[n]
                            \/ /\ nd[n] = "pending" /\ st[n] \in NodeTerminal \ {"lost"}
                               /\ \A k \in DOMAIN rs[n] : rs2[n][k].aborted,
           Upward(Term(st))
    PROVE  OnceInv(st, rs2, c, held, q)
<1>1. OneCalls(st, rs2, c, held)
  <2> SUFFICES ASSUME NEW n \in Nodes PROVE OneCall(st[n], rs2[n], held[n], c[n])
    BY DEF OneCalls
  <2>1. OneCall(nd[n], rs[n], held[n], c[n])
    BY DEF OnceInv, OneCalls
  <2>2. CASE st[n] = nd[n]
    BY <2>1, <2>2 DEF OneCall, SameCalls
  <2>3. CASE /\ nd[n] = "pending" /\ st[n] \in NodeTerminal
             /\ \A k \in DOMAIN rs[n] : rs2[n][k].aborted
    BY <2>1, <2>3 DEF OneCall, SameCalls, NodeTerminal
  <2> QED BY <2>2, <2>3
<1>2. Behind(st, rs2)
  <2>1. Behind(nd, rs) /\ \A n \in Nodes : DOMAIN rs2[n] = DOMAIN rs[n]
    BY DEF OnceInv, SameCalls
  <2>2. "pending" \notin NodeTerminal
    BY DEF NodeTerminal
  <2> QED BY <2>1, <2>2, BehindKeeps
<1>3. Requests(q, rs2)
  <2>1. \A i \in 1..Len(q) : q[i][1] \in Nodes
    OBVIOUS
  <2> QED BY <2>1 DEF OnceInv, Requests, SameCalls
<1>4. NoLost(st)
  BY DEF OnceInv, NoLost
<1> QED BY <1>1, <1>2, <1>3, <1>4 DEF OnceInv

\* A first launch.
LEMMA LaunchOnce ==
    ASSUME NEW nd, NEW s, LoopInv(nd, s), OnceInv(s.node, s.runs, s.ctl, s.running, s.queue),
           NEW n \in Nodes, Ready(s, n), ConditionHolds(n, s.node), DOMAIN s.runs[n] = {}
    PROVE  LET t == Launch(s, n) IN OnceInv(t.node, t.runs, t.ctl, t.running, t.queue)
<1> DEFINE k == Len(s.runs[n]) + 1
           run == [phase |-> IF Isolated(n) THEN "creating" ELSE "agent",
                   aborted |-> FALSE, leased |-> FALSE]
           st == [s.node EXCEPT ![n] = IF Isolated(n) THEN @ ELSE "running"]
           rs == [s.runs EXCEPT ![n] = Append(@, run)]
           c == [s.ctl EXCEPT ![n] = k]
           held == [s.running EXCEPT ![n] = k]
           q == IF Isolated(n) THEN Append(s.queue, <<n, k>>) ELSE s.queue
           t == Launch(s, n)
<1>1. t.node = st /\ t.runs = rs /\ t.ctl = c /\ t.running = held /\ t.queue = q
  BY DEF Launch, LoopInv, Isolated
<1>2. /\ s.node \in [Nodes -> NodeStatus] /\ s.runs \in [Nodes -> Seq(Run)]
      /\ DOMAIN s.running = Nodes /\ DOMAIN s.ctl = Nodes /\ s.queue \in Seq(Nodes \X Nat)
      /\ s.node[n] = "pending" /\ \A d \in DependsOn[n] : s.node[d] \in NodeTerminal
  BY DEF LoopInv, Core, Typed, Ready, OnceInv
<1>3. run.phase = (IF Isolated(n) THEN "creating" ELSE "agent") /\ run \in Run
  BY DEF Run
<1>4. Len(s.runs[n]) = 0 /\ k = 1
  <2>0. s.runs[n] \in Seq(Run)
    BY <1>2
  <2>1. DOMAIN s.runs[n] = 1..Len(s.runs[n]) /\ Len(s.runs[n]) \in Nat
    BY <2>0, LenProperties
  <2>2. 1 \notin 1..Len(s.runs[n])
    BY <2>1
  <2> QED BY <2>1, <2>2
<1> HIDE DEF run, t, k
<1>5. /\ rs[n] = Append(s.runs[n], run)
      /\ \A m \in Nodes \ {n} : rs[m] = s.runs[m] /\ st[m] = s.node[m]
                                /\ c[m] = s.ctl[m] /\ held[m] = s.running[m]
      /\ st[n] = (IF Isolated(n) THEN "pending" ELSE "running") /\ c[n] = 1 /\ held[n] = 1
      /\ DOMAIN c = Nodes
  BY <1>2, <1>4
<1>6. DOMAIN rs[n] = {1} /\ rs[n][1] = run
  BY <1>2, <1>3, <1>4, <1>5
<1> HIDE DEF st, rs, c, held
<1>7. OneCalls(st, rs, c, held)
  <2> SUFFICES ASSUME NEW m \in Nodes PROVE OneCall(st[m], rs[m], held[m], c[m])
    BY DEF OneCalls
  <2>1. CASE m = n
    BY <1>3, <1>5, <1>6, <2>1 DEF OneCall
  <2>2. CASE m # n
    BY <1>5, <2>2 DEF OnceInv, OneCalls
  <2> QED BY <2>1, <2>2
<1>8. \A m \in Nodes : s.node[m] \in NodeTerminal => st[m] = s.node[m]
  BY <1>2, <1>5 DEF NodeTerminal
<1>9. Behind(st, rs)
  <2> SUFFICES ASSUME NEW m \in Nodes, DOMAIN rs[m] # {}
               PROVE  /\ \A d \in DependsOn[m] : st[d] \in NodeTerminal
                      /\ ConditionHolds(m, st)
    BY DEF Behind
  <2>1. /\ \A d \in DependsOn[m] : s.node[d] \in NodeTerminal
        /\ ConditionHolds(m, s.node)
    <3>1. CASE m = n
      BY <1>2, <3>1
    <3>2. CASE m # n
      BY <1>5, <3>2 DEF OnceInv, Behind
    <3> QED BY <3>1, <3>2
  <2>2. \A d \in DependsOn[m] : st[d] = s.node[d]
    BY <1>8, <2>1, OwnerTyped
  <2> QED BY <2>1, <2>2, ConditionKeeps
<1>10. Upward(Term(st))
  <2>1. "pending" \notin NodeTerminal /\ "running" \notin NodeTerminal
    BY DEF NodeTerminal
  <2>2. \A m \in Nodes : st[m] \in NodeTerminal <=> s.node[m] \in NodeTerminal
    BY <1>2, <1>5, <2>1
  <2>3. Term(st) = Term(s.node)
    BY <2>2 DEF Term
  <2> QED BY <2>3 DEF OnceInv
<1>11. Requests(q, rs)
  <2>1. /\ Requests(s.queue, s.runs)
        /\ \A i \in 1..Len(s.queue) : s.queue[i] \in Nodes \X Nat
    BY <1>2 DEF OnceInv
  <2>2. \A i \in 1..Len(s.queue) :
          /\ s.queue[i][1] # n /\ s.queue[i][1] \in Nodes
          /\ s.queue[i][2] = 1 /\ 1 \in DOMAIN rs[s.queue[i][1]]
          /\ rs[s.queue[i][1]][1].phase = "creating"
    BY <1>5, <2>1 DEF Requests
  <2>3. CASE ~Isolated(n)
    BY <2>1, <2>2, <2>3 DEF Requests
  <2>4. CASE Isolated(n)
    <3> DEFINE e == <<n, k>>
    <3>1. e \in Nodes \X Nat /\ e[1] = n /\ e[2] = 1
      BY <1>4
    <3>2. q = Append(s.queue, e)
      BY <2>4
    <3> HIDE DEF e
    <3>3. /\ Len(q) = Len(s.queue) + 1 /\ Len(s.queue) \in Nat
          /\ \A i \in 1..Len(s.queue) : q[i] = s.queue[i]
          /\ q[Len(s.queue) + 1] = e
      BY <1>2, <3>1, <3>2
    <3> HIDE DEF q
    <3>4. \A i \in 1..Len(q) : i \in 1..Len(s.queue) \/ i = Len(s.queue) + 1
      BY <3>3
    <3>5. ASSUME NEW i \in 1..Len(q)
          PROVE  /\ q[i][2] = 1 /\ 1 \in DOMAIN rs[q[i][1]] /\ rs[q[i][1]][1].phase = "creating"
      <4>1. CASE i \in 1..Len(s.queue)
        BY <2>2, <3>3, <4>1
      <4>2. CASE i = Len(s.queue) + 1
        BY <1>3, <1>6, <2>4, <3>1, <3>3, <4>2
      <4> QED BY <3>4, <4>1, <4>2
    <3>6. ASSUME NEW i \in 1..Len(q), NEW j \in 1..Len(q), i # j PROVE q[i] # q[j]
      <4>1. CASE i \in 1..Len(s.queue) /\ j \in 1..Len(s.queue)
        BY <2>1, <3>3, <3>6, <4>1 DEF Requests
      <4>2. CASE i = Len(s.queue) + 1 /\ j \in 1..Len(s.queue)
        BY <2>2, <3>1, <3>3, <4>2
      <4>3. CASE j = Len(s.queue) + 1 /\ i \in 1..Len(s.queue)
        BY <2>2, <3>1, <3>3, <4>3
      <4> QED BY <3>4, <3>6, <4>1, <4>2, <4>3
    <3> QED BY <3>5, <3>6 DEF Requests
  <2> QED BY <2>3, <2>4
<1>12. NoLost(st)
  <2>1. NoLost(s.node)
    BY DEF OnceInv
  <2> QED BY <1>5, <2>1 DEF NoLost
<1> HIDE DEF q
<1> QED BY <1>1, <1>5, <1>7, <1>9, <1>10, <1>11, <1>12 DEF OnceInv, t

\* A node whose condition fails was not launched, and is over.
LEMMA SkipOnce ==
    ASSUME NEW nd, NEW s, LoopInv(nd, s), OnceInv(s.node, s.runs, s.ctl, s.running, s.queue),
           NEW n \in Nodes, Ready(s, n), ~ConditionHolds(n, s.node)
    PROVE  OnceInv([s.node EXCEPT ![n] = "skipped"], s.runs, s.ctl, s.running, s.queue)
<1> DEFINE st == [s.node EXCEPT ![n] = "skipped"]
<1>1. /\ s.node \in [Nodes -> NodeStatus] /\ s.queue \in Seq(Nodes \X Nat)
      /\ s.node[n] = "pending" /\ \A d \in DependsOn[n] : s.node[d] \in NodeTerminal
  BY DEF LoopInv, Core, Typed, Ready
<1>2. DOMAIN s.runs[n] = {}
  BY DEF OnceInv, Behind
<1>3. /\ st[n] = "skipped" /\ \A m \in Nodes \ {n} : st[m] = s.node[m]
      /\ "skipped" \in NodeTerminal \ {"lost"}
  BY <1>1 DEF NodeTerminal
<1> HIDE DEF st
<1>4. Upward(Term(st))
  <2>1. Term(st) = Term(s.node) \cup {n}
    <3>1. \A m \in Nodes : st[m] \in NodeTerminal <=> (s.node[m] \in NodeTerminal \/ m = n)
      BY <1>3
    <3> QED BY <3>1 DEF Term
  <2>2. DependsOn[n] \subseteq Term(s.node)
    BY <1>1, OwnerTyped DEF Term
  <2> QED BY <2>1, <2>2, UpwardOne DEF OnceInv
<1>5. SameCalls(s.runs, s.runs)
  BY DEF SameCalls
<1>6. \A m \in Nodes : \/ st[m] = s.node[m]
                       \/ /\ s.node[m] = "pending" /\ st[m] \in NodeTerminal \ {"lost"}
                          /\ \A k \in DOMAIN s.runs[m] : s.runs[m][k].aborted
  BY <1>1, <1>2, <1>3
<1>7. OnceInv(st, s.runs, s.ctl, s.running, s.queue)
  BY <1>1, <1>4, <1>5, <1>6, EndedOnce
<1> QED BY <1>7 DEF st

\* What the body of the for loop may do.
LEMMA ConsiderCases ==
    ASSUME NEW nd, NEW s, LoopInv(nd, s), NEW w, NEW n \in Nodes
    PROVE  LET t == Consider(w, s, n)
           IN  \/ t = s
               \/ /\ Ready(s, n) /\ ~ConditionHolds(n, s.node)
                  /\ t.node = [s.node EXCEPT ![n] = "skipped"] /\ t.started = TRUE
                  /\ t.runs = s.runs /\ t.ctl = s.ctl /\ t.running = s.running /\ t.queue = s.queue
               \/ /\ Ready(s, n) /\ ConditionHolds(n, s.node) /\ CanStart(n, s.node)
                  /\ ~(Cardinality(Held(w, s.running)) >= MaxConcurrency)
                  /\ t = Launch(s, n)
<1>1. CASE Ready(s, n) /\ ~ConditionHolds(n, s.node)
  <2> DEFINE t == [s EXCEPT !.node[n] = "skipped", !.started = TRUE]
  <2>1. Consider(w, s, n) = t
    BY <1>1 DEF Consider
  <2>2. /\ t.node = [s.node EXCEPT ![n] = "skipped"] /\ t.started = TRUE
        /\ t.runs = s.runs /\ t.ctl = s.ctl /\ t.running = s.running /\ t.queue = s.queue
    BY DEF LoopInv
  <2> HIDE DEF t
  <2> QED BY <1>1, <2>1, <2>2
<1>2. CASE ~Ready(s, n)
  BY <1>2 DEF Consider
<1>3. CASE Ready(s, n) /\ ConditionHolds(n, s.node)
  BY <1>3 DEF Consider
<1> QED BY <1>1, <1>2, <1>3

\* A launched node is held, and none becomes pending.
LEMMA LaunchParts ==
    ASSUME NEW nd, NEW s, LoopInv(nd, s), NEW n \in Nodes, NEW t, t = Launch(s, n)
    PROVE  /\ t.running[n] # 0
           /\ \A m \in Nodes : t.node[m] = "pending" => s.node[m] = "pending"
<1>1. /\ t.running = [s.running EXCEPT ![n] = Len(s.runs[n]) + 1]
      /\ t.node = [s.node EXCEPT ![n] = IF Isolated(n) THEN @ ELSE "running"]
  BY DEF Launch, LoopInv, Isolated
<1>2. /\ DOMAIN s.running = Nodes /\ s.runs \in [Nodes -> Seq(Run)]
      /\ s.node \in [Nodes -> NodeStatus]
  BY DEF LoopInv, Core, Typed
<1>3. Len(s.runs[n]) \in Nat
  BY <1>2
<1>4. t.running[n] # 0
  BY <1>1, <1>2, <1>3
<1>5. \A m \in Nodes : t.node[m] = "pending" => s.node[m] = "pending"
  BY <1>1, <1>2
<1> QED BY <1>1, <1>4, <1>5

\* A launch is one more call of its node.
LEMMA LaunchRuns ==
    ASSUME NEW nd, NEW s, LoopInv(nd, s), NEW n \in Nodes, NEW t, t = Launch(s, n)
    PROVE  /\ \A m \in Nodes \ {n} : t.runs[m] = s.runs[m]
           /\ DOMAIN t.runs[n] = 1..(Len(s.runs[n]) + 1)
           /\ Len(s.runs[n]) \in Nat /\ DOMAIN s.runs[n] = 1..Len(s.runs[n])
<1> DEFINE run == [phase |-> IF Isolated(n) THEN "creating" ELSE "agent",
                   aborted |-> FALSE, leased |-> FALSE]
<1>1. t.runs = [s.runs EXCEPT ![n] = Append(@, run)]
  BY DEF Launch, LoopInv, Isolated
<1>2. s.runs \in [Nodes -> Seq(Run)]
  BY DEF LoopInv, Core, Typed
<1>3. run \in Run
  BY DEF Run
<1> HIDE DEF run
<1>4. s.runs[n] \in Seq(Run)
  BY <1>2
<1>5. /\ t.runs[n] = Append(s.runs[n], run)
      /\ \A m \in Nodes \ {n} : t.runs[m] = s.runs[m]
  BY <1>1, <1>2
<1>6. Len(s.runs[n]) \in Nat /\ DOMAIN s.runs[n] = 1..Len(s.runs[n])
  BY <1>4, LenProperties
<1>7. DOMAIN t.runs[n] = 1..(Len(s.runs[n]) + 1)
  BY <1>3, <1>4, <1>5
<1> QED BY <1>5, <1>6, <1>7

\* The state of the loop while no node has been launched twice.
LoopOnce(w, rs, s) ==
    /\ Once(s.runs) => Once(rs) /\ OnceInv(s.node, s.runs, s.ctl, s.running, s.queue)
    /\ \A n \in Nodes \ NodesOf(w) : s.runs[n] = rs[n]

\* The body of the for loop.
LEMMA ConsiderOnce ==
    ASSUME NEW nd, NEW s, LoopInv(nd, s), NEW rs, NEW w \in Workflows, LoopOnce(w, rs, s),
           NEW n \in NodesOf(w)
    PROVE  LoopOnce(w, rs, Consider(w, s, n))
<1> DEFINE t == Consider(w, s, n)
<1>0. n \in Nodes
  BY SameWorkflow
<1>1. CASE t = s
  BY <1>1
<1>2. CASE /\ Ready(s, n) /\ ~ConditionHolds(n, s.node)
           /\ t.node = [s.node EXCEPT ![n] = "skipped"]
           /\ t.runs = s.runs /\ t.ctl = s.ctl /\ t.running = s.running /\ t.queue = s.queue
  <2> HIDE DEF t
  <2> SUFFICES ASSUME Once(t.runs)
               PROVE  Once(rs) /\ OnceInv(t.node, t.runs, t.ctl, t.running, t.queue)
    BY <1>2 DEF LoopOnce, t
  <2>1. Once(rs) /\ OnceInv(s.node, s.runs, s.ctl, s.running, s.queue)
    BY <1>2 DEF LoopOnce
  <2> QED BY <1>0, <1>2, <2>1, SkipOnce
<1>3. CASE Ready(s, n) /\ ConditionHolds(n, s.node) /\ t = Launch(s, n)
  <2> HIDE DEF t
  <2>1. /\ \A m \in Nodes \ {n} : t.runs[m] = s.runs[m]
        /\ DOMAIN t.runs[n] = 1..(Len(s.runs[n]) + 1)
        /\ Len(s.runs[n]) \in Nat /\ DOMAIN s.runs[n] = 1..Len(s.runs[n])
    BY <1>0, <1>3, LaunchRuns
  <2> SUFFICES ASSUME Once(t.runs)
               PROVE  Once(rs) /\ OnceInv(t.node, t.runs, t.ctl, t.running, t.queue)
    BY <2>1 DEF LoopOnce, t
  <2>2. DOMAIN s.runs[n] = {}
    <3>1. 1..(Len(s.runs[n]) + 1) \subseteq {1}
      BY <1>0, <2>1 DEF Once
    <3>2. Len(s.runs[n]) + 1 \in 1..(Len(s.runs[n]) + 1)
      BY <2>1
    <3> QED BY <2>1, <3>1, <3>2
  <2>3. Once(s.runs)
    BY <2>1, <2>2 DEF Once
  <2>4. Once(rs) /\ OnceInv(s.node, s.runs, s.ctl, s.running, s.queue)
    BY <2>3 DEF LoopOnce
  <2> QED BY <1>0, <1>3, <2>2, <2>4, LaunchOnce
<1> HIDE DEF t
<1>4. \/ t = s
      \/ /\ Ready(s, n) /\ ~ConditionHolds(n, s.node)
         /\ t.node = [s.node EXCEPT ![n] = "skipped"]
         /\ t.runs = s.runs /\ t.ctl = s.ctl /\ t.running = s.running /\ t.queue = s.queue
      \/ Ready(s, n) /\ ConditionHolds(n, s.node) /\ t = Launch(s, n)
  BY <1>0, ConsiderCases DEF t
<1> QED BY <1>1, <1>2, <1>3, <1>4 DEF t

\* The loop holds a node of the workflow, or has taken one out of pending,
\* whenever it says that it started something.
LEMMA ConsiderMoves ==
    ASSUME NEW nd, NEW s, LoopInv(nd, s), NEW w \in Workflows, NEW n \in NodesOf(w)
    PROVE  LET t == Consider(w, s, n)
           IN  /\ t = s \/ t.started = TRUE
               /\ Pending(w, t.node) \subseteq Pending(w, s.node)
               /\ Held(w, s.running) # {} => Held(w, t.running) # {}
               /\ t # s => \/ Held(w, t.running) # {}
                           \/ Pending(w, t.node) # Pending(w, s.node)
<1> DEFINE t == Consider(w, s, n)
<1>0. /\ n \in Nodes /\ s.node \in [Nodes -> NodeStatus] /\ DOMAIN s.running = Nodes
      /\ NodesOf(w) \subseteq Nodes
  BY SameWorkflow DEF LoopInv, Core, Typed, Nodes
<1>1. CASE t = s
  BY <1>1
<1>2. CASE /\ Ready(s, n)
           /\ t.node = [s.node EXCEPT ![n] = "skipped"] /\ t.started = TRUE
           /\ t.running = s.running
  <2> HIDE DEF t
  <2>1. n \in Pending(w, s.node) /\ n \notin Pending(w, t.node)
    BY <1>0, <1>2 DEF Pending, Ready
  <2>2. Pending(w, t.node) \subseteq Pending(w, s.node)
    BY <1>0, <1>2 DEF Pending
  <2> QED BY <1>2, <2>1, <2>2 DEF t
<1>3. CASE Ready(s, n) /\ t = Launch(s, n)
  <2> HIDE DEF t
  <2>1. n \in Nodes /\ t = Launch(s, n)
    BY <1>0, <1>3
  <2>2. /\ t.running[n] # 0
        /\ \A m \in Nodes : t.node[m] = "pending" => s.node[m] = "pending"
    BY <2>1, LaunchParts
  <2>3. <<n, t.running[n]>> \in Held(w, t.running)
    BY <2>2 DEF Held
  <2>4. Pending(w, t.node) \subseteq Pending(w, s.node)
    BY <1>0, <2>2 DEF Pending
  <2>5. t.started = TRUE
    BY <2>1 DEF Launch, LoopInv
  <2> QED BY <2>3, <2>4, <2>5 DEF t
<1> HIDE DEF t
<1>4. \/ t = s
      \/ /\ Ready(s, n)
         /\ t.node = [s.node EXCEPT ![n] = "skipped"] /\ t.started = TRUE
         /\ t.running = s.running
      \/ Ready(s, n) /\ t = Launch(s, n)
  BY <1>0, ConsiderCases DEF t
<1> QED BY <1>1, <1>2, <1>3, <1>4 DEF t

\* A pass started something, or nothing can be started.
Fruitful(w, s, t) ==
    /\ t.started = TRUE
    /\ Held(w, t.running) # {} \/ Pending(w, t.node) # Pending(w, s.node)

Stuck(w, t) == t.started = FALSE /\ \A n \in NodesOf(w) : Consider(w, t, n) = t

\* One pass over the nodes.
LEMMA PassEffect ==
    ASSUME NEW nd, NEW s, LoopInv(nd, s), NEW w \in Workflows, NEW rs, LoopOnce(w, rs, s)
    PROVE  LET t == Pass(w, s)
           IN  /\ LoopOnce(w, rs, t)
               /\ Pending(w, t.node) \subseteq Pending(w, s.node)
               /\ Fruitful(w, s, t) \/ Stuck(w, t)
<1> DEFINE N == Len(Order[w])
<1>0. /\ N \in Nat /\ \A i \in 1..N : Order[w][i] \in NodesOf(w)
      /\ \A n \in NodesOf(w) : \E i \in 1..N : n = Order[w][i]
  <2>1. N \in Nat /\ DOMAIN Order[w] = 1..N
    BY WorkflowAssumption, LenProperties
  <2> QED BY <2>1 DEF NodesOf
<1>1. PICK f : /\ f[0] = [s EXCEPT !.started = FALSE]
               /\ \A i \in 1..N : f[i] = Consider(w, f[i - 1], Order[w][i])
               /\ Pass(w, s) = f[N]
  BY <1>0, PassSteps
<1> HIDE DEF N
<1> DEFINE e == f[0]
           P(i) == /\ LoopInv(nd, f[i]) /\ LoopOnce(w, rs, f[i])
                   /\ Pending(w, f[i].node) \subseteq Pending(w, s.node)
                   /\ \/ Fruitful(w, s, f[i])
                      \/ f[i] = e /\ \A j \in 1..i : Consider(w, e, Order[w][j]) = e
           T == {i \in 0..N : P(i)}
<1>2. /\ DOMAIN e = DOMAIN s /\ e.node = s.node /\ e.runs = s.runs /\ e.ctl = s.ctl
      /\ e.running = s.running /\ e.queue = s.queue /\ e.pc = s.pc /\ e.started = FALSE
  BY <1>1 DEF LoopInv
<1>3. 0 \in T
  <2> HIDE DEF e
  <2>1. LoopInv(nd, e) /\ LoopOnce(w, rs, e)
    BY <1>2 DEF LoopInv, LoopOnce
  <2>2. \A j \in 1..0 : Consider(w, e, Order[w][j]) = e
    OBVIOUS
  <2>3. Pending(w, e.node) \subseteq Pending(w, s.node)
    BY <1>2
  <2>4. P(0)
    BY <2>1, <2>2, <2>3 DEF e
  <2> HIDE DEF P
  <2> QED BY <1>0, <2>4
<1>4. ASSUME NEW i \in 1..N, i - 1 \in T PROVE i \in T
  <2> DEFINE p == f[i - 1]
             n == Order[w][i]
             t == f[i]
  <2>0. /\ i \in 0..N /\ t = Consider(w, p, n) /\ n \in NodesOf(w) /\ n \in Nodes
        /\ i \in Nat /\ i - 1 \in Nat
    BY <1>0, <1>1, SameWorkflow
  <2>1. /\ LoopInv(nd, p) /\ LoopOnce(w, rs, p)
        /\ Pending(w, p.node) \subseteq Pending(w, s.node)
        /\ \/ Fruitful(w, s, p)
           \/ p = e /\ \A j \in 1..(i - 1) : Consider(w, e, Order[w][j]) = e
    BY <1>4
  <2> HIDE DEF p, n, t, e
  <2>2. LoopInv(nd, t) /\ LoopOnce(w, rs, t)
    BY <2>0, <2>1, ConsiderKeeps, ConsiderOnce
  <2>3. /\ t = p \/ t.started = TRUE
        /\ Pending(w, t.node) \subseteq Pending(w, p.node)
        /\ Held(w, p.running) # {} => Held(w, t.running) # {}
        /\ t # p => \/ Held(w, t.running) # {}
                    \/ Pending(w, t.node) # Pending(w, p.node)
    BY <2>0, <2>1, ConsiderMoves
  <2>4. CASE Fruitful(w, s, p)
    <3>1. Fruitful(w, s, t)
      BY <2>1, <2>3, <2>4 DEF Fruitful
    <3> QED BY <2>0, <2>1, <2>2, <2>3, <3>1 DEF t
  <2>5. CASE p = e /\ \A j \in 1..(i - 1) : Consider(w, e, Order[w][j]) = e
    <3>1. CASE t = p
      <4>1. \A j \in 1..i : j \in 1..(i - 1) \/ j = i
        BY <2>0
      <4>2. \A j \in 1..i : Consider(w, e, Order[w][j]) = e
        BY <2>0, <2>5, <3>1, <4>1 DEF n
      <4> QED BY <2>0, <2>1, <2>2, <2>3, <2>5, <3>1, <4>2 DEF t
    <3>2. CASE t # p
      <4>1. Fruitful(w, s, t)
        BY <1>2, <2>1, <2>3, <2>5, <3>2 DEF Fruitful
      <4> QED BY <2>0, <2>1, <2>2, <2>3, <4>1 DEF t
    <3> QED BY <3>1, <3>2
  <2> QED BY <2>1, <2>4, <2>5
<1>5. P(N)
  <2> HIDE DEF P
  <2>1. \A i \in 1..N : i - 1 \in T => i \in T
    BY <1>4
  <2> HIDE DEF T
  <2>2. \A i \in 0..N : i \in T
    BY <1>0, <1>3, <2>1, Climb
  <2>3. N \in T
    BY <1>0, <2>2
  <2> QED BY <2>3 DEF T
<1>6. f[N] = e /\ (\A j \in 1..N : Consider(w, e, Order[w][j]) = e) => Stuck(w, f[N])
  <2> HIDE DEF e
  <2> QED BY <1>0, <1>2 DEF Stuck
<1> QED BY <1>1, <1>5, <1>6

\* Fewer nodes are pending.
LEMMA FewerPending ==
    ASSUME NEW w \in Workflows, NEW nd, NEW st,
           Pending(w, st) \subseteq Pending(w, nd), Pending(w, st) # Pending(w, nd)
    PROVE  /\ Cardinality(Pending(w, st)) \in Nat /\ Cardinality(Pending(w, nd)) \in Nat
           /\ Cardinality(Pending(w, st)) < Cardinality(Pending(w, nd))
           /\ Cardinality(Pending(w, nd)) <= Len(Order[w])
<1> DEFINE A == Pending(w, st)
           B == Pending(w, nd)
           C == NodesOf(w)
<1>1. A \in SUBSET B /\ B \in SUBSET C /\ A # B
  BY DEF Pending
<1>2. IsFiniteSet(C) /\ Cardinality(C) \in Nat /\ Cardinality(C) <= Len(Order[w])
  BY NodesOfFinite
<1> HIDE DEF A, B, C
<1>3. IsFiniteSet(B) /\ Cardinality(B) <= Cardinality(C)
  BY <1>1, <1>2, FS_Subset
<1>4. IsFiniteSet(A) /\ Cardinality(A) <= Cardinality(B) /\ Cardinality(B) # Cardinality(A)
  BY <1>1, <1>3, FS_Subset
<1>5. Cardinality(A) \in Nat /\ Cardinality(B) \in Nat
  BY <1>3, <1>4, FS_CardinalityType
<1>6. Len(Order[w]) \in Nat
  BY OrderTyped
<1>7. Cardinality(A) < Cardinality(B) /\ Cardinality(B) <= Len(Order[w])
  BY <1>2, <1>3, <1>4, <1>5, <1>6
<1> QED BY <1>5, <1>7 DEF A, B

\* After its passes the loop holds a node, is over, or can start nothing: a
\* pass that only skips leaves one pending node less.
LEMMA PassesEffect ==
    ASSUME NEW nd, NEW s, LoopInv(nd, s), NEW w \in Workflows, NEW rs, LoopOnce(w, rs, s)
    PROVE  LET t == Passes(w, s)
           IN  /\ LoopOnce(w, rs, t)
               /\ Stuck(w, t) \/ Held(w, t.running) # {} \/ Over(w, t)
<1> DEFINE N == Len(Order[w])
<1>0. N \in Nat
  BY OrderTyped
<1>1. PICK f : /\ f[0] = Pass(w, s)
               /\ \A i \in 1..N : f[i] = IF Again(w, f[i - 1]) THEN Pass(w, f[i - 1]) ELSE f[i - 1]
               /\ Passes(w, s) = f[N]
  BY <1>0, PassesSteps
<1> DEFINE Card(t) == Cardinality(Pending(w, t.node))
           Done(t) == Stuck(w, t) \/ Held(w, t.running) # {} \/ Over(w, t)
           P(i) == /\ LoopInv(nd, f[i]) /\ LoopOnce(w, rs, f[i])
                   /\ \/ Done(f[i])
                      \/ Again(w, f[i]) /\ Card(f[i]) \in Nat /\ Card(f[i]) + i + 1 <= N
           T == {i \in 0..N : P(i)}
<1>2. ASSUME NEW p, LoopInv(nd, p), LoopOnce(w, rs, p)
      PROVE  LET t == Pass(w, p)
             IN  /\ LoopInv(nd, t) /\ LoopOnce(w, rs, t)
                 /\ \/ Done(t)
                    \/ /\ Again(w, t) /\ Card(t) \in Nat /\ Card(p) \in Nat
                       /\ Card(t) < Card(p) /\ Card(p) <= N
  <2> DEFINE t == Pass(w, p)
  <2>1. /\ LoopOnce(w, rs, t) /\ LoopInv(nd, t)
        /\ Pending(w, t.node) \subseteq Pending(w, p.node)
        /\ Fruitful(w, p, t) \/ Stuck(w, t)
    BY <1>2, PassEffect, PassKeeps
  <2> HIDE DEF t
  <2>2. CASE Done(t)
    BY <2>1, <2>2 DEF t
  <2>3. CASE ~Done(t)
    <3>1. Fruitful(w, p, t) /\ Held(w, t.running) = {} /\ ~Over(w, t)
      BY <2>1, <2>3
    <3>2. Again(w, t) /\ Pending(w, t.node) # Pending(w, p.node)
      BY <3>1 DEF Fruitful, Again
    <3>3. Card(t) \in Nat /\ Card(p) \in Nat /\ Card(t) < Card(p) /\ Card(p) <= N
      BY <2>1, <3>2, FewerPending
    <3> QED BY <2>1, <3>2, <3>3 DEF t
  <2> QED BY <2>2, <2>3
<1>3. ASSUME NEW t, Done(t) PROVE ~Again(w, t)
  BY <1>3 DEF Again, Stuck
<1> HIDE DEF N, Card, Done
<1>4. 0 \in T
  <2> DEFINE t == f[0]
  <2>1. /\ LoopInv(nd, t) /\ LoopOnce(w, rs, t)
        /\ \/ Done(t)
           \/ /\ Again(w, t) /\ Card(t) \in Nat /\ Card(s) \in Nat
              /\ Card(t) < Card(s) /\ Card(s) <= N
    BY <1>1, <1>2
  <2> HIDE DEF t
  <2>2. Done(t) \/ (Again(w, t) /\ Card(t) \in Nat /\ Card(t) + 0 + 1 <= N)
    BY <1>0, <2>1
  <2>3. P(0)
    BY <2>1, <2>2 DEF t
  <2> HIDE DEF P
  <2> QED BY <1>0, <2>3
<1>5. ASSUME NEW i \in 1..N, i - 1 \in T PROVE i \in T
  <2>0. i \in 0..N /\ i \in Nat /\ i - 1 \in Nat
    BY <1>0
  <2> DEFINE p == f[i - 1]
             t == f[i]
  <2>1. /\ LoopInv(nd, p) /\ LoopOnce(w, rs, p)
        /\ Done(p) \/ (Again(w, p) /\ Card(p) \in Nat /\ Card(p) + (i - 1) + 1 <= N)
        /\ t = IF Again(w, p) THEN Pass(w, p) ELSE p
    BY <1>1, <1>5
  <2> HIDE DEF p, t
  <2>2. CASE Done(p)
    <3>1. t = p
      BY <1>3, <2>1, <2>2
    <3>2. LoopInv(nd, t) /\ LoopOnce(w, rs, t) /\ Done(t)
      BY <2>1, <2>2, <3>1
    <3>3. P(i)
      BY <3>2 DEF t
    <3> HIDE DEF P
    <3> QED BY <2>0, <3>3
  <2>3. CASE ~Done(p)
    <3>1. t = Pass(w, p)
      BY <2>1, <2>3
    <3>2. /\ LoopInv(nd, t) /\ LoopOnce(w, rs, t)
          /\ Done(t) \/ (Again(w, t) /\ Card(t) \in Nat /\ Card(p) \in Nat /\ Card(t) < Card(p))
      BY <1>2, <2>1, <3>1
    <3>3. Done(t) \/ (Again(w, t) /\ Card(t) \in Nat /\ Card(t) + i + 1 <= N)
      BY <1>0, <2>0, <2>1, <2>3, <3>2
    <3>4. P(i)
      BY <3>2, <3>3 DEF t
    <3> HIDE DEF P
    <3> QED BY <2>0, <3>4
  <2> QED BY <2>2, <2>3
<1>6. P(N)
  <2> HIDE DEF P
  <2>1. \A i \in 1..N : i - 1 \in T => i \in T
    BY <1>5
  <2> HIDE DEF T
  <2>2. \A i \in 0..N : i \in T
    BY <1>0, <1>4, <2>1, Climb
  <2>3. N \in T
    BY <1>0, <2>2
  <2> QED BY <2>3 DEF T
<1>7. ~(Card(f[N]) \in Nat /\ Card(f[N]) + N + 1 <= N)
  BY <1>0
<1> QED BY <1>1, <1>6, <1>7 DEF Done

\* A call is in one of its phases.
LEMMA PhaseOf ==
    ASSUME NEW rs \in [Nodes -> Seq(Run)], NEW n \in Nodes, NEW k \in DOMAIN rs[n]
    PROVE  rs[n][k].phase \in {"creating", "agent", "cleanup", "settled"}
<1>1. rs[n] \in Seq(Run)
  OBVIOUS
<1>2. rs[n][k] \in Run
  BY <1>1
<1> QED BY <1>2 DEF Run

\* The nodes of the workflow that run are held.
LEMMA RunningIsHeld ==
    ASSUME NEW nd, NEW rs, NEW c, NEW held, NEW q, OnceInv(nd, rs, c, held, q),
           rs \in [Nodes -> Seq(Run)], Once(rs),
           NEW w \in Workflows, Held(w, held) = {}, NEW n \in NodesOf(w)
    PROVE  /\ nd[n] # "running"
           /\ nd[n] = "pending" => DOMAIN rs[n] = {}
           /\ \A k \in DOMAIN rs[n] : rs[n][k].phase = "settled"
<1>1. n \in Nodes
  BY SameWorkflow
<1>2. held[n] = 0
  <2> SUFFICES ASSUME held[n] # 0 PROVE FALSE
    OBVIOUS
  <2>1. n \in {x \in NodesOf(w) : held[x] # 0}
    OBVIOUS
  <2>2. <<n, held[n]>> \in Held(w, held)
    BY <2>1 DEF Held
  <2> QED BY <2>2
<1>3. OneCall(nd[n], rs[n], held[n], c[n]) /\ DOMAIN rs[n] \subseteq {1}
  BY <1>1 DEF OnceInv, OneCalls, Once
<1>4. CASE DOMAIN rs[n] = {}
  BY <1>2, <1>3, <1>4 DEF OneCall
<1>5. CASE 1 \in DOMAIN rs[n]
  <2>1. rs[n][1].phase \in {"creating", "agent", "cleanup", "settled"}
    BY <1>1, <1>5, PhaseOf
  <2>2. rs[n][1].phase = "settled" /\ nd[n] \in NodeTerminal
    BY <1>2, <1>3, <1>5, <2>1 DEF OneCall
  <2> QED BY <1>3, <2>2 DEF NodeTerminal
<1> QED BY <1>3, <1>4, <1>5

\* A loop that holds no node and can start nothing while no other workflow
\* runs a node has no pending node: the first of them in the order of the
\* dependencies could be started.
LEMMA NothingPending ==
    ASSUME NEW nd, NEW s, LoopInv(nd, s), OnceInv(s.node, s.runs, s.ctl, s.running, s.queue),
           Once(s.runs), NEW w \in Workflows, Held(w, s.running) = {}, Stuck(w, s),
           \A n \in NodesOf(w) : s.node[n] # "none",
           \A n \in Nodes \ NodesOf(w) : s.node[n] # "running"
    PROVE  Pending(w, s.node) = {}
<1> SUFFICES ASSUME Pending(w, s.node) # {} PROVE FALSE
  OBVIOUS
<1>0. /\ s.node \in [Nodes -> NodeStatus] /\ s.runs \in [Nodes -> Seq(Run)]
      /\ NodesOf(w) \subseteq Nodes /\ s.started = FALSE
  BY DEF LoopInv, Core, Typed, Nodes, Stuck
<1>1. Pending(w, s.node) \in SUBSET Nodes
  BY <1>0 DEF Pending
<1>2. PICK n \in Pending(w, s.node) : DependsOn[n] \cap Pending(w, s.node) = {}
  BY <1>1, WorkflowAssumption DEF Acyclic
<1>3. n \in NodesOf(w) /\ n \in Nodes /\ s.node[n] = "pending" /\ DependsOn[n] \subseteq NodesOf(w)
  BY <1>0, <1>2, SameWorkflow DEF Pending
<1>4. \A m \in NodesOf(w) : s.node[m] # "running"
  BY <1>0, RunningIsHeld
<1>5. Ready(s, n)
  <2> SUFFICES ASSUME NEW d \in DependsOn[n] PROVE s.node[d] \in NodeTerminal
    BY <1>3 DEF Ready
  <2>1. d \in NodesOf(w) /\ d \in Nodes /\ s.node[d] # "none" /\ s.node[d] # "running"
    BY <1>0, <1>3, <1>4
  <2>2. s.node[d] # "pending"
    BY <1>2, <2>1 DEF Pending
  <2>3. s.node[d] \in NodeStatus
    BY <1>0, <2>1
  <2> QED BY <2>1, <2>2, <2>3 DEF NodeStatus
<1>6. CanStart(n, s.node)
  <2>1. \A m \in Nodes : s.node[m] # "running"
    BY <1>4
  <2>2. WritePolicy[n] \in {"none", "shared", "isolated"}
    BY <1>3, WorkflowAssumption
  <2> QED BY <2>1, <2>2 DEF CanStart
<1>7. ~(Cardinality(Held(w, s.running)) >= MaxConcurrency)
  <2>1. Cardinality({}) = 0
    BY FS_EmptySet
  <2>2. MaxConcurrency \in Nat \ {0}
    BY WorkflowAssumption
  <2> QED BY <2>1, <2>2
<1>8. Len(s.runs[n]) # MaxStarts
  <2>1. s.runs[n] \in Seq(Run) /\ DOMAIN s.runs[n] = {}
    BY <1>0, <1>3, RunningIsHeld
  <2>2. DOMAIN s.runs[n] = 1..Len(s.runs[n]) /\ Len(s.runs[n]) \in Nat
    BY <2>1, LenProperties
  <2>3. Len(s.runs[n]) = 0
    <3>1. 1 \notin 1..Len(s.runs[n])
      BY <2>1, <2>2
    <3> QED BY <2>2, <3>1
  <2>4. MaxStarts \in Nat \ {0}
    BY WorkflowAssumption
  <2> QED BY <2>3, <2>4
<1>9. Consider(w, s, n) = s
  BY <1>3 DEF Stuck
<1>10. CASE ~ConditionHolds(n, s.node)
  <2> DEFINE t == [s EXCEPT !.node[n] = "skipped", !.started = TRUE]
  <2>1. Consider(w, s, n) = t
    BY <1>5, <1>10 DEF Consider
  <2>2. t.started = TRUE
    BY DEF LoopInv
  <2> QED BY <1>0, <1>9, <2>1, <2>2
<1>11. CASE ConditionHolds(n, s.node)
  <2>1. Consider(w, s, n) = Launch(s, n)
    BY <1>5, <1>6, <1>7, <1>8, <1>11 DEF Consider
  <2>2. Launch(s, n).started = TRUE
    BY DEF Launch, LoopInv
  <2> QED BY <1>0, <1>9, <2>1, <2>2
<1> QED BY <1>10, <1>11

\* What the loop leaves at its await while no node has been launched twice.
SuspendedOnce(w, rs, s) ==
    /\ LoopOnce(w, rs, s)
    /\ Once(s.runs) /\ s.pc = "draining" => \A n \in NodesOf(w) : s.node[n] \in NodeTerminal

\* No node is given up: the nodes that the loop would mark lost are none.
LEMMA SuspendOnce ==
    ASSUME NEW nd, NEW s, LoopInv(nd, s), NEW w \in Workflows, NEW rs, LoopOnce(w, rs, s),
           Stuck(w, s) \/ Held(w, s.running) # {} \/ Over(w, s),
           Once(rs) => \A n \in NodesOf(w) : s.node[n] # "none"
    PROVE  SuspendedOnce(w, rs, Suspend(w, s))
<1>0. /\ DOMAIN s = {"node", "ctl", "running", "queue", "started", "runs", "pc"}
      /\ s.node \in [Nodes -> NodeStatus] /\ s.runs \in [Nodes -> Seq(Run)]
      /\ NodesOf(w) \subseteq Nodes
  BY DEF LoopInv, Core, Typed, Nodes
<1>1. ASSUME NEW pc \in {"racing", "waiting"}, Suspend(w, s) = [s EXCEPT !.pc = pc]
      PROVE  SuspendedOnce(w, rs, Suspend(w, s))
  <2> DEFINE t == [s EXCEPT !.pc = pc]
  <2>1. /\ t.node = s.node /\ t.runs = s.runs /\ t.running = s.running /\ t.ctl = s.ctl
        /\ t.queue = s.queue /\ t.pc = pc
    BY <1>0
  <2> HIDE DEF t
  <2>2. LoopOnce(w, rs, t) /\ t.pc # "draining"
    BY <2>1 DEF LoopOnce
  <2> QED BY <1>1, <2>2 DEF SuspendedOnce, t
<1>2. ASSUME Held(w, s.running) = {},
             ~(~s.started /\ \E n \in Nodes \ NodesOf(w) : s.node[n] = "running"),
             Suspend(w, s) = [s EXCEPT !.node = Finished(@, Pending(w, @), "lost"), !.pc = "draining"]
      PROVE  SuspendedOnce(w, rs, Suspend(w, s))
  <2> DEFINE st == Finished(s.node, Pending(w, s.node), "lost")
             t == [s EXCEPT !.node = Finished(@, Pending(w, @), "lost"), !.pc = "draining"]
  <2>1. /\ t.node = st /\ t.runs = s.runs /\ t.running = s.running /\ t.ctl = s.ctl
        /\ t.queue = s.queue
    BY <1>0
  <2> HIDE DEF t
  <2>2. ASSUME Once(s.runs)
        PROVE  /\ st = s.node
               /\ \A n \in NodesOf(w) : s.node[n] \in NodeTerminal
    <3>1. /\ OnceInv(s.node, s.runs, s.ctl, s.running, s.queue)
          /\ \A n \in NodesOf(w) : s.node[n] # "none"
      BY <2>2 DEF LoopOnce
    <3>2. Pending(w, s.node) = {}
      <4>1. CASE Over(w, s)
        BY <4>1 DEF Over, Pending, NodeTerminal
      <4>2. CASE Stuck(w, s)
        <5>1. \A n \in Nodes \ NodesOf(w) : s.node[n] # "running"
          BY <1>2, <4>2 DEF Stuck
        <5> QED BY <1>2, <2>2, <3>1, <4>2, <5>1, NothingPending
      <4> QED BY <1>2, <4>1, <4>2
    <3>3. st = s.node
      BY <1>0, <3>2 DEF Finished
    <3>4. ASSUME NEW n \in NodesOf(w) PROVE s.node[n] \in NodeTerminal
      <4>1. s.node[n] # "running" /\ s.node[n] # "none" /\ s.node[n] \in NodeStatus
        BY <1>0, <1>2, <2>2, <3>1, RunningIsHeld
      <4>2. s.node[n] # "pending"
        BY <3>2 DEF Pending
      <4> QED BY <4>1, <4>2 DEF NodeStatus
    <3> QED BY <3>3, <3>4
  <2> HIDE DEF st
  <2>3. LoopOnce(w, rs, t)
    BY <2>1, <2>2 DEF LoopOnce
  <2>4. Once(t.runs) => \A n \in NodesOf(w) : t.node[n] \in NodeTerminal
    BY <2>1, <2>2
  <2> QED BY <1>2, <2>3, <2>4 DEF SuspendedOnce, t
<1>3. \/ \E pc \in {"racing", "waiting"} : Suspend(w, s) = [s EXCEPT !.pc = pc]
      \/ /\ Held(w, s.running) = {}
         /\ ~(~s.started /\ \E n \in Nodes \ NodesOf(w) : s.node[n] = "running")
         /\ Suspend(w, s) = [s EXCEPT !.node = Finished(@, Pending(w, @), "lost"), !.pc = "draining"]
  BY DEF Suspend
<1> QED BY <1>1, <1>2, <1>3

\* controller.abort() leaves the calls and their phases.
LEMMA AbortSame ==
    ASSUME NEW rs \in [Nodes -> Seq(Run)], NEW x
    PROVE  /\ SameCalls(rs, Abort(rs, x))
           /\ \A n \in Nodes : \A k \in DOMAIN rs[n] : <<n, k>> \in x => Abort(rs, x)[n][k].aborted
<1> DEFINE r == Abort(rs, x)
<1> SUFFICES ASSUME NEW n \in Nodes
             PROVE  /\ DOMAIN r[n] = DOMAIN rs[n]
                    /\ \A k \in DOMAIN rs[n] : /\ r[n][k].phase = rs[n][k].phase
                                               /\ rs[n][k].aborted => r[n][k].aborted
                                               /\ <<n, k>> \in x => r[n][k].aborted
  BY DEF SameCalls
<1> DEFINE c == rs[n]
           y(k) == IF <<n, k>> \in x THEN [c[k] EXCEPT !.aborted = TRUE] ELSE c[k]
<1>1. r[n] = [k \in DOMAIN c |-> y(k)]
  BY DEF Abort
<1>2. ASSUME NEW k \in DOMAIN c
      PROVE  /\ y(k).phase = c[k].phase /\ (c[k].aborted => y(k).aborted)
             /\ <<n, k>> \in x => y(k).aborted
  <2>1. c \in Seq(Run)
    OBVIOUS
  <2>2. c[k] \in Run
    BY <2>1
  <2> HIDE DEF c
  <2> QED BY <2>2 DEF Run
<1> HIDE DEF c, y, r
<1> QED BY <1>1, <1>2 DEF c

\* Aborting calls ends no node.
LEMMA AbortOnce ==
    ASSUME NEW nd, NEW rs \in [Nodes -> Seq(Run)], NEW c, NEW held, NEW q \in Seq(Nodes \X Nat),
           OnceInv(nd, rs, c, held, q), NEW x
    PROVE  OnceInv(nd, Abort(rs, x), c, held, q)
<1>1. SameCalls(rs, Abort(rs, x))
  BY AbortSame
<1>2. Upward(Term(nd))
  BY DEF OnceInv
<1> QED BY <1>1, <1>2, EndedOnce

\* One turn of execute(), from its entry to its next await.
LEMMA ScheduledOnce ==
    ASSUME NEW nd, NEW x, NEW w \in Workflows, Core(nd, runs, running, queue),
           Once(runs) => /\ OnceInv(nd, runs, ctl, running, queue)
                         /\ \A n \in NodesOf(w) : nd[n] # "none"
    PROVE  LET s == Scheduled(w, nd, x)
           IN  /\ Once(s.runs) =>
                    /\ Once(runs) /\ OnceInv(s.node, s.runs, s.ctl, s.running, s.queue)
                    /\ s.pc = "draining" => \A n \in NodesOf(w) : s.node[n] \in NodeTerminal
               /\ \A n \in Nodes \ NodesOf(w) :
                    /\ DOMAIN s.runs[n] = DOMAIN runs[n]
                    /\ \A k \in DOMAIN runs[n] : s.runs[n][k].phase = runs[n][k].phase
<1> DEFINE stop  == x[w].cancel \/ x[w].failure
           r     == IF stop THEN Abort(runs, Held(w, ctl)) ELSE runs
           enter == [node |-> nd, ctl |-> ctl, running |-> running, queue |-> queue,
                     started |-> FALSE, runs |-> r, pc |-> "draining"]
           e     == IF Over(w, enter) THEN enter ELSE Suspend(w, Passes(w, enter))
<1>0. runs \in [Nodes -> Seq(Run)] /\ queue \in Seq(Nodes \X Nat) /\ NodesOf(w) \subseteq Nodes
  BY DEF Core, Typed, Nodes
<1>1. Core(nd, r, running, queue)
  BY AbortKeeps
<1>2. /\ DOMAIN enter = {"node", "ctl", "running", "queue", "started", "runs", "pc"}
      /\ enter.node = nd /\ enter.runs = r /\ enter.running = running /\ enter.ctl = ctl
      /\ enter.queue = queue /\ enter.pc = "draining"
  OBVIOUS
<1>3. Scheduled(w, nd, x) = e
  BY ScheduledIs DEF Entered
<1>4. SameCalls(runs, r) /\ (OnceInv(nd, runs, ctl, running, queue) => OnceInv(nd, r, ctl, running, queue))
  <2>1. CASE stop
    BY <1>0, <2>1, AbortSame, AbortOnce
  <2>2. CASE ~stop
    BY <2>2 DEF SameCalls
  <2> QED BY <2>1, <2>2
<1> HIDE DEF enter, r
<1>5. LoopInv(nd, enter)
  <2>1. Moved(nd, nd)
    BY DEF Moved
  <2> QED BY <1>1, <1>2, <2>1 DEF LoopInv
<1>6. Once(r) => Once(runs)
  BY <1>4 DEF Once, SameCalls
<1>7. LoopOnce(w, r, enter)
  BY <1>2, <1>4, <1>6 DEF LoopOnce
<1>8. SuspendedOnce(w, r, e)
  <2>1. CASE Over(w, enter)
    <3>1. \A n \in NodesOf(w) : enter.node[n] \in NodeTerminal
      BY <2>1 DEF Over
    <3> QED BY <1>7, <2>1, <3>1 DEF SuspendedOnce
  <2>2. CASE ~Over(w, enter)
    <3> DEFINE p == Passes(w, enter)
    <3>1. /\ LoopInv(nd, p) /\ LoopOnce(w, r, p)
          /\ Stuck(w, p) \/ Held(w, p.running) # {} \/ Over(w, p)
      BY <1>5, <1>7, PassesKeeps, PassesEffect
    <3> HIDE DEF p
    <3>2. Moved(nd, p.node)
      BY <3>1 DEF LoopInv
    <3>3. Once(r) => \A n \in NodesOf(w) : p.node[n] # "none"
      BY <1>0, <1>6, <3>2 DEF Moved, NodeTerminal
    <3>4. SuspendedOnce(w, r, Suspend(w, p))
      BY <3>1, <3>3, SuspendOnce
    <3>5. e = Suspend(w, p)
      BY <2>2 DEF p
    <3> QED BY <3>4, <3>5
  <2> QED BY <2>1, <2>2
<1> HIDE DEF e
<1>9. /\ Once(e.runs) =>
           /\ Once(runs) /\ OnceInv(e.node, e.runs, e.ctl, e.running, e.queue)
           /\ e.pc = "draining" => \A n \in NodesOf(w) : e.node[n] \in NodeTerminal
      /\ \A n \in Nodes \ NodesOf(w) : e.runs[n] = r[n]
  BY <1>6, <1>8 DEF SuspendedOnce, LoopOnce
<1>10. \A n \in Nodes \ NodesOf(w) :
         /\ DOMAIN e.runs[n] = DOMAIN runs[n]
         /\ \A k \in DOMAIN runs[n] : e.runs[n][k].phase = runs[n][k].phase
  BY <1>4, <1>9 DEF SameCalls
<1> QED BY <1>3, <1>9, <1>10

-----------------------------------------------------------------------------
(* The workflows up to a second launch.                                    *)

\* A loop that drains waits for every call that is under way, so that
\* nothing is under way when the workflow ends; what it cleaned stays clean.
OneWf(w, x, nd, rs, ls) ==
    /\ \A n \in NodesOf(w) :
         /\ x.pc = "idle" <=> nd[n] = "none"
         /\ x.pc \in Ending => nd[n] \in NodeTerminal
         /\ x.pc = "draining" =>
              \A k \in DOMAIN rs[n] : rs[n][k].phase # "settled" => <<n, k>> \in x.race
         /\ x.pc \in {"cleaning", "over"} => \A k \in DOMAIN rs[n] : rs[n][k].phase = "settled"
    /\ x.pc = "over" /\ x.status # "completed" => \A n \in NodesOf(w) : ls[n] # "active"

WfOnce(x, nd, rs, ls) == \A w \in Workflows : OneWf(w, x[w], nd, rs, ls)

SBody ==
    /\ OnceInv(node, runs, ctl, running, queue)
    /\ WfOnce(wf, node, runs, lease) /\ DOMAIN lease = Nodes

SInv == Once(runs) => SBody

\* Where execute() is, publish() left aside.
SameLoop(x, y) ==
    \A w \in Workflows : /\ y[w].status = x[w].status /\ y[w].race = x[w].race
                         /\ y[w].pc = x[w].pc \/ (x[w].pc = "waiting" /\ y[w].pc = "ready")

\* Nodes and calls only move on.
Onward(nd, rs, ls, st, rs2, ls2) ==
    \A n \in Nodes :
        /\ st[n] = "none" <=> nd[n] = "none"
        /\ nd[n] \in NodeTerminal => st[n] \in NodeTerminal
        /\ DOMAIN rs2[n] = DOMAIN rs[n]
        /\ \A k \in DOMAIN rs[n] : rs[n][k].phase = "settled" => rs2[n][k].phase = "settled"
        /\ ls2[n] = "active" => \/ ls[n] = "active"
                                \/ \E k \in DOMAIN rs[n] : rs[n][k].phase # "settled"

\* publish() moves a loop from waiting to ready.
LEMMA PublishedLoop ==
    ASSUME NEW x, WfTyped(x), NEW y, SameLoop(y, x)
    PROVE  SameLoop(y, Published(x))
<1>1. \A w \in Workflows :
        Published(x)[w] = IF x[w].pc = "waiting" THEN [x[w] EXCEPT !.pc = "ready"] ELSE x[w]
  BY DEF Published
<1>2. \A w \in Workflows : DOMAIN x[w] = {"pc", "status", "cancel", "failure", "race"}
  BY DEF WfTyped
<1>3. \A w \in Workflows : /\ Published(x)[w].status = x[w].status
                            /\ Published(x)[w].race = x[w].race
                            /\ \/ Published(x)[w].pc = x[w].pc
                               \/ x[w].pc = "waiting" /\ Published(x)[w].pc = "ready"
  BY <1>1, <1>2
<1> QED BY <1>3 DEF SameLoop

\* A step that leaves the loops where they are.
LEMMA OneWfKeeps ==
    ASSUME NEW w \in Workflows, NEW x, NEW nd, NEW rs, NEW ls, OneWf(w, x, nd, rs, ls),
           NEW y, y.status = x.status, y.race = x.race,
           y.pc = x.pc \/ (x.pc = "waiting" /\ y.pc = "ready"),
           NEW st, NEW rs2, NEW ls2, Onward(nd, rs, ls, st, rs2, ls2)
    PROVE  OneWf(w, y, st, rs2, ls2)
<1>0. NodesOf(w) \subseteq Nodes
  BY DEF Nodes
<1>1. /\ y.pc = "idle" <=> x.pc = "idle"
      /\ y.pc \in Ending <=> x.pc \in Ending
      /\ \A pc \in Ending : y.pc = pc <=> x.pc = pc
  BY DEF Ending
<1>2. ASSUME NEW n \in NodesOf(w)
      PROVE  /\ y.pc = "idle" <=> st[n] = "none"
             /\ y.pc \in Ending => st[n] \in NodeTerminal
             /\ y.pc = "draining" =>
                  \A k \in DOMAIN rs2[n] : rs2[n][k].phase # "settled" => <<n, k>> \in y.race
             /\ y.pc \in {"cleaning", "over"} => \A k \in DOMAIN rs2[n] : rs2[n][k].phase = "settled"
  BY <1>0, <1>1 DEF OneWf, Onward, Ending
<1>3. ASSUME y.pc = "over", y.status # "completed", NEW n \in NodesOf(w)
      PROVE  ls2[n] # "active"
  <2>1. x.pc = "over" /\ ls[n] # "active"
    BY <1>1, <1>3 DEF OneWf, Ending
  <2>2. \A k \in DOMAIN rs[n] : rs[n][k].phase = "settled"
    BY <2>1 DEF OneWf
  <2> QED BY <1>0, <2>1, <2>2 DEF Onward
<1> QED BY <1>2, <1>3 DEF OneWf

\* The same for all of them.
LEMMA WfOnceKeeps ==
    ASSUME NEW x, NEW nd, NEW rs, NEW ls, WfOnce(x, nd, rs, ls), NEW y, SameLoop(x, y),
           NEW st, NEW rs2, NEW ls2, Onward(nd, rs, ls, st, rs2, ls2)
    PROVE  WfOnce(y, st, rs2, ls2)
<1> SUFFICES ASSUME NEW w \in Workflows PROVE OneWf(w, y[w], st, rs2, ls2)
  BY DEF WfOnce
<1>1. OneWf(w, x[w], nd, rs, ls)
  BY DEF WfOnce
<1>2. /\ y[w].status = x[w].status /\ y[w].race = x[w].race
      /\ y[w].pc = x[w].pc \/ (x[w].pc = "waiting" /\ y[w].pc = "ready")
  BY DEF SameLoop
<1> QED BY <1>1, <1>2, OneWfKeeps

\* execute() of w goes on with the node statuses nd and the workflows x.
LEMMA ScheduleOnce ==
    ASSUME NEW nd, NEW x, NEW w \in Workflows, Core(nd, runs, running, queue), WfTyped(x),
           Once(runs) => /\ OnceInv(nd, runs, ctl, running, queue)
                         /\ \A n \in NodesOf(w) : nd[n] # "none"
                         /\ \A v \in Workflows \ {w} : OneWf(v, x[v], nd, runs, lease)
                         /\ DOMAIN lease = Nodes,
           Schedule(w, nd, x)
    PROVE  SInv'
<1> DEFINE s == Scheduled(w, nd, x)
<1>0. Suspended(w, nd, s)
  BY ScheduledKeeps
<1>1. /\ Once(s.runs) =>
           /\ Once(runs) /\ OnceInv(s.node, s.runs, s.ctl, s.running, s.queue)
           /\ s.pc = "draining" => \A n \in NodesOf(w) : s.node[n] \in NodeTerminal
      /\ \A n \in Nodes \ NodesOf(w) :
           /\ DOMAIN s.runs[n] = DOMAIN runs[n]
           /\ \A k \in DOMAIN runs[n] : s.runs[n][k].phase = runs[n][k].phase
  BY ScheduledOnce
<1> HIDE DEF s
<1>2. PICK y \in {x, Published(x)} :
        /\ node' = s.node /\ runs' = s.runs /\ ctl' = s.ctl /\ running' = s.running
        /\ queue' = s.queue /\ lease' = lease
        /\ wf' = [y EXCEPT ![w].pc = s.pc, ![w].race = Held(w, s.running)]
  BY DEF Schedule, s
<1> SUFFICES ASSUME Once(runs') PROVE SBody'
  BY DEF SInv
<1>3. /\ Once(runs) /\ Once(s.runs) /\ OnceInv(s.node, s.runs, s.ctl, s.running, s.queue)
      /\ s.pc = "draining" => \A n \in NodesOf(w) : s.node[n] \in NodeTerminal
  BY <1>1, <1>2
<1>4. SameLoop(x, y) /\ WfTyped(y)
  <2>1. SameLoop(x, x)
    BY DEF SameLoop
  <2> QED BY <2>1, PublishedLoop, PublishedSame
<1>5. /\ wf'[w].pc = s.pc /\ wf'[w].race = Held(w, s.running)
      /\ \A v \in Workflows \ {w} : wf'[v] = y[v]
  BY <1>2, <1>4 DEF WfTyped
<1>6. ASSUME NEW v \in Workflows \ {w} PROVE OneWf(v, wf'[v], node', runs', lease')
  <2>1. OneWf(v, x[v], nd, runs, lease)
    BY <1>3
  <2>2. \A n \in NodesOf(v) : n \in Nodes /\ n \notin NodesOf(w)
    BY WorkflowAssumption DEF Nodes
  <2>3. \A n \in NodesOf(v) : /\ s.node[n] = "none" <=> nd[n] = "none"
                              /\ nd[n] \in NodeTerminal => s.node[n] \in NodeTerminal
    BY <1>0, <2>2 DEF Suspended, Moved, NodeTerminal
  <2>4. /\ y[v].status = x[v].status /\ y[v].race = x[v].race
        /\ y[v].pc = x[v].pc \/ (x[v].pc = "waiting" /\ y[v].pc = "ready")
    BY <1>4 DEF SameLoop
  <2> DEFINE st == [n \in Nodes |-> IF n \in NodesOf(v) THEN s.node[n] ELSE nd[n]]
             r == [n \in Nodes |-> IF n \in NodesOf(v) THEN s.runs[n] ELSE runs[n]]
  <2>5. Onward(nd, runs, lease, st, r, lease)
    <3> SUFFICES ASSUME NEW n \in Nodes
                 PROVE  /\ st[n] = "none" <=> nd[n] = "none"
                        /\ nd[n] \in NodeTerminal => st[n] \in NodeTerminal
                        /\ DOMAIN r[n] = DOMAIN runs[n]
                        /\ \A k \in DOMAIN runs[n] : runs[n][k].phase = "settled" => r[n][k].phase = "settled"
      BY DEF Onward
    <3>1. CASE n \in NodesOf(v)
      <4>1. st[n] = s.node[n] /\ r[n] = s.runs[n]
        BY <3>1
      <4> HIDE DEF st, r
      <4> QED BY <1>1, <2>2, <2>3, <3>1, <4>1
    <3>2. CASE n \notin NodesOf(v)
      <4>1. st[n] = nd[n] /\ r[n] = runs[n]
        BY <3>2
      <4> QED BY <4>1
    <3> QED BY <3>1, <3>2
  <2>6. \A n \in NodesOf(v) : st[n] = s.node[n] /\ r[n] = s.runs[n]
    BY <2>2
  <2> HIDE DEF st, r
  <2>7. OneWf(v, y[v], st, r, lease)
    BY <2>1, <2>4, <2>5, OneWfKeeps
  <2>8. OneWf(v, y[v], s.node, s.runs, lease)
    BY <2>6, <2>7 DEF OneWf
  <2> QED BY <1>2, <1>5, <2>8
<1>7. OneWf(w, wf'[w], node', runs', lease')
  <2>1. s.pc \in {"racing", "waiting", "draining"} /\ NodesOf(w) \subseteq Nodes
    BY <1>0 DEF Suspended, Nodes
  <2>2. \A n \in NodesOf(w) : s.node[n] # "none"
    BY <1>0, <1>3, <2>1 DEF Suspended, Moved, NodeTerminal
  <2>3. ASSUME NEW n \in NodesOf(w), NEW k \in DOMAIN s.runs[n], s.runs[n][k].phase # "settled"
        PROVE  <<n, k>> \in Held(w, s.running)
    <3>1. /\ n \in Nodes /\ k = 1 /\ s.runs \in [Nodes -> Seq(Run)]
          /\ OneCall(s.node[n], s.runs[n], s.running[n], s.ctl[n])
      BY <1>0, <1>3, <2>1 DEF Once, OnceInv, OneCalls, Suspended, Core, Typed
    <3>2. s.runs[n][k].phase \in {"creating", "agent", "cleanup", "settled"}
      BY <3>1, PhaseOf
    <3>3. s.running[n] = 1
      BY <2>3, <3>1, <3>2 DEF OneCall
    <3>4. n \in {m \in NodesOf(w) : s.running[m] # 0}
      BY <3>3
    <3>5. <<n, s.running[n]>> \in Held(w, s.running)
      BY <3>4 DEF Held
    <3> QED BY <3>1, <3>3, <3>5
  <2>4. wf'[w].pc \notin {"idle", "cleaning", "over"} /\ (wf'[w].pc \in Ending => s.pc = "draining")
    BY <1>5, <2>1 DEF Ending
  <2>5. OneWf(w, wf'[w], s.node, s.runs, lease)
    BY <1>3, <1>5, <2>2, <2>3, <2>4 DEF OneWf
  <2> QED BY <1>2, <2>5
<1>8. WfOnce(wf', node', runs', lease')
  BY <1>6, <1>7 DEF WfOnce
<1> QED BY <1>2, <1>3, <1>8 DEF SBody

\* The nodes of a workflow that starts have no call.
LEMMA StartNodes ==
    ASSUME IInv, Once(runs), SBody, NEW w \in Workflows, wf[w].pc = "idle", NEW nd,
           \A n \in Nodes : nd[n] = IF n \in NodesOf(w) THEN "pending" ELSE node[n]
    PROVE  /\ OnceInv(nd, runs, ctl, running, queue)
           /\ \A n \in NodesOf(w) : node[n] = "none" /\ running[n] = 0
<1>0. runs \in [Nodes -> Seq(Run)] /\ NodesOf(w) \subseteq Nodes
  BY DEF IInv, Core, Typed, Nodes
<1>1. OnceInv(node, runs, ctl, running, queue) /\ WfOnce(wf, node, runs, lease)
  BY DEF SBody
<1>2. \A n \in NodesOf(w) : node[n] = "none"
  BY <1>1 DEF WfOnce, OneWf
<1>3. ASSUME NEW n \in NodesOf(w) PROVE DOMAIN runs[n] = {} /\ running[n] = 0
  <2>1. /\ n \in Nodes /\ node[n] = "none"
        /\ OneCall(node[n], runs[n], running[n], ctl[n]) /\ DOMAIN runs[n] \subseteq {1}
    BY <1>0, <1>1, <1>2 DEF OnceInv, OneCalls, Once
  <2>2. 1 \notin DOMAIN runs[n]
    <3> SUFFICES ASSUME 1 \in DOMAIN runs[n] PROVE FALSE
      OBVIOUS
    <3>1. runs[n][1].phase \in {"creating", "agent", "cleanup", "settled"}
      BY <1>0, <2>1, PhaseOf
    <3> QED BY <2>1, <3>1 DEF OneCall, NodeTerminal
  <2>3. DOMAIN runs[n] = {}
    BY <2>1, <2>2
  <2> QED BY <2>1, <2>3 DEF OneCall
<1>4. OneCalls(nd, runs, ctl, running)
  <2> SUFFICES ASSUME NEW n \in Nodes PROVE OneCall(nd[n], runs[n], running[n], ctl[n])
    BY DEF OneCalls
  <2>1. CASE n \notin NodesOf(w)
    BY <1>1, <2>1 DEF OnceInv, OneCalls
  <2>2. CASE n \in NodesOf(w)
    BY <1>3, <2>2 DEF OneCall
  <2> QED BY <2>1, <2>2
<1>5. \A n \in Nodes : /\ node[n] \in NodeTerminal => nd[n] = node[n]
                       /\ nd[n] \in NodeTerminal <=> node[n] \in NodeTerminal
  BY <1>2 DEF NodeTerminal
<1>6. Behind(nd, runs)
  BY <1>1, <1>5, BehindKeeps DEF OnceInv
<1>7. Term(nd) = Term(node)
  BY <1>5 DEF Term
<1>8. NoLost(nd)
  BY <1>1 DEF OnceInv, NoLost
<1>9. OnceInv(nd, runs, ctl, running, queue)
  BY <1>1, <1>4, <1>6, <1>7, <1>8 DEF OnceInv
<1> QED BY <1>2, <1>3, <1>9

\* A workflow starts.
LEMMA StartOnce ==
    ASSUME IInv, SInv, NEW w \in Workflows, Start(w)
    PROVE  SInv'
<1> DEFINE nd == [n \in Nodes |-> IF n \in NodesOf(w) THEN "pending" ELSE node[n]]
           x == [Published(wf) EXCEPT ![w].status = "running"]
<1>0. /\ Core(node, runs, running, queue) /\ WfTyped(wf) /\ WfInv(wf, node)
      /\ node \in [Nodes -> NodeStatus] /\ wf[w].pc = "idle" /\ Schedule(w, nd, x)
      /\ NodesOf(w) \subseteq Nodes
  BY DEF IInv, Core, Typed, WfInv, Start, Nodes
<1>1. \A n \in Nodes : nd[n] = IF n \in NodesOf(w) THEN "pending" ELSE node[n]
  OBVIOUS
<1>2. nd \in [Nodes -> NodeStatus]
  BY <1>0 DEF NodeStatus
<1>3. SameLoop(wf, Published(wf)) /\ WfTyped(Published(wf))
  <2>1. SameLoop(wf, wf)
    BY DEF SameLoop
  <2> QED BY <1>0, <2>1, PublishedLoop, PublishedSame
<1>4. /\ WfTyped(x) /\ \A v \in Workflows \ {w} : x[v] = Published(wf)[v]
  BY <1>3 DEF WfTyped
<1> HIDE DEF nd, x
<1>5. Core(nd, runs, running, queue)
  BY <1>0, <1>1, <1>2, StartCore
<1>6. ASSUME Once(runs)
      PROVE  /\ OnceInv(nd, runs, ctl, running, queue)
             /\ \A n \in NodesOf(w) : nd[n] # "none"
             /\ \A v \in Workflows \ {w} : OneWf(v, x[v], nd, runs, lease)
             /\ DOMAIN lease = Nodes
  <2>1. /\ OnceInv(node, runs, ctl, running, queue) /\ WfOnce(wf, node, runs, lease)
        /\ DOMAIN lease = Nodes
    BY <1>6 DEF SInv, SBody
  <2>2. OnceInv(nd, runs, ctl, running, queue)
    BY <1>0, <1>1, <1>6, StartNodes DEF SInv
  <2>3. ASSUME NEW v \in Workflows \ {w} PROVE OneWf(v, x[v], nd, runs, lease)
    <3>1. \A n \in NodesOf(v) : n \in Nodes /\ n \notin NodesOf(w)
      BY WorkflowAssumption DEF Nodes
    <3>2. \A n \in NodesOf(v) : nd[n] = node[n]
      BY <1>1, <3>1
    <3>3. Onward(node, runs, lease, node, runs, lease)
      BY DEF Onward
    <3>4. WfOnce(Published(wf), node, runs, lease)
      BY <1>3, <2>1, <3>3, WfOnceKeeps
    <3>5. OneWf(v, x[v], node, runs, lease)
      BY <1>4, <3>4 DEF WfOnce
    <3> QED BY <3>2, <3>5 DEF OneWf
  <2>4. \A n \in NodesOf(w) : nd[n] # "none"
    BY <1>0, <1>1
  <2> QED BY <2>1, <2>2, <2>3, <2>4
<1> QED BY <1>0, <1>4, <1>5, <1>6, ScheduleOnce

\* The loop goes on.
LEMMA ResumeOnce ==
    ASSUME IInv, SInv, NEW w \in Workflows, Resume(w)
    PROVE  SInv'
<1>0. /\ Core(node, runs, running, queue) /\ WfTyped(wf)
      /\ wf[w].pc \in {"ready", "racing"} /\ Schedule(w, node, wf)
  BY DEF IInv, WfInv, Resume
<1>1. ASSUME Once(runs)
      PROVE  /\ OnceInv(node, runs, ctl, running, queue)
             /\ \A n \in NodesOf(w) : node[n] # "none"
             /\ \A v \in Workflows \ {w} : OneWf(v, wf[v], node, runs, lease)
             /\ DOMAIN lease = Nodes
  <2>1. SBody
    BY <1>1 DEF SInv
  <2>2. OneWf(w, wf[w], node, runs, lease)
    BY <2>1 DEF SBody, WfOnce
  <2>3. \A n \in NodesOf(w) : node[n] # "none"
    BY <1>0, <2>2 DEF OneWf
  <2> QED BY <2>1, <2>3 DEF SBody, WfOnce
<1> QED BY <1>0, <1>1, ScheduleOnce

-----------------------------------------------------------------------------
(* The end of a call up to a second launch.                                *)

\* Who depends on a pending node is over or pending.
LEMMA DependentWaits ==
    ASSUME IInv, Once(runs), SBody, NEW w \in Workflows, NEW x \in NodesOf(w), node[x] = "pending",
           NEW m \in Nodes, x \in DependsOn[m]
    PROVE  m \in NodesOf(w) /\ (node[m] \in NodeTerminal \/ node[m] = "pending")
<1>1. Owner(m) \in Workflows /\ m \in NodesOf(Owner(m)) /\ DependsOn[m] \subseteq NodesOf(Owner(m))
  BY OwnerTyped, SameWorkflow
<1>2. m \in NodesOf(w)
  BY <1>1, WorkflowAssumption
<1>3. OneWf(w, wf[w], node, runs, lease) /\ node[m] \in NodeStatus
  BY DEF SBody, WfOnce, IInv, Core, Typed
<1>4. node[m] # "none"
  BY <1>2, <1>3 DEF OneWf
<1>5. DOMAIN runs[m] = {}
  <2> SUFFICES ASSUME DOMAIN runs[m] # {} PROVE FALSE
    OBVIOUS
  <2>1. node[x] \in NodeTerminal
    BY DEF SBody, OnceInv, Behind
  <2> QED BY <2>1 DEF NodeTerminal
<1>6. node[m] # "running"
  BY <1>5 DEF SBody, OnceInv, OneCalls, OneCall
<1> QED BY <1>2, <1>3, <1>4, <1>6 DEF NodeStatus

\* finishNode and the failure policy give the nodes ns the status f.
FinishEnds(n, final, failed, ns, f) ==
    /\ \A m \in Nodes : AfterFinish(n, final, failed)[m] =
         IF m = n THEN (IF node[n] \in NodeTerminal THEN node[n] ELSE final)
         ELSE IF m \in ns THEN f ELSE node[m]
    /\ \/ ns = {}
       \/ /\ failed /\ FailurePolicy[n] = "fail-workflow"
          /\ ns = Pending(Owner(n), node) \ {n}
       \/ failed /\ ns = (Dependents(n) \cap Pending(Owner(n), node)) \ {n}

\* The nodes that finishNode and the failure policy end.
LEMMA AfterFinishSets ==
    ASSUME node \in [Nodes -> NodeStatus], NEW n \in Nodes, NEW final \in NodeTerminal,
           NEW failed \in BOOLEAN
    PROVE  \E ns \in SUBSET (Pending(Owner(n), node) \ {n}), f \in {"cancelled", "skipped"} :
             FinishEnds(n, final, failed, ns, f)
<1> DEFINE w == Owner(n)
           done == Finished(node, {n}, final)
           after == AfterFinish(n, final, failed)
<1>1. /\ done \in [Nodes -> NodeStatus]
      /\ done[n] = IF node[n] \in NodeTerminal THEN node[n] ELSE final
      /\ \A m \in Nodes \ {n} : done[m] = node[m]
  BY DEF Finished, NodeStatus
<1>2. Pending(w, done) = Pending(w, node) \ {n}
  <2>1. done[n] # "pending" /\ NodesOf(w) \subseteq Nodes
    BY <1>1, OwnerTyped DEF NodeTerminal, Nodes
  <2>2. \A m \in NodesOf(w) : done[m] = "pending" <=> (node[m] = "pending" /\ m # n)
    BY <1>1, <2>1
  <2> QED BY <2>2 DEF Pending
<1>3. ASSUME NEW ns \in SUBSET Pending(w, done), NEW f, after = Finished(done, ns, f)
      PROVE  /\ ns \in SUBSET (Pending(w, node) \ {n})
             /\ \A m \in Nodes : after[m] =
                  IF m = n THEN (IF node[n] \in NodeTerminal THEN node[n] ELSE final)
                  ELSE IF m \in ns THEN f ELSE node[m]
  <2>1. \A m \in ns : node[m] = "pending" /\ m # n
    BY <1>2 DEF Pending
  <2>2. "pending" \notin NodeTerminal
    BY DEF NodeTerminal
  <2>3. \A m \in Nodes : after[m] = IF m \in ns /\ done[m] \notin NodeTerminal THEN f ELSE done[m]
    BY <1>3 DEF Finished
  <2> HIDE DEF after, done
  <2> QED BY <1>1, <1>2, <2>1, <2>2, <2>3
<1>4. CASE ~failed \/ FailurePolicy[n] = "continue"
  <2>1. after = done
    BY <1>4 DEF AfterFinish
  <2>2. done = Finished(done, {}, "skipped")
    BY <1>1 DEF Finished
  <2> HIDE DEF after, done
  <2>3. {} \in SUBSET Pending(w, done) /\ after = Finished(done, {}, "skipped")
    BY <2>1, <2>2
  <2>4. /\ {} \in SUBSET (Pending(w, node) \ {n})
        /\ \A m \in Nodes : after[m] =
             IF m = n THEN (IF node[n] \in NodeTerminal THEN node[n] ELSE final)
             ELSE IF m \in {} THEN "skipped" ELSE node[m]
    BY <1>3, <2>3
  <2>5. FinishEnds(n, final, failed, {}, "skipped")
    BY <2>4 DEF after, FinishEnds
  <2> QED BY <2>4, <2>5
<1>5. CASE failed /\ FailurePolicy[n] = "fail-workflow"
  <2>1. after = Finished(done, Pending(w, done), "cancelled")
    BY <1>5 DEF AfterFinish
  <2> DEFINE ns == Pending(w, done)
  <2>2. ns \in SUBSET Pending(w, done) /\ ns = Pending(w, node) \ {n}
    BY <1>2
  <2> HIDE DEF after, done, ns
  <2>3. /\ ns \in SUBSET (Pending(w, node) \ {n})
        /\ \A m \in Nodes : after[m] =
             IF m = n THEN (IF node[n] \in NodeTerminal THEN node[n] ELSE final)
             ELSE IF m \in ns THEN "cancelled" ELSE node[m]
    BY <1>3, <2>1, <2>2 DEF ns
  <2>4. FinishEnds(n, final, failed, ns, "cancelled")
    BY <1>5, <2>2, <2>3 DEF after, FinishEnds
  <2> QED BY <2>3, <2>4
<1>6. CASE failed /\ FailurePolicy[n] \notin {"continue", "fail-workflow"}
  <2> DEFINE ns == Dependents(n) \cap Pending(w, done)
  <2>1. after = Finished(done, ns, "skipped")
    BY <1>6 DEF AfterFinish
  <2>2. ns = (Dependents(n) \cap Pending(w, node)) \ {n} /\ ns \in SUBSET Pending(w, done)
    BY <1>2
  <2> HIDE DEF after, done, ns
  <2>3. /\ ns \in SUBSET (Pending(w, node) \ {n})
        /\ \A m \in Nodes : after[m] =
             IF m = n THEN (IF node[n] \in NodeTerminal THEN node[n] ELSE final)
             ELSE IF m \in ns THEN "skipped" ELSE node[m]
    BY <1>3, <2>1, <2>2
  <2>4. FinishEnds(n, final, failed, ns, "skipped")
    BY <1>6, <2>2, <2>3 DEF after, FinishEnds
  <2> QED BY <2>3, <2>4
<1> QED BY <1>4, <1>5, <1>6

\* The call k of n has moved to the phase ph.
OnlyPhase(r, t, n, k, ph) ==
    /\ DOMAIN t[n] = DOMAIN r[n] /\ t[n][k].phase = ph
    /\ \A m \in Nodes \ {n} : t[m] = r[m]

\* A call that changes its phase leaves the others alone.
LEMMA PhaseMoves ==
    ASSUME NEW r \in [Nodes -> Seq(Run)], NEW n \in Nodes, NEW k \in DOMAIN r[n],
           NEW ph \in {"creating", "agent", "cleanup", "settled"}
    PROVE  OnlyPhase(r, WithPhase(r, n, k, ph), n, k, ph)
BY PhaseTyped DEF OnlyPhase

\* So does a call that gets its agent.
LEMMA AgentMoves ==
    ASSUME NEW r \in [Nodes -> Seq(Run)], NEW n \in Nodes, NEW k \in DOMAIN r[n]
    PROVE  OnlyPhase(r, WithAgent(r, n, k), n, k, "agent")
BY AgentTyped DEF OnlyPhase

\* The end of a call, its finally block included; q is what is left of the
\* worktree requests.
LEMMA FinishOnce ==
    ASSUME IInv, Once(runs), SBody, NEW n \in Nodes, NEW k \in DOMAIN runs[n],
           runs[n][k].phase \in {"creating", "agent"}, NEW final \in NodeTerminal, final # "lost",
           NEW failed \in BOOLEAN, failed => node[n] \notin NodeTerminal, Finish(n, k, final, failed),
           NEW q \in Seq(Nodes \X Nat), Requests(q, runs), \A i \in 1..Len(q) : q[i][1] # n
    PROVE  OnceInv(node', runs', ctl', running', q) /\ WfOnce(wf', node', runs', lease)
<1> DEFINE w == Owner(n)
           stop == failed /\ FailurePolicy[n] = "fail-workflow"
           after == AfterFinish(n, final, failed)
           r == IF stop THEN Abort(runs, Held(w, [ctl EXCEPT ![n] = 0])) ELSE runs
           x == [wf EXCEPT ![w].failure = @ \/ stop]
<1>0. /\ node \in [Nodes -> NodeStatus] /\ runs \in [Nodes -> Seq(Run)] /\ DOMAIN running = Nodes
      /\ WfTyped(wf) /\ DOMAIN ctl = Nodes /\ k = 1 /\ 1 \in DOMAIN runs[n]
      /\ w \in Workflows /\ n \in NodesOf(w)
      /\ OnceInv(node, runs, ctl, running, queue) /\ WfOnce(wf, node, runs, lease)
  BY OwnerTyped DEF IInv, Core, Typed, WfInv, SBody, OnceInv, Once
<1>1. \A m \in Nodes : OneCall(node[m], runs[m], running[m], ctl[m])
  BY <1>0 DEF OnceInv, OneCalls
<1>2. running[n] = 1 /\ node[n] # "none"
  <2>1. OneCall(node[n], runs[n], running[n], ctl[n])
    BY <1>1
  <2> QED BY <1>0, <2>1 DEF OneCall, NodeTerminal
<1>3. SameCalls(runs, r) /\ r \in [Nodes -> Seq(Run)]
  <2>1. Core(node, r, running, queue)
    BY AbortKeeps DEF IInv
  <2>2. SameCalls(runs, r)
    <3>1. CASE stop
      BY <1>0, <3>1, AbortSame
    <3>2. CASE ~stop
      BY <3>2 DEF SameCalls
    <3> QED BY <3>1, <3>2
  <2> QED BY <2>1, <2>2 DEF Core, Typed
<1>4. PICK ph \in {"cleanup", "settled"} :
        /\ node' = after
        /\ runs' = [r EXCEPT ![n][k].phase = ph]
        /\ ctl' = [ctl EXCEPT ![n] = 0]
        /\ ph = "cleanup" => running' = running
        /\ ph = "settled" => running' = [running EXCEPT ![n] = 0]
        /\ wf' = x \/ wf' = Published(x)
  <2>1. CASE runs[n][k].leased /\ after[n] # "completed"
    <3>1. /\ node' = after /\ runs' = [r EXCEPT ![n][k].phase = "cleanup"]
          /\ ctl' = [ctl EXCEPT ![n] = 0] /\ running' = running /\ wf' = x
      BY <2>1 DEF Finish
    <3> QED BY <3>1
  <2>2. CASE ~(runs[n][k].leased /\ after[n] # "completed")
    <3>1. /\ node' = after /\ runs' = [r EXCEPT ![n][k].phase = "settled"]
          /\ ctl' = [ctl EXCEPT ![n] = 0] /\ running' = [running EXCEPT ![n] = 0]
          /\ wf' = Published(x)
      BY <2>2 DEF Finish, Settle
    <3> QED BY <3>1
  <2> QED BY <2>1, <2>2
<1>5. PICK ns \in SUBSET (Pending(w, node) \ {n}), f \in {"cancelled", "skipped"} :
        /\ \A m \in Nodes : after[m] =
             IF m = n THEN (IF node[n] \in NodeTerminal THEN node[n] ELSE final)
             ELSE IF m \in ns THEN f ELSE node[m]
        /\ \/ ns = {}
           \/ stop /\ ns = Pending(w, node) \ {n}
           \/ failed /\ ns = (Dependents(n) \cap Pending(w, node)) \ {n}
  <2>1. PICK ns \in SUBSET (Pending(w, node) \ {n}), f \in {"cancelled", "skipped"} :
          FinishEnds(n, final, failed, ns, f)
    <3>1. node \in [Nodes -> NodeStatus]
      BY <1>0
    <3>2. \E ns \in SUBSET (Pending(Owner(n), node) \ {n}), f \in {"cancelled", "skipped"} :
            FinishEnds(n, final, failed, ns, f)
      BY <3>1, AfterFinishSets
    <3> QED BY <3>2
  <2> QED BY <2>1 DEF FinishEnds
<1>6. \A m \in ns : m \in NodesOf(w) /\ m \in Nodes /\ m # n /\ node[m] = "pending"
  BY <1>0, SameWorkflow DEF Pending
<1>7. ASSUME NEW m \in ns, NEW j \in DOMAIN runs[m] PROVE r[m][j].aborted
  <2>0. /\ j = 1 /\ runs[m][1].phase \in {"creating", "agent", "cleanup", "settled"}
        /\ OneCall(node[m], runs[m], running[m], ctl[m])
    BY <1>0, <1>1, <1>6, <1>7, PhaseOf DEF Once
  <2>1. ctl[m] = 1
    BY <1>6, <1>7, <2>0 DEF OneCall, NodeTerminal
  <2>2. CASE stop
    <3> DEFINE c == [ctl EXCEPT ![n] = 0]
    <3>1. c[m] = 1
      BY <1>0, <1>6, <2>1
    <3> HIDE DEF c
    <3>2. m \in {y \in NodesOf(w) : c[y] # 0}
      BY <1>6, <3>1
    <3>3. <<m, c[m]>> \in Held(w, c)
      BY <3>2 DEF Held
    <3>4. <<m, j>> \in Held(w, c) /\ m \in Nodes
      BY <1>6, <2>0, <3>1, <3>3
    <3>5. Abort(runs, Held(w, c))[m][j].aborted
      BY <1>0, <1>7, <3>4, AbortSame
    <3> QED BY <2>2, <3>5 DEF c
  <2>3. CASE failed /\ ns = (Dependents(n) \cap Pending(w, node)) \ {n}
    <3>1. Upward(Term(node)) /\ n \in Nodes \ Term(node) /\ m \in Nodes \ Term(node)
      BY <1>0, <1>6, <2>3 DEF OnceInv, Term, NodeTerminal
    <3>2. DependsOn[m] \subseteq Term(node)
      BY <1>0, <1>6, <1>7, OwnerTyped DEF OnceInv, Behind, Term
    <3>3. m \notin Dependents(n)
      BY <3>1, <3>2, NotDownstream
    <3> QED BY <2>3, <3>3
  <2> QED BY <1>5, <2>2, <2>3
<1> HIDE DEF r, after
<1>8. /\ \A m \in Nodes \ {n} : runs'[m] = r[m] /\ ctl'[m] = ctl[m] /\ running'[m] = running[m]
      /\ DOMAIN runs'[n] = DOMAIN runs[n] /\ runs'[n][1].phase = ph
      /\ DOMAIN ctl' = Nodes
      /\ ph = "cleanup" => running'[n] = 1
      /\ ph = "settled" => running'[n] = 0
  <2>1. runs' = WithPhase(r, n, k, ph) /\ ph \in {"creating", "agent", "cleanup", "settled"}
    BY <1>4 DEF WithPhase
  <2>2. k \in DOMAIN r[n] /\ r \in [Nodes -> Seq(Run)]
    BY <1>3 DEF SameCalls
  <2>3. /\ DOMAIN runs'[n] = DOMAIN r[n] /\ runs'[n][k].phase = ph
        /\ \A m \in Nodes \ {n} : runs'[m] = r[m]
    <3>1. OnlyPhase(r, WithPhase(r, n, k, ph), n, k, ph)
      BY <2>1, <2>2, PhaseMoves
    <3>2. OnlyPhase(r, runs', n, k, ph)
      BY <2>1, <3>1
    <3> QED BY <3>2 DEF OnlyPhase
  <2>4. DOMAIN ctl' = Nodes /\ \A m \in Nodes \ {n} : ctl'[m] = ctl[m]
    BY <1>0, <1>4
  <2>5. /\ \A m \in Nodes \ {n} : running'[m] = running[m]
        /\ ph = "cleanup" => running'[n] = 1
        /\ ph = "settled" => running'[n] = 0
    BY <1>0, <1>2, <1>4
  <2> QED BY <1>0, <1>3, <2>3, <2>4, <2>5 DEF SameCalls
<1>9. /\ after[n] \in NodeTerminal /\ after[n] # "lost"
      /\ \A m \in Nodes : node[m] \in NodeTerminal => after[m] = node[m]
      /\ \A m \in Nodes \ {n} : \/ m \notin ns /\ after[m] = node[m]
                                \/ m \in ns /\ after[m] \in NodeTerminal \ {"lost"}
  <2>1. "pending" \notin NodeTerminal /\ f \in NodeTerminal \ {"lost"} /\ node[n] # "lost"
    BY <1>0 DEF NodeTerminal, OnceInv, NoLost
  <2> QED BY <1>5, <1>6, <2>1
<1>10. OneCalls(after, runs', ctl', running')
  <2> SUFFICES ASSUME NEW m \in Nodes PROVE OneCall(after[m], runs'[m], running'[m], ctl'[m])
    BY DEF OneCalls
  <2>1. CASE m = n
    BY <1>0, <1>8, <1>9, <2>1 DEF OneCall
  <2>2. CASE m # n /\ m \notin ns
    <3>1. OneCall(node[m], runs[m], running[m], ctl[m])
      BY <1>1
    <3>2. OneCall(node[m], r[m], running[m], ctl[m])
      BY <1>3, <3>1 DEF OneCall, SameCalls
    <3> QED BY <1>8, <1>9, <2>2, <3>2
  <2>3. CASE m # n /\ m \in ns
    <3>1. OneCall(node[m], runs[m], running[m], ctl[m]) /\ node[m] = "pending"
      BY <1>1, <1>6, <2>3
    <3>2. /\ DOMAIN r[m] = DOMAIN runs[m] /\ after[m] \in NodeTerminal
          /\ \A j \in DOMAIN runs[m] : r[m][j].phase = runs[m][j].phase /\ r[m][j].aborted
      BY <1>3, <1>7, <1>9, <2>3 DEF SameCalls
    <3>3. OneCall(after[m], r[m], running[m], ctl[m])
      BY <3>1, <3>2 DEF OneCall, NodeTerminal
    <3> QED BY <1>8, <2>3, <3>3
  <2> QED BY <2>1, <2>2, <2>3
<1>11. \A m \in Nodes : DOMAIN runs'[m] = DOMAIN runs[m]
  BY <1>3, <1>8 DEF SameCalls
<1>12. Behind(after, runs')
  BY <1>0, <1>9, <1>11, BehindKeeps DEF OnceInv
<1>13. Upward(Term(after))
  <2> DEFINE T == Term(node) \cup {n}
             U == Term(after)
  <2>1. DependsOn[n] \subseteq Term(node)
    BY <1>0, OwnerTyped DEF OnceInv, Behind, Term
  <2>2. Upward(T)
    BY <1>0, <2>1, UpwardOne DEF OnceInv
  <2>3. U = T \cup ns
    <3>1. \A m \in Nodes : after[m] \in NodeTerminal <=> (node[m] \in NodeTerminal \/ m = n \/ m \in ns)
      BY <1>9
    <3> QED BY <1>6, <3>1 DEF Term
  <2>4. ASSUME NEW y \in U \ T, NEW m \in Nodes, y \in DependsOn[m] PROVE m \in U
    <3>1. y \in ns
      BY <2>3, <2>4
    <3>2. m \in NodesOf(w) /\ (node[m] \in NodeTerminal \/ node[m] = "pending")
      BY <1>0, <1>6, <2>4, <3>1, DependentWaits
    <3>3. CASE node[m] \in NodeTerminal \/ m = n
      BY <2>3, <3>3 DEF Term
    <3>4. CASE node[m] = "pending" /\ m # n
      <4>1. m \in Pending(w, node) \ {n}
        BY <3>2, <3>4 DEF Pending
      <4>2. y \in Dependents(n) => m \in Dependents(n)
        BY <2>4, <3>4, DependentsClosed
      <4>3. m \in ns
        BY <1>5, <3>1, <4>1, <4>2
      <4> QED BY <2>3, <4>3
    <3> QED BY <3>2, <3>3, <3>4
  <2> HIDE DEF T, U
  <2>5. T \subseteq U
    BY <2>3
  <2>6. Upward(U)
    BY <2>2, <2>4, <2>5, UpwardMore
  <2> QED BY <2>6 DEF U
<1>14. Requests(q, runs')
  <2> SUFFICES ASSUME NEW i \in 1..Len(q)
               PROVE  /\ q[i][2] = 1 /\ 1 \in DOMAIN runs'[q[i][1]]
                      /\ runs'[q[i][1]][1].phase = "creating"
    BY DEF Requests
  <2>1. q[i][1] \in Nodes \ {n}
    OBVIOUS
  <2>2. q[i][2] = 1 /\ 1 \in DOMAIN runs[q[i][1]] /\ runs[q[i][1]][1].phase = "creating"
    BY DEF Requests
  <2> QED BY <1>3, <1>8, <2>1, <2>2 DEF SameCalls
<1>15. NoLost(after)
  <2>1. NoLost(node)
    BY <1>0 DEF OnceInv
  <2> QED BY <1>9, <2>1 DEF NoLost
<1>16. OnceInv(node', runs', ctl', running', q)
  BY <1>4, <1>8, <1>10, <1>12, <1>13, <1>14, <1>15 DEF OnceInv
<1>17. Onward(node, runs, lease, after, runs', lease)
  <2> SUFFICES ASSUME NEW m \in Nodes
               PROVE  /\ after[m] = "none" <=> node[m] = "none"
                      /\ \A j \in DOMAIN runs[m] :
                           runs[m][j].phase = "settled" => runs'[m][j].phase = "settled"
    BY <1>9, <1>11 DEF Onward
  <2>1. CASE m = n
    <3>1. DOMAIN runs[m] \subseteq {1} /\ runs[m][1].phase # "settled" /\ after[m] # "none"
      BY <1>0, <1>9, <2>1 DEF Once, NodeTerminal
    <3> QED BY <1>2, <2>1, <3>1
  <2>2. CASE m # n
    <3>1. after[m] = "none" <=> node[m] = "none"
      BY <1>6, <1>9, <2>2 DEF NodeTerminal
    <3>2. runs'[m] = r[m]
      BY <1>8, <2>2
    <3> QED BY <1>3, <3>1, <3>2 DEF SameCalls
  <2> QED BY <2>1, <2>2
<1>18. SameLoop(wf, x) /\ WfTyped(x)
  BY <1>0 DEF SameLoop, WfTyped
<1> HIDE DEF x
<1>19. SameLoop(wf, wf')
  BY <1>4, <1>18, PublishedLoop
<1>20. WfOnce(wf', node', runs', lease)
  BY <1>0, <1>4, <1>17, <1>19, WfOnceKeeps
<1> QED BY <1>16, <1>20

\* A call that ends is not forgotten.
LEMMA FinishDomains ==
    ASSUME IInv, NEW n \in Nodes, NEW k \in DOMAIN runs[n], NEW final, NEW failed,
           Finish(n, k, final, failed)
    PROVE  \A m \in Nodes : DOMAIN runs'[m] = DOMAIN runs[m]
<1>0. runs \in [Nodes -> Seq(Run)] /\ Core(node, runs, running, queue)
  BY DEF IInv, Core, Typed
<1>1. PICK ph \in {"cleanup", "settled"}, r \in {runs, Abort(runs, Held(Owner(n), [ctl EXCEPT ![n] = 0]))} :
        runs' = WithPhase(r, n, k, ph)
  BY DEF Finish, Settle, WithPhase
<1>2. SameCalls(runs, r) /\ r \in [Nodes -> Seq(Run)]
  <2>1. CASE r = runs
    BY <1>0, <2>1 DEF SameCalls
  <2>2. CASE r = Abort(runs, Held(Owner(n), [ctl EXCEPT ![n] = 0]))
    <3>1. Core(node, r, running, queue)
      BY <1>0, <2>2, AbortKeeps
    <3> QED BY <1>0, <2>2, <3>1, AbortSame DEF Core, Typed
  <2> QED BY <2>1, <2>2
<1>3. k \in DOMAIN r[n] /\ ph \in {"creating", "agent", "cleanup", "settled"}
  BY <1>2 DEF SameCalls
<1>4. OnlyPhase(r, WithPhase(r, n, k, ph), n, k, ph)
  BY <1>2, <1>3, PhaseMoves
<1> QED BY <1>1, <1>2, <1>4 DEF OnlyPhase, SameCalls

\* agentPool.delegateTask returns.
LEMMA AgentEndsOnce ==
    ASSUME IInv, SInv, NEW n \in Nodes, NEW k \in DOMAIN runs[n], AgentEnds(n, k)
    PROVE  SInv'
<1>1. PICK final \in {"completed", "failed", "timed_out", "cancelled"} :
        Finish(n, k, final, final \in NodeFailure)
  <2>1. CASE k > 1
    BY <2>1 DEF AgentEnds
  <2>2. CASE ~(k > 1)
    BY <2>2 DEF AgentEnds
  <2> QED BY <2>1, <2>2
<1>2. /\ final \in NodeTerminal /\ final # "lost" /\ runs[n][k].phase = "agent"
      /\ queue' = queue /\ lease' = lease
  BY DEF AgentEnds, NodeTerminal
<1> SUFFICES ASSUME Once(runs') PROVE SBody'
  BY DEF SInv
<1>3. Once(runs)
  BY <1>1, FinishDomains DEF Once
<1>4. SBody /\ k = 1
  BY <1>3 DEF SInv, Once
<1>5. node[n] \notin NodeTerminal
  <2>1. OneCall(node[n], runs[n], running[n], ctl[n])
    BY <1>4 DEF SBody, OnceInv, OneCalls
  <2> QED BY <1>2, <1>4, <2>1 DEF OneCall, NodeTerminal
<1>6. /\ queue \in Seq(Nodes \X Nat) /\ Requests(queue, runs)
      /\ \A i \in 1..Len(queue) : queue[i][1] # n
  <2>1. queue \in Seq(Nodes \X Nat) /\ Requests(queue, runs)
    BY <1>4 DEF IInv, Core, Typed, SBody, OnceInv
  <2> QED BY <1>2, <1>4, <2>1 DEF Requests
<1>7. (final \in NodeFailure) \in BOOLEAN /\ runs[n][k].phase \in {"creating", "agent"}
  BY <1>2
<1>8. OnceInv(node', runs', ctl', running', queue) /\ WfOnce(wf', node', runs', lease)
  <2> DEFINE failed == final \in NodeFailure
  <2>1. failed \in BOOLEAN /\ (failed => node[n] \notin NodeTerminal) /\ Finish(n, k, final, failed)
    BY <1>1, <1>5
  <2> HIDE DEF failed
  <2> QED BY <1>2, <1>3, <1>4, <1>6, <1>7, <2>1, FinishOnce
<1> QED BY <1>2, <1>4, <1>8 DEF SBody

\* worktrees.create() is served: a call that was not aborted has a pending node.
LEMMA CreateOnce ==
    ASSUME IInv, SInv, NEW n \in Nodes, NEW k \in DOMAIN runs[n], CreateWorktree(n, k)
    PROVE  SInv'
<1> DEFINE q == Tail(queue)
<1>0. /\ node \in [Nodes -> NodeStatus] /\ runs \in [Nodes -> Seq(Run)] /\ DOMAIN running = Nodes
      /\ queue \in Seq(Nodes \X Nat) /\ WfTyped(wf)
      /\ queue # <<>> /\ Head(queue) = <<n, k>> /\ queue' = q
  BY DEF IInv, Core, Typed, WfInv, CreateWorktree
<1>1. /\ q \in Seq(Nodes \X Nat) /\ Len(queue) \in Nat \ {0} /\ queue[1] = <<n, k>>
      /\ \A i \in 1..Len(q) : q[i] = queue[i + 1] /\ i + 1 \in 1..Len(queue) /\ i + 1 # 1
      /\ \A i \in 1..Len(queue) : queue[i] \in Nodes \X Nat
      /\ \A i \in 1..Len(q), j \in 1..Len(q) : i # j => i + 1 # j + 1
  BY <1>0
<1> HIDE DEF q
<1> SUFFICES ASSUME Once(runs') PROVE SBody'
  BY DEF SInv
<1>2. \/ /\ Finish(n, k, IF runs[n][k].aborted THEN "cancelled" ELSE "failed", ~runs[n][k].aborted)
         /\ lease' = lease
      \/ /\ ~runs[n][k].aborted
         /\ lease' = [lease EXCEPT ![n] = "active"]
         /\ node' = [node EXCEPT ![n] = "running"]
         /\ runs' = WithAgent(runs, n, k)
         /\ wf' = Published(wf)
         /\ UNCHANGED <<ctl, running>>
  BY DEF CreateWorktree, WithAgent
<1>3. Once(runs)
  <2>1. CASE Finish(n, k, IF runs[n][k].aborted THEN "cancelled" ELSE "failed", ~runs[n][k].aborted)
    BY <2>1, FinishDomains DEF Once
  <2>2. CASE runs' = WithAgent(runs, n, k)
    <3>1. OnlyPhase(runs, WithAgent(runs, n, k), n, k, "agent")
      BY <1>0, AgentMoves
    <3>2. \A m \in Nodes : DOMAIN runs'[m] = DOMAIN runs[m]
      BY <2>2, <3>1 DEF OnlyPhase
    <3> QED BY <3>2 DEF Once
  <2> QED BY <1>2, <2>1, <2>2
<1>4. SBody /\ k = 1 /\ Requests(queue, runs)
  BY <1>3 DEF SInv, Once, SBody, OnceInv
<1>5. runs[n][1].phase = "creating" /\ OneCall(node[n], runs[n], running[n], ctl[n])
  <2>1. 1 \in 1..Len(queue) /\ queue[1][1] = n
    BY <1>1
  <2> QED BY <1>4, <2>1 DEF Requests, SBody, OnceInv, OneCalls
<1>6. Requests(q, runs) /\ \A i \in 1..Len(q) : q[i][1] # n
  <2>1. ASSUME NEW i \in 1..Len(q) PROVE q[i][1] # n
    <3>1. queue[i + 1] # queue[1] /\ queue[i + 1][2] = 1 /\ queue[i + 1] \in Nodes \X Nat
      <4>1. 1 \in 1..Len(queue) /\ i + 1 \in 1..Len(queue) /\ i + 1 # 1
        BY <1>1
      <4> QED BY <1>1, <1>4, <4>1 DEF Requests
    <3> QED BY <1>1, <1>4, <3>1
  <2>2. Requests(q, runs)
    <3>1. \A i \in 1..Len(q) : /\ q[i][2] = 1 /\ 1 \in DOMAIN runs[q[i][1]]
                               /\ runs[q[i][1]][1].phase = "creating"
      BY <1>1, <1>4 DEF Requests
    <3>2. ASSUME NEW i \in 1..Len(q), NEW j \in 1..Len(q), i # j PROVE q[i] # q[j]
      <4>1. i + 1 \in 1..Len(queue) /\ j + 1 \in 1..Len(queue) /\ i + 1 # j + 1
        BY <1>1, <3>2
      <4>2. queue[i + 1] # queue[j + 1]
        BY <1>4, <4>1 DEF Requests
      <4> QED BY <1>1, <4>2
    <3> QED BY <3>1, <3>2 DEF Requests
  <2> QED BY <2>1, <2>2
<1>7. ~runs[n][k].aborted => node[n] = "pending"
  BY <1>4, <1>5 DEF OneCall
<1>8. CASE /\ Finish(n, k, IF runs[n][k].aborted THEN "cancelled" ELSE "failed", ~runs[n][k].aborted)
           /\ lease' = lease
  <2> DEFINE final == IF runs[n][k].aborted THEN "cancelled" ELSE "failed"
             failed == ~runs[n][k].aborted
  <2>1. /\ final \in NodeTerminal /\ final # "lost" /\ failed \in BOOLEAN
        /\ failed => node[n] \notin NodeTerminal
        /\ runs[n][k].phase \in {"creating", "agent"}
    BY <1>4, <1>5, <1>7 DEF NodeTerminal
  <2>2. Finish(n, k, final, failed)
    BY <1>8
  <2> HIDE DEF final, failed
  <2>3. OnceInv(node', runs', ctl', running', q) /\ WfOnce(wf', node', runs', lease)
    BY <1>1, <1>3, <1>4, <1>6, <2>1, <2>2, FinishOnce
  <2> QED BY <1>0, <1>4, <1>8, <2>3 DEF SBody
<1>9. CASE /\ ~runs[n][k].aborted
           /\ lease' = [lease EXCEPT ![n] = "active"]
           /\ node' = [node EXCEPT ![n] = "running"]
           /\ runs' = WithAgent(runs, n, k)
           /\ wf' = Published(wf)
           /\ UNCHANGED <<ctl, running>>
  <2>1. /\ OnceInv(node, runs, ctl, running, queue) /\ WfOnce(wf, node, runs, lease)
        /\ DOMAIN lease = Nodes /\ node[n] = "pending" /\ running[n] = 1
    BY <1>4, <1>5, <1>7, <1>9 DEF SBody, OneCall
  <2>2. /\ DOMAIN runs'[n] = DOMAIN runs[n] /\ runs'[n][1].phase = "agent"
        /\ \A m \in Nodes \ {n} : runs'[m] = runs[m]
    <3>1. OnlyPhase(runs, WithAgent(runs, n, k), n, k, "agent")
      BY <1>0, AgentMoves
    <3> QED BY <1>4, <1>9, <3>1 DEF OnlyPhase
  <2>3. /\ node'[n] = "running" /\ \A m \in Nodes \ {n} : node'[m] = node[m]
        /\ DOMAIN lease' = Nodes /\ \A m \in Nodes \ {n} : lease'[m] = lease[m]
        /\ ctl' = ctl /\ running' = running
    BY <1>0, <1>9, <2>1
  <2>4. OneCalls(node', runs', ctl', running')
    <3> SUFFICES ASSUME NEW m \in Nodes PROVE OneCall(node'[m], runs'[m], running'[m], ctl'[m])
      BY DEF OneCalls
    <3>1. CASE m = n
      BY <1>4, <2>1, <2>2, <2>3, <3>1 DEF OneCall
    <3>2. CASE m # n
      BY <2>1, <2>2, <2>3, <3>2 DEF OnceInv, OneCalls
    <3> QED BY <3>1, <3>2
  <2>5. \A m \in Nodes : /\ node[m] \in NodeTerminal => node'[m] = node[m]
                         /\ node'[m] \in NodeTerminal <=> node[m] \in NodeTerminal
                         /\ DOMAIN runs'[m] = DOMAIN runs[m]
    BY <2>1, <2>2, <2>3 DEF NodeTerminal
  <2>6. Behind(node', runs')
    BY <2>1, <2>5, BehindKeeps DEF OnceInv
  <2>7. Term(node') = Term(node)
    BY <2>5 DEF Term
  <2>8. Requests(q, runs')
    <3>1. \A i \in 1..Len(q) : q[i][1] \in Nodes \ {n}
      BY <1>1, <1>6
    <3> QED BY <1>6, <2>2, <3>1 DEF Requests
  <2>9. NoLost(node')
    BY <2>1, <2>3 DEF OnceInv, NoLost
  <2>10. OnceInv(node', runs', ctl', running', queue')
    BY <1>0, <2>1, <2>3, <2>4, <2>6, <2>7, <2>8, <2>9 DEF OnceInv
  <2>11. Onward(node, runs, lease, node', runs', lease')
    <3> SUFFICES ASSUME NEW m \in Nodes
                 PROVE  /\ node'[m] = "none" <=> node[m] = "none"
                        /\ \A j \in DOMAIN runs[m] :
                             runs[m][j].phase = "settled" => runs'[m][j].phase = "settled"
                        /\ lease'[m] = "active" => \/ lease[m] = "active"
                                                   \/ \E j \in DOMAIN runs[m] : runs[m][j].phase # "settled"
      BY <2>5 DEF Onward
    <3>1. CASE m = n
      <4>1. 1 \in DOMAIN runs[m] /\ DOMAIN runs[m] \subseteq {1} /\ runs[m][1].phase # "settled"
        BY <1>3, <1>4, <1>5, <3>1 DEF Once
      <4> QED BY <2>1, <2>3, <3>1, <4>1
    <3>2. CASE m # n
      BY <2>2, <2>3, <3>2
    <3> QED BY <3>1, <3>2
  <2>12. SameLoop(wf, wf')
    <3>1. SameLoop(wf, wf)
      BY DEF SameLoop
    <3> QED BY <1>0, <1>9, <3>1, PublishedLoop
  <2>13. WfOnce(wf', node', runs', lease')
    BY <2>1, <2>11, <2>12, WfOnceKeeps
  <2> QED BY <2>3, <2>10, <2>13 DEF SBody
<1> QED BY <1>2, <1>8, <1>9

\* publish() leaves the loops where they are.
LEMMA PublishedOnce ==
    ASSUME NEW x, WfTyped(x), NEW nd, NEW rs, NEW ls, WfOnce(x, nd, rs, ls)
    PROVE  WfOnce(Published(x), nd, rs, ls)
<1>1. SameLoop(x, x) /\ Onward(nd, rs, ls, nd, rs, ls)
  BY DEF SameLoop, Onward
<1>2. SameLoop(x, Published(x))
  BY <1>1, PublishedLoop
<1> QED BY <1>1, <1>2, WfOnceKeeps

\* cleanupLease: no lease becomes active, and those it was asked for are not,
\* whether the removal worked or not.
LEMMA CleanedLeases ==
    ASSUME NEW ns, NEW l \in Cleaned(ns)
    PROVE  /\ DOMAIN l = Nodes
           /\ \A m \in Nodes : l[m] = "active" => lease[m] = "active" /\ m \notin ns
BY DEF Cleaned

\* cleanupNode is done.
LEMMA CleanupNodeOnce ==
    ASSUME IInv, SInv, NEW n \in Nodes, NEW k \in DOMAIN runs[n], CleanupNode(n, k)
    PROVE  SInv'
<1>0. /\ runs \in [Nodes -> Seq(Run)] /\ DOMAIN running = Nodes
      /\ queue \in Seq(Nodes \X Nat) /\ WfTyped(wf) /\ runs[n][k].phase = "cleanup"
      /\ runs' = WithPhase(runs, n, k, "settled") /\ running' = [running EXCEPT ![n] = 0]
      /\ lease' \in Cleaned({n}) /\ ctl' = ctl /\ wf' = Published(wf)
      /\ node' = node /\ queue' = queue
  BY DEF IInv, Core, Typed, WfInv, CleanupNode, Settle, WithPhase
<1>1. /\ \A m \in Nodes \ {n} : runs'[m] = runs[m] /\ running'[m] = running[m]
      /\ \A m \in Nodes : DOMAIN runs'[m] = DOMAIN runs[m]
      /\ runs'[n][k].phase = "settled" /\ running'[n] = 0
  <2>1. "settled" \in {"creating", "agent", "cleanup", "settled"}
    OBVIOUS
  <2>2. OnlyPhase(runs, WithPhase(runs, n, k, "settled"), n, k, "settled")
    BY <1>0, <2>1, PhaseMoves
  <2> QED BY <1>0, <2>2 DEF OnlyPhase
<1> SUFFICES ASSUME Once(runs') PROVE SBody'
  BY DEF SInv
<1>2. Once(runs)
  BY <1>1 DEF Once
<1>3. SBody /\ k = 1 /\ DOMAIN runs[n] \subseteq {1}
  BY <1>2 DEF SInv, Once
<1>4. OnceInv(node, runs, ctl, running, queue) /\ WfOnce(wf, node, runs, lease)
  BY <1>3 DEF SBody
<1>5. OneCalls(node, runs', ctl, running')
  <2> SUFFICES ASSUME NEW m \in Nodes PROVE OneCall(node[m], runs'[m], running'[m], ctl[m])
    BY DEF OneCalls
  <2>1. OneCall(node[m], runs[m], running[m], ctl[m])
    BY <1>4 DEF OnceInv, OneCalls
  <2>2. CASE m = n
    BY <1>0, <1>1, <1>3, <2>1, <2>2 DEF OneCall
  <2>3. CASE m # n
    BY <1>1, <2>1, <2>3
  <2> QED BY <2>2, <2>3
<1>6. Behind(node, runs')
  BY <1>1, <1>4, BehindKeeps DEF OnceInv
<1>7. Requests(queue, runs')
  <2>1. Requests(queue, runs)
    BY <1>4 DEF OnceInv
  <2>2. \A i \in 1..Len(queue) : queue[i][1] \in Nodes \ {n}
    BY <1>0, <1>3, <2>1 DEF Requests
  <2> QED BY <1>1, <2>1, <2>2 DEF Requests
<1>8. OnceInv(node, runs', ctl, running', queue)
  BY <1>4, <1>5, <1>6, <1>7 DEF OnceInv
<1>9. Onward(node, runs, lease, node, runs', lease')
  <2>1. \A m \in Nodes : lease'[m] = "active" => lease[m] = "active"
    BY <1>0, CleanedLeases
  <2>2. \A m \in Nodes : \A j \in DOMAIN runs[m] :
          runs[m][j].phase = "settled" => runs'[m][j].phase = "settled"
    BY <1>1, <1>3
  <2> QED BY <1>1, <2>1, <2>2 DEF Onward
<1>10. SameLoop(wf, wf')
  <2>1. SameLoop(wf, wf)
    BY DEF SameLoop
  <2> QED BY <1>0, <2>1, PublishedLoop
<1>11. WfOnce(wf', node, runs', lease')
  BY <1>4, <1>9, <1>10, WfOnceKeeps
<1>12. DOMAIN lease' = Nodes
  BY <1>0, CleanedLeases
<1> QED BY <1>0, <1>3, <1>8, <1>11, <1>12 DEF SBody

\* A cancellation ends the pending nodes and aborts the calls that wait for a
\* worktree with them.
LEMMA RequestCancelOnce ==
    ASSUME IInv, SInv, NEW ws \in SUBSET Workflows, RequestCancel(ws)
    PROVE  SInv'
<1> DEFINE open == {w \in ws : wf[w].status = "running" /\ ~wf[w].cancel}
           x == [w \in Workflows |-> IF w \in open THEN [wf[w] EXCEPT !.cancel = TRUE] ELSE wf[w]]
           ns == UNION {Pending(w, node) : w \in open}
           a == {r \in UNION {RunsOf(w) : w \in open} :
                   r[2] <= Len(runs[r[1]]) /\ runs[r[1]][r[2]].phase \in {"creating", "agent"}}
<1>0. /\ node \in [Nodes -> NodeStatus] /\ runs \in [Nodes -> Seq(Run)]
      /\ queue \in Seq(Nodes \X Nat) /\ WfTyped(wf)
  BY DEF IInv, Core, Typed, WfInv
<1>1. /\ runs' = Abort(runs, a) /\ node' = Finished(node, ns, "cancelled")
      /\ wf' = wf \/ wf' = Published(x)
      /\ ctl' = ctl /\ running' = running /\ lease' = lease /\ queue' = queue
  BY DEF RequestCancel
<1>2. SameCalls(runs, runs')
  BY <1>0, <1>1, AbortSame
<1>3. \A n \in ns : \E w \in open : n \in NodesOf(w) /\ n \in Nodes /\ node[n] = "pending"
  BY SameWorkflow DEF Pending
<1>4. /\ \A n \in ns : node'[n] = "cancelled"
      /\ \A n \in Nodes \ ns : node'[n] = node[n]
  BY <1>1, <1>3 DEF Finished, NodeTerminal
<1> SUFFICES ASSUME Once(runs') PROVE SBody'
  BY DEF SInv
<1>5. Once(runs)
  BY <1>2 DEF Once, SameCalls
<1>6. /\ SBody /\ OnceInv(node, runs, ctl, running, queue) /\ WfOnce(wf, node, runs, lease)
      /\ DOMAIN lease = Nodes
  BY <1>5 DEF SInv, SBody
<1>7. ASSUME NEW n \in ns, NEW k \in DOMAIN runs[n] PROVE runs'[n][k].aborted
  <2>1. PICK w \in open : n \in NodesOf(w) /\ n \in Nodes /\ node[n] = "pending"
    BY <1>3
  <2>2. /\ k = 1 /\ runs[n][1].phase \in {"creating", "agent", "cleanup", "settled"}
        /\ OneCall(node[n], runs[n], running[n], ctl[n])
    BY <1>0, <1>5, <1>6, <1>7, <2>1, PhaseOf DEF Once, OnceInv, OneCalls
  <2>3. runs[n][1].phase = "creating"
    BY <1>7, <2>1, <2>2 DEF OneCall, NodeTerminal
  <2>4. 1 \in 1..MaxStarts /\ 1 <= Len(runs[n])
    <3>1. runs[n] \in Seq(Run) /\ 1 \in DOMAIN runs[n]
      BY <1>0, <1>7, <2>1, <2>2
    <3> QED BY <3>1, WorkflowAssumption
  <2>5. <<n, 1>> \in RunsOf(w)
    BY <2>1, <2>4 DEF RunsOf
  <2>6. <<n, 1>> \in a
    BY <2>3, <2>4, <2>5
  <2> HIDE DEF a
  <2> QED BY <1>0, <1>1, <1>7, <2>1, <2>2, <2>6, AbortSame
<1> HIDE DEF a
<1>8. Upward(Term(node'))
  <2>1. \A n \in Nodes : node'[n] \in NodeTerminal <=> (node[n] \in NodeTerminal \/ n \in ns)
    BY <1>3, <1>4 DEF NodeTerminal
  <2>2. Term(node) \subseteq Term(node')
    BY <2>1 DEF Term
  <2>3. ASSUME NEW y \in Term(node') \ Term(node), NEW m \in Nodes, y \in DependsOn[m]
        PROVE  m \in Term(node')
    <3>1. y \in ns
      BY <2>1, <2>3 DEF Term
    <3>2. PICK w \in open : y \in NodesOf(w) /\ node[y] = "pending"
      BY <1>3, <3>1
    <3>3. w \in Workflows
      OBVIOUS
    <3>4. m \in NodesOf(w) /\ (node[m] \in NodeTerminal \/ node[m] = "pending")
      BY <1>5, <1>6, <2>3, <3>2, <3>3, DependentWaits
    <3>5. node[m] = "pending" => m \in ns
      BY <3>4 DEF Pending
    <3> QED BY <2>1, <3>4, <3>5 DEF Term
  <2>4. Upward(Term(node))
    BY <1>6 DEF OnceInv
  <2> QED BY <2>2, <2>3, <2>4, UpwardMore
<1>9. \A n \in Nodes : \/ node'[n] = node[n]
                       \/ /\ node[n] = "pending" /\ node'[n] \in NodeTerminal \ {"lost"}
                          /\ \A k \in DOMAIN runs[n] : runs'[n][k].aborted
  BY <1>3, <1>4, <1>7 DEF NodeTerminal
<1>10. WfTyped(x) /\ SameLoop(wf, x)
  BY <1>0 DEF WfTyped, SameLoop
<1> HIDE DEF ns, x
<1>11. OnceInv(node', runs', ctl, running, queue)
  BY <1>0, <1>2, <1>6, <1>8, <1>9, EndedOnce
<1>12. Onward(node, runs, lease, node', runs', lease)
  BY <1>2, <1>9 DEF Onward, SameCalls, NodeTerminal
<1>13. SameLoop(wf, wf')
  <2>1. SameLoop(wf, wf)
    BY DEF SameLoop
  <2> QED BY <1>1, <1>10, <2>1, PublishedLoop
<1>14. WfOnce(wf', node', runs', lease)
  BY <1>6, <1>12, <1>13, WfOnceKeeps
<1> QED BY <1>1, <1>6, <1>11, <1>14 DEF SBody

\* The loop is over: nothing of the workflow is under way.
LEMMA ConcludeOnce ==
    ASSUME IInv, SInv, NEW w \in Workflows, Conclude(w)
    PROVE  SInv'
<1>0. /\ WfTyped(wf) /\ wf[w].pc = "draining" /\ Drained(w)
      /\ node' = node /\ runs' = runs /\ ctl' = ctl /\ running' = running
      /\ lease' = lease /\ queue' = queue
  BY DEF IInv, WfInv, Conclude
<1> SUFFICES ASSUME Once(runs) PROVE SBody'
  BY <1>0 DEF SInv
<1>1. SBody /\ WfOnce(wf, node, runs, lease) /\ OneWf(w, wf[w], node, runs, lease)
  BY DEF SInv, SBody, WfOnce
<1>2. ASSUME NEW n \in NodesOf(w)
      PROVE  /\ node[n] \in NodeTerminal
             /\ \A k \in DOMAIN runs[n] : runs[n][k].phase = "settled"
  <2>1. node[n] \in NodeTerminal
    BY <1>0, <1>1 DEF OneWf, Ending
  <2>2. ASSUME NEW k \in DOMAIN runs[n], runs[n][k].phase # "settled" PROVE FALSE
    <3>1. <<n, k>> \in wf[w].race
      BY <1>0, <1>1, <2>2 DEF OneWf
    <3> QED BY <1>0, <2>2, <3>1 DEF Drained, Settled
  <2> QED BY <2>1, <2>2
<1>3. PICK x : /\ WfTyped(x) /\ (wf' = x \/ wf' = Published(x))
               /\ x[w].pc \in {"cleaning", "over"}
               /\ x[w].pc = "over" => x[w].status = "completed"
               /\ \A v \in Workflows \ {w} : x[v] = wf[v]
  <2> DEFINE Ends(st, pc) == [wf EXCEPT ![w].status = st, ![w].pc = pc]
  <2>1. \A st, pc : /\ WfTyped(Ends(st, pc)) /\ Ends(st, pc)[w].pc = pc
                    /\ Ends(st, pc)[w].status = st
                    /\ \A v \in Workflows \ {w} : Ends(st, pc)[v] = wf[v]
    BY <1>0 DEF WfTyped
  <2>2. \/ wf' = Published(Ends("completed", "over"))
        \/ wf' = Ends(FinalStatus(w), "cleaning")
    BY DEF Conclude
  <2> HIDE DEF Ends
  <2>3. CASE wf' = Published(Ends("completed", "over"))
    BY <2>1, <2>3
  <2>4. CASE wf' = Ends(FinalStatus(w), "cleaning")
    BY <2>1, <2>4
  <2> QED BY <2>2, <2>3, <2>4
<1>4. OneWf(w, x[w], node, runs, lease)
  <2>1. x[w].pc # "idle" /\ x[w].pc # "draining" /\ "none" \notin NodeTerminal
    BY <1>3 DEF NodeTerminal
  <2> QED BY <1>2, <1>3, <2>1 DEF OneWf
<1>5. WfOnce(x, node, runs, lease)
  BY <1>1, <1>3, <1>4 DEF WfOnce
<1>6. WfOnce(wf', node, runs, lease)
  BY <1>3, <1>5, PublishedOnce
<1> QED BY <1>0, <1>1, <1>6 DEF SBody

\* cleanupWorkflow is done.
LEMMA CleanupWorkflowOnce ==
    ASSUME IInv, SInv, NEW w \in Workflows, CleanupWorkflow(w)
    PROVE  SInv'
<1> DEFINE x == [wf EXCEPT ![w].pc = "over"]
<1>0. /\ WfTyped(wf) /\ wf[w].pc = "cleaning" /\ wf' = Published(x)
      /\ lease' \in Cleaned(NodesOf(w))
      /\ node' = node /\ runs' = runs /\ ctl' = ctl /\ running' = running /\ queue' = queue
  BY DEF IInv, WfInv, CleanupWorkflow
<1> SUFFICES ASSUME Once(runs) PROVE SBody'
  BY <1>0 DEF SInv
<1>1. SBody /\ WfOnce(wf, node, runs, lease)
  BY DEF SInv, SBody
<1>2. WfTyped(x) /\ x[w].pc = "over" /\ \A v \in Workflows \ {w} : x[v] = wf[v]
  BY <1>0 DEF WfTyped
<1> HIDE DEF x
<1>3. WfOnce(wf, node, runs, lease')
  <2>1. Onward(node, runs, lease, node, runs, lease')
    BY <1>0, CleanedLeases DEF Onward
  <2>2. SameLoop(wf, wf)
    BY DEF SameLoop
  <2> QED BY <1>1, <2>1, <2>2, WfOnceKeeps
<1>4. OneWf(w, x[w], node, runs, lease')
  <2>1. OneWf(w, wf[w], node, runs, lease') /\ NodesOf(w) \subseteq Nodes
    BY <1>3 DEF WfOnce, Nodes
  <2>2. \A n \in NodesOf(w) : lease'[n] # "active"
    BY <1>0, <2>1, CleanedLeases
  <2> QED BY <1>0, <1>2, <2>1, <2>2 DEF OneWf, Ending
<1>5. WfOnce(x, node, runs, lease')
  BY <1>2, <1>3, <1>4 DEF WfOnce
<1>6. WfOnce(wf', node, runs, lease')
  BY <1>0, <1>2, <1>5, PublishedOnce
<1>7. DOMAIN lease' = Nodes
  BY <1>0, CleanedLeases
<1> QED BY <1>0, <1>1, <1>6, <1>7 DEF SBody

\* The invariant up to a second launch holds throughout every behaviour.
THEOREM OnceInvariance == Spec => []SInv
<1>1. Init => SInv
  <2> SUFFICES ASSUME Init PROVE SBody
    BY DEF SInv
  <2>1. /\ \A n \in Nodes : /\ node[n] = "none" /\ runs[n] = <<>> /\ running[n] = 0 /\ lease[n] = "none"
                            /\ DOMAIN runs[n] = {}
        /\ DOMAIN ctl = Nodes /\ DOMAIN lease = Nodes /\ Len(queue) = 0
        /\ \A w \in Workflows : wf[w].pc = "idle" /\ NodesOf(w) \subseteq Nodes
    BY DEF Init, Idle, Nodes
  <2>2. OneCalls(node, runs, ctl, running)
    BY <2>1 DEF OneCalls, OneCall
  <2>3. Behind(node, runs) /\ NoLost(node)
    BY <2>1 DEF Behind, NoLost
  <2>4. Upward(Term(node))
    <3>1. Term(node) = {}
      BY <2>1 DEF Term, NodeTerminal
    <3> QED BY <3>1 DEF Upward
  <2>5. Requests(queue, runs)
    BY <2>1 DEF Requests
  <2>6. WfOnce(wf, node, runs, lease)
    BY <2>1 DEF WfOnce, OneWf, Ending
  <2> QED BY <2>1, <2>2, <2>3, <2>4, <2>5, <2>6 DEF SBody, OnceInv
<1>2. IInv /\ SInv /\ [Next]_vars => SInv'
  <2> SUFFICES ASSUME IInv, SInv, [Next]_vars PROVE SInv'
    OBVIOUS
  <2>1. CASE UNCHANGED vars
    BY <2>1 DEF vars, SInv, SBody
  <2>2. CASE DisposeWorktrees
    <3>1. /\ UNCHANGED <<node, runs, ctl, running, wf, queue>> /\ lease' \in Cleaned(Nodes)
      BY <2>2 DEF DisposeWorktrees
    <3>2. Onward(node, runs, lease, node, runs, lease') /\ DOMAIN lease' = Nodes
      BY <3>1, CleanedLeases DEF Onward
    <3>3. SameLoop(wf, wf)
      BY DEF SameLoop
    <3>4. WfOnce(wf, node, runs, lease) => WfOnce(wf, node, runs, lease')
      BY <3>2, <3>3, WfOnceKeeps
    <3> QED BY <3>1, <3>2, <3>4 DEF SInv, SBody
  <2>3. ASSUME NEW w \in Workflows, Start(w) PROVE SInv'
    BY <2>3, StartOnce
  <2>4. ASSUME NEW w \in Workflows, Resume(w) PROVE SInv'
    BY <2>4, ResumeOnce
  <2>5. ASSUME NEW w \in Workflows, Conclude(w) PROVE SInv'
    BY <2>5, ConcludeOnce
  <2>6. ASSUME NEW w \in Workflows, CleanupWorkflow(w) PROVE SInv'
    BY <2>6, CleanupWorkflowOnce
  <2>7. ASSUME NEW w \in Workflows, CancelWorkflow(w) PROVE SInv'
    BY <2>7, RequestCancelOnce DEF CancelWorkflow
  <2>8. CASE Dispose
    BY <2>8, RequestCancelOnce DEF Dispose
  <2>9. ASSUME NEW n \in Nodes, NEW k \in DOMAIN runs[n], CreateWorktree(n, k) PROVE SInv'
    BY <2>9, CreateOnce
  <2>10. ASSUME NEW n \in Nodes, NEW k \in DOMAIN runs[n], AgentEnds(n, k) PROVE SInv'
    BY <2>10, AgentEndsOnce
  <2>11. ASSUME NEW n \in Nodes, NEW k \in DOMAIN runs[n], CleanupNode(n, k) PROVE SInv'
    BY <2>11, CleanupNodeOnce
  <2> QED BY <2>1, <2>2, <2>3, <2>4, <2>5, <2>6, <2>7, <2>8, <2>9, <2>10, <2>11 DEF Next
<1> QED BY <1>1, <1>2, Invariance, PTL DEF Spec

\* A node is launched at most once exactly when it has at most one call.
LEMMA OnceIsLaunchedOnce ==
    ASSUME IInv
    PROVE  LaunchedOnce <=> Once(runs)
<1> SUFFICES ASSUME NEW n \in Nodes
             PROVE  Len(runs[n]) <= 1 <=> DOMAIN runs[n] \subseteq {1}
  BY DEF LaunchedOnce, Once
<1>1. runs[n] \in Seq(Run)
  BY DEF IInv, Core, Typed
<1>2. Len(runs[n]) \in Nat /\ DOMAIN runs[n] = 1..Len(runs[n])
  BY <1>1, LenProperties
<1>3. Len(runs[n]) <= 1 => DOMAIN runs[n] \subseteq {1}
  BY <1>2
<1>4. ASSUME DOMAIN runs[n] \subseteq {1} PROVE Len(runs[n]) <= 1
  <2> SUFFICES ASSUME Len(runs[n]) > 1 PROVE FALSE
    BY <1>2
  <2>1. Len(runs[n]) \in 1..Len(runs[n])
    BY <1>2
  <2> QED BY <1>2, <1>4, <2>1
<1> QED BY <1>3, <1>4

\* What the invariant says of a state in which no node was launched twice.
LEMMA OnceImplies ==
    ASSUME IInv, SInv, LaunchedOnce
    PROVE  QuietWhenOver /\ NoFalseDeadlock /\ NoWorktreeForgotten
<1>0. Once(runs)
  BY OnceIsLaunchedOnce
<1>1. /\ OnceInv(node, runs, ctl, running, queue) /\ \A w \in Workflows : OneWf(w, wf[w], node, runs, lease)
      /\ \A n \in Nodes : OneCall(node[n], runs[n], running[n], ctl[n]) /\ DOMAIN runs[n] \subseteq {1}
  BY <1>0 DEF SInv, SBody, WfOnce, OnceInv, OneCalls, Once
<1>2. ASSUME NEW n \in Nodes, AgentRunning(n)
      PROVE  /\ node[n] = "running" /\ DOMAIN runs[n] # {} /\ runs[n][1].phase = "agent" /\ 1 \in DOMAIN runs[n]
  BY <1>1, <1>2 DEF AgentRunning, OneCall
<1>3. ASSUME NEW w \in Workflows, wf[w].status \in WorkflowTerminal, NEW n \in NodesOf(w)
      PROVE  ~AgentRunning(n)
  <2>1. wf[w].pc \in {"cleaning", "over"}
    BY <1>3 DEF IInv, WfInv
  <2>2. \A k \in DOMAIN runs[n] : runs[n][k].phase = "settled"
    BY <1>1, <2>1 DEF OneWf
  <2> QED BY <2>2 DEF AgentRunning
<1>4. QuietWhenOver
  <2>1. "running" \notin NodeTerminal
    BY DEF NodeTerminal
  <2>2. \A n \in Nodes : AgentRunning(n) => \A d \in DependsOn[n] : node[d] \in NodeTerminal
    BY <1>1, <1>2 DEF OnceInv, Behind
  <2> QED BY <1>2, <1>3, <2>1, <2>2 DEF QuietWhenOver
<1>5. NoFalseDeadlock
  BY <1>1 DEF OnceInv, NoLost, NoFalseDeadlock
<1>6. NoWorktreeForgotten
  BY <1>1 DEF OneWf, NoWorktreeForgotten
<1> QED BY <1>4, <1>5, <1>6

\* NoFalseDeadlock up to a second launch: while every node was launched at
\* most once no node is given up as lost, whatever the workflows and the
\* failure policies, and however cancellations and ends of agents interleave.
THEOREM NoNodeLost == Spec => [](LaunchedOnce => NoFalseDeadlock)
<1>1. IInv /\ SInv => (LaunchedOnce => NoFalseDeadlock)
  BY OnceImplies
<1> QED BY <1>1, Invariance, OnceInvariance, PTL

\* NoWorktreeForgotten up to a second launch: a workflow that did not succeed
\* ends with no lease active, its loop having drained every call and the cleanup
\* having been tried, with success or not, for every worktree.
THEOREM WorktreesGivenUp == Spec => [](LaunchedOnce => NoWorktreeForgotten)
<1>1. IInv /\ SInv => (LaunchedOnce => NoWorktreeForgotten)
  BY OnceImplies
<1> QED BY <1>1, Invariance, OnceInvariance, PTL

\* QuietWhenOver up to a second launch, isolated nodes included: the second
\* launch is the only way to an agent of a node that is over.
THEOREM QuietUntilRelaunch == Spec => [](LaunchedOnce => QuietWhenOver)
<1>1. IInv /\ SInv => (LaunchedOnce => QuietWhenOver)
  BY OnceImplies
<1> QED BY <1>1, Invariance, OnceInvariance, PTL

-----------------------------------------------------------------------------
(* Workflows in which no node is launched twice.                           *)
(*                                                                         *)
(* A second launch needs a turn of the loop while a worktree is awaited,   *)
(* and a turn needs another call of the workflow that settles meanwhile.   *)
(* So a call of an isolated node that is the only one of its workflow is   *)
(* the only one of its node.                                               *)

\* An isolated node is before or behind every other node of its workflow.
InLine ==
    \A w \in Workflows : \A n \in NodesOf(w) : \A m \in NodesOf(w) \ {n} :
        Isolated(n) => m \in Dependents(n) \/ n \in Dependents(m)

OneAtATime == MaxConcurrency = 1 \/ InLine

\* The loop holds an isolated node alone, and launched it in this pass, in
\* which it has considered the nodes D; held is the Map at its entry.
LoopAlone(w, D, held, s) ==
    /\ Once(s.runs) /\ OnceInv(s.node, s.runs, s.ctl, s.running, s.queue)
    /\ \A n \in NodesOf(w) : Isolated(n) /\ s.running[n] # 0 =>
         n \in D /\ s.node[n] = "pending" /\ \A m \in NodesOf(w) \ {n} : s.running[m] = 0
    /\ \A n \in Nodes \ NodesOf(w) : s.running[n] = held[n]

\* A node that can be launched has no call that waits beside it, unless both
\* are in the shared workspace.
LEMMA NothingBeside ==
    ASSUME OneAtATime, NEW nd, NEW s, LoopInv(nd, s), NEW w \in Workflows, NEW D, NEW held,
           LoopAlone(w, D, held, s), NEW n \in NodesOf(w), Ready(s, n),
           ~(Cardinality(Held(w, s.running)) >= MaxConcurrency),
           NEW z \in NodesOf(w) \ {n}, s.running[z] # 0
    PROVE  ~Isolated(n) /\ ~Isolated(z)
<1>1. CASE MaxConcurrency = 1
  <2> DEFINE A == {x \in NodesOf(w) : s.running[x] # 0}
             B == Held(w, s.running)
             g == [x \in A |-> <<x, s.running[x]>>]
  <2>1. IsFiniteSet(A)
    <3>1. A \in SUBSET NodesOf(w) /\ IsFiniteSet(NodesOf(w))
      BY NodesOfFinite
    <3> QED BY <3>1, FS_Subset
  <2>2. g \in [A -> B] /\ \A t \in B : \E i \in A : g[i] = t
    BY DEF Held
  <2>3. g \in Surjection(A, B)
    BY <2>2 DEF Surjection
  <2>4. <<z, s.running[z]>> \in B
    <3>1. z \in A
      OBVIOUS
    <3> QED BY <3>1 DEF Held
  <2> HIDE DEF A, B, g
  <2>5. IsFiniteSet(B)
    BY <2>1, <2>3, FS_Surjection
  <2>6. Cardinality(B) \in Nat /\ Cardinality(B) # 0
    BY <2>4, <2>5, FS_CardinalityType, FS_EmptySet
  <2> QED BY <1>1, <2>6 DEF B
<1>2. CASE InLine
  <2> SUFFICES ASSUME Isolated(n) \/ Isolated(z) PROVE FALSE
    OBVIOUS
  <2>0. /\ n \in Nodes /\ z \in Nodes /\ OnceInv(s.node, s.runs, s.ctl, s.running, s.queue)
        /\ Core(s.node, s.runs, s.running, s.queue)
    BY SameWorkflow DEF LoopAlone, LoopInv
  <2>1. s.node[z] \notin NodeTerminal
    <3>1. CASE Isolated(z)
      BY <3>1 DEF LoopAlone, NodeTerminal
    <3>2. CASE ~Isolated(z)
      <4>1. CallOK(s.node[z], s.runs[z], s.running[z])
        BY <2>0, <3>2 DEF Core, Calls
      <4> QED BY <4>1 DEF CallOK
    <3> QED BY <3>1, <3>2
  <2>2. DOMAIN s.runs[z] # {}
    <3>1. OneCall(s.node[z], s.runs[z], s.running[z], s.ctl[z])
      BY <2>0 DEF OnceInv, OneCalls
    <3> QED BY <3>1 DEF OneCall
  <2>3. /\ DependsOn[z] \subseteq Term(s.node) /\ DependsOn[n] \subseteq Term(s.node)
        /\ z \in Nodes \ Term(s.node) /\ n \in Nodes \ Term(s.node)
        /\ Upward(Term(s.node))
    <3>1. \A d \in DependsOn[z] : s.node[d] \in NodeTerminal
      BY <2>0, <2>2 DEF OnceInv, Behind
    <3>2. s.node[n] = "pending" /\ \A d \in DependsOn[n] : s.node[d] \in NodeTerminal
      BY DEF Ready
    <3> QED BY <2>0, <2>1, <3>1, <3>2, OwnerTyped DEF Term, NodeTerminal, OnceInv
  <2>4. z \notin Dependents(n) /\ n \notin Dependents(z)
    BY <2>3, NotDownstream
  <2> QED BY <1>2, <2>4 DEF InLine
<1> QED BY <1>1, <1>2 DEF OneAtATime

\* The body of the for loop, for a node that the pass comes to for the first
\* time.
LEMMA ConsiderAlone ==
    ASSUME OneAtATime, NEW nd, NEW s, LoopInv(nd, s), NEW w \in Workflows, NEW D, NEW held,
           LoopAlone(w, D, held, s), NEW n \in NodesOf(w), n \notin D
    PROVE  LoopAlone(w, D \cup {n}, held, Consider(w, s, n))
<1> DEFINE t == Consider(w, s, n)
<1>0. /\ n \in Nodes /\ NodesOf(w) \subseteq Nodes /\ Core(s.node, s.runs, s.running, s.queue)
      /\ s.node \in [Nodes -> NodeStatus] /\ s.runs \in [Nodes -> Seq(Run)] /\ DOMAIN s.running = Nodes
      /\ Once(s.runs) /\ OnceInv(s.node, s.runs, s.ctl, s.running, s.queue)
  BY SameWorkflow DEF LoopInv, Core, Typed, LoopAlone, Nodes
<1>1. ASSUME Once(t.runs) PROVE OnceInv(t.node, t.runs, t.ctl, t.running, t.queue)
  <2>1. LoopOnce(w, s.runs, s)
    BY <1>0 DEF LoopOnce
  <2>2. LoopOnce(w, s.runs, t)
    BY <2>1, ConsiderOnce
  <2> QED BY <1>1, <2>2 DEF LoopOnce
<1>2. CASE t = s
  <2>1. LoopAlone(w, D \cup {n}, held, s)
    BY DEF LoopAlone
  <2> QED BY <1>2, <2>1
<1>3. CASE /\ t.node = [s.node EXCEPT ![n] = "skipped"]
           /\ t.runs = s.runs /\ t.running = s.running
  <2> HIDE DEF t
  <2>1. \A m \in Nodes \ {n} : t.node[m] = s.node[m]
    BY <1>0, <1>3
  <2>2. ASSUME NEW z \in NodesOf(w), Isolated(z), t.running[z] # 0
        PROVE  z \in D \cup {n} /\ t.node[z] = "pending" /\ \A m \in NodesOf(w) \ {z} : t.running[m] = 0
    <3>1. z \in D /\ s.node[z] = "pending" /\ \A m \in NodesOf(w) \ {z} : s.running[m] = 0
      BY <1>3, <2>2 DEF LoopAlone
    <3>2. z \in Nodes \ {n}
      BY <1>0, <3>1
    <3> QED BY <1>3, <2>1, <3>1, <3>2
  <2>3. \A m \in Nodes \ NodesOf(w) : t.running[m] = held[m]
    BY <1>3 DEF LoopAlone
  <2>4. Once(t.runs)
    BY <1>0, <1>3
  <2>5. OnceInv(t.node, t.runs, t.ctl, t.running, t.queue)
    BY <1>1, <2>4 DEF t
  <2>6. LoopAlone(w, D \cup {n}, held, t)
    BY <2>2, <2>3, <2>4, <2>5 DEF LoopAlone
  <2> QED BY <2>6 DEF t
<1>4. CASE /\ Ready(s, n) /\ ~(Cardinality(Held(w, s.running)) >= MaxConcurrency)
           /\ t = Launch(s, n)
  <2> HIDE DEF t
  <2>1. \A z \in NodesOf(w) \ {n} : s.running[z] # 0 => ~Isolated(n) /\ ~Isolated(z)
    BY <1>4, NothingBeside
  <2>2. DOMAIN s.runs[n] = {}
    <3> SUFFICES ASSUME DOMAIN s.runs[n] # {} PROVE FALSE
      OBVIOUS
    <3>1. /\ DOMAIN s.runs[n] = {1} /\ s.node[n] = "pending"
          /\ OneCall(s.node[n], s.runs[n], s.running[n], s.ctl[n])
      BY <1>0, <1>4 DEF Once, OnceInv, OneCalls, Ready
    <3>2. s.runs[n][1].phase \in {"creating", "agent", "cleanup", "settled"}
      BY <1>0, <3>1, PhaseOf
    <3>3. s.running[n] = 1
      BY <3>1, <3>2 DEF OneCall, NodeTerminal
    <3>4. CASE Isolated(n)
      BY <3>3, <3>4 DEF LoopAlone
    <3>5. CASE ~Isolated(n)
      <4>1. CallOK(s.node[n], s.runs[n], s.running[n])
        BY <1>0, <3>5 DEF Core, Calls
      <4> QED BY <3>1, <4>1 DEF CallOK
    <3> QED BY <3>4, <3>5
  <2>3. Once(t.runs)
    <3>1. /\ \A m \in Nodes \ {n} : t.runs[m] = s.runs[m]
          /\ DOMAIN t.runs[n] = 1..(Len(s.runs[n]) + 1)
          /\ Len(s.runs[n]) \in Nat /\ DOMAIN s.runs[n] = 1..Len(s.runs[n])
      BY <1>0, <1>4, LaunchRuns
    <3>2. Len(s.runs[n]) = 0
      <4>1. 1 \notin 1..Len(s.runs[n])
        BY <2>2, <3>1
      <4> QED BY <3>1, <4>1
    <3>3. DOMAIN t.runs[n] \subseteq {1}
      BY <3>1, <3>2
    <3> QED BY <1>0, <3>1, <3>3 DEF Once
  <2>4. OnceInv(t.node, t.runs, t.ctl, t.running, t.queue)
    BY <1>1, <2>3 DEF t
  <2>5. /\ \A m \in Nodes \ {n} : t.running[m] = s.running[m]
        /\ Isolated(n) => t.node[n] = "pending"
    <3>1. /\ t.running = [s.running EXCEPT ![n] = Len(s.runs[n]) + 1]
          /\ t.node = [s.node EXCEPT ![n] = IF Isolated(n) THEN @ ELSE "running"]
      BY <1>4 DEF Launch, LoopInv, Isolated
    <3>2. s.node[n] = "pending"
      BY <1>4 DEF Ready
    <3> QED BY <1>0, <3>1, <3>2
  <2>6. ASSUME NEW z \in NodesOf(w), Isolated(z), t.running[z] # 0
        PROVE  z \in D \cup {n} /\ t.node[z] = "pending" /\ \A m \in NodesOf(w) \ {z} : t.running[m] = 0
    <3>1. z = n
      BY <1>0, <2>1, <2>5, <2>6
    <3> QED BY <1>0, <2>1, <2>5, <2>6, <3>1
  <2>7. \A m \in Nodes \ NodesOf(w) : t.running[m] = held[m]
    BY <2>5 DEF LoopAlone
  <2>8. LoopAlone(w, D \cup {n}, held, t)
    BY <2>3, <2>4, <2>6, <2>7 DEF LoopAlone
  <2> QED BY <2>8 DEF t
<1> HIDE DEF t
<1>5. \/ t = s
      \/ /\ t.node = [s.node EXCEPT ![n] = "skipped"]
         /\ t.runs = s.runs /\ t.running = s.running
      \/ /\ Ready(s, n) /\ ~(Cardinality(Held(w, s.running)) >= MaxConcurrency)
         /\ t = Launch(s, n)
  BY <1>0, ConsiderCases DEF t
<1> QED BY <1>2, <1>3, <1>4, <1>5 DEF t

\* A pass that begins with no isolated node held.
LEMMA PassAlone ==
    ASSUME OneAtATime, NEW nd, NEW s, LoopInv(nd, s), NEW w \in Workflows, NEW held,
           LoopAlone(w, {}, held, s)
    PROVE  LoopAlone(w, NodesOf(w), held, Pass(w, s))
<1> DEFINE N == Len(Order[w])
           Seen(i) == {Order[w][j] : j \in 1..i}
<1>0. /\ N \in Nat /\ \A i \in 1..N : Order[w][i] \in NodesOf(w)
      /\ Seen(N) = NodesOf(w)
      /\ \A i, j \in 1..N : Order[w][i] = Order[w][j] => i = j
  <2>1. N \in Nat /\ DOMAIN Order[w] = 1..N
    BY WorkflowAssumption, LenProperties
  <2> QED BY <2>1, WorkflowAssumption DEF NodesOf, OnceEach
<1>1. PICK f : /\ f[0] = [s EXCEPT !.started = FALSE]
               /\ \A i \in 1..N : f[i] = Consider(w, f[i - 1], Order[w][i])
               /\ Pass(w, s) = f[N]
  BY <1>0, PassSteps
<1> HIDE DEF N
<1> DEFINE T == {i \in 0..N : LoopInv(nd, f[i]) /\ LoopAlone(w, Seen(i), held, f[i])}
<1>2. 0 \in T
  <2> DEFINE e == f[0]
  <2>1. /\ DOMAIN e = DOMAIN s /\ e.node = s.node /\ e.runs = s.runs /\ e.ctl = s.ctl
        /\ e.running = s.running /\ e.queue = s.queue /\ e.pc = s.pc
    BY <1>1 DEF LoopInv
  <2> HIDE DEF e
  <2>2. Seen(0) = {}
    OBVIOUS
  <2> HIDE DEF Seen
  <2>3. LoopInv(nd, e)
    BY <2>1 DEF LoopInv
  <2>4. LoopAlone(w, {}, held, e)
    BY <2>1 DEF LoopAlone
  <2> QED BY <1>0, <2>2, <2>3, <2>4 DEF e
<1>3. ASSUME NEW i \in 1..N, i - 1 \in T PROVE i \in T
  <2> DEFINE p == f[i - 1]
             n == Order[w][i]
  <2>0. /\ i \in 0..N /\ i \in Nat /\ i - 1 \in Nat /\ n \in NodesOf(w) /\ n \in Nodes
        /\ f[i] = Consider(w, p, n)
    BY <1>0, <1>1, SameWorkflow
  <2>1. LoopInv(nd, p) /\ LoopAlone(w, Seen(i - 1), held, p)
    BY <1>3
  <2>2. n \notin Seen(i - 1)
    <3> SUFFICES ASSUME NEW j \in 1..(i - 1), Order[w][j] = n PROVE FALSE
      OBVIOUS
    <3>1. j \in 1..N /\ j # i
      BY <1>0, <2>0
    <3> QED BY <1>0, <3>1
  <2>3. Seen(i) = Seen(i - 1) \cup {n}
    <3>1. \A j : j \in 1..i <=> (j \in 1..(i - 1) \/ j = i)
      BY <2>0
    <3> QED BY <3>1
  <2> HIDE DEF p, n, Seen
  <2>4. LoopInv(nd, f[i])
    BY <2>0, <2>1, ConsiderKeeps
  <2>5. LoopAlone(w, Seen(i), held, f[i])
    BY <2>0, <2>1, <2>2, <2>3, ConsiderAlone
  <2> QED BY <2>0, <2>4, <2>5
<1>4. \A i \in 1..N : i - 1 \in T => i \in T
  BY <1>3
<1>5. N \in T
  <2> HIDE DEF T
  <2>1. \A i \in 0..N : i \in T
    BY <1>0, <1>2, <1>4, Climb
  <2>2. N \in 0..N
    BY <1>0
  <2> QED BY <2>1, <2>2
<1> HIDE DEF Seen
<1> QED BY <1>0, <1>1, <1>5

\* The passes: the loop goes round again only while it holds nothing.
LEMMA PassesAlone ==
    ASSUME OneAtATime, NEW nd, NEW s, LoopInv(nd, s), NEW w \in Workflows, NEW held,
           LoopAlone(w, {}, held, s)
    PROVE  LoopAlone(w, NodesOf(w), held, Passes(w, s))
<1> DEFINE N == Len(Order[w])
<1>0. N \in Nat
  BY OrderTyped
<1>1. PICK f : /\ f[0] = Pass(w, s)
               /\ \A i \in 1..N : f[i] = IF Again(w, f[i - 1]) THEN Pass(w, f[i - 1]) ELSE f[i - 1]
               /\ Passes(w, s) = f[N]
  BY <1>0, PassesSteps
<1> HIDE DEF N
<1> DEFINE T == {i \in 0..N : LoopInv(nd, f[i]) /\ LoopAlone(w, NodesOf(w), held, f[i])}
<1>2. 0 \in T
  <2>1. LoopInv(nd, f[0]) /\ LoopAlone(w, NodesOf(w), held, f[0])
    BY <1>1, PassKeeps, PassAlone
  <2> QED BY <1>0, <2>1
<1>3. ASSUME NEW i \in 1..N, i - 1 \in T PROVE i \in T
  <2> DEFINE p == f[i - 1]
  <2>0. i \in 0..N /\ f[i] = IF Again(w, p) THEN Pass(w, p) ELSE p
    BY <1>0, <1>1
  <2>1. LoopInv(nd, p) /\ LoopAlone(w, NodesOf(w), held, p)
    BY <1>3
  <2> HIDE DEF p
  <2>2. CASE Again(w, p)
    <3>1. ASSUME NEW n \in NodesOf(w), p.running[n] # 0 PROVE FALSE
      <4>1. n \in {m \in NodesOf(w) : p.running[m] # 0}
        BY <3>1
      <4>2. <<n, p.running[n]>> \in Held(w, p.running)
        BY <4>1 DEF Held
      <4> QED BY <2>2, <4>2 DEF Again
    <3>2. LoopAlone(w, {}, held, p)
      BY <2>1, <3>1 DEF LoopAlone
    <3>3. LoopInv(nd, Pass(w, p)) /\ LoopAlone(w, NodesOf(w), held, Pass(w, p))
      BY <2>1, <3>2, PassKeeps, PassAlone
    <3> QED BY <2>0, <2>2, <3>3
  <2>3. CASE ~Again(w, p)
    BY <2>0, <2>1, <2>3
  <2> QED BY <2>2, <2>3
<1>4. \A i \in 1..N : i - 1 \in T => i \in T
  BY <1>3
<1>5. N \in T
  <2> HIDE DEF T
  <2>1. \A i \in 0..N : i \in T
    BY <1>0, <1>2, <1>4, Climb
  <2>2. N \in 0..N
    BY <1>0
  <2> QED BY <2>1, <2>2
<1> QED BY <1>1, <1>5

\* What the loop leaves at its await: an isolated node that it holds is the
\* only one, and the loop waits for it.
AwaitsAlone(w, held, s) ==
    /\ Once(s.runs)
    /\ \A n \in NodesOf(w) : Isolated(n) /\ s.running[n] # 0 =>
         s.pc \in {"racing", "draining"} /\ \A m \in NodesOf(w) \ {n} : s.running[m] = 0
    /\ \A n \in Nodes \ NodesOf(w) : s.running[n] = held[n]

\* One turn of execute() that is entered with no isolated node held.
LEMMA ScheduledAlone ==
    ASSUME OneAtATime, NEW nd, NEW x, NEW w \in Workflows, Core(nd, runs, running, queue),
           Once(runs), OnceInv(nd, runs, ctl, running, queue),
           \A n \in NodesOf(w) : Isolated(n) => running[n] = 0
    PROVE  AwaitsAlone(w, running, Scheduled(w, nd, x))
<1> DEFINE stop  == x[w].cancel \/ x[w].failure
           r     == IF stop THEN Abort(runs, Held(w, ctl)) ELSE runs
           enter == [node |-> nd, ctl |-> ctl, running |-> running, queue |-> queue,
                     started |-> FALSE, runs |-> r, pc |-> "draining"]
           e     == IF Over(w, enter) THEN enter ELSE Suspend(w, Passes(w, enter))
<1>0. runs \in [Nodes -> Seq(Run)] /\ queue \in Seq(Nodes \X Nat) /\ NodesOf(w) \subseteq Nodes
  BY DEF Core, Typed, Nodes
<1>1. Core(nd, r, running, queue)
  BY AbortKeeps
<1>2. /\ DOMAIN enter = {"node", "ctl", "running", "queue", "started", "runs", "pc"}
      /\ enter.node = nd /\ enter.runs = r /\ enter.running = running /\ enter.ctl = ctl
      /\ enter.queue = queue /\ enter.pc = "draining"
  OBVIOUS
<1>3. Scheduled(w, nd, x) = e
  BY ScheduledIs DEF Entered
<1>4. SameCalls(runs, r) /\ OnceInv(nd, r, ctl, running, queue)
  <2>1. CASE stop
    BY <1>0, <2>1, AbortSame, AbortOnce
  <2>2. CASE ~stop
    BY <2>2 DEF SameCalls
  <2> QED BY <2>1, <2>2
<1> HIDE DEF enter, r
<1>5. LoopInv(nd, enter)
  <2>1. Moved(nd, nd)
    BY DEF Moved
  <2> QED BY <1>1, <1>2, <2>1 DEF LoopInv
<1>6. LoopAlone(w, {}, running, enter)
  <2>1. Once(r)
    BY <1>4 DEF Once, SameCalls
  <2> QED BY <1>2, <1>4, <2>1 DEF LoopAlone
<1>7. AwaitsAlone(w, running, e)
  <2>1. CASE Over(w, enter)
    <3>1. e = enter
      BY <2>1
    <3>2. AwaitsAlone(w, running, enter)
      BY <1>2, <1>6 DEF LoopAlone, AwaitsAlone
    <3> QED BY <3>1, <3>2
  <2>2. CASE ~Over(w, enter)
    <3> DEFINE p == Passes(w, enter)
    <3>1. LoopInv(nd, p) /\ LoopAlone(w, NodesOf(w), running, p)
      BY <1>5, <1>6, PassesKeeps, PassesAlone
    <3>2. e = Suspend(w, p)
      BY <2>2
    <3> HIDE DEF p, e
    <3>3. DOMAIN p = {"node", "ctl", "running", "queue", "started", "runs", "pc"}
      BY <3>1 DEF LoopInv
    <3>4. e.runs = p.runs /\ e.running = p.running /\ (Held(w, p.running) # {} => e.pc = "racing")
      BY <3>2, <3>3 DEF Suspend
    <3>5. ASSUME NEW n \in NodesOf(w), Isolated(n), e.running[n] # 0
          PROVE  e.pc \in {"racing", "draining"} /\ \A m \in NodesOf(w) \ {n} : e.running[m] = 0
      <4>1. n \in {m \in NodesOf(w) : p.running[m] # 0}
        BY <3>4, <3>5
      <4>2. <<n, p.running[n]>> \in Held(w, p.running)
        BY <4>1 DEF Held
      <4> QED BY <3>1, <3>4, <3>5, <4>2 DEF LoopAlone
    <3> QED BY <3>1, <3>4, <3>5 DEF LoopAlone, AwaitsAlone
  <2> QED BY <2>1, <2>2
<1> QED BY <1>3, <1>7

\* While an isolated node is held its loop waits for nothing else.
Waits(w, x, held) ==
    \A n \in NodesOf(w) : Isolated(n) /\ held[n] # 0 =>
        /\ x.pc \notin {"idle", "ready", "waiting"}
        /\ x.pc = "racing" => x.race = {<<n, held[n]>>}

AInv == Once(runs) /\ \A w \in Workflows : Waits(w, wf[w], running)

\* The loops stay where they are or end.
LoopOnward(x, y) ==
    \A w \in Workflows : /\ y[w].race = x[w].race
                         /\ \/ y[w].pc = x[w].pc \/ y[w].pc \in {"cleaning", "over"}
                            \/ x[w].pc = "waiting" /\ y[w].pc = "ready"

\* publish() does.
LEMMA PublishedOnward ==
    ASSUME NEW x, NEW y, WfTyped(y), LoopOnward(x, y)
    PROVE  LoopOnward(x, Published(y))
<1>1. SameLoop(y, y)
  BY DEF SameLoop
<1>2. SameLoop(y, Published(y))
  BY <1>1, PublishedLoop
<1> QED BY <1>2 DEF SameLoop, LoopOnward

\* A step that launches nothing.
LEMMA AloneKeeps ==
    ASSUME AInv, \A n \in Nodes : DOMAIN runs'[n] = DOMAIN runs[n],
           \A n \in Nodes : running'[n] \in {running[n], 0}, LoopOnward(wf, wf')
    PROVE  AInv'
<1>1. Once(runs')
  BY DEF AInv, Once
<1>2. ASSUME NEW w \in Workflows, NEW n \in NodesOf(w), Isolated(n), running'[n] # 0
      PROVE  /\ wf'[w].pc \notin {"idle", "ready", "waiting"}
             /\ wf'[w].pc = "racing" => wf'[w].race = {<<n, running'[n]>>}
  <2>1. running'[n] = running[n]
    BY <1>2, SameWorkflow
  <2>2. /\ wf[w].pc \notin {"idle", "ready", "waiting"}
        /\ wf[w].pc = "racing" => wf[w].race = {<<n, running[n]>>}
    BY <1>2, <2>1 DEF AInv, Waits
  <2>3. /\ wf'[w].race = wf[w].race
        /\ \/ wf'[w].pc = wf[w].pc \/ wf'[w].pc \in {"cleaning", "over"}
           \/ wf[w].pc = "waiting" /\ wf'[w].pc = "ready"
    BY DEF LoopOnward
  <2> QED BY <2>1, <2>2, <2>3
<1> QED BY <1>1, <1>2 DEF AInv, Waits

\* The end of a call.
LEMMA FinishAlone ==
    ASSUME IInv, AInv, NEW n \in Nodes, NEW k \in DOMAIN runs[n], NEW final, NEW failed,
           Finish(n, k, final, failed)
    PROVE  AInv'
<1> DEFINE stop == failed /\ FailurePolicy[n] = "fail-workflow"
           x == [wf EXCEPT ![Owner(n)].failure = @ \/ stop]
<1>0. WfTyped(wf) /\ DOMAIN running = Nodes
  BY DEF IInv, Core, Typed, WfInv
<1>1. \A m \in Nodes : DOMAIN runs'[m] = DOMAIN runs[m]
  BY FinishDomains
<1>2. /\ wf' = x \/ wf' = Published(x)
      /\ running' = running \/ running' = [running EXCEPT ![n] = 0]
  BY DEF Finish, Settle
<1>3. LoopOnward(wf, x) /\ WfTyped(x)
  BY <1>0 DEF LoopOnward, WfTyped
<1> HIDE DEF x
<1>4. LoopOnward(wf, wf')
  BY <1>2, <1>3, PublishedOnward
<1>5. \A m \in Nodes : running'[m] \in {running[m], 0}
  BY <1>0, <1>2
<1> QED BY <1>1, <1>4, <1>5, AloneKeeps

\* worktrees.create(), agentPool.delegateTask and cleanupNode.
LEMMA RunNodeAlone ==
    ASSUME IInv, AInv, NEW n \in Nodes, NEW k \in DOMAIN runs[n],
           CreateWorktree(n, k) \/ AgentEnds(n, k) \/ CleanupNode(n, k)
    PROVE  AInv'
<1>0. WfTyped(wf) /\ DOMAIN running = Nodes /\ runs \in [Nodes -> Seq(Run)]
  BY DEF IInv, Core, Typed, WfInv
<1>1. LoopOnward(wf, Published(wf))
  <2>1. LoopOnward(wf, wf)
    BY DEF LoopOnward
  <2> QED BY <1>0, <2>1, PublishedOnward
<1>2. ASSUME NEW final, NEW failed, Finish(n, k, final, failed) PROVE AInv'
  BY <1>2, FinishAlone
<1>3. ASSUME NEW r, OnlyPhase(runs, r, n, k, r[n][k].phase), runs' = r, wf' = Published(wf),
             running' = running \/ running' = [running EXCEPT ![n] = 0]
      PROVE  AInv'
  <2>1. \A m \in Nodes : DOMAIN runs'[m] = DOMAIN runs[m]
    BY <1>3 DEF OnlyPhase
  <2>2. \A m \in Nodes : running'[m] \in {running[m], 0}
    BY <1>0, <1>3
  <2>3. LoopOnward(wf, wf')
    BY <1>1, <1>3
  <2> QED BY <2>1, <2>2, <2>3, AloneKeeps
<1>4. CASE CreateWorktree(n, k)
  <2>1. \/ \E final, failed : Finish(n, k, final, failed)
        \/ runs' = WithAgent(runs, n, k) /\ wf' = Published(wf) /\ running' = running
    BY <1>4 DEF CreateWorktree, WithAgent
  <2>2. ASSUME runs' = WithAgent(runs, n, k), wf' = Published(wf), running' = running PROVE AInv'
    <3>1. OnlyPhase(runs, WithAgent(runs, n, k), n, k, "agent")
      BY <1>0, AgentMoves
    <3>2. OnlyPhase(runs, runs', n, k, runs'[n][k].phase)
      BY <2>2, <3>1 DEF OnlyPhase
    <3> QED BY <1>3, <2>2, <3>2
  <2> QED BY <1>2, <2>1, <2>2
<1>5. CASE AgentEnds(n, k)
  <2>1. \E final, failed : Finish(n, k, final, failed)
    BY <1>5 DEF AgentEnds
  <2> QED BY <1>2, <2>1
<1>6. CASE CleanupNode(n, k)
  <2>1. /\ runs' = WithPhase(runs, n, k, "settled") /\ running' = [running EXCEPT ![n] = 0]
        /\ wf' = Published(wf)
    BY <1>6 DEF CleanupNode, Settle, WithPhase
  <2>2. OnlyPhase(runs, WithPhase(runs, n, k, "settled"), n, k, "settled")
    <3>1. "settled" \in {"creating", "agent", "cleanup", "settled"}
      OBVIOUS
    <3> QED BY <1>0, <3>1, PhaseMoves
  <2>3. OnlyPhase(runs, runs', n, k, runs'[n][k].phase)
    BY <2>1, <2>2 DEF OnlyPhase
  <2> QED BY <1>3, <2>1, <2>3
<1> QED BY <1>4, <1>5, <1>6

\* A cancellation and the end of a workflow.
LEMMA EndAlone ==
    ASSUME IInv, AInv,
           \/ \E ws \in SUBSET Workflows : RequestCancel(ws)
           \/ \E w \in Workflows : Conclude(w) \/ CleanupWorkflow(w)
    PROVE  AInv'
<1>0. WfTyped(wf) /\ runs \in [Nodes -> Seq(Run)]
  BY DEF IInv, Core, Typed, WfInv
<1>1. ASSUME \A n \in Nodes : DOMAIN runs'[n] = DOMAIN runs[n], running' = running,
             NEW x, WfTyped(x), LoopOnward(wf, x), wf' = x \/ wf' = Published(x)
      PROVE  AInv'
  <2>1. LoopOnward(wf, wf')
    BY <1>1, PublishedOnward
  <2> QED BY <1>1, <2>1, AloneKeeps
<1>2. ASSUME NEW ws \in SUBSET Workflows, RequestCancel(ws) PROVE AInv'
  <2> DEFINE open == {w \in ws : wf[w].status = "running" /\ ~wf[w].cancel}
             x == [w \in Workflows |-> IF w \in open THEN [wf[w] EXCEPT !.cancel = TRUE] ELSE wf[w]]
  <2>1. PICK a : runs' = Abort(runs, a)
    BY <1>2 DEF RequestCancel
  <2>2. SameCalls(runs, runs')
    BY <1>0, <2>1, AbortSame
  <2>3. running' = running /\ (wf' = wf \/ wf' = Published(x))
    BY <1>2 DEF RequestCancel
  <2>4. LoopOnward(wf, wf) /\ LoopOnward(wf, x) /\ WfTyped(x)
    BY <1>0 DEF LoopOnward, WfTyped
  <2> HIDE DEF x
  <2>5. \A n \in Nodes : DOMAIN runs'[n] = DOMAIN runs[n]
    BY <2>2 DEF SameCalls
  <2> QED BY <1>0, <1>1, <2>3, <2>4, <2>5
<1>3. ASSUME NEW w \in Workflows, Conclude(w) \/ CleanupWorkflow(w) PROVE AInv'
  <2> DEFINE Ends(st, pc) == [wf EXCEPT ![w].status = st, ![w].pc = pc]
             Over1 == [wf EXCEPT ![w].pc = "over"]
  <2>1. \A st : \A pc \in {"cleaning", "over"} : WfTyped(Ends(st, pc)) /\ LoopOnward(wf, Ends(st, pc))
    BY <1>0 DEF WfTyped, LoopOnward
  <2>2. WfTyped(Over1) /\ LoopOnward(wf, Over1)
    BY <1>0 DEF WfTyped, LoopOnward
  <2>3. /\ \/ wf' = Published(Ends("completed", "over"))
           \/ wf' = Ends(FinalStatus(w), "cleaning")
           \/ wf' = Published(Over1)
        /\ runs' = runs /\ running' = running
    BY <1>3 DEF Conclude, CleanupWorkflow
  <2> HIDE DEF Ends, Over1
  <2> QED BY <1>1, <2>1, <2>2, <2>3
<1> QED BY <1>2, <1>3

\* A turn of the loop of w that is entered with no isolated node held.
LEMMA ScheduleAlone ==
    ASSUME OneAtATime, AInv, NEW nd, NEW x, NEW w \in Workflows, Core(nd, runs, running, queue),
           WfTyped(x), \A v \in Workflows \ {w} : Waits(v, x[v], running),
           OnceInv(nd, runs, ctl, running, queue),
           \A n \in NodesOf(w) : Isolated(n) => running[n] = 0, Schedule(w, nd, x)
    PROVE  AInv'
<1> DEFINE s == Scheduled(w, nd, x)
<1>1. AwaitsAlone(w, running, s)
  BY ScheduledAlone DEF AInv
<1> HIDE DEF s
<1>2. PICK y \in {x, Published(x)} :
        /\ runs' = s.runs /\ running' = s.running
        /\ wf' = [y EXCEPT ![w].pc = s.pc, ![w].race = Held(w, s.running)]
  BY DEF Schedule, s
<1>3. SameLoop(x, y) /\ WfTyped(y)
  <2>1. SameLoop(x, x)
    BY DEF SameLoop
  <2> QED BY <2>1, PublishedLoop, PublishedSame
<1>4. /\ wf'[w].pc = s.pc /\ wf'[w].race = Held(w, s.running)
      /\ \A v \in Workflows \ {w} : wf'[v] = y[v]
  BY <1>2, <1>3 DEF WfTyped
<1>5. ASSUME NEW n \in NodesOf(w), Isolated(n), s.running[n] # 0
      PROVE  /\ wf'[w].pc \notin {"idle", "ready", "waiting"}
             /\ wf'[w].race = {<<n, s.running[n]>>}
  <2>1. s.pc \in {"racing", "draining"} /\ \A m \in NodesOf(w) \ {n} : s.running[m] = 0
    BY <1>1, <1>5 DEF AwaitsAlone
  <2>2. {m \in NodesOf(w) : s.running[m] # 0} = {n}
    BY <1>5, <2>1
  <2>3. Held(w, s.running) = {<<n, s.running[n]>>}
    BY <2>2 DEF Held
  <2> QED BY <1>4, <2>1, <2>3
<1>6. ASSUME NEW v \in Workflows \ {w} PROVE Waits(v, wf'[v], running')
  <2>1. \A n \in NodesOf(v) : s.running[n] = running[n]
    <3>1. \A n \in NodesOf(v) : n \in Nodes \ NodesOf(w)
      BY WorkflowAssumption DEF Nodes
    <3> QED BY <1>1, <3>1 DEF AwaitsAlone
  <2>2. /\ Waits(v, x[v], running) /\ y[v].race = x[v].race
        /\ y[v].pc = x[v].pc \/ (x[v].pc = "waiting" /\ y[v].pc = "ready")
    BY <1>3 DEF SameLoop
  <2>3. Waits(v, y[v], s.running)
    BY <2>1, <2>2 DEF Waits
  <2> QED BY <1>2, <1>4, <2>3
<1>7. Waits(w, wf'[w], running')
  BY <1>2, <1>5 DEF Waits
<1>8. Once(runs')
  BY <1>1, <1>2 DEF AwaitsAlone
<1> QED BY <1>6, <1>7, <1>8 DEF AInv

\* A workflow starts.
LEMMA StartAlone ==
    ASSUME OneAtATime, IInv, SInv, AInv, NEW w \in Workflows, Start(w)
    PROVE  AInv'
<1> DEFINE nd == [n \in Nodes |-> IF n \in NodesOf(w) THEN "pending" ELSE node[n]]
           x == [Published(wf) EXCEPT ![w].status = "running"]
<1>0. /\ Core(node, runs, running, queue) /\ WfTyped(wf) /\ WfInv(wf, node)
      /\ node \in [Nodes -> NodeStatus] /\ wf[w].pc = "idle" /\ Schedule(w, nd, x)
      /\ Once(runs) /\ SBody
  BY DEF IInv, Core, Typed, WfInv, Start, AInv, SInv
<1>1. \A n \in Nodes : nd[n] = IF n \in NodesOf(w) THEN "pending" ELSE node[n]
  OBVIOUS
<1>2. nd \in [Nodes -> NodeStatus]
  BY <1>0 DEF NodeStatus
<1>3. SameLoop(wf, Published(wf)) /\ WfTyped(Published(wf))
  <2>1. SameLoop(wf, wf)
    BY DEF SameLoop
  <2> QED BY <1>0, <2>1, PublishedLoop, PublishedSame
<1>4. WfTyped(x) /\ \A v \in Workflows \ {w} : x[v] = Published(wf)[v]
  BY <1>3 DEF WfTyped
<1> HIDE DEF nd, x
<1>5. Core(nd, runs, running, queue)
  BY <1>0, <1>1, <1>2, StartCore
<1>6. /\ OnceInv(nd, runs, ctl, running, queue)
      /\ \A n \in NodesOf(w) : running[n] = 0
  BY <1>0, <1>1, StartNodes
<1>7. ASSUME NEW v \in Workflows \ {w} PROVE Waits(v, x[v], running)
  <2>1. /\ Waits(v, wf[v], running) /\ x[v].race = wf[v].race
        /\ x[v].pc = wf[v].pc \/ (wf[v].pc = "waiting" /\ x[v].pc = "ready")
    BY <1>3, <1>4 DEF AInv, SameLoop
  <2> QED BY <2>1 DEF Waits
<1> QED BY <1>0, <1>4, <1>5, <1>6, <1>7, ScheduleAlone

\* The loop goes on: the call it waited for is settled.
LEMMA ResumeAlone ==
    ASSUME OneAtATime, IInv, SInv, AInv, NEW w \in Workflows, Resume(w)
    PROVE  AInv'
<1>0. /\ Core(node, runs, running, queue) /\ WfTyped(wf) /\ Schedule(w, node, wf)
      /\ Once(runs) /\ OnceInv(node, runs, ctl, running, queue)
      /\ \A v \in Workflows : Waits(v, wf[v], running)
  BY DEF IInv, WfInv, Resume, AInv, SInv, SBody
<1>1. ASSUME NEW n \in NodesOf(w), Isolated(n), running[n] # 0 PROVE FALSE
  <2>1. n \in Nodes /\ runs \in [Nodes -> Seq(Run)]
    BY <1>0, SameWorkflow DEF Core, Typed
  <2>2. wf[w].pc \notin {"idle", "ready", "waiting"} /\ (wf[w].pc = "racing" => wf[w].race = {<<n, running[n]>>})
    BY <1>0, <1>1 DEF Waits
  <2>3. Settled(runs, <<n, running[n]>>)
    BY <2>2 DEF Resume
  <2>4. runs[n][running[n]].phase = "settled"
    BY <2>3 DEF Settled
  <2>5. OneCall(node[n], runs[n], running[n], ctl[n]) /\ DOMAIN runs[n] \subseteq {1}
    BY <1>0, <2>1 DEF OnceInv, OneCalls, Once
  <2>6. 1 \in DOMAIN runs[n]
    BY <1>1, <2>5 DEF OneCall
  <2>7. runs[n][1].phase \in {"creating", "agent", "cleanup", "settled"}
    BY <2>1, <2>6, PhaseOf
  <2>8. running[n] = 1
    BY <1>1, <2>5, <2>6, <2>7 DEF OneCall
  <2> QED BY <2>4, <2>5, <2>6, <2>8 DEF OneCall
<1> QED BY <1>0, <1>1, ScheduleAlone

\* LaunchedOnce, of the definition alone: when a workflow runs one node at a
\* time, or each of its isolated nodes is before or behind every other node,
\* no node is launched twice.  The definitions without isolated nodes are
\* among these.
THEOREM NoSecondLaunch == OneAtATime => (Spec => []LaunchedOnce)
<1> SUFFICES ASSUME OneAtATime PROVE Spec => []LaunchedOnce
  OBVIOUS
<1>1. Init => AInv
  <2> SUFFICES ASSUME Init PROVE AInv
    OBVIOUS
  <2>1. \A n \in Nodes : DOMAIN runs[n] = {} /\ running[n] = 0
    BY DEF Init
  <2>2. \A w \in Workflows : NodesOf(w) \subseteq Nodes
    BY DEF Nodes
  <2> QED BY <2>1, <2>2 DEF AInv, Once, Waits
<1>2. IInv /\ SInv /\ AInv /\ [Next]_vars => AInv'
  <2> SUFFICES ASSUME IInv, SInv, AInv, [Next]_vars PROVE AInv'
    OBVIOUS
  <2>1. CASE UNCHANGED vars \/ DisposeWorktrees
    <3>1. UNCHANGED <<runs, running, wf>>
      BY <2>1 DEF vars, DisposeWorktrees
    <3> QED BY <3>1 DEF AInv
  <2>2. ASSUME NEW w \in Workflows, Start(w) PROVE AInv'
    BY <2>2, StartAlone
  <2>3. ASSUME NEW w \in Workflows, Resume(w) PROVE AInv'
    BY <2>3, ResumeAlone
  <2>4. ASSUME NEW w \in Workflows, Conclude(w) \/ CleanupWorkflow(w) PROVE AInv'
    BY <2>4, EndAlone
  <2>5. ASSUME NEW w \in Workflows, CancelWorkflow(w) PROVE AInv'
    <3>1. RequestCancel({w}) /\ {w} \in SUBSET Workflows
      BY <2>5 DEF CancelWorkflow
    <3> QED BY <3>1, EndAlone
  <2>6. CASE Dispose
    <3>1. RequestCancel(Workflows) /\ Workflows \in SUBSET Workflows
      BY <2>6 DEF Dispose
    <3> QED BY <3>1, EndAlone
  <2>7. ASSUME NEW n \in Nodes, NEW k \in DOMAIN runs[n],
               CreateWorktree(n, k) \/ AgentEnds(n, k) \/ CleanupNode(n, k)
        PROVE  AInv'
    BY <2>7, RunNodeAlone
  <2> QED BY <2>1, <2>2, <2>3, <2>4, <2>5, <2>6, <2>7 DEF Next
<1>3. IInv /\ AInv => LaunchedOnce
  BY OnceIsLaunchedOnce DEF AInv
<1> QED BY <1>1, <1>2, <1>3, Invariance, OnceInvariance, PTL DEF Spec

\* NoFalseDeadlock, NoWorktreeForgotten and QuietWhenOver of the definition alone.
THEOREM KeptWithoutRelaunch ==
    OneAtATime => (Spec => [](NoFalseDeadlock /\ NoWorktreeForgotten /\ QuietWhenOver))
<1> SUFFICES ASSUME OneAtATime
             PROVE  Spec => [](NoFalseDeadlock /\ NoWorktreeForgotten /\ QuietWhenOver)
  OBVIOUS
<1>1. Spec => []LaunchedOnce
  BY NoSecondLaunch
<1>2. IInv /\ SInv /\ LaunchedOnce => NoFalseDeadlock /\ NoWorktreeForgotten /\ QuietWhenOver
  BY OnceImplies
<1> QED BY <1>1, <1>2, Invariance, OnceInvariance, PTL
=============================================================================
