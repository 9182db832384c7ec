-------------------------- MODULE BackgroundProofs --------------------------
(***************************************************************************)
(* Theorems about BackgroundTasks, for every set of tasks and every bound: *)
(* one delivery at a time, no wake left without an owner and an unbroken   *)
(* chain of poll timers on any number of branches; at most one reception   *)
(* of a wake, the review budget and the capacity until the first branch    *)
(* switch.                                                                 *)
(***************************************************************************)
EXTENDS BackgroundTasks, TLAPS, FiniteSetTheorems, SequenceTheorems

-----------------------------------------------------------------------------
(* The inductive invariant: the shape of the state.                        *)

IsSeq(s) == s \in Seq(ToSet(s))

\* What the steps rely on in the manager's memory and in a snapshot of it.
TaskOK(task) ==
    /\ DOMAIN task = {"known", "wait", "triggers", "cursor", "unconfirmed",
                      "reviewCount", "lastReview"}
    /\ task.reviewCount \in 0..MaxReviews

MemOK(m) ==
    /\ DOMAIN m = {"branch", "tasks", "events", "keys"}
    /\ DOMAIN m.tasks = Ids
    /\ \A t \in Ids : TaskOK(m.tasks[t])
    /\ \A e \in m.events : DOMAIN e = {"key", "state"}

Settles == {"finish", "fail"}
OpKinds == {"observe", "poll", "init", "start", "attach", "wait", "logs", "cancel", "rebuild"}
             \cup Settles

OpOK(o, g) ==
    /\ o.kind \in OpKinds
    /\ o.kind \in {"observe", "start", "attach", "wait", "logs", "cancel"} => o.t \in Ids
    /\ o.kind = "rebuild" => MemOK(o.entries)
    /\ o.kind \in Settles => o.gen \in 0..g

QueueOK(q, g) == IsSeq(q) /\ \A i \in 1..Len(q) : OpOK(q[i], g)

\* Operations with one step that is awaited, and those that sweep tasks.
Solo   == {"spawned", "attached", "read", "stopped", "grace"}
Sweeps == {"observe", "apply", "review", "polled", "end"}

StepOK(s) ==
    /\ s.do \in Solo \cup Sweeps \cup {"consume"}
    /\ s.do \in Solo \cup {"observe", "apply", "review"} => s.t \in Ids

\* A step that is awaited alone has its operation to itself, and what is
\* resumed in the caller comes last, after the tasks observed.
TodoOK(q) ==
    /\ IsSeq(q)
    /\ \A i \in 1..Len(q) : StepOK(q[i])
    /\ \A i \in 1..Len(q) : q[i].do \in Solo => Len(q) = 1
    /\ \A i \in 1..Len(q) : q[i].do = "end" =>
         i = Len(q) /\ \A j \in 1..Len(q) : q[j].do \in Sweeps

InflightOK(fl, g) == \A d \in fl : d.gen \in 0..g

Shape ==
    /\ MemOK(mem) /\ MemOK(saved) /\ MemOK(mark)
    /\ QueueOK(queue, generation)
    /\ TodoOK(todo)
    /\ IsSeq(conts)
    /\ InflightOK(inflight, generation)
    /\ generation \in Nat /\ strays \in Nat /\ restarts \in Nat /\ leaf \in Nat \ {0}
    /\ DOMAIN mon = Ids
    /\ DOMAIN reviewed = Ids /\ \A t \in Ids : reviewed[t] \in Nat

-----------------------------------------------------------------------------
(* One delivery.                                                           *)

\* The deliveries of generation g in the host, and the ones that settle.
Calls(fl, g)   == {d \in fl : d.gen = g}
Settling(q, g) == {i \in 1..Len(q) : q[i].kind \in Settles /\ q[i].gen = g}
Unique(S)      == \A a, b \in S : a = b

\* One delivery of the generation g while busy is set, none while it is clear.
OneToken(q, fl, busy, g) ==
    /\ Unique(Calls(fl, g)) /\ Unique(Settling(q, g))
    /\ Calls(fl, g) = {} \/ Settling(q, g) = {}
    /\ busy <=> Calls(fl, g) # {} \/ Settling(q, g) # {}

Owns(q, fl, g, k) ==
    \/ \E d \in Calls(fl, g) : k \in d.keys
    \/ \E i \in Settling(q, g) : k \in q[i].keys

AllOwned(m, q, fl, g) ==
    \A e \in m.events : e.state = "delivered" => Owns(q, fl, g, e.key)

WakeInv == ~disposed => OneToken(queue, inflight, delivering, generation)

OwnerInv == restarts = 0 /\ ~disposed => AllOwned(mem, queue, inflight, generation)

-----------------------------------------------------------------------------
(* Until the first branch switch.                                          *)

\* The branch is what the manager holds.
NoSwitch ==
    /\ nav \in {"none", "summary"}
    /\ \A i \in 1..Len(queue) : queue[i].kind # "rebuild"
    /\ mem = saved
    /\ mem.branch = 1

\* The starts under way are of ids nobody uses.
OneStart(q) ==
    \A i, j \in 1..Len(q) :
        q[i].kind = "start" /\ q[j].kind = "start" /\ q[i].t = q[j].t => i = j

StartsInv ==
    /\ OneStart(queue)
    /\ \A i \in 1..Len(queue) : queue[i].kind = "start" =>
         /\ mon[queue[i].t] = "fresh"
         /\ \A j \in 1..Len(todo) : todo[j].do = "spawned" => todo[j].t # queue[i].t
    /\ \A i \in 1..Len(todo) :
         /\ todo[i].do = "spawned" => mon[todo[i].t] = "fresh"
         /\ todo[i].do = "attached" => /\ mon[todo[i].t] # "fresh"
                                       /\ ~mem.tasks[todo[i].t].known

\* No task is reviewed without a charge.
TasksInv ==
    \A t \in Ids :
        /\ mem.tasks[t].known => mon[t] # "fresh"
        /\ mem.tasks[t].wait => mem.tasks[t].known
        /\ ~mem.tasks[t].known => reviewed[t] = 0
        /\ reviewed[t] <= mem.tasks[t].reviewCount

\* There is room for the process that is being spawned.
CapacityInv ==
    /\ CapacityRespected
    /\ \A i \in 1..Len(todo) :
         todo[i].do = "spawned" => Cardinality(ActiveTasks(mem)) < MaxConcurrency

Distinct(m)       == \A e, f \in m.events : e.key = f.key => e = f
InState(m, k, st) == \E e \in m.events : e.key = k /\ e.state = st
Known(m, k)       == \E e \in m.events : e.key = k /\ e.state # "queued"

\* What was handed over: received, in the follow-up queue, or lost from it.
AllKeys(ds) == UNION {d.keys : d \in ds}
Handed      == accepted \cup AllKeys(followUps) \cup dropped

\* The keys of a delivery that has not settled were not handed over before,
\* except in deliveries that were rejected.
Unsettled(m, acc, ref, keys) ==
    \A k \in keys : (k \in acc => k \in ref) /\ InState(m, k, "delivered")

\* There is one event for a key, and what was consumed was handed over.
EventsOK(m, acc, ref) ==
    /\ Distinct(m)
    /\ \A k \in acc : k \in ref \/ Known(m, k)
    /\ m.keys \subseteq acc
    /\ \A e \in m.events : e.state = "consumed" => e.key \in acc

\* A key is handed over once unless a delivery of it was rejected: its event
\* is in state delivered while the delivery is in the host or its failure is
\* queued.
KeysOK(m, q, fl, acc, ref, gone, g) ==
    /\ EventsOK(m, acc, ref)
    /\ Unique(fl)
    /\ fl # {} => \A i \in 1..Len(q) : q[i].kind \notin Settles
    /\ ~gone => \A d \in fl : d.gen = g
    /\ \A d \in fl : d.branch = 1 /\ Unsettled(m, acc, ref, d.keys)
    /\ \A i \in 1..Len(q) :
         /\ q[i].kind = "finish" => q[i].keys \subseteq acc
         /\ q[i].kind = "fail" => Unsettled(m, acc, ref, q[i].keys)
         /\ q[i].kind \in Settles /\ ~gone => q[i].gen = g

\* A follow-up was not received, and no two have a key in common, except for
\* keys of rejected deliveries.
FollowOK(fs, acc, ref) ==
    /\ \A d \in fs : d.branch = 1 /\ \A k \in d.keys : k \in acc => k \in ref
    /\ \A d, e \in fs : d = e \/ \A k \in d.keys : k \in e.keys => k \in ref

KeysInv ==
    /\ KeysOK(mem, queue, inflight, Handed, refused, disposed, generation)
    /\ FollowOK(followUps, accepted, refused)
    /\ repeated \subseteq refused

FirstBranch == leaf = 1 => NoSwitch /\ StartsInv /\ TasksInv /\ CapacityInv /\ KeysInv

-----------------------------------------------------------------------------
(* The chain of poll timers: code that keeps it going in the queue, in the *)
(* running operation and in the continuations.                             *)

Polling(q) == {i \in 1..Len(q) : q[i].kind \in {"poll", "init", "rebuild"}}
Ending(q)  == {i \in 1..Len(q) : q[i].do = "end"}

ChainKept == pollTimer \/ Polling(queue) # {} \/ Ending(todo) # {} \/ conts # <<>>

OneChain ==
    /\ strays = 0
    /\ pollTimer => Polling(queue) = {} /\ Ending(todo) = {} /\ conts = <<>>
    /\ Polling(queue) # {} => Ending(todo) = {} /\ conts = <<>>
    /\ Ending(todo) # {} => conts = <<>>
    /\ Unique(Polling(queue))
    /\ Len(conts) <= 1

PollInv == ~disposed => ChainKept /\ (leaf = 1 => OneChain)

-----------------------------------------------------------------------------
(* Lemmas about sequences.                                                 *)

\* Any sequence is one of its own elements.
LEMMA OwnSeq ==
    ASSUME NEW S, NEW s \in Seq(S)
    PROVE  /\ IsSeq(s)
           /\ DOMAIN s = 1..Len(s)
           /\ Len(s) \in Nat
<1>1. /\ DOMAIN s = 1..Len(s)
      /\ Len(s) \in Nat
      /\ s \in [1..Len(s) -> S]
    BY LenProperties
<1>2. s \in [1..Len(s) -> ToSet(s)]
    BY <1>1 DEF ToSet
<1>. QED
    BY <1>1, <1>2, SeqDef DEF IsSeq

\* The parts of a sequence.
LEMMA SeqParts ==
    ASSUME NEW s, IsSeq(s)
    PROVE  /\ DOMAIN s = 1..Len(s)
           /\ Len(s) \in Nat
           /\ s = <<>> <=> Len(s) = 0
           /\ s # <<>> => Len(s) >= 1 /\ 1 \in 1..Len(s) /\ Head(s) = s[1]
BY LenProperties, EmptySeq DEF IsSeq

\* The empty sequence.
LEMMA EmptyIsSeq == IsSeq(<<>>) /\ Len(<<>>) = 0
BY OwnSeq, EmptySeq

\* A sequence of one.
LEMMA SingleIsSeq ==
    ASSUME NEW x
    PROVE  IsSeq(<<x>>) /\ Len(<<x>>) = 1 /\ <<x>>[1] = x
<1>1. <<x>> \in Seq({x})
    OBVIOUS
<1>. QED
    BY <1>1, OwnSeq

\* A sequence of two.
LEMMA PairIsSeq ==
    ASSUME NEW x, NEW y
    PROVE  IsSeq(<<x, y>>) /\ Len(<<x, y>>) = 2 /\ <<x, y>>[1] = x /\ <<x, y>>[2] = y
<1>1. <<x, y>> \in Seq({x, y})
    OBVIOUS
<1>. QED
    BY <1>1, OwnSeq

\* One element more.
LEMMA AppendSeq ==
    ASSUME NEW s, IsSeq(s), NEW x
    PROVE  /\ IsSeq(Append(s, x))
           /\ Len(Append(s, x)) = Len(s) + 1
           /\ \A i \in 1..Len(s) : Append(s, x)[i] = s[i]
           /\ Append(s, x)[Len(s) + 1] = x
           /\ Append(s, x) # <<>>
<1>. DEFINE S == ToSet(s) \cup {x}
<1>1. s \in Seq(S)
    BY LenProperties, SeqDef DEF IsSeq, ToSet
<1>. HIDE DEF S
<1>2. x \in S
    BY DEF S
<1>3. Append(s, x) \in Seq(S)
    BY <1>1, <1>2, AppendProperties
<1>4. IsSeq(Append(s, x))
    BY <1>3, OwnSeq
<1>5. Len(s) \in Nat
    BY SeqParts
<1>6. /\ Len(Append(s, x)) = Len(s) + 1
      /\ \A i \in 1..Len(s) : Append(s, x)[i] = s[i]
      /\ Append(s, x)[Len(s) + 1] = x
    BY <1>1, <1>2, AppendProperties
<1>. QED
    BY <1>4, <1>5, <1>6, SeqParts

\* The first element less.
LEMMA TailSeq ==
    ASSUME NEW s, IsSeq(s), s # <<>>
    PROVE  /\ IsSeq(Tail(s))
           /\ Len(Tail(s)) = Len(s) - 1
           /\ \A i \in 1..(Len(s) - 1) : i + 1 \in 1..Len(s) /\ Tail(s)[i] = s[i + 1]
<1>1. s \in Seq(ToSet(s)) /\ Len(s) \in Nat
    BY SeqParts DEF IsSeq
<1>2. Tail(s) \in Seq(ToSet(s)) /\ Len(Tail(s)) = Len(s) - 1
    BY <1>1, HeadTailProperties
<1>3. \A i \in 1..(Len(s) - 1) : Tail(s)[i] = s[i + 1]
    BY <1>1, <1>2, HeadTailProperties
<1>4. IsSeq(Tail(s))
    BY <1>2, OwnSeq
<1>5. \A i \in 1..(Len(s) - 1) : i + 1 \in 1..Len(s)
    BY <1>1
<1>. QED
    BY <1>2, <1>3, <1>4, <1>5

\* One sequence after another.
LEMMA ConcatSeq ==
    ASSUME NEW s, NEW r, IsSeq(s), IsSeq(r)
    PROVE  /\ IsSeq(s \o r)
           /\ Len(s \o r) = Len(s) + Len(r)
           /\ \A i \in 1..Len(s) : (s \o r)[i] = s[i]
           /\ \A i \in 1..Len(r) : (s \o r)[Len(s) + i] = r[i]
<1>. DEFINE S == ToSet(s) \cup ToSet(r)
<1>1. s \in Seq(S) /\ r \in Seq(S)
    BY LenProperties, SeqDef DEF IsSeq, ToSet
<1>. HIDE DEF S
<1>2. s \o r \in Seq(S)
    BY <1>1
<1>3. IsSeq(s \o r)
    BY <1>2, OwnSeq
<1>4. Len(s) \in Nat /\ Len(r) \in Nat
    BY SeqParts
<1>5. /\ Len(s \o r) = Len(s) + Len(r)
      /\ \A i \in 1..(Len(s) + Len(r)) :
           (s \o r)[i] = IF i <= Len(s) THEN s[i] ELSE r[i - Len(s)]
    BY <1>1, ConcatProperties
<1>6. \A i \in 1..Len(s) : (s \o r)[i] = s[i]
    BY <1>4, <1>5
<1>7. ASSUME NEW i \in 1..Len(r)
      PROVE  (s \o r)[Len(s) + i] = r[i]
    <2>1. Len(s) + i \in 1..(Len(s) + Len(r)) /\ ~(Len(s) + i <= Len(s)) /\ (Len(s) + i) - Len(s) = i
        BY <1>4
    <2>. QED
        BY <1>5, <2>1
<1>. QED
    BY <1>3, <1>5, <1>6, <1>7

-----------------------------------------------------------------------------
(* Lemmas about the queue and the running operation.                       *)

\* An operation enters the queue.
LEMMA QueueAppend ==
    ASSUME NEW q, NEW g, QueueOK(q, g), NEW o, OpOK(o, g)
    PROVE  QueueOK(Append(q, o), g)
<1>1. IsSeq(q) /\ Len(q) \in Nat
    BY SeqParts DEF QueueOK
<1>2. /\ IsSeq(Append(q, o)) /\ Len(Append(q, o)) = Len(q) + 1
      /\ \A i \in 1..Len(q) : Append(q, o)[i] = q[i]
      /\ Append(q, o)[Len(q) + 1] = o
    BY <1>1, AppendSeq
<1>3. ASSUME NEW i \in 1..(Len(q) + 1)
      PROVE  OpOK(Append(q, o)[i], g)
    <2>1. i \in 1..Len(q) \/ i = Len(q) + 1
        BY <1>1
    <2>. QED
        BY <1>2, <2>1 DEF QueueOK
<1>. QED
    BY <1>2, <1>3 DEF QueueOK

\* The first operation leaves the queue.
LEMMA QueueTail ==
    ASSUME NEW q, NEW g, QueueOK(q, g), q # <<>>
    PROVE  QueueOK(Tail(q), g) /\ OpOK(Head(q), g)
<1>1. IsSeq(q)
    BY DEF QueueOK
<1>2. /\ IsSeq(Tail(q)) /\ Len(Tail(q)) = Len(q) - 1
      /\ \A i \in 1..(Len(q) - 1) : i + 1 \in 1..Len(q) /\ Tail(q)[i] = q[i + 1]
    BY <1>1, TailSeq
<1>3. 1 \in 1..Len(q) /\ Head(q) = q[1]
    BY <1>1, SeqParts
<1>. QED
    BY <1>2, <1>3 DEF QueueOK

\* The queue in the next generation.
LEMMA QueueLater ==
    ASSUME NEW q, NEW g \in Nat, QueueOK(q, g)
    PROVE  QueueOK(q, g + 1)
<1>1. ASSUME NEW o, OpOK(o, g)
      PROVE  OpOK(o, g + 1)
    BY <1>1 DEF OpOK
<1>. QED
    BY <1>1 DEF QueueOK

\* Nothing left to do.
LEMMA TodoNone == TodoOK(<<>>)
BY EmptyIsSeq DEF TodoOK

\* One step left to do.
LEMMA TodoSingle ==
    ASSUME NEW s, StepOK(s)
    PROVE  TodoOK(<<s>>)
<1>1. IsSeq(<<s>>) /\ Len(<<s>>) = 1 /\ <<s>>[1] = s
    BY SingleIsSeq
<1>2. \A i \in 1..1 : i = 1
    OBVIOUS
<1>. QED
    BY <1>1, <1>2 DEF TodoOK, Sweeps

\* Two steps left to do.
LEMMA TodoPair ==
    ASSUME NEW a, NEW b, StepOK(a), StepOK(b), {a.do, b.do} \cap (Solo \cup {"end"}) = {}
    PROVE  TodoOK(<<a, b>>)
<1>1. IsSeq(<<a, b>>) /\ Len(<<a, b>>) = 2 /\ <<a, b>>[1] = a /\ <<a, b>>[2] = b
    BY PairIsSeq
<1>2. \A i \in 1..2 : i = 1 \/ i = 2
    OBVIOUS
<1>3. a.do \notin Solo /\ b.do \notin Solo /\ a.do # "end" /\ b.do # "end"
    OBVIOUS
<1>. QED
    BY <1>1, <1>2, <1>3 DEF TodoOK

\* The first step is done.
LEMMA TodoTail ==
    ASSUME NEW q, TodoOK(q), q # <<>>
    PROVE  /\ TodoOK(Tail(q))
           /\ <<>> \o Tail(q) = Tail(q)
           /\ StepOK(Head(q))
<1>1. IsSeq(q) /\ Len(q) \in Nat
    BY SeqParts DEF TodoOK
<1>2. /\ IsSeq(Tail(q)) /\ Len(Tail(q)) = Len(q) - 1
      /\ \A i \in 1..(Len(q) - 1) : i + 1 \in 1..Len(q) /\ Tail(q)[i] = q[i + 1]
    BY <1>1, TailSeq
<1>3. 1 \in 1..Len(q) /\ Head(q) = q[1]
    BY <1>1, SeqParts
<1>4. ASSUME NEW i \in 1..(Len(q) - 1)
      PROVE  /\ StepOK(Tail(q)[i])
             /\ Tail(q)[i].do \in Solo => Len(q) - 1 = 1
             /\ Tail(q)[i].do = "end" =>
                  i = Len(q) - 1 /\ \A j \in 1..(Len(q) - 1) : Tail(q)[j].do \in Sweeps
    <2>1. i + 1 \in 1..Len(q) /\ Tail(q)[i] = q[i + 1]
        BY <1>2
    <2>2. StepOK(q[i + 1])
        BY <2>1 DEF TodoOK
    <2>3. q[i + 1].do \in Solo => Len(q) = 1
        BY <2>1 DEF TodoOK
    <2>4. q[i + 1].do = "end" => i + 1 = Len(q) /\ \A j \in 1..Len(q) : q[j].do \in Sweeps
        BY <2>1 DEF TodoOK
    <2>5. Tail(q)[i].do \in Solo => Len(q) - 1 = 1
        BY <1>1, <2>1, <2>3
    <2>6. ASSUME Tail(q)[i].do = "end"
          PROVE  i = Len(q) - 1 /\ \A j \in 1..(Len(q) - 1) : Tail(q)[j].do \in Sweeps
        <3>1. i + 1 = Len(q) /\ \A j \in 1..Len(q) : q[j].do \in Sweeps
            BY <2>1, <2>4, <2>6
        <3>2. i = Len(q) - 1
            BY <1>1, <3>1
        <3>. QED
            BY <1>2, <3>1, <3>2
    <2>. QED
        BY <2>1, <2>2, <2>5, <2>6
<1>5. <<>> \o Tail(q) = Tail(q)
    BY <1>2, ConcatEmptySeq DEF IsSeq
<1>. QED
    BY <1>2, <1>3, <1>4, <1>5 DEF TodoOK

\* An operation that waits alone ends with its step.
LEMMA TodoSolo ==
    ASSUME NEW q, TodoOK(q), q # <<>>, Head(q).do \in Solo
    PROVE  Len(q) = 1 /\ q[1] = Head(q) /\ Tail(q) = <<>>
<1>1. IsSeq(q) /\ Len(q) \in Nat /\ 1 \in 1..Len(q) /\ Head(q) = q[1]
    BY SeqParts DEF TodoOK
<1>2. Len(q) = 1
    BY <1>1 DEF TodoOK
<1>3. IsSeq(Tail(q)) /\ Len(Tail(q)) = 0
    BY <1>1, <1>2, TailSeq
<1>. QED
    BY <1>1, <1>2, <1>3, SeqParts

\* The first step of a sweep is followed by another half of it.
LEMMA TodoReplace ==
    ASSUME NEW q, TodoOK(q), q # <<>>, Head(q).do \notin Solo, Head(q).do # "end",
           NEW s, StepOK(s), s.do \in Sweeps \ {"end"}
    PROVE  /\ TodoOK(<<s>> \o Tail(q))
           /\ Len(<<s>> \o Tail(q)) = Len(q)
           /\ (<<s>> \o Tail(q))[1] = s
           /\ \A i \in 2..Len(q) : (<<s>> \o Tail(q))[i] = q[i]
<1>. DEFINE p == <<s>> \o Tail(q)
<1>1. IsSeq(q) /\ Len(q) \in Nat /\ Len(q) >= 1 /\ Head(q) = q[1] /\ 1 \in 1..Len(q)
    BY SeqParts DEF TodoOK
<1>2. /\ IsSeq(Tail(q)) /\ Len(Tail(q)) = Len(q) - 1
      /\ \A i \in 1..(Len(q) - 1) : i + 1 \in 1..Len(q) /\ Tail(q)[i] = q[i + 1]
    BY <1>1, TailSeq
<1>3. IsSeq(<<s>>) /\ Len(<<s>>) = 1 /\ <<s>>[1] = s
    BY SingleIsSeq
<1>4. /\ IsSeq(p) /\ Len(p) = 1 + (Len(q) - 1)
      /\ p[1] = s
      /\ \A i \in 1..(Len(q) - 1) : p[1 + i] = Tail(q)[i]
    BY <1>2, <1>3, ConcatSeq
<1>. HIDE DEF p
<1>5. Len(p) = Len(q)
    BY <1>1, <1>4
<1>6. ASSUME NEW i \in 2..Len(q)
      PROVE  p[i] = q[i]
    <2>1. i - 1 \in 1..(Len(q) - 1) /\ 1 + (i - 1) = i /\ (i - 1) + 1 = i
        BY <1>1
    <2>. QED
        BY <1>2, <1>4, <2>1
<1>7. \A i \in 1..Len(q) : q[i].do \notin Solo
    <2>1. SUFFICES ASSUME NEW i \in 1..Len(q), q[i].do \in Solo PROVE FALSE
        OBVIOUS
    <2>2. Len(q) = 1
        BY <2>1 DEF TodoOK
    <2>3. i = 1
        BY <2>2
    <2>. QED
        BY <1>1, <2>1, <2>3
<1>8. ASSUME NEW i \in 1..Len(q)
      PROVE  /\ StepOK(p[i]) /\ p[i].do \notin Solo
             /\ p[i].do = "end" => i = Len(q) /\ \A j \in 1..Len(q) : p[j].do \in Sweeps
    <2>1. \A j \in 1..Len(q) : j = 1 \/ j \in 2..Len(q)
        BY <1>1
    <2>2. s.do \notin Solo /\ s.do # "end" /\ s.do \in Sweeps
        BY DEF Solo, Sweeps
    <2>3. CASE i = 1
        BY <1>4, <2>2, <2>3
    <2>4. CASE i \in 2..Len(q)
        <3>1. p[i] = q[i] /\ StepOK(q[i])
            BY <1>6, <2>4 DEF TodoOK
        <3>2. ASSUME q[i].do = "end"
              PROVE  i = Len(q) /\ \A j \in 1..Len(q) : q[j].do \in Sweeps
            BY <3>2 DEF TodoOK
        <3>. QED
            BY <1>4, <1>6, <1>7, <2>1, <2>2, <3>1, <3>2
    <2>. QED
        BY <2>1, <2>3, <2>4
<1>9. TodoOK(p)
    BY <1>4, <1>5, <1>8 DEF TodoOK
<1>. QED
    BY <1>4, <1>5, <1>6, <1>9 DEF p

\* The steps of a sweep and the return to its caller.
LEMMA TodoSweep ==
    ASSUME NEW r, IsSeq(r),
           \A i \in 1..Len(r) : StepOK(r[i]) /\ r[i].do \in {"observe", "polled"},
           NEW s, s.do = "end"
    PROVE  /\ TodoOK(r \o <<s>>)
           /\ Len(r \o <<s>>) = Len(r) + 1
           /\ (r \o <<s>>)[Len(r) + 1] = s
           /\ \A i \in 1..Len(r) : (r \o <<s>>)[i] = r[i]
<1>. DEFINE p == r \o <<s>>
<1>1. IsSeq(<<s>>) /\ Len(<<s>>) = 1 /\ <<s>>[1] = s /\ Len(r) \in Nat
    BY SingleIsSeq, SeqParts
<1>2. /\ IsSeq(p) /\ Len(p) = Len(r) + 1
      /\ \A i \in 1..Len(r) : p[i] = r[i]
      /\ p[Len(r) + 1] = s
    BY <1>1, ConcatSeq
<1>. HIDE DEF p
<1>3. \A i \in 1..(Len(r) + 1) : i \in 1..Len(r) \/ i = Len(r) + 1
    BY <1>1
<1>4. StepOK(s)
    BY DEF StepOK, Solo, Sweeps
<1>5. \A i \in 1..(Len(r) + 1) : StepOK(p[i]) /\ p[i].do \in Sweeps
    BY <1>2, <1>3, <1>4 DEF Sweeps
<1>6. \A i \in 1..(Len(r) + 1) : p[i].do \notin Solo
    BY <1>5 DEF Solo, Sweeps
<1>7. \A i \in 1..(Len(r) + 1) : p[i].do = "end" => i = Len(r) + 1
    BY <1>2, <1>3
<1>8. TodoOK(p)
    BY <1>2, <1>5, <1>6, <1>7 DEF TodoOK
<1>. QED
    BY <1>2, <1>8 DEF p

\* A finite set is listed by SetToSeq.
LEMMA Listed ==
    ASSUME NEW S, IsFiniteSet(S)
    PROVE  IsSeq(SetToSeq(S)) /\ \A i \in 1..Len(SetToSeq(S)) : SetToSeq(S)[i] \in S
<1>1. Cardinality(S) \in Nat /\ ExistsBijection(1..Cardinality(S), S)
    BY FS_CardinalityType
<1>2. \E f \in [1..Cardinality(S) -> S] : IsInjective(f)
    BY <1>1 DEF ExistsBijection, Bijection, Injection
<1>3. SetToSeq(S) \in [1..Cardinality(S) -> S]
    BY <1>2 DEF SetToSeq
<1>4. SetToSeq(S) \in Seq(S)
    BY <1>1, <1>3, SeqDef
<1>. QED
    BY <1>4, OwnSeq, LenProperties

\* A sweep observes the tasks one by one.
LEMMA ObserveAllSteps ==
    /\ IsSeq(ObserveAll)
    /\ \A i \in 1..Len(ObserveAll) :
         StepOK(ObserveAll[i]) /\ ObserveAll[i].do \in {"observe", "polled"}
<1>. DEFINE K == {u \in Ids : mem.tasks[u].known}
            S == {Observe(t) : t \in K}
            f == [t \in K |-> Observe(t)]
<1>1. IsFiniteSet(K)
    BY FS_Subset, BackgroundAssumption
<1>2. f \in Surjection(K, S)
    BY DEF Surjection
<1>3. IsFiniteSet(S)
    BY <1>1, <1>2, FS_Surjection
<1>4. \A s \in S : StepOK(s) /\ s.do = "observe"
    BY DEF Observe, StepOK, Solo, Sweeps
<1>5. ObserveAll = SetToSeq(S)
    BY DEF ObserveAll
<1>. QED
    BY <1>3, <1>4, <1>5, Listed

\* poll asks the Monitor before it observes the tasks.
LEMMA PolledFirst ==
    /\ IsSeq(<<[do |-> "polled"]>> \o ObserveAll)
    /\ \A i \in 1..Len(<<[do |-> "polled"]>> \o ObserveAll) :
         /\ StepOK((<<[do |-> "polled"]>> \o ObserveAll)[i])
         /\ (<<[do |-> "polled"]>> \o ObserveAll)[i].do \in {"observe", "polled"}
<1>. DEFINE s == [do |-> "polled"]
            p == <<s>> \o ObserveAll
<1>1. StepOK(s) /\ s.do = "polled"
    BY DEF StepOK, Solo, Sweeps
<1>2. IsSeq(<<s>>) /\ Len(<<s>>) = 1 /\ <<s>>[1] = s
    BY SingleIsSeq
<1>3. IsSeq(ObserveAll) /\ Len(ObserveAll) \in Nat
    BY ObserveAllSteps, SeqParts
<1>4. /\ IsSeq(p) /\ Len(p) = 1 + Len(ObserveAll)
      /\ p[1] = s
      /\ \A i \in 1..Len(ObserveAll) : p[1 + i] = ObserveAll[i]
    BY <1>2, <1>3, ConcatSeq
<1>. HIDE DEF s, p
<1>5. ASSUME NEW i \in 1..Len(p)
      PROVE  StepOK(p[i]) /\ p[i].do \in {"observe", "polled"}
    <2>1. i = 1 \/ (i - 1 \in 1..Len(ObserveAll) /\ 1 + (i - 1) = i)
        BY <1>3, <1>4
    <2>. QED
        BY <1>1, <1>4, <2>1, ObserveAllSteps
<1>. QED
    BY <1>4, <1>5 DEF p, s

-----------------------------------------------------------------------------
(* Lemmas about the manager's memory.                                      *)

\* The memory only gains queued events, of keys it had no event for.
Grows(m, n) ==
    /\ n.branch = m.branch /\ n.keys = m.keys
    /\ m.events \subseteq n.events
    /\ \A e \in n.events :
         e \in m.events \/ (e.state = "queued" /\ \A f \in m.events : f.key # e.key)
    /\ Distinct(m) => Distinct(n)

\* Memory whose wakes are left alone.
LEMMA GrowsSame ==
    ASSUME NEW m, NEW n, n.branch = m.branch, n.keys = m.keys, n.events = m.events
    PROVE  Grows(m, n)
BY DEF Grows, Distinct

\* Two changes that add wakes, one after the other.
LEMMA GrowsTwice ==
    ASSUME NEW l, NEW m, NEW n, Grows(l, m), Grows(m, n)
    PROVE  Grows(l, n)
<1>1. n.branch = l.branch /\ n.keys = l.keys /\ l.events \subseteq n.events
    BY DEF Grows
<1>2. Distinct(l) => Distinct(n)
    BY DEF Grows
<1>3. ASSUME NEW e \in n.events
      PROVE  e \in l.events \/ (e.state = "queued" /\ \A f \in l.events : f.key # e.key)
    <2>1. CASE e \in m.events
        BY <2>1 DEF Grows
    <2>2. CASE e.state = "queued" /\ \A f \in m.events : f.key # e.key
        BY <2>2 DEF Grows
    <2>. QED
        BY <2>1, <2>2 DEF Grows
<1>. QED
    BY <1>1, <1>2, <1>3 DEF Grows

\* One task's record is replaced.
WithTask(m, t, x) == [m EXCEPT !.tasks[t] = x]

\* One task changes.
LEMMA SetTask ==
    ASSUME NEW m, MemOK(m), NEW t \in Ids, NEW x, TaskOK(x),
           NEW n, n = WithTask(m, t, x)
    PROVE  /\ MemOK(n) /\ Grows(m, n)
           /\ n.tasks[t] = x
           /\ \A u \in Ids \ {t} : n.tasks[u] = m.tasks[u]
           /\ n.events = m.events
<1>1. /\ DOMAIN n = {"branch", "tasks", "events", "keys"}
      /\ n.branch = m.branch /\ n.keys = m.keys /\ n.events = m.events
      /\ n.tasks = [m.tasks EXCEPT ![t] = x]
    BY DEF MemOK, WithTask
<1>2. /\ DOMAIN n.tasks = Ids
      /\ n.tasks[t] = x
      /\ \A u \in Ids \ {t} : n.tasks[u] = m.tasks[u]
    BY <1>1 DEF MemOK
<1>3. MemOK(n)
    BY <1>1, <1>2 DEF MemOK
<1>. QED
    BY <1>1, <1>2, <1>3, GrowsSame

\* enqueueWake adds at most one wake and leaves the tasks alone.
LEMMA EnqueueKeeps ==
    ASSUME NEW m, MemOK(m), NEW t, NEW reason, NEW status, NEW hash,
           NEW n, n = EnqueueWake(m, t, reason, status, hash)
    PROVE  MemOK(n) /\ Grows(m, n) /\ n.tasks = m.tasks
<1>. DEFINE key == [task |-> t, reason |-> reason, status |-> status, hash |-> hash]
            new == [key |-> key, state |-> "queued"]
<1>1. CASE n = m
    BY <1>1, GrowsSame
<1>2. CASE /\ \A e \in m.events : e.key # key
           /\ n = [m EXCEPT !.events = @ \cup {new}]
    <2>1. /\ DOMAIN n = {"branch", "tasks", "events", "keys"}
          /\ n.branch = m.branch /\ n.keys = m.keys /\ n.tasks = m.tasks
          /\ n.events = m.events \cup {new}
        BY <1>2 DEF MemOK
    <2>2. DOMAIN new = {"key", "state"} /\ new.key = key /\ new.state = "queued"
        OBVIOUS
    <2>. HIDE DEF new, key
    <2>3. MemOK(n)
        BY <2>1, <2>2 DEF MemOK
    <2>4. Grows(m, n)
        BY <1>2, <2>1, <2>2 DEF Grows, Distinct
    <2>. QED
        BY <2>1, <2>3, <2>4
<1>3. n = m \/ /\ \A e \in m.events : e.key # key
               /\ n = [m EXCEPT !.events = @ \cup {new}]
    BY DEF EnqueueWake
<1>. QED
    BY <1>1, <1>2, <1>3

\* What Mark does to the events.
LEMMA MarkKeeps ==
    ASSUME NEW m, MemOK(m), NEW keys, NEW st, NEW n, n = Mark(m, keys, st)
    PROVE  /\ MemOK(n) /\ n.tasks = m.tasks /\ n.keys = m.keys /\ n.branch = m.branch
           /\ \A e \in n.events :
                \E f \in m.events : /\ e.key = f.key
                                    /\ IF f.key \in keys THEN e.state = st ELSE e = f
           /\ \A f \in m.events :
                \E e \in n.events : /\ e.key = f.key
                                    /\ IF f.key \in keys THEN e.state = st ELSE e = f
           /\ Distinct(m) => Distinct(n)
<1>. DEFINE To(e) == IF e.key \in keys THEN [e EXCEPT !.state = st] ELSE e
<1>1. /\ DOMAIN n = {"branch", "tasks", "events", "keys"}
      /\ n.branch = m.branch /\ n.keys = m.keys /\ n.tasks = m.tasks
      /\ n.events = {To(e) : e \in m.events}
    BY DEF MemOK, Mark
<1>2. ASSUME NEW f \in m.events
      PROVE  /\ DOMAIN To(f) = {"key", "state"} /\ To(f).key = f.key
             /\ IF f.key \in keys THEN To(f).state = st ELSE To(f) = f
    BY DEF MemOK
<1>. HIDE DEF To
<1>3. MemOK(n)
    BY <1>1, <1>2 DEF MemOK
<1>4. Distinct(m) => Distinct(n)
    BY <1>1, <1>2 DEF Distinct
<1>. QED
    BY <1>1, <1>2, <1>3, <1>4

\* The keys a delivery consumed are remembered as well.
WithKeys(m, keys) == [m EXCEPT !.keys = @ \cup keys]

\* Keys are marked as consumed.
LEMMA AddKeys ==
    ASSUME NEW m, MemOK(m), NEW keys, NEW n, n = WithKeys(m, keys)
    PROVE  /\ MemOK(n) /\ n.tasks = m.tasks /\ n.branch = m.branch
           /\ n.events = m.events /\ n.keys = m.keys \cup keys
<1>1. /\ DOMAIN n = {"branch", "tasks", "events", "keys"}
      /\ n.branch = m.branch /\ n.tasks = m.tasks /\ n.events = m.events
      /\ n.keys = m.keys \cup keys
    BY DEF MemOK, WithKeys
<1>. QED
    BY <1>1 DEF MemOK

-----------------------------------------------------------------------------
(* What the steps do to the memory and to its snapshot.                    *)

MemStep ==
    /\ Grows(mem, mem')
    /\ MemOK(mem') /\ MemOK(saved')
    /\ UNCHANGED <<mem, saved>> \/ saved' = mem'

SameTask(a, b)  == b.known = a.known /\ b.wait = a.wait /\ b.reviewCount = a.reviewCount
SameTasks(m, n) == \A t \in Ids : SameTask(m.tasks[t], n.tasks[t])
OthersKept(m, n, t) == \A u \in Ids \ {t} : n.tasks[u] = m.tasks[u]

\* A step that leaves memory and file alone.
LEMMA KeepStep ==
    ASSUME Shape, KeepMem
    PROVE  MemStep /\ SameTasks(mem, mem')
<1>1. mem' = mem /\ saved' = saved
    BY DEF KeepMem
<1>2. Grows(mem, mem)
    BY GrowsSame
<1>. QED
    BY <1>1, <1>2 DEF Shape, MemStep, SameTasks, SameTask

\* A step that saves what it added.
LEMMA PersistStep ==
    ASSUME Shape, NEW n, MemOK(n), Grows(mem, n), Persist(n)
    PROVE  MemStep
BY DEF Shape, MemStep, Persist

\* A step that changes a field of one task which the invariant does not read.
LEMMA FieldStep ==
    ASSUME Shape, NEW t \in Ids, NEW x, TaskOK(x), SameTask(mem.tasks[t], x),
           Persist(WithTask(mem, t, x))
    PROVE  MemStep /\ SameTasks(mem, mem')
<1>. DEFINE n == WithTask(mem, t, x)
<1>0. MemOK(mem)
    BY DEF Shape
<1>1. /\ MemOK(n) /\ Grows(mem, n)
      /\ n.tasks[t] = x
      /\ \A u \in Ids \ {t} : n.tasks[u] = mem.tasks[u]
    BY <1>0, SetTask
<1>2. SameTasks(mem, n)
    BY <1>1 DEF SameTasks, SameTask
<1>3. mem' = n /\ saved' = n
    BY DEF Persist
<1>. HIDE DEF n
<1>. QED
    BY <1>1, <1>2, <1>3, PersistStep DEF Persist

\* The step that is taken is the first one left.
LEMMA FirstTodo ==
    ASSUME Shape, NEW do, At(do)
    PROVE  /\ todo # <<>> /\ TodoOK(todo) /\ Head(todo) = todo[1] /\ 1 \in 1..Len(todo)
           /\ StepOK(Head(todo)) /\ Head(todo).do = do
<1>1. todo # <<>> /\ TodoOK(todo) /\ Head(todo).do = do
    BY DEF Shape, At
<1>2. IsSeq(todo)
    BY <1>1 DEF TodoOK
<1>. QED
    BY <1>1, <1>2, SeqParts, TodoTail

\* The operation that is begun is the first of the queue, with no step left of
\* another.
LEMMA FirstOp ==
    ASSUME Shape, NEW kind, Ready(kind)
    PROVE  /\ queue # <<>> /\ Head(queue) = queue[1] /\ 1 \in 1..Len(queue) /\ todo = <<>>
           /\ OpOK(Head(queue), generation) /\ Head(queue).kind = kind
<1>1. queue # <<>> /\ QueueOK(queue, generation) /\ todo = <<>> /\ Head(queue).kind = kind
    BY DEF Shape, Ready
<1>2. IsSeq(queue)
    BY <1>1 DEF QueueOK
<1>. QED
    BY <1>1, <1>2, SeqParts, QueueTail

\* Observing a task adds at most a wake.
LEMMA ObserveMem ==
    ASSUME Shape, StepObserve
    PROVE  MemStep /\ SameTasks(mem, mem')
<1>. DEFINE t == Head(todo).t
            x == [mem.tasks[t] EXCEPT !.unconfirmed = TRUE]
<1>1. t \in Ids
    BY FirstTodo DEF StepObserve, StepOK
<1>2. TaskOK(mem.tasks[t])
    BY <1>1 DEF Shape, MemOK
<1>3. TaskOK(x) /\ SameTask(mem.tasks[t], x)
    BY <1>2 DEF TaskOK, SameTask
<1>4. KeepMem \/ Persist(WithTask(mem, t, x))
    BY DEF StepObserve, Change, WithTask
<1>. HIDE DEF t, x
<1>. QED
    BY <1>1, <1>3, <1>4, KeepStep, FieldStep

\* Reading a log adds at most a wake.
LEMMA ReadMem ==
    ASSUME Shape, StepRead
    PROVE  MemStep /\ SameTasks(mem, mem')
<1>. DEFINE t == Head(todo).t
            x == [mem.tasks[t] EXCEPT !.cursor = log[t]]
<1>1. t \in Ids
    BY FirstTodo DEF StepRead, StepOK, Solo
<1>2. TaskOK(mem.tasks[t])
    BY <1>1 DEF Shape, MemOK
<1>3. TaskOK(x) /\ SameTask(mem.tasks[t], x)
    BY <1>2 DEF TaskOK, SameTask
<1>4. KeepMem \/ Persist(WithTask(mem, t, x))
    BY DEF StepRead, WithTask
<1>. HIDE DEF t, x
<1>. QED
    BY <1>1, <1>3, <1>4, KeepStep, FieldStep

\* A review adds at most a wake.
LEMMA ReviewMem ==
    ASSUME Shape, StepReview
    PROVE  MemStep /\ SameTasks(mem, mem')
<1>1. PICK wake \in BOOLEAN :
         Persist(IF wake THEN EnqueueWake(mem, Head(todo).t, "progress-review",
                                          Head(todo).status, Head(todo).hash)
                 ELSE mem)
    BY DEF StepReview
<1>. DEFINE n == IF wake THEN EnqueueWake(mem, Head(todo).t, "progress-review",
                                          Head(todo).status, Head(todo).hash)
                 ELSE mem
<1>2. MemOK(n) /\ Grows(mem, n) /\ n.tasks = mem.tasks
    BY EnqueueKeeps, GrowsSame DEF Shape
<1>3. mem' = n
    BY <1>1 DEF Persist
<1>4. SameTasks(mem, mem')
    BY <1>2, <1>3 DEF SameTasks, SameTask
<1>. HIDE DEF n
<1>. QED
    BY <1>1, <1>2, <1>4, PersistStep DEF n

\* The end of the grace period adds at most a wake.
LEMMA GraceMem ==
    ASSUME Shape, StepGrace
    PROVE  MemStep /\ SameTasks(mem, mem')
<1>1. CASE KeepMem
    BY <1>1, KeepStep
<1>2. CASE Persist(mem)
    <2>1. mem' = mem /\ MemOK(mem) /\ Grows(mem, mem)
        BY <1>2, GrowsSame DEF Persist, Shape
    <2>. QED
        BY <1>2, <2>1, PersistStep DEF SameTasks, SameTask
<1>. QED
    BY <1>1, <1>2 DEF StepGrace

\* wait: the task waits, and is known already.
LEMMA WaitMem ==
    ASSUME Shape, OpWait
    PROVE  /\ MemStep
           /\ \A t \in Ids :
                /\ mem'.tasks[t].known = mem.tasks[t].known
                /\ mem'.tasks[t].reviewCount = mem.tasks[t].reviewCount
                /\ mem'.tasks[t].wait => mem.tasks[t].wait \/ mem.tasks[t].known
<1>. DEFINE t == Head(queue).t
            x == [mem.tasks[t] EXCEPT !.wait = TRUE, !.triggers = Head(queue).triggers]
            n == WithTask(mem, t, x)
<1>0. MemOK(mem)
    BY DEF Shape
<1>1. t \in Ids
    BY FirstOp DEF OpWait, OpOK
<1>2. TaskOK(mem.tasks[t])
    BY <1>1 DEF Shape, MemOK
<1>3. TaskOK(x) /\ x.known = mem.tasks[t].known /\ x.reviewCount = mem.tasks[t].reviewCount
    BY <1>2 DEF TaskOK
<1>4. KeepMem \/ (mem.tasks[t].known /\ Persist(n))
    BY DEF OpWait, WithTask
<1>. HIDE DEF x
<1>5. /\ MemOK(n) /\ Grows(mem, n)
      /\ n.tasks[t] = x
      /\ \A u \in Ids \ {t} : n.tasks[u] = mem.tasks[u]
    BY <1>0, <1>1, <1>3, SetTask
<1>. HIDE DEF n, t
<1>6. CASE KeepMem
    BY <1>6, KeepStep DEF SameTasks, SameTask
<1>7. CASE mem.tasks[t].known /\ Persist(n)
    <2>1. MemStep /\ mem' = n
        BY <1>5, <1>7, PersistStep DEF Persist
    <2>. QED
        BY <1>3, <1>5, <1>7, <2>1
<1>. QED
    BY <1>4, <1>6, <1>7

\* A task enters the memory: known, not waited for, not yet reviewed.
Entered(t) ==
    /\ mem'.tasks[t].known = TRUE /\ mem'.tasks[t].wait = FALSE
    /\ mem'.tasks[t].reviewCount = 0
    /\ OthersKept(mem, mem', t)

\* A task is entered with an unused review budget.
LEMMA EnterStep ==
    ASSUME Shape, NEW t \in Ids, NEW x, TaskOK(x), x.known = TRUE, x.wait = FALSE,
           x.reviewCount = 0, Persist(WithTask(mem, t, x))
    PROVE  MemStep /\ Entered(t)
<1>. DEFINE n == WithTask(mem, t, x)
<1>0. MemOK(mem)
    BY DEF Shape
<1>1. /\ MemOK(n) /\ Grows(mem, n)
      /\ n.tasks[t] = x
      /\ \A u \in Ids \ {t} : n.tasks[u] = mem.tasks[u]
    BY <1>0, SetTask
<1>2. mem' = n
    BY DEF Persist
<1>3. Persist(n)
    OBVIOUS
<1>. HIDE DEF n
<1>. QED
    BY <1>1, <1>2, <1>3, PersistStep DEF Entered, OthersKept

\* A spawned process becomes a task, or the spawn failed.
LEMMA SpawnedMem ==
    ASSUME Shape, StepSpawned
    PROVE  /\ MemStep
           /\ Head(todo).t \in Ids
           /\ \/ KeepMem /\ Quit /\ mon' = [mon EXCEPT ![Head(todo).t] = "none"]
              \/ /\ Entered(Head(todo).t)
                 /\ mon' = [mon EXCEPT ![Head(todo).t] = "running"]
                 /\ Then(<<[do |-> "polled"], Observe(Head(todo).t)>>)
<1>. DEFINE t == Head(todo).t
            x == [NoTask EXCEPT !.known = TRUE, !.triggers = Head(todo).triggers]
<1>1. t \in Ids
    BY FirstTodo DEF StepSpawned, StepOK, Solo
<1>2. TaskOK(x) /\ x.known = TRUE /\ x.wait = FALSE /\ x.reviewCount = 0
    BY BackgroundAssumption DEF NoTask, TaskOK
<1>3. \/ KeepMem /\ Quit /\ mon' = [mon EXCEPT ![t] = "none"]
      \/ /\ Persist(WithTask(mem, t, x))
         /\ mon' = [mon EXCEPT ![t] = "running"]
         /\ Then(<<[do |-> "polled"], Observe(t)>>)
    BY DEF StepSpawned, WithTask
<1>. HIDE DEF x
<1>4. KeepMem => MemStep
    BY KeepStep
<1>5. Persist(WithTask(mem, t, x)) => MemStep /\ Entered(t)
    BY <1>1, <1>2, EnterStep
<1>. QED
    BY <1>1, <1>3, <1>4, <1>5

\* An attached target becomes a task while there is room, or is refused.
LEMMA AttachedMem ==
    ASSUME Shape, StepAttached
    PROVE  /\ MemStep
           /\ Head(todo).t \in Ids
           /\ \/ KeepMem /\ Quit
              \/ /\ Entered(Head(todo).t)
                 /\ Cardinality(ActiveTasks(mem)) < MaxConcurrency
                 /\ Then(<<Observe(Head(todo).t)>>)
<1>. DEFINE t == Head(todo).t
            X(c) == [NoTask EXCEPT !.known = TRUE, !.triggers = Head(todo).triggers,
                                   !.cursor = c]
<1>1. t \in Ids
    BY FirstTodo DEF StepAttached, StepOK, Solo
<1>2. ASSUME NEW c
      PROVE  TaskOK(X(c)) /\ X(c).known = TRUE /\ X(c).wait = FALSE /\ X(c).reviewCount = 0
    BY BackgroundAssumption DEF NoTask, TaskOK
<1>3. \/ KeepMem /\ Quit
      \/ /\ Cardinality(ActiveTasks(mem)) < MaxConcurrency
         /\ \E c \in 0..log[t] : Persist(WithTask(mem, t, X(c)))
         /\ Then(<<Observe(t)>>)
    BY DEF StepAttached, WithTask
<1>. HIDE DEF X
<1>4. KeepMem => MemStep
    BY KeepStep
<1>5. ASSUME NEW c, Persist(WithTask(mem, t, X(c)))
      PROVE  MemStep /\ Entered(t)
    BY <1>1, <1>2, <1>5, EnterStep
<1>. QED
    BY <1>1, <1>3, <1>4, <1>5

\* chargeReview changes one task.
LEMMA ChargeIs ==
    ASSUME NEW m, MemOK(m), NEW t \in Ids, NEW hash
    PROVE  ChargeReview(m, t, hash)
             = WithTask(m, t, [m.tasks[t] EXCEPT !.lastReview = hash, !.reviewCount = @ + 1])
<1>1. /\ DOMAIN m = {"branch", "tasks", "events", "keys"} /\ DOMAIN m.tasks = Ids
      /\ DOMAIN m.tasks[t] = {"known", "wait", "triggers", "cursor", "unconfirmed",
                              "reviewCount", "lastReview"}
    BY DEF MemOK, TaskOK
<1>. QED
    BY <1>1 DEF ChargeReview, WithTask

\* After the log read: the events grow, and a review is charged where it is
\* counted.
LEMMA ApplyMem ==
    ASSUME Shape, StepApply
    PROVE  /\ MemStep
           /\ Head(todo).t \in Ids
           /\ OthersKept(mem, mem', Head(todo).t)
           /\ mem'.tasks[Head(todo).t].known = mem.tasks[Head(todo).t].known
           /\ mem'.tasks[Head(todo).t].wait = mem.tasks[Head(todo).t].wait
           /\ \/ /\ mem'.tasks[Head(todo).t].reviewCount = mem.tasks[Head(todo).t].reviewCount
                 /\ reviewed' = reviewed
                 /\ Then(<<>>)
              \/ /\ mem.tasks[Head(todo).t].wait
                 /\ mem'.tasks[Head(todo).t].reviewCount
                      = mem.tasks[Head(todo).t].reviewCount + 1
                 /\ reviewed' = [reviewed EXCEPT ![Head(todo).t] = @ + 1]
                 /\ \E s : StepOK(s) /\ s.do = "review" /\ Then(<<s>>)
<1>. DEFINE t      == Head(todo).t
            status == Head(todo).status
            task   == mem.tasks[t]
<1>0. MemOK(mem)
    BY DEF Shape
<1>1. t \in Ids
    BY FirstTodo DEF StepApply, StepOK
<1>2. PICK due \in BOOLEAN, missing \in BOOLEAN :
        LET hash   == IF missing THEN task.cursor ELSE log[t]
            new    == (task.cursor + 1)..hash
            reason == IF Head(todo).reason # "none" THEN Head(todo).reason ELSE ReasonFor(status)
            m1     == [mem EXCEPT !.tasks[t].cursor = hash]
            m2     == IF "error-pattern" \in task.triggers /\ new \cap ErrorLogs # {}
                      THEN EnqueueWake(m1, t, "error-pattern", status, hash) ELSE m1
            m3     == IF reason \in task.triggers
                      THEN EnqueueWake(m2, t, reason, status, hash) ELSE m2
            review == due /\ new # {} /\ ReviewAllowed(task, hash)
            m4     == IF review THEN ChargeReview(m3, t, hash) ELSE m3
        IN  /\ IF m4 = mem THEN KeepMem ELSE Persist(m4)
            /\ IF review
               THEN /\ Then(<<[do |-> "review", t |-> t, status |-> status, hash |-> hash]>>)
                    /\ reviewed' = [reviewed EXCEPT ![t] = @ + 1]
               ELSE Then(<<>>) /\ UNCHANGED reviewed
    BY Zenon DEF StepApply, Change
<1>. DEFINE hash   == IF missing THEN task.cursor ELSE log[t]
            new    == (task.cursor + 1)..hash
            reason == IF Head(todo).reason # "none" THEN Head(todo).reason ELSE ReasonFor(status)
            x1     == [task EXCEPT !.cursor = hash]
            m1     == WithTask(mem, t, x1)
            m2     == IF "error-pattern" \in task.triggers /\ new \cap ErrorLogs # {}
                      THEN EnqueueWake(m1, t, "error-pattern", status, hash) ELSE m1
            m3     == IF reason \in task.triggers
                      THEN EnqueueWake(m2, t, reason, status, hash) ELSE m2
            review == due /\ new # {} /\ ReviewAllowed(task, hash)
            x4     == [m3.tasks[t] EXCEPT !.lastReview = hash, !.reviewCount = @ + 1]
            m4     == IF review THEN ChargeReview(m3, t, hash) ELSE m3
            s      == [do |-> "review", t |-> t, status |-> status, hash |-> hash]
<1>3. /\ IF m4 = mem THEN KeepMem ELSE Persist(m4)
      /\ IF review THEN Then(<<s>>) /\ reviewed' = [reviewed EXCEPT ![t] = @ + 1]
         ELSE Then(<<>>) /\ UNCHANGED reviewed
    BY <1>2, Zenon DEF WithTask
<1>4. TaskOK(x1) /\ SameTask(task, x1)
    BY <1>0, <1>1 DEF MemOK, TaskOK, SameTask
<1>. HIDE DEF x1
<1>5. MemOK(m1) /\ Grows(mem, m1) /\ m1.tasks[t] = x1 /\ OthersKept(mem, m1, t)
    BY <1>0, <1>1, <1>4, SetTask DEF OthersKept
<1>. HIDE DEF m1, new
<1>6. MemOK(m2) /\ Grows(m1, m2) /\ m2.tasks = m1.tasks
    BY <1>5, EnqueueKeeps, GrowsSame
<1>. HIDE DEF m2, reason
<1>7. MemOK(m3) /\ Grows(m2, m3) /\ m3.tasks = m2.tasks
    BY <1>6, EnqueueKeeps, GrowsSame
<1>. HIDE DEF m3, hash
<1>8. MemOK(m3) /\ Grows(mem, m3) /\ m3.tasks[t] = x1 /\ OthersKept(mem, m3, t)
    BY <1>5, <1>6, <1>7, GrowsTwice DEF OthersKept
<1>9. CASE ~review
    <2>1. m4 = m3 /\ Then(<<>>) /\ reviewed' = reviewed
        BY <1>3, <1>9
    <2>. HIDE DEF m4, review
    <2>2. mem' = m3 /\ MemStep
        <3>1. CASE m4 = mem
            BY <1>3, <2>1, <3>1, KeepStep DEF KeepMem
        <3>2. CASE m4 # mem
            BY <1>3, <1>8, <2>1, <3>2, PersistStep DEF Persist
        <3>. QED
            BY <3>1, <3>2
    <2>. QED
        BY <1>1, <1>4, <1>8, <2>1, <2>2 DEF SameTask
<1>10. CASE review
    <2>1. m4 = WithTask(m3, t, x4) /\ Then(<<s>>) /\ reviewed' = [reviewed EXCEPT ![t] = @ + 1]
        BY <1>1, <1>3, <1>7, <1>10, ChargeIs
    <2>2. task.wait /\ task.reviewCount < MaxReviews
        BY <1>10 DEF ReviewAllowed
    <2>3. task.reviewCount \in 0..MaxReviews
        BY <1>0, <1>1 DEF MemOK, TaskOK
    <2>4. /\ TaskOK(x4) /\ x4.known = x1.known /\ x4.wait = x1.wait
          /\ x4.reviewCount = task.reviewCount + 1
        <3>1. MaxReviews \in Nat
            BY BackgroundAssumption
        <3>2. DOMAIN m3.tasks[t] = {"known", "wait", "triggers", "cursor", "unconfirmed",
                                    "reviewCount", "lastReview"}
            BY <1>1, <1>8 DEF MemOK, TaskOK
        <3>3. /\ DOMAIN x4 = DOMAIN m3.tasks[t]
              /\ x4.known = m3.tasks[t].known /\ x4.wait = m3.tasks[t].wait
              /\ x4.reviewCount = m3.tasks[t].reviewCount + 1
            BY <3>2
        <3>4. m3.tasks[t].reviewCount = task.reviewCount
            BY <1>4, <1>8 DEF SameTask
        <3>. HIDE DEF x4, task, t
        <3>5. task.reviewCount + 1 \in 0..MaxReviews
            BY <2>2, <2>3, <3>1
        <3>. QED
            BY <1>8, <3>2, <3>3, <3>4, <3>5 DEF TaskOK
    <2>5. StepOK(s) /\ s.do = "review"
        BY <1>1 DEF StepOK, Solo, Sweeps
    <2>. HIDE DEF x4, review, s
    <2>6. MemOK(m4) /\ Grows(m3, m4) /\ m4.tasks[t] = x4 /\ OthersKept(m3, m4, t)
        BY <1>1, <1>8, <2>1, <2>4, SetTask DEF OthersKept
    <2>7. Grows(mem, m4) /\ OthersKept(mem, m4, t)
        BY <1>8, <2>6, GrowsTwice DEF OthersKept
    <2>. HIDE DEF m4
    <2>8. mem' = m4 /\ MemStep
        <3>1. CASE m4 = mem
            BY <1>3, <3>1, KeepStep DEF KeepMem
        <3>2. CASE m4 # mem
            BY <1>3, <2>6, <2>7, <3>2, PersistStep DEF Persist
        <3>. QED
            BY <3>1, <3>2
    <2>9. /\ OthersKept(mem, mem', t)
          /\ mem'.tasks[t].known = task.known /\ mem'.tasks[t].wait = task.wait
          /\ mem'.tasks[t].reviewCount = task.reviewCount + 1
        BY <1>4, <2>4, <2>6, <2>7, <2>8 DEF SameTask
    <2>10. \E r : StepOK(r) /\ r.do = "review" /\ Then(<<r>>)
        BY <2>1, <2>5
    <2>. QED
        BY <1>1, <2>1, <2>2, <2>8, <2>9, <2>10
<1>. QED
    BY <1>9, <1>10

-----------------------------------------------------------------------------
(* Most steps leave the deliveries alone: the memory grows, and operations *)
(* other than the end of a delivery come and go.                           *)

QuietQueue(q, p, g) ==
    \/ p = q
    \/ q # <<>> /\ Head(q).kind \notin Settles /\ p = Tail(q)
    \/ \E o : OpOK(o, g) /\ o.kind \notin Settles /\ p = Append(q, o)

SameWake == UNCHANGED <<wakeVars, disposed, leaf, restarts>>

Plain == MemStep /\ QuietQueue(queue, queue', generation) /\ SameWake

\* What a step leaves alone includes the deliveries.
LEMMA RestSame ==
    ASSUME Rest
    PROVE  SameWake
BY DEF Rest, SameWake, wakeVars, navVars, hostVars

\* An operation that settles no delivery leaves the queue.
LEMMA OpRuns ==
    ASSUME Shape, NEW kind, kind \notin Settles, Ready(kind), NEW steps, RunOp(steps)
    PROVE  QuietQueue(queue, queue', generation)
BY FirstOp DEF RunOp, QuietQueue

\* An operation that settles no delivery enters the queue.
LEMMA OpQueued ==
    ASSUME NEW o, OpOK(o, generation), o.kind \notin Settles, Enqueue(o)
    PROVE  QuietQueue(queue, queue', generation)
BY DEF Enqueue, QuietQueue

\* The steps of operations that are no business of a delivery.
LEMMA PlainStep ==
    ASSUME Shape,
           StepEnd \/ StepObserve \/ StepApply \/ StepReview \/ StepPolled \/ StepSpawned
             \/ StepAttached \/ StepRead \/ StepStopped \/ StepGrace
    PROVE  Plain
<1>1. CASE StepEnd
    <2>1. KeepMem /\ queue' = queue /\ Rest
        BY <1>1 DEF StepEnd, KeepMem, histVars
    <2>. QED
        BY <2>1, KeepStep, RestSame DEF Plain, QuietQueue
<1>2. CASE StepObserve
    <2>1. queue' = queue /\ Rest
        BY <1>2 DEF StepObserve, Then, histVars
    <2>. QED
        BY <1>2, <2>1, ObserveMem, RestSame DEF Plain, QuietQueue
<1>3. CASE StepApply
    <2>1. queue' = queue
        BY <1>3, ApplyMem DEF Then
    <2>2. Rest
        BY <1>3 DEF StepApply
    <2>. QED
        BY <1>3, <2>1, <2>2, ApplyMem, RestSame DEF Plain, QuietQueue
<1>4. CASE StepReview
    <2>1. queue' = queue /\ Rest
        BY <1>4 DEF StepReview, Then, histVars
    <2>. QED
        BY <1>4, <2>1, ReviewMem, RestSame DEF Plain, QuietQueue
<1>5. CASE StepPolled
    <2>1. KeepMem /\ queue' = queue /\ Rest
        BY <1>5 DEF StepPolled, Then, histVars
    <2>. QED
        BY <2>1, KeepStep, RestSame DEF Plain, QuietQueue
<1>6. CASE StepSpawned
    <2>1. queue' = queue
        BY <1>6, SpawnedMem DEF Then, Quit
    <2>2. Rest
        BY <1>6 DEF StepSpawned, histVars
    <2>. QED
        BY <1>6, <2>1, <2>2, SpawnedMem, RestSame DEF Plain, QuietQueue
<1>7. CASE StepAttached
    <2>1. queue' = queue
        BY <1>7, AttachedMem DEF Then, Quit
    <2>2. Rest
        BY <1>7 DEF StepAttached, histVars
    <2>. QED
        BY <1>7, <2>1, <2>2, AttachedMem, RestSame DEF Plain, QuietQueue
<1>8. CASE StepRead
    <2>1. queue' = queue /\ Rest
        BY <1>8 DEF StepRead, Then, histVars
    <2>. QED
        BY <1>8, <2>1, ReadMem, RestSame DEF Plain, QuietQueue
<1>9. CASE StepStopped
    <2>. DEFINE o == [kind |-> "observe", t |-> Head(todo).t, reason |-> "none"]
    <2>1. KeepMem /\ Rest
        BY <1>9 DEF StepStopped, histVars
    <2>2. queue' = queue \/ queue' = Append(queue, o)
        BY <1>9 DEF StepStopped, Quit
    <2>3. Head(todo).t \in Ids
        BY <1>9, FirstTodo DEF StepStopped, StepOK, Solo
    <2>4. OpOK(o, generation) /\ o.kind \notin Settles
        BY <2>3 DEF OpOK, OpKinds, Settles
    <2>. QED
        BY <2>1, <2>2, <2>4, KeepStep, RestSame DEF Plain, QuietQueue
<1>10. CASE StepGrace
    <2>1. queue' = queue /\ Rest
        BY <1>10 DEF StepGrace, Then, histVars
    <2>. QED
        BY <1>10, <2>1, GraceMem, RestSame DEF Plain, QuietQueue
<1>. QED
    BY <1>1, <1>2, <1>3, <1>4, <1>5, <1>6, <1>7, <1>8, <1>9, <1>10

\* The operations that are no business of a delivery.
LEMMA PlainOp ==
    ASSUME Shape,
           OpObserve \/ OpSweep \/ OpStart \/ OpAttach \/ OpWait \/ OpLogs \/ OpCancel
    PROVE  Plain /\ \E kind : Ready(kind) /\ kind \notin Settles
<1>1. CASE OpObserve
    BY <1>1, KeepStep, RestSame, OpRuns DEF OpObserve, Plain, Settles, histVars
<1>2. CASE OpSweep
    BY <1>2, KeepStep, RestSame, OpRuns DEF OpSweep, Plain, Settles, histVars
<1>3. CASE OpStart
    BY <1>3, KeepStep, RestSame, OpRuns DEF OpStart, Plain, Settles, histVars
<1>4. CASE OpAttach
    BY <1>4, KeepStep, RestSame, OpRuns DEF OpAttach, Plain, Settles, histVars
<1>5. CASE OpWait
    BY <1>5, WaitMem, RestSame, OpRuns DEF OpWait, Plain, Settles, histVars
<1>6. CASE OpLogs
    BY <1>6, KeepStep, RestSame, OpRuns DEF OpLogs, Plain, Settles, histVars
<1>7. CASE OpCancel
    BY <1>7, KeepStep, RestSame, OpRuns DEF OpCancel, Plain, Settles, histVars
<1>. QED
    BY <1>1, <1>2, <1>3, <1>4, <1>5, <1>6, <1>7

\* The calls from outside that are no business of a delivery.
LEMMA PlainCall ==
    ASSUME Shape,
           \/ \E t \in Ids : ToolCall(t) \/ MonitorAttaches(t) \/ MonitorChanges(t) \/ LogGrows(t)
           \/ TimerFires \/ FollowUpTaken \/ FollowUpsCleared \/ UserMessages
           \/ MarkEntry \/ NavigateBegins \/ CallRebuild
    PROVE  Plain
<1>1. ASSUME NEW t \in Ids, ToolCall(t)
      PROVE  Plain
    <2>. DEFINE O(o) == o.t = t /\ o.kind \in {"start", "wait", "attach", "logs", "cancel"}
    <2>1. ASSUME NEW o, O(o)
          PROVE  OpOK(o, generation) /\ o.kind \notin Settles
        BY <2>1 DEF OpOK, OpKinds, Settles
    <2>2. PICK o : O(o) /\ Call(o)
        BY <1>1 DEF ToolCall
    <2>. HIDE DEF O
    <2>3. KeepMem /\ Enqueue(o) /\ Rest
        BY <2>2 DEF Call, KeepMem, histVars
    <2>. QED
        BY <2>1, <2>2, <2>3, OpQueued, KeepStep, RestSame DEF Plain
<1>2. ASSUME NEW t \in Ids, MonitorAttaches(t) \/ LogGrows(t)
      PROVE  Plain
    <2>1. KeepMem /\ queue' = queue /\ Rest
        BY <1>2 DEF MonitorAttaches, LogGrows, opVars, histVars
    <2>. QED
        BY <2>1, KeepStep, RestSame DEF Plain, QuietQueue
<1>3. ASSUME NEW t \in Ids, MonitorChanges(t)
      PROVE  Plain
    <2>. DEFINE O(o) == o.t = t /\ o.kind = "observe"
    <2>1. ASSUME NEW o, O(o)
          PROVE  OpOK(o, generation) /\ o.kind \notin Settles
        BY <2>1 DEF OpOK, OpKinds, Settles
    <2>2. queue' = queue \/ \E o : O(o) /\ Enqueue(o)
        BY <1>3 DEF MonitorChanges, opVars
    <2>. HIDE DEF O
    <2>3. KeepMem /\ Rest
        BY <1>3 DEF MonitorChanges, histVars
    <2>4. QuietQueue(queue, queue', generation)
        BY <2>1, <2>2, OpQueued DEF QuietQueue
    <2>. QED
        BY <2>3, <2>4, KeepStep, RestSame DEF Plain
<1>4. CASE TimerFires
    <2>. DEFINE o == [kind |-> "poll"]
    <2>1. KeepMem /\ SameWake
        BY <1>4 DEF TimerFires, SameWake, navVars, hostVars, histVars
    <2>2. OpOK(o, generation) /\ o.kind \notin Settles
        BY DEF OpOK, OpKinds, Settles
    <2>3. queue' = queue \/ Enqueue(o)
        BY <1>4 DEF TimerFires, opVars
    <2>4. QuietQueue(queue, queue', generation)
        BY <2>2, <2>3, OpQueued DEF QuietQueue
    <2>. QED
        BY <2>1, <2>4, KeepStep DEF Plain
<1>5. CASE FollowUpTaken \/ FollowUpsCleared \/ UserMessages \/ MarkEntry \/ NavigateBegins
    <2>1. KeepMem /\ SameWake /\ queue' = queue
        BY <1>5 DEF FollowUpTaken, FollowUpsCleared, UserMessages, MarkEntry, NavigateBegins,
                    SameWake, opVars, navVars, hostVars
    <2>. QED
        BY <2>1, KeepStep DEF Plain, QuietQueue
<1>6. CASE CallRebuild
    <2>. DEFINE o == [kind |-> "rebuild", entries |-> saved]
    <2>1. KeepMem /\ SameWake
        BY <1>6 DEF CallRebuild, SameWake, hostVars, histVars
    <2>2. OpOK(o, generation) /\ o.kind \notin Settles
        BY DEF Shape, OpOK, OpKinds, Settles
    <2>3. queue' = queue \/ Enqueue(o)
        BY <1>6 DEF CallRebuild, opVars
    <2>4. QuietQueue(queue, queue', generation)
        BY <2>2, <2>3, OpQueued DEF QuietQueue
    <2>. QED
        BY <2>1, <2>4, KeepStep DEF Plain
<1>. QED
    BY <1>1, <1>2, <1>3, <1>4, <1>5, <1>6

\* Every action either leaves the deliveries alone or is one of ten.
LEMMA Classify ==
    ASSUME Shape, Next
    PROVE  \/ Plain \/ StepConsume \/ Continue \/ OpRebuild \/ OpFinish \/ OpFail
           \/ DeliverResolves \/ DeliverRejects \/ Navigate \/ Dispose \/ Restart
BY PlainStep, PlainOp, PlainCall DEF Next, Steps

-----------------------------------------------------------------------------
(* The wake queue is left as it is, or sent.                               *)

QueuedKeys(m)  == {e.key : e \in {e \in m.events : e.state = "queued"}}
Sent(m)        == Mark(m, QueuedKeys(m), "delivered")
SentAs(m, gen) == [gen |-> gen, branch |-> m.branch, keys |-> QueuedKeys(m)]

ConsumeIdle(m, s, busy, gen, fl) ==
    /\ mem' = m /\ saved' = s /\ (delivering' <=> busy)
    /\ inflight' = fl /\ generation' = gen

ConsumeSends(m, busy, gen, fl) ==
    /\ ~disposed /\ ~busy
    /\ mem' = Sent(m) /\ saved' = Sent(m) /\ delivering' = TRUE
    /\ inflight' = fl \cup {SentAs(m, gen)} /\ generation' = gen

\* consumeWakeQueue sends the queued wakes or does nothing.
LEMMA ConsumeCases ==
    ASSUME NEW m, NEW s, NEW busy, NEW gen, NEW fl, ConsumeWakeQueue(m, s, busy, gen, fl)
    PROVE  ConsumeIdle(m, s, busy, gen, fl) \/ ConsumeSends(m, busy, gen, fl)
<1>. DEFINE queued == {e \in m.events : e.state = "queued"}
            keys   == {e.key : e \in queued}
            go     == /\ ~disposed /\ ~busy /\ queued # {}
                      /\ ~(userPending /\ \A k \in keys : k.reason = "progress-review")
            sent   == Mark(m, keys, "delivered")
<1>1. /\ mem' = IF go THEN sent ELSE m
      /\ saved' = IF go THEN sent ELSE s
      /\ delivering' = (busy \/ go)
      /\ inflight' = IF go THEN fl \cup {[gen |-> gen, branch |-> m.branch, keys |-> keys]}
                     ELSE fl
      /\ generation' = gen
    BY DEF ConsumeWakeQueue
<1>2. keys = QueuedKeys(m) /\ (go => ~disposed /\ ~busy)
    BY DEF QueuedKeys
<1>. HIDE DEF queued, keys, go
<1>3. CASE go
    BY <1>1, <1>2, <1>3 DEF ConsumeSends, Sent, SentAs
<1>4. CASE ~go
    BY <1>1, <1>4 DEF ConsumeIdle
<1>. QED
    BY <1>3, <1>4

\* Marking the queued wakes as delivered.
LEMMA SentKeeps ==
    ASSUME NEW m, MemOK(m)
    PROVE  /\ MemOK(Sent(m)) /\ Sent(m).tasks = m.tasks /\ Sent(m).keys = m.keys
           /\ Sent(m).branch = m.branch
           /\ Distinct(m) => Distinct(Sent(m))
           /\ \A e \in Sent(m).events :
                \/ e \in m.events /\ e.state # "queued"
                \/ e.state = "delivered" /\ e.key \in QueuedKeys(m)
           /\ \A f \in m.events :
                \E e \in Sent(m).events :
                  /\ e.key = f.key
                  /\ e.state = "delivered" \/ (e = f /\ f.key \notin QueuedKeys(m))
<1>. DEFINE n == Sent(m)
            K == QueuedKeys(m)
<1>1. /\ MemOK(n) /\ n.tasks = m.tasks /\ n.keys = m.keys /\ n.branch = m.branch
      /\ \A e \in n.events :
           \E f \in m.events : /\ e.key = f.key
                               /\ IF f.key \in K THEN e.state = "delivered" ELSE e = f
      /\ \A f \in m.events :
           \E e \in n.events : /\ e.key = f.key
                               /\ IF f.key \in K THEN e.state = "delivered" ELSE e = f
      /\ Distinct(m) => Distinct(n)
    BY MarkKeeps DEF Sent
<1>2. \A f \in m.events : f.state = "queued" => f.key \in K
    BY DEF QueuedKeys
<1>. HIDE DEF n, K
<1>3. \A e \in n.events : \/ e \in m.events /\ e.state # "queued"
                          \/ e.state = "delivered" /\ e.key \in K
    BY <1>1, <1>2
<1>4. \A f \in m.events :
        \E e \in n.events : /\ e.key = f.key
                            /\ e.state = "delivered" \/ (e = f /\ f.key \notin K)
    BY <1>1
<1>. QED
    BY <1>1, <1>3, <1>4 DEF n, K

\* consumeWakeQueue keeps the types.
LEMMA ConsumeShape ==
    ASSUME NEW m, NEW s, NEW busy, NEW gen \in Nat, NEW fl,
           MemOK(m), MemOK(s), InflightOK(fl, gen), ConsumeWakeQueue(m, s, busy, gen, fl)
    PROVE  MemOK(mem') /\ MemOK(saved') /\ InflightOK(inflight', gen) /\ generation' = gen
<1>1. CASE ConsumeIdle(m, s, busy, gen, fl)
    BY <1>1 DEF ConsumeIdle
<1>2. CASE ConsumeSends(m, busy, gen, fl)
    <2>1. MemOK(Sent(m))
        BY SentKeeps
    <2>2. SentAs(m, gen).gen = gen /\ gen \in 0..gen
        BY DEF SentAs
    <2>3. InflightOK(inflight', gen)
        BY <1>2, <2>2 DEF ConsumeSends, InflightOK
    <2>. QED
        BY <1>2, <2>1, <2>3 DEF ConsumeSends
<1>. QED
    BY <1>1, <1>2, ConsumeCases

\* The events of a settled delivery are consumed.
Consumed(m, keys) == [Mark(m, keys, "consumed") EXCEPT !.keys = @ \cup keys]

\* Marking the wakes of a delivery as consumed.
LEMMA ConsumedKeeps ==
    ASSUME NEW m, MemOK(m), NEW keys, NEW n, n = Consumed(m, keys)
    PROVE  /\ MemOK(n) /\ n.tasks = m.tasks /\ n.keys = m.keys \cup keys
           /\ n.branch = m.branch
           /\ Distinct(m) => Distinct(n)
           /\ \A e \in n.events :
                \E f \in m.events : /\ e.key = f.key
                                    /\ IF f.key \in keys THEN e.state = "consumed" ELSE e = f
           /\ \A f \in m.events :
                \E e \in n.events : /\ e.key = f.key
                                    /\ IF f.key \in keys THEN e.state = "consumed" ELSE e = f
<1>. DEFINE l == Mark(m, keys, "consumed")
<1>1. /\ MemOK(l) /\ l.tasks = m.tasks /\ l.keys = m.keys /\ l.branch = m.branch
      /\ \A e \in l.events :
           \E f \in m.events : /\ e.key = f.key
                               /\ IF f.key \in keys THEN e.state = "consumed" ELSE e = f
      /\ \A f \in m.events :
           \E e \in l.events : /\ e.key = f.key
                               /\ IF f.key \in keys THEN e.state = "consumed" ELSE e = f
      /\ Distinct(m) => Distinct(l)
    BY MarkKeeps
<1>2. n = WithKeys(l, keys)
    BY DEF Consumed, WithKeys
<1>. HIDE DEF l
<1>3. /\ MemOK(n) /\ n.tasks = l.tasks /\ n.branch = l.branch
      /\ n.events = l.events /\ n.keys = l.keys \cup keys
    BY <1>1, <1>2, AddKeys
<1>4. Distinct(m) => Distinct(n)
    BY <1>1, <1>3 DEF Distinct
<1>. QED
    BY <1>1, <1>3, <1>4

-----------------------------------------------------------------------------
(* The shape of the state is kept.                                         *)

\* Every action keeps the types of memory, queue and deliveries.
LEMMA ShapeWake ==
    ASSUME Shape, Next
    PROVE  /\ MemOK(mem') /\ MemOK(saved')
           /\ QueueOK(queue', generation') /\ generation' \in Nat
           /\ InflightOK(inflight', generation')
<1>0. /\ MemOK(mem) /\ MemOK(saved) /\ MemOK(mark) /\ QueueOK(queue, generation)
      /\ generation \in Nat /\ InflightOK(inflight, generation) /\ leaf \in Nat
    BY DEF Shape
<1>a. QueueOK(queue, generation + 1) /\ InflightOK(inflight, generation + 1)
    BY <1>0, QueueLater DEF InflightOK
<1>1. CASE Plain
    <2>1. QueueOK(queue', generation)
        BY <1>0, <1>1, QueueTail, QueueAppend DEF Plain, QuietQueue
    <2>. QED
        BY <1>0, <1>1, <2>1 DEF Plain, MemStep, SameWake, wakeVars
<1>2. CASE StepConsume
    <2>1. queue' = queue /\ ConsumeWakeQueue(mem, saved, delivering, generation, inflight)
        BY <1>2 DEF StepConsume, Then
    <2>. QED
        BY <1>0, <2>1, ConsumeShape
<1>3. CASE Continue
    <2>1. queue' = queue /\ ConsumeWakeQueue(mem, saved, delivering, generation, inflight)
        BY <1>3 DEF Continue
    <2>. QED
        BY <1>0, <2>1, ConsumeShape
<1>4. CASE OpRebuild
    <2>. DEFINE m == Head(queue).entries
                K == {e.key : e \in {e \in m.events : e.state = "delivered"}}
    <2>1. /\ Ready("rebuild") /\ Persist(Consumed(m, K))
          /\ queue' = Tail(queue) /\ generation' = generation + 1 /\ inflight' = inflight
        BY <1>4 DEF OpRebuild, Consumed, RunOp
    <2>2. queue # <<>> /\ MemOK(m)
        BY <2>1, FirstOp DEF OpOK
    <2>. HIDE DEF m, K
    <2>3. MemOK(Consumed(m, K))
        BY <2>2, ConsumedKeeps
    <2>4. QueueOK(queue', generation + 1)
        BY <1>a, <2>1, <2>2, QueueTail
    <2>. QED
        BY <1>0, <1>a, <2>1, <2>3, <2>4 DEF Persist
<1>5. CASE OpFinish
    <2>. DEFINE m == Consumed(mem, Head(queue).keys)
    <2>1. /\ Ready("finish") /\ queue' = Tail(queue)
          /\ \/ KeepMem /\ UNCHANGED wakeVars
             \/ ConsumeWakeQueue(m, m, FALSE, generation, inflight)
        BY <1>5 DEF OpFinish, Consumed, RunOp
    <2>2. MemOK(m)
        BY <1>0, ConsumedKeeps
    <2>3. QueueOK(queue', generation)
        BY <1>0, <2>1, QueueTail DEF Ready
    <2>. HIDE DEF m
    <2>4. CASE KeepMem /\ UNCHANGED wakeVars
        BY <1>0, <2>3, <2>4 DEF KeepMem, wakeVars
    <2>5. CASE ConsumeWakeQueue(m, m, FALSE, generation, inflight)
        BY <1>0, <2>2, <2>3, <2>5, ConsumeShape
    <2>. QED
        BY <2>1, <2>4, <2>5
<1>6. CASE OpFail
    <2>. DEFINE m == Mark(mem, Head(queue).keys, "queued")
    <2>1. /\ Ready("fail") /\ queue' = Tail(queue) /\ UNCHANGED <<generation, inflight>>
          /\ KeepMem \/ Persist(m)
        BY <1>6 DEF OpFail, RunOp
    <2>2. MemOK(m)
        BY <1>0, MarkKeeps
    <2>3. QueueOK(queue', generation)
        BY <1>0, <2>1, QueueTail DEF Ready
    <2>. HIDE DEF m
    <2>. QED
        BY <1>0, <2>1, <2>2, <2>3 DEF KeepMem, Persist
<1>7. CASE DeliverResolves \/ DeliverRejects
    <2>1. PICK d \in inflight, kind \in Settles :
            /\ inflight' = inflight \ {d}
            /\ queue' = Append(queue, [kind |-> kind, gen |-> d.gen, keys |-> d.keys])
        BY <1>7 DEF DeliverResolves, DeliverRejects, Enqueue, Settles
    <2>2. KeepMem /\ generation' = generation
        BY <1>7 DEF DeliverResolves, DeliverRejects
    <2>3. OpOK([kind |-> kind, gen |-> d.gen, keys |-> d.keys], generation)
        BY <1>0 DEF OpOK, OpKinds, Settles, InflightOK
    <2>4. QueueOK(queue', generation)
        BY <1>0, <2>1, <2>3, QueueAppend
    <2>. QED
        BY <1>0, <2>1, <2>2, <2>4 DEF KeepMem, InflightOK
<1>8. CASE Navigate
    <2>1. /\ saved' = [mark EXCEPT !.branch = leaf + 1]
          /\ UNCHANGED <<mem, queue, generation, inflight>>
        BY <1>8 DEF Navigate, opVars, wakeVars
    <2>2. MemOK(saved')
        BY <1>0, <2>1 DEF MemOK
    <2>. QED
        BY <1>0, <2>1, <2>2
<1>9. CASE Dispose
    <2>1. KeepMem /\ queue' = queue /\ inflight' = inflight /\ generation' = generation + 1
        BY <1>9 DEF Dispose, opVars
    <2>. QED
        BY <1>0, <1>a, <2>1 DEF KeepMem
<1>10. CASE Restart
    <2>1. /\ mem' \in {saved, Sent(saved)} /\ saved' \in {saved, Sent(saved)}
          /\ inflight' \in {{}, {SentAs(saved, 0)}}
          /\ generation' = 0 /\ queue' = <<[kind |-> "init"]>>
        BY <1>10 DEF Restart, QueuedKeys, Sent, SentAs
    <2>2. MemOK(Sent(saved))
        BY <1>0, SentKeeps
    <2>3. InflightOK(inflight', 0)
        BY <2>1 DEF InflightOK, SentAs
    <2>4. OpOK([kind |-> "init"], 0)
        BY DEF OpOK, OpKinds, Settles
    <2>5. QueueOK(<<[kind |-> "init"]>>, 0)
        BY <2>4, SingleIsSeq DEF QueueOK
    <2>. QED
        BY <1>0, <2>1, <2>2, <2>3, <2>5
<1>. QED
    BY <1>1, <1>2, <1>3, <1>4, <1>5, <1>6, <1>7, <1>8, <1>9, <1>10, Classify

\* A step without a successor.
LEMMA ThenNone ==
    ASSUME Shape, NEW do, At(do), Then(<<>>)
    PROVE  TodoOK(todo') /\ todo' = Tail(todo) /\ conts' = conts
BY FirstTodo, TodoTail DEF Then

\* A step with one successor takes its place.
LEMMA ThenOne ==
    ASSUME Shape, NEW do, At(do), do \notin Solo, do # "end",
           NEW s, StepOK(s), s.do \in Sweeps \ {"end"}, Then(<<s>>)
    PROVE  /\ TodoOK(todo') /\ conts' = conts
           /\ Len(todo') = Len(todo) /\ todo'[1] = s
           /\ \A i \in 2..Len(todo) : todo'[i] = todo[i]
<1>1. todo # <<>> /\ TodoOK(todo) /\ Head(todo).do = do
    BY FirstTodo
<1>2. todo' = <<s>> \o Tail(todo) /\ conts' = conts
    BY DEF Then
<1>. QED
    BY <1>1, <1>2, TodoReplace

\* The caller's steps after a wait of its own.
LEMMA ThenAlone ==
    ASSUME Shape, NEW do \in Solo, At(do), NEW r, IsSeq(r), Then(r)
    PROVE  todo' = r /\ conts' = conts /\ Len(todo) = 1 /\ todo[1] = Head(todo)
<1>1. todo # <<>> /\ TodoOK(todo) /\ Head(todo).do = do
    BY FirstTodo
<1>2. Len(todo) = 1 /\ todo[1] = Head(todo) /\ Tail(todo) = <<>>
    BY <1>1, TodoSolo
<1>3. r \o <<>> = r
    BY ConcatEmptySeq DEF IsSeq
<1>. QED
    BY <1>2, <1>3 DEF Then

\* The steps that follow a start.
LEMMA ObserveStep ==
    ASSUME NEW t \in Ids
    PROVE  /\ StepOK(Observe(t)) /\ Observe(t).do = "observe"
           /\ StepOK([do |-> "polled"])
BY DEF Observe, StepOK, Solo, Sweeps

\* Every action keeps the form of the steps left.
LEMMA ShapeTodo ==
    ASSUME Shape, Next
    PROVE  TodoOK(todo') /\ IsSeq(conts')
<1>0. TodoOK(todo) /\ IsSeq(conts)
    BY DEF Shape
<1>1. CASE UNCHANGED <<todo, conts>>
    BY <1>0, <1>1
<1>2. CASE StepEnd
    <2>1. todo # <<>> /\ todo' = Tail(todo) /\ conts' = Append(conts, Head(todo).cont)
        BY <1>2 DEF StepEnd, At
    <2>. QED
        BY <1>0, <2>1, TodoTail, AppendSeq
<1>3. CASE StepObserve
    <2>. DEFINE s == [do |-> "apply", t |-> Head(todo).t, reason |-> Head(todo).reason,
                      status |-> mon[Head(todo).t]]
    <2>1. At("observe") /\ (Then(<<>>) \/ Then(<<s>>))
        BY <1>3 DEF StepObserve
    <2>2. StepOK(s) /\ s.do \in Sweeps \ {"end"}
        BY <2>1, FirstTodo DEF StepOK, Sweeps, Solo
    <2>. HIDE DEF s
    <2>3. CASE Then(<<>>)
        BY <1>0, <2>1, <2>3, ThenNone
    <2>4. CASE Then(<<s>>)
        BY <1>0, <2>1, <2>2, <2>4, ThenOne DEF Solo
    <2>. QED
        BY <2>1, <2>3, <2>4
<1>4. CASE StepApply
    <2>1. At("apply") /\ (Then(<<>>) \/ \E s : StepOK(s) /\ s.do = "review" /\ Then(<<s>>))
        BY <1>4, ApplyMem DEF StepApply
    <2>2. CASE Then(<<>>)
        BY <1>0, <2>1, <2>2, ThenNone
    <2>3. ASSUME NEW s, StepOK(s), s.do = "review", Then(<<s>>)
          PROVE  TodoOK(todo') /\ conts' = conts
        <3>1. s.do \in Sweeps \ {"end"} /\ "apply" \notin Solo
            BY <2>3 DEF Sweeps, Solo
        <3>. QED
            BY <2>1, <2>3, <3>1, ThenOne
    <2>. QED
        BY <1>0, <2>1, <2>2, <2>3
<1>5. CASE StepReview \/ StepPolled \/ StepConsume \/ StepRead \/ StepGrace
    BY <1>0, <1>5, ThenNone DEF StepReview, StepPolled, StepConsume, StepRead, StepGrace
<1>6. CASE StepSpawned
    <2>. DEFINE r == <<[do |-> "polled"], Observe(Head(todo).t)>>
    <2>1. /\ At("spawned") /\ Head(todo).t \in Ids
          /\ Quit \/ Then(r)
        BY <1>6, SpawnedMem DEF StepSpawned
    <2>2. TodoOK(r) /\ IsSeq(r)
        BY <2>1, ObserveStep, TodoPair DEF TodoOK, Solo
    <2>. HIDE DEF r
    <2>3. CASE Quit
        BY <1>0, <2>3, TodoNone DEF Quit
    <2>4. CASE Then(r)
        BY <1>0, <2>1, <2>2, <2>4, ThenAlone DEF Solo
    <2>. QED
        BY <2>1, <2>3, <2>4
<1>7. CASE StepAttached
    <2>. DEFINE r == <<Observe(Head(todo).t)>>
    <2>1. /\ At("attached") /\ Head(todo).t \in Ids
          /\ Quit \/ Then(r)
        BY <1>7, AttachedMem DEF StepAttached
    <2>2. TodoOK(r) /\ IsSeq(r)
        BY <2>1, ObserveStep, TodoSingle DEF TodoOK
    <2>. HIDE DEF r
    <2>3. CASE Quit
        BY <1>0, <2>3, TodoNone DEF Quit
    <2>4. CASE Then(r)
        BY <1>0, <2>1, <2>2, <2>4, ThenAlone DEF Solo
    <2>. QED
        BY <2>1, <2>3, <2>4
<1>8. CASE StepStopped
    <2>. DEFINE s == [do |-> "grace", t |-> Head(todo).t]
    <2>1. At("stopped") /\ conts' = conts /\ (todo' = <<>> \/ todo' = <<s>>)
        BY <1>8 DEF StepStopped, Quit
    <2>2. StepOK(s)
        BY <2>1, FirstTodo DEF StepOK, Solo
    <2>. QED
        BY <1>0, <2>1, <2>2, TodoNone, TodoSingle
<1>9. CASE OpObserve
    <2>. DEFINE a == [do |-> "observe", t |-> Head(queue).t, reason |-> Head(queue).reason]
                b == [do |-> "consume"]
    <2>1. Ready("observe") /\ todo' = <<a, b>> /\ conts' = conts
        BY <1>9 DEF OpObserve, RunOp
    <2>2. Head(queue).t \in Ids
        BY <2>1, FirstOp DEF OpOK
    <2>3. StepOK(a) /\ StepOK(b) /\ {a.do, b.do} \cap (Solo \cup {"end"}) = {}
        BY <2>2 DEF StepOK, Solo, Sweeps
    <2>. QED
        BY <1>0, <2>1, <2>3, TodoPair
<1>10. CASE OpSweep
    <2>1. /\ conts' = conts
          /\ \/ todo' = <<[do |-> "polled"]>> \o ObserveAll \o <<[do |-> "end", cont |-> "poll"]>>
             \/ todo' = ObserveAll \o <<[do |-> "end", cont |-> "init"]>>
        BY <1>10 DEF OpSweep, RunOp
    <2>2. TodoOK(<<[do |-> "polled"]>> \o ObserveAll \o <<[do |-> "end", cont |-> "poll"]>>)
        BY PolledFirst, TodoSweep
    <2>3. TodoOK(ObserveAll \o <<[do |-> "end", cont |-> "init"]>>)
        BY ObserveAllSteps, TodoSweep
    <2>. QED
        BY <1>0, <2>1, <2>2, <2>3
<1>11. CASE OpStart \/ OpAttach \/ OpLogs \/ OpCancel
    <2>1. /\ conts' = conts
          /\ todo' = <<>> \/ \E s : s.t = Head(queue).t /\ s.do \in Solo /\ todo' = <<s>>
        BY <1>11 DEF OpStart, OpAttach, OpLogs, OpCancel, RunOp, Solo
    <2>2. Head(queue).t \in Ids
        BY <1>11, FirstOp DEF OpStart, OpAttach, OpLogs, OpCancel, OpOK
    <2>3. ASSUME NEW s, s.t = Head(queue).t, s.do \in Solo
          PROVE  StepOK(s)
        BY <2>2, <2>3 DEF StepOK
    <2>. QED
        BY <1>0, <2>1, <2>3, TodoNone, TodoSingle
<1>12. CASE OpWait
    <2>1. Ready("wait") /\ conts' = conts
          /\ (todo' = <<>> \/ todo' = <<Observe(Head(queue).t), [do |-> "consume"]>>)
        BY <1>12 DEF OpWait, RunOp
    <2>2. Head(queue).t \in Ids
        BY <2>1, FirstOp DEF OpOK
    <2>3. StepOK(Observe(Head(queue).t)) /\ Observe(Head(queue).t).do = "observe"
        BY <2>2, ObserveStep
    <2>4. StepOK([do |-> "consume"])
        BY DEF StepOK, Solo, Sweeps
    <2>5. TodoOK(<<Observe(Head(queue).t), [do |-> "consume"]>>)
        BY <2>3, <2>4, TodoPair DEF Solo
    <2>. QED
        BY <1>0, <2>1, <2>5, TodoNone
<1>13. CASE OpRebuild
    <2>1. todo' = <<[do |-> "end", cont |-> "rebuild"]>> /\ conts' = conts
        BY <1>13 DEF OpRebuild, RunOp
    <2>2. StepOK([do |-> "end", cont |-> "rebuild"])
        BY DEF StepOK, Solo, Sweeps
    <2>. QED
        BY <1>0, <2>1, <2>2, TodoSingle
<1>14. CASE OpFinish \/ OpFail
    BY <1>0, <1>14, TodoNone DEF OpFinish, OpFail, RunOp
<1>15. CASE Continue
    <2>1. conts # <<>> /\ conts' = Tail(conts) /\ todo' = todo
        BY <1>15 DEF Continue
    <2>. QED
        BY <1>0, <2>1, TailSeq
<1>16. CASE Restart
    BY <1>16, TodoNone, EmptyIsSeq DEF Restart
<1>17. ASSUME NEW t \in Ids, ToolCall(t) \/ MonitorAttaches(t) \/ MonitorChanges(t) \/ LogGrows(t)
       PROVE  UNCHANGED <<todo, conts>>
    BY <1>17 DEF ToolCall, Call, Enqueue, MonitorAttaches, MonitorChanges, LogGrows, opVars
<1>18. CASE \/ TimerFires \/ DeliverResolves \/ DeliverRejects \/ UserMessages
            \/ FollowUpTaken \/ FollowUpsCleared
            \/ MarkEntry \/ NavigateBegins \/ Navigate \/ CallRebuild \/ Dispose
    <2>1. UNCHANGED <<todo, conts>>
        BY <1>18 DEF TimerFires, DeliverResolves, DeliverRejects, UserMessages, MarkEntry,
                     FollowUpTaken, FollowUpsCleared,
                     NavigateBegins, Navigate, CallRebuild, Dispose, Enqueue, opVars
    <2>. QED
        BY <1>0, <2>1
<1>. QED
    BY <1>1, <1>2, <1>3, <1>4, <1>5, <1>6, <1>7, <1>8, <1>9, <1>10, <1>11, <1>12, <1>13, <1>14,
       <1>15, <1>16, <1>17, <1>18 DEF Next, Steps

\* The variables that count, and the ones indexed by the tasks.
LEMMA ShapeRest ==
    ASSUME Shape, Next
    PROVE  /\ mark' \in {mark, saved}
           /\ strays' \in Nat /\ restarts' \in Nat /\ leaf' \in Nat \ {0}
           /\ DOMAIN mon' = Ids
           /\ DOMAIN reviewed' = Ids /\ \A t \in Ids : reviewed'[t] \in Nat
<1>0. /\ strays \in Nat /\ restarts \in Nat /\ leaf \in Nat \ {0}
      /\ DOMAIN mon = Ids /\ DOMAIN reviewed = Ids /\ \A t \in Ids : reviewed[t] \in Nat
    BY DEF Shape
<1>. DEFINE Same == UNCHANGED <<mark, strays, restarts, leaf, reviewed>>
<1>1. CASE Same /\ DOMAIN mon' = DOMAIN mon
    BY <1>0, <1>1
<1>2. Rest => UNCHANGED <<mark, strays, restarts, leaf>>
    BY DEF Rest, timerVars, navVars, hostVars
<1>3. ASSUME \/ StepEnd \/ StepObserve \/ StepReview \/ StepPolled
             \/ StepSpawned \/ StepAttached \/ StepRead \/ StepStopped \/ StepGrace
      PROVE  Same /\ DOMAIN mon' = DOMAIN mon
    <2>1. Rest /\ UNCHANGED reviewed
        BY <1>3 DEF StepEnd, StepObserve, StepReview, StepPolled,
                    StepSpawned, StepAttached, StepRead, StepStopped, StepGrace, histVars
    <2>2. DOMAIN mon' = DOMAIN mon
        BY <1>3 DEF StepEnd, StepObserve, StepReview, StepPolled,
                    StepSpawned, StepAttached, StepRead, StepStopped, StepGrace
    <2>. QED
        BY <1>2, <2>1, <2>2
<1>4. ASSUME OpObserve \/ OpSweep \/ OpStart \/ OpAttach \/ OpWait \/ OpLogs \/ OpCancel
      PROVE  Same /\ DOMAIN mon' = DOMAIN mon
    <2>1. Rest /\ UNCHANGED <<mon, reviewed>>
        BY <1>4 DEF OpObserve, OpSweep, OpStart, OpAttach, OpWait, OpLogs, OpCancel, histVars
    <2>. QED
        BY <1>2, <2>1
<1>5. ASSUME NEW t \in Ids, ToolCall(t) \/ MonitorAttaches(t) \/ MonitorChanges(t) \/ LogGrows(t)
      PROVE  Same /\ DOMAIN mon' = DOMAIN mon
    <2>1. Rest /\ UNCHANGED reviewed
        BY <1>5 DEF ToolCall, Call, MonitorAttaches, MonitorChanges, LogGrows, histVars
    <2>2. DOMAIN mon' = DOMAIN mon
        BY <1>5 DEF ToolCall, Call, MonitorAttaches, MonitorChanges, LogGrows
    <2>. QED
        BY <1>2, <2>1, <2>2
<1>6. ASSUME \/ StepConsume \/ OpRebuild \/ OpFinish \/ OpFail
             \/ DeliverResolves \/ DeliverRejects \/ UserMessages \/ NavigateBegins \/ CallRebuild
             \/ FollowUpTaken \/ FollowUpsCleared \/ Dispose
      PROVE  Same /\ DOMAIN mon' = DOMAIN mon
    BY <1>6 DEF FollowUpTaken, FollowUpsCleared, StepConsume, OpRebuild, OpFinish, OpFail,
                DeliverResolves, DeliverRejects,
                UserMessages, NavigateBegins, CallRebuild, Dispose, timerVars, navVars, hostVars,
                histVars
<1>7. CASE StepApply
    <2>1. Rest /\ UNCHANGED mon
        BY <1>7 DEF StepApply
    <2>2. DOMAIN reviewed' = Ids /\ \A t \in Ids : reviewed'[t] \in Nat
        BY <1>0, <1>7, ApplyMem
    <2>. QED
        BY <1>0, <1>2, <2>1, <2>2
<1>8. CASE Continue \/ TimerFires
    <2>1. UNCHANGED <<mark, restarts, leaf, reviewed, mon>>
        BY <1>8 DEF Continue, TimerFires, navVars, hostVars, histVars
    <2>2. strays' \in Nat
        BY <1>0, <1>8 DEF Continue, TimerFires
    <2>. QED
        BY <1>0, <2>1, <2>2
<1>9. CASE MarkEntry
    BY <1>0, <1>9 DEF MarkEntry, timerVars, hostVars, histVars
<1>10. CASE Navigate
    <2>1. /\ UNCHANGED <<mark, strays, restarts>> /\ leaf' = leaf + 1
          /\ DOMAIN mon' = Ids
          /\ reviewed' = [t \in Ids |-> mark.tasks[t].reviewCount]
        BY <1>10 DEF Navigate, timerVars, hostVars
    <2>2. \A t \in Ids : mark.tasks[t].reviewCount \in 0..MaxReviews
        BY DEF Shape, MemOK, TaskOK
    <2>. QED
        BY <1>0, <2>1, <2>2
<1>11. CASE Restart
    BY <1>0, <1>11 DEF Restart
<1>. QED
    BY <1>1, <1>3, <1>4, <1>5, <1>6, <1>7, <1>8, <1>9, <1>10, <1>11 DEF Next, Steps

\* Every action keeps the types.
LEMMA ShapeKept ==
    ASSUME Shape, [Next]_vars
    PROVE  Shape'
<1>1. CASE Next
    <2>1. MemOK(mark')
        BY <1>1, ShapeRest DEF Shape
    <2>. QED
        BY <1>1, <2>1, ShapeWake, ShapeTodo, ShapeRest DEF Shape
<1>2. CASE UNCHANGED vars
    BY <1>2 DEF vars, Shape
<1>. QED
    BY <1>1, <1>2

\* The types hold at first.
LEMMA ShapeInit ==
    ASSUME Init
    PROVE  Shape
<1>1. /\ DOMAIN NoSnapshot = {"branch", "tasks", "events", "keys"}
      /\ NoSnapshot.tasks = [t \in Ids |-> NoTask] /\ NoSnapshot.events = {}
    BY DEF NoSnapshot
<1>2. TaskOK(NoTask)
    BY BackgroundAssumption DEF NoTask, TaskOK
<1>3. MemOK(NoSnapshot)
    BY <1>1, <1>2 DEF MemOK
<1>4. QueueOK(<<>>, 0) /\ TodoOK(<<>>) /\ IsSeq(<<>>)
    BY EmptyIsSeq, TodoNone DEF QueueOK
<1>. QED
    BY <1>3, <1>4 DEF Init, Shape, InflightOK

-----------------------------------------------------------------------------
(* One delivery at a time, and its events have an owner.                   *)

Token(o, g) == o.kind \in Settles /\ o.gen = g

\* The same deliveries settle in both queues.
SameTokens(q, p, g) ==
    /\ Settling(q, g) = {} <=> Settling(p, g) = {}
    /\ Unique(Settling(q, g)) => Unique(Settling(p, g))
    /\ \A i \in Settling(q, g) : \E j \in Settling(p, g) : p[j] = q[i]

\* The first operation leaves the queue, and was no token.
LEMMA TailTokens ==
    ASSUME NEW q, NEW g, IsSeq(q), q # <<>>, ~Token(Head(q), g)
    PROVE  SameTokens(q, Tail(q), g)
<1>. DEFINE p == Tail(q)
<1>1. Len(q) \in Nat /\ Head(q) = q[1]
    BY SeqParts
<1>2. /\ Len(p) = Len(q) - 1
      /\ \A i \in 1..(Len(q) - 1) : i + 1 \in 1..Len(q) /\ p[i] = q[i + 1]
    BY TailSeq
<1>. HIDE DEF p
<1>3. ASSUME NEW i \in Settling(q, g)
      PROVE  i - 1 \in Settling(p, g) /\ p[i - 1] = q[i]
    <2>1. i \in 1..Len(q) /\ Token(q[i], g)
        BY <1>3 DEF Settling, Token
    <2>2. i # 1
        BY <1>1, <2>1
    <2>3. i - 1 \in 1..(Len(q) - 1) /\ (i - 1) + 1 = i
        BY <1>1, <2>1, <2>2
    <2>4. i - 1 \in 1..Len(p) /\ p[i - 1] = q[i]
        BY <1>2, <2>3
    <2>. QED
        BY <2>1, <2>4 DEF Settling, Token
<1>4. ASSUME NEW i \in Settling(p, g)
      PROVE  i + 1 \in Settling(q, g) /\ i \in Nat
    <2>1. i \in 1..(Len(q) - 1) /\ Token(p[i], g)
        BY <1>2 DEF Settling, Token
    <2>. QED
        BY <1>1, <1>2, <2>1 DEF Settling, Token
<1>5. Unique(Settling(q, g)) => Unique(Settling(p, g))
    BY <1>4 DEF Unique
<1>. QED
    BY <1>3, <1>4, <1>5 DEF SameTokens, p

\* An operation that is no token enters the queue.
LEMMA AppendTokens ==
    ASSUME NEW q, NEW g, IsSeq(q), NEW o, ~Token(o, g)
    PROVE  SameTokens(q, Append(q, o), g)
<1>. DEFINE p == Append(q, o)
<1>1. /\ Len(q) \in Nat /\ Len(p) = Len(q) + 1
      /\ \A i \in 1..Len(q) : p[i] = q[i]
      /\ p[Len(q) + 1] = o
    BY SeqParts, AppendSeq
<1>. HIDE DEF p
<1>2. \A i \in 1..Len(p) : i \in 1..Len(q) \/ i = Len(q) + 1
    BY <1>1
<1>3. \A i \in 1..Len(q) : i \in 1..Len(p)
    BY <1>1
<1>4. Settling(p, g) = Settling(q, g)
    BY <1>1, <1>2, <1>3 DEF Settling, Token
<1>5. \A i \in Settling(q, g) : p[i] = q[i]
    BY <1>1 DEF Settling
<1>. QED
    BY <1>4, <1>5 DEF SameTokens, p

\* A queue that changes by other operations has the same tokens.
LEMMA QuietTokens ==
    ASSUME NEW q, NEW p, NEW g, IsSeq(q), QuietQueue(q, p, g)
    PROVE  SameTokens(q, p, g)
<1>1. CASE p = q
    BY <1>1 DEF SameTokens
<1>2. CASE q # <<>> /\ Head(q).kind \notin Settles /\ p = Tail(q)
    BY <1>2, TailTokens DEF Token
<1>3. CASE \E o : OpOK(o, g) /\ o.kind \notin Settles /\ p = Append(q, o)
    BY <1>3, AppendTokens DEF Token
<1>. QED
    BY <1>1, <1>2, <1>3 DEF QuietQueue

\* The same tokens are one delivery, with the same keys.
LEMMA TokenKept ==
    ASSUME NEW q, NEW p, NEW fl, NEW busy, NEW g, SameTokens(q, p, g)
    PROVE  /\ OneToken(q, fl, busy, g) => OneToken(p, fl, busy, g)
           /\ \A m : AllOwned(m, q, fl, g) => AllOwned(m, p, fl, g)
<1>1. OneToken(q, fl, busy, g) => OneToken(p, fl, busy, g)
    BY DEF SameTokens, OneToken
<1>2. \A k : Owns(q, fl, g, k) => Owns(p, fl, g, k)
    BY DEF SameTokens, Owns
<1>. QED
    BY <1>1, <1>2 DEF AllOwned

\* A queue of wakes is sent when no delivery is under way.
LEMMA ConsumeToken ==
    ASSUME NEW m, NEW s, NEW busy, NEW g, NEW fl, NEW q,
           MemOK(m), ConsumeWakeQueue(m, s, busy, g, fl), OneToken(q, fl, busy, g)
    PROVE  /\ OneToken(q, inflight', delivering', generation')
           /\ AllOwned(m, q, fl, g) => AllOwned(mem', q, inflight', generation')
<1>1. CASE ConsumeIdle(m, s, busy, g, fl)
    BY <1>1 DEF ConsumeIdle, OneToken
<1>2. CASE ConsumeSends(m, busy, g, fl)
    <2>. DEFINE d == SentAs(m, g)
    <2>1. d.gen = g /\ d.keys = QueuedKeys(m)
        BY DEF SentAs
    <2>. HIDE DEF d
    <2>2. /\ mem' = Sent(m) /\ inflight' = fl \cup {d} /\ generation' = g
          /\ delivering' = TRUE /\ ~busy
        BY <1>2 DEF ConsumeSends, d
    <2>3. Calls(fl, g) = {} /\ Settling(q, g) = {}
        BY <2>2 DEF OneToken
    <2>4. Calls(inflight', g) = {d}
        BY <2>1, <2>2, <2>3 DEF Calls
    <2>5. OneToken(q, inflight', TRUE, g)
        BY <2>3, <2>4 DEF OneToken, Unique
    <2>6. ASSUME AllOwned(m, q, fl, g), NEW e \in Sent(m).events, e.state = "delivered"
          PROVE  Owns(q, inflight', g, e.key)
        <3>1. CASE e \in m.events
            BY <2>3, <2>6, <3>1 DEF AllOwned, Owns
        <3>2. CASE e.key \in QueuedKeys(m)
            BY <2>1, <2>4, <3>2 DEF Owns
        <3>. QED
            BY <3>1, <3>2, SentKeeps
    <2>. QED
        BY <2>2, <2>5, <2>6 DEF AllOwned
<1>. QED
    BY <1>1, <1>2, ConsumeCases

\* The delivery that settles was the only one.
LEMMA LastToken ==
    ASSUME NEW q, NEW fl, NEW busy, NEW g, IsSeq(q), q # <<>>,
           OneToken(q, fl, busy, g), Token(Head(q), g)
    PROVE  /\ OneToken(Tail(q), fl, FALSE, g)
           /\ \A k : Owns(q, fl, g, k) => k \in Head(q).keys
           /\ Calls(fl, g) = {}
           /\ \A i \in Settling(q, g) : i = 1
<1>1. Len(q) \in Nat /\ 1 \in 1..Len(q) /\ Head(q) = q[1]
    BY SeqParts
<1>2. 1 \in Settling(q, g)
    BY <1>1 DEF Settling, Token
<1>3. Calls(fl, g) = {} /\ \A i \in Settling(q, g) : i = 1
    BY <1>2 DEF OneToken, Unique
<1>4. ASSUME NEW i \in Settling(Tail(q), g)
      PROVE  FALSE
    <2>1. /\ Len(Tail(q)) = Len(q) - 1
          /\ \A j \in 1..(Len(q) - 1) : j + 1 \in 1..Len(q) /\ Tail(q)[j] = q[j + 1]
        BY TailSeq
    <2>2. i \in 1..(Len(q) - 1) /\ i + 1 \in Settling(q, g)
        BY <2>1 DEF Settling
    <2>. QED
        BY <1>1, <1>3, <2>2
<1>5. OneToken(Tail(q), fl, FALSE, g)
    BY <1>3, <1>4 DEF OneToken, Unique
<1>. QED
    BY <1>1, <1>3, <1>5 DEF Owns

\* A delivery leaves the host for the queue.
LEMMA TokenSettles ==
    ASSUME NEW q, NEW fl, NEW busy, NEW g, IsSeq(q), OneToken(q, fl, busy, g),
           NEW d \in fl, NEW o, o.kind \in Settles, o.gen = d.gen, o.keys = d.keys
    PROVE  /\ OneToken(Append(q, o), fl \ {d}, busy, g)
           /\ \A m : AllOwned(m, q, fl, g) => AllOwned(m, Append(q, o), fl \ {d}, g)
<1>. DEFINE p == Append(q, o)
<1>1. /\ Len(q) \in Nat /\ Len(p) = Len(q) + 1
      /\ \A i \in 1..Len(q) : p[i] = q[i]
      /\ p[Len(q) + 1] = o
    BY SeqParts, AppendSeq
<1>. HIDE DEF p
<1>2. CASE d.gen = g
    <2>1. Calls(fl, g) = {d} /\ Settling(q, g) = {} /\ busy
        BY <1>2 DEF OneToken, Unique, Calls
    <2>2. Calls(fl \ {d}, g) = {}
        BY <2>1 DEF Calls
    <2>3. \A i \in 1..Len(p) : i \in 1..Len(q) \/ i = Len(q) + 1
        BY <1>1
    <2>4. Settling(p, g) = {Len(q) + 1}
        <3>1. \A i \in Settling(p, g) : i = Len(q) + 1
            BY <1>1, <2>1, <2>3 DEF Settling
        <3>2. Len(q) + 1 \in Settling(p, g)
            BY <1>1, <1>2 DEF Settling
        <3>. QED
            BY <3>1, <3>2
    <2>5. OneToken(p, fl \ {d}, busy, g)
        BY <2>1, <2>2, <2>4 DEF OneToken, Unique
    <2>6. \A k : Owns(q, fl, g, k) => Owns(p, fl \ {d}, g, k)
        BY <1>1, <2>1, <2>4 DEF Owns
    <2>. QED
        BY <2>5, <2>6 DEF AllOwned, p
<1>3. CASE d.gen # g
    <2>1. SameTokens(q, p, g)
        BY <1>3, AppendTokens DEF Token, p
    <2>2. Calls(fl \ {d}, g) = Calls(fl, g)
        BY <1>3 DEF Calls
    <2>3. /\ OneToken(p, fl, busy, g)
          /\ \A m : AllOwned(m, q, fl, g) => AllOwned(m, p, fl, g)
        BY <2>1, TokenKept
    <2>. QED
        BY <2>2, <2>3 DEF OneToken, AllOwned, Owns, p
<1>. QED
    BY <1>2, <1>3

\* A memory that grows has no new event in state delivered.
LEMMA GrowsOwned ==
    ASSUME NEW m, NEW n, Grows(m, n), NEW q, NEW fl, NEW g, AllOwned(m, q, fl, g)
    PROVE  AllOwned(n, q, fl, g)
BY DEF Grows, AllOwned

\* The parts of Shape that the deliveries need.
LEMMA ShapeParts ==
    ASSUME Shape
    PROVE  /\ MemOK(mem) /\ MemOK(saved) /\ QueueOK(queue, generation) /\ IsSeq(queue)
           /\ generation \in Nat /\ restarts \in Nat /\ InflightOK(inflight, generation)
BY DEF Shape, QueueOK

\* Every action keeps the one delivery and the owners of delivered wakes.
LEMMA WakeKept ==
    ASSUME Shape, WakeInv, OwnerInv, Next
    PROVE  WakeInv' /\ OwnerInv'
<1>0. /\ MemOK(mem) /\ MemOK(saved) /\ QueueOK(queue, generation) /\ IsSeq(queue)
      /\ generation \in Nat /\ restarts \in Nat /\ InflightOK(inflight, generation)
    BY ShapeParts
<1>. DEFINE T    == OneToken(queue, inflight, delivering, generation)
            Own  == AllOwned(mem, queue, inflight, generation)
            T2   == OneToken(queue', inflight', delivering', generation')
            Own2 == AllOwned(mem', queue', inflight', generation')
<1>a. (~disposed => T) /\ (restarts = 0 /\ ~disposed => Own)
    BY DEF WakeInv, OwnerInv
<1>b. SUFFICES (~disposed' => T2) /\ (restarts' = 0 /\ ~disposed' => Own2)
    BY DEF WakeInv, OwnerInv
<1>. HIDE DEF T, Own, T2, Own2
<1>c. ASSUME UNCHANGED <<disposed, restarts>>, ~disposed /\ T => T2 /\ (Own => Own2)
      PROVE  (~disposed' => T2) /\ (restarts' = 0 /\ ~disposed' => Own2)
    BY <1>a, <1>c
<1>1. CASE Plain
    <2>1. SameTokens(queue, queue', generation)
        BY <1>0, <1>1, QuietTokens DEF Plain
    <2>2. UNCHANGED <<inflight, delivering, generation, disposed, restarts>> /\ Grows(mem, mem')
        BY <1>1 DEF Plain, SameWake, wakeVars, MemStep
    <2>3. T => T2
        BY <2>1, <2>2, TokenKept DEF T, T2
    <2>4. Own => Own2
        BY <2>1, <2>2, TokenKept, GrowsOwned DEF Own, Own2
    <2>. QED
        BY <1>c, <2>2, <2>3, <2>4
<1>2. CASE StepConsume \/ Continue
    <2>1. /\ queue' = queue /\ ConsumeWakeQueue(mem, saved, delivering, generation, inflight)
          /\ UNCHANGED <<disposed, restarts>>
        BY <1>2 DEF StepConsume, Continue, Then, hostVars
    <2>2. T => T2 /\ (Own => Own2)
        BY <1>0, <2>1, ConsumeToken DEF T, T2, Own, Own2
    <2>. QED
        BY <1>c, <2>1, <2>2
<1>3. CASE OpRebuild
    <2>. DEFINE m == Head(queue).entries
                K == {e.key : e \in {e \in m.events : e.state = "delivered"}}
    <2>1. /\ Ready("rebuild") /\ Persist(Consumed(m, K))
          /\ queue' = Tail(queue) /\ generation' = generation + 1 /\ inflight' = inflight
          /\ delivering' = FALSE /\ UNCHANGED <<disposed, restarts>>
        BY <1>3 DEF OpRebuild, Consumed, RunOp, hostVars
    <2>2. queue # <<>> /\ MemOK(m)
        BY <2>1, FirstOp DEF OpOK
    <2>3. \A e \in m.events : e.state = "delivered" => e.key \in K
        OBVIOUS
    <2>. HIDE DEF m, K
    <2>4. QueueOK(queue', generation)
        BY <1>0, <2>1, <2>2, QueueTail
    <2>5. Calls(inflight, generation + 1) = {}
        BY <1>0 DEF Calls, InflightOK
    <2>6. Settling(queue', generation + 1) = {}
        BY <1>0, <2>4 DEF Settling, QueueOK, OpOK
    <2>7. T2
        BY <2>1, <2>5, <2>6 DEF T2, OneToken, Unique
    <2>8. ASSUME NEW e \in Consumed(m, K).events
          PROVE  e.state # "delivered"
        BY <2>2, <2>3, ConsumedKeeps
    <2>9. Own2
        BY <2>1, <2>8 DEF Own2, AllOwned, Persist
    <2>. QED
        BY <2>7, <2>9
<1>4. CASE OpFinish
    <2>. DEFINE K == Head(queue).keys
                m == Consumed(mem, K)
    <2>1. /\ Ready("finish") /\ queue' = Tail(queue) /\ UNCHANGED <<disposed, restarts>>
          /\ IF disposed \/ Head(queue).gen # generation THEN KeepMem /\ UNCHANGED wakeVars
             ELSE ConsumeWakeQueue(m, m, FALSE, generation, inflight)
        BY <1>4 DEF OpFinish, Consumed, RunOp, hostVars
    <2>2. queue # <<>> /\ Head(queue).kind = "finish"
        BY <2>1 DEF Ready
    <2>3. CASE disposed
        BY <2>1, <2>3
    <2>4. CASE ~disposed /\ Head(queue).gen # generation
        <3>1. SameTokens(queue, queue', generation)
            BY <1>0, <2>1, <2>2, <2>4, TailTokens DEF Token
        <3>2. UNCHANGED <<mem, inflight, delivering, generation>>
            BY <2>1, <2>4 DEF KeepMem, wakeVars
        <3>. QED
            BY <1>c, <2>1, <3>1, <3>2, TokenKept DEF T, T2, Own, Own2
    <2>5. CASE ~disposed /\ Head(queue).gen = generation
        <3>1. T
            BY <1>a, <2>5
        <3>2. Token(Head(queue), generation)
            BY <2>2, <2>5 DEF Token, Settles
        <3>3. /\ OneToken(queue', inflight, FALSE, generation)
              /\ \A k : Owns(queue, inflight, generation, k) => k \in K
            BY <1>0, <2>1, <2>2, <3>1, <3>2, LastToken DEF T
        <3>4. /\ MemOK(m)
              /\ \A e \in m.events :
                   \E f \in mem.events : /\ e.key = f.key
                                         /\ IF f.key \in K THEN e.state = "consumed" ELSE e = f
            BY <1>0, ConsumedKeeps
        <3>. HIDE DEF m, K
        <3>5. Own => AllOwned(m, queue', inflight, generation)
            BY <3>3, <3>4 DEF Own, AllOwned
        <3>6. ConsumeWakeQueue(m, m, FALSE, generation, inflight)
            BY <2>1, <2>5
        <3>7. T2 /\ (AllOwned(m, queue', inflight, generation) => Own2)
            BY <3>3, <3>4, <3>6, ConsumeToken DEF T2, Own2
        <3>. QED
            BY <1>c, <2>1, <3>5, <3>7
    <2>. QED
        BY <2>3, <2>4, <2>5
<1>5. CASE OpFail
    <2>. DEFINE K == Head(queue).keys
                m == Mark(mem, K, "queued")
    <2>1. /\ Ready("fail") /\ queue' = Tail(queue)
          /\ UNCHANGED <<disposed, restarts, inflight, generation>>
          /\ IF disposed \/ Head(queue).gen # generation THEN KeepMem /\ UNCHANGED delivering
             ELSE Persist(m) /\ delivering' = FALSE
        BY <1>5 DEF OpFail, RunOp, hostVars
    <2>2. queue # <<>> /\ Head(queue).kind = "fail"
        BY <2>1 DEF Ready
    <2>3. CASE disposed
        BY <2>1, <2>3
    <2>4. CASE ~disposed /\ Head(queue).gen # generation
        <3>1. SameTokens(queue, queue', generation)
            BY <1>0, <2>1, <2>2, <2>4, TailTokens DEF Token
        <3>2. UNCHANGED <<mem, inflight, delivering, generation>>
            BY <2>1, <2>4 DEF KeepMem
        <3>. QED
            BY <1>c, <2>1, <3>1, <3>2, TokenKept DEF T, T2, Own, Own2
    <2>5. CASE ~disposed /\ Head(queue).gen = generation
        <3>1. T
            BY <1>a, <2>5
        <3>2. Token(Head(queue), generation)
            BY <2>2, <2>5 DEF Token, Settles
        <3>3. /\ OneToken(queue', inflight, FALSE, generation)
              /\ \A k : Owns(queue, inflight, generation, k) => k \in K
            BY <1>0, <2>1, <2>2, <3>1, <3>2, LastToken DEF T
        <3>4. \A e \in m.events :
                \E f \in mem.events : /\ e.key = f.key
                                      /\ IF f.key \in K THEN e.state = "queued" ELSE e = f
            BY <1>0, MarkKeeps
        <3>. HIDE DEF m, K
        <3>5. Own => AllOwned(m, queue', inflight, generation)
            BY <3>3, <3>4 DEF Own, AllOwned
        <3>6. mem' = m /\ delivering' = FALSE
            BY <2>1, <2>5 DEF Persist
        <3>7. T2 /\ (Own => Own2)
            BY <2>1, <3>3, <3>5, <3>6 DEF T2, Own2
        <3>. QED
            BY <1>c, <2>1, <3>7
    <2>. QED
        BY <2>3, <2>4, <2>5
<1>6. CASE DeliverResolves \/ DeliverRejects
    <2>1. PICK d \in inflight, kind \in Settles :
            /\ inflight' = inflight \ {d}
            /\ queue' = Append(queue, [kind |-> kind, gen |-> d.gen, keys |-> d.keys])
        BY <1>6 DEF DeliverResolves, DeliverRejects, Enqueue, Settles
    <2>2. UNCHANGED <<mem, generation, delivering, disposed, restarts>>
        BY <1>6 DEF DeliverResolves, DeliverRejects, KeepMem, hostVars
    <2>. DEFINE o == [kind |-> kind, gen |-> d.gen, keys |-> d.keys]
    <2>3. o.kind \in Settles /\ o.gen = d.gen /\ o.keys = d.keys /\ queue' = Append(queue, o)
        BY <2>1
    <2>. HIDE DEF o
    <2>4. T => T2 /\ (Own => Own2)
        BY <1>0, <2>1, <2>2, <2>3, TokenSettles DEF T, T2, Own, Own2
    <2>. QED
        BY <1>c, <2>2, <2>4
<1>7. CASE Navigate
    <2>1. UNCHANGED <<mem, queue, inflight, generation, delivering, disposed, restarts>>
        BY <1>7 DEF Navigate, opVars, wakeVars, hostVars
    <2>. QED
        BY <1>c, <2>1 DEF T, T2, Own, Own2
<1>8. CASE Dispose
    BY <1>8 DEF Dispose
<1>9. CASE Restart
    <2>. DEFINE d == SentAs(saved, 0)
    <2>1. /\ restarts' = restarts + 1 /\ generation' = 0 /\ queue' = <<[kind |-> "init"]>>
          /\ \/ inflight' = {} /\ delivering' = FALSE
             \/ inflight' = {d} /\ delivering' = TRUE
        BY <1>9 DEF Restart, QueuedKeys, SentAs
    <2>2. d.gen = 0
        BY DEF SentAs
    <2>. HIDE DEF d
    <2>3. Settling(queue', 0) = {}
        BY <2>1, SingleIsSeq DEF Settling, Settles
    <2>4. T2
        <3>1. CASE inflight' = {} /\ delivering' = FALSE
            BY <2>1, <2>3, <3>1 DEF T2, OneToken, Calls, Unique
        <3>2. CASE inflight' = {d} /\ delivering' = TRUE
            BY <2>1, <2>2, <2>3, <3>2 DEF T2, OneToken, Calls, Unique
        <3>. QED
            BY <2>1, <3>1, <3>2
    <2>5. restarts' # 0
        BY <1>0, <2>1
    <2>. QED
        BY <2>4, <2>5
<1>. QED
    BY <1>1, <1>2, <1>3, <1>4, <1>5, <1>6, <1>7, <1>8, <1>9, Classify

-----------------------------------------------------------------------------
(* At most one reception of a key, until the first branch switch.          *)

\* Every settling operation of p is one of q.
SubQueue(q, p) ==
    \A j \in 1..Len(p) : p[j].kind \notin Settles \/ \E i \in 1..Len(q) : p[j] = q[i]

\* The first operation leaves the queue, nothing enters it.
LEMMA TailSub ==
    ASSUME NEW q, IsSeq(q), q # <<>>
    PROVE  SubQueue(q, Tail(q))
BY TailSeq DEF SubQueue

\* What is in a queue after one more operation entered it.
LEMMA AppendParts ==
    ASSUME NEW q, IsSeq(q), NEW o
    PROVE  \A j \in 1..Len(Append(q, o)) :
             Append(q, o)[j] = o \/ (j \in 1..Len(q) /\ Append(q, o)[j] = q[j])
<1>1. /\ Len(q) \in Nat /\ Len(Append(q, o)) = Len(q) + 1
      /\ \A i \in 1..Len(q) : Append(q, o)[i] = q[i]
      /\ Append(q, o)[Len(q) + 1] = o
    BY SeqParts, AppendSeq
<1>2. \A j \in 1..Len(Append(q, o)) : j \in 1..Len(q) \/ j = Len(q) + 1
    BY <1>1
<1>. QED
    BY <1>1, <1>2

\* Such a queue has no operation that settles a delivery but those it had.
LEMMA QuietSub ==
    ASSUME NEW q, NEW p, NEW g, IsSeq(q), QuietQueue(q, p, g)
    PROVE  SubQueue(q, p)
<1>1. CASE p = q
    BY <1>1 DEF SubQueue
<1>2. CASE q # <<>> /\ p = Tail(q)
    BY <1>2, TailSub
<1>3. ASSUME NEW o, o.kind \notin Settles, p = Append(q, o)
      PROVE  SubQueue(q, p)
    BY <1>3, AppendParts DEF SubQueue
<1>. QED
    BY <1>1, <1>2, <1>3 DEF QuietQueue

\* The keys of the deliveries, when only other operations enter the queue.
LEMMA KeysQueue ==
    ASSUME NEW m, NEW q, NEW p, NEW fl, NEW acc, NEW ref, NEW gone, NEW g,
           KeysOK(m, q, fl, acc, ref, gone, g), SubQueue(q, p)
    PROVE  KeysOK(m, p, fl, acc, ref, gone, g)
<1>1. ASSUME NEW j \in 1..Len(p)
      PROVE  /\ p[j].kind = "finish" => p[j].keys \subseteq acc
             /\ p[j].kind = "fail" => Unsettled(m, acc, ref, p[j].keys)
             /\ p[j].kind \in Settles /\ ~gone => p[j].gen = g
             /\ fl # {} => p[j].kind \notin Settles
    <2>1. CASE p[j].kind \notin Settles
        BY <2>1 DEF Settles
    <2>2. ASSUME NEW i \in 1..Len(q), p[j] = q[i]
          PROVE  /\ p[j].kind = "finish" => p[j].keys \subseteq acc
                 /\ p[j].kind = "fail" => Unsettled(m, acc, ref, p[j].keys)
                 /\ p[j].kind \in Settles /\ ~gone => p[j].gen = g
                 /\ fl # {} => p[j].kind \notin Settles
        BY <2>2 DEF KeysOK
    <2>. QED
        BY <2>1, <2>2 DEF SubQueue
<1>. QED
    BY <1>1 DEF KeysOK

\* The keys of the deliveries, when wakes are added.
LEMMA KeysGrow ==
    ASSUME NEW m, NEW n, NEW q, NEW fl, NEW acc, NEW ref, NEW gone, NEW g,
           KeysOK(m, q, fl, acc, ref, gone, g), Grows(m, n)
    PROVE  KeysOK(n, q, fl, acc, ref, gone, g)
<1>1. EventsOK(n, acc, ref)
    BY DEF KeysOK, EventsOK, Grows, Known
<1>2. \A keys : Unsettled(m, acc, ref, keys) => Unsettled(n, acc, ref, keys)
    BY DEF Grows, Unsettled, InState
<1>. QED
    BY <1>1, <1>2 DEF KeysOK

\* The queued wakes are sent: none was handed over but in a rejected delivery.
LEMMA KeysSend ==
    ASSUME NEW m, NEW q, NEW fl, NEW acc, NEW ref, NEW g, MemOK(m), m.branch = 1,
           OneToken(q, fl, FALSE, g), KeysOK(m, q, fl, acc, ref, FALSE, g)
    PROVE  KeysOK(Sent(m), q, fl \cup {SentAs(m, g)}, acc, ref, FALSE, g)
<1>. DEFINE d == SentAs(m, g)
            n == Sent(m)
<1>1. d.gen = g /\ d.branch = 1 /\ d.keys = QueuedKeys(m)
    BY DEF SentAs
<1>2. /\ n.keys = m.keys
      /\ Distinct(m) => Distinct(n)
      /\ \A e \in n.events :
           \/ e \in m.events /\ e.state # "queued"
           \/ e.state = "delivered" /\ e.key \in QueuedKeys(m)
      /\ \A f \in m.events :
           \E e \in n.events : /\ e.key = f.key
                               /\ e.state = "delivered" \/ (e = f /\ f.key \notin QueuedKeys(m))
    BY SentKeeps
<1>. HIDE DEF d, n
<1>3. fl = {}
    BY DEF KeysOK, OneToken, Calls
<1>4. \A i \in 1..Len(q) : q[i].kind \notin Settles
    BY DEF KeysOK, OneToken, Settling
<1>5. EventsOK(m, acc, ref)
    BY DEF KeysOK
<1>6. EventsOK(n, acc, ref)
    <2>1. \A k \in acc : k \in ref \/ Known(n, k)
        BY <1>2, <1>5 DEF EventsOK, Known
    <2>2. \A e \in n.events : e.state = "consumed" => e.key \in acc
        BY <1>2, <1>5 DEF EventsOK
    <2>. QED
        BY <1>2, <1>5, <2>1, <2>2 DEF EventsOK
<1>7. ASSUME NEW k \in QueuedKeys(m)
      PROVE  (k \in acc => k \in ref) /\ InState(n, k, "delivered")
    <2>1. PICK f \in m.events : f.state = "queued" /\ f.key = k
        BY DEF QueuedKeys
    <2>2. k \in acc => k \in ref
        BY <1>5, <2>1 DEF EventsOK, Known, Distinct
    <2>3. InState(n, k, "delivered")
        BY <1>2, <2>1 DEF InState
    <2>. QED
        BY <2>2, <2>3
<1>8. fl \cup {d} = {d}
    BY <1>3
<1>9. Unsettled(n, acc, ref, d.keys)
    BY <1>1, <1>7 DEF Unsettled
<1>10. KeysOK(n, q, {d}, acc, ref, FALSE, g)
    BY <1>1, <1>4, <1>6, <1>9 DEF KeysOK, Unique, Settles
<1>. QED
    BY <1>8, <1>10 DEF d, n

\* The keys of a new delivery were not handed over but in a rejected one, as
\* they were queued.
LEMMA KeysConsume ==
    ASSUME NEW m, NEW s, NEW busy, NEW q, NEW fl, NEW acc, NEW ref, NEW g, MemOK(m), m.branch = 1,
           ~disposed => OneToken(q, fl, busy, g), KeysOK(m, q, fl, acc, ref, disposed, g),
           ConsumeWakeQueue(m, s, busy, g, fl)
    PROVE  KeysOK(mem', q, inflight', acc, ref, disposed, generation')
<1>1. CASE ConsumeIdle(m, s, busy, g, fl)
    BY <1>1 DEF ConsumeIdle
<1>2. CASE ConsumeSends(m, busy, g, fl)
    <2>1. /\ ~disposed /\ ~busy /\ mem' = Sent(m) /\ inflight' = fl \cup {SentAs(m, g)}
          /\ generation' = g
        BY <1>2 DEF ConsumeSends
    <2>2. OneToken(q, fl, FALSE, g)
        BY <2>1 DEF OneToken
    <2>3. KeysOK(m, q, fl, acc, ref, FALSE, g)
        BY <2>1 DEF KeysOK
    <2>4. KeysOK(mem', q, inflight', acc, ref, FALSE, generation')
        BY <2>1, <2>2, <2>3, KeysSend
    <2>. QED
        BY <2>1, <2>4 DEF KeysOK
<1>. QED
    BY <1>1, <1>2, ConsumeCases

\* The only delivery has settled: neither the host nor the queue has another.
LEMMA KeysSettled ==
    ASSUME NEW m, NEW n, NEW q, NEW fl, NEW busy, NEW acc, NEW ref, NEW g, IsSeq(q), q # <<>>,
           OneToken(q, fl, busy, g), Token(Head(q), g), KeysOK(m, q, fl, acc, ref, FALSE, g),
           EventsOK(n, acc, ref)
    PROVE  KeysOK(n, Tail(q), fl, acc, ref, FALSE, g)
<1>1. OneToken(Tail(q), fl, FALSE, g) /\ Calls(fl, g) = {}
    BY LastToken
<1>2. KeysOK(m, Tail(q), fl, acc, ref, FALSE, g)
    BY TailSub, KeysQueue
<1>3. fl = {}
    BY <1>1, <1>2 DEF KeysOK, Calls
<1>4. \A i \in 1..Len(Tail(q)) : Tail(q)[i].kind \notin Settles
    BY <1>1, <1>2 DEF KeysOK, OneToken, Settling
<1>. QED
    BY <1>3, <1>4 DEF KeysOK, Settles, Unique

\* The first branch is left for good.
LEMMA LeafStep ==
    ASSUME Shape, Next, leaf' = 1
    PROVE  leaf = 1 /\ ~Navigate
<1>0. leaf \in Nat \ {0}
    BY DEF Shape
<1>1. Navigate => leaf' = leaf + 1
    BY DEF Navigate
<1>2. leaf' = leaf \/ leaf' = leaf + 1
    BY Classify DEF Plain, SameWake, StepConsume, Continue, OpRebuild, OpFinish, OpFail,
       DeliverResolves, DeliverRejects, Navigate, Dispose, Restart, navVars
<1>. QED
    BY <1>0, <1>1, <1>2

\* Most actions leave the Coordinator's transcript and follow-ups alone.
SameKeys == UNCHANGED <<followUps, keyVars>>

\* The actions that do not.
LEMMA OnlyKeys ==
    ASSUME Next
    PROVE  \/ SameKeys \/ FollowUpTaken \/ FollowUpsCleared
           \/ DeliverResolves \/ DeliverRejects \/ Navigate \/ Restart
<1>1. Rest /\ UNCHANGED keyVars => SameKeys
    BY DEF Rest, SameKeys, hostVars
<1>2. CASE \/ StepEnd \/ StepObserve \/ StepApply \/ StepReview \/ StepPolled
           \/ StepSpawned \/ StepAttached \/ StepRead \/ StepStopped \/ StepGrace
    BY <1>1, <1>2 DEF StepEnd, StepObserve, StepApply, StepReview, StepPolled, StepSpawned,
                      StepAttached, StepRead, StepStopped, StepGrace, histVars
<1>3. CASE OpObserve \/ OpSweep \/ OpStart \/ OpAttach \/ OpWait \/ OpLogs \/ OpCancel
    BY <1>1, <1>3 DEF OpObserve, OpSweep, OpStart, OpAttach, OpWait, OpLogs, OpCancel, histVars
<1>4. CASE StepConsume \/ Continue \/ OpRebuild \/ OpFinish \/ OpFail
    BY <1>4 DEF StepConsume, Continue, OpRebuild, OpFinish, OpFail, SameKeys, hostVars, histVars
<1>5. ASSUME NEW t \in Ids, ToolCall(t) \/ MonitorAttaches(t) \/ MonitorChanges(t) \/ LogGrows(t)
      PROVE  SameKeys
    BY <1>1, <1>5 DEF ToolCall, Call, MonitorAttaches, MonitorChanges, LogGrows, histVars
<1>6. CASE TimerFires \/ UserMessages \/ MarkEntry \/ NavigateBegins \/ CallRebuild \/ Dispose
    BY <1>6 DEF TimerFires, UserMessages, MarkEntry, NavigateBegins, CallRebuild, Dispose,
                SameKeys, hostVars, histVars
<1>. QED
    BY <1>2, <1>3, <1>4, <1>5, <1>6 DEF Next, Steps

\* Then it is enough to look at the memory and the deliveries.
LEMMA SameKeysInv ==
    ASSUME KeysInv, SameKeys,
           KeysOK(mem', queue', inflight', Handed, refused, disposed', generation')
    PROVE  KeysInv'
<1>1. UNCHANGED <<followUps, accepted, repeated, refused, dropped>>
    BY DEF SameKeys, keyVars
<1>2. Handed' = Handed
    BY <1>1 DEF Handed, AllKeys
<1>. QED
    BY <1>1, <1>2 DEF KeysInv

\* On the first branch every delivery is one for the branch.
LEMMA OwnKeys ==
    ASSUME NEW ds, leaf = 1, \A d \in ds : d.branch = 1
    PROVE  KeysOf(ds) = AllKeys(ds)
BY DEF KeysOf, AllKeys

\* The keys of some deliveries.
LEMMA InKeys ==
    ASSUME NEW ds, NEW k
    PROVE  k \in AllKeys(ds) <=> \E d \in ds : k \in d.keys
BY DEF AllKeys

\* Keys of events in state delivered are handed over.
LEMMA EventsHanded ==
    ASSUME NEW m, NEW acc, NEW ref, NEW K, NEW more, EventsOK(m, acc, ref),
           \A k \in K : InState(m, k, "delivered")
    PROVE  EventsOK(m, acc \cup K, ref \cup more)
<1>1. \A k \in K : Known(m, k)
    BY DEF InState, Known
<1>. QED
    BY <1>1 DEF EventsOK

\* Keys that no follow-up has but those of rejected deliveries are received.
LEMMA FollowReceives ==
    ASSUME NEW fs, NEW acc, NEW ref, NEW K, NEW more, FollowOK(fs, acc, ref),
           \A k \in K : k \in AllKeys(fs) => k \in ref
    PROVE  FollowOK(fs, acc \cup K, ref \cup more)
<1>1. ASSUME NEW d \in fs, NEW k \in d.keys, k \in acc \cup K
      PROVE  k \in ref
    <2>1. k \in AllKeys(fs)
        BY InKeys
    <2>. QED
        BY <1>1, <2>1 DEF FollowOK
<1>. QED
    BY <1>1 DEF FollowOK

\* A delivery whose keys were not handed over joins the follow-ups.
LEMMA FollowJoins ==
    ASSUME NEW fs, NEW acc, NEW ref, NEW d, FollowOK(fs, acc, ref), d.branch = 1,
           \A k \in d.keys : (k \in acc => k \in ref) /\ (k \in AllKeys(fs) => k \in ref)
    PROVE  FollowOK(fs \cup {d}, acc, ref)
<1>1. ASSUME NEW e \in fs, NEW k \in d.keys, k \in e.keys
      PROVE  k \in ref
    <2>1. k \in AllKeys(fs)
        BY <1>1, InKeys
    <2>. QED
        BY <2>1
<1>. QED
    BY <1>1 DEF FollowOK

\* The keys of a delivery in the host.
LEMMA CallKeys ==
    ASSUME leaf = 1, KeysInv, NEW d \in inflight
    PROVE  /\ d.branch = 1 /\ KeysOf({d}) = d.keys /\ AllKeys({d}) = d.keys
           /\ \A k \in d.keys :
                /\ k \in accepted => k \in refused
                /\ k \in AllKeys(followUps) => k \in refused
                /\ InState(mem, k, "delivered")
<1>1. d.branch = 1 /\ Unsettled(mem, Handed, refused, d.keys)
    BY DEF KeysInv, KeysOK
<1>2. AllKeys({d}) = d.keys
    BY DEF AllKeys
<1>3. KeysOf({d}) = AllKeys({d})
    BY <1>1, OwnKeys
<1>. QED
    BY <1>1, <1>2, <1>3 DEF Unsettled, Handed

\* What the follow-ups and the transcript satisfy.
Transcript ==
    /\ EventsOK(mem, Handed, refused)
    /\ FollowOK(followUps, accepted, refused)
    /\ repeated \subseteq refused

\* The keys of a delivery are received, in a turn that then fails or not.
LEMMA Received ==
    ASSUME leaf = 1, KeysInv, mem' = mem, NEW K, NEW more,
           \A k \in K : /\ k \in accepted => k \in refused
                        /\ k \in AllKeys(followUps) => k \in refused
                        /\ InState(mem, k, "delivered"),
           accepted' = accepted \cup K, repeated' = repeated \cup (accepted \cap K),
           refused' = refused \cup more, UNCHANGED <<followUps, dropped>>
    PROVE  Transcript' /\ Handed' = Handed \cup K
<1>1. Handed' = Handed \cup K
    BY DEF Handed, AllKeys
<1>2. EventsOK(mem, Handed \cup K, refused \cup more)
    BY EventsHanded DEF KeysInv, KeysOK
<1>3. FollowOK(followUps, accepted \cup K, refused \cup more)
    BY FollowReceives DEF KeysInv
<1>4. repeated' \subseteq refused'
    BY DEF KeysInv
<1>. QED
    BY <1>1, <1>2, <1>3, <1>4 DEF Transcript

\* A delivery settles: its keys are handed over if the host resolves it.
LEMMA HandOver ==
    ASSUME leaf = 1, KeysInv, DeliverResolves \/ DeliverRejects
    PROVE  \E d \in inflight, kind \in Settles :
             /\ inflight' = inflight \ {d}
             /\ queue' = Append(queue, [kind |-> kind, gen |-> d.gen, keys |-> d.keys])
             /\ Transcript'
             /\ kind = "finish" => d.keys \subseteq Handed'
             /\ kind = "fail" => Unsettled(mem, Handed', refused', d.keys)
<1>0. mem' = mem
    BY DEF DeliverResolves, DeliverRejects, KeepMem
<1>1. CASE DeliverResolves
    <2>1. PICK d \in inflight :
            /\ \/ Receive({d}) /\ UNCHANGED followUps
               \/ followUps' = followUps \cup {d} /\ UNCHANGED <<accepted, repeated>>
            /\ inflight' = inflight \ {d}
            /\ Enqueue([kind |-> "finish", gen |-> d.gen, keys |-> d.keys])
        BY <1>1 DEF DeliverResolves
    <2>2. UNCHANGED <<refused, dropped>>
        BY <1>1 DEF DeliverResolves
    <2>3. /\ d.branch = 1 /\ KeysOf({d}) = d.keys /\ AllKeys({d}) = d.keys
          /\ \A k \in d.keys : /\ k \in accepted => k \in refused
                               /\ k \in AllKeys(followUps) => k \in refused
                               /\ InState(mem, k, "delivered")
        BY CallKeys
    <2>4. Transcript' /\ Handed' = Handed \cup d.keys
        <3>1. CASE Receive({d}) /\ UNCHANGED followUps
            <4>1. /\ accepted' = accepted \cup d.keys
                  /\ repeated' = repeated \cup (accepted \cap d.keys)
                  /\ refused' = refused \cup {} /\ UNCHANGED <<followUps, dropped>>
                BY <2>2, <2>3, <3>1 DEF Receive
            <4>. QED
                BY <1>0, <2>3, <4>1, Received
        <3>2. CASE followUps' = followUps \cup {d} /\ UNCHANGED <<accepted, repeated>>
            <4>1. AllKeys(followUps') = AllKeys(followUps) \cup d.keys
                BY <3>2 DEF AllKeys
            <4>2. Handed' = Handed \cup d.keys
                BY <2>2, <3>2, <4>1 DEF Handed, AllKeys
            <4>3. FollowOK(followUps \cup {d}, accepted, refused)
                BY <2>3, FollowJoins DEF KeysInv
            <4>4. EventsOK(mem, Handed \cup d.keys, refused \cup {})
                BY <2>3, EventsHanded DEF KeysInv, KeysOK
            <4>5. refused \cup {} = refused
                OBVIOUS
            <4>. QED
                BY <1>0, <2>2, <3>2, <4>2, <4>3, <4>4, <4>5 DEF Transcript, KeysInv
        <3>. QED
            BY <2>1, <3>1, <3>2
    <2>. QED
        BY <2>1, <2>4 DEF Enqueue, Settles
<1>2. CASE DeliverRejects
    <2>1. PICK d \in inflight :
            /\ \/ UNCHANGED <<accepted, repeated, refused>>
               \/ Receive({d}) /\ refused' = refused \cup KeysOf({d})
            /\ inflight' = inflight \ {d}
            /\ Enqueue([kind |-> "fail", gen |-> d.gen, keys |-> d.keys])
        BY <1>2 DEF DeliverRejects
    <2>2. UNCHANGED <<followUps, dropped>>
        BY <1>2 DEF DeliverRejects, hostVars
    <2>3. /\ d.branch = 1 /\ KeysOf({d}) = d.keys /\ AllKeys({d}) = d.keys
          /\ \A k \in d.keys : /\ k \in accepted => k \in refused
                               /\ k \in AllKeys(followUps) => k \in refused
                               /\ InState(mem, k, "delivered")
        BY CallKeys
    <2>4. Unsettled(mem, Handed, refused, d.keys)
        BY DEF KeysInv, KeysOK
    <2>5. Transcript' /\ Unsettled(mem, Handed', refused', d.keys)
        <3>1. CASE UNCHANGED <<accepted, repeated, refused>>
            <4>1. Handed' = Handed
                BY <2>2, <3>1 DEF Handed, AllKeys
            <4>. QED
                BY <1>0, <2>2, <2>4, <3>1, <4>1 DEF Transcript, KeysInv, KeysOK
        <3>2. CASE Receive({d}) /\ refused' = refused \cup KeysOf({d})
            <4>1. /\ accepted' = accepted \cup d.keys
                  /\ repeated' = repeated \cup (accepted \cap d.keys)
                  /\ refused' = refused \cup d.keys
                BY <2>3, <3>2 DEF Receive
            <4>2. Transcript'
                BY <1>0, <2>2, <2>3, <4>1, Received
            <4>. QED
                BY <2>3, <4>1, <4>2 DEF Unsettled
        <3>. QED
            BY <2>1, <3>1, <3>2
    <2>. QED
        BY <2>1, <2>5 DEF Enqueue, Settles
<1>. QED
    BY <1>1, <1>2

\* A follow-up is received or lost: it was handed over before.
LEMMA FollowUpKeys ==
    ASSUME leaf = 1, KeysInv, FollowUpTaken \/ FollowUpsCleared
    PROVE  /\ Handed' = Handed /\ refused' = refused
           /\ FollowOK(followUps', accepted', refused)
           /\ repeated' \subseteq refused
<1>0. FollowOK(followUps, accepted, refused) /\ repeated \subseteq refused
    BY DEF KeysInv
<1>1. CASE FollowUpTaken
    <2>1. PICK d \in followUps : Receive({d}) /\ followUps' = followUps \ {d}
        BY <1>1 DEF FollowUpTaken
    <2>2. UNCHANGED <<refused, dropped>>
        BY <1>1 DEF FollowUpTaken
    <2>3. d.branch = 1 /\ \A k \in d.keys : k \in accepted => k \in refused
        BY <1>0 DEF FollowOK
    <2>4. KeysOf({d}) = d.keys
        <3>1. KeysOf({d}) = AllKeys({d})
            BY <2>3, OwnKeys
        <3>. QED
            BY <3>1 DEF AllKeys
    <2>5. /\ accepted' = accepted \cup d.keys
          /\ repeated' = repeated \cup (accepted \cap d.keys)
        BY <2>1, <2>4 DEF Receive
    <2>6. AllKeys(followUps) = AllKeys(followUps \ {d}) \cup d.keys
        BY DEF AllKeys
    <2>7. Handed' = Handed
        BY <2>1, <2>2, <2>5, <2>6 DEF Handed, AllKeys
    <2>8. FollowOK(followUps \ {d}, accepted \cup d.keys, refused)
        BY <1>0 DEF FollowOK
    <2>. QED
        BY <1>0, <2>1, <2>2, <2>3, <2>5, <2>7, <2>8
<1>2. CASE FollowUpsCleared
    <2>1. /\ dropped' = dropped \cup KeysOf(followUps) /\ followUps' = {}
          /\ UNCHANGED <<accepted, repeated, refused>>
        BY <1>2 DEF FollowUpsCleared
    <2>2. KeysOf(followUps) = AllKeys(followUps)
        BY <1>0, OwnKeys DEF FollowOK
    <2>3. AllKeys({}) = {}
        BY DEF AllKeys
    <2>4. Handed' = accepted' \cup AllKeys(followUps') \cup dropped'
        BY DEF Handed, AllKeys
    <2>5. Handed' = Handed
        BY <2>1, <2>2, <2>3, <2>4 DEF Handed
    <2>. QED
        BY <1>0, <2>1, <2>5 DEF FollowOK
<1>. QED
    BY <1>1, <1>2

\* After a crash: what was in the host may have been received.
LEMMA CrashKeys ==
    ASSUME leaf = 1, KeysInv, Restart
    PROVE  /\ EventsOK(mem, Handed', refused')
           /\ FollowOK(followUps', accepted', refused')
           /\ repeated' \subseteq refused'
<1>0. FollowOK(followUps, accepted, refused) /\ repeated \subseteq refused
    BY DEF KeysInv
<1>1. PICK ds \in SUBSET inflight : Receive(ds)
    BY DEF Restart
<1>2. /\ dropped' = dropped \cup KeysOf(followUps) /\ followUps' = {} /\ refused' = refused
    BY DEF Restart
<1>. DEFINE K == AllKeys(ds)
<1>3. \A d \in ds : d.branch = 1
    BY DEF KeysInv, KeysOK
<1>4. KeysOf(ds) = K
    BY <1>3, OwnKeys
<1>5. ASSUME NEW k \in K
      PROVE  /\ k \in accepted => k \in refused
             /\ InState(mem, k, "delivered")
    <2>1. PICK d \in ds : k \in d.keys
        BY InKeys
    <2>. QED
        BY <2>1, CallKeys
<1>. HIDE DEF K
<1>6. KeysOf(followUps) = AllKeys(followUps)
    BY <1>0, OwnKeys DEF FollowOK
<1>7. accepted' = accepted \cup K /\ repeated' = repeated \cup (accepted \cap K)
    BY <1>1, <1>4 DEF Receive
<1>8. AllKeys({}) = {}
    BY DEF AllKeys
<1>9. Handed' = accepted' \cup AllKeys(followUps') \cup dropped'
    BY DEF Handed, AllKeys
<1>10. Handed' = Handed \cup K
    BY <1>2, <1>6, <1>7, <1>8, <1>9 DEF Handed
<1>11. EventsOK(mem, Handed \cup K, refused \cup {}) /\ refused \cup {} = refused
    BY <1>5, EventsHanded DEF KeysInv, KeysOK
<1>. QED
    BY <1>0, <1>2, <1>5, <1>7, <1>10, <1>11 DEF FollowOK

\* Until a switch every action keeps the keys of the deliveries unsettled.
LEMMA KeysKept ==
    ASSUME Shape, WakeInv, leaf = 1, NoSwitch, KeysInv, Next, ~Navigate
    PROVE  KeysInv'
<1>0. /\ MemOK(mem) /\ MemOK(saved) /\ QueueOK(queue, generation) /\ IsSeq(queue)
      /\ generation \in Nat /\ InflightOK(inflight, generation)
    BY ShapeParts
<1>. DEFINE Keys(m, q) == KeysOK(m, q, inflight, Handed, refused, disposed, generation)
<1>a. /\ Keys(mem, queue)
      /\ ~disposed => OneToken(queue, inflight, delivering, generation)
      /\ mem = saved /\ mem.branch = 1
    BY DEF KeysInv, WakeInv, NoSwitch
<1>b. EventsOK(mem, Handed, refused)
    BY <1>a DEF KeysOK
<1>1. CASE Plain /\ SameKeys
    <2>1. SubQueue(queue, queue')
        BY <1>0, <1>1, QuietSub DEF Plain
    <2>2. /\ UNCHANGED <<inflight, delivering, generation, disposed>>
          /\ Grows(mem, mem')
        BY <1>1 DEF Plain, SameWake, wakeVars, MemStep
    <2>3. Keys(mem', queue')
        BY <1>a, <2>1, <2>2, KeysGrow, KeysQueue
    <2>. QED
        BY <1>1, <2>2, <2>3, SameKeysInv
<1>2. CASE StepConsume \/ Continue
    <2>1. /\ queue' = queue /\ ConsumeWakeQueue(mem, saved, delivering, generation, inflight)
          /\ disposed' = disposed /\ SameKeys
        BY <1>2 DEF StepConsume, Continue, Then, SameKeys, hostVars, histVars
    <2>2. KeysOK(mem', queue, inflight', Handed, refused, disposed, generation')
        BY <1>0, <1>a, <2>1, KeysConsume
    <2>. QED
        BY <2>1, <2>2, SameKeysInv
<1>3. CASE OpRebuild
    <2>1. Ready("rebuild")
        BY <1>3 DEF OpRebuild
    <2>. QED
        BY <2>1, FirstOp DEF NoSwitch
<1>4. CASE OpFinish
    <2>. DEFINE K == Head(queue).keys
                m == Consumed(mem, K)
    <2>1. /\ Ready("finish") /\ queue' = Tail(queue) /\ disposed' = disposed /\ SameKeys
          /\ IF disposed \/ Head(queue).gen # generation THEN KeepMem /\ UNCHANGED wakeVars
             ELSE ConsumeWakeQueue(m, m, FALSE, generation, inflight)
        BY <1>4 DEF OpFinish, Consumed, RunOp, SameKeys, hostVars, histVars
    <2>2. /\ queue # <<>> /\ Head(queue).kind = "finish" /\ Head(queue) = queue[1]
          /\ 1 \in 1..Len(queue)
        BY <2>1, FirstOp
    <2>3. K \subseteq Handed /\ (~disposed => Head(queue).gen = generation)
        BY <1>a, <2>2 DEF KeysOK, Settles
    <2>4. CASE disposed
        <3>1. UNCHANGED <<mem, inflight, generation>>
            BY <2>1, <2>4 DEF KeepMem, wakeVars
        <3>2. Keys(mem, queue')
            BY <1>0, <1>a, <2>1, <2>2, TailSub, KeysQueue
        <3>. QED
            BY <2>1, <3>1, <3>2, SameKeysInv
    <2>5. CASE ~disposed
        <3>1. Token(Head(queue), generation)
            BY <2>2, <2>3, <2>5 DEF Token, Settles
        <3>2. OneToken(queue', inflight, FALSE, generation)
            BY <1>0, <1>a, <2>1, <2>2, <2>5, <3>1, LastToken
        <3>3. /\ MemOK(m) /\ m.keys = mem.keys \cup K /\ m.branch = mem.branch
              /\ Distinct(mem) => Distinct(m)
              /\ \A e \in m.events :
                   \E f \in mem.events : /\ e.key = f.key
                                         /\ IF f.key \in K THEN e.state = "consumed" ELSE e = f
              /\ \A f \in mem.events :
                   \E e \in m.events : /\ e.key = f.key
                                       /\ IF f.key \in K THEN e.state = "consumed" ELSE e = f
            BY <1>0, ConsumedKeeps
        <3>4. ConsumeWakeQueue(m, m, FALSE, generation, inflight)
            BY <2>1, <2>3, <2>5
        <3>. HIDE DEF m, K
        <3>5. EventsOK(m, Handed, refused)
            <4>1. \A k \in Handed : k \in refused \/ Known(m, k)
                BY <1>b, <3>3 DEF EventsOK, Known
            <4>2. \A e \in m.events : e.state = "consumed" => e.key \in Handed
                BY <1>b, <2>3, <3>3 DEF EventsOK
            <4>. QED
                BY <1>b, <2>3, <3>3, <4>1, <4>2 DEF EventsOK
        <3>6. Keys(m, queue')
            <4>1. KeysOK(mem, queue, inflight, Handed, refused, FALSE, generation)
                BY <1>a, <2>5 DEF KeysOK
            <4>2. KeysOK(m, queue', inflight, Handed, refused, FALSE, generation)
                BY <1>0, <1>a, <2>1, <2>2, <2>5, <3>1, <3>5, <4>1, KeysSettled
            <4>. QED
                BY <2>5, <4>2 DEF KeysOK
        <3>7. KeysOK(mem', queue', inflight', Handed, refused, disposed, generation')
            BY <1>a, <3>2, <3>3, <3>4, <3>6, KeysConsume
        <3>. QED
            BY <2>1, <3>7, SameKeysInv
    <2>. QED
        BY <2>4, <2>5
<1>5. CASE OpFail
    <2>. DEFINE K == Head(queue).keys
                m == Mark(mem, K, "queued")
    <2>1. /\ Ready("fail") /\ queue' = Tail(queue)
          /\ UNCHANGED <<disposed, inflight, generation>> /\ SameKeys
          /\ IF disposed \/ Head(queue).gen # generation THEN KeepMem /\ UNCHANGED delivering
             ELSE Persist(m) /\ delivering' = FALSE
        BY <1>5 DEF OpFail, RunOp, SameKeys, hostVars, histVars
    <2>2. /\ queue # <<>> /\ Head(queue).kind = "fail" /\ Head(queue) = queue[1]
          /\ 1 \in 1..Len(queue)
        BY <2>1, FirstOp
    <2>3. Unsettled(mem, Handed, refused, K) /\ (~disposed => Head(queue).gen = generation)
        BY <1>a, <2>2 DEF KeysOK, Settles
    <2>4. CASE disposed
        <3>1. mem' = mem
            BY <2>1, <2>4 DEF KeepMem
        <3>2. Keys(mem, queue')
            BY <1>0, <1>a, <2>1, <2>2, TailSub, KeysQueue
        <3>. QED
            BY <2>1, <3>1, <3>2, SameKeysInv
    <2>5. CASE ~disposed
        <3>1. Token(Head(queue), generation)
            BY <2>2, <2>3, <2>5 DEF Token, Settles
        <3>2. /\ m.keys = mem.keys
              /\ Distinct(mem) => Distinct(m)
              /\ \A e \in m.events :
                   \E f \in mem.events : /\ e.key = f.key
                                         /\ IF f.key \in K THEN e.state = "queued" ELSE e = f
              /\ \A f \in mem.events :
                   \E e \in m.events : /\ e.key = f.key
                                       /\ IF f.key \in K THEN e.state = "queued" ELSE e = f
            BY <1>0, MarkKeeps
        <3>3. mem' = m
            BY <2>1, <2>3, <2>5 DEF Persist
        <3>. HIDE DEF m, K
        <3>4. EventsOK(m, Handed, refused)
            <4>1. \A k \in Handed : k \in refused \/ k \notin K
                BY <2>3 DEF Unsettled
            <4>2. \A k \in Handed : k \in refused \/ Known(m, k)
                BY <1>b, <3>2, <4>1 DEF EventsOK, Known
            <4>3. \A e \in m.events : e.state = "consumed" => e.key \in Handed
                BY <1>b, <3>2 DEF EventsOK
            <4>. QED
                BY <1>b, <3>2, <4>2, <4>3 DEF EventsOK
        <3>5. Keys(m, queue')
            <4>1. KeysOK(mem, queue, inflight, Handed, refused, FALSE, generation)
                BY <1>a, <2>5 DEF KeysOK
            <4>2. KeysOK(m, queue', inflight, Handed, refused, FALSE, generation)
                BY <1>0, <1>a, <2>1, <2>2, <2>5, <3>1, <3>4, <4>1, KeysSettled
            <4>. QED
                BY <2>5, <4>2 DEF KeysOK
        <3>. QED
            BY <2>1, <3>3, <3>5, SameKeysInv
    <2>. QED
        BY <2>4, <2>5
<1>6. CASE DeliverResolves \/ DeliverRejects
    <2>1. PICK d \in inflight, kind \in Settles :
            /\ inflight' = inflight \ {d}
            /\ queue' = Append(queue, [kind |-> kind, gen |-> d.gen, keys |-> d.keys])
            /\ Transcript'
            /\ kind = "finish" => d.keys \subseteq Handed'
            /\ kind = "fail" => Unsettled(mem, Handed', refused', d.keys)
        BY <1>6, HandOver
    <2>2. UNCHANGED <<mem, generation, disposed>>
        BY <1>6 DEF DeliverResolves, DeliverRejects, KeepMem
    <2>. DEFINE o == [kind |-> kind, gen |-> d.gen, keys |-> d.keys]
    <2>3. o.kind = kind /\ o.gen = d.gen /\ o.keys = d.keys /\ queue' = Append(queue, o)
        BY <2>1
    <2>. HIDE DEF o
    <2>4. inflight' = {} /\ \A i \in 1..Len(queue) : queue[i].kind \notin Settles
        BY <1>a, <2>1 DEF KeysOK, Unique
    <2>5. \A j \in 1..Len(queue') : queue'[j] = o \/ queue'[j].kind \notin Settles
        BY <1>0, <2>3, <2>4, AppendParts
    <2>6. ~disposed => d.gen = generation
        BY <1>a DEF KeysOK
    <2>7. /\ EventsOK(mem, Handed', refused') /\ FollowOK(followUps', accepted', refused')
          /\ repeated' \subseteq refused'
        BY <2>1, <2>2 DEF Transcript
    <2>8. ASSUME NEW j \in 1..Len(queue')
          PROVE  /\ queue'[j].kind = "finish" => queue'[j].keys \subseteq Handed'
                 /\ queue'[j].kind = "fail" => Unsettled(mem, Handed', refused', queue'[j].keys)
                 /\ queue'[j].kind \in Settles /\ ~disposed => queue'[j].gen = generation
        <3>1. CASE queue'[j] = o
            BY <2>1, <2>3, <2>6, <3>1
        <3>2. CASE queue'[j].kind \notin Settles
            BY <3>2 DEF Settles
        <3>. QED
            BY <2>5, <3>1, <3>2
    <2>9. KeysOK(mem, queue', {}, Handed', refused', disposed, generation)
        BY <2>7, <2>8 DEF KeysOK, Unique
    <2>. QED
        BY <2>2, <2>4, <2>7, <2>9 DEF KeysInv
<1>7. CASE Dispose
    <2>1. UNCHANGED <<mem, queue, inflight>> /\ disposed' = TRUE /\ SameKeys
        BY <1>7 DEF Dispose, KeepMem, opVars, SameKeys, hostVars, histVars
    <2>2. KeysOK(mem, queue, inflight, Handed, refused, TRUE, generation')
        BY <1>a DEF KeysOK
    <2>. QED
        BY <2>1, <2>2, SameKeysInv
<1>8. CASE Restart
    <2>. DEFINE d == SentAs(mem, 0)
                q == <<[kind |-> "init"]>>
    <2>1. /\ generation' = 0 /\ queue' = q /\ disposed' = FALSE
          /\ \/ inflight' = {} /\ mem' = mem
             \/ inflight' = {d} /\ mem' = Sent(mem)
        BY <1>8, <1>a DEF Restart, QueuedKeys, SentAs, Sent
    <2>3. /\ EventsOK(mem, Handed', refused') /\ FollowOK(followUps', accepted', refused')
          /\ repeated' \subseteq refused'
        BY <1>8, CrashKeys
    <2>4. \A i \in 1..Len(q) : q[i].kind \notin Settles
        BY SingleIsSeq DEF Settles
    <2>. HIDE DEF q, d
    <2>5. KeysOK(mem, q, {}, Handed', refused', FALSE, 0)
        BY <2>3, <2>4 DEF KeysOK, Unique, Settles
    <2>6. OneToken(q, {}, FALSE, 0)
        BY <2>4 DEF OneToken, Calls, Settling, Unique
    <2>7. KeysOK(Sent(mem), q, {} \cup {d}, Handed', refused', FALSE, 0)
        BY <1>0, <1>a, <2>5, <2>6, KeysSend DEF d
    <2>8. {} \cup {d} = {d}
        OBVIOUS
    <2>. QED
        BY <2>1, <2>3, <2>5, <2>7, <2>8 DEF KeysInv
<1>9. CASE FollowUpTaken \/ FollowUpsCleared
    <2>1. /\ Handed' = Handed /\ refused' = refused
          /\ FollowOK(followUps', accepted', refused) /\ repeated' \subseteq refused
        BY <1>9, FollowUpKeys
    <2>2. UNCHANGED <<mem, queue, inflight, disposed, generation>>
        BY <1>9 DEF FollowUpTaken, FollowUpsCleared, KeepMem, opVars, wakeVars
    <2>. QED
        BY <1>a, <2>1, <2>2 DEF KeysInv
<1>. QED
    BY <1>1, <1>2, <1>3, <1>4, <1>5, <1>6, <1>7, <1>8, <1>9, Classify, OnlyKeys

-----------------------------------------------------------------------------
(* Starts, reviews and capacity, until the first branch switch.            *)

MonKept ==
    \A t \in Ids :
        /\ mon'[t] = "fresh" <=> mon[t] = "fresh"
        /\ mon'[t] \in {"running", "stalled"} => mon[t] \in {"running", "stalled"}

TasksKept ==
    \A t \in Ids :
        /\ mem'.tasks[t].known = mem.tasks[t].known
        /\ mem'.tasks[t].wait => mem.tasks[t].wait \/ mem.tasks[t].known

ReviewKept ==
    \A t \in Ids :
        \/ /\ reviewed'[t] = reviewed[t]
           /\ mem'.tasks[t].reviewCount = mem.tasks[t].reviewCount
        \/ /\ mem.tasks[t].wait
           /\ reviewed'[t] = reviewed[t] + 1
           /\ mem'.tasks[t].reviewCount = mem.tasks[t].reviewCount + 1

\* What is awaited with a claim on an id, or on the capacity.
Claims == {"spawned", "attached"}

TodoKept ==
    \A j \in 1..Len(todo') : todo'[j].do \in Claims => \E i \in 1..Len(todo) : todo[i] = todo'[j]

QueueKept ==
    \/ queue' = queue
    \/ queue # <<>> /\ queue' = Tail(queue)
    \/ \E o : o.kind \notin {"start", "rebuild"} /\ queue' = Append(queue, o)
    \/ \A i \in 1..Len(queue') : queue'[i].kind \notin {"start", "rebuild"}

NavKept == nav \in {"none", "summary"} => nav' \in {"none", "summary"}

Steady == MonKept /\ TasksKept /\ ReviewKept /\ TodoKept /\ QueueKept /\ NavKept

\* The Monitor's records are left alone.
LEMMA SameMon ==
    ASSUME mon' = mon
    PROVE  MonKept
BY DEF MonKept

\* Tasks and reviews are left alone.
LEMMA TasksSame ==
    ASSUME SameTasks(mem, mem'), reviewed' = reviewed
    PROVE  TasksKept /\ ReviewKept
BY DEF SameTasks, SameTask, TasksKept, ReviewKept

\* No navigation begins or goes on.
LEMMA RestNav ==
    ASSUME Rest \/ UNCHANGED navVars \/ nav' = nav
    PROVE  NavKept
BY DEF Rest, navVars, NavKept

\* The steps left stay.
LEMMA SameTodo ==
    ASSUME todo' = todo
    PROVE  TodoKept
BY DEF TodoKept

\* The first step left is taken.
LEMMA TailTodo ==
    ASSUME Shape, NEW do, At(do), Then(<<>>)
    PROVE  TodoKept
<1>1. todo # <<>> /\ IsSeq(todo) /\ todo' = Tail(todo)
    BY FirstTodo, ThenNone DEF TodoOK
<1>. QED
    BY <1>1, TailSeq DEF TodoKept

\* The first step left is replaced.
LEMMA ReplaceTodo ==
    ASSUME Shape, NEW do, At(do), do \notin Solo, do # "end",
           NEW s, StepOK(s), s.do \in Sweeps \ {"end"}, Then(<<s>>)
    PROVE  TodoKept
<1>1. /\ Len(todo') = Len(todo) /\ todo'[1] = s
      /\ \A i \in 2..Len(todo) : todo'[i] = todo[i]
    BY ThenOne
<1>2. Len(todo) \in Nat
    BY SeqParts DEF Shape, TodoOK
<1>3. \A i \in 1..Len(todo) : i = 1 \/ i \in 2..Len(todo)
    BY <1>2
<1>4. s.do \notin Claims
    BY DEF Sweeps, Claims
<1>5. \A i \in 2..Len(todo) : i \in 1..Len(todo)
    BY <1>2
<1>. QED
    BY <1>1, <1>3, <1>4, <1>5 DEF TodoKept

\* Steps without a claim.
LEMMA FreshTodo ==
    ASSUME \A j \in 1..Len(todo') : todo'[j].do \notin Claims
    PROVE  TodoKept
BY DEF TodoKept

\* The steps that start no task.
LEMMA SteadySteps ==
    ASSUME Shape,
           \/ StepEnd \/ StepObserve \/ StepApply \/ StepReview \/ StepPolled
           \/ StepRead \/ StepStopped \/ StepGrace
    PROVE  Steady
<1>1. CASE StepEnd
    <2>1. /\ At("end") /\ KeepMem /\ mon' = mon /\ reviewed' = reviewed /\ queue' = queue
          /\ todo' = Tail(todo) /\ Rest
        BY <1>1 DEF StepEnd, KeepMem, histVars
    <2>2. todo # <<>> /\ IsSeq(todo)
        BY <2>1, FirstTodo DEF TodoOK
    <2>3. TodoKept
        BY <2>1, <2>2, TailSeq DEF TodoKept
    <2>. QED
        BY <2>1, <2>3, SameMon, KeepStep, TasksSame, RestNav DEF Steady, QueueKept
<1>2. CASE StepObserve
    <2>. DEFINE s == [do |-> "apply", t |-> Head(todo).t, reason |-> Head(todo).reason,
                      status |-> mon[Head(todo).t]]
    <2>1. /\ At("observe") /\ (Then(<<>>) \/ Then(<<s>>)) /\ mon' = mon /\ reviewed' = reviewed
          /\ Rest /\ queue' = queue
        BY <1>2 DEF StepObserve, histVars, Then
    <2>2. StepOK(s) /\ s.do \in Sweeps \ {"end"}
        BY <2>1, FirstTodo DEF StepOK, Sweeps, Solo
    <2>. HIDE DEF s
    <2>3. TodoKept
        BY <2>1, <2>2, TailTodo, ReplaceTodo DEF Solo
    <2>. QED
        BY <1>2, <2>1, <2>3, SameMon, ObserveMem, TasksSame, RestNav DEF Steady, QueueKept
<1>3. CASE StepApply
    <2>1. At("apply") /\ mon' = mon /\ Rest
        BY <1>3 DEF StepApply
    <2>2. queue' = queue
        BY <1>3, ApplyMem DEF Then
    <2>3. TodoKept
        <3>1. CASE Then(<<>>)
            BY <2>1, <3>1, TailTodo
        <3>2. ASSUME NEW s, StepOK(s), s.do = "review", Then(<<s>>)
              PROVE  TodoKept
            <4>1. s.do \in Sweeps \ {"end"} /\ "apply" \notin Solo
                BY <3>2 DEF Sweeps, Solo
            <4>. QED
                BY <2>1, <3>2, <4>1, ReplaceTodo
        <3>. QED
            BY <1>3, <3>1, <3>2, ApplyMem
    <2>4. TasksKept
        BY <1>3, ApplyMem DEF TasksKept, OthersKept
    <2>5. ReviewKept
        <3>. DEFINE t == Head(todo).t
        <3>1. /\ t \in Ids /\ OthersKept(mem, mem', t)
              /\ \/ /\ mem'.tasks[t].reviewCount = mem.tasks[t].reviewCount
                    /\ reviewed' = reviewed
                 \/ /\ mem.tasks[t].wait
                    /\ mem'.tasks[t].reviewCount = mem.tasks[t].reviewCount + 1
                    /\ reviewed' = [reviewed EXCEPT ![t] = @ + 1]
            BY <1>3, ApplyMem
        <3>2. DOMAIN reviewed = Ids
            BY DEF Shape
        <3>. HIDE DEF t
        <3>. QED
            BY <3>1, <3>2 DEF ReviewKept, OthersKept
    <2>. QED
        BY <2>1, <2>2, <2>3, <2>4, <2>5, SameMon, RestNav DEF Steady, QueueKept
<1>4. CASE StepReview
    <2>1. /\ At("review") /\ Then(<<>>) /\ mon' = mon /\ reviewed' = reviewed
          /\ Rest /\ queue' = queue
        BY <1>4 DEF StepReview, histVars, Then
    <2>. QED
        BY <1>4, <2>1, TailTodo, SameMon, ReviewMem, TasksSame, RestNav DEF Steady, QueueKept
<1>5. CASE StepPolled
    <2>1. /\ At("polled") /\ Then(<<>>) /\ mon' = mon /\ reviewed' = reviewed
          /\ Rest /\ queue' = queue /\ KeepMem
        BY <1>5 DEF StepPolled, histVars, Then
    <2>. QED
        BY <2>1, TailTodo, SameMon, KeepStep, TasksSame, RestNav DEF Steady, QueueKept
<1>6. CASE StepRead
    <2>1. /\ At("read") /\ Then(<<>>) /\ mon' = mon /\ reviewed' = reviewed
          /\ Rest /\ queue' = queue
        BY <1>6 DEF StepRead, histVars, Then
    <2>. QED
        BY <1>6, <2>1, TailTodo, SameMon, ReadMem, TasksSame, RestNav DEF Steady, QueueKept
<1>7. CASE StepStopped
    <2>. DEFINE t == Head(todo).t
                s == [do |-> "grace", t |-> t]
                o == [kind |-> "observe", t |-> t, reason |-> "none"]
    <2>1. /\ reviewed' = reviewed /\ Rest /\ KeepMem
          /\ queue' = queue \/ queue' = Append(queue, o)
          /\ todo' = <<>> \/ todo' = <<s>>
          /\ \/ mon' = mon
             \/ mon[t] \in {"running", "stalled"} /\ mon' = [mon EXCEPT ![t] = "cancelled"]
        BY <1>7 DEF StepStopped, histVars, Quit
    <2>2. o.kind \notin {"start", "rebuild"} /\ s.do \notin Claims
        BY DEF Claims
    <2>. HIDE DEF s, o, t
    <2>3. QueueKept
        BY <2>1, <2>2 DEF QueueKept
    <2>4. TodoKept
        BY <2>1, <2>2, FreshTodo, EmptyIsSeq, SingleIsSeq
    <2>5. MonKept
        <3>1. DOMAIN mon = Ids
            BY DEF Shape
        <3>. QED
            BY <2>1, <3>1 DEF MonKept
    <2>. QED
        BY <2>1, <2>3, <2>4, <2>5, KeepStep, TasksSame, RestNav DEF Steady
<1>8. CASE StepGrace
    <2>1. /\ At("grace") /\ Then(<<>>) /\ mon' = mon /\ reviewed' = reviewed
          /\ Rest /\ queue' = queue
        BY <1>8 DEF StepGrace, histVars, Then
    <2>. QED
        BY <1>8, <2>1, TailTodo, SameMon, GraceMem, TasksSame, RestNav DEF Steady, QueueKept
<1>. QED
    BY <1>1, <1>2, <1>3, <1>4, <1>5, <1>6, <1>7, <1>8

\* The operations that start no task.
LEMMA SteadyOps ==
    ASSUME Shape, OpObserve \/ OpSweep \/ OpWait \/ OpLogs \/ OpCancel
    PROVE  Steady
<1>1. /\ queue # <<>> /\ queue' = Tail(queue) /\ mon' = mon /\ reviewed' = reviewed /\ Rest
    BY DEF OpObserve, OpSweep, OpWait, OpLogs, OpCancel, Ready, RunOp, histVars
<1>2. TasksKept /\ ReviewKept
    <2>1. CASE OpWait
        BY <1>1, <2>1, WaitMem DEF TasksKept, ReviewKept
    <2>2. CASE KeepMem
        BY <1>1, <2>2, KeepStep, TasksSame
    <2>. QED
        BY <2>1, <2>2 DEF OpObserve, OpSweep, OpLogs, OpCancel
<1>3. TodoKept
    <2>1. CASE OpSweep
        <3>1. \/ todo' = <<[do |-> "polled"]>> \o ObserveAll \o <<[do |-> "end", cont |-> "poll"]>>
              \/ todo' = ObserveAll \o <<[do |-> "end", cont |-> "init"]>>
            BY <2>1 DEF OpSweep, RunOp
        <3>2. ASSUME NEW r, IsSeq(r),
                     \A i \in 1..Len(r) : StepOK(r[i]) /\ r[i].do \in {"observe", "polled"},
                     NEW s, s.do = "end", todo' = r \o <<s>>
              PROVE  TodoKept
            <4>1. Len(r) \in Nat
                BY <3>2, SeqParts
            <4>2. /\ Len(todo') = Len(r) + 1 /\ todo'[Len(r) + 1] = s
                  /\ \A i \in 1..Len(r) : todo'[i] = r[i]
                BY <3>2, TodoSweep
            <4>3. \A i \in 1..Len(todo') : i \in 1..Len(r) \/ i = Len(r) + 1
                BY <4>1, <4>2
            <4>. QED
                BY <3>2, <4>2, <4>3, FreshTodo DEF Claims
        <3>3. CASE todo' = <<[do |-> "polled"]>> \o ObserveAll
                             \o <<[do |-> "end", cont |-> "poll"]>>
            <4>. DEFINE s == [do |-> "end", cont |-> "poll"]
                        r == <<[do |-> "polled"]>> \o ObserveAll
            <4>1. s.do = "end" /\ todo' = r \o <<s>>
                BY <3>3
            <4>2. IsSeq(r) /\ \A i \in 1..Len(r) : StepOK(r[i]) /\ r[i].do \in {"observe", "polled"}
                BY PolledFirst
            <4>. HIDE DEF r, s
            <4>. QED
                BY <3>2, <4>1, <4>2
        <3>4. CASE todo' = ObserveAll \o <<[do |-> "end", cont |-> "init"]>>
            <4>. DEFINE s == [do |-> "end", cont |-> "init"]
            <4>1. s.do = "end" /\ todo' = ObserveAll \o <<s>>
                BY <3>4
            <4>. HIDE DEF s
            <4>. QED
                BY <3>2, <4>1, ObserveAllSteps
        <3>. QED
            BY <3>1, <3>3, <3>4
    <2>2. CASE OpObserve \/ OpWait \/ OpLogs \/ OpCancel
        <3>1. \/ todo' = <<>>
              \/ \E a : todo' = <<a>> /\ a.do \notin Claims
              \/ \E a, b : todo' = <<a, b>> /\ a.do \notin Claims /\ b.do \notin Claims
            BY <2>2 DEF OpObserve, OpWait, OpLogs, OpCancel, RunOp, Claims, Observe
        <3>2. CASE todo' = <<>>
            BY <3>2, EmptyIsSeq, FreshTodo
        <3>3. ASSUME NEW a, todo' = <<a>>, a.do \notin Claims
              PROVE  TodoKept
            <4>1. \A i \in 1..Len(todo') : todo'[i] = a
                BY <3>3, SingleIsSeq
            <4>. QED
                BY <3>3, <4>1, FreshTodo
        <3>4. ASSUME NEW a, NEW b, todo' = <<a, b>>, a.do \notin Claims, b.do \notin Claims
              PROVE  TodoKept
            <4>1. \A i \in 1..2 : i = 1 \/ i = 2
                OBVIOUS
            <4>2. \A i \in 1..Len(todo') : todo'[i] = a \/ todo'[i] = b
                BY <3>4, <4>1, PairIsSeq
            <4>. QED
                BY <3>4, <4>2, FreshTodo
        <3>. QED
            BY <3>1, <3>2, <3>3, <3>4
    <2>. QED
        BY <2>1, <2>2
<1>. QED
    BY <1>1, <1>2, <1>3, SameMon, RestNav DEF Steady, QueueKept

\* The wake queue moves, and the tasks stay.
LEMMA ConsumeTasks ==
    ASSUME NEW m, NEW s, NEW busy, NEW g, NEW fl, MemOK(m), ConsumeWakeQueue(m, s, busy, g, fl)
    PROVE  mem'.tasks = m.tasks
BY ConsumeCases, SentKeeps DEF ConsumeIdle, ConsumeSends

\* The actions on deliveries start no task.
LEMMA SteadyWake ==
    ASSUME Shape, NoSwitch,
           \/ StepConsume \/ Continue \/ OpFinish \/ OpFail
           \/ DeliverResolves \/ DeliverRejects \/ Dispose \/ Restart
    PROVE  Steady
<1>0. MemOK(mem) /\ MemOK(saved) /\ saved = mem
    BY DEF Shape, NoSwitch
<1>1. mon' = mon /\ reviewed' = reviewed
    BY DEF StepConsume, Continue, OpFinish, OpFail, DeliverResolves, DeliverRejects, Dispose,
           Restart, histVars
<1>2. mem'.tasks = mem.tasks
    <2>1. CASE StepConsume \/ Continue
        BY <1>0, <2>1, ConsumeTasks DEF StepConsume, Continue
    <2>2. CASE OpFinish
        <3>. DEFINE m == Consumed(mem, Head(queue).keys)
        <3>1. KeepMem \/ ConsumeWakeQueue(m, m, FALSE, generation, inflight)
            BY <2>2 DEF OpFinish, Consumed
        <3>2. MemOK(m) /\ m.tasks = mem.tasks
            BY <1>0, ConsumedKeeps
        <3>. HIDE DEF m
        <3>. QED
            BY <3>1, <3>2, ConsumeTasks DEF KeepMem
    <2>3. CASE OpFail
        <3>. DEFINE m == Mark(mem, Head(queue).keys, "queued")
        <3>1. KeepMem \/ Persist(m)
            BY <2>3 DEF OpFail
        <3>2. m.tasks = mem.tasks
            BY <1>0, MarkKeeps
        <3>. HIDE DEF m
        <3>. QED
            BY <3>1, <3>2 DEF KeepMem, Persist
    <2>4. CASE DeliverResolves \/ DeliverRejects \/ Dispose
        BY <2>4 DEF DeliverResolves, DeliverRejects, Dispose, KeepMem
    <2>5. CASE Restart
        <3>1. mem' \in {saved, Sent(saved)}
            BY <2>5 DEF Restart, Sent, QueuedKeys
        <3>. QED
            BY <1>0, <3>1, SentKeeps
    <2>. QED
        BY <2>1, <2>2, <2>3, <2>4, <2>5
<1>3. TasksKept /\ ReviewKept
    BY <1>1, <1>2 DEF TasksKept, ReviewKept
<1>4. TodoKept
    <2>1. CASE StepConsume
        BY <2>1, TailTodo DEF StepConsume
    <2>2. CASE Continue \/ DeliverResolves \/ DeliverRejects \/ Dispose
        BY <2>2, SameTodo DEF Continue, DeliverResolves, DeliverRejects, Dispose, Enqueue, opVars
    <2>3. CASE OpFinish \/ OpFail \/ Restart
        <3>1. todo' = <<>>
            BY <2>3 DEF OpFinish, OpFail, RunOp, Restart
        <3>. QED
            BY <3>1, EmptyIsSeq, FreshTodo
    <2>. QED
        BY <2>1, <2>2, <2>3
<1>5. QueueKept
    <2>1. CASE StepConsume \/ Continue \/ Dispose
        BY <2>1 DEF StepConsume, Continue, Dispose, Then, opVars, QueueKept
    <2>2. CASE OpFinish \/ OpFail
        BY <2>2 DEF OpFinish, OpFail, Ready, RunOp, QueueKept
    <2>3. CASE DeliverResolves \/ DeliverRejects
        <3>1. PICK d \in inflight, kind \in Settles :
                queue' = Append(queue, [kind |-> kind, gen |-> d.gen, keys |-> d.keys])
            BY <2>3 DEF DeliverResolves, DeliverRejects, Enqueue, Settles
        <3>2. [kind |-> kind, gen |-> d.gen, keys |-> d.keys].kind \notin {"start", "rebuild"}
            BY DEF Settles
        <3>. QED
            BY <3>1, <3>2 DEF QueueKept
    <2>4. CASE Restart
        <3>. DEFINE o == [kind |-> "init"]
        <3>1. queue' = <<o>> /\ o.kind = "init"
            BY <2>4 DEF Restart
        <3>. HIDE DEF o
        <3>2. \A i \in 1..Len(queue') : queue'[i] = o
            BY <3>1, SingleIsSeq
        <3>. QED
            BY <3>1, <3>2 DEF QueueKept
    <2>. QED
        BY <2>1, <2>2, <2>3, <2>4
<1>6. NavKept
    BY RestNav DEF StepConsume, Continue, OpFinish, OpFail, DeliverResolves, DeliverRejects,
                   Dispose, Restart, NavKept
<1>. QED
    BY <1>1, <1>3, <1>4, <1>5, <1>6, SameMon DEF Steady

\* start is called for an id nobody uses.
Starts(t) ==
    /\ mon[t] = "fresh"
    /\ \A i \in 1..Len(queue) : queue[i].kind = "start" => queue[i].t # t
    /\ ~(At("spawned") /\ Head(todo).t = t)
    /\ \E o : o.kind = "start" /\ o.t = t /\ queue' = Append(queue, o)
    /\ UNCHANGED <<mon, mem, saved, todo, reviewed, nav>>

\* A tool call may begin a start, of an unused id.
LEMMA SteadyCalls ==
    ASSUME Shape, NoSwitch, NEW t \in Ids, ToolCall(t) \/ MonitorChanges(t) \/ LogGrows(t)
    PROVE  Steady \/ Starts(t)
<1>0. DOMAIN queue = 1..Len(queue) /\ DOMAIN mon = Ids
    BY SeqParts DEF Shape, QueueOK
<1>1. CASE ToolCall(t)
    <2>. DEFINE start == /\ mon[t] = "fresh"
                         /\ \A i \in DOMAIN queue : queue[i].kind = "start" => queue[i].t # t
                         /\ ~(At("spawned") /\ Head(todo).t = t)
                Op(o) == o.t = t /\ (o.kind \notin {"start", "rebuild"} \/ (o.kind = "start" /\ start))
                Rec(kind, tr) == [kind |-> kind, t |-> t, triggers |-> tr]
                Bare(kind)    == [kind |-> kind, t |-> t]
    <2>1. \/ start /\ \E tr \in TriggerSets : Call(Rec("start", tr))
          \/ \E tr \in TriggerSets : Call(Rec("wait", tr))
          \/ \E tr \in TriggerSets : Call(Rec("attach", tr))
          \/ Call(Bare("logs"))
          \/ Call(Bare("cancel"))
        BY <1>1 DEF ToolCall
    <2>a. ASSUME NEW kind, NEW tr
          PROVE  /\ Rec(kind, tr).t = t /\ Rec(kind, tr).kind = kind
                 /\ Bare(kind).t = t /\ Bare(kind).kind = kind
        OBVIOUS
    <2>. HIDE DEF start, Rec, Bare
    <2>2. PICK o : Op(o) /\ Call(o)
        BY <2>1, <2>a
    <2>3. /\ queue' = Append(queue, o) /\ todo' = todo /\ mon' = mon /\ KeepMem
          /\ reviewed' = reviewed /\ Rest
        BY <2>2 DEF Call, Enqueue, KeepMem, histVars
    <2>4. CASE o.kind \notin {"start", "rebuild"}
        BY <2>3, <2>4, SameMon, KeepStep, TasksSame, SameTodo, RestNav DEF Steady, QueueKept
    <2>5. CASE o.kind = "start" /\ start
        <3>1. UNCHANGED <<mon, mem, saved, todo, reviewed, nav>>
            BY <2>3 DEF KeepMem, Rest, navVars
        <3>2. \E p : p.kind = "start" /\ p.t = t /\ queue' = Append(queue, p)
            BY <2>2, <2>3, <2>5
        <3>. QED
            BY <1>0, <2>5, <3>1, <3>2 DEF Starts, start
    <2>. QED
        BY <2>2, <2>4, <2>5
<1>2. CASE MonitorChanges(t)
    <2>1. /\ queue' = queue \/ \E o : o.kind = "observe" /\ queue' = Append(queue, o)
          /\ todo' = todo /\ KeepMem /\ reviewed' = reviewed /\ Rest
          /\ mon[t] \in {"running", "stalled"}
          /\ \E status \in {"running", "stalled", "completed", "failed", "timeout", "lost"} :
               mon' = [mon EXCEPT ![t] = status]
        BY <1>2 DEF MonitorChanges, Enqueue, opVars, histVars
    <2>2. MonKept
        BY <1>0, <2>1 DEF MonKept
    <2>3. QueueKept
        BY <2>1 DEF QueueKept
    <2>. QED
        BY <2>1, <2>2, <2>3, KeepStep, TasksSame, SameTodo, RestNav DEF Steady
<1>3. CASE LogGrows(t)
    <2>1. queue' = queue /\ todo' = todo /\ mon' = mon /\ KeepMem /\ reviewed' = reviewed /\ Rest
        BY <1>3 DEF LogGrows, opVars, histVars
    <2>. QED
        BY <2>1, SameMon, KeepStep, TasksSame, SameTodo, RestNav DEF Steady, QueueKept
<1>. QED
    BY <1>1, <1>2, <1>3

\* Timers, messages and navigation start no task.
LEMMA SteadyHost ==
    ASSUME Shape, NoSwitch,
           \/ TimerFires \/ UserMessages \/ MarkEntry \/ NavigateBegins \/ CallRebuild
           \/ FollowUpTaken \/ FollowUpsCleared
    PROVE  Steady
<1>0. ~CallRebuild
    BY DEF NoSwitch, CallRebuild
<1>1. todo' = todo /\ mon' = mon /\ KeepMem /\ reviewed' = reviewed
    BY <1>0 DEF FollowUpTaken, FollowUpsCleared, TimerFires, UserMessages, MarkEntry,
                   NavigateBegins, Enqueue, opVars, histVars
<1>2. queue' = queue \/ \E o : o.kind = "poll" /\ queue' = Append(queue, o)
    BY <1>0 DEF FollowUpTaken, FollowUpsCleared, TimerFires, UserMessages, MarkEntry,
                   NavigateBegins, Enqueue, opVars
<1>3. NavKept
    BY <1>0, RestNav DEF FollowUpTaken, FollowUpsCleared, TimerFires, UserMessages, MarkEntry,
                   NavigateBegins, NavKept
<1>4. QueueKept
    BY <1>2 DEF QueueKept
<1>. QED
    BY <1>1, <1>3, <1>4, SameMon, KeepStep, TasksSame, SameTodo DEF Steady

\* Until a switch every action starts no task or is part of a start.
LEMMA SteadyNext ==
    ASSUME Shape, NoSwitch, Next, ~Navigate
    PROVE  \/ Steady \/ StepSpawned \/ StepAttached \/ OpStart \/ OpAttach
           \/ \E t \in Ids : Starts(t) \/ MonitorAttaches(t)
<1>1. ~OpRebuild
    BY FirstOp DEF OpRebuild, NoSwitch
<1>. QED
    BY <1>1, SteadySteps, SteadyOps, SteadyWake, SteadyCalls, SteadyHost DEF Next, Steps

\* The starts and the rebuilds of the next queue are those of this one.
FromQueue(i) == \E j \in 1..Len(queue) : queue[j] = queue'[i]

\* The starts under way, when the first operation leaves the queue.
LEMMA TailStarts ==
    ASSUME Shape, queue # <<>>, queue' = Tail(queue)
    PROVE  /\ OneStart(queue) => OneStart(queue')
           /\ \A i \in 1..Len(queue') : /\ i + 1 \in 1..Len(queue) /\ queue'[i] = queue[i + 1]
                                        /\ FromQueue(i)
<1>1. IsSeq(queue) /\ Len(queue) \in Nat
    BY SeqParts DEF Shape, QueueOK
<1>2. /\ Len(queue') = Len(queue) - 1
      /\ \A i \in 1..(Len(queue) - 1) : i + 1 \in 1..Len(queue) /\ queue'[i] = queue[i + 1]
    BY <1>1, TailSeq
<1>3. ASSUME OneStart(queue), NEW i \in 1..Len(queue'), NEW j \in 1..Len(queue'),
             queue'[i].kind = "start", queue'[j].kind = "start", queue'[i].t = queue'[j].t
      PROVE  i = j
    <2>1. /\ i + 1 \in 1..Len(queue) /\ queue'[i] = queue[i + 1]
          /\ j + 1 \in 1..Len(queue) /\ queue'[j] = queue[j + 1]
        BY <1>2
    <2>2. i + 1 = j + 1
        BY <1>3, <2>1 DEF OneStart
    <2>. QED
        BY <1>1, <1>2, <2>2
<1>. QED
    BY <1>2, <1>3 DEF OneStart, FromQueue

\* The starts under way, when the queue gets no new one.
LEMMA QueueStarts ==
    ASSUME Shape, QueueKept
    PROVE  /\ OneStart(queue) => OneStart(queue')
           /\ \A i \in 1..Len(queue') :
                queue'[i].kind \in {"start", "rebuild"} => FromQueue(i)
<1>0. IsSeq(queue) /\ Len(queue) \in Nat
    BY SeqParts DEF Shape, QueueOK
<1>1. CASE queue' = queue
    BY <1>1 DEF FromQueue
<1>2. CASE queue # <<>> /\ queue' = Tail(queue)
    BY <1>2, TailStarts
<1>3. ASSUME NEW o, o.kind \notin {"start", "rebuild"}, queue' = Append(queue, o)
      PROVE  /\ OneStart(queue) => OneStart(queue')
             /\ \A i \in 1..Len(queue') :
                  queue'[i].kind \in {"start", "rebuild"} => FromQueue(i)
    <2>1. \A i \in 1..Len(queue') : queue'[i] = o \/ (i \in 1..Len(queue) /\ queue'[i] = queue[i])
        BY <1>0, <1>3, AppendParts
    <2>. QED
        BY <1>3, <2>1 DEF OneStart, FromQueue
<1>4. CASE \A i \in 1..Len(queue') : queue'[i].kind \notin {"start", "rebuild"}
    BY <1>4 DEF OneStart
<1>. QED
    BY <1>1, <1>2, <1>3, <1>4 DEF QueueKept

\* The ids named in the queue and in the running operation.
LEMMA NamedIds ==
    ASSUME Shape
    PROVE  /\ \A i \in 1..Len(queue) : queue[i].kind = "start" => queue[i].t \in Ids
           /\ \A i \in 1..Len(todo) : todo[i].do \in Claims => todo[i].t \in Ids
<1>1. /\ \A i \in 1..Len(queue) : OpOK(queue[i], generation)
      /\ \A i \in 1..Len(todo) : StepOK(todo[i])
    BY DEF Shape, QueueOK, TodoOK
<1>2. Claims \subseteq Solo
    BY DEF Claims, Solo
<1>. QED
    BY <1>1, <1>2 DEF OpOK, StepOK

\* What a step does that starts a task or takes one over.
LEMMA SpawnedStep ==
    ASSUME Shape, StepSpawned
    PROVE  /\ Len(todo) = 1 /\ todo[1].do = "spawned" /\ todo[1].t \in Ids
           /\ queue' = queue /\ reviewed' = reviewed /\ nav' = nav
           /\ \A j \in 1..Len(todo') : todo'[j].do \notin Claims
           /\ \E st \in {"none", "running"} : mon' = [mon EXCEPT ![todo[1].t] = st]
           /\ KeepMem \/ Entered(todo[1].t)
           /\ mon'[todo[1].t] = "running" \/ KeepMem
<1>. DEFINE t == Head(todo).t
            r == <<[do |-> "polled"], Observe(t)>>
<1>1. At("spawned") /\ reviewed' = reviewed /\ nav' = nav
    BY DEF StepSpawned, histVars, Rest, navVars
<1>2. todo # <<>> /\ TodoOK(todo) /\ Head(todo).do = "spawned" /\ Head(todo).do \in Solo
    BY <1>1, FirstTodo DEF Solo
<1>3. Len(todo) = 1 /\ todo[1] = Head(todo)
    BY <1>2, TodoSolo
<1>4. /\ t \in Ids
      /\ \/ KeepMem /\ Quit /\ mon' = [mon EXCEPT ![t] = "none"]
         \/ Entered(t) /\ mon' = [mon EXCEPT ![t] = "running"] /\ Then(r)
    BY SpawnedMem
<1>5. queue' = queue
    BY <1>4 DEF Quit, Then
<1>6. DOMAIN mon = Ids
    BY DEF Shape
<1>7. \A j \in 1..Len(todo') : todo'[j].do \notin Claims
    <2>1. CASE Quit
        BY <2>1, EmptyIsSeq DEF Quit
    <2>2. CASE Then(r)
        <3>1. IsSeq(r) /\ Len(r) = 2 /\ r[1].do = "polled" /\ r[2].do = "observe"
            BY PairIsSeq DEF Observe
        <3>2. todo' = r
            BY <1>1, <2>2, <3>1, ThenAlone DEF Solo
        <3>3. \A j \in 1..2 : j = 1 \/ j = 2
            OBVIOUS
        <3>. HIDE DEF r
        <3>. QED
            BY <3>1, <3>2, <3>3 DEF Claims
    <2>. QED
        BY <1>4, <2>1, <2>2
<1>. QED
    BY <1>1, <1>2, <1>3, <1>4, <1>5, <1>6, <1>7

\* What an attachment does to queue, steps and memory.
LEMMA AttachedStep ==
    ASSUME Shape, StepAttached
    PROVE  /\ Len(todo) = 1 /\ todo[1].do = "attached" /\ todo[1].t \in Ids
           /\ queue' = queue /\ reviewed' = reviewed /\ nav' = nav /\ mon' = mon
           /\ \A j \in 1..Len(todo') : todo'[j].do \notin Claims
           /\ \/ KeepMem
              \/ Entered(todo[1].t) /\ Cardinality(ActiveTasks(mem)) < MaxConcurrency
<1>. DEFINE t == Head(todo).t
            r == <<Observe(t)>>
<1>1. At("attached") /\ reviewed' = reviewed /\ nav' = nav /\ mon' = mon
    BY DEF StepAttached, histVars, Rest, navVars
<1>2. todo # <<>> /\ TodoOK(todo) /\ Head(todo).do = "attached" /\ Head(todo).do \in Solo
    BY <1>1, FirstTodo DEF Solo
<1>3. Len(todo) = 1 /\ todo[1] = Head(todo)
    BY <1>2, TodoSolo
<1>4. /\ t \in Ids
      /\ \/ KeepMem /\ Quit
         \/ Entered(t) /\ Cardinality(ActiveTasks(mem)) < MaxConcurrency /\ Then(r)
    BY AttachedMem
<1>5. queue' = queue
    BY <1>4 DEF Quit, Then
<1>6. \A j \in 1..Len(todo') : todo'[j].do \notin Claims
    <2>1. CASE Quit
        BY <2>1, EmptyIsSeq DEF Quit
    <2>2. CASE Then(r)
        <3>1. IsSeq(r) /\ Len(r) = 1 /\ r[1].do = "observe"
            BY SingleIsSeq DEF Observe
        <3>2. todo' = r
            BY <1>1, <2>2, <3>1, ThenAlone DEF Solo
        <3>3. \A j \in 1..1 : j = 1
            OBVIOUS
        <3>. HIDE DEF r
        <3>. QED
            BY <3>1, <3>2, <3>3 DEF Claims
    <2>. QED
        BY <1>4, <2>1, <2>2
<1>. QED
    BY <1>1, <1>2, <1>3, <1>4, <1>5, <1>6

\* What an operation does that claims an id.
LEMMA ClaimOp ==
    ASSUME Shape, OpStart \/ OpAttach
    PROVE  /\ queue # <<>> /\ queue' = Tail(queue) /\ queue[1].t \in Ids /\ 1 \in 1..Len(queue)
           /\ UNCHANGED <<mon, mem, saved, reviewed, nav>>
           /\ \/ \A j \in 1..Len(todo') : todo'[j].do \notin Claims
              \/ /\ queue[1].kind = "start" /\ Cardinality(ActiveTasks(mem)) < MaxConcurrency
                 /\ \A j \in 1..Len(todo') : todo'[j].do = "spawned" /\ todo'[j].t = queue[1].t
              \/ /\ queue[1].kind = "attach" /\ mon[queue[1].t] # "fresh"
                 /\ ~mem.tasks[queue[1].t].known
                 /\ \A j \in 1..Len(todo') : todo'[j].do = "attached" /\ todo'[j].t = queue[1].t
<1>1. CASE OpStart
    <2>. DEFINE s == [do |-> "spawned", t |-> Head(queue).t, triggers |-> Head(queue).triggers]
    <2>1. /\ Ready("start") /\ queue' = Tail(queue) /\ UNCHANGED <<mon, mem, saved, reviewed, nav>>
          /\ todo' = IF Cardinality(ActiveTasks(mem)) >= MaxConcurrency THEN <<>> ELSE <<s>>
        BY <1>1 DEF OpStart, RunOp, KeepMem, histVars, Rest, navVars
    <2>2. /\ queue # <<>> /\ Head(queue) = queue[1] /\ 1 \in 1..Len(queue)
          /\ Head(queue).kind = "start" /\ Head(queue).t \in Ids
        BY <2>1, FirstOp DEF OpOK
    <2>3. CASE Cardinality(ActiveTasks(mem)) >= MaxConcurrency
        <3>1. todo' = <<>>
            BY <2>1, <2>3
        <3>2. \A j \in 1..Len(todo') : todo'[j].do \notin Claims
            BY <3>1, EmptyIsSeq
        <3>. QED
            BY <2>1, <2>2, <3>2
    <2>4. CASE ~(Cardinality(ActiveTasks(mem)) >= MaxConcurrency)
        <3>1. s.do = "spawned" /\ s.t = queue[1].t
            BY <2>2
        <3>2. IsFiniteSet(ActiveTasks(mem))
            BY FS_Subset, BackgroundAssumption DEF ActiveTasks
        <3>3. Cardinality(ActiveTasks(mem)) \in Nat /\ MaxConcurrency \in Nat
            BY <3>2, FS_CardinalityType, BackgroundAssumption
        <3>4. Cardinality(ActiveTasks(mem)) < MaxConcurrency
            BY <2>4, <3>3
        <3>. HIDE DEF s
        <3>5. todo' = <<s>>
            BY <2>1, <2>4
        <3>6. \A j \in 1..Len(todo') : todo'[j] = s
            BY <3>5, SingleIsSeq
        <3>. QED
            BY <2>1, <2>2, <3>1, <3>4, <3>6
    <2>. QED
        BY <2>3, <2>4
<1>2. CASE OpAttach
    <2>. DEFINE t == Head(queue).t
                s == [do |-> "attached", t |-> t, triggers |-> Head(queue).triggers]
    <2>1. /\ Ready("attach") /\ queue' = Tail(queue) /\ UNCHANGED <<mon, mem, saved, reviewed, nav>>
          /\ todo' = IF mem.tasks[t].known \/ mon[t] \in {"fresh", "none"} THEN <<>> ELSE <<s>>
        BY <1>2 DEF OpAttach, RunOp, KeepMem, histVars, Rest, navVars
    <2>2. /\ queue # <<>> /\ Head(queue) = queue[1] /\ 1 \in 1..Len(queue)
          /\ Head(queue).kind = "attach" /\ t \in Ids
        BY <2>1, FirstOp DEF OpOK
    <2>3. CASE mem.tasks[t].known \/ mon[t] \in {"fresh", "none"}
        <3>1. todo' = <<>>
            BY <2>1, <2>3
        <3>2. \A j \in 1..Len(todo') : todo'[j].do \notin Claims
            BY <3>1, EmptyIsSeq
        <3>. QED
            BY <2>1, <2>2, <3>2
    <2>4. CASE ~(mem.tasks[t].known \/ mon[t] \in {"fresh", "none"})
        <3>1. s.do = "attached" /\ s.t = queue[1].t
            BY <2>2
        <3>. HIDE DEF s
        <3>2. todo' = <<s>>
            BY <2>1, <2>4
        <3>3. \A j \in 1..Len(todo') : todo'[j] = s
            BY <3>2, SingleIsSeq
        <3>. QED
            BY <2>1, <2>2, <2>4, <3>1, <3>3
    <2>. QED
        BY <2>3, <2>4
<1>. QED
    BY <1>1, <1>2

\* The Monitor attaches to a target with an id nobody uses.
LEMMA AttachesStep ==
    ASSUME Shape, NEW t \in Ids, MonitorAttaches(t)
    PROVE  /\ mon[t] = "fresh" /\ mon' = [mon EXCEPT ![t] = "running"] /\ DOMAIN mon = Ids
           /\ \A i \in 1..Len(queue) : queue[i].kind = "start" => queue[i].t # t
           /\ ~(At("spawned") /\ Head(todo).t = t)
           /\ UNCHANGED <<mem, saved, queue, todo, reviewed, nav>>
<1>1. DOMAIN queue = 1..Len(queue) /\ DOMAIN mon = Ids
    BY SeqParts DEF Shape, QueueOK
<1>2. UNCHANGED <<mem, saved, queue, todo, reviewed, nav>>
    BY DEF MonitorAttaches, KeepMem, opVars, histVars, Rest, navVars
<1>. QED
    BY <1>1, <1>2 DEF MonitorAttaches

\* Only the first step is ever the end of a spawn.
LEMMA SpawnedFirst ==
    ASSUME Shape, NEW j \in 1..Len(todo), todo[j].do = "spawned"
    PROVE  j = 1 /\ At("spawned") /\ Head(todo) = todo[j]
<1>1. IsSeq(todo)
    BY DEF Shape, TodoOK
<1>2. Len(todo) = 1
    BY DEF Shape, TodoOK, Solo
<1>3. j = 1 /\ todo # <<>>
    BY <1>1, <1>2, SeqParts
<1>4. Head(todo) = todo[1]
    BY <1>1, <1>3, SeqParts
<1>. QED
    BY <1>3, <1>4 DEF At

\* Until a switch every action keeps the starts under way apart from each
\* other and from the tasks.
LEMMA StartsKept ==
    ASSUME Shape, StartsInv, NoSwitch, Next, ~Navigate
    PROVE  StartsInv'
<1>0. DOMAIN mon = Ids
    BY DEF Shape
<1>1. CASE Steady
    <2>1. OneStart(queue')
        BY <1>1, QueueStarts DEF Steady, StartsInv
    <2>2. ASSUME NEW i \in 1..Len(queue'), queue'[i].kind = "start"
          PROVE  /\ mon'[queue'[i].t] = "fresh"
                 /\ \A j \in 1..Len(todo') : todo'[j].do = "spawned" => todo'[j].t # queue'[i].t
        <3>1. PICK k \in 1..Len(queue) : queue[k] = queue'[i]
            BY <1>1, <2>2, QueueStarts DEF Steady, FromQueue
        <3>2. queue[k].t \in Ids /\ mon[queue[k].t] = "fresh"
            BY <2>2, <3>1, NamedIds DEF StartsInv
        <3>3. mon'[queue[k].t] = "fresh"
            BY <1>1, <3>2 DEF Steady, MonKept
        <3>4. ASSUME NEW j \in 1..Len(todo'), todo'[j].do = "spawned"
              PROVE  todo'[j].t # queue[k].t
            <4>1. PICK l \in 1..Len(todo) : todo[l] = todo'[j]
                BY <1>1, <3>4 DEF Steady, TodoKept, Claims
            <4>. QED
                BY <2>2, <3>1, <3>4, <4>1 DEF StartsInv
        <3>. QED
            BY <3>1, <3>3, <3>4
    <2>3. ASSUME NEW j \in 1..Len(todo'), todo'[j].do \in Claims
          PROVE  /\ todo'[j].do = "spawned" => mon'[todo'[j].t] = "fresh"
                 /\ todo'[j].do = "attached" => /\ mon'[todo'[j].t] # "fresh"
                                                /\ ~mem'.tasks[todo'[j].t].known
        <3>1. PICK l \in 1..Len(todo) : todo[l] = todo'[j]
            BY <1>1, <2>3 DEF Steady, TodoKept
        <3>2. todo[l].t \in Ids
            BY <2>3, <3>1, NamedIds
        <3>. QED
            BY <1>1, <3>1, <3>2 DEF Steady, MonKept, TasksKept, StartsInv
    <2>. QED
        BY <2>1, <2>2, <2>3 DEF StartsInv, Claims
<1>2. CASE StepSpawned
    <2>1. /\ Len(todo) = 1 /\ todo[1].do = "spawned" /\ todo[1].t \in Ids /\ queue' = queue
          /\ \A j \in 1..Len(todo') : todo'[j].do \notin Claims
          /\ \E st \in {"none", "running"} : mon' = [mon EXCEPT ![todo[1].t] = st]
        BY <1>2, SpawnedStep
    <2>2. \A i \in 1..Len(queue) : queue[i].kind = "start" =>
            queue[i].t \in Ids /\ mon[queue[i].t] = "fresh" /\ todo[1].t # queue[i].t
        BY <2>1, NamedIds DEF StartsInv
    <2>3. \A i \in 1..Len(queue) : queue[i].kind = "start" => mon'[queue[i].t] = "fresh"
        BY <1>0, <2>1, <2>2
    <2>. QED
        BY <2>1, <2>3 DEF StartsInv, Claims
<1>3. CASE StepAttached
    <2>1. queue' = queue /\ mon' = mon /\ \A j \in 1..Len(todo') : todo'[j].do \notin Claims
        BY <1>3, AttachedStep
    <2>. QED
        BY <2>1 DEF StartsInv, Claims
<1>4. CASE OpStart \/ OpAttach
    <2>1. /\ queue # <<>> /\ queue' = Tail(queue) /\ queue[1].t \in Ids /\ 1 \in 1..Len(queue)
          /\ UNCHANGED <<mon, mem>>
          /\ \/ \A j \in 1..Len(todo') : todo'[j].do \notin Claims
             \/ /\ queue[1].kind = "start"
                /\ \A j \in 1..Len(todo') : todo'[j].do = "spawned" /\ todo'[j].t = queue[1].t
             \/ /\ queue[1].kind = "attach" /\ mon[queue[1].t] # "fresh"
                /\ ~mem.tasks[queue[1].t].known
                /\ \A j \in 1..Len(todo') : todo'[j].do = "attached" /\ todo'[j].t = queue[1].t
        BY <1>4, ClaimOp
    <2>2. /\ OneStart(queue')
          /\ \A i \in 1..Len(queue') : i + 1 \in 1..Len(queue) /\ queue'[i] = queue[i + 1]
        BY <2>1, TailStarts DEF StartsInv
    <2>3. Len(queue') \in Nat /\ \A i \in 1..Len(queue') : i + 1 # 1
        <3>1. IsSeq(queue')
            BY <2>1, TailSeq DEF Shape, QueueOK
        <3>2. Len(queue') \in Nat
            BY <3>1, SeqParts
        <3>. QED
            BY <3>2
    <2>4. ASSUME NEW i \in 1..Len(queue'), queue'[i].kind = "start"
          PROVE  /\ mon'[queue'[i].t] = "fresh"
                 /\ queue[1].kind = "start" => queue'[i].t # queue[1].t
        <3>1. i + 1 \in 1..Len(queue) /\ queue'[i] = queue[i + 1] /\ i + 1 # 1
            BY <2>2, <2>3
        <3>. QED
            BY <2>1, <2>4, <3>1 DEF StartsInv, OneStart
    <2>5. CASE \A j \in 1..Len(todo') : todo'[j].do \notin Claims
        BY <2>2, <2>4, <2>5 DEF StartsInv, Claims
    <2>6. CASE /\ queue[1].kind = "start"
               /\ \A j \in 1..Len(todo') : todo'[j].do = "spawned" /\ todo'[j].t = queue[1].t
        <3>1. mon'[queue[1].t] = "fresh"
            BY <2>1, <2>6 DEF StartsInv
        <3>. QED
            BY <2>2, <2>4, <2>6, <3>1 DEF StartsInv
    <2>7. CASE /\ queue[1].kind = "attach" /\ mon[queue[1].t] # "fresh"
               /\ ~mem.tasks[queue[1].t].known
               /\ \A j \in 1..Len(todo') : todo'[j].do = "attached" /\ todo'[j].t = queue[1].t
        BY <2>1, <2>2, <2>4, <2>7 DEF StartsInv
    <2>. QED
        BY <2>1, <2>5, <2>6, <2>7
<1>5. ASSUME NEW t \in Ids, Starts(t)
      PROVE  StartsInv'
    <2>1. PICK o : o.kind = "start" /\ o.t = t /\ queue' = Append(queue, o)
        BY <1>5 DEF Starts
    <2>2. /\ mon[t] = "fresh" /\ UNCHANGED <<mon, mem, todo>>
          /\ \A i \in 1..Len(queue) : queue[i].kind = "start" => queue[i].t # t
        BY <1>5 DEF Starts
    <2>3. \A j \in 1..Len(todo) : todo[j].do = "spawned" => todo[j].t # t
        BY <1>5, SpawnedFirst DEF Starts
    <2>4. IsSeq(queue) /\ Len(queue) \in Nat
        BY SeqParts DEF Shape, QueueOK
    <2>5. Len(queue') = Len(queue) + 1 /\ \A i \in 1..Len(queue) : queue'[i] = queue[i]
        BY <2>1, <2>4, AppendSeq
    <2>6. \A i \in 1..Len(queue') : i \in 1..Len(queue) \/ i = Len(queue) + 1
        BY <2>4, <2>5
    <2>7. queue'[Len(queue) + 1] = o
        BY <2>1, <2>4, AppendSeq
    <2>8. OneStart(queue')
        BY <2>1, <2>2, <2>5, <2>6, <2>7 DEF StartsInv, OneStart
    <2>9. \A i \in 1..Len(queue') : queue'[i].kind = "start" =>
            /\ mon[queue'[i].t] = "fresh"
            /\ \A j \in 1..Len(todo) : todo[j].do = "spawned" => todo[j].t # queue'[i].t
        BY <2>1, <2>2, <2>3, <2>5, <2>6, <2>7 DEF StartsInv
    <2>. QED
        BY <2>2, <2>8, <2>9 DEF StartsInv
<1>6. ASSUME NEW t \in Ids, MonitorAttaches(t)
      PROVE  StartsInv'
    <2>1. /\ mon[t] = "fresh" /\ mon' = [mon EXCEPT ![t] = "running"]
          /\ UNCHANGED <<mem, queue, todo>>
          /\ \A i \in 1..Len(queue) : queue[i].kind = "start" => queue[i].t # t
          /\ ~(At("spawned") /\ Head(todo).t = t)
        BY <1>6, AttachesStep
    <2>2. \A j \in 1..Len(todo) : todo[j].do = "spawned" => todo[j].t # t
        BY <2>1, SpawnedFirst
    <2>3. \A i \in 1..Len(queue) : queue[i].kind = "start" => mon'[queue[i].t] = "fresh"
        BY <1>0, <2>1, NamedIds DEF StartsInv
    <2>4. \A j \in 1..Len(todo) :
            /\ todo[j].do = "spawned" => mon'[todo[j].t] = "fresh"
            /\ todo[j].do = "attached" => mon'[todo[j].t] # "fresh"
        BY <1>0, <2>1, <2>2, NamedIds DEF StartsInv, Claims
    <2>. QED
        BY <2>1, <2>3, <2>4 DEF StartsInv
<1>. QED
    BY <1>1, <1>2, <1>3, <1>4, <1>5, <1>6, SteadyNext

\* Until a switch every review was charged, after every action.
LEMMA TasksInvKept ==
    ASSUME Shape, StartsInv, TasksInv, NoSwitch, Next, ~Navigate
    PROVE  TasksInv'
<1>0. DOMAIN mon = Ids /\ \A t \in Ids : reviewed[t] \in Nat /\ mem.tasks[t].reviewCount \in Nat
    BY DEF Shape, MemOK, TaskOK
<1>1. CASE Steady
    BY <1>0, <1>1 DEF Steady, MonKept, TasksKept, ReviewKept, TasksInv
<1>2. ASSUME NEW t \in Ids, Entered(t), reviewed' = reviewed, mon[t] = "fresh" \/ ~mem.tasks[t].known,
             mon'[t] # "fresh", \A u \in Ids \ {t} : mon'[u] = mon[u]
      PROVE  TasksInv'
    <2>1. reviewed[t] = 0
        BY <1>2 DEF TasksInv
    <2>2. /\ mem'.tasks[t].known = TRUE /\ mem'.tasks[t].wait = FALSE
          /\ mem'.tasks[t].reviewCount = 0
          /\ \A u \in Ids \ {t} : mem'.tasks[u] = mem.tasks[u]
        BY <1>2 DEF Entered, OthersKept
    <2>3. /\ mem'.tasks[t].known => mon'[t] # "fresh"
          /\ mem'.tasks[t].wait => mem'.tasks[t].known
          /\ ~mem'.tasks[t].known => reviewed'[t] = 0
          /\ reviewed'[t] <= mem'.tasks[t].reviewCount
        BY <1>2, <2>1, <2>2
    <2>4. ASSUME NEW u \in Ids \ {t}
          PROVE  /\ mem'.tasks[u].known => mon'[u] # "fresh"
                 /\ mem'.tasks[u].wait => mem'.tasks[u].known
                 /\ ~mem'.tasks[u].known => reviewed'[u] = 0
                 /\ reviewed'[u] <= mem'.tasks[u].reviewCount
        BY <1>2, <2>2 DEF TasksInv
    <2>. QED
        BY <2>3, <2>4 DEF TasksInv
<1>3. ASSUME UNCHANGED <<mem, reviewed>>, \A t \in Ids : mon[t] # "fresh" => mon'[t] # "fresh"
      PROVE  TasksInv'
    BY <1>3 DEF TasksInv
<1>4. CASE StepSpawned
    <2>. DEFINE t == todo[1].t
    <2>1. /\ todo[1].do = "spawned" /\ t \in Ids /\ reviewed' = reviewed
          /\ \E st \in {"none", "running"} : mon' = [mon EXCEPT ![t] = st]
          /\ KeepMem \/ Entered(t)
        BY <1>4, SpawnedStep
    <2>a. Len(todo) = 1
        BY <1>4, SpawnedStep
    <2>b. 1 \in 1..Len(todo)
        BY <2>a
    <2>2. mon[t] = "fresh"
        BY <2>1, <2>b DEF StartsInv
    <2>. HIDE DEF t
    <2>3. mon'[t] # "fresh" /\ \A u \in Ids \ {t} : mon'[u] = mon[u]
        BY <1>0, <2>1
    <2>4. CASE KeepMem
        BY <1>3, <2>1, <2>3, <2>4 DEF KeepMem
    <2>5. CASE Entered(t)
        BY <1>2, <2>1, <2>2, <2>3, <2>5
    <2>. QED
        BY <2>1, <2>4, <2>5
<1>5. CASE StepAttached
    <2>. DEFINE t == todo[1].t
    <2>1. /\ todo[1].do = "attached" /\ t \in Ids /\ reviewed' = reviewed
          /\ mon' = mon /\ (KeepMem \/ Entered(t))
        BY <1>5, AttachedStep
    <2>a. Len(todo) = 1
        BY <1>5, AttachedStep
    <2>b. 1 \in 1..Len(todo)
        BY <2>a
    <2>2. mon[t] # "fresh" /\ ~mem.tasks[t].known
        BY <2>1, <2>b DEF StartsInv
    <2>. HIDE DEF t
    <2>3. CASE KeepMem
        BY <1>3, <2>1, <2>3 DEF KeepMem
    <2>4. CASE Entered(t)
        BY <1>2, <2>1, <2>2, <2>4
    <2>. QED
        BY <2>1, <2>3, <2>4
<1>6. CASE OpStart \/ OpAttach
    BY <1>3, <1>6, ClaimOp
<1>7. ASSUME NEW t \in Ids, Starts(t)
      PROVE  TasksInv'
    BY <1>3, <1>7 DEF Starts
<1>8. ASSUME NEW t \in Ids, MonitorAttaches(t)
      PROVE  TasksInv'
    BY <1>3, <1>8, AttachesStep
<1>. QED
    BY <1>1, <1>4, <1>5, <1>6, <1>7, <1>8, SteadyNext

\* The set the capacity is about grows by one task at most.
Active == ActiveTasks(mem)

\* The active tasks can be counted.
LEMMA ActiveFinite ==
    /\ IsFiniteSet(Active) /\ IsFiniteSet(Active')
    /\ Cardinality(Active) \in Nat /\ Cardinality(Active') \in Nat /\ MaxConcurrency \in Nat
<1>1. Active \subseteq Ids /\ Active' \subseteq Ids
    BY DEF Active, ActiveTasks
<1>2. IsFiniteSet(Active) /\ IsFiniteSet(Active')
    BY <1>1, FS_Subset, BackgroundAssumption
<1>. QED
    BY <1>2, FS_CardinalityType, BackgroundAssumption

\* No task becomes active.
LEMMA ActiveFewer ==
    ASSUME Active' \subseteq Active
    PROVE  Cardinality(Active') <= Cardinality(Active)
BY ActiveFinite, FS_Subset

\* One task becomes active.
LEMMA ActiveOneMore ==
    ASSUME NEW t, Active' \subseteq Active \cup {t}
    PROVE  Cardinality(Active') <= Cardinality(Active) + 1
<1>1. /\ IsFiniteSet(Active \cup {t})
      /\ \/ Cardinality(Active \cup {t}) = Cardinality(Active) + 1
         \/ Cardinality(Active \cup {t}) = Cardinality(Active)
    BY ActiveFinite, FS_AddElement
<1>2. Cardinality(Active') <= Cardinality(Active \cup {t})
    BY <1>1, FS_Subset
<1>. QED
    BY <1>1, <1>2, ActiveFinite

\* Until a switch every action keeps the room for the process that is being
\* spawned.
LEMMA CapacityInvKept ==
    ASSUME Shape, StartsInv, TasksInv, CapacityInv, NoSwitch, Next, ~Navigate
    PROVE  CapacityInv'
<1>. DEFINE pending == \E i \in 1..Len(todo) : todo[i].do = "spawned"
            claim   == \E i \in 1..Len(todo') : todo'[i].do = "spawned"
<1>0. /\ DOMAIN mon = Ids
      /\ Cardinality(Active) <= MaxConcurrency
      /\ pending => Cardinality(Active) < MaxConcurrency
    BY DEF Shape, CapacityInv, CapacityRespected, Active
<1>1. ASSUME Cardinality(Active') <= MaxConcurrency,
             claim => Cardinality(Active') < MaxConcurrency
      PROVE  CapacityInv'
    BY <1>1 DEF CapacityInv, CapacityRespected, Active
<1>2. ASSUME Active' \subseteq Active, claim => Cardinality(Active) < MaxConcurrency
      PROVE  CapacityInv'
    <2>1. Cardinality(Active') <= Cardinality(Active)
        BY <1>2, ActiveFewer
    <2>. HIDE DEF claim
    <2>. QED
        BY <1>0, <1>1, <1>2, <2>1, ActiveFinite
<1>3. ASSUME NEW t, Active' \subseteq Active \cup {t}, ~claim,
             Cardinality(Active) < MaxConcurrency
      PROVE  CapacityInv'
    <2>1. Cardinality(Active') <= Cardinality(Active) + 1
        BY <1>3, ActiveOneMore
    <2>. HIDE DEF claim
    <2>. QED
        BY <1>1, <1>3, <2>1, ActiveFinite
<1>4. CASE Steady
    <2>1. Active' \subseteq Active
        BY <1>4 DEF Steady, MonKept, TasksKept, Active, ActiveTasks
    <2>2. claim => pending
        BY <1>4 DEF Steady, TodoKept, Claims
    <2>. QED
        BY <1>0, <1>2, <2>1, <2>2
<1>5. ASSUME NEW t \in Ids, Entered(t), \A u \in Ids \ {t} : mon'[u] = mon[u]
      PROVE  Active' \subseteq Active \cup {t}
    <2>1. \A u \in Ids \ {t} : mem'.tasks[u] = mem.tasks[u]
        BY <1>5 DEF Entered, OthersKept
    <2>. QED
        BY <1>5, <2>1 DEF Active, ActiveTasks
<1>6. CASE StepSpawned
    <2>. DEFINE t == todo[1].t
    <2>1. /\ todo[1].do = "spawned" /\ t \in Ids
          /\ \E st \in {"none", "running"} : mon' = [mon EXCEPT ![t] = st]
          /\ \A j \in 1..Len(todo') : todo'[j].do \notin Claims
          /\ KeepMem \/ Entered(t)
        BY <1>6, SpawnedStep
    <2>a. Len(todo) = 1
        BY <1>6, SpawnedStep
    <2>b. 1 \in 1..Len(todo)
        BY <2>a
    <2>2. pending /\ ~claim
        BY <2>1, <2>b DEF Claims
    <2>. HIDE DEF t
    <2>3. \A u \in Ids \ {t} : mon'[u] = mon[u]
        BY <1>0, <2>1
    <2>4. CASE KeepMem
        <3>1. mem' = mem
            BY <2>4 DEF KeepMem
        <3>2. Active' \subseteq Active \cup {t}
            BY <2>3, <3>1 DEF Active, ActiveTasks
        <3>. QED
            BY <1>0, <1>3, <2>2, <3>2
    <2>5. CASE Entered(t)
        BY <1>0, <1>3, <1>5, <2>1, <2>2, <2>3, <2>5
    <2>. QED
        BY <2>1, <2>4, <2>5
<1>7. CASE StepAttached
    <2>. DEFINE t == todo[1].t
    <2>1. /\ t \in Ids /\ mon' = mon
          /\ \A j \in 1..Len(todo') : todo'[j].do \notin Claims
          /\ KeepMem \/ (Entered(t) /\ Cardinality(Active) < MaxConcurrency)
        BY <1>7, AttachedStep DEF Active
    <2>2. ~claim
        BY <2>1 DEF Claims
    <2>. HIDE DEF t
    <2>3. CASE KeepMem
        <3>1. Active' \subseteq Active
            BY <2>1, <2>3 DEF KeepMem, Active, ActiveTasks
        <3>. QED
            BY <1>2, <2>2, <3>1
    <2>4. CASE Entered(t) /\ Cardinality(Active) < MaxConcurrency
        BY <1>3, <1>5, <2>1, <2>2, <2>4
    <2>. QED
        BY <2>1, <2>3, <2>4
<1>8. CASE OpStart \/ OpAttach
    <2>1. /\ UNCHANGED <<mon, mem>>
          /\ \/ \A j \in 1..Len(todo') : todo'[j].do \notin Claims
             \/ Cardinality(Active) < MaxConcurrency
             \/ \A j \in 1..Len(todo') : todo'[j].do = "attached"
        BY <1>8, ClaimOp DEF Active
    <2>2. Active' \subseteq Active
        BY <2>1 DEF Active, ActiveTasks
    <2>3. claim => Cardinality(Active) < MaxConcurrency
        BY <2>1 DEF Claims
    <2>. QED
        BY <1>2, <2>2, <2>3
<1>9. ASSUME NEW t \in Ids, Starts(t)
      PROVE  CapacityInv'
    <2>1. UNCHANGED <<mon, mem, todo>>
        BY <1>9 DEF Starts
    <2>2. Active' \subseteq Active
        BY <2>1 DEF Active, ActiveTasks
    <2>. QED
        BY <1>0, <1>2, <2>1, <2>2
<1>10. ASSUME NEW t \in Ids, MonitorAttaches(t)
       PROVE  CapacityInv'
    <2>1. mon[t] = "fresh" /\ mon' = [mon EXCEPT ![t] = "running"] /\ UNCHANGED <<mem, todo>>
        BY <1>10, AttachesStep
    <2>2. ~mem.tasks[t].known
        BY <2>1 DEF TasksInv
    <2>3. Active' \subseteq Active
        BY <1>0, <2>1, <2>2 DEF Active, ActiveTasks
    <2>. QED
        BY <1>0, <1>2, <2>1, <2>3
<1>. QED
    BY <1>4, <1>6, <1>7, <1>8, <1>9, <1>10, SteadyNext

\* The manager's memory is what its branch holds, after every step.
LEMMA MemoryKept ==
    ASSUME Shape, NoSwitch, Next, ~Navigate
    PROVE  mem' = saved' /\ mem'.branch = 1
<1>0. /\ MemOK(mem) /\ mem = saved /\ mem.branch = 1
    BY DEF Shape, NoSwitch
<1>1. CASE Plain
    <2>1. UNCHANGED <<mem, saved>> \/ saved' = mem'
        BY <1>1 DEF Plain, MemStep
    <2>2. mem'.branch = mem.branch
        BY <1>1 DEF Plain, MemStep, Grows
    <2>. QED
        BY <1>0, <2>1, <2>2
<1>2. ASSUME NEW m, NEW busy, MemOK(m), m.branch = 1,
             ConsumeWakeQueue(m, m, busy, generation, inflight)
      PROVE  mem' = saved' /\ mem'.branch = 1
    <2>1. \/ mem' = m /\ saved' = m
          \/ mem' = Sent(m) /\ saved' = Sent(m)
        BY <1>2, ConsumeCases DEF ConsumeIdle, ConsumeSends
    <2>. QED
        BY <1>2, <2>1, SentKeeps
<1>3. CASE StepConsume \/ Continue
    <2>1. ConsumeWakeQueue(mem, mem, delivering, generation, inflight)
        BY <1>0, <1>3 DEF StepConsume, Continue
    <2>. QED
        BY <1>0, <1>2, <2>1
<1>4. CASE OpRebuild
    <2>1. Ready("rebuild")
        BY <1>4 DEF OpRebuild
    <2>. QED
        BY <2>1, FirstOp DEF NoSwitch
<1>5. CASE OpFinish
    <2>. DEFINE m == Consumed(mem, Head(queue).keys)
    <2>1. KeepMem \/ ConsumeWakeQueue(m, m, FALSE, generation, inflight)
        BY <1>5 DEF OpFinish, Consumed
    <2>2. MemOK(m) /\ m.branch = 1
        BY <1>0, ConsumedKeeps
    <2>. HIDE DEF m
    <2>. QED
        BY <1>0, <1>2, <2>1, <2>2 DEF KeepMem
<1>6. CASE OpFail
    <2>. DEFINE m == Mark(mem, Head(queue).keys, "queued")
    <2>1. KeepMem \/ Persist(m)
        BY <1>6 DEF OpFail
    <2>2. m.branch = 1
        BY <1>0, MarkKeeps
    <2>. HIDE DEF m
    <2>. QED
        BY <1>0, <2>1, <2>2 DEF KeepMem, Persist
<1>7. CASE DeliverResolves \/ DeliverRejects \/ Dispose
    BY <1>0, <1>7 DEF DeliverResolves, DeliverRejects, Dispose, KeepMem
<1>8. CASE Restart
    <2>1. \/ mem' = Sent(saved) /\ saved' = Sent(saved)
          \/ mem' = saved /\ saved' = saved
        BY <1>8 DEF Restart, Sent, QueuedKeys
    <2>. QED
        BY <1>0, <2>1, SentKeeps
<1>. QED
    BY <1>1, <1>3, <1>4, <1>5, <1>6, <1>7, <1>8, Classify

\* Until a switch the branch is what the manager holds, after every action.
LEMMA NoSwitchKept ==
    ASSUME Shape, NoSwitch, Next, ~Navigate
    PROVE  NoSwitch'
<1>1. mem' = saved' /\ mem'.branch = 1
    BY MemoryKept
<1>2. ASSUME NEW i \in 1..Len(queue'), FromQueue(i)
      PROVE  queue'[i].kind # "rebuild"
    BY <1>2 DEF FromQueue, NoSwitch
<1>3. CASE Steady
    <2>1. \A i \in 1..Len(queue') : queue'[i].kind # "rebuild"
        BY <1>2, <1>3, QueueStarts DEF Steady
    <2>2. nav' \in {"none", "summary"}
        BY <1>3 DEF Steady, NavKept, NoSwitch
    <2>. QED
        BY <1>1, <2>1, <2>2 DEF NoSwitch
<1>4. CASE StepSpawned \/ StepAttached
    <2>1. queue' = queue /\ nav' = nav
        BY <1>4, SpawnedStep, AttachedStep
    <2>. QED
        BY <1>1, <2>1 DEF NoSwitch
<1>5. CASE OpStart \/ OpAttach
    <2>1. queue # <<>> /\ queue' = Tail(queue) /\ nav' = nav
        BY <1>5, ClaimOp
    <2>2. \A i \in 1..Len(queue') : queue'[i].kind # "rebuild"
        BY <1>2, <2>1, TailStarts
    <2>. QED
        BY <1>1, <2>1, <2>2 DEF NoSwitch
<1>6. ASSUME NEW t \in Ids, Starts(t)
      PROVE  NoSwitch'
    <2>1. PICK o : o.kind = "start" /\ queue' = Append(queue, o)
        BY <1>6 DEF Starts
    <2>2. nav' = nav /\ IsSeq(queue)
        BY <1>6 DEF Starts, Shape, QueueOK
    <2>3. \A i \in 1..Len(queue') : queue'[i].kind # "rebuild"
        BY <2>1, <2>2, AppendParts DEF NoSwitch
    <2>. QED
        BY <1>1, <2>2, <2>3 DEF NoSwitch
<1>7. ASSUME NEW t \in Ids, MonitorAttaches(t)
      PROVE  NoSwitch'
    <2>1. queue' = queue /\ nav' = nav
        BY <1>7, AttachesStep
    <2>. QED
        BY <1>1, <2>1 DEF NoSwitch
<1>. QED
    BY <1>3, <1>4, <1>5, <1>6, <1>7, SteadyNext

\* Until the first branch switch, all of it is kept.
LEMMA FirstBranchKept ==
    ASSUME Shape, WakeInv, FirstBranch, Next
    PROVE  FirstBranch'
<1>. SUFFICES ASSUME leaf' = 1
              PROVE  NoSwitch' /\ StartsInv' /\ TasksInv' /\ CapacityInv' /\ KeysInv'
    BY DEF FirstBranch
<1>1. leaf = 1 /\ ~Navigate
    BY LeafStep
<1>2. NoSwitch /\ StartsInv /\ TasksInv /\ CapacityInv /\ KeysInv
    BY <1>1 DEF FirstBranch
<1>. QED
    BY <1>1, <1>2, NoSwitchKept, StartsKept, TasksInvKept, CapacityInvKept, KeysKept

-----------------------------------------------------------------------------
(* The chain of poll timers.  Most steps leave it alone: the operation     *)
(* returns to its caller later as it did, and the queue holds the same     *)
(* operations that arm a timer.                                            *)

Arming == {"poll", "init", "rebuild"}

SamePolling(q, p) ==
    /\ Polling(q) = {} <=> Polling(p) = {}
    /\ Unique(Polling(q)) => Unique(Polling(p))

SameEnding(q, p) == Ending(q) = {} <=> Ending(p) = {}

SameTimer == UNCHANGED <<timerVars, conts, leaf, disposed>>

ChainSame == SameEnding(todo, todo') /\ SamePolling(queue, queue') /\ SameTimer

\* The first operation leaves the queue: the one that will arm the timer, or
\* another.
LEMMA TailPolling ==
    ASSUME NEW q, IsSeq(q), q # <<>>
    PROVE  /\ Head(q).kind \notin Arming => SamePolling(q, Tail(q))
           /\ Head(q).kind \in Arming /\ Unique(Polling(q)) => Polling(Tail(q)) = {}
<1>. DEFINE p == Tail(q)
<1>1. Len(q) \in Nat /\ Head(q) = q[1] /\ 1 \in 1..Len(q)
    BY SeqParts
<1>2. /\ Len(p) = Len(q) - 1
      /\ \A i \in 1..(Len(q) - 1) : i + 1 \in 1..Len(q) /\ p[i] = q[i + 1]
    BY TailSeq
<1>. HIDE DEF p
<1>3. ASSUME NEW i \in Polling(p)
      PROVE  i + 1 \in Polling(q) /\ i \in Nat \ {0}
    <2>1. i \in 1..(Len(q) - 1) /\ p[i].kind \in {"poll", "init", "rebuild"}
        BY <1>2 DEF Polling
    <2>2. i + 1 \in 1..Len(q) /\ p[i] = q[i + 1]
        BY <1>2, <2>1
    <2>. QED
        BY <1>1, <2>1, <2>2 DEF Polling
<1>4. ASSUME Head(q).kind \notin Arming, NEW i \in Polling(q)
      PROVE  i - 1 \in Polling(p)
    <2>1. i \in 1..Len(q) /\ q[i].kind \in {"poll", "init", "rebuild"}
        BY DEF Polling
    <2>2. i # 1
        BY <1>1, <1>4, <2>1 DEF Arming
    <2>3. i - 1 \in 1..(Len(q) - 1) /\ (i - 1) + 1 = i
        BY <1>1, <2>1, <2>2
    <2>4. i - 1 \in 1..Len(p) /\ p[i - 1] = q[i]
        BY <1>2, <2>3
    <2>. QED
        BY <2>1, <2>4 DEF Polling
<1>5. Unique(Polling(q)) => Unique(Polling(p))
    BY <1>3 DEF Unique
<1>6. ASSUME Head(q).kind \in Arming, Unique(Polling(q)), NEW i \in Polling(p)
      PROVE  FALSE
    <2>1. 1 \in Polling(q)
        BY <1>1, <1>6 DEF Polling, Arming
    <2>2. i + 1 = 1
        BY <1>3, <1>6, <2>1 DEF Unique
    <2>. QED
        BY <1>3, <2>2
<1>. QED
    BY <1>3, <1>4, <1>5, <1>6 DEF SamePolling, p

\* An operation enters the queue: one that will arm the timer, or another.
LEMMA AppendPolling ==
    ASSUME NEW q, IsSeq(q), NEW o
    PROVE  /\ o.kind \notin Arming => SamePolling(q, Append(q, o))
           /\ o.kind \in Arming => Polling(Append(q, o)) # {}
           /\ Polling(q) = {} => Unique(Polling(Append(q, o)))
<1>. DEFINE p == Append(q, o)
<1>1. /\ Len(q) \in Nat /\ Len(p) = Len(q) + 1
      /\ \A i \in 1..Len(q) : p[i] = q[i]
      /\ p[Len(q) + 1] = o
    BY SeqParts, AppendSeq
<1>. HIDE DEF p
<1>2. \A i \in 1..Len(p) : i \in 1..Len(q) \/ i = Len(q) + 1
    BY <1>1
<1>3. (\A i \in 1..Len(q) : i \in 1..Len(p)) /\ Len(q) + 1 \in 1..Len(p)
    BY <1>1
<1>4. o.kind \notin Arming => Polling(p) = Polling(q)
    BY <1>1, <1>2, <1>3 DEF Polling, Arming
<1>5. o.kind \in Arming => Len(q) + 1 \in Polling(p)
    BY <1>1, <1>3 DEF Polling, Arming
<1>6. Polling(q) = {} => \A i \in Polling(p) : i = Len(q) + 1
    BY <1>1, <1>2 DEF Polling
<1>. QED
    BY <1>4, <1>5, <1>6 DEF SamePolling, Unique, p

\* What an operation returns to its caller by comes last.
LEMMA TailEnding ==
    ASSUME NEW q, TodoOK(q), q # <<>>
    PROVE  /\ Head(q).do # "end" => SameEnding(q, Tail(q))
           /\ Head(q).do = "end" => Ending(q) # {} /\ Tail(q) = <<>>
<1>. DEFINE p == Tail(q)
<1>1. IsSeq(q) /\ Len(q) \in Nat /\ Head(q) = q[1] /\ 1 \in 1..Len(q)
    BY SeqParts DEF TodoOK
<1>2. /\ IsSeq(p) /\ Len(p) = Len(q) - 1
      /\ \A i \in 1..(Len(q) - 1) : i + 1 \in 1..Len(q) /\ p[i] = q[i + 1]
    BY <1>1, TailSeq
<1>. HIDE DEF p
<1>3. ASSUME NEW i \in Ending(p)
      PROVE  i + 1 \in Ending(q)
    <2>1. i \in 1..(Len(q) - 1) /\ p[i].do = "end"
        BY <1>2 DEF Ending
    <2>. QED
        BY <1>2, <2>1 DEF Ending
<1>4. ASSUME Head(q).do # "end", NEW i \in Ending(q)
      PROVE  i - 1 \in Ending(p)
    <2>1. i \in 1..Len(q) /\ q[i].do = "end"
        BY DEF Ending
    <2>2. i # 1
        BY <1>1, <1>4, <2>1
    <2>3. i - 1 \in 1..(Len(q) - 1) /\ (i - 1) + 1 = i
        BY <1>1, <2>1, <2>2
    <2>4. i - 1 \in 1..Len(p) /\ p[i - 1] = q[i]
        BY <1>2, <2>3
    <2>. QED
        BY <2>1, <2>4 DEF Ending
<1>5. ASSUME Head(q).do = "end"
      PROVE  Ending(q) # {} /\ p = <<>>
    <2>1. 1 \in Ending(q)
        BY <1>1, <1>5 DEF Ending
    <2>2. Len(q) = 1
        BY <1>1, <1>5 DEF TodoOK
    <2>3. Len(p) = 0
        BY <1>2, <2>2
    <2>. QED
        BY <1>2, <2>1, <2>3, SeqParts
<1>. QED
    BY <1>3, <1>4, <1>5 DEF SameEnding, p

\* A step without a successor ends no operation.
LEMMA ThenEnding ==
    ASSUME Shape, NEW do, At(do), do # "end", Then(<<>>)
    PROVE  SameEnding(todo, todo') /\ conts' = conts /\ queue' = queue
<1>1. todo # <<>> /\ TodoOK(todo) /\ Head(todo).do = do
    BY FirstTodo
<1>2. todo' = Tail(todo) /\ conts' = conts /\ queue' = queue
    BY ThenNone DEF Then
<1>. QED
    BY <1>1, <1>2, TailEnding

\* A step that is replaced ends no operation.
LEMMA ReplaceEnding ==
    ASSUME Shape, NEW do, At(do), do \notin Solo, do # "end",
           NEW s, StepOK(s), s.do \in Sweeps \ {"end"}, Then(<<s>>)
    PROVE  SameEnding(todo, todo') /\ conts' = conts /\ queue' = queue
<1>1. /\ Len(todo') = Len(todo) /\ todo'[1] = s
      /\ \A i \in 2..Len(todo) : todo'[i] = todo[i]
    BY ThenOne
<1>2. todo # <<>> /\ IsSeq(todo) /\ Head(todo).do = do
    BY FirstTodo DEF TodoOK
<1>3. Len(todo) \in Nat /\ todo[1].do = do
    BY <1>2, SeqParts
<1>4. \A i \in 1..Len(todo) : i = 1 \/ i \in 2..Len(todo)
    BY <1>3
<1>5. Ending(todo') = Ending(todo)
    BY <1>1, <1>3, <1>4 DEF Ending
<1>. QED
    BY <1>5 DEF SameEnding, Then

\* A step that waits alone, and what follows it, returns to no caller.
LEMMA SoloEnding ==
    ASSUME Shape, NEW do \in Solo, At(do), \A i \in 1..Len(todo') : todo'[i].do # "end"
    PROVE  SameEnding(todo, todo')
<1>1. todo # <<>> /\ TodoOK(todo) /\ Head(todo).do = do
    BY FirstTodo
<1>2. Len(todo) = 1 /\ todo[1].do = do
    BY <1>1, TodoSolo
<1>3. \A i \in 1..1 : i = 1
    OBVIOUS
<1>4. Ending(todo) = {}
    BY <1>2, <1>3 DEF Ending, Solo
<1>. QED
    BY <1>4 DEF SameEnding, Ending

\* An operation begins with steps that do not end it.
LEMMA StartEnding ==
    ASSUME todo = <<>>, \A i \in 1..Len(todo') : todo'[i].do # "end"
    PROVE  SameEnding(todo, todo')
BY EmptyIsSeq DEF SameEnding, Ending

\* The queue stays.
LEMMA SamePoll ==
    ASSUME queue' = queue
    PROVE  SamePolling(queue, queue')
BY DEF SamePolling

\* The timer stays.
LEMMA RestTimer ==
    ASSUME Rest, conts' = conts
    PROVE  SameTimer
BY DEF Rest, navVars, SameTimer

\* At most two steps, none of which ends the operation.
LEMMA ShortSteps ==
    ASSUME NEW p,
           \/ p = <<>>
           \/ \E a : p = <<a>> /\ a.do # "end"
           \/ \E a, b : p = <<a, b>> /\ a.do # "end" /\ b.do # "end"
    PROVE  \A i \in 1..Len(p) : p[i].do # "end"
<1>1. CASE p = <<>>
    BY <1>1, EmptyIsSeq
<1>2. ASSUME NEW a, p = <<a>>, a.do # "end"
      PROVE  \A i \in 1..Len(p) : p[i].do # "end"
    <2>1. \A i \in 1..Len(p) : p[i] = a
        BY <1>2, SingleIsSeq
    <2>. QED
        BY <1>2, <2>1
<1>3. ASSUME NEW a, NEW b, p = <<a, b>>, a.do # "end", b.do # "end"
      PROVE  \A i \in 1..Len(p) : p[i].do # "end"
    <2>1. \A i \in 1..2 : i = 1 \/ i = 2
        OBVIOUS
    <2>2. \A i \in 1..Len(p) : p[i] = a \/ p[i] = b
        BY <1>3, <2>1, PairIsSeq
    <2>. QED
        BY <1>3, <2>2
<1>. QED
    BY <1>1, <1>2, <1>3

\* The steps that leave the chain of timers alone.
LEMMA ChainSteps ==
    ASSUME Shape,
           \/ StepObserve \/ StepApply \/ StepReview \/ StepPolled \/ StepConsume
           \/ StepSpawned \/ StepAttached \/ StepRead \/ StepStopped \/ StepGrace
    PROVE  ChainSame
<1>1. CASE StepObserve
    <2>. DEFINE s == [do |-> "apply", t |-> Head(todo).t, reason |-> Head(todo).reason,
                      status |-> mon[Head(todo).t]]
    <2>1. At("observe") /\ (Then(<<>>) \/ Then(<<s>>)) /\ Rest
        BY <1>1 DEF StepObserve
    <2>2. StepOK(s) /\ s.do \in Sweeps \ {"end"}
        BY <2>1, FirstTodo DEF StepOK, Sweeps, Solo
    <2>. HIDE DEF s
    <2>3. SameEnding(todo, todo') /\ conts' = conts /\ queue' = queue
        BY <2>1, <2>2, ThenEnding, ReplaceEnding DEF Solo
    <2>. QED
        BY <2>1, <2>3, SamePoll, RestTimer DEF ChainSame
<1>2. CASE StepApply
    <2>1. At("apply") /\ Rest
        BY <1>2 DEF StepApply
    <2>2. Then(<<>>) \/ \E s : StepOK(s) /\ s.do = "review" /\ Then(<<s>>)
        BY <1>2, ApplyMem
    <2>3. ASSUME NEW s, StepOK(s), s.do = "review", Then(<<s>>)
          PROVE  SameEnding(todo, todo') /\ conts' = conts /\ queue' = queue
        <3>1. s.do \in Sweeps \ {"end"} /\ "apply" \notin Solo
            BY <2>3 DEF Sweeps, Solo
        <3>. QED
            BY <2>1, <2>3, <3>1, ReplaceEnding
    <2>4. SameEnding(todo, todo') /\ conts' = conts /\ queue' = queue
        BY <2>1, <2>2, <2>3, ThenEnding
    <2>. QED
        BY <2>1, <2>4, SamePoll, RestTimer DEF ChainSame
<1>3. CASE StepReview \/ StepPolled \/ StepRead \/ StepGrace
    <2>1. Then(<<>>) /\ Rest /\ \E do : do # "end" /\ At(do)
        BY <1>3 DEF StepReview, StepPolled, StepRead, StepGrace
    <2>2. SameEnding(todo, todo') /\ conts' = conts /\ queue' = queue
        BY <2>1, ThenEnding
    <2>. QED
        BY <2>1, <2>2, SamePoll, RestTimer DEF ChainSame
<1>4. CASE StepConsume
    <2>1. At("consume") /\ Then(<<>>) /\ UNCHANGED <<timerVars, leaf, disposed>>
        BY <1>4 DEF StepConsume, navVars
    <2>2. SameEnding(todo, todo') /\ conts' = conts /\ queue' = queue
        BY <2>1, ThenEnding
    <2>. QED
        BY <2>1, <2>2, SamePoll DEF ChainSame, SameTimer
<1>5. CASE StepSpawned
    <2>. DEFINE r == <<[do |-> "polled"], Observe(Head(todo).t)>>
    <2>1. At("spawned") /\ (Quit \/ Then(r)) /\ Rest
        BY <1>5 DEF StepSpawned
    <2>2. [do |-> "polled"].do # "end" /\ Observe(Head(todo).t).do # "end"
        BY DEF Observe
    <2>3. IsSeq(r) /\ \A i \in 1..Len(r) : r[i].do # "end"
        BY <2>2, PairIsSeq, ShortSteps
    <2>. HIDE DEF r
    <2>4. queue' = queue /\ conts' = conts /\ (todo' = <<>> \/ todo' = r)
        BY <2>1, <2>3, ThenAlone DEF Quit, Then, Solo
    <2>5. \A i \in 1..Len(todo') : todo'[i].do # "end"
        BY <2>3, <2>4, EmptyIsSeq
    <2>. QED
        BY <2>1, <2>4, <2>5, SoloEnding, SamePoll, RestTimer DEF ChainSame, Solo
<1>6. CASE StepAttached
    <2>. DEFINE r == <<Observe(Head(todo).t)>>
    <2>1. At("attached") /\ (Quit \/ Then(r)) /\ Rest
        BY <1>6 DEF StepAttached
    <2>2. Observe(Head(todo).t).do # "end"
        BY DEF Observe
    <2>3. IsSeq(r) /\ \A i \in 1..Len(r) : r[i].do # "end"
        BY <2>2, SingleIsSeq, ShortSteps
    <2>. HIDE DEF r
    <2>4. queue' = queue /\ conts' = conts /\ (todo' = <<>> \/ todo' = r)
        BY <2>1, <2>3, ThenAlone DEF Quit, Then, Solo
    <2>5. \A i \in 1..Len(todo') : todo'[i].do # "end"
        BY <2>3, <2>4, EmptyIsSeq
    <2>. QED
        BY <2>1, <2>4, <2>5, SoloEnding, SamePoll, RestTimer DEF ChainSame, Solo
<1>7. CASE StepStopped
    <2>. DEFINE s == [do |-> "grace", t |-> Head(todo).t]
                o == [kind |-> "observe", t |-> Head(todo).t, reason |-> "none"]
    <2>1. /\ At("stopped") /\ Rest /\ conts' = conts
          /\ queue' = queue \/ queue' = Append(queue, o)
          /\ todo' = <<>> \/ todo' = <<s>>
        BY <1>7 DEF StepStopped, Quit
    <2>2. o.kind \notin Arming /\ s.do # "end"
        BY DEF Arming
    <2>3. IsSeq(queue)
        BY DEF Shape, QueueOK
    <2>. HIDE DEF s, o
    <2>4. \A i \in 1..Len(todo') : todo'[i].do # "end"
        BY <2>1, <2>2, ShortSteps
    <2>5. SamePolling(queue, queue')
        BY <2>1, <2>2, <2>3, SamePoll, AppendPolling
    <2>. QED
        BY <2>1, <2>4, <2>5, SoloEnding, RestTimer DEF ChainSame, Solo
<1>. QED
    BY <1>1, <1>2, <1>3, <1>4, <1>5, <1>6, <1>7

\* The operations that leave the chain of timers alone.
LEMMA ChainOps ==
    ASSUME Shape,
           \/ OpObserve \/ OpStart \/ OpAttach \/ OpWait \/ OpLogs \/ OpCancel
           \/ OpFinish \/ OpFail
    PROVE  ChainSame
<1>0. IsSeq(queue)
    BY DEF Shape, QueueOK
<1>1. /\ todo = <<>> /\ queue # <<>> /\ queue' = Tail(queue) /\ conts' = conts
      /\ Head(queue).kind \notin Arming
    BY DEF OpObserve, OpStart, OpAttach, OpWait, OpLogs, OpCancel, OpFinish, OpFail, Ready, RunOp,
           Arming
<1>2. SamePolling(queue, queue')
    BY <1>0, <1>1, TailPolling
<1>3. SameTimer
    <2>1. CASE OpFinish \/ OpFail
        BY <1>1, <2>1 DEF OpFinish, OpFail, navVars, SameTimer
    <2>2. CASE OpObserve \/ OpStart \/ OpAttach \/ OpWait \/ OpLogs \/ OpCancel
        BY <1>1, <2>2, RestTimer DEF OpObserve, OpStart, OpAttach, OpWait, OpLogs, OpCancel
    <2>. QED
        BY <2>1, <2>2
<1>4. \/ todo' = <<>>
      \/ \E a : todo' = <<a>> /\ a.do # "end"
      \/ \E a, b : todo' = <<a, b>> /\ a.do # "end" /\ b.do # "end"
    <2>1. CASE OpFinish \/ OpFail
        BY <2>1 DEF OpFinish, OpFail, RunOp
    <2>2. CASE OpStart \/ OpAttach \/ OpLogs \/ OpCancel
        BY <2>2 DEF OpStart, OpAttach, OpLogs, OpCancel, RunOp
    <2>3. CASE OpObserve \/ OpWait
        BY <2>3 DEF OpObserve, OpWait, RunOp, Observe
    <2>. QED
        BY <2>1, <2>2, <2>3
<1>5. SameEnding(todo, todo')
    BY <1>1, <1>4, ShortSteps, StartEnding
<1>. QED
    BY <1>2, <1>3, <1>5 DEF ChainSame

\* The calls from outside that leave the chain of timers alone.
LEMMA ChainCalls ==
    ASSUME Shape,
           \/ \E t \in Ids : ToolCall(t) \/ MonitorAttaches(t) \/ MonitorChanges(t) \/ LogGrows(t)
           \/ DeliverResolves \/ DeliverRejects \/ UserMessages \/ MarkEntry \/ NavigateBegins
           \/ FollowUpTaken \/ FollowUpsCleared
    PROVE  ChainSame
<1>0. IsSeq(queue)
    BY DEF Shape, QueueOK
<1>1. ASSUME SameTimer, todo' = todo,
             queue' = queue \/ \E o : o.kind \notin Arming /\ queue' = Append(queue, o)
      PROVE  ChainSame
    <2>1. SamePolling(queue, queue')
        BY <1>0, <1>1, SamePoll, AppendPolling
    <2>. QED
        BY <1>1, <2>1 DEF ChainSame, SameEnding
<1>2. ASSUME NEW o, Call(o), o.kind \notin Arming
      PROVE  ChainSame
    <2>1. queue' = Append(queue, o) /\ todo' = todo /\ conts' = conts /\ Rest
        BY <1>2 DEF Call, Enqueue
    <2>. QED
        BY <1>1, <1>2, <2>1, RestTimer
<1>3. ASSUME NEW t \in Ids, ToolCall(t)
      PROVE  ChainSame
    <2>. DEFINE Rec(kind, tr) == [kind |-> kind, t |-> t, triggers |-> tr]
                Bare(kind)    == [kind |-> kind, t |-> t]
    <2>1. \/ \E tr \in TriggerSets : Call(Rec("start", tr))
          \/ \E tr \in TriggerSets : Call(Rec("wait", tr))
          \/ \E tr \in TriggerSets : Call(Rec("attach", tr))
          \/ Call(Bare("logs"))
          \/ Call(Bare("cancel"))
        BY <1>3 DEF ToolCall
    <2>2. ASSUME NEW kind, NEW tr
          PROVE  Rec(kind, tr).kind = kind /\ Bare(kind).kind = kind
        OBVIOUS
    <2>. HIDE DEF Rec, Bare
    <2>3. {"start", "wait", "attach", "logs", "cancel"} \cap Arming = {}
        BY DEF Arming
    <2>. QED
        BY <1>2, <2>1, <2>2, <2>3
<1>4. ASSUME NEW t \in Ids, MonitorAttaches(t) \/ LogGrows(t)
      PROVE  ChainSame
    <2>1. queue' = queue /\ todo' = todo /\ conts' = conts /\ Rest
        BY <1>4 DEF MonitorAttaches, LogGrows, opVars
    <2>. QED
        BY <1>1, <2>1, RestTimer
<1>5. ASSUME NEW t \in Ids, MonitorChanges(t)
      PROVE  ChainSame
    <2>1. /\ todo' = todo /\ conts' = conts /\ Rest
          /\ queue' = queue \/ \E o : o.kind = "observe" /\ queue' = Append(queue, o)
        BY <1>5 DEF MonitorChanges, Enqueue, opVars
    <2>2. "observe" \notin Arming
        BY DEF Arming
    <2>. QED
        BY <1>1, <2>1, <2>2, RestTimer
<1>6. CASE DeliverResolves \/ DeliverRejects
    <2>1. /\ todo' = todo /\ conts' = conts /\ UNCHANGED <<timerVars, leaf, disposed>>
        BY <1>6 DEF DeliverResolves, DeliverRejects, Enqueue, navVars
    <2>2. PICK d \in inflight, kind \in Settles :
            queue' = Append(queue, [kind |-> kind, gen |-> d.gen, keys |-> d.keys])
        BY <1>6 DEF DeliverResolves, DeliverRejects, Enqueue, Settles
    <2>3. [kind |-> kind, gen |-> d.gen, keys |-> d.keys].kind \notin Arming
        BY DEF Settles, Arming
    <2>. QED
        BY <1>1, <2>1, <2>2, <2>3 DEF SameTimer
<1>7. CASE UserMessages \/ MarkEntry \/ NavigateBegins \/ FollowUpTaken \/ FollowUpsCleared
    <2>1. queue' = queue /\ todo' = todo /\ UNCHANGED <<timerVars, conts, leaf, disposed>>
        BY <1>7 DEF FollowUpTaken, FollowUpsCleared, UserMessages, MarkEntry, NavigateBegins,
                    opVars, navVars
    <2>. QED
        BY <1>1, <2>1 DEF SameTimer
<1>. QED
    BY <1>3, <1>4, <1>5, <1>6, <1>7

\* Every action keeps the chain of timers.
LEMMA PollKept ==
    ASSUME Shape, FirstBranch, PollInv, Next
    PROVE  PollInv'
<1>0. IsSeq(queue) /\ IsSeq(conts) /\ TodoOK(todo)
    BY DEF Shape, QueueOK
<1>a. ~disposed => ChainKept /\ (leaf = 1 => OneChain)
    BY DEF PollInv
<1>1. CASE ChainSame
    BY <1>a, <1>1 DEF ChainSame, SameEnding, SamePolling, SameTimer, timerVars, PollInv,
       ChainKept, OneChain
<1>2. CASE StepEnd
    <2>1. /\ At("end") /\ todo' = Tail(todo) /\ conts' = Append(conts, Head(todo).cont)
          /\ queue' = queue /\ Rest
        BY <1>2 DEF StepEnd
    <2>2. UNCHANGED <<pollTimer, strays, leaf, disposed>>
        BY <2>1 DEF Rest, timerVars, navVars
    <2>3. Ending(todo) # {} /\ todo' = <<>>
        BY <1>0, <2>1, TailEnding DEF At
    <2>4. Ending(todo') = {}
        BY <2>3, EmptyIsSeq DEF Ending
    <2>5. /\ Len(conts') = Len(conts) + 1 /\ Len(conts) \in Nat /\ IsSeq(conts')
        BY <1>0, <2>1, AppendSeq, SeqParts
    <2>6. conts' # <<>>
        BY <2>5, EmptyIsSeq
    <2>7. conts = <<>> => Len(conts') <= 1
        BY <2>5, EmptyIsSeq
    <2>8. ASSUME ~disposed, leaf = 1
          PROVE  OneChain'
        <3>1. /\ strays = 0 /\ ~pollTimer /\ Polling(queue) = {} /\ conts = <<>>
              /\ Unique(Polling(queue))
            BY <1>a, <2>3, <2>8 DEF OneChain
        <3>. QED
            BY <2>1, <2>2, <2>4, <2>7, <3>1 DEF OneChain
    <2>. QED
        BY <2>2, <2>6, <2>8 DEF PollInv, ChainKept
<1>3. CASE OpSweep \/ OpRebuild
    <2>1. /\ todo = <<>> /\ queue # <<>> /\ queue' = Tail(queue) /\ conts' = conts
          /\ Head(queue).kind \in Arming
        BY <1>3 DEF OpSweep, OpRebuild, Ready, RunOp, Arming
    <2>2. Ending(todo') # {}
        <3>1. CASE OpSweep
            <4>. DEFINE a == <<[do |-> "polled"]>> \o ObserveAll
                        x == [do |-> "end", cont |-> "poll"]
                        y == [do |-> "end", cont |-> "init"]
            <4>1. todo' = a \o <<x>> \/ todo' = ObserveAll \o <<y>>
                BY <3>1 DEF OpSweep, RunOp
            <4>2. x.do = "end" /\ y.do = "end"
                OBVIOUS
            <4>3. IsSeq(a) /\ \A i \in 1..Len(a) : StepOK(a[i]) /\ a[i].do \in {"observe", "polled"}
                BY PolledFirst
            <4>. HIDE DEF a, x, y
            <4>4. ASSUME NEW r, IsSeq(r),
                         \A i \in 1..Len(r) : StepOK(r[i]) /\ r[i].do \in {"observe", "polled"},
                         NEW s, s.do = "end", todo' = r \o <<s>>
                  PROVE  Ending(todo') # {}
                <5>1. Len(r) \in Nat
                    BY <4>4, SeqParts
                <5>2. Len(todo') = Len(r) + 1 /\ todo'[Len(r) + 1] = s
                    BY <4>4, TodoSweep
                <5>3. Len(r) + 1 \in Ending(todo')
                    BY <4>4, <5>1, <5>2 DEF Ending
                <5>. QED
                    BY <5>3
            <4>. QED
                BY <4>1, <4>2, <4>3, <4>4, ObserveAllSteps
        <3>2. CASE OpRebuild
            <4>. DEFINE x == [do |-> "end", cont |-> "rebuild"]
            <4>1. todo' = <<x>> /\ x.do = "end"
                BY <3>2 DEF OpRebuild, RunOp
            <4>. HIDE DEF x
            <4>2. 1 \in Ending(todo')
                BY <4>1, SingleIsSeq DEF Ending
            <4>. QED
                BY <4>2
        <3>. QED
            BY <1>3, <3>1, <3>2
    <2>3. UNCHANGED <<leaf, disposed>>
        BY <1>3 DEF OpSweep, OpRebuild, Rest, navVars
    <2>4. ASSUME ~disposed, leaf = 1
          PROVE  OneChain'
        <3>1. ~OpRebuild
            BY <2>4, FirstOp DEF OpRebuild, FirstBranch, NoSwitch
        <3>2. UNCHANGED <<pollTimer, strays>>
            BY <1>3, <3>1 DEF OpSweep, Rest, timerVars
        <3>3. Polling(queue) # {}
            <4>1. queue # <<>> /\ queue[1] = Head(queue) /\ 1 \in 1..Len(queue)
                BY <1>0, <2>1, SeqParts
            <4>2. 1 \in Polling(queue)
                BY <2>1, <4>1 DEF Polling, Arming
            <4>. QED
                BY <4>2
        <3>4. strays = 0 /\ ~pollTimer /\ conts = <<>> /\ Unique(Polling(queue)) /\ Len(conts) <= 1
            BY <1>a, <2>4, <3>3 DEF OneChain
        <3>5. Polling(queue') = {}
            BY <1>0, <2>1, <3>4, TailPolling
        <3>. QED
            BY <2>1, <3>2, <3>4, <3>5 DEF OneChain, Unique
    <2>. QED
        BY <2>2, <2>3, <2>4 DEF PollInv, ChainKept
<1>4. CASE Continue
    <2>1. /\ conts # <<>> /\ conts' = Tail(conts) /\ queue' = queue /\ todo' = todo
          /\ UNCHANGED <<leaf, disposed>>
        BY <1>4 DEF Continue, navVars
    <2>2. ~disposed => pollTimer'
        BY <1>4 DEF Continue
    <2>3. ASSUME ~disposed, leaf = 1
          PROVE  OneChain'
        <3>1. /\ strays = 0 /\ ~pollTimer /\ Polling(queue) = {} /\ Ending(todo) = {}
              /\ Len(conts) <= 1 /\ Unique(Polling(queue))
            BY <1>a, <2>1, <2>3 DEF OneChain
        <3>2. strays' = 0
            BY <1>4, <3>1 DEF Continue
        <3>3. IsSeq(conts') /\ Len(conts') = Len(conts) - 1 /\ Len(conts) \in Nat /\ Len(conts) >= 1
            BY <1>0, <2>1, TailSeq, SeqParts
        <3>4. Len(conts') = 0
            BY <3>1, <3>3
        <3>5. conts' = <<>>
            BY <3>3, <3>4, SeqParts
        <3>. QED
            BY <2>1, <3>1, <3>2, <3>4, <3>5 DEF OneChain
    <2>. QED
        BY <2>1, <2>2, <2>3 DEF PollInv, ChainKept
<1>5. CASE TimerFires
    <2>. DEFINE o == [kind |-> "poll"]
    <2>1. /\ UNCHANGED <<leaf, disposed>> /\ pollTimer' = FALSE
          /\ ~disposed => queue' = Append(queue, o) /\ UNCHANGED <<todo, conts>>
          /\ (pollTimer /\ strays' = strays) \/ strays > 0
        BY <1>5 DEF TimerFires, Enqueue, navVars
    <2>2. o.kind \in Arming
        BY DEF Arming
    <2>. HIDE DEF o
    <2>3. ~disposed => Polling(queue') # {}
        BY <1>0, <2>1, <2>2, AppendPolling
    <2>4. ASSUME ~disposed, leaf = 1
          PROVE  OneChain'
        <3>1. strays = 0
            BY <1>a, <2>4 DEF OneChain
        <3>2. pollTimer /\ strays' = 0
            BY <2>1, <3>1
        <3>3. Polling(queue) = {} /\ Ending(todo) = {} /\ conts = <<>> /\ Len(conts) <= 1
            BY <1>a, <2>4, <3>2 DEF OneChain
        <3>4. Unique(Polling(queue'))
            BY <1>0, <2>1, <2>4, <3>3, AppendPolling
        <3>. QED
            BY <2>1, <2>4, <3>2, <3>3, <3>4 DEF OneChain
    <2>. QED
        BY <2>1, <2>3, <2>4 DEF PollInv, ChainKept
<1>6. CASE CallRebuild
    <2>1. ~disposed => nav = "monitor" /\ \E o : o.kind = "rebuild" /\ queue' = Append(queue, o)
        BY <1>6 DEF CallRebuild, Enqueue
    <2>2. UNCHANGED <<leaf, disposed>>
        BY <1>6 DEF CallRebuild
    <2>3. ~disposed => Polling(queue') # {}
        BY <1>0, <2>1, AppendPolling DEF Arming
    <2>4. ~disposed => leaf # 1
        BY <2>1 DEF FirstBranch, NoSwitch
    <2>. QED
        BY <2>2, <2>3, <2>4 DEF PollInv, ChainKept
<1>7. CASE Navigate
    <2>1. leaf' = leaf + 1 /\ UNCHANGED <<disposed, pollTimer, queue, todo, conts>>
        BY <1>7 DEF Navigate, opVars, timerVars
    <2>2. leaf' # 1
        BY <2>1 DEF Shape
    <2>. QED
        BY <1>a, <2>1, <2>2 DEF PollInv, ChainKept
<1>8. CASE Dispose
    BY <1>8 DEF Dispose, PollInv
<1>9. CASE Restart
    <2>. DEFINE o == [kind |-> "init"]
    <2>1. /\ queue' = <<o>> /\ todo' = <<>> /\ conts' = <<>> /\ pollTimer' = FALSE /\ strays' = 0
          /\ o.kind = "init"
        BY <1>9 DEF Restart
    <2>. HIDE DEF o
    <2>2. Len(queue') = 1 /\ queue'[1] = o /\ \A i \in 1..1 : i = 1
        BY <2>1, SingleIsSeq
    <2>3. Polling(queue') = {1}
        BY <2>1, <2>2 DEF Polling
    <2>4. Ending(todo') = {} /\ Len(conts') = 0
        BY <2>1, EmptyIsSeq DEF Ending
    <2>. QED
        BY <2>1, <2>3, <2>4 DEF PollInv, ChainKept, OneChain, Unique
<1>. QED
    BY <1>1, <1>2, <1>3, <1>4, <1>5, <1>6, <1>7, <1>8, <1>9, ChainSteps, ChainOps, ChainCalls
       DEF Next, Steps

-----------------------------------------------------------------------------
(* The inductive invariant holds in every reachable state.                 *)

IInv == Shape /\ WakeInv /\ OwnerInv /\ FirstBranch /\ PollInv

\* The invariant holds at first.
LEMMA InitInv ==
    ASSUME Init
    PROVE  IInv
<1>1. Shape
    BY ShapeInit
<1>2. Len(<<>>) = 0 /\ 1..0 = {}
    BY EmptyIsSeq
<1>3. /\ NoSnapshot.events = {} /\ NoSnapshot.keys = {} /\ NoSnapshot.branch = 1
      /\ \A t \in Ids : NoSnapshot.tasks[t] = NoTask
    BY DEF NoSnapshot
<1>4. /\ mem = NoSnapshot /\ saved = NoSnapshot /\ nav = "none" /\ strays = 0
      /\ queue = <<>> /\ todo = <<>> /\ conts = <<>> /\ delivering = FALSE /\ inflight = {}
      /\ generation = 0 /\ pollTimer = TRUE /\ accepted = {} /\ repeated = {}
      /\ followUps = {} /\ dropped = {}
      /\ mon = [t \in Ids |-> "fresh"] /\ reviewed = [t \in Ids |-> 0]
    BY DEF Init
<1>5. WakeInv /\ OwnerInv
    BY <1>2, <1>3, <1>4 DEF WakeInv, OwnerInv, OneToken, Unique, Calls, Settling, AllOwned
<1>6. NoSwitch /\ StartsInv
    BY <1>2, <1>3, <1>4 DEF NoSwitch, StartsInv, OneStart
<1>7. TasksInv
    <2>1. NoTask.known = FALSE /\ NoTask.wait = FALSE /\ NoTask.reviewCount = 0
        BY DEF NoTask
    <2>. QED
        BY <1>3, <1>4, <2>1 DEF TasksInv
<1>8. CapacityInv
    <2>1. ActiveTasks(mem) = {}
        BY <1>4 DEF ActiveTasks
    <2>2. Cardinality({}) = 0 /\ MaxConcurrency \in Nat
        BY FS_EmptySet, BackgroundAssumption
    <2>. QED
        BY <1>2, <1>4, <2>1, <2>2 DEF CapacityInv, CapacityRespected
<1>9. KeysInv
    BY <1>2, <1>3, <1>4 DEF KeysInv, KeysOK, EventsOK, Distinct, Unique, Handed, AllKeys, FollowOK
<1>10. PollInv
    BY <1>2, <1>4 DEF PollInv, ChainKept, OneChain, Polling, Ending, Unique
<1>. QED
    BY <1>1, <1>5, <1>6, <1>7, <1>8, <1>9, <1>10 DEF IInv, FirstBranch

\* Every step keeps the invariant.
LEMMA StepInv ==
    ASSUME IInv, [Next]_vars
    PROVE  IInv'
<1>1. CASE Next
    BY <1>1, ShapeKept, WakeKept, FirstBranchKept, PollKept DEF IInv
<1>2. CASE UNCHANGED vars
    BY <1>2 DEF vars, IInv, Shape, WakeInv, OwnerInv, FirstBranch, NoSwitch, StartsInv, TasksInv,
       CapacityInv, CapacityRespected, ActiveTasks, KeysInv, Handed, PollInv, ChainKept, OneChain
<1>. QED
    BY <1>1, <1>2

\* What the operations, the deliveries, the memory and the timers satisfy
\* together in every reachable state of the background task manager.
THEOREM Invariance == Spec => []IInv
<1>1. Init => IInv
    BY InitInv
<1>2. IInv /\ [Next]_vars => IInv'
    BY StepInv
<1>. QED
    BY <1>1, <1>2, PTL DEF Spec

-----------------------------------------------------------------------------
(* What follows from it.                                                   *)

\* A set of at most one element.
LEMMA UniqueCardinality ==
    ASSUME NEW S, Unique(S)
    PROVE  IsFiniteSet(S) /\ Cardinality(S) = IF S = {} THEN 0 ELSE 1
<1>1. CASE S = {}
    BY <1>1, FS_EmptySet
<1>2. ASSUME NEW x \in S
      PROVE  IsFiniteSet(S) /\ Cardinality(S) = 1
    <2>1. S = {x}
        BY DEF Unique
    <2>. QED
        BY <2>1, FS_Singleton
<1>. QED
    BY <1>1, <1>2

\* The one token, counted.
LEMMA TokenCount ==
    ASSUME IInv
    PROVE  OneDelivery
<1>. SUFFICES ASSUME ~disposed
              PROVE  Cardinality({d \in inflight : d.gen = generation})
                       + Cardinality({i \in Ops({"finish", "fail"}) : queue[i].gen = generation})
                     = IF delivering THEN 1 ELSE 0
    BY DEF OneDelivery
<1>1. DOMAIN queue = 1..Len(queue)
    BY SeqParts DEF IInv, Shape, QueueOK
<1>2. {d \in inflight : d.gen = generation} = Calls(inflight, generation)
    BY DEF Calls
<1>3. {i \in Ops({"finish", "fail"}) : queue[i].gen = generation} = Settling(queue, generation)
    BY <1>1 DEF Ops, Settling, Settles
<1>. DEFINE C == Calls(inflight, generation)
            S == Settling(queue, generation)
<1>4. /\ Unique(C) /\ Unique(S) /\ (C = {} \/ S = {})
      /\ delivering <=> C # {} \/ S # {}
    BY DEF IInv, WakeInv, OneToken
<1>. HIDE DEF C, S
<1>5. /\ Cardinality(C) = IF C = {} THEN 0 ELSE 1
      /\ Cardinality(S) = IF S = {} THEN 0 ELSE 1
    BY <1>4, UniqueCardinality
<1>6. Cardinality(C) + Cardinality(S) = IF delivering THEN 1 ELSE 0
    BY <1>4, <1>5
<1>. QED
    BY <1>2, <1>3, <1>6 DEF C, S

\* Two turns are never triggered at once: while wakeDelivery is set there is
\* exactly one delivery of the current generation, in the host or settling,
\* and none while it is clear, after any branch switches and restarts.
THEOREM SingleDelivery == Spec => []OneDelivery
<1>1. IInv => OneDelivery
    BY TokenCount
<1>. QED
    BY <1>1, Invariance, PTL

\* Until a restart every event in state delivered has a delivery of the
\* current generation that will settle it: finishWakeDelivery,
\* failWakeDelivery and rebuild leave none behind.
THEOREM DeliveredOwned == Spec => []DeliveredHasOwner
<1>1. ASSUME IInv
      PROVE  DeliveredHasOwner
    <2>. DEFINE Ds == {d \in inflight : d.gen = generation}
                Is == {i \in Ops({"finish", "fail"}) : queue[i].gen = generation}
                Ks == {e.key : e \in {e \in mem.events : e.state = "delivered"}}
                U  == UNION {d.keys : d \in Ds}
                V  == UNION {queue[i].keys : i \in Is}
    <2>. SUFFICES ASSUME restarts = 0, ~disposed
                  PROVE  Ks \subseteq U \cup V
        BY DEF DeliveredHasOwner
    <2>1. DOMAIN queue = 1..Len(queue)
        BY <1>1, SeqParts DEF IInv, Shape, QueueOK
    <2>2. \A e \in mem.events : e.state = "delivered" => Owns(queue, inflight, generation, e.key)
        BY <1>1 DEF IInv, OwnerInv, AllOwned
    <2>3. Ds = Calls(inflight, generation) /\ Is = Settling(queue, generation)
        BY <2>1 DEF Calls, Settling, Settles, Ops
    <2>4. \A k \in Ks : Owns(queue, inflight, generation, k)
        BY <2>2
    <2>. HIDE DEF Ds, Is, Ks
    <2>5. \A k : (\E d \in Ds : k \in d.keys) => k \in U
        OBVIOUS
    <2>6. \A k : (\E i \in Is : k \in queue[i].keys) => k \in V
        OBVIOUS
    <2>. HIDE DEF U, V
    <2>. QED
        BY <2>3, <2>4, <2>5, <2>6 DEF Owns
<1>. QED
    BY <1>1, Invariance, PTL

\* Until the first branch switch the Coordinator receives a wake again only
\* when failWakeDelivery queued it again after the host had put it in the
\* transcript; no crash, disposal or late follow-up repeats one, as deliver
\* is called after the events are persisted as delivered.
THEOREM ReceivedOnce == Spec => [](leaf = 1 => OnceUnlessRejected)
<1>1. IInv => (leaf = 1 => OnceUnlessRejected)
    BY DEF IInv, FirstBranch, KeysInv, OnceUnlessRejected
<1>. QED
    BY <1>1, Invariance, PTL

\* Without a branch switch a wake is marked consumed only when the host took
\* it: the Coordinator received it, or it is or was in the follow-up queue.
THEOREM ConsumedHandedOver == Spec => []ConsumedWasHandedOver
<1>1. ASSUME IInv, leaf = 1
      PROVE  mem.keys \cup {e.key : e \in {e \in mem.events : e.state = "consumed"}}
               \subseteq accepted \cup KeysOf(followUps) \cup dropped
    <2>1. EventsOK(mem, Handed, refused) /\ FollowOK(followUps, accepted, refused)
        BY <1>1 DEF IInv, FirstBranch, KeysInv, KeysOK
    <2>2. KeysOf(followUps) = AllKeys(followUps)
        BY <1>1, <2>1, OwnKeys DEF FollowOK
    <2>. QED
        BY <2>1, <2>2 DEF EventsOK, Handed
<1>2. IInv => ConsumedWasHandedOver
    BY <1>1 DEF ConsumedWasHandedOver
<1>. QED
    BY <1>2, Invariance, PTL

\* Until the first branch switch, and over restarts, a task is reviewed at
\* most maxReviews times: maybeReview persists the charge before the call.
THEOREM ReviewsBounded == Spec => [](leaf = 1 => ReviewBudget)
<1>1. ASSUME IInv, leaf = 1, NEW t \in Ids
      PROVE  reviewed[t] <= MaxReviews
    <2>1. reviewed[t] <= mem.tasks[t].reviewCount
        BY <1>1 DEF IInv, FirstBranch, TasksInv
    <2>2. mem.tasks[t].reviewCount \in 0..MaxReviews /\ reviewed[t] \in Nat
        BY <1>1 DEF IInv, Shape, MemOK, TaskOK
    <2>. QED
        BY <2>1, <2>2, BackgroundAssumption
<1>2. IInv => (leaf = 1 => ReviewBudget)
    BY <1>1 DEF ReviewBudget
<1>. QED
    BY <1>2, Invariance, PTL

\* Until the first branch switch the active tasks stay within the limit
\* although assertCapacity is separated from the spawn by an await.
THEOREM CapacityKept == Spec => [](leaf = 1 => CapacityRespected)
<1>1. IInv => (leaf = 1 => CapacityRespected)
    BY DEF IInv, FirstBranch, CapacityInv
<1>. QED
    BY <1>1, Invariance, PTL

\* A set of positions in two parts, counted.
LEMMA SplitCardinality ==
    ASSUME NEW n \in Nat, NEW S \in SUBSET (1..n), NEW A, NEW B, A \cup B = S, A \cap B = {}
    PROVE  /\ Cardinality(A) \in Nat /\ Cardinality(B) \in Nat
           /\ S = {} => Cardinality(A) + Cardinality(B) = 0
           /\ S # {} => Cardinality(A) + Cardinality(B) >= 1
           /\ S # {} /\ Unique(S) => Cardinality(A) + Cardinality(B) = 1
<1>1. IsFiniteSet(1..n)
    BY FS_Interval
<1>2. IsFiniteSet(A) /\ IsFiniteSet(B)
    BY <1>1, FS_Subset
<1>3. Cardinality(A) \in Nat /\ Cardinality(B) \in Nat
    BY <1>2, FS_CardinalityType
<1>4. (Cardinality(A) = 0 <=> A = {}) /\ (Cardinality(B) = 0 <=> B = {})
    BY <1>2, FS_EmptySet
<1>5. S = {} <=> A = {} /\ B = {}
    OBVIOUS
<1>6. ASSUME Unique(S), S # {}
      PROVE  Cardinality(A) + Cardinality(B) = 1
    <2>1. Unique(A) /\ Unique(B) /\ (A = {} \/ B = {})
        BY <1>6 DEF Unique
    <2>2. /\ Cardinality(A) = IF A = {} THEN 0 ELSE 1
          /\ Cardinality(B) = IF B = {} THEN 0 ELSE 1
        BY <2>1, UniqueCardinality
    <2>. QED
        BY <1>5, <1>6, <2>1, <2>2
<1>. QED
    BY <1>3, <1>4, <1>5, <1>6

\* The links of the chain, counted.
LEMMA ChainCount ==
    ASSUME IInv
    PROVE  PollChain
<1>. DEFINE A == Ops({"poll"})
            B == {i \in DOMAIN todo : todo[i].do = "end" /\ todo[i].cont = "poll"}
            C == {i \in DOMAIN conts : conts[i] = "poll"}
            D == Ops({"init", "rebuild"})
            E == {i \in DOMAIN todo : todo[i].do = "end" /\ todo[i].cont # "poll"}
            F == {i \in DOMAIN conts : conts[i] # "poll"}
            a == Cardinality(A)
            b == Cardinality(B)
            c == Cardinality(C)
            d == Cardinality(D)
            e == Cardinality(E)
            f == Cardinality(F)
            T == IF pollTimer THEN 1 ELSE 0
<1>0. /\ DOMAIN queue = 1..Len(queue) /\ Len(queue) \in Nat
      /\ DOMAIN todo = 1..Len(todo) /\ Len(todo) \in Nat
      /\ DOMAIN conts = 1..Len(conts) /\ Len(conts) \in Nat
      /\ (conts = <<>> <=> Len(conts) = 0)
    BY SeqParts, EmptyIsSeq DEF IInv, Shape, QueueOK, TodoOK
<1>1. A \cup D = Polling(queue) /\ A \cap D = {} /\ Polling(queue) \subseteq 1..Len(queue)
    BY <1>0 DEF Ops, Polling
<1>2. B \cup E = Ending(todo) /\ B \cap E = {} /\ Ending(todo) \subseteq 1..Len(todo)
    BY <1>0 DEF Ending
<1>3. C \cup F = 1..Len(conts) /\ C \cap F = {}
    BY <1>0
<1>a. PollChain <=>
         (~disposed => /\ (T + strays + a + b + c) + (d + e + f) >= 1
                       /\ leaf = 1 => (T + strays + a + b + c) + (d + e + f) = 1)
    BY DEF PollChain
<1>. HIDE DEF A, B, C, D, E, F
<1>4. /\ a \in Nat /\ d \in Nat
      /\ Polling(queue) = {} => a + d = 0
      /\ Polling(queue) # {} => a + d >= 1
      /\ Polling(queue) # {} /\ Unique(Polling(queue)) => a + d = 1
    BY <1>0, <1>1, SplitCardinality
<1>5. /\ b \in Nat /\ e \in Nat
      /\ Ending(todo) = {} => b + e = 0
      /\ Ending(todo) # {} => b + e >= 1
      /\ Ending(todo) # {} /\ Unique(Ending(todo)) => b + e = 1
    BY <1>0, <1>2, SplitCardinality
<1>6. /\ c \in Nat /\ f \in Nat
      /\ 1..Len(conts) = {} => c + f = 0
      /\ 1..Len(conts) # {} => c + f >= 1
      /\ 1..Len(conts) # {} /\ Unique(1..Len(conts)) => c + f = 1
    BY <1>0, <1>3, SplitCardinality
<1>7. (1..Len(conts) = {} <=> conts = <<>>) /\ (Len(conts) <= 1 => Unique(1..Len(conts)))
    BY <1>0 DEF Unique
<1>8. Unique(Ending(todo))
    BY DEF IInv, Shape, TodoOK, Ending, Unique
<1>9. strays \in Nat /\ T \in Nat /\ (pollTimer => T = 1) /\ (~pollTimer => T = 0)
    BY DEF IInv, Shape
<1>. HIDE DEF a, b, c, d, e, f, T
<1>10. ASSUME ~disposed
       PROVE  (T + strays + a + b + c) + (d + e + f) >= 1
    <2>1. pollTimer \/ Polling(queue) # {} \/ Ending(todo) # {} \/ conts # <<>>
        BY <1>10 DEF IInv, PollInv, ChainKept
    <2>2. T >= 1 \/ a + d >= 1 \/ b + e >= 1 \/ c + f >= 1
        BY <1>4, <1>5, <1>6, <1>7, <1>9, <2>1
    <2>3. /\ T \in Nat /\ strays \in Nat /\ a \in Nat /\ b \in Nat /\ c \in Nat
          /\ d \in Nat /\ e \in Nat /\ f \in Nat
        BY <1>4, <1>5, <1>6, <1>9
    <2>. QED
        BY <2>2, <2>3
<1>11. ASSUME ~disposed, leaf = 1
       PROVE  (T + strays + a + b + c) + (d + e + f) = 1
    <2>1. OneChain /\ ChainKept
        BY <1>11 DEF IInv, PollInv
    <2>2. strays = 0
        BY <2>1 DEF OneChain
    <2>3. \/ T = 1 /\ a + d = 0 /\ b + e = 0 /\ c + f = 0
          \/ T = 0 /\ a + d = 1 /\ b + e = 0 /\ c + f = 0
          \/ T = 0 /\ a + d = 0 /\ b + e = 1 /\ c + f = 0
          \/ T = 0 /\ a + d = 0 /\ b + e = 0 /\ c + f = 1
        BY <1>4, <1>5, <1>6, <1>7, <1>8, <1>9, <2>1 DEF OneChain, ChainKept
    <2>4. /\ a \in Nat /\ b \in Nat /\ c \in Nat /\ d \in Nat /\ e \in Nat /\ f \in Nat
        BY <1>4, <1>5, <1>6
    <2>. QED
        BY <2>2, <2>3, <2>4
<1>. QED
    BY <1>a, <1>10, <1>11

\* The chain of poll timers is never broken before dispose: a timer is armed,
\* or poll, initialize or rebuild will arm one; until the first branch switch
\* there is one such chain.
THEOREM ChainUnbroken == Spec => []PollChain
<1>1. IInv => PollChain
    BY ChainCount
<1>. QED
    BY <1>1, Invariance, PTL
=============================================================================
