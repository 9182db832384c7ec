---------------------------- MODULE SessionProofs ----------------------------
(***************************************************************************)
(* Theorems about AgentSession, for every set of messages, queue mode,     *)
(* retry budget and bound: a message that was accepted is in one place,    *)
(* and a request of a run that was not aborted answers its tool calls.     *)
(***************************************************************************)
EXTENDS AgentSession, TLAPS, SequenceTheorems, FiniteSetTheorems

-----------------------------------------------------------------------------
(* The inductive invariant.                                                *)

CallType == [pc : CallStates, pf : {"none", "untracked", "alone", "behind"},
             custom : BOOLEAN, sent : BOOLEAN]
RunType == [pc : LoopStates, aborted : BOOLEAN, doomed : BOOLEAN, skip : BOOLEAN,
            pending : Seq(Msgs), more : BOOLEAN, tools : Seq(ToolStates),
            parallel : BOOLEAN, broken : BOOLEAN]
SessType == [active : BOOLEAN, review : BOOLEAN, current : Msgs \cup {None},
             answer : Answers \cup {"none"}, attempt : 0..MaxRetries, recovered : BOOLEAN,
             command : {"none", "tracked", "untracked"},
             abort : {"none", "preflights", "waiting"}, threw : BOOLEAN]

Typed ==
    /\ call \in [Msgs -> CallType]
    /\ steer \in Seq(Msgs) /\ follow \in Seq(Msgs) /\ delivered \in Seq(Msgs)
    /\ run \in RunType
    /\ last \in Kinds /\ saved \in Kinds
    /\ sess \in SessType
    /\ turns \in Nat

\* The elements of a sequence, and a sequence that has none twice.
Elems(q) == {q[i] : i \in 1..Len(q)}
Distinct(q) == \A i, j \in 1..Len(q) : q[i] = q[j] => i = j

\* The messages accepted are in the four places, no two of them the same.
Shared(a, s, f, p, d) ==
    /\ Distinct(s) /\ Distinct(f) /\ Distinct(p) /\ Distinct(d)
    /\ Elems(s) \cap Elems(f) = {} /\ Elems(s) \cap Elems(p) = {} /\ Elems(s) \cap Elems(d) = {}
    /\ Elems(f) \cap Elems(p) = {} /\ Elems(f) \cap Elems(d) = {} /\ Elems(p) \cap Elems(d) = {}
    /\ Elems(s) \cup Elems(f) \cup Elems(p) \cup Elems(d) = a

Sent(c) == {m \in Msgs : c[m].sent}
Early == {"new", "preflight", "checked"}

\* A call that has not accepted its message yet.
Unsent(c) == \A m \in Msgs : c[m].pc \in Early => ~c[m].sent

\* The loop holds messages only from a poll to the next injection.
Held(r) == r.pc \notin {"prompts", "inject"} => r.pending = <<>>

\* Past its batch a run has the results of all its calls, or was aborted, and
\* then its next request is doomed.
Done(r) == \A i \in 1..Len(r.tools) : r.tools[i] \in {"ran", "failed"}
Complete(r) ==
    /\ r.broken => r.aborted
    /\ r.pc # "tools" => r.aborted \/ Done(r)
    /\ r.pc = "stream" /\ ~r.doomed => Done(r)

Placed == Shared(Sent(call), steer, follow, run.pending, delivered)
IInv == Typed /\ Placed /\ Unsent(call) /\ Held(run) /\ Complete(run)

-----------------------------------------------------------------------------
(* Sequences without repetitions.                                          *)

\* The empty sequence.
LEMMA NoElement == Elems(<<>>) = {} /\ Distinct(<<>>)
<1>1. Len(<<>>) = 0 /\ 1..0 = {}
  OBVIOUS
<1> QED BY <1>1 DEF Elems, Distinct

\* A sequence of one message, as a run starts with.
LEMMA OneElement ==
    ASSUME NEW S, NEW m \in S
    PROVE  <<m>> \in Seq(S) /\ Elems(<<m>>) = {m} /\ Distinct(<<m>>)
<1>1. <<m>> \in Seq(S) /\ Len(<<m>>) = 1 /\ <<m>>[1] = m
  OBVIOUS
<1> QED BY <1>1 DEF Elems, Distinct

\* A message that is new to a queue, at its end.
LEMMA AppendOne ==
    ASSUME NEW S, NEW q \in Seq(S), NEW m \in S, Distinct(q), m \notin Elems(q)
    PROVE  /\ Append(q, m) \in Seq(S)
           /\ Elems(Append(q, m)) = Elems(q) \cup {m}
           /\ Distinct(Append(q, m))
<1>1. /\ Append(q, m) \in Seq(S) /\ Len(Append(q, m)) = Len(q) + 1 /\ Len(q) \in Nat
      /\ \A i \in 1..Len(q) : Append(q, m)[i] = q[i]
      /\ Append(q, m)[Len(q) + 1] = m
  OBVIOUS
<1>2. \A i \in 1..(Len(q) + 1) : i \in 1..Len(q) \/ i = Len(q) + 1
  BY <1>1
<1>3. \A i \in 1..Len(q) : i \in 1..(Len(q) + 1)
  BY <1>1
<1>4. Len(q) + 1 \in 1..(Len(q) + 1)
  BY <1>1
<1>5. Elems(Append(q, m)) = Elems(q) \cup {m}
  BY <1>1, <1>2, <1>3, <1>4 DEF Elems
<1>6. Distinct(Append(q, m))
  BY <1>1, <1>2 DEF Elems, Distinct
<1> QED BY <1>1, <1>5, <1>6

\* Two sequences that share no message, one after the other.
LEMMA ConcatDistinct ==
    ASSUME NEW S, NEW p \in Seq(S), NEW q \in Seq(S),
           Distinct(p), Distinct(q), Elems(p) \cap Elems(q) = {}
    PROVE  /\ p \o q \in Seq(S)
           /\ Elems(p \o q) = Elems(p) \cup Elems(q)
           /\ Distinct(p \o q)
<1> DEFINE n == Len(p)
           k == Len(q)
           r == p \o q
<1>1. /\ r \in Seq(S) /\ Len(r) = n + k /\ n \in Nat /\ k \in Nat
      /\ \A i \in 1..n : r[i] = p[i]
  OBVIOUS
<1>2. \A i \in 1..(n + k) : i \in 1..n \/ (i - n \in 1..k /\ r[i] = q[i - n])
  <2> TAKE i \in 1..(n + k)
  <2>1. r[i] = IF i <= n THEN p[i] ELSE q[i - n]
    OBVIOUS
  <2> QED BY <1>1, <2>1
<1>3. \A j \in 1..k : n + j \in 1..(n + k) /\ r[n + j] = q[j]
  OBVIOUS
<1>4. \A i \in 1..n : i \in 1..(n + k)
  BY <1>1
<1> HIDE DEF r
<1>5. Elems(r) = Elems(p) \cup Elems(q)
  <2>1. \A i \in 1..(n + k) : r[i] \in Elems(p) \cup Elems(q)
    BY <1>1, <1>2 DEF Elems
  <2>2. Elems(p) \subseteq Elems(r)
    BY <1>1, <1>4 DEF Elems
  <2>3. Elems(q) \subseteq Elems(r)
    BY <1>1, <1>3 DEF Elems
  <2> QED BY <1>1, <2>1, <2>2, <2>3 DEF Elems
<1>6. Distinct(r)
  <2> SUFFICES ASSUME NEW i \in 1..(n + k), NEW j \in 1..(n + k), r[i] = r[j] PROVE i = j
    BY <1>1 DEF Distinct
  <2>1. CASE i \in 1..n /\ j \in 1..n
    BY <1>1, <2>1 DEF Distinct
  <2>2. CASE i \in 1..n /\ j - n \in 1..k /\ r[j] = q[j - n]
    BY <1>1, <2>2 DEF Elems
  <2>3. CASE j \in 1..n /\ i - n \in 1..k /\ r[i] = q[i - n]
    BY <1>1, <2>3 DEF Elems
  <2>4. CASE i - n \in 1..k /\ j - n \in 1..k /\ r[i] = q[i - n] /\ r[j] = q[j - n]
    <3>1. i - n = j - n
      BY <2>4 DEF Distinct
    <3> QED BY <1>1, <3>1
  <2> QED BY <1>2, <2>1, <2>2, <2>3, <2>4
<1> QED BY <1>1, <1>5, <1>6 DEF r

\* drain() splits a queue.
LEMMA TakenRest ==
    ASSUME NEW S, NEW q \in Seq(S), Distinct(q)
    PROVE  /\ Taken(q) \in Seq(S) /\ Rest(q) \in Seq(S)
           /\ Distinct(Taken(q)) /\ Distinct(Rest(q))
           /\ Elems(Taken(q)) \cap Elems(Rest(q)) = {}
           /\ Elems(Taken(q)) \cup Elems(Rest(q)) = Elems(q)
<1>1. CASE QueueMode = "all" \/ q = <<>>
  <2>1. Taken(q) = q
    BY <1>1 DEF Taken
  <2>2. Rest(q) = SubSeq(q, Len(q) + 1, Len(q)) /\ Len(q) \in Nat
    BY <2>1 DEF Rest
  <2>3. Rest(q) \in Seq(S) /\ Len(Rest(q)) = 0
    BY <2>2
  <2>4. Rest(q) = <<>>
    BY <2>3
  <2> QED BY <2>1, <2>3, <2>4, NoElement
<1>2. CASE ~(QueueMode = "all" \/ q = <<>>)
  <2>1. Taken(q) = <<q[1]>> /\ Len(q) \in Nat \ {0} /\ q[1] \in S
    BY <1>2 DEF Taken
  <2>2. Len(Taken(q)) = 1
    BY <2>1
  <2>3. Rest(q) = SubSeq(q, 2, Len(q))
    BY <2>2 DEF Rest
  <2>4. /\ Rest(q) \in Seq(S) /\ Len(Rest(q)) = Len(q) - 1
        /\ \A i \in 1..(Len(q) - 1) : Rest(q)[i] = q[i + 1]
    BY <2>1, <2>3
  <2>5. Taken(q) \in Seq(S) /\ Elems(Taken(q)) = {q[1]} /\ Distinct(Taken(q))
    BY <2>1, OneElement
  <2>6. Distinct(Rest(q))
    BY <2>1, <2>4 DEF Distinct
  <2>7. \A i \in 1..(Len(q) - 1) : i + 1 \in 1..Len(q) /\ i + 1 # 1
    BY <2>1
  <2>8. q[1] \notin Elems(Rest(q))
    BY <2>1, <2>4, <2>7 DEF Distinct, Elems
  <2>9. Elems(q) \subseteq Elems(Rest(q)) \cup {q[1]}
    <3> SUFFICES ASSUME NEW i \in 1..Len(q), i # 1 PROVE q[i] \in Elems(Rest(q))
      BY DEF Elems
    <3>1. i - 1 \in 1..(Len(q) - 1) /\ Rest(q)[i - 1] = q[i]
      BY <2>1, <2>4
    <3> QED BY <2>4, <3>1 DEF Elems
  <2>10. Elems(Rest(q)) \cup {q[1]} \subseteq Elems(q)
    BY <2>1, <2>4, <2>7 DEF Elems
  <2> QED BY <2>4, <2>5, <2>6, <2>8, <2>9, <2>10
<1> QED BY <1>1, <1>2

-----------------------------------------------------------------------------
(* Calls and runs.                                                         *)

\* A step that accepts no message.
CallsKept ==
    call' \in [Msgs -> CallType] /\ Sent(call') = Sent(call) /\ Unsent(call')

\* A call that changes without accepting its message.
LEMMA CallChanges ==
    ASSUME Typed, Unsent(call), NEW m \in Msgs, NEW c \in CallType, c.sent = call[m].sent,
           c.pc \in Early => call[m].pc \in Early, call' = [call EXCEPT ![m] = c]
    PROVE  CallsKept
<1>1. call \in [Msgs -> CallType]
  BY DEF Typed
<1>2. /\ call' \in [Msgs -> CallType]
      /\ \A n \in Msgs : n # m => call'[n] = call[n]
      /\ call'[m] = c
  BY <1>1
<1>3. \A n \in Msgs : call'[n].sent = call[n].sent
  BY <1>2
<1> QED BY <1>2, <1>3 DEF CallsKept, Sent, Unsent

\* A call that moves on, or leaves its preflight.
LEMMA CallMoves ==
    ASSUME Typed, Unsent(call), NEW m \in Msgs, NEW pc \in CallStates,
           pc \in Early => call[m].pc \in Early,
           \/ call' = [call EXCEPT ![m] = Left(@, pc)]
           \/ call' = [call EXCEPT ![m].pc = pc]
    PROVE  CallsKept
<1> DEFINE c == call[m]
           c1 == [c EXCEPT !.pc = pc]
           c2 == [c1 EXCEPT !.pf = "none"]
<1>1. c \in CallType
  BY DEF Typed
<1>2. c1 \in CallType /\ c1.sent = c.sent /\ c1.pc = pc
  BY <1>1 DEF CallType
<1>3. c2 \in CallType /\ c2.sent = c.sent /\ c2.pc = pc
  BY <1>1 DEF CallType
<1>4. Left(c, pc) = c2
  BY <1>1 DEF Left, CallType
<1>5. call' = [call EXCEPT ![m] = c1] \/ call' = [call EXCEPT ![m] = c2]
  BY <1>4
<1> HIDE DEF c1, c2
<1> QED BY <1>2, <1>3, <1>5, CallChanges

\* A call that accepts its message.
LEMMA CallSends ==
    ASSUME Typed, Unsent(call), NEW m \in Msgs, call[m].pc \in Early, NEW c \in CallType,
           c.pc \notin Early, c.sent, call' = [call EXCEPT ![m] = c]
    PROVE  /\ call' \in [Msgs -> CallType] /\ Unsent(call')
           /\ Sent(call') = Sent(call) \cup {m} /\ m \notin Sent(call)
<1>1. call \in [Msgs -> CallType]
  BY DEF Typed
<1>2. /\ call' \in [Msgs -> CallType]
      /\ \A n \in Msgs : n # m => call'[n] = call[n]
      /\ call'[m] = c
  BY <1>1
<1> QED BY <1>2 DEF Sent, Unsent

\* Letting abort() return keeps the session's types.
LEMMA SessResolved ==
    ASSUME NEW s \in SessType
    PROVE  IdleResolved(s) \in SessType
BY DEF IdleResolved, SessType

\* A new run holds its messages and no tool calls.
LEMMA RunTyped ==
    ASSUME NEW msgs \in Seq(Msgs), NEW skip \in BOOLEAN
    PROVE  /\ Run(msgs, skip) \in RunType
           /\ Run(msgs, skip).pending = msgs
           /\ Held(Run(msgs, skip)) /\ Complete(Run(msgs, skip))
<1> DEFINE r == Run(msgs, skip)
<1>1. r \in RunType /\ r.pending = msgs /\ r.pc = "prompts" /\ r.broken = FALSE /\ r.tools = <<>>
  BY DEF Run, RunType, LoopStates
<1>2. Done(r)
  BY <1>1 DEF Done
<1> QED BY <1>1, <1>2 DEF Held, Complete

\* No run holds nothing.
LEMMA NoRunTyped ==
    /\ NoRun \in RunType /\ NoRun.pending = <<>> /\ Held(NoRun) /\ Complete(NoRun)
<1>1. /\ NoRun \in RunType /\ NoRun.pending = <<>> /\ NoRun.pc = "none" /\ NoRun.broken = FALSE
      /\ NoRun.tools = <<>>
  <2> DEFINE r == Run(<<>>, FALSE)
  <2>1. r \in RunType /\ r.pending = <<>> /\ r.broken = FALSE /\ r.tools = <<>>
    BY DEF Run, RunType, LoopStates
  <2>2. NoRun = [r EXCEPT !.pc = "none"]
    BY DEF NoRun
  <2> HIDE DEF r
  <2> QED BY <2>1, <2>2 DEF RunType, LoopStates
<1>2. Done(NoRun)
  BY <1>1 DEF Done
<1> QED BY <1>1, <1>2 DEF Held, Complete

-----------------------------------------------------------------------------
(* The parts of a run that the actions share.                              *)

\* What such a part makes of the state.
Post ==
    /\ call' \in [Msgs -> CallType] /\ Unsent(call')
    /\ steer' \in Seq(Msgs) /\ follow' \in Seq(Msgs)
    /\ run' \in RunType /\ Held(run') /\ Complete(run')
    /\ sess' \in SessType
    /\ Shared(Sent(call'), steer', follow', run'.pending, delivered)

\* A step that keeps queues and run.
LEMMA CallPost ==
    ASSUME IInv, CallsKept, sess' \in SessType, UNCHANGED <<run, steer, follow>>
    PROVE  Post
BY DEF IInv, Typed, Placed, CallsKept, Post

\* The finally block of a run accepts nothing.
LEMMA FinishKeeps ==
    ASSUME IInv, NEW m \in Msgs, NEW s \in SessType, Finish(m, s)
    PROVE  CallsKept /\ sess' \in SessType
<1>1. Typed /\ Unsent(call)
  BY DEF IInv
<1>2. sess' \in SessType
  BY DEF Finish, SessType
<1>3. PICK pc \in {"settling", "over"} : call' = [call EXCEPT ![m] = Left(@, pc)]
  BY DEF Finish
<1>4. pc \in CallStates /\ pc \notin Early
  BY DEF CallStates, Early
<1> QED BY <1>1, <1>2, <1>3, <1>4, CallMoves

\* Agent.prompt takes its message into the new run, or refuses it.
LEMMA RunPromptKeeps ==
    ASSUME IInv, NEW m \in Msgs, NEW s \in SessType, call[m].pc \in Early,
           RunPrompt(m, s), UNCHANGED <<steer, follow>>
    PROVE  Post
<1>1. Typed /\ Unsent(call) /\ Placed /\ Held(run)
  BY DEF IInv
<1>2. CASE run.pc = "none"
  <2>1. /\ run' = Run(<<m>>, FALSE)
        /\ call' = [call EXCEPT ![m] = [Left(@, "running") EXCEPT !.sent = TRUE]]
        /\ sess' = [s EXCEPT !.active = TRUE, !.current = m]
    BY <1>2 DEF RunPrompt
  <2>2. sess' \in SessType
    BY <2>1 DEF SessType
  <2> DEFINE c == [Left(call[m], "running") EXCEPT !.sent = TRUE]
  <2>3. c \in CallType /\ c.pc \notin Early /\ c.sent
    BY <1>1 DEF Typed, CallType, CallStates, Early, Left
  <2>4. call' = [call EXCEPT ![m] = c]
    BY <2>1
  <2> HIDE DEF c
  <2>5. /\ call' \in [Msgs -> CallType] /\ Unsent(call')
        /\ Sent(call') = Sent(call) \cup {m} /\ m \notin Sent(call)
    BY <1>1, <2>3, <2>4, CallSends
  <2>6. <<m>> \in Seq(Msgs) /\ Elems(<<m>>) = {m} /\ Distinct(<<m>>)
    BY OneElement
  <2>7. run' \in RunType /\ run'.pending = <<m>> /\ Held(run') /\ Complete(run')
    BY <2>1, <2>6, RunTyped
  <2>8. Elems(run.pending) = {}
    BY <1>1, <1>2, NoElement DEF Held
  <2>9. Shared(Sent(call'), steer, follow, <<m>>, delivered)
    BY <1>1, <2>5, <2>6, <2>8 DEF Placed, Shared
  <2> QED BY <1>1, <2>2, <2>5, <2>7, <2>9 DEF Post, Typed
<1>3. CASE run.pc # "none"
  <2> DEFINE s2 == [s EXCEPT !.current = m]
  <2>1. s2 \in SessType
    BY DEF SessType
  <2>2. Finish(m, s2) /\ UNCHANGED run
    BY <1>3 DEF RunPrompt
  <2> HIDE DEF s2
  <2> QED BY <2>1, <2>2, FinishKeeps, CallPost
<1> QED BY <1>2, <1>3

\* Agent.continue moves what it drains from a queue into the new run.
LEMMA ContinueKeeps ==
    ASSUME IInv, NEW m \in Msgs, NEW s \in SessType, NEW l, Continue(m, s, l)
    PROVE  Post
<1>1. Typed /\ Unsent(call) /\ Placed /\ Held(run)
  BY DEF IInv
<1> DEFINE assistant == l \in {"answer", "failed"}
           refused == \/ run.pc # "none" \/ l = "none"
                      \/ assistant /\ steer = <<>> /\ follow = <<>>
           s2 == [s EXCEPT !.threw = TRUE]
<1>2. CASE refused
  <2>1. s2 \in SessType
    BY DEF SessType
  <2>2. Finish(m, s2) /\ UNCHANGED <<run, steer, follow>>
    BY <1>2 DEF Continue
  <2> HIDE DEF s2
  <2> QED BY <2>1, <2>2, FinishKeeps, CallPost
<1>3. CASE ~refused
  <2>1. /\ run.pc = "none" /\ call' = [call EXCEPT ![m].pc = "running"] /\ sess' = s
        /\ \/ run' = Run(Taken(steer), TRUE) /\ steer' = Rest(steer) /\ UNCHANGED follow
           \/ run' = Run(Taken(follow), FALSE) /\ follow' = Rest(follow) /\ UNCHANGED steer
           \/ run' = Run(<<>>, FALSE) /\ UNCHANGED <<steer, follow>>
    BY <1>3 DEF Continue
  <2>2. CallsKept
    <3>1. "running" \in CallStates /\ "running" \notin Early
      BY DEF CallStates, Early
    <3> QED BY <1>1, <2>1, <3>1, CallMoves
  <2>3. Elems(run.pending) = {}
    BY <1>1, <2>1, NoElement DEF Held
  <2>4. steer \in Seq(Msgs) /\ follow \in Seq(Msgs) /\ Distinct(steer) /\ Distinct(follow)
    BY <1>1 DEF Typed, Placed, Shared
  <2>5. CASE run' = Run(Taken(steer), TRUE) /\ steer' = Rest(steer) /\ UNCHANGED follow
    <3>1. /\ Taken(steer) \in Seq(Msgs) /\ Rest(steer) \in Seq(Msgs)
          /\ Distinct(Taken(steer)) /\ Distinct(Rest(steer))
          /\ Elems(Taken(steer)) \cap Elems(Rest(steer)) = {}
          /\ Elems(Taken(steer)) \cup Elems(Rest(steer)) = Elems(steer)
      BY <2>4, TakenRest
    <3>2. Shared(Sent(call), Rest(steer), follow, Taken(steer), delivered)
      BY <1>1, <2>3, <3>1 DEF Placed, Shared
    <3>3. run' \in RunType /\ run'.pending = Taken(steer) /\ Held(run') /\ Complete(run')
      BY <2>5, <3>1, RunTyped
    <3> QED BY <2>1, <2>2, <2>4, <2>5, <3>1, <3>2, <3>3 DEF Post, CallsKept
  <2>6. CASE run' = Run(Taken(follow), FALSE) /\ follow' = Rest(follow) /\ UNCHANGED steer
    <3>1. /\ Taken(follow) \in Seq(Msgs) /\ Rest(follow) \in Seq(Msgs)
          /\ Distinct(Taken(follow)) /\ Distinct(Rest(follow))
          /\ Elems(Taken(follow)) \cap Elems(Rest(follow)) = {}
          /\ Elems(Taken(follow)) \cup Elems(Rest(follow)) = Elems(follow)
      BY <2>4, TakenRest
    <3>2. Shared(Sent(call), steer, Rest(follow), Taken(follow), delivered)
      BY <1>1, <2>3, <3>1 DEF Placed, Shared
    <3>3. run' \in RunType /\ run'.pending = Taken(follow) /\ Held(run') /\ Complete(run')
      BY <2>6, <3>1, RunTyped
    <3> QED BY <2>1, <2>2, <2>4, <2>6, <3>1, <3>2, <3>3 DEF Post, CallsKept
  <2>7. CASE run' = Run(<<>>, FALSE) /\ UNCHANGED <<steer, follow>>
    <3>1. <<>> \in Seq(Msgs)
      OBVIOUS
    <3>2. run' \in RunType /\ run'.pending = <<>> /\ Held(run') /\ Complete(run')
      BY <2>7, <3>1, RunTyped
    <3>3. run.pending = <<>>
      BY <1>1, <2>1 DEF Held
    <3> QED BY <1>1, <2>1, <2>2, <2>4, <2>7, <3>2, <3>3 DEF Post, CallsKept, Placed
  <2> QED BY <2>1, <2>5, <2>6, <2>7
<1> QED BY <1>2, <1>3

\* What follows a run: a continuation or its end.
LEMMA DecideKeeps ==
    ASSUME IInv, NEW m \in Msgs, NEW s \in SessType, NEW l, Decide(m, s, l)
    PROVE  Post
<1>1. CASE Continue(m, s, l)
  BY <1>1, ContinueKeeps
<1>2. CASE Finish(m, s) /\ UNCHANGED <<run, steer, follow>>
  BY <1>2, FinishKeeps, CallPost
<1> QED BY <1>1, <1>2 DEF Decide

\* A run that waits for a backoff or a compaction.
LEMMA SuspendedKeeps ==
    ASSUME IInv, NEW m \in Msgs, NEW s \in SessType, NEW pc \in CallStates \ Early,
           Suspended(m, pc, s)
    PROVE  Post
<1>1. Typed /\ Unsent(call)
  BY DEF IInv
<1>2. CallsKept
  BY <1>1, CallMoves DEF Suspended
<1> QED BY <1>2, CallPost DEF Suspended

\* A message that is accepted into one of the queues.
LEMMA QueuedKeeps ==
    ASSUME IInv, NEW m \in Msgs, m \notin Sent(call), sess' \in SessType,
           call' \in [Msgs -> CallType], Unsent(call'), Sent(call') = Sent(call) \cup {m},
           \/ steer' = Append(steer, m) /\ UNCHANGED follow
           \/ follow' = Append(follow, m) /\ UNCHANGED steer,
           UNCHANGED run
    PROVE  Post
<1>1. /\ steer \in Seq(Msgs) /\ follow \in Seq(Msgs) /\ run \in RunType
      /\ Held(run) /\ Complete(run)
      /\ Shared(Sent(call), steer, follow, run.pending, delivered)
  BY DEF IInv, Typed, Placed
<1>2. /\ Distinct(steer) /\ m \notin Elems(steer) /\ Distinct(follow) /\ m \notin Elems(follow)
      /\ m \notin Elems(run.pending) /\ m \notin Elems(delivered)
  BY <1>1 DEF Shared
<1>3. CASE steer' = Append(steer, m) /\ UNCHANGED follow
  <2>1. /\ steer' \in Seq(Msgs) /\ Elems(steer') = Elems(steer) \cup {m} /\ Distinct(steer')
    BY <1>1, <1>2, <1>3, AppendOne
  <2>2. Shared(Sent(call'), steer', follow, run.pending, delivered)
    BY <1>1, <1>2, <2>1 DEF Shared
  <2> QED BY <1>1, <1>3, <2>1, <2>2 DEF Post
<1>4. CASE follow' = Append(follow, m) /\ UNCHANGED steer
  <2>1. /\ follow' \in Seq(Msgs) /\ Elems(follow') = Elems(follow) \cup {m} /\ Distinct(follow')
    BY <1>1, <1>2, <1>4, AppendOne
  <2>2. Shared(Sent(call'), steer, follow', run.pending, delivered)
    BY <1>1, <1>2, <2>1 DEF Shared
  <2> QED BY <1>1, <1>4, <2>1, <2>2 DEF Post
<1> QED BY <1>3, <1>4

-----------------------------------------------------------------------------
(* prompt() and sendCustomMessage().                                       *)

\* The rest of an action that is made of such parts.
LEMMA PostInv ==
    ASSUME IInv, Post, UNCHANGED delivered, last' \in Kinds, saved' \in Kinds, turns' \in Nat
    PROVE  IInv'
BY DEF IInv, Typed, Placed, Post

\* prompt() begins its preflight.
LEMMA PromptKeeps ==
    ASSUME IInv, NEW m \in Msgs, Prompt(m)
    PROVE  IInv'
<1>1. Typed /\ Unsent(call) /\ call[m].pc = "new"
  BY DEF IInv, Prompt
<1>2. PICK pf \in {"untracked", "behind", "alone"} :
        call' = [call EXCEPT ![m].pc = "preflight", ![m].pf = pf]
  BY DEF Prompt
<1> DEFINE c == [call[m] EXCEPT !.pc = "preflight", !.pf = pf]
<1>3. c \in CallType /\ c.sent = call[m].sent /\ call[m].pc \in Early
  BY <1>1 DEF Typed, CallType, CallStates, Early
<1>4. call' = [call EXCEPT ![m] = c]
  BY <1>1, <1>2 DEF Typed
<1> HIDE DEF c
<1>5. CallsKept
  BY <1>1, <1>3, <1>4, CallChanges
<1> QED BY <1>1, <1>5, CallPost, PostInv DEF Prompt, Typed

\* The input handlers answered: the message goes on, is refused or is queued.
LEMMA PromptCheckedKeeps ==
    ASSUME IInv, NEW m \in Msgs, PromptChecked(m)
    PROVE  IInv'
<1>1. /\ Typed /\ Unsent(call) /\ call[m].pc = "preflight" /\ call[m].pc \in Early
      /\ sess \in SessType
  BY DEF IInv, PromptChecked, Early, Typed
<1>2. IdleResolved(sess) \in SessType
  BY <1>1, SessResolved
<1>3. Post
  <2>1. CASE call' = [call EXCEPT ![m].pc = "checked"] /\ UNCHANGED <<steer, follow, sess>>
    <3>1. "checked" \in CallStates
      BY DEF CallStates
    <3>2. CallsKept
      BY <1>1, <2>1, <3>1, CallMoves
    <3> QED BY <1>1, <2>1, <3>2, CallPost DEF PromptChecked
  <2>2. CASE /\ sess' = IdleResolved(sess)
             /\ call' = [call EXCEPT ![m] = Left(@, "refused")]
             /\ UNCHANGED <<steer, follow>>
    <3>1. "refused" \in CallStates /\ "refused" \notin Early
      BY DEF CallStates, Early
    <3>2. CallsKept
      BY <1>1, <2>2, <3>1, CallMoves
    <3> QED BY <1>2, <2>2, <3>2, CallPost DEF PromptChecked
  <2>3. CASE /\ sess' = IdleResolved(sess)
             /\ call' = [call EXCEPT ![m] = [Left(@, "queued") EXCEPT !.sent = TRUE]]
             /\ \/ steer' = Append(steer, m) /\ UNCHANGED follow
                \/ follow' = Append(follow, m) /\ UNCHANGED steer
    <3> DEFINE c == [Left(call[m], "queued") EXCEPT !.sent = TRUE]
    <3>1. c \in CallType /\ c.pc \notin Early /\ c.sent
      BY <1>1 DEF Typed, CallType, CallStates, Early, Left
    <3>2. call' = [call EXCEPT ![m] = c]
      BY <2>3
    <3> HIDE DEF c
    <3>3. /\ call' \in [Msgs -> CallType] /\ Unsent(call')
          /\ Sent(call') = Sent(call) \cup {m} /\ m \notin Sent(call)
      BY <1>1, <3>1, <3>2, CallSends
    <3> QED BY <1>2, <2>3, <3>3, QueuedKeeps DEF PromptChecked
  <2> QED BY <2>1, <2>2, <2>3 DEF PromptChecked
<1> QED BY <1>1, <1>3, PostInv DEF PromptChecked, Typed

\* A preflight that ends without its message.
LEMMA PromptRefusedKeeps ==
    ASSUME IInv, NEW m \in Msgs, PromptRefused(m)
    PROVE  IInv'
<1>1. Typed /\ Unsent(call) /\ sess \in SessType
  BY DEF IInv, Typed
<1>2. sess' \in SessType
  BY <1>1, SessResolved DEF PromptRefused
<1>3. "refused" \in CallStates /\ "refused" \notin Early
  BY DEF CallStates, Early
<1>4. CallsKept
  BY <1>1, <1>3, CallMoves DEF PromptRefused
<1> QED BY <1>1, <1>2, <1>4, CallPost, PostInv DEF PromptRefused, Typed

\* The preflight is over and the run starts.
LEMMA PromptRunsKeeps ==
    ASSUME IInv, NEW m \in Msgs, PromptRuns(m)
    PROVE  IInv'
<1>1. Typed /\ sess \in SessType /\ call[m].pc \in Early
  BY DEF IInv, Typed, PromptRuns, Early
<1>2. IdleResolved(sess) \in SessType
  BY <1>1, SessResolved
<1>3. Post
  BY <1>1, <1>2, RunPromptKeeps DEF PromptRuns
<1> QED BY <1>1, <1>3, PostInv DEF PromptRuns, Typed

\* A custom message is queued or starts a run.
LEMMA CustomMessageKeeps ==
    ASSUME IInv, NEW m \in Msgs, CustomMessage(m)
    PROVE  IInv'
<1>1. Typed /\ Unsent(call) /\ sess \in SessType /\ call[m].pc \in Early
  BY DEF IInv, Typed, CustomMessage, Early
<1>2. CASE IsStreaming
  <2> DEFINE c == [call[m] EXCEPT !.pc = "queued", !.custom = TRUE, !.sent = TRUE]
  <2>1. c \in CallType /\ c.pc \notin Early /\ c.sent
    BY <1>1 DEF Typed, CallType, CallStates, Early
  <2>2. call' = [call EXCEPT ![m] = c]
    BY <1>1, <1>2 DEF CustomMessage, Typed
  <2> HIDE DEF c
  <2>3. /\ call' \in [Msgs -> CallType] /\ Unsent(call')
        /\ Sent(call') = Sent(call) \cup {m} /\ m \notin Sent(call)
    BY <1>1, <2>1, <2>2, CallSends
  <2>4. Post
    BY <1>1, <1>2, <2>3, QueuedKeeps DEF CustomMessage
  <2> QED BY <1>1, <2>4, PostInv DEF CustomMessage, Typed
<1>3. CASE ~IsStreaming
  <2>1. Post
    BY <1>1, <1>3, RunPromptKeeps DEF CustomMessage
  <2> QED BY <1>1, <2>1, PostInv DEF CustomMessage, Typed
<1> QED BY <1>2, <1>3

\* The messages that go back to the editor were in a queue and nowhere else.
LEMMA ClearQueueKeeps ==
    ASSUME IInv, ClearQueue
    PROVE  IInv'
<1>1. /\ call \in [Msgs -> CallType] /\ Unsent(call) /\ steer \in Seq(Msgs) /\ follow \in Seq(Msgs)
      /\ Shared(Sent(call), steer, follow, run.pending, delivered)
      /\ Typed /\ Held(run) /\ Complete(run)
  BY DEF IInv, Typed, Placed
<1> DEFINE Q == Elems(steer) \cup Elems(follow)
<1>2. \A m \in Msgs : (\E q \in {steer, follow} : \E i \in DOMAIN q : q[i] = m) <=> m \in Q
  BY <1>1 DEF Elems
<1>3. call' = [m \in Msgs |-> IF m \in Q THEN [call[m] EXCEPT !.pc = "cleared", !.sent = FALSE]
                              ELSE call[m]]
  BY <1>2 DEF ClearQueue
<1>4. \A m \in Msgs : /\ call'[m] \in CallType
                      /\ m \in Q => ~call'[m].sent
                      /\ m \notin Q => call'[m] = call[m]
  <2> TAKE m \in Msgs
  <2> DEFINE c == [call[m] EXCEPT !.pc = "cleared", !.sent = FALSE]
  <2>1. c \in CallType /\ ~c.sent
    BY <1>1 DEF CallType, CallStates
  <2>2. call'[m] = IF m \in Q THEN c ELSE call[m]
    BY <1>3
  <2> HIDE DEF c, Q
  <2> QED BY <1>1, <2>1, <2>2
<1> HIDE DEF Q
<1>5. call' \in [Msgs -> CallType]
  BY <1>3, <1>4
<1>6. Unsent(call')
  BY <1>1, <1>4 DEF Unsent
<1>7. Sent(call') = Sent(call) \ Q
  BY <1>4 DEF Sent
<1>8. Shared(Sent(call'), <<>>, <<>>, run.pending, delivered)
  BY <1>1, <1>7, NoElement DEF Shared, Q
<1>9. <<>> \in Seq(Msgs)
  OBVIOUS
<1>10. Post
  BY <1>1, <1>5, <1>6, <1>8, <1>9 DEF Post, ClearQueue, Typed
<1> QED BY <1>1, <1>10, PostInv DEF ClearQueue, Typed

-----------------------------------------------------------------------------
(* Commands, reload and abort.                                             *)

\* A step on the session's flags alone.
LEMMA FlagsInv ==
    ASSUME IInv, sess' \in SessType,
           UNCHANGED <<call, steer, follow, delivered, run, last, saved, turns>>
    PROVE  IInv'
BY DEF IInv, Typed, Placed

\* Commands and reload() touch the flags only.
LEMMA CommandKeeps ==
    ASSUME IInv, CommandStarts \/ CommandEnds \/ Reload
    PROVE  IInv'
<1>1. sess \in SessType
  BY DEF IInv, Typed
<1>2. CASE CommandStarts
  <2>1. sess' \in SessType
    BY <1>1, <1>2 DEF CommandStarts, SessType
  <2> QED BY <1>2, <2>1, FlagsInv DEF CommandStarts
<1>3. CASE CommandEnds
  <2> DEFINE s == [sess EXCEPT !.command = "none"]
  <2>1. s \in SessType
    BY <1>1 DEF SessType
  <2>2. sess' = s \/ sess' = IdleResolved(s)
    BY <1>3 DEF CommandEnds
  <2> HIDE DEF s
  <2>3. sess' \in SessType
    BY <2>1, <2>2, SessResolved
  <2> QED BY <1>3, <2>3, FlagsInv DEF CommandEnds
<1>4. CASE Reload
  <2>1. sess' \in SessType
    BY <1>1, <1>4 DEF Reload, SessType
  <2> QED BY <1>4, <2>1, FlagsInv DEF Reload
<1> QED BY <1>2, <1>3, <1>4

\* agent.abort() takes nothing from the run.
LEMMA AbortedRun ==
    ASSUME run \in RunType, Held(run), Complete(run)
    PROVE  /\ Aborted(run) \in RunType /\ Aborted(run).pending = run.pending
           /\ Held(Aborted(run)) /\ Complete(Aborted(run))
<1> DEFINE r == [run EXCEPT !.aborted = TRUE]
<1>1. /\ r \in RunType /\ r.pending = run.pending /\ r.pc = run.pc /\ r.doomed = run.doomed
      /\ r.aborted /\ r.tools = run.tools
  BY DEF RunType
<1>2. Aborted(run) = run \/ Aborted(run) = r
  BY DEF Aborted
<1> HIDE DEF r
<1>3. Held(r) /\ Complete(r)
  BY <1>1 DEF Held, Complete, Done
<1> QED BY <1>1, <1>2, <1>3

\* abort(), at once and again after the preflights.
LEMMA AbortKeeps ==
    ASSUME IInv, Abort \/ AbortAgain
    PROVE  IInv'
<1>1. /\ Typed /\ sess \in SessType /\ run \in RunType /\ Held(run) /\ Complete(run)
      /\ call \in [Msgs -> CallType] /\ Unsent(call) /\ Placed
  BY DEF IInv, Typed
<1>2. run' = Aborted(run)
  BY DEF Abort, AbortAgain
<1>3. run' \in RunType /\ run'.pending = run.pending /\ Held(run') /\ Complete(run')
  BY <1>1, <1>2, AbortedRun
<1>4. sess' \in SessType
  BY <1>1 DEF Abort, AbortAgain, AfterPreflights, SessType
<1>5. CallsKept
  <2>1. CASE Abort
    <3>1. \A m \in Msgs : /\ call'[m] \in CallType /\ call'[m].sent = call[m].sent
                          /\ call'[m].pc = call[m].pc \/ call'[m].pc = "interrupted"
      <4> TAKE m \in Msgs
      <4> DEFINE c == [call[m] EXCEPT !.pc = "interrupted"]
      <4>1. c \in CallType /\ c.sent = call[m].sent /\ c.pc = "interrupted"
        BY <1>1 DEF CallType, CallStates
      <4>2. call'[m] = c \/ call'[m] = call[m]
        BY <2>1 DEF Abort
      <4> HIDE DEF c
      <4> QED BY <1>1, <4>1, <4>2
    <3>2. call' \in [Msgs -> CallType]
      BY <2>1, <3>1 DEF Abort
    <3> QED BY <1>1, <3>1, <3>2 DEF CallsKept, Sent, Unsent, Early
  <2>2. CASE AbortAgain
    BY <1>1, <2>2 DEF AbortAgain, CallsKept
  <2> QED BY <2>1, <2>2
<1>6. UNCHANGED <<steer, follow, delivered, last, saved, turns>>
  BY DEF Abort, AbortAgain
<1>7. Post
  BY <1>1, <1>3, <1>4, <1>5, <1>6 DEF Post, CallsKept, Placed, Typed
<1> QED BY <1>1, <1>6, <1>7, PostInv DEF Typed

-----------------------------------------------------------------------------
(* The agent loop.                                                         *)

\* A step of the loop that moves no message.
LEMMA LoopInv ==
    ASSUME IInv, run' \in RunType, Held(run'), Complete(run'), run'.pending = run.pending,
           sess' \in SessType, last' \in Kinds, saved' \in Kinds, turns' \in Nat,
           UNCHANGED <<call, steer, follow, delivered>>
    PROVE  IInv'
BY DEF IInv, Typed, Placed

\* The pending messages enter the transcript, and a request after an abort is
\* doomed.
LEMMA InjectedKeeps ==
    ASSUME IInv, NEW pc \in {"poll", "stream"}, run.pc \in {"prompts", "inject"}, Injected(pc)
    PROVE  IInv'
<1>1. /\ Typed /\ run \in RunType /\ Complete(run) /\ Unsent(call)
      /\ Shared(Sent(call), steer, follow, run.pending, delivered)
      /\ run.pending \in Seq(Msgs) /\ delivered \in Seq(Msgs)
  BY DEF IInv, Typed, Placed, RunType
<1>2. /\ delivered' \in Seq(Msgs) /\ Distinct(delivered')
      /\ Elems(delivered') = Elems(delivered) \cup Elems(run.pending)
  <2>1. delivered' = delivered \o run.pending
    BY DEF Injected
  <2>2. /\ Distinct(delivered) /\ Distinct(run.pending)
        /\ Elems(delivered) \cap Elems(run.pending) = {}
    BY <1>1 DEF Shared
  <2> QED BY <1>1, <2>1, <2>2, ConcatDistinct
<1>3. /\ run' \in RunType /\ run'.pc = pc /\ run'.pending = <<>> /\ run'.doomed = run.aborted
      /\ run'.aborted = run.aborted /\ run'.tools = run.tools /\ run'.broken = run.broken
  <2>1. <<>> \in Seq(Msgs) /\ pc \in LoopStates
    BY DEF LoopStates
  <2>2. run' = [run EXCEPT !.pc = pc, !.pending = <<>>, !.doomed = run.aborted]
    BY DEF Injected
  <2> QED BY <1>1, <2>1, <2>2 DEF RunType
<1>4. Held(run')
  BY <1>3 DEF Held
<1>5. Complete(run')
  BY <1>1, <1>3 DEF Complete, Done
<1>6. sess' \in SessType
  BY <1>1 DEF Injected, Received, Typed, SessType
<1>7. last' \in Kinds /\ saved' \in Kinds
  BY <1>1 DEF Injected, Typed, Kinds
<1>8. Shared(Sent(call), steer, follow, <<>>, delivered')
  BY <1>1, <1>2, NoElement DEF Shared
<1>9. UNCHANGED <<call, steer, follow, turns>>
  BY DEF Injected
<1>10. Placed'
  BY <1>3, <1>8, <1>9 DEF Placed
<1> QED BY <1>1, <1>2, <1>3, <1>4, <1>5, <1>6, <1>7, <1>9, <1>10 DEF IInv, Typed

\* The loop drains the steering queue while it holds nothing.
LEMMA SteeringPollKeeps ==
    ASSUME IInv, SteeringPoll
    PROVE  IInv'
<1>1. /\ Typed /\ run \in RunType /\ Held(run) /\ Complete(run) /\ steer \in Seq(Msgs)
      /\ Shared(Sent(call), steer, follow, run.pending, delivered) /\ run.pc = "poll"
  BY DEF IInv, Typed, Placed, SteeringPoll
<1> DEFINE got == IF run.skip THEN <<>> ELSE Taken(steer)
           left == IF run.skip THEN steer ELSE Rest(steer)
<1>2. run.pending = <<>> /\ Elems(run.pending) = {} /\ Distinct(steer)
  BY <1>1, NoElement DEF Held, Shared
<1>3. /\ got \in Seq(Msgs) /\ left \in Seq(Msgs) /\ Distinct(got) /\ Distinct(left)
      /\ Elems(got) \cap Elems(left) = {} /\ Elems(got) \cup Elems(left) = Elems(steer)
  <2>1. CASE run.skip
    <3>1. <<>> \in Seq(Msgs)
      OBVIOUS
    <3> QED BY <1>1, <1>2, <2>1, <3>1, NoElement
  <2>2. CASE ~run.skip
    BY <1>1, <1>2, <2>2, TakenRest
  <2> QED BY <2>1, <2>2
<1>4. /\ run' = [run EXCEPT !.skip = FALSE, !.pending = got,
                           !.pc = IF run.more \/ got # <<>> THEN "inject" ELSE "followPoll"]
      /\ steer' = left
      /\ UNCHANGED <<call, follow, delivered, last, saved, sess, turns>>
  BY DEF SteeringPoll
<1> HIDE DEF got, left
<1>5. /\ run' \in RunType /\ run'.pending = got /\ run'.aborted = run.aborted
      /\ run'.pc = IF run.more \/ got # <<>> THEN "inject" ELSE "followPoll"
      /\ run'.tools = run.tools /\ run'.broken = run.broken
  BY <1>1, <1>3, <1>4 DEF RunType, LoopStates
<1>6. Held(run')
  BY <1>5 DEF Held
<1>7. Complete(run')
  BY <1>1, <1>5 DEF Complete, Done
<1>8. Shared(Sent(call), left, follow, got, delivered)
  BY <1>1, <1>2, <1>3 DEF Shared
<1>9. Post
  BY <1>1, <1>3, <1>4, <1>5, <1>6, <1>7, <1>8 DEF Post, Typed, IInv
<1> QED BY <1>1, <1>4, <1>9, PostInv DEF Typed

\* The loop drains the follow-up queue while it holds nothing.
LEMMA FollowUpPollKeeps ==
    ASSUME IInv, FollowUpPoll
    PROVE  IInv'
<1>1. /\ Typed /\ run \in RunType /\ Held(run) /\ Complete(run) /\ follow \in Seq(Msgs)
      /\ Shared(Sent(call), steer, follow, run.pending, delivered) /\ run.pc = "followPoll"
  BY DEF IInv, Typed, Placed, FollowUpPoll
<1>2. run.pending = <<>> /\ Elems(run.pending) = {} /\ Distinct(follow)
  BY <1>1, NoElement DEF Held, Shared
<1>3. /\ Taken(follow) \in Seq(Msgs) /\ Rest(follow) \in Seq(Msgs)
      /\ Distinct(Taken(follow)) /\ Distinct(Rest(follow))
      /\ Elems(Taken(follow)) \cap Elems(Rest(follow)) = {}
      /\ Elems(Taken(follow)) \cup Elems(Rest(follow)) = Elems(follow)
  BY <1>1, <1>2, TakenRest
<1>4. follow = <<>> => Taken(follow) = <<>>
  BY DEF Taken
<1>5. /\ run' \in RunType /\ run'.pending = Taken(follow) /\ run'.aborted = run.aborted
      /\ run'.pc = IF follow # <<>> THEN "inject" ELSE "ending"
      /\ run'.tools = run.tools /\ run'.broken = run.broken
  BY <1>1, <1>3 DEF FollowUpPoll, RunType, LoopStates
<1>6. Held(run')
  BY <1>4, <1>5 DEF Held
<1>7. Complete(run')
  BY <1>1, <1>5 DEF Complete, Done
<1>8. Shared(Sent(call), steer, Rest(follow), Taken(follow), delivered)
  BY <1>1, <1>2, <1>3 DEF Shared
<1>9. Post
  BY <1>1, <1>3, <1>5, <1>6, <1>7, <1>8 DEF Post, Typed, IInv, FollowUpPoll
<1> QED BY <1>1, <1>9, PostInv DEF Typed, FollowUpPoll

\* The states of n tool calls are a sequence.
LEMMA ToolSeq ==
    ASSUME NEW n \in Nat, NEW st \in ToolStates
    PROVE  [i \in 1..n |-> st] \in Seq(ToolStates)
BY SeqDef

\* The provider's answer replaces the tool calls, or ends the run.
LEMMA StreamedKeeps ==
    ASSUME IInv, Streamed
    PROVE  IInv'
<1>1. /\ Typed /\ run \in RunType /\ Held(run) /\ Complete(run) /\ run.pc = "stream"
      /\ sess \in SessType /\ turns \in Nat /\ run.pending = <<>>
  BY DEF IInv, Typed, Streamed, Held
<1>2. PICK a \in Answers :
        /\ turns' = IF a \in {"toolUse", "truncated"} THEN turns + 1 ELSE turns
        /\ last' = Kind(a) /\ saved' = Kind(a)
        /\ sess' = [sess EXCEPT !.answer = a,
                               !.attempt = IF a \in Errors THEN @ ELSE 0,
                               !.recovered = @ /\ a \in Errors]
        /\ \E n \in 1..MaxCalls, parallel \in BOOLEAN :
             \/ run' = [run EXCEPT !.pc = "ending"]
             \/ run' = [run EXCEPT !.pc = "tools", !.parallel = parallel,
                                   !.broken = FALSE, !.tools = [i \in 1..n |-> "listed"]]
             \/ run' = [run EXCEPT !.pc = "tools", !.parallel = FALSE,
                                   !.broken = FALSE, !.tools = [i \in 1..n |-> "failed"]]
             \/ run' = [run EXCEPT !.pc = "turnEnd", !.more = FALSE, !.tools = <<>>]
  <2>1. PICK a \in IF run.doomed THEN {"aborted"}
                   ELSE IF run.aborted THEN Answers ELSE Answers \ {"aborted"} :
        /\ turns' = IF a \in {"toolUse", "truncated"} THEN turns + 1 ELSE turns
        /\ last' = Kind(a) /\ saved' = Kind(a)
        /\ sess' = [sess EXCEPT !.answer = a,
                               !.attempt = IF a \in Errors THEN @ ELSE 0,
                               !.recovered = @ /\ a \in Errors]
        /\ \E n \in 1..MaxCalls, parallel \in BOOLEAN :
              run' = CASE a \in Errors \cup {"aborted"} -> [run EXCEPT !.pc = "ending"]
                       [] a = "toolUse" ->
                            [run EXCEPT !.pc = "tools", !.parallel = parallel,
                                        !.broken = FALSE, !.tools = [i \in 1..n |-> "listed"]]
                       [] a = "truncated" ->
                            [run EXCEPT !.pc = "tools", !.parallel = FALSE,
                                        !.broken = FALSE, !.tools = [i \in 1..n |-> "failed"]]
                       [] OTHER -> [run EXCEPT !.pc = "turnEnd", !.more = FALSE,
                                               !.tools = <<>>]
    BY DEF Streamed
  <2>2. a \in Answers
    BY DEF Answers
  <2>3. PICK n \in 1..MaxCalls, parallel \in BOOLEAN :
          run' = CASE a \in Errors \cup {"aborted"} -> [run EXCEPT !.pc = "ending"]
                   [] a = "toolUse" ->
                        [run EXCEPT !.pc = "tools", !.parallel = parallel,
                                    !.broken = FALSE, !.tools = [i \in 1..n |-> "listed"]]
                   [] a = "truncated" ->
                        [run EXCEPT !.pc = "tools", !.parallel = FALSE,
                                    !.broken = FALSE, !.tools = [i \in 1..n |-> "failed"]]
                   [] OTHER -> [run EXCEPT !.pc = "turnEnd", !.more = FALSE,
                                           !.tools = <<>>]
    BY <2>1
  <2>4. \/ run' = [run EXCEPT !.pc = "ending"]
        \/ run' = [run EXCEPT !.pc = "tools", !.parallel = parallel,
                              !.broken = FALSE, !.tools = [i \in 1..n |-> "listed"]]
        \/ run' = [run EXCEPT !.pc = "tools", !.parallel = FALSE,
                              !.broken = FALSE, !.tools = [i \in 1..n |-> "failed"]]
        \/ run' = [run EXCEPT !.pc = "turnEnd", !.more = FALSE, !.tools = <<>>]
    <3>1. CASE a \in Errors \cup {"aborted"}
      <4>1. a \notin {"toolUse", "truncated"}
        BY <3>1 DEF Errors
      <4> QED BY <2>3, <3>1, <4>1
    <3>2. CASE a = "toolUse"
      BY <2>3, <3>2 DEF Errors
    <3>3. CASE a = "truncated"
      BY <2>3, <3>3 DEF Errors
    <3>4. CASE a \notin Errors \cup {"aborted", "toolUse", "truncated"}
      BY <2>3, <3>4
    <3> QED BY <3>1, <3>2, <3>3, <3>4
  <2> QED BY <2>1, <2>2, <2>4
<1>3. PICK n \in 1..MaxCalls, parallel \in BOOLEAN :
        \/ run' = [run EXCEPT !.pc = "ending"]
        \/ run' = [run EXCEPT !.pc = "tools", !.parallel = parallel,
                              !.broken = FALSE, !.tools = [i \in 1..n |-> "listed"]]
        \/ run' = [run EXCEPT !.pc = "tools", !.parallel = FALSE,
                              !.broken = FALSE, !.tools = [i \in 1..n |-> "failed"]]
        \/ run' = [run EXCEPT !.pc = "turnEnd", !.more = FALSE, !.tools = <<>>]
  BY <1>2
<1>4. sess' \in SessType /\ turns' \in Nat
  <2> DEFINE attempt == IF a \in Errors THEN sess.attempt ELSE 0
             recovered == sess.recovered /\ a \in Errors
  <2>1. attempt \in 0..MaxRetries /\ recovered \in BOOLEAN
    BY <1>1, SessionAssumption DEF SessType
  <2>2. sess' = [sess EXCEPT !.answer = a, !.attempt = attempt, !.recovered = recovered]
    BY <1>2
  <2> HIDE DEF attempt, recovered
  <2>3. sess' \in SessType
    BY <1>1, <2>1, <2>2 DEF SessType
  <2> QED BY <1>1, <1>2, <2>3
<1>5. last' \in Kinds /\ saved' \in Kinds
  BY <1>2 DEF Kind, Kinds
<1>6. run' \in RunType /\ run'.pending = run.pending /\ Held(run') /\ Complete(run')
  <2>1. CASE run' = [run EXCEPT !.pc = "ending"]
    <3>1. /\ run' \in RunType /\ run'.pending = run.pending /\ run'.aborted = run.aborted
          /\ run'.pc = "ending" /\ run'.tools = run.tools /\ run'.broken = run.broken
      BY <1>1, <2>1 DEF RunType, LoopStates
    <3> QED BY <1>1, <3>1 DEF Held, Complete, Done
  <2>2. ASSUME NEW ts \in Seq(ToolStates), NEW par \in BOOLEAN,
               run' = [run EXCEPT !.pc = "tools", !.parallel = par, !.broken = FALSE, !.tools = ts]
        PROVE  run' \in RunType /\ run'.pending = run.pending /\ Held(run') /\ Complete(run')
    <3>1. /\ run' \in RunType /\ run'.pending = run.pending
          /\ run'.pc = "tools" /\ run'.broken = FALSE
      BY <1>1, <2>2 DEF RunType, LoopStates
    <3> QED BY <1>1, <3>1 DEF Held, Complete
  <2>3. CASE run' = [run EXCEPT !.pc = "turnEnd", !.more = FALSE, !.tools = <<>>]
    <3>1. <<>> \in Seq(ToolStates)
      OBVIOUS
    <3>2. /\ run' \in RunType /\ run'.pending = run.pending /\ run'.aborted = run.aborted
          /\ run'.pc = "turnEnd" /\ run'.tools = <<>> /\ run'.broken = run.broken
      BY <1>1, <2>3, <3>1 DEF RunType, LoopStates
    <3>3. Done(run')
      BY <3>2 DEF Done
    <3> QED BY <1>1, <3>2, <3>3 DEF Held, Complete
  <2>4. n \in Nat /\ "listed" \in ToolStates /\ "failed" \in ToolStates
    BY SessionAssumption DEF ToolStates
  <2>5. [i \in 1..n |-> "listed"] \in Seq(ToolStates) /\ [i \in 1..n |-> "failed"] \in Seq(ToolStates)
    BY <2>4, ToolSeq
  <2> QED BY <1>3, <2>1, <2>2, <2>3, <2>5
<1> QED BY <1>4, <1>5, <1>6, LoopInv DEF Streamed

\* The steps inside a batch of tool calls.
LEMMA BatchStepKeeps ==
    ASSUME IInv, run.pc = "tools",
           \/ ExecuteAll
           \/ \E i \in DOMAIN run.tools : PrepareToolCall(i) \/ ToolEnds(i)
    PROVE  IInv'
<1>1. /\ Typed /\ run \in RunType /\ Held(run) /\ Complete(run)
      /\ run.tools \in Seq(ToolStates) /\ DOMAIN run.tools = 1..Len(run.tools)
      /\ Len(run.tools) \in Nat
  BY DEF IInv, Typed, RunType
<1>2. UNCHANGED <<call, steer, follow, delivered, last, saved, sess, turns>>
  BY DEF ExecuteAll, PrepareToolCall, ToolEnds, SetTools
<1>3. \E ts \in Seq(ToolStates), b \in {run.broken, run.aborted} :
        run' = [run EXCEPT !.tools = ts, !.broken = b]
  <2>1. CASE ExecuteAll
    <3> DEFINE ts == [i \in DOMAIN run.tools |->
                        IF run.tools[i] = "ready" THEN "executing" ELSE run.tools[i]]
    <3>1. "executing" \in ToolStates
      BY DEF ToolStates
    <3>2. \A i \in 1..Len(run.tools) : run.tools[i] \in ToolStates
      BY <1>1
    <3>3. ts \in [1..Len(run.tools) -> ToolStates]
      BY <1>1, <3>1, <3>2
    <3>4. ts \in Seq(ToolStates)
      BY <1>1, <3>3, SeqDef
    <3>5. run' = [run EXCEPT !.tools = ts]
      BY <2>1 DEF ExecuteAll, SetTools
    <3> HIDE DEF ts
    <3>6. run' = [run EXCEPT !.tools = ts, !.broken = run.broken]
      BY <1>1, <3>5 DEF RunType
    <3> QED BY <3>4, <3>6
  <2>2. ASSUME NEW i \in DOMAIN run.tools, PrepareToolCall(i)
        PROVE  \E ts \in Seq(ToolStates), b \in {run.broken, run.aborted} :
                 run' = [run EXCEPT !.tools = ts, !.broken = b]
    <3>1. PICK to \in {"failed", "ready", "executing"} :
            run' = [run EXCEPT !.tools[i] = to, !.broken = run.aborted]
      BY <2>2 DEF PrepareToolCall
    <3>2. [run.tools EXCEPT ![i] = to] \in Seq(ToolStates)
      BY <1>1 DEF ToolStates
    <3> QED BY <3>1, <3>2
  <2>3. ASSUME NEW i \in DOMAIN run.tools, ToolEnds(i)
        PROVE  \E ts \in Seq(ToolStates), b \in {run.broken, run.aborted} :
                 run' = [run EXCEPT !.tools = ts, !.broken = b]
    <3>1. PICK to \in {"ran", "failed"} : run' = [run EXCEPT !.tools = [run.tools EXCEPT ![i] = to]]
      BY <2>3 DEF ToolEnds, SetTools
    <3> DEFINE ts == [run.tools EXCEPT ![i] = to]
    <3>2. ts \in Seq(ToolStates)
      BY <1>1 DEF ToolStates
    <3>3. run' = [run EXCEPT !.tools = ts]
      BY <3>1
    <3> HIDE DEF ts
    <3>4. run' = [run EXCEPT !.tools = ts, !.broken = run.broken]
      BY <1>1, <3>3 DEF RunType
    <3> QED BY <3>2, <3>4
  <2> QED BY <2>1, <2>2, <2>3
<1>4. PICK ts \in Seq(ToolStates), b \in {run.broken, run.aborted} :
        run' = [run EXCEPT !.tools = ts, !.broken = b]
  BY <1>3
<1>5. /\ run' \in RunType /\ run'.pending = run.pending /\ run'.pc = "tools"
      /\ run'.broken = b /\ run'.aborted = run.aborted
  BY <1>1, <1>4 DEF RunType
<1>6. Held(run')
  BY <1>1, <1>5 DEF Held
<1>7. Complete(run')
  BY <1>1, <1>5 DEF Complete
<1> QED BY <1>1, <1>2, <1>5, <1>6, <1>7, LoopInv DEF Typed

\* A batch that is closed without an abort has all its results.
LEMMA BatchEndsKeeps ==
    ASSUME IInv, BatchEnds
    PROVE  IInv'
<1>1. /\ Typed /\ run \in RunType /\ Held(run) /\ Complete(run) /\ run.pc = "tools"
      /\ run.tools \in Seq(ToolStates) /\ DOMAIN run.tools = 1..Len(run.tools)
  BY DEF IInv, Typed, RunType, BatchEnds
<1>2. PICK more \in BOOLEAN :
        run' = [run EXCEPT !.pc = "turnEnd", !.more = more, !.parallel = FALSE, !.broken = FALSE]
  BY DEF BatchEnds
<1>3. /\ run' \in RunType /\ run'.pending = run.pending /\ run'.pc = "turnEnd"
      /\ run'.broken = FALSE /\ run'.aborted = run.aborted /\ run'.tools = run.tools
  BY <1>1, <1>2 DEF RunType, LoopStates
<1>4. run.aborted \/ Done(run)
  <2>1. CASE Called({"listed"}) = {}
    <3> SUFFICES ASSUME NEW i \in 1..Len(run.tools) PROVE run.tools[i] \in {"ran", "failed"}
      BY DEF Done
    <3>1. run.tools[i] \in ToolStates /\ i \in DOMAIN run.tools
      BY <1>1
    <3>2. run.tools[i] # "listed"
      BY <2>1, <3>1 DEF Called
    <3>3. run.tools[i] \notin {"ready", "executing"}
      BY <3>1 DEF BatchEnds, Called
    <3> QED BY <3>1, <3>2, <3>3 DEF ToolStates
  <2>2. CASE run.broken
    BY <1>1, <2>2 DEF Complete
  <2> QED BY <2>1, <2>2 DEF BatchEnds, BatchClosed
<1>5. Held(run')
  BY <1>1, <1>3 DEF Held
<1>6. Complete(run')
  BY <1>3, <1>4 DEF Complete, Done
<1>7. "ask" \in Kinds
  BY DEF Kinds
<1> QED BY <1>1, <1>3, <1>5, <1>6, <1>7, LoopInv DEF BatchEnds, Typed

\* The turn is over.
LEMMA TurnEndsKeeps ==
    ASSUME IInv, TurnEnds
    PROVE  IInv'
<1>1. Typed /\ run \in RunType /\ Held(run) /\ Complete(run) /\ run.pc = "turnEnd"
  BY DEF IInv, Typed, TurnEnds
<1>2. PICK pc \in {"poll", "ending"} : run' = [run EXCEPT !.pc = pc]
  BY DEF TurnEnds
<1>3. /\ run' \in RunType /\ run'.pending = run.pending /\ run'.pc = pc
      /\ run'.broken = run.broken /\ run'.aborted = run.aborted /\ run'.tools = run.tools
  BY <1>1, <1>2 DEF RunType, LoopStates
<1>4. Held(run') /\ Complete(run')
  BY <1>1, <1>3 DEF Held, Complete, Done
<1> QED BY <1>1, <1>3, <1>4, LoopInv DEF TurnEnds, Typed

\* The run ends holding nothing.
LEMMA RunEndsKeeps ==
    ASSUME IInv, RunEnds
    PROVE  IInv'
<1>1. Typed /\ run.pending = <<>>
  BY DEF IInv, Held, RunEnds
<1> QED BY <1>1, NoRunTyped, LoopInv DEF RunEnds, Typed

-----------------------------------------------------------------------------
(* _handlePostAgentRun.                                                    *)

\* Taking off the last assistant message leaves a kind of message.
LEMMA DroppedKind == Typed => Dropped \in Kinds /\ last \in Kinds
BY DEF Typed, Dropped, Kinds

\* The retry counter within its budget.
LEMMA Attempts ==
    ASSUME NEW s \in SessType, NEW n \in 0..MaxRetries
    PROVE  [s EXCEPT !.attempt = n] \in SessType
BY DEF SessType

\* _checkCompaction, with its three outcomes.
LEMMA CheckCompactionKeeps ==
    ASSUME IInv, NEW m \in Msgs, NEW a, NEW s \in SessType, CheckCompaction(m, a, s)
    PROVE  Post /\ last' \in Kinds
<1>1. Dropped \in Kinds /\ last \in Kinds
  BY DroppedKind DEF IInv
<1>2. "recovering" \in CallStates \ Early /\ "compacting" \in CallStates \ Early
  BY DEF CallStates, Early
<1> DEFINE s2 == [s EXCEPT !.recovered = TRUE]
<1>3. s2 \in SessType
  BY DEF SessType
<1>4. CASE Suspended(m, "recovering", s2) /\ last' = Dropped
  <2> HIDE DEF s2
  <2> QED BY <1>1, <1>2, <1>3, <1>4, SuspendedKeeps
<1>5. CASE Suspended(m, "compacting", s) /\ UNCHANGED last
  BY <1>1, <1>2, <1>5, SuspendedKeeps
<1>6. CASE Decide(m, s, last) /\ UNCHANGED last
  BY <1>1, <1>6, DecideKeeps
<1> QED BY <1>4, <1>5, <1>6 DEF CheckCompaction

\* What a run's end leads to: settling, a backoff within the budget, or
\* compaction.
LEMMA PostRunKeeps ==
    ASSUME IInv, NEW m \in Msgs, PostRun(m)
    PROVE  IInv'
<1>1. Typed /\ sess \in SessType /\ MaxRetries \in Nat
  BY SessionAssumption DEF IInv, Typed
<1> DEFINE a == sess.answer
           s == [sess EXCEPT !.answer = "none"]
           retried == [s EXCEPT !.attempt = @ + 1]
           failed == [s EXCEPT !.attempt = IF a \in Errors THEN 0 ELSE @]
<1>2. s \in SessType
  BY <1>1 DEF SessType
<1>3. MayRetry(s) => retried \in SessType
  <2> SUFFICES ASSUME MayRetry(s) PROVE retried \in SessType
    OBVIOUS
  <2>1. s.attempt + 1 \in 0..MaxRetries
    <3> HIDE DEF s
    <3> QED BY <1>1, <1>2 DEF SessType, MayRetry
  <2> HIDE DEF s
  <2> QED BY <1>2, <2>1, Attempts
<1>4. failed \in SessType
  <2> DEFINE n == IF a \in Errors THEN 0 ELSE s.attempt
  <2> HIDE DEF s
  <2>1. n \in 0..MaxRetries
    BY <1>1, <1>2 DEF SessType
  <2>2. failed = [s EXCEPT !.attempt = n]
    OBVIOUS
  <2> HIDE DEF n
  <2> QED BY <1>2, <2>1, <2>2, Attempts
<1>5. /\ \/ Finish(m, s) /\ UNCHANGED <<run, steer, follow, last>>
         \/ MayRetry(s) /\ Suspended(m, "sleeping", retried) /\ last' = Dropped
         \/ CheckCompaction(m, a, failed)
      /\ UNCHANGED <<delivered, saved, turns>>
  BY DEF PostRun
<1> HIDE DEF a, s, retried, failed
<1>6. Dropped \in Kinds /\ last \in Kinds
  BY <1>1, DroppedKind
<1>7. Post /\ last' \in Kinds
  <2>1. CASE Finish(m, s) /\ UNCHANGED <<run, steer, follow, last>>
    BY <1>2, <1>6, <2>1, FinishKeeps, CallPost
  <2>2. CASE MayRetry(s) /\ Suspended(m, "sleeping", retried) /\ last' = Dropped
    <3>1. "sleeping" \in CallStates \ Early
      BY DEF CallStates, Early
    <3> QED BY <1>3, <1>6, <2>2, <3>1, SuspendedKeeps
  <2>3. CASE CheckCompaction(m, a, failed)
    BY <1>4, <2>3, CheckCompactionKeeps
  <2> QED BY <1>5, <2>1, <2>2, <2>3
<1> QED BY <1>1, <1>5, <1>7, PostInv DEF Typed

\* The steps of a call whose run is over.
LEMMA RunStepKeeps ==
    ASSUME IInv, NEW m \in Msgs, RunStep(m)
    PROVE  IInv'
<1>1. /\ Typed /\ Unsent(call) /\ sess \in SessType /\ last \in Kinds /\ saved \in Kinds
      /\ turns \in Nat
  BY DEF IInv, Typed
<1>2. CASE PostRun(m)
  BY <1>2, PostRunKeeps
<1>3. CASE Slept(m)
  <2>1. Post
    BY <1>1, <1>3, ContinueKeeps DEF Slept
  <2> QED BY <1>1, <1>3, <2>1, PostInv DEF Slept
<1>4. CASE RetryCancelled(m)
  <2> DEFINE s == [sess EXCEPT !.attempt = 0]
  <2>1. s \in SessType
    BY <1>1, SessionAssumption DEF SessType
  <2>2. CheckCompaction(m, "retryable", s)
    BY <1>4 DEF RetryCancelled
  <2> HIDE DEF s
  <2>3. Post /\ last' \in Kinds
    BY <2>1, <2>2, CheckCompactionKeeps
  <2> QED BY <1>1, <1>4, <2>3, PostInv DEF RetryCancelled
<1>5. CASE Compacted(m)
  <2> DEFINE kept == IF call[m].pc = "recovering" /\ saved = "failed" THEN "ask" ELSE saved
  <2>1. /\ last' = kept
        /\ Continue(m, sess, kept) \/ Decide(m, sess, kept)
        /\ UNCHANGED <<delivered, saved, turns>>
    BY <1>5 DEF Compacted
  <2>2. kept \in Kinds
    BY <1>1 DEF Kinds
  <2> HIDE DEF kept
  <2>3. Post
    BY <1>1, <2>1, ContinueKeeps, DecideKeeps
  <2> QED BY <1>1, <2>1, <2>2, <2>3, PostInv
<1>6. CASE CompactionFailed(m)
  <2>1. Post
    BY <1>1, <1>6, DecideKeeps DEF CompactionFailed
  <2> QED BY <1>1, <1>6, <2>1, PostInv DEF CompactionFailed
<1>7. CASE Settled(m)
  <2> DEFINE s == [sess EXCEPT !.review = FALSE]
  <2>1. s \in SessType
    BY <1>1 DEF SessType
  <2>2. sess' = IdleResolved(s) /\ call' = [call EXCEPT ![m].pc = "over"]
    BY <1>7 DEF Settled
  <2> HIDE DEF s
  <2>3. sess' \in SessType
    BY <2>1, <2>2, SessResolved
  <2>4. "over" \in CallStates /\ "over" \notin Early
    BY DEF CallStates, Early
  <2>5. CallsKept
    BY <1>1, <2>2, <2>4, CallMoves
  <2>6. Post
    BY <1>7, <2>3, <2>5, CallPost DEF Settled
  <2> QED BY <1>1, <1>7, <2>6, PostInv DEF Settled
<1> QED BY <1>2, <1>3, <1>4, <1>5, <1>6, <1>7 DEF RunStep

-----------------------------------------------------------------------------
(* The theorems.                                                           *)

\* A session that has not received anything.
LEMMA InitInv == Init => IInv
<1> SUFFICES ASSUME Init PROVE IInv
  OBVIOUS
<1>1. /\ run = NoRun /\ steer = <<>> /\ follow = <<>> /\ delivered = <<>> /\ last = "none"
      /\ saved = "none" /\ turns = 0
  BY DEF Init
<1>2. NewCall \in CallType /\ ~NewCall.sent
  BY DEF NewCall, CallType, CallStates
<1>3. call = [m \in Msgs |-> NewCall]
  BY DEF Init
<1>4. call \in [Msgs -> CallType] /\ Sent(call) = {} /\ Unsent(call)
  BY <1>2, <1>3 DEF Sent, Unsent
<1>5. sess \in SessType
  BY SessionAssumption DEF Init, SessType
<1>6. Typed
  BY <1>1, <1>4, <1>5, NoRunTyped DEF Typed, Kinds
<1>7. Placed
  BY <1>1, <1>4, NoRunTyped, NoElement DEF Placed, Shared
<1> QED BY <1>1, <1>4, <1>6, <1>7, NoRunTyped DEF IInv

\* One case per action.
LEMMA StepInv == IInv /\ [Next]_vars => IInv'
<1> SUFFICES ASSUME IInv, [Next]_vars PROVE IInv'
  OBVIOUS
<1>1. CASE UNCHANGED vars
  <2>1. UNCHANGED <<call, steer, follow, delivered, run, last, saved, turns>> /\ sess' = sess
    BY <1>1 DEF vars
  <2>2. sess' \in SessType
    BY <2>1 DEF IInv, Typed
  <2> QED BY <2>1, <2>2, FlagsInv
<1>2. CASE LoopStep
  <2>1. CASE PromptsEmitted
    BY <2>1, InjectedKeeps DEF PromptsEmitted
  <2>2. CASE Request
    BY <2>2, InjectedKeeps DEF Request
  <2>3. CASE ExecuteAll
    <3>1. run.pc = "tools"
      BY <2>3 DEF ExecuteAll
    <3> QED BY <2>3, <3>1, BatchStepKeeps
  <2>4. ASSUME NEW i \in DOMAIN run.tools, PrepareToolCall(i) \/ ToolEnds(i) PROVE IInv'
    <3>1. run.pc = "tools"
      BY <2>4 DEF PrepareToolCall, ToolEnds
    <3> QED BY <2>4, <3>1, BatchStepKeeps
  <2> QED BY <1>2, <2>1, <2>2, <2>3, <2>4, SteeringPollKeeps, FollowUpPollKeeps, StreamedKeeps,
             BatchEndsKeeps, TurnEndsKeeps, RunEndsKeeps DEF LoopStep
<1>3. ASSUME NEW m \in Msgs,
             \/ RunStep(m) \/ Prompt(m) \/ PromptChecked(m) \/ PromptRefused(m)
             \/ PromptRuns(m) \/ CustomMessage(m)
      PROVE  IInv'
  BY <1>3, RunStepKeeps, PromptKeeps, PromptCheckedKeeps, PromptRefusedKeeps, PromptRunsKeeps,
     CustomMessageKeeps
<1> QED BY <1>1, <1>2, <1>3, ClearQueueKeeps, CommandKeeps, AbortKeeps DEF Next

\* Accepted messages, calls and runs fit together in every reachable state.
THEOREM Invariance == Spec => []IInv
BY InitInv, StepInv, PTL DEF Spec

\* Every variable keeps its type; in particular _prepareRetry never counts
\* more consecutive retries than settings.retry.maxRetries.
THEOREM TypeCorrect == Spec => []TypeOK
<1>1. IInv => TypeOK
  BY DEF IInv, Typed, TypeOK, CallType, RunType, SessType
<1> QED BY <1>1, Invariance, PTL

\* A message the session accepted is in one place, once: in a queue of the
\* agent, with the loop that drained it, or in the transcript.
THEOREM OnePlace == Spec => []ExactlyOnce
<1>1. IInv => ExactlyOnce
  <2> SUFFICES ASSUME IInv, NEW m \in Msgs
               PROVE  Cardinality(Places(m)) = IF call[m].sent THEN 1 ELSE 0
    BY DEF ExactlyOnce
  <2>1. /\ steer \in Seq(Msgs) /\ follow \in Seq(Msgs) /\ delivered \in Seq(Msgs)
        /\ run.pending \in Seq(Msgs)
        /\ Shared(Sent(call), steer, follow, run.pending, delivered)
    BY DEF IInv, Typed, Placed, RunType
  <2> DEFINE p == steer \o follow
             r == p \o run.pending
             q == r \o delivered
  <2>2. p \in Seq(Msgs) /\ Elems(p) = Elems(steer) \cup Elems(follow) /\ Distinct(p)
    BY <2>1, ConcatDistinct DEF Shared
  <2> HIDE DEF p
  <2>3. /\ r \in Seq(Msgs) /\ Distinct(r)
        /\ Elems(r) = Elems(steer) \cup Elems(follow) \cup Elems(run.pending)
    <3>1. Distinct(run.pending) /\ Elems(p) \cap Elems(run.pending) = {}
      BY <2>1, <2>2 DEF Shared
    <3> QED BY <2>1, <2>2, <3>1, ConcatDistinct
  <2> HIDE DEF r
  <2>4. q \in Seq(Msgs) /\ Elems(q) = Sent(call) /\ Distinct(q)
    <3>1. Distinct(delivered) /\ Elems(r) \cap Elems(delivered) = {}
      BY <2>1, <2>3 DEF Shared
    <3>2. Elems(r) \cup Elems(delivered) = Sent(call)
      BY <2>1, <2>3 DEF Shared
    <3>3. /\ r \o delivered \in Seq(Msgs) /\ Distinct(r \o delivered)
          /\ Elems(r \o delivered) = Elems(r) \cup Elems(delivered)
      BY <2>1, <2>3, <3>1, ConcatDistinct
    <3> QED BY <3>2, <3>3
  <2>5. Places(m) = {i \in DOMAIN q : q[i] = m}
    BY DEF Places, p, r
  <2> HIDE DEF q
  <2>6. Places(m) = {i \in 1..Len(q) : q[i] = m}
    BY <2>4, <2>5
  <2>7. CASE call[m].sent
    <3>1. PICK i \in 1..Len(q) : q[i] = m
      BY <2>4, <2>7 DEF Sent, Elems
    <3>2. Places(m) = {i}
      BY <2>4, <2>6, <3>1 DEF Distinct
    <3> QED BY <2>7, <3>2, FS_Singleton
  <2>8. CASE ~call[m].sent
    <3>1. Places(m) = {}
      BY <2>4, <2>6, <2>8 DEF Sent, Elems
    <3> QED BY <2>8, <3>1, FS_EmptySet
  <2> QED BY <2>7, <2>8
<1> QED BY <1>1, Invariance, PTL

\* A request of a run that was not aborted before it answers every tool call of
\* the assistant message it follows, for every number of calls and in both
\* ways of executing them.
THEOREM RequestComplete == Spec => []LiveRequestComplete
<1>1. IInv => LiveRequestComplete
  <2> SUFFICES ASSUME IInv, run.pc = "stream", ~run.doomed, NEW i \in DOMAIN run.tools
               PROVE  run.tools[i] \in {"ran", "failed"}
    BY DEF LiveRequestComplete
  <2>1. Complete(run) /\ DOMAIN run.tools = 1..Len(run.tools)
    BY DEF IInv, Typed, RunType
  <2> QED BY <2>1 DEF Complete, Done
<1> QED BY <1>1, Invariance, PTL
=============================================================================
