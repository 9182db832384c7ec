---------------------------- MODULE AgentSession ----------------------------
(***************************************************************************)
(* A session's runs: prompt(), custom messages, abort, retries and         *)
(* compaction of core/agent-session.ts on top of the Agent and its loop in *)
(* packages/agent (agent.ts, agent-loop.ts).                               *)
(*                                                                         *)
(* An action is the code between two awaits.  A message stands for the     *)
(* call of prompt() or sendCustomMessage() that brings it, so call[m] says *)
(* where that call is suspended.  The transcript is abstracted to the      *)
(* queued messages it has received and to the kind of its last message.    *)
(***************************************************************************)
EXTENDS Naturals, Sequences, FiniteSets

CONSTANTS
    Msgs,        \* messages the user and the extensions send
    None,        \* no message
    QueueMode,   \* steeringMode and followUpMode
    MayStop,     \* a host installed shouldStopAfterTurn (the pool, for its children)
    MaxRetries,  \* settings.retry.maxRetries
    MaxCalls,    \* bound: tool calls of one assistant message
    MaxTurns     \* bound: assistant messages with tool calls

ASSUME SessionAssumption ==
    /\ None \notin Msgs
    /\ QueueMode \in {"all", "one-at-a-time"}
    /\ MayStop \in BOOLEAN
    /\ MaxRetries \in Nat /\ MaxCalls \in Nat \ {0} /\ MaxTurns \in Nat

VARIABLES
    call,       \* the call that brings each message
    steer,      \* Agent.steeringQueue
    follow,     \* Agent.followUpQueue
    delivered,  \* messages in the transcript, in order
    run,        \* Agent.activeRun and the state of its loop
    last,       \* kind of the last message of agent.state.messages
    saved,      \* kind of the last message of the session file's branch
    sess,       \* the flags of AgentSession
    turns       \* assistant messages with tool calls so far

vars == <<call, steer, follow, delivered, run, last, saved, sess, turns>>

-----------------------------------------------------------------------------

\* What an assistant message may be: stopReason, and how the session reads it.
Errors  == {"retryable", "overflow", "error"}            \* stopReason "error"
Answers == Errors \cup {"stop", "toolUse", "truncated", "lengthOverflow", "aborted"}

\* A last message is something to answer (user, custom or tool result), an
\* assistant message, or an assistant message that reports an error.
Kinds   == {"none", "ask", "answer", "failed"}
Kind(a) == IF a \in Errors THEN "failed" ELSE "answer"

CallStates == {"new", "preflight", "checked", "queued", "refused", "cleared",
               "running", "sleeping", "interrupted", "compacting", "recovering",
               "settling", "over"}
LoopStates == {"none", "prompts", "poll", "inject", "stream", "tools", "turnEnd",
               "followPoll", "ending"}
ToolStates == {"listed", "ready", "executing", "ran", "failed"}

\* pf is prompt()'s view of the session when it began: a run was active
\* ("untracked"), or not, with another preflight ahead ("behind") or without.
NewCall == [pc |-> "new", pf |-> "none", custom |-> FALSE, sent |-> FALSE]
Left(c, pc) == [c EXCEPT !.pc = pc, !.pf = "none"]

\* A run of the loop; skip leaves out its first poll of the steering queue.
Run(msgs, skip) ==
    [pc |-> "prompts", aborted |-> FALSE, doomed |-> FALSE, skip |-> skip, pending |-> msgs,
     more |-> TRUE, tools |-> <<>>, parallel |-> FALSE, broken |-> FALSE]
NoRun == [Run(<<>>, FALSE) EXCEPT !.pc = "none"]

Init ==
    /\ call = [m \in Msgs |-> NewCall]
    /\ steer = <<>> /\ follow = <<>> /\ delivered = <<>>
    /\ run = NoRun
    /\ last = "none" /\ saved = "none"
    /\ sess = [active |-> FALSE, review |-> FALSE, current |-> None, answer |-> "none",
               attempt |-> 0, recovered |-> FALSE, command |-> "none", abort |-> "none",
               threw |-> FALSE]
    /\ turns = 0

-----------------------------------------------------------------------------
(* PendingMessageQueue.                                                    *)

\* drain(): what is taken and what stays.
Taken(q) == IF QueueMode = "all" \/ q = <<>> THEN q ELSE <<Head(q)>>
Rest(q)  == SubSeq(q, Len(Taken(q)) + 1, Len(q))

\* The session's prompts in preflight; a tracked extension command counts too.
Preflights == {m \in Msgs : call[m].pf \in {"alone", "behind"}}
Preparing  == Preflights # {} \/ sess.command = "tracked"
IsStreaming == sess.active \/ sess.review \/ Preparing
Idle(s) == ~s.active /\ ~s.review

\* _resolveIdleWaitIfIdle: abort() returns.
IdleResolved(s) == IF Idle(s) /\ s.abort = "waiting" THEN [s EXCEPT !.abort = "none"] ELSE s

-----------------------------------------------------------------------------
(* _runAgentPrompt: its start, and the finally block.                      *)

\* The finally block of m's run with the session in state s: only the latest
\* run settles, which starts with the task review.
Finish(m, s) ==
    LET latest == s.current = m
    IN  /\ call' = [call EXCEPT ![m] = Left(@, IF latest THEN "settling" ELSE "over")]
        /\ sess' = [s EXCEPT !.active = FALSE, !.review = IF latest THEN TRUE ELSE @]

\* Agent.prompt(m), which refuses while a run is active.
RunPrompt(m, s) ==
    IF run.pc = "none"
    THEN /\ run' = Run(<<m>>, FALSE)
         /\ call' = [call EXCEPT ![m] = [Left(@, "running") EXCEPT !.sent = TRUE]]
         /\ sess' = [s EXCEPT !.active = TRUE, !.current = m]
    ELSE Finish(m, [s EXCEPT !.current = m]) /\ UNCHANGED run

\* Agent.continue() with last message l: an assistant message can be continued
\* only with a queued message.
Continue(m, s, l) ==
    LET assistant == l \in {"answer", "failed"}
        refused   == \/ run.pc # "none" \/ l = "none"
                     \/ assistant /\ steer = <<>> /\ follow = <<>>
    IN  IF refused
        THEN Finish(m, [s EXCEPT !.threw = TRUE]) /\ UNCHANGED <<run, steer, follow>>
        ELSE /\ call' = [call EXCEPT ![m].pc = "running"]
             /\ sess' = s
             /\ IF assistant /\ steer # <<>>
                THEN /\ run' = Run(Taken(steer), TRUE)
                     /\ steer' = Rest(steer) /\ UNCHANGED follow
                ELSE IF assistant
                THEN /\ run' = Run(Taken(follow), FALSE)
                     /\ follow' = Rest(follow) /\ UNCHANGED steer
                ELSE run' = Run(<<>>, FALSE) /\ UNCHANGED <<steer, follow>>

\* hasQueuedMessages() decides whether the run goes on.
Decide(m, s, l) ==
    IF steer # <<>> \/ follow # <<>> THEN Continue(m, s, l)
    ELSE Finish(m, s) /\ UNCHANGED <<run, steer, follow>>

-----------------------------------------------------------------------------
(* prompt() and sendCustomMessage().                                       *)

\* prompt() up to its first await.
Prompt(m) ==
    /\ call[m].pc = "new"
    /\ call' = [call EXCEPT ![m].pc = "preflight",
                            ![m].pf = IF sess.active THEN "untracked"
                                      ELSE IF Preflights # {} /\ sess.command = "none"
                                      THEN "behind" ELSE "alone"]
    /\ UNCHANGED <<steer, follow, delivered, run, last, saved, sess, turns>>

\* The input handlers answered: a message that meets a run, or that met another
\* preflight, is queued as its options say, or refused.
PromptChecked(m) ==
    /\ call[m].pc = "preflight"
    /\ IF ~sess.active /\ call[m].pf # "behind"
       THEN call' = [call EXCEPT ![m].pc = "checked"] /\ UNCHANGED <<steer, follow, sess>>
       ELSE /\ sess' = IdleResolved(sess)
            /\ \/ /\ call' = [call EXCEPT ![m] = Left(@, "refused")]
                  /\ UNCHANGED <<steer, follow>>
               \/ /\ call' = [call EXCEPT ![m] = [Left(@, "queued") EXCEPT !.sent = TRUE]]
                  /\ \/ steer' = Append(steer, m) /\ UNCHANGED follow
                     \/ follow' = Append(follow, m) /\ UNCHANGED steer
    /\ UNCHANGED <<delivered, run, last, saved, turns>>

\* An input handler takes the message, or the preflight throws.
PromptRefused(m) ==
    /\ call[m].pc \in {"preflight", "checked"}
    /\ call' = [call EXCEPT ![m] = Left(@, "refused")]
    /\ sess' = IdleResolved(sess)
    /\ UNCHANGED <<steer, follow, delivered, run, last, saved, turns>>

\* The preflight is over (pre-prompt compaction included): the run starts.
PromptRuns(m) ==
    /\ call[m].pc = "checked"
    /\ RunPrompt(m, IdleResolved(sess))
    /\ UNCHANGED <<steer, follow, delivered, last, saved, turns>>

\* sendCustomMessage with triggerTurn: queued while the session is streaming.
CustomMessage(m) ==
    /\ call[m].pc = "new"
    /\ IF IsStreaming
       THEN /\ call' = [call EXCEPT ![m].pc = "queued", ![m].custom = TRUE, ![m].sent = TRUE]
            /\ \/ steer' = Append(steer, m) /\ UNCHANGED follow
               \/ follow' = Append(follow, m) /\ UNCHANGED steer
            /\ UNCHANGED <<run, sess>>
       ELSE RunPrompt(m, sess) /\ UNCHANGED <<steer, follow>>
    /\ UNCHANGED <<delivered, last, saved, turns>>

\* clearQueue(): the messages go back to the editor.
ClearQueue ==
    /\ steer # <<>> \/ follow # <<>>
    /\ call' = [m \in Msgs |-> IF \E q \in {steer, follow} : \E i \in DOMAIN q : q[i] = m
                               THEN [call[m] EXCEPT !.pc = "cleared", !.sent = FALSE]
                               ELSE call[m]]
    /\ steer' = <<>> /\ follow' = <<>>
    /\ UNCHANGED <<delivered, run, last, saved, sess, turns>>

\* An extension command: its handler runs inside prompt(), at any time.
CommandStarts ==
    /\ sess.command = "none"
    /\ sess' = [sess EXCEPT !.command = IF sess.active THEN "untracked" ELSE "tracked"]
    /\ UNCHANGED <<call, steer, follow, delivered, run, last, saved, turns>>

CommandEnds ==
    /\ sess.command # "none"
    /\ sess' = LET s == [sess EXCEPT !.command = "none"]
               IN  IF sess.command = "tracked" THEN IdleResolved(s) ELSE s
    /\ UNCHANGED <<call, steer, follow, delivered, run, last, saved, turns>>

\* reload() invalidates the run under way: it will not settle.
Reload ==
    /\ sess' = [sess EXCEPT !.current = None]
    /\ UNCHANGED <<call, steer, follow, delivered, run, last, saved, turns>>

-----------------------------------------------------------------------------
(* abort().                                                                *)

\* agent.abort()
Aborted(r) == IF r.pc = "none" THEN r ELSE [r EXCEPT !.aborted = TRUE]
AfterPreflights(s) == [s EXCEPT !.abort = IF Idle(s) THEN "none" ELSE "waiting"]

\* The retry sleep and the run are aborted; prompts in preflight are awaited.
Abort ==
    /\ sess.abort = "none"
    /\ run' = Aborted(run)
    /\ call' = [m \in Msgs |-> IF call[m].pc = "sleeping" THEN [call[m] EXCEPT !.pc = "interrupted"]
                               ELSE call[m]]
    /\ sess' = IF Preparing /\ sess.command = "none" THEN [sess EXCEPT !.abort = "preflights"]
               ELSE AfterPreflights(sess)
    /\ UNCHANGED <<steer, follow, delivered, last, saved, turns>>

\* The preflights are over: the run that one of them started is aborted too.
AbortAgain ==
    /\ sess.abort = "preflights"
    /\ Preflights = {}
    /\ run' = Aborted(run)
    /\ sess' = AfterPreflights(sess)
    /\ UNCHANGED <<call, steer, follow, delivered, last, saved, turns>>

-----------------------------------------------------------------------------
(* The agent loop.                                                         *)

\* message_start of a user message resets the overflow recovery.
Received(msgs) == [sess EXCEPT !.recovered = @ /\ \A i \in DOMAIN msgs : call[msgs[i]].custom]

\* The messages of r.pending enter the transcript, and the loop goes to pc.
Injected(pc) ==
    /\ delivered' = delivered \o run.pending
    /\ last' = IF run.pending = <<>> THEN last ELSE "ask"
    /\ saved' = IF run.pending = <<>> THEN saved ELSE "ask"
    /\ sess' = Received(run.pending)
    /\ run' = [run EXCEPT !.pc = pc, !.pending = <<>>, !.doomed = run.aborted]
    /\ UNCHANGED <<call, steer, follow, turns>>

PromptsEmitted == run.pc = "prompts" /\ Injected("poll")

\* getSteeringMessages
SteeringPoll ==
    /\ run.pc = "poll"
    /\ LET got == IF run.skip THEN <<>> ELSE Taken(steer)
       IN  /\ run' = [run EXCEPT !.skip = FALSE, !.pending = got,
                                 !.pc = IF run.more \/ got # <<>> THEN "inject" ELSE "followPoll"]
           /\ steer' = IF run.skip THEN steer ELSE Rest(steer)
    /\ UNCHANGED <<call, follow, delivered, last, saved, sess, turns>>

\* Mutant: the follow-up message stays in the queue.
FollowUpPollPeeks ==
    /\ run.pc = "followPoll"
    /\ run' = [run EXCEPT !.pending = Taken(follow),
                          !.pc = IF follow # <<>> THEN "inject" ELSE "ending"]
    /\ UNCHANGED <<call, steer, follow, delivered, last, saved, sess, turns>>

\* getFollowUpMessages: the loop goes on with them or ends.
FollowUpPoll ==
    /\ run.pc = "followPoll"
    /\ run' = [run EXCEPT !.pending = Taken(follow),
                          !.pc = IF follow # <<>> THEN "inject" ELSE "ending"]
    /\ follow' = Rest(follow)
    /\ UNCHANGED <<call, steer, delivered, last, saved, sess, turns>>

\* The pending messages are injected and the provider is asked.
Request == run.pc = "inject" /\ Injected("stream")

\* streamAssistantResponse: a request made after the abort ends as aborted, one
\* under way may still be answered.
Streamed ==
    /\ run.pc = "stream"
    /\ \E a \in IF run.doomed THEN {"aborted"} ELSE IF run.aborted THEN Answers ELSE Answers \ {"aborted"} :
         /\ a \in {"toolUse", "truncated"} => turns < MaxTurns
         /\ turns' = IF a \in {"toolUse", "truncated"} THEN turns + 1 ELSE turns
         /\ last' = Kind(a) /\ saved' = Kind(a)
         /\ sess' = [sess EXCEPT !.answer = a,
                                 !.attempt = IF a \in Errors THEN @ ELSE 0,
                                 !.recovered = @ /\ a \in Errors]
         /\ \E n \in 1..MaxCalls, parallel \in BOOLEAN :
              run' = CASE a \in Errors \cup {"aborted"} -> [run EXCEPT !.pc = "ending"]
                       [] a = "toolUse" ->
                            [run EXCEPT !.pc = "tools", !.parallel = parallel,
                                        !.broken = FALSE, !.tools = [i \in 1..n |-> "listed"]]
                       [] a = "truncated" ->
                            [run EXCEPT !.pc = "tools", !.parallel = FALSE,
                                        !.broken = FALSE, !.tools = [i \in 1..n |-> "failed"]]
                       [] OTHER -> [run EXCEPT !.pc = "turnEnd", !.more = FALSE,
                                               !.tools = <<>>]
    /\ UNCHANGED <<call, steer, follow, delivered>>

-----------------------------------------------------------------------------
(* executeToolCalls, in sequence or in parallel.                           *)

Called(states) == {i \in DOMAIN run.tools : run.tools[i] \in states}
SetTools(ts) ==
    /\ run' = [run EXCEPT !.tools = ts]
    /\ UNCHANGED <<call, steer, follow, delivered, last, saved, sess, turns>>

\* Mutant: the batch ends at its first error.
BatchClosedByError == Called({"listed"}) = {} \/ run.broken \/ Called({"failed"}) # {}

\* The loop over the calls is over, or an abort broke it.
BatchClosed ==
    \/ Called({"listed"}) = {} \/ run.broken
    \/ run.aborted /\ Called({"failed", "ran", "ready"}) # {}

\* prepareToolCall, then the check that breaks the loop.  In sequence a
\* prepared call is executed at once and awaited before the next one.
PrepareToolCall(i) ==
    /\ run.pc = "tools" /\ run.tools[i] = "listed" /\ ~run.broken
    /\ \A j \in 1..(i - 1) : run.tools[j] \notin (IF run.parallel THEN {"listed"}
                                                  ELSE {"listed", "ready", "executing"})
    /\ \E to \in IF run.aborted THEN {"failed"}
                 ELSE {"failed", IF run.parallel THEN "ready" ELSE "executing"} :
         run' = [run EXCEPT !.tools[i] = to, !.broken = run.aborted]
    /\ UNCHANGED <<call, steer, follow, delivered, last, saved, sess, turns>>

\* Promise.all over the prepared calls, after an abort too.
ExecuteAll ==
    /\ run.pc = "tools" /\ Called({"ready"}) # {} /\ BatchClosed
    /\ SetTools([i \in DOMAIN run.tools |-> IF run.tools[i] = "ready" THEN "executing" ELSE run.tools[i]])

ToolEnds(i) ==
    /\ run.pc = "tools" /\ run.tools[i] = "executing"
    /\ \E to \in {"ran", "failed"} : SetTools([run.tools EXCEPT ![i] = to])

\* The results are emitted; the loop stops if every tool asked for it.
BatchEnds ==
    /\ run.pc = "tools"
    /\ BatchClosed /\ Called({"ready", "executing"}) = {}
    /\ \E more \in IF Called({"failed"}) = {} THEN BOOLEAN ELSE {TRUE} :
         run' = [run EXCEPT !.pc = "turnEnd", !.more = more, !.parallel = FALSE, !.broken = FALSE]
    /\ last' = "ask" /\ saved' = "ask"
    /\ UNCHANGED <<call, steer, follow, delivered, sess, turns>>

\* turn_end; shouldStopAfterTurn may end the run.
TurnEnds ==
    /\ run.pc = "turnEnd"
    /\ \E pc \in IF MayStop THEN {"poll", "ending"} ELSE {"poll"} : run' = [run EXCEPT !.pc = pc]
    /\ UNCHANGED <<call, steer, follow, delivered, last, saved, sess, turns>>

\* agent_end and finishRun.
RunEnds ==
    /\ run.pc = "ending"
    /\ run' = NoRun
    /\ UNCHANGED <<call, steer, follow, delivered, last, saved, sess, turns>>

-----------------------------------------------------------------------------
(* _handlePostAgentRun: retry, compaction, queued messages.                *)

\* The last assistant message is taken off agent.state.messages.
Dropped == IF last \in {"answer", "failed"} THEN "ask" ELSE last

Suspended(m, pc, s) ==
    /\ call' = [call EXCEPT ![m].pc = pc]
    /\ sess' = s
    /\ UNCHANGED <<run, steer, follow>>

\* Mutant: every overflow is compacted and retried.
CheckCompactionAgain(m, a, s) ==
    IF a \in {"overflow", "lengthOverflow"}
    THEN Suspended(m, "recovering", [s EXCEPT !.recovered = TRUE]) /\ last' = Dropped
    ELSE Decide(m, s, last) /\ UNCHANGED last

\* _checkCompaction: an overflow is compacted and retried once; the threshold
\* may ask for a compaction after any message that was not aborted.
CheckCompaction(m, a, s) ==
    \/ /\ a \in {"overflow", "lengthOverflow"} /\ ~s.recovered
       /\ Suspended(m, "recovering", [s EXCEPT !.recovered = TRUE])
       /\ last' = Dropped
    \/ /\ a \notin {"overflow", "lengthOverflow", "aborted"}
       /\ Suspended(m, "compacting", s)
       /\ UNCHANGED last
    \/ /\ a \in {"overflow", "lengthOverflow"} => s.recovered
       /\ Decide(m, s, last)
       /\ UNCHANGED last

\* _prepareRetry: the budget of consecutive retries.
MayRetry(s) == s.attempt < MaxRetries

\* The run m waits for is over.
PostRun(m) ==
    /\ call[m].pc = "running" /\ run.pc = "none"
    /\ LET a == sess.answer
           s == [sess EXCEPT !.answer = "none"]
       IN  IF a = "none" THEN Finish(m, s) /\ UNCHANGED <<run, steer, follow, last>>
           ELSE IF a = "retryable" /\ MayRetry(s)
           THEN Suspended(m, "sleeping", [s EXCEPT !.attempt = @ + 1]) /\ last' = Dropped
           ELSE CheckCompaction(m, a, [s EXCEPT !.attempt = IF a \in Errors THEN 0 ELSE @])
    /\ UNCHANGED <<delivered, saved, turns>>

\* The backoff is over.
Slept(m) ==
    /\ call[m].pc = "sleeping"
    /\ Continue(m, sess, last)
    /\ UNCHANGED <<delivered, last, saved, turns>>

\* The backoff was aborted.
RetryCancelled(m) ==
    /\ call[m].pc = "interrupted"
    /\ CheckCompaction(m, "retryable", [sess EXCEPT !.attempt = 0])
    /\ UNCHANGED <<delivered, saved, turns>>

\* _runAutoCompaction ends: the messages are rebuilt from the session, and an
\* error at their end is dropped before a retry.
Compacted(m) ==
    /\ call[m].pc \in {"compacting", "recovering"}
    /\ LET retry == call[m].pc = "recovering"
           kept  == IF retry /\ saved = "failed" THEN "ask" ELSE saved
       IN  /\ last' = kept
           /\ IF retry THEN Continue(m, sess, kept) ELSE Decide(m, sess, kept)
    /\ UNCHANGED <<delivered, saved, turns>>

\* It failed, was cancelled, or found nothing to compact.
CompactionFailed(m) ==
    /\ call[m].pc \in {"compacting", "recovering"}
    /\ Decide(m, sess, last)
    /\ UNCHANGED <<delivered, last, saved, turns>>

\* _emitAgentSettled goes on after the task review.
Settled(m) ==
    /\ call[m].pc = "settling"
    /\ call' = [call EXCEPT ![m].pc = "over"]
    /\ sess' = IdleResolved([sess EXCEPT !.review = FALSE])
    /\ UNCHANGED <<steer, follow, delivered, run, last, saved, turns>>
-----------------------------------------------------------------------------

LoopStep ==
    \/ PromptsEmitted \/ SteeringPoll \/ FollowUpPoll \/ Request \/ Streamed
    \/ ExecuteAll \/ BatchEnds \/ TurnEnds \/ RunEnds
    \/ \E i \in DOMAIN run.tools : PrepareToolCall(i) \/ ToolEnds(i)

RunStep(m) ==
    PostRun(m) \/ Slept(m) \/ RetryCancelled(m) \/ Compacted(m) \/ CompactionFailed(m) \/ Settled(m)

Next ==
    \/ LoopStep
    \/ \E m \in Msgs : \/ RunStep(m) \/ Prompt(m) \/ PromptChecked(m) \/ PromptRefused(m)
                       \/ PromptRuns(m) \/ CustomMessage(m)
    \/ ClearQueue \/ CommandStarts \/ CommandEnds \/ Reload \/ Abort \/ AbortAgain

Spec == Init /\ [][Next]_vars

\* Providers, tools, timers, compactions and reviews end, and continuations run.
FairSpec == Spec /\ WF_vars(LoopStep) /\ \A m \in Msgs : WF_vars(RunStep(m))

-----------------------------------------------------------------------------
(* Properties.                                                             *)

\* Every variable keeps its type; the retry counter keeps to its budget.
TypeOK ==
    /\ call \in [Msgs -> [pc : CallStates, pf : {"none", "untracked", "alone", "behind"},
                          custom : BOOLEAN, sent : BOOLEAN]]
    /\ \A q \in {steer, follow, delivered, run.pending} : q \in Seq(Msgs)
    /\ run.pc \in LoopStates /\ run.tools \in Seq(ToolStates)
    /\ last \in Kinds /\ saved \in Kinds
    /\ sess.current \in Msgs \cup {None} /\ sess.answer \in Answers \cup {"none"}
    /\ sess.attempt \in 0..MaxRetries
    /\ sess.abort \in {"none", "preflights", "waiting"}

\* Where message m is; the calls whose run is under way.
Places(m) == LET q == steer \o follow \o run.pending \o delivered
             IN  {i \in DOMAIN q : q[i] = m}
InRun == {m \in Msgs : call[m].pc \in {"running", "sleeping", "interrupted", "compacting", "recovering"}}

\* A message the session accepted is in one place, once: in a queue, with the
\* loop that drained it, or in the transcript; retries, aborts, compactions and
\* continuations neither lose nor repeat it.
ExactlyOnce == \A m \in Msgs : Cardinality(Places(m)) = IF call[m].sent THEN 1 ELSE 0

\* A request of a run that was not aborted before it answers every tool call of
\* the assistant message it follows.
LiveRequestComplete ==
    run.pc = "stream" /\ ~run.doomed => \A i \in DOMAIN run.tools : run.tools[i] \in {"ran", "failed"}

\* While no run is active for the session, the agent is not running.
IdleIsQuiet == ~sess.active => run.pc = "none"

\* After a compaction or a backoff the session retries: continue() is never
\* refused for want of something to answer.
RetryAccepted == ~sess.threw

\* Every run settles, whatever the provider answers: retries, overflow
\* recovery and queued continuations come to an end, unless two runs overlap.
EveryRunSettles ==
    [](Cardinality(InRun) <= 1) => \A m \in Msgs : m \in InRun ~> call[m].pc = "over"
=============================================================================
