---------------------------- MODULE DynamicTasks ----------------------------
(* The dynamic task runtime: the plan the coordinator writes with          *)
(* tasks_update, the facts tools, workflows, background tasks and monitors *)
(* add to it, and the reviewer that patches it after a run, each accepted  *)
(* change being one revision, stored as an entry of the session's branch.  *)
(*                                                                         *)
(* An operation runs to its end inside `serial`, so it is one action, with *)
(* two exceptions: a review awaits the reviewer between its capture and    *)
(* its patch, and notifications between the patch and its entry, and the   *)
(* next run may settle and start another one meanwhile; and tree           *)
(* navigation moves the leaf several awaits before the runtime is rebuilt. *)
(*                                                                         *)
(* Abstracted: goal, titles, order, dependencies and hints of a plan are   *)
(* its `shape`; activity, blockers and times are left out, with the        *)
(* validation errors that are about them; which task a fact matches        *)
(* (selectTask's score) is any candidate, or none.                         *)
EXTENDS Integers, Sequences, FiniteSets, SequencesExt

CONSTANTS
    Tasks,           \* the ids of the plan's tasks
    Shapes,          \* the structures the coordinator may give the plan
    DependsOn,       \* [Tasks -> SUBSET Tasks]
    Tools,           \* tool calls
    Verifying,       \* the ones that run a verification
    Externals,       \* workflow nodes, background tasks and monitors
    Reported,        \* the statuses externals report
    Written,         \* the statuses the coordinator writes
    MaxFacts,        \* DYNAMIC_TASK_LIMITS.maxFacts
    MaxAccepted, MaxSequence, MaxReviews, MaxNavigations   \* bounds

ASSUME ConstantsOK ==
    /\ DependsOn \in [Tasks -> SUBSET Tasks]
    /\ Verifying \subseteq Tools
    /\ MaxFacts \in Nat \ {0}

Status == {"pending", "active", "completed", "failed", "blocked"}
NoPlan == [rev |-> 0]
NoReview == [through |-> 0]

VARIABLES
    snapshot,     \* the current plan, or NoPlan
    history,      \* snapshotHistory: the plans by revision
    lastReview,   \* the last review entry, or NoReview
    inReview,     \* the reviews in flight: what each captured, how far it is and
                  \* (history) whether a rebuild has left it running
    controller,   \* reviewController: the review abortReview reaches, or 0
    activeTools,  \* the started tools and the task each was given
    seen,         \* the plan the coordinator's prompt showed
    branch,       \* the entries of the session's current branch
    others,       \* the branches left, while one can still navigate to them
    moved,        \* the leaf has moved and the runtime is not rebuilt yet
    accepted,     \* the changes accepted so far, on any branch
    reviews, navigations   \* counters of the bounds

vars == <<snapshot, history, lastReview, inReview, controller, activeTools, seen, branch,
          others, moved, accepted, reviews, navigations>>

-----------------------------------------------------------------------------
(* Plans.                                                                  *)

Ids(facts) == {facts[i].id : i \in DOMAIN facts}

\* The newest n elements of s.
Newest(s, n) == IF Len(s) > n THEN SubSeq(s, Len(s) - n + 1, Len(s)) ELSE s

\* selectTask: the tasks a fact may be given to, at most one of them.
Selections(p, statuses) ==
    {{}} \union {{t} : t \in {u \in Tasks :
                                /\ p.status[u] \in statuses
                                /\ \A d \in DependsOn[u] : p.status[d] = "completed"}}

\* Facts new to the plan, in order, and the task that gets them with its new
\* status; old facts go, and the evidence that names them.
WithFacts(p, ids, selected, status) ==
    LET added == [i \in DOMAIN ids |-> [seq |-> p.factSeq + i, id |-> ids[i]]]
        facts == Newest(p.facts \o added, MaxFacts)
    IN  [p EXCEPT !.rev = @ + 1,
                  !.factSeq = @ + Len(ids),
                  !.facts = facts,
                  !.status = [t \in Tasks |-> IF t \in selected THEN status ELSE @[t]],
                  !.evidence = [t \in Tasks |->
                      (IF t \in selected THEN @[t] \union ToSet(ids) ELSE @[t])
                          \intersect Ids(facts)]]

\* The facts a review has not covered yet.
Unreviewed(p, r) == SelectSeq(p.facts, LAMBDA f : f.seq > r.through)

\* The history h with the plan p.
Recorded(h, p) == [r \in DOMAIN h \union {p.rev} |-> IF r = p.rev THEN p ELSE h[r]]

\* acceptSnapshot: the plan, its place in the history, its entry.
Accept(p) ==
    /\ accepted < MaxAccepted /\ p.factSeq <= MaxSequence
    /\ accepted' = accepted + 1
    /\ snapshot' = p
    /\ history' = Recorded(history, p)
    /\ branch' = Append(branch, [type |-> "snapshot", plan |-> p])

-----------------------------------------------------------------------------
(* Restoring from a branch.                                                *)

LatestPlan(h) == IF DOMAIN h = {} THEN NoPlan ELSE h[Cardinality(DOMAIN h)]

\* An entry that is the next revision extends what is restored; every other
\* one is skipped.
Extends(h, e) == e.type = "snapshot" /\ e.plan.rev = LatestPlan(h).rev + 1

WithEntry(h, e) == IF Extends(h, e) THEN Recorded(h, e.plan) ELSE h

\* The loop over the entries of the branch b: what is restored after i of them.
RestoredHistory(b) ==
    LET after[i \in 0..Len(b)] == IF i = 0 THEN <<>> ELSE WithEntry(after[i - 1], b[i])
    IN  after[Len(b)]

RestoredReview(b, p) ==
    FoldLeft(LAMBDA r, e : IF /\ p # NoPlan /\ e.type = "review"
                              /\ e.review.plan = p.plan
                              /\ e.review.through <= p.factSeq
                           THEN e.review ELSE r,
             NoReview, b)

\* Mutant: a rebuild that does not clear the history.
RebuildOverHistory ==
    /\ history' = LET h == RestoredHistory(branch)
                  IN  [r \in DOMAIN h \union DOMAIN history |->
                          IF r \in DOMAIN h THEN h[r] ELSE history[r]]
    /\ snapshot' = LatestPlan(RestoredHistory(branch))
    /\ lastReview' = RestoredReview(branch, snapshot')
    /\ activeTools' = <<>>

\* rebuild: what the entries of the branch say.
Rebuild ==
    /\ history' = RestoredHistory(branch)
    /\ snapshot' = LatestPlan(history')
    /\ lastReview' = RestoredReview(branch, snapshot')
    /\ activeTools' = <<>>

\* A review whose answer is in, or no longer counts, has its entry to write.
Over(r) ==
    [phase |-> "over", entry |-> [plan |-> r.plan.plan, through |-> Last(r.facts).seq]]

\* abortReview in it: the review that started last is aborted, if it is still
\* in flight; an earlier one goes on.  (The answer of the reviewer and its patch
\* are one step: only promise callbacks run between them.)
AbortReview ==
    /\ inReview' = [i \in DOMAIN inReview |->
                       IF inReview[i].phase # "asked" THEN inReview[i]
                       ELSE IF i = controller THEN Over(inReview[i])
                       ELSE [inReview[i] EXCEPT !.survived = TRUE]]
    /\ UNCHANGED controller

-----------------------------------------------------------------------------
(* The coordinator.                                                        *)

\* getPromptProjection: the prompt of a turn shows the current plan.
Project ==
    /\ seen # snapshot /\ accepted < MaxAccepted
    /\ seen' = snapshot
    /\ UNCHANGED <<snapshot, history, lastReview, inReview, controller, activeTools,
                   branch, others, moved, accepted, reviews, navigations>>

\* An update names the revision it was written for; if that is not the current
\* one, the two must differ in facts and progress only.
Rebasing == seen.rev # snapshot.rev

Rebases ==
    /\ snapshot # NoPlan
    /\ seen.rev \in DOMAIN history
    /\ history[seen.rev].plan = snapshot.plan
    /\ history[seen.rev].shape = snapshot.shape

\* Mutant: the coordinator's word, whatever happened since.
MergedAsWritten(written) == written

\* A status the coordinator only repeats gives way to the current one.
Merged(written) ==
    [t \in Tasks |-> IF Rebasing /\ written[t] = history[seen.rev].status[t]
                     THEN snapshot.status[t] ELSE written[t]]

\* The first plan, under a new planId.
NewPlan(shape, written) ==
    [rev |-> 1, plan |-> accepted + 1, shape |-> shape, status |-> written,
     evidence |-> [t \in Tasks |-> {}], facts |-> <<>>, factSeq |-> 0]

\* tasks_update.  A conflict and a plan that changes nothing are refused.
UpdatePlan(shape, written) ==
    /\ Rebasing => Rebases
    /\ \/ /\ snapshot = NoPlan
          /\ Accept(NewPlan(shape, written))
       \/ /\ snapshot # NoPlan
          /\ <<shape, Merged(written)>> # <<snapshot.shape, snapshot.status>>
          /\ Accept([snapshot EXCEPT !.rev = @ + 1, !.shape = shape,
                                     !.status = Merged(written)])
    /\ UNCHANGED <<lastReview, inReview, controller, activeTools, seen, others, moved,
                   reviews, navigations>>

-----------------------------------------------------------------------------
(* Facts.                                                                  *)

\* noteToolStarted.  A tool that only reads matches active tasks only.
ToolStarted(tool, mutates) ==
    /\ snapshot # NoPlan
    /\ <<tool, "started">> \notin Ids(snapshot.facts)
    /\ \E selected \in Selections(snapshot, IF mutates \/ tool \in Verifying
                                            THEN {"active", "pending"} ELSE {"active"}) :
        /\ Accept(WithFacts(snapshot, << <<tool, "started">> >>, selected, "active"))
        /\ activeTools' = [u \in DOMAIN activeTools \union {tool} |->
                              IF u = tool THEN selected ELSE activeTools[u]]
    /\ UNCHANGED <<lastReview, inReview, controller, seen, others, moved, reviews,
                   navigations>>

\* The facts a finished call gives the plan p, the ones it has left out.
NewFacts(p, tool, result) ==
    SelectSeq(<< <<tool, result>> >>
                  \o (IF tool \in Verifying THEN << <<tool, "verified", result>> >> ELSE <<>>),
              LAMBDA id : id \notin Ids(p.facts))

\* noteToolFinished: for the task the call was given when it started, or for
\* one that matches now; a verification decides the task's status, whatever it
\* was, other calls leave it.  A finish without a plan or a new fact is only
\* taken from the started tools.
ToolFinished(tool, result) ==
    /\ activeTools' = [u \in DOMAIN activeTools \ {tool} |-> activeTools[u]]
    /\ \/ /\ snapshot # NoPlan => NewFacts(snapshot, tool, result) = <<>>
          /\ UNCHANGED <<snapshot, history, branch, accepted>>
       \/ /\ snapshot # NoPlan
          /\ NewFacts(snapshot, tool, result) # <<>>
          /\ \E selected \in (IF tool \in DOMAIN activeTools /\ activeTools[tool] # {}
                              THEN {activeTools[tool]}
                              ELSE Selections(snapshot, {"active", "pending"})) :
             \E status \in (IF tool \in Verifying
                            THEN {IF result = "success" THEN "completed" ELSE "failed"}
                            ELSE IF selected = {} THEN {"pending"}
                            ELSE {snapshot.status[t] : t \in selected}) :
              Accept(WithFacts(snapshot, NewFacts(snapshot, tool, result), selected, status))
    /\ UNCHANGED <<lastReview, inReview, controller, seen, others, moved, reviews,
                   navigations>>

\* noteWorkflow, noteBackground, noteMonitor (recordFact): the status of the
\* matching task follows the external's.
ExternalReported(x, status) ==
    /\ snapshot # NoPlan
    /\ <<x, status>> \notin Ids(snapshot.facts)
    /\ \E selected \in Selections(snapshot, {"active", "pending"}) :
        Accept(WithFacts(snapshot, << <<x, status>> >>, selected,
                         IF status = "running" THEN "active" ELSE status))
    /\ UNCHANGED <<lastReview, inReview, controller, activeTools, seen, others, moved,
                   reviews, navigations>>

-----------------------------------------------------------------------------
(* The review after a run.                                                 *)

\* reviewAfterSettled up to the reviewer's call.  A prompt may start the next
\* run during a review, so nothing keeps two reviews from being in flight.
ReviewStarts ==
    /\ reviews < MaxReviews /\ accepted < MaxAccepted
    /\ snapshot # NoPlan
    /\ Unreviewed(snapshot, lastReview) # <<>>
    /\ reviews' = reviews + 1
    /\ inReview' = [i \in DOMAIN inReview \union {reviews'} |->
                       IF i = reviews'
                       THEN [phase |-> "asked", plan |-> snapshot, survived |-> FALSE,
                             facts |-> Unreviewed(snapshot, lastReview)]
                       ELSE inReview[i]]
    /\ controller' = reviews'
    /\ UNCHANGED <<snapshot, history, lastReview, activeTools, seen, branch, others,
                   moved, accepted, navigations>>

\* Mutant: the facts alone, which do not tell that the coordinator has
\* rewritten the plan.
PatchCurrentByFacts(r) == r.facts = Unreviewed(snapshot, lastReview)

\* The patch names the revision of the plan and the facts the reviewer judged:
\* both must be the current ones.
PatchCurrent(r) ==
    /\ r.plan.rev = snapshot.rev
    /\ r.facts = Unreviewed(snapshot, lastReview)

\* reviewerTransitionAllowed.
TransitionAllowed(from, to) ==
    \/ from = to
    \/ from = "pending" /\ to \in {"active", "failed", "blocked"}
    \/ from = "active" /\ to \in {"completed", "failed", "blocked"}
    \/ from \in {"failed", "blocked"} /\ to = "active"

\* To complete or reactivate a task takes a fact of this review.
PatchAllowed(r, t, to, evidence) ==
    /\ TransitionAllowed(snapshot.status[t], to)
    /\ evidence \subseteq Ids(snapshot.facts)
    /\ (to = "completed" \/ (snapshot.status[t] \in {"failed", "blocked"} /\ to = "active"))
           => evidence \intersect Ids(r.facts) # {}

\* applyReviewerPatch accepts the patch of the task t by the review i.
PatchAccepted(i, t, to, evidence) ==
    /\ inReview[i].phase = "asked"
    /\ snapshot # NoPlan
    /\ PatchCurrent(inReview[i])
    /\ PatchAllowed(inReview[i], t, to, evidence)
    /\ to # snapshot.status[t] \/ ~ evidence \subseteq snapshot.evidence[t]
    /\ Accept([snapshot EXCEPT !.rev = @ + 1, !.status[t] = to, !.evidence[t] = @ \union evidence])
    /\ inReview' = [inReview EXCEPT ![i] = Over(@)]
    /\ UNCHANGED <<lastReview, controller, activeTools, seen, others, moved, reviews,
                   navigations>>

\* Any other answer (a conflict, an invalid patch, no change, a failure, a
\* timeout, an abort) leaves the plan alone.
ReviewFails(i) ==
    /\ inReview[i].phase = "asked"
    /\ inReview' = [inReview EXCEPT ![i] = Over(@)]
    /\ UNCHANGED <<snapshot, history, lastReview, controller, activeTools, seen, branch,
                   others, moved, accepted, reviews, navigations>>

\* The end of reviewAfterSettled: the entry counts its facts as reviewed,
\* whatever the outcome was.
ReviewRecorded(i) ==
    /\ inReview[i].phase = "over"
    /\ controller' = IF controller = i THEN 0 ELSE controller
    /\ lastReview' = inReview[i].entry
    /\ branch' = Append(branch, [type |-> "review", review |-> lastReview'])
    /\ inReview' = [j \in DOMAIN inReview \ {i} |-> inReview[j]]
    /\ UNCHANGED <<snapshot, history, activeTools, seen, others, moved, accepted, reviews,
                   navigations>>

-----------------------------------------------------------------------------
(* The session.                                                            *)

\* navigateTree moves the leaf to an entry of this or an earlier branch ...
Navigate ==
    /\ ~moved /\ navigations < MaxNavigations
    /\ \E b \in UNION {Prefixes(o) : o \in others \union {branch}} :
        /\ b # branch
        /\ branch' = b
    /\ navigations' = navigations + 1
    /\ others' = IF navigations' < MaxNavigations THEN others \union {branch} ELSE {}
    /\ moved' = TRUE
    /\ UNCHANGED <<snapshot, history, lastReview, inReview, controller, activeTools, seen,
                   accepted, reviews>>

\* ... and rebuilds the runtime when the workflows are cancelled and the
\* monitors, background tasks and workflows rebuilt.
NavigateRebuilds ==
    /\ moved
    /\ moved' = FALSE
    /\ Rebuild /\ AbortReview
    /\ UNCHANGED <<seen, branch, others, accepted, reviews, navigations>>

\* reload rebuilds in place, at any time.
Reload ==
    /\ Rebuild /\ AbortReview
    /\ UNCHANGED <<seen, branch, others, moved, accepted, reviews, navigations>>

\* The process ends, with dispose or without, and starts on the same branch.
Restart ==
    /\ Rebuild
    /\ inReview' = <<>> /\ controller' = 0 /\ seen' = NoPlan /\ moved' = FALSE
    /\ UNCHANGED <<branch, others, accepted, reviews, navigations>>

-----------------------------------------------------------------------------
Init ==
    /\ snapshot = NoPlan /\ history = <<>> /\ lastReview = NoReview
    /\ inReview = <<>> /\ controller = 0 /\ activeTools = <<>> /\ seen = NoPlan
    /\ branch = <<>> /\ others = {} /\ moved = FALSE
    /\ accepted = 0 /\ reviews = 0 /\ navigations = 0

Next ==
    \/ Project
    \/ \E shape \in Shapes, written \in [Tasks -> Written] : UpdatePlan(shape, written)
    \/ \E tool \in Tools, mutates \in BOOLEAN : ToolStarted(tool, mutates)
    \/ \E tool \in Tools, result \in {"success", "failed"} : ToolFinished(tool, result)
    \/ \E x \in Externals, status \in Reported : ExternalReported(x, status)
    \/ ReviewStarts
    \/ \E i \in DOMAIN inReview :
        \/ ReviewFails(i) \/ ReviewRecorded(i)
        \/ /\ inReview[i].phase = "asked"
           /\ \E t \in Tasks, to \in Status, evidence \in {{}, Ids(inReview[i].facts)} :
                PatchAccepted(i, t, to, evidence)
    \/ Navigate \/ NavigateRebuilds \/ Reload \/ Restart

Spec == Init /\ [][Next]_vars

-----------------------------------------------------------------------------
(* Properties.                                                             *)

\* The plan in memory and the history the next tasks_update is rebased on are
\* the ones a resume of the session would restore from the branch, also after
\* writes that raced with a navigation (acceptSnapshot, navigateTree, rebuild).
RecoveryMatchesLive ==
    ~moved => history = RestoredHistory(branch) /\ snapshot = LatestPlan(history)

\* A patch is applied to the very plan the reviewer judged, whatever was
\* written, reloaded or navigated while it thought and however many reviews are
\* in flight (the revision and the facts hash in applyReviewerPatch).  The one
\* exception is a review that a later one has taken the controller from: a
\* rebuild does not abort it, so its patch may meet another branch's plan.
PatchOnJudgedPlan ==
    [][\A i \in DOMAIN inReview \intersect DOMAIN inReview' :
          /\ inReview[i].phase = "asked" /\ inReview'[i].phase = "over"
          /\ accepted' # accepted /\ ~inReview[i].survived
          => snapshot = inReview[i].plan]_vars

\* A tasks_update never puts a task back to the status the coordinator was
\* shown: progress made since its prompt survives a plan that only repeats the
\* older status (the rebase in updatePlan).
NoProgressReverted ==
    [][(\E shape \in Shapes, written \in [Tasks -> Written] : UpdatePlan(shape, written))
          /\ seen.rev \in DOMAIN history /\ seen = history[seen.rev]
          => \A t \in Tasks : \/ snapshot'.status[t] = snapshot.status[t]
                              \/ snapshot'.status[t] # seen.status[t]]_vars

\* The plan is local to its branch: each revision restored from the branch
\* belongs to the plan of the one before and carries on from its facts.
BranchLocal ==
    \A r \in DOMAIN history : r + 1 \in DOMAIN history =>
        LET earlier == history[r]
            later == history[r + 1]
            added == SelectSeq(later.facts, LAMBDA f : f.seq > earlier.factSeq)
        IN  /\ earlier.plan = later.plan
            /\ Newest(earlier.facts \o added, MaxFacts) = later.facts
=============================================================================
