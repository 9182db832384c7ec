------------------------------ MODULE Journal ------------------------------
(***************************************************************************)
(* The execution journal of a session: an append-only JSONL file that the   *)
(* operations of one process use one at a time, through a chain of promises, *)
(* and that outlives the process.  A crash or an error of the file system   *)
(* may cut a write anywhere; the next process repairs the tail of the file  *)
(* before it uses it.                                                       *)
(*                                                                          *)
(* The text of the file is its terminated lines and the unterminated rest.  *)
(* A line is an event or text that does not parse; what an event says is    *)
(* left out, it has the number the journal gives it and an identity.        *)
(***************************************************************************)
EXTENDS Integers, Sequences

CONSTANTS
    Faults,                 \* where a write may be cut, see Cut
    MaxBatch,               \* events in one batch
    MaxEvents,              \* events prepared in a behaviour (bound)
    MaxPending,             \* operations waiting for their turn (bound)
    MaxRestarts             \* processes that open the journal (bound)

(***************************************************************************)
(* "torn": after any number of whole lines, or in the middle of a line;     *)
(* "whole": between the last character of a line and its newline;           *)
(* "repair": the rewriting of the file by repairTail may be cut too.        *)
(***************************************************************************)
ASSUME JournalAssumption ==
    /\ Faults \subseteq {"torn", "whole", "repair"}
    /\ MaxBatch \in Nat /\ MaxEvents \in Nat
    /\ MaxPending \in Nat /\ MaxRestarts \in Nat

VARIABLES
    file,                   \* the terminated lines
    tail,                   \* the unterminated last line: at most one
    up,                     \* a process has the journal open
    revision,               \* ExecutionJournal.revision
    queue,                  \* operations chained on ExecutionJournal.tail
    writing,                \* the first of them is writing to the file
    content,                \* ... these lines
    issued,                 \* eventIds given out
    acked,                  \* events of the appends that were acknowledged
    seen,                   \* the last answer of readAfter(0)
    won,                    \* expectedRevisions of this process's acknowledged appends
    restarts                \* processes so far

disk == <<file, tail>>
vars == <<file, tail, up, revision, queue, writing, content, issued, acked,
          seen, won, restarts>>

Line == [ok : BOOLEAN, seq : Nat, id : Nat]
\* Text that is not an event: half a line, or two events run together.
Malformed == [ok |-> FALSE, seq |-> 0, id |-> 0]

NoRevision == -1
Operation == [kind : {"append", "read", "repair"}, n : 0 .. MaxBatch,
              expected : Int]

Members(s) == {s[i] : i \in 1 .. Len(s)}

\* parseJournalFile: a malformed terminated line throws, an unterminated one
\* is an event if it parses and a truncated tail otherwise.
Readable == \A i \in 1 .. Len(file) : file[i].ok
TruncatedTail == tail # << >> /\ ~ tail[1].ok
Events == IF TruncatedTail THEN file ELSE file \o tail

\* The first operation is done: the next of the chain may start.
Done == queue' = Tail(queue)

----------------------------------------------------------------------------
\* What a write of lines leaves when it stops after k of them and rest, the
\* beginning of the next one.
Cut(lines, k, rest) ==
    \/ rest = << >>
    \/ k < Len(lines) /\ rest = <<Malformed>>
    \/ k < Len(lines) /\ "whole" \in Faults /\ rest = <<lines[k + 1]>>

\* Text appended to the file goes on where the text of the file ends, which
\* is not always the beginning of a line.
AppendText(lines, k, rest) ==
    IF k = 0
    THEN /\ file' = file
         /\ tail' = CASE rest = << >> -> tail
                      [] rest # << >> /\ tail = << >> -> rest
                      [] OTHER -> <<Malformed>>
    ELSE /\ file' = file \o (IF tail = << >> THEN SubSeq(lines, 1, k)
                             ELSE <<Malformed>> \o SubSeq(lines, 2, k))
         /\ tail' = rest

\* Mutant: the last line is left out of what is written.
RewriteTextShort(lines, k, rest) ==
    /\ file' = SubSeq(lines, 1, k - 1)
    /\ tail' = rest

\* writeFile truncates the file first.
RewriteText(lines, k, rest) ==
    /\ file' = SubSeq(lines, 1, k)
    /\ tail' = rest

\* The write of the operation whose turn it is stops somewhere.
WriteCut ==
    \E k \in 0 .. Len(content),
       rest \in {<< >>, <<Malformed>>} \cup {<<l>> : l \in Members(content)} :
        /\ Cut(content, k, rest)
        /\ \/ /\ queue[1].kind = "append"
              /\ AppendText(content, k, rest)
           \/ /\ queue[1].kind = "repair"
              /\ IF "repair" \in Faults \/ (k = Len(content) /\ rest = << >>)
                 THEN RewriteText(content, k, rest)
                 ELSE UNCHANGED disk

\* Nothing is being written any more.
WriteEnds == writing' = FALSE /\ content' = << >>

\* The process ends: what it kept in memory is gone, the file is not.
Dies == up' = FALSE /\ queue' = << >> /\ WriteEnds

----------------------------------------------------------------------------
Init ==
    /\ file = << >> /\ tail = << >>
    /\ up = FALSE
    /\ revision = 0
    /\ queue = << >> /\ writing = FALSE /\ content = << >>
    /\ issued = 0
    /\ acked = {} /\ seen = << >> /\ won = << >>
    /\ restarts = 0

\* getExecutionJournal: a new ExecutionJournal, and repairTail first of all.
Open ==
    /\ ~ up
    /\ restarts < MaxRestarts
    /\ up' = TRUE
    /\ revision' = 0
    /\ queue' = <<[kind |-> "repair", n |-> 0, expected |-> NoRevision]>>
    /\ won' = << >>
    /\ restarts' = restarts + 1
    /\ UNCHANGED <<file, tail, writing, content, issued, acked, seen>>

\* serial: an operation waits for the ones called before it.  expected is the
\* revision of an earlier answer, or none was given.
Call(kind, n, expected) ==
    /\ up
    /\ Len(queue) < MaxPending
    /\ queue' = Append(queue, [kind |-> kind, n |-> n, expected |-> expected])
    /\ UNCHANGED <<file, tail, up, revision, writing, content, issued, acked, seen,
                   won, restarts>>

\* The turn of an operation of this kind has come.
Turn(kind) == up /\ queue # << >> /\ ~ writing /\ queue[1].kind = kind

\* Mutant: an append is refused without a look at what was expected.
RefusesUnreadable(op) ==
    \/ ~ Readable
    \/ TruncatedTail

\* Mutant: an append is refused without a look at the tail.
RefusesMalformed(op) ==
    \/ op.expected # NoRevision /\ op.expected # revision
    \/ ~ Readable

\* appendBatch refuses: another revision was expected, a line does not parse,
\* or the tail has not been repaired.
Refuses(op) ==
    \/ op.expected # NoRevision /\ op.expected # revision
    \/ ~ Readable
    \/ TruncatedTail

AppendRefused ==
    /\ Turn("append")
    /\ Refuses(queue[1]) \/ queue[1].n = 0
    /\ Done
    /\ UNCHANGED <<file, tail, up, revision, writing, content, issued, acked, seen,
                   won, restarts>>

\* Mutant: events numbered downwards.
PreparedDown(n) ==
    [i \in 1 .. n |-> [ok |-> TRUE, seq |-> Len(Events) - i, id |-> issued + i]]

\* Mutant: events numbered from the revision this process knows.
PreparedFromRevision(n) ==
    [i \in 1 .. n |-> [ok |-> TRUE, seq |-> revision + i, id |-> issued + i]]

\* The events are numbered from the number of events that were loaded.
Prepared(n) ==
    [i \in 1 .. n |-> [ok |-> TRUE, seq |-> Len(Events) + i, id |-> issued + i]]

AppendStarts ==
    /\ Turn("append")
    /\ ~ Refuses(queue[1])
    /\ queue[1].n > 0
    /\ issued + queue[1].n <= MaxEvents
    /\ writing' = TRUE
    /\ content' = Prepared(queue[1].n)
    /\ issued' = issued + queue[1].n
    /\ UNCHANGED <<file, tail, up, revision, queue, acked, seen, won, restarts>>

AppendWritten ==
    /\ writing /\ queue[1].kind = "append"
    /\ AppendText(content, Len(content), << >>)
    /\ revision' = content[Len(content)].seq
    /\ acked' = acked \cup Members(content)
    /\ won' = IF queue[1].expected = NoRevision THEN won
              ELSE Append(won, queue[1].expected)
    /\ WriteEnds
    /\ Done
    /\ UNCHANGED <<up, issued, seen, restarts>>

\* appendFile reports an error; part of the text, or all of it, is there.
AppendFails ==
    /\ writing /\ queue[1].kind = "append"
    /\ "torn" \in Faults
    /\ WriteCut
    /\ WriteEnds
    /\ Done
    /\ UNCHANGED <<up, revision, issued, acked, seen, won, restarts>>

\* repairTail of a file with a malformed line throws, and as nobody catches
\* it the process ends; without a truncated tail there is nothing to do; else
\* the events are to be written back.
Repair ==
    /\ Turn("repair")
    /\ IF ~ Readable THEN Dies
       ELSE IF ~ TruncatedTail THEN Done /\ UNCHANGED <<up, writing, content>>
       ELSE writing' = TRUE /\ content' = file /\ UNCHANGED <<up, queue>>
    /\ UNCHANGED <<file, tail, revision, issued, acked, seen, won, restarts>>

RepairWritten ==
    /\ writing /\ queue[1].kind = "repair"
    /\ RewriteText(content, Len(content), << >>)
    /\ revision' = Len(content)
    /\ WriteEnds
    /\ Done
    /\ UNCHANGED <<up, issued, acked, seen, won, restarts>>

\* readAfter, and inspect with it: the file is parsed anew for every answer.
Read ==
    /\ Turn("read")
    /\ seen' = IF Readable THEN Events ELSE seen
    /\ Done
    /\ UNCHANGED <<file, tail, up, revision, writing, content, issued, acked, won,
                   restarts>>

\* The process dies, of a crash or because the write of repairTail failed.
Crash ==
    /\ up
    /\ IF writing THEN "torn" \in Faults /\ WriteCut ELSE UNCHANGED disk
    /\ Dies
    /\ UNCHANGED <<revision, issued, acked, seen, won, restarts>>

Next ==
    \/ Open
    \/ \E n \in 0 .. MaxBatch, expected \in -1 .. MaxEvents :
          Call("append", n, expected)
    \/ Call("read", 0, NoRevision)
    \/ AppendRefused \/ AppendStarts \/ AppendWritten \/ AppendFails
    \/ Repair \/ RepairWritten
    \/ Read
    \/ Crash

Spec == Init /\ [][Next]_vars

----------------------------------------------------------------------------
\* Every variable keeps its type: the file has at most one unterminated line
\* and the journal's revision and numbers stay natural.
TypeOK ==
    /\ file \in Seq(Line)
    /\ tail \in Seq(Line) /\ Len(tail) <= 1
    /\ up \in BOOLEAN
    /\ revision \in Nat
    /\ queue \in Seq(Operation)
    /\ writing \in BOOLEAN
    /\ content \in Seq(Line)
    /\ issued \in Nat
    /\ acked \subseteq Line
    /\ seen \in Seq(Line)
    /\ won \in Seq(Int)
    /\ restarts \in Nat

\* seq is the persistence order: whatever was cut, torn off or repaired, a
\* journal that can be read has its events numbered 1, 2, 3 without a gap.
SeqInOrder == Readable => \A i \in 1 .. Len(Events) : Events[i].seq = i

\* An interrupted append leaves an incomplete last line at most, which
\* repairTail drops: no journal has a malformed line before its last one.
AlwaysReadable == Readable

\* expectedRevision is optimistic concurrency: of two appends that expect the
\* same revision at most one is acknowledged by a process.
CasExclusive == \A i, j \in 1 .. Len(won) : i < j => won[i] < won[j]

\* What a reader has been told stays true: across failed appends, crashes and
\* repairs the events it got are still there, at the same place.
ReadsStay == Len(seen) <= Len(Events) /\ \A i \in 1 .. Len(seen) : Events[i] = seen[i]

\* The journal is a durable log: the events that can be read only grow, and
\* what was acknowledged is never lost.
Log == INSTANCE DurableLog WITH log <- Events
LogSpec == Log!Spec

=============================================================================
