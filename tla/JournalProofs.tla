---------------------------- MODULE JournalProofs ----------------------------
(***************************************************************************)
(* Proofs about the execution journal, for every batch size, every number  *)
(* of events and processes, and every fault model the theorem names.        *)
(***************************************************************************)
EXTENDS Journal, SequenceTheorems, TLAPS

\* The operation whose write is under way.
Appending == writing /\ queue[1].kind = "append"
Repairing == writing /\ queue[1].kind = "repair"

\* Lines numbered from a number on, all of them events.
Numbered(lines, from) ==
    \A i \in 1 .. Len(lines) : lines[i].ok /\ lines[i].seq = from + i

\* What a write under way stands on: the operation is the first of the chain,
\* the file is as it was when the operation read it, and its lines follow the
\* last event of the file, or are the events of the file.
WriteInv ==
    /\ writing => up /\ queue # << >> /\ queue[1].kind \in {"append", "repair"}
    /\ Appending => /\ Readable /\ ~ TruncatedTail
                    /\ content # << >>
                    /\ Numbered(content, Len(Events))
    /\ Repairing => Readable /\ TruncatedTail /\ content = file

\* The lines of a readable file and a whole last line are numbered in order.
FileInv ==
    /\ Readable => Numbered(file, 0)
    /\ tail # << >> /\ tail[1].ok /\ Readable => tail[1].seq = Len(file) + 1

Inv == TypeOK /\ WriteInv /\ FileInv

\* The lines of a write and where it stops.
LEMMA CutType ==
    ASSUME TypeOK, NEW k \in 0 .. Len(content), NEW rest, Cut(content, k, rest)
    PROVE  /\ rest \in Seq(Line) /\ Len(rest) <= 1
           /\ rest # << >> => k < Len(content) /\ (rest[1] = Malformed \/ rest[1] = content[k + 1])
<1>1. Malformed \in Line /\ content \in Seq(Line)
    BY DEF TypeOK, Malformed, Line
<1>2. CASE rest = << >>
    BY <1>2
<1>3. CASE k < Len(content) /\ rest = <<Malformed>>
    BY <1>1, <1>3
<1>4. CASE k < Len(content) /\ rest = <<content[k + 1]>>
  <2>1. content[k + 1] \in Line
      BY <1>1, <1>4
  <2> QED BY <1>4, <2>1
<1> QED BY <1>2, <1>3, <1>4 DEF Cut

\* Text appended to the file gives lines again.
LEMMA AppendType ==
    ASSUME TypeOK, NEW k \in 0 .. Len(content), NEW rest \in Seq(Line),
           Len(rest) <= 1, AppendText(content, k, rest)
    PROVE  /\ file' \in Seq(Line)
           /\ tail' \in Seq(Line) /\ Len(tail') <= 1
<1>1. <<Malformed>> \in Seq(Line) /\ Len(<<Malformed>>) = 1
    BY DEF Malformed, Line
<1>2. SubSeq(content, 1, k) \in Seq(Line) /\ SubSeq(content, 2, k) \in Seq(Line)
    BY DEF TypeOK
<1>3. CASE k = 0
  <2>1. file' = file /\ (tail' = tail \/ tail' = rest \/ tail' = <<Malformed>>)
      BY <1>3 DEF AppendText
  <2>2. tail' = <<Malformed>> => tail' \in Seq(Line) /\ Len(tail') <= 1
      BY <1>1
  <2> QED BY <2>1, <2>2 DEF TypeOK
<1>4. CASE k # 0 /\ tail = << >>
  <2>1. file' = file \o SubSeq(content, 1, k) /\ tail' = rest
      BY <1>4 DEF AppendText
  <2> QED BY <1>2, <2>1 DEF TypeOK
<1>5. CASE k # 0 /\ tail # << >>
  <2>1. <<Malformed>> \o SubSeq(content, 2, k) \in Seq(Line)
      BY <1>1, <1>2
  <2>2. file' = file \o (<<Malformed>> \o SubSeq(content, 2, k)) /\ tail' = rest
      BY <1>5 DEF AppendText
  <2> QED BY <2>1, <2>2 DEF TypeOK
<1> QED BY <1>3, <1>4, <1>5

\* A file rewritten up to some line is a file.
LEMMA RewriteType ==
    ASSUME TypeOK, NEW k \in 0 .. Len(content), NEW rest \in Seq(Line),
           Len(rest) <= 1, RewriteText(content, k, rest)
    PROVE  /\ file' \in Seq(Line)
           /\ tail' \in Seq(Line) /\ Len(tail') <= 1
BY DEF TypeOK, RewriteText

\* A write that is cut leaves a file.
LEMMA WriteCutType ==
    ASSUME TypeOK, WriteCut
    PROVE  /\ file' \in Seq(Line)
           /\ tail' \in Seq(Line) /\ Len(tail') <= 1
<1>1. PICK k \in 0 .. Len(content),
              rest \in {<< >>, <<Malformed>>} \cup {<<l>> : l \in Members(content)} :
           /\ Cut(content, k, rest)
           /\ \/ AppendText(content, k, rest)
              \/ RewriteText(content, k, rest)
              \/ UNCHANGED disk
    BY DEF WriteCut
<1>2. rest \in Seq(Line) /\ Len(rest) <= 1
    BY <1>1, CutType
<1> QED BY <1>1, <1>2, AppendType, RewriteType DEF disk, TypeOK

\* Nothing is being written once a write ends.
LEMMA WriteEndsType ==
    ASSUME WriteEnds
    PROVE  writing' \in BOOLEAN /\ content' \in Seq(Line)
<1>1. writing' \in BOOLEAN
    BY DEF WriteEnds
<1>2. content' \in Seq(Line)
    BY DEF WriteEnds
<1> QED BY <1>1, <1>2

\* A process that dies keeps the types.
LEMMA DiesType ==
    ASSUME Dies
    PROVE  /\ up' \in BOOLEAN /\ queue' \in Seq(Operation)
           /\ writing' \in BOOLEAN /\ content' \in Seq(Line)
<1>1. up' \in BOOLEAN
    BY DEF Dies
<1>2. queue' \in Seq(Operation)
    BY DEF Dies
<1> QED BY <1>1, <1>2, WriteEndsType DEF Dies

\* Types, in one step per action.
LEMMA TypeStep == TypeOK /\ WriteInv /\ [Next]_vars => TypeOK'
<1> SUFFICES ASSUME TypeOK, WriteInv, [Next]_vars PROVE TypeOK'
    OBVIOUS
<1> USE JournalAssumption DEF TypeOK
<1>1. CASE Open
    BY <1>1 DEF Open, Operation, NoRevision
<1>2. CASE \E n \in 0 .. MaxBatch, expected \in -1 .. MaxEvents :
               Call("append", n, expected)
    BY <1>2 DEF Call, Operation
<1>3. CASE Call("read", 0, NoRevision)
    BY <1>3 DEF Call, Operation, NoRevision
<1>4. CASE AppendRefused
    BY <1>4 DEF AppendRefused, Turn, Done
<1>5. CASE AppendStarts
  <2>1. queue[1] \in Operation
      BY <1>5 DEF AppendStarts, Turn
  <2>2. PICK n \in Nat : n = queue[1].n
      BY <2>1 DEF Operation
  <2>3. Len(Events) \in Nat
      BY DEF Events
  <2>4. \A i \in 1 .. n : [ok |-> TRUE, seq |-> Len(Events) + i, id |-> issued + i] \in Line
      BY <2>3 DEF Line
  <2>5. Prepared(n) \in Seq(Line)
      BY ONLY <2>4, n \in Nat DEF Prepared
  <2>6. writing' \in BOOLEAN
      BY <1>5 DEF AppendStarts
  <2>7. content' = Prepared(n) /\ issued' = issued + n
      BY <1>5, <2>2 DEF AppendStarts
  <2>8. issued' \in Nat /\ content' \in Seq(Line)
      BY <2>5, <2>7
  <2> QED BY <1>5, <2>6, <2>8 DEF AppendStarts
<1>6. CASE AppendWritten
  <2>1. /\ file' \in Seq(Line)
        /\ tail' \in Seq(Line) /\ Len(tail') <= 1
    <3>1. /\ Len(content) \in 0 .. Len(content)
          /\ << >> \in Seq(Line) /\ Len(<< >>) <= 1
        OBVIOUS
    <3>2. AppendText(content, Len(content), << >>)
        BY <1>6 DEF AppendWritten
    <3> QED BY <3>1, <3>2, AppendType
  <2>2. queue # << >> /\ content # << >>
      BY <1>6 DEF AppendWritten, WriteInv, Appending
  <2>3. content[Len(content)] \in Line /\ Members(content) \subseteq Line
      BY <2>2 DEF Members
  <2>4. queue[1] \in Operation
      BY <2>2
  <2>5. won' \in Seq(Int)
      BY <1>6, <2>4 DEF AppendWritten, Operation
  <2>6. revision' \in Nat /\ acked' \subseteq Line
      BY <1>6, <2>3 DEF AppendWritten, Line
  <2>7. queue' \in Seq(Operation)
      BY <1>6, <2>2 DEF AppendWritten, Done
  <2> QED BY <1>6, <2>1, <2>5, <2>6, <2>7, WriteEndsType DEF AppendWritten
<1>7. CASE AppendFails
  <2>1. queue' \in Seq(Operation)
      BY <1>7 DEF AppendFails, Done, WriteInv
  <2>2. /\ file' \in Seq(Line)
        /\ tail' \in Seq(Line) /\ Len(tail') <= 1
      BY <1>7, WriteCutType DEF AppendFails
  <2> QED BY <1>7, <2>1, <2>2, WriteEndsType DEF AppendFails
<1>8. CASE Repair
  <2>1. CASE Dies
      BY <1>8, <2>1, DiesType DEF Repair
  <2>2. CASE Done /\ UNCHANGED <<up, writing, content>>
      BY <1>8, <2>2 DEF Repair, Turn, Done
  <2>3. CASE writing' = TRUE /\ content' = file /\ UNCHANGED <<up, queue>>
    <3>1. writing' \in BOOLEAN
        BY <2>3
    <3> QED BY <1>8, <2>3, <3>1 DEF Repair
  <2> QED BY <1>8, <2>1, <2>2, <2>3 DEF Repair
<1>9. CASE RepairWritten
  <2>1. queue' \in Seq(Operation)
      BY <1>9 DEF RepairWritten, Done, WriteInv
  <2>2. /\ file' \in Seq(Line)
        /\ tail' \in Seq(Line) /\ Len(tail') <= 1
    <3>1. /\ Len(content) \in 0 .. Len(content)
          /\ << >> \in Seq(Line) /\ Len(<< >>) <= 1
        OBVIOUS
    <3>2. RewriteText(content, Len(content), << >>)
        BY <1>9 DEF RepairWritten
    <3> QED BY <3>1, <3>2, RewriteType
  <2> QED BY <1>9, <2>1, <2>2, WriteEndsType DEF RepairWritten
<1>10. CASE Read
    BY <1>10 DEF Read, Turn, Done, Events
<1>11. CASE Crash
  <2>1. /\ file' \in Seq(Line)
        /\ tail' \in Seq(Line) /\ Len(tail') <= 1
      BY <1>11, WriteCutType DEF Crash, disk
  <2> QED BY <1>11, <2>1, DiesType DEF Crash
<1>12. CASE UNCHANGED vars
    BY <1>12 DEF vars
<1> QED BY <1>1, <1>2, <1>3, <1>4, <1>5, <1>6, <1>7, <1>8, <1>9, <1>10, <1>11,
           <1>12 DEF Next

\* A rest is one line.
LEMMA OneLine ==
    ASSUME NEW s \in Seq(Line), Len(s) <= 1, s # << >>
    PROVE  Len(s) = 1
<1>1. PICK n \in Nat : n = Len(s) /\ n # 0
    BY EmptySeq
<1>2. n <= 1
    BY <1>1
<1>3. n = 1
    BY <1>1, <1>2
<1> QED BY <1>1, <1>3

\* What the file says changes only with the file.
LEMMA SameDisk ==
    ASSUME UNCHANGED disk
    PROVE  /\ Readable' <=> Readable
           /\ TruncatedTail' <=> TruncatedTail
           /\ Events' = Events
           /\ FileInv' <=> FileInv
BY DEF disk, Readable, TruncatedTail, Events, FileInv, Numbered

\* A write starts on a file that has been read, and nothing else touches the
\* file before it is over.
LEMMA WriteStep == TypeOK /\ WriteInv /\ [Next]_vars => WriteInv'
<1> SUFFICES ASSUME TypeOK, WriteInv, [Next]_vars PROVE WriteInv'
    OBVIOUS
<1>0. (~ writing') => WriteInv'
    BY DEF WriteInv, Appending, Repairing
<1>1. CASE Open
    BY <1>0, <1>1 DEF Open, WriteInv
<1>2. ASSUME NEW kind, NEW n, NEW expected, Call(kind, n, expected) PROVE WriteInv'
  <2>1. UNCHANGED disk /\ UNCHANGED <<up, writing, content>>
      BY <1>2 DEF Call, disk
  <2>2. CASE writing
    <3>1. queue \in Seq(Operation) /\ queue # << >>
        BY <2>2 DEF TypeOK, WriteInv
    <3>2. queue'[1] = queue[1] /\ queue' # << >>
        BY <1>2, <3>1 DEF Call
    <3> QED BY <2>1, <3>2, SameDisk DEF WriteInv, Appending, Repairing, Numbered, disk
  <2> QED BY <1>0, <2>1, <2>2
<1>4. CASE AppendRefused \/ Read
    BY <1>0, <1>4 DEF AppendRefused, Read, Turn
<1>5. CASE AppendStarts
  <2>1. UNCHANGED disk /\ UNCHANGED <<up, queue>> /\ queue # << >> /\ up /\ queue[1].kind = "append"
      BY <1>5 DEF AppendStarts, Turn, disk
  <2>2. Readable /\ ~ TruncatedTail
      BY <1>5 DEF AppendStarts, Refuses
  <2>3. PICK n \in Nat : n = queue[1].n /\ n > 0
    <3>1. queue[1] \in Operation
        BY <2>1 DEF TypeOK
    <3> QED BY <1>5, <3>1, JournalAssumption DEF AppendStarts, Operation
  <2>4. Len(Events) \in Nat
      BY DEF TypeOK, Events
  <2>5. content' = Prepared(n)
      BY <1>5, <2>3 DEF AppendStarts
  <2>6. content' # << >> /\ Numbered(content', Len(Events))
      BY <2>3, <2>4, <2>5 DEF Prepared, Numbered
  <2> QED BY <2>1, <2>2, <2>6, SameDisk DEF WriteInv, Appending, Repairing
<1>6. CASE AppendWritten \/ AppendFails \/ RepairWritten \/ Crash
    BY <1>0, <1>6 DEF AppendWritten, AppendFails, RepairWritten, Crash, Dies, WriteEnds
<1>7. CASE Repair
  <2>1. CASE Dies
      BY <1>0, <2>1 DEF Dies, WriteEnds
  <2>2. CASE Done /\ UNCHANGED <<up, writing, content>>
      BY <1>0, <1>7, <2>2 DEF Repair, Turn
  <2>3. CASE /\ Readable /\ TruncatedTail
             /\ writing' = TRUE /\ content' = file /\ UNCHANGED <<up, queue>>
    <3>1. UNCHANGED disk /\ up /\ queue # << >> /\ queue[1].kind = "repair"
        BY <1>7 DEF Repair, Turn, disk
    <3> QED BY <2>3, <3>1, SameDisk DEF WriteInv, Appending, Repairing, disk
  <2> QED BY <1>7, <2>1, <2>2, <2>3 DEF Repair
<1>8. CASE UNCHANGED vars
    BY <1>8, SameDisk DEF vars, WriteInv, Appending, Repairing, Numbered, disk
<1> QED BY <1>1, <1>2, <1>4, <1>5, <1>6, <1>7, <1>8 DEF Next

\* An append to a whole unterminated line runs the two together.
LEMMA GluedLine ==
    ASSUME NEW k \in 0 .. Len(content), content \in Seq(Line), file \in Seq(Line),
           file' = file \o (<<Malformed>> \o SubSeq(content, 2, k))
    PROVE  ~ Readable'
<1>1. /\ <<Malformed>> \o SubSeq(content, 2, k) \in Seq(Line)
      /\ Len(<<Malformed>> \o SubSeq(content, 2, k)) >= 1
      /\ (<<Malformed>> \o SubSeq(content, 2, k))[1] = Malformed
  <2>1. <<Malformed>> \in Seq(Line) /\ Len(<<Malformed>>) = 1 /\ <<Malformed>>[1] = Malformed
      BY DEF Malformed, Line
  <2>2. SubSeq(content, 2, k) \in Seq(Line)
      OBVIOUS
  <2> QED BY <2>1, <2>2
<1>2. Len(file) + 1 \in 1 .. Len(file') /\ file'[Len(file) + 1] = Malformed
    BY <1>1
<1> QED BY <1>2 DEF Readable, Malformed

\* Appended text leaves a readable file in order, or an unreadable one.
LEMMA AppendInOrder ==
    ASSUME TypeOK, WriteInv, FileInv, Appending,
           NEW k \in 0 .. Len(content), NEW rest, Cut(content, k, rest),
           AppendText(content, k, rest)
    PROVE  FileInv'
<1>1. /\ content \in Seq(Line) /\ file \in Seq(Line) /\ tail \in Seq(Line)
      /\ Len(tail) <= 1 /\ rest \in Seq(Line) /\ Len(rest) <= 1
    BY CutType DEF TypeOK
<1>2. Readable /\ ~ TruncatedTail /\ Numbered(content, Len(Events)) /\ Numbered(file, 0)
    BY DEF WriteInv, FileInv
<1>3. rest # << >> /\ rest[1].ok => k < Len(content) /\ rest[1].seq = Len(Events) + k + 1
  <2>1. rest # << >> /\ rest[1].ok => k < Len(content) /\ rest[1] = content[k + 1]
      BY CutType DEF Malformed
  <2> QED BY <1>1, <1>2, <2>1 DEF Numbered
<1>4. CASE k = 0 /\ rest = << >>
    BY <1>4, SameDisk DEF AppendText, disk
<1>5. CASE k = 0 /\ rest # << >> /\ tail = << >>
  <2>1. file' = file /\ tail' = rest
      BY <1>5 DEF AppendText
  <2>2. Len(Events) = Len(file)
      BY <1>1, <1>2, <1>5 DEF Events
  <2> QED BY <1>1, <1>2, <1>3, <1>5, <2>1, <2>2 DEF FileInv, Readable, Numbered
<1>6. CASE k = 0 /\ rest # << >> /\ tail # << >>
  <2>1. file' = file /\ tail' = <<Malformed>>
      BY <1>6 DEF AppendText
  <2>2. ~ tail'[1].ok
      BY <2>1 DEF Malformed
  <2> QED BY <1>2, <2>1, <2>2 DEF FileInv, Readable, Numbered
<1>7. CASE k # 0 /\ tail = << >>
  <2>1. file' = file \o SubSeq(content, 1, k) /\ tail' = rest
      BY <1>7 DEF AppendText
  <2>2. Len(Events) = Len(file)
      BY <1>1, <1>2, <1>7 DEF Events
  <2>3. Len(file') = Len(file) + k
      BY <1>1, <2>1
  <2>4. ASSUME NEW i \in 1 .. Len(file') PROVE file'[i].ok /\ file'[i].seq = i
    <3>1. CASE i <= Len(file)
      <4>1. file'[i] = file[i]
          BY <1>1, <2>1, <2>3, <3>1
      <4> QED BY <1>1, <1>2, <3>1, <4>1 DEF Numbered
    <3>2. CASE i > Len(file)
      <4>1. file'[i] = content[i - Len(file)]
          BY <1>1, <2>1, <2>3, <3>2
      <4>2. i - Len(file) \in 1 .. Len(content)
          BY <1>1, <2>3, <3>2
      <4> QED BY <1>1, <1>2, <2>2, <4>1, <4>2 DEF Numbered
    <3> QED BY <1>1, <3>1, <3>2
  <2>5. Numbered(file', 0)
      BY <1>1, <2>3, <2>4 DEF Numbered
  <2>6. tail' # << >> /\ tail'[1].ok => tail'[1].seq = Len(file') + 1
      BY <1>1, <1>3, <2>1, <2>2, <2>3
  <2> QED BY <2>5, <2>6 DEF FileInv
<1>8. CASE k # 0 /\ tail # << >>
  <2>1. file' = file \o (<<Malformed>> \o SubSeq(content, 2, k))
      BY <1>8 DEF AppendText
  <2>2. ~ Readable'
      BY <1>1, <2>1, GluedLine
  <2> QED BY <2>2 DEF FileInv
<1> QED BY <1>4, <1>5, <1>6, <1>7, <1>8

\* Rewritten text is a beginning of what was read.
LEMMA RewriteInOrder ==
    ASSUME TypeOK, WriteInv, FileInv, Repairing,
           NEW k \in 0 .. Len(content), NEW rest, Cut(content, k, rest),
           RewriteText(content, k, rest)
    PROVE  FileInv'
<1>1. /\ content \in Seq(Line) /\ content = file /\ Numbered(file, 0)
      /\ rest \in Seq(Line) /\ Len(rest) <= 1
    BY CutType DEF TypeOK, WriteInv, FileInv
<1>2. rest # << >> /\ rest[1].ok => k < Len(content) /\ rest[1].seq = k + 1
  <2>1. rest # << >> /\ rest[1].ok => k < Len(content) /\ rest[1] = content[k + 1]
      BY CutType DEF Malformed
  <2> QED BY <1>1, <2>1 DEF Numbered
<1>3. file' = SubSeq(file, 1, k) /\ tail' = rest
    BY <1>1 DEF RewriteText
<1>4. Len(file') = k /\ \A i \in 1 .. k : file'[i] = file[i]
    BY <1>1, <1>3
<1>5. Numbered(file', 0)
    BY <1>1, <1>4 DEF Numbered
<1> QED BY <1>1, <1>2, <1>3, <1>4, <1>5 DEF FileInv

\* What a cut write leaves is numbered, as the write was numbered from the end
\* of the file.
LEMMA CutInOrder ==
    ASSUME TypeOK, WriteInv, FileInv, writing, WriteCut
    PROVE  FileInv'
<1>1. PICK k \in 0 .. Len(content),
              rest \in {<< >>, <<Malformed>>} \cup {<<l>> : l \in Members(content)} :
           /\ Cut(content, k, rest)
           /\ \/ Appending /\ AppendText(content, k, rest)
              \/ Repairing /\ RewriteText(content, k, rest)
              \/ UNCHANGED disk
    BY DEF WriteCut, Appending, Repairing
<1> QED BY <1>1, AppendInOrder, RewriteInOrder, SameDisk

\* Every step keeps the numbering of a file that can be read.
LEMMA FileStep == Inv /\ [Next]_vars => FileInv'
<1> SUFFICES ASSUME TypeOK, WriteInv, FileInv, [Next]_vars PROVE FileInv'
    BY DEF Inv
<1>0. ASSUME UNCHANGED disk PROVE FileInv'
    BY <1>0, SameDisk
<1>1. CASE Open \/ AppendRefused \/ AppendStarts \/ Repair \/ Read \/ UNCHANGED vars
    BY <1>0, <1>1 DEF Open, AppendRefused, AppendStarts, Repair, Read, vars, disk
<1>2. ASSUME NEW kind, NEW n, NEW expected, Call(kind, n, expected) PROVE FileInv'
    BY <1>0, <1>2 DEF Call, disk
<1>3. Len(content) \in 0 .. Len(content) /\ Cut(content, Len(content), << >>)
    BY DEF TypeOK, Cut
<1>4. CASE AppendWritten
    BY <1>3, <1>4, AppendInOrder DEF AppendWritten, Appending
<1>5. CASE RepairWritten
    BY <1>3, <1>5, RewriteInOrder DEF RepairWritten, Repairing
<1>6. CASE AppendFails
    BY <1>6, CutInOrder DEF AppendFails
<1>7. CASE Crash
    BY <1>0, <1>7, CutInOrder DEF Crash
<1> QED BY <1>1, <1>2, <1>4, <1>5, <1>6, <1>7 DEF Next

\* The invariant holds at first.
LEMMA Initial == Init => Inv
<1> SUFFICES ASSUME Init PROVE Inv
    OBVIOUS
<1>1. up \in BOOLEAN /\ writing \in BOOLEAN
    BY DEF Init
<1>2. TypeOK
    BY <1>1 DEF Init, TypeOK
<1>3. WriteInv /\ FileInv
    BY DEF Init, WriteInv, FileInv, Appending, Repairing, Numbered
<1> QED BY <1>2, <1>3 DEF Inv

\* The invariant the other results stand on.
LEMMA Invariance == Spec => []Inv
<1>1. Inv /\ [Next]_vars => Inv'
    BY TypeStep, WriteStep, FileStep DEF Inv
<1> QED BY <1>1, Initial, PTL DEF Spec

\* Every variable of the journal keeps its type.
THEOREM TypeCorrect == Spec => []TypeOK
<1>1. Inv => TypeOK
    BY DEF Inv
<1> QED BY <1>1, Invariance, PTL

\* seq is the persistence order whatever was cut: no fault model is assumed.
THEOREM InOrder == Spec => []SeqInOrder
<1>1. Inv => SeqInOrder
  <2> SUFFICES ASSUME Inv, Readable, NEW i \in 1 .. Len(Events) PROVE Events[i].seq = i
      BY DEF SeqInOrder
  <2>1. file \in Seq(Line) /\ tail \in Seq(Line) /\ Len(tail) <= 1 /\ Numbered(file, 0)
      BY DEF Inv, TypeOK, FileInv
  <2>2. CASE TruncatedTail \/ tail = << >>
    <3>1. tail = << >> => file \o tail = file
        BY <2>1
    <3>2. Events = file
        BY <2>2, <3>1 DEF Events
    <3> QED BY <2>1, <3>2 DEF Numbered
  <2>3. CASE ~ TruncatedTail /\ tail # << >>
    <3>0. Len(tail) = 1
        BY <2>1, <2>3, OneLine
    <3>1. Events = file \o tail
        BY <2>3 DEF Events
    <3>6. Len(Events) = Len(file) + 1
      <4>1. Len(file \o tail) = Len(file) + Len(tail)
          BY <2>1, ConcatProperties
      <4> QED BY <3>0, <3>1, <4>1
    <3>4. tail[1].seq = Len(file) + 1
        BY <2>3 DEF TruncatedTail, Inv, FileInv
    <3>2. CASE i <= Len(file)
        BY <2>1, <3>1, <3>2 DEF Numbered
    <3>3. CASE i = Len(file) + 1
        BY <2>1, <3>0, <3>1, <3>3, <3>4
    <3>5. i <= Len(file) \/ i = Len(file) + 1
        BY <2>1, <3>6
    <3> QED BY <3>2, <3>3, <3>5
  <2> QED BY <2>2, <2>3
<1> QED BY <1>1, Invariance, PTL

----------------------------------------------------------------------------
\* Without the fault "whole" no line of the file is malformed, and the tail
\* never holds an event.
CleanInv == Readable /\ (tail = << >> \/ TruncatedTail)

\* What the file holds under these faults.
LEMMA CleanEvents ==
    ASSUME TypeOK, CleanInv
    PROVE  Events = file
BY DEF TypeOK, CleanInv, Events

\* A write that stops leaves the file with more lines, or as it was.
LEMMA CleanCut ==
    ASSUME "whole" \notin Faults, "repair" \notin Faults, Inv, CleanInv, writing, WriteCut
    PROVE  /\ CleanInv'
           /\ \/ file' = file
              \/ \E k \in 1 .. Len(content) : Appending /\ file' = file \o SubSeq(content, 1, k)
<1>1. PICK k \in 0 .. Len(content),
              rest \in {<< >>, <<Malformed>>} \cup {<<l>> : l \in Members(content)} :
           /\ rest = << >> \/ rest = <<Malformed>>
           /\ \/ Appending /\ AppendText(content, k, rest)
              \/ Repairing /\ k = Len(content) /\ rest = << >> /\ RewriteText(content, k, rest)
              \/ UNCHANGED disk
    BY DEF WriteCut, Cut, Appending, Repairing
<1>2. content \in Seq(Line) /\ file \in Seq(Line)
    BY DEF Inv, TypeOK
<1>3. rest # << >> => rest[1] = Malformed
    BY <1>1
<1>4. CASE Appending /\ AppendText(content, k, rest)
  <2>1. tail = << >> /\ Numbered(content, Len(Events))
      BY <1>4 DEF Inv, WriteInv, CleanInv
  <2>2. tail' = rest
      BY <1>4, <2>1 DEF AppendText
  <2>3. CASE k = 0
      BY <1>1, <1>3, <1>4, <2>2, <2>3 DEF AppendText, CleanInv, Readable, TruncatedTail, Malformed
  <2>4. CASE k # 0
    <3>1. file' = file \o SubSeq(content, 1, k)
        BY <1>4, <2>1, <2>4 DEF AppendText
    <3>2. k \in 1 .. Len(content)
        BY <1>2, <2>4
    <3>3. \A i \in 1 .. Len(file') : file'[i].ok
      <4> SUFFICES ASSUME NEW i \in 1 .. Len(file') PROVE file'[i].ok
          OBVIOUS
      <4>1. CASE i <= Len(file)
          BY <1>2, <3>1, <3>2, <4>1 DEF CleanInv, Readable
      <4>2. CASE i > Len(file)
        <5>1. i - Len(file) \in 1 .. Len(content) /\ file'[i] = content[i - Len(file)]
            BY <1>2, <3>1, <3>2, <4>2
        <5> QED BY <2>1, <5>1 DEF Numbered
      <4> QED BY <1>2, <3>1, <4>1, <4>2
    <3>4. tail' = << >> \/ TruncatedTail'
        BY <1>3, <2>2 DEF TruncatedTail, Malformed
    <3>5. CleanInv'
        BY <3>3, <3>4 DEF CleanInv, Readable
    <3> QED BY <1>4, <3>1, <3>2, <3>5
  <2> QED BY <2>3, <2>4
<1>5. CASE Repairing /\ k = Len(content) /\ rest = << >> /\ RewriteText(content, k, rest)
  <2>1. content = file
      BY <1>5 DEF Inv, WriteInv
  <2>2. file' = file /\ tail' = << >>
      BY <1>2, <1>5, <2>1 DEF RewriteText
  <2> QED BY <2>2 DEF CleanInv, Readable
<1>6. CASE UNCHANGED disk
    BY <1>6, SameDisk DEF CleanInv, disk
<1> QED BY <1>1, <1>4, <1>5, <1>6

\* One step of a journal whose writes are torn at most: the lines stay, or
\* lines of the append under way are added to them.
Grows ==
    \/ file' = file /\ acked' = acked
    \/ /\ Appending
       /\ \E k \in 1 .. Len(content) :
             /\ file' = file \o SubSeq(content, 1, k)
             /\ \/ acked' = acked
                \/ k = Len(content) /\ acked' = acked \cup Members(content)

\* Without the two faults every step keeps the file clean, and what can be
\* read only grows.
LEMMA CleanStep ==
    ASSUME "whole" \notin Faults, "repair" \notin Faults, Inv, CleanInv, [Next]_vars
    PROVE  CleanInv' /\ Grows
<1>0. ASSUME UNCHANGED disk, UNCHANGED acked PROVE CleanInv' /\ Grows
    BY <1>0, SameDisk DEF CleanInv, Grows, disk
<1>1. CASE Open \/ AppendRefused \/ AppendStarts \/ Repair \/ Read \/ UNCHANGED vars
    BY <1>0, <1>1 DEF Open, AppendRefused, AppendStarts, Repair, Read, vars, disk
<1>2. ASSUME NEW kind, NEW n, NEW expected, Call(kind, n, expected) PROVE CleanInv' /\ Grows
    BY <1>0, <1>2 DEF Call, disk
<1>3. content \in Seq(Line) /\ file \in Seq(Line) /\ Len(content) \in 0 .. Len(content)
    BY DEF Inv, TypeOK
<1>4. CASE AppendWritten
  <2>1. Appending
      BY <1>4 DEF AppendWritten, Appending
  <2>2. tail = << >> /\ content # << >> /\ Numbered(content, Len(Events))
      BY <2>1 DEF Inv, WriteInv, CleanInv
  <2>3. Len(content) \in 1 .. Len(content)
      BY <1>3, <2>2
  <2>4. file' = file \o SubSeq(content, 1, Len(content)) /\ tail' = << >>
      BY <1>4, <2>2, <2>3 DEF AppendWritten, AppendText
  <2>5. \A i \in 1 .. Len(file') : file'[i].ok
    <3> SUFFICES ASSUME NEW i \in 1 .. Len(file') PROVE file'[i].ok
        OBVIOUS
    <3>1. CASE i <= Len(file)
        BY <1>3, <2>4, <3>1 DEF CleanInv, Readable
    <3>2. CASE i > Len(file)
      <4>1. i - Len(file) \in 1 .. Len(content) /\ file'[i] = content[i - Len(file)]
          BY <1>3, <2>4, <3>2
      <4> QED BY <2>2, <4>1 DEF Numbered
    <3> QED BY <1>3, <2>4, <3>1, <3>2
  <2>6. CleanInv'
      BY <2>4, <2>5 DEF CleanInv, Readable
  <2>7. acked' = acked \cup Members(content)
      BY <1>4 DEF AppendWritten
  <2> QED BY <2>1, <2>3, <2>4, <2>6, <2>7 DEF Grows
<1>5. CASE RepairWritten
  <2>1. content = file
      BY <1>5 DEF RepairWritten, Inv, WriteInv, Repairing
  <2>2. file' = file /\ tail' = << >> /\ acked' = acked
      BY <1>3, <1>5, <2>1 DEF RepairWritten, RewriteText
  <2> QED BY <2>2 DEF CleanInv, Readable, Grows
<1>6. CASE AppendFails
    BY <1>6, CleanCut DEF AppendFails, Grows
<1>7. CASE Crash
    BY <1>0, <1>7, CleanCut DEF Crash, Grows
<1> QED BY <1>1, <1>2, <1>4, <1>5, <1>6, <1>7 DEF Next

\* What was read or acknowledged is in the file.
KeptInv ==
    /\ acked \subseteq Members(file)
    /\ Len(seen) <= Len(file) /\ \A i \in 1 .. Len(seen) : file[i] = seen[i]

\* An interrupted write leaves an incomplete last line at most, if no write
\* can stop between a line and its newline: no journal becomes unreadable, and
\* nothing that was read changes.
THEOREM Readability ==
    ASSUME "whole" \notin Faults, "repair" \notin Faults
    PROVE  Spec => [](AlwaysReadable /\ ReadsStay)
<1> DEFINE DInv == Inv /\ CleanInv /\ KeptInv
<1>1. Init => DInv
  <2> SUFFICES ASSUME Init PROVE CleanInv /\ KeptInv
      BY Initial
  <2> QED BY DEF Init, CleanInv, KeptInv, Readable, Members
<1>2. DInv /\ [Next]_vars => DInv'
  <2> SUFFICES ASSUME Inv, CleanInv, KeptInv, [Next]_vars PROVE DInv'
      OBVIOUS
  <2>1. Inv'
      BY TypeStep, WriteStep, FileStep DEF Inv
  <2>2. CleanInv' /\ Grows
      BY CleanStep
  <2>3. file \in Seq(Line) /\ content \in Seq(Line) /\ seen \in Seq(Line)
      BY DEF Inv, TypeOK
  <2>4. Len(file') \in Nat /\ Len(file) <= Len(file') /\ \A i \in 1 .. Len(file) : file'[i] = file[i]
      BY <2>2, <2>3 DEF Grows
  <2>5. acked' \subseteq Members(file')
    <3>1. Members(file) \subseteq Members(file')
        BY <2>3, <2>4 DEF Members
    <3>2. ASSUME file' = file \o SubSeq(content, 1, Len(content))
          PROVE  Members(content) \subseteq Members(file')
      <4> SUFFICES ASSUME NEW i \in 1 .. Len(content)
                   PROVE  \E j \in 1 .. Len(file') : file'[j] = content[i]
          BY DEF Members
      <4>1. Len(file) + i \in 1 .. Len(file') /\ file'[Len(file) + i] = content[i]
          BY <2>3, <3>2
      <4> QED BY <4>1
    <3> QED BY <2>2, <3>1, <3>2 DEF Grows, KeptInv
  <2>6. seen' = seen \/ (seen' = Events /\ file' = file)
    BY DEF Next, Open, Call, AppendRefused, AppendStarts, AppendWritten, AppendFails,
           Repair, RepairWritten, Read, Crash, vars
  <2>7. Len(seen') <= Len(file') /\ \A i \in 1 .. Len(seen') : file'[i] = seen'[i]
    <3>1. CASE seen' = seen
        BY <2>3, <2>4, <3>1 DEF KeptInv
    <3>2. CASE seen' = Events /\ file' = file
        BY <2>3, <3>2, CleanEvents DEF Inv
    <3> QED BY <2>6, <3>1, <3>2
  <2> QED BY <2>1, <2>2, <2>5, <2>7 DEF KeptInv
<1>3. DInv => AlwaysReadable /\ ReadsStay
  <2> SUFFICES ASSUME DInv PROVE Readable /\ ReadsStay
      BY DEF AlwaysReadable
  <2>1. Events = file
      BY CleanEvents DEF Inv
  <2> QED BY <2>1 DEF CleanInv, KeptInv, ReadsStay
<1> QED BY <1>1, <1>2, <1>3, PTL DEF Spec

\* The journal implements the durable log under the same faults: the events
\* that can be read only grow, and an acknowledged event is one of them.
THEOREM Durability ==
    ASSUME "whole" \notin Faults, "repair" \notin Faults
    PROVE  Spec => LogSpec
<1> DEFINE DInv == Inv /\ CleanInv
<1>1. Init => DInv /\ Log!Init
  <2> SUFFICES ASSUME Init PROVE CleanInv /\ Log!Init
      BY Initial
  <2>1. file = << >> /\ tail = << >> /\ acked = {}
      BY DEF Init
  <2>2. Events = << >>
      BY <2>1 DEF Events, TruncatedTail
  <2> QED BY <2>1, <2>2 DEF CleanInv, Readable, Log!Init
<1>2. DInv /\ [Next]_vars => DInv' /\ [Log!Next]_<<Events, acked>>
  <2> SUFFICES ASSUME Inv, CleanInv, [Next]_vars
               PROVE  DInv' /\ [Log!Next]_<<Events, acked>>
      OBVIOUS
  <2>1. Inv' /\ CleanInv' /\ Grows
      BY CleanStep, TypeStep, WriteStep, FileStep DEF Inv
  <2>2. Events = file /\ Events' = file'
    <3>1. Events = file
        BY CleanEvents DEF Inv
    <3>2. TypeOK' /\ CleanInv'
        BY <2>1 DEF Inv
    <3>3. file' \in Seq(Line) /\ (tail' = << >> \/ TruncatedTail')
        BY <3>2 DEF CleanInv, TypeOK
    <3>4. Events' = file'
        BY <3>3 DEF Events
    <3> QED BY <3>1, <3>4
  <2>3. CASE file' = file /\ acked' = acked
      BY <2>1, <2>2, <2>3
  <2>4. ASSUME NEW k \in 1 .. Len(content),
               file' = file \o SubSeq(content, 1, k),
               \/ acked' = acked
               \/ k = Len(content) /\ acked' = acked \cup Members(content)
        PROVE  Log!Next
    <3>1. file \in Seq(Line) /\ content \in Seq(Line)
        BY DEF Inv, TypeOK
    <3>2. SubSeq(file', Len(file) + 1, Len(file')) = SubSeq(content, 1, k)
        BY <2>4, <3>1
    <3>3. k = Len(content) => SubSeq(content, 1, k) = content
        BY <3>1
    <3> QED BY <2>2, <2>4, <3>2, <3>3 DEF Log!Next, Log!Record, Log!Members, Members
  <2> QED BY <2>1, <2>3, <2>4 DEF Grows
<1> QED BY <1>1, <1>2, PTL DEF Spec, LogSpec, Log!Spec

----------------------------------------------------------------------------
\* The revision a process knows is at most the number of lines, it has grown
\* past every revision an acknowledged append expected, and an append under
\* way that expected a revision expected this one.
CasInv ==
    /\ Readable => revision <= Len(file)
    /\ \A i \in 1 .. Len(won) : won[i] < revision
    /\ CasExclusive
    /\ Appending => queue[1].expected \in {NoRevision, revision}

\* Where repairTail is not cut, a file that can be read after a write was cut
\* could be read before, and has no line less.
LEMMA LinesStay ==
    ASSUME "repair" \notin Faults, Inv, writing, WriteCut, Readable'
    PROVE  Readable /\ Len(file) <= Len(file')
<1>1. PICK k \in 0 .. Len(content),
              rest \in {<< >>, <<Malformed>>} \cup {<<l>> : l \in Members(content)} :
           \/ Appending /\ AppendText(content, k, rest)
           \/ Repairing /\ k = Len(content) /\ RewriteText(content, k, rest)
           \/ UNCHANGED disk
    BY DEF WriteCut, Appending, Repairing
<1>2. content \in Seq(Line) /\ file \in Seq(Line) /\ k \in Nat
    BY DEF Inv, TypeOK
<1>3. CASE Appending /\ AppendText(content, k, rest)
  <2>1. Readable
      BY <1>3 DEF Inv, WriteInv
  <2>2. \/ file' = file
        \/ file' = file \o SubSeq(content, 1, k)
        \/ file' = file \o (<<Malformed>> \o SubSeq(content, 2, k))
      BY <1>3 DEF AppendText
  <2>3. file' # file \o (<<Malformed>> \o SubSeq(content, 2, k))
      BY <1>2, GluedLine
  <2> QED BY <1>2, <2>1, <2>2, <2>3
<1>4. CASE Repairing /\ k = Len(content) /\ RewriteText(content, k, rest)
  <2>1. Readable /\ content = file
      BY <1>4 DEF Inv, WriteInv
  <2> QED BY <1>2, <1>4, <2>1 DEF RewriteText
<1>5. CASE UNCHANGED disk
  <2>1. file' = file
      BY <1>5 DEF disk
  <2>2. Len(file) \in Nat
      BY <1>2
  <2> QED BY <1>5, <2>1, <2>2, SameDisk
<1> QED BY <1>1, <1>3, <1>4, <1>5

\* Every step keeps the revisions that have won below the current one.
LEMMA CasStep == "repair" \notin Faults /\ Inv /\ CasInv /\ [Next]_vars => CasInv'
<1> SUFFICES ASSUME "repair" \notin Faults, Inv, CasInv, [Next]_vars PROVE CasInv'
    OBVIOUS
<1>0. /\ content \in Seq(Line) /\ file \in Seq(Line) /\ won \in Seq(Int) /\ revision \in Nat
      /\ queue \in Seq(Operation)
    BY DEF Inv, TypeOK
<1>1. ASSUME UNCHANGED disk, UNCHANGED <<revision, won>>,
             Appending' => queue'[1].expected \in {NoRevision, revision}
      PROVE  CasInv'
    BY <1>1, SameDisk DEF CasInv, CasExclusive, disk
<1>2. CASE Open
  <2>1. revision' = 0 /\ won' = << >> /\ UNCHANGED disk /\ ~ Appending'
      BY <1>2 DEF Open, disk, Inv, WriteInv, Appending
  <2> QED BY <1>0, <2>1, SameDisk DEF CasInv, CasExclusive, disk
<1>3. ASSUME NEW kind, NEW n, NEW expected, Call(kind, n, expected) PROVE CasInv'
  <2>1. CASE writing
    <3>1. queue # << >>
        BY <2>1 DEF Inv, WriteInv
    <3>2. queue'[1] = queue[1] /\ writing' = writing
        BY <1>0, <1>3, <3>1 DEF Call
    <3> QED BY <1>1, <1>3, <3>2 DEF Call, disk, Appending, CasInv
  <2>2. CASE ~ writing
      BY <1>1, <1>3, <2>2 DEF Call, disk, Appending
  <2> QED BY <2>1, <2>2
<1>4. CASE AppendRefused \/ Read
    BY <1>1, <1>4 DEF AppendRefused, Read, Turn, Appending, disk
<1>5. CASE AppendStarts
    BY <1>1, <1>5 DEF AppendStarts, Refuses, disk
<1>6. CASE Repair
  <2>1. ~ Appending'
      BY <1>6 DEF Repair, Turn, Dies, WriteEnds, Appending
  <2> QED BY <1>1, <1>6, <2>1 DEF Repair, disk
<1>7. CASE UNCHANGED vars
    BY <1>1, <1>7 DEF vars, disk, Appending, CasInv
<1>8. CASE AppendWritten
  <2>1. Appending /\ Readable /\ ~ TruncatedTail /\ content # << >> /\ Numbered(content, Len(Events))
      BY <1>8 DEF AppendWritten, Appending, Inv, WriteInv
  <2>2. Len(Events) \in Nat /\ Len(Events) >= Len(file)
      BY <2>1 DEF Events, Inv, TypeOK
  <2>3. Len(content) \in 1 .. Len(content)
      BY <1>0, <2>1
  <2>4. revision' = Len(Events) + Len(content)
      BY <1>8, <2>1, <2>3 DEF AppendWritten, Numbered
  <2>5. revision < revision' /\ revision' \in Nat
      BY <1>0, <2>1, <2>2, <2>3, <2>4 DEF CasInv
  <2>6. Readable' => revision' <= Len(file')
    <3>1. CASE tail = << >>
      <4>1. file' = file \o SubSeq(content, 1, Len(content)) /\ Events = file
          BY <1>0, <1>8, <2>3, <3>1 DEF AppendWritten, AppendText, Events
      <4>2. Len(file') = Len(file) + Len(content)
          BY <1>0, <2>3, <4>1
      <4> QED BY <1>0, <2>4, <4>1, <4>2
    <3>2. CASE tail # << >>
      <4>1. file' = file \o (<<Malformed>> \o SubSeq(content, 2, Len(content)))
          BY <1>8, <2>3, <3>2 DEF AppendWritten, AppendText
      <4>2. Len(content) \in 0 .. Len(content)
          BY <2>3
      <4>3. ~ Readable'
          BY <1>0, <4>1, <4>2, GluedLine
      <4> QED BY <4>3
    <3> QED BY <3>1, <3>2
  <2>10. ~ Appending'
      BY <1>8 DEF AppendWritten, WriteEnds, Appending
  <2>7. CASE won' = won
    <3>1. \A i \in 1 .. Len(won) : won[i] \in Int /\ won[i] < revision
        BY <1>0 DEF CasInv
    <3>2. \A i \in 1 .. Len(won') : won'[i] < revision'
        BY <1>0, <2>5, <2>7, <3>1
    <3>3. CasExclusive'
        BY <2>7 DEF CasInv, CasExclusive
    <3> QED BY <2>6, <2>10, <3>2, <3>3 DEF CasInv
  <2>8. CASE won' = Append(won, revision)
    <3>1. Len(won') = Len(won) + 1 /\ won'[Len(won) + 1] = revision
          /\ \A i \in 1 .. Len(won) : won'[i] = won[i]
        BY <1>0, <2>8
    <3>2. \A i \in 1 .. Len(won) : won[i] \in Int /\ won[i] < revision
        BY <1>0 DEF CasInv
    <3>3. \A i \in 1 .. Len(won') : won'[i] < revision'
      <4> SUFFICES ASSUME NEW i \in 1 .. Len(won') PROVE won'[i] < revision'
          OBVIOUS
      <4>1. i \in 1 .. Len(won) \/ i = Len(won) + 1
          BY <1>0, <3>1
      <4>2. CASE i \in 1 .. Len(won)
          BY <1>0, <2>5, <3>1, <3>2, <4>2
      <4>3. CASE i = Len(won) + 1
          BY <2>5, <3>1, <4>3
      <4> QED BY <4>1, <4>2, <4>3
    <3>4. CasExclusive'
      <4> SUFFICES ASSUME NEW i \in 1 .. Len(won'), NEW j \in 1 .. Len(won'), i < j
                   PROVE  won'[i] < won'[j]
          BY DEF CasExclusive
      <4>0. Len(won) \in Nat
          BY <1>0
      <4>1. i \in 1 .. Len(won) /\ (j \in 1 .. Len(won) \/ j = Len(won) + 1)
          BY <3>1, <4>0
      <4> QED BY <3>1, <3>2, <4>1 DEF CasInv, CasExclusive
    <3> QED BY <2>6, <2>10, <3>3, <3>4 DEF CasInv
  <2>9. queue[1].expected \in {NoRevision, revision}
      BY <2>1 DEF CasInv
  <2> QED BY <1>8, <2>7, <2>8, <2>9 DEF AppendWritten
<1>9. CASE RepairWritten
  <2>1. content = file /\ Readable
      BY <1>9 DEF RepairWritten, Inv, WriteInv, Repairing
  <2>2. file' = file /\ revision' = Len(file) /\ won' = won /\ ~ writing'
      BY <1>0, <1>9, <2>1 DEF RepairWritten, RewriteText, WriteEnds
  <2>3. revision <= revision'
      BY <2>1, <2>2 DEF CasInv
  <2> QED BY <1>0, <2>2, <2>3 DEF CasInv, CasExclusive, Appending
<1>10. CASE AppendFails \/ Crash
  <2>1. UNCHANGED <<revision, won>> /\ ~ writing'
      BY <1>10 DEF AppendFails, Crash, Dies, WriteEnds
  <2>2. Readable' => Readable /\ Len(file) <= Len(file')
    <3>1. (writing /\ WriteCut) \/ UNCHANGED disk
        BY <1>10 DEF AppendFails, Crash
    <3>2. CASE writing /\ WriteCut
        BY <3>2, LinesStay
    <3>3. CASE UNCHANGED disk
      <4>1. file' = file
          BY <3>3 DEF disk
      <4>2. Len(file) \in Nat
          BY <1>0
      <4> QED BY <3>3, <4>1, <4>2, SameDisk
    <3> QED BY <3>1, <3>2, <3>3
  <2>3. Len(file') \in Nat
      BY <1>10, WriteCutType, <1>0 DEF AppendFails, Crash, disk, Inv
  <2> QED BY <1>0, <2>1, <2>2, <2>3 DEF CasInv, CasExclusive, Appending
<1> QED BY <1>2, <1>3, <1>4, <1>5, <1>6, <1>7, <1>8, <1>9, <1>10 DEF Next

\* Of two appends of a process that expect the same revision at most one is
\* acknowledged, whatever happens to the writes of appends.
THEOREM CasSafe ==
    ASSUME "repair" \notin Faults
    PROVE  Spec => []CasExclusive
<1>1. Init => Inv /\ CasInv
    BY Initial DEF Init, CasInv, CasExclusive, Appending
<1>2. Inv /\ CasInv /\ [Next]_vars => Inv' /\ CasInv'
    BY CasStep, TypeStep, WriteStep, FileStep DEF Inv
<1>3. CasInv => CasExclusive
    BY DEF CasInv
<1> QED BY <1>1, <1>2, <1>3, PTL DEF Spec

=============================================================================
