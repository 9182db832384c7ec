----------------------------- MODULE DurableLog -----------------------------
(***************************************************************************)
(* What a session journal promises its readers: the events that can be read *)
(* back form a log that only grows, at its end, and an event whose append   *)
(* has been acknowledged is in it for good.  A step may record events whose *)
(* append is never acknowledged (the process died, or the file system       *)
(* reported an error after it had written them).                            *)
(***************************************************************************)
EXTENDS Naturals, Sequences

VARIABLES
    log,                    \* the events a reader gets, in order
    acked                   \* the events whose append was acknowledged

\* The members of a sequence.
Members(s) == {s[i] : i \in 1 .. Len(s)}

Init ==
    /\ log = << >>
    /\ acked = {}

\* A batch reaches the log; its caller may hear of it or not.
Record(batch) ==
    /\ log' = log \o batch
    /\ \/ acked' = acked
       \/ acked' = acked \cup Members(batch)

Next == Record(SubSeq(log', Len(log) + 1, Len(log')))

Spec == Init /\ [][Next]_<<log, acked>>

=============================================================================
