----------------------------- MODULE Semaphore -----------------------------
(***************************************************************************)
(* What acquire() and release() of the agent pool promise a caller: a fair *)
(* counting semaphore.  A free slot goes to whoever asks for it, and only  *)
(* if nobody waits; a slot that is given back goes to the caller that has  *)
(* waited longest; a waiter may give up, which changes no other's turn;    *)
(* once it is closed nobody gets a slot or waits for one.                  *)
(***************************************************************************)
EXTENDS Naturals, Sequences, FiniteSets

CONSTANT Slots

VARIABLES
    holders,    \* the callers that have a slot
    waiting,    \* the callers that wait for one, in the order they asked
    closed

Members == {waiting[i] : i \in 1 .. Len(waiting)}

Init ==
    /\ holders = {}
    /\ waiting = <<>>
    /\ closed = FALSE

\* A newcomer finds a free slot; it overtakes nobody.
Take(c) ==
    /\ ~closed
    /\ c \notin holders
    /\ waiting = <<>>
    /\ Cardinality(holders) < Slots
    /\ holders' = holders \cup {c}
    /\ UNCHANGED <<waiting, closed>>

\* All slots are taken: the newcomer waits behind the others.
Wait(c) ==
    /\ ~closed
    /\ c \notin holders \cup Members
    /\ Cardinality(holders) = Slots
    /\ waiting' = Append(waiting, c)
    /\ UNCHANGED <<holders, closed>>

\* A slot is given back while nobody waits.
Free(c) ==
    /\ c \in holders
    /\ waiting = <<>>
    /\ holders' = holders \ {c}
    /\ UNCHANGED <<waiting, closed>>

\* A slot passes from a holder to the first waiter, never through a state in
\* which it is free.
HandOver(c) ==
    /\ c \in holders
    /\ waiting # <<>>
    /\ holders' = (holders \ {c}) \cup {Head(waiting)}
    /\ waiting' = Tail(waiting)
    /\ UNCHANGED closed

\* The waiter at position i gives up; the others keep their order.
GiveUp(i) ==
    /\ waiting' = SubSeq(waiting, 1, i - 1) \o SubSeq(waiting, i + 1, Len(waiting))
    /\ UNCHANGED <<holders, closed>>

\* Nobody waits any longer; the holders keep their slots.
Close ==
    /\ ~closed
    /\ closed' = TRUE
    /\ waiting' = <<>>
    /\ UNCHANGED holders

\* The callers are whoever comes to hold a slot or to wait for one.
Next ==
    \/ \E c \in holders' : Take(c)
    \/ \E i \in 1 .. Len(waiting') : Wait(waiting'[i])
    \/ \E c \in holders : Free(c) \/ HandOver(c)
    \/ \E i \in 1 .. Len(waiting) : GiveUp(i)
    \/ Close

Spec == Init /\ [][Next]_<<holders, waiting, closed>>

=============================================================================
