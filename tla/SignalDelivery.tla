--------------------------- MODULE SignalDelivery ---------------------------
(***************************************************************************)
(* What the signal queue (src/src/state/signals.rs) promises: a signal     *)
(* that was received waits until the main thread takes all that wait, in   *)
(* one batch, or until it is the oldest of too many and is dropped.        *)
(* Signals are numbered in the order in which they were received.          *)
(***************************************************************************)
EXTENDS Naturals, FiniteSets

CONSTANT MaxSignalQueueSize

VARIABLES received,     \* how many signals were received
          waiting,      \* those not yet taken
          taken,        \* those the main thread took
          dropped

vars == <<received, waiting, taken, dropped>>

Init == received = 0 /\ waiting = {} /\ taken = {} /\ dropped = {}

Oldest(n) == n \in waiting /\ \A m \in waiting : n <= m

Receive ==
    /\ received' = received + 1
    /\ UNCHANGED taken
    /\ \/ /\ Cardinality(waiting) < MaxSignalQueueSize
          /\ waiting' = waiting \cup {received'}
          /\ UNCHANGED dropped
       \/ /\ Cardinality(waiting) = MaxSignalQueueSize
          /\ \E n \in waiting :
               /\ Oldest(n)
               /\ waiting' = (waiting \ {n}) \cup {received'}
               /\ dropped' = dropped \cup {n}

Take ==
    /\ taken' = taken \cup waiting
    /\ waiting' = {}
    /\ UNCHANGED <<received, dropped>>

Next == Receive \/ Take

Spec == Init /\ [][Next]_vars

=============================================================================
