----------------------------- MODULE SlotLedger -----------------------------
(***************************************************************************)
(* What the backpressure pool promises, with no counter and no processes:  *)
(* at most Capacity holders at any time, each holding exactly one slot,    *)
(* which it took, was handed, or gives back once.                          *)
(***************************************************************************)
EXTENDS Integers, FiniteSets

CONSTANTS Holder,       \* everything that may hold a slot
          Capacity      \* the daemon-wide budget

VARIABLE holders        \* who holds a slot now

Init == holders = {}

Take(h) == /\ h \notin holders
           /\ Cardinality(holders) < Capacity
           /\ holders' = holders \union {h}

Give(h) == h \in holders /\ holders' = holders \ {h}

\* The slot changes hands: a poller passes it on with the task it fetched.
Hand(h, k) == /\ h \in holders
              /\ k \notin holders
              /\ holders' = (holders \ {h}) \union {k}

Next == \E h \in Holder :
            Take(h) \/ Give(h) \/ \E k \in Holder : Hand(h, k)

Spec == Init /\ [][Next]_holders
=============================================================================
