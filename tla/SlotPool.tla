------------------------------ MODULE SlotPool ------------------------------
(***************************************************************************)
(* The daemon-wide backpressure pool (internal/slots/pool.go): a buffered  *)
(* channel used as a semaphore.  `sem' is the number of elements in the    *)
(* channel, i.e. the number of slots taken.                                *)
(***************************************************************************)
EXTENDS Integers

CONSTANT Capacity       \* max_parallel_tasks

\* config.validate rejects max_parallel_tasks < 1.
ASSUME CapacityAssumption == Capacity \in Nat \ {0}

VARIABLE sem

slotVars == <<sem>>

SlotTypeOK == sem \in 0 .. Capacity

\* New: an empty channel of the given capacity.
SlotInit == sem = 0

\* Mutation of Acquire: the channel admits one element too many.
AcquireOverbooked == sem =< Capacity /\ sem' = sem + 1

\* Acquire, the branch that succeeds: blocks while the channel is full.
Acquire == sem < Capacity /\ sem' = sem + 1

\* Release never blocks: on an empty channel the select takes its default.
Release == sem' = IF sem > 0 THEN sem - 1 ELSE sem
=============================================================================
