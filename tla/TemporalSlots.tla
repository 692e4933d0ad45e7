--------------------------- MODULE TemporalSlots ---------------------------
(***************************************************************************)
(* The slots of util/temporal-slots.ts: a slot that is released can be     *)
(* used again once a resolution of time has passed.  Time passes in ticks; *)
(* timers may fire late but not early.                                     *)
(***************************************************************************)
EXTENDS Naturals, Sequences, Functions

CONSTANTS Tasks,
          SlotCapacity,  \* _nl_capacity
          Resolution     \* _xt_resolution

ASSUME SlotsAssumption ==
  SlotCapacity \in Nat \ {0} /\ Resolution \in Nat \ {0}

VARIABLES slotsFree,  \* _c_slots_free
          queue,      \* _a_queue
          cooling,    \* for each age, the timers of released slots that old
          recent,     \* for each age, the slots granted that long ago
          slot        \* what each task has of the slots

slotVars == <<slotsFree, queue, cooling, recent, slot>>

Ages == 0..Resolution

SlotsTypeOK ==
  /\ slotsFree \in Nat
  /\ queue \in Seq(Tasks)
  /\ cooling \in [Ages -> Nat]
  /\ recent \in [0..Resolution - 1 -> Nat]
  /\ slot \in [Tasks -> {"idle", "waiting", "holding"}]

SlotsInit ==
  /\ slotsFree = SlotCapacity
  /\ queue = <<>>
  /\ cooling = [a \in Ages |-> 0]
  /\ recent = [a \in 0..Resolution - 1 |-> 0]
  /\ slot = [t \in Tasks |-> "idle"]

Become(t, s) == slot' = [slot EXCEPT ![t] = s]

Grant(t) ==
  /\ Become(t, "holding")
  /\ recent' = [recent EXCEPT ![0] = @ + 1]

\* Mutation: a slot is taken whether one is free or not.
AcquireBlindly(t) ==
  /\ slot[t] = "idle"
  /\ slotsFree' = slotsFree - 1
  /\ Grant(t)
  /\ UNCHANGED <<queue, cooling>>

\* acquire(): takes a free slot, or queues for one.
Acquire(t) ==
  /\ slot[t] = "idle"
  /\ \/ /\ slotsFree > 0
        /\ slotsFree' = slotsFree - 1
        /\ Grant(t)
        /\ UNCHANGED queue
     \/ /\ slotsFree = 0
        /\ queue' = Append(queue, t)
        /\ Become(t, "waiting")
        /\ UNCHANGED <<slotsFree, recent>>
  /\ UNCHANGED cooling

\* The callback that acquire() resolved with starts the timer.
Release(t) ==
  /\ slot[t] = "holding"
  /\ cooling' = [cooling EXCEPT ![0] = @ + 1]
  /\ Become(t, "idle")
  /\ UNCHANGED <<slotsFree, queue, recent>>

\* Mutation: the slot becomes available although it goes to the queue.
DequeueTwice ==
  /\ cooling[Resolution] > 0
  /\ cooling' = [cooling EXCEPT ![Resolution] = @ - 1]
  /\ slotsFree' = slotsFree + 1
  /\ IF queue # <<>> THEN queue' = Tail(queue) /\ Grant(Head(queue))
                     ELSE UNCHANGED <<queue, recent, slot>>

\* _dequeue(): the first in the queue uses the slot, or it is available.
Dequeue ==
  /\ cooling[Resolution] > 0
  /\ cooling' = [cooling EXCEPT ![Resolution] = @ - 1]
  /\ \/ /\ queue # <<>>
        /\ queue' = Tail(queue)
        /\ Grant(Head(queue))
        /\ UNCHANGED slotsFree
     \/ /\ queue = <<>>
        /\ slotsFree' = slotsFree + 1
        /\ UNCHANGED <<queue, recent, slot>>

Tick ==
  /\ recent' = [a \in DOMAIN recent |-> IF a = 0 THEN 0 ELSE recent[a - 1]]
  /\ cooling' = [a \in Ages |->
       IF a = 0 THEN 0
       ELSE cooling[a - 1] + IF a = Resolution THEN cooling[a] ELSE 0]
  /\ UNCHANGED <<slotsFree, queue, slot>>
-----------------------------------------------------------------------------
\* In any resolution of time no more slots are granted than there are
\* (SlotsConfig: the capacity, and the time between two uses of a slot).
RateLimited == FoldFunction(+, 0, recent) <= SlotCapacity
=============================================================================
