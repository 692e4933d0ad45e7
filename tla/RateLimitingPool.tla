-------------------------- MODULE RateLimitingPool --------------------------
(***************************************************************************)
(* The pool of util/rate-limiting-pool.ts that every request to a web API  *)
(* or contract goes through: first a temporal slot, then a lock of an      *)
(* AsyncLockPool; both are released together.                              *)
(***************************************************************************)
EXTENDS TemporalSlots, FiniteSets

CONSTANTS Concurrency,  \* gc_rate.concurrency
          MaxCalls      \* bound on the calls of acquire() a task makes

ASSUME PoolAssumption == Concurrency \in Nat \ {0} /\ MaxCalls \in Nat

VARIABLES free, awaits, grants, lock, acquires  \* of the AsyncLockPool

Locks == INSTANCE AsyncLockPool WITH NumLocks <- Concurrency

poolVars == <<free, awaits, grants, lock, acquires>>
rateVars == <<slotVars, poolVars>>

PoolTypeOK ==
  /\ SlotsTypeOK
  /\ free \in Nat /\ grants \in Nat
  /\ awaits \in Seq(Tasks)
  /\ lock \in [Tasks -> {"idle", "waiting", "holding"}]
  /\ acquires \in [Tasks -> 0..MaxCalls]

PoolInit == SlotsInit /\ Locks!Init

\* acquire(), up to its wait for a temporal slot.
AcquireSlot(t) ==
  /\ acquires[t] < MaxCalls
  /\ Acquire(t)
  /\ UNCHANGED poolVars

\* The slot is granted: acquire() acquires for a lock.
AcquireLock(t) ==
  /\ slot[t] = "holding" /\ lock[t] = "idle"
  /\ Locks!Acquire(t)
  /\ UNCHANGED slotVars

\* Mutation: the slot is released, the lock is not.
ReleaseSlotOnly(t) ==
  /\ Release(t) /\ lock[t] = "holding"
  /\ lock' = [lock EXCEPT ![t] = "idle"]
  /\ UNCHANGED <<free, awaits, grants, acquires>>

\* The callback that acquire() resolved with.
ReleaseBoth(t) == lock[t] = "holding" /\ Locks!Release(t) /\ Release(t)

PoolNext ==
  \/ \E t \in Tasks : AcquireSlot(t) \/ AcquireLock(t) \/ ReleaseBoth(t)
  \/ (Dequeue \/ Tick) /\ UNCHANGED poolVars
  \/ Locks!Handover /\ UNCHANGED slotVars

\* Microtasks run, time passes, and a request ends.
PoolFairness ==
  /\ WF_rateVars(Tick /\ UNCHANGED poolVars)
  /\ WF_rateVars(Dequeue /\ UNCHANGED poolVars)
  /\ WF_rateVars(Locks!Handover /\ UNCHANGED slotVars)
  /\ \A t \in Tasks : WF_rateVars(AcquireLock(t)) /\ WF_rateVars(ReleaseBoth(t))

PoolSpec == PoolInit /\ [][PoolNext]_rateVars /\ PoolFairness
-----------------------------------------------------------------------------
\* Whoever acquires for an opening is let through in the end: slots and locks,
\* taken in this order, never wait for each other (acquire()).
LetThrough ==
  \A t \in Tasks : slot[t] # "idle" ~> lock[t] = "holding"
=============================================================================
