--------------------------- MODULE AsyncLockPool ---------------------------
(***************************************************************************)
(* The pool of locks of util/async-lock-pool.ts.  All callers run on one   *)
(* event loop: a call is one step, and a release queues a microtask.  The  *)
(* timeouts of acquire() are left out: no caller gives one.                *)
(***************************************************************************)
EXTENDS Naturals, Sequences

CONSTANTS Tasks,
          NumLocks,  \* n_locks of the constructor
          MaxCalls   \* bound on the calls of acquire() a task makes

VARIABLES free,    \* _c_free
          awaits,  \* _a_awaits
          grants,  \* microtasks queued by releases
          lock,    \* what each task has of the pool
          acquires \* how often it has called acquire()

vars == <<free, awaits, grants, lock, acquires>>

Init ==
  /\ free = NumLocks /\ grants = 0
  /\ awaits = <<>>
  /\ lock = [t \in Tasks |-> "idle"]
  /\ acquires = [t \in Tasks |-> 0]

Become(t, s) == lock' = [lock EXCEPT ![t] = s]

\* acquire(): takes a free lock, or joins the queue.
Acquire(t) ==
  /\ lock[t] = "idle"
  /\ acquires[t] < MaxCalls
  /\ acquires' = [acquires EXCEPT ![t] = @ + 1]
  /\ \/ /\ free > 0
        /\ free' = free - 1
        /\ Become(t, "holding")
        /\ UNCHANGED awaits
     \/ /\ free = 0
        /\ awaits' = Append(awaits, t)
        /\ Become(t, "waiting")
        /\ UNCHANGED free
  /\ UNCHANGED grants

\* The callback that acquire() resolved with.
Release(t) ==
  /\ lock[t] = "holding"
  /\ free' = free + 1
  /\ grants' = grants + 1
  /\ Become(t, "idle")
  /\ UNCHANGED <<awaits, acquires>>

\* The microtask of a release hands a lock to the first waiter.  The lock
\* counts as free all the same.
Handover ==
  /\ grants > 0
  /\ grants' = grants - 1
  /\ \/ /\ awaits # <<>>
        /\ awaits' = Tail(awaits)
        /\ Become(Head(awaits), "holding")
     \/ /\ awaits = <<>>
        /\ UNCHANGED <<awaits, lock>>
  /\ UNCHANGED <<free, acquires>>
=============================================================================
