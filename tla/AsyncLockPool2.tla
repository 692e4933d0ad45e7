--------------------------- MODULE AsyncLockPool2 ---------------------------
(***************************************************************************)
(* The pool of locks of util/async-lock-pool-2.ts, which hands a released  *)
(* lock straight to the next caller in the queue.  All callers run on one  *)
(* event loop; a release takes effect in a microtask.                      *)
(***************************************************************************)
EXTENDS Naturals, Sequences, FiniteSets

CONSTANTS Tasks,
          NumLocks,  \* _n_locks
          Rejects,   \* tasks whose callback may reject under use()
          Watchers   \* callers of settled()

\* What a pool is made with.
PoolAssumption ==
  /\ IsFiniteSet(Tasks)
  /\ NumLocks \in Nat \ {0}

VARIABLES busy,       \* _c_busy
          queued,     \* _a_queued
          listeners,  \* _a_listeners
          releasing,  \* microtasks queued by _release()
          state       \* what each task has of the pool

vars == <<busy, queued, listeners, releasing, state>>

TypeOK ==
  /\ busy \in Nat /\ releasing \in Nat
  /\ queued \in Seq(Tasks)
  /\ listeners \subseteq Watchers
  /\ state \in [Tasks -> {"idle", "waiting", "holding", "rejected"}]

Init ==
  /\ busy = 0 /\ releasing = 0
  /\ queued = <<>>
  /\ listeners = {}
  /\ state = [t \in Tasks |-> "idle"]

Become(t, s) == state' = [state EXCEPT ![t] = s]

\* acquire(): claims a lock, or queues.
Acquire(t) ==
  /\ state[t] = "idle"
  /\ \/ /\ busy < NumLocks
        /\ busy' = busy + 1
        /\ Become(t, "holding")
        /\ UNCHANGED queued
     \/ /\ busy >= NumLocks
        /\ queued' = Append(queued, t)
        /\ Become(t, "waiting")
        /\ UNCHANGED busy
  /\ UNCHANGED <<listeners, releasing>>

\* The callback that acquire() resolved with; once only.
Release(t) ==
  /\ state[t] = "holding"
  /\ releasing' = releasing + 1
  /\ Become(t, "idle")
  /\ UNCHANGED <<busy, queued, listeners>>

\* use() does not release the lock when its callback rejects.
Reject(t) ==
  /\ state[t] = "holding" /\ t \in Rejects
  /\ Become(t, "rejected")
  /\ UNCHANGED <<busy, queued, listeners, releasing>>

\* Mutation: the lock is returned to the pool although it is passed on.
PassOnTwice ==
  /\ releasing > 0 /\ queued # <<>>
  /\ releasing' = releasing - 1
  /\ busy' = busy - 1
  /\ queued' = Tail(queued)
  /\ Become(Head(queued), "holding")
  /\ UNCHANGED listeners

\* Mutation: the one who is passed the lock is not told.
PassOnNobody ==
  /\ releasing > 0 /\ queued # <<>>
  /\ releasing' = releasing - 1
  /\ queued' = Tail(queued)
  /\ UNCHANGED <<busy, listeners, state>>

\* Mutation: the lock is passed on to the last in the queue.
PassOnLast ==
  /\ releasing > 0 /\ queued # <<>>
  /\ releasing' = releasing - 1
  /\ queued' = SubSeq(queued, 1, Len(queued) - 1)
  /\ Become(queued[Len(queued)], "holding")
  /\ UNCHANGED <<busy, listeners>>

\* The microtask of a release passes the lock on to the first in the queue.
PassOn ==
  /\ releasing > 0 /\ queued # <<>>
  /\ releasing' = releasing - 1
  /\ queued' = Tail(queued)
  /\ Become(Head(queued), "holding")
  /\ UNCHANGED <<busy, listeners>>

\* Nobody is queued: the lock returns to the pool, and the listeners are told
\* if it was the last.
ReturnLock ==
  /\ releasing > 0 /\ queued = <<>>
  /\ releasing' = releasing - 1
  /\ busy' = busy - 1
  /\ listeners' = IF busy' = 0 THEN {} ELSE listeners
  /\ UNCHANGED <<queued, state>>

\* settled(): resolves at once while no lock is out.
Settled(w) ==
  /\ busy # 0
  /\ listeners' = listeners \cup {w}
  /\ UNCHANGED <<busy, queued, releasing, state>>

Next ==
  \/ \E t \in Tasks : Acquire(t) \/ Release(t) \/ Reject(t)
  \/ PassOn
  \/ ReturnLock
  \/ \E w \in Watchers : Settled(w)

Spec == Init /\ [][Next]_vars
-----------------------------------------------------------------------------
Holding == {t \in Tasks : state[t] \in {"holding", "rejected"}}

\* No more locks are out than the pool has (the constructor, acquire() and the
\* hand-over of _release()).
AtMostNumLocks == Cardinality(Holding) <= NumLocks
=============================================================================
