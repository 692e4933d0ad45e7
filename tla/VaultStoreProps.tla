-------------------------- MODULE VaultStoreProps --------------------------
(***************************************************************************)
(* What VaultStore promises: the freshness of what a lock holder works on, *)
(* and that the stores implement AtomicStore.                              *)
(***************************************************************************)
EXTENDS VaultStore

Fresh(t) == Holds(t) /\ pc[t] # "granted" => seen[t] = storage[job[t].key]

\* What a task read under the lock stays what is stored for as long as the
\* lock is its own: nobody writes the store in between (Vault.acquire and
\* WritableVaultEntry.write, crypto/vault.ts).
FreshSnapshot == \A t \in Tasks : Fresh(t)

\* A granted lock comes back, whatever its holder does: it is released, or
\* revoked by the lease, or freed with the window (Vault.acquire).
LockReturned ==
  \A k \in Keys : holder[k] # None ~> holder[k] = None

-----------------------------------------------------------------------------
\* The inductive invariant behind FreshSnapshot.  What a task has loaded by
\* the time it gets to each await:
Loaded(t) ==
  /\ pc[t] # "idle" => job[t] # None
  /\ pc[t] \notin {"idle", "cipher", "failed"} => cipher[t] # None
  /\ pc[t] \in {"initSet", "set"} => vector[t] # None
  /\ pc[t] \in MidWrite \cup {"using"} => cache[t] # None

\* A lock is only ever in the hands of a task that asked for it and has not
\* finished with it.
HoldsOnlyItsOwn(t) ==
  \A k \in Keys :
    holder[k] = t => /\ pc[t] \in Leased \cup {"granted"}
                     /\ job[t] # None
                     /\ job[t].key = k

\* Without a lease running out inside it, a write keeps its lock.
WriteHolds(t) == pc[t] \in MidWrite => Holds(t)

TaskInv(t) ==
  /\ Loaded(t)
  /\ HoldsOnlyItsOwn(t)
  /\ ~LeaseMidWrite => WriteHolds(t) /\ Fresh(t)

IInv == TypeOK /\ \A t \in Tasks : TaskInv(t)
-----------------------------------------------------------------------------
\* A read of a saved store is decided when storage_get resolves.
ReadTaken(t) ==
  /\ job[t].op = "read"
  /\ pc[t] \in {"decoding", "opened"}
  /\ seen[t] # None

StatusOf(t) ==
  CASE pc[t] = "idle" -> "idle"
    [] pc[t] = "done" -> "ok"
    [] pc[t] \in {"failed", "leaked"} -> "error"
    [] pc[t] = "releasing" /\ job[t].op # "read" -> "applied"
    [] OTHER -> IF job[t] # None /\ ReadTaken(t) THEN "applied" ELSE "pending"

ResultOf(t) ==
  IF job[t] = None \/ StatusOf(t) \notin {"applied", "ok"} THEN None
  ELSE IF job[t].op # "read" THEN None
  ELSE IF pc[t] = "done" THEN cache[t] ELSE seen[t].data

Atomic == INSTANCE AtomicStore WITH
  data   <- [k \in Keys |-> IF storage[k] = None THEN None
                                                 ELSE storage[k].data],
  status <- [t \in Tasks |-> StatusOf(t)],
  call   <- job,
  result <- [t \in Tasks |-> ResultOf(t)]

\* A call that resolves took effect once, on the latest content; one that
\* rejects took effect at most once (open() and read(), store/_base.ts).
StoreIsAtomic == Atomic!Spec
=============================================================================
