----------------------------- MODULE VaultStore -----------------------------
(***************************************************************************)
(* The encrypted stores of the wallet: Vault.acquire / Vault.readonly and  *)
(* WritableVaultEntry of crypto/vault.ts, under the open() and read() that *)
(* create_store_class of store/_base.ts gives every store.                 *)
(*                                                                         *)
(* A task is one chain of awaits in some window (popup, flow, service      *)
(* worker): it makes one call at a time.  Tasks of all windows share the   *)
(* storage, the session and the exclusive lock 'store:<key>' the browser   *)
(* keeps (navigator.locks); they interleave at every await.  An action is  *)
(* the code from the settling of one await to the next.                    *)
(***************************************************************************)
EXTENDS StoreData

CONSTANTS Tasks,
          Roots,         \* root keys, each with the vector saved beside it
          LeaseMidWrite  \* may the lease run out between a write's check of
                         \* the entry and the end of its storage_set?

VARIABLES storage,  \* chrome.storage.local: the ciphertext of each store
          session,  \* SessionStorage root and vector; None while locked
          holder,   \* who is granted the exclusive lock of each store
          pc,       \* the await each task is at
          job,      \* the call it is making
          cipher,   \* dk_cipher, fetched before the lock is requested
          vector,   \* the encryption vector its write() has loaded
          seen,     \* atu8_ciphertext of its vault entry
          cache     \* _w_cache of its store instance

vars == <<storage, session, holder, pc, job, cipher, vector, seen, cache>>

\* A ciphertext opens only with the cipher and the vector that sealed it.
Entries == [root : Roots, vector : Roots, data : Contents]

ASSUME StoreAssumption ==
  /\ None \notin Tasks
  /\ None \notin Roots
  /\ None \notin Entries
  /\ LeaseMidWrite \in BOOLEAN

Seal(r, v, c) == [root |-> r, vector |-> v, data |-> c]

Opens(e, r, v) == e.root = r /\ e.vector = v

Callable  == {"idle", "done", "failed"}
\* The instance exists, so its lease timer has been started.
Leased    == {"opened", "initVector", "initSet", "using", "vector", "set",
              "releasing", "leaked"}
\* Inside write(), past its check that the entry is not neutered.
MidWrite  == {"initVector", "initSet", "vector", "set"}
Positions == Callable \cup Leased \cup
             {"cipher", "fetching", "decoding", "waiting", "granted", "hung"}

TypeOK ==
  /\ storage \in [Keys -> Entries \cup {None}]
  /\ session \in Roots \cup {None}
  /\ holder \in [Keys -> Tasks \cup {None}]
  /\ pc \in [Tasks -> Positions]
  /\ job \in [Tasks -> Jobs \cup {None}]
  /\ cipher \in [Tasks -> Roots \cup {None}]
  /\ vector \in [Tasks -> Roots \cup {None}]
  /\ seen \in [Tasks -> Entries \cup {None}]
  /\ cache \in [Tasks -> Contents \cup {None}]

\* The entry of t is not neutered: its private fields are still there.
Holds(t) == job[t] # None /\ holder[job[t].key] = t

Goto(t, p) == pc' = [pc EXCEPT ![t] = p]

\* release(): frees the lock unless the entry is already neutered.
FreeLock(t) ==
  holder' = IF Holds(t) THEN [holder EXCEPT ![job[t].key] = None] ELSE holder

\* Mutation: the finally of open() forgets to release the store.
FinishKeepingLock(t, p) == Goto(t, p) /\ UNCHANGED holder

\* The finally of open(): release() throws if the lease was revoked.
Finish(t, p) == FreeLock(t) /\ Goto(t, IF Holds(t) THEN p ELSE "failed")
-----------------------------------------------------------------------------
Init ==
  /\ session \in Roots
  /\ storage \in [Keys -> {Seal(session, session, c) : c \in Contents}
                          \cup {None}]
  /\ holder = [k \in Keys |-> None]
  /\ pc = [t \in Tasks |-> "idle"]
  /\ job = [t \in Tasks |-> None]
  /\ cipher = [t \in Tasks |-> None]
  /\ vector = [t \in Tasks |-> None]
  /\ seen = [t \in Tasks |-> None]
  /\ cache = [t \in Tasks |-> None]

\* open() or read() is called.
Call(t, j) ==
  /\ pc[t] \in Callable
  /\ Goto(t, "cipher")
  /\ job' = [job EXCEPT ![t] = j]
  /\ cipher' = [cipher EXCEPT ![t] = None]
  /\ vector' = [vector EXCEPT ![t] = None]
  /\ seen' = [seen EXCEPT ![t] = None]
  /\ cache' = [cache EXCEPT ![t] = None]
  /\ UNCHANGED <<storage, session, holder>>

\* fetch_cipher() throws NotAuthenticatedError while the vault is locked.
FetchCipher(t) ==
  /\ pc[t] = "cipher"
  /\ cipher' = [cipher EXCEPT ![t] = session]
  /\ Goto(t, IF session = None THEN "failed"
             ELSE IF job[t].op = "read" THEN "fetching" ELSE "waiting")
  /\ UNCHANGED <<storage, session, holder, job, vector, seen, cache>>

\* Vault.readonly(): no lock is taken.
Readonly(t) ==
  /\ pc[t] = "fetching"
  /\ seen' = [seen EXCEPT ![t] = storage[job[t].key]]
  /\ Goto(t, "decoding")
  /\ UNCHANGED <<storage, session, holder, job, cipher, vector, cache>>

\* readJson() of a readonly entry; a store never saved has to be opened.
DecodeReadonly(t) ==
  /\ pc[t] = "decoding"
  /\ \/ /\ session = None
        /\ Goto(t, "failed")
        /\ UNCHANGED cache
     \/ /\ session # None /\ seen[t] = None
        /\ Goto(t, "waiting")
        /\ UNCHANGED cache
     \/ /\ session # None /\ seen[t] # None
        /\ IF Opens(seen[t], cipher[t], session)
             THEN /\ cache' = [cache EXCEPT ![t] = seen[t].data]
                  /\ Goto(t, "done")
             ELSE /\ Goto(t, "failed")
                  /\ UNCHANGED cache
  /\ UNCHANGED <<storage, session, holder, job, cipher, vector, seen>>

\* Mutation: the lock is requested in shared mode.
AcquireShared(t) ==
  /\ pc[t] = "waiting"
  /\ holder' = [holder EXCEPT ![job[t].key] = t]
  /\ Goto(t, "granted")
  /\ UNCHANGED <<storage, session, job, cipher, vector, seen, cache>>

\* The browser grants the lock; the callback awaits storage_get.
Acquire(t) ==
  /\ pc[t] = "waiting"
  /\ holder[job[t].key] = None
  /\ holder' = [holder EXCEPT ![job[t].key] = t]
  /\ Goto(t, "granted")
  /\ UNCHANGED <<storage, session, job, cipher, vector, seen, cache>>

\* After 5 seconds in the queue the request is aborted.  Its rejection is
\* discarded, and the promise acquire() returned never settles.
AbortAcquire(t) ==
  /\ pc[t] = "waiting"
  /\ holder[job[t].key] # None
  /\ Goto(t, "hung")
  /\ UNCHANGED <<storage, session, holder, job, cipher, vector, seen, cache>>

\* storage_get resolves: the lease starts and the instance is handed over.
Checkout(t) ==
  /\ pc[t] = "granted"
  /\ seen' = [seen EXCEPT ![t] = storage[job[t].key]]
  /\ Goto(t, "opened")
  /\ UNCHANGED <<storage, session, holder, job, cipher, vector, cache>>

\* readJson() and the rest of open_or_initialize(), up to the first await
\* of save(true) when the store is new.
Decode(t) ==
  /\ pc[t] = "opened"
  /\ \/ /\ \/ session = None
           \/ ~Holds(t)
           \/ seen[t] # None /\ ~Opens(seen[t], cipher[t], session)
        /\ FreeLock(t)
        /\ Goto(t, "failed")
        /\ UNCHANGED cache
     \/ /\ session # None /\ Holds(t) /\ seen[t] = None
        /\ cache' = [cache EXCEPT ![t] = Default]
        /\ Goto(t, "initVector")
        /\ UNCHANGED holder
     \/ /\ session # None /\ Holds(t) /\ seen[t] # None
        /\ Opens(seen[t], cipher[t], session)
        /\ cache' = [cache EXCEPT ![t] = seen[t].data]
        /\ IF job[t].op = "read" THEN FreeLock(t) /\ Goto(t, "done")
                                 ELSE Goto(t, "using") /\ UNCHANGED holder
  /\ UNCHANGED <<storage, session, job, cipher, vector, seen>>

\* Mutation: write() does not check that the entry is still its own.
UseUnchecked(t) ==
  /\ pc[t] = "using"
  /\ ~Throws(job[t], cache[t])
  /\ cache' = [cache EXCEPT ![t] = Effect(job[t], cache[t])]
  /\ Goto(t, "vector")
  /\ UNCHANGED <<storage, session, holder, job, cipher, vector, seen>>

\* fk_use up to the first await of the save() it makes, or to its end.
Use(t) ==
  /\ pc[t] = "using"
  /\ \/ /\ Throws(job[t], cache[t])
        /\ Finish(t, "failed")
        /\ UNCHANGED cache
     \/ /\ Unsaved(job[t], cache[t])
        /\ Finish(t, "done")
        /\ UNCHANGED cache
     \/ /\ ~Throws(job[t], cache[t]) /\ ~Unsaved(job[t], cache[t])
        /\ cache' = [cache EXCEPT ![t] = Effect(job[t], cache[t])]
        /\ Goto(t, IF Holds(t) THEN "vector" ELSE "failed")
        /\ UNCHANGED holder
  /\ UNCHANGED <<storage, session, job, cipher, vector, seen>>

\* Mutation: write() does not check that the vault is still unlocked.
LoadVectorUnchecked(t) ==
  /\ pc[t] \in {"initVector", "vector"}
  /\ vector' = [vector EXCEPT ![t] = session]
  /\ Goto(t, IF pc[t] = "vector" THEN "set" ELSE "initSet")
  /\ UNCHANGED <<storage, session, holder, job, cipher, seen, cache>>

\* write() loads the encryption vector; the vault may be locked by now.  The
\* save of a new store runs outside the try, so the lock is not released.
LoadVector(t) ==
  /\ pc[t] \in {"initVector", "vector"}
  /\ vector' = [vector EXCEPT ![t] = session]
  /\ \/ /\ session # None
        /\ Goto(t, IF pc[t] = "vector" THEN "set" ELSE "initSet")
        /\ UNCHANGED holder
     \/ /\ session = None /\ pc[t] = "vector"
        /\ Finish(t, "failed")
     \/ /\ session = None /\ pc[t] = "initVector"
        /\ Goto(t, IF Holds(t) THEN "leaked" ELSE "failed")
        /\ UNCHANGED holder
  /\ UNCHANGED <<storage, session, job, cipher, seen, cache>>

\* storage_set takes effect, and the entry caches what it wrote.
StorageSet(t) ==
  /\ pc[t] \in {"initSet", "set"}
  /\ LET e == Seal(cipher[t], vector[t], cache[t])
     IN  /\ storage' = [storage EXCEPT ![job[t].key] = e]
         /\ seen' = [seen EXCEPT ![t] = e]
  /\ Goto(t, IF pc[t] = "initSet" /\ job[t].op # "read" THEN "using"
                                                        ELSE "releasing")
  /\ UNCHANGED <<session, holder, job, cipher, vector, cache>>

Release(t) ==
  /\ pc[t] = "releasing"
  /\ Finish(t, "done")
  /\ UNCHANGED <<storage, session, job, cipher, vector, seen, cache>>

\* The lease runs out after 3 seconds: the entry is neutered and the lock
\* freed under whatever the task is doing.
ExpireLease(t) ==
  /\ pc[t] \in Leased
  /\ Holds(t)
  /\ LeaseMidWrite \/ pc[t] \notin MidWrite
  /\ holder' = [holder EXCEPT ![job[t].key] = None]
  /\ IF pc[t] = "leaked" THEN Goto(t, "failed") ELSE UNCHANGED pc
  /\ UNCHANGED <<storage, session, job, cipher, vector, seen, cache>>

\* The window is closed or the service worker stopped; the browser frees
\* the locks of a context that goes away.
Close(t) ==
  /\ pc[t] # "idle"
  /\ FreeLock(t)
  /\ Goto(t, "idle")
  /\ job' = [job EXCEPT ![t] = None]
  /\ cipher' = [cipher EXCEPT ![t] = None]
  /\ vector' = [vector EXCEPT ![t] = None]
  /\ seen' = [seen EXCEPT ![t] = None]
  /\ cache' = [cache EXCEPT ![t] = None]
  /\ UNCHANGED <<storage, session>>

\* clearRootKey(): the vault is locked.
Logout ==
  /\ session # None
  /\ session' = None
  /\ UNCHANGED <<storage, holder, pc, job, cipher, vector, seen, cache>>
-----------------------------------------------------------------------------
\* What a task does by itself once its awaits settle.
Step(t) ==
  \/ FetchCipher(t)
  \/ Readonly(t)
  \/ DecodeReadonly(t)
  \/ Acquire(t)
  \/ Checkout(t)
  \/ Decode(t)
  \/ Use(t)
  \/ LoadVector(t)
  \/ StorageSet(t)
  \/ Release(t)

Next ==
  \/ Logout
  \/ \E t \in Tasks :
       \/ \E j \in Jobs : Call(t, j)
       \/ Step(t)
       \/ AbortAcquire(t)
       \/ ExpireLease(t)
       \/ Close(t)

Spec == Init /\ [][Next]_vars

\* Awaits of browser storage and of the session settle, timers fire, and a
\* callback given to open() returns or is outlived by its lease.
Fairness ==
  \A t \in Tasks :
    /\ WF_vars(Step(t) /\ pc[t] # "using")
    /\ WF_vars(ExpireLease(t))

FairSpec == Spec /\ Fairness
=============================================================================
