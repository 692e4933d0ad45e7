-------------------------- MODULE VaultStoreProofs --------------------------
(***************************************************************************)
(* IInv is an inductive invariant of VaultStore, for any tasks, stores,    *)
(* paths and structs; type correctness, and the freshness of what a lock   *)
(* holder read, follow from it, and with ContentInv that the stores        *)
(* implement AtomicStore.                                                  *)
(***************************************************************************)
EXTENDS VaultStoreProps, TLAPS

\* Every call names a store.
LEMMA JobKey == \A j \in Jobs : j.key \in Keys /\ j # None
  BY DataAssumption DEF Jobs

\* The map operations of WritableStoreMap yield a map again.
LEMMA EffectType ==
  ASSUME NEW j \in Jobs, NEW c \in Contents, ~Throws(j, c)
  PROVE  Effect(j, c) \in Contents
<1>1. Default \in Contents
  BY DEF Default, Contents
<1>2. CASE j.op \in {"clear", "read"}
  BY <1>1, <1>2 DEF Effect
<1>3. CASE j.op = "put"
  <2>1. j.item \in Items /\ j.val \in Vals
    BY <1>3 DEF Jobs
  <2> QED
    BY <1>3, <2>1 DEF Effect, Contents
<1>4. CASE j.op = "update"
  <2>1. j.item \in Items /\ c[j.item] \in Vals
    BY <1>4 DEF Jobs, Throws, Contents
  <2> QED
    BY <1>4, <2>1, DataAssumption DEF Effect, Contents
<1>5. CASE j.op = "delete"
  <2>1. j.item \in Items
    BY <1>5 DEF Jobs
  <2> QED
    BY <1>5, <2>1 DEF Effect, Contents
<1> QED
  BY <1>2, <1>3, <1>4, <1>5 DEF Jobs
-----------------------------------------------------------------------------
LEMMA InitIInv == Init => IInv
<1> SUFFICES ASSUME Init PROVE IInv
  OBVIOUS
<1>1. TypeOK
  BY DEF Init, TypeOK, Entries, Seal, Positions, Callable
<1>2. ASSUME NEW t \in Tasks PROVE TaskInv(t)
  BY StoreAssumption
  DEF Init, TaskInv, Loaded, HoldsOnlyItsOwn, WriteHolds, Fresh, Holds, MidWrite
<1> QED
  BY <1>1, <1>2 DEF IInv
-----------------------------------------------------------------------------
\* A step of another task that neither takes nor frees a lock of u, nor
\* writes a store whose lock u owns.
Undisturbed(u) ==
  /\ pc'[u] = pc[u]
  /\ job'[u] = job[u]
  /\ cipher'[u] = cipher[u]
  /\ vector'[u] = vector[u]
  /\ seen'[u] = seen[u]
  /\ cache'[u] = cache[u]
  /\ \A k \in Keys : holder'[k] = u <=> holder[k] = u
  /\ ~LeaseMidWrite =>
       \A k \in Keys : holder[k] = u => storage'[k] = storage[k]

LEMMA Frame ==
  ASSUME IInv, NEW u \in Tasks, Undisturbed(u)
  PROVE  TaskInv(u)'
<1>1. TaskInv(u) /\ job[u] \in Jobs \cup {None}
  BY DEF IInv, TypeOK
<1>2. Loaded(u)' /\ HoldsOnlyItsOwn(u)'
  BY <1>1 DEF TaskInv, Undisturbed, Loaded, HoldsOnlyItsOwn
<1>3. Holds(u)' <=> Holds(u)
  BY <1>1, JobKey DEF Holds, Undisturbed
<1>4. ~LeaseMidWrite => WriteHolds(u)' /\ Fresh(u)'
  BY <1>1, <1>3, JobKey DEF TaskInv, Undisturbed, WriteHolds, Fresh, Holds
<1> QED
  BY <1>2, <1>4 DEF TaskInv

\* release() takes the lock from t and from nobody else.
LEMMA Freed ==
  ASSUME IInv, NEW t \in Tasks, FreeLock(t)
  PROVE  /\ holder' \in [Keys -> Tasks \cup {None}]
         /\ \A k \in Keys : holder'[k] # t
         /\ \A u \in Tasks \ {t}, k \in Keys : holder'[k] = u <=> holder[k] = u
<1>1. /\ holder \in [Keys -> Tasks \cup {None}]
      /\ job[t] \in Jobs \cup {None}
      /\ HoldsOnlyItsOwn(t)
  BY DEF IInv, TypeOK, TaskInv
<1> QED
  BY <1>1, JobKey, StoreAssumption DEF FreeLock, Holds, HoldsOnlyItsOwn

\* Whatever makes t settle and gives its lock back keeps the invariant.
LEMMA FreeingStep ==
  ASSUME IInv, NEW t \in Tasks, FreeLock(t),
         NEW p \in {"done", "failed"}, pc' = [pc EXCEPT ![t] = p],
         job[t] # None, cipher[t] # None,
         UNCHANGED <<storage, session, job, cipher, seen>>,
         \/ vector' = vector
         \/ vector' = [vector EXCEPT ![t] = session],
         \/ cache' = cache
         \/ \E c \in Contents : cache' = [cache EXCEPT ![t] = c]
  PROVE  IInv'
<1>1. TypeOK'
  BY Freed DEF IInv, TypeOK, Positions, Callable
<1>2. ASSUME NEW u \in Tasks \ {t} PROVE Undisturbed(u)
  BY Freed DEF IInv, TypeOK, Undisturbed
<1>3. \A k \in Keys : holder'[k] # t
  BY Freed
<1>4. job'[t] \in Jobs /\ job'[t].key \in Keys /\ cipher'[t] # None
  BY JobKey DEF IInv, TypeOK
<1>5. pc'[t] = p
  BY DEF IInv, TypeOK
<1>6. TaskInv(t)'
  BY <1>3, <1>4, <1>5
  DEF TaskInv, Loaded, HoldsOnlyItsOwn, WriteHolds, Fresh, Holds, MidWrite
<1> QED
  BY <1>1, <1>2, <1>6, Frame DEF IInv

\* A call starts from nothing, and its task owns no lock.
LEMMA CallStep ==
  ASSUME IInv, NEW t \in Tasks, NEW j \in Jobs, Call(t, j)
  PROVE  IInv'
<1> USE DEF Goto
<1>0. TypeOK /\ TaskInv(t) /\ (pc[t] # "idle" => job[t] \in Jobs /\ job[t].key \in Keys)
  BY JobKey DEF IInv, TypeOK, TaskInv, Loaded
<1>1. TypeOK'
  BY <1>0 DEF Call, TypeOK, Positions, Callable, Leased
<1>2. ASSUME NEW u \in Tasks \ {t} PROVE Undisturbed(u)
  BY <1>0 DEF Call, TypeOK, Undisturbed
<1>3. TaskInv(t)'
  BY <1>0, JobKey DEF Call, TypeOK, TaskInv, Loaded, HoldsOnlyItsOwn, WriteHolds,
     Fresh, Holds, MidWrite, Leased, Callable
<1> QED
  BY <1>1, <1>2, <1>3, Frame DEF IInv

\* The cipher is that of the session, if there is one.
LEMMA FetchCipherStep ==
  ASSUME IInv, NEW t \in Tasks, FetchCipher(t)
  PROVE  IInv'
<1> USE DEF Goto
<1>0. TypeOK /\ TaskInv(t) /\ (pc[t] # "idle" => job[t] \in Jobs /\ job[t].key \in Keys)
  BY JobKey DEF IInv, TypeOK, TaskInv, Loaded
<1>1. TypeOK'
  BY <1>0 DEF FetchCipher, TypeOK, Positions, Callable, Leased
<1>2. ASSUME NEW u \in Tasks \ {t} PROVE Undisturbed(u)
  BY <1>0 DEF FetchCipher, TypeOK, Undisturbed
<1>3. TaskInv(t)'
  BY <1>0 DEF FetchCipher, TypeOK, TaskInv, Loaded, HoldsOnlyItsOwn, WriteHolds,
     Fresh, Holds, MidWrite, Leased, Callable
<1> QED
  BY <1>1, <1>2, <1>3, Frame DEF IInv

\* A readonly entry is read without the lock.
LEMMA ReadonlyStep ==
  ASSUME IInv, NEW t \in Tasks, Readonly(t)
  PROVE  IInv'
<1> USE DEF Goto
<1>0. TypeOK /\ TaskInv(t) /\ (pc[t] # "idle" => job[t] \in Jobs /\ job[t].key \in Keys)
  BY JobKey DEF IInv, TypeOK, TaskInv, Loaded
<1>1. TypeOK'
  BY <1>0 DEF Readonly, TypeOK, Positions, Callable, Leased
<1>2. ASSUME NEW u \in Tasks \ {t} PROVE Undisturbed(u)
  BY <1>0 DEF Readonly, TypeOK, Undisturbed
<1>3. TaskInv(t)'
  BY <1>0 DEF Readonly, TypeOK, TaskInv, Loaded, HoldsOnlyItsOwn, WriteHolds,
     Fresh, Holds, MidWrite, Leased, Callable
<1> QED
  BY <1>1, <1>2, <1>3, Frame DEF IInv

\* A readonly entry is decoded without the lock.
LEMMA DecodeReadonlyStep ==
  ASSUME IInv, NEW t \in Tasks, DecodeReadonly(t)
  PROVE  IInv'
<1> USE DEF Goto
<1>0. TypeOK /\ TaskInv(t) /\ (pc[t] # "idle" => job[t] \in Jobs /\ job[t].key \in Keys)
  BY JobKey DEF IInv, TypeOK, TaskInv, Loaded
<1>1. TypeOK'
  BY <1>0 DEF DecodeReadonly, TypeOK, Positions, Callable, Leased, Entries
<1>2. ASSUME NEW u \in Tasks \ {t} PROVE Undisturbed(u)
  BY <1>0 DEF DecodeReadonly, TypeOK, Undisturbed
<1>3. TaskInv(t)'
  BY <1>0 DEF DecodeReadonly, TypeOK, TaskInv, Loaded, HoldsOnlyItsOwn, WriteHolds,
     Fresh, Holds, MidWrite, Leased, Callable
<1> QED
  BY <1>1, <1>2, <1>3, Frame DEF IInv

\* The lock was free, so it is taken from nobody.
LEMMA AcquireStep ==
  ASSUME IInv, NEW t \in Tasks, Acquire(t)
  PROVE  IInv'
<1> USE DEF Goto
<1>0. TypeOK /\ TaskInv(t) /\ (pc[t] # "idle" => job[t] \in Jobs /\ job[t].key \in Keys)
  BY JobKey DEF IInv, TypeOK, TaskInv, Loaded
<1>1. TypeOK'
  BY <1>0 DEF Acquire, TypeOK, Positions, Callable, Leased
<1>2. ASSUME NEW u \in Tasks \ {t} PROVE Undisturbed(u)
  BY <1>0, StoreAssumption DEF Acquire, TypeOK, Undisturbed
<1>3. TaskInv(t)'
  BY <1>0, StoreAssumption DEF Acquire, TypeOK, TaskInv, Loaded, HoldsOnlyItsOwn, WriteHolds,
     Fresh, Holds, MidWrite, Leased, Callable
<1> QED
  BY <1>1, <1>2, <1>3, Frame DEF IInv

\* A task that waits owns no lock.
LEMMA AbortAcquireStep ==
  ASSUME IInv, NEW t \in Tasks, AbortAcquire(t)
  PROVE  IInv'
<1> USE DEF Goto
<1>0. TypeOK /\ TaskInv(t) /\ (pc[t] # "idle" => job[t] \in Jobs /\ job[t].key \in Keys)
  BY JobKey DEF IInv, TypeOK, TaskInv, Loaded
<1>1. TypeOK'
  BY <1>0 DEF AbortAcquire, TypeOK, Positions, Callable, Leased
<1>2. ASSUME NEW u \in Tasks \ {t} PROVE Undisturbed(u)
  BY <1>0 DEF AbortAcquire, TypeOK, Undisturbed
<1>3. TaskInv(t)'
  BY <1>0 DEF AbortAcquire, TypeOK, TaskInv, Loaded, HoldsOnlyItsOwn, WriteHolds,
     Fresh, Holds, MidWrite, Leased, Callable
<1> QED
  BY <1>1, <1>2, <1>3, Frame DEF IInv

\* The entry is read under the lock.
LEMMA CheckoutStep ==
  ASSUME IInv, NEW t \in Tasks, Checkout(t)
  PROVE  IInv'
<1> USE DEF Goto
<1>0. TypeOK /\ TaskInv(t) /\ (pc[t] # "idle" => job[t] \in Jobs /\ job[t].key \in Keys)
  BY JobKey DEF IInv, TypeOK, TaskInv, Loaded
<1>1. TypeOK'
  BY <1>0 DEF Checkout, TypeOK, Positions, Callable, Leased
<1>2. ASSUME NEW u \in Tasks \ {t} PROVE Undisturbed(u)
  BY <1>0 DEF Checkout, TypeOK, Undisturbed
<1>3. TaskInv(t)'
  BY <1>0 DEF Checkout, TypeOK, TaskInv, Loaded, HoldsOnlyItsOwn, WriteHolds,
     Fresh, Holds, MidWrite, Leased, Callable
<1> QED
  BY <1>1, <1>2, <1>3, Frame DEF IInv

\* The entry is decoded; a new store goes on to save its default.
LEMMA DecodeStep ==
  ASSUME IInv, NEW t \in Tasks, Decode(t)
  PROVE  IInv'
<1> USE DEF Goto
<1>1. /\ TypeOK /\ TaskInv(t) /\ pc[t] = "opened"
      /\ job[t] \in Jobs /\ job[t].key \in Keys
  BY JobKey DEF IInv, TypeOK, TaskInv, Loaded, Decode
<1>2. CASE FreeLock(t) /\ pc' = [pc EXCEPT ![t] = "failed"] /\ UNCHANGED cache
  BY <1>1, <1>2, FreeingStep DEF Decode, TaskInv, Loaded
<1>3. CASE /\ Holds(t) /\ UNCHANGED holder
           /\ cache' = [cache EXCEPT ![t] = Default]
           /\ pc' = [pc EXCEPT ![t] = "initVector"]
  <2>1. Default \in Contents
    BY DEF Default, Contents
  <2>2. TypeOK'
    BY <1>1, <1>3, <2>1 DEF Decode, TypeOK, Positions, Leased
  <2>3. ASSUME NEW u \in Tasks \ {t} PROVE Undisturbed(u)
    BY <1>1, <1>3 DEF Decode, TypeOK, Undisturbed
  <2>4. TaskInv(t)'
    BY <1>1, <1>3, <2>1, DataAssumption
    DEF Decode, TypeOK, TaskInv, Loaded, HoldsOnlyItsOwn, WriteHolds, Fresh,
        Holds, MidWrite, Leased
  <2> QED
    BY <2>2, <2>3, <2>4, Frame DEF IInv
<1>4. CASE /\ Holds(t) /\ seen[t] # None
           /\ cache' = [cache EXCEPT ![t] = seen[t].data]
           /\ \/ FreeLock(t) /\ pc' = [pc EXCEPT ![t] = "done"]
              \/ pc' = [pc EXCEPT ![t] = "using"] /\ UNCHANGED holder
  <2>1. seen[t].data \in Contents
    BY <1>1, <1>4 DEF TypeOK, Entries
  <2>2. CASE FreeLock(t) /\ pc' = [pc EXCEPT ![t] = "done"]
    BY <1>1, <1>4, <2>1, <2>2, FreeingStep DEF Decode, TypeOK, Callable, TaskInv, Loaded
  <2>3. CASE pc' = [pc EXCEPT ![t] = "using"] /\ UNCHANGED holder
    <3>1. TypeOK'
      BY <1>1, <1>4, <2>1, <2>3 DEF Decode, TypeOK, Positions, Leased
    <3>2. ASSUME NEW u \in Tasks \ {t} PROVE Undisturbed(u)
      BY <1>1, <1>4, <2>3 DEF Decode, TypeOK, Undisturbed
    <3>3. TaskInv(t)'
      BY <1>1, <1>4, <2>1, <2>3, DataAssumption
      DEF Decode, TypeOK, TaskInv, Loaded, HoldsOnlyItsOwn, WriteHolds, Fresh,
          Holds, MidWrite, Leased
    <3> QED
      BY <3>1, <3>2, <3>3, Frame DEF IInv
  <2> QED
    BY <1>4, <2>2, <2>3
<1> QED
  BY <1>2, <1>3, <1>4 DEF Decode

\* Where release() is called, the lock goes back and t settles.
LEMMA FinishStep ==
  ASSUME IInv, NEW t \in Tasks, NEW p \in {"done", "failed"}, Finish(t, p),
         pc[t] \notin {"idle", "cipher", "failed"},
         UNCHANGED <<storage, job, cipher, seen, cache, session>>,
         vector' = vector \/ vector' = [vector EXCEPT ![t] = session]
  PROVE  IInv'
<1>1. FreeLock(t) /\ \E q \in {"done", "failed"} : pc' = [pc EXCEPT ![t] = q]
  BY DEF Finish, Goto
<1>2. TypeOK /\ job[t] # None /\ cipher[t] # None
  BY DEF IInv, TaskInv, Loaded
<1> QED
  BY <1>1, <1>2, FreeingStep DEF TypeOK, Callable

\* The callback runs on the entry that was read.
LEMMA UseStep ==
  ASSUME IInv, NEW t \in Tasks, Use(t)
  PROVE  IInv'
<1>1. /\ TypeOK /\ TaskInv(t) /\ pc[t] = "using"
      /\ job[t] \in Jobs /\ job[t].key \in Keys
      /\ cache[t] \in Contents
  BY JobKey DEF IInv, TypeOK, TaskInv, Loaded, Use
<1>2. CASE Finish(t, "failed") /\ UNCHANGED cache
  BY <1>1, <1>2, FinishStep DEF Use
<1>3. CASE Finish(t, "done") /\ UNCHANGED cache
  BY <1>1, <1>3, FinishStep DEF Use
<1>4. CASE /\ ~Throws(job[t], cache[t])
           /\ cache' = [cache EXCEPT ![t] = Effect(job[t], cache[t])]
           /\ Goto(t, IF Holds(t) THEN "vector" ELSE "failed")
           /\ UNCHANGED holder
  <2>1. Effect(job[t], cache[t]) \in Contents
    BY <1>1, <1>4, EffectType
  <2>2. PICK p \in {"vector", "failed"} :
          /\ pc' = [pc EXCEPT ![t] = p]
          /\ p = "vector" <=> Holds(t)
    BY <1>4 DEF Goto
  <2>3. TypeOK'
    BY <1>1, <1>4, <2>1, <2>2 DEF Use, TypeOK, Positions, Leased, Callable
  <2>4. ASSUME NEW u \in Tasks \ {t} PROVE Undisturbed(u)
    BY <1>1, <1>4, <2>2 DEF Use, TypeOK, Undisturbed
  <2>5. Loaded(t)' /\ WriteHolds(t)' /\ (Fresh(t) => Fresh(t)')
    BY <1>1, <1>4, <2>1, <2>2, DataAssumption
    DEF Use, TypeOK, TaskInv, Loaded, WriteHolds, Fresh, Holds, MidWrite
  <2>6. HoldsOnlyItsOwn(t)'
    BY <1>1, <1>4, <2>2
    DEF Use, TypeOK, TaskInv, HoldsOnlyItsOwn, Holds, Leased
  <2> QED
    BY <1>1, <2>3, <2>4, <2>5, <2>6, Frame DEF IInv, TaskInv
<1> QED
  BY <1>2, <1>3, <1>4 DEF Use

\* The write loads its vector; if the vault is locked, it throws.
LEMMA LoadVectorStep ==
  ASSUME IInv, NEW t \in Tasks, LoadVector(t)
  PROVE  IInv'
<1>1. /\ TypeOK /\ TaskInv(t) /\ pc[t] \in {"initVector", "vector"}
      /\ job[t] \in Jobs /\ job[t].key \in Keys
  BY JobKey DEF IInv, TypeOK, TaskInv, Loaded, LoadVector
<1>2. CASE Finish(t, "failed")
  BY <1>1, <1>2, FinishStep DEF LoadVector
<1>3. CASE UNCHANGED holder /\ ~Finish(t, "failed")
  <2>1. PICK p \in {"initSet", "set", "leaked", "failed"} :
          /\ pc' = [pc EXCEPT ![t] = p]
          /\ p \in {"initSet", "set"} => session # None
          /\ p = "failed" => ~Holds(t)
    BY <1>1, <1>3 DEF LoadVector, Goto
  <2>2. TypeOK'
    BY <1>1, <1>3, <2>1 DEF LoadVector, TypeOK, Positions, Leased, Callable
  <2>3. ASSUME NEW u \in Tasks \ {t} PROVE Undisturbed(u)
    BY <1>1, <1>3, <2>1 DEF LoadVector, TypeOK, Undisturbed
  <2>4. Loaded(t)' /\ (WriteHolds(t) => WriteHolds(t)') /\ (Fresh(t) => Fresh(t)')
    BY <1>1, <1>3, <2>1
    DEF LoadVector, TypeOK, TaskInv, Loaded, WriteHolds, Fresh, Holds, MidWrite
  <2>5. HoldsOnlyItsOwn(t)'
    BY <1>1, <1>3, <2>1
    DEF LoadVector, TypeOK, TaskInv, HoldsOnlyItsOwn, Holds, Leased
  <2> QED
    BY <1>1, <2>2, <2>3, <2>4, <2>5, Frame DEF IInv, TaskInv
<1> QED
  BY <1>2, <1>3 DEF LoadVector

\* The write lands: its task owns the lock, so no other holder is outdated.
LEMMA StorageSetStep ==
  ASSUME IInv, NEW t \in Tasks, StorageSet(t)
  PROVE  IInv'
<1>1. /\ TypeOK /\ TaskInv(t) /\ pc[t] \in {"initSet", "set"}
      /\ job[t] \in Jobs /\ job[t].key \in Keys
  BY JobKey DEF IInv, TypeOK, TaskInv, Loaded, StorageSet
<1>2. PICK p \in {"using", "releasing"} :
        /\ pc' = [pc EXCEPT ![t] = p]
  BY DEF StorageSet, Goto
<1> DEFINE e == Seal(cipher[t], vector[t], cache[t])
<1>3. /\ storage' = [storage EXCEPT ![job[t].key] = e]
      /\ seen' = [seen EXCEPT ![t] = e]
      /\ UNCHANGED <<session, holder, job, cipher, vector, cache>>
  BY DEF StorageSet
<1>4. e \in Entries
  BY <1>1 DEF TypeOK, TaskInv, Loaded, MidWrite, Entries, Seal
<1> HIDE DEF e
<1>5. TypeOK'
  BY <1>1, <1>2, <1>3, <1>4 DEF TypeOK, Positions, Leased
<1>6. ~LeaseMidWrite => holder[job[t].key] = t
  BY <1>1 DEF TaskInv, WriteHolds, Holds, MidWrite
<1>7. ASSUME NEW u \in Tasks \ {t} PROVE Undisturbed(u)
  BY <1>1, <1>2, <1>3, <1>6 DEF TypeOK, Undisturbed
<1>8. Loaded(t)' /\ HoldsOnlyItsOwn(t)'
  BY <1>1, <1>2, <1>3
  DEF TypeOK, TaskInv, Loaded, HoldsOnlyItsOwn, MidWrite, Leased
<1>9. WriteHolds(t)' /\ Fresh(t)'
  BY <1>1, <1>2, <1>3 DEF TypeOK, WriteHolds, Fresh, Holds, MidWrite
<1> QED
  BY <1>5, <1>7, <1>8, <1>9, Frame DEF IInv, TaskInv

LEMMA ReleaseStep ==
  ASSUME IInv, NEW t \in Tasks, Release(t)
  PROVE  IInv'
  BY FinishStep DEF Release

\* The lease takes the lock from its task and from nobody else.
LEMMA ExpireLeaseStep ==
  ASSUME IInv, NEW t \in Tasks, ExpireLease(t)
  PROVE  IInv'
<1>1. /\ TypeOK /\ TaskInv(t) /\ pc[t] \in Leased
      /\ job[t] \in Jobs /\ job[t].key \in Keys
  BY JobKey DEF IInv, TypeOK, TaskInv, Loaded, ExpireLease, Leased
<1>2. FreeLock(t)
  BY DEF ExpireLease, FreeLock
<1>3. CASE pc[t] = "leaked"
  BY <1>1, <1>2, <1>3, FreeingStep
  DEF ExpireLease, Goto, TypeOK, Callable, TaskInv, Loaded
<1>4. CASE UNCHANGED pc
  <2>1. TypeOK'
    BY <1>1, <1>2, <1>4, Freed DEF ExpireLease, TypeOK
  <2>2. ASSUME NEW u \in Tasks \ {t} PROVE Undisturbed(u)
    BY <1>1, <1>2, <1>4, Freed DEF ExpireLease, Undisturbed
  <2>3. \A k \in Keys : holder'[k] # t
    BY <1>2, Freed
  <2>4. TaskInv(t)'
    BY <1>1, <1>4, <2>3
    DEF ExpireLease, TaskInv, Loaded, HoldsOnlyItsOwn, WriteHolds, Fresh, Holds
  <2> QED
    BY <2>1, <2>2, <2>4, Frame DEF IInv
<1> QED
  BY <1>3, <1>4 DEF ExpireLease

\* The window goes away, with its locks.
LEMMA CloseStep ==
  ASSUME IInv, NEW t \in Tasks, Close(t)
  PROVE  IInv'
<1>1. TypeOK'
  BY Freed DEF IInv, Close, Goto, TypeOK, Positions, Callable
<1>2. ASSUME NEW u \in Tasks \ {t} PROVE Undisturbed(u)
  BY Freed DEF IInv, Close, Goto, TypeOK, Undisturbed
<1>3. \A k \in Keys : holder'[k] # t
  BY Freed DEF Close
<1>4. TaskInv(t)'
  BY <1>3 DEF IInv, Close, Goto, TypeOK, TaskInv, Loaded, HoldsOnlyItsOwn,
             WriteHolds, Fresh, Holds, MidWrite
<1> QED
  BY <1>1, <1>2, <1>4, Frame DEF IInv

LEMMA LogoutStep ==
  ASSUME IInv, Logout
  PROVE  IInv'
<1>1. TypeOK'
  BY DEF IInv, Logout, TypeOK
<1>2. ASSUME NEW u \in Tasks PROVE Undisturbed(u)
  BY DEF Logout, Undisturbed
<1> QED
  BY <1>1, <1>2, Frame DEF IInv
-----------------------------------------------------------------------------
LEMMA NextIInv == IInv /\ [Next]_vars => IInv'
<1> SUFFICES ASSUME IInv, [Next]_vars PROVE IInv'
  OBVIOUS
<1>1. CASE UNCHANGED vars
  <2>1. TypeOK'
    BY <1>1 DEF IInv, TypeOK, vars
  <2>2. ASSUME NEW u \in Tasks PROVE Undisturbed(u)
    BY <1>1 DEF vars, Undisturbed
  <2> QED
    BY <2>1, <2>2, Frame DEF IInv
<1>2. ASSUME NEW t \in Tasks, Step(t) PROVE IInv'
  BY <1>2, FetchCipherStep, ReadonlyStep, DecodeReadonlyStep, AcquireStep,
     CheckoutStep, DecodeStep, UseStep, LoadVectorStep, StorageSetStep,
     ReleaseStep DEF Step
<1>3. CASE Next
  BY <1>2, <1>3, LogoutStep, CallStep, AbortAcquireStep, ExpireLeaseStep,
     CloseStep DEF Next
<1> QED
  BY <1>1, <1>3

\* What a task has loaded by each await, which locks it has, and what they protect,
\* hold in every behaviour of the stores (create_store_class, Vault.acquire).
THEOREM Inductive == Spec => []IInv
  BY InitIInv, NextIInv, PTL DEF Spec

\* Every variable of the stores keeps its type, whatever the tasks do.
THEOREM TypeCorrect == Spec => []TypeOK
<1>1. IInv => TypeOK
  BY DEF IInv
<1> QED
  BY <1>1, Inductive, PTL

\* If no lease runs out inside a write, whoever owns the lock of a store
\* works on what is stored (Vault.acquire, WritableVaultEntry.write).
THEOREM HolderIsFresh ==
  ASSUME ~LeaseMidWrite
  PROVE  Spec => []FreshSnapshot
<1>1. IInv => FreshSnapshot
  BY DEF IInv, TaskInv, FreshSnapshot
<1> QED
  BY <1>1, Inductive, PTL
-----------------------------------------------------------------------------
(* The stores implement AtomicStore.                                        *)

\* What a task knows of the struct it works on: until the callback has run its copy
\* is what it read, then the effect of its call on that; a new store is empty.
Content(t) ==
  /\ pc[t] \in {"fetching", "decoding"} => job[t].op = "read"
  /\ pc[t] \in {"using", "vector", "set"} => job[t].op # "read"
  /\ pc[t] \in {"initVector", "initSet"} => seen[t] = None /\ cache[t] = Default
  /\ pc[t] \in {"using", "releasing"} => seen[t] # None /\ cache[t] = seen[t].data
  /\ pc[t] \in {"vector", "set"} =>
       /\ seen[t] # None /\ ~Throws(job[t], seen[t].data)
       /\ cache[t] = Effect(job[t], seen[t].data)

ContentInv == \A t \in Tasks : Content(t)

\* A step leaves alone what all others but t have.
OnlyOf(t) == \A u \in Tasks \ {t} :
  /\ pc'[u] = pc[u] /\ job'[u] = job[u]
  /\ seen'[u] = seen[u] /\ cache'[u] = cache[u]

\* A step of t leaves it to t to keep ContentInv.
LEMMA ContentFrame ==
  ASSUME ContentInv, NEW t \in Tasks, OnlyOf(t), Content(t)'
  PROVE  ContentInv'
<1>1. ASSUME NEW u \in Tasks \ {t} PROVE Content(u)'
  BY <1>1 DEF ContentInv, Content, OnlyOf
<1> QED
  BY <1>1 DEF ContentInv

\* A step of a task touches what that task has, and nothing of the others.
LEMMA StepOnly ==
  ASSUME TypeOK, NEW t \in Tasks,
         \/ \E j \in Jobs : Call(t, j)
         \/ Step(t) \/ AbortAcquire(t) \/ ExpireLease(t) \/ Close(t)
  PROVE  OnlyOf(t)
<1> USE DEF TypeOK, OnlyOf, Goto, Finish
<1>1. ASSUME NEW j \in Jobs, Call(t, j) PROVE OnlyOf(t)
  BY <1>1 DEF Call
<1>2. CASE FetchCipher(t) \/ Readonly(t) \/ DecodeReadonly(t)
  BY <1>2 DEF FetchCipher, Readonly, DecodeReadonly
<1>3. CASE Acquire(t) \/ Checkout(t) \/ Decode(t)
  BY <1>3 DEF Acquire, Checkout, Decode
<1>4. CASE Use(t) \/ LoadVector(t)
  BY <1>4 DEF Use, LoadVector
<1>5. CASE StorageSet(t) \/ Release(t)
  BY <1>5 DEF StorageSet, Release
<1>6. CASE AbortAcquire(t) \/ ExpireLease(t) \/ Close(t)
  BY <1>6 DEF AbortAcquire, ExpireLease, Close
<1> QED
  BY <1>1, <1>2, <1>3, <1>4, <1>5, <1>6 DEF Step

LEMMA InitContent == Init => ContentInv
BY DEF Init, ContentInv, Content

LEMMA NextContent ==
  ASSUME IInv, ContentInv, [Next]_vars
  PROVE  ContentInv'
<1>0. TypeOK
  BY DEF IInv
<1> USE <1>0 DEF TypeOK, Goto, Finish
<1>1. CASE UNCHANGED vars
  BY <1>1 DEF vars, ContentInv, Content
<1>2. CASE Logout
  BY <1>2 DEF Logout, ContentInv, Content
<1>3. ASSUME NEW t \in Tasks,
             \/ \E j \in Jobs : Call(t, j)
             \/ Step(t) \/ AbortAcquire(t) \/ ExpireLease(t) \/ Close(t)
      PROVE  ContentInv'
  <2>1. OnlyOf(t)
    BY <1>3, StepOnly
  <2>2. Content(t)
    BY DEF ContentInv
  <2>3. CASE \E j \in Jobs : Call(t, j)
    BY <2>3, <2>1, ContentFrame DEF Call, Content
  <2>4. CASE FetchCipher(t)
    BY <2>4, <2>1, ContentFrame DEF FetchCipher, Content
  <2>5. CASE Readonly(t)
    BY <2>5, <2>1, <2>2, ContentFrame DEF Readonly, Content
  <2>6. CASE DecodeReadonly(t)
    BY <2>6, <2>1, ContentFrame DEF DecodeReadonly, Content
  <2>7. CASE Acquire(t) \/ AbortAcquire(t) \/ Checkout(t)
    BY <2>7, <2>1, ContentFrame DEF Acquire, AbortAcquire, Checkout, Content
  <2>8. CASE Decode(t)
    BY <2>8, <2>1, ContentFrame DEF Decode, Content
  <2>9. CASE Use(t)
    BY <2>9, <2>1, <2>2, ContentFrame DEF Use, Content
  <2>10. CASE LoadVector(t)
    BY <2>10, <2>1, <2>2, ContentFrame DEF LoadVector, Content
  <2>11. CASE StorageSet(t)
    <3>1. seen'[t] # None /\ cache'[t] = seen'[t].data
      <4>1. Seal(cipher[t], vector[t], cache[t]) \in Entries
        BY <2>11 DEF StorageSet, IInv, TaskInv, Loaded, MidWrite, Entries, Seal
      <4> QED
        BY <2>11, <4>1, StoreAssumption DEF StorageSet, Seal
    <3>2. /\ pc'[t] \in {"using", "releasing"}
          /\ pc'[t] = "using" => job'[t].op # "read"
      BY <2>11, <2>2 DEF StorageSet, Content
    <3>3. Content(t)'
      BY <3>1, <3>2 DEF Content
    <3> QED
      BY <3>3, <2>1, ContentFrame
  <2>12. CASE Release(t) \/ Close(t)
    BY <2>12, <2>1, ContentFrame DEF Release, Close, Content
  <2>13. CASE ExpireLease(t)
    BY <2>13, <2>1, <2>2, ContentFrame DEF ExpireLease, Content
  <2> QED
    BY <1>3, <2>3, <2>4, <2>5, <2>6, <2>7, <2>8, <2>9, <2>10, <2>11, <2>12, <2>13 DEF Step
<1> QED
  BY <1>1, <1>2, <1>3 DEF Next

LEMMA ContentInductive == Spec => []ContentInv
<1>1. IInv /\ ContentInv /\ [Next]_vars => ContentInv'
  BY NextContent
<1> QED
  BY <1>1, InitContent, Inductive, PTL DEF Spec
-----------------------------------------------------------------------------
\* The variables of AtomicStore as VaultStoreProps maps them.
Data == [k \in Keys |-> IF storage[k] = None THEN None ELSE storage[k].data]
Status == [t \in Tasks |-> StatusOf(t)]
Result == [t \in Tasks |-> ResultOf(t)]

\* Only the step of a task moves what its caller sees.
LEMMA Moves ==
  ASSUME NEW t \in Tasks, OnlyOf(t)
  PROVE  /\ Status' = [Status EXCEPT ![t] = StatusOf(t)']
         /\ Result' = [Result EXCEPT ![t] = ResultOf(t)']
<1>1. ASSUME NEW u \in Tasks \ {t} PROVE StatusOf(u)' = StatusOf(u) /\ ResultOf(u)' = ResultOf(u)
  BY <1>1 DEF OnlyOf, StatusOf, ResultOf, ReadTaken
<1> QED
  BY <1>1 DEF Status, Result

\* A step that the caller cannot tell.
LEMMA Stutters ==
  ASSUME NEW t \in Tasks, OnlyOf(t), UNCHANGED <<Data, job>>,
         StatusOf(t)' = StatusOf(t), ResultOf(t)' = ResultOf(t)
  PROVE  UNCHANGED Atomic!vars
<1>1. Status' = Status /\ Result' = Result
  BY Moves DEF Status, Result
<1> QED
  BY <1>1 DEF Atomic!vars, Data, Status, Result

\* A call that took effect resolves; one that did not, or did, rejects.
LEMMA Settles ==
  ASSUME NEW t \in Tasks, OnlyOf(t), UNCHANGED <<Data, job>>,
         \/ StatusOf(t) = "applied" /\ StatusOf(t)' = "ok" /\ ResultOf(t)' = ResultOf(t)
         \/ StatusOf(t) \in {"pending", "applied"} /\ StatusOf(t)' = "error" /\ ResultOf(t)' = None
  PROVE  Atomic!Next
<1>1. Atomic!Settle(t)
  BY Moves DEF Atomic!Settle, Data, Status, Result
<1> QED
  BY <1>1 DEF Atomic!Next

\* A call takes effect on the content of its store.
LEMMA Applies ==
  ASSUME NEW t \in Tasks, OnlyOf(t), UNCHANGED job,
         NEW c, Data[job[t].key] = c, c # None,
         StatusOf(t) = "pending", StatusOf(t)' \in {"applied", "ok"},
         ~Throws(job[t], c),
         Data' = [Data EXCEPT ![job[t].key] = Effect(job[t], c)],
         ResultOf(t)' = IF job[t].op = "read" THEN c ELSE None
  PROVE  Atomic!Next
<1>1. Atomic!Latest(job[t].key) = c
  BY DEF Atomic!Latest, Data
<1>2. ~Atomic!Throws(job[t], c) /\ Atomic!Effect(job[t], c) = Effect(job[t], c)
  BY DEF Throws, Atomic!Throws, Effect, Atomic!Effect, Default, Atomic!Default
<1>3. Atomic!Apply(t)
  BY <1>1, <1>2, Moves DEF Atomic!Apply, Data, Status, Result
<1> QED
  BY <1>3 DEF Atomic!Next

\* The first call on a store saves its default.
LEMMA Initializes ==
  ASSUME NEW t \in Tasks, OnlyOf(t), UNCHANGED job,
         Data[job[t].key] = None, Data' = [Data EXCEPT ![job[t].key] = Default],
         StatusOf(t) = "pending", StatusOf(t)' = "pending", ResultOf(t)' = ResultOf(t)
  PROVE  Atomic!Next
<1>1. Status' = Status /\ Result' = Result
  BY Moves DEF Status, Result
<1>2. Atomic!Initialize(t)
  BY <1>1 DEF Atomic!Initialize, Data, Status, Result, Default, Atomic!Default
<1> QED
  BY <1>2 DEF Atomic!Next

\* What is known before a step of t: what it works on is what is stored, while the
\* lock is its own.
Known(t) == IInv /\ ContentInv /\ ~LeaseMidWrite /\ t \in Tasks

LEMMA KnownOf ==
  ASSUME NEW t, Known(t)
  PROVE  /\ TypeOK /\ TaskInv(t) /\ Content(t)
         /\ pc[t] # "idle" => job[t] \in Jobs /\ job[t].key \in Keys /\ job[t] # None
         /\ Holds(t) /\ pc[t] # "granted" => seen[t] = storage[job[t].key]
         /\ pc[t] \in MidWrite => Holds(t)
<1>1. TypeOK /\ TaskInv(t) /\ Content(t)
  BY DEF Known, IInv, ContentInv
<1> QED
  BY <1>1, JobKey DEF Known, TypeOK, TaskInv, Loaded, Fresh, WriteHolds

\* What is stored is None or an entry.
LEMMA DataOf ==
  ASSUME TypeOK, NEW k \in Keys
  PROVE  /\ storage[k] = None => Data[k] = None
         /\ storage[k] # None => Data[k] = storage[k].data /\ Data[k] # None
BY DataAssumption DEF TypeOK, Entries, Data

\* A read takes effect where it changes nothing.
LEMMA ReadApplies ==
  ASSUME TypeOK, NEW t \in Tasks, OnlyOf(t), UNCHANGED <<storage, job>>,
         job[t].key \in Keys, storage[job[t].key] # None,
         NEW c, c = storage[job[t].key].data,
         StatusOf(t) = "pending", StatusOf(t)' \in {"applied", "ok"},
         ~Throws(job[t], c), Effect(job[t], c) = c,
         ResultOf(t)' = IF job[t].op = "read" THEN c ELSE None
  PROVE  Atomic!Next
<1>1. Data[job[t].key] = c /\ c # None /\ Data' = Data
  BY DataOf DEF Data
<1>2. Data' = [Data EXCEPT ![job[t].key] = Effect(job[t], c)]
  BY <1>1 DEF Data
<1> QED
  BY <1>1, <1>2, Applies

LEMMA CallRefines ==
  ASSUME NEW t, Known(t), OnlyOf(t), NEW j \in Jobs, Call(t, j)
  PROVE  Atomic!Next
<1>1. t \in Tasks /\ TypeOK /\ j # None
  BY KnownOf, JobKey DEF Known
<1>2. StatusOf(t) \in {"idle", "ok", "error"}
  BY DEF Call, Callable, StatusOf
<1>3. job' = [job EXCEPT ![t] = j] /\ pc'[t] = "cipher"
  BY <1>1 DEF Call, Goto, TypeOK
<1>4. StatusOf(t)' = "pending"
  BY <1>3 DEF StatusOf, ReadTaken
<1>5. ResultOf(t)' = None
  BY <1>4 DEF ResultOf
<1>6. Atomic!Invoke(t, j)
  BY <1>1, <1>2, <1>3, <1>4, <1>5, Moves DEF Atomic!Invoke, Data, Status, Result, Call
<1> QED
  BY <1>1, <1>6 DEF Atomic!Next, Atomic!Jobs, Jobs

LEMMA FetchCipherRefines ==
  ASSUME NEW t, Known(t), OnlyOf(t), FetchCipher(t)
  PROVE  [Atomic!Next]_(Atomic!vars)
<1>1. t \in Tasks /\ TypeOK /\ UNCHANGED Data
  BY KnownOf DEF Known, FetchCipher, Data
<1>2. StatusOf(t) = "pending" /\ ResultOf(t) = None
  BY DEF FetchCipher, StatusOf, ReadTaken, ResultOf
<1>3. CASE pc'[t] = "failed"
  <2>1. StatusOf(t)' = "error" /\ ResultOf(t)' = None
    BY <1>3 DEF StatusOf, ResultOf
  <2> QED
    BY <1>1, <1>2, <2>1, Settles DEF FetchCipher
<1>4. CASE pc'[t] \in {"fetching", "waiting"}
  <2>1. StatusOf(t)' = "pending" /\ ResultOf(t)' = None
    BY <1>4 DEF StatusOf, ResultOf, ReadTaken
  <2> QED
    BY <1>1, <1>2, <2>1, Stutters DEF FetchCipher
<1> QED
  BY <1>1, <1>3, <1>4 DEF FetchCipher, Goto, TypeOK

\* Where storage_get of a read resolves, the read takes effect, if there is a store.
LEMMA TakesRead ==
  ASSUME NEW t, Known(t), OnlyOf(t), pc[t] \in {"fetching", "granted"},
         pc'[t] \in {"decoding", "opened"},
         seen' = [seen EXCEPT ![t] = storage[job[t].key]], UNCHANGED <<storage, job>>
  PROVE  [Atomic!Next]_(Atomic!vars)
<1>1. /\ t \in Tasks /\ TypeOK /\ UNCHANGED Data
      /\ job[t].key \in Keys /\ job[t] # None /\ seen'[t] = storage[job[t].key]
  BY KnownOf DEF Known, Data, TypeOK
<1>2. StatusOf(t) = "pending" /\ ResultOf(t) = None
  BY DEF StatusOf, ReadTaken, ResultOf
<1>3. CASE job[t].op = "read" /\ storage[job[t].key] # None
  <2>1. StatusOf(t)' = "applied" /\ ResultOf(t)' = storage[job[t].key].data
    BY <1>1, <1>3 DEF StatusOf, ResultOf, ReadTaken
  <2>2. ~Throws(job[t], storage[job[t].key].data)
        /\ Effect(job[t], storage[job[t].key].data) = storage[job[t].key].data
    BY <1>3 DEF Throws, Effect
  <2> QED
    BY <1>1, <1>2, <1>3, <2>1, <2>2, ReadApplies
<1>4. CASE ~(job[t].op = "read" /\ storage[job[t].key] # None)
  <2>1. StatusOf(t)' = "pending" /\ ResultOf(t)' = None
    BY <1>1, <1>4 DEF StatusOf, ResultOf, ReadTaken
  <2> QED
    BY <1>1, <1>2, <2>1, Stutters
<1> QED
  BY <1>3, <1>4

\* A step whose task fails, once its call has taken effect or before.
LEMMA Fails ==
  ASSUME NEW t, Known(t), OnlyOf(t), UNCHANGED <<storage, job>>,
         StatusOf(t) \in {"pending", "applied", "error"}, pc'[t] \in {"failed", "leaked"}
  PROVE  [Atomic!Next]_(Atomic!vars)
<1>1. t \in Tasks /\ UNCHANGED Data
  BY DEF Known, Data
<1>2. StatusOf(t)' = "error" /\ ResultOf(t)' = None
  BY DEF StatusOf, ResultOf
<1>3. CASE StatusOf(t) = "error"
  <2>1. ResultOf(t) = None
    BY <1>3 DEF ResultOf
  <2> QED
    BY <1>1, <1>2, <1>3, <2>1, Stutters
<1> QED
  BY <1>1, <1>2, <1>3, Settles

\* A step that leaves a call pending.
LEMMA Waits ==
  ASSUME NEW t, Known(t), OnlyOf(t), UNCHANGED <<storage, job>>,
         StatusOf(t) = "pending", StatusOf(t)' = "pending"
  PROVE  [Atomic!Next]_(Atomic!vars)
<1>1. t \in Tasks /\ UNCHANGED Data /\ ResultOf(t) = None /\ ResultOf(t)' = None
  BY DEF Known, Data, ResultOf
<1> QED
  BY <1>1, Stutters

\* The read that was taken resolves with what it took.
LEMMA ReadResolves ==
  ASSUME NEW t, Known(t), OnlyOf(t), UNCHANGED <<storage, job, seen>>,
         pc[t] \in {"decoding", "opened"}, job[t].op = "read", seen[t] # None,
         cache'[t] = seen[t].data, pc'[t] = "done"
  PROVE  Atomic!Next
<1>1. t \in Tasks /\ TypeOK /\ UNCHANGED Data /\ job[t] # None
  BY KnownOf DEF Known, Data
<1>2. StatusOf(t) = "applied" /\ ResultOf(t) = seen[t].data
  BY <1>1 DEF StatusOf, ResultOf, ReadTaken
<1>3. StatusOf(t)' = "ok" /\ ResultOf(t)' = seen[t].data
  BY <1>1 DEF StatusOf, ResultOf
<1> QED
  BY <1>1, <1>2, <1>3, Settles

LEMMA DecodeReadonlyRefines ==
  ASSUME NEW t, Known(t), OnlyOf(t), DecodeReadonly(t)
  PROVE  [Atomic!Next]_(Atomic!vars)
<1>1. /\ t \in Tasks /\ TypeOK /\ job[t] # None /\ job[t].op = "read"
      /\ pc[t] = "decoding" /\ UNCHANGED <<storage, job, seen>>
  BY KnownOf DEF Known, DecodeReadonly, Content
<1>2. CASE pc'[t] = "failed"
  <2>1. StatusOf(t) \in {"pending", "applied"}
    BY <1>1 DEF StatusOf
  <2> QED
    BY <1>1, <1>2, <2>1, Fails
<1>3. CASE seen[t] = None /\ pc'[t] = "waiting"
  <2>1. StatusOf(t) = "pending" /\ StatusOf(t)' = "pending"
    BY <1>1, <1>3 DEF StatusOf, ReadTaken
  <2> QED
    BY <1>1, <2>1, Waits
<1>4. CASE seen[t] # None /\ cache'[t] = seen[t].data /\ pc'[t] = "done"
  BY <1>1, <1>4, ReadResolves
<1> QED
  BY <1>1, <1>2, <1>3, <1>4 DEF DecodeReadonly, Goto, TypeOK

LEMMA DecodeRefines ==
  ASSUME NEW t, Known(t), OnlyOf(t), Decode(t)
  PROVE  [Atomic!Next]_(Atomic!vars)
<1>1. /\ t \in Tasks /\ TypeOK /\ job[t] # None
      /\ pc[t] = "opened" /\ UNCHANGED <<storage, job, seen>>
  BY KnownOf DEF Known, Decode
<1>2. CASE pc'[t] = "failed"
  <2>1. StatusOf(t) \in {"pending", "applied"}
    BY <1>1 DEF StatusOf
  <2> QED
    BY <1>1, <1>2, <2>1, Fails
<1>3. CASE seen[t] = None /\ pc'[t] = "initVector"
  <2>1. StatusOf(t) = "pending" /\ StatusOf(t)' = "pending"
    BY <1>1, <1>3 DEF StatusOf, ReadTaken
  <2> QED
    BY <1>1, <2>1, Waits
<1>4. CASE job[t].op = "read" /\ seen[t] # None /\ cache'[t] = seen[t].data /\ pc'[t] = "done"
  BY <1>1, <1>4, ReadResolves
<1>5. CASE job[t].op # "read" /\ pc'[t] = "using"
  <2>1. StatusOf(t) = "pending" /\ StatusOf(t)' = "pending"
    BY <1>1, <1>5 DEF StatusOf, ReadTaken
  <2> QED
    BY <1>1, <2>1, Waits
<1> QED
  BY <1>1, <1>2, <1>3, <1>4, <1>5 DEF Decode, Goto, TypeOK

\* Deleting what is not there changes nothing; all else is saved before it resolves.
LEMMA UseRefines ==
  ASSUME NEW t, Known(t), OnlyOf(t), Use(t)
  PROVE  [Atomic!Next]_(Atomic!vars)
<1>1. /\ t \in Tasks /\ TypeOK /\ job[t] \in Jobs /\ job[t] # None /\ job[t].key \in Keys
      /\ job[t].op # "read" /\ seen[t] # None /\ cache[t] = seen[t].data
      /\ Holds(t) => seen[t] = storage[job[t].key]
      /\ pc[t] = "using" /\ UNCHANGED <<storage, job, seen>>
  BY KnownOf DEF Known, Use, Content
<1>2. StatusOf(t) = "pending"
  BY <1>1 DEF StatusOf, ReadTaken
<1>3. CASE pc'[t] = "failed"
  BY <1>1, <1>2, <1>3, Fails
<1>4. CASE pc'[t] = "vector"
  <2>1. StatusOf(t)' = "pending"
    BY <1>1, <1>4 DEF StatusOf, ReadTaken
  <2> QED
    BY <1>1, <1>2, <2>1, Waits
<1>5. CASE Unsaved(job[t], cache[t]) /\ Holds(t) /\ pc'[t] = "done"
  <2> DEFINE c == seen[t].data
  <2>1. c \in Contents /\ c = storage[job[t].key].data /\ storage[job[t].key] # None
    BY <1>1, <1>5 DEF TypeOK, Entries
  <2>2. ~Throws(job[t], c) /\ job[t].op = "delete" /\ c[job[t].item] = None
    BY <1>1, <1>5 DEF Unsaved, Throws
  <2>3. Effect(job[t], c) = c
    BY <2>1, <2>2 DEF Effect, Contents
  <2>4. StatusOf(t)' = "ok" /\ ResultOf(t)' = None
    BY <1>1, <1>5 DEF StatusOf, ResultOf
  <2> QED
    BY <1>1, <1>2, <2>1, <2>2, <2>3, <2>4, ReadApplies
<1> QED
  BY <1>1, <1>3, <1>4, <1>5 DEF Use, Finish, Goto, TypeOK

LEMMA LoadVectorRefines ==
  ASSUME NEW t, Known(t), OnlyOf(t), LoadVector(t)
  PROVE  [Atomic!Next]_(Atomic!vars)
<1>1. /\ t \in Tasks /\ TypeOK /\ job[t] # None
      /\ pc[t] \in {"initVector", "vector"} /\ UNCHANGED <<storage, job, seen>>
  BY KnownOf DEF Known, LoadVector
<1>2. StatusOf(t) = "pending"
  BY <1>1 DEF StatusOf, ReadTaken
<1>3. CASE pc'[t] \in {"failed", "leaked"}
  BY <1>1, <1>2, <1>3, Fails
<1>4. CASE pc'[t] \in {"initSet", "set"}
  <2>1. StatusOf(t)' = "pending"
    BY <1>1, <1>4 DEF StatusOf, ReadTaken
  <2> QED
    BY <1>1, <1>2, <2>1, Waits
<1> QED
  BY <1>1, <1>3, <1>4 DEF LoadVector, Finish, Goto, TypeOK

\* The write lands on what was read, because the lock is still its own.
LEMMA StorageSetRefines ==
  ASSUME NEW t, Known(t), OnlyOf(t), StorageSet(t)
  PROVE  Atomic!Next
<1> DEFINE k == job[t].key
<1>1. /\ t \in Tasks /\ TypeOK /\ job[t] # None /\ k \in Keys
      /\ pc[t] \in {"initSet", "set"} /\ UNCHANGED job
      /\ seen[t] = storage[k] /\ Content(t)
  BY KnownOf DEF Known, StorageSet, MidWrite
<1>2. StatusOf(t) = "pending" /\ ResultOf(t) = None
  BY <1>1 DEF StatusOf, ReadTaken, ResultOf
<1>3. Data' = [Data EXCEPT ![k] = cache[t]]
  <2>1. Seal(cipher[t], vector[t], cache[t]) \in Entries
    BY DEF Known, StorageSet, IInv, TypeOK, TaskInv, Loaded, MidWrite, Entries, Seal
  <2>2. Seal(cipher[t], vector[t], cache[t]) # None
        /\ Seal(cipher[t], vector[t], cache[t]).data = cache[t]
    BY <2>1, StoreAssumption DEF Seal
  <2>3. storage' = [storage EXCEPT ![k] = Seal(cipher[t], vector[t], cache[t])]
    BY DEF StorageSet
  <2> QED
    BY <1>1, <2>2, <2>3 DEF Data, TypeOK
<1>4. CASE pc[t] = "initSet"
  <2>1. cache[t] = Default /\ Data[k] = None
    BY <1>1, <1>4, DataOf DEF Content
  <2>2. pc'[t] = IF job[t].op # "read" THEN "using" ELSE "releasing"
    BY <1>1, <1>4 DEF StorageSet, Goto, TypeOK
  <2>3. StatusOf(t)' = "pending"
    BY <1>1, <2>2 DEF StatusOf, ReadTaken
  <2>4. ResultOf(t)' = None
    BY <2>3 DEF ResultOf
  <2> QED
    BY <1>1, <1>2, <1>3, <2>1, <2>3, <2>4, Initializes
<1>5. CASE pc[t] = "set"
  <2>1. /\ seen[t] # None /\ ~Throws(job[t], seen[t].data) /\ job[t].op # "read"
        /\ cache[t] = Effect(job[t], seen[t].data)
    BY <1>1, <1>5 DEF Content
  <2>2. Data[k] = seen[t].data /\ seen[t].data # None
    BY <1>1, <2>1, DataOf
  <2>3. pc'[t] = "releasing"
    BY <1>1, <1>5 DEF StorageSet, Goto, TypeOK
  <2>4. StatusOf(t)' = "applied" /\ ResultOf(t)' = None
    BY <1>1, <2>1, <2>3 DEF StatusOf, ResultOf
  <2> QED
    BY <1>1, <1>2, <1>3, <2>1, <2>2, <2>4, Applies
<1> QED
  BY <1>1, <1>4, <1>5

\* A read that made the store resolves with what is stored, if the lock is its own.
LEMMA ReleaseRefines ==
  ASSUME NEW t, Known(t), OnlyOf(t), Release(t)
  PROVE  [Atomic!Next]_(Atomic!vars)
<1>1. /\ t \in Tasks /\ TypeOK /\ job[t] # None /\ job[t].key \in Keys
      /\ pc[t] = "releasing" /\ UNCHANGED <<storage, job, seen, cache>>
      /\ seen[t] # None /\ cache[t] = seen[t].data
      /\ Holds(t) => seen[t] = storage[job[t].key]
  BY KnownOf DEF Known, Release, Content
<1>2. CASE pc'[t] = "failed"
  <2>1. StatusOf(t) \in {"pending", "applied"}
    BY <1>1 DEF StatusOf
  <2> QED
    BY <1>1, <1>2, <2>1, Fails
<1>3. CASE pc'[t] = "done" /\ job[t].op # "read"
  <2>1. StatusOf(t) = "applied" /\ StatusOf(t)' = "ok" /\ ResultOf(t) = None /\ ResultOf(t)' = None
    BY <1>1, <1>3 DEF StatusOf, ResultOf
  <2>2. UNCHANGED Data
    BY <1>1 DEF Data
  <2> QED
    BY <1>1, <2>1, <2>2, Settles
<1>4. CASE pc'[t] = "done" /\ job[t].op = "read" /\ Holds(t)
  <2>1. StatusOf(t) = "pending" /\ StatusOf(t)' = "ok"
    BY <1>1, <1>4 DEF StatusOf, ReadTaken
  <2>2. ResultOf(t)' = seen[t].data
    BY <1>1, <1>4, <2>1 DEF ResultOf
  <2>3. ~Throws(job[t], seen[t].data) /\ Effect(job[t], seen[t].data) = seen[t].data
    BY <1>4 DEF Throws, Effect
  <2> QED
    BY <1>1, <1>4, <2>1, <2>2, <2>3, ReadApplies
<1> QED
  BY <1>1, <1>2, <1>3, <1>4 DEF Release, Finish, Goto, TypeOK

LEMMA CloseRefines ==
  ASSUME NEW t, Known(t), OnlyOf(t), Close(t)
  PROVE  Atomic!Next
<1>1. /\ t \in Tasks /\ job' = [job EXCEPT ![t] = None] /\ UNCHANGED Data /\ pc'[t] = "idle"
  BY KnownOf DEF Known, Close, Goto, Data, TypeOK
<1>2. StatusOf(t)' = "idle"
  BY <1>1 DEF StatusOf
<1>3. ResultOf(t)' = None
  BY <1>2 DEF ResultOf
<1>4. Atomic!Vanish(t)
  BY <1>1, <1>2, <1>3, Moves DEF Atomic!Vanish, Data, Status, Result
<1> QED
  BY <1>1, <1>4 DEF Atomic!Next

\* A lease that runs out is noticed at the next step of its task.
LEMMA ExpireLeaseRefines ==
  ASSUME NEW t, Known(t), OnlyOf(t), ExpireLease(t)
  PROVE  [Atomic!Next]_(Atomic!vars)
<1>1. t \in Tasks /\ TypeOK /\ UNCHANGED <<storage, job, seen, cache, Data>>
  BY KnownOf DEF Known, ExpireLease, Data
<1>2. CASE pc[t] = "leaked" /\ pc'[t] = "failed"
  <2>1. StatusOf(t) = "error"
    BY <1>2 DEF StatusOf
  <2> QED
    BY <1>1, <1>2, <2>1, Fails
<1>3. CASE UNCHANGED pc
  <2>1. StatusOf(t)' = StatusOf(t) /\ ResultOf(t)' = ResultOf(t)
    BY <1>1, <1>3 DEF StatusOf, ResultOf, ReadTaken
  <2> QED
    BY <1>1, <2>1, Stutters
<1> QED
  BY <1>1, <1>2, <1>3 DEF ExpireLease, Goto, TypeOK

LEMMA AcquireRefines ==
  ASSUME NEW t, Known(t), OnlyOf(t), Acquire(t) \/ AbortAcquire(t)
  PROVE  [Atomic!Next]_(Atomic!vars)
<1>1. UNCHANGED <<storage, job>> /\ pc[t] = "waiting" /\ pc'[t] \in {"granted", "hung"}
  BY KnownOf DEF Known, Acquire, AbortAcquire, Goto, TypeOK
<1>2. StatusOf(t) = "pending" /\ StatusOf(t)' = "pending"
  BY <1>1 DEF StatusOf, ReadTaken
<1> QED
  BY <1>1, <1>2, Waits

LEMMA ReadonlyRefines ==
  ASSUME NEW t, Known(t), OnlyOf(t), Readonly(t) \/ Checkout(t)
  PROVE  [Atomic!Next]_(Atomic!vars)
<1>1. /\ pc[t] \in {"fetching", "granted"} /\ pc'[t] \in {"decoding", "opened"}
      /\ seen' = [seen EXCEPT ![t] = storage[job[t].key]] /\ UNCHANGED <<storage, job>>
  BY KnownOf DEF Known, Readonly, Checkout, Goto, TypeOK
<1> QED
  BY <1>1, TakesRead

LEMMA NextRefines ==
  ASSUME IInv, ContentInv, ~LeaseMidWrite, [Next]_vars
  PROVE  [Atomic!Next]_(Atomic!vars)
<1>1. CASE UNCHANGED vars \/ Logout
  <2>1. UNCHANGED <<storage, pc, job, seen, cache>>
    BY <1>1 DEF vars, Logout
  <2>2. \A t \in Tasks : StatusOf(t)' = StatusOf(t) /\ ResultOf(t)' = ResultOf(t)
    BY <2>1 DEF StatusOf, ResultOf, ReadTaken
  <2> QED
    BY <2>1, <2>2 DEF Atomic!vars
<1>2. ASSUME NEW t \in Tasks,
             \/ \E j \in Jobs : Call(t, j)
             \/ Step(t) \/ AbortAcquire(t) \/ ExpireLease(t) \/ Close(t)
      PROVE  [Atomic!Next]_(Atomic!vars)
  <2>1. Known(t) /\ OnlyOf(t)
    BY <1>2, StepOnly DEF Known, IInv
  <2> QED
    BY <1>2, <2>1, CallRefines, FetchCipherRefines, ReadonlyRefines, DecodeReadonlyRefines,
       AcquireRefines, DecodeRefines, UseRefines, LoadVectorRefines, StorageSetRefines,
       ReleaseRefines, ExpireLeaseRefines, CloseRefines DEF Step
<1> QED
  BY <1>1, <1>2 DEF Next

LEMMA InitRefines == Init => Atomic!Init
<1> SUFFICES ASSUME Init PROVE Atomic!Init
  OBVIOUS
<1>1. Data \in [Keys -> Contents \cup {None}]
  BY DEF Init, Data, Seal
<1>2. \A t \in Tasks : StatusOf(t) = "idle" /\ ResultOf(t) = None
  BY DEF Init, StatusOf, ResultOf
<1> QED
  BY <1>1, <1>2 DEF Atomic!Init, Init, Data, Contents, Atomic!Contents

\* If no lease runs out inside a write, a call on a store that resolves took effect
\* once, on the latest content, whatever else is called, closed or locked meanwhile.
THEOREM StoreRefines ==
  ASSUME ~LeaseMidWrite
  PROVE  Spec => StoreIsAtomic
<1>1. IInv /\ ContentInv /\ [Next]_vars => [Atomic!Next]_(Atomic!vars)
  BY NextRefines
<1> QED
  BY <1>1, InitRefines, Inductive, ContentInductive, PTL DEF Spec, StoreIsAtomic, Atomic!Spec
=============================================================================
