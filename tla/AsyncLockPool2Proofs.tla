------------------------ MODULE AsyncLockPool2Proofs ------------------------
(***************************************************************************)
(* The pool of util/async-lock-pool-2.ts never hands out more locks than   *)
(* it has, for any set of callers and any number of locks.                 *)
(***************************************************************************)
EXTENDS AsyncLockPool2, FiniteSetTheorems, TLAPS

\* The callers in the queue are the ones that wait, each queued once.
QueuedWait ==
  /\ \A i \in DOMAIN queued : state[queued[i]] = "waiting"
  /\ \A i, j \in DOMAIN queued : queued[i] = queued[j] => i = j

\* _c_busy counts the locks that are out and those on their way back.
Accounted == busy = Cardinality(Holding) + releasing

IInv == TypeOK /\ QueuedWait /\ Accounted /\ busy <= NumLocks

\* Whoever gets a lock adds one to the locks that are out.
LEMMA OneMore ==
  ASSUME PoolAssumption, TypeOK, NEW t \in Tasks, state[t] \notin {"holding", "rejected"},
         Become(t, "holding")
  PROVE  /\ Cardinality(Holding') = Cardinality(Holding) + 1
         /\ Cardinality(Holding) \in Nat
<1>1. Holding' = Holding \cup {t}
  BY DEF TypeOK, Become, Holding
<1>2. IsFiniteSet(Holding)
  BY PoolAssumption, FS_Subset DEF PoolAssumption, Holding
<1>3. t \notin Holding
  BY DEF Holding
<1> QED
  BY <1>1, <1>2, <1>3, FS_AddElement, FS_CardinalityType

\* Whoever releases its lock takes one from the locks that are out.
LEMMA OneLess ==
  ASSUME PoolAssumption, TypeOK, NEW t \in Tasks, state[t] = "holding", Become(t, "idle")
  PROVE  /\ Cardinality(Holding') = Cardinality(Holding) - 1
         /\ Cardinality(Holding) \in Nat
<1>1. Holding' = Holding \ {t}
  BY DEF TypeOK, Become, Holding
<1>2. IsFiniteSet(Holding)
  BY PoolAssumption, FS_Subset DEF PoolAssumption, Holding
<1>3. t \in Holding
  BY DEF Holding
<1> QED
  BY <1>1, <1>2, <1>3, FS_RemoveElement, FS_CardinalityType

LEMMA InitIInv ==
  ASSUME PoolAssumption, Init
  PROVE  IInv
<1>1. TypeOK /\ QueuedWait
  BY DEF Init, TypeOK, QueuedWait
<1>2. Holding = {}
  BY DEF Init, Holding
<1> QED
  BY <1>1, <1>2, FS_EmptySet, PoolAssumption DEF PoolAssumption, Init, IInv, Accounted

\* acquire() takes a lock only while one is left, and queues otherwise.
LEMMA AcquireIInv ==
  ASSUME PoolAssumption, IInv, NEW t \in Tasks, Acquire(t)
  PROVE  IInv'
<1> USE DEF IInv
<1>1. CASE busy < NumLocks /\ busy' = busy + 1 /\ Become(t, "holding")
             /\ UNCHANGED queued
  <2>1. TypeOK'
    BY <1>1 DEF Acquire, TypeOK, Become
  <2>2. QueuedWait'
    BY <1>1 DEF Acquire, QueuedWait, TypeOK, Become
  <2>3. Cardinality(Holding') = Cardinality(Holding) + 1 /\ Cardinality(Holding) \in Nat
    BY <1>1, OneMore DEF Acquire
  <2>4. Accounted'
    BY <1>1, <2>3 DEF Acquire, Accounted, TypeOK
  <2> QED
    BY <1>1, <2>1, <2>2, <2>4, PoolAssumption DEF PoolAssumption, TypeOK
<1>2. CASE busy >= NumLocks /\ queued' = Append(queued, t)
             /\ Become(t, "waiting") /\ UNCHANGED busy
  <2>1. TypeOK'
    BY <1>2 DEF Acquire, TypeOK, Become
  <2>2. QueuedWait'
    BY <1>2 DEF Acquire, QueuedWait, TypeOK, Become
  <2>3. Holding' = Holding
    BY <1>2 DEF Acquire, Holding, TypeOK, Become
  <2> QED
    BY <1>2, <2>1, <2>2, <2>3 DEF Acquire, Accounted
<1> QED
  BY <1>1, <1>2 DEF Acquire

LEMMA ReleaseIInv ==
  ASSUME PoolAssumption, IInv, NEW t \in Tasks, Release(t)
  PROVE  IInv'
<1> USE DEF IInv
<1>1. TypeOK' /\ QueuedWait'
  BY DEF Release, TypeOK, QueuedWait, Become
<1>2. Cardinality(Holding') = Cardinality(Holding) - 1 /\ Cardinality(Holding) \in Nat
  BY OneLess DEF Release
<1>3. Accounted'
  BY <1>2 DEF Release, Accounted, TypeOK
<1> QED
  BY <1>1, <1>3 DEF Release

\* A rejected callback of use() keeps its lock.
LEMMA RejectIInv ==
  ASSUME PoolAssumption, IInv, NEW t \in Tasks, Reject(t)
  PROVE  IInv'
<1> USE DEF IInv
<1>1. TypeOK' /\ QueuedWait'
  BY DEF Reject, TypeOK, QueuedWait, Become
<1>2. Holding' = Holding
  BY DEF Reject, Holding, TypeOK, Become
<1> QED
  BY <1>1, <1>2 DEF Reject, Accounted

\* The lock on its way back goes to the head of the queue: _c_busy stays.
LEMMA PassOnIInv ==
  ASSUME PoolAssumption, IInv, PassOn
  PROVE  IInv'
<1> USE DEF IInv
<1>1. /\ Head(queued) \in Tasks /\ state[Head(queued)] = "waiting"
      /\ \A i \in DOMAIN queued : i # 1 => queued[i] # Head(queued)
  BY DEF PassOn, TypeOK, QueuedWait
<1>2. TypeOK'
  BY <1>1 DEF PassOn, TypeOK, Become
<1>3. QueuedWait'
  BY <1>1 DEF PassOn, QueuedWait, TypeOK, Become
<1>4. Cardinality(Holding') = Cardinality(Holding) + 1 /\ Cardinality(Holding) \in Nat
  BY <1>1, OneMore DEF PassOn
<1>5. Accounted'
  BY <1>4 DEF PassOn, Accounted, TypeOK
<1> QED
  BY <1>2, <1>3, <1>5 DEF PassOn

LEMMA ReturnLockIInv ==
  ASSUME PoolAssumption, IInv, ReturnLock
  PROVE  IInv'
<1> USE DEF IInv
<1>1. Holding' = Holding /\ IsFiniteSet(Holding)
  BY PoolAssumption, FS_Subset DEF PoolAssumption, ReturnLock, Holding
<1>2. Cardinality(Holding) \in Nat
  BY <1>1, FS_CardinalityType
<1>3. busy > 0
  BY <1>2 DEF ReturnLock, Accounted, TypeOK
<1>4. TypeOK' /\ QueuedWait'
  BY <1>3 DEF ReturnLock, TypeOK, QueuedWait
<1>5. Accounted'
  BY <1>1, <1>2 DEF ReturnLock, Accounted, TypeOK
<1> QED
  BY <1>4, <1>5, PoolAssumption DEF PoolAssumption, ReturnLock, TypeOK

LEMMA NextIInv ==
  ASSUME PoolAssumption, IInv, [Next]_vars
  PROVE  IInv'
<1>1. CASE UNCHANGED vars
  BY <1>1 DEF vars, IInv, TypeOK, QueuedWait, Accounted, Holding
<1>2. ASSUME NEW w \in Watchers, Settled(w) PROVE IInv'
  BY <1>2 DEF Settled, IInv, TypeOK, QueuedWait, Accounted, Holding
<1> QED
  BY <1>1, <1>2, AcquireIInv, ReleaseIInv, RejectIInv, PassOnIInv,
     ReturnLockIInv DEF Next

\* The inductive invariant holds in every behaviour.
THEOREM Inductive == PoolAssumption => (Spec => []IInv)
<1> SUFFICES ASSUME PoolAssumption PROVE Spec => []IInv
  OBVIOUS
<1>1. Init => IInv
  BY InitIInv
<1>2. IInv /\ [Next]_vars => IInv'
  BY NextIInv
<1> QED
  BY <1>1, <1>2, PTL DEF Spec

\* Never more locks out than the pool was made with.
THEOREM NeverOverAllotted == PoolAssumption => (Spec => []AtMostNumLocks)
<1> SUFFICES ASSUME PoolAssumption PROVE Spec => []AtMostNumLocks
  OBVIOUS
<1>1. IInv => AtMostNumLocks
  <2> SUFFICES ASSUME IInv PROVE AtMostNumLocks
    OBVIOUS
  <2>1. Cardinality(Holding) \in Nat
    BY FS_Subset, FS_CardinalityType DEF PoolAssumption, Holding
  <2> QED
    BY <2>1 DEF PoolAssumption, IInv, Accounted, TypeOK, AtMostNumLocks
<1>2. Spec => []IInv
  BY Inductive
<1> QED
  BY <1>1, <1>2, PTL

\* With one lock, one caller holds it.
THEOREM OneHolds ==
  PoolAssumption /\ NumLocks = 1 =>
    (Spec => [](\A t, u \in Tasks : state[t] = "holding" /\ state[u] = "holding" => t = u))
<1> DEFINE One == \A t, u \in Tasks : state[t] = "holding" /\ state[u] = "holding" => t = u
<1> SUFFICES ASSUME PoolAssumption, NumLocks = 1 PROVE Spec => []One
  OBVIOUS
<1>1. AtMostNumLocks => One
  <2> SUFFICES ASSUME AtMostNumLocks, NEW t \in Tasks, NEW u \in Tasks,
                      state[t] = "holding", state[u] = "holding", t # u
               PROVE  FALSE
    OBVIOUS
  <2>1. IsFiniteSet(Holding) /\ {t, u} \subseteq Holding
    BY FS_Subset DEF PoolAssumption, Holding
  <2>2. Cardinality({t, u}) = 2
    <3>1. IsFiniteSet({t}) /\ Cardinality({t}) = 1
      BY FS_Singleton
    <3>2. {t, u} = {t} \cup {u} /\ u \notin {t}
      OBVIOUS
    <3> QED
      BY <3>1, <3>2, FS_AddElement
  <2>3. Cardinality({t, u}) <= Cardinality(Holding) /\ Cardinality(Holding) \in Nat
    BY <2>1, FS_Subset, FS_CardinalityType
  <2> QED
    BY <2>2, <2>3 DEF AtMostNumLocks
<1>2. Spec => []AtMostNumLocks
  BY NeverOverAllotted
<1> QED
  BY <1>1, <1>2, PTL
=============================================================================
