------------------------ MODULE ChainSelectionProofs ------------------------
(***************************************************************************)
(* The stores of a window tell one value at a time, its network stays in   *)
(* step with its provider, and the derived stores end up with what is      *)
(* selected, for any calls, chains and faults.  The selection implements   *)
(* the two lock pools it is composed of, so what is proved of              *)
(* AsyncLockPool2 holds of their locks.                                    *)
(***************************************************************************)
EXTENDS ChainSelection, FiniteSetTheorems, TLAPS

CL == INSTANCE AsyncLockPool2Proofs WITH
  Tasks <- Picks, NumLocks <- 1, Rejects <- {}, Watchers <- {}, listeners <- {},
  busy <- c_busy, queued <- c_queued, releasing <- c_releasing, state <- c_state

PL == INSTANCE AsyncLockPool2Proofs WITH
  Tasks <- Picks, NumLocks <- 1, Rejects <- {}, Watchers <- {}, listeners <- {},
  busy <- p_busy, queued <- p_queued, releasing <- p_releasing, state <- p_state

LEMMA Pools == CL!PoolAssumption /\ PL!PoolAssumption
<1>1. CL!IsFiniteSet(Picks) /\ PL!IsFiniteSet(Picks)
  BY ChainSelectionAssumption, Zenon DEF IsFiniteSet, CL!IsFiniteSet, PL!IsFiniteSet
<1> QED
  BY <1>1 DEF CL!PoolAssumption, PL!PoolAssumption

LEMMA InitPools == Init => CL!Init /\ PL!Init
BY DEF Init, CL!Init, PL!Init

\* Every step is one of the pool of yw_chain_ref, or leaves it alone.
LEMMA NextChainLock == [Next]_vars => [CL!Next]_(CL!vars)
<1> SUFFICES ASSUME [Next]_vars PROVE [CL!Next]_(CL!vars)
  OBVIOUS
<1>1. ASSUME UNCHANGED c_lock PROVE UNCHANGED CL!vars
  BY <1>1 DEF c_lock, CL!vars
<1>2. ASSUME NEW t \in Picks, NEW c \in Chains, Pick(t, c) PROVE CL!Next
  BY <1>2 DEF Pick, ChainLock!Acquire, ChainLock!Become, CL!Acquire, CL!Become, CL!Next
<1>3. ASSUME NEW t \in Picks, ChainAt(t) PROVE CL!Next
  BY <1>3 DEF ChainAt, ChainLock!Release, ChainLock!Become, CL!Release, CL!Become, CL!Next
<1>4. ASSUME NEW t \in Picks,
             \/ Transform(t) \/ ChainFails(t) \/ Entries(t)
             \/ TransformProvider(t) \/ ProviderAt(t) \/ Network(t) \/ ProviderFails(t)
      PROVE  UNCHANGED c_lock
  BY <1>4 DEF Transform, ChainFails, Entries, SetProvider, TransformProvider,
              ProviderAt, Network, ProviderFails
<1>5. CASE Release
  <2>1. CASE ChainLock!PassOn
    BY <2>1 DEF ChainLock!PassOn, ChainLock!Become, CL!PassOn, CL!Become, CL!Next
  <2>2. CASE ChainLock!ReturnLock
    BY <2>2 DEF ChainLock!ReturnLock, CL!ReturnLock, CL!Next
  <2> QED
    BY <1>1, <1>5, <2>1, <2>2 DEF Release
<1>6. CASE UNCHANGED vars
  BY <1>1, <1>6 DEF vars
<1> QED
  BY <1>1, <1>2, <1>3, <1>4, <1>5, <1>6 DEF Next, Happens

\* Every step is one of the pool of yw_provider_ref, or leaves it alone.
LEMMA NextProviderLock == [Next]_vars => [PL!Next]_(PL!vars)
<1> SUFFICES ASSUME [Next]_vars PROVE [PL!Next]_(PL!vars)
  OBVIOUS
<1>1. ASSUME UNCHANGED p_lock PROVE UNCHANGED PL!vars
  BY <1>1 DEF p_lock, PL!vars
<1>2. ASSUME NEW t \in Picks, NEW p, SetProvider(t, p) PROVE PL!Next \/ UNCHANGED p_lock
  BY <1>2 DEF SetProvider, ProviderLock!Acquire, ProviderLock!Become,
              PL!Acquire, PL!Become, PL!Next
<1>3. ASSUME NEW t \in Picks, Network(t) PROVE PL!Next
  BY <1>3 DEF Network, ProviderLock!Release, ProviderLock!Become,
              PL!Release, PL!Become, PL!Next
<1>4. ASSUME NEW t \in Picks,
             \/ Transform(t) \/ ChainAt(t) \/ ChainFails(t)
             \/ TransformProvider(t) \/ ProviderAt(t) \/ ProviderFails(t)
             \/ \E c \in Chains : Pick(t, c)
      PROVE  UNCHANGED p_lock
  BY <1>4 DEF Transform, ChainAt, ChainFails, TransformProvider, ProviderAt, ProviderFails, Pick
<1>5. CASE Release
  <2>1. CASE ProviderLock!PassOn
    BY <2>1 DEF ProviderLock!PassOn, ProviderLock!Become, PL!PassOn, PL!Become, PL!Next
  <2>2. CASE ProviderLock!ReturnLock
    BY <2>2 DEF ProviderLock!ReturnLock, PL!ReturnLock, PL!Next
  <2> QED
    BY <1>1, <1>5, <2>1, <2>2 DEF Release
<1>6. CASE UNCHANGED vars
  BY <1>1, <1>6 DEF vars
<1> QED
  BY <1>1, <1>2, <1>3, <1>4, <1>5, <1>6 DEF Next, Happens, Entries

\* The selection implements both of its pools.
THEOREM Implements == Spec => CL!Spec /\ PL!Spec
BY InitPools, NextChainLock, NextProviderLock, PTL DEF Spec, CL!Spec, PL!Spec

\* What the proofs of AsyncLockPool2 know of a pool holds of both.
LEMMA PoolInvariants == Spec => [](CL!IInv /\ PL!IInv)
<1>1. CL!Spec => []CL!IInv
  BY Pools, CL!Inductive
<1>2. PL!Spec => []PL!IInv
  BY Pools, PL!Inductive
<1> QED
  BY <1>1, <1>2, Implements, PTL

\* One call at a time tells those who follow a store.
THEOREM OneTellsAlways == Spec => []OneTells
<1> DEFINE CO == \A t, u \in Picks : c_state[t] = "holding" /\ c_state[u] = "holding" => t = u
<1> DEFINE PO == \A t, u \in Picks : p_state[t] = "holding" /\ p_state[u] = "holding" => t = u
<1>1. CL!Spec => []CO
  BY Pools, CL!OneHolds
<1>2. PL!Spec => []PO
  BY Pools, PL!OneHolds
<1>3. CO /\ PO => OneTells
  BY DEF OneTells
<1> QED
  BY <1>1, <1>2, <1>3, Implements, PTL

-----------------------------------------------------------------------------
(* Types, and the network of the provider. *)

\* A call that activates a network has just set the provider.
JustSet == \A t \in Picks : propagating[t] = "network" => default[t] = provider

\* No search for a provider starts before the chain is told.
NotYet == \A t \in Picks : telling[t] \in {"idle", "set"} => propagating[t] = "no"

InvStep == TypeOK /\ JustSet /\ NotYet /\ NetworkInStep

LEMMA PoolTypes == CL!IInv /\ PL!IInv => ChainLock!TypeOK /\ ProviderLock!TypeOK
BY DEF CL!IInv, CL!TypeOK, PL!IInv, PL!TypeOK, ChainLock!TypeOK, ProviderLock!TypeOK

LEMMA InitInvStep == Init => InvStep
<1> SUFFICES ASSUME Init PROVE InvStep
  OBVIOUS
<1>1. TypeOK
  BY ChainSelectionAssumption DEF Init, TypeOK, ChainLock!TypeOK, ProviderLock!TypeOK
<1> QED
  BY <1>1 DEF Init, InvStep, JustSet, NotYet, NetworkInStep

LEMMA PickStep ==
  ASSUME InvStep, ChainLock!TypeOK', NEW t \in Picks, NEW c \in Chains, Pick(t, c)
  PROVE  InvStep'
<1> USE DEF InvStep, Pick, Tells, ChainLock!Acquire, ChainLock!Become
<1>1. TypeOK'
  BY DEF TypeOK, ChainLock!TypeOK, ProviderLock!TypeOK, p_lock
<1> QED
  BY <1>1 DEF JustSet, NotYet, NetworkInStep, TypeOK

LEMMA TransformStep ==
  ASSUME InvStep, NEW t \in Picks, Transform(t)
  PROVE  InvStep'
<1> USE DEF InvStep, Transform, Tells, values, c_lock, p_lock
<1>1. TypeOK'
  BY DEF TypeOK, ChainLock!TypeOK, ProviderLock!TypeOK
<1> QED
  BY <1>1 DEF JustSet, NotYet, NetworkInStep, TypeOK

LEMMA ChainAtStep ==
  ASSUME InvStep, ChainLock!TypeOK', NEW t \in Picks, ChainAt(t)
  PROVE  InvStep'
<1> USE DEF InvStep, ChainAt, Tells, ChainLock!Release, ChainLock!Become
<1>1. TypeOK'
  BY DEF TypeOK, ChainLock!TypeOK, ProviderLock!TypeOK, p_lock
<1> QED
  BY <1>1 DEF JustSet, NotYet, NetworkInStep, TypeOK

LEMMA ChainFailsStep ==
  ASSUME InvStep, NEW t \in Picks, ChainFails(t)
  PROVE  InvStep'
<1> USE DEF InvStep, ChainFails, Tells, Fault, values, c_lock, p_lock
<1>1. TypeOK'
  BY ChainSelectionAssumption DEF TypeOK, ChainLock!TypeOK, ProviderLock!TypeOK
<1> QED
  BY <1>1 DEF JustSet, NotYet, NetworkInStep, TypeOK

LEMMA SetProviderStep ==
  ASSUME InvStep, ProviderLock!TypeOK', NEW t \in Picks, NEW p \in Chains \cup {None},
         SetProvider(t, p), faults' \in 0..MaxFaults
  PROVE  InvStep'
<1> USE DEF InvStep, SetProvider, Propagates, c_lock, p_lock
<1>1. TypeOK'
  <2>1. CASE p = provider_ref
    BY <2>1 DEF TypeOK, ChainLock!TypeOK, ProviderLock!TypeOK
  <2>2. CASE p # provider_ref
    <3>1. \A u \in Picks : propagating'[u] \in {"provider", "network", "stuck"} => p_state'[u] = "holding"
      BY <2>2 DEF TypeOK, ProviderLock!TypeOK, ProviderLock!Acquire, ProviderLock!Become
    <3>2. ChainLock!TypeOK'
      BY DEF TypeOK, ChainLock!TypeOK
    <3> QED
      BY <2>2, <3>1, <3>2 DEF TypeOK
  <2> QED
    BY <2>1, <2>2
<1>2. JustSet' /\ NotYet'
  BY DEF JustSet, NotYet, TypeOK
<1>3. NetworkInStep'
  BY DEF NetworkInStep, TypeOK
<1> QED
  BY <1>1, <1>2, <1>3

LEMMA TransformProviderStep ==
  ASSUME InvStep, NEW t \in Picks, TransformProvider(t)
  PROVE  InvStep'
<1> USE DEF InvStep, TransformProvider, Propagates, values, c_lock, p_lock
<1>1. TypeOK'
  BY DEF TypeOK, ChainLock!TypeOK, ProviderLock!TypeOK
<1> QED
  BY <1>1 DEF JustSet, NotYet, NetworkInStep, TypeOK

\* Nobody else activates a network meanwhile: it would have the lock of the provider.
LEMMA ProviderAtStep ==
  ASSUME InvStep, OneTells, NEW t \in Picks, ProviderAt(t)
  PROVE  InvStep'
<1> USE DEF InvStep, ProviderAt, Propagates, c_lock, p_lock
<1>1. TypeOK'
  BY DEF TypeOK, ChainLock!TypeOK, ProviderLock!TypeOK
<1>2. \A u \in Picks : propagating[u] = "network" => u = t
  BY DEF TypeOK, OneTells
<1>3. JustSet' /\ NotYet'
  BY <1>2 DEF JustSet, NotYet, TypeOK
<1>4. NetworkInStep'
  BY DEF NetworkInStep, TypeOK
<1> QED
  BY <1>1, <1>3, <1>4

\* What failed keeps its provider, or had not changed it yet.
LEMMA ProviderFailsStep ==
  ASSUME InvStep, NEW t \in Picks, ProviderFails(t)
  PROVE  InvStep'
<1> USE DEF InvStep, ProviderFails, Propagates, Fault, c_lock, p_lock
<1>1. TypeOK'
  BY ChainSelectionAssumption DEF TypeOK, ChainLock!TypeOK, ProviderLock!TypeOK
<1>2. JustSet' /\ NotYet'
  BY DEF JustSet, NotYet, TypeOK
<1>3. NetworkInStep'
  BY DEF NetworkInStep, TypeOK
<1> QED
  BY <1>1, <1>2, <1>3

LEMMA NetworkStep ==
  ASSUME InvStep, ProviderLock!TypeOK', NEW t \in Picks, Network(t)
  PROVE  InvStep'
<1> USE DEF InvStep, Network, Propagates, c_lock
<1>1. TypeOK'
  BY DEF TypeOK, ChainLock!TypeOK, ProviderLock!TypeOK,
         ProviderLock!Release, ProviderLock!Become
<1>2. JustSet' /\ NotYet'
  BY DEF JustSet, NotYet, TypeOK
<1>3. network' = provider'
  BY DEF JustSet, NotYet, TypeOK
<1> QED
  BY <1>1, <1>2, <1>3 DEF NetworkInStep

LEMMA ReleaseStep ==
  ASSUME InvStep, ChainLock!TypeOK', ProviderLock!TypeOK', Release
  PROVE  InvStep'
<1> USE DEF InvStep, values, calls
<1>1. CASE ChainLock!PassOn /\ UNCHANGED <<values, calls, p_lock, faults>>
  BY <1>1 DEF TypeOK, JustSet, NotYet, NetworkInStep, ChainLock!TypeOK, ProviderLock!TypeOK,
              p_lock, ChainLock!PassOn, ChainLock!Become
<1>2. CASE ChainLock!ReturnLock /\ UNCHANGED <<values, calls, p_lock, faults>>
  BY <1>2 DEF TypeOK, JustSet, NotYet, NetworkInStep, ChainLock!TypeOK, ProviderLock!TypeOK,
              p_lock, ChainLock!ReturnLock
<1>3. CASE ProviderLock!PassOn /\ UNCHANGED <<values, calls, c_lock, faults>>
  BY <1>3 DEF TypeOK, JustSet, NotYet, NetworkInStep, ChainLock!TypeOK, ProviderLock!TypeOK,
              c_lock, ProviderLock!PassOn, ProviderLock!Become
<1>4. CASE ProviderLock!ReturnLock /\ UNCHANGED <<values, calls, c_lock, faults>>
  BY <1>4 DEF TypeOK, JustSet, NotYet, NetworkInStep, ChainLock!TypeOK, ProviderLock!TypeOK,
              c_lock, ProviderLock!ReturnLock
<1> QED
  BY <1>1, <1>2, <1>3, <1>4 DEF Release

LEMMA NextInvStep ==
  ASSUME InvStep, OneTells, ChainLock!TypeOK', ProviderLock!TypeOK', [Next]_vars
  PROVE  InvStep'
<1>1. CASE UNCHANGED vars
  BY <1>1 DEF vars, values, calls, c_lock, p_lock, InvStep, TypeOK, JustSet,
              NotYet, NetworkInStep, ChainLock!TypeOK, ProviderLock!TypeOK
<1>2. ASSUME NEW t \in Picks, Entries(t) PROVE InvStep'
  <2>1. CASE SetProvider(t, picked[t]) /\ UNCHANGED faults
    BY <2>1, SetProviderStep DEF InvStep, TypeOK
  <2>2. CASE SetProvider(t, None) /\ Fault
    BY <2>2, SetProviderStep, ChainSelectionAssumption DEF Fault, InvStep, TypeOK
  <2> QED
    BY <1>2, <2>1, <2>2 DEF Entries
<1> QED
  BY <1>1, <1>2, PickStep, TransformStep, ChainAtStep, ChainFailsStep,
     TransformProviderStep, ProviderAtStep, ProviderFailsStep, NetworkStep, ReleaseStep DEF Next, Happens

LEMMA Inductive == Spec => []InvStep
<1>1. CL!IInv /\ PL!IInv => ChainLock!TypeOK /\ ProviderLock!TypeOK
  BY PoolTypes
<1>2. InvStep /\ OneTells /\ (ChainLock!TypeOK /\ ProviderLock!TypeOK)' /\ [Next]_vars
        => InvStep'
  BY NextInvStep
<1> QED
  BY <1>1, <1>2, InitInvStep, PoolInvariants, OneTellsAlways, PTL DEF Spec

\* Every variable of the selection keeps to its type.
THEOREM TypeCorrect == Spec => []TypeOK
<1>1. InvStep => TypeOK
  BY DEF InvStep
<1> QED
  BY <1>1, Inductive, PTL

\* The network is that of the provider, except while the provider has just changed, and
\* for good after the network of that provider failed.
THEOREM NetworkStaysInStep == Spec => []NetworkInStep
<1>1. InvStep => NetworkInStep
  BY DEF InvStep
<1> QED
  BY <1>1, Inductive, PTL

-----------------------------------------------------------------------------
(* Who comes last in a line for a lock has the last value, whoever has the   *)
(* lock if nobody is in line, and the derived store if nobody has.           *)

Latest(line, state, busy, value, ref, stored) ==
  /\ line # <<>> => busy >= 1 /\ value[line[Len(line)]] = ref
  /\ line = <<>> => \A t \in Picks : state[t] = "holding" => value[t] = ref
  /\ line = <<>> /\ (\A t \in Picks : state[t] # "holding") => stored = ref

\* Who is at a lock has yet to tell its value.
AtLock == \A t \in Picks :
  /\ c_state[t] \in {"waiting", "holding"} => telling[t] \in {"set", "transform", "failed"}
  /\ p_state[t] \in {"waiting", "holding"} => propagating[t] \in {"set", "provider", "network", "stuck"}

\* A call whose provider or network failed keeps the lock of the provider.
Stuck == \E t \in Picks : propagating[t] = "stuck"

FollowInv ==
  /\ AtLock
  /\ Latest(c_queued, c_state, c_busy, picked, chain_ref, chain)

ProviderLatest == Latest(p_queued, p_state, p_busy, default, provider_ref, provider)

FollowStep == FollowInv' /\ (ProviderLatest => ProviderLatest')

\* A call that sets the store gets the lock or the last place in line.
LEMMA Joins ==
  ASSUME NEW line \in Seq(Picks), NEW line2, NEW state, NEW state2, NEW busy \in Nat, NEW busy2,
         NEW value, NEW value2, NEW ref, NEW ref2, NEW stored,
         NEW t \in Picks,
         Latest(line, state, busy, value, ref, stored),
         value2[t] = ref2, state2[t] # "idle",
         \A u, v \in Picks : state2[u] = "holding" /\ state2[v] = "holding" => u = v,
         \/ busy < 1 /\ busy2 = busy + 1 /\ state2[t] = "holding" /\ line2 = line
         \/ busy >= 1 /\ busy2 = busy /\ line2 = Append(line, t)
  PROVE  Latest(line2, state2, busy2, value2, ref2, stored)
<1>1. CASE busy < 1 /\ busy2 = busy + 1 /\ state2[t] = "holding" /\ line2 = line
  <2>1. line2 = <<>>
    BY <1>1 DEF Latest
  <2>2. \A u \in Picks : state2[u] = "holding" => value2[u] = ref2
    BY <1>1
  <2> QED
    BY <1>1, <2>1, <2>2 DEF Latest
<1>2. CASE busy >= 1 /\ busy2 = busy /\ line2 = Append(line, t)
  <2>1. line2 # <<>> /\ Len(line2) = Len(line) + 1 /\ line2[Len(line) + 1] = t
    BY <1>2
  <2> QED
    BY <1>2, <2>1 DEF Latest
<1> QED
  BY <1>1, <1>2

\* Who has told its value leaves it in the derived store.
LEMMA Leaves ==
  ASSUME NEW line, NEW state, NEW state2, NEW busy, NEW value, NEW ref, NEW stored, NEW stored2,
         NEW t \in Picks,
         Latest(line, state, busy, value, ref, stored),
         state[t] = "holding", stored2 = value[t],
         \A u \in Picks : state2[u] = "holding" => state[u] = "holding"
  PROVE  Latest(line, state2, busy, value, ref, stored2)
BY DEF Latest

\* The first in line gets the lock; if it was the last too, it has the last value.
LEMMA PassesOn ==
  ASSUME NEW line \in Seq(Picks), line # <<>>, NEW state2, NEW state, NEW busy,
         NEW value, NEW ref, NEW stored,
         Latest(line, state, busy, value, ref, stored),
         state2[Head(line)] = "holding",
         \A u, v \in Picks : state2[u] = "holding" /\ state2[v] = "holding" => u = v
  PROVE  Latest(Tail(line), state2, busy, value, ref, stored)
<1> DEFINE last == line[Len(line)]
<1>1. busy >= 1 /\ value[last] = ref /\ Len(line) \in Nat \ {0}
  BY DEF Latest
<1>2. CASE Tail(line) = <<>>
  <2>1. Len(line) = 1
    <3>1. Len(Tail(line)) = Len(line) - 1
      BY <1>1
    <3> HIDE DEF last
    <3> QED
      BY <1>1, <1>2, <3>1
  <2>2. Head(line) = last /\ last \in Picks
    BY <2>1
  <2>3. \A u \in Picks : state2[u] = "holding" => u = last
    BY <2>2
  <2> QED
    BY <1>1, <1>2, <2>2, <2>3 DEF Latest
<1>3. CASE Tail(line) # <<>>
  <2>1. Tail(line)[Len(Tail(line))] = last
    BY <1>1, <1>3
  <2> QED
    BY <1>1, <1>3, <2>1 DEF Latest
<1> QED
  BY <1>2, <1>3

\* A lock that nobody waits for returns to the pool.
LEMMA Returned ==
  ASSUME NEW state, NEW busy, NEW busy2, NEW value, NEW ref, NEW stored,
         Latest(<<>>, state, busy, value, ref, stored)
  PROVE  Latest(<<>>, state, busy2, value, ref, stored)
BY DEF Latest

\* While one has the lock, the derived store may be any.
LEMMA Meanwhile ==
  ASSUME NEW line, NEW state, NEW busy, NEW value, NEW ref, NEW stored, NEW stored2,
         NEW t \in Picks, state[t] = "holding",
         Latest(line, state, busy, value, ref, stored)
  PROVE  Latest(line, state, busy, value, ref, stored2)
BY DEF Latest

\* The value of a call that is not at the lock does not matter.
LEMMA Elsewhere ==
  ASSUME NEW line \in Seq(Picks), NEW state, NEW busy, NEW value, NEW value2, NEW ref, NEW stored,
         Latest(line, state, busy, value, ref, stored),
         \A i \in DOMAIN line : state[line[i]] = "waiting",
         \A u \in Picks : state[u] \in {"waiting", "holding"} => value2[u] = value[u]
  PROVE  Latest(line, state, busy, value2, ref, stored)
<1>1. line # <<>> => Len(line) \in DOMAIN line /\ line[Len(line)] \in Picks
  OBVIOUS
<1>2. line # <<>> => value2[line[Len(line)]] = value[line[Len(line)]]
  BY <1>1
<1> QED
  BY <1>2 DEF Latest

ChainLatest == Latest(c_queued, c_state, c_busy, picked, chain_ref, chain)

\* What the proof of a step uses of the locks.
Locks ==
  /\ OneTells
  /\ ChainLock!TypeOK /\ ProviderLock!TypeOK
  /\ \A i \in DOMAIN c_queued : c_state[c_queued[i]] = "waiting"
  /\ \A i \in DOMAIN p_queued : p_state[p_queued[i]] = "waiting"

LEMMA PoolLocks == CL!IInv /\ PL!IInv /\ OneTells => Locks
BY PoolTypes DEF Locks, CL!IInv, CL!QueuedWait, PL!IInv, PL!QueuedWait

LEMMA InitFollow == Init => FollowInv /\ ProviderLatest
BY DEF Init, FollowInv, AtLock, Latest, ProviderLatest

LEMMA PickFollow ==
  ASSUME InvStep, Locks, Locks', FollowInv, NEW t \in Picks, NEW c \in Chains, Pick(t, c)
  PROVE  FollowStep
<1>1. AtLock'
  BY DEF Pick, Tells, InvStep, TypeOK, FollowInv, AtLock, p_lock, ChainLock!Acquire,
         ChainLock!Become, ChainLock!TypeOK
<1>2. \/ c_busy < 1 /\ c_busy' = c_busy + 1 /\ c_state'[t] = "holding" /\ c_queued' = c_queued
      \/ c_busy >= 1 /\ c_busy' = c_busy /\ c_queued' = Append(c_queued, t)
  BY DEF Pick, ChainLock!Acquire, ChainLock!Become, Locks, ChainLock!TypeOK
<1>3. picked'[t] = chain_ref' /\ c_state'[t] # "idle" /\ chain' = chain
  BY DEF Pick, ChainLock!Acquire, ChainLock!Become, InvStep, TypeOK, ChainLock!TypeOK
<1>4. \A u, v \in Picks : c_state'[u] = "holding" /\ c_state'[v] = "holding" => u = v
  BY DEF Locks, OneTells
<1>5. c_queued \in Seq(Picks) /\ c_busy \in Nat
  BY DEF Locks, ChainLock!TypeOK
<1>6. ChainLatest'
  BY <1>2, <1>3, <1>4, <1>5, Joins DEF ChainLatest, FollowInv
<1>7. ProviderLatest => ProviderLatest'
  BY DEF FollowInv, ProviderLatest, Pick, p_lock
<1> QED
  BY <1>1, <1>6, <1>7 DEF FollowStep, FollowInv, ChainLatest

LEMMA TransformFollow ==
  ASSUME InvStep, FollowInv, NEW t \in Picks, Transform(t)
  PROVE  FollowStep
<1>1. AtLock'
  BY DEF Transform, Tells, InvStep, NotYet, TypeOK, FollowInv, AtLock, c_lock, p_lock
<1> QED
  BY <1>1 DEF FollowStep, FollowInv, ProviderLatest, Transform, values, c_lock, p_lock

LEMMA ChainAtFollow ==
  ASSUME InvStep, Locks, FollowInv, NEW t \in Picks, ChainAt(t)
  PROVE  FollowStep
<1>1. AtLock'
  BY DEF ChainAt, Tells, InvStep, TypeOK, FollowInv, AtLock, p_lock, ChainLock!Release,
         ChainLock!Become, ChainLock!TypeOK
<1>2. c_state[t] = "holding" /\ chain' = picked[t]
      /\ \A u \in Picks : c_state'[u] = "holding" => c_state[u] = "holding"
  BY DEF ChainAt, ChainLock!Release, ChainLock!Become, Locks, ChainLock!TypeOK
<1>3. UNCHANGED <<c_queued, c_busy, picked, chain_ref>>
  BY DEF ChainAt, ChainLock!Release
<1>4. ChainLatest'
  BY <1>2, <1>3, Leaves DEF ChainLatest, FollowInv
<1>5. ProviderLatest => ProviderLatest'
  BY DEF FollowInv, ProviderLatest, ChainAt, p_lock
<1> QED
  BY <1>1, <1>4, <1>5 DEF FollowStep, FollowInv, ChainLatest

LEMMA ChainFailsFollow ==
  ASSUME InvStep, FollowInv, NEW t \in Picks, ChainFails(t)
  PROVE  FollowStep
<1>1. AtLock'
  BY DEF ChainFails, Tells, InvStep, TypeOK, FollowInv, AtLock, c_lock, p_lock
<1> QED
  BY <1>1 DEF FollowStep, FollowInv, ProviderLatest, ChainFails, values, c_lock, p_lock

\* A provider that is selected already is not told again.
LEMMA SetProviderFollow ==
  ASSUME InvStep, Locks, Locks', FollowInv,
         NEW t \in Picks, NEW p \in Chains \cup {None}, SetProvider(t, p)
  PROVE  FollowStep
<1>1. propagating[t] = "entries" /\ default' = [default EXCEPT ![t] = p]
      /\ provider_ref' = p /\ provider' = provider
  BY DEF SetProvider, Propagates
<1>2. ChainLatest'
  BY DEF FollowInv, ChainLatest, SetProvider, c_lock
<1>3. CASE p = provider_ref
  <2>1. UNCHANGED p_lock
    BY <1>3 DEF SetProvider
  <2>2. AtLock'
    BY <1>3, <2>1 DEF SetProvider, Propagates, InvStep, TypeOK, FollowInv, AtLock, c_lock, p_lock
  <2>3. \A u \in Picks : p_state[u] \in {"waiting", "holding"} => u # t
    BY <1>1 DEF FollowInv, AtLock
  <2>4. \A u \in Picks : p_state[u] \in {"waiting", "holding"} => default'[u] = default[u]
    BY <1>1, <2>3 DEF InvStep, TypeOK
  <2>5. ProviderLatest => Latest(p_queued, p_state, p_busy, default', provider_ref, provider)
    BY <2>4, Elsewhere DEF ProviderLatest, Locks, ProviderLock!TypeOK
  <2>6. ProviderLatest => ProviderLatest'
    BY <1>1, <1>3, <2>1, <2>5 DEF ProviderLatest, p_lock
  <2> QED
    BY <1>2, <2>2, <2>6 DEF FollowStep, FollowInv, ChainLatest
<1>4. CASE p # provider_ref
  <2>1. ProviderLock!Acquire(t) /\ Propagates(t, "entries", "set")
    BY <1>4 DEF SetProvider
  <2>2. AtLock'
    BY <2>1 DEF SetProvider, Propagates, InvStep, TypeOK, FollowInv, AtLock, c_lock,
                ProviderLock!Acquire, ProviderLock!Become, ProviderLock!TypeOK
  <2>3. \/ p_busy < 1 /\ p_busy' = p_busy + 1 /\ p_state'[t] = "holding" /\ p_queued' = p_queued
        \/ p_busy >= 1 /\ p_busy' = p_busy /\ p_queued' = Append(p_queued, t)
    BY <2>1 DEF ProviderLock!Acquire, ProviderLock!Become, Locks, ProviderLock!TypeOK
  <2>4. default'[t] = provider_ref' /\ p_state'[t] # "idle"
    BY <1>1, <2>1 DEF ProviderLock!Acquire, ProviderLock!Become, InvStep, TypeOK,
                      ProviderLock!TypeOK
  <2>5. \A u, v \in Picks : p_state'[u] = "holding" /\ p_state'[v] = "holding" => u = v
    BY DEF Locks, OneTells
  <2>6. p_queued \in Seq(Picks) /\ p_busy \in Nat
    BY DEF Locks, ProviderLock!TypeOK
  <2>7. ProviderLatest => ProviderLatest'
    BY <1>1, <2>3, <2>4, <2>5, <2>6, Joins DEF ProviderLatest, FollowInv
  <2> QED
    BY <1>2, <2>2, <2>7 DEF FollowStep, FollowInv, ChainLatest
<1> QED
  BY <1>3, <1>4

LEMMA TransformProviderFollow ==
  ASSUME InvStep, FollowInv, NEW t \in Picks, TransformProvider(t)
  PROVE  FollowStep
<1>1. AtLock'
  BY DEF TransformProvider, Propagates, InvStep, TypeOK, FollowInv, AtLock, c_lock, p_lock
<1> QED
  BY <1>1 DEF FollowStep, FollowInv, ProviderLatest, TransformProvider, values, c_lock, p_lock

LEMMA ProviderAtFollow ==
  ASSUME InvStep, FollowInv, NEW t \in Picks, ProviderAt(t)
  PROVE  FollowStep
<1>1. AtLock'
  BY DEF ProviderAt, Propagates, InvStep, TypeOK, FollowInv, AtLock, c_lock, p_lock
<1>2. p_state[t] = "holding"
  BY DEF ProviderAt, Propagates, InvStep, TypeOK
<1>3. ProviderLatest => ProviderLatest'
  BY <1>2, Meanwhile DEF FollowInv, ProviderLatest, ProviderAt, p_lock
<1>4. ChainLatest'
  BY DEF FollowInv, ChainLatest, ProviderAt, c_lock
<1> QED
  BY <1>1, <1>3, <1>4 DEF FollowStep, FollowInv, ChainLatest

LEMMA NetworkFollow ==
  ASSUME InvStep, Locks, FollowInv, NEW t \in Picks, Network(t)
  PROVE  FollowStep
<1>1. AtLock'
  BY DEF Network, Propagates, InvStep, TypeOK, FollowInv, AtLock, c_lock, ProviderLock!Release,
         ProviderLock!Become, ProviderLock!TypeOK
<1>2. p_state[t] = "holding" /\ provider = default[t] /\ provider' = provider
      /\ \A u \in Picks : p_state'[u] = "holding" => p_state[u] = "holding"
  BY DEF Network, Propagates, ProviderLock!Release, ProviderLock!Become, Locks,
         ProviderLock!TypeOK, InvStep, JustSet
<1>3. UNCHANGED <<p_queued, p_busy, default, provider_ref>>
  BY DEF Network, ProviderLock!Release
<1>4. ProviderLatest => ProviderLatest'
  BY <1>2, <1>3, Leaves DEF ProviderLatest, FollowInv
<1>5. ChainLatest'
  BY DEF FollowInv, ChainLatest, Network, c_lock
<1> QED
  BY <1>1, <1>4, <1>5 DEF FollowStep, FollowInv, ChainLatest

LEMMA ReleaseFollow ==
  ASSUME Locks, Locks', FollowInv, Release
  PROVE  FollowStep
<1> USE DEF FollowStep, FollowInv, ChainLatest, ProviderLatest
<1>1. CASE ChainLock!PassOn /\ UNCHANGED <<values, calls, p_lock, faults>>
  <2>1. c_queued \in Seq(Picks) /\ c_queued # <<>> /\ Head(c_queued) \in Picks
        /\ c_state[Head(c_queued)] = "waiting" /\ c_state'[Head(c_queued)] = "holding"
    BY <1>1 DEF Locks, ChainLock!TypeOK, ChainLock!PassOn, ChainLock!Become
  <2>2. AtLock'
    BY <1>1, <2>1 DEF AtLock, ChainLock!PassOn, ChainLock!Become, p_lock, calls, Locks,
                      ChainLock!TypeOK
  <2>3. \A u, v \in Picks : c_state'[u] = "holding" /\ c_state'[v] = "holding" => u = v
    BY DEF Locks, OneTells
  <2>4. Latest(Tail(c_queued), c_state', c_busy, picked, chain_ref, chain)
    BY <2>1, <2>3, PassesOn
  <2> QED
    BY <1>1, <2>2, <2>4 DEF ChainLock!PassOn, values, calls, p_lock
<1>2. CASE ChainLock!ReturnLock /\ UNCHANGED <<values, calls, p_lock, faults>>
  <2>1. ChainLatest'
    BY <1>2, Returned DEF ChainLock!ReturnLock, values, calls
  <2> QED
    BY <1>2, <2>1 DEF ChainLock!ReturnLock, values, calls, p_lock, AtLock
<1>3. CASE ProviderLock!PassOn /\ UNCHANGED <<values, calls, c_lock, faults>>
  <2>1. p_queued \in Seq(Picks) /\ p_queued # <<>> /\ Head(p_queued) \in Picks
        /\ p_state[Head(p_queued)] = "waiting" /\ p_state'[Head(p_queued)] = "holding"
    BY <1>3 DEF Locks, ProviderLock!TypeOK, ProviderLock!PassOn, ProviderLock!Become
  <2>2. AtLock'
    BY <1>3, <2>1 DEF AtLock, ProviderLock!PassOn, ProviderLock!Become, c_lock, calls, Locks,
                      ProviderLock!TypeOK
  <2>3. \A u, v \in Picks : p_state'[u] = "holding" /\ p_state'[v] = "holding" => u = v
    BY DEF Locks, OneTells
  <2>4. ProviderLatest => Latest(Tail(p_queued), p_state', p_busy, default, provider_ref, provider)
    BY <2>1, <2>3, PassesOn DEF ProviderLatest
  <2> QED
    BY <1>3, <2>2, <2>4 DEF ProviderLock!PassOn, values, calls, c_lock
<1>4. CASE ProviderLock!ReturnLock /\ UNCHANGED <<values, calls, c_lock, faults>>
  <2>1. ProviderLatest => ProviderLatest'
    BY <1>4, Returned DEF ProviderLock!ReturnLock, values, calls
  <2> QED
    BY <1>4, <2>1 DEF ProviderLock!ReturnLock, values, calls, c_lock, AtLock
<1> QED
  BY <1>1, <1>2, <1>3, <1>4 DEF Release

LEMMA ProviderFailsFollow ==
  ASSUME InvStep, FollowInv, NEW t \in Picks, ProviderFails(t)
  PROVE  FollowInv' /\ Stuck'
<1>1. AtLock'
  BY DEF ProviderFails, Propagates, InvStep, TypeOK, FollowInv, AtLock, c_lock, p_lock
<1>2. Stuck'
  BY DEF ProviderFails, Propagates, Stuck, InvStep, TypeOK
<1> QED
  BY <1>1, <1>2 DEF FollowInv, ProviderFails, c_lock

\* A call that is stuck stays so.
LEMMA StaysStuck ==
  ASSUME InvStep, Stuck, [Next]_vars
  PROVE  Stuck'
<1>1. PICK u \in Picks : propagating[u] = "stuck"
  BY DEF Stuck
<1>2. propagating'[u] = "stuck"
  <2>1. ASSUME NEW t \in Picks,
               \/ Transform(t) \/ TransformProvider(t) \/ ProviderAt(t) \/ Network(t)
               \/ ProviderFails(t) \/ Entries(t)
        PROVE  propagating'[u] = "stuck"
    BY <1>1, <2>1 DEF Transform, TransformProvider, ProviderAt, Network, ProviderFails, Entries,
                      SetProvider, Propagates, InvStep, TypeOK, NotYet, Tells
  <2>2. ASSUME NEW t \in Picks,
               ChainAt(t) \/ ChainFails(t) \/ \E c \in Chains : Pick(t, c)
        PROVE  propagating'[u] = "stuck"
    BY <1>1, <2>2 DEF ChainAt, ChainFails, Pick
  <2>3. CASE Release \/ UNCHANGED vars
    BY <1>1, <2>3 DEF Release, vars, calls
  <2> QED
    BY <2>1, <2>2, <2>3 DEF Next, Happens
<1> QED
  BY <1>2 DEF Stuck

LEMMA NextFollow ==
  ASSUME InvStep, Locks, Locks', FollowInv, Stuck \/ ProviderLatest, [Next]_vars
  PROVE  FollowInv' /\ (Stuck' \/ ProviderLatest')
<1>1. CASE UNCHANGED vars
  BY <1>1, StaysStuck DEF vars, values, calls, c_lock, p_lock, FollowInv, AtLock, ProviderLatest
<1>2. ASSUME NEW t \in Picks, Entries(t) PROVE FollowStep
  <2>1. picked[t] \in Chains \cup {None}
    BY DEF InvStep, TypeOK
  <2> QED
    BY <1>2, <2>1, SetProviderFollow DEF Entries
<1>3. ASSUME NEW t \in Picks, ProviderFails(t) PROVE FollowInv' /\ Stuck'
  BY <1>3, ProviderFailsFollow
<1>4. ASSUME FollowStep PROVE FollowInv' /\ (Stuck' \/ ProviderLatest')
  BY <1>4, StaysStuck DEF FollowStep
<1> QED
  BY <1>1, <1>2, <1>3, <1>4, PickFollow, TransformFollow, ChainAtFollow, ChainFailsFollow,
     TransformProviderFollow, ProviderAtFollow, NetworkFollow, ReleaseFollow DEF Next, Happens

\* A lock nobody is at has nobody in line.
LEMMA NobodyInLine ==
  ASSUME NEW line \in Seq(Picks), NEW state,
         \A i \in DOMAIN line : state[line[i]] = "waiting",
         \A t \in Picks : state[t] \notin {"waiting", "holding"}
  PROVE  line = <<>>
<1>1. ASSUME line # <<>> PROVE FALSE
  <2>1. 1 \in DOMAIN line /\ line[1] \in Picks
    BY <1>1
  <2> QED
    BY <2>1
<1> QED
  BY <1>1

\* When all is told nobody is at the lock of a store, so the derived store has the last
\* value.
LEMMA QuietFollows ==
  ASSUME InvStep, Locks, FollowInv, Stuck \/ ProviderLatest
  PROVE  Follows
<1>1. ASSUME AllTold PROVE chain = chain_ref
  <2>1. \A t \in Picks : c_state[t] \notin {"waiting", "holding"}
    BY <1>1 DEF FollowInv, AtLock, AllTold
  <2>2. c_queued = <<>>
    BY <2>1, NobodyInLine DEF Locks, ChainLock!TypeOK
  <2> QED
    BY <2>1, <2>2 DEF FollowInv, Latest
<1>2. ASSUME Propagated PROVE provider = provider_ref /\ network = provider_ref
  <2>1. \A t \in Picks : p_state[t] \notin {"waiting", "holding"}
    BY <1>2 DEF FollowInv, AtLock, Propagated
  <2>2. p_queued = <<>>
    BY <2>1, NobodyInLine DEF Locks, ProviderLock!TypeOK
  <2>3. ~Stuck
    BY <1>2 DEF Stuck, Propagated
  <2>4. provider = provider_ref
    BY <2>1, <2>2, <2>3 DEF ProviderLatest, Latest
  <2>5. network = provider
    BY <1>2 DEF InvStep, NetworkInStep, Propagated
  <2> QED
    BY <2>4, <2>5
<1> QED
  BY <1>1, <1>2 DEF Follows

\* However sets and answers of the vault interleave, the derived stores end up with
\* what is selected unless an answer failed, for any calls, chains and faults.
THEOREM FollowsAlways == Spec => []Follows
<1>1. CL!IInv /\ PL!IInv /\ OneTells => Locks
  BY PoolLocks
<1> DEFINE LatestInv == FollowInv /\ (Stuck \/ ProviderLatest)
<1>2. InvStep /\ Locks /\ Locks' /\ LatestInv /\ [Next]_vars => LatestInv'
  BY NextFollow
<1>3. InvStep /\ Locks /\ LatestInv => Follows
  BY QuietFollows
<1>4. Init => LatestInv
  BY InitFollow
<1> HIDE DEF LatestInv
<1> QED
  BY <1>1, <1>2, <1>3, <1>4, Inductive, PoolInvariants, OneTellsAlways, PTL DEF Spec
=============================================================================
