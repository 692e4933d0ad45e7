--------------------------- MODULE ChainSelection ---------------------------
(***************************************************************************)
(* The selected chain of a window: the stores yw_chain_ref, yw_chain,      *)
(* yw_provider_ref, yw_provider and yw_network of app/mem.ts.  Each is a   *)
(* Subscribable of app/mem-store.ts: its value changes at once, and those  *)
(* who follow it are told under its lock, an AsyncLockPool2 of one lock.   *)
(* The derived ones follow by awaiting the vault.                          *)
(***************************************************************************)
EXTENDS Naturals, Sequences, FiniteSets

CONSTANTS Picks,     \* calls of yw_chain_ref.set()
          Chains,    \* chains, each with one provider of the same name
          MaxFaults, \* bound on reads of the vault that fail
          None

ASSUME ChainSelectionAssumption ==
  /\ IsFiniteSet(Picks)
  /\ None \notin Chains
  /\ MaxFaults \in Nat

VARIABLES
  chain_ref, chain,                 \* values of yw_chain_ref and yw_chain
  provider_ref, provider, network,  \* of yw_provider_ref, yw_provider, yw_network
  picked,                           \* the chain of each call
  telling,                          \* how far each call has come
  propagating, default,             \* its search for a provider, and what it found
  c_busy, c_queued, c_releasing, c_state,  \* the lock of yw_chain_ref
  p_busy, p_queued, p_releasing, p_state,  \* the lock of yw_provider_ref
  faults

values == <<chain_ref, chain, provider_ref, provider, network>>
calls == <<picked, telling, propagating, default>>
c_lock == <<c_busy, c_queued, c_releasing, c_state>>
p_lock == <<p_busy, p_queued, p_releasing, p_state>>
vars == <<values, calls, c_lock, p_lock, faults>>

ChainLock == INSTANCE AsyncLockPool2 WITH
  Tasks <- Picks, NumLocks <- 1, Rejects <- {}, Watchers <- {}, listeners <- {},
  busy <- c_busy, queued <- c_queued, releasing <- c_releasing, state <- c_state

ProviderLock == INSTANCE AsyncLockPool2 WITH
  Tasks <- Picks, NumLocks <- 1, Rejects <- {}, Watchers <- {}, listeners <- {},
  busy <- p_busy, queued <- p_queued, releasing <- p_releasing, state <- p_state

\* Types; a call tells only while it has the lock of its store.
TypeOK ==
  /\ {chain_ref, chain, provider_ref, provider, network} \subseteq Chains \cup {None}
  /\ {picked, default} \subseteq [Picks -> Chains \cup {None}]
  /\ telling \in [Picks -> {"idle", "set", "transform", "failed", "done"}]
  /\ propagating \in [Picks -> {"no", "entries", "set", "provider", "network", "stuck", "done"}]
  /\ ChainLock!TypeOK /\ ProviderLock!TypeOK
  /\ \A t \in Picks : telling[t] \in {"transform", "failed"} => c_state[t] = "holding"
  /\ \A t \in Picks : propagating[t] \in {"provider", "network", "stuck"} => p_state[t] = "holding"
  /\ faults \in 0..MaxFaults

Init ==
  /\ chain_ref = None /\ chain = None
  /\ provider_ref = None /\ provider = None /\ network = None
  /\ picked = [t \in Picks |-> None] /\ default = picked
  /\ telling = [t \in Picks |-> "idle"] /\ propagating = [t \in Picks |-> "no"]
  /\ c_busy = 0 /\ c_queued = <<>> /\ c_releasing = 0 /\ c_state = [t \in Picks |-> "idle"]
  /\ p_busy = 0 /\ p_queued = <<>> /\ p_releasing = 0 /\ p_state = c_state
  /\ faults = 0

Tells(t, from, to) == telling[t] = from /\ telling' = [telling EXCEPT ![t] = to]

Propagates(t, from, to) ==
  propagating[t] = from /\ propagating' = [propagating EXCEPT ![t] = to]

Fault == faults < MaxFaults /\ faults' = faults + 1
-----------------------------------------------------------------------------
(* The chain. *)

\* yw_chain_ref.set(), which ignores the value it has.
Pick(t, c) ==
  /\ c # chain_ref /\ chain_ref' = c
  /\ Tells(t, "idle", "set")
  /\ picked' = [picked EXCEPT ![t] = c]
  /\ ChainLock!Acquire(t)
  /\ UNCHANGED <<chain, provider_ref, provider, network, propagating, default, p_lock, faults>>

\* Mutation: the lock is not waited for.
TransformAtOnce(t) ==
  /\ Tells(t, "set", "transform")
  /\ propagating' = [propagating EXCEPT ![t] = IF provider = picked[t] THEN "done" ELSE "entries"]
  /\ UNCHANGED <<values, picked, default, c_lock, p_lock, faults>>

\* yw_chain is told: unless the provider at the time is of the chain, a search for
\* one that is starts beside.
Transform(t) ==
  /\ c_state[t] = "holding"
  /\ Tells(t, "set", "transform")
  /\ propagating' = [propagating EXCEPT ![t] = IF provider = picked[t] THEN "done" ELSE "entries"]
  /\ UNCHANGED <<values, picked, default, c_lock, p_lock, faults>>

\* Chains.at() returns and yw_chain tells those who follow it.
ChainAt(t) ==
  /\ Tells(t, "transform", "done")
  /\ chain' = picked[t]
  /\ ChainLock!Release(t)
  /\ UNCHANGED <<chain_ref, provider_ref, provider, network, picked, propagating, default,
                 p_lock, faults>>

\* It rejects, and nobody releases the lock.
ChainFails(t) ==
  /\ Tells(t, "transform", "failed") /\ Fault
  /\ UNCHANGED <<values, picked, propagating, default, c_lock, p_lock>>
-----------------------------------------------------------------------------
(* The provider. *)

\* yw_provider_ref.set().
SetProvider(t, p) ==
  /\ provider_ref' = p /\ default' = [default EXCEPT ![t] = p]
  /\ IF p = provider_ref
       THEN Propagates(t, "entries", "done") /\ UNCHANGED p_lock
       ELSE Propagates(t, "entries", "set") /\ ProviderLock!Acquire(t)
  /\ UNCHANGED <<chain_ref, chain, provider, network, picked, telling, c_lock>>

\* Providers.entries() returns, or rejects.
Entries(t) ==
  \/ SetProvider(t, picked[t]) /\ UNCHANGED faults
  \/ SetProvider(t, None) /\ Fault

TransformProvider(t) ==
  /\ p_state[t] = "holding"
  /\ Propagates(t, "set", "provider")
  /\ UNCHANGED <<values, picked, telling, default, c_lock, p_lock, faults>>

\* Providers.at() returns, and yw_provider tells yw_network.
ProviderAt(t) ==
  /\ Propagates(t, "provider", "network")
  /\ provider' = default[t]
  /\ UNCHANGED <<chain_ref, chain, provider_ref, network, picked, telling, default,
                 c_lock, p_lock, faults>>

\* Mutation: the network is of the provider that is selected by now.
NetworkNow(t) ==
  /\ Propagates(t, "network", "done")
  /\ network' = provider_ref
  /\ ProviderLock!Release(t)
  /\ UNCHANGED <<chain_ref, chain, provider_ref, provider, picked, telling, default,
                 c_lock, faults>>

\* Its network is activated, and all is told.
Network(t) ==
  /\ Propagates(t, "network", "done")
  /\ network' = default[t]
  /\ ProviderLock!Release(t)
  /\ UNCHANGED <<chain_ref, chain, provider_ref, provider, picked, telling, default,
                 c_lock, faults>>

\* Providers.at(), Chains.at() or activate() rejects, and so does the set() of the
\* search, which leaves its lock to nobody.  The search then sets no provider: the value
\* changes, and nobody is told, for this set() waits for that very lock.
ProviderFails(t) ==
  /\ default[t] # None /\ Fault
  /\ Propagates(t, "provider", "stuck") \/ Propagates(t, "network", "stuck")
  /\ provider_ref' = None
  /\ UNCHANGED <<chain_ref, chain, provider, network, picked, telling, default,
                 c_lock, p_lock>>
-----------------------------------------------------------------------------
\* The microtasks of the releases.
Release ==
  \/ (ChainLock!PassOn \/ ChainLock!ReturnLock) /\ UNCHANGED <<values, calls, p_lock, faults>>
  \/ (ProviderLock!PassOn \/ ProviderLock!ReturnLock) /\ UNCHANGED <<values, calls, c_lock, faults>>

Happens(t) ==
  \/ Transform(t) \/ ChainAt(t) \/ Entries(t)
  \/ TransformProvider(t) \/ ProviderAt(t) \/ Network(t)

Next ==
  \/ \E t \in Picks : Happens(t) \/ ChainFails(t) \/ ProviderFails(t) \/ \E c \in Chains : Pick(t, c)
  \/ Release

Spec == Init /\ [][Next]_vars

\* The vault answers, and microtasks run.
FairSpec ==
  /\ Spec
  /\ WF_vars(Release)
  /\ \A t \in Picks : WF_vars(Happens(t))
-----------------------------------------------------------------------------
Failed == \E t \in Picks : telling[t] = "failed"

AllTold == \A t \in Picks : telling[t] \in {"idle", "done"}

Propagated == \A t \in Picks : propagating[t] \in {"no", "done"}

\* However sets and answers of the vault interleave, the derived stores end up with
\* what is selected ("prevent old writes", DerivedMemStore), unless an answer failed and
\* its call is never over.
Follows ==
  /\ AllTold => chain = chain_ref
  /\ Propagated => provider = provider_ref /\ network = provider_ref

\* At most one call of set() at a time tells those who follow a store (the lock of
\* _set(), which keeps what is told in the order of the values).
OneTells == \A t, u \in Picks : t # u =>
  /\ c_state[t] # "holding" \/ c_state[u] # "holding"
  /\ p_state[t] # "holding" \/ p_state[u] # "holding"

\* The network is that of the provider, except while the provider has just changed, and
\* for good after the network of that provider failed (yw_network follows yw_provider
\* under the lock of the provider, which such a failure keeps).
NetworkInStep ==
  network # provider =>
    \E t \in Picks : propagating[t] \in {"network", "stuck"} /\ default[t] = provider

\* Every call of set() tells those who follow, unless a rejected transform has kept
\* the lock (_set()).
Told == \A t \in Picks : telling[t] = "set" ~> telling[t] = "done" \/ Failed
=============================================================================
