---------------------------- MODULE AtomicStore ----------------------------
(***************************************************************************)
(* What a caller of a vault store relies on: every call that resolves has  *)
(* taken effect exactly once, in one indivisible step on the latest        *)
(* content, somewhere between the call and its resolution.  A call that    *)
(* rejects has taken effect at most once.  Nothing else changes a store.   *)
(***************************************************************************)
EXTENDS StoreData

CONSTANT Tasks

VARIABLES data,    \* the content of each store, None before its first save
          status,  \* where each caller is with its call
          call,    \* the call it made
          result   \* what its read() resolves with

vars == <<data, status, call, result>>

TypeOK ==
  /\ data \in [Keys -> Contents \cup {None}]
  /\ status \in [Tasks -> {"idle", "pending", "applied", "ok", "error"}]
  /\ call \in [Tasks -> Jobs \cup {None}]
  /\ result \in [Tasks -> Contents \cup {None}]

Latest(k) == IF data[k] = None THEN Default ELSE data[k]

Init ==
  /\ data \in [Keys -> Contents \cup {None}]
  /\ status = [t \in Tasks |-> "idle"]
  /\ call = [t \in Tasks |-> None]
  /\ result = [t \in Tasks |-> None]

Invoke(t, j) ==
  /\ status[t] \in {"idle", "ok", "error"}
  /\ status' = [status EXCEPT ![t] = "pending"]
  /\ call' = [call EXCEPT ![t] = j]
  /\ result' = [result EXCEPT ![t] = None]
  /\ UNCHANGED data

\* The first call on a store saves its default content.
Initialize(t) ==
  /\ status[t] = "pending"
  /\ data[call[t].key] = None
  /\ data' = [data EXCEPT ![call[t].key] = Default]
  /\ UNCHANGED <<status, call, result>>

\* The call takes effect; it may resolve in the same step.
Apply(t) ==
  /\ status[t] = "pending"
  /\ LET j == call[t]
         c == Latest(j.key)
     IN  /\ ~Throws(j, c)
         /\ data' = [data EXCEPT ![j.key] = Effect(j, c)]
         /\ result' = [result EXCEPT ![t] = IF j.op = "read" THEN c ELSE None]
  /\ \E s \in {"applied", "ok"} : status' = [status EXCEPT ![t] = s]
  /\ UNCHANGED call

Settle(t) ==
  /\ \/ /\ status[t] = "applied"
        /\ status' = [status EXCEPT ![t] = "ok"]
        /\ UNCHANGED result
     \/ /\ status[t] \in {"pending", "applied"}
        /\ status' = [status EXCEPT ![t] = "error"]
        /\ result' = [result EXCEPT ![t] = None]
  /\ UNCHANGED <<data, call>>

\* The window the caller runs in is closed.
Vanish(t) ==
  /\ status' = [status EXCEPT ![t] = "idle"]
  /\ call' = [call EXCEPT ![t] = None]
  /\ result' = [result EXCEPT ![t] = None]
  /\ UNCHANGED data

Next ==
  \E t \in Tasks :
    \/ \E j \in Jobs : Invoke(t, j)
    \/ Initialize(t)
    \/ Apply(t)
    \/ Settle(t)
    \/ Vanish(t)

Spec == Init /\ [][Next]_vars
=============================================================================
