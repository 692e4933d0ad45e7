----------------------------- MODULE FeedSockets -----------------------------
(***************************************************************************)
(* The subscriptions of one NetworkFeed: autoSubscribe() of                *)
(* service-feed.ts, whose callers take turns, over the websockets of       *)
(* tm-json-rpc-ws-const.ts, which restart once when they are lost.  A node *)
(* takes so many subscriptions per connection; then the feed opens another.*)
(***************************************************************************)
EXTENDS Naturals, Sequences, FiniteSets, SequencesExt

CONSTANTS Topics,    \* what the feed subscribes to, one caller each
          Sockets,   \* instances of TmJsonRpcWebsocket
          Capacity,  \* subscriptions a node takes per connection
          MaxFaults, \* bound on lost and refused connections and other errors
          None

ASSUME FeedSocketsAssumption ==
  /\ Capacity \in Nat \ {0} /\ MaxFaults \in Nat
  /\ Sockets # {} /\ None \notin Sockets

VARIABLES
  kc_socket, filled,  \* the active socket, and those that are filled
  waiting,            \* callers that wait for their turn
  busy,               \* _b_subscriptions_busy
  pc, picked,         \* how far each caller has come, and its socket
  ws,                 \* the connection of each socket
  closed,             \* sockets that were closed once (_b_closed)
  subscriptions,      \* what each has asked for since it started (_h_subscriptions)
  former,             \* what it will ask for again when it is open
  calls,              \* what it has asked for without an answer
  node,               \* what the node has confirmed on this connection
  denied,             \* sockets of which the node has turned down one for another reason
  destroyed, faults

feed == <<kc_socket, filled, waiting, busy, destroyed>>
callers == <<pc, picked>>
sockets == <<ws, closed, subscriptions, former, calls, node>>
vars == <<feed, callers, sockets, faults, denied>>

Asking == {"turn", "asked", "opening", "retry", "hung"}

\* Types, and the callers that wait are those in the list.
TypeOK ==
  /\ kc_socket \in Sockets \cup {None} /\ filled \subseteq Sockets
  /\ waiting \in Seq(Topics) /\ \A t \in Topics : pc[t] = "waiting" <=> \E i \in 1..Len(waiting) : waiting[i] = t
  /\ pc \in [Topics -> Asking \cup {"idle", "waiting", "done", "without", "failed"}]
  /\ busy \in BOOLEAN
  /\ picked \in [Topics -> Sockets \cup {None}]
  /\ ws \in [Sockets -> {"none", "connecting", "open", "closed"}] /\ closed \subseteq Sockets
  /\ {subscriptions, former, calls} \subseteq [Sockets -> Seq(Topics)]
  /\ node \in [Sockets -> SUBSET Topics]
  /\ destroyed \in BOOLEAN /\ faults \in 0..MaxFaults /\ denied \subseteq Sockets

Init ==
  /\ kc_socket = (CHOOSE s \in Sockets : TRUE) /\ filled = {} /\ waiting = <<>> /\ busy = FALSE
  /\ pc = [t \in Topics |-> "idle"] /\ picked = [t \in Topics |-> None]
  /\ ws = [s \in Sockets |-> IF s = kc_socket THEN "open" ELSE "none"] /\ closed = {}
  /\ subscriptions = [s \in Sockets |-> <<>>] /\ former = subscriptions /\ calls = subscriptions
  /\ node = [s \in Sockets |-> {}]
  /\ destroyed = FALSE /\ faults = 0 /\ denied = {}

Fault == faults < MaxFaults /\ faults' = faults + 1
-----------------------------------------------------------------------------
(* autoSubscribe(). *)

\* A caller that has its turn goes on before anything else runs.
Quiet == \A t \in Topics : pc[t] # "turn"

\* Mutation: who has its turn is not taken off the list.
FinishListed(t, end) ==
  /\ pc' = [u \in Topics |-> IF u = t THEN end
                             ELSE IF waiting # <<>> /\ u = Head(waiting) THEN "turn" ELSE pc[u]]
  /\ busy' = (waiting # <<>>)
  /\ UNCHANGED waiting

\* A caller is at its end; the one that waits longest has its turn, before any
\* other code runs.
Finish(t, end) ==
  /\ pc' = [u \in Topics |-> IF u = t THEN end
                             ELSE IF waiting # <<>> /\ u = Head(waiting) THEN "turn" ELSE pc[u]]
  /\ busy' = (waiting # <<>>)
  /\ waiting' = IF waiting = <<>> THEN <<>> ELSE Tail(waiting)

\* Mutation: nobody waits.
CallAtOnce(t) ==
  /\ Quiet /\ pc[t] = "idle"
  /\ picked' = [picked EXCEPT ![t] = kc_socket]
  /\ pc' = [pc EXCEPT ![t] = "turn"] /\ busy' = TRUE
  /\ UNCHANGED <<waiting, kc_socket, filled, destroyed, sockets, faults, denied>>

\* The caller picks the active socket and waits if the feed is busy.
Call(t) ==
  /\ Quiet /\ pc[t] = "idle"
  /\ picked' = [picked EXCEPT ![t] = kc_socket]
  /\ pc' = [pc EXCEPT ![t] = IF busy THEN "waiting" ELSE "turn"]
  /\ waiting' = IF busy THEN Append(waiting, t) ELSE waiting
  /\ busy' = TRUE
  /\ UNCHANGED <<kc_socket, filled, destroyed, sockets, faults, denied>>

\* subscribe() of a socket: send() throws while it connects, which is ignored as
\* the lack of a socket is, and drops the message once it is closed.
Subscribe(t) ==
  LET s == picked[t] IN
  /\ pc[t] = "turn"
  /\ subscriptions' = [x \in Sockets |-> IF x = s THEN Append(subscriptions[x], t)
                                                  ELSE subscriptions[x]]
  /\ \/ /\ s = None \/ (s \in Sockets /\ ws[s] = "connecting")
        /\ Finish(t, "without") /\ UNCHANGED calls
     \/ /\ s \in Sockets /\ ws[s] = "open"
        /\ calls' = [calls EXCEPT ![s] = Append(@, t)]
        /\ pc' = [pc EXCEPT ![t] = "asked"] /\ UNCHANGED <<waiting, busy>>
     \/ /\ s \in Sockets /\ ws[s] = "closed"
        /\ pc' = [pc EXCEPT ![t] = "hung"] /\ UNCHANGED <<waiting, busy, calls>>
  /\ UNCHANGED <<kc_socket, filled, destroyed, picked, ws, closed, former, node, faults, denied>>

\* Whether the caller for t awaits the answer from socket s.
Awaits(t, s) == pc[t] \in {"asked", "retry"} /\ picked[t] = s

\* The node answers in the order it was asked.  It has room:
Confirmed(s, t) ==
  /\ Quiet /\ calls[s] # <<>> /\ t = Head(calls[s]) /\ Cardinality(node[s]) < Capacity
  /\ calls' = [calls EXCEPT ![s] = Tail(@)]
  /\ node' = [node EXCEPT ![s] = @ \cup {t}]
  /\ IF Awaits(t, s) THEN Finish(t, "done") ELSE UNCHANGED <<pc, busy, waiting>>
  /\ UNCHANGED <<kc_socket, filled, destroyed, picked, ws, closed, subscriptions, former, faults, denied>>

\* It does not: it is full, or there is another error.
TurnsDown(s) ==
  \/ Cardinality(node[s]) >= Capacity /\ UNCHANGED <<faults, denied>>
  \/ Fault /\ denied' = denied \cup {s}

\* The error is taken for a full node, as the code of a full node is that of any
\* internal error: the socket counts as filled and another is opened.
Full(s, t) ==
  /\ Quiet /\ calls[s] # <<>> /\ t = Head(calls[s]) /\ TurnsDown(s)
  /\ calls' = [calls EXCEPT ![s] = Tail(@)]
  /\ pc[t] = "asked" /\ picked[t] = s
  /\ \E n \in Sockets :
       /\ ws[n] = "none"
       /\ ws' = [ws EXCEPT ![n] = "connecting"]
       /\ kc_socket' = n /\ filled' = filled \cup {s}
       /\ picked' = [picked EXCEPT ![t] = n]
       /\ pc' = [pc EXCEPT ![t] = "opening"]
  /\ UNCHANGED <<waiting, busy, destroyed, closed, subscriptions, former, node>>

\* An error of another code is swallowed, and one of a second attempt thrown; nobody
\* hears that of a restart.
Denied(s, t) ==
  /\ Quiet /\ calls[s] # <<>> /\ t = Head(calls[s]) /\ TurnsDown(s)
  /\ calls' = [calls EXCEPT ![s] = Tail(@)]
  /\ \/ pc[t] = "asked" /\ picked[t] = s /\ faults' # faults /\ Finish(t, "without")
     \/ pc[t] = "retry" /\ picked[t] = s /\ Finish(t, "failed")
     \/ ~Awaits(t, s) /\ UNCHANGED <<pc, busy, waiting>>
  /\ UNCHANGED <<kc_socket, filled, destroyed, picked, ws, closed, subscriptions, former, node>>
-----------------------------------------------------------------------------
(* The websockets. *)

\* The caller that has opened socket s.
Opener(s, t) == pc[t] = "opening" /\ picked[t] = s

\* The connection is there: what was subscribed before a restart is subscribed
\* again, and the caller that has opened it subscribes.
Opened(s) ==
  LET asks == former[s] \o SetToSeq({t \in Topics : Opener(s, t)})
  IN /\ Quiet /\ ws[s] = "connecting"
     /\ ws' = [ws EXCEPT ![s] = "open"]
     /\ calls' = [calls EXCEPT ![s] = @ \o asks]
     /\ subscriptions' = [subscriptions EXCEPT ![s] = @ \o asks]
     /\ former' = [former EXCEPT ![s] = <<>>]
     /\ pc' = [t \in Topics |-> IF Opener(s, t) THEN "retry" ELSE pc[t]]
     /\ UNCHANGED <<feed, picked, closed, node, faults, denied>>

\* Mutation: who fails does not pass the turn on.
RefusedKept(s) ==
  /\ Quiet /\ ws[s] = "connecting" /\ Fault
  /\ ws' = [ws EXCEPT ![s] = "closed"] /\ closed' = closed \cup {s}
  /\ pc' = [t \in Topics |-> IF Opener(s, t) THEN "failed" ELSE pc[t]]
  /\ former' = [former EXCEPT ![s] = <<>>]
  /\ UNCHANGED <<feed, picked, subscriptions, calls, node, denied>>

\* It is refused; who has opened it fails, and a restart ends.
Refused(s) ==
  /\ Quiet /\ ws[s] = "connecting" /\ Fault
  /\ ws' = [ws EXCEPT ![s] = "closed"] /\ closed' = closed \cup {s}
  /\ former' = [former EXCEPT ![s] = <<>>]
  /\ \/ \E t \in Topics : Opener(s, t) /\ Finish(t, "failed")
     \/ (\A t \in Topics : ~Opener(s, t)) /\ UNCHANGED <<pc, busy, waiting>>
  /\ UNCHANGED <<kc_socket, filled, destroyed, picked, subscriptions, calls, node, denied>>

\* Calls without an answer are not settled any more.
Unanswered(s) == [t \in Topics |-> IF Awaits(t, s) THEN "hung" ELSE pc[t]]

\* Mutation: the subscriptions are reset before they are kept for the restart.
LostReset(s) ==
  /\ Quiet /\ ws[s] = "open" /\ Fault
  /\ ws' = [ws EXCEPT ![s] = IF s \in closed THEN "closed" ELSE "connecting"]
  /\ closed' = closed \cup {s}
  /\ subscriptions' = [subscriptions EXCEPT ![s] = <<>>]
  /\ calls' = [calls EXCEPT ![s] = <<>>] /\ node' = [node EXCEPT ![s] = {}]
  /\ pc' = Unanswered(s)
  /\ UNCHANGED <<feed, picked, former, denied>>

\* Mutation: what was subscribed last is restored first.
LostReversed(s) ==
  /\ Quiet /\ ws[s] = "open" /\ Fault
  /\ ws' = [ws EXCEPT ![s] = IF s \in closed THEN "closed" ELSE "connecting"]
  /\ closed' = closed \cup {s}
  /\ former' = [former EXCEPT ![s] = IF s \in closed THEN <<>> ELSE Reverse(subscriptions[s])]
  /\ subscriptions' = [subscriptions EXCEPT ![s] = IF s \in closed THEN @ ELSE <<>>]
  /\ calls' = [calls EXCEPT ![s] = <<>>] /\ node' = [node EXCEPT ![s] = {}]
  /\ pc' = Unanswered(s)
  /\ UNCHANGED <<feed, picked, denied>>

\* An open connection is lost: restart(), the first time only.
Lost(s) ==
  /\ Quiet /\ ws[s] = "open" /\ Fault
  /\ ws' = [ws EXCEPT ![s] = IF s \in closed THEN "closed" ELSE "connecting"]
  /\ closed' = closed \cup {s}
  /\ former' = [former EXCEPT ![s] = IF s \in closed THEN <<>> ELSE subscriptions[s]]
  /\ subscriptions' = [subscriptions EXCEPT ![s] = IF s \in closed THEN @ ELSE <<>>]
  /\ calls' = [calls EXCEPT ![s] = <<>>] /\ node' = [node EXCEPT ![s] = {}]
  /\ pc' = Unanswered(s)
  /\ UNCHANGED <<feed, picked, denied>>

\* destroy() of the feed, which destroys its sockets; one that was closed once is
\* not closed again.
Destroy ==
  LET mine == (filled \cup {kc_socket}) \ closed IN
  /\ Quiet /\ ~destroyed /\ destroyed' = TRUE
  /\ ws' = [s \in Sockets |-> IF s \in mine THEN "closed" ELSE ws[s]]
  /\ closed' = closed \cup (mine \cap Sockets)
  /\ calls' = [s \in Sockets |-> IF s \in mine THEN <<>> ELSE calls[s]]
  /\ node' = [s \in Sockets |-> IF s \in mine THEN {} ELSE node[s]]
  /\ pc' = [t \in Topics |-> IF picked[t] \in mine /\ pc[t] \in {"asked", "retry", "opening"}
                             THEN "hung" ELSE pc[t]]
  /\ kc_socket' = None /\ filled' = {}
  /\ UNCHANGED <<waiting, busy, picked, subscriptions, former, faults, denied>>

Answer(s) == Opened(s) \/ \E t \in Topics : Confirmed(s, t) \/ Full(s, t) \/ Denied(s, t)

Step(t) == Call(t) \/ Subscribe(t)

Next ==
  \/ \E t \in Topics : Step(t)
  \/ \E s \in Sockets : Answer(s) \/ Refused(s) \/ Lost(s)
  \/ Destroy

Spec == Init /\ [][Next]_vars

\* Callers go on, and nodes answer on connections that hold.
FairSpec ==
  /\ Spec
  /\ \A t \in Topics : WF_vars(Step(t))
  /\ \A s \in Sockets : WF_vars(Answer(s))
-----------------------------------------------------------------------------
\* One caller at a time asks for a subscription, though a flag is all that keeps the
\* others out (autoSubscribe()).
OneAsks ==
  /\ Cardinality({t \in Topics : pc[t] \in Asking}) <= 1
  /\ (\E t \in Topics : pc[t] \in Asking) => busy

\* Whether topic t is in list, with at most n before and including it.
Within(t, list, n) == \E i \in 1..Len(list) : list[i] = t /\ i <= n

\* A connection that was lost restores what was subscribed to, and not in its stead
\* what the node had turned down as it was full: until it is closed for good, a topic is
\* subscribed to, or will be, among as many as the node takes (restart(), onopen).
\* What a node has turned down for another reason may come back ahead of it.
Remembered == \A t \in Topics, s \in Sockets \ denied :
  pc[t] = "done" /\ picked[t] = s /\ ws[s] # "closed" =>
    \/ t \in node[s]
    \/ Within(t, calls[s], Capacity - Cardinality(node[s]))
    \/ ws[s] = "connecting" /\ Within(t, former[s], Capacity)

\* Every caller gets its turn and its answer, unless one lost its answer with the
\* connection (autoSubscribe(), which has no timeout).
Settled == \A t \in Topics :
  pc[t] = "waiting" ~> pc[t] \in {"done", "without", "failed"} \/ \E u \in Topics : pc[u] = "hung"

\* What was subscribed before a connection was lost is subscribed again on the next
\* ("restore all previous subscriptions", restart()).
Restored == \A t \in Topics, s \in Sockets :
  pc[t] = "done" /\ picked[t] = s /\ ws[s] = "connecting"
    ~> t \in node[s] \/ ws[s] = "closed" \/ s \in denied
=============================================================================
