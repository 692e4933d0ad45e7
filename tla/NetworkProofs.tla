---------------------------- MODULE NetworkProofs ----------------------------
(***************************************************************************)
(* The parts that talk to the network, for any number of callers, feeds,   *)
(* connections and faults: the callers of autoSubscribe() ask one after    *)
(* the other, and their subscriptions outlive a connection (FeedSockets);  *)
(* requests go out no faster than their rate allows, and none is stranded  *)
(* (RateLimitingPool);                                                     *)
(* the service lists every feed once (ServiceFeeds).                       *)
(***************************************************************************)
EXTENDS FeedSockets, RateLimitingPool, FiniteSetTheorems, SequenceTheorems,
        WellFoundedInduction, TLAPS

PcStates == Asking \cup {"idle", "waiting", "done", "without", "failed"}

\* A caller is in the list once.
ListedOnce == \A i, j \in 1..Len(waiting) : waiting[i] = waiting[j] => i = j

\* The callers, as the type invariant has them.
CallersInv ==
  /\ waiting \in Seq(Topics) /\ busy \in BOOLEAN /\ pc \in [Topics -> PcStates]
  /\ \A t \in Topics : pc[t] = "waiting" <=> \E i \in 1..Len(waiting) : waiting[i] = t

\* One asks at a time, the feed is busy exactly then, and nobody waits otherwise.
AskingInv ==
  /\ \A t, u \in Topics : pc[t] \in Asking /\ pc[u] \in Asking => t = u
  /\ busy <=> \E t \in Topics : pc[t] \in Asking
  /\ waiting # <<>> => busy

\* The sockets, as the type invariant has them.
SocketsInv ==
  /\ kc_socket \in Sockets \cup {None} /\ filled \subseteq Sockets
  /\ picked \in [Topics -> Sockets \cup {None}]
  /\ ws \in [Sockets -> {"none", "connecting", "open", "closed"}] /\ closed \subseteq Sockets
  /\ subscriptions \in [Sockets -> Seq(Topics)]
  /\ former \in [Sockets -> Seq(Topics)]
  /\ calls \in [Sockets -> Seq(Topics)]
  /\ node \in [Sockets -> SUBSET Topics]
  /\ destroyed \in BOOLEAN /\ faults \in 0..MaxFaults /\ denied \subseteq Sockets

TurnInv == CallersInv /\ ListedOnce /\ AskingInv

IInv == TurnInv /\ SocketsInv
-----------------------------------------------------------------------------
(* FeedSockets: the turns. *)

\* The one that asks is at its end, and who waits longest is next.
LEMMA FinishStep ==
  ASSUME TurnInv, NEW t \in Topics, pc[t] \in Asking, NEW end \in {"done", "without", "failed"},
         Finish(t, end)
  PROVE  TurnInv'
<1>0. /\ waiting \in Seq(Topics) /\ pc \in [Topics -> PcStates]
      /\ \A u \in Topics : pc[u] = "waiting" <=> \E i \in 1..Len(waiting) : waiting[i] = u
      /\ \A u \in Topics : pc[u] \in Asking => u = t
      /\ end \notin Asking /\ end # "waiting" /\ "waiting" \notin Asking
      /\ "turn" \in Asking /\ "turn" # "waiting" /\ end \in PcStates /\ "turn" \in PcStates
  BY DEF TurnInv, CallersInv, AskingInv, PcStates, Asking
<1>1. CASE waiting = <<>>
  <2>1. /\ pc' = [u \in Topics |-> IF u = t THEN end ELSE pc[u]]
        /\ busy' = FALSE /\ waiting' = <<>>
    BY <1>1 DEF Finish
  <2>4. pc' \in [Topics -> PcStates] /\ \A u \in Topics : pc[u] # "waiting" /\ pc'[u] # "waiting"
    BY <1>0, <1>1, <2>1
  <2>5. Len(waiting') = 0 /\ waiting' \in Seq(Topics)
    BY <2>1
  <2>6. 1..Len(waiting') = {}
    BY <2>5
  <2>2. CallersInv' /\ ListedOnce'
    <3>1. busy' \in BOOLEAN
      BY <2>1
    <3>2. \A u \in Topics : pc'[u] = "waiting" <=> \E i \in 1..Len(waiting') : waiting'[i] = u
      BY <2>4, <2>6
    <3>3. CallersInv'
      BY <2>4, <2>5, <3>1, <3>2 DEF CallersInv
    <3> QED
      BY <2>6, <3>3 DEF ListedOnce
  <2>3. AskingInv'
    BY <1>0, <2>1 DEF AskingInv
  <2> QED
    BY <2>2, <2>3 DEF TurnInv
<1>2. CASE waiting # <<>>
  <2>1. PICK h : h = Head(waiting)
    OBVIOUS
  <2>2. /\ h = waiting[1] /\ 1 \in 1..Len(waiting) /\ h \in Topics
        /\ waiting' = Tail(waiting) /\ waiting' \in Seq(Topics)
        /\ Len(waiting') = Len(waiting) - 1 /\ Len(waiting) \in Nat
        /\ \A i \in 1..Len(waiting') : i + 1 \in 1..Len(waiting) /\ waiting'[i] = waiting[i + 1]
        /\ \A i \in 1..Len(waiting) : i # 1 => i - 1 \in 1..Len(waiting') /\ waiting[i] = waiting'[i - 1]
    BY <1>0, <1>2, <2>1 DEF Finish
  <2>3. /\ pc' = [u \in Topics |-> IF u = t THEN end ELSE IF u = h THEN "turn" ELSE pc[u]]
        /\ busy' = TRUE
    BY <1>2, <2>1 DEF Finish
  <2>4. pc[h] = "waiting" /\ h # t
    BY <1>0, <2>2
  <2>5. ListedOnce'
    <3>1. ASSUME NEW i \in 1..Len(waiting'), NEW j \in 1..Len(waiting'), waiting'[i] = waiting'[j]
          PROVE  i = j
      <4>1. i + 1 = j + 1
        BY <2>2, <3>1 DEF TurnInv, ListedOnce
      <4> QED
        BY <4>1
    <3> QED
      BY <3>1 DEF ListedOnce
  <2>6. pc' \in [Topics -> PcStates]
    BY <1>0, <2>3
  <2>7. ASSUME NEW u \in Topics, pc'[u] = "waiting"
        PROVE  \E i \in 1..Len(waiting') : waiting'[i] = u
    <3>1. u # h /\ pc[u] = "waiting"
      BY <1>0, <2>3, <2>4, <2>7
    <3>2. PICK i \in 1..Len(waiting) : waiting[i] = u
      BY <1>0, <3>1
    <3> QED
      BY <2>2, <3>1, <3>2
  <2>8. ASSUME NEW i \in 1..Len(waiting') PROVE pc'[waiting'[i]] = "waiting"
    <3>1. i + 1 \in 1..Len(waiting) /\ waiting'[i] = waiting[i + 1] /\ i + 1 # 1
      BY <2>2
    <3>2. waiting[i + 1] \in Topics /\ waiting[i + 1] # h
      BY <1>0, <2>2, <3>1 DEF TurnInv, ListedOnce
    <3>3. pc[waiting[i + 1]] = "waiting"
      BY <1>0, <3>1, <3>2
    <3> QED
      BY <1>0, <2>3, <3>1, <3>2, <3>3
  <2>9. CallersInv'
    BY <2>2, <2>3, <2>6, <2>7, <2>8 DEF CallersInv
  <2>10. \A u \in Topics : pc'[u] \in Asking => u = h
    BY <1>0, <2>3
  <2>11. pc'[h] \in Asking
    BY <1>0, <2>2, <2>3, <2>4
  <2>12. AskingInv'
    BY <2>2, <2>3, <2>10, <2>11 DEF AskingInv
  <2> QED
    BY <2>5, <2>9, <2>12 DEF TurnInv
<1> QED
  BY <1>1, <1>2

\* Who asks goes on asking.
LEMMA StillAsking ==
  ASSUME TurnInv, UNCHANGED <<waiting, busy>>, pc' \in [Topics -> PcStates],
         \A u \in Topics : pc'[u] = pc[u] \/ (pc[u] \in Asking /\ pc'[u] \in Asking)
  PROVE  TurnInv'
<1>1. "waiting" \notin Asking
  BY DEF Asking
<1> QED
  BY <1>1 DEF TurnInv, CallersInv, ListedOnce, AskingInv

LEMMA CallStep ==
  ASSUME TurnInv, NEW t \in Topics, Call(t)
  PROVE  TurnInv'
<1>0. /\ waiting \in Seq(Topics) /\ pc \in [Topics -> PcStates] /\ pc[t] = "idle"
      /\ \A u \in Topics : pc[u] = "waiting" <=> \E i \in 1..Len(waiting) : waiting[i] = u
      /\ busy' = TRUE /\ busy \in BOOLEAN
      /\ "waiting" \notin Asking /\ "turn" \in PcStates /\ "waiting" \in PcStates
  BY DEF TurnInv, CallersInv, Call, PcStates, Asking
<1>1. CASE busy
  <2>1. pc' = [pc EXCEPT ![t] = "waiting"] /\ waiting' = Append(waiting, t)
    BY <1>1 DEF Call
  <2>2. /\ waiting' \in Seq(Topics) /\ Len(waiting') = Len(waiting) + 1 /\ Len(waiting) \in Nat
        /\ waiting'[Len(waiting')] = t
        /\ \A i \in 1..Len(waiting) : waiting'[i] = waiting[i] /\ waiting[i] \in Topics
    BY <1>0, <2>1
  <2>3. \A i \in 1..Len(waiting) : waiting[i] # t
    BY <1>0
  <2>4. ListedOnce'
    BY <2>2, <2>3 DEF TurnInv, ListedOnce
  <2>5. pc' \in [Topics -> PcStates]
    BY <1>0, <2>1
  <2>6. ASSUME NEW u \in Topics, pc'[u] = "waiting"
        PROVE  \E i \in 1..Len(waiting') : waiting'[i] = u
    <3>1. CASE u = t
      BY <2>2, <3>1
    <3>2. CASE u # t
      <4>1. PICK i \in 1..Len(waiting) : waiting[i] = u
        BY <1>0, <2>1, <2>6, <3>2
      <4> QED
        BY <2>2, <4>1
    <3> QED
      BY <3>1, <3>2
  <2>7. ASSUME NEW i \in 1..Len(waiting') PROVE pc'[waiting'[i]] = "waiting"
    <3>1. CASE i \in 1..Len(waiting)
      <4>1. pc[waiting[i]] = "waiting"
        BY <1>0, <2>2, <3>1
      <4> QED
        BY <1>0, <2>1, <2>2, <3>1, <4>1
    <3>2. CASE i = Len(waiting')
      BY <1>0, <2>1, <2>2, <3>2
    <3> QED
      BY <2>2, <3>1, <3>2
  <2>8. CallersInv'
    BY <1>0, <2>2, <2>5, <2>6, <2>7 DEF CallersInv
  <2>9. \A u \in Topics : pc'[u] \in Asking <=> pc[u] \in Asking
    BY <1>0, <2>1 DEF Asking
  <2>10. AskingInv'
    BY <1>0, <1>1, <2>9 DEF TurnInv, AskingInv
  <2> QED
    BY <2>4, <2>8, <2>10 DEF TurnInv
<1>2. CASE ~busy
  <2>1. pc' = [pc EXCEPT ![t] = "turn"] /\ waiting' = waiting
    BY <1>2 DEF Call
  <2>2. CallersInv' /\ ListedOnce'
    BY <1>0, <2>1 DEF TurnInv, CallersInv, ListedOnce
  <2>3. \A u \in Topics : pc[u] \notin Asking
    BY <1>2 DEF TurnInv, AskingInv
  <2>4. pc'[t] \in Asking /\ \A u \in Topics : pc'[u] \in Asking => u = t
    BY <1>0, <2>1, <2>3 DEF Asking
  <2>5. AskingInv'
    BY <1>0, <2>4 DEF AskingInv
  <2> QED
    BY <2>2, <2>5 DEF TurnInv
<1> QED
  BY <1>0, <1>1, <1>2

LEMMA TurnStep ==
  ASSUME TurnInv, [Next]_vars
  PROVE  TurnInv'
<1>0. /\ pc \in [Topics -> PcStates]
      /\ {"turn", "asked", "opening", "retry", "hung"} \subseteq Asking /\ Asking \subseteq PcStates
  BY DEF TurnInv, CallersInv, PcStates, Asking
<1>1. ASSUME NEW t \in Topics, Call(t) PROVE TurnInv'
  BY <1>1, CallStep
<1>2. ASSUME NEW t \in Topics, Subscribe(t) PROVE TurnInv'
  <2>1. CASE Finish(t, "without")
    BY <1>0, <1>2, <2>1, FinishStep DEF Subscribe
  <2>2. ASSUME NEW s \in {"asked", "hung"}, pc' = [pc EXCEPT ![t] = s], UNCHANGED <<waiting, busy>>
        PROVE  TurnInv'
    <3>1. pc[t] \in Asking /\ s \in Asking
      BY <1>0, <1>2 DEF Subscribe
    <3> QED
      BY <1>0, <2>2, <3>1, StillAsking
  <2>3. \/ Finish(t, "without")
        \/ \E s \in {"asked", "hung"} : pc' = [pc EXCEPT ![t] = s] /\ UNCHANGED <<waiting, busy>>
    BY <1>2 DEF Subscribe
  <2> QED
    BY <2>1, <2>2, <2>3
<1>3. ASSUME NEW t \in Topics, NEW s \in Sockets, Confirmed(s, t) PROVE TurnInv'
  <2>1. CASE Awaits(t, s)
    BY <1>0, <1>3, <2>1, FinishStep DEF Confirmed, Awaits
  <2>2. CASE ~Awaits(t, s)
    BY <1>0, <1>3, <2>2, StillAsking DEF Confirmed
  <2> QED
    BY <2>1, <2>2
<1>4. ASSUME NEW t \in Topics, NEW s \in Sockets, Full(s, t) PROVE TurnInv'
  <2>1. pc' = [pc EXCEPT ![t] = "opening"] /\ UNCHANGED <<waiting, busy>> /\ pc[t] \in Asking
    BY <1>0, <1>4 DEF Full
  <2> QED
    BY <1>0, <2>1, StillAsking
<1>5. ASSUME NEW s \in Sockets, Opened(s) PROVE TurnInv'
  <2>1. pc' = [t \in Topics |-> IF Opener(s, t) THEN "retry" ELSE pc[t]] /\ UNCHANGED <<waiting, busy>>
    BY <1>5 DEF Opened, feed
  <2>2. \A u \in Topics : Opener(s, u) => pc[u] \in Asking
    BY <1>0 DEF Opener
  <2> QED
    BY <1>0, <2>1, <2>2, StillAsking
<1>6. ASSUME NEW s \in Sockets, Refused(s) PROVE TurnInv'
  <2>1. CASE \E t \in Topics : Opener(s, t) /\ Finish(t, "failed")
    <3>1. PICK t \in Topics : Opener(s, t) /\ Finish(t, "failed")
      BY <2>1
    <3> QED
      BY <1>0, <3>1, FinishStep DEF Opener
  <2>2. CASE UNCHANGED <<pc, busy, waiting>>
    BY <1>0, <2>2, StillAsking
  <2> QED
    BY <1>6, <2>1, <2>2 DEF Refused
<1>7. ASSUME NEW s \in Sockets, Lost(s) PROVE TurnInv'
  <2>1. pc' = [t \in Topics |-> IF Awaits(t, s) THEN "hung" ELSE pc[t]] /\ UNCHANGED <<waiting, busy>>
    BY <1>7 DEF Lost, Unanswered, feed
  <2>2. \A u \in Topics : Awaits(u, s) => pc[u] \in Asking
    BY <1>0 DEF Awaits
  <2> QED
    BY <1>0, <2>1, <2>2, StillAsking
<1>8. CASE Destroy
  <2>1. /\ UNCHANGED <<waiting, busy>> /\ pc' \in [Topics -> PcStates]
        /\ \A u \in Topics : pc'[u] = pc[u] \/ (pc[u] \in Asking /\ pc'[u] \in Asking)
    BY <1>0, <1>8 DEF Destroy
  <2> QED
    BY <2>1, StillAsking
<1>9. CASE UNCHANGED vars
  BY <1>0, <1>9, StillAsking DEF vars, feed, callers
<1>10. ASSUME NEW t \in Topics, NEW s \in Sockets, Denied(s, t) PROVE TurnInv'
  <2>1. CASE \E end \in {"without", "failed"} : pc[t] \in Asking /\ Finish(t, end)
    BY <2>1, FinishStep
  <2>2. CASE UNCHANGED <<pc, busy, waiting>>
    BY <1>0, <2>2, StillAsking
  <2> QED
    BY <1>0, <1>10, <2>1, <2>2 DEF Denied
<1> QED
  BY <1>1, <1>2, <1>3, <1>4, <1>5, <1>6, <1>7, <1>8, <1>9, <1>10 DEF Next, Step, Answer
-----------------------------------------------------------------------------
(* The sockets. *)

\* The list of a set that has at most one element.
LEMMA ListOfOne ==
  ASSUME NEW S, NEW T, S \subseteq T, \A x, y \in S : x = y
  PROVE  SetToSeq(S) \in Seq(T) /\ Len(SetToSeq(S)) <= 1
<1>1. Cardinality(S) \in {0, 1} /\ (Cardinality(S) = 0 <=> S = {})
  <2>1. CASE S = {}
    BY <2>1, FS_EmptySet
  <2>2. CASE S # {}
    <3>1. PICK x : S = {x}
      BY <2>2
    <3>2. Cardinality({x}) = 1
      BY FS_Singleton
    <3> QED
      BY <3>1, <3>2
  <2> QED
    BY <2>1, <2>2
<1>2. \E f \in [1..Cardinality(S) -> S] : IsInjective(f)
  <2>1. CASE S = {}
    <3>1. 1..Cardinality(S) = {}
      BY <1>1, <2>1
    <3>2. [i \in 1..Cardinality(S) |-> i] \in [1..Cardinality(S) -> S]
      BY <3>1
    <3>3. IsInjective([i \in 1..Cardinality(S) |-> i])
      BY <3>1 DEF IsInjective
    <3> QED
      BY <3>2, <3>3
  <2>2. CASE S # {}
    <3>1. PICK x : x \in S
      BY <2>2
    <3>2. 1..Cardinality(S) = {1}
      BY <1>1, <2>2
    <3>3. [i \in 1..Cardinality(S) |-> x] \in [1..Cardinality(S) -> S]
      BY <3>1
    <3>4. IsInjective([i \in 1..Cardinality(S) |-> x])
      BY <3>2 DEF IsInjective
    <3> QED
      BY <3>3, <3>4
  <2> QED
    BY <2>1, <2>2
<1>3. SetToSeq(S) \in [1..Cardinality(S) -> S]
  BY <1>2 DEF SetToSeq
<1>4. SetToSeq(S) \in [1..Cardinality(S) -> T]
  BY <1>3
<1>5. Cardinality(S) \in Nat /\ Cardinality(S) <= 1
  BY <1>1
<1>6. SetToSeq(S) \in Seq(T) /\ Len(SetToSeq(S)) = Cardinality(S)
  BY <1>4, <1>5
<1> QED
  BY <1>5, <1>6

LEMMA SocketsStep ==
  ASSUME IInv, [Next]_vars
  PROVE  SocketsInv'
<1>0. SocketsInv
  BY DEF IInv
<1> DEFINE States == {"none", "connecting", "open", "closed"}
<1>6. ASSUME Fault PROVE faults' \in 0..MaxFaults
  BY <1>0, <1>6, FeedSocketsAssumption DEF Fault, SocketsInv
<1>a. ASSUME NEW s \in Sockets, TurnsDown(s)
      PROVE  faults' \in 0..MaxFaults /\ denied' \subseteq Sockets
  BY <1>0, <1>6, <1>a DEF TurnsDown, SocketsInv
<1>1. ASSUME NEW t \in Topics, Call(t) PROVE SocketsInv'
  BY <1>0, <1>1 DEF SocketsInv, Call, sockets
<1>2. ASSUME NEW t \in Topics, Subscribe(t) PROVE SocketsInv'
  <2>1. subscriptions' \in [Sockets -> Seq(Topics)]
    BY <1>0, <1>2 DEF SocketsInv, Subscribe
  <2>2. calls' \in [Sockets -> Seq(Topics)]
    <3>1. CASE calls' = calls
      BY <1>0, <3>1 DEF SocketsInv
    <3>2. CASE picked[t] \in Sockets /\ calls' = [calls EXCEPT ![picked[t]] = Append(calls[picked[t]], t)]
      <4>1. picked[t] \in Sockets /\ calls[picked[t]] \in Seq(Topics)
        BY <1>0, <3>2 DEF SocketsInv
      <4> QED
        BY <1>0, <3>2, <4>1 DEF SocketsInv
    <3> QED
      BY <1>2, <3>1, <3>2 DEF Subscribe
  <2> QED
    BY <1>0, <1>2, <2>1, <2>2 DEF SocketsInv, Subscribe
<1>3. ASSUME NEW t \in Topics, NEW s \in Sockets, Confirmed(s, t) PROVE SocketsInv'
  <2>1. calls' \in [Sockets -> Seq(Topics)]
    BY <1>0, <1>3 DEF SocketsInv, Confirmed
  <2>2. node' \in [Sockets -> SUBSET Topics]
    BY <1>0, <1>3 DEF SocketsInv, Confirmed
  <2> QED
    BY <1>0, <1>3, <2>1, <2>2 DEF SocketsInv, Confirmed
<1>4. ASSUME NEW t \in Topics, NEW s \in Sockets, Full(s, t) PROVE SocketsInv'
  <2>1. calls' \in [Sockets -> Seq(Topics)]
    BY <1>0, <1>4 DEF SocketsInv, Full
  <2>2. /\ ws' \in [Sockets -> States] /\ kc_socket' \in Sockets \cup {None}
        /\ filled' \subseteq Sockets /\ picked' \in [Topics -> Sockets \cup {None}]
    <3>1. PICK n \in Sockets :
            /\ ws' = [ws EXCEPT ![n] = "connecting"]
            /\ kc_socket' = n /\ filled' = filled \cup {s}
            /\ picked' = [picked EXCEPT ![t] = n]
      BY <1>4 DEF Full
    <3> QED
      BY <1>0, <3>1 DEF SocketsInv
  <2>3. faults' \in 0..MaxFaults /\ denied' \subseteq Sockets
    BY <1>a, <1>4 DEF Full
  <2> QED
    BY <1>0, <1>4, <2>1, <2>2, <2>3 DEF SocketsInv, Full
<1>5. ASSUME NEW s \in Sockets, Opened(s) PROVE SocketsInv'
  <2> DEFINE asks == former[s] \o SetToSeq({t \in Topics : Opener(s, t)})
  <2>1. SetToSeq({t \in Topics : Opener(s, t)}) \in Seq(Topics)
    <3>1. \A x, y \in {t \in Topics : Opener(s, t)} : x = y
      BY DEF IInv, TurnInv, AskingInv, Opener, Asking
    <3> QED
      BY <3>1, ListOfOne
  <2>2. asks \in Seq(Topics)
    BY <1>0, <2>1 DEF SocketsInv
  <2>3. calls' = [calls EXCEPT ![s] = calls[s] \o asks]
        /\ subscriptions' = [subscriptions EXCEPT ![s] = subscriptions[s] \o asks]
        /\ former' = [former EXCEPT ![s] = <<>>] /\ ws' = [ws EXCEPT ![s] = "open"]
    BY <1>5 DEF Opened
  <2> HIDE DEF asks
  <2>4. calls[s] \o asks \in Seq(Topics) /\ subscriptions[s] \o asks \in Seq(Topics)
    BY <1>0, <2>2 DEF SocketsInv
  <2>5. calls' \in [Sockets -> Seq(Topics)] /\ subscriptions' \in [Sockets -> Seq(Topics)]
    BY <1>0, <2>3, <2>4 DEF SocketsInv
  <2>6. former' \in [Sockets -> Seq(Topics)] /\ ws' \in [Sockets -> States]
    BY <1>0, <2>3 DEF SocketsInv
  <2>7. UNCHANGED <<feed, picked, closed, node, faults, denied>>
    BY <1>5 DEF Opened
  <2> QED
    BY <1>0, <2>5, <2>6, <2>7 DEF SocketsInv, feed
<1>7. ASSUME NEW s \in Sockets, Refused(s) PROVE SocketsInv'
  <2>1. ws' \in [Sockets -> States] /\ closed' \subseteq Sockets /\ former' \in [Sockets -> Seq(Topics)]
    BY <1>0, <1>7 DEF SocketsInv, Refused
  <2> QED
    BY <1>0, <1>6, <1>7, <2>1 DEF SocketsInv, Refused
<1>8. ASSUME NEW s \in Sockets, Lost(s) PROVE SocketsInv'
  <2>1. ws' \in [Sockets -> States] /\ closed' \subseteq Sockets
    BY <1>0, <1>8 DEF SocketsInv, Lost
  <2>2. former' \in [Sockets -> Seq(Topics)] /\ subscriptions' \in [Sockets -> Seq(Topics)]
    BY <1>0, <1>8 DEF SocketsInv, Lost
  <2>3. calls' \in [Sockets -> Seq(Topics)] /\ node' \in [Sockets -> SUBSET Topics]
    BY <1>0, <1>8 DEF SocketsInv, Lost
  <2> QED
    BY <1>0, <1>6, <1>8, <2>1, <2>2, <2>3 DEF SocketsInv, Lost, feed
<1>9. CASE Destroy
  <2>1. ws' \in [Sockets -> States] /\ closed' \subseteq Sockets
    BY <1>0, <1>9 DEF SocketsInv, Destroy
  <2>2. calls' \in [Sockets -> Seq(Topics)] /\ node' \in [Sockets -> SUBSET Topics]
    BY <1>0, <1>9 DEF SocketsInv, Destroy
  <2> QED
    BY <1>0, <1>9, <2>1, <2>2 DEF SocketsInv, Destroy
<1>10. CASE UNCHANGED vars
  BY <1>0, <1>10 DEF SocketsInv, vars, feed, callers, sockets
<1>11. ASSUME NEW t \in Topics, NEW s \in Sockets, Denied(s, t) PROVE SocketsInv'
  <2>1. calls' \in [Sockets -> Seq(Topics)]
    BY <1>0, <1>11 DEF SocketsInv, Denied
  <2>2. faults' \in 0..MaxFaults /\ denied' \subseteq Sockets
    BY <1>a, <1>11 DEF Denied
  <2> QED
    BY <1>0, <1>11, <2>1, <2>2 DEF SocketsInv, Denied
<1> QED
  BY <1>1, <1>2, <1>3, <1>4, <1>5, <1>7, <1>8, <1>9, <1>10, <1>11 DEF Next, Step, Answer
-----------------------------------------------------------------------------
LEMMA Initially == ASSUME Init PROVE IInv
<1>1. kc_socket \in Sockets
  BY FeedSocketsAssumption DEF Init
<1>2. TurnInv
  <2>1. waiting \in Seq(Topics) /\ waiting = <<>> /\ 1..Len(waiting) = {} /\ busy = FALSE
    BY DEF Init
  <2>2. /\ pc \in [Topics -> PcStates]
        /\ \A t \in Topics : pc[t] # "waiting" /\ pc[t] \notin Asking
    BY DEF Init, PcStates, Asking
  <2> QED
    BY <2>1, <2>2 DEF TurnInv, CallersInv, ListedOnce, AskingInv
<1>3. SocketsInv
  <2>1. <<>> \in Seq(Topics)
    OBVIOUS
  <2>2. /\ subscriptions \in [Sockets -> Seq(Topics)] /\ former \in [Sockets -> Seq(Topics)]
        /\ calls \in [Sockets -> Seq(Topics)] /\ node \in [Sockets -> SUBSET Topics]
    BY <2>1 DEF Init
  <2>3. ws \in [Sockets -> {"none", "connecting", "open", "closed"}]
        /\ picked \in [Topics -> Sockets \cup {None}]
    BY DEF Init
  <2>4. faults \in 0..MaxFaults
    BY FeedSocketsAssumption DEF Init
  <2> QED
    BY <1>1, <2>2, <2>3, <2>4 DEF Init, SocketsInv
<1> QED
  BY <1>2, <1>3 DEF IInv

\* The turns and the sockets are kept by every step.
THEOREM Inductive == Spec => []IInv
<1>1. Init => IInv
  BY Initially
<1>2. IInv /\ [Next]_vars => IInv'
  BY TurnStep, SocketsStep DEF IInv
<1> QED
  BY <1>1, <1>2, PTL DEF Spec

\* Sockets, subscriptions and callers are of their types.
THEOREM TypeCorrect == Spec => []TypeOK
<1>1. IInv => TypeOK
  BY DEF IInv, TurnInv, CallersInv, SocketsInv, TypeOK, PcStates
<1> QED
  BY <1>1, Inductive, PTL

\* A flag keeps all callers but one from asking, whichever connections are lost,
\* refused, filled or destroyed (_b_subscriptions_busy of autoSubscribe()).
THEOREM OneAsksAlways == Spec => []OneAsks
<1>1. IInv => OneAsks
  <2>1. SUFFICES ASSUME IInv PROVE OneAsks
    OBVIOUS
  <2>2. \A t, u \in {x \in Topics : pc[x] \in Asking} : t = u
    BY <2>1 DEF IInv, TurnInv, AskingInv
  <2>3. CASE {x \in Topics : pc[x] \in Asking} = {}
    BY <2>3, FS_EmptySet DEF OneAsks
  <2>4. CASE {x \in Topics : pc[x] \in Asking} # {}
    <3>1. PICK t : {x \in Topics : pc[x] \in Asking} = {t}
      BY <2>2, <2>4
    <3>2. Cardinality({t}) = 1
      BY FS_Singleton
    <3>3. (\E x \in Topics : pc[x] \in Asking) => busy
      BY <2>1 DEF IInv, TurnInv, AskingInv
    <3> QED
      BY <3>1, <3>2, <3>3 DEF OneAsks
  <2> QED
    BY <2>3, <2>4
<1> QED
  BY <1>1, Inductive, PTL

\* Some caller has the turn, or has hung with it.
TurnKept == waiting # <<>> => \E t \in Topics : pc[t] \in Asking

\* The turn is passed on by every caller that comes to its end, so it is never lost:
\* nobody waits for a turn that nobody has, whichever connections are lost, refused,
\* filled or destroyed (the finally of autoSubscribe()).
THEOREM TurnNeverLost == Spec => []TurnKept
<1>1. IInv => TurnKept
  BY DEF IInv, TurnInv, AskingInv, TurnKept
<1> QED
  BY <1>1, Inductive, PTL
-----------------------------------------------------------------------------
(* FeedSockets: what a connection keeps. *)

\* A caller that has not asked yet.
Before == {"idle", "waiting", "turn"}

\* While the connection of s is not there nothing is asked of it; what it will restore
\* is kept while it restarts, and who has opened it waits for it.
Between(s) ==
  /\ ws[s] # "open" => calls[s] = <<>> /\ node[s] = {}
  /\ former[s] # <<>> => s \in closed /\ ws[s] = "connecting"
  /\ s \in closed => ws[s] # "none"
  /\ ws[s] = "none" => subscriptions[s] = <<>>
  /\ ws[s] = "connecting" /\ s \notin closed =>
       subscriptions[s] = <<>> /\ \E t \in Topics : Opener(s, t)
  /\ IsFiniteSet(node[s])

\* What is subscribed to was asked for by a caller that had its turn.
Begun(s) ==
  /\ \A i \in 1..Len(subscriptions[s]) : pc[subscriptions[s][i]] \notin Before
  /\ \A i \in 1..Len(former[s]) : pc[former[s][i]] \notin Before

\* How many answers have come.
Answers(s) == Len(subscriptions[s]) - Len(calls[s])

\* On its first connection a socket asks for each topic once, in the order of its
\* subscriptions, and the node takes the first of them, unless it has turned one down
\* for another reason.
FirstTime(s) == ws[s] = "open" /\ s \notin closed \cup denied =>
  /\ Answers(s) >= 0
  /\ \A i \in 1..Len(calls[s]) : calls[s][i] = subscriptions[s][Answers(s) + i]
  /\ \A i, j \in 1..Len(subscriptions[s]) : subscriptions[s][i] = subscriptions[s][j] => i = j
  /\ \A t \in node[s] : \E i \in 1..Answers(s) : i <= Capacity /\ subscriptions[s][i] = t
  /\ Answers(s) < Capacity => Cardinality(node[s]) = Answers(s)
  /\ Answers(s) >= Capacity => Cardinality(node[s]) >= Capacity
  /\ \A t \in Topics : pc[t] = "done" /\ picked[t] = s => t \in node[s]

\* Remembered, of one socket.
Keeps(s) == s \notin denied => \A t \in Topics :
  pc[t] = "done" /\ picked[t] = s /\ ws[s] # "closed" =>
    \/ t \in node[s]
    \/ Within(t, calls[s], Capacity - Cardinality(node[s]))
    \/ ws[s] = "connecting" /\ Within(t, former[s], Capacity)

LineInv(s) == Between(s) /\ Begun(s) /\ FirstTime(s) /\ Keeps(s)

MemoryInv == \A s \in Sockets : LineInv(s)

\* A step that leaves a socket alone.
Same(s) ==
  /\ ws'[s] = ws[s] /\ (s \in closed' <=> s \in closed) /\ (s \in denied' <=> s \in denied)
  /\ subscriptions'[s] = subscriptions[s] /\ former'[s] = former[s]
  /\ calls'[s] = calls[s] /\ node'[s] = node[s]

\* Whoever has asked does not wait for a turn again.
GoesOn == \A u \in Topics : pc[u] \notin Before => pc'[u] \notin Before

\* Nobody has been told that a subscription on s is done.
NoneNew(s) == \A u \in Topics :
  pc'[u] = "done" /\ picked'[u] = s => pc[u] = "done" /\ picked[u] = s

\* Who has opened s still waits for it.
OpenersStay(s) == \A u \in Topics : Opener(s, u) => Opener(s, u)'

LEMMA TypeFacts ==
  ASSUME IInv
  PROVE  /\ pc \in [Topics -> PcStates] /\ picked \in [Topics -> Sockets \cup {None}]
         /\ ws \in [Sockets -> {"none", "connecting", "open", "closed"}] /\ closed \subseteq Sockets
         /\ subscriptions \in [Sockets -> Seq(Topics)] /\ former \in [Sockets -> Seq(Topics)]
         /\ calls \in [Sockets -> Seq(Topics)] /\ node \in [Sockets -> SUBSET Topics]
         /\ None \notin Sockets /\ Capacity \in Nat \ {0}
BY FeedSocketsAssumption DEF IInv, TurnInv, CallersInv, SocketsInv

\* What a caller's end does to the others.
LEMMA Ends ==
  ASSUME IInv, NEW t \in Topics, pc[t] \in Asking, NEW end \in {"done", "without", "failed"},
         Finish(t, end)
  PROVE  /\ pc'[t] = end
         /\ \A u \in Topics : u # t => pc'[u] = pc[u] \/ (pc[u] = "waiting" /\ pc'[u] = "turn")
         /\ GoesOn
<1>0. /\ waiting \in Seq(Topics) /\ pc \in [Topics -> PcStates]
      /\ \A u \in Topics : pc[u] = "waiting" <=> \E i \in 1..Len(waiting) : waiting[i] = u
  BY DEF IInv, TurnInv, CallersInv
<1> DEFINE next(u) == waiting # <<>> /\ u = Head(waiting)
<1>1. pc' = [u \in Topics |-> IF u = t THEN end ELSE IF next(u) THEN "turn" ELSE pc[u]]
  BY DEF Finish
<1>2. ASSUME NEW u \in Topics, next(u) PROVE pc[u] = "waiting"
  <2>1. 1 \in 1..Len(waiting) /\ u = waiting[1]
    BY <1>0, <1>2
  <2> QED
    BY <1>0, <2>1
<1> HIDE DEF next
<1>3. pc'[t] = end
  BY <1>1
<1>4. \A u \in Topics : u # t => pc'[u] = pc[u] \/ (pc[u] = "waiting" /\ pc'[u] = "turn")
  BY <1>1, <1>2
<1> QED
  BY <1>3, <1>4 DEF GoesOn, Before

\* A socket a step leaves alone, with those who picked it.
LEMMA Elsewhere ==
  ASSUME NEW s \in Sockets, LineInv(s), Same(s), GoesOn, NoneNew(s), OpenersStay(s),
         subscriptions \in [Sockets -> Seq(Topics)], former \in [Sockets -> Seq(Topics)]
  PROVE  LineInv(s)'
<1>1. Between(s)'
  BY DEF LineInv, Between, Same, OpenersStay
<1>2. Begun(s)'
  <2>1. subscriptions[s] \in Seq(Topics) /\ former[s] \in Seq(Topics)
    OBVIOUS
  <2>2. \A i \in 1..Len(subscriptions[s]) : subscriptions[s][i] \in Topics
    BY <2>1
  <2>3. \A i \in 1..Len(former[s]) : former[s][i] \in Topics
    BY <2>1
  <2> QED
    BY <2>2, <2>3 DEF LineInv, Begun, Same, GoesOn
<1>3. Answers(s)' = Answers(s)
  BY DEF Answers, Same
<1>4. FirstTime(s)'
  BY <1>3 DEF LineInv, FirstTime, Same, NoneNew
<1>5. Keeps(s)'
  BY DEF LineInv, Keeps, Within, Same, NoneNew
<1> QED
  BY <1>1, <1>2, <1>4, <1>5 DEF LineInv
-----------------------------------------------------------------------------
LEMMA CallKeeps ==
  ASSUME IInv, MemoryInv, NEW t \in Topics, Call(t)
  PROVE  MemoryInv'
<1>1. pc[t] = "idle" /\ \A u \in Topics : pc'[u] = IF u = t THEN pc'[t] ELSE pc[u]
  BY TypeFacts DEF Call
<1>2. pc'[t] \in {"waiting", "turn"}
  BY TypeFacts DEF Call
<1>3. GoesOn
  BY <1>1, <1>2 DEF GoesOn, Before
<1>4. picked' = [picked EXCEPT ![t] = kc_socket] /\ UNCHANGED <<sockets, denied>>
  BY DEF Call
<1>5. ASSUME NEW s \in Sockets PROVE LineInv(s)'
  <2>1. Same(s)
    BY <1>4 DEF Same, sockets
  <2>2. NoneNew(s) /\ OpenersStay(s)
    BY <1>1, <1>2, <1>4, TypeFacts DEF NoneNew, OpenersStay, Opener
  <2> QED
    BY <1>3, <2>1, <2>2, TypeFacts, Elsewhere DEF MemoryInv
<1> QED
  BY <1>5 DEF MemoryInv

\* One caller goes on, and does not wait for a turn after it.
LEMMA OneMoves ==
  ASSUME IInv, NEW t \in Topics, NEW p, p \notin Before, pc' = [pc EXCEPT ![t] = p]
  PROVE  /\ pc'[t] = p /\ \A u \in Topics : u # t => pc'[u] = pc[u]
         /\ GoesOn
<1>1. pc'[t] = p /\ \A u \in Topics : u # t => pc'[u] = pc[u]
  BY TypeFacts
<1> QED
  BY <1>1 DEF GoesOn

\* One more is subscribed to and asked for: the order holds, and what was answered
\* stays where it is.
LEMMA AppendedInOrder ==
  ASSUME NEW subs \in Seq(Topics), NEW asked \in Seq(Topics), NEW t \in Topics,
         Len(subs) - Len(asked) >= 0,
         \A i \in 1..Len(asked) : asked[i] = subs[Len(subs) - Len(asked) + i],
         \A i, j \in 1..Len(subs) : subs[i] = subs[j] => i = j,
         \A i \in 1..Len(subs) : subs[i] # t
  PROVE  LET subs2 == Append(subs, t)  asked2 == Append(asked, t) IN
         /\ Len(subs2) - Len(asked2) = Len(subs) - Len(asked)
         /\ \A i \in 1..Len(asked2) : asked2[i] = subs2[Len(subs2) - Len(asked2) + i]
         /\ \A i, j \in 1..Len(subs2) : subs2[i] = subs2[j] => i = j
         /\ \A i \in 1..(Len(subs) - Len(asked)) : subs2[i] = subs[i]
<1> DEFINE subs2 == Append(subs, t)
           asked2 == Append(asked, t)
<1>1. /\ Len(subs2) = Len(subs) + 1 /\ Len(asked2) = Len(asked) + 1
      /\ Len(subs) \in Nat /\ Len(asked) \in Nat
      /\ \A i \in 1..Len(subs) : subs2[i] = subs[i]
      /\ \A i \in 1..Len(asked) : asked2[i] = asked[i]
      /\ subs2[Len(subs) + 1] = t /\ asked2[Len(asked) + 1] = t
  OBVIOUS
<1> HIDE DEF subs2, asked2
<1>2. Len(subs2) - Len(asked2) = Len(subs) - Len(asked)
  BY <1>1
<1>3. ASSUME NEW i \in 1..Len(asked2) PROVE asked2[i] = subs2[Len(subs2) - Len(asked2) + i]
  <2>1. CASE i \in 1..Len(asked)
    <3>1. Len(subs) - Len(asked) + i \in 1..Len(subs)
      BY <1>1, <2>1
    <3> QED
      BY <1>1, <1>2, <2>1, <3>1
  <2>2. CASE i = Len(asked) + 1
    <3>1. Len(subs2) - Len(asked2) + i = Len(subs) + 1
      BY <1>1, <2>2
    <3> QED
      BY <1>1, <2>2, <3>1
  <2> QED
    BY <1>1, <2>1, <2>2
<1>4. ASSUME NEW i \in 1..Len(subs2), NEW j \in 1..Len(subs2), subs2[i] = subs2[j] PROVE i = j
  <2>1. \A k \in 1..Len(subs2) : k \in 1..Len(subs) \/ k = Len(subs) + 1
    BY <1>1
  <2> QED
    BY <1>1, <1>4, <2>1
<1>5. \A i \in 1..(Len(subs) - Len(asked)) : subs2[i] = subs[i]
  BY <1>1
<1> QED
  BY <1>2, <1>3, <1>4, <1>5 DEF subs2, asked2

LEMMA WithinAppended ==
  ASSUME NEW list \in Seq(Topics), NEW t \in Topics, NEW u, NEW n, Within(u, list, n)
  PROVE  Within(u, Append(list, t), n)
<1>1. PICK i \in 1..Len(list) : list[i] = u /\ i <= n
  BY DEF Within
<1>2. i \in 1..Len(Append(list, t)) /\ Append(list, t)[i] = list[i]
  BY <1>1
<1> QED
  BY <1>1, <1>2 DEF Within

LEMMA SubscribeKeeps ==
  ASSUME IInv, MemoryInv, NEW t \in Topics, Subscribe(t)
  PROVE  MemoryInv'
<1>s. PICK s : s = picked[t]
  OBVIOUS
<1>0. /\ pc[t] = "turn" /\ pc[t] \in Asking
      /\ UNCHANGED <<picked, ws, closed, former, node, denied>>
      /\ subscriptions' = [x \in Sockets |-> IF x = s THEN Append(subscriptions[x], t)
                                                      ELSE subscriptions[x]]
      /\ s \in Sockets \cup {None} /\ picked[t] = s /\ picked'[t] = s
  BY <1>s, TypeFacts DEF Subscribe, Asking
<1>1. ASSUME NEW x \in Sockets, x # s, calls'[x] = calls[x] PROVE Same(x)
  BY <1>0, <1>1 DEF Same
<1>2. ASSUME NEW x \in Sockets
      PROVE  Begun(x) /\ subscriptions[x] \in Seq(Topics) /\ calls[x] \in Seq(Topics)
  BY TypeFacts DEF MemoryInv, LineInv
<1>3. ASSUME NEW p, pc'[t] = p, p \notin Before \cup {"done"}, GoesOn,
             \A u \in Topics : u # t => pc'[u] = pc[u] \/ (pc[u] = "waiting" /\ pc'[u] = "turn")
      PROVE  /\ \A x \in Sockets : NoneNew(x) /\ OpenersStay(x)
             /\ s \in Sockets => Begun(s)'
  <2>1. \A x \in Sockets : NoneNew(x) /\ OpenersStay(x)
    BY <1>0, <1>3 DEF NoneNew, OpenersStay, Opener
  <2>2. ASSUME s \in Sockets PROVE Begun(s)'
    <3>1. subscriptions'[s] = Append(subscriptions[s], t)
      BY <1>0, <2>2
    <3> DEFINE subs == subscriptions[s]
    <3>2. subs \in Seq(Topics) /\ former[s] \in Seq(Topics) /\ former'[s] = former[s]
      BY <1>0, <2>2, TypeFacts
    <3> HIDE DEF subs
    <3>3. ASSUME NEW i \in 1..Len(Append(subs, t)) PROVE pc'[Append(subs, t)[i]] \notin Before
      <4>1. CASE i \in 1..Len(subs)
        <5>1. Append(subs, t)[i] = subs[i] /\ subs[i] \in Topics
          BY <3>2, <4>1
        <5>2. pc[subs[i]] \notin Before
          BY <1>2, <2>2, <4>1 DEF Begun, subs
        <5> QED
          BY <1>3, <5>1, <5>2 DEF GoesOn
      <4>2. CASE i = Len(subs) + 1
        BY <1>3, <3>2, <4>2
      <4> QED
        BY <3>2, <4>1, <4>2
    <3>4. \A i \in 1..Len(former[s]) : former[s][i] \in Topics
      BY <3>2
    <3>5. \A i \in 1..Len(former[s]) : pc'[former[s][i]] \notin Before
      BY <1>2, <1>3, <2>2, <3>4 DEF Begun, GoesOn
    <3> QED
      BY <3>1, <3>2, <3>3, <3>5 DEF Begun, subs
  <2> QED
    BY <2>1, <2>2
<1>4. CASE Finish(t, "without") /\ UNCHANGED calls /\ (s = None \/ (s \in Sockets /\ ws[s] = "connecting"))
  <2>1. /\ pc'[t] = "without" /\ GoesOn
        /\ \A u \in Topics : u # t => pc'[u] = pc[u] \/ (pc[u] = "waiting" /\ pc'[u] = "turn")
    BY <1>0, <1>4, Ends
  <2>2. "without" \notin Before \cup {"done"}
    BY DEF Before
  <2>3. \A x \in Sockets : NoneNew(x) /\ OpenersStay(x)
    BY <1>3, <2>1, <2>2
  <2>4. ASSUME NEW x \in Sockets, x # s PROVE LineInv(x)'
    BY <1>1, <1>4, <2>1, <2>3, <2>4, TypeFacts, Elsewhere DEF MemoryInv
  <2>5. ASSUME s \in Sockets PROVE LineInv(s)'
    <3>1. ws[s] = "connecting" /\ LineInv(s)
      BY <1>4, <2>5, TypeFacts DEF MemoryInv
    <3>2. s \in closed
      <4>1. ASSUME NEW u \in Topics, Opener(s, u) PROVE FALSE
        <5>1. pc[u] = "opening" /\ pc[u] \in Asking
          BY <4>1 DEF Opener, Asking
        <5>2. u = t
          BY <1>0, <5>1 DEF IInv, TurnInv, AskingInv
        <5> QED
          BY <1>0, <5>1, <5>2
      <4> QED
        BY <3>1, <4>1 DEF LineInv, Between
    <3>3. Between(s)'
      BY <1>0, <1>4, <3>1, <3>2 DEF LineInv, Between
    <3>4. Begun(s)' /\ NoneNew(s)
      BY <1>3, <2>1, <2>2, <2>5
    <3>5. FirstTime(s)'
      BY <1>0, <3>1 DEF FirstTime
    <3>6. Keeps(s)'
      BY <1>0, <1>4, <3>1, <3>4 DEF LineInv, Keeps, Within, NoneNew
    <3> QED
      BY <3>3, <3>4, <3>5, <3>6 DEF LineInv
  <2> QED
    BY <2>4, <2>5 DEF MemoryInv
<1>5. CASE s \in Sockets /\ ws[s] = "open" /\ calls' = [calls EXCEPT ![s] = Append(@, t)]
           /\ pc' = [pc EXCEPT ![t] = "asked"]
  <2>2. "asked" \notin Before \cup {"done"}
    BY DEF Before
  <2>1. pc'[t] = "asked" /\ GoesOn /\ \A u \in Topics : u # t => pc'[u] = pc[u]
    BY <1>5, <2>2, OneMoves
  <2>3. \A x \in Sockets : NoneNew(x) /\ OpenersStay(x)
    BY <1>3, <2>1, <2>2
  <2>4. ASSUME NEW x \in Sockets, x # s PROVE LineInv(x)'
    <3>1. calls'[x] = calls[x]
      BY <1>5, <2>4, TypeFacts
    <3> QED
      BY <1>1, <2>1, <2>3, <2>4, <3>1, TypeFacts, Elsewhere DEF MemoryInv
  <2>5. LineInv(s)'
    <3> DEFINE subs == subscriptions[s]
               asked == calls[s]
    <3>1. /\ subscriptions'[s] = Append(subs, t) /\ calls'[s] = Append(asked, t) /\ LineInv(s)
          /\ subs \in Seq(Topics) /\ asked \in Seq(Topics)
      BY <1>0, <1>5, TypeFacts DEF MemoryInv
    <3>2. Between(s)'
      BY <1>0, <1>5, <3>1 DEF LineInv, Between
    <3>3. Begun(s)' /\ NoneNew(s)
      BY <1>3, <1>5, <2>1, <2>2
    <3>4. \A i \in 1..Len(subs) : subs[i] # t
      BY <1>0, <3>1 DEF LineInv, Begun, Before
    <3>5. FirstTime(s)'
      <4>1. CASE s \in closed \cup denied
        BY <1>0, <4>1 DEF FirstTime
      <4>2. CASE s \notin closed \cup denied
        <5>1. /\ Len(subs) - Len(asked) >= 0
              /\ \A i \in 1..Len(asked) : asked[i] = subs[Len(subs) - Len(asked) + i]
              /\ \A i, j \in 1..Len(subs) : subs[i] = subs[j] => i = j
          BY <1>5, <3>1, <4>2 DEF LineInv, FirstTime, Answers
        <5> DEFINE subs2 == Append(subs, t)
                   asked2 == Append(asked, t)
        <5>2. /\ Len(subs2) - Len(asked2) = Len(subs) - Len(asked)
              /\ \A i \in 1..Len(asked2) : asked2[i] = subs2[Len(subs2) - Len(asked2) + i]
              /\ \A i, j \in 1..Len(subs2) : subs2[i] = subs2[j] => i = j
              /\ \A i \in 1..(Len(subs) - Len(asked)) : subs2[i] = subs[i]
          <6> HIDE DEF subs, asked
          <6> QED
            BY <3>1, <3>4, <5>1, AppendedInOrder
        <5>3. Answers(s)' = Len(subs2) - Len(asked2) /\ Answers(s) = Len(subs) - Len(asked)
          BY <3>1 DEF Answers
        <5>9. Answers(s)' = Answers(s)
          BY <5>2, <5>3
        <5>4. /\ node'[s] = node[s] /\ subscriptions'[s] = subs2 /\ calls'[s] = asked2
          BY <1>0, <3>1
        <5>5. \A u \in node'[s] : \E i \in 1..Answers(s)' : i <= Capacity /\ subscriptions'[s][i] = u
          <6>1. \A u \in node[s] : \E i \in 1..Answers(s) : i <= Capacity /\ subscriptions[s][i] = u
            BY <1>5, <3>1, <4>2 DEF LineInv, FirstTime
          <6>2. \A i \in 1..Answers(s) : subscriptions'[s][i] = subscriptions[s][i]
            BY <5>2, <5>3, <5>4
          <6> QED
            BY <5>4, <5>9, <6>1, <6>2
        <5>6. /\ Answers(s)' = Answers(s) /\ Answers(s)' >= 0
              /\ Answers(s)' < Capacity => Cardinality(node'[s]) = Answers(s)'
              /\ Answers(s)' >= Capacity => Cardinality(node'[s]) >= Capacity
          <6>1. /\ Answers(s) >= 0
                /\ Answers(s) < Capacity => Cardinality(node[s]) = Answers(s)
                /\ Answers(s) >= Capacity => Cardinality(node[s]) >= Capacity
            BY <1>5, <3>1, <4>2 DEF LineInv, FirstTime
          <6> QED
            BY <5>4, <5>9, <6>1
        <5>7. \A u \in Topics : pc'[u] = "done" /\ picked'[u] = s => u \in node'[s]
          BY <1>5, <3>1, <3>3, <4>2, <5>4 DEF LineInv, FirstTime, NoneNew
        <5> HIDE DEF subs2, asked2
        <5>8. /\ \A i \in 1..Len(calls'[s]) : calls'[s][i] = subscriptions'[s][Answers(s)' + i]
              /\ \A i, j \in 1..Len(subscriptions'[s]) : subscriptions'[s][i] = subscriptions'[s][j] => i = j
          BY <5>2, <5>3, <5>4
        <5> QED
          BY <5>5, <5>6, <5>7, <5>8, <1>0 DEF FirstTime
      <4> QED
        BY <4>1, <4>2
    <3>6. Keeps(s)'
      <4>1. ASSUME s \notin denied',
                   NEW u \in Topics, pc'[u] = "done", picked'[u] = s, u \notin node'[s]
            PROVE  Within(u, calls'[s], Capacity - Cardinality(node'[s]))
        <5>1. Within(u, calls[s], Capacity - Cardinality(node[s]))
          BY <1>0, <1>5, <3>1, <3>3, <4>1 DEF LineInv, Keeps, NoneNew
        <5>2. Within(u, Append(asked, t), Capacity - Cardinality(node[s]))
          BY <3>1, <5>1, WithinAppended
        <5> QED
          BY <1>0, <3>1, <5>2
      <4> QED
        BY <4>1 DEF Keeps
    <3> QED
      BY <3>2, <3>3, <3>5, <3>6 DEF LineInv
  <2> QED
    BY <2>4, <2>5 DEF MemoryInv
<1>6. CASE s \in Sockets /\ ws[s] = "closed" /\ pc' = [pc EXCEPT ![t] = "hung"] /\ UNCHANGED calls
  <2>2. "hung" \notin Before \cup {"done"}
    BY DEF Before
  <2>1. pc'[t] = "hung" /\ GoesOn /\ \A u \in Topics : u # t => pc'[u] = pc[u]
    BY <1>6, <2>2, OneMoves
  <2>3. \A x \in Sockets : NoneNew(x) /\ OpenersStay(x)
    BY <1>3, <2>1, <2>2
  <2>4. ASSUME NEW x \in Sockets, x # s PROVE LineInv(x)'
    BY <1>1, <1>6, <2>1, <2>3, <2>4, TypeFacts, Elsewhere DEF MemoryInv
  <2>5. LineInv(s)'
    <3>1. LineInv(s) /\ Begun(s)'
      BY <1>3, <1>6, <2>1, <2>2 DEF MemoryInv
    <3> QED
      BY <1>0, <1>6, <3>1 DEF LineInv, Between, FirstTime, Keeps
  <2> QED
    BY <2>4, <2>5 DEF MemoryInv
<1> QED
  BY <1>s, <1>4, <1>5, <1>6 DEF Subscribe
-----------------------------------------------------------------------------
\* The first that was asked is the next of the subscriptions.
LEMMA AnsweredInOrder ==
  ASSUME NEW subs \in Seq(Topics), NEW asked \in Seq(Topics), asked # <<>>,
         Len(subs) - Len(asked) >= 0,
         \A i \in 1..Len(asked) : asked[i] = subs[Len(subs) - Len(asked) + i]
  PROVE  LET k == Len(subs) - Len(asked) IN
         /\ k \in Nat /\ Len(subs) - Len(Tail(asked)) = k + 1
         /\ \A i \in 1..Len(Tail(asked)) : Tail(asked)[i] = subs[k + 1 + i]
         /\ k + 1 \in 1..Len(subs) /\ Head(asked) = subs[k + 1]
<1> DEFINE k == Len(subs) - Len(asked)
           rest == Tail(asked)
<1>1. /\ Len(asked) \in Nat \ {0} /\ Len(subs) \in Nat /\ Len(rest) = Len(asked) - 1
      /\ \A i \in 1..Len(rest) : rest[i] = asked[i + 1]
      /\ Head(asked) = asked[1]
  OBVIOUS
<1> HIDE DEF rest
<1>2. k \in Nat /\ Len(subs) - Len(rest) = k + 1 /\ k + 1 \in 1..Len(subs)
  BY <1>1
<1>3. Head(asked) = subs[k + 1]
  BY <1>1
<1>4. ASSUME NEW i \in 1..Len(rest) PROVE rest[i] = subs[k + 1 + i]
  <2>1. i + 1 \in 1..Len(asked) /\ k + (i + 1) = k + 1 + i
    BY <1>1, <1>2
  <2>2. asked[i + 1] = subs[k + (i + 1)]
    BY <2>1
  <2> QED
    BY <1>1, <2>1, <2>2
<1> QED
  BY <1>2, <1>3, <1>4 DEF rest

\* Who is not the first is one place further after it.
LEMMA WithinTail ==
  ASSUME NEW list \in Seq(Topics), list # <<>>, NEW u, u # Head(list),
         NEW n \in Int, NEW m \in Int, m >= n - 1, Within(u, list, n)
  PROVE  Within(u, Tail(list), m)
<1>1. PICK i \in 1..Len(list) : list[i] = u /\ i <= n
  BY DEF Within
<1>2. i # 1 /\ Len(list) \in Nat /\ Len(Tail(list)) = Len(list) - 1
  BY <1>1
<1>3. i - 1 \in 1..Len(Tail(list)) /\ i - 1 <= m
  BY <1>1, <1>2
<1>4. Tail(list)[i - 1] = list[i]
  BY <1>1, <1>2, <1>3
<1> QED
  BY <1>1, <1>3, <1>4 DEF Within

LEMMA ConfirmedKeeps ==
  ASSUME IInv, MemoryInv, NEW s \in Sockets, NEW t \in Topics, Confirmed(s, t)
  PROVE  MemoryInv'
<1>1. /\ calls[s] # <<>> /\ t = Head(calls[s]) /\ Cardinality(node[s]) < Capacity
      /\ calls' = [calls EXCEPT ![s] = Tail(@)]
      /\ node' = [node EXCEPT ![s] = @ \cup {t}]
      /\ UNCHANGED <<picked, ws, closed, subscriptions, former, denied>>
  BY DEF Confirmed
<1>2. /\ GoesOn
      /\ \A u \in Topics : u # t => pc'[u] = pc[u] \/ (pc[u] = "waiting" /\ pc'[u] = "turn")
      /\ pc'[t] = pc[t] \/ (Awaits(t, s) /\ pc'[t] = "done")
  <2>1. CASE Awaits(t, s)
    BY <2>1, Ends DEF Confirmed, Awaits, Asking
  <2>2. CASE ~Awaits(t, s)
    BY <2>2 DEF Confirmed, GoesOn
  <2> QED
    BY <2>1, <2>2
<1>3. ASSUME NEW x \in Sockets, x # s PROVE LineInv(x)'
  <2>1. Same(x)
    BY <1>1, <1>3, TypeFacts DEF Same
  <2>2. NoneNew(x) /\ OpenersStay(x)
    BY <1>1, <1>2, <1>3 DEF NoneNew, OpenersStay, Opener, Awaits
  <2> QED
    BY <1>2, <2>1, <2>2, TypeFacts, Elsewhere DEF MemoryInv
<1>4. LineInv(s)'
  <2> DEFINE subs == subscriptions[s]
             asked == calls[s]
             had == node[s]
  <2>1. /\ LineInv(s) /\ ws[s] = "open" /\ ws'[s] = "open" /\ (s \in closed' <=> s \in closed)
        /\ subscriptions'[s] = subs /\ calls'[s] = Tail(asked) /\ former'[s] = former[s]
        /\ node'[s] = had \cup {t}
        /\ subs \in Seq(Topics) /\ former[s] \in Seq(Topics) /\ asked \in Seq(Topics) /\ asked # <<>>
        /\ picked' = picked /\ denied' = denied
    BY <1>1, TypeFacts DEF MemoryInv, LineInv, Between
  <2>2. /\ IsFiniteSet(had) /\ IsFiniteSet(node'[s]) /\ Cardinality(had) \in Nat
        /\ Cardinality(node'[s]) = IF t \in had THEN Cardinality(had) ELSE Cardinality(had) + 1
    BY <2>1, FS_AddElement, FS_CardinalityType DEF LineInv, Between
  <2>3. Between(s)'
    BY <2>1, <2>2 DEF LineInv, Between
  <2>4. Begun(s)'
    <3>1. \A i \in 1..Len(subs) : subs[i] \in Topics
      BY <2>1
    <3>2. \A i \in 1..Len(former[s]) : former[s][i] \in Topics
      BY <2>1
    <3> QED
      BY <1>2, <2>1, <3>1, <3>2 DEF LineInv, Begun, GoesOn
  <2>5. Keeps(s)'
    <3>1. ASSUME s \notin denied',
                 NEW u \in Topics, pc'[u] = "done", picked'[u] = s, u \notin node'[s]
          PROVE  Within(u, calls'[s], Capacity - Cardinality(node'[s]))
      <4>1. u # t /\ u \notin had /\ pc[u] = "done" /\ picked[u] = s
        BY <1>2, <2>1, <3>1
      <4>2. Within(u, asked, Capacity - Cardinality(had))
        BY <2>1, <3>1, <4>1 DEF LineInv, Keeps
      <4>3. /\ Capacity - Cardinality(had) \in Int /\ Capacity - Cardinality(node'[s]) \in Int
            /\ Capacity - Cardinality(node'[s]) >= Capacity - Cardinality(had) - 1
        BY <2>2, TypeFacts
      <4>4. u # Head(asked)
        BY <1>1, <4>1
      <4> QED
        BY <2>1, <4>2, <4>3, <4>4, WithinTail
    <3> QED
      BY <3>1 DEF Keeps
  <2>6. FirstTime(s)'
    <3> DEFINE k == Answers(s)
    <3>1. CASE s \in closed \cup denied
      BY <2>1, <3>1 DEF FirstTime
    <3>2. CASE s \notin closed \cup denied
      <4>1. /\ k = Len(subs) - Len(asked) /\ k >= 0
            /\ \A i \in 1..Len(asked) : asked[i] = subs[k + i]
            /\ \A i, j \in 1..Len(subs) : subs[i] = subs[j] => i = j
            /\ \A u \in had : \E i \in 1..k : i <= Capacity /\ subs[i] = u
            /\ k < Capacity => Cardinality(had) = k
            /\ k >= Capacity => Cardinality(had) >= Capacity
            /\ \A u \in Topics : pc[u] = "done" /\ picked[u] = s => u \in had
        BY <2>1, <3>2 DEF LineInv, FirstTime, Answers
      <4>2. /\ k \in Nat /\ Len(subs) - Len(Tail(asked)) = k + 1
            /\ \A i \in 1..Len(Tail(asked)) : Tail(asked)[i] = subs[k + 1 + i]
            /\ k + 1 \in 1..Len(subs) /\ t = subs[k + 1]
        <5>1. t = Head(asked)
          BY <1>1
        <5> HIDE DEF subs, asked, k
        <5>2. /\ Len(subs) - Len(asked) >= 0
              /\ \A i \in 1..Len(asked) : asked[i] = subs[Len(subs) - Len(asked) + i]
          BY <4>1
        <5>3. LET n == Len(subs) - Len(asked) IN
              /\ n \in Nat /\ Len(subs) - Len(Tail(asked)) = n + 1
              /\ \A i \in 1..Len(Tail(asked)) : Tail(asked)[i] = subs[n + 1 + i]
              /\ n + 1 \in 1..Len(subs) /\ Head(asked) = subs[n + 1]
          BY <2>1, <5>2, AnsweredInOrder
        <5> QED
          BY <4>1, <5>1, <5>3
      <4>3. Answers(s)' = k + 1
        BY <2>1, <4>2 DEF Answers
      <4> HIDE DEF subs, asked, had, k
      <4>4. k < Capacity /\ Cardinality(had) = k /\ k + 1 <= Capacity
        BY <1>1, <2>2, <4>1, <4>2, TypeFacts DEF had
      <4>5. t \notin had
        <5>1. ASSUME NEW i \in 1..k PROVE subs[i] # t
          <6>1. i \in 1..Len(subs) /\ i # k + 1
            BY <2>1, <4>2
          <6> QED
            BY <4>1, <4>2, <6>1
        <5> QED
          BY <4>1, <5>1
      <4>6. Cardinality(node'[s]) = k + 1
        BY <2>2, <4>4, <4>5
      <4>7. ASSUME NEW u \in node'[s] PROVE \E i \in 1..(k + 1) : i <= Capacity /\ subs[i] = u
        <5>1. CASE u = t
          <6>1. k + 1 \in 1..(k + 1)
            BY <4>2
          <6> QED
            BY <4>2, <4>4, <5>1, <6>1
        <5>2. CASE u \in had
          <6>1. PICK i \in 1..k : i <= Capacity /\ subs[i] = u
            BY <4>1, <5>2
          <6>2. i \in 1..(k + 1)
            BY <4>2
          <6> QED
            BY <6>1, <6>2
        <5> QED
          BY <2>1, <5>1, <5>2
      <4>8. \A u \in Topics : pc'[u] = "done" /\ picked'[u] = s => u \in node'[s]
        BY <1>2, <2>1, <4>1
      <4>9. /\ k + 1 >= 0
            /\ k + 1 < Capacity => Cardinality(node'[s]) = k + 1
            /\ k + 1 >= Capacity => Cardinality(node'[s]) >= Capacity
        BY <4>2, <4>6
      <4>10. /\ \A i \in 1..Len(calls'[s]) : calls'[s][i] = subscriptions'[s][Answers(s)' + i]
             /\ \A i, j \in 1..Len(subscriptions'[s]) : subscriptions'[s][i] = subscriptions'[s][j] => i = j
        BY <2>1, <4>1, <4>2, <4>3
      <4>11. \A u \in node'[s] : \E i \in 1..Answers(s)' : i <= Capacity /\ subscriptions'[s][i] = u
        BY <2>1, <4>3, <4>7
      <4> QED
        BY <4>3, <4>8, <4>9, <4>10, <4>11 DEF FirstTime
    <3> QED
      BY <3>1, <3>2
  <2> QED
    BY <2>3, <2>4, <2>5, <2>6 DEF LineInv
<1> QED
  BY <1>3, <1>4 DEF MemoryInv

\* A node that is full turns down who asks next, and keeps the others; nothing is
\* claimed of one that turns down who asks for another reason.
LEMMA TurnedDown ==
  ASSUME IInv, MemoryInv, NEW s \in Sockets, calls[s] # <<>>, TurnsDown(s),
         calls' = [calls EXCEPT ![s] = Tail(@)],
         UNCHANGED <<closed, subscriptions, former, node>>,
         GoesOn, NoneNew(s), ws'[s] = ws[s]
  PROVE  LineInv(s)'
<1>1. /\ s \notin denied' => denied' = denied /\ Cardinality(node[s]) >= Capacity
      /\ calls' = [calls EXCEPT ![s] = Tail(@)]
      /\ UNCHANGED <<closed, subscriptions, former, node>>
  BY DEF TurnsDown
<1> DEFINE subs == subscriptions[s]
           asked == calls[s]
           had == node[s]
           k == Answers(s)
<1>2. /\ LineInv(s) /\ ws[s] = "open" /\ ws'[s] = "open" /\ (s \in closed' <=> s \in closed)
      /\ subscriptions'[s] = subs /\ calls'[s] = Tail(asked) /\ former'[s] = former[s]
      /\ node'[s] = had
      /\ subs \in Seq(Topics) /\ former[s] \in Seq(Topics) /\ asked \in Seq(Topics) /\ asked # <<>>
  BY <1>1, TypeFacts DEF MemoryInv, LineInv, Between
<1>3. IsFiniteSet(had) /\ Cardinality(had) \in Nat
  BY <1>2, FS_CardinalityType DEF LineInv, Between
<1>4. Between(s)'
  BY <1>2 DEF LineInv, Between
<1>5. Begun(s)'
  <2>1. \A i \in 1..Len(subs) : subs[i] \in Topics
    BY <1>2
  <2>2. \A i \in 1..Len(former[s]) : former[s][i] \in Topics
    BY <1>2
  <2> QED
    BY <1>2, <2>1, <2>2 DEF LineInv, Begun, GoesOn
<1>6. Keeps(s)'
  <2>1. ASSUME s \notin denied', NEW u \in Topics, pc'[u] = "done", picked'[u] = s PROVE u \in had
    <3>1. u \in had \/ Within(u, asked, Capacity - Cardinality(had))
      BY <1>1, <1>2, <2>1 DEF LineInv, Keeps, NoneNew
    <3>2. Capacity - Cardinality(had) \in Int /\ Capacity - Cardinality(had) < 1
      BY <1>1, <1>3, <2>1, TypeFacts
    <3> QED
      BY <3>1, <3>2 DEF Within
  <2> QED
    BY <1>2, <2>1 DEF Keeps
<1>7. FirstTime(s)'
  <2>1. CASE s \in closed \cup denied'
    BY <1>2, <2>1 DEF FirstTime
  <2>2. CASE s \notin closed \cup denied'
    <3>1. /\ k = Len(subs) - Len(asked) /\ k >= 0
          /\ \A i \in 1..Len(asked) : asked[i] = subs[k + i]
          /\ \A i, j \in 1..Len(subs) : subs[i] = subs[j] => i = j
          /\ \A u \in had : \E i \in 1..k : i <= Capacity /\ subs[i] = u
          /\ k < Capacity => Cardinality(had) = k
          /\ \A u \in Topics : pc[u] = "done" /\ picked[u] = s => u \in had
      BY <1>1, <1>2, <2>2 DEF LineInv, FirstTime, Answers
    <3>2. /\ k \in Nat /\ Len(subs) - Len(Tail(asked)) = k + 1
          /\ \A i \in 1..Len(Tail(asked)) : Tail(asked)[i] = subs[k + 1 + i]
      <4> HIDE DEF subs, asked, k
      <4>1. /\ Len(subs) - Len(asked) >= 0
            /\ \A i \in 1..Len(asked) : asked[i] = subs[Len(subs) - Len(asked) + i]
        BY <3>1
      <4>2. LET n == Len(subs) - Len(asked) IN
            /\ n \in Nat /\ Len(subs) - Len(Tail(asked)) = n + 1
            /\ \A i \in 1..Len(Tail(asked)) : Tail(asked)[i] = subs[n + 1 + i]
        BY <1>2, <4>1, AnsweredInOrder
      <4> QED
        BY <3>1, <4>2
    <3>3. Answers(s)' = k + 1
      BY <1>2, <3>2 DEF Answers
    <3>4. k + 1 >= Capacity /\ k + 1 >= 0
      BY <1>1, <1>3, <2>2, <3>1, <3>2, TypeFacts
    <3>5. ASSUME NEW u \in had PROVE \E i \in 1..(k + 1) : i <= Capacity /\ subs[i] = u
      <4>1. PICK i \in 1..k : i <= Capacity /\ subs[i] = u
        BY <3>1
      <4>2. i \in 1..(k + 1)
        BY <3>2
      <4> QED
        BY <4>1, <4>2
    <3>6. \A u \in Topics : pc'[u] = "done" /\ picked'[u] = s => u \in node'[s]
      BY <1>2, <3>1 DEF NoneNew
    <3>7. /\ \A i \in 1..Len(calls'[s]) : calls'[s][i] = subscriptions'[s][Answers(s)' + i]
          /\ \A i, j \in 1..Len(subscriptions'[s]) : subscriptions'[s][i] = subscriptions'[s][j] => i = j
      BY <1>2, <3>1, <3>2, <3>3
    <3>8. \A u \in node'[s] : \E i \in 1..Answers(s)' : i <= Capacity /\ subscriptions'[s][i] = u
      BY <1>2, <3>3, <3>5
    <3>9. /\ Answers(s)' >= 0 /\ ~(Answers(s)' < Capacity)
          /\ Cardinality(node'[s]) >= Capacity
      BY <1>1, <1>2, <2>2, <3>2, <3>3, <3>4, TypeFacts
    <3> QED
      BY <3>6, <3>7, <3>8, <3>9 DEF FirstTime
  <2> QED
    BY <2>1, <2>2
<1> QED
  BY <1>4, <1>5, <1>6, <1>7 DEF LineInv

\* Nothing else of the sockets depends on it.
LEMMA TurnedDownElsewhere ==
  ASSUME IInv, NEW s \in Sockets, NEW x \in Sockets, x # s, TurnsDown(s), ws'[x] = ws[x],
         calls' = [calls EXCEPT ![s] = Tail(@)],
         UNCHANGED <<closed, subscriptions, former, node>>
  PROVE  Same(x)
<1>1. calls'[x] = calls[x]
  BY TypeFacts
<1>2. x \in denied' <=> x \in denied
  BY DEF TurnsDown
<1> QED
  BY <1>1, <1>2 DEF Same

LEMMA FullKeeps ==
  ASSUME IInv, MemoryInv, NEW s \in Sockets, NEW t \in Topics, Full(s, t)
  PROVE  MemoryInv'
<1>1. /\ calls[s] # <<>> /\ ws[s] = "open" /\ UNCHANGED <<closed, subscriptions, former, node>>
      /\ calls' = [calls EXCEPT ![s] = Tail(@)] /\ TurnsDown(s)
      /\ pc[t] = "asked" /\ picked[t] = s
  BY DEF Full, MemoryInv, LineInv, Between
<1>2. PICK n \in Sockets :
        /\ ws[n] = "none" /\ ws' = [ws EXCEPT ![n] = "connecting"]
        /\ picked' = [picked EXCEPT ![t] = n] /\ pc' = [pc EXCEPT ![t] = "opening"]
  BY DEF Full
<1>3. /\ pc'[t] = "opening" /\ \A u \in Topics : u # t => pc'[u] = pc[u] /\ picked'[u] = picked[u]
      /\ picked'[t] = n
  BY <1>2, TypeFacts
<1>4. GoesOn /\ \A x \in Sockets : NoneNew(x) /\ OpenersStay(x)
  BY <1>1, <1>3 DEF GoesOn, Before, NoneNew, OpenersStay, Opener
<1>5. n # s /\ \A x \in Sockets : x # n => ws'[x] = ws[x]
  BY <1>1, <1>2, TypeFacts
<1>6. LineInv(s)'
  BY <1>1, <1>4, <1>5, TurnedDown
<1>7. ASSUME NEW x \in Sockets, x # s, x # n PROVE LineInv(x)'
  <2>1. Same(x)
    BY <1>1, <1>5, <1>7, TurnedDownElsewhere
  <2> QED
    BY <1>4, <2>1, TypeFacts, Elsewhere DEF MemoryInv
<1>8. LineInv(n)'
  <2>1. LineInv(n) /\ ws[n] = "none" /\ ws'[n] = "connecting" /\ n \notin closed
    BY <1>2, TypeFacts DEF MemoryInv, LineInv, Between
  <2>2. /\ calls'[n] = calls[n] /\ calls[n] = <<>> /\ node[n] = {}
        /\ former[n] = <<>> /\ subscriptions[n] = <<>>
    BY <1>1, <1>5, <2>1, TypeFacts DEF LineInv, Between
  <2>3. Opener(n, t)'
    BY <1>3 DEF Opener
  <2>4. Between(n)'
    BY <1>1, <2>1, <2>2, <2>3 DEF LineInv, Between
  <2>5. Begun(n)'
    <3>1. Len(subscriptions'[n]) = 0 /\ Len(former'[n]) = 0
      BY <1>1, <2>2
    <3> QED
      BY <3>1 DEF Begun
  <2>6. FirstTime(n)'
    BY <2>1 DEF FirstTime
  <2>7. n \in denied' <=> n \in denied
    BY <1>1, <1>5 DEF TurnsDown
  <2>8. ASSUME n \notin denied, NEW u \in Topics, pc[u] = "done", picked[u] = n PROVE FALSE
    <3>1. Within(u, <<>>, Capacity - Cardinality(node[n]))
      BY <2>1, <2>2, <2>8 DEF LineInv, Keeps
    <3> QED
      BY <3>1 DEF Within
  <2>9. Keeps(n)'
    BY <1>4, <2>7, <2>8 DEF Keeps, NoneNew
  <2> QED
    BY <2>4, <2>5, <2>6, <2>9 DEF LineInv
<1> QED
  BY <1>6, <1>7, <1>8 DEF MemoryInv

LEMMA DeniedKeeps ==
  ASSUME IInv, MemoryInv, NEW s \in Sockets, NEW t \in Topics, Denied(s, t)
  PROVE  MemoryInv'
<1>1. /\ calls[s] # <<>> /\ UNCHANGED <<picked, ws, closed, subscriptions, former, node>>
      /\ calls' = [calls EXCEPT ![s] = Tail(@)] /\ TurnsDown(s)
  BY DEF Denied
<1>2. /\ GoesOn
      /\ \A u \in Topics : \/ pc'[u] = pc[u] \/ (pc[u] = "waiting" /\ pc'[u] = "turn")
                           \/ pc[u] \in {"asked", "retry"} /\ pc'[u] \in {"without", "failed"}
  <2>1. ASSUME pc[t] \in {"asked", "retry"}, NEW end \in {"without", "failed"}, Finish(t, end)
        PROVE  /\ GoesOn /\ pc'[t] = end
               /\ \A u \in Topics : u # t => pc'[u] = pc[u] \/ (pc[u] = "waiting" /\ pc'[u] = "turn")
    <3>1. pc[t] \in Asking
      BY <2>1 DEF Asking
    <3> QED
      BY <2>1, <3>1, Ends
  <2>2. CASE UNCHANGED pc
    BY <2>2 DEF GoesOn
  <2> QED
    BY <2>1, <2>2 DEF Denied
<1>3. \A x \in Sockets : NoneNew(x) /\ OpenersStay(x)
  BY <1>1, <1>2 DEF NoneNew, OpenersStay, Opener
<1>4. LineInv(s)'
  BY <1>1, <1>2, <1>3, TurnedDown
<1>5. ASSUME NEW x \in Sockets, x # s PROVE LineInv(x)'
  <2>1. Same(x)
    BY <1>1, <1>5, TurnedDownElsewhere
  <2> QED
    BY <1>2, <1>3, <2>1, TypeFacts, Elsewhere DEF MemoryInv
<1> QED
  BY <1>4, <1>5 DEF MemoryInv

LEMMA JoinedLists ==
  ASSUME NEW T, NEW a \in Seq(T), NEW b \in Seq(T)
  PROVE  /\ a \o b \in Seq(T) /\ Len(a \o b) = Len(a) + Len(b)
         /\ \A i \in 1..Len(a) : i \in 1..Len(a \o b) /\ (a \o b)[i] = a[i]
         /\ \A i \in 1..Len(a \o b) :
              \/ i \in 1..Len(a) /\ (a \o b)[i] = a[i]
              \/ \E j \in 1..Len(b) : (a \o b)[i] = b[j]
<1>1. /\ a \o b \in Seq(T) /\ Len(a \o b) = Len(a) + Len(b)
      /\ \A i \in 1..Len(a) : i \in 1..Len(a \o b) /\ (a \o b)[i] = a[i]
  OBVIOUS
<1>2. ASSUME NEW i \in 1..Len(a \o b), i \notin 1..Len(a)
      PROVE  \E j \in 1..Len(b) : (a \o b)[i] = b[j]
  <2>1. i - Len(a) \in 1..Len(b) /\ (a \o b)[i] = b[i - Len(a)]
    BY <1>1, <1>2
  <2> QED
    BY <2>1
<1> QED
  BY <1>1, <1>2

LEMMA OpenedKeeps ==
  ASSUME IInv, MemoryInv, NEW s \in Sockets, Opened(s)
  PROVE  MemoryInv'
<1> DEFINE openers == {t \in Topics : Opener(s, t)}
           opened == SetToSeq(openers)
           asks == former[s] \o opened
<1>1. opened \in Seq(openers) /\ opened \in Seq(Topics) /\ Len(opened) <= 1
  <2>1. \A x, y \in openers : x = y
    BY DEF IInv, TurnInv, AskingInv, Opener, Asking
  <2> QED
    BY <2>1, ListOfOne
<1>2. /\ ws[s] = "connecting" /\ ws' = [ws EXCEPT ![s] = "open"]
      /\ calls' = [calls EXCEPT ![s] = calls[s] \o asks]
      /\ subscriptions' = [subscriptions EXCEPT ![s] = subscriptions[s] \o asks]
      /\ former' = [former EXCEPT ![s] = <<>>]
      /\ pc' = [t \in Topics |-> IF Opener(s, t) THEN "retry" ELSE pc[t]]
      /\ UNCHANGED <<picked, closed, node, denied>>
  BY DEF Opened
<1> HIDE DEF opened
<1>3. GoesOn /\ \A x \in Sockets : NoneNew(x)
  BY <1>2 DEF GoesOn, Before, NoneNew
<1>4. ASSUME NEW x \in Sockets, x # s PROVE LineInv(x)'
  <2>1. Same(x) /\ OpenersStay(x)
    BY <1>2, <1>4, TypeFacts DEF Same, OpenersStay, Opener
  <2> QED
    BY <1>3, <2>1, <1>4, TypeFacts, Elsewhere DEF MemoryInv
<1>5. LineInv(s)'
  <2> DEFINE subs == subscriptions[s]
  <2>1. /\ LineInv(s) /\ ws'[s] = "open" /\ calls[s] = <<>> /\ node[s] = {} /\ node'[s] = {}
        /\ former'[s] = <<>> /\ (s \in closed' <=> s \in closed) /\ picked' = picked
        /\ denied' = denied
        /\ subs \in Seq(Topics) /\ former[s] \in Seq(Topics)
    BY <1>2, TypeFacts DEF MemoryInv, LineInv, Between
  <2>2. /\ asks \in Seq(Topics) /\ subs \o asks \in Seq(Topics)
        /\ \A i \in 1..Len(asks) :
             \/ i \in 1..Len(former[s]) /\ asks[i] = former[s][i]
             \/ \E j \in 1..Len(opened) : asks[i] = opened[j]
        /\ \A i \in 1..Len(subs \o asks) :
             \/ i \in 1..Len(subs) /\ (subs \o asks)[i] = subs[i]
             \/ \E j \in 1..Len(asks) : (subs \o asks)[i] = asks[j]
    <3>1. /\ asks \in Seq(Topics)
          /\ \A i \in 1..Len(asks) :
               \/ i \in 1..Len(former[s]) /\ asks[i] = former[s][i]
               \/ \E j \in 1..Len(opened) : asks[i] = opened[j]
      BY <1>1, <2>1, JoinedLists
    <3> HIDE DEF asks
    <3> QED
      BY <2>1, <3>1, JoinedLists
  <2>3. calls'[s] = asks /\ subscriptions'[s] = subs \o asks
    <3>1. <<>> \o asks = asks
      BY <2>2, EmptySeq, ConcatEmptySeq
    <3> HIDE DEF asks
    <3> QED
      BY <1>2, <2>1, <3>1, TypeFacts
  <2>4. Between(s)'
    BY <2>1, FS_EmptySet DEF Between
  <2>5. Begun(s)'
    <3>1. ASSUME NEW j \in 1..Len(opened) PROVE opened[j] \in Topics /\ pc'[opened[j]] = "retry"
      <4>1. opened[j] \in openers
        BY <1>1
      <4> QED
        BY <1>2, <4>1
    <3>2. ASSUME NEW i \in 1..Len(asks) PROVE pc'[asks[i]] \notin Before
      <4>1. \A j \in 1..Len(former[s]) : former[s][j] \in Topics /\ pc'[former[s][j]] \notin Before
        BY <1>3, <2>1 DEF LineInv, Begun, GoesOn
      <4> HIDE DEF asks
      <4> QED
        BY <2>2, <3>1, <4>1 DEF Before
    <3> HIDE DEF asks
    <3>3. \A j \in 1..Len(subs) : subs[j] \in Topics /\ pc'[subs[j]] \notin Before
      BY <1>3, <2>1 DEF LineInv, Begun, GoesOn
    <3>4. \A i \in 1..Len(subs \o asks) : pc'[(subs \o asks)[i]] \notin Before
      BY <2>2, <3>2, <3>3
    <3>5. Len(former'[s]) = 0
      BY <2>1
    <3> QED
      BY <2>3, <3>4, <3>5 DEF Begun
  <2>6. ASSUME s \notin denied, NEW u \in Topics, pc'[u] = "done", picked'[u] = s
        PROVE  Within(u, former[s], Capacity)
    <3>1. pc[u] = "done" /\ picked[u] = s
      BY <1>3, <2>6 DEF NoneNew
    <3>2. ~Within(u, <<>>, Capacity - Cardinality(node[s]))
      BY DEF Within
    <3> QED
      BY <1>2, <2>1, <2>6, <3>1, <3>2 DEF LineInv, Keeps
  <2>7. Keeps(s)'
    <3>1. ASSUME s \notin denied', NEW u \in Topics, pc'[u] = "done", picked'[u] = s
          PROVE  Within(u, calls'[s], Capacity - Cardinality(node'[s]))
      <4>1. PICK i \in 1..Len(former[s]) : former[s][i] = u /\ i <= Capacity
        BY <2>1, <2>6, <3>1 DEF Within
      <4>2. i \in 1..Len(asks) /\ asks[i] = u
        BY <1>1, <2>1, <4>1, JoinedLists
      <4>3. Capacity - Cardinality(node'[s]) = Capacity
        BY <2>1, FS_EmptySet, TypeFacts
      <4> QED
        BY <2>3, <4>1, <4>2, <4>3 DEF Within
    <3> QED
      BY <3>1 DEF Keeps
  <2>8. FirstTime(s)'
    <3>1. CASE s \in closed \cup denied
      BY <2>1, <3>1 DEF FirstTime
    <3>2. CASE s \notin closed \cup denied
      <4>1. former[s] = <<>> /\ subs = <<>>
        BY <1>2, <2>1, <3>2 DEF LineInv, Between
      <4>2. asks = opened
        BY <1>1, <4>1, ConcatEmptySeq
      <4>3. calls'[s] = opened /\ subscriptions'[s] = opened
        BY <1>1, <2>3, <4>1, <4>2, ConcatEmptySeq
      <4>4. Len(opened) \in Nat /\ Answers(s)' = 0
        BY <1>1, <4>3 DEF Answers
      <4>5. \A i, j \in 1..Len(opened) : i = j
        BY <1>1, <4>4
      <4>6. Cardinality(node'[s]) = 0 /\ Capacity > 0
        BY <2>1, FS_EmptySet, TypeFacts
      <4>7. ASSUME NEW u \in Topics, pc'[u] = "done", picked'[u] = s PROVE FALSE
        BY <2>6, <3>2, <4>1, <4>7 DEF Within
      <4>8. \A i \in 1..Len(calls'[s]) : calls'[s][i] = subscriptions'[s][Answers(s)' + i]
        BY <4>3, <4>4
      <4> QED
        BY <2>1, <4>3, <4>4, <4>5, <4>6, <4>7, <4>8 DEF FirstTime
    <3> QED
      BY <3>1, <3>2
  <2> QED
    BY <2>4, <2>5, <2>7, <2>8 DEF LineInv
<1> QED
  BY <1>4, <1>5 DEF MemoryInv

LEMMA RefusedKeeps ==
  ASSUME IInv, MemoryInv, NEW s \in Sockets, Refused(s)
  PROVE  MemoryInv'
<1>1. /\ ws[s] = "connecting" /\ ws' = [ws EXCEPT ![s] = "closed"] /\ closed' = closed \cup {s}
      /\ former' = [former EXCEPT ![s] = <<>>]
      /\ UNCHANGED <<picked, subscriptions, calls, node, denied>>
  BY DEF Refused
<1>2. /\ GoesOn
      /\ \A u \in Topics : pc'[u] = pc[u] \/ (Opener(s, u) /\ pc'[u] = "failed")
                           \/ (pc[u] = "waiting" /\ pc'[u] = "turn")
  <2>1. CASE \E t \in Topics : Opener(s, t) /\ Finish(t, "failed")
    <3>1. PICK t \in Topics : Opener(s, t) /\ Finish(t, "failed")
      BY <2>1
    <3>2. pc[t] \in Asking
      BY <3>1 DEF Opener, Asking
    <3> QED
      BY <3>1, <3>2, Ends
  <2>2. CASE UNCHANGED pc
    BY <2>2 DEF GoesOn
  <2> QED
    BY <2>1, <2>2 DEF Refused
<1>3. ASSUME NEW x \in Sockets, x # s PROVE LineInv(x)'
  <2>1. Same(x)
    BY <1>1, <1>3, TypeFacts DEF Same
  <2>2. NoneNew(x) /\ OpenersStay(x)
    BY <1>1, <1>2, <1>3 DEF NoneNew, OpenersStay, Opener
  <2> QED
    BY <1>2, <2>1, <2>2, TypeFacts, Elsewhere DEF MemoryInv
<1>4. LineInv(s)'
  <2>1. /\ LineInv(s) /\ ws'[s] = "closed" /\ former'[s] = <<>>
        /\ \A i \in 1..Len(subscriptions[s]) : subscriptions[s][i] \in Topics
    BY <1>1, TypeFacts DEF MemoryInv
  <2>2. Between(s)'
    BY <1>1, <2>1 DEF LineInv, Between
  <2>3. Begun(s)'
    <3>1. Len(former'[s]) = 0
      BY <2>1
    <3> QED
      BY <1>1, <1>2, <2>1, <3>1 DEF LineInv, Begun, GoesOn
  <2>4. FirstTime(s)' /\ Keeps(s)'
    BY <2>1 DEF FirstTime, Keeps
  <2> QED
    BY <2>2, <2>3, <2>4 DEF LineInv
<1> QED
  BY <1>3, <1>4 DEF MemoryInv

LEMMA LostKeeps ==
  ASSUME IInv, MemoryInv, NEW s \in Sockets, Lost(s)
  PROVE  MemoryInv'
<1>1. /\ ws[s] = "open" /\ ws' = [ws EXCEPT ![s] = IF s \in closed THEN "closed" ELSE "connecting"]
      /\ closed' = closed \cup {s} /\ UNCHANGED <<picked, denied>>
      /\ former' = [former EXCEPT ![s] = IF s \in closed THEN <<>> ELSE subscriptions[s]]
      /\ subscriptions' = [subscriptions EXCEPT ![s] = IF s \in closed THEN subscriptions[s] ELSE <<>>]
      /\ calls' = [calls EXCEPT ![s] = <<>>] /\ node' = [node EXCEPT ![s] = {}]
      /\ pc' = [t \in Topics |-> IF Awaits(t, s) THEN "hung" ELSE pc[t]]
  BY DEF Lost, Unanswered
<1>2. /\ GoesOn /\ \A x \in Sockets : NoneNew(x) /\ OpenersStay(x)
  BY <1>1 DEF GoesOn, Before, NoneNew, OpenersStay, Opener, Awaits
<1>3. ASSUME NEW x \in Sockets, x # s PROVE LineInv(x)'
  <2>1. Same(x)
    BY <1>1, <1>3, TypeFacts DEF Same
  <2> QED
    BY <1>2, <2>1, <1>3, TypeFacts, Elsewhere DEF MemoryInv
<1>4. LineInv(s)'
  <2> DEFINE subs == subscriptions[s]
  <2>1. /\ LineInv(s) /\ calls'[s] = <<>> /\ node'[s] = {} /\ s \in closed'
        /\ ws'[s] = IF s \in closed THEN "closed" ELSE "connecting"
        /\ former'[s] = IF s \in closed THEN <<>> ELSE subs
        /\ subscriptions'[s] = IF s \in closed THEN subs ELSE <<>>
        /\ \A i \in 1..Len(subs) : subs[i] \in Topics
    BY <1>1, TypeFacts DEF MemoryInv
  <2>2. Between(s)'
    BY <2>1, FS_EmptySet DEF Between
  <2>3. Begun(s)'
    <3>1. \A i \in 1..Len(subs) : pc'[subs[i]] \notin Before
      BY <1>2, <2>1 DEF LineInv, Begun, GoesOn
    <3>2. Len(<<>>) = 0
      OBVIOUS
    <3> QED
      BY <2>1, <3>1, <3>2 DEF Begun
  <2>4. FirstTime(s)'
    BY <2>1 DEF FirstTime
  <2>5. Keeps(s)'
    <3>1. ASSUME NEW u \in Topics, pc'[u] = "done", picked'[u] = s, s \notin closed \cup denied
          PROVE  Within(u, subs, Capacity)
      <4>1. pc[u] = "done" /\ picked[u] = s
        BY <1>2, <3>1 DEF NoneNew
      <4>2. Answers(s) >= 0 /\ \E i \in 1..Answers(s) : i <= Capacity /\ subs[i] = u
        BY <1>1, <2>1, <3>1, <4>1 DEF LineInv, FirstTime
      <4>3. PICK i \in 1..Answers(s) : i <= Capacity /\ subs[i] = u
        BY <4>2
      <4>4. Len(subs) \in Nat /\ Len(calls[s]) \in Nat /\ Answers(s) = Len(subs) - Len(calls[s])
        BY TypeFacts DEF Answers
      <4>5. i \in 1..Len(subs)
        BY <4>3, <4>4
      <4> QED
        BY <4>3, <4>5 DEF Within
    <3> QED
      BY <1>1, <2>1, <3>1 DEF Keeps
  <2> QED
    BY <2>2, <2>3, <2>4, <2>5 DEF LineInv
<1> QED
  BY <1>3, <1>4 DEF MemoryInv

LEMMA DestroyKeeps ==
  ASSUME IInv, MemoryInv, Destroy
  PROVE  MemoryInv'
<1> DEFINE mine == (filled \cup {kc_socket}) \ closed
<1>1. /\ ws' = [s \in Sockets |-> IF s \in mine THEN "closed" ELSE ws[s]]
      /\ closed' = closed \cup (mine \cap Sockets)
      /\ calls' = [s \in Sockets |-> IF s \in mine THEN <<>> ELSE calls[s]]
      /\ node' = [s \in Sockets |-> IF s \in mine THEN {} ELSE node[s]]
      /\ pc' = [t \in Topics |-> IF picked[t] \in mine /\ pc[t] \in {"asked", "retry", "opening"}
                                 THEN "hung" ELSE pc[t]]
      /\ UNCHANGED <<picked, subscriptions, former, denied>>
  BY DEF Destroy
<1>2. /\ GoesOn /\ \A x \in Sockets : NoneNew(x) /\ (x \notin mine => OpenersStay(x))
  BY <1>1 DEF GoesOn, Before, NoneNew, OpenersStay, Opener
<1>3. mine \cap closed = {}
  OBVIOUS
<1> HIDE DEF mine
<1>4. ASSUME NEW x \in Sockets, x \notin mine PROVE LineInv(x)'
  <2>1. Same(x)
    BY <1>1, <1>4 DEF Same
  <2> QED
    BY <1>2, <1>4, <2>1, TypeFacts, Elsewhere DEF MemoryInv
<1>5. ASSUME NEW x \in Sockets, x \in mine PROVE LineInv(x)'
  <2>1. /\ LineInv(x) /\ ws'[x] = "closed" /\ calls'[x] = <<>> /\ node'[x] = {} /\ former[x] = <<>>
        /\ \A i \in 1..Len(subscriptions[x]) : subscriptions[x][i] \in Topics
    BY <1>1, <1>3, <1>5, TypeFacts DEF MemoryInv, LineInv, Between
  <2>2. Between(x)'
    BY <1>1, <2>1, FS_EmptySet DEF Between
  <2>3. Begun(x)'
    <3>1. Len(former[x]) = 0
      BY <2>1
    <3> QED
      BY <1>1, <1>2, <2>1, <3>1 DEF LineInv, Begun, GoesOn
  <2>4. FirstTime(x)' /\ Keeps(x)'
    BY <2>1 DEF FirstTime, Keeps
  <2> QED
    BY <2>2, <2>3, <2>4, <2>1 DEF LineInv
<1> QED
  BY <1>4, <1>5 DEF MemoryInv

LEMMA MemoryInit ==
  ASSUME Init
  PROVE  MemoryInv
<1>1. ASSUME NEW s \in Sockets PROVE LineInv(s)
  <2>1. /\ subscriptions[s] = <<>> /\ former[s] = <<>> /\ calls[s] = <<>> /\ node[s] = {}
        /\ closed = {} /\ ws[s] \in {"open", "none"} /\ \A t \in Topics : pc[t] = "idle"
    BY <1>1 DEF Init
  <2>2. Between(s)
    BY <2>1, FS_EmptySet DEF Between
  <2>3. Len(<<>>) = 0 /\ Answers(s) = 0 /\ Cardinality({}) = 0 /\ Capacity > 0
    BY <2>1, FS_EmptySet, FeedSocketsAssumption DEF Answers
  <2>4. Begun(s)
    BY <2>1, <2>3 DEF Begun
  <2>5. FirstTime(s)
    BY <2>1, <2>3 DEF FirstTime
  <2>6. Keeps(s)
    BY <2>1 DEF Keeps
  <2> QED
    BY <2>2, <2>4, <2>5, <2>6 DEF LineInv
<1> QED
  BY <1>1 DEF MemoryInv

LEMMA MemoryStep ==
  ASSUME IInv, MemoryInv, [Next]_vars
  PROVE  MemoryInv'
<1>1. CASE UNCHANGED vars
  <2>1. ASSUME NEW s \in Sockets PROVE LineInv(s)'
    <3>1. Same(s) /\ GoesOn /\ NoneNew(s) /\ OpenersStay(s)
      BY <1>1 DEF vars, sockets, callers, Same, GoesOn, NoneNew, OpenersStay, Opener
    <3> QED
      BY <3>1, TypeFacts, Elsewhere DEF MemoryInv
  <2> QED
    BY <2>1 DEF MemoryInv
<1> QED
  BY <1>1, CallKeeps, SubscribeKeeps, ConfirmedKeeps, FullKeeps, DeniedKeeps, OpenedKeeps,
     RefusedKeeps, LostKeeps, DestroyKeeps DEF Next, Step, Answer

\* What a socket has subscribed to when its connection is lost is restored, and nothing
\* the node had turned down as it was full in its stead, for any number of topics and
\* sockets (restart(), onopen).
THEOREM RememberedAlways == Spec => []Remembered
<1>1. Init => MemoryInv
  BY MemoryInit
<1>2. IInv /\ MemoryInv /\ [Next]_vars => MemoryInv'
  BY MemoryStep
<1>3. MemoryInv => Remembered
  BY DEF MemoryInv, LineInv, Keeps, Remembered
<1> QED
  BY <1>1, <1>2, <1>3, Inductive, PTL DEF Spec
-----------------------------------------------------------------------------
(* Sums.  FoldFunctionOnSet() chooses the element it adds next; that the order
   does not matter is shown by induction on the size of the set. *)

\* Induction over the numbers, stated of a set instead of a predicate.
LEMMA SetInduction ==
  ASSUME NEW S, 0 \in S, \A n \in Nat : n \in S => n + 1 \in S
  PROVE  \A n \in Nat : n \in S
<1>1. SUFFICES ASSUME Nat \ S # {} PROVE FALSE
  OBVIOUS
<1>2. PICK m \in Nat \ S : \A k \in Nat \ S : <<k, m>> \notin OpToRel(<, Nat)
  BY <1>1, WFMin, NatLessThanWellFounded, Zenon
<1>3. m - 1 \in Nat /\ m - 1 < m /\ (m - 1) + 1 = m
  BY SMT
<1>4. <<m - 1, m>> \in OpToRel(<, Nat)
  BY <1>3, Zenon DEF OpToRel
<1> QED
  BY <1>2, <1>3, <1>4

\* The sum of f over the set S.
Total(f, S) == FoldFunctionOnSet(+, 0, f, S)

\* The element that the fold takes out of a set.
Chosen(s) == CHOOSE x \in s : TRUE

\* g has the sum of f over each set of the family D.
IsSum(f, D, g) ==
  g = [s \in D |-> IF s = {} THEN 0 ELSE f[Chosen(s)] + g[s \ {Chosen(s)}]]

\* g has the sum of f over each subset of S.
Sums(f, S, g) == IsSum(f, SUBSET S, g)

LEMMA TotalIs ==
  ASSUME NEW f, NEW S
  PROVE  Total(f, S) = (CHOOSE g : Sums(f, S, g))[S]
BY Zenon DEF Total, Sums, IsSum, Chosen, FoldFunctionOnSet, MapThenFoldSet

LEMMA ChosenIn ==
  ASSUME NEW s, s # {}
  PROVE  Chosen(s) \in s
BY DEF Chosen

\* A finite set less one element.
LEMMA OneOut ==
  ASSUME NEW s, IsFiniteSet(s), NEW x \in s
  PROVE  /\ IsFiniteSet(s \ {x}) /\ Cardinality(s \ {x}) = Cardinality(s) - 1
         /\ Cardinality(s) \in Nat \ {0} /\ Cardinality(s \ {x}) \in Nat
<1>1. /\ IsFiniteSet(s \ {x}) /\ Cardinality(s \ {x}) = Cardinality(s) - 1
      /\ Cardinality(s) \in Nat /\ Cardinality(s \ {x}) \in Nat
  BY FS_RemoveElement, FS_CardinalityType
<1> QED
  BY <1>1

\* The recursion of the fold defines a function on the subsets of a finite set.
LEMMA SumExists ==
  ASSUME NEW f, NEW S, IsFiniteSet(S)
  PROVE  \E g : Sums(f, S, g)
<1> DEFINE D(n) == {s \in SUBSET S : Cardinality(s) <= n}
           E(s, g) == IF s = {} THEN 0 ELSE f[Chosen(s)] + g[s \ {Chosen(s)}]
           N == {n \in Nat : \E g : IsSum(f, D(n), g)}
<1>0. \A s \in SUBSET S : /\ IsFiniteSet(s) /\ Cardinality(s) \in Nat
                          /\ Cardinality(s) <= Cardinality(S)
  BY FS_Subset, FS_CardinalityType
<1>1. ASSUME NEW n \in Nat, NEW s \in D(n), s # {}, NEW k \in Nat, n <= k + 1
      PROVE  s \ {Chosen(s)} \in D(k)
  <2>1. Chosen(s) \in s /\ IsFiniteSet(s) /\ Cardinality(s) <= n
    BY <1>0, <1>1, ChosenIn
  <2>2. Cardinality(s \ {Chosen(s)}) = Cardinality(s) - 1 /\ Cardinality(s) \in Nat
    BY <2>1, OneOut
  <2>3. Cardinality(s \ {Chosen(s)}) <= k
    BY <1>1, <2>1, <2>2
  <2> QED
    BY <1>1, <2>3
<1>2. 0 \in N
  <2> DEFINE g == [s \in D(0) |-> 0]
  <2>1. \A s \in D(0) : s = {}
    <3>1. \A s \in D(0) : IsFiniteSet(s) /\ Cardinality(s) = 0
      BY <1>0
    <3> QED
      BY <3>1, FS_EmptySet
  <2>2. g = [s \in D(0) |-> E(s, g)]
    BY <2>1
  <2>3. IsSum(f, D(0), g)
    BY <2>2 DEF IsSum
  <2> QED
    BY <2>3
<1>3. ASSUME NEW n \in Nat, n \in N PROVE n + 1 \in N
  <2>1. PICK g : IsSum(f, D(n), g)
    BY <1>3
  <2>2. g = [s \in D(n) |-> E(s, g)]
    BY <2>1 DEF IsSum
  <2> DEFINE h == [s \in D(n + 1) |-> E(s, g)]
  <2>3. \A s \in D(n) : s \in D(n + 1) /\ h[s] = g[s]
    <3>1. \A s \in D(n) : s \in D(n + 1)
      BY <1>0
    <3>2. \A s \in D(n) : g[s] = E(s, g)
      BY <2>2
    <3> HIDE DEF D, E
    <3> QED
      BY <3>1, <3>2
  <2>4. \A s \in D(n + 1) : E(s, g) = E(s, h)
    <3>1. SUFFICES ASSUME NEW s \in D(n + 1), s # {} PROVE g[s \ {Chosen(s)}] = h[s \ {Chosen(s)}]
      BY Zenon
    <3>2. s \ {Chosen(s)} \in D(n)
      <4> HIDE DEF D
      <4> QED
        BY <1>1, <3>1
    <3> HIDE DEF D, E, h
    <3> QED
      BY <2>3, <3>2
  <2>5. h = [s \in D(n + 1) |-> E(s, h)]
    <3> DEFINE h2 == [s \in D(n + 1) |-> E(s, h)]
    <3>1. h = h2
      <4> HIDE DEF D, E
      <4> QED
        BY <2>4
    <3> QED
      BY <3>1, Zenon
  <2>6. IsSum(f, D(n + 1), h)
    BY <2>5, Zenon DEF IsSum
  <2>7. \E x : IsSum(f, D(n + 1), x)
    <3> HIDE DEF D, h
    <3> QED
      BY <2>6
  <2> QED
    BY <2>7
<1>4. Cardinality(S) \in N
  <2> HIDE DEF N
  <2>1. \A n \in Nat : n \in N
    BY <1>2, <1>3, SetInduction
  <2> QED
    BY <2>1, FS_CardinalityType
<1>5. D(Cardinality(S)) = SUBSET S
  BY <1>0
<1> QED
  BY <1>4, <1>5, Zenon DEF Sums

\* Two such functions agree.
LEMMA SumUnique ==
  ASSUME NEW f, NEW S, NEW T, NEW g, NEW h, IsFiniteSet(S), T \subseteq S,
         Sums(f, S, g), Sums(f, T, h)
  PROVE  g[T] = h[T]
<1> DEFINE N == {n \in Nat : \A s \in SUBSET T : Cardinality(s) = n => g[s] = h[s]}
<1>0. \A s \in SUBSET T : IsFiniteSet(s) /\ Cardinality(s) \in Nat /\ s \in SUBSET S
  BY FS_Subset, FS_CardinalityType
<1>1. /\ \A s \in SUBSET S : g[s] = IF s = {} THEN 0 ELSE f[Chosen(s)] + g[s \ {Chosen(s)}]
      /\ \A s \in SUBSET T : h[s] = IF s = {} THEN 0 ELSE f[Chosen(s)] + h[s \ {Chosen(s)}]
  BY DEF Sums, IsSum
<1>2. 0 \in N
  BY <1>0, <1>1, FS_EmptySet
<1>3. ASSUME NEW n \in Nat, n \in N PROVE n + 1 \in N
  <2> SUFFICES ASSUME NEW s \in SUBSET T, Cardinality(s) = n + 1 PROVE g[s] = h[s]
    OBVIOUS
  <2>1. s # {}
    BY FS_EmptySet
  <2>2. Chosen(s) \in s /\ s \ {Chosen(s)} \in SUBSET T
    BY <2>1, ChosenIn
  <2>3. Cardinality(s \ {Chosen(s)}) = n
    BY <1>0, <2>2, OneOut
  <2>4. g[s \ {Chosen(s)}] = h[s \ {Chosen(s)}]
    BY <1>3, <2>2, <2>3
  <2> QED
    BY <1>0, <1>1, <2>1, <2>4
<1>4. \A n \in Nat : n \in N
  <2> HIDE DEF N
  <2> QED
    BY <1>2, <1>3, SetInduction
<1> QED
  BY <1>0, <1>4

\* The sum over a set is that of the element chosen and of the rest.
LEMMA TotalStep ==
  ASSUME NEW f, NEW S, IsFiniteSet(S)
  PROVE  Total(f, S) = IF S = {} THEN 0 ELSE f[Chosen(S)] + Total(f, S \ {Chosen(S)})
<1>1. PICK T : T = S \ {Chosen(S)}
  OBVIOUS
<1>2. IsFiniteSet(T) /\ T \subseteq S
  BY <1>1, FS_Subset
<1>3. PICK g : Sums(f, S, g) /\ Total(f, S) = g[S]
  BY SumExists, TotalIs, Zenon
<1>4. PICK h : Sums(f, T, h) /\ Total(f, T) = h[T]
  BY <1>2, SumExists, TotalIs, Zenon
<1>5. g[T] = h[T]
  BY <1>2, <1>3, <1>4, SumUnique
<1>6. g[S] = IF S = {} THEN 0 ELSE f[Chosen(S)] + g[T]
  BY <1>1, <1>3 DEF Sums, IsSum
<1> QED
  BY <1>1, <1>3, <1>4, <1>5, <1>6

LEMMA TotalEmpty ==
  ASSUME NEW f
  PROVE  Total(f, {}) = 0
BY TotalStep, FS_EmptySet, Zenon

\* Numbers add up to a number.
LEMMA TotalNat ==
  ASSUME NEW f, NEW S, IsFiniteSet(S), \A x \in S : f[x] \in Nat
  PROVE  Total(f, S) \in Nat
<1> DEFINE N == {n \in Nat : \A T \in SUBSET S : Cardinality(T) = n => Total(f, T) \in Nat}
<1>0. \A T \in SUBSET S : IsFiniteSet(T) /\ Cardinality(T) \in Nat
  BY FS_Subset, FS_CardinalityType
<1>1. 0 \in N
  BY <1>0, TotalEmpty, FS_EmptySet
<1>2. ASSUME NEW n \in Nat, n \in N PROVE n + 1 \in N
  <2> SUFFICES ASSUME NEW T \in SUBSET S, Cardinality(T) = n + 1 PROVE Total(f, T) \in Nat
    OBVIOUS
  <2>1. T # {}
    BY FS_EmptySet
  <2>2. Chosen(T) \in T
    BY <2>1, ChosenIn
  <2>3. T \ {Chosen(T)} \in SUBSET S /\ Cardinality(T \ {Chosen(T)}) = n
    BY <1>0, <2>2, OneOut
  <2>4. Total(f, T \ {Chosen(T)}) \in Nat /\ f[Chosen(T)] \in Nat
    BY <1>2, <2>2, <2>3
  <2> QED
    BY <1>0, <2>1, <2>4, TotalStep
<1>3. \A n \in Nat : n \in N
  <2> HIDE DEF N
  <2> QED
    BY <1>1, <1>2, SetInduction
<1> QED
  BY <1>0, <1>3

\* Any element can be taken out first.
LEMMA TotalRemove ==
  ASSUME NEW f, NEW S, IsFiniteSet(S), \A x \in S : f[x] \in Nat
  PROVE  \A x \in S : Total(f, S) = f[x] + Total(f, S \ {x})
<1> DEFINE P(T) == \A x \in T : Total(f, T) = f[x] + Total(f, T \ {x})
           N == {n \in Nat : \A T \in SUBSET S : Cardinality(T) = n => P(T)}
<1>0. \A T \in SUBSET S : IsFiniteSet(T) /\ Cardinality(T) \in Nat
  BY FS_Subset, FS_CardinalityType
<1>1. 0 \in N
  BY <1>0, FS_EmptySet
<1>2. ASSUME NEW n \in Nat, n \in N PROVE n + 1 \in N
  <2> SUFFICES ASSUME NEW T \in SUBSET S, Cardinality(T) = n + 1, NEW x \in T
               PROVE  Total(f, T) = f[x] + Total(f, T \ {x})
    OBVIOUS
  <2> DEFINE c == Chosen(T)
             r == Total(f, (T \ {x}) \ {c})
  <2>1. T # {}
    BY FS_EmptySet
  <2>2. c \in T
    BY <2>1, ChosenIn
  <2>3. Total(f, T) = f[c] + Total(f, T \ {c})
    BY <1>0, <2>1, TotalStep
  <2> HIDE DEF c, P
  <2>4. P(T \ {x}) /\ P(T \ {c})
    <3>1. \A y \in T : T \ {y} \in SUBSET S /\ Cardinality(T \ {y}) = n
      BY <1>0, OneOut
    <3> QED
      BY <1>2, <2>2, <3>1
  <2>5. CASE x = c
    BY <2>3, <2>5
  <2>6. CASE x # c
    <3>1. x \in T \ {c} /\ c \in T \ {x} /\ (T \ {c}) \ {x} = (T \ {x}) \ {c}
      BY <2>2, <2>6
    <3>2. Total(f, T \ {c}) = f[x] + r /\ Total(f, T \ {x}) = f[c] + r
      BY <2>4, <3>1 DEF P
    <3>3. r \in Nat
      <4> DEFINE U == (T \ {x}) \ {c}
      <4>1. IsFiniteSet(U) /\ \A y \in U : f[y] \in Nat
        BY <1>0
      <4> QED
        BY <4>1, TotalNat
    <3>4. f[x] \in Nat /\ f[c] \in Nat
      BY <2>2
    <3> QED
      BY <2>3, <3>2, <3>3, <3>4
  <2> QED
    BY <2>5, <2>6
<1>3. \A n \in Nat : n \in N
  <2> HIDE DEF N
  <2> QED
    BY <1>1, <1>2, SetInduction
<1> QED
  BY <1>0, <1>3
-----------------------------------------------------------------------------
(* Sums by age. *)

\* The sum of f over the ages below n.
Below(f, n) == Total(f, 0..n - 1)

LEMMA BelowStep ==
  ASSUME NEW f, NEW n \in Nat, \A a \in 0..n : f[a] \in Nat
  PROVE  Below(f, n) \in Nat /\ Below(f, n + 1) = f[n] + Below(f, n)
<1>1. /\ 0..(n + 1) - 1 = 0..n /\ (0..n) \ {n} = 0..n - 1 /\ n \in 0..n
      /\ \A a \in 0..n - 1 : a \in 0..n
  OBVIOUS
<1>2. IsFiniteSet(0..n) /\ IsFiniteSet(0..n - 1)
  BY FS_Interval
<1>3. Total(f, 0..n) = f[n] + Total(f, (0..n) \ {n})
  BY <1>1, <1>2, TotalRemove
<1>4. Total(f, 0..n - 1) \in Nat
  BY <1>1, <1>2, TotalNat
<1> QED
  BY <1>1, <1>3, <1>4 DEF Below

LEMMA BelowNone ==
  ASSUME NEW f
  PROVE  Below(f, 0) = 0
<1>1. 0..0 - 1 = {}
  OBVIOUS
<1> QED
  BY <1>1, TotalEmpty DEF Below

\* What is below the ages that change has the same sum.
LEMMA BelowSame ==
  ASSUME NEW m \in Nat, NEW f, NEW g, \A a \in 0..m - 1 : f[a] \in Nat /\ g[a] = f[a]
  PROVE  Below(g, m) = Below(f, m)
<1> DEFINE N == {n \in Nat : n <= m => Below(g, n) = Below(f, n)}
<1>1. 0 \in N
  BY BelowNone
<1>2. ASSUME NEW n \in Nat, n \in N PROVE n + 1 \in N
  <2> SUFFICES ASSUME n + 1 <= m PROVE Below(g, n + 1) = Below(f, n + 1)
    OBVIOUS
  <2>1. Below(g, n) = Below(f, n)
    BY <1>2
  <2>2. \A a \in 0..n : f[a] \in Nat /\ g[a] = f[a]
    OBVIOUS
  <2>3. Below(f, n + 1) = f[n] + Below(f, n) /\ Below(g, n + 1) = g[n] + Below(g, n)
    BY <2>2, BelowStep
  <2> QED
    BY <2>1, <2>2, <2>3
<1>3. \A n \in Nat : n \in N
  <2> HIDE DEF N
  <2> QED
    BY <1>1, <1>2, SetInduction
<1> QED
  BY <1>3

\* One more at age 0 is one more in every sum but the empty one.
LEMMA BelowOneMore ==
  ASSUME NEW m \in Nat, NEW f, NEW g, g[0] = f[0] + 1,
         \A a \in 0..m : f[a] \in Nat,
         \A a \in 1..m : g[a] = f[a]
  PROVE  \A n \in 1..m + 1 : Below(g, n) = Below(f, n) + 1
<1> DEFINE N == {n \in Nat : n <= m => Below(g, n + 1) = Below(f, n + 1) + 1}
<1>0. \A a \in 0..m : g[a] \in Nat
  OBVIOUS
<1>1. 0 \in N
  <2>1. /\ Below(f, 0 + 1) = f[0] + Below(f, 0) /\ Below(g, 0 + 1) = g[0] + Below(g, 0)
        /\ Below(f, 0) = 0 /\ Below(g, 0) = 0 /\ f[0] \in Nat
    BY <1>0, BelowStep, BelowNone
  <2> QED
    BY <2>1
<1>2. ASSUME NEW n \in Nat, n \in N PROVE n + 1 \in N
  <2> SUFFICES ASSUME n + 1 <= m PROVE Below(g, (n + 1) + 1) = Below(f, (n + 1) + 1) + 1
    OBVIOUS
  <2>1. Below(g, n + 1) = Below(f, n + 1) + 1
    BY <1>2
  <2>2. (\A a \in 0..n + 1 : f[a] \in Nat /\ g[a] \in Nat) /\ g[n + 1] = f[n + 1]
    BY <1>0
  <2>3. /\ Below(f, (n + 1) + 1) = f[n + 1] + Below(f, n + 1) /\ Below(f, n + 1) \in Nat
        /\ Below(g, (n + 1) + 1) = g[n + 1] + Below(g, n + 1)
    BY <2>2, BelowStep
  <2>4. f[n + 1] \in Nat
    BY <2>2
  <2> QED
    BY <2>1, <2>2, <2>3, <2>4
<1>3. \A n \in Nat : n \in N
  <2> HIDE DEF N
  <2> QED
    BY <1>1, <1>2, SetInduction
<1>4. ASSUME NEW n \in 1..m + 1 PROVE Below(g, n) = Below(f, n) + 1
  <2>1. n - 1 \in Nat /\ n - 1 <= m /\ (n - 1) + 1 = n
    OBVIOUS
  <2> QED
    BY <1>3, <2>1
<1> QED
  BY <1>4

\* When time passes, every age becomes the next one.
LEMMA BelowLater ==
  ASSUME NEW m \in Nat, NEW f, NEW g, g[0] = 0,
         \A a \in 0..m : f[a] \in Nat,
         \A a \in 1..m : g[a] = f[a - 1]
  PROVE  \A n \in 0..m : Below(g, n + 1) = Below(f, n)
<1> DEFINE N == {n \in Nat : n <= m => Below(g, n + 1) = Below(f, n)}
<1>0. \A a \in 0..m : g[a] \in Nat
  <2>1. ASSUME NEW a \in 1..m PROVE g[a] \in Nat
    <3>1. a - 1 \in 0..m
      OBVIOUS
    <3> QED
      BY <3>1
  <2> QED
    BY <2>1
<1>1. 0 \in N
  <2>1. Below(g, 0 + 1) = g[0] + Below(g, 0) /\ Below(f, 0) = 0 /\ Below(g, 0) = 0
    BY <1>0, BelowStep, BelowNone
  <2> QED
    BY <2>1
<1>2. ASSUME NEW n \in Nat, n \in N PROVE n + 1 \in N
  <2> SUFFICES ASSUME n + 1 <= m PROVE Below(g, (n + 1) + 1) = Below(f, n + 1)
    OBVIOUS
  <2>1. Below(g, n + 1) = Below(f, n)
    BY <1>2
  <2>2. (\A a \in 0..n + 1 : f[a] \in Nat /\ g[a] \in Nat) /\ g[n + 1] = f[n]
    BY <1>0
  <2>3. /\ Below(f, n + 1) = f[n] + Below(f, n)
        /\ Below(g, (n + 1) + 1) = g[n + 1] + Below(g, n + 1)
    BY <2>2, BelowStep
  <2> QED
    BY <2>1, <2>2, <2>3
<1>3. \A n \in Nat : n \in N
  <2> HIDE DEF N
  <2> QED
    BY <1>1, <1>2, SetInduction
<1> QED
  BY <1>3

LEMMA BelowNat ==
  ASSUME NEW m \in Nat, NEW f, \A a \in 0..m - 1 : f[a] \in Nat
  PROVE  \A n \in 0..m : Below(f, n) \in Nat
<1> SUFFICES ASSUME NEW n \in 0..m PROVE Below(f, n) \in Nat
  OBVIOUS
<1>1. IsFiniteSet(0..n - 1)
  BY FS_Interval
<1>2. \A a \in 0..n - 1 : f[a] \in Nat
  OBVIOUS
<1> QED
  BY <1>1, <1>2, TotalNat DEF Below

LEMMA BelowZero ==
  ASSUME NEW m \in Nat, NEW f, \A a \in 0..m - 1 : f[a] = 0
  PROVE  \A n \in 0..m : Below(f, n) = 0
<1> DEFINE N == {n \in Nat : n <= m => Below(f, n) = 0}
<1>1. 0 \in N
  BY BelowNone
<1>2. ASSUME NEW n \in Nat, n \in N PROVE n + 1 \in N
  <2> SUFFICES ASSUME n + 1 <= m PROVE Below(f, n + 1) = 0
    OBVIOUS
  <2>1. Below(f, n) = 0 /\ \A a \in 0..n : f[a] = 0
    BY <1>2
  <2>2. Below(f, n + 1) = f[n] + Below(f, n)
    BY <2>1, BelowStep
  <2> QED
    BY <2>1, <2>2
<1>3. \A n \in Nat : n \in N
  <2> HIDE DEF N
  <2> QED
    BY <1>1, <1>2, SetInduction
<1> QED
  BY <1>3
-----------------------------------------------------------------------------
(* RateLimitingPool. *)

\* The fold of RateLimited is the sum over all ages.
LEMMA RatesTotal ==
  ASSUME NEW f
  PROVE  FoldFunction(+, 0, f) = Total(f, DOMAIN f)
BY Zenon DEF FoldFunction, FoldFunctionOnSet, MapThenFoldSet, Total

\* What a pool is made with.
LEMMA Made ==
  /\ SlotCapacity \in Nat \ {0} /\ Resolution \in Nat \ {0}
  /\ Concurrency \in Nat \ {0} /\ MaxCalls \in Nat
BY SlotsAssumption, PoolAssumption

\* The callers that have a slot.
Holders == {t \in Tasks : slot[t] = "holding"}

\* The callers in the queue are waiting, each queued once.
QueueWaits ==
  /\ \A i \in 1..Len(queue) : slot[queue[i]] = "waiting"
  /\ \A i, j \in 1..Len(queue) : queue[i] = queue[j] => i = j

\* A slot is available, held or cooling down.
SlotsAccounted ==
  /\ IsFiniteSet(Holders)
  /\ slotsFree + Cardinality(Holders) + Below(cooling, Resolution + 1) = SlotCapacity

\* Slots that were granted so long ago are held, or cool since no longer.
RecentAccounted ==
  \A n \in 0..Resolution : Below(recent, n) <= Cardinality(Holders) + Below(cooling, n)

SlotsInv == SlotsTypeOK /\ QueueWaits /\ SlotsAccounted /\ RecentAccounted

-----------------------------------------------------------------------------
\* The types of the slots and of the locks.
LEMMA RatesTypeInit ==
  ASSUME PoolInit
  PROVE  PoolTypeOK
BY Made DEF PoolInit, PoolTypeOK, SlotsInit, SlotsTypeOK,
       Locks!Init, Ages

\* What a grant and the end of a timer do to the types.
LEMMA GrantTyped ==
  ASSUME SlotsTypeOK, NEW t \in Tasks, Grant(t)
  PROVE  /\ recent' \in [0..Resolution - 1 -> Nat]
         /\ slot' \in [Tasks -> {"idle", "waiting", "holding"}]
<1>1. 0 \in 0..Resolution - 1
  BY Made
<1>2. recent[0] + 1 \in Nat
  BY <1>1 DEF SlotsTypeOK
<1> QED
  BY <1>1, <1>2 DEF SlotsTypeOK, Grant, Become

LEMMA TimerTyped ==
  ASSUME SlotsTypeOK, Dequeue
  PROVE  /\ cooling' \in [0..Resolution -> Nat]
         /\ \A a \in 0..Resolution - 1 : cooling'[a] = cooling[a]
         /\ cooling'[Resolution] = cooling[Resolution] - 1
<1>1. Resolution \in 0..Resolution /\ Resolution \in Nat /\ cooling \in [0..Resolution -> Nat]
  BY Made DEF SlotsTypeOK, Ages
<1>2. cooling[Resolution] - 1 \in Nat
  BY <1>1 DEF Dequeue
<1>3. cooling' = [cooling EXCEPT ![Resolution] = cooling[Resolution] - 1]
  BY DEF Dequeue
<1> QED
  BY <1>1, <1>2, <1>3

LEMMA SlotsTypeStep ==
  ASSUME SlotsTypeOK,
         \/ \E t \in Tasks : Acquire(t) \/ Release(t)
         \/ Dequeue \/ Tick \/ UNCHANGED slotVars
  PROVE  SlotsTypeOK'
<1> USE Made DEF SlotsTypeOK, Ages
<1>1. ASSUME NEW t \in Tasks, Acquire(t) PROVE SlotsTypeOK'
  <2>1. CASE slotsFree > 0 /\ slotsFree' = slotsFree - 1 /\ Grant(t) /\ UNCHANGED queue
    BY <1>1, <2>1, GrantTyped DEF Acquire
  <2>2. CASE queue' = Append(queue, t) /\ Become(t, "waiting") /\ UNCHANGED <<slotsFree, recent>>
    BY <1>1, <2>2 DEF Acquire, Become
  <2> QED
    BY <1>1, <2>1, <2>2 DEF Acquire
<1>2. ASSUME NEW t \in Tasks, Release(t) PROVE SlotsTypeOK'
  BY <1>2 DEF Release, Become
<1>3. CASE Dequeue
  <2>1. cooling' \in [0..Resolution -> Nat]
    BY <1>3, TimerTyped
  <2>2. CASE queue # <<>>
    <3>1. Head(queue) \in Tasks /\ Tail(queue) \in Seq(Tasks)
      BY <2>2
    <3>2. queue' = Tail(queue) /\ Grant(Head(queue)) /\ UNCHANGED slotsFree
      BY <1>3, <2>2 DEF Dequeue
    <3> QED
      BY <2>1, <3>1, <3>2, GrantTyped
  <2>3. CASE queue = <<>>
    <3>1. slotsFree' = slotsFree + 1 /\ UNCHANGED <<queue, recent, slot>>
      BY <1>3, <2>3 DEF Dequeue
    <3> QED
      BY <2>1, <3>1
  <2> QED
    BY <2>2, <2>3
<1>4. CASE Tick
  <2>1. recent' \in [0..Resolution - 1 -> Nat]
    BY <1>4 DEF Tick
  <2>2. cooling' \in [0..Resolution -> Nat]
    BY <1>4 DEF Tick
  <2> QED
    BY <1>4, <2>1, <2>2 DEF Tick
<1>5. CASE UNCHANGED slotVars
  BY <1>5 DEF slotVars
<1> QED
  BY <1>1, <1>2, <1>3, <1>4, <1>5

LEMMA LocksTypeStep ==
  ASSUME PoolTypeOK,
         \/ \E t \in Tasks : Locks!Acquire(t) \/ Locks!Release(t)
         \/ Locks!Handover \/ UNCHANGED poolVars
  PROVE  /\ free' \in Nat /\ grants' \in Nat
         /\ awaits' \in Seq(Tasks)
         /\ lock' \in [Tasks -> {"idle", "waiting", "holding"}]
         /\ acquires' \in [Tasks -> 0..MaxCalls]
<1> DEFINE Typed == /\ free \in Nat /\ grants \in Nat
                    /\ awaits \in Seq(Tasks)
                    /\ lock \in [Tasks -> {"idle", "waiting", "holding"}]
                    /\ acquires \in [Tasks -> 0..MaxCalls]
<1>0. Typed
  BY DEF PoolTypeOK
<1>1. ASSUME NEW t \in Tasks, Locks!Acquire(t) PROVE Typed'
  <2>1. acquires' \in [Tasks -> 0..MaxCalls]
    <3>1. acquires[t] \in 0..MaxCalls /\ acquires[t] < MaxCalls
      BY <1>0, <1>1 DEF Locks!Acquire
    <3>2. acquires[t] + 1 \in 0..MaxCalls
      BY <3>1, Made
    <3> QED
      BY <1>0, <1>1, <3>2 DEF Locks!Acquire
  <2>2. CASE free > 0 /\ free' = free - 1 /\ Locks!Become(t, "holding") /\ UNCHANGED awaits
    BY <1>0, <1>1, <2>1, <2>2 DEF Locks!Acquire, Locks!Become
  <2>3. CASE awaits' = Append(awaits, t) /\ Locks!Become(t, "waiting") /\ UNCHANGED free
    BY <1>0, <1>1, <2>1, <2>3 DEF Locks!Acquire, Locks!Become
  <2> QED
    BY <1>1, <2>2, <2>3 DEF Locks!Acquire
<1>2. ASSUME NEW t \in Tasks, Locks!Release(t) PROVE Typed'
  BY <1>0, <1>2 DEF Locks!Release, Locks!Become
<1>3. CASE Locks!Handover
  <2>1. CASE awaits # <<>>
    <3>1. Head(awaits) \in Tasks /\ Tail(awaits) \in Seq(Tasks)
      BY <1>0, <2>1
    <3>2. awaits' = Tail(awaits) /\ lock' = [lock EXCEPT ![Head(awaits)] = "holding"]
      BY <1>3, <2>1 DEF Locks!Handover, Locks!Become
    <3>3. free' = free /\ acquires' = acquires /\ grants' \in Nat
      BY <1>0, <1>3 DEF Locks!Handover
    <3> QED
      BY <1>0, <3>1, <3>2, <3>3
  <2>2. CASE awaits = <<>>
    BY <1>0, <1>3, <2>2 DEF Locks!Handover
  <2> QED
    BY <2>1, <2>2
<1>4. CASE UNCHANGED poolVars
  BY <1>0, <1>4 DEF poolVars
<1> QED
  BY <1>1, <1>2, <1>3, <1>4

\* Every step of the pool is one of the slots and one of the locks, or leaves them.
LEMMA RatesSteps ==
  ASSUME [PoolNext]_rateVars
  PROVE  /\ \/ \E t \in Tasks : Acquire(t) \/ Release(t)
            \/ Dequeue \/ Tick \/ UNCHANGED slotVars
         /\ \/ \E t \in Tasks : Locks!Acquire(t) \/ Locks!Release(t)
            \/ Locks!Handover \/ UNCHANGED poolVars
BY DEF PoolNext, rateVars, AcquireSlot, AcquireLock, ReleaseBoth

\* Slots, locks and their queues are of their types.
THEOREM RatesTyped == PoolSpec => []PoolTypeOK
<1>1. PoolInit => PoolTypeOK
  BY RatesTypeInit
<1>2. PoolTypeOK /\ [PoolNext]_rateVars => PoolTypeOK'
  <2> SUFFICES ASSUME PoolTypeOK, [PoolNext]_rateVars PROVE PoolTypeOK'
    OBVIOUS
  <2>1. SlotsTypeOK'
    BY RatesSteps, SlotsTypeStep DEF PoolTypeOK
  <2> QED
    BY <2>1, RatesSteps, LocksTypeStep DEF PoolTypeOK
<1> QED
  BY <1>1, <1>2, PTL DEF PoolSpec
-----------------------------------------------------------------------------
LEMMA SlotsStart ==
  ASSUME PoolInit
  PROVE  SlotsInv
<1>0. SlotCapacity \in Nat /\ Resolution \in Nat
  BY Made
<1>1. SlotsTypeOK
  BY RatesTypeInit DEF PoolTypeOK
<1>2. QueueWaits
  BY DEF PoolInit, SlotsInit, QueueWaits
<1>3. IsFiniteSet(Holders) /\ Cardinality(Holders) = 0
  <2>1. Holders = {}
    BY DEF PoolInit, SlotsInit, Holders
  <2> QED
    BY <2>1, FS_EmptySet
<1>4. /\ \A n \in 0..Resolution + 1 : Below(cooling, n) = 0
      /\ \A n \in 0..Resolution : Below(recent, n) = 0
  <2>1. \A a \in 0..Resolution : cooling[a] = 0
    BY DEF PoolInit, SlotsInit, Ages
  <2>2. \A a \in 0..Resolution - 1 : recent[a] = 0
    BY DEF PoolInit, SlotsInit
  <2>3. \A n \in 0..Resolution + 1 : Below(cooling, n) = 0
    BY <1>0, <2>1, BelowZero
  <2> QED
    BY <1>0, <2>2, <2>3, BelowZero
<1>5. SlotsAccounted
  BY <1>0, <1>3, <1>4 DEF SlotsAccounted, PoolInit, SlotsInit
<1>6. RecentAccounted
  BY <1>0, <1>3, <1>4 DEF RecentAccounted
<1> QED
  BY <1>1, <1>2, <1>5, <1>6 DEF SlotsInv

\* Who is granted a slot did not have one.
LEMMA GrantHolders ==
  ASSUME SlotsTypeOK, IsFiniteSet(Holders), NEW t \in Tasks, slot[t] # "holding", Grant(t)
  PROVE  /\ IsFiniteSet(Holders') /\ Cardinality(Holders') = Cardinality(Holders) + 1
         /\ Cardinality(Holders) \in Nat
<1>1. Holders' = Holders \cup {t} /\ t \notin Holders
  BY DEF Grant, Become, SlotsTypeOK, Holders
<1> QED
  BY <1>1, FS_AddElement, FS_CardinalityType

\* The sums that the invariant speaks of are numbers.
LEMMA SumsTyped ==
  ASSUME SlotsTypeOK
  PROVE  /\ \A n \in 0..Resolution : Below(recent, n) \in Nat
         /\ \A n \in 0..Resolution + 1 : Below(cooling, n) \in Nat
<1>0. Resolution \in Nat
  BY Made
<1>1. \A a \in 0..Resolution - 1 : recent[a] \in Nat
  BY DEF SlotsTypeOK
<1>2. \A a \in 0..Resolution : cooling[a] \in Nat
  BY DEF SlotsTypeOK, Ages
<1>3. \A n \in 0..Resolution : Below(recent, n) \in Nat
  BY <1>0, <1>1, BelowNat
<1> QED
  BY <1>0, <1>2, <1>3, BelowNat

\* A grant adds one to what is recent.
LEMMA GrantRecent ==
  ASSUME SlotsTypeOK, NEW t, Grant(t)
  PROVE  /\ Below(recent', 0) = Below(recent, 0)
         /\ \A n \in 1..Resolution : Below(recent', n) = Below(recent, n) + 1
<1>0. Resolution - 1 \in Nat /\ (Resolution - 1) + 1 = Resolution
  BY Made
<1>1. /\ recent'[0] = recent[0] + 1
      /\ \A a \in 0..Resolution - 1 : recent[a] \in Nat
      /\ \A a \in 1..Resolution - 1 : recent'[a] = recent[a]
  BY <1>0 DEF SlotsTypeOK, Grant
<1>2. \A n \in 1..(Resolution - 1) + 1 : Below(recent', n) = Below(recent, n) + 1
  BY <1>0, <1>1, BelowOneMore
<1> QED
  BY <1>0, <1>2, BelowNone

\* Who acquires takes a slot or a place in the queue.
LEMMA AcquireSlots ==
  ASSUME SlotsInv, NEW t \in Tasks, Acquire(t)
  PROVE  QueueWaits' /\ SlotsAccounted' /\ RecentAccounted'
<1> USE DEF SlotsInv
<1>0. /\ \A n \in 0..Resolution : Below(recent, n) \in Nat
      /\ \A n \in 0..Resolution + 1 : Below(cooling, n) \in Nat
      /\ Resolution \in Nat /\ slotsFree \in Nat /\ SlotCapacity \in Nat
      /\ queue \in Seq(Tasks) /\ cooling' = cooling
  BY SumsTyped, Made DEF SlotsTypeOK, Acquire
<1>1. CASE slotsFree > 0 /\ slotsFree' = slotsFree - 1 /\ Grant(t) /\ UNCHANGED queue
  <2>1. /\ IsFiniteSet(Holders') /\ Cardinality(Holders') = Cardinality(Holders) + 1
        /\ Cardinality(Holders) \in Nat
    BY <1>1, GrantHolders DEF Acquire, SlotsAccounted
  <2>2. QueueWaits'
    BY <1>0, <1>1 DEF QueueWaits, Acquire, Grant, Become, SlotsTypeOK
  <2>3. SlotsAccounted'
    BY <1>0, <1>1, <2>1 DEF SlotsAccounted
  <2>4. RecentAccounted'
    BY <1>0, <1>1, <2>1, GrantRecent DEF RecentAccounted
  <2> QED
    BY <2>2, <2>3, <2>4
<1>2. CASE slotsFree = 0 /\ queue' = Append(queue, t) /\ Become(t, "waiting")
             /\ UNCHANGED <<slotsFree, recent>>
  <2>1. Holders' = Holders
    BY <1>2 DEF Acquire, Become, SlotsTypeOK, Holders
  <2>2. QueueWaits'
    <3>1. /\ Len(queue') = Len(queue) + 1 /\ Len(queue) \in Nat /\ queue'[Len(queue) + 1] = t
          /\ \A i \in 1..Len(queue) : queue'[i] = queue[i] /\ queue[i] \in Tasks
      BY <1>0, <1>2
    <3>2. slot[t] = "idle" /\ slot'[t] = "waiting" /\ \A u \in Tasks : u # t => slot'[u] = slot[u]
      BY <1>2 DEF Acquire, Become, SlotsTypeOK
    <3>3. \A i \in 1..Len(queue) : queue[i] # t /\ slot'[queue[i]] = "waiting"
      BY <3>1, <3>2 DEF QueueWaits
    <3>4. \A i \in 1..Len(queue') : i \in 1..Len(queue) \/ i = Len(queue) + 1
      BY <3>1
    <3>5. \A i \in 1..Len(queue') : slot'[queue'[i]] = "waiting"
      BY <3>1, <3>2, <3>3, <3>4
    <3>6. \A i, j \in 1..Len(queue') : queue'[i] = queue'[j] => i = j
      BY <3>1, <3>3, <3>4 DEF QueueWaits
    <3> QED
      BY <3>5, <3>6 DEF QueueWaits
  <2> QED
    BY <1>0, <1>2, <2>1, <2>2 DEF SlotsAccounted, RecentAccounted
<1> QED
  BY <1>1, <1>2 DEF Acquire

\* A slot that is released starts to cool: older ages are as they were.
LEMMA ReleaseSlots ==
  ASSUME SlotsInv, NEW t \in Tasks, Release(t)
  PROVE  QueueWaits' /\ SlotsAccounted' /\ RecentAccounted'
<1> USE DEF SlotsInv
<1>0. /\ \A n \in 0..Resolution : Below(recent, n) \in Nat
      /\ \A n \in 0..Resolution + 1 : Below(cooling, n) \in Nat
      /\ Resolution \in Nat /\ slotsFree \in Nat /\ SlotCapacity \in Nat
      /\ slotsFree' = slotsFree /\ recent' = recent
  BY SumsTyped, Made DEF SlotsTypeOK, Release
<1>1. /\ IsFiniteSet(Holders') /\ Cardinality(Holders') = Cardinality(Holders) - 1
      /\ Cardinality(Holders) \in Nat /\ Cardinality(Holders') \in Nat
  <2>1. Holders' = Holders \ {t} /\ t \in Holders
    BY DEF Release, Become, SlotsTypeOK, Holders
  <2> QED
    BY <2>1, OneOut DEF SlotsAccounted
<1>2. Below(cooling', 0) = 0 /\ \A n \in 1..Resolution + 1 : Below(cooling', n) = Below(cooling, n) + 1
  <2>1. /\ cooling'[0] = cooling[0] + 1
        /\ \A a \in 0..Resolution : cooling[a] \in Nat
        /\ \A a \in 1..Resolution : cooling'[a] = cooling[a]
    BY <1>0 DEF SlotsTypeOK, Ages, Release
  <2> QED
    BY <1>0, <2>1, BelowOneMore, BelowNone
<1>3. QueueWaits'
  BY DEF QueueWaits, Release, Become, SlotsTypeOK
<1>4. SlotsAccounted'
  BY <1>0, <1>1, <1>2 DEF SlotsAccounted
<1>5. RecentAccounted'
  <2>1. Below(recent, 0) = 0
    BY BelowNone
  <2> QED
    BY <1>0, <1>1, <1>2, <2>1 DEF RecentAccounted
<1> QED
  BY <1>3, <1>4, <1>5

\* A slot that has cooled down goes to the first in the queue, or is available.
LEMMA DequeueSlots ==
  ASSUME SlotsInv, Dequeue
  PROVE  QueueWaits' /\ SlotsAccounted' /\ RecentAccounted'
<1> USE DEF SlotsInv
<1>0. /\ \A n \in 0..Resolution : Below(recent, n) \in Nat
      /\ \A n \in 0..Resolution + 1 : Below(cooling, n) \in Nat
      /\ Resolution \in Nat /\ slotsFree \in Nat /\ SlotCapacity \in Nat
      /\ queue \in Seq(Tasks) /\ IsFiniteSet(Holders) /\ Cardinality(Holders) \in Nat
  BY SumsTyped, FS_CardinalityType, Made DEF SlotsTypeOK, SlotsAccounted
<1>1. /\ \A n \in 0..Resolution : Below(cooling', n) = Below(cooling, n)
      /\ Below(cooling', Resolution + 1) = Below(cooling, Resolution + 1) - 1
  <2>1. /\ \A a \in 0..Resolution : cooling[a] \in Nat /\ cooling'[a] \in Nat
        /\ \A a \in 0..Resolution - 1 : cooling'[a] = cooling[a]
        /\ cooling'[Resolution] = cooling[Resolution] - 1
    BY <1>0, TimerTyped DEF SlotsTypeOK, Ages
  <2>2. ASSUME NEW n \in 0..Resolution PROVE Below(cooling', n) = Below(cooling, n)
    <3>1. n \in Nat /\ \A a \in 0..n - 1 : cooling[a] \in Nat /\ cooling'[a] = cooling[a]
      BY <1>0, <2>1
    <3> QED
      BY <3>1, BelowSame
  <2>3. /\ Below(cooling, Resolution + 1) = cooling[Resolution] + Below(cooling, Resolution)
        /\ Below(cooling', Resolution + 1) = cooling'[Resolution] + Below(cooling', Resolution)
    BY <1>0, <2>1, BelowStep
  <2>4. Resolution \in 0..Resolution /\ cooling[Resolution] \in Nat
    BY <1>0, <2>1
  <2> QED
    BY <1>0, <2>1, <2>2, <2>3, <2>4
<1>2. CASE queue # <<>> /\ queue' = Tail(queue) /\ Grant(Head(queue)) /\ UNCHANGED slotsFree
  <2>1. Head(queue) \in Tasks /\ slot[Head(queue)] = "waiting"
    BY <1>0, <1>2 DEF QueueWaits
  <2>2. IsFiniteSet(Holders') /\ Cardinality(Holders') = Cardinality(Holders) + 1
    BY <1>0, <1>2, <2>1, GrantHolders
  <2>3. QueueWaits'
    <3>1. /\ Len(queue') = Len(queue) - 1 /\ Len(queue) \in Nat
          /\ \A i \in 1..Len(queue') : queue'[i] = queue[i + 1] /\ i + 1 \in 1..Len(queue)
      BY <1>0, <1>2
    <3>2. \A i \in 1..Len(queue') : queue[i + 1] # Head(queue) /\ queue[i + 1] \in Tasks
      <4>1. Head(queue) = queue[1] /\ 1 \in 1..Len(queue)
        BY <1>0, <1>2
      <4> QED
        BY <1>0, <3>1, <4>1 DEF QueueWaits
    <3>3. \A u \in Tasks : u # Head(queue) => slot'[u] = slot[u]
      BY <1>2, <2>1 DEF Grant, Become, SlotsTypeOK
    <3>4. \A i \in 1..Len(queue') : slot'[queue'[i]] = "waiting"
      BY <3>1, <3>2, <3>3 DEF QueueWaits
    <3>5. \A i, j \in 1..Len(queue') : queue'[i] = queue'[j] => i = j
      BY <3>1 DEF QueueWaits
    <3> QED
      BY <3>4, <3>5 DEF QueueWaits
  <2>4. SlotsAccounted'
    BY <1>0, <1>1, <1>2, <2>2 DEF SlotsAccounted
  <2>5. RecentAccounted'
    <3>1. /\ Below(recent', 0) = Below(recent, 0)
          /\ \A n \in 1..Resolution : Below(recent', n) = Below(recent, n) + 1
      BY <1>2, GrantRecent
    <3> SUFFICES ASSUME NEW n \in 0..Resolution
                 PROVE  Below(recent', n) <= Cardinality(Holders') + Below(cooling', n)
      BY DEF RecentAccounted
    <3>2. /\ Below(recent, n) <= Cardinality(Holders) + Below(cooling, n)
          /\ Below(recent, n) \in Nat /\ Below(cooling, n) \in Nat /\ n \in 0..Resolution + 1
      BY <1>0 DEF RecentAccounted
    <3>3. Below(recent', n) <= Below(recent, n) + 1
      BY <3>1, <3>2
    <3>4. Below(recent', n) \in Nat
      BY <3>1, <3>2
    <3> QED
      BY <1>0, <1>1, <2>2, <3>2, <3>3, <3>4
  <2> QED
    BY <2>3, <2>4, <2>5
<1>3. CASE queue = <<>> /\ slotsFree' = slotsFree + 1 /\ UNCHANGED <<queue, recent, slot>>
  <2>1. Holders' = Holders
    BY <1>3 DEF Holders
  <2>2. QueueWaits'
    BY <1>3 DEF QueueWaits
  <2>3. SlotsAccounted'
    BY <1>0, <1>1, <1>3, <2>1 DEF SlotsAccounted
  <2> QED
    BY <1>0, <1>1, <1>3, <2>1, <2>2, <2>3 DEF RecentAccounted
<1> QED
  BY <1>2, <1>3 DEF Dequeue

\* Time passes for what is recent and for what cools alike.
LEMMA TickSlots ==
  ASSUME SlotsInv, Tick
  PROVE  QueueWaits' /\ SlotsAccounted' /\ RecentAccounted'
<1> USE DEF SlotsInv
<1>0. /\ \A n \in 0..Resolution : Below(recent, n) \in Nat
      /\ \A n \in 0..Resolution + 1 : Below(cooling, n) \in Nat
      /\ Resolution \in Nat /\ Resolution - 1 \in Nat /\ slotsFree \in Nat /\ SlotCapacity \in Nat
      /\ slotsFree' = slotsFree /\ queue' = queue /\ slot' = slot
      /\ IsFiniteSet(Holders) /\ Cardinality(Holders) \in Nat
  <2>1. /\ Resolution \in Nat /\ Resolution - 1 \in Nat /\ SlotCapacity \in Nat
    BY Made
  <2>2. slotsFree \in Nat /\ slotsFree' = slotsFree /\ queue' = queue /\ slot' = slot
    BY DEF SlotsTypeOK, Tick
  <2>3. IsFiniteSet(Holders) /\ Cardinality(Holders) \in Nat
    BY FS_CardinalityType DEF SlotsAccounted
  <2> QED
    BY <2>1, <2>2, <2>3, SumsTyped
<1>1. Holders' = Holders
  BY <1>0 DEF Holders
<1>2. /\ \A a \in 0..Resolution - 1 : recent[a] \in Nat
      /\ recent'[0] = 0 /\ \A a \in 1..Resolution - 1 : recent'[a] = recent[a - 1]
  BY <1>0 DEF SlotsTypeOK, Tick
<1>m. PICK m \in Nat : m = Resolution - 1
  BY <1>0
<1>3. \A n \in 0..Resolution - 1 : Below(recent', n + 1) = Below(recent, n)
  <2>1. /\ \A a \in 0..m : recent[a] \in Nat
        /\ recent'[0] = 0 /\ \A a \in 1..m : recent'[a] = recent[a - 1]
    BY <1>2, <1>m
  <2>2. \A n \in 0..m : Below(recent', n + 1) = Below(recent, n)
    BY <2>1, BelowLater
  <2> QED
    BY <1>m, <2>2
<1>4. /\ \A a \in 0..Resolution : cooling[a] \in Nat
      /\ cooling'[0] = 0 /\ \A a \in 1..Resolution - 1 : cooling'[a] = cooling[a - 1]
      /\ cooling'[Resolution] = cooling[Resolution - 1] + cooling[Resolution]
  <2>1. cooling \in [0..Resolution -> Nat]
    BY DEF SlotsTypeOK, Ages
  <2>2. cooling' = [a \in 0..Resolution |->
          IF a = 0 THEN 0
          ELSE cooling[a - 1] + IF a = Resolution THEN cooling[a] ELSE 0]
    BY DEF Ages, Tick
  <2>3. cooling'[0] = 0
    BY <1>0, <2>2
  <2>4. \A a \in 1..Resolution - 1 : cooling'[a] = cooling[a - 1]
    <3> SUFFICES ASSUME NEW a \in 1..Resolution - 1 PROVE cooling'[a] = cooling[a - 1]
      OBVIOUS
    <3>1. a \in 0..Resolution /\ a # 0 /\ a # Resolution /\ a - 1 \in 0..Resolution
      BY <1>0
    <3>2. cooling[a - 1] \in Nat
      BY <2>1, <3>1
    <3>3. cooling'[a] = cooling[a - 1] + 0
      BY <2>2, <3>1
    <3> QED
      BY <3>2, <3>3
  <2>5. cooling'[Resolution] = cooling[Resolution - 1] + cooling[Resolution]
    <3>1. Resolution \in 0..Resolution /\ Resolution # 0
      BY <1>0
    <3> QED
      BY <2>2, <3>1
  <2> QED
    BY <2>1, <2>3, <2>4, <2>5
<1>5. \A n \in 0..Resolution - 1 : Below(cooling', n + 1) = Below(cooling, n)
  <2>1. /\ \A a \in 0..m : cooling[a] \in Nat
        /\ cooling'[0] = 0 /\ \A a \in 1..m : cooling'[a] = cooling[a - 1]
    BY <1>0, <1>4, <1>m
  <2>2. \A n \in 0..m : Below(cooling', n + 1) = Below(cooling, n)
    BY <2>1, BelowLater
  <2> QED
    BY <1>m, <2>2
<1>6. Below(cooling', Resolution + 1) = Below(cooling, Resolution + 1)
  <2>0. \A a \in 0..Resolution : cooling'[a] \in Nat
    <3>1. ASSUME NEW a \in 1..Resolution - 1 PROVE cooling'[a] \in Nat
      <4>1. a - 1 \in 0..Resolution
        BY <1>0
      <4> QED
        BY <1>4, <4>1
    <3>2. Resolution \in 0..Resolution /\ Resolution - 1 \in 0..Resolution
      BY <1>0
    <3>3. cooling'[Resolution] \in Nat
      BY <1>4, <3>2
    <3> QED
      BY <1>0, <1>4, <3>1, <3>3
  <2>1. Below(cooling', Resolution + 1) = cooling'[Resolution] + Below(cooling', Resolution)
    BY <1>0, <2>0, BelowStep
  <2>2. Below(cooling', (Resolution - 1) + 1) = Below(cooling, Resolution - 1)
    BY <1>0, <1>5
  <2>3. Below(cooling, (Resolution - 1) + 1) = cooling[Resolution - 1] + Below(cooling, Resolution - 1)
    <3>1. \A a \in 0..Resolution - 1 : cooling[a] \in Nat
      BY <1>0, <1>4
    <3> QED
      BY <1>0, <3>1, BelowStep
  <2>4. Below(cooling, Resolution + 1) = cooling[Resolution] + Below(cooling, Resolution)
    BY <1>0, <1>4, BelowStep
  <2>5. /\ (Resolution - 1) + 1 = Resolution /\ Resolution \in 0..Resolution
        /\ Resolution - 1 \in 0..Resolution
    BY <1>0
  <2>6. /\ cooling[Resolution] \in Nat /\ cooling[Resolution - 1] \in Nat
        /\ Below(cooling, Resolution - 1) \in Nat
    BY <1>0, <1>4, <2>5
  <2> QED
    BY <1>4, <2>1, <2>2, <2>3, <2>4, <2>5, <2>6
<1>7. QueueWaits'
  BY <1>0 DEF QueueWaits
<1>8. SlotsAccounted'
  BY <1>0, <1>1, <1>6 DEF SlotsAccounted
<1>9. RecentAccounted'
  <2> SUFFICES ASSUME NEW n \in 0..Resolution
               PROVE  Below(recent', n) <= Cardinality(Holders) + Below(cooling', n)
    BY <1>1 DEF RecentAccounted
  <2>1. CASE n = 0
    BY <1>0, <2>1, BelowNone
  <2>2. CASE n # 0
    <3>1. n - 1 \in 0..Resolution - 1 /\ n - 1 \in 0..Resolution /\ (n - 1) + 1 = n
      BY <1>0, <2>2
    <3>2. Below(recent', n) = Below(recent, n - 1) /\ Below(cooling', n) = Below(cooling, n - 1)
      BY <1>3, <1>5, <3>1
    <3> QED
      BY <3>1, <3>2 DEF RecentAccounted
  <2> QED
    BY <2>1, <2>2
<1> QED
  BY <1>7, <1>8, <1>9

\* Slots are neither lost nor made, and those that were granted of late are held or
\* have been cooling for no longer (temporal-slots.ts).
THEOREM SlotsInductive == PoolSpec => []SlotsInv
<1>1. PoolInit => SlotsInv
  BY SlotsStart
<1>2. SlotsInv /\ [PoolNext]_rateVars => SlotsInv'
  <2> SUFFICES ASSUME SlotsInv, [PoolNext]_rateVars PROVE SlotsInv'
    OBVIOUS
  <2>1. SlotsTypeOK'
    BY RatesSteps, SlotsTypeStep DEF SlotsInv
  <2>2. CASE UNCHANGED slotVars
    <3>1. Holders' = Holders
      BY <2>2 DEF slotVars, Holders
    <3>2. QueueWaits' /\ SlotsAccounted' /\ RecentAccounted'
      BY <2>2, <3>1 DEF SlotsInv, slotVars, QueueWaits, SlotsAccounted, RecentAccounted
    <3> QED
      BY <2>1, <3>2 DEF SlotsInv
  <2>3. CASE ~ UNCHANGED slotVars
    <3>1. QueueWaits' /\ SlotsAccounted' /\ RecentAccounted'
      BY <2>3, RatesSteps, AcquireSlots, ReleaseSlots, DequeueSlots, TickSlots
    <3> QED
      BY <2>1, <3>1 DEF SlotsInv
  <2> QED
    BY <2>2, <2>3
<1> QED
  BY <1>1, <1>2, PTL DEF PoolSpec

\* In any resolution of time no more slots are granted than there are, for any
\* capacity, any resolution and any callers (SlotsConfig, temporal-slots.ts).
THEOREM NeverTooFast == PoolSpec => []RateLimited
<1>1. SlotsInv => RateLimited
  <2> SUFFICES ASSUME SlotsInv PROVE RateLimited
    OBVIOUS
  <2>0. /\ Resolution \in Nat /\ SlotCapacity \in Nat /\ slotsFree \in Nat /\ Cardinality(Holders) \in Nat
        /\ DOMAIN recent = 0..Resolution - 1
        /\ Below(recent, Resolution) \in Nat /\ Below(cooling, Resolution) \in Nat
    BY SumsTyped, FS_CardinalityType, Made DEF SlotsInv, SlotsTypeOK, SlotsAccounted
  <2>1. Below(recent, Resolution) <= Cardinality(Holders) + Below(cooling, Resolution)
    BY <2>0 DEF SlotsInv, RecentAccounted
  <2>2. slotsFree + Cardinality(Holders) + Below(cooling, Resolution + 1) = SlotCapacity
    BY DEF SlotsInv, SlotsAccounted
  <2>3. /\ Below(cooling, Resolution + 1) = cooling[Resolution] + Below(cooling, Resolution)
        /\ cooling[Resolution] \in Nat
    <3>1. \A a \in 0..Resolution : cooling[a] \in Nat
      BY DEF SlotsInv, SlotsTypeOK, Ages
    <3> QED
      BY <2>0, <3>1, BelowStep
  <2>4. Below(recent, Resolution) <= SlotCapacity
    BY <2>0, <2>1, <2>2, <2>3
  <2>5. FoldFunction(+, 0, recent) = Below(recent, Resolution)
    BY <2>0, RatesTotal DEF Below
  <2> QED
    BY <2>4, <2>5 DEF RateLimited
<1> QED
  BY <1>1, SlotsInductive, PTL
-----------------------------------------------------------------------------
\* Everyone in the queue q waits, each queued once, and everyone who waits is queued.
Queued(q, s) ==
  /\ \A i \in 1..Len(q) : s[q[i]] = "waiting"
  /\ \A i, j \in 1..Len(q) : q[i] = q[j] => i = j
  /\ \A t \in Tasks : s[t] = "waiting" => \E i \in 1..Len(q) : q[i] = t

States == {"idle", "waiting", "holding"}

\* The callers that have a lock.
LockHolders == {t \in Tasks : lock[t] = "holding"}

\* A caller has a slot before it acquires for a lock, and calls for both or neither.
SlotFirst ==
  \A t \in Tasks :
    /\ lock[t] # "idle" => slot[t] = "holding"
    /\ slot[t] # "idle" /\ lock[t] = "idle" => acquires[t] < MaxCalls

\* Nobody queues for a slot while one is available, and nobody for a lock unless
\* someone has one or is about to hand one over.
QueuesBacked ==
  /\ queue # <<>> => slotsFree = 0
  /\ free + Cardinality(LockHolders) >= Concurrency
  /\ awaits # <<>> => grants > 0 \/ LockHolders # {}

WaitInv == Queued(queue, slot) /\ Queued(awaits, lock) /\ SlotFirst /\ QueuesBacked

LEMMA JoinQueue ==
  ASSUME NEW q \in Seq(Tasks), NEW s \in [Tasks -> States], Queued(q, s),
         NEW t \in Tasks, s[t] = "idle"
  PROVE  Queued(Append(q, t), [s EXCEPT ![t] = "waiting"])
<1> DEFINE p == Append(q, t)
           r == [s EXCEPT ![t] = "waiting"]
<1>1. /\ Len(p) = Len(q) + 1 /\ Len(q) \in Nat /\ p[Len(q) + 1] = t
      /\ \A i \in 1..Len(q) : p[i] = q[i] /\ q[i] \in Tasks
  OBVIOUS
<1>2. r[t] = "waiting" /\ \A u \in Tasks : u # t => r[u] = s[u]
  OBVIOUS
<1>3. \A i \in 1..Len(p) : i \in 1..Len(q) \/ i = Len(q) + 1
  BY <1>1
<1> HIDE DEF p, r
<1>4. \A i \in 1..Len(q) : q[i] # t /\ r[q[i]] = "waiting"
  BY <1>1, <1>2 DEF Queued
<1>5. \A i \in 1..Len(p) : r[p[i]] = "waiting"
  BY <1>1, <1>2, <1>3, <1>4
<1>6. \A i, j \in 1..Len(p) : p[i] = p[j] => i = j
  BY <1>1, <1>3, <1>4 DEF Queued
<1>7. ASSUME NEW u \in Tasks, r[u] = "waiting" PROVE \E i \in 1..Len(p) : p[i] = u
  <2>1. CASE u = t
    <3>1. Len(q) + 1 \in 1..Len(p)
      BY <1>1
    <3> QED
      BY <1>1, <2>1, <3>1
  <2>2. CASE u # t
    <3>1. PICK i \in 1..Len(q) : q[i] = u
      BY <1>2, <1>7, <2>2 DEF Queued
    <3>2. i \in 1..Len(p) /\ p[i] = u
      BY <1>1, <3>1
    <3> QED
      BY <3>2
  <2> QED
    BY <2>1, <2>2
<1>8. Queued(p, r)
  BY <1>5, <1>6, <1>7 DEF Queued
<1> QED
  BY <1>8 DEF p, r

LEMMA LeaveQueue ==
  ASSUME NEW q \in Seq(Tasks), NEW s \in [Tasks -> States], Queued(q, s), q # <<>>
  PROVE  /\ Head(q) \in Tasks /\ s[Head(q)] = "waiting"
         /\ Queued(Tail(q), [s EXCEPT ![Head(q)] = "holding"])
<1> DEFINE p == Tail(q)
           h == Head(q)
           r == [s EXCEPT ![h] = "holding"]
<1>1. /\ Len(q) \in Nat /\ Len(p) = Len(q) - 1 /\ 1 \in 1..Len(q)
      /\ h = q[1] /\ h \in Tasks
      /\ \A i \in 1..Len(p) : p[i] = q[i + 1] /\ i + 1 \in 1..Len(q)
      /\ \A i \in 1..Len(q) : q[i] \in Tasks
  OBVIOUS
<1>2. r[h] = "holding" /\ \A u \in Tasks : u # h => r[u] = s[u]
  BY <1>1
<1> HIDE DEF p, h, r
<1>3. s[h] = "waiting"
  BY <1>1 DEF Queued
<1>4. \A i \in 1..Len(p) : q[i + 1] # h /\ q[i + 1] \in Tasks /\ s[q[i + 1]] = "waiting"
  BY <1>1 DEF Queued
<1>5. \A i \in 1..Len(p) : r[p[i]] = "waiting"
  BY <1>1, <1>2, <1>4
<1>6. \A i, j \in 1..Len(p) : p[i] = p[j] => i = j
  BY <1>1 DEF Queued
<1>7. ASSUME NEW u \in Tasks, r[u] = "waiting" PROVE \E i \in 1..Len(p) : p[i] = u
  <2>1. u # h /\ s[u] = "waiting"
    BY <1>2, <1>7
  <2>2. PICK j \in 1..Len(q) : q[j] = u
    BY <2>1 DEF Queued
  <2>3. j # 1
    BY <1>1, <2>1, <2>2
  <2>4. j - 1 \in 1..Len(p) /\ (j - 1) + 1 = j
    BY <1>1, <2>3
  <2>5. p[j - 1] = u
    BY <1>1, <2>2, <2>4
  <2> QED
    BY <2>4, <2>5
<1>8. Queued(p, r)
  BY <1>5, <1>6, <1>7 DEF Queued
<1> QED
  BY <1>1, <1>3, <1>8 DEF p, h, r

LEMMA BesideQueue ==
  ASSUME NEW q \in Seq(Tasks), NEW s \in [Tasks -> States], Queued(q, s),
         NEW t \in Tasks, s[t] # "waiting", NEW v, v # "waiting"
  PROVE  Queued(q, [s EXCEPT ![t] = v])
<1> DEFINE r == [s EXCEPT ![t] = v]
<1>1. r[t] # "waiting" /\ \A u \in Tasks : u # t => r[u] = s[u]
  OBVIOUS
<1>2. \A i \in 1..Len(q) : q[i] \in Tasks
  OBVIOUS
<1> HIDE DEF r
<1>3. Queued(q, r)
  BY <1>1, <1>2 DEF Queued
<1> QED
  BY <1>3 DEF r

LEMMA WaitStart ==
  ASSUME PoolInit
  PROVE  WaitInv
<1>1. Queued(queue, slot) /\ Queued(awaits, lock)
  BY DEF PoolInit, SlotsInit, Locks!Init, Queued
<1>2. SlotFirst
  BY DEF PoolInit, SlotsInit, Locks!Init, SlotFirst
<1>3. LockHolders = {}
  BY DEF PoolInit, Locks!Init, LockHolders
<1>4. QueuesBacked
  BY <1>3, FS_EmptySet, Made DEF PoolInit, SlotsInit, Locks!Init, QueuesBacked
<1> QED
  BY <1>1, <1>2, <1>4 DEF WaitInv

\* Whoever has a lock has a slot, so they are finitely many.
LEMMA LockHoldersFinite ==
  ASSUME SlotFirst, IsFiniteSet(Holders)
  PROVE  IsFiniteSet(LockHolders) /\ Cardinality(LockHolders) \in Nat
<1>1. LockHolders \subseteq Holders
  BY DEF SlotFirst, LockHolders, Holders
<1> QED
  BY <1>1, FS_Subset, FS_CardinalityType

LEMMA AcquireSlotWaits ==
  ASSUME PoolTypeOK, WaitInv, NEW t \in Tasks, AcquireSlot(t)
  PROVE  WaitInv'
<1>0. /\ slot \in [Tasks -> States] /\ lock \in [Tasks -> States] /\ queue \in Seq(Tasks)
      /\ free' = free /\ awaits' = awaits /\ grants' = grants /\ lock' = lock /\ acquires' = acquires
  BY DEF PoolTypeOK, SlotsTypeOK, States, AcquireSlot, poolVars
<1>1. slot[t] = "idle" /\ lock[t] = "idle" /\ acquires[t] < MaxCalls
  BY <1>0 DEF WaitInv, SlotFirst, AcquireSlot, Acquire, States
<1>2. CASE slotsFree > 0 /\ Grant(t) /\ UNCHANGED queue
  <2>1. slot' = [slot EXCEPT ![t] = "holding"]
    BY <1>2 DEF Grant, Become
  <2>2. Queued(queue, slot)'
    BY <1>0, <1>1, <1>2, <2>1, BesideQueue DEF WaitInv
  <2>3. queue = <<>>
    BY <1>2 DEF WaitInv, QueuesBacked
  <2>4. SlotFirst'
    BY <1>0, <1>1, <2>1 DEF WaitInv, SlotFirst
  <2> QED
    BY <1>0, <1>2, <2>2, <2>3, <2>4 DEF WaitInv, QueuesBacked, LockHolders
<1>3. CASE slotsFree = 0 /\ queue' = Append(queue, t) /\ Become(t, "waiting")
             /\ UNCHANGED <<slotsFree, recent>>
  <2>1. slot' = [slot EXCEPT ![t] = "waiting"]
    BY <1>3 DEF Become
  <2>2. Queued(queue, slot)'
    BY <1>0, <1>1, <1>3, <2>1, JoinQueue DEF WaitInv
  <2>3. SlotFirst'
    BY <1>0, <1>1, <2>1 DEF WaitInv, SlotFirst
  <2> QED
    BY <1>0, <1>3, <2>2, <2>3 DEF WaitInv, QueuesBacked, LockHolders
<1> QED
  BY <1>2, <1>3 DEF AcquireSlot, Acquire

LEMMA AcquireLockWaits ==
  ASSUME PoolTypeOK, IsFiniteSet(Holders), WaitInv, NEW t \in Tasks, AcquireLock(t)
  PROVE  WaitInv'
<1>0. /\ lock \in [Tasks -> States] /\ awaits \in Seq(Tasks) /\ free \in Nat
      /\ slotsFree' = slotsFree /\ queue' = queue /\ slot' = slot /\ grants' = grants
      /\ slot[t] = "holding" /\ lock[t] = "idle" /\ Concurrency \in Nat \ {0}
  BY Made DEF PoolTypeOK, States, AcquireLock, slotVars, Locks!Acquire
<1>1. IsFiniteSet(LockHolders) /\ Cardinality(LockHolders) \in Nat
  BY LockHoldersFinite DEF WaitInv
<1>2. \A u \in Tasks : u # t => acquires'[u] = acquires[u]
  BY DEF AcquireLock, Locks!Acquire, PoolTypeOK
<1>3. CASE free > 0 /\ free' = free - 1 /\ Locks!Become(t, "holding") /\ UNCHANGED awaits
  <2>1. lock' = [lock EXCEPT ![t] = "holding"]
    BY <1>3 DEF Locks!Become
  <2>2. Queued(awaits, lock)'
    BY <1>0, <1>3, <2>1, BesideQueue DEF WaitInv
  <2>3. SlotFirst'
    BY <1>0, <1>2, <2>1 DEF WaitInv, SlotFirst
  <2>4. LockHolders' = LockHolders \cup {t} /\ t \notin LockHolders
    BY <1>0, <2>1 DEF LockHolders
  <2>5. Cardinality(LockHolders') = Cardinality(LockHolders) + 1 /\ LockHolders' # {}
    BY <1>1, <2>4, FS_AddElement
  <2> QED
    BY <1>0, <1>1, <1>3, <2>2, <2>3, <2>5 DEF WaitInv, QueuesBacked
<1>4. CASE free = 0 /\ awaits' = Append(awaits, t) /\ Locks!Become(t, "waiting") /\ UNCHANGED free
  <2>1. lock' = [lock EXCEPT ![t] = "waiting"]
    BY <1>4 DEF Locks!Become
  <2>2. Queued(awaits, lock)'
    BY <1>0, <1>4, <2>1, JoinQueue DEF WaitInv
  <2>3. SlotFirst'
    BY <1>0, <1>2, <2>1 DEF WaitInv, SlotFirst
  <2>4. LockHolders' = LockHolders
    BY <1>0, <2>1 DEF LockHolders
  <2>5. LockHolders # {}
    <3>1. Cardinality(LockHolders) > 0
      BY <1>0, <1>1, <1>4 DEF WaitInv, QueuesBacked
    <3> QED
      BY <3>1, FS_EmptySet
  <2> QED
    BY <1>0, <1>4, <2>2, <2>3, <2>4, <2>5 DEF WaitInv, QueuesBacked
<1> QED
  BY <1>3, <1>4 DEF AcquireLock, Locks!Acquire

LEMMA ReleaseBothWaits ==
  ASSUME PoolTypeOK, IsFiniteSet(Holders), WaitInv, NEW t \in Tasks, ReleaseBoth(t)
  PROVE  WaitInv'
<1>0. /\ lock \in [Tasks -> States] /\ slot \in [Tasks -> States]
      /\ awaits \in Seq(Tasks) /\ queue \in Seq(Tasks) /\ free \in Nat /\ grants \in Nat
      /\ slotsFree' = slotsFree /\ queue' = queue /\ awaits' = awaits /\ acquires' = acquires
      /\ free' = free + 1 /\ grants' = grants + 1
      /\ slot[t] = "holding" /\ lock[t] = "holding" /\ Concurrency \in Nat
      /\ slot' = [slot EXCEPT ![t] = "idle"] /\ lock' = [lock EXCEPT ![t] = "idle"]
  BY Made DEF PoolTypeOK, SlotsTypeOK, States, ReleaseBoth, Release, Become, Locks!Release, Locks!Become
<1>1. IsFiniteSet(LockHolders) /\ Cardinality(LockHolders) \in Nat
  BY LockHoldersFinite DEF WaitInv
<1>2. Queued(queue, slot)' /\ Queued(awaits, lock)'
  BY <1>0, BesideQueue DEF WaitInv
<1>3. SlotFirst'
  BY <1>0 DEF WaitInv, SlotFirst
<1>4. LockHolders' = LockHolders \ {t} /\ t \in LockHolders
  BY <1>0 DEF LockHolders
<1>5. Cardinality(LockHolders') = Cardinality(LockHolders) - 1
  BY <1>1, <1>4, FS_RemoveElement
<1>6. QueuesBacked'
  BY <1>0, <1>1, <1>5 DEF WaitInv, QueuesBacked
<1> QED
  BY <1>2, <1>3, <1>6 DEF WaitInv

LEMMA DequeueWaits ==
  ASSUME PoolTypeOK, WaitInv, Dequeue, UNCHANGED poolVars
  PROVE  WaitInv'
<1>0. /\ slot \in [Tasks -> States] /\ lock \in [Tasks -> States] /\ queue \in Seq(Tasks)
      /\ free' = free /\ awaits' = awaits /\ grants' = grants /\ lock' = lock /\ acquires' = acquires
  BY DEF PoolTypeOK, SlotsTypeOK, States, poolVars
<1>1. CASE queue # <<>> /\ queue' = Tail(queue) /\ Grant(Head(queue)) /\ UNCHANGED slotsFree
  <2>1. slot' = [slot EXCEPT ![Head(queue)] = "holding"]
    BY <1>1 DEF Grant, Become
  <2>2. Head(queue) \in Tasks /\ slot[Head(queue)] = "waiting" /\ Queued(queue, slot)'
    BY <1>0, <1>1, <2>1, LeaveQueue DEF WaitInv
  <2>3. SlotFirst'
    BY <1>0, <2>1, <2>2 DEF WaitInv, SlotFirst
  <2> QED
    BY <1>0, <1>1, <2>2, <2>3 DEF WaitInv, QueuesBacked, LockHolders
<1>2. CASE queue = <<>> /\ UNCHANGED <<queue, recent, slot>>
  BY <1>0, <1>2 DEF WaitInv, Queued, SlotFirst, QueuesBacked, LockHolders
<1> QED
  BY <1>1, <1>2 DEF Dequeue

LEMMA HandoverWaits ==
  ASSUME PoolTypeOK, IsFiniteSet(Holders), WaitInv, Locks!Handover, UNCHANGED slotVars
  PROVE  WaitInv'
<1>0. /\ lock \in [Tasks -> States] /\ awaits \in Seq(Tasks) /\ free \in Nat /\ Concurrency \in Nat
      /\ slotsFree' = slotsFree /\ queue' = queue /\ slot' = slot
      /\ free' = free /\ acquires' = acquires
  BY Made DEF PoolTypeOK, States, slotVars, Locks!Handover
<1>1. IsFiniteSet(LockHolders) /\ Cardinality(LockHolders) \in Nat
  BY LockHoldersFinite DEF WaitInv
<1>2. CASE awaits # <<>> /\ awaits' = Tail(awaits) /\ Locks!Become(Head(awaits), "holding")
  <2>1. lock' = [lock EXCEPT ![Head(awaits)] = "holding"]
    BY <1>2 DEF Locks!Become
  <2>2. Head(awaits) \in Tasks /\ lock[Head(awaits)] = "waiting" /\ Queued(awaits, lock)'
    BY <1>0, <1>2, <2>1, LeaveQueue DEF WaitInv
  <2>3. SlotFirst'
    BY <1>0, <2>1, <2>2 DEF WaitInv, SlotFirst
  <2>4. LockHolders' = LockHolders \cup {Head(awaits)} /\ Head(awaits) \notin LockHolders
    BY <1>0, <2>1, <2>2 DEF LockHolders
  <2>5. Cardinality(LockHolders') = Cardinality(LockHolders) + 1 /\ LockHolders' # {}
    BY <1>1, <2>4, FS_AddElement
  <2>6. QueuesBacked'
    BY <1>0, <1>1, <2>5 DEF WaitInv, QueuesBacked
  <2> QED
    BY <1>0, <2>2, <2>3, <2>6 DEF WaitInv
<1>3. CASE awaits = <<>> /\ UNCHANGED <<awaits, lock>>
  BY <1>0, <1>3 DEF WaitInv, Queued, SlotFirst, QueuesBacked, LockHolders
<1> QED
  BY <1>2, <1>3 DEF Locks!Handover

\* Everyone who waits is in the queue that is served: no release and no timer passes
\* over a caller (acquire() and release() of async-lock-pool.ts and temporal-slots.ts).
THEOREM WaitersQueued == PoolSpec => []WaitInv
<1>1. PoolInit => WaitInv
  BY WaitStart
<1>2. PoolTypeOK /\ SlotsInv /\ WaitInv /\ [PoolNext]_rateVars => WaitInv'
  <2> SUFFICES ASSUME PoolTypeOK, SlotsInv, WaitInv, [PoolNext]_rateVars PROVE WaitInv'
    OBVIOUS
  <2>0. IsFiniteSet(Holders)
    BY DEF SlotsInv, SlotsAccounted
  <2>1. ASSUME NEW t \in Tasks, AcquireSlot(t) \/ AcquireLock(t) \/ ReleaseBoth(t)
        PROVE  WaitInv'
    BY <2>0, <2>1, AcquireSlotWaits, AcquireLockWaits, ReleaseBothWaits
  <2>2. CASE Dequeue /\ UNCHANGED poolVars
    BY <2>2, DequeueWaits
  <2>3. CASE (Tick /\ UNCHANGED poolVars) \/ UNCHANGED rateVars
    <3>1. UNCHANGED <<slotsFree, queue, slot, free, awaits, grants, lock, acquires>>
      BY <2>3 DEF Tick, rateVars, slotVars, poolVars
    <3> QED
      BY <3>1 DEF WaitInv, Queued, SlotFirst, QueuesBacked, LockHolders
  <2>4. CASE Locks!Handover /\ UNCHANGED slotVars
    BY <2>0, <2>4, HandoverWaits
  <2> QED
    BY <2>1, <2>2, <2>3, <2>4 DEF PoolNext
<1> QED
  BY <1>1, <1>2, RatesTyped, SlotsInductive, PTL DEF PoolSpec

\* What there is to be done: a lock to hand over, a timer, the end of a request, or
\* a caller with a slot that goes on to the locks.
UnderWay ==
  \/ grants > 0
  \/ \E a \in Ages : cooling[a] > 0
  \/ \E t \in Tasks : slot[t] = "holding" /\ lock[t] = "holding"
  \/ \E t \in Tasks : slot[t] = "holding" /\ lock[t] = "idle" /\ acquires[t] < MaxCalls

NoneStranded == (\E t \in Tasks : slot[t] # "idle") => UnderWay

\* Holding a slot while waiting for a lock never stops the pool: as long as somebody has
\* a slot or waits for one, something is under way, for any capacity and any
\* concurrency (acquire() of rate-limiting-pool.ts).
THEOREM NeverStuck == PoolSpec => []NoneStranded
<1>1. PoolTypeOK /\ SlotsInv /\ WaitInv => NoneStranded
  <2> SUFFICES ASSUME PoolTypeOK, SlotsInv, WaitInv, ~ UnderWay
               PROVE  \A t \in Tasks : slot[t] = "idle"
    BY DEF NoneStranded, PoolTypeOK, SlotsTypeOK
  <2>0. /\ slot \in [Tasks -> States] /\ lock \in [Tasks -> States]
        /\ queue \in Seq(Tasks) /\ awaits \in Seq(Tasks) /\ grants \in Nat /\ slotsFree \in Nat
        /\ SlotCapacity \in Nat \ {0} /\ Resolution \in Nat
        /\ IsFiniteSet(Holders) /\ Cardinality(Holders) \in Nat
    BY Made, FS_CardinalityType DEF PoolTypeOK, SlotsTypeOK, States, SlotsInv, SlotsAccounted
  <2>1. LockHolders = {}
    BY DEF UnderWay, WaitInv, SlotFirst, LockHolders
  <2>2. awaits = <<>>
    BY <2>0, <2>1 DEF UnderWay, WaitInv, QueuesBacked
  <2>3. \A t \in Tasks : lock[t] = "idle"
    BY <2>0, <2>1, <2>2 DEF WaitInv, Queued, LockHolders, States
  <2>4. Holders = {}
    BY <2>3 DEF UnderWay, WaitInv, SlotFirst, Holders
  <2>5. Below(cooling, Resolution + 1) = 0
    <3>1. ASSUME NEW a \in 0..Resolution PROVE cooling[a] = 0
      <4>1. cooling[a] \in Nat
        BY DEF PoolTypeOK, SlotsTypeOK, Ages
      <4>2. ~ cooling[a] > 0
        BY DEF UnderWay, Ages
      <4> QED
        BY <4>1, <4>2
    <3>2. Resolution + 1 \in Nat /\ (Resolution + 1) - 1 = Resolution /\ Resolution + 1 \in 0..Resolution + 1
      BY <2>0
    <3>3. \A n \in 0..Resolution + 1 : Below(cooling, n) = 0
      BY <3>1, <3>2, BelowZero
    <3> QED
      BY <3>2, <3>3
  <2>6. slotsFree # 0
    BY <2>0, <2>4, <2>5, FS_EmptySet DEF SlotsInv, SlotsAccounted
  <2>7. queue = <<>>
    BY <2>6 DEF WaitInv, QueuesBacked
  <2> QED
    BY <2>0, <2>4, <2>7 DEF WaitInv, Queued, Holders, States
<1> QED
  BY <1>1, RatesTyped, SlotsInductive, WaitersQueued, PTL
-----------------------------------------------------------------------------
(* ServiceFeeds. *)

CONSTANTS Checks, Wakes, Feeds, MaxLosses, MaxLogouts
VARIABLES a_feeds, h_feed, feedSocket, feedsDestroyed, marked, followed, step, mine, new, i_feed,
          entries, lockFeeds, lockHost, user, losses, logouts

Service == INSTANCE ServiceFeeds WITH
  MaxFaults <- MaxLosses, ws <- feedSocket, destroyed <- feedsDestroyed, pc <- step, faults <- losses

\* What the service is started with.
ServiceAssumption ==
  /\ Checks \cap Wakes = {} /\ None \notin Checks \cup Wakes \cup Feeds
  /\ MaxLosses \in Nat /\ MaxLogouts \in Nat

AtFeed == {"lock", "wake"}
Creating == {"opening", "follow", "hung"}

\* Types.
FeedsTyped ==
  /\ a_feeds \in Seq(Feeds)
  /\ h_feed \in Feeds \cup {None}
  /\ feedSocket \in [Feeds -> Service!Sockets]
  /\ feedsDestroyed \subseteq Feeds /\ marked \subseteq Feeds /\ followed \subseteq Feeds
  /\ user \in {"in", "leaving", "out"} /\ losses \in 0..MaxLosses /\ logouts \in 0..MaxLogouts

CallsTyped ==
  /\ step \in [Service!Calls -> Service!Steps] /\ i_feed \in [Service!Calls -> Nat]
  /\ entries \subseteq Checks
  /\ mine \in [Service!Calls -> Feeds \cup {None}]
  /\ new \in [Service!Calls -> Feeds \cup {None}]

\* A call works on the feeds only while it has the lock.
LocksHeld ==
  /\ lockFeeds \in Checks \cup {None} /\ lockHost \in Wakes \cup {None}
  /\ \A c \in Checks : step[c] \notin {"idle", "asked", "done", "failed"} <=> lockFeeds = c
  /\ \A w \in Wakes : step[w] \in {"wake", "opening", "follow", "hung"} <=> lockHost = w

\* A call is at a feed, or creates one, while its step says so.
CallsAt ==
  \A p \in Service!Calls : /\ new[p] # None => step[p] \in Creating
                           /\ step[p] \in {"opening", "follow"} => new[p] # None
                           /\ step[p] \in AtFeed => mine[p] # None

\* The list has made feeds, each once; a feed that a call creates is not in it, and
\* no other call creates it.
FeedsListed ==
  /\ \A i, j \in 1..Len(a_feeds) : a_feeds[i] = a_feeds[j] => i = j
  /\ \A i \in 1..Len(a_feeds) : feedSocket[a_feeds[i]] # "none"

NewUnlisted ==
  /\ \A p, q \in Service!Calls : new[p] # None /\ new[p] = new[q] => p = q
  /\ \A p \in Service!Calls : new[p] # None => /\ feedSocket[new[p]] # "none"
                                      /\ \A i \in 1..Len(a_feeds) : a_feeds[i] # new[p]

FeedsInv == FeedsTyped /\ CallsTyped /\ LocksHeld /\ CallsAt /\ FeedsListed /\ NewUnlisted
-----------------------------------------------------------------------------
\* A set of numbers has a least one.
LEMMA LeastIn ==
  ASSUME NEW I, I \subseteq Nat, I # {}
  PROVE  Service!Min(I) \in I
<1>1. PICK m \in I : \A k \in I : <<k, m>> \notin OpToRel(<, Nat)
  BY WFMin, NatLessThanWellFounded, Zenon
<1>2. \A k \in I : m <= k
  <2> SUFFICES ASSUME NEW k \in I, k < m PROVE FALSE
    OBVIOUS
  <2>1. <<k, m>> \in OpToRel(<, Nat)
    BY Zenon DEF OpToRel
  <2> QED
    BY <1>1, <2>1
<1> QED
  BY <1>2, Zenon DEF Service!Min

\* remove() of the list keeps the others, in their order.
LEMMA RemoveOne ==
  ASSUME NEW S, NEW s, NEW e, NEW r, s \in Seq(S), \A i, j \in 1..Len(s) : s[i] = s[j] => i = j,
         r = Service!RemoveFirst(s, e)
  PROVE  /\ r \in Seq(S)
         /\ \A i, j \in 1..Len(r) : r[i] = r[j] => i = j
         /\ \A i \in 1..Len(r) : \E j \in 1..Len(s) : r[i] = s[j]
<1>1. CASE ~ \E i \in 1..Len(s) : s[i] = e
  <2>1. r = s
    BY <1>1 DEF Service!RemoveFirst
  <2> QED
    BY <2>1
<1>2. CASE \E i \in 1..Len(s) : s[i] = e
  <2> DEFINE I == {i \in 1..Len(s) : s[i] = e}
  <2>1. I # {} /\ I \subseteq Nat
    BY <1>2
  <2>2. PICK k \in 1..Len(s) : k = Service!Min(I)
    BY <2>1, LeastIn
  <2>3. r = SubSeq(s, 1, k - 1) \o SubSeq(s, k + 1, Len(s))
    BY <1>2, <2>1, <2>2, Zenon DEF Service!RemoveFirst, Service!RemoveAt, Service!SelectInSeq
  <2>4. /\ SubSeq(s, 1, k - 1) \in Seq(S) /\ Len(SubSeq(s, 1, k - 1)) = k - 1
        /\ \A i \in 1..k - 1 : SubSeq(s, 1, k - 1)[i] = s[i]
    OBVIOUS
  <2>5. /\ SubSeq(s, k + 1, Len(s)) \in Seq(S) /\ Len(SubSeq(s, k + 1, Len(s))) = Len(s) - k
        /\ \A i \in 1..Len(s) - k : SubSeq(s, k + 1, Len(s))[i] = s[k + i]
    OBVIOUS
  <2>6. /\ r \in Seq(S) /\ Len(r) = Len(s) - 1
        /\ \A i \in 1..Len(r) : r[i] = IF i < k THEN s[i] ELSE s[i + 1]
    <3>1. PICK a \in Seq(S), b \in Seq(S) : /\ a = SubSeq(s, 1, k - 1) /\ b = SubSeq(s, k + 1, Len(s))
                                            /\ r = a \o b
      BY <2>3, <2>4, <2>5
    <3>2. Len(a) = k - 1 /\ Len(b) = Len(s) - k
      BY <2>4, <2>5, <3>1
    <3>3. r \in Seq(S) /\ Len(r) = Len(a) + Len(b)
      BY <3>1, ConcatProperties
    <3>4. \A i \in 1..Len(r) : r[i] = IF i <= Len(a) THEN a[i] ELSE b[i - Len(a)]
      <4>1. \A i \in 1..Len(a) + Len(b) : (a \o b)[i] = IF i <= Len(a) THEN a[i] ELSE b[i - Len(a)]
        BY ConcatProperties, Zenon
      <4> QED
        BY <3>1, <3>3, <4>1, Zenon
    <3>5. ASSUME NEW i \in 1..Len(r), i < k PROVE r[i] = s[i]
      <4>1. i \in 1..k - 1
        BY <3>5
      <4> QED
        BY <2>4, <3>1, <3>2, <3>4, <4>1
    <3>6. ASSUME NEW i \in 1..Len(r), ~(i < k) PROVE r[i] = s[i + 1]
      <4>1. i - (k - 1) \in 1..Len(s) - k /\ k + (i - (k - 1)) = i + 1 /\ ~(i <= k - 1)
        BY <3>2, <3>3, <3>6
      <4>2. r[i] = b[i - (k - 1)]
        BY <3>2, <3>4, <4>1
      <4>3. b[i - (k - 1)] = s[k + (i - (k - 1))]
        BY <2>5, <3>1, <4>1
      <4> QED
        BY <4>1, <4>2, <4>3
    <3>7. Len(r) = Len(s) - 1
      BY <3>2, <3>3
    <3>8. \A i \in 1..Len(r) : r[i] = IF i < k THEN s[i] ELSE s[i + 1]
      BY <3>5, <3>6
    <3> QED
      BY <3>3, <3>7, <3>8
  <2>7. \A i \in 1..Len(r) : (IF i < k THEN i ELSE i + 1) \in 1..Len(s)
    BY <2>6
  <2>8. \A i, j \in 1..Len(r) : r[i] = r[j] => i = j
    BY <2>6, <2>7
  <2>9. \A i \in 1..Len(r) : \E j \in 1..Len(s) : r[i] = s[j]
    BY <2>6, <2>7
  <2> QED
    BY <2>6, <2>8, <2>9
<1> QED
  BY <1>1, <1>2
-----------------------------------------------------------------------------
LEMMA FeedsInit ==
  ASSUME ServiceAssumption, Service!Init
  PROVE  FeedsInv
BY DEF ServiceAssumption, Service!Init, FeedsInv, FeedsTyped, CallsTyped, LocksHeld, CallsAt,
       FeedsListed, NewUnlisted, Service!Calls, Service!Steps, Service!Sockets, Creating, AtFeed

\* The lists and locks only depend on these.
LEMMA SimpleStep ==
  ASSUME ServiceAssumption, FeedsInv,
         UNCHANGED <<a_feeds, h_feed, feedSocket, feedsDestroyed, marked, followed, mine, new, i_feed,
                     entries, step, lockFeeds, lockHost>>,
         user' \in {"in", "leaving", "out"}, losses' \in 0..MaxLosses, logouts' \in 0..MaxLogouts
  PROVE  FeedsInv'
BY DEF FeedsInv, FeedsTyped, CallsTyped, LocksHeld, CallsAt, FeedsListed, NewUnlisted

\* The steps of a call that leave the feeds as they are.
LEMMA FeedCallStep ==
  ASSUME ServiceAssumption, FeedsInv, NEW p \in Service!Calls,
         \/ Service!Ask(p) \/ Service!Hang(p)
         \/ p \in Checks /\ (Service!Check(p) \/ Service!HasFeeds(p) \/ Service!Login(p) \/ Service!HangAgain(p))
         \/ p \in Wakes /\ (Service!Wake(p) \/ Service!WakeLock(p))
  PROVE  FeedsInv'
<1> USE DEF FeedsInv, Service!Goes, Service!feeds, Service!locks, Service!bounds
<1>0. /\ (p \in Checks /\ p \notin Wakes) \/ (p \in Wakes /\ p \notin Checks)
      /\ p # None
  BY DEF ServiceAssumption, Service!Calls
<1>1. UNCHANGED <<a_feeds, h_feed, feedSocket, feedsDestroyed, marked, followed, mine, new, i_feed, losses, logouts>>
      /\ user' \in {"in", "leaving", "out"} /\ entries' \in {entries, entries \cup {p}}
      /\ (p \notin Checks => entries' = entries)
  BY <1>0 DEF Service!Ask, Service!Hang, Service!HangAgain, Service!Check, Service!HasFeeds,
         Service!Login, Service!Wake, Service!WakeLock, FeedsTyped
<1>2. FeedsTyped' /\ FeedsListed' /\ NewUnlisted'
  BY <1>1 DEF FeedsTyped, FeedsListed, NewUnlisted
<1>3. ASSUME NEW to \in {"asked", "hung", "unlocked", "done", "providers", "next", "wake"},
             step' = [step EXCEPT ![p] = to], step[p] = "follow" => to = "hung",
             step[p] \in {"idle", "asked", "unlocked", "follow", "lock", "accounts"},
             to = "wake" => step[p] = "lock"
      PROVE  CallsTyped' /\ CallsAt'
  BY <1>0, <1>1, <1>3 DEF CallsTyped, CallsAt, Service!Steps, Creating, AtFeed
<1>4. CallsTyped' /\ CallsAt'
  <2>1. CASE Service!Ask(p) \/ Service!Login(p)
    BY <1>3, <2>1 DEF Service!Ask, Service!Login
  <2>2. CASE Service!Hang(p) \/ Service!HangAgain(p)
    BY <1>3, <2>2 DEF Service!Hang, Service!HangAgain
  <2>3. CASE Service!Check(p)
    BY <1>3, <2>3 DEF Service!Check
  <2>4. CASE Service!HasFeeds(p)
    BY <1>3, <2>4 DEF Service!HasFeeds
  <2>5. CASE Service!Wake(p) \/ Service!WakeLock(p)
    BY <1>3, <2>5 DEF Service!Wake, Service!WakeLock
  <2> QED
    BY <2>1, <2>2, <2>3, <2>4, <2>5
<1>5. LocksHeld'
  <2> USE DEF LocksHeld, CallsTyped, Service!Calls
  <2>1. CASE Service!Ask(p) \/ Service!Login(p)
    BY <1>0, <2>1 DEF Service!Ask, Service!Login
  <2>2. CASE Service!Hang(p)
    BY <1>0, <2>2 DEF Service!Hang
  <2>7. CASE p \in Checks /\ Service!HangAgain(p)
    BY <1>0, <2>7 DEF Service!HangAgain
  <2>3. CASE p \in Checks /\ Service!Check(p)
    BY <1>0, <2>3 DEF Service!Check, ServiceAssumption
  <2>4. CASE p \in Checks /\ Service!HasFeeds(p)
    BY <1>0, <2>4 DEF Service!HasFeeds
  <2>5. CASE p \in Wakes /\ Service!Wake(p)
    BY <1>0, <2>5 DEF Service!Wake
  <2>6. CASE p \in Wakes /\ Service!WakeLock(p)
    BY <1>0, <2>6 DEF Service!WakeLock, ServiceAssumption
  <2> QED
    BY <2>1, <2>2, <2>3, <2>4, <2>5, <2>6, <2>7
<1> QED
  BY <1>2, <1>4, <1>5

\* A call is done with a feed, or ends.
LEMMA ReleaseStep ==
  ASSUME ServiceAssumption, FeedsInv, NEW p \in Service!Calls, NEW to \in {"next", "done", "failed"},
         p \in Checks => lockFeeds = p, Service!Release(p, to)
  PROVE  /\ CallsTyped' /\ LocksHeld' /\ CallsAt'
         /\ new'[p] = None /\ \A q \in Service!Calls : q # p => new'[q] = new[q]
<1> USE DEF FeedsInv, Service!Release
<1>0. /\ (p \in Checks /\ p \notin Wakes) \/ (p \in Wakes /\ p \notin Checks)
      /\ p # None
  BY DEF ServiceAssumption, Service!Calls
<1>1. CallsTyped'
  BY DEF CallsTyped, Service!Steps
<1>2. LocksHeld'
  BY <1>0 DEF LocksHeld, CallsTyped, Service!Calls, ServiceAssumption
<1>3. CallsAt'
  BY DEF CallsAt, CallsTyped, Creating, AtFeed
<1> QED
  BY <1>1, <1>2, <1>3 DEF CallsTyped

\* A check that goes through the feeds has its lock.
LEMMA CheckLocked ==
  ASSUME FeedsInv, NEW p \in Service!Calls,
         step[p] \in {"unlocked", "providers", "next", "lock", "wake", "opening", "follow",
                     "accounts", "hung"}
  PROVE  p \in Checks => lockFeeds = p
BY DEF FeedsInv, LocksHeld

\* An account is followed, or not.
LEMMA FollowTypes ==
  ASSUME ServiceAssumption, FeedsTyped, NEW f \in Feeds,
         Service!Follow(f) \/ (Service!Fault /\ UNCHANGED <<marked, followed>>)
  PROVE  marked' \subseteq Feeds /\ followed' \subseteq Feeds /\ losses' \in 0..MaxLosses
BY DEF ServiceAssumption, FeedsTyped, Service!Follow, Service!Fault

\* A feed that is complete is listed.
LEMMA FollowedStep ==
  ASSUME ServiceAssumption, FeedsInv, NEW p \in Service!Calls, Service!Followed(p)
  PROVE  FeedsInv'
<1> USE DEF FeedsInv
<1>0. new[p] \in Feeds /\ new[p] # None /\ step[p] = "follow"
  BY DEF Service!Followed, CallsAt, CallsTyped, Creating
<1>1. PICK to \in {"next", "done"} : Service!Release(p, to)
  BY DEF Service!Followed
<1>2. /\ CallsTyped' /\ LocksHeld' /\ CallsAt'
      /\ new'[p] = None /\ \A q \in Service!Calls : q # p => new'[q] = new[q]
  BY <1>0, <1>1, CheckLocked, ReleaseStep
<1>3. a_feeds' = a_feeds \/ a_feeds' = Append(a_feeds, new[p])
  BY DEF Service!Followed
<1>4. FeedsTyped'
  <2>1. marked' \subseteq Feeds /\ followed' \subseteq Feeds /\ losses' \in 0..MaxLosses
    BY <1>0, FollowTypes DEF Service!Followed
  <2> QED
    BY <1>0, <1>3, <2>1 DEF FeedsTyped, Service!Followed
<1>5. feedSocket' = feedSocket
  BY DEF Service!Followed
<1>6. FeedsListed' /\ NewUnlisted'
  <2>1. CASE a_feeds' = a_feeds
    BY <1>2, <1>5, <2>1 DEF FeedsListed, NewUnlisted
  <2>2. CASE a_feeds' = Append(a_feeds, new[p])
    <3>1. /\ Len(a_feeds') = Len(a_feeds) + 1 /\ Len(a_feeds) \in Nat
          /\ a_feeds'[Len(a_feeds) + 1] = new[p]
          /\ \A i \in 1..Len(a_feeds) : a_feeds'[i] = a_feeds[i] /\ a_feeds[i] # new[p]
          /\ \A i \in 1..Len(a_feeds') : i \in 1..Len(a_feeds) \/ i = Len(a_feeds) + 1
      BY <1>0, <2>2 DEF FeedsTyped, NewUnlisted
    <3>2. FeedsListed'
      BY <1>0, <1>5, <3>1 DEF FeedsListed, NewUnlisted
    <3>3. NewUnlisted'
      BY <1>0, <1>2, <1>5, <3>1 DEF NewUnlisted
    <3> QED
      BY <3>2, <3>3
  <2> QED
    BY <1>3, <2>1, <2>2
<1> QED
  BY <1>2, <1>4, <1>6

\* A feed is awake, or a call fails.
LEMMA EndStep ==
  ASSUME ServiceAssumption, FeedsInv, NEW p \in Service!Calls,
         Service!Awake(p) \/ Service!Refused(p) \/ (p \in Checks /\ Service!Offline(p))
  PROVE  FeedsInv'
<1> USE DEF FeedsInv
<1>1. PICK to \in {"next", "done", "failed"} : Service!Release(p, to)
  BY DEF Service!Awake, Service!Refused, Service!Offline
<1>2. step[p] \in {"unlocked", "providers", "wake", "opening"}
  BY DEF Service!Awake, Service!Refused, Service!Offline
<1>3. /\ CallsTyped' /\ LocksHeld' /\ CallsAt'
      /\ new'[p] = None /\ \A q \in Service!Calls : q # p => new'[q] = new[q]
  BY <1>1, <1>2, CheckLocked, ReleaseStep
<1>4. a_feeds' = a_feeds
  BY DEF Service!Awake, Service!Refused, Service!Offline, Service!feeds
<1>5. \A f \in Feeds : feedSocket[f] # "none" => feedSocket'[f] # "none"
  BY DEF Service!Awake, Service!Refused, Service!Offline, Service!feeds, FeedsTyped
<1>6. FeedsTyped'
  BY DEF Service!Awake, Service!Refused, Service!Offline, Service!feeds, Service!bounds, Service!Fault,
         FeedsTyped, Service!Sockets, ServiceAssumption
<1>7. FeedsListed'
  BY <1>4, <1>5 DEF FeedsListed, FeedsTyped
<1>8. NewUnlisted'
  <2>1. \A q \in Service!Calls : new'[q] # None => q # p /\ new'[q] = new[q] /\ new[q] \in Feeds
    BY <1>3 DEF CallsTyped
  <2>2. \A q, r \in Service!Calls : new'[q] # None /\ new'[q] = new'[r] => q = r
    BY <2>1 DEF NewUnlisted
  <2>3. ASSUME NEW q \in Service!Calls, new'[q] # None
        PROVE  feedSocket'[new'[q]] # "none" /\ \A i \in 1..Len(a_feeds') : a_feeds'[i] # new'[q]
    BY <1>4, <1>5, <2>1, <2>3 DEF NewUnlisted
  <2> QED
    BY <2>2, <2>3 DEF NewUnlisted
<1> QED
  BY <1>3, <1>6, <1>7, <1>8

\* The next feed, or the end.
LEMMA NextFeedStep ==
  ASSUME ServiceAssumption, FeedsInv, NEW p \in Service!Calls, Service!NextFeed(p)
  PROVE  FeedsInv'
<1> USE DEF FeedsInv
<1>0. /\ (p \in Checks /\ p \notin Wakes) \/ (p \in Wakes /\ p \notin Checks)
      /\ p # None /\ step[p] = "next" /\ new[p] = None
  BY DEF ServiceAssumption, Service!Calls, Service!NextFeed, CallsAt, Creating
<1>1. FeedsTyped' /\ FeedsListed'
  BY DEF Service!NextFeed, Service!feeds, Service!bounds, FeedsTyped, FeedsListed
<1>2. CASE i_feed[p] < Len(a_feeds)
  <2>1. i_feed[p] + 1 \in 1..Len(a_feeds) /\ i_feed[p] + 1 \in Nat
    BY <1>2 DEF CallsTyped, FeedsTyped
  <2>2. a_feeds[i_feed[p] + 1] \in Feeds /\ None \notin Feeds
    BY <2>1 DEF FeedsTyped, ServiceAssumption
  <2> DEFINE to == IF p \in Checks THEN "wake" ELSE "lock"
  <2>3. /\ i_feed' = [i_feed EXCEPT ![p] = i_feed[p] + 1]
        /\ mine' = [mine EXCEPT ![p] = a_feeds[i_feed[p] + 1]]
        /\ step' = [step EXCEPT ![p] = to]
        /\ entries' \in {entries, entries \ {p}}
        /\ UNCHANGED <<lockFeeds, lockHost, new, a_feeds, feedSocket>>
    BY <1>2, Zenon DEF Service!NextFeed, Service!AtFeed, Service!locks, Service!feeds
  <2>4. CallsTyped'
    BY <2>1, <2>2, <2>3 DEF CallsTyped, Service!Steps
  <2>5. CallsAt'
    BY <1>0, <2>2, <2>3 DEF CallsAt, CallsTyped, Creating, AtFeed
  <2>6. LocksHeld'
    BY <1>0, <2>3 DEF LocksHeld, CallsTyped, Service!Calls
  <2>7. NewUnlisted'
    BY <2>3 DEF NewUnlisted
  <2> QED
    BY <1>1, <2>4, <2>5, <2>6, <2>7
<1>3. CASE ~(i_feed[p] < Len(a_feeds)) /\ p \notin entries
  <2>1. Service!Release(p, "done") /\ UNCHANGED <<a_feeds, feedSocket>>
    BY <1>3 DEF Service!NextFeed, Service!AtEnd, Service!feeds
  <2>2. /\ CallsTyped' /\ LocksHeld' /\ CallsAt'
        /\ new'[p] = None /\ \A q \in Service!Calls : q # p => new'[q] = new[q]
    BY <1>0, <2>1, CheckLocked, ReleaseStep
  <2>3. NewUnlisted'
    BY <2>1, <2>2 DEF NewUnlisted
  <2> QED
    BY <1>1, <2>2, <2>3
<1>4. CASE ~(i_feed[p] < Len(a_feeds)) /\ p \in entries
  <2>1. /\ i_feed' = [i_feed EXCEPT ![p] = 0] /\ step' = [step EXCEPT ![p] = "accounts"]
        /\ UNCHANGED <<lockFeeds, lockHost, mine, new, entries, a_feeds, feedSocket>>
        /\ p \in Checks
    BY <1>4 DEF Service!NextFeed, Service!AtEnd, Service!feeds, Service!locks, CallsTyped
  <2>2. CallsTyped' /\ CallsAt' /\ NewUnlisted'
    BY <1>0, <2>1 DEF CallsTyped, CallsAt, NewUnlisted, Service!Steps, Creating, AtFeed
  <2>3. LocksHeld'
    BY <1>0, <2>1 DEF LocksHeld, CallsTyped, Service!Calls
  <2> QED
    BY <1>1, <2>2, <2>3
<1> QED
  BY <1>2, <1>3, <1>4

\* A check has the account followed.
LEMMA FollowNewStep ==
  ASSUME ServiceAssumption, FeedsInv, NEW p \in Checks, Service!FollowNew(p)
  PROVE  FeedsInv'
<1> USE DEF FeedsInv
<1>0. /\ p \in Service!Calls /\ p \notin Wakes /\ p # None /\ step[p] = "accounts" /\ new[p] = None
      /\ UNCHANGED <<a_feeds, h_feed, feedSocket, feedsDestroyed, user, logouts>>
  BY DEF ServiceAssumption, Service!Calls, Service!FollowNew, CallsAt, Creating
<1>1. \/ UNCHANGED <<marked, followed, losses>>
      \/ /\ i_feed[p] + 1 \in Nat /\ i_feed[p] + 1 \in 1..Len(a_feeds)
         /\ Service!Follow(a_feeds[i_feed[p] + 1])
  BY <1>0 DEF Service!FollowNew, CallsTyped, FeedsTyped
<1>2. marked' \subseteq Feeds /\ followed' \subseteq Feeds /\ losses' \in 0..MaxLosses
  <2>1. CASE UNCHANGED <<marked, followed, losses>>
    BY <2>1 DEF FeedsTyped
  <2>2. CASE i_feed[p] + 1 \in 1..Len(a_feeds) /\ Service!Follow(a_feeds[i_feed[p] + 1])
    <3>1. a_feeds[i_feed[p] + 1] \in Feeds
      BY <2>2 DEF FeedsTyped
    <3> QED
      BY <2>2, <3>1, FollowTypes
  <2> QED
    BY <1>1, <2>1, <2>2
<1>3. FeedsTyped' /\ FeedsListed'
  BY <1>0, <1>2 DEF FeedsTyped, FeedsListed
<1>4. ASSUME NEW to \in {"done", "failed"}, Service!Release(p, to) PROVE FeedsInv'
  <2>1. /\ CallsTyped' /\ LocksHeld' /\ CallsAt'
        /\ new'[p] = None /\ \A q \in Service!Calls : q # p => new'[q] = new[q]
    BY <1>0, <1>4, CheckLocked, ReleaseStep
  <2>2. NewUnlisted'
    BY <1>0, <2>1 DEF NewUnlisted
  <2> QED
    BY <1>3, <2>1, <2>2
<1>5. ASSUME i_feed' = [i_feed EXCEPT ![p] = i_feed[p] + 1],
             UNCHANGED <<step, lockFeeds, lockHost, mine, new, entries>>
      PROVE  FeedsInv'
  BY <1>0, <1>3, <1>5 DEF CallsTyped, CallsAt, LocksHeld, NewUnlisted
<1>6. \/ \E to \in {"done", "failed"} : Service!Release(p, to)
      \/ /\ i_feed' = [i_feed EXCEPT ![p] = i_feed[p] + 1]
         /\ UNCHANGED <<step, lockFeeds, lockHost, mine, new, entries>>
  BY DEF Service!FollowNew, Service!locks
<1> QED
  BY <1>4, <1>5, <1>6

\* A socket opens.
LEMMA OpenedStep ==
  ASSUME ServiceAssumption, FeedsInv, NEW p \in Service!Calls, Service!Opened(p)
  PROVE  FeedsInv'
<1> USE DEF FeedsInv, Service!Opened, Service!Goes, Service!locks, Service!bounds
<1>0. new[p] \in Feeds
  BY DEF CallsAt, CallsTyped, Creating
<1>1. FeedsTyped'
  BY <1>0 DEF FeedsTyped, Service!Sockets
<1>2. CallsTyped' /\ CallsAt'
  BY DEF CallsTyped, CallsAt, Service!Steps, Creating, AtFeed
<1>3. LocksHeld'
  BY DEF LocksHeld, CallsTyped, Service!Calls
<1>4. \A f \in Feeds : feedSocket[f] # "none" => feedSocket'[f] # "none"
  BY DEF FeedsTyped
<1>5. FeedsListed' /\ NewUnlisted'
  BY <1>4 DEF FeedsListed, NewUnlisted, FeedsTyped, CallsTyped
<1> QED
  BY <1>1, <1>2, <1>3, <1>5

\* A feed is created where old ones are destroyed.
LEMMA ReplaceStep ==
  ASSUME ServiceAssumption, FeedsInv, NEW p \in Service!Calls, NEW old \in SUBSET Feeds,
         step[p] = "wake" \/ (step[p] = "providers" /\ p \in Checks), Service!Replace(p, old),
         UNCHANGED <<h_feed, lockFeeds, lockHost, mine, i_feed, entries, user, logouts>>,
         losses' \in 0..MaxLosses,
         a_feeds' \in Seq(Feeds),
         \A i, j \in 1..Len(a_feeds') : a_feeds'[i] = a_feeds'[j] => i = j,
         \A i \in 1..Len(a_feeds') : \E j \in 1..Len(a_feeds) : a_feeds'[i] = a_feeds[j]
  PROVE  FeedsInv'
<1> USE DEF FeedsInv
<1>1. PICK f \in Feeds : /\ Service!Fresh(f)
                         /\ feedSocket' = [Service!Closed(old) EXCEPT ![f] = "opening"]
                         /\ feedsDestroyed' = (feedsDestroyed \cup old) \ {f}
                         /\ marked' = marked \ {f} /\ followed' = followed \ {f}
                         /\ new' = [new EXCEPT ![p] = f]
                         /\ step' = [step EXCEPT ![p] = "opening"]
  BY Zenon DEF Service!Replace
<1>2. f # None
  BY DEF ServiceAssumption
<1>3. \A i \in 1..Len(a_feeds) : a_feeds[i] # f /\ a_feeds[i] \in Feeds
  BY <1>1 DEF Service!Fresh, FeedsListed, FeedsTyped
<1>4. \A q \in Service!Calls : new[q] # f
  BY <1>1, <1>2 DEF Service!Fresh, NewUnlisted
<1>5. /\ feedSocket' \in [Feeds -> Service!Sockets] /\ feedSocket'[f] = "opening"
      /\ \A g \in Feeds : feedSocket[g] # "none" => feedSocket'[g] # "none"
  BY <1>1 DEF Service!Closed, FeedsTyped, Service!Sockets
<1>6. FeedsTyped'
  BY <1>1, <1>5 DEF FeedsTyped
<1>7. CallsTyped' /\ CallsAt'
  BY <1>1, <1>2 DEF CallsTyped, CallsAt, Service!Steps, Creating, AtFeed
<1>8. LocksHeld'
  BY <1>1 DEF LocksHeld, CallsTyped, Service!Calls, ServiceAssumption
<1>9. FeedsListed'
  <2>1. \A i \in 1..Len(a_feeds') : feedSocket'[a_feeds'[i]] # "none"
    BY <1>3, <1>5 DEF FeedsListed
  <2> QED
    BY <2>1 DEF FeedsListed
<1>10. NewUnlisted'
  <2>1. new'[p] = f /\ \A q \in Service!Calls : q # p => new'[q] = new[q]
    BY <1>1 DEF CallsTyped
  <2>2. \A q, r \in Service!Calls : new'[q] # None /\ new'[q] = new'[r] => q = r
    BY <1>4, <2>1 DEF NewUnlisted
  <2>3. ASSUME NEW q \in Service!Calls, new'[q] # None
        PROVE  feedSocket'[new'[q]] # "none" /\ \A i \in 1..Len(a_feeds') : a_feeds'[i] # new'[q]
    <3>1. CASE q = p
      BY <1>3, <1>5, <2>1, <3>1
    <3>2. CASE q # p
      <4>1. new'[q] = new[q] /\ new[q] \in Feeds
        BY <2>1, <2>3, <3>2 DEF CallsTyped
      <4> QED
        BY <1>5, <2>3, <4>1 DEF NewUnlisted
    <3> QED
      BY <3>1, <3>2
  <2> QED
    BY <2>2, <2>3 DEF NewUnlisted
<1> QED
  BY <1>6, <1>7, <1>8, <1>9, <1>10

LEMMA CreateAllStep ==
  ASSUME ServiceAssumption, FeedsInv, NEW p \in Checks, Service!CreateAll(p)
  PROVE  FeedsInv'
<1>1. p \in Service!Calls /\ {h_feed} \ {None} \in SUBSET Feeds
  BY DEF Service!Calls, FeedsInv, FeedsTyped
<1>2. /\ step[p] = "providers" /\ Service!Replace(p, {h_feed} \ {None})
      /\ UNCHANGED <<a_feeds, h_feed, lockFeeds, lockHost, mine, i_feed, entries, user, losses, logouts>>
  BY DEF Service!CreateAll, Service!locks, Service!bounds
<1>3. /\ a_feeds' \in Seq(Feeds) /\ losses' \in 0..MaxLosses
      /\ \A i, j \in 1..Len(a_feeds') : a_feeds'[i] = a_feeds'[j] => i = j
      /\ \A i \in 1..Len(a_feeds') : \E j \in 1..Len(a_feeds) : a_feeds'[i] = a_feeds[j]
  BY <1>2 DEF FeedsInv, FeedsTyped, FeedsListed
<1> QED
  BY <1>1, <1>2, <1>3, ReplaceStep

LEMMA RecreateStep ==
  ASSUME ServiceAssumption, FeedsInv, NEW p \in Service!Calls, Service!Recreate(p)
  PROVE  FeedsInv'
<1>1. step[p] = "wake" /\ {mine[p]} \in SUBSET Feeds
  BY DEF Service!Recreate, FeedsInv, CallsTyped, CallsAt, AtFeed
<1>2. /\ Service!Replace(p, {mine[p]})
      /\ UNCHANGED <<h_feed, lockFeeds, lockHost, mine, i_feed, entries, user, logouts>>
      /\ losses' \in 0..MaxLosses
  BY DEF Service!Recreate, Service!locks, Service!Fault, FeedsInv, FeedsTyped, ServiceAssumption
<1>3. a_feeds' = a_feeds \/ a_feeds' = Service!RemoveFirst(a_feeds, mine[p])
  BY DEF Service!Recreate
<1>4. /\ a_feeds' \in Seq(Feeds)
      /\ \A i, j \in 1..Len(a_feeds') : a_feeds'[i] = a_feeds'[j] => i = j
      /\ \A i \in 1..Len(a_feeds') : \E j \in 1..Len(a_feeds) : a_feeds'[i] = a_feeds[j]
  <2>1. a_feeds \in Seq(Feeds) /\ \A i, j \in 1..Len(a_feeds) : a_feeds[i] = a_feeds[j] => i = j
    BY DEF FeedsInv, FeedsTyped, FeedsListed
  <2>2. CASE a_feeds' = a_feeds
    BY <2>1, <2>2
  <2>3. CASE a_feeds' = Service!RemoveFirst(a_feeds, mine[p])
    <3>1. PICK r : r = Service!RemoveFirst(a_feeds, mine[p])
      OBVIOUS
    <3>2. /\ r \in Seq(Feeds)
          /\ \A i, j \in 1..Len(r) : r[i] = r[j] => i = j
          /\ \A i \in 1..Len(r) : \E j \in 1..Len(a_feeds) : r[i] = a_feeds[j]
      BY <2>1, <3>1, RemoveOne
    <3> QED
      BY <2>3, <3>1, <3>2
  <2> QED
    BY <1>3, <2>2, <2>3
<1> QED
  BY <1>1, <1>2, <1>4, ReplaceStep

\* Connections, and logouts.
LEMMA SocketStep ==
  ASSUME ServiceAssumption, FeedsInv,
         \/ \E f \in Feeds : Service!Lose(f) \/ Service!Restarted(f)
         \/ Service!Logout \/ Service!LogoutHeard
  PROVE  FeedsInv'
<1> USE DEF FeedsInv
<1>1. UNCHANGED <<a_feeds, h_feed, marked, followed, lockFeeds, lockHost, step, mine, new, i_feed, entries>>
  BY DEF Service!Lose, Service!Restarted, Service!Logout, Service!LogoutHeard, Service!feeds,
         Service!locks, Service!calls
<1>2. /\ feedSocket' \in [Feeds -> Service!Sockets] /\ feedsDestroyed' \subseteq Feeds
      /\ \A g \in Feeds : feedSocket[g] # "none" => feedSocket'[g] # "none"
  BY DEF Service!Lose, Service!Restarted, Service!Logout, Service!LogoutHeard, Service!feeds,
         Service!Closed, FeedsTyped, Service!Sockets
<1>3. /\ user' \in {"in", "leaving", "out"} /\ losses' \in 0..MaxLosses /\ logouts' \in 0..MaxLogouts
  BY DEF Service!Lose, Service!Restarted, Service!Logout, Service!LogoutHeard, Service!bounds,
         Service!Fault, FeedsTyped, ServiceAssumption
<1>4. FeedsTyped' /\ CallsTyped' /\ LocksHeld' /\ CallsAt'
  BY <1>1, <1>2, <1>3 DEF FeedsTyped, CallsTyped, LocksHeld, CallsAt
<1>5. FeedsListed' /\ NewUnlisted'
  BY <1>1, <1>2 DEF FeedsListed, NewUnlisted, FeedsTyped, CallsTyped
<1> QED
  BY <1>4, <1>5

\* The list has every feed once, and no feed that is being created
\* (check_network_feeds(), wake()).
THEOREM FeedsInductive == ServiceAssumption => (Service!Spec => []FeedsInv)
<1> SUFFICES ASSUME ServiceAssumption PROVE Service!Spec => []FeedsInv
  OBVIOUS
<1>1. Service!Init => FeedsInv
  BY FeedsInit
<1>2. FeedsInv /\ [Service!Next]_(Service!vars) => FeedsInv'
  <2> SUFFICES ASSUME FeedsInv, [Service!Next]_(Service!vars) PROVE FeedsInv'
    OBVIOUS
  <2>1. CASE UNCHANGED Service!vars
    BY <2>1 DEF FeedsInv, FeedsTyped, CallsTyped, LocksHeld, CallsAt, FeedsListed, NewUnlisted,
                Service!vars, Service!feeds, Service!locks, Service!calls, Service!bounds
  <2>2. ASSUME NEW p \in Service!Calls, Service!Step(p) \/ Service!Ask(p) \/ Service!Refused(p)
        PROVE  FeedsInv'
    <3>1. CASE Service!Opened(p) \/ Service!Followed(p) \/ Service!NextFeed(p)
      BY <3>1, OpenedStep, FollowedStep, NextFeedStep
    <3>2. CASE Service!Awake(p) \/ Service!Refused(p)
      BY <3>2, EndStep
    <3>3. CASE Service!Recreate(p) \/ (p \in Checks /\ (Service!CreateAll(p) \/ Service!FollowNew(p)))
      BY <3>3, RecreateStep, CreateAllStep, FollowNewStep
    <3>4. CASE \/ Service!Ask(p) \/ Service!Hang(p)
               \/ p \in Checks /\ (Service!Check(p) \/ Service!HasFeeds(p) \/ Service!HangAgain(p))
               \/ p \in Wakes /\ (Service!Wake(p) \/ Service!WakeLock(p))
      BY <3>4, FeedCallStep
    <3> QED
      BY <2>2, <3>1, <3>2, <3>3, <3>4 DEF Service!Step
  <2>3. ASSUME NEW c \in Checks, Service!Offline(c) \/ Service!Login(c)
        PROVE  FeedsInv'
    <3>1. c \in Service!Calls
      BY DEF Service!Calls
    <3> QED
      BY <2>3, <3>1, FeedCallStep, EndStep
  <2> QED
    BY <2>1, <2>2, <2>3, SocketStep DEF Service!Next
<1> QED
  BY <1>1, <1>2, PTL DEF Service!Spec

\* Whatever checks, wake instructions, logouts and lost connections do, the list has
\* every feed once, and only a call that has its lock works on the feeds
\* (check_network_feeds(), wake()).
THEOREM FeedsTypeCorrect == ServiceAssumption => (Service!Spec => []Service!TypeOK)
<1>1. FeedsInv => Service!TypeOK
  <2> SUFFICES ASSUME FeedsInv PROVE Service!TypeOK
    OBVIOUS
  <2>1. DOMAIN a_feeds = 1..Len(a_feeds)
    BY DEF FeedsInv, FeedsTyped
  <2>2. Service!IsInjective(a_feeds)
    BY <2>1 DEF FeedsInv, FeedsListed, Service!IsInjective
  <2> QED
    BY <2>2 DEF FeedsInv, FeedsTyped, CallsTyped, LocksHeld, Service!TypeOK
<1> QED
  BY <1>1, FeedsInductive, PTL
=============================================================================
