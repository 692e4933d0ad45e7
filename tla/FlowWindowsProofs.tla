-------------------------- MODULE FlowWindowsProofs --------------------------
(***************************************************************************)
(* The windows of the flows implement the lanes, and with that a tab shows *)
(* one flow at a time and no flow leaves listeners behind, for any         *)
(* requests, intents and conditions.                                       *)
(***************************************************************************)
EXTENDS FlowWindows, FiniteSetTheorems, TLAPS

\* A request is in the queue once.
QueuedOnce == \A i, j \in 1..Len(queue) : queue[i] = queue[j] => i = j

\* A request that was dequeued goes on before anything else happens, with a free lane.
LaneInv ==
  /\ \A r, u \in Requests : state[r] = "resumed" /\ state[u] = "resumed" => r = u
  /\ \A r \in Requests : state[r] = "resumed" => ~busy

\* Unless two have taken the lane, the only listeners are those of its owner, while it
\* is taken.
ListenInv == "overtaken" \notin met =>
  /\ listeners \subseteq {owner} \cap In("open")
  /\ listeners # {} => busy

\* Until then, or until the tab changes, an open flow has the lane, and no other does.
OpenInv == met \cap {"tabChanged", "overtaken"} = {} =>
  /\ \A r, u \in Requests : state[r] = "open" /\ state[u] = "open" => r = u
  /\ \A r \in Requests : state[r] = "open" => busy

LanesInv == LaneInv /\ ListenInv /\ OpenInv

IInv == TypeOK /\ QueuedOnce /\ LanesInv
-----------------------------------------------------------------------------
(* The queue. *)

\* The type invariant as it is used below.
QueueInv ==
  /\ queue \in Seq(Requests)
  /\ \A r \in Requests : state[r] = "queued" <=> \E i \in 1..Len(queue) : queue[i] = r

LEMMA TypeParts ==
  TypeOK <=> /\ busy \in BOOLEAN /\ met \subseteq Mishaps
             /\ intent \in {Intent[r] : r \in Requests} \cup {None}
             /\ owner \in Requests \cup {None}
             /\ listeners \subseteq Requests
             /\ state \in [Requests -> States]
             /\ QueueInv
<1>1. ASSUME queue \in Seq(Requests) PROVE DOMAIN queue = 1..Len(queue)
  BY <1>1
<1> QED
  BY <1>1 DEF TypeOK, QueueInv

\* And as it is after a step.
LEMMA TypeNext ==
  ASSUME /\ busy' \in BOOLEAN /\ met' \subseteq Mishaps
         /\ intent' \in {Intent[r] : r \in Requests} \cup {None}
         /\ owner' \in Requests \cup {None}
         /\ listeners' \subseteq Requests
         /\ state' \in [Requests -> States]
         /\ QueueInv'
  PROVE  TypeOK'
<1>1. DOMAIN queue' = 1..Len(queue')
  BY DEF QueueInv
<1> QED
  BY <1>1 DEF TypeOK, QueueInv

\* Who is dequeued was in the queue, and is the only one that goes on.
LEMMA DequeueFacts ==
  ASSUME QueueInv, QueuedOnce, NEW states \in [Requests -> States],
         \A r \in Requests : states[r] = "queued" <=> state[r] = "queued",
         intent \in {Intent[r] : r \in Requests} \cup {None},
         Dequeue(states)
  PROVE  /\ QueueInv' /\ QueuedOnce' /\ state' \in [Requests -> States]
         /\ intent' \in {Intent[r] : r \in Requests} \cup {None}
         /\ \/ state' = states
            \/ \E h \in Requests : states[h] = "queued" /\ state' = [states EXCEPT ![h] = "resumed"]
<1>1. CASE queue = <<>>
  BY <1>1 DEF Dequeue, QueueInv, QueuedOnce
<1>2. CASE queue # <<>>
  <2>1. PICK h : h = Head(queue)
    OBVIOUS
  <2>2. /\ h = queue[1] /\ 1 \in 1..Len(queue) /\ h \in Requests
        /\ queue' = Tail(queue) /\ queue' \in Seq(Requests)
        /\ Len(queue') = Len(queue) - 1 /\ Len(queue) \in Nat
        /\ \A i \in 1..Len(queue') : i + 1 \in 1..Len(queue) /\ queue'[i] = queue[i + 1]
        /\ \A i \in 1..Len(queue) : i # 1 => i - 1 \in 1..Len(queue') /\ queue[i] = queue'[i - 1]
    BY <1>2, <2>1 DEF Dequeue, QueueInv
  <2>3. state' = [states EXCEPT ![h] = "resumed"] /\ intent' = Intent[h]
    BY <1>2, <2>1 DEF Dequeue
  <2>4. states[h] = "queued"
    BY <2>2 DEF QueueInv
  <2>5. state' \in [Requests -> States]
    BY <2>2, <2>3 DEF States
  <2>6. QueuedOnce'
    <3>1. ASSUME NEW i \in 1..Len(queue'), NEW j \in 1..Len(queue'), queue'[i] = queue'[j]
          PROVE  i = j
      <4>1. i + 1 = j + 1
        BY <2>2, <3>1 DEF QueuedOnce
      <4> QED
        BY <4>1
    <3> QED
      BY <3>1 DEF QueuedOnce
  <2>7. QueueInv'
    <3>1. ASSUME NEW r \in Requests, state'[r] = "queued"
          PROVE  \E i \in 1..Len(queue') : queue'[i] = r
      <4>1. r # h /\ state[r] = "queued"
        BY <2>3, <2>4, <2>5, <3>1
      <4>2. PICK i \in 1..Len(queue) : queue[i] = r
        BY <4>1 DEF QueueInv
      <4> QED
        BY <2>2, <4>1, <4>2
    <3>2. ASSUME NEW i \in 1..Len(queue') PROVE state'[queue'[i]] = "queued"
      <4>1. queue'[i] # h /\ queue'[i] \in Requests
        <5>1. i + 1 \in 1..Len(queue) /\ queue'[i] = queue[i + 1] /\ i + 1 # 1
          BY <2>2
        <5>2. queue[i + 1] \in Requests
          BY <5>1 DEF QueueInv
        <5> QED
          BY <2>2, <5>1, <5>2 DEF QueuedOnce
      <4>2. state[queue'[i]] = "queued"
        BY <2>2, <4>1 DEF QueueInv
      <4> QED
        BY <2>3, <4>1, <4>2
    <3> QED
      BY <2>2, <3>1, <3>2 DEF QueueInv
  <2> QED
    BY <2>2, <2>3, <2>4, <2>5, <2>6, <2>7
<1> QED
  BY <1>1, <1>2

\* Who is enqueued was not in the queue.
LEMMA EnqueueFacts ==
  ASSUME QueueInv, QueuedOnce, state \in [Requests -> States], NEW r \in Requests,
         state[r] # "queued", state' = [state EXCEPT ![r] = "queued"], queue' = Append(queue, r)
  PROVE  QueueInv' /\ QueuedOnce' /\ state' \in [Requests -> States]
<1>1. /\ queue' \in Seq(Requests) /\ Len(queue') = Len(queue) + 1 /\ Len(queue) \in Nat
      /\ queue'[Len(queue')] = r /\ \A i \in 1..Len(queue) : queue'[i] = queue[i]
  BY DEF QueueInv
<1>2. \A i \in 1..Len(queue) : queue[i] # r
  BY DEF QueueInv
<1>3. state' \in [Requests -> States]
  BY DEF States
<1>4. QueuedOnce'
  BY <1>1, <1>2 DEF QueuedOnce
<1>5. ASSUME NEW u \in Requests, state'[u] = "queued"
      PROVE  \E i \in 1..Len(queue') : queue'[i] = u
  <2>1. CASE u = r
    BY <1>1, <2>1
  <2>2. CASE u # r
    <3>1. state[u] = "queued"
      BY <1>5, <2>2
    <3>2. PICK i \in 1..Len(queue) : queue[i] = u
      BY <3>1 DEF QueueInv
    <3> QED
      BY <1>1, <3>2
  <2> QED
    BY <2>1, <2>2
<1>6. ASSUME NEW i \in 1..Len(queue') PROVE state'[queue'[i]] = "queued"
  <2>1. CASE i \in 1..Len(queue)
    <3>1. queue'[i] = queue[i] /\ queue[i] \in Requests
      BY <1>1, <2>1 DEF QueueInv
    <3>2. state[queue[i]] = "queued"
      BY <2>1, <3>1 DEF QueueInv
    <3> QED
      BY <3>1, <3>2
  <2>2. CASE i = Len(queue')
    BY <1>1, <2>2
  <2> QED
    BY <1>1, <2>1, <2>2
<1>7. QueueInv'
  BY <1>1, <1>5, <1>6 DEF QueueInv
<1> QED
  BY <1>3, <1>4, <1>7

\* A step of the states that concerns nobody in the queue.
LEMMA SameQueue ==
  ASSUME QueueInv, QueuedOnce, UNCHANGED queue, state \in [Requests -> States],
         NEW r \in Requests, NEW s \in States \ {"queued"}, state[r] # "queued",
         state' = [state EXCEPT ![r] = s]
  PROVE  QueueInv' /\ QueuedOnce' /\ state' \in [Requests -> States]
BY DEF QueueInv, QueuedOnce
-----------------------------------------------------------------------------
(* The lanes, whatever happens during the awaits of open_flow(). *)

LEMMA Initially == ASSUME Init PROVE IInv
<1>1. QueueInv /\ QueuedOnce
  BY DEF Init, QueueInv, QueuedOnce
<1>2. state \in [Requests -> States]
  BY DEF Init, States
<1>3. TypeOK
  BY <1>1, <1>2, TypeParts DEF Init
<1>4. LanesInv
  BY DEF Init, LanesInv, LaneInv, ListenInv, OpenInv
<1> QED
  BY <1>1, <1>3, <1>4 DEF IInv

\* A request opens its flow; if the lane is not free, this is noted.
LEMMA OpenStep ==
  ASSUME IInv, NEW r \in Requests, state[r] \notin {"queued", "open"},
         \A u \in Requests : state[u] = "resumed" => u = r,
         UNCHANGED queue, Open(r), met' = IF busy THEN met \cup {"overtaken"} ELSE met,
         intent' \in {Intent[u] : u \in Requests} \cup {None}
  PROVE  IInv'
<1>0. /\ busy \in BOOLEAN /\ met \subseteq Mishaps /\ owner \in Requests \cup {None}
      /\ listeners \subseteq Requests /\ state \in [Requests -> States] /\ QueueInv /\ QueuedOnce
      /\ met' \subseteq Mishaps
  BY TypeParts DEF IInv, Mishaps
<1>1. /\ state' = [state EXCEPT ![r] = "open"] /\ listeners' = listeners \cup {r}
      /\ owner' = r /\ busy' = TRUE
  BY DEF Open
<1>2. QueueInv' /\ QueuedOnce' /\ state' \in [Requests -> States]
  BY <1>0, <1>1, SameQueue DEF States
<1>3. TypeOK'
  BY <1>0, <1>1, <1>2, TypeNext
<1>4. LaneInv'
  BY <1>0, <1>1 DEF LaneInv
<1>5. ListenInv'
  <2>1. SUFFICES ASSUME "overtaken" \notin met' PROVE listeners' = {r} /\ r \in In("open")'
    BY <1>1 DEF ListenInv
  <2>2. ~busy /\ "overtaken" \notin met
    BY <1>0, <2>1
  <2>3. listeners = {}
    BY <2>2 DEF IInv, LanesInv, ListenInv
  <2> QED
    BY <1>0, <1>1, <2>3 DEF In
<1>6. OpenInv'
  <2>1. SUFFICES ASSUME met' \cap {"tabChanged", "overtaken"} = {}
                 PROVE  \A u \in Requests : state'[u] = "open" => u = r
    BY <1>1 DEF OpenInv
  <2>2. ~busy /\ met \cap {"tabChanged", "overtaken"} = {}
    BY <1>0, <2>1
  <2>3. \A u \in Requests : state[u] # "open"
    BY <2>2 DEF IInv, LanesInv, OpenInv
  <2> QED
    BY <1>0, <1>1, <2>3
<1> QED
  BY <1>2, <1>3, <1>4, <1>5, <1>6 DEF IInv, LanesInv

\* A step of a request that neither takes nor leaves the lane.
LEMMA AsideStep ==
  ASSUME IInv, NEW r \in Requests, NEW s \in States \ {"queued", "resumed", "open"},
         state[r] \notin {"queued", "open"}, state' = [state EXCEPT ![r] = s],
         intent' \in {Intent[u] : u \in Requests} \cup {None},
         UNCHANGED <<queue, busy, owner, listeners, met>>
  PROVE  IInv'
<1>0. /\ busy \in BOOLEAN /\ met \subseteq Mishaps /\ owner \in Requests \cup {None}
      /\ listeners \subseteq Requests /\ state \in [Requests -> States] /\ QueueInv /\ QueuedOnce
  BY TypeParts DEF IInv
<1>1. QueueInv' /\ QueuedOnce' /\ state' \in [Requests -> States]
  BY <1>0, SameQueue
<1>2. TypeOK'
  BY <1>0, <1>1, TypeNext
<1>3. \A u \in Requests : state'[u] # state[u] => u = r /\ state'[u] = s
  BY <1>0
<1>4. LaneInv' /\ OpenInv'
  BY <1>0, <1>3 DEF IInv, LanesInv, LaneInv, OpenInv
<1>5. ListenInv'
  BY <1>0, <1>3 DEF IInv, LanesInv, ListenInv, In
<1> QED
  BY <1>1, <1>2, <1>4, <1>5 DEF IInv, LanesInv

\* A request with a free lane opens its flow unless it has a condition to await first.
LEMMA ProceedStep ==
  ASSUME IInv, ~busy, NEW r \in Requests, state[r] \notin {"queued", "open"},
         \A u \in Requests : state[u] = "resumed" => u = r,
         UNCHANGED <<queue, met>>, Proceed(r),
         intent' \in {Intent[u] : u \in Requests} \cup {None}
  PROVE  IInv'
<1>1. CASE Open(r)
  BY <1>1, OpenStep
<1>2. CASE /\ state' = [state EXCEPT ![r] = "condition"]
           /\ UNCHANGED <<busy, owner, listeners>>
  BY <1>2, AsideStep DEF States
<1> QED
  BY <1>1, <1>2 DEF Proceed

\* The lane is cleared, and the next of the queue goes on.
LEMMA ClearStep ==
  ASSUME IInv, \A u \in Requests : state[u] # "resumed",
         NEW states \in [Requests -> States], Clear(states),
         \A u \in Requests : states[u] = state[u] \/ (state[u] = "open" /\ states[u] = "answered"),
         met' \subseteq Mishaps, met \subseteq met',
         met' \cap {"tabChanged", "overtaken"} = {} => \A u \in Requests : states[u] # "open"
  PROVE  IInv'
<1>0. /\ intent \in {Intent[r] : r \in Requests} \cup {None}
      /\ owner \in Requests \cup {None} /\ QueueInv /\ QueuedOnce /\ listeners \subseteq Requests
  BY TypeParts DEF IInv
<1>1. listeners' = listeners \ {owner} /\ busy' = FALSE /\ owner' = owner /\ Dequeue(states)
  BY DEF Clear
<1>2. /\ QueueInv' /\ QueuedOnce' /\ state' \in [Requests -> States]
      /\ intent' \in {Intent[r] : r \in Requests} \cup {None}
      /\ \/ state' = states
         \/ \E h \in Requests : states[h] = "queued" /\ state' = [states EXCEPT ![h] = "resumed"]
  BY <1>0, <1>1, DequeueFacts
<1>3. TypeOK'
  BY <1>0, <1>1, <1>2, TypeNext
<1>4. \A u \in Requests : states[u] # "resumed"
  OBVIOUS
<1>5. \A r, u \in Requests : state'[r] = "resumed" /\ state'[u] = "resumed" => r = u
  BY <1>2, <1>4
<1>6. LaneInv'
  BY <1>1, <1>5 DEF LaneInv
<1>7. ListenInv'
  <2>1. "overtaken" \notin met' => listeners' = {}
    BY <1>1 DEF IInv, LanesInv, ListenInv
  <2> QED
    BY <2>1 DEF ListenInv
<1>8. \A u \in Requests : state'[u] = "open" => states[u] = "open"
  BY <1>2
<1>9. OpenInv'
  BY <1>8 DEF OpenInv
<1> QED
  BY <1>2, <1>3, <1>6, <1>7, <1>9 DEF IInv, LanesInv

LEMMA Step ==
  ASSUME IInv, [Next]_vars
  PROVE  IInv'
<1>0. /\ busy \in BOOLEAN /\ met \subseteq Mishaps /\ owner \in Requests \cup {None}
      /\ intent \in {Intent[r] : r \in Requests} \cup {None}
      /\ listeners \subseteq Requests /\ state \in [Requests -> States] /\ QueueInv /\ QueuedOnce
  BY TypeParts DEF IInv
<1>1. Between => \A u \in Requests : state[u] # "resumed"
  BY DEF Between, In
<1>3. ASSUME NEW r \in Requests, Request(r) PROVE IInv'
  <2>1. intent' \in {Intent[u] : u \in Requests} \cup {None}
    BY <1>0, <1>3 DEF Request
  <2>2. CASE ~busy /\ Proceed(r)
    BY <1>1, <1>3, <2>1, <2>2, ProceedStep DEF Request
  <2>3. CASE busy /\ state' = [state EXCEPT ![r] = IF Repeated(r) THEN "ignored" ELSE "tabsGet"]
             /\ UNCHANGED <<busy, owner, listeners>>
    BY <1>3, <2>1, <2>3, AsideStep DEF Request, States
  <2> QED
    BY <1>3, <2>2, <2>3 DEF Request
<1>4. ASSUME NEW r \in Requests, TabsGet(r) PROVE IInv'
  <2>1. CASE /\ state' = [state EXCEPT ![r] = "queued"] /\ queue' = Append(queue, r)
             /\ met' = IF ~busy /\ In("condition") = {} THEN met \cup {"late"} ELSE met
    <3>1. UNCHANGED <<busy, intent, owner, listeners>> /\ state[r] = "tabsGet"
      BY <1>4 DEF TabsGet
    <3>2. QueueInv' /\ QueuedOnce' /\ state' \in [Requests -> States]
      BY <1>0, <2>1, <3>1, EnqueueFacts
    <3>3. met' \subseteq Mishaps /\ met \subseteq met' /\ met' \subseteq met \cup {"late"}
      BY <1>0, <2>1 DEF Mishaps
    <3>4. TypeOK'
      BY <1>0, <3>1, <3>2, <3>3, TypeNext
    <3>5. \A u \in Requests : state'[u] # state[u] => u = r /\ state'[u] = "queued"
      BY <1>0, <2>1
    <3>6. LaneInv' /\ OpenInv'
      BY <1>0, <3>1, <3>3, <3>5 DEF IInv, LanesInv, LaneInv, OpenInv
    <3>7. ListenInv'
      BY <1>0, <3>1, <3>3, <3>5 DEF IInv, LanesInv, ListenInv, In
    <3> QED
      BY <3>2, <3>4, <3>6, <3>7 DEF IInv, LanesInv
  <2>2. CASE state' = [state EXCEPT ![r] = "tabGone"] /\ UNCHANGED <<queue, met>>
    BY <1>0, <1>4, <2>2, AsideStep DEF TabsGet, States
  <2> QED
    BY <1>4, <2>1, <2>2 DEF TabsGet
<1>5. ASSUME NEW r \in Requests, Resume(r) PROVE IInv'
  <2>1. ~busy /\ \A u \in Requests : state[u] = "resumed" => u = r
    BY <1>5 DEF Resume, IInv, LanesInv, LaneInv
  <2> QED
    BY <1>0, <1>5, <2>1, ProceedStep DEF Resume
<1>6. ASSUME NEW r \in Requests, Condition(r) PROVE IInv'
  <2>1. \A u \in Requests : state[u] = "resumed" => u = r
    BY <1>1, <1>6 DEF Condition
  <2>2. CASE Open(r) /\ met' = IF busy THEN met \cup {"overtaken"} ELSE met
    BY <1>0, <1>6, <2>1, <2>2, OpenStep DEF Condition
  <2>3. CASE /\ state' = [state EXCEPT ![r] = "refused"]
             /\ UNCHANGED <<busy, owner, listeners, met>>
    BY <1>0, <1>6, <2>3, AsideStep DEF Condition, States
  <2> QED
    BY <1>6, <2>2, <2>3 DEF Condition
<1>7. ASSUME NEW r \in Requests, Answer(r) PROVE IInv'
  <2>1. PICK states : states = [state EXCEPT ![r] = "answered"]
    OBVIOUS
  <2>2. states \in [Requests -> States]
        /\ \A u \in Requests : states[u] = state[u] \/ (state[u] = "open" /\ states[u] = "answered")
    BY <1>0, <1>7, <2>1 DEF Answer, States
  <2>3. Clear(states) /\ met' = met /\ state[r] = "open"
    BY <1>7, <2>1 DEF Answer
  <2>4. met \cap {"tabChanged", "overtaken"} = {} => \A u \in Requests : states[u] # "open"
    BY <1>0, <2>1, <2>3 DEF IInv, LanesInv, OpenInv
  <2>5. \A u \in Requests : state[u] # "resumed"
    BY <1>1, <1>7 DEF Answer
  <2> QED
    BY <1>0, <2>2, <2>3, <2>4, <2>5, ClearStep
<1>8. ASSUME NEW r \in Requests, TabChanged(r) PROVE IInv'
  <2>1. Clear(state) /\ met' = met \cup {"tabChanged"} /\ \A u \in Requests : state[u] # "resumed"
    BY <1>1, <1>8 DEF TabChanged
  <2>2. met' \subseteq Mishaps /\ met \subseteq met' /\ met' \cap {"tabChanged", "overtaken"} # {}
    BY <1>0, <2>1 DEF Mishaps
  <2> QED
    BY <1>0, <2>1, <2>2, ClearStep
<1>9. CASE UNCHANGED vars
  BY <1>9 DEF vars, IInv, TypeOK, QueuedOnce, LanesInv, LaneInv, ListenInv, OpenInv, In
<1> QED
  BY <1>3, <1>4, <1>5, <1>6, <1>7, <1>8, <1>9 DEF Next

\* The types and who has the lane are kept by every step.
THEOREM Inductive == Spec => []IInv
<1>1. Init => IInv
  BY Initially
<1>2. IInv /\ [Next]_vars => IInv'
  BY Step
<1> QED
  BY <1>1, <1>2, PTL DEF Spec
-----------------------------------------------------------------------------
(* The windows. *)

\* Every step of the windows is a step of the lanes or leaves them alone.
LEMMA ImplementsLanes == WindowsSpec => Spec
<1>1. WindowsInit => Init
  BY DEF WindowsInit
<1>2. WindowsNext => [Next]_vars
  <2>1. ASSUME NEW r \in Requests, Ask(r) PROVE Next
    BY <2>1 DEF Ask, Next
  <2>2. ASSUME NEW r \in Requests, Happens(r) PROVE [Next]_vars
    BY <2>2 DEF Happens, Connect, ShutdownTimer, Shutdown, Next
  <2>3. ASSUME NEW r \in Requests, Respond(r) PROVE [Next]_vars
    BY <2>3 DEF Respond, Next
  <2>4. ASSUME NEW r \in Requests, UserCloses(r) \/ Reload(r) PROVE [Next]_vars
    BY <2>4 DEF UserCloses, Reload, Unload
  <2>5. ASSUME NEW r \in Requests, Tardy(r) PROVE [Next]_vars
    BY <2>5 DEF Tardy, Shutdown, Next
  <2>6. CASE OtherConnect
    BY <2>6 DEF OtherConnect
  <2> QED
    BY <2>1, <2>2, <2>3, <2>4, <2>5, <2>6 DEF WindowsNext
<1>3. [WindowsNext]_allvars => [Next]_vars
  BY <1>2 DEF allvars
<1> QED
  BY <1>1, <1>3, PTL DEF WindowsSpec, Spec

\* However windows load, answer, are closed, reload or hang, and whatever happens while
\* a request awaits tabs.get or its condition, a tab shows one flow at a time until it
\* changes under one, or another takes the lane during a condition (the lanes of
\* open_flow()).
THEOREM OneFlow == WindowsSpec => []OneFlowPerTab
<1>1. IInv => OneFlowPerTab
  <2>1. SUFFICES ASSUME IInv, met \cap {"tabChanged", "overtaken"} = {}
                 PROVE  Cardinality(In("open")) <= 1
    BY DEF OneFlowPerTab
  <2>2. CASE In("open") = {}
    BY <2>2, FS_EmptySet
  <2>3. CASE In("open") # {}
    <3>1. PICK r : r \in In("open")
      BY <2>3
    <3>2. In("open") = {r}
      BY <2>1, <3>1 DEF In, IInv, LanesInv, OpenInv
    <3> QED
      <4>1. Cardinality({r}) = 1
        BY FS_Singleton
      <4> QED
        BY <3>2, <4>1
  <2> QED
    BY <2>2, <2>3
<1> QED
  BY <1>1, Inductive, ImplementsLanes, PTL

\* No flow that is over leaves tab listeners behind, whoever cleared the lane, unless two
\* have taken it (clear()).
THEOREM NoListenersLeft == WindowsSpec => []ListenersGone
<1>1. IInv => ListenersGone
  BY DEF IInv, LanesInv, ListenInv, ListenersGone
<1> QED
  BY <1>1, Inductive, ImplementsLanes, PTL
-----------------------------------------------------------------------------
(* The windows and their ports. *)

QueueTyped == TypeOK /\ QueuedOnce

\* Nobody closes a flow.
KeepsOpen ==
  /\ \A u \in Requests : state[u] = "open" => state'[u] = "open"
  /\ \A u \in Requests : state'[u] = "answered" <=> state[u] = "answered"

\* A step of the lane other than an answer.
LEMMA TypeLane ==
  ASSUME QueueTyped, NEW r \in Requests,
         Request(r) \/ TabsGet(r) \/ Resume(r) \/ Condition(r) \/ TabChanged(r)
  PROVE  QueueTyped' /\ KeepsOpen
<1>0. /\ busy \in BOOLEAN /\ met \subseteq Mishaps /\ owner \in Requests \cup {None}
      /\ intent \in {Intent[u] : u \in Requests} \cup {None}
      /\ listeners \subseteq Requests /\ state \in [Requests -> States] /\ QueueInv /\ QueuedOnce
  BY TypeParts DEF QueueTyped
<1>1. ASSUME NEW s \in States \ {"queued", "answered"}, state[r] \notin {"queued", "open", "answered"},
             state' = [state EXCEPT ![r] = s], UNCHANGED queue, met' \subseteq Mishaps,
             intent' \in {Intent[u] : u \in Requests} \cup {None},
             busy' \in BOOLEAN, owner' \in Requests \cup {None}, listeners' \subseteq Requests
      PROVE  QueueTyped' /\ KeepsOpen
  <2>1. QueueInv' /\ QueuedOnce' /\ state' \in [Requests -> States]
    BY <1>0, <1>1, SameQueue
  <2>2. TypeOK'
    BY <1>0, <1>1, <2>1, TypeNext
  <2> QED
    BY <1>0, <1>1, <2>1, <2>2 DEF QueueTyped, KeepsOpen
<1>2. ASSUME Open(r), state[r] \notin {"queued", "open", "answered"}, UNCHANGED queue,
             met' \subseteq Mishaps,
             intent' \in {Intent[u] : u \in Requests} \cup {None}
      PROVE  QueueTyped' /\ KeepsOpen
  BY <1>0, <1>1, <1>2 DEF Open, States
<1>3. ASSUME Proceed(r), state[r] \notin {"queued", "open", "answered"}, UNCHANGED queue,
             met' \subseteq Mishaps,
             intent' \in {Intent[u] : u \in Requests} \cup {None}
      PROVE  QueueTyped' /\ KeepsOpen
  BY <1>0, <1>1, <1>2, <1>3 DEF Proceed, States
<1>4. CASE Request(r)
  <2>1. /\ state[r] = "idle" /\ UNCHANGED <<queue, met>>
        /\ intent' \in {Intent[u] : u \in Requests} \cup {None}
    BY <1>0, <1>4 DEF Request
  <2>2. CASE Proceed(r)
    BY <1>0, <1>3, <2>1, <2>2
  <2>3. CASE state' = [state EXCEPT ![r] = IF Repeated(r) THEN "ignored" ELSE "tabsGet"]
             /\ UNCHANGED <<busy, owner, listeners>>
    BY <1>0, <1>1, <2>1, <2>3 DEF States
  <2> QED
    BY <1>4, <2>2, <2>3 DEF Request
<1>5. CASE TabsGet(r)
  <2>1. CASE /\ state' = [state EXCEPT ![r] = "queued"] /\ queue' = Append(queue, r)
             /\ met' = IF ~busy /\ In("condition") = {} THEN met \cup {"late"} ELSE met
    <3>1. UNCHANGED <<busy, intent, owner, listeners>> /\ state[r] = "tabsGet"
          /\ met' \subseteq Mishaps
      BY <1>0, <1>5, <2>1 DEF TabsGet, Mishaps
    <3>2. QueueInv' /\ QueuedOnce' /\ state' \in [Requests -> States]
      BY <1>0, <2>1, <3>1, EnqueueFacts
    <3>3. TypeOK'
      BY <1>0, <3>1, <3>2, TypeNext
    <3> QED
      BY <1>0, <2>1, <3>1, <3>2, <3>3 DEF QueueTyped, KeepsOpen
  <2>2. CASE state' = [state EXCEPT ![r] = "tabGone"] /\ UNCHANGED <<queue, met>>
    BY <1>0, <1>1, <1>5, <2>2 DEF TabsGet, States
  <2> QED
    BY <1>5, <2>1, <2>2 DEF TabsGet
<1>6. CASE Resume(r)
  BY <1>0, <1>3, <1>6 DEF Resume
<1>7. CASE Condition(r)
  BY <1>0, <1>1, <1>2, <1>7 DEF Condition, States, Mishaps
<1>8. CASE TabChanged(r)
  <2>1. /\ listeners' = listeners \ {owner} /\ busy' = FALSE /\ met' \subseteq Mishaps /\ owner' = owner
        /\ Dequeue(state)
    BY <1>0, <1>8 DEF TabChanged, Clear, Mishaps
  <2>2. /\ QueueInv' /\ QueuedOnce' /\ state' \in [Requests -> States]
        /\ intent' \in {Intent[u] : u \in Requests} \cup {None}
        /\ \/ state' = state
           \/ \E h \in Requests : state[h] = "queued" /\ state' = [state EXCEPT ![h] = "resumed"]
    BY <1>0, <2>1, DequeueFacts
  <2>3. TypeOK'
    BY <1>0, <2>1, <2>2, TypeNext
  <2> QED
    BY <1>0, <2>2, <2>3 DEF QueueTyped, KeepsOpen
<1> QED
  BY <1>4, <1>5, <1>6, <1>7, <1>8

\* A flow is answered, and no other is.
LEMMA TypeAnswer ==
  ASSUME QueueTyped, NEW r \in Requests, Answer(r)
  PROVE  /\ QueueTyped' /\ state[r] = "open" /\ state'[r] = "answered"
         /\ \A u \in Requests \ {r} : \A s \in {"open", "answered"} : state'[u] = s <=> state[u] = s
<1>0. /\ busy \in BOOLEAN /\ met \subseteq Mishaps /\ owner \in Requests \cup {None}
      /\ intent \in {Intent[u] : u \in Requests} \cup {None}
      /\ listeners \subseteq Requests /\ state \in [Requests -> States] /\ QueueInv /\ QueuedOnce
  BY TypeParts DEF QueueTyped
<1> DEFINE states == [state EXCEPT ![r] = "answered"]
<1>1. state[r] = "open" /\ states \in [Requests -> States]
      /\ \A u \in Requests : states[u] = IF u = r THEN "answered" ELSE state[u]
  BY <1>0 DEF Answer, States
<1>2. /\ listeners' = listeners \ {owner} /\ busy' = FALSE /\ met' = met /\ owner' = owner
      /\ Dequeue(states)
  BY DEF Answer, Clear
<1> HIDE DEF states
<1>3. /\ QueueInv' /\ QueuedOnce' /\ state' \in [Requests -> States]
      /\ intent' \in {Intent[u] : u \in Requests} \cup {None}
      /\ \/ state' = states
         \/ \E h \in Requests : states[h] = "queued" /\ state' = [states EXCEPT ![h] = "resumed"]
  <2>1. \A u \in Requests : states[u] = "queued" <=> state[u] = "queued"
    BY <1>1
  <2> QED
    BY <1>0, <1>1, <1>2, <2>1, DequeueFacts
<1>4. TypeOK'
  BY <1>0, <1>2, <1>3, TypeNext
<1> QED
  BY <1>1, <1>3, <1>4 DEF QueueTyped

\* The part of the type invariant that is about the windows.
PortsInv ==
  /\ win \in [Requests -> Windows] /\ port \in [Requests -> Ports]
  /\ \A r \in Requests : port[r] \in {"waiting", "connected", "lost"} => state[r] = "open"
  /\ \A r \in Requests : state[r] \in {"open", "answered"} <=> win[r] # "none"

LEMMA WindowsNextTyped ==
  ASSUME QueueTyped, PortsInv, [WindowsNext]_allvars
  PROVE  QueueTyped' /\ PortsInv'
<1>1. ASSUME NEW r \in Requests,
             Request(r) \/ TabsGet(r) \/ Resume(r) \/ Condition(r) \/ TabChanged(r), Launch
      PROVE  QueueTyped' /\ PortsInv'
  <2>1. QueueTyped' /\ KeepsOpen
    BY <1>1, TypeLane
  <2>2. \A u \in Requests :
          \/ state[u] # "open" /\ state'[u] = "open" /\ win'[u] = "loading" /\ port'[u] = "waiting"
          \/ win'[u] = win[u] /\ port'[u] = port[u] /\ (state'[u] = "open" => state[u] = "open")
    BY <1>1 DEF Launch
  <2>3. win' \in [Requests -> Windows] /\ port' \in [Requests -> Ports]
    BY <1>1 DEF Launch, PortsInv, Windows, Ports
  <2> QED
    BY <2>1, <2>2, <2>3 DEF PortsInv, KeepsOpen
\* The lane stays, and no port is listened to that was not.
<1>2. ASSUME UNCHANGED vars, win' \in [Requests -> Windows], port' \in [Requests -> Ports],
             \A u \in Requests : port'[u] \in {"waiting", "connected", "lost"} =>
               port[u] \in {"waiting", "connected", "lost"},
             \A u \in Requests : win'[u] = "none" <=> win[u] = "none"
      PROVE  QueueTyped' /\ PortsInv'
  <2>1. QueueTyped'
    BY <1>2 DEF vars, QueueTyped, TypeOK, QueuedOnce
  <2> QED
    BY <1>2, <2>1 DEF vars, PortsInv
\* A flow is answered, and its port is closed.
<1>3. ASSUME NEW r \in Requests, Answer(r), port' = [port EXCEPT ![r] = "down"],
             win' \in [Requests -> Windows], \A u \in Requests : win'[u] = "none" <=> win[u] = "none"
      PROVE  QueueTyped' /\ PortsInv'
  <2>1. /\ QueueTyped' /\ state[r] = "open" /\ state'[r] = "answered"
        /\ \A u \in Requests \ {r} : \A s \in {"open", "answered"} : state'[u] = s <=> state[u] = s
    BY <1>3, TypeAnswer
  <2>2. port' \in [Requests -> Ports]
    BY <1>3 DEF PortsInv, Ports
  <2> QED
    BY <1>3, <2>1, <2>2 DEF PortsInv
<1>4. ASSUME NEW r \in Requests, NEW w \in Windows \ {"none"}, win[r] # "none",
             win' = [win EXCEPT ![r] = w]
      PROVE  win' \in [Requests -> Windows] /\ \A u \in Requests : win'[u] = "none" <=> win[u] = "none"
  BY <1>4 DEF PortsInv
<1>5. ASSUME NEW r \in Requests, NEW w \in Windows \ {"none"}, win[r] # "none", Unload(r, w)
      PROVE  QueueTyped' /\ PortsInv'
  <2>1. port' \in [Requests -> Ports] /\ UNCHANGED vars
        /\ \A u \in Requests : port'[u] = port[u] \/ port[u] = "connected"
    BY <1>5 DEF Unload, PortsInv, Ports
  <2> QED
    BY <1>2, <1>4, <1>5, <2>1 DEF Unload
<1>6. ASSUME NEW r \in Requests, Connect(r) PROVE QueueTyped' /\ PortsInv'
  <2>1. port' \in [Requests -> Ports] /\ UNCHANGED vars
        /\ \A u \in Requests : port'[u] \in {port[u], "deaf"} \/ port[u] = "waiting"
    BY <1>6 DEF Connect, CalledOff, PortsInv, Ports
  <2>2. win[r] # "none" /\ win' = [win EXCEPT ![r] = "shown"]
    BY <1>6 DEF Connect
  <2> QED
    BY <1>2, <1>4, <2>1, <2>2 DEF Windows
<1>7. CASE OtherConnect
  BY <1>2, <1>7 DEF OtherConnect, CalledOff, PortsInv, Ports
<1>8. ASSUME NEW r \in Requests, Respond(r) PROVE QueueTyped' /\ PortsInv'
  <2>1. win[r] # "none" /\ win' = [win EXCEPT ![r] = "responded"]
    BY <1>8 DEF Respond
  <2>2. CASE Answer(r) /\ port' = [port EXCEPT ![r] = "down"]
    BY <1>3, <1>4, <2>1, <2>2 DEF Windows
  <2>3. CASE UNCHANGED <<vars, port>>
    BY <1>2, <1>4, <2>1, <2>3 DEF Windows, PortsInv
  <2> QED
    BY <1>8, <2>2, <2>3 DEF Respond
<1>9. ASSUME NEW r \in Requests, Tardy(r) PROVE QueueTyped' /\ PortsInv'
  <2>1. port[r] = "connected" /\ Answer(r) /\ port' = [port EXCEPT ![r] = "down"]
        /\ win' = [win EXCEPT ![r] = "closed"]
    BY <1>9 DEF Tardy, Shutdown
  <2>2. win[r] # "none"
    BY <2>1 DEF PortsInv
  <2> QED
    BY <1>3, <1>4, <2>1, <2>2 DEF Windows
<1>10. ASSUME NEW r \in Requests, ShutdownTimer(r) PROVE QueueTyped' /\ PortsInv'
  BY <1>3, <1>10 DEF ShutdownTimer, Shutdown, PortsInv
<1>11. ASSUME NEW r \in Requests, Ask(r) \/ Happens(r) PROVE QueueTyped' /\ PortsInv'
  BY <1>1, <1>6, <1>10, <1>11 DEF Ask, Happens
<1>12. ASSUME NEW r \in Requests, UserCloses(r) \/ Reload(r) PROVE QueueTyped' /\ PortsInv'
  BY <1>5, <1>12 DEF UserCloses, Reload, Windows
<1>13. CASE UNCHANGED allvars
  BY <1>2, <1>13 DEF allvars, PortsInv
<1> QED
  BY <1>7, <1>8, <1>9, <1>11, <1>12, <1>13 DEF WindowsNext

\* The types of the lanes and the windows; a flow has a window from its opening
\* on, and none is over while its port is listened to (open_flow() and
\* open_flow_query()).
THEOREM WindowsTyped == WindowsSpec => []WindowsTypeOK
<1>1. WindowsInit => QueueTyped /\ PortsInv
  <2> SUFFICES ASSUME WindowsInit PROVE QueueTyped /\ PortsInv
    OBVIOUS
  <2>1. QueueTyped
    BY Initially DEF WindowsInit, IInv, QueueTyped
  <2>2. PortsInv
    BY DEF WindowsInit, Init, PortsInv, Windows, Ports
  <2> QED
    BY <2>1, <2>2
<1>2. QueueTyped /\ PortsInv /\ [WindowsNext]_allvars => QueueTyped' /\ PortsInv'
  BY WindowsNextTyped
<1>3. WindowsSpec => [](QueueTyped /\ PortsInv)
  BY <1>1, <1>2, PTL DEF WindowsSpec
<1>4. QueueTyped /\ PortsInv => WindowsTypeOK
  BY DEF QueueTyped, PortsInv, WindowsTypeOK
<1> QED
  BY <1>3, <1>4, PTL
===============================================================================
