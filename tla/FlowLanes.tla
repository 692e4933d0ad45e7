----------------------------- MODULE FlowLanes -----------------------------
(***************************************************************************)
(* The lane of one tab in open_flow() of script/msg-flow.ts: the service   *)
(* shows the windows of a page's requests one after the other.  Everything *)
(* runs on the event loop of the service, and anything may happen while a  *)
(* request awaits tabs.get or its condition.                               *)
(***************************************************************************)
EXTENDS Naturals, Sequences, FiniteSets

CONSTANTS Requests,     \* calls of open_flow() from the tab
          Intent,       \* si_intent of each request
          Conditional,  \* requests with a condition
          None

VARIABLES busy,       \* g_lane.time is not 0
          intent,     \* g_lane.intent, None while there is no lane
          queue,      \* g_lane.queue
          owner,      \* the request whose g_lane.clear is installed
          listeners,  \* requests whose tab listeners are registered
          state,      \* how far each request has come
          met         \* history: what the lane has met, which no guard reads

vars == <<busy, intent, queue, owner, listeners, state, met>>

States == {"idle", "tabsGet", "queued", "resumed", "condition", "open",
           "answered", "ignored", "tabGone", "refused"}

\* "tabChanged": the tab has changed under a flow; "overtaken": the lane was taken while
\* a request awaited its condition; "late": it was freed while one awaited tabs.get.
Mishaps == {"tabChanged", "overtaken", "late"}

TypeOK ==
  /\ busy \in BOOLEAN /\ met \subseteq Mishaps
  /\ intent \in {Intent[r] : r \in Requests} \cup {None}
  /\ queue \in Seq(Requests)
  /\ owner \in Requests \cup {None}
  /\ listeners \subseteq Requests
  /\ state \in [Requests -> States]
  /\ \A r \in Requests : state[r] = "queued" <=> \E i \in DOMAIN queue : queue[i] = r

Init ==
  /\ busy = FALSE /\ met = {}
  /\ intent = None /\ owner = None
  /\ queue = <<>>
  /\ listeners = {}
  /\ state = [r \in Requests |-> "idle"]

In(s) == {r \in Requests : state[r] = s}

\* A dequeued request goes on in a microtask, before the next event.
Between == In("resumed") = {}

\* The listeners, the clear function and the time are set, and the window opens.
Open(r) ==
  /\ state' = [state EXCEPT ![r] = "open"]
  /\ listeners' = listeners \cup {r}
  /\ owner' = r
  /\ busy' = TRUE

\* A request that has the lane checks its condition first, if it has one.
Proceed(r) ==
  \/ r \notin Conditional /\ Open(r)
  \/ /\ r \in Conditional
     /\ state' = [state EXCEPT ![r] = "condition"]
     /\ UNCHANGED <<busy, owner, listeners>>

\* A request with the intent of the lane or of one in its queue.
Repeated(r) ==
  \/ Intent[r] = intent
  \/ \E i \in DOMAIN queue : Intent[queue[i]] = Intent[r]

\* Mutation: whether the lane is taken is not looked at.
RequestAtOnce(r) ==
  /\ Between /\ state[r] = "idle"
  /\ intent' = IF intent = None THEN Intent[r] ELSE intent
  /\ Proceed(r)
  /\ UNCHANGED <<queue, met>>

\* open_flow(), up to its first await.
Request(r) ==
  /\ Between /\ state[r] = "idle"
  /\ intent' = IF intent = None THEN Intent[r] ELSE intent
  /\ \/ ~busy /\ Proceed(r)
     \/ /\ busy
        /\ state' = [state EXCEPT ![r] = IF Repeated(r) THEN "ignored" ELSE "tabsGet"]
        /\ UNCHANGED <<busy, owner, listeners>>
  /\ UNCHANGED <<queue, met>>

\* tabs.get returns and the request queues up, whether or not the lane is still taken;
\* or the tab is gone.
TabsGet(r) ==
  /\ Between /\ state[r] = "tabsGet"
  /\ \/ /\ state' = [state EXCEPT ![r] = "queued"]
        /\ queue' = Append(queue, r)
        /\ met' = IF ~busy /\ In("condition") = {} THEN met \cup {"late"} ELSE met
     \/ state' = [state EXCEPT ![r] = "tabGone"] /\ UNCHANGED <<queue, met>>
  /\ UNCHANGED <<busy, intent, owner, listeners>>

Resume(r) ==
  /\ state[r] = "resumed"
  /\ Proceed(r)
  /\ UNCHANGED <<intent, queue, met>>

\* The condition resolves: the window opens, whether or not another has taken the lane,
\* or the request throws.
Condition(r) ==
  /\ Between /\ state[r] = "condition"
  /\ \/ /\ Open(r)
        /\ met' = IF busy THEN met \cup {"overtaken"} ELSE met
     \/ /\ state' = [state EXCEPT ![r] = "refused"]
        /\ UNCHANGED <<busy, owner, listeners, met>>
  /\ UNCHANGED <<intent, queue>>

\* Mutation: a resumed request stays in the queue.
DequeueTwice(states) ==
  IF queue = <<>>
    THEN state' = states /\ UNCHANGED <<queue, intent>>
    ELSE /\ state' = [states EXCEPT ![Head(queue)] = "resumed"]
         /\ intent' = Intent[Head(queue)]
         /\ UNCHANGED queue

\* Mutation: clearing the lane fires up nobody.
DequeueNobody(states) == state' = states /\ UNCHANGED <<queue, intent>>

\* The first of the queue gets the lane, if there is one.
Dequeue(states) ==
  IF queue = <<>>
    THEN state' = states /\ UNCHANGED <<queue, intent>>
    ELSE /\ state' = [states EXCEPT ![Head(queue)] = "resumed"]
         /\ queue' = Tail(queue)
         /\ intent' = Intent[Head(queue)]

\* Mutation: clear() does not remove its owner's listeners.
ClearListening(states) ==
  /\ busy' = FALSE
  /\ Dequeue(states)
  /\ UNCHANGED <<owner, listeners>>

\* g_lane.clear(): the function its owner installed, whoever calls it.
Clear(states) ==
  /\ listeners' = listeners \ {owner}
  /\ busy' = FALSE
  /\ Dequeue(states)
  /\ UNCHANGED owner

\* The query of a flow resolves: its window has answered or is gone.
Answer(r) ==
  /\ Between /\ state[r] = "open"
  /\ Clear([state EXCEPT ![r] = "answered"])
  /\ UNCHANGED met

\* The tab is removed, reloaded or navigates: a listener clears the lane, whoever has it.
TabChanged(r) ==
  /\ Between /\ r \in listeners
  /\ Clear(state)
  /\ met' = met \cup {"tabChanged"}

Next == \E r \in Requests :
  \/ Request(r) \/ TabsGet(r) \/ Resume(r) \/ Condition(r)
  \/ Answer(r) \/ TabChanged(r)

Spec == Init /\ [][Next]_vars
-----------------------------------------------------------------------------
\* A tab shows one flow at a time, until it changes under one, or another takes the lane
\* while a request awaits its condition (the lanes of open_flow()).
OneFlowPerTab == Cardinality(In("open")) <= 1 \/ met \cap {"tabChanged", "overtaken"} # {}

\* No flow that is over leaves tab listeners behind, also when it is the tab or the end of
\* an earlier flow that cleared its lane, unless two have taken the lane (clear()).
ListenersGone == listeners \subseteq In("open") \/ "overtaken" \in met

\* What the code says it does with a request it ignores ("ignore repeat flows"): another
\* with its intent is asked for and not over yet (open_flow()).
OnlyRepeatsIgnored == [][\A r \in Requests :
  state'[r] = "ignored" /\ state[r] # "ignored" =>
    \E q \in Requests : /\ Intent[q] = Intent[r]
                       /\ state[q] \in {"tabsGet", "queued", "resumed", "condition", "open"}]_state
=============================================================================
