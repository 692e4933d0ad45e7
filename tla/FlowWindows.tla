----------------------------- MODULE FlowWindows -----------------------------
(***************************************************************************)
(* The windows of the flows of FlowLanes: open_flow_query() of             *)
(* script/msg-flow.ts, which listens for the port of its window, with its  *)
(* PulseMonitor and its shutdown after a disconnection, and the page       *)
(* entry/flow.ts at the other end.                                         *)
(***************************************************************************)
EXTENDS FlowLanes

VARIABLES win,  \* the window of each request
          port  \* the service's side of its port

allvars == <<vars, win, port>>

Windows == {"none", "loading", "shown", "responded", "closed"}

\* "waiting": f_port_listener is registered; "connected": k_monitor runs, since the
\* page sends a heartbeat at once and ever after; "lost": disconnected a moment ago;
\* "deaf": a connection within that moment has called off shutdown and monitor.
Ports == {"none", "waiting", "connected", "lost", "deaf", "down"}

\* Types; a flow has a window from its opening on, and none is over while its port is
\* listened to.
WindowsTypeOK ==
  /\ TypeOK
  /\ win \in [Requests -> Windows] /\ port \in [Requests -> Ports]
  /\ \A r \in Requests : port[r] \in {"waiting", "connected", "lost"} => state[r] = "open"
  /\ \A r \in Requests : state[r] \in {"open", "answered"} <=> win[r] # "none"

WindowsInit ==
  /\ Init
  /\ win = [r \in Requests |-> "none"] /\ port = win
-----------------------------------------------------------------------------
\* A flow that opens in a step of the lanes launches its window and listens for it.
Launch ==
  LET opens == {r \in Requests : state[r] # "open" /\ state'[r] = "open"}
  IN /\ win' = [r \in Requests |-> IF r \in opens THEN "loading" ELSE win[r]]
     /\ port' = [r \in Requests |-> IF r \in opens THEN "waiting" ELSE port[r]]

Ask(r) ==
  /\ Request(r) \/ TabChanged(r)
  /\ Launch

\* reloaded_connection(), for a port of any name.
CalledOff(p) == [q \in Requests |-> IF p[q] = "lost" THEN "deaf" ELSE p[q]]

\* The page has loaded and connects; nobody else hears a second connection.
Connect(r) ==
  /\ Between /\ win[r] = "loading"
  /\ win' = [win EXCEPT ![r] = "shown"]
  /\ port' = [CalledOff(port) EXCEPT ![r] = IF @ = "waiting" THEN "connected" ELSE @]
  /\ UNCHANGED vars

\* A window that is no flow connects to the service.
OtherConnect ==
  /\ Between /\ \E q \in Requests : port[q] = "lost"
  /\ port' = CalledOff(port)
  /\ UNCHANGED <<vars, win>>

\* The user answers, or the page fails: completeFlow or reportError of who listens,
\* and the query resolves; what becomes of the window then concerns nobody.
Respond(r) ==
  /\ Between /\ win[r] = "shown"
  /\ win' = [win EXCEPT ![r] = "responded"]
  /\ IF port[r] = "connected"
       THEN Answer(r) /\ port' = [port EXCEPT ![r] = "down"]
       ELSE UNCHANGED <<vars, port>>

\* A page goes, and with it its end of the port.
Unload(r, to) ==
  /\ Between
  /\ win' = [win EXCEPT ![r] = to]
  /\ port' = [port EXCEPT ![r] = IF @ = "connected" THEN "lost" ELSE @]
  /\ UNCHANGED vars

UserCloses(r) == win[r] \in {"loading", "shown"} /\ Unload(r, "closed")

Reload(r) == win[r] = "shown" /\ port[r] = "connected" /\ Unload(r, "loading")

\* shutdown(): the query resolves as cancelled.
Shutdown(r) ==
  /\ port' = [port EXCEPT ![r] = "down"]
  /\ Answer(r)

\* A second after the disconnection.
ShutdownTimer(r) ==
  /\ Between /\ port[r] = "lost"
  /\ Shutdown(r)
  /\ UNCHANGED win

\* Mutation: tardy() disconnects the port and leaves the rest to a listener.
TardySilent(r) ==
  /\ Between /\ port[r] = "connected"
  /\ port' = [port EXCEPT ![r] = "down"]
  /\ win' = [win EXCEPT ![r] = "closed"]
  /\ UNCHANGED vars

\* tardy(): no heartbeat has come for too long; the port is closed, and the window
\* with it.
Tardy(r) ==
  /\ Between /\ port[r] = "connected"
  /\ Shutdown(r)
  /\ win' = [win EXCEPT ![r] = "closed"]

Happens(r) ==
  \/ (TabsGet(r) \/ Resume(r) \/ Condition(r)) /\ Launch
  \/ Connect(r) \/ ShutdownTimer(r)

WindowsNext ==
  \/ \E r \in Requests :
       Ask(r) \/ Happens(r) \/ Respond(r) \/ UserCloses(r) \/ Reload(r) \/ Tardy(r)
  \/ OtherConnect

WindowsSpec == WindowsInit /\ [][WindowsNext]_allvars

\* Callbacks resolve and events are delivered; every window loads, and is answered
\* or closed in the end.
FairWindowsSpec ==
  /\ WindowsSpec
  /\ \A r \in Requests :
       WF_allvars(Happens(r)) /\ SF_allvars(Respond(r) \/ UserCloses(r))
-----------------------------------------------------------------------------
\* Nobody listens for the answer of the window any more: it was closed before it
\* connected, or another connection has called its shutdown off.
Unheard(r) == port[r] = "deaf" \/ (port[r] = "waiting" /\ win[r] = "closed")

\* Every flow ends, whether its window answers, fails, is closed or stops to
\* respond, as long as it is heard (shutdown() and tardy()).
Resolves == \A r \in Requests : state[r] = "open" ~> state[r] = "answered" \/ Unheard(r)

\* A queued request gets its turn, unless one before it failed its condition or is not
\* heard, which keep the lane, or one queued up after the lane was freed, which waits for
\* a flow that nobody has asked for (the queue of open_flow()).
QueueServed == \A r \in Requests : state[r] = "queued" ~>
  state[r] # "queued" \/ In("refused") # {} \/ "late" \in met \/ \E q \in Requests : Unheard(q)
=============================================================================
