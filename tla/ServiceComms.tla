----------------------------- MODULE ServiceComms -----------------------------
(***************************************************************************)
(* The connection of a window to the service, extension/service-comms.ts:  *)
(* the ServiceClient of the window, the ServiceHost of the service, and    *)
(* the ports between them.  The host asks its clients to connect anew      *)
(* every 90 seconds, before the browser ends the service.                  *)
(***************************************************************************)
EXTENDS Naturals, Sequences, FiniteSets, Functions

CONSTANTS Msgs,         \* calls of send() and request()
          Requests,     \* those of request()
          MaxRefreshes, \* bound on refreshes
          MaxFaults,    \* bound on ends of the service and connections that time out
          None

ASSUME ServiceCommsAssumption ==
  /\ Requests \subseteq Msgs /\ None \notin Msgs
  /\ MaxRefreshes \in Nat /\ MaxFaults \in Nat

VARIABLES
  conn,      \* _xc_state of the client
  port,      \* _d_port, counted from 1; 0 before the first
  open,      \* the client's end of it
  obtained,  \* connect() has resolved
  timer,     \* the client connects anew in a moment
  queue,     \* _a_queued
  channels,  \* _h_channels
  outcome,   \* the promise of each call
  cut,       \* calls whose channel was open when the port went
  called,    \* calls that were posted or queued, in this order
  toHost, toClient,  \* what is on its way
  accepted,  \* the port in _h_ports of the host, 0 if there is none
  handling,  \* calls the host handles, each with its port
  received,  \* calls it has received, in this order
  answered,  \* those whose handler has returned
  wordless,  \* those whose handler has thrown an error without a message
  expiring,  \* f_expire waits for the handlers
  refreshes, faults

client == <<conn, port, open, obtained, timer>>
book == <<queue, channels, outcome, cut, called>>
host == <<accepted, handling, received, answered, wordless, expiring>>
vars == <<client, book, toHost, toClient, host, refreshes, faults>>

Frame(kind, p, m) == [kind |-> kind, port |-> p, msg |-> m]
Frames(kinds) == [kind : kinds, port : Nat, msg : Msgs \cup {None}]

\* Types; what is queued has its channel, and nothing is queued on a connection.
TypeOK ==
  /\ conn \in {"disconnected", "connecting", "connected", "paused", "disconnecting"}
  /\ port \in Nat /\ accepted \in 0..port
  /\ {open, obtained, timer, expiring} \subseteq BOOLEAN
  /\ queue \in Seq(Msgs) /\ called \in Seq(Msgs) /\ received \in Seq(Msgs)
  /\ Range(queue) \subseteq channels /\ channels \cup cut \cup answered \cup wordless \subseteq Msgs
  /\ outcome \in [Msgs -> {"idle", "refused", "pending", "resolved", "unheard"}]
  /\ toHost \in Seq(Frames({"connect", "message", "disconnect"}))
  /\ toClient \in Seq(Frames({"init", "refresh", "ack", "response", "error", "lost"}))
  /\ handling \subseteq Msgs \X (1..port)
  /\ conn = "connected" => open /\ queue = <<>>
  /\ refreshes \in 0..MaxRefreshes /\ faults \in 0..MaxFaults

Init ==
  /\ conn = "disconnected" /\ port = 0
  /\ open = FALSE /\ obtained = FALSE /\ timer = FALSE
  /\ queue = <<>> /\ called = <<>> /\ received = <<>>
  /\ channels = {} /\ cut = {} /\ answered = {} /\ wordless = {} /\ handling = {}
  /\ outcome = [m \in Msgs |-> "idle"]
  /\ toHost = <<>> /\ toClient = <<>>
  /\ accepted = 0 /\ expiring = FALSE
  /\ refreshes = 0 /\ faults = 0

Fault == faults < MaxFaults /\ faults' = faults + 1

\* The client closes its end of the port, and the calls that were not queued are cut.
Disconnect ==
  /\ toHost' = IF open THEN Append(toHost, Frame("disconnect", port, None)) ELSE toHost
  /\ open' = FALSE
  /\ cut' = cut \cup (channels \ Range(queue))
-----------------------------------------------------------------------------
(* The client. *)

\* _connect(), at first and when the timer of a refresh fires, whatever has become
\* of the client meanwhile.
Connect ==
  /\ port = 0 \/ timer
  /\ conn' = "connecting" /\ port' = port + 1 /\ open' = TRUE /\ timer' = FALSE
  /\ toHost' = Append(toHost, Frame("connect", port', None))
  /\ UNCHANGED <<obtained, book, toClient, host, refreshes, faults>>

\* send() and request().
Post(m) ==
  /\ obtained /\ outcome[m] = "idle"
  /\ \/ /\ conn = "connected"
        /\ toHost' = Append(toHost, Frame("message", port, m))
        /\ UNCHANGED queue
     \/ /\ conn = "paused"
        /\ queue' = Append(queue, m)
        /\ UNCHANGED toHost
  /\ channels' = channels \cup {m}
  /\ called' = Append(called, m)
  /\ outcome' = [outcome EXCEPT ![m] = "pending"]
  /\ UNCHANGED <<client, cut, toClient, host, refreshes, faults>>

\* They reject at once.
NotConnected(m) ==
  /\ obtained /\ outcome[m] = "idle"
  /\ conn \notin {"connected", "paused"}
  /\ outcome' = [outcome EXCEPT ![m] = "refused"]
  /\ UNCHANGED <<client, queue, channels, cut, called, toHost, toClient, host, refreshes, faults>>

\* No frame has come within 5 seconds; the state of the client stays.
ConnectTimeout ==
  /\ conn = "connecting" /\ open /\ Fault
  /\ Disconnect
  /\ UNCHANGED <<conn, port, obtained, timer, queue, channels, outcome, called,
                 toClient, host, refreshes>>

\* close(), when an answer has come or the caller waits no longer.
Close ==
  /\ obtained /\ conn # "disconnecting"
  /\ conn' = "disconnecting"
  /\ Disconnect
  /\ UNCHANGED <<port, obtained, timer, queue, channels, outcome, called, toClient, host,
                 refreshes, faults>>

\* The next frame for the client; what comes from a port it has closed is dropped.
Hear(kind) ==
  /\ toClient # <<>> /\ Head(toClient).kind = kind
  /\ open /\ Head(toClient).port = port
  /\ toClient' = Tail(toClient)

Heard == Head(toClient).msg

HearNothing ==
  /\ toClient # <<>> /\ ~(open /\ Head(toClient).port = port)
  /\ toClient' = Tail(toClient)
  /\ UNCHANGED <<client, book, toHost, host, refreshes, faults>>

\* Mutation: the last that was queued is posted first.
PostedLastFirst == [i \in DOMAIN queue |-> Frame("message", port, queue[Len(queue) + 1 - i])]

\* What was queued, for the new port.
Posted == [i \in DOMAIN queue |-> Frame("message", port, queue[i])]

\* Mutation: what was queued is posted and stays queued.
ConnectedKeeping ==
  /\ Hear("init")
  /\ conn' = "connected" /\ obtained' = TRUE
  /\ toHost' = toHost \o Posted
  /\ UNCHANGED <<port, open, timer, book, host, refreshes, faults>>

\* Mutation: the queue is not emptied on a connection.
ConnectedOnly ==
  /\ Hear("init")
  /\ conn' = "connected" /\ obtained' = TRUE
  /\ queue' = <<>>
  /\ UNCHANGED <<port, open, timer, channels, outcome, cut, called, toHost, host, refreshes, faults>>

\* The first frame: the client is connected and posts what was queued.
Connected ==
  /\ Hear("init")
  /\ conn' = "connected" /\ obtained' = TRUE
  /\ toHost' = toHost \o Posted /\ queue' = <<>>
  /\ UNCHANGED <<port, open, timer, channels, outcome, cut, called, host, refreshes, faults>>

\* The host refreshes: the client pauses and connects anew in a moment.
Refresh ==
  /\ Hear("refresh")
  /\ conn' = "paused" /\ timer' = TRUE
  /\ Disconnect
  /\ UNCHANGED <<port, obtained, queue, channels, outcome, called, host, refreshes, faults>>

\* The service was ended.
Lost ==
  /\ Hear("lost")
  /\ conn' = "disconnected" /\ open' = FALSE
  /\ cut' = cut \cup (channels \ Range(queue))
  /\ UNCHANGED <<port, obtained, timer, queue, channels, outcome, called, toHost, host,
                 refreshes, faults>>

\* A frame ends a call, whose channel is deleted; without a channel it is dropped.
Ends(to) ==
  /\ channels' = channels \ {Heard}
  /\ outcome' = IF Heard \in channels THEN [outcome EXCEPT ![Heard] = to] ELSE outcome
  /\ UNCHANGED <<client, queue, cut, called, toHost, host, refreshes, faults>>

\* Mutation: an acknowledgement is enough for a request as well.
AckAny == Hear("ack") /\ Ends("resolved")

\* An acknowledgement ends a send(); the channel of a request() persists.
Ack ==
  \/ Hear("ack") /\ Heard \notin Requests /\ Ends("resolved")
  \/ /\ Hear("ack") /\ Heard \in Requests
     /\ UNCHANGED <<client, book, toHost, host, refreshes, faults>>

Response == Hear("response") /\ Ends("resolved")

\* request() has no handler for errors: the router throws and deletes the channel.  An
\* error without a message is none to the router, which takes it for a response.
Error == Hear("error") /\ Ends("unheard")
-----------------------------------------------------------------------------
(* The host. *)

Listen(kind) ==
  /\ toHost # <<>> /\ Head(toHost).kind = kind
  /\ toHost' = Tail(toHost)

Asked == Head(toHost).msg

Reply(frames) == toClient' = toClient \o frames

\* f_connect: the port is saved under its name, which is that of the ports before.
Accept ==
  /\ Listen("connect")
  /\ accepted' = Head(toHost).port
  /\ Reply(<<Frame("init", accepted', None)>>)
  /\ UNCHANGED <<client, book, handling, received, answered, wordless, expiring,
                 refreshes, faults>>

\* f_router: the message is acknowledged and its handler starts; the browser drops
\* what is posted to a port that went with the service.
Receive ==
  /\ Listen("message")
  /\ IF Head(toHost).port = accepted
       THEN /\ Reply(<<Frame("ack", accepted, Asked)>>)
            /\ handling' = handling \cup {<<Asked, accepted>>}
            /\ received' = Append(received, Asked)
       ELSE UNCHANGED <<toClient, handling, received>>
  /\ UNCHANGED <<client, book, accepted, answered, wordless, expiring, refreshes, faults>>

\* _delete(), of whatever port has the name.
PortClosed ==
  /\ Listen("disconnect")
  /\ accepted' = 0
  /\ UNCHANGED <<client, book, toClient, handling, received, answered, wordless, expiring,
                 refreshes, faults>>

\* The handler returns or throws; a request is answered, if its port is still there, with
\* what it returned or with the message of the error, which may be empty.
Handled(m, p, end) ==
  /\ <<m, p>> \in handling /\ handling' = handling \ {<<m, p>>}
  /\ answered' = IF end = "returned" THEN answered \cup {m} ELSE answered
  /\ wordless' = IF end = "wordless" THEN wordless \cup {m} ELSE wordless
  /\ Reply(IF m \in Requests /\ p = accepted
             THEN <<Frame(IF end = "threw" THEN "error" ELSE "response", p, m)>>
             ELSE <<>>)
  /\ UNCHANGED <<client, book, toHost, accepted, received, expiring, refreshes, faults>>

\* f_expire: the client is told of the refresh, and the handlers get a second.
Expire ==
  /\ ~expiring /\ refreshes < MaxRefreshes /\ refreshes' = refreshes + 1
  /\ Reply(IF accepted # 0 THEN <<Frame("refresh", accepted, None)>> ELSE <<>>)
  /\ expiring' = (handling # {})
  /\ UNCHANGED <<client, book, toHost, accepted, handling, received, answered, wordless,
                 faults>>

\* It listens anew, whether or not they have returned.
Reopen ==
  /\ expiring /\ expiring' = FALSE
  /\ UNCHANGED <<client, book, toHost, toClient, accepted, handling, received, answered, wordless,
                 refreshes, faults>>

\* The browser ends the service, which the next connection starts again.
Kill ==
  /\ Fault
  /\ Reply(IF accepted # 0 THEN <<Frame("lost", accepted, None)>> ELSE <<>>)
  /\ accepted' = 0 /\ handling' = {} /\ expiring' = FALSE
  /\ UNCHANGED <<client, book, toHost, received, answered, wordless, refreshes>>

Returns(m) == \E p \in 1..port, end \in {"returned", "wordless", "threw"} : Handled(m, p, end)

Happens ==
  \/ Connect \/ Reopen
  \/ Connected \/ Refresh \/ Lost \/ Ack \/ Response \/ Error \/ HearNothing
  \/ Accept \/ Receive \/ PortClosed
  \/ \E m \in Msgs : Returns(m)

Next ==
  \/ \E m \in Msgs : Post(m) \/ NotConnected(m)
  \/ Happens
  \/ ConnectTimeout \/ Close \/ Expire \/ Kill

Spec == Init /\ [][Next]_vars

\* Frames arrive, timers fire, and handlers return.
FairSpec ==
  /\ Spec
  /\ WF_vars(Connect) /\ WF_vars(Accept \/ Receive \/ PortClosed)
  /\ WF_vars(Connected \/ Refresh \/ Lost \/ Ack \/ Response \/ Error \/ HearNothing)
  /\ \A m \in Msgs : WF_vars(Returns(m))
-----------------------------------------------------------------------------
\* The service receives calls in the order in which they were made, none of them
\* twice, through all refreshes (the queue of _post()).
InOrder == \A i, j \in DOMAIN received : i < j =>
  \E k, l \in DOMAIN called :
    k < l /\ called[k] = received[i] /\ called[l] = received[j]

\* What nothing tells from a response: the handler has returned, or thrown such an error.
Ended == answered \cup wordless

\* A call only resolves when the service has received it, and a request only when its
\* handler has returned or thrown an error without a message (_post() and the routers).
TrueAnswers == \A m \in Msgs : outcome[m] = "resolved" =>
  m \in Range(received) /\ (m \in Requests => m \in Ended)

\* The client has no connection and will not connect again.
Stranded == ~timer /\ conn # "connected" /\ ~(conn = "connecting" /\ open)

\* Every call is answered unless its port went first, its handler threw, or the client
\* is stranded (request() and send()).
Settles == \A m \in Msgs : outcome[m] = "pending" ~>
  outcome[m] \in {"resolved", "unheard"} \/ m \in cut \/ Stranded
===============================================================================
