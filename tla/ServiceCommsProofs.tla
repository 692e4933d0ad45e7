-------------------------- MODULE ServiceCommsProofs --------------------------
(***************************************************************************)
(* The calls of a window reach the service in order and once, and what     *)
(* resolves them is an answer to them, for any calls and any number of     *)
(* refreshes, ends of the service and timeouts.                            *)
(***************************************************************************)
EXTENDS ServiceComms, SequenceTheorems, TLAPS

ToHost == Frames({"connect", "message", "disconnect"})
ToClient == Frames({"init", "refresh", "ack", "response", "error", "lost"})
Answers == {"ack", "response", "error"}

Called(m) == \E k \in 1..Len(called) : called[k] = m

Before(m, n) == \E k, l \in 1..Len(called) : k < l /\ called[k] = m /\ called[l] = n

\* A call is listed once, when it is made.
CalledOnce ==
  /\ \A i, j \in 1..Len(called) : called[i] = called[j] => i = j
  /\ \A m \in Msgs : outcome[m] \in {"idle", "refused"} => ~Called(m)

\* What was received, is on its way to the host and is queued are calls.
AllCalled ==
  /\ \A i \in 1..Len(received) : Called(received[i])
  /\ \A i \in 1..Len(toHost) : toHost[i].kind = "message" => Called(toHost[i].msg)
  /\ \A i \in 1..Len(queue) : Called(queue[i])

\* Each of them is in order, and comes after those that are further.
Ordered ==
  /\ \A i, j \in 1..Len(received) : i < j => Before(received[i], received[j])
  /\ \A i, j \in 1..Len(toHost) :
       i < j /\ toHost[i].kind = "message" /\ toHost[j].kind = "message"
         => Before(toHost[i].msg, toHost[j].msg)
  /\ \A i, j \in 1..Len(queue) : i < j => Before(queue[i], queue[j])
  /\ \A i \in 1..Len(received), j \in 1..Len(toHost) :
       toHost[j].kind = "message" => Before(received[i], toHost[j].msg)
  /\ \A i \in 1..Len(received), j \in 1..Len(queue) : Before(received[i], queue[j])
  /\ \A i \in 1..Len(toHost), j \in 1..Len(queue) :
       toHost[i].kind = "message" => Before(toHost[i].msg, queue[j])

OrderInv == CalledOnce /\ AllCalled /\ Ordered

WasReceived(m) == \E i \in 1..Len(received) : received[i] = m

\* A frame to the host is from a port that was opened.
PortsInv ==
  /\ open => port > 0
  /\ \A i \in 1..Len(toHost) : toHost[i].port \in 1..port

\* A frame that answers a call is about one that was received, and a response about
\* one whose handler has returned or thrown an error without a message.
AnswersInv == \A i \in 1..Len(toClient) :
  /\ toClient[i].kind \in Answers => WasReceived(toClient[i].msg)
  /\ toClient[i].kind = "response" => toClient[i].msg \in Ended

\* What is handled was received.
HandlingInv == \A h \in handling : WasReceived(h[1])

FramesInv == PortsInv /\ AnswersInv /\ HandlingInv

IInv == TypeOK /\ OrderInv /\ FramesInv /\ TrueAnswers
-----------------------------------------------------------------------------
(* The parts of the type invariant as facts about indices. *)

LEMMA InRange == \A S : \A s \in Seq(S) : \A x :
  x \in Range(s) <=> \E i \in 1..Len(s) : s[i] = x
BY DEF Range

\* Frames are of their types.
LEMMA FrameType ==
  ASSUME NEW p \in Nat, NEW m \in Msgs \cup {None}
  PROVE  /\ \A k \in {"connect", "message", "disconnect"} : Frame(k, p, m) \in ToHost
         /\ \A k \in {"init", "refresh", "ack", "response", "error", "lost"} :
              Frame(k, p, m) \in ToClient
BY DEF Frame, Frames, ToHost, ToClient

\* The ports are numbers.
LEMMA PortTypes ==
  ASSUME TypeOK
  PROVE  port \in Nat /\ accepted \in Nat /\ toHost \in Seq(ToHost) /\ toClient \in Seq(ToClient)
         /\ 1..port \subseteq Nat
BY DEF TypeOK, ToHost, ToClient

\* Nothing that is queued has been received.
LEMMA QueuedNotReceived ==
  ASSUME TypeOK, OrderInv, NEW m, WasReceived(m)
  PROVE  m \notin Range(queue)
<1>1. SUFFICES ASSUME NEW i \in 1..Len(received), NEW j \in 1..Len(queue), received[i] = m, queue[j] = m
               PROVE FALSE
  BY InRange DEF WasReceived, TypeOK
<1>2. Before(m, m)
  BY <1>1 DEF OrderInv, Ordered
<1> QED
  BY <1>2 DEF Before, OrderInv, CalledOnce
-----------------------------------------------------------------------------
(* How steps change the order. *)

\* A step that makes no call, receives none and posts none keeps the order: what is
\* on its way to the host loses frames in front and gets none that is a message.
LEMMA OrderKept ==
  ASSUME OrderInv, UNCHANGED <<called, received, queue>>,
         NEW d \in Nat, Len(toHost') \in Nat,
         \A i \in 1..Len(toHost') : toHost'[i].kind = "message" =>
           i + d \in 1..Len(toHost) /\ toHost'[i] = toHost[i + d],
         \A m \in Msgs : outcome'[m] \in {"idle", "refused"} => outcome[m] \in {"idle", "refused"}
  PROVE  OrderInv'
<1>1. CalledOnce'
  BY DEF OrderInv, CalledOnce, Called
<1>2. \A m : Called(m) => Called(m)'
  BY DEF Called
<1>3. \A m, n : Before(m, n) => Before(m, n)'
  BY DEF Before
<1>4. AllCalled'
  <2>1. (\A i \in 1..Len(toHost) : toHost[i].kind = "message" => Called(toHost[i].msg))'
    BY <1>2 DEF OrderInv, AllCalled
  <2> QED
    BY <1>2, <2>1 DEF OrderInv, AllCalled
<1>5. Ordered'
  <2>1. ASSUME NEW i \in 1..Len(toHost'), NEW j \in 1..Len(toHost'), i < j,
               toHost'[i].kind = "message", toHost'[j].kind = "message"
        PROVE  Before(toHost[i].msg, toHost[j].msg)'
    <3>1. i + d < j + d /\ i + d \in 1..Len(toHost) /\ j + d \in 1..Len(toHost)
          /\ toHost'[i] = toHost[i + d] /\ toHost'[j] = toHost[j + d]
      BY <2>1
    <3>2. Before(toHost[i + d].msg, toHost[j + d].msg)
      BY <3>1, <2>1 DEF OrderInv, Ordered
    <3> QED
      BY <3>1, <3>2, <1>3
  <2>2. (\A i, j \in 1..Len(received) : i < j => Before(received[i], received[j]))'
    BY <1>3 DEF OrderInv, Ordered
  <2>3. (\A i, j \in 1..Len(queue) : i < j => Before(queue[i], queue[j]))'
    BY <1>3 DEF OrderInv, Ordered
  <2>4. (\A i \in 1..Len(received), j \in 1..Len(toHost) :
          toHost[j].kind = "message" => Before(received[i], toHost[j].msg))'
    BY <1>3 DEF OrderInv, Ordered
  <2>5. (\A i \in 1..Len(received), j \in 1..Len(queue) : Before(received[i], queue[j]))'
    BY <1>3 DEF OrderInv, Ordered
  <2>6. (\A i \in 1..Len(toHost), j \in 1..Len(queue) :
          toHost[i].kind = "message" => Before(toHost[i].msg, queue[j]))'
    BY <1>3 DEF OrderInv, Ordered
  <2> QED
    BY <2>1, <2>2, <2>3, <2>4, <2>5, <2>6 DEF Ordered
<1> QED
  BY <1>1, <1>4, <1>5 DEF OrderInv

\* A new call comes after all others.
LEMMA NewCall ==
  ASSUME called \in Seq(Msgs), NEW m \in Msgs, called' = Append(called, m)
  PROVE  /\ called'[Len(called')] = m /\ Len(called') = Len(called) + 1
         /\ \A i \in 1..Len(called) : called'[i] = called[i]
         /\ \A n : Called(n) => Called(n)'
         /\ Called(m)'
         /\ \A n, q : Before(n, q) => Before(n, q)'
         /\ \A n : Called(n) => Before(n, m)'
<1>1. /\ called'[Len(called')] = m /\ Len(called') = Len(called) + 1 /\ Len(called) \in Nat
      /\ \A i \in 1..Len(called) : called'[i] = called[i]
  OBVIOUS
<1>2. \A n : Called(n) => Called(n)'
  BY <1>1 DEF Called
<1>3. Called(m)'
  BY <1>1 DEF Called
<1>4. \A n, q : Before(n, q) => Before(n, q)'
  BY <1>1 DEF Before
<1>5. ASSUME NEW n, Called(n) PROVE Before(n, m)'
  <2>1. PICK k \in 1..Len(called) : called[k] = n
    BY <1>5 DEF Called
  <2>2. k < Len(called') /\ k \in 1..Len(called') /\ Len(called') \in 1..Len(called')
        /\ called'[k] = n
    BY <1>1, <2>1
  <2> QED
    BY <1>1, <2>2 DEF Before
<1> QED
  BY <1>1, <1>2, <1>3, <1>4, <1>5

LEMMA PostOrder ==
  ASSUME TypeOK, OrderInv, NEW m \in Msgs, Post(m)
  PROVE  OrderInv'
<1>1. called \in Seq(Msgs) /\ queue \in Seq(Msgs) /\ toHost \in Seq(ToHost) /\ called' = Append(called, m)
      /\ received' = received /\ outcome' = [outcome EXCEPT ![m] = "pending"]
      /\ outcome[m] = "idle" /\ outcome \in [Msgs -> {"idle", "refused", "pending", "resolved", "unheard"}]
  BY DEF TypeOK, ToHost, Post, host
<1>6. /\ \A n : Called(n) => Called(n)'
      /\ Called(m)'
      /\ \A n, q : Before(n, q) => Before(n, q)'
      /\ \A n : Called(n) => Before(n, m)'
  BY <1>1, NewCall
<1>2. ~Called(m)
  BY <1>1 DEF OrderInv, CalledOnce
<1>3. CalledOnce'
  <2>1. ASSUME NEW i \in 1..Len(called'), NEW j \in 1..Len(called'), called'[i] = called'[j]
        PROVE  i = j
    <3>1. \A k \in 1..Len(called) : called'[k] # m
      BY <1>1, <1>2 DEF Called
    <3> QED
      BY <1>1, <2>1, <3>1, NewCall DEF OrderInv, CalledOnce
  <2>2. ASSUME NEW n \in Msgs, outcome'[n] \in {"idle", "refused"} PROVE ~Called(n)'
    <3>1. n # m /\ ~Called(n)
      BY <1>1, <2>2 DEF OrderInv, CalledOnce
    <3> QED
      BY <1>1, <3>1, NewCall DEF Called
  <2> QED
    BY <2>1, <2>2 DEF CalledOnce
<1>4. CASE conn = "connected"
  <2>1. queue = <<>> /\ queue' = queue /\ toHost' = Append(toHost, Frame("message", port, m))
    BY <1>4 DEF TypeOK, Post
  <2>2. /\ Len(toHost') = Len(toHost) + 1 /\ Len(toHost) \in Nat
        /\ toHost'[Len(toHost')].msg = m
        /\ \A i \in 1..Len(toHost) : toHost'[i] = toHost[i]
    BY <1>1, <2>1 DEF Frame
  <2>3. AllCalled'
    <3>1. ASSUME NEW i \in 1..Len(toHost'), toHost'[i].kind = "message"
          PROVE  Called(toHost[i].msg)'
      <4>1. CASE i \in 1..Len(toHost)
        BY <2>2, <1>6, <3>1, <4>1 DEF OrderInv, AllCalled
      <4>2. CASE i = Len(toHost')
        BY <2>2, <1>6, <4>2
      <4> QED
        BY <2>2, <4>1, <4>2
    <3> QED
      BY <1>1, <1>6, <2>1, <3>1 DEF OrderInv, AllCalled
  <2>4. ASSUME NEW i \in 1..Len(toHost'), NEW j \in 1..Len(toHost'), i < j,
               toHost'[i].kind = "message", toHost'[j].kind = "message"
        PROVE  Before(toHost[i].msg, toHost[j].msg)'
    <3>1. i \in 1..Len(toHost) /\ toHost'[i] = toHost[i]
      BY <2>2, <2>4
    <3>2. CASE j \in 1..Len(toHost)
      BY <2>2, <2>4, <3>1, <3>2, <1>6 DEF OrderInv, Ordered
    <3>3. CASE j = Len(toHost')
      <4>1. Called(toHost[i].msg)
        BY <2>4, <3>1 DEF OrderInv, AllCalled
      <4> QED
        BY <2>2, <3>1, <3>3, <4>1, <1>6
    <3> QED
      BY <2>2, <3>2, <3>3
  <2>5. ASSUME NEW i \in 1..Len(received'), NEW j \in 1..Len(toHost'), toHost'[j].kind = "message"
        PROVE  Before(received[i], toHost[j].msg)'
    <3>1. i \in 1..Len(received) /\ received'[i] = received[i] /\ Called(received[i])
      BY <1>1 DEF OrderInv, AllCalled
    <3>2. CASE j \in 1..Len(toHost)
      BY <2>2, <2>5, <3>1, <3>2, <1>6 DEF OrderInv, Ordered
    <3>3. CASE j = Len(toHost')
      BY <2>2, <3>1, <3>3, <1>6
    <3> QED
      BY <2>2, <3>2, <3>3
  <2>6. (\A i, j \in 1..Len(received) : i < j => Before(received[i], received[j]))'
    BY <1>1, <1>6 DEF OrderInv, Ordered
  <2> QED
    BY <1>3, <2>1, <2>3, <2>4, <2>5, <2>6 DEF OrderInv, Ordered
<1>5. CASE conn = "paused"
  <2>1. queue' = Append(queue, m) /\ toHost' = toHost
    BY <1>5 DEF Post
  <2>2. /\ Len(queue') = Len(queue) + 1 /\ Len(queue) \in Nat
        /\ queue'[Len(queue')] = m
        /\ \A i \in 1..Len(queue) : queue'[i] = queue[i]
    BY <1>1, <2>1
  <2>3. AllCalled'
    <3>1. ASSUME NEW i \in 1..Len(queue')
          PROVE  Called(queue[i])'
      <4>1. CASE i \in 1..Len(queue)
        BY <2>2, <1>6, <4>1 DEF OrderInv, AllCalled
      <4>2. CASE i = Len(queue')
        BY <2>2, <1>6, <4>2
      <4> QED
        BY <2>2, <4>1, <4>2
    <3> QED
      BY <1>1, <1>6, <2>1, <3>1 DEF OrderInv, AllCalled
  <2>10. ASSUME NEW n, Called(n), \A j \in 1..Len(queue) : Before(n, queue[j]),
                NEW j \in 1..Len(queue')
         PROVE  Before(n, queue[j])'
    <3>1. CASE j \in 1..Len(queue)
      BY <2>2, <2>10, <3>1, <1>6
    <3>2. CASE j = Len(queue')
      BY <2>2, <2>10, <3>2, <1>6
    <3> QED
      BY <2>2, <3>1, <3>2
  <2>4. ASSUME NEW i \in 1..Len(queue'), NEW j \in 1..Len(queue'), i < j
        PROVE  Before(queue[i], queue[j])'
    <3>1. i \in 1..Len(queue) /\ queue'[i] = queue[i] /\ Called(queue[i])
      BY <2>2, <2>4 DEF OrderInv, AllCalled
    <3>2. CASE j \in 1..Len(queue)
      BY <2>2, <2>4, <3>1, <3>2, <1>6 DEF OrderInv, Ordered
    <3>3. CASE j = Len(queue')
      BY <2>2, <3>1, <3>3, <1>6
    <3> QED
      BY <2>2, <3>2, <3>3
  <2>5. (\A i \in 1..Len(received), j \in 1..Len(queue) : Before(received[i], queue[j]))'
    BY <1>1, <2>10 DEF OrderInv, AllCalled, Ordered
  <2>6. (\A i \in 1..Len(toHost), j \in 1..Len(queue) :
           toHost[i].kind = "message" => Before(toHost[i].msg, queue[j]))'
    BY <2>1, <2>10 DEF OrderInv, AllCalled, Ordered
  <2>7. (\A i, j \in 1..Len(received) : i < j => Before(received[i], received[j]))'
    BY <1>1, <1>6 DEF OrderInv, Ordered
  <2>8. (\A i, j \in 1..Len(toHost) :
           i < j /\ toHost[i].kind = "message" /\ toHost[j].kind = "message"
             => Before(toHost[i].msg, toHost[j].msg))'
    BY <1>1, <2>1, <1>6 DEF OrderInv, Ordered
  <2>9. (\A i \in 1..Len(received), j \in 1..Len(toHost) :
           toHost[j].kind = "message" => Before(received[i], toHost[j].msg))'
    BY <1>1, <2>1, <1>6 DEF OrderInv, Ordered
  <2> QED
    BY <1>3, <2>3, <2>4, <2>5, <2>6, <2>7, <2>8, <2>9 DEF OrderInv, Ordered
<1> QED
  BY <1>4, <1>5 DEF Post

\* The frames of what was queued.
LEMMA PostedFacts ==
  ASSUME TypeOK
  PROVE  /\ Posted \in Seq(ToHost) /\ Len(Posted) = Len(queue)
         /\ \A i \in 1..Len(queue) :
              Posted[i] = Frame("message", port, queue[i])
<1>1. queue \in Seq(Msgs) /\ Len(queue) \in Nat /\ DOMAIN queue = 1..Len(queue) /\ port \in Nat
  BY DEF TypeOK
<1>2. \A i \in 1..Len(queue) : Frame("message", port, queue[i]) \in ToHost
  BY <1>1 DEF ToHost, Frame, Frames
<1>3. Posted \in [1..Len(queue) -> ToHost]
  BY <1>1, <1>2 DEF Posted
<1>4. Posted \in Seq(ToHost)
  BY <1>1, <1>3, SeqDef
<1> QED
  BY <1>1, <1>3, <1>4, LenProperties DEF Posted

LEMMA ConnectedOrder ==
  ASSUME TypeOK, OrderInv, Connected
  PROVE  OrderInv'
<1> DEFINE n == Len(toHost)
<1>1. /\ toHost \in Seq(ToHost) /\ n \in Nat /\ queue' = <<>> /\ toHost' = toHost \o Posted
      /\ UNCHANGED <<called, received, outcome>>
  BY DEF TypeOK, ToHost, Connected, host
<1>2. /\ Len(toHost') = n + Len(queue) /\ Len(queue) \in Nat
      /\ \A i \in 1..n : toHost'[i] = toHost[i]
      /\ \A i \in 1..Len(toHost') : i > n => 
           i - n \in 1..Len(queue) /\ toHost'[i].msg = queue[i - n]
  <2>1. Len(queue) \in Nat
    BY DEF TypeOK
  <2>2. /\ Len(toHost') = n + Len(queue)
        /\ \A i \in 1..n + Len(queue) :
             toHost'[i] = IF i <= n THEN toHost[i] ELSE Posted[i - n]
    <3>1. Posted \in Seq(ToHost) /\ Len(Posted) = Len(queue)
      BY PostedFacts
    <3>2. /\ Len(toHost \o Posted) = Len(toHost) + Len(Posted)
          /\ \A i \in 1..Len(toHost) + Len(Posted) :
               (toHost \o Posted)[i] = IF i <= Len(toHost) THEN toHost[i] ELSE Posted[i - Len(toHost)]
      BY <1>1, <3>1, ConcatProperties
    <3> QED
      BY <1>1, <3>1, <3>2
  <2>3. ASSUME NEW i \in 1..Len(toHost'), i > n
        PROVE  i - n \in 1..Len(queue) /\ toHost'[i].msg = queue[i - n]
    <3>1. i - n \in 1..Len(queue) /\ toHost'[i] = Posted[i - n]
      BY <1>1, <2>1, <2>2, <2>3
    <3>2. Posted[i - n] = Frame("message", port, queue[i - n])
      BY <3>1, PostedFacts
    <3> QED
      BY <3>1, <3>2 DEF Frame
  <2> QED
    BY <1>1, <2>1, <2>2, <2>3
<1>3. \A m, q : Before(m, q)' = Before(m, q)
  BY <1>1 DEF Before
<1>4. \A m : Called(m)' = Called(m)
  BY <1>1 DEF Called
<1>5. (\A i \in 1..Len(toHost) : toHost[i].kind = "message" => Called(toHost[i].msg))'
  BY <1>1, <1>2, <1>4 DEF OrderInv, AllCalled
<1>6. (\A i, j \in 1..Len(toHost) :
         i < j /\ toHost[i].kind = "message" /\ toHost[j].kind = "message"
           => Before(toHost[i].msg, toHost[j].msg))'
  <2>1. SUFFICES ASSUME NEW i \in 1..Len(toHost'), NEW j \in 1..Len(toHost'), i < j,
                        toHost'[i].kind = "message", toHost'[j].kind = "message"
                 PROVE  Before(toHost'[i].msg, toHost'[j].msg)
    BY <1>3
  <2>2. CASE j <= n
    <3>1. i \in 1..n /\ j \in 1..n
      BY <1>1, <1>2, <2>1, <2>2
    <3> QED
      BY <1>2, <2>1, <3>1 DEF OrderInv, Ordered
  <2>3. CASE i <= n /\ j > n
    <3>1. i \in 1..n /\ j - n \in 1..Len(queue) /\ toHost'[j].msg = queue[j - n]
          /\ toHost'[i] = toHost[i]
      BY <1>1, <1>2, <2>1, <2>3
    <3> QED
      BY <2>1, <3>1 DEF OrderInv, Ordered
  <2>4. CASE i > n
    <3>1. i - n \in 1..Len(queue) /\ toHost'[i].msg = queue[i - n] /\ i - n < j - n
          /\ j - n \in 1..Len(queue) /\ toHost'[j].msg = queue[j - n]
      BY <1>1, <1>2, <2>1, <2>4
    <3> QED
      BY <3>1 DEF OrderInv, Ordered
  <2> QED
    BY <1>1, <1>2, <2>2, <2>3, <2>4
<1>7. (\A i \in 1..Len(received), j \in 1..Len(toHost) :
         toHost[j].kind = "message" => Before(received[i], toHost[j].msg))'
  BY <1>1, <1>2, <1>3 DEF OrderInv, Ordered
<1>8. CalledOnce'
  BY <1>1, <1>4 DEF OrderInv, CalledOnce
<1>9. (\A i, j \in 1..Len(received) : i < j => Before(received[i], received[j]))'
  BY <1>1, <1>3 DEF OrderInv, Ordered
<1>10. AllCalled'
  BY <1>1, <1>4, <1>5 DEF OrderInv, AllCalled
<1>11. Ordered'
  BY <1>1, <1>6, <1>7, <1>9 DEF Ordered
<1> QED
  BY <1>8, <1>10, <1>11 DEF OrderInv

LEMMA ReceiveOrder ==
  ASSUME TypeOK, OrderInv, Listen("message"),
         received' = Append(received, Asked),
         UNCHANGED <<called, queue, outcome>>
  PROVE  OrderInv'
<1> DEFINE n == Len(received)
<1>1. /\ toHost \in Seq(ToHost) /\ toHost # <<>> /\ toHost[1].kind = "message"
      /\ Len(toHost) \in Nat /\ Len(toHost) > 0
      /\ Len(toHost') = Len(toHost) - 1
      /\ \A i \in 1..Len(toHost') : i + 1 \in 1..Len(toHost) /\ toHost'[i] = toHost[i + 1]
  BY DEF TypeOK, ToHost, Listen
<1>2. Asked = toHost[1].msg /\ Called(Asked)
  BY <1>1 DEF Asked, OrderInv, AllCalled
<1>3. /\ n \in Nat /\ Len(received') = n + 1 /\ received'[n + 1] = toHost[1].msg
      /\ \A i \in 1..n : received'[i] = received[i]
  BY <1>2 DEF TypeOK
<1>4. \A m, q : Before(m, q)' = Before(m, q)
  BY DEF Before
<1>5. \A m : Called(m)' = Called(m)
  BY DEF Called
<1>6. CalledOnce'
  BY <1>5 DEF OrderInv, CalledOnce
<1>7. AllCalled'
  <2>1. (\A i \in 1..Len(received) : Called(received[i]))'
    BY <1>2, <1>3, <1>5 DEF OrderInv, AllCalled
  <2>2. (\A i \in 1..Len(toHost) : toHost[i].kind = "message" => Called(toHost[i].msg))'
    BY <1>1, <1>5 DEF OrderInv, AllCalled
  <2> QED
    BY <1>5, <2>1, <2>2 DEF OrderInv, AllCalled
<1>8. (\A i, j \in 1..Len(received) : i < j => Before(received[i], received[j]))'
  <2>1. SUFFICES ASSUME NEW i \in 1..Len(received'), NEW j \in 1..Len(received'), i < j
                 PROVE  Before(received'[i], received'[j])
    BY <1>4
  <2>2. i \in 1..n /\ received'[i] = received[i]
    BY <1>3, <2>1
  <2>3. CASE j \in 1..n
    BY <1>3, <2>1, <2>2, <2>3 DEF OrderInv, Ordered
  <2>4. CASE j = n + 1
    BY <1>1, <1>3, <2>2, <2>4 DEF OrderInv, Ordered
  <2> QED
    BY <1>3, <2>3, <2>4
<1>9. (\A i, j \in 1..Len(toHost) :
         i < j /\ toHost[i].kind = "message" /\ toHost[j].kind = "message"
           => Before(toHost[i].msg, toHost[j].msg))'
  <2>1. SUFFICES ASSUME NEW i \in 1..Len(toHost'), NEW j \in 1..Len(toHost'), i < j,
                        toHost'[i].kind = "message", toHost'[j].kind = "message"
                 PROVE  Before(toHost'[i].msg, toHost'[j].msg)
    BY <1>4
  <2>2. i + 1 < j + 1 /\ i + 1 \in 1..Len(toHost) /\ j + 1 \in 1..Len(toHost)
        /\ toHost'[i] = toHost[i + 1] /\ toHost'[j] = toHost[j + 1]
    BY <1>1, <2>1
  <2> QED
    BY <2>1, <2>2 DEF OrderInv, Ordered
<1>10. (\A i \in 1..Len(received), j \in 1..Len(toHost) :
          toHost[j].kind = "message" => Before(received[i], toHost[j].msg))'
  <2>1. SUFFICES ASSUME NEW i \in 1..Len(received'), NEW j \in 1..Len(toHost'),
                        toHost'[j].kind = "message"
                 PROVE  Before(received'[i], toHost'[j].msg)
    BY <1>4
  <2>2. j + 1 \in 1..Len(toHost) /\ toHost'[j] = toHost[j + 1] /\ 1 < j + 1 /\ 1 \in 1..Len(toHost)
    BY <1>1, <2>1
  <2>3. CASE i \in 1..n
    BY <1>3, <2>1, <2>2, <2>3 DEF OrderInv, Ordered
  <2>4. CASE i = n + 1
    BY <1>1, <1>3, <2>1, <2>2, <2>4 DEF OrderInv, Ordered
  <2> QED
    BY <1>3, <2>3, <2>4
<1>11. (\A i \in 1..Len(received), j \in 1..Len(queue) : Before(received[i], queue[j]))'
  <2>1. \A j \in 1..Len(queue) : Before(toHost[1].msg, queue[j])
    BY <1>1 DEF OrderInv, Ordered
  <2> QED
    BY <1>3, <1>4, <2>1 DEF OrderInv, Ordered
<1>12. (\A i \in 1..Len(toHost), j \in 1..Len(queue) :
          toHost[i].kind = "message" => Before(toHost[i].msg, queue[j]))'
  BY <1>1, <1>4 DEF OrderInv, Ordered
<1>13. (\A i, j \in 1..Len(queue) : i < j => Before(queue[i], queue[j]))'
  BY <1>4 DEF OrderInv, Ordered
<1> QED
  BY <1>6, <1>7, <1>8, <1>9, <1>10, <1>11, <1>12, <1>13 DEF OrderInv, Ordered
-----------------------------------------------------------------------------
(* Types. *)

LEMMA TypeInit == ASSUME Init PROVE TypeOK
<1>1. \A S : <<>> \in Seq(S)
  BY EmptySeq
<1>2. Range(queue) = {}
  BY DEF Init, Range
<1> QED
  <2>1. queue \in Seq(Msgs) /\ called \in Seq(Msgs) /\ received \in Seq(Msgs)
        /\ toHost \in Seq(ToHost) /\ toClient \in Seq(ToClient)
    BY <1>1 DEF Init
  <2>2. outcome \in [Msgs -> {"idle", "refused", "pending", "resolved", "unheard"}]
    BY DEF Init
  <2>3. port \in Nat /\ accepted \in 0..port /\ handling \subseteq Msgs \X (1..port)
        /\ refreshes \in 0..MaxRefreshes /\ faults \in 0..MaxFaults
    BY ServiceCommsAssumption DEF Init
  <2> QED
    BY <1>2, <2>1, <2>2, <2>3 DEF Init, TypeOK, ToHost, ToClient

\* A reply of at most one frame.
LEMMA ReplyOne ==
  ASSUME toClient \in Seq(ToClient), NEW f \in ToClient, NEW fs, fs = <<f>> \/ fs = <<>>, Reply(fs)
  PROVE  /\ toClient' \in Seq(ToClient)
         /\ \A i \in 1..Len(toClient') :
              toClient'[i] = f \/ \E j \in 1..Len(toClient) : toClient'[i] = toClient[j]
<1>1. CASE fs = <<f>>
  <2>1. fs \in Seq(ToClient) /\ Len(fs) = 1 /\ fs[1] = f
    BY <1>1
  <2>2. /\ toClient' \in Seq(ToClient) /\ Len(toClient') = Len(toClient) + 1
        /\ \A i \in 1..Len(toClient) + 1 :
             toClient'[i] = IF i <= Len(toClient) THEN toClient[i] ELSE fs[i - Len(toClient)]
    BY <2>1, ConcatProperties DEF Reply
  <2> QED
    BY <2>1, <2>2
<1>2. CASE fs = <<>>
  BY <1>2, ConcatEmptySeq DEF Reply
<1> QED
  BY <1>1, <1>2

\* What is taken from the front.
LEMMA TailFacts ==
  ASSUME NEW S, NEW s \in Seq(S), s # <<>>
  PROVE  /\ Head(s) = s[1] /\ 1 \in 1..Len(s) /\ Tail(s) \in Seq(S) /\ Len(Tail(s)) \in Nat
         /\ \A i \in 1..Len(Tail(s)) : i + 1 \in 1..Len(s) /\ Tail(s)[i] = s[i + 1]
OBVIOUS

\* What the client closes on.
LEMMA DisconnectFacts ==
  ASSUME TypeOK, Disconnect
  PROVE  /\ toHost' \in Seq(ToHost) /\ Len(toHost') \in Nat
         /\ \A i \in 1..Len(toHost') : toHost'[i] = Frame("disconnect", port, None)
              \/ (i \in 1..Len(toHost) /\ toHost'[i] = toHost[i])
         /\ open' = FALSE /\ cut' \subseteq cut \cup channels
<1>1. toHost \in Seq(ToHost) /\ Frame("disconnect", port, None) \in ToHost
  BY FrameType DEF TypeOK, ToHost
<1> QED
  BY <1>1 DEF Disconnect

LEMMA TypeStep ==
  ASSUME IInv, [Next]_vars
  PROVE  TypeOK'
<1>0. TypeOK /\ ServiceCommsAssumption
  BY ServiceCommsAssumption DEF IInv
<1> USE <1>0
<1>1. CASE Connect
  <2>1. toHost' \in Seq(ToHost) /\ port' \in Nat
    <3>1. Frame("connect", port', None) \in ToHost /\ port' = port + 1
      <4>1. port' = port + 1 /\ port + 1 \in Nat
        BY <1>1, PortTypes DEF Connect
      <4> QED
        BY <4>1, FrameType
    <3> QED
      BY <1>1, <3>1, PortTypes DEF Connect
  <2>2. port' = port + 1 /\ accepted' = accepted /\ handling' = handling
    BY <1>1 DEF Connect, host
  <2>3. accepted' \in 0..port' /\ handling' \subseteq Msgs \X (1..port')
    BY <2>2 DEF TypeOK
  <2> QED
    BY <1>1, <2>1, <2>3 DEF Connect, TypeOK, ToHost, book, host
<1>2. ASSUME NEW m \in Msgs, Post(m) PROVE TypeOK'
  <2>1. toHost' \in Seq(ToHost)
    <3>1. Frame("message", port, m) \in ToHost
      BY PortTypes, FrameType
    <3> QED
      <4>1. toHost \in Seq(ToHost) /\ Append(toHost, Frame("message", port, m)) \in Seq(ToHost)
        BY <3>1, PortTypes
      <4> QED
        BY <1>2, <4>1 DEF Post
  <2>2. queue' \in Seq(Msgs) /\ Range(queue') \subseteq channels' /\ (conn = "connected" => queue' = <<>>)
    <3>1. CASE queue' = queue
      BY <1>2, <3>1 DEF Post, TypeOK
    <3>2. CASE queue' = Append(queue, m) /\ conn = "paused"
      <4>1. queue \in Seq(Msgs) /\ queue' \in Seq(Msgs) /\ Range(queue) \subseteq channels
        BY <3>2 DEF TypeOK
      <4>2. Range(queue') \subseteq Range(queue) \cup {m}
        BY <3>2, <4>1 DEF Range
      <4> QED
        BY <1>2, <3>2, <4>1, <4>2 DEF Post
    <3> QED
      BY <1>2, <3>1, <3>2 DEF Post
  <2> QED
    BY <1>2, <2>1, <2>2 DEF Post, TypeOK, ToHost, client, host
<1>3. ASSUME NEW m \in Msgs, NotConnected(m) PROVE TypeOK'
  BY <1>3 DEF NotConnected, TypeOK, client, host
<1>4. CASE ConnectTimeout
  <2>1. faults' \in 0..MaxFaults
    BY <1>4 DEF ConnectTimeout, Fault, TypeOK, ServiceCommsAssumption
  <2> QED
    BY <1>4, <2>1, DisconnectFacts DEF ConnectTimeout, TypeOK, ToHost, host
<1>5. CASE Close
  BY <1>5, DisconnectFacts DEF Close, TypeOK, ToHost, host
<1>6. CASE Refresh
  <2>1. toClient' \in Seq(ToClient)
    BY <1>6, PortTypes DEF Refresh, Hear
  <2> QED
    BY <1>6, <2>1, DisconnectFacts DEF Refresh, TypeOK, ToHost, ToClient, host
<1>7. CASE HearNothing
  BY <1>7 DEF HearNothing, TypeOK, client, book, host
<1>8. CASE Connected
  <2>1. toHost' \in Seq(ToHost)
    BY <1>8, PostedFacts, ConcatProperties DEF Connected, TypeOK, ToHost
  <2>2. Range(queue') = {} /\ queue' = <<>> /\ queue' \in Seq(Msgs)
    BY <1>8, EmptySeq DEF Connected, Range
  <2> QED
    BY <1>8, <2>1, <2>2 DEF Connected, Hear, TypeOK, ToHost, host
<1>9. CASE Lost
  <2>1. toClient' \in Seq(ToClient)
    BY <1>9, PortTypes DEF Lost, Hear
  <2> QED
    BY <1>9, <2>1 DEF Lost, TypeOK, ToClient, host
<1>10. ASSUME NEW k \in Answers, Hear(k), Ends("resolved") \/ Ends("unheard") PROVE TypeOK'
  <2>1. toClient' \in Seq(ToClient) /\ Heard = toClient[1].msg /\ 1 \in 1..Len(toClient)
        /\ toClient[1].kind \in Answers
    BY <1>10 DEF Hear, Heard, TypeOK, ToClient
  <2>2. Heard \notin Range(queue)
    BY <2>1, QueuedNotReceived DEF IInv, FramesInv, AnswersInv
  <2>3. channels' \subseteq channels /\ Range(queue) \subseteq channels'
        /\ outcome' \in [Msgs -> {"idle", "refused", "pending", "resolved", "unheard"}]
    BY <1>10, <2>2 DEF Ends, TypeOK
  <2> QED
    BY <1>10, <2>1, <2>3 DEF Ends, TypeOK, ToClient, client, host
<1>11. CASE Ack
  <2>1. CASE UNCHANGED <<client, book, toHost, host, refreshes, faults>> /\ Hear("ack")
    BY <2>1 DEF Hear, TypeOK, client, book, host
  <2> QED
    BY <1>10, <1>11, <2>1 DEF Ack, Answers
<1>12. CASE Response
  BY <1>10, <1>12 DEF Response, Answers
<1>13. CASE Error
  BY <1>10, <1>13 DEF Error, Answers
<1>14. CASE Accept
  <2>1. toHost' \in Seq(ToHost) /\ toHost # <<>> /\ accepted' = toHost[1].port /\ 1 \in 1..Len(toHost)
    BY <1>14 DEF Accept, Listen, TypeOK, ToHost
  <2>2. accepted' \in 1..port
    BY <2>1 DEF IInv, FramesInv, PortsInv
  <2>3. Frame("init", accepted', None) \in ToClient
    BY <2>2, PortTypes, FrameType
  <2>4. toClient' \in Seq(ToClient)
    BY <1>14, <2>3, ReplyOne DEF Accept, TypeOK, ToClient
  <2> QED
    BY <1>14, <2>1, <2>2, <2>4 DEF Accept, TypeOK, ToHost, ToClient, client, book
<1>15. CASE Receive
  <2>1. toHost' \in Seq(ToHost) /\ toHost # <<>> /\ 1 \in 1..Len(toHost)
        /\ Head(toHost) = toHost[1] /\ toHost[1].kind = "message" /\ Asked = toHost[1].msg
    BY <1>15 DEF Receive, Listen, TypeOK, ToHost, Asked
  <2>2. toHost[1].port \in 1..port /\ Asked \in Msgs
    <3>1. Called(Asked)
      BY <2>1 DEF IInv, OrderInv, AllCalled
    <3> QED
      BY <2>1, <3>1 DEF IInv, FramesInv, PortsInv, Called, TypeOK
  <2>3. CASE Head(toHost).port = accepted
    <3>1. Frame("ack", accepted, Asked) \in ToClient
      BY <2>2, PortTypes, FrameType
    <3>2. toClient' \in Seq(ToClient)
      BY <1>15, <2>3, <3>1, ReplyOne DEF Receive, TypeOK, ToClient
    <3>3. handling' \subseteq Msgs \X (1..port) /\ received' \in Seq(Msgs)
      <4>1. accepted \in 1..port
        BY <2>1, <2>2, <2>3
      <4> QED
        <5>1. handling' = handling \cup {<<Asked, accepted>>} /\ received' = Append(received, Asked)
          BY <1>15, <2>3 DEF Receive
        <5>2. handling' \subseteq Msgs \X (1..port)
          BY <2>2, <4>1, <5>1 DEF TypeOK
        <5>3. received' \in Seq(Msgs)
          BY <2>2, <5>1 DEF TypeOK
        <5> QED
          BY <5>2, <5>3
    <3> QED
      BY <1>15, <2>1, <3>2, <3>3 DEF Receive, TypeOK, ToHost, ToClient, client, book
  <2>4. CASE Head(toHost).port # accepted
    BY <1>15, <2>1, <2>4 DEF Receive, TypeOK, ToHost, client, book
  <2> QED
    BY <2>3, <2>4
<1>16. CASE PortClosed
  <2>1. toHost' \in Seq(ToHost)
    BY <1>16 DEF PortClosed, Listen, TypeOK, ToHost
  <2> QED
    BY <1>16, <2>1 DEF PortClosed, TypeOK, ToHost, client, book
<1>17. ASSUME NEW m \in Msgs, NEW p \in 1..port, NEW end \in {"returned", "wordless", "threw"},
              Handled(m, p, end)
       PROVE  TypeOK'
  <2> DEFINE k == IF end = "threw" THEN "error" ELSE "response"
  <2>1. Frame(k, p, m) \in ToClient
    BY PortTypes, FrameType
  <2>2. toClient' \in Seq(ToClient)
    BY <1>17, <2>1, ReplyOne DEF Handled, TypeOK, ToClient
  <2> QED
    BY <1>17, <2>2 DEF Handled, TypeOK, ToClient, client, book
<1>18. CASE Expire
  <2>1. Frame("refresh", accepted, None) \in ToClient
    BY PortTypes, FrameType
  <2>2. toClient' \in Seq(ToClient)
    BY <1>18, <2>1, ReplyOne DEF Expire, TypeOK, ToClient
  <2>3. refreshes' \in 0..MaxRefreshes
    BY <1>18 DEF Expire, TypeOK, ServiceCommsAssumption
  <2> QED
    BY <1>18, <2>2, <2>3 DEF Expire, TypeOK, ToClient, client, book
<1>19. CASE Reopen
  BY <1>19 DEF Reopen, TypeOK, client, book
<1>20. CASE Kill
  <2>1. Frame("lost", accepted, None) \in ToClient
    BY PortTypes, FrameType
  <2>2. toClient' \in Seq(ToClient)
    BY <1>20, <2>1, ReplyOne DEF Kill, TypeOK, ToClient
  <2>3. faults' \in 0..MaxFaults
    BY <1>20 DEF Kill, Fault, TypeOK, ServiceCommsAssumption
  <2>4. accepted' \in 0..port /\ handling' = {} /\ expiring' = FALSE
    BY <1>20, PortTypes DEF Kill
  <2>5. handling' \subseteq Msgs \X (1..port)
    BY <2>4
  <2> QED
    BY <1>20, <2>2, <2>3, <2>4, <2>5 DEF Kill, TypeOK, ToClient, client, book
<1>21. CASE UNCHANGED vars
  BY <1>21 DEF TypeOK, vars, client, book, host
<1> QED
  BY <1>1, <1>2, <1>3, <1>4, <1>5, <1>6, <1>7, <1>8, <1>9, <1>11, <1>12, <1>13, <1>14, <1>15,
     <1>16, <1>17, <1>18, <1>19, <1>20, <1>21 DEF Next, Happens, Returns
-----------------------------------------------------------------------------
(* The order of the calls. *)

\* Steps that leave the calls as they are.
LEMMA SameCalls ==
  ASSUME IInv, [Next]_vars
  PROVE  \/ UNCHANGED <<called, received, queue>>
            /\ \A m \in Msgs : outcome'[m] \in {"idle", "refused"} => outcome[m] \in {"idle", "refused"}
         \/ \E m \in Msgs : Post(m)
         \/ Connected
         \/ Receive /\ Head(toHost).port = accepted
<1>0. outcome \in [Msgs -> {"idle", "refused", "pending", "resolved", "unheard"}]
  BY DEF IInv, TypeOK
<1>1. ASSUME Ends("resolved") \/ Ends("unheard")
      PROVE  UNCHANGED <<called, received, queue>>
             /\ \A m \in Msgs : outcome'[m] \in {"idle", "refused"} => outcome[m] \in {"idle", "refused"}
  BY <1>0, <1>1 DEF Ends, host
<1>2. ASSUME NEW m \in Msgs, NotConnected(m)
      PROVE  UNCHANGED <<called, received, queue>>
             /\ \A n \in Msgs : outcome'[n] \in {"idle", "refused"} => outcome[n] \in {"idle", "refused"}
  BY <1>0, <1>2 DEF NotConnected, host
<1>3. ASSUME Connect \/ Reopen \/ Refresh \/ Lost \/ HearNothing \/ Accept \/ PortClosed
             \/ ConnectTimeout \/ Close \/ Expire \/ Kill \/ UNCHANGED vars
      PROVE  UNCHANGED <<called, received, queue, outcome>>
  BY <1>3 DEF Connect, Reopen, Refresh, Lost, HearNothing, Accept, PortClosed, ConnectTimeout,
     Close, Expire, Kill, vars, book, host, Disconnect
<1>4. ASSUME NEW m \in Msgs, Returns(m)
      PROVE  UNCHANGED <<called, received, queue, outcome>>
  BY <1>4 DEF Returns, Handled, book
<1>5. CASE Receive /\ Head(toHost).port # accepted
  BY <1>5 DEF Receive, book
<1>6. CASE Ack \/ Response \/ Error
  BY <1>1, <1>6 DEF Ack, Response, Error, book, host
<1> QED
  BY <1>2, <1>3, <1>4, <1>5, <1>6 DEF Next, Happens

\* What they do to what is on its way to the host.
LEMMA SameToHost ==
  ASSUME IInv, [Next]_vars, ~(\E m \in Msgs : Post(m)), ~Connected
  PROVE  \E d \in {0, 1} :
           /\ Len(toHost') \in Nat
           /\ \A i \in 1..Len(toHost') : toHost'[i].kind = "message" =>
                i + d \in 1..Len(toHost) /\ toHost'[i] = toHost[i + d]
<1>0. TypeOK /\ toHost \in Seq(ToHost)
  BY PortTypes DEF IInv
<1>1. CASE Connect
  BY <1>0, <1>1 DEF Connect, Frame
<1>2. CASE Disconnect
  BY <1>0, <1>2, DisconnectFacts DEF Frame
<1>3. CASE UNCHANGED toHost
  BY <1>0, <1>3
<1>4. ASSUME toHost # <<>>, toHost' = Tail(toHost) PROVE
           /\ Len(toHost') \in Nat
           /\ \A i \in 1..Len(toHost') : i + 1 \in 1..Len(toHost) /\ toHost'[i] = toHost[i + 1]
  BY <1>0, <1>4
<1>5. CASE Accept \/ Receive \/ PortClosed
  BY <1>4, <1>5 DEF Accept, Receive, PortClosed, Listen
<1>6. CASE ConnectTimeout \/ Close \/ Refresh
  BY <1>2, <1>6 DEF ConnectTimeout, Close, Refresh
<1>7. CASE Reopen \/ Lost \/ HearNothing \/ Expire \/ Kill \/ UNCHANGED vars
  BY <1>3, <1>7 DEF Reopen, Lost, HearNothing, Expire, Kill, vars
<1>8. CASE Ack \/ Response \/ Error
  BY <1>3, <1>8 DEF Ack, Response, Error, Ends
<1>9. CASE \E m \in Msgs : Returns(m) \/ NotConnected(m)
  BY <1>3, <1>9 DEF Returns, Handled, NotConnected
<1> QED
  BY <1>1, <1>5, <1>6, <1>7, <1>8, <1>9 DEF Next, Happens

LEMMA OrderStep ==
  ASSUME IInv, [Next]_vars
  PROVE  OrderInv'
<1>0. TypeOK /\ OrderInv
  BY DEF IInv
<1>1. CASE \E m \in Msgs : Post(m)
  BY <1>0, <1>1, PostOrder
<1>2. CASE Connected
  BY <1>0, <1>2, ConnectedOrder
<1>3. CASE Receive /\ Head(toHost).port = accepted
  BY <1>0, <1>3, ReceiveOrder DEF Receive, book
<1>4. CASE /\ ~(\E m \in Msgs : Post(m)) /\ ~Connected
           /\ ~(Receive /\ Head(toHost).port = accepted)
  <2>1. UNCHANGED <<called, received, queue>>
        /\ \A m \in Msgs : outcome'[m] \in {"idle", "refused"} => outcome[m] \in {"idle", "refused"}
    BY <1>4, SameCalls
  <2>2. PICK d \in {0, 1} :
           /\ Len(toHost') \in Nat
           /\ \A i \in 1..Len(toHost') : toHost'[i].kind = "message" =>
                i + d \in 1..Len(toHost) /\ toHost'[i] = toHost[i + d]
    BY <1>4, SameToHost
  <2>3. d \in Nat
    OBVIOUS
  <2> QED
    BY <1>0, <2>1, <2>2, <2>3, OrderKept
<1> QED
  BY <1>1, <1>2, <1>3, <1>4
-----------------------------------------------------------------------------
(* The frames. *)

\* What has been received and answered stays so.
LEMMA Remembered ==
  ASSUME IInv, [Next]_vars
  PROVE  /\ \A m : WasReceived(m) => WasReceived(m)'
         /\ Ended \subseteq Ended'
<1>1. received' = received \/ received' = Append(received, Asked)
  BY SameCalls DEF Post, Connected, Receive, host
<1>2. received \in Seq(Msgs)
  BY DEF IInv, TypeOK
<1>3. \A m : WasReceived(m) => WasReceived(m)'
  <2>1. /\ Len(received) \in Nat /\ Len(received) <= Len(received') /\ Len(received') \in Nat
        /\ \A i \in 1..Len(received) : received'[i] = received[i]
    BY <1>1, <1>2
  <2> QED
    BY <2>1 DEF WasReceived
<1>4. Ended \subseteq Ended'
  <2>1. CASE \E m \in Msgs : Returns(m)
    BY <2>1 DEF Returns, Handled, Ended
  <2>2. CASE Ack \/ Response \/ Error
    BY <2>2 DEF Ack, Response, Error, Ends, host, Ended
  <2> QED
    BY <2>1, <2>2 DEF Next, Happens, Connect, Reopen, Connected, Refresh, Lost, HearNothing,
       Accept, Receive, PortClosed, Post, NotConnected, ConnectTimeout, Close, Expire, Kill, vars, host, Ended
<1> QED
  BY <1>3, <1>4

\* Every port has been opened.
LEMMA PortsStep ==
  ASSUME IInv, [Next]_vars
  PROVE  PortsInv'
<1>0. TypeOK /\ toHost \in Seq(ToHost) /\ port \in Nat /\ (open => port > 0)
      /\ \A i \in 1..Len(toHost) : toHost[i].port \in 1..port
  BY PortTypes DEF IInv, FramesInv, PortsInv
<1>1. CASE Connect
  <2>1. port' = port + 1 /\ toHost' = Append(toHost, Frame("connect", port', None))
    BY <1>1 DEF Connect
  <2>2. \A i \in 1..Len(toHost') : toHost'[i].port = port' \/ (i \in 1..Len(toHost) /\ toHost'[i] = toHost[i])
    <3>1. Frame("connect", port', None).port = port'
      BY DEF Frame
    <3>2. PICK fr : fr = Frame("connect", port', None)
      OBVIOUS
    <3> QED
      BY <1>0, <2>1, <3>1, <3>2
  <2> QED
    BY <1>0, <2>1, <2>2 DEF PortsInv
<1>2. ASSUME port' = port, open' => open,
             \A i \in 1..Len(toHost') :
               \/ toHost'[i].port = port /\ open
               \/ \E j \in 1..Len(toHost) : toHost'[i] = toHost[j]
      PROVE  PortsInv'
  BY <1>0, <1>2 DEF PortsInv
<1>3. CASE Disconnect /\ port' = port
  <2>1. \A i \in 1..Len(toHost') :
               \/ toHost'[i].port = port /\ open
               \/ \E j \in 1..Len(toHost) : toHost'[i] = toHost[j]
    <3>1. CASE open
      BY <1>0, <1>3, <3>1, DisconnectFacts DEF Frame
    <3>2. CASE ~open
      BY <1>3, <3>2 DEF Disconnect
    <3> QED
      BY <3>1, <3>2
  <2> QED
    BY <1>2, <1>3, <2>1 DEF Disconnect
<1>4. CASE ConnectTimeout \/ Close \/ Refresh
  BY <1>3, <1>4 DEF ConnectTimeout, Close, Refresh
<1>5. CASE UNCHANGED <<port, toHost>> /\ (open' => open)
  BY <1>2, <1>5
<1>6. CASE Reopen \/ Lost \/ HearNothing \/ Expire \/ Kill \/ UNCHANGED vars
  BY <1>5, <1>6 DEF Reopen, Lost, HearNothing, Expire, Kill, vars, client
<1>7. CASE Ack \/ Response \/ Error
  BY <1>5, <1>7 DEF Ack, Response, Error, Ends, client
<1>8. CASE \E m \in Msgs : Returns(m) \/ NotConnected(m)
  <2>1. ASSUME NEW m \in Msgs, NotConnected(m) PROVE UNCHANGED <<port, toHost, open>>
    BY <2>1 DEF NotConnected, client
  <2>2. ASSUME NEW m \in Msgs, Returns(m) PROVE UNCHANGED <<port, toHost, open>>
    BY <2>2 DEF Returns, Handled, client
  <2> QED
    BY <1>5, <1>8, <2>1, <2>2
<1>9. CASE Accept \/ Receive \/ PortClosed
  <2>1. UNCHANGED <<port, open>> /\ toHost # <<>> /\ toHost' = Tail(toHost)
    BY <1>9 DEF Accept, Receive, PortClosed, Listen, client
  <2>2. \A i \in 1..Len(toHost') : \E j \in 1..Len(toHost) : toHost'[i] = toHost[j]
    BY <1>0, <2>1, TailFacts
  <2> QED
    BY <1>2, <2>1, <2>2
<1>10. CASE \E m \in Msgs : Post(m)
  <2>1. PICK m \in Msgs : Post(m)
    BY <1>10
  <2>2. /\ UNCHANGED <<port, open>>
        /\ \/ toHost' = toHost
           \/ conn = "connected" /\ toHost' = Append(toHost, Frame("message", port, m))
    <3>1. UNCHANGED client
      BY <2>1 DEF Post
    <3>2. UNCHANGED <<port, open>>
      BY <3>1 DEF client
    <3>3. \/ toHost' = toHost
          \/ conn = "connected" /\ toHost' = Append(toHost, Frame("message", port, m))
      BY <2>1 DEF Post
    <3> QED
      BY <3>2, <3>3
  <2>3. conn = "connected" => open
    BY <1>0 DEF TypeOK
  <2>4. \A i \in 1..Len(toHost') :
               \/ toHost'[i].port = port /\ open
               \/ \E j \in 1..Len(toHost) : toHost'[i] = toHost[j]
    BY <1>0, <2>2, <2>3 DEF Frame
  <2> QED
    BY <1>2, <2>2, <2>4
<1>11. CASE Connected
  <2>1. UNCHANGED <<port, open>> /\ open /\ toHost' = toHost \o Posted
    BY <1>11 DEF Connected, Hear
  <2>2. Posted \in Seq(ToHost) /\ \A i \in 1..Len(Posted) : Posted[i].port = port
    <3>1. /\ Posted \in Seq(ToHost) /\ Len(Posted) = Len(queue)
          /\ \A i \in 1..Len(queue) : Posted[i] = Frame("message", port, queue[i])
      BY <1>0, PostedFacts
    <3>2. \A m : Frame("message", port, m).port = port
      BY DEF Frame
    <3> QED
      BY <3>1, <3>2
  <2>3. /\ Len(toHost') = Len(toHost) + Len(Posted)
        /\ \A i \in 1..Len(toHost) + Len(Posted) :
             toHost'[i] = IF i <= Len(toHost) THEN toHost[i] ELSE Posted[i - Len(toHost)]
    BY <1>0, <2>1, <2>2, ConcatProperties
  <2>4. \A i \in 1..Len(toHost') :
               \/ toHost'[i].port = port /\ open
               \/ \E j \in 1..Len(toHost) : toHost'[i] = toHost[j]
    BY <1>0, <2>1, <2>2, <2>3
  <2> QED
    BY <1>2, <2>1, <2>4
<1> QED
  BY <1>1, <1>4, <1>6, <1>7, <1>8, <1>9, <1>10, <1>11 DEF Next, Happens

\* A frame to the client is about what it answers.
LEMMA AnswersStep ==
  ASSUME IInv, [Next]_vars
  PROVE  AnswersInv'
<1>0. TypeOK /\ toClient \in Seq(ToClient) /\ port \in Nat /\ accepted \in Nat /\ AnswersInv
      /\ HandlingInv /\ toHost \in Seq(ToHost)
  BY PortTypes DEF IInv, FramesInv
<1>1. ASSUME NEW f, NEW m, f.msg = m,
             f.kind \in Answers => WasReceived(m)', f.kind = "response" => m \in Ended',
             \A i \in 1..Len(toClient') :
               toClient'[i] = f \/ \E j \in 1..Len(toClient) : toClient'[i] = toClient[j]
      PROVE  AnswersInv'
  <2>1. SUFFICES ASSUME NEW i \in 1..Len(toClient')
                 PROVE  /\ toClient'[i].kind \in Answers => WasReceived(toClient[i].msg)'
                        /\ toClient'[i].kind = "response" => toClient'[i].msg \in Ended'
    BY DEF AnswersInv
  <2>2. CASE toClient'[i] = f
    BY <1>1, <2>2
  <2>3. CASE \E j \in 1..Len(toClient) : toClient'[i] = toClient[j]
    <3>1. PICK j \in 1..Len(toClient) : toClient'[i] = toClient[j]
      BY <2>3
    <3> QED
      BY <1>0, <3>1, Remembered DEF AnswersInv
  <2> QED
    BY <1>1, <2>2, <2>3
<1>2. ASSUME \A i \in 1..Len(toClient') : \E j \in 1..Len(toClient) : toClient'[i] = toClient[j]
      PROVE  AnswersInv'
  <2>1. /\ Frame("init", port, None).msg = None
        /\ Frame("init", port, None).kind \notin Answers
        /\ Frame("init", port, None).kind # "response"
    BY DEF Frame, Answers
  <2> QED
    BY <1>1, <1>2, <2>1
<1>3. CASE UNCHANGED toClient
  BY <1>2, <1>3
<1>4. CASE toClient # <<>> /\ toClient' = Tail(toClient)
  BY <1>0, <1>2, <1>4, TailFacts
<1>5. CASE \/ Connect \/ Reopen \/ PortClosed \/ ConnectTimeout \/ Close \/ UNCHANGED vars
           \/ \E m \in Msgs : Post(m) \/ NotConnected(m)
  BY <1>3, <1>5 DEF Connect, Reopen, PortClosed, ConnectTimeout, Close, Post, NotConnected, vars
<1>6. CASE Connected \/ Refresh \/ Lost \/ Ack \/ Response \/ Error \/ HearNothing
  BY <1>4, <1>6 DEF Connected, Refresh, Lost, Ack, Response, Error, HearNothing, Hear
<1>7. ASSUME NEW k \in {"init", "refresh", "lost"}, NEW p \in Nat, NEW fs,
             fs = <<Frame(k, p, None)>> \/ fs = <<>>, Reply(fs)
      PROVE  AnswersInv'
  <2>1. Frame(k, p, None) \in ToClient
    BY FrameType
  <2>2. \A i \in 1..Len(toClient') :
          toClient'[i] = Frame(k, p, None) \/ \E j \in 1..Len(toClient) : toClient'[i] = toClient[j]
    BY <1>0, <1>7, <2>1, ReplyOne
  <2>3. Frame(k, p, None).kind \notin Answers /\ Frame(k, p, None).kind # "response"
        /\ Frame(k, p, None).msg = None
    BY DEF Frame, Answers
  <2> QED
    BY <1>1, <2>2, <2>3
<1>8. CASE Accept
  <2>1. toHost # <<>> /\ accepted' = toHost[1].port /\ 1 \in 1..Len(toHost)
    BY <1>0, <1>8, TailFacts DEF Accept, Listen
  <2>2. accepted' \in Nat
    BY <1>0, <2>1 DEF IInv, FramesInv, PortsInv
  <2>3. Reply(<<Frame("init", accepted', None)>>)
    BY <1>8 DEF Accept
  <2> QED
    BY <1>7, <2>2, <2>3
<1>9. CASE Expire
  <2>1. Reply(<<Frame("refresh", accepted, None)>>) \/ Reply(<<>>)
    BY <1>9 DEF Expire
  <2> QED
    BY <1>0, <1>7, <2>1
<1>10. CASE Kill
  <2>1. Reply(<<Frame("lost", accepted, None)>>) \/ Reply(<<>>)
    BY <1>10 DEF Kill
  <2> QED
    BY <1>0, <1>7, <2>1
<1>11. CASE Receive /\ Head(toHost).port = accepted
  <2>1. PICK a : a = Asked
    OBVIOUS
  <2>2. /\ toHost # <<>> /\ a = toHost[1].msg /\ 1 \in 1..Len(toHost) /\ toHost[1].kind = "message"
        /\ received' = Append(received, a) /\ Reply(<<Frame("ack", accepted, a)>>)
    BY <1>0, <1>11, <2>1, TailFacts DEF Receive, Listen, Asked
  <2>3. a \in Msgs
    BY <2>2 DEF IInv, OrderInv, AllCalled, Called, TypeOK
  <2>4. WasReceived(a)'
    <3>1. received \in Seq(Msgs)
      BY DEF IInv, TypeOK
    <3>2. Len(received') \in 1..Len(received') /\ received'[Len(received')] = a
      BY <2>2, <2>3, <3>1
    <3> QED
      BY <3>2 DEF WasReceived
  <2>5. Frame("ack", accepted, a) \in ToClient /\ Frame("ack", accepted, a).msg = a
        /\ Frame("ack", accepted, a).kind # "response"
    BY <1>0, <2>3, FrameType DEF Frame
  <2>6. \A i \in 1..Len(toClient') :
          \/ toClient'[i] = Frame("ack", accepted, a)
          \/ \E j \in 1..Len(toClient) : toClient'[i] = toClient[j]
    BY <1>0, <2>2, <2>5, ReplyOne
  <2> QED
    BY <1>1, <2>4, <2>5, <2>6
<1>12. CASE Receive /\ Head(toHost).port # accepted
  BY <1>3, <1>12 DEF Receive
<1>13. ASSUME NEW m \in Msgs, NEW p \in 1..port, NEW end \in {"returned", "wordless", "threw"},
              Handled(m, p, end)
       PROVE  AnswersInv'
  <2> DEFINE k == IF end = "threw" THEN "error" ELSE "response"
  <2>1. /\ <<m, p>> \in handling
        /\ k = "response" => m \in Ended'
        /\ Reply(<<Frame(k, p, m)>>) \/ Reply(<<>>)
        /\ k \in {"response", "error"}
    BY <1>13 DEF Handled, Ended
  <2> HIDE DEF k
  <2>2. WasReceived(m)'
    <3>1. WasReceived(<<m, p>>[1]) /\ <<m, p>>[1] = m
      BY <1>0, <2>1 DEF HandlingInv
    <3> QED
      BY <3>1, Remembered
  <2>3. Frame(k, p, m) \in ToClient /\ Frame(k, p, m).msg = m /\ Frame(k, p, m).kind = k
    <3>1. p \in Nat
      BY <1>0
    <3>2. Frame(k, p, m) \in ToClient
      BY <2>1, <3>1, FrameType
    <3> QED
      BY <3>2 DEF Frame
  <2>4. \A i \in 1..Len(toClient') :
          toClient'[i] = Frame(k, p, m) \/ \E j \in 1..Len(toClient) : toClient'[i] = toClient[j]
    BY <1>0, <2>1, <2>3, ReplyOne
  <2> QED
    BY <1>1, <2>1, <2>2, <2>3, <2>4
<1> QED
  BY <1>5, <1>6, <1>8, <1>9, <1>10, <1>11, <1>12, <1>13 DEF Next, Happens, Returns

LEMMA HandlingStep ==
  ASSUME IInv, [Next]_vars
  PROVE  HandlingInv'
<1>0. HandlingInv
  BY DEF IInv, FramesInv
<1>1. CASE handling' \subseteq handling
  BY <1>0, <1>1, Remembered DEF HandlingInv
<1>2. CASE Receive
  <2>1. CASE Head(toHost).port = accepted
    <3>1. PICK a : a = Asked
      OBVIOUS
    <3>2. /\ handling' = handling \cup {<<a, accepted>>}
          /\ received' = Append(received, a)
          /\ received \in Seq(Msgs) /\ toHost # <<>> /\ toHost \in Seq(ToHost) /\ a = Head(toHost).msg
          /\ Head(toHost).kind = "message"
      BY <1>2, <2>1, <3>1, PortTypes DEF Receive, Listen, IInv, TypeOK, Asked
    <3>3. 1 \in 1..Len(toHost) /\ a = toHost[1].msg /\ toHost[1].kind = "message"
      BY <3>2, TailFacts
    <3>4. a \in Msgs
      BY <3>3 DEF IInv, OrderInv, AllCalled, Called, TypeOK
    <3>5. Len(received') \in 1..Len(received') /\ received'[Len(received')] = a
      BY <3>2, <3>4
    <3>6. WasReceived(a)'
      BY <3>5 DEF WasReceived
    <3> QED
      BY <1>0, <3>2, <3>6, Remembered DEF HandlingInv
  <2>2. CASE Head(toHost).port # accepted
    BY <1>1, <1>2, <2>2 DEF Receive
  <2> QED
    BY <2>1, <2>2
<1>3. CASE \E m \in Msgs : Returns(m)
  BY <1>1, <1>3 DEF Returns, Handled
<1>4. CASE Ack \/ Response \/ Error
  BY <1>1, <1>4 DEF Ack, Response, Error, Ends, host
<1>5. CASE \/ Connect \/ Reopen \/ Connected \/ Refresh \/ Lost \/ HearNothing \/ Accept \/ PortClosed
           \/ ConnectTimeout \/ Close \/ Expire \/ Kill \/ UNCHANGED vars
           \/ \E m \in Msgs : Post(m) \/ NotConnected(m)
  BY <1>1, <1>5 DEF Connect, Reopen, Connected, Refresh, Lost, HearNothing, Accept, PortClosed,
     Post, NotConnected, ConnectTimeout, Close, Expire, Kill, vars, host
<1> QED
  BY <1>2, <1>3, <1>4, <1>5 DEF Next, Happens
-----------------------------------------------------------------------------
(* The answers. *)

LEMMA TrueStep ==
  ASSUME IInv, [Next]_vars
  PROVE  TrueAnswers'
<1>0. /\ TrueAnswers /\ AnswersInv /\ received \in Seq(Msgs) /\ toClient \in Seq(ToClient)
      /\ outcome \in [Msgs -> {"idle", "refused", "pending", "resolved", "unheard"}]
      /\ received' \in Seq(Msgs)
  BY TypeStep, PortTypes DEF IInv, FramesInv, TypeOK
<1>1. \A m \in Msgs : outcome[m] = "resolved" =>
        WasReceived(m)' /\ (m \in Requests => m \in Ended')
  BY <1>0, Remembered, InRange DEF TrueAnswers, WasReceived
<1>2. SUFFICES \A m \in Msgs : outcome'[m] = "resolved" =>
                 WasReceived(m)' /\ (m \in Requests => m \in Ended')
  <2>1. \A m : WasReceived(m)' => m \in Range(received')
    BY <1>0, InRange DEF WasReceived
  <2> QED
    BY <1>2, <2>1 DEF TrueAnswers
<1>3. CASE \A m \in Msgs : outcome'[m] = "resolved" => outcome[m] = "resolved"
  BY <1>1, <1>3
<1>4. ASSUME NEW k \in {"ack", "response"}, Hear(k), Ends("resolved"),
             k = "ack" => Heard \notin Requests
      PROVE  \A m \in Msgs : outcome'[m] = "resolved" =>
               WasReceived(m)' /\ (m \in Requests => m \in Ended')
  <2>1. PICK h : h = Heard
    OBVIOUS
  <2>2. 1 \in 1..Len(toClient) /\ h = toClient[1].msg /\ toClient[1].kind = k
    BY <1>0, <1>4, <2>1, TailFacts DEF Hear, Heard
  <2>3. WasReceived(h) /\ (k = "response" => h \in Ended)
    BY <1>0, <2>2 DEF AnswersInv, Answers
  <2>4. \A m \in Msgs : outcome'[m] = "resolved" => m = h \/ outcome[m] = "resolved"
    BY <1>0, <1>4, <2>1 DEF Ends
  <2>5. h \in Requests => k = "response"
    BY <1>4, <2>1
  <2> QED
    BY <1>1, <2>3, <2>4, <2>5, Remembered
<1>5. CASE Ack
  BY <1>3, <1>4, <1>5 DEF Ack, book
<1>6. CASE Response
  BY <1>4, <1>6 DEF Response
<1>7. CASE Error
  BY <1>0, <1>3, <1>7 DEF Error, Ends
<1>8. CASE \E m \in Msgs : Post(m) \/ NotConnected(m)
  BY <1>0, <1>3, <1>8 DEF Post, NotConnected
<1>9. CASE \E m \in Msgs : Returns(m)
  BY <1>3, <1>9 DEF Returns, Handled, book
<1>10. CASE \/ Connect \/ Reopen \/ Connected \/ Refresh \/ Lost \/ HearNothing \/ Accept \/ Receive
            \/ PortClosed \/ ConnectTimeout \/ Close \/ Expire \/ Kill \/ UNCHANGED vars
  BY <1>3, <1>10 DEF Connect, Reopen, Connected, Refresh, Lost, HearNothing, Accept, Receive,
     PortClosed, ConnectTimeout, Close, Expire, Kill, vars, book
<1> QED
  BY <1>5, <1>6, <1>7, <1>8, <1>9, <1>10 DEF Next, Happens
-----------------------------------------------------------------------------
LEMMA Initially == ASSUME Init PROVE IInv
<1>1. OrderInv
  BY DEF Init, OrderInv, CalledOnce, AllCalled, Ordered, Called
<1>2. FramesInv /\ TrueAnswers
  BY DEF Init, FramesInv, PortsInv, AnswersInv, HandlingInv, TrueAnswers
<1> QED
  BY <1>1, <1>2, TypeInit DEF IInv

\* The types, the order and the frames are kept by every step, for any calls and any
\* bounds.
THEOREM Inductive == Spec => []IInv
<1>1. Init => IInv
  BY Initially
<1>2. IInv /\ [Next]_vars => IInv'
  BY TypeStep, OrderStep, PortsStep, AnswersStep, HandlingStep, TrueStep DEF IInv, FramesInv
<1> QED
  BY <1>1, <1>2, PTL DEF Spec

\* Frames, queue and channels are of their types (_h_channels, _a_queued).
THEOREM TypeCorrect == Spec => []TypeOK
<1>1. IInv => TypeOK
  BY DEF IInv
<1> QED
  BY <1>1, Inductive, PTL

\* The service receives calls in the order in which they were made, none of them
\* twice (the queue of _post() over any number of refreshes).
THEOREM ReceivedInOrder == Spec => []InOrder
<1>1. IInv => InOrder
  <2>1. SUFFICES ASSUME IInv, NEW i \in DOMAIN received, NEW j \in DOMAIN received, i < j
                 PROVE  \E k, l \in DOMAIN called :
                          k < l /\ called[k] = received[i] /\ called[l] = received[j]
    BY DEF InOrder
  <2>2. /\ DOMAIN received = 1..Len(received) /\ DOMAIN called = 1..Len(called)
    BY <2>1, LenProperties DEF IInv, TypeOK
  <2> QED
    <3>1. Before(received[i], received[j])
      BY <2>1, <2>2 DEF IInv, OrderInv, Ordered
    <3> QED
      BY <2>2, <3>1 DEF Before
<1> QED
  BY <1>1, Inductive, PTL

\* A call resolves only when it was received, and a request only when its handler has
\* returned or thrown an error without a message: no frame of an earlier port or of
\* another call is taken for its answer (_post() and the routers).
THEOREM AnswersAreTrue == Spec => []TrueAnswers
<1>1. IInv => TrueAnswers
  BY DEF IInv
<1> QED
  BY <1>1, Inductive, PTL
===============================================================================
