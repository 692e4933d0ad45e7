------------------------------- MODULE TxSync -------------------------------
(***************************************************************************)
(* How the wallet keeps its record of transactions true to the chains:     *)
(* RequestSignature.svelte records a transaction as pending and broadcasts *)
(* it; each feed of service-feed.ts subscribes to the events of a chain    *)
(* and then synchronizes (cosmos-network.ts) what it has missed; the       *)
(* handlers of service-tx-abcis.ts record what either reports.  Records    *)
(* are made by store/incidents.ts, in two stores: the incident, then its   *)
(* place in the history, while the lock of the first is held.              *)
(***************************************************************************)
EXTENDS Integers, Sequences, FiniteSets

CONSTANTS Txs,        \* transactions the account sends
          Feeds,      \* feeds of the service, each for a chain of its own
          Of,         \* the feed whose chain a transaction is sent to
          Foreign,    \* transactions sent with another wallet
          Past,       \* those on each chain before this wallet is, in order
          FirstPage,  \* size of the first page of transactions
          PageLimit,  \* size of the others
          MaxHeight,  \* bound on the heights
          MaxFaults,  \* bound on crashes, closed windows, gaps, failed calls
          None

ASSUME TxSyncAssumption ==
  /\ Of \in [Txs -> Feeds] /\ Foreign \subseteq Txs /\ Past \in [Feeds -> Seq(Foreign)]
  /\ \A f \in Feeds : \A i \in 1..Len(Past[f]) : Of[Past[f][i]] = f
  /\ FirstPage \in Nat \ {0} /\ PageLimit \in Nat \ {0}
  /\ None \notin Txs

VARIABLES
  incident,   \* the stage of each transaction in the incidents, on disk
  listed,     \* transactions in the order of the histories, on disk
  syncHeight, \* the sync height of each feed, in the histories
  log,        \* transactions of each chain in order
  height,     \* height of each transaction, 0 if it is not on its chain
  failed,     \* transactions on chain with a code other than 0
  tip,        \* height of the latest block of each chain
  indexed,    \* how much of the log a node finds when asked
  mempool,    \* transactions a node has accepted
  window,     \* how far each request to sign has come
  event,      \* how far the handler of the event of a transaction has come
  step,       \* how far each feed has come
  live,       \* whether its subscription is in place
  latest, prev, offset, page, last,   \* variables of synchronize()
  known, pending, at,
  torn,       \* records that a fault has kept from the histories
  dropped,    \* transactions that a feed has not seen or could not download
  faults

stores == <<incident, listed, syncHeight>>
chain == <<log, height, failed, tip, indexed, mempool>>
locals == <<latest, prev, offset, page, last, known, pending, at>>
ghosts == <<torn, dropped, faults>>
vars == <<stores, chain, locals, ghosts, window, event, step, live>>

Stages == {"none", "pending", "synced", "absent"}
WindowStates == {"idle", "saved", "contacting", "rejected", "done"}
EventStates == {"none", "event", "data", "missing", "saved"}
FeedSteps == {"off", "latest", "subscribed", "fetch", "fetched", "page", "saved",
              "filter", "filterIncidents", "filterOrder", "check",
              "found", "missing", "followed", "threw", "deaf"}

StoresType ==
  /\ incident \in [Txs -> Stages] /\ listed \subseteq Txs
  /\ syncHeight \in [Feeds -> Nat]

ChainType ==
  /\ log \in [Feeds -> Seq(Txs)] /\ height \in [Txs -> Nat]
  /\ failed \subseteq Txs /\ mempool \subseteq Txs
  /\ tip \in [Feeds -> Nat] /\ indexed \in [Feeds -> Nat]
  /\ \A f \in Feeds : indexed[f] <= Len(log[f])

LocalsType ==
  /\ latest \in [Feeds -> Nat] /\ prev \in [Feeds -> Nat] /\ offset \in [Feeds -> Nat]
  /\ page \in [Feeds -> SUBSET Txs] /\ last \in [Feeds -> BOOLEAN]
  /\ known \in [Feeds -> SUBSET Txs] /\ pending \in [Feeds -> SUBSET Txs]

ProgressType ==
  /\ window \in [Txs -> WindowStates] /\ event \in [Txs -> EventStates]
  /\ step \in [Feeds -> FeedSteps] /\ live \in [Feeds -> BOOLEAN]
  /\ at \in [Feeds -> Txs \cup {None}]
  /\ \A f \in Feeds : at[f] # None <=> step[f] \in {"saved", "found", "missing"}

GhostsType == torn \subseteq Txs /\ dropped \subseteq Txs /\ faults \in Nat

\* Types, and a feed has a transaction in hand just while it works on one.
TypeOK == StoresType /\ ChainType /\ LocalsType /\ ProgressType /\ GhostsType

PastTxs == UNION {{Past[f][i] : i \in 1..Len(Past[f])} : f \in Feeds}

Init ==
  /\ incident = [t \in Txs |-> "none"]
  /\ listed = {} /\ failed = {} /\ torn = {} /\ dropped = {}
  /\ syncHeight = [f \in Feeds |-> 0] /\ tip = [f \in Feeds |-> 1]
  /\ height = [t \in Txs |-> IF t \in PastTxs THEN 1 ELSE 0]
  /\ log = Past /\ indexed = [f \in Feeds |-> Len(Past[f])]
  /\ mempool = Foreign \ PastTxs
  /\ window = [t \in Txs |-> IF t \in Foreign THEN "done" ELSE "idle"]
  /\ event = [t \in Txs |-> "none"]
  /\ step = [f \in Feeds |-> "off"] /\ live = [f \in Feeds |-> FALSE]
  /\ latest = [f \in Feeds |-> 0] /\ prev = [f \in Feeds |-> 0]
  /\ offset = [f \in Feeds |-> 0] /\ page = [f \in Feeds |-> {}]
  /\ last = [f \in Feeds |-> FALSE]
  /\ known = [f \in Feeds |-> {}] /\ pending = [f \in Feeds |-> {}]
  /\ at = [f \in Feeds |-> None]
  /\ faults = 0
-----------------------------------------------------------------------------
(* Incidents and Histories. *)

\* Transactions whose incident is saved and whose place in the history is not,
\* while the lock of the incidents is held.
Saving == {t \in Txs : window[t] = "saved" \/ event[t] = "saved"}
            \cup {at[f] : f \in {g \in Feeds : step[g] = "saved"}}

LockFree == Saving = {}

\* record() up to its first save, and mutateData(); both under the lock.
Save(t, stage) == LockFree /\ incident' = [incident EXCEPT ![t] = stage]

\* The rest of record(): insertIncident().
Insert(t) == listed' = listed \cup {t} /\ torn' = torn \ {t}

\* It does not come to that: the two saves are no transaction.
Tear(ts) == torn' = torn \cup (ts \ listed)

Fault == faults < MaxFaults /\ faults' = faults + 1

\* Whether a handler records the transaction anew; sent_error() changes the
\* incident if there is one.
Anew(t) == t \notin failed \/ incident[t] = "none"
-----------------------------------------------------------------------------
(* A request to sign: RequestSignature.svelte. *)

Approve(t) ==
  /\ window[t] = "idle"
  /\ Save(t, "pending")
  /\ window' = [window EXCEPT ![t] = "saved"]
  /\ UNCHANGED <<listed, syncHeight, chain, locals, ghosts, event, step, live>>

ApproveInsert(t) ==
  /\ window[t] = "saved"
  /\ Insert(t)
  /\ window' = [window EXCEPT ![t] = "contacting"]
  /\ UNCHANGED <<incident, syncHeight, chain, locals, dropped, faults, event, step, live>>

\* After it has contacted the service, the window broadcasts.  The node accepts
\* the transaction, rejects it with a code, or the call throws.
Broadcast(t) ==
  /\ window[t] = "contacting"
  /\ \/ /\ mempool' = mempool \cup {t}
        /\ window' = [window EXCEPT ![t] = "done"]
     \/ /\ window' = [window EXCEPT ![t] = "rejected"]
        /\ UNCHANGED mempool
     \/ /\ window' = [window EXCEPT ![t] = "done"]
        /\ UNCHANGED mempool
  /\ UNCHANGED <<stores, log, height, failed, tip, indexed, locals, ghosts, event, step, live>>

HandleCheckTxError(t) ==
  /\ window[t] = "rejected"
  /\ Save(t, "synced")
  /\ window' = [window EXCEPT ![t] = "done"]
  /\ UNCHANGED <<listed, syncHeight, chain, locals, ghosts, event, step, live>>
-----------------------------------------------------------------------------
(* The chain, as its nodes show it. *)

\* A transaction enters the block that is next, and those who listen are told.
Commit(t) ==
  LET f == Of[t] IN
  /\ t \in mempool /\ tip[f] < MaxHeight
  /\ mempool' = mempool \ {t}
  /\ height' = [height EXCEPT ![t] = tip[f] + 1]
  /\ log' = [log EXCEPT ![f] = Append(@, t)]
  /\ failed' \in {failed, failed \cup {t}}
  /\ event' = [event EXCEPT ![t] = IF live[f] THEN "event" ELSE "none"]
  /\ dropped' = IF live[f] \/ step[f] \in {"off", "latest"} THEN dropped ELSE dropped \cup {t}
  /\ UNCHANGED <<stores, tip, indexed, window, locals, torn, faults, step, live>>

NewBlock(f) ==
  /\ tip[f] < MaxHeight
  /\ tip' = [tip EXCEPT ![f] = @ + 1]
  /\ UNCHANGED <<stores, log, height, failed, indexed, mempool, window, event, locals, ghosts, step, live>>

Index(f) ==
  /\ indexed[f] < Len(log[f])
  /\ indexed' = [indexed EXCEPT ![f] = @ + 1]
  /\ UNCHANGED <<stores, log, height, failed, tip, mempool, window, event, locals, ghosts, step, live>>

\* What a node finds of the chain of f.
Found(f) == {log[f][i] : i \in 1..indexed[f]}

-----------------------------------------------------------------------------
(* The handler of an event: data() of tx_abcis(), sent_data(), sent_error(). *)

\* downloadTxn() of sent_data(): the node may not know the transaction yet.
Download(t) ==
  /\ event[t] = "event" /\ t \notin failed
  /\ event' = [event EXCEPT ![t] = IF t \in Found(Of[t]) THEN "data" ELSE "missing"]
  /\ UNCHANGED <<stores, chain, window, locals, ghosts, step, live>>

\* mutateData() throws if there is no incident, and nobody catches it.
DownloadMissing(t) ==
  /\ event[t] = "missing"
  /\ LockFree
  /\ incident' = [incident EXCEPT ![t] = IF @ = "none" THEN @ ELSE "absent"]
  /\ event' = [event EXCEPT ![t] = "none"]
  /\ dropped' = dropped \cup {t}
  /\ UNCHANGED <<listed, syncHeight, chain, window, locals, torn, faults, step, live>>

\* Mutation: only transactions with an incident are recorded.
EventRecordKnown(t) ==
  /\ event[t] = IF t \in failed THEN "event" ELSE "data"
  /\ Save(t, IF incident[t] = "none" THEN "none" ELSE "synced")
  /\ event' = [event EXCEPT ![t] = IF Anew(t) THEN "saved" ELSE "none"]
  /\ UNCHANGED <<listed, syncHeight, chain, window, locals, ghosts, step, live>>

EventRecord(t) ==
  /\ event[t] = IF t \in failed THEN "event" ELSE "data"
  /\ Save(t, "synced")
  /\ event' = [event EXCEPT ![t] = IF Anew(t) THEN "saved" ELSE "none"]
  /\ UNCHANGED <<listed, syncHeight, chain, window, locals, ghosts, step, live>>

EventInsert(t) ==
  /\ event[t] = "saved"
  /\ Insert(t)
  /\ event' = [event EXCEPT ![t] = "none"]
  /\ UNCHANGED <<incident, syncHeight, chain, window, locals, dropped, faults, step, live>>
-----------------------------------------------------------------------------
(* A feed: create(), followAccounts(), followAccount(), synchronize(). *)

Goes(f, from, to) == step[f] = from /\ step' = [step EXCEPT ![f] = to]

\* A generator is over, and its variables with it.
Over(fs) ==
  /\ latest' = [f \in Feeds |-> IF f \in fs THEN 0 ELSE latest[f]]
  /\ prev' = [f \in Feeds |-> IF f \in fs THEN 0 ELSE prev[f]]
  /\ offset' = [f \in Feeds |-> IF f \in fs THEN 0 ELSE offset[f]]
  /\ last' = [f \in Feeds |-> f \notin fs /\ last[f]]

LatestBlock(f) ==
  /\ Goes(f, "off", "latest")
  /\ latest' = [latest EXCEPT ![f] = tip[f]]
  /\ UNCHANGED <<stores, chain, window, event, live, prev, offset, page, last, known, pending, at, ghosts>>

\* autoSubscribe(), which swallows the errors of a first attempt.  Assumed of the
\* nodes: when they have answered, they know of what is in the blocks that were
\* there before.
Subscribe(f) ==
  /\ indexed[f] = Len(log[f])
  /\ Goes(f, "latest", "subscribed")
  /\ \/ live' = [live EXCEPT ![f] = TRUE] /\ UNCHANGED faults
     \/ Fault /\ UNCHANGED live
  /\ UNCHANGED <<stores, chain, window, event, locals, torn, dropped>>

SyncHeight(f) ==
  /\ Goes(f, "subscribed", "fetch")
  /\ prev' = [prev EXCEPT ![f] = syncHeight[f]]
  /\ offset' = [offset EXCEPT ![f] = 0]
  /\ UNCHANGED <<stores, chain, window, event, live, latest, page, last, known, pending, at, ghosts>>

\* The transactions below the offset, the newest first, up to the limit.  It is
\* the last page if it goes below the sync height or to the end of the log.
Fetch(f) ==
  LET limit == IF offset[f] = 0 THEN FirstPage ELSE PageLimit
      hi == indexed[f] - offset[f]
      txs == {log[f][i] : i \in {j \in 1..indexed[f] : hi - limit < j /\ j <= hi}}
  IN /\ Goes(f, "fetch", "fetched")
     /\ page' = [page EXCEPT ![f] = txs]
     /\ offset' = [offset EXCEPT ![f] = @ + limit]
     /\ last' = [last EXCEPT ![f] = \/ prev[f] > latest[f]
                                    \/ \E t \in txs : prev[f] > height[t]
                                    \/ hi <= limit]
     /\ UNCHANGED <<stores, chain, window, event, live, latest, prev, known, pending, at, ghosts>>

\* Those with a final incident are left out.
Former(f) ==
  /\ Goes(f, "fetched", "page")
  /\ page' = [page EXCEPT ![f] = {t \in @ : incident[t] # "synced"}]
  /\ UNCHANGED <<stores, chain, window, event, live, latest, prev, offset, last, known, pending, at, ghosts>>

\* Mutation: a record for a transaction without incident skips the history.
SyncRecordOnly(f, t) ==
  /\ step[f] = "page" /\ t \in page[f]
  /\ Save(t, "synced")
  /\ page' = [page EXCEPT ![f] = @ \ {t}]
  /\ UNCHANGED <<listed, syncHeight, chain, window, event, step, live,
                 latest, prev, offset, last, known, pending, at, ghosts>>

\* The handler of a transaction that the generator yields, which has its data.
SyncRecord(f, t) ==
  /\ step[f] = "page" /\ t \in page[f]
  /\ Save(t, "synced")
  /\ page' = [page EXCEPT ![f] = @ \ {t}]
  /\ IF Anew(t)
       THEN at' = [at EXCEPT ![f] = t] /\ step' = [step EXCEPT ![f] = "saved"]
       ELSE UNCHANGED <<at, step>>
  /\ UNCHANGED <<listed, syncHeight, chain, window, event, live,
                 latest, prev, offset, last, known, pending, ghosts>>

SyncInsert(f) ==
  /\ Goes(f, "saved", "page")
  /\ Insert(at[f])
  /\ at' = [at EXCEPT ![f] = None]
  /\ UNCHANGED <<incident, syncHeight, chain, window, event, live,
                 latest, prev, offset, page, last, known, pending, dropped, faults>>

PageDone(f) ==
  /\ page[f] = {}
  /\ Goes(f, "page", IF last[f] THEN "filter" ELSE "fetch")
  /\ UNCHANGED <<stores, chain, window, event, live, locals, ghosts>>

\* Incidents.filter() reads both stores at once, in whatever order they come.
FilterOrder(f) ==
  /\ Goes(f, "filter", "filterIncidents")
  /\ pending' = [pending EXCEPT ![f] = listed]
  /\ UNCHANGED <<stores, chain, window, event, live, latest, prev, offset, page, last, known, at, ghosts>>

FilterIncidents(f) ==
  /\ Goes(f, "filter", "filterOrder")
  /\ known' = [known EXCEPT ![f] = {t \in Txs : incident[t] # "none"}]
  /\ pending' = [pending EXCEPT ![f] = {t \in Txs : incident[t] = "pending"}]
  /\ UNCHANGED <<stores, chain, window, event, live, latest, prev, offset, page, last, at, ghosts>>

FilterBoth(f) ==
  \/ /\ Goes(f, "filterIncidents", "check")
     /\ pending' = [pending EXCEPT ![f] = {t \in @ : incident[t] = "pending"}]
     /\ UNCHANGED <<stores, chain, window, event, live, latest, prev, offset, page, last, known, at, ghosts>>
  \/ /\ listed \subseteq known[f]
     /\ Goes(f, "filterOrder", "check")
     /\ pending' = [pending EXCEPT ![f] = @ \cap listed]
     /\ known' = [known EXCEPT ![f] = {}]
     /\ UNCHANGED <<stores, chain, window, event, live, latest, prev, offset, page, last, at, ghosts>>
  \/ /\ ~(listed \subseteq known[f])
     /\ Goes(f, "filterOrder", "threw")
     /\ pending' = [pending EXCEPT ![f] = {}]
     /\ known' = [known EXCEPT ![f] = {}]
     /\ Over({f})
     /\ UNCHANGED <<stores, chain, window, event, live, page, at, ghosts>>

\* downloadTxn() of a pending transaction, of whatever chain: found, not found, or failed.
Check(f, t) ==
  /\ step[f] = "check" /\ t \in pending[f]
  /\ pending' = [pending EXCEPT ![f] = @ \ {t}]
  /\ \/ /\ at' = [at EXCEPT ![f] = t]
        /\ step' = [step EXCEPT ![f] = IF t \in Found(f) THEN "found" ELSE "missing"]
        /\ UNCHANGED faults
     \/ Fault /\ UNCHANGED <<at, step>>
  /\ UNCHANGED <<stores, chain, window, event, live, latest, prev, offset, page, last, known, torn, dropped>>

\* Mutation: the transaction stays at hand.
CheckedKept(f) ==
  /\ step[f] \in {"found", "missing"}
  /\ Save(at[f], IF step[f] = "found" THEN "synced" ELSE "absent")
  /\ step' = [step EXCEPT ![f] = "check"]
  /\ UNCHANGED <<listed, syncHeight, chain, window, event, live, locals, ghosts>>

\* mutateData() of what the node has said.
Checked(f) ==
  /\ step[f] \in {"found", "missing"}
  /\ Save(at[f], IF step[f] = "found" THEN "synced" ELSE "absent")
  /\ step' = [step EXCEPT ![f] = "check"]
  /\ at' = [at EXCEPT ![f] = None]
  /\ UNCHANGED <<listed, syncHeight, chain, window, event, live,
                 latest, prev, offset, page, last, known, pending, ghosts>>

\* Mutation: the height is that of the latest block by now.
UpdateSyncInfoNow(f) ==
  /\ pending[f] = {}
  /\ Goes(f, "check", "followed")
  /\ syncHeight' = [syncHeight EXCEPT ![f] = tip[f]]
  /\ Over({f})
  /\ UNCHANGED <<incident, listed, chain, window, event, live, page, known, pending, at, ghosts>>

UpdateSyncInfo(f) ==
  /\ pending[f] = {}
  /\ Goes(f, "check", "followed")
  /\ syncHeight' = [syncHeight EXCEPT ![f] = latest[f]]
  /\ Over({f})
  /\ UNCHANGED <<incident, listed, chain, window, event, live, page, known, pending, at, ghosts>>

FeedStep(f) ==
  \/ LatestBlock(f) \/ Subscribe(f) \/ SyncHeight(f)
  \/ Fetch(f) \/ Former(f) \/ SyncInsert(f) \/ PageDone(f)
  \/ FilterOrder(f) \/ FilterIncidents(f) \/ FilterBoth(f)
  \/ Checked(f) \/ UpdateSyncInfo(f)
  \/ \E t \in Txs : SyncRecord(f, t) \/ Check(f, t)
-----------------------------------------------------------------------------
(* Faults. *)

\* The window of a request is closed, or a store rejects a call of it, which ends
\* approve(): the vault has been locked, or the storage fails.
CloseWindow(t) ==
  /\ Fault
  /\ window[t] \in {"saved", "contacting", "rejected"}
  /\ window' = [window EXCEPT ![t] = "done"]
  /\ Tear({u \in {t} : window[u] = "saved"})
  /\ UNCHANGED <<stores, chain, event, locals, dropped, step, live>>

\* A store or the node rejects a call of the handler of an event, and it throws.
EventThrows(t) ==
  /\ Fault
  /\ event[t] # "none"
  /\ event' = [event EXCEPT ![t] = "none"]
  /\ Tear({u \in {t} : event[u] = "saved"})
  /\ dropped' = dropped \cup {t}
  /\ UNCHANGED <<stores, chain, window, locals, step, live>>

\* One rejects a call of a feed: followAccounts() ends, before it has asked for a
\* subscription or after it, and create() swallows the error.
FeedThrows(f) ==
  /\ Fault
  /\ step[f] \notin {"followed", "threw", "deaf"}
  /\ step' = [step EXCEPT ![f] = IF @ = "off" THEN "deaf" ELSE "threw"]
  /\ Tear({t \in {at[f]} : step[f] = "saved"})
  /\ page' = [page EXCEPT ![f] = {}]
  /\ known' = [known EXCEPT ![f] = {}] /\ pending' = [pending EXCEPT ![f] = {}]
  /\ at' = [at EXCEPT ![f] = None]
  /\ Over({f})
  /\ UNCHANGED <<stores, chain, window, event, live, dropped>>

\* The browser ends the service, which starts again.
Crash ==
  /\ Fault
  /\ Tear({t \in Saving : window[t] # "saved"})
  /\ event' = [t \in Txs |-> "none"]
  /\ step' = [f \in Feeds |-> "off"] /\ live' = [f \in Feeds |-> FALSE]
  /\ page' = [f \in Feeds |-> {}] /\ known' = page' /\ pending' = page'
  /\ at' = [f \in Feeds |-> None]
  /\ Over(Feeds)
  /\ UNCHANGED <<stores, chain, window, dropped>>

\* The socket of a feed breaks; it asks again for the subscriptions it has asked
\* for, and does not synchronize (restart() of the websocket).
Gap(f) ==
  /\ Fault
  /\ live[f]
  /\ live' = [live EXCEPT ![f] = FALSE]
  /\ UNCHANGED <<stores, chain, window, event, step, locals, torn, dropped>>

Restart(f) ==
  /\ ~live[f] /\ step[f] \notin {"off", "latest", "deaf"}
  /\ live' = [live EXCEPT ![f] = TRUE]
  /\ UNCHANGED <<stores, chain, window, event, step, locals, ghosts>>

TxStep(t) ==
  \/ ApproveInsert(t) \/ Download(t) \/ DownloadMissing(t)
  \/ EventRecord(t) \/ EventInsert(t)

Next ==
  \/ \E t \in Txs : \/ TxStep(t) \/ Approve(t) \/ Broadcast(t) \/ HandleCheckTxError(t)
                    \/ Commit(t) \/ CloseWindow(t) \/ EventThrows(t)
  \/ \E f \in Feeds : FeedStep(f) \/ NewBlock(f) \/ Index(f) \/ Gap(f) \/ Restart(f)
                      \/ FeedThrows(f)
  \/ Crash

Spec == Init /\ [][Next]_vars

\* Calls return, and the browser starts the service again.
FairSpec ==
  /\ Spec
  /\ \A t \in Txs : WF_vars(TxStep(t))
  /\ \A f \in Feeds : WF_vars(FeedStep(f)) /\ WF_vars(Index(f))
-----------------------------------------------------------------------------
\* What is on chain up to the height that is saved as synchronized is recorded
\* so: no transaction falls between two synchronizations, whatever crashed or
\* raced in between (followAccount(), synchronize(), updateSyncInfo()).
NoneMissed == \A t \in Txs :
  height[t] > 0 /\ height[t] <= syncHeight[Of[t]] => incident[t] = "synced"

\* A record is in the history, or about to be; only what ends record() between its
\* two saves can keep it out, a crash or a rejected call, and no other record,
\* event or synchronization.
HistoryComplete == {t \in Txs : incident[t] # "none"} \subseteq listed \cup Saving \cup torn

\* A transaction on chain gets recorded, by its event or by the next
\* synchronization, unless the node does not know it when its event comes, or the
\* handler or the feed has to give up (sent_data(), sent_error(), synchronize()).
Recorded == \A t \in Txs :
  height[t] > 0 /\ (event[t] = "event" \/ step[Of[t]] = "off")
    ~> (incident[t] = "synced" \/ t \in dropped \/ step[Of[t]] \in {"threw", "deaf"})
=============================================================================
