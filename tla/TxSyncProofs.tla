---------------------------- MODULE TxSyncProofs ----------------------------
(***************************************************************************)
(* A service with one feed misses no transaction, and one with any feeds   *)
(* loses no record but to a fault between its two saves: for any           *)
(* transactions, page sizes, heights and number of faults.                 *)
(***************************************************************************)
EXTENDS TxSync, TLAPS

Synchronizing == {"subscribed", "fetch", "fetched", "page", "saved", "filter",
                  "filterIncidents", "filterOrder", "check", "found", "missing"}
Checking == {"filter", "filterIncidents", "filterOrder", "check", "found", "missing"}

\* t is on chain, up to height h.
Upto(t, h) == 0 < height[t] /\ height[t] <= h

\* The log holds what is on chain, in the order of heights, none above the block
\* that is next; what can still be sent is not on chain.
ChainInv(f) ==
  /\ \A i \in 1..Len(log[f]) : height[log[f][i]] > 0
  /\ \A t \in Txs : height[t] > 0 => \E i \in 1..Len(log[f]) : log[f][i] = t
  /\ \A i, j \in 1..Len(log[f]) : i <= j => height[log[f][i]] <= height[log[f][j]]
  /\ \A t \in Txs : height[t] <= tip[f] + 1
  /\ syncHeight[f] <= tip[f] /\ latest[f] <= tip[f]
  /\ \A t \in mempool : height[t] = 0 /\ window[t] = "done"
  /\ \A t \in Txs : window[t] # "done" => height[t] = 0

\* What a node does not find is above the heights the feed relies on.
IndexInv(f) ==
  /\ \A i \in 1..Len(log[f]) : i > indexed[f] =>
       /\ height[log[f][i]] > syncHeight[f]
       /\ step[f] \in Synchronizing => height[log[f][i]] > latest[f]
  /\ step[f] \in {"off", "latest"} => ~live[f] /\ \A t \in Txs : event[t] = "none"
  /\ \A t \in Txs : event[t] = "missing" =>
       /\ ~Upto(t, syncHeight[f])
       /\ step[f] \in Synchronizing => ~Upto(t, latest[f])
  /\ step[f] = "missing" => ~Upto(at[f], latest[f]) /\ ~Upto(at[f], syncHeight[f])

\* How far the pages have come.
PageInv(f) ==
  /\ step[f] \in Synchronizing \ {"subscribed"} => prev[f] = syncHeight[f]
  /\ step[f] \in {"off", "latest", "subscribed", "fetch"} => page[f] = {}
  /\ step[f] \in {"fetch", "fetched", "page", "saved"} =>
       \A i \in 1..Len(log[f]) :
         i > indexed[f] - offset[f] /\ height[log[f][i]] <= latest[f]
           => incident[log[f][i]] = "synced" \/ log[f][i] \in page[f]
  /\ step[f] \in {"fetched", "page", "saved"} /\ last[f] =>
       \A t \in Txs : Upto(t, latest[f]) => incident[t] = "synced" \/ t \in page[f]
  /\ step[f] \in Checking =>
       \A t \in Txs : Upto(t, latest[f]) => incident[t] = "synced"

NoneMissedOn(f) == \A t \in Txs : Upto(t, syncHeight[f]) => incident[t] = "synced"

IInv(f) == TypeOK /\ ChainInv(f) /\ IndexInv(f) /\ PageInv(f) /\ NoneMissedOn(f)
-----------------------------------------------------------------------------
(* Types, for any number of feeds. *)

LEMMA TypeInit == Init => TypeOK
<1> SUFFICES ASSUME Init PROVE TypeOK
  OBVIOUS
<1>1. StoresType
  BY TxSyncAssumption DEF Init, StoresType, PastTxs, Stages, WindowStates, EventStates, FeedSteps
<1>2. ChainType
  BY TxSyncAssumption DEF Init, ChainType, PastTxs, Stages, WindowStates, EventStates, FeedSteps
<1>3. LocalsType
  BY TxSyncAssumption DEF Init, LocalsType, PastTxs, Stages, WindowStates, EventStates, FeedSteps
<1>4. ProgressType
  BY TxSyncAssumption DEF Init, ProgressType, PastTxs, Stages, WindowStates, EventStates, FeedSteps
<1>5. GhostsType
  BY TxSyncAssumption DEF Init, GhostsType, PastTxs, Stages, WindowStates, EventStates, FeedSteps
<1> QED
  BY <1>1, <1>2, <1>3, <1>4, <1>5 DEF TypeOK

LEMMA OverTypes ==
  ASSUME LocalsType, NEW f \in Feeds, Over({f})
  PROVE  /\ latest' \in [Feeds -> Nat] /\ prev' \in [Feeds -> Nat]
         /\ offset' \in [Feeds -> Nat] /\ last' \in [Feeds -> BOOLEAN]
<1>1. latest' \in [Feeds -> Nat] /\ prev' \in [Feeds -> Nat] /\ offset' \in [Feeds -> Nat]
  BY DEF Over, LocalsType
<1>2. last' \in [Feeds -> BOOLEAN]
  BY Zenon DEF Over, LocalsType
<1> QED
  BY <1>1, <1>2

LEMMA TypeNext ==
  ASSUME TypeOK, [Next]_vars
  PROVE  TypeOK'
<1>1. ASSUME NEW t \in Txs, Approve(t) PROVE TypeOK'
  <2>1. StoresType'
    BY <1>1, TxSyncAssumption DEF Approve, StoresType, TypeOK, stores, Save, Insert, Stages
  <2>2. ChainType'
    BY <1>1, TxSyncAssumption DEF Approve, ChainType, TypeOK, chain
  <2>3. LocalsType'
    BY <1>1, TxSyncAssumption DEF Approve, LocalsType, TypeOK, locals, Over
  <2>4. ProgressType'
    BY <1>1, TxSyncAssumption DEF Approve, ProgressType, TypeOK, locals, Goes, WindowStates, EventStates, FeedSteps
  <2>5. GhostsType'
    BY <1>1, TxSyncAssumption DEF Approve, GhostsType, TypeOK, ghosts, Insert, Fault, Tear
  <2> QED
    BY <2>1, <2>2, <2>3, <2>4, <2>5 DEF TypeOK
<1>2. ASSUME NEW t \in Txs, ApproveInsert(t) PROVE TypeOK'
  <2>1. StoresType'
    BY <1>2, TxSyncAssumption DEF ApproveInsert, StoresType, TypeOK, stores, Save, Insert, Stages
  <2>2. ChainType'
    BY <1>2, TxSyncAssumption DEF ApproveInsert, ChainType, TypeOK, chain
  <2>3. LocalsType'
    BY <1>2, TxSyncAssumption DEF ApproveInsert, LocalsType, TypeOK, locals, Over
  <2>4. ProgressType'
    BY <1>2, TxSyncAssumption DEF ApproveInsert, ProgressType, TypeOK, locals, Goes, WindowStates, EventStates, FeedSteps
  <2>5. GhostsType'
    BY <1>2, TxSyncAssumption DEF ApproveInsert, GhostsType, TypeOK, ghosts, Insert, Fault, Tear
  <2> QED
    BY <2>1, <2>2, <2>3, <2>4, <2>5 DEF TypeOK
<1>3. ASSUME NEW t \in Txs, Broadcast(t) PROVE TypeOK'
  <2>1. StoresType'
    BY <1>3, TxSyncAssumption DEF Broadcast, StoresType, TypeOK, stores, Save, Insert, Stages
  <2>2. ChainType'
    BY <1>3, TxSyncAssumption DEF Broadcast, ChainType, TypeOK, chain
  <2>3. LocalsType'
    BY <1>3, TxSyncAssumption DEF Broadcast, LocalsType, TypeOK, locals, Over
  <2>4. ProgressType'
    BY <1>3, TxSyncAssumption DEF Broadcast, ProgressType, TypeOK, locals, Goes, WindowStates, EventStates, FeedSteps
  <2>5. GhostsType'
    BY <1>3, TxSyncAssumption DEF Broadcast, GhostsType, TypeOK, ghosts, Insert, Fault, Tear
  <2> QED
    BY <2>1, <2>2, <2>3, <2>4, <2>5 DEF TypeOK
<1>4. ASSUME NEW t \in Txs, HandleCheckTxError(t) PROVE TypeOK'
  <2>1. StoresType'
    BY <1>4, TxSyncAssumption DEF HandleCheckTxError, StoresType, TypeOK, stores, Save, Insert, Stages
  <2>2. ChainType'
    BY <1>4, TxSyncAssumption DEF HandleCheckTxError, ChainType, TypeOK, chain
  <2>3. LocalsType'
    BY <1>4, TxSyncAssumption DEF HandleCheckTxError, LocalsType, TypeOK, locals, Over
  <2>4. ProgressType'
    BY <1>4, TxSyncAssumption DEF HandleCheckTxError, ProgressType, TypeOK, locals, Goes, WindowStates, EventStates, FeedSteps
  <2>5. GhostsType'
    BY <1>4, TxSyncAssumption DEF HandleCheckTxError, GhostsType, TypeOK, ghosts, Insert, Fault, Tear
  <2> QED
    BY <2>1, <2>2, <2>3, <2>4, <2>5 DEF TypeOK
<1>5. ASSUME NEW t \in Txs, Commit(t) PROVE TypeOK'
  <2>1. StoresType'
    BY <1>5, TxSyncAssumption DEF Commit, StoresType, TypeOK, stores, Save, Insert, Stages
  <2>2. ChainType'
    <3> DEFINE f == Of[t]
    <3>1. f \in Feeds /\ tip[f] + 1 \in Nat /\ Append(log[f], t) \in Seq(Txs)
          /\ Len(log[f]) < Len(Append(log[f], t))
      BY TxSyncAssumption DEF TypeOK, ChainType
    <3>2. log' = [log EXCEPT ![f] = Append(log[f], t)]
      BY <1>5 DEF Commit
    <3>3. log' \in [Feeds -> Seq(Txs)] /\ \A g \in Feeds : Len(log[g]) <= Len(log'[g])
      BY <3>1, <3>2 DEF TypeOK, ChainType
    <3>4. height' \in [Txs -> Nat] /\ tip' = tip /\ indexed' = indexed
      BY <1>5, <3>1 DEF Commit, TypeOK, ChainType
    <3>5. failed' \subseteq Txs /\ mempool' \subseteq Txs
      BY <1>5 DEF Commit, TypeOK, ChainType
    <3>6. \A g \in Feeds : Len(log'[g]) \in Nat /\ Len(log[g]) \in Nat /\ indexed[g] \in Nat
      BY <3>3 DEF TypeOK, ChainType
    <3>7. \A g \in Feeds : indexed'[g] <= Len(log'[g])
      BY <3>3, <3>4, <3>6 DEF TypeOK, ChainType
    <3> QED
      BY <3>3, <3>4, <3>5, <3>7 DEF TypeOK, ChainType
  <2>3. LocalsType'
    BY <1>5, TxSyncAssumption DEF Commit, LocalsType, TypeOK, locals, Over
  <2>4. ProgressType'
    BY <1>5, TxSyncAssumption DEF Commit, ProgressType, TypeOK, locals, Goes, WindowStates, EventStates, FeedSteps
  <2>5. GhostsType'
    BY <1>5, TxSyncAssumption DEF Commit, GhostsType, TypeOK, ghosts, Insert, Fault, Tear
  <2> QED
    BY <2>1, <2>2, <2>3, <2>4, <2>5 DEF TypeOK
<1>6. ASSUME NEW t \in Txs, Download(t) PROVE TypeOK'
  <2>1. StoresType'
    BY <1>6, TxSyncAssumption DEF Download, StoresType, TypeOK, stores, Save, Insert, Stages
  <2>2. ChainType'
    BY <1>6, TxSyncAssumption DEF Download, ChainType, TypeOK, chain
  <2>3. LocalsType'
    BY <1>6, TxSyncAssumption DEF Download, LocalsType, TypeOK, locals, Over
  <2>4. ProgressType'
    BY <1>6, TxSyncAssumption DEF Download, ProgressType, TypeOK, locals, Goes, WindowStates, EventStates, FeedSteps
  <2>5. GhostsType'
    BY <1>6, TxSyncAssumption DEF Download, GhostsType, TypeOK, ghosts, Insert, Fault, Tear
  <2> QED
    BY <2>1, <2>2, <2>3, <2>4, <2>5 DEF TypeOK
<1>7. ASSUME NEW t \in Txs, DownloadMissing(t) PROVE TypeOK'
  <2>1. StoresType'
    BY <1>7, TxSyncAssumption DEF DownloadMissing, StoresType, TypeOK, stores, Save, Insert, Stages
  <2>2. ChainType'
    BY <1>7, TxSyncAssumption DEF DownloadMissing, ChainType, TypeOK, chain
  <2>3. LocalsType'
    BY <1>7, TxSyncAssumption DEF DownloadMissing, LocalsType, TypeOK, locals, Over
  <2>4. ProgressType'
    BY <1>7, TxSyncAssumption DEF DownloadMissing, ProgressType, TypeOK, locals, Goes, WindowStates, EventStates, FeedSteps
  <2>5. GhostsType'
    BY <1>7, TxSyncAssumption DEF DownloadMissing, GhostsType, TypeOK, ghosts, Insert, Fault, Tear
  <2> QED
    BY <2>1, <2>2, <2>3, <2>4, <2>5 DEF TypeOK
<1>8. ASSUME NEW t \in Txs, EventRecord(t) PROVE TypeOK'
  <2>1. StoresType'
    BY <1>8, TxSyncAssumption DEF EventRecord, StoresType, TypeOK, stores, Save, Insert, Stages
  <2>2. ChainType'
    BY <1>8, TxSyncAssumption DEF EventRecord, ChainType, TypeOK, chain
  <2>3. LocalsType'
    BY <1>8, TxSyncAssumption DEF EventRecord, LocalsType, TypeOK, locals, Over
  <2>4. ProgressType'
    BY <1>8, TxSyncAssumption DEF EventRecord, ProgressType, TypeOK, locals, Goes, WindowStates, EventStates, FeedSteps
  <2>5. GhostsType'
    BY <1>8, TxSyncAssumption DEF EventRecord, GhostsType, TypeOK, ghosts, Insert, Fault, Tear
  <2> QED
    BY <2>1, <2>2, <2>3, <2>4, <2>5 DEF TypeOK
<1>9. ASSUME NEW t \in Txs, EventInsert(t) PROVE TypeOK'
  <2>1. StoresType'
    BY <1>9, TxSyncAssumption DEF EventInsert, StoresType, TypeOK, stores, Save, Insert, Stages
  <2>2. ChainType'
    BY <1>9, TxSyncAssumption DEF EventInsert, ChainType, TypeOK, chain
  <2>3. LocalsType'
    BY <1>9, TxSyncAssumption DEF EventInsert, LocalsType, TypeOK, locals, Over
  <2>4. ProgressType'
    BY <1>9, TxSyncAssumption DEF EventInsert, ProgressType, TypeOK, locals, Goes, WindowStates, EventStates, FeedSteps
  <2>5. GhostsType'
    BY <1>9, TxSyncAssumption DEF EventInsert, GhostsType, TypeOK, ghosts, Insert, Fault, Tear
  <2> QED
    BY <2>1, <2>2, <2>3, <2>4, <2>5 DEF TypeOK
<1>10. ASSUME NEW t \in Txs, CloseWindow(t) PROVE TypeOK'
  <2>1. StoresType'
    BY <1>10, TxSyncAssumption DEF CloseWindow, StoresType, TypeOK, stores, Save, Insert, Stages
  <2>2. ChainType'
    BY <1>10, TxSyncAssumption DEF CloseWindow, ChainType, TypeOK, chain
  <2>3. LocalsType'
    BY <1>10, TxSyncAssumption DEF CloseWindow, LocalsType, TypeOK, locals, Over
  <2>4. ProgressType'
    BY <1>10, TxSyncAssumption DEF CloseWindow, ProgressType, TypeOK, locals, Goes, WindowStates, EventStates, FeedSteps
  <2>5. GhostsType'
    BY <1>10, TxSyncAssumption DEF CloseWindow, GhostsType, TypeOK, ghosts, Insert, Fault, Tear
  <2> QED
    BY <2>1, <2>2, <2>3, <2>4, <2>5 DEF TypeOK
<1>11. ASSUME NEW f \in Feeds, LatestBlock(f) PROVE TypeOK'
  <2>1. StoresType'
    BY <1>11, TxSyncAssumption DEF LatestBlock, StoresType, TypeOK, stores, Save, Insert, Stages
  <2>2. ChainType'
    BY <1>11, TxSyncAssumption DEF LatestBlock, ChainType, TypeOK, chain
  <2>3. LocalsType'
    BY <1>11 DEF LatestBlock, LocalsType, ChainType, TypeOK
  <2>4. ProgressType'
    BY <1>11, TxSyncAssumption DEF LatestBlock, ProgressType, TypeOK, locals, Goes, WindowStates, EventStates, FeedSteps
  <2>5. GhostsType'
    BY <1>11, TxSyncAssumption DEF LatestBlock, GhostsType, TypeOK, ghosts, Insert, Fault, Tear
  <2> QED
    BY <2>1, <2>2, <2>3, <2>4, <2>5 DEF TypeOK
<1>12. ASSUME NEW f \in Feeds, Subscribe(f) PROVE TypeOK'
  <2>1. StoresType'
    BY <1>12, TxSyncAssumption DEF Subscribe, StoresType, TypeOK, stores, Save, Insert, Stages
  <2>2. ChainType'
    BY <1>12, TxSyncAssumption DEF Subscribe, ChainType, TypeOK, chain
  <2>3. LocalsType'
    BY <1>12, TxSyncAssumption DEF Subscribe, LocalsType, TypeOK, locals, Over
  <2>4. ProgressType'
    BY <1>12, TxSyncAssumption DEF Subscribe, ProgressType, TypeOK, locals, Goes, WindowStates, EventStates, FeedSteps
  <2>5. GhostsType'
    BY <1>12, TxSyncAssumption DEF Subscribe, GhostsType, TypeOK, ghosts, Insert, Fault, Tear
  <2> QED
    BY <2>1, <2>2, <2>3, <2>4, <2>5 DEF TypeOK
<1>13. ASSUME NEW f \in Feeds, SyncHeight(f) PROVE TypeOK'
  <2>1. StoresType'
    BY <1>13, TxSyncAssumption DEF SyncHeight, StoresType, TypeOK, stores, Save, Insert, Stages
  <2>2. ChainType'
    BY <1>13, TxSyncAssumption DEF SyncHeight, ChainType, TypeOK, chain
  <2>3. LocalsType'
    BY <1>13 DEF SyncHeight, LocalsType, StoresType, TypeOK
  <2>4. ProgressType'
    BY <1>13, TxSyncAssumption DEF SyncHeight, ProgressType, TypeOK, locals, Goes, WindowStates, EventStates, FeedSteps
  <2>5. GhostsType'
    BY <1>13, TxSyncAssumption DEF SyncHeight, GhostsType, TypeOK, ghosts, Insert, Fault, Tear
  <2> QED
    BY <2>1, <2>2, <2>3, <2>4, <2>5 DEF TypeOK
<1>14. ASSUME NEW f \in Feeds, Fetch(f) PROVE TypeOK'
  <2>1. StoresType'
    BY <1>14, TxSyncAssumption DEF Fetch, StoresType, TypeOK, stores, Save, Insert, Stages
  <2>2. ChainType'
    BY <1>14, TxSyncAssumption DEF Fetch, ChainType, TypeOK, chain
  <2>3. LocalsType'
    <3> DEFINE limit == IF offset[f] = 0 THEN FirstPage ELSE PageLimit
               hi == indexed[f] - offset[f]
               txs == {log[f][i] : i \in {j \in 1..indexed[f] : hi - limit < j /\ j <= hi}}
    <3>1. \A i \in 1..indexed[f] : log[f][i] \in Txs
      BY DEF TypeOK, ChainType
    <3>2. txs \subseteq Txs /\ limit \in Nat
      BY <3>1, TxSyncAssumption DEF TypeOK, LocalsType
    <3>3. page' = [page EXCEPT ![f] = txs] /\ offset' = [offset EXCEPT ![f] = offset[f] + limit]
          /\ UNCHANGED <<latest, prev, known, pending>>
      BY <1>14 DEF Fetch
    <3>4. page' \in [Feeds -> SUBSET Txs] /\ offset' \in [Feeds -> Nat]
      BY <3>2, <3>3 DEF TypeOK, LocalsType
    <3>5. last' \in [Feeds -> BOOLEAN]
      BY <1>14, Zenon DEF Fetch, TypeOK, LocalsType
    <3> QED
      BY <3>3, <3>4, <3>5 DEF TypeOK, LocalsType
  <2>4. ProgressType'
    BY <1>14, TxSyncAssumption DEF Fetch, ProgressType, TypeOK, locals, Goes, WindowStates, EventStates, FeedSteps
  <2>5. GhostsType'
    BY <1>14, TxSyncAssumption DEF Fetch, GhostsType, TypeOK, ghosts, Insert, Fault, Tear
  <2> QED
    BY <2>1, <2>2, <2>3, <2>4, <2>5 DEF TypeOK
<1>15. ASSUME NEW f \in Feeds, Former(f) PROVE TypeOK'
  <2>1. StoresType'
    BY <1>15, TxSyncAssumption DEF Former, StoresType, TypeOK, stores, Save, Insert, Stages
  <2>2. ChainType'
    BY <1>15, TxSyncAssumption DEF Former, ChainType, TypeOK, chain
  <2>3. LocalsType'
    BY <1>15, TxSyncAssumption DEF Former, LocalsType, TypeOK, locals, Over
  <2>4. ProgressType'
    BY <1>15, TxSyncAssumption DEF Former, ProgressType, TypeOK, locals, Goes, WindowStates, EventStates, FeedSteps
  <2>5. GhostsType'
    BY <1>15, TxSyncAssumption DEF Former, GhostsType, TypeOK, ghosts, Insert, Fault, Tear
  <2> QED
    BY <2>1, <2>2, <2>3, <2>4, <2>5 DEF TypeOK
<1>16. ASSUME NEW f \in Feeds, SyncInsert(f) PROVE TypeOK'
  <2>1. StoresType'
    <3>1. at[f] \in Txs
      BY <1>16, TxSyncAssumption DEF SyncInsert, Goes, TypeOK, ProgressType
    <3> QED
      BY <1>16, <3>1 DEF SyncInsert, StoresType, TypeOK, Insert
  <2>2. ChainType'
    BY <1>16, TxSyncAssumption DEF SyncInsert, ChainType, TypeOK, chain
  <2>3. LocalsType'
    BY <1>16, TxSyncAssumption DEF SyncInsert, LocalsType, TypeOK, locals, Over
  <2>4. ProgressType'
    BY <1>16, TxSyncAssumption DEF SyncInsert, ProgressType, TypeOK, locals, Goes, WindowStates, EventStates, FeedSteps
  <2>5. GhostsType'
    BY <1>16, TxSyncAssumption DEF SyncInsert, GhostsType, TypeOK, ghosts, Insert, Fault, Tear
  <2> QED
    BY <2>1, <2>2, <2>3, <2>4, <2>5 DEF TypeOK
<1>17. ASSUME NEW f \in Feeds, PageDone(f) PROVE TypeOK'
  <2>1. StoresType'
    BY <1>17, TxSyncAssumption DEF PageDone, StoresType, TypeOK, stores, Save, Insert, Stages
  <2>2. ChainType'
    BY <1>17, TxSyncAssumption DEF PageDone, ChainType, TypeOK, chain
  <2>3. LocalsType'
    BY <1>17, TxSyncAssumption DEF PageDone, LocalsType, TypeOK, locals, Over
  <2>4. ProgressType'
    BY <1>17, TxSyncAssumption DEF PageDone, ProgressType, TypeOK, locals, Goes, WindowStates, EventStates, FeedSteps
  <2>5. GhostsType'
    BY <1>17, TxSyncAssumption DEF PageDone, GhostsType, TypeOK, ghosts, Insert, Fault, Tear
  <2> QED
    BY <2>1, <2>2, <2>3, <2>4, <2>5 DEF TypeOK
<1>18. ASSUME NEW f \in Feeds, FilterOrder(f) PROVE TypeOK'
  <2>1. StoresType'
    BY <1>18, TxSyncAssumption DEF FilterOrder, StoresType, TypeOK, stores, Save, Insert, Stages
  <2>2. ChainType'
    BY <1>18, TxSyncAssumption DEF FilterOrder, ChainType, TypeOK, chain
  <2>3. LocalsType'
    BY <1>18 DEF FilterOrder, LocalsType, StoresType, TypeOK
  <2>4. ProgressType'
    BY <1>18, TxSyncAssumption DEF FilterOrder, ProgressType, TypeOK, locals, Goes, WindowStates, EventStates, FeedSteps
  <2>5. GhostsType'
    BY <1>18, TxSyncAssumption DEF FilterOrder, GhostsType, TypeOK, ghosts, Insert, Fault, Tear
  <2> QED
    BY <2>1, <2>2, <2>3, <2>4, <2>5 DEF TypeOK
<1>19. ASSUME NEW f \in Feeds, FilterIncidents(f) PROVE TypeOK'
  <2>1. StoresType'
    BY <1>19, TxSyncAssumption DEF FilterIncidents, StoresType, TypeOK, stores, Save, Insert, Stages
  <2>2. ChainType'
    BY <1>19, TxSyncAssumption DEF FilterIncidents, ChainType, TypeOK, chain
  <2>3. LocalsType'
    BY <1>19, TxSyncAssumption DEF FilterIncidents, LocalsType, TypeOK, locals, Over
  <2>4. ProgressType'
    BY <1>19, TxSyncAssumption DEF FilterIncidents, ProgressType, TypeOK, locals, Goes, WindowStates, EventStates, FeedSteps
  <2>5. GhostsType'
    BY <1>19, TxSyncAssumption DEF FilterIncidents, GhostsType, TypeOK, ghosts, Insert, Fault, Tear
  <2> QED
    BY <2>1, <2>2, <2>3, <2>4, <2>5 DEF TypeOK
<1>20. ASSUME NEW f \in Feeds, FilterBoth(f) PROVE TypeOK'
  <2>1. StoresType'
    BY <1>20, TxSyncAssumption DEF FilterBoth, StoresType, TypeOK, stores, Save, Insert, Stages
  <2>2. ChainType'
    BY <1>20, TxSyncAssumption DEF FilterBoth, ChainType, TypeOK, chain
  <2>3. LocalsType'
    <3>1. UNCHANGED page
      BY <1>20 DEF FilterBoth
    <3>2. \/ UNCHANGED <<latest, prev, offset, last>>
          \/ Over({f})
      BY <1>20 DEF FilterBoth
    <3>3. latest' \in [Feeds -> Nat] /\ prev' \in [Feeds -> Nat]
          /\ offset' \in [Feeds -> Nat] /\ last' \in [Feeds -> BOOLEAN]
      BY <3>2, OverTypes DEF TypeOK, LocalsType
    <3>4. \A ts \in SUBSET Txs : [pending EXCEPT ![f] = ts] \in [Feeds -> SUBSET Txs]
      BY DEF TypeOK, LocalsType
    <3>5. {t \in pending[f] : incident[t] = "pending"} \subseteq Txs /\ pending[f] \cap listed \subseteq Txs
      BY DEF TypeOK, LocalsType
    <3>6. pending' \in [Feeds -> SUBSET Txs]
      BY <1>20, <3>4, <3>5 DEF FilterBoth, TypeOK, LocalsType
    <3>7. known' \in [Feeds -> SUBSET Txs]
      BY <1>20 DEF FilterBoth, TypeOK, LocalsType
    <3> QED
      BY <3>1, <3>3, <3>6, <3>7 DEF TypeOK, LocalsType
  <2>4. ProgressType'
    <3>1. UNCHANGED <<window, event, live, at>>
      BY <1>20 DEF FilterBoth
    <3>2. \E to \in {"check", "threw"} : step' = [step EXCEPT ![f] = to]
      BY <1>20 DEF FilterBoth, Goes
    <3>3. step[f] \in {"filterIncidents", "filterOrder"}
      BY <1>20 DEF FilterBoth, Goes
    <3> QED
      BY <3>1, <3>2, <3>3 DEF ProgressType, TypeOK, FeedSteps
  <2>5. GhostsType'
    BY <1>20, TxSyncAssumption DEF FilterBoth, GhostsType, TypeOK, ghosts, Insert, Fault, Tear
  <2> QED
    BY <2>1, <2>2, <2>3, <2>4, <2>5 DEF TypeOK
<1>21. ASSUME NEW f \in Feeds, Checked(f) PROVE TypeOK'
  <2>1. StoresType'
    BY <1>21, TxSyncAssumption DEF Checked, StoresType, TypeOK, stores, Save, Insert, Stages
  <2>2. ChainType'
    BY <1>21, TxSyncAssumption DEF Checked, ChainType, TypeOK, chain
  <2>3. LocalsType'
    BY <1>21, TxSyncAssumption DEF Checked, LocalsType, TypeOK, locals, Over
  <2>4. ProgressType'
    BY <1>21, TxSyncAssumption DEF Checked, ProgressType, TypeOK, locals, Goes, WindowStates, EventStates, FeedSteps
  <2>5. GhostsType'
    BY <1>21, TxSyncAssumption DEF Checked, GhostsType, TypeOK, ghosts, Insert, Fault, Tear
  <2> QED
    BY <2>1, <2>2, <2>3, <2>4, <2>5 DEF TypeOK
<1>22. ASSUME NEW f \in Feeds, UpdateSyncInfo(f) PROVE TypeOK'
  <2>1. StoresType'
    BY <1>22 DEF UpdateSyncInfo, StoresType, LocalsType, TypeOK
  <2>2. ChainType'
    BY <1>22, TxSyncAssumption DEF UpdateSyncInfo, ChainType, TypeOK, chain
  <2>3. LocalsType'
    BY <1>22, TxSyncAssumption DEF UpdateSyncInfo, LocalsType, TypeOK, locals, Over
  <2>4. ProgressType'
    BY <1>22, TxSyncAssumption DEF UpdateSyncInfo, ProgressType, TypeOK, locals, Goes, WindowStates, EventStates, FeedSteps
  <2>5. GhostsType'
    BY <1>22, TxSyncAssumption DEF UpdateSyncInfo, GhostsType, TypeOK, ghosts, Insert, Fault, Tear
  <2> QED
    BY <2>1, <2>2, <2>3, <2>4, <2>5 DEF TypeOK
<1>23. ASSUME NEW f \in Feeds, NewBlock(f) PROVE TypeOK'
  <2>1. StoresType'
    BY <1>23, TxSyncAssumption DEF NewBlock, StoresType, TypeOK, stores, Save, Insert, Stages
  <2>2. ChainType'
    BY <1>23, TxSyncAssumption DEF NewBlock, ChainType, TypeOK, chain
  <2>3. LocalsType'
    BY <1>23, TxSyncAssumption DEF NewBlock, LocalsType, TypeOK, locals, Over
  <2>4. ProgressType'
    BY <1>23, TxSyncAssumption DEF NewBlock, ProgressType, TypeOK, locals, Goes, WindowStates, EventStates, FeedSteps
  <2>5. GhostsType'
    BY <1>23, TxSyncAssumption DEF NewBlock, GhostsType, TypeOK, ghosts, Insert, Fault, Tear
  <2> QED
    BY <2>1, <2>2, <2>3, <2>4, <2>5 DEF TypeOK
<1>24. ASSUME NEW f \in Feeds, Index(f) PROVE TypeOK'
  <2>1. StoresType'
    BY <1>24, TxSyncAssumption DEF Index, StoresType, TypeOK, stores, Save, Insert, Stages
  <2>2. ChainType'
    BY <1>24, SMTT(30) DEF Index, ChainType, TypeOK
  <2>3. LocalsType'
    BY <1>24, TxSyncAssumption DEF Index, LocalsType, TypeOK, locals, Over
  <2>4. ProgressType'
    BY <1>24, TxSyncAssumption DEF Index, ProgressType, TypeOK, locals, Goes, WindowStates, EventStates, FeedSteps
  <2>5. GhostsType'
    BY <1>24, TxSyncAssumption DEF Index, GhostsType, TypeOK, ghosts, Insert, Fault, Tear
  <2> QED
    BY <2>1, <2>2, <2>3, <2>4, <2>5 DEF TypeOK
<1>25. ASSUME NEW f \in Feeds, Gap(f) PROVE TypeOK'
  <2>1. StoresType'
    BY <1>25, TxSyncAssumption DEF Gap, StoresType, TypeOK, stores, Save, Insert, Stages
  <2>2. ChainType'
    BY <1>25, TxSyncAssumption DEF Gap, ChainType, TypeOK, chain
  <2>3. LocalsType'
    BY <1>25, TxSyncAssumption DEF Gap, LocalsType, TypeOK, locals, Over
  <2>4. ProgressType'
    BY <1>25, TxSyncAssumption DEF Gap, ProgressType, TypeOK, locals, Goes, WindowStates, EventStates, FeedSteps
  <2>5. GhostsType'
    BY <1>25, TxSyncAssumption DEF Gap, GhostsType, TypeOK, ghosts, Insert, Fault, Tear
  <2> QED
    BY <2>1, <2>2, <2>3, <2>4, <2>5 DEF TypeOK
<1>26. ASSUME NEW f \in Feeds, Restart(f) PROVE TypeOK'
  <2>1. StoresType'
    BY <1>26, TxSyncAssumption DEF Restart, StoresType, TypeOK, stores, Save, Insert, Stages
  <2>2. ChainType'
    BY <1>26, TxSyncAssumption DEF Restart, ChainType, TypeOK, chain
  <2>3. LocalsType'
    BY <1>26, TxSyncAssumption DEF Restart, LocalsType, TypeOK, locals, Over
  <2>4. ProgressType'
    BY <1>26, TxSyncAssumption DEF Restart, ProgressType, TypeOK, locals, Goes, WindowStates, EventStates, FeedSteps
  <2>5. GhostsType'
    BY <1>26, TxSyncAssumption DEF Restart, GhostsType, TypeOK, ghosts, Insert, Fault, Tear
  <2> QED
    BY <2>1, <2>2, <2>3, <2>4, <2>5 DEF TypeOK
<1>27. ASSUME NEW f \in Feeds, NEW t \in Txs, SyncRecord(f, t) PROVE TypeOK'
  <2>1. StoresType'
    BY <1>27, TxSyncAssumption DEF SyncRecord, StoresType, TypeOK, stores, Save, Insert, Stages
  <2>2. ChainType'
    BY <1>27, TxSyncAssumption DEF SyncRecord, ChainType, TypeOK, chain
  <2>3. LocalsType'
    BY <1>27, TxSyncAssumption DEF SyncRecord, LocalsType, TypeOK, locals, Over
  <2>4. ProgressType'
    <3>1. UNCHANGED <<window, event, live>> /\ t # None /\ step[f] = "page"
      BY <1>27, TxSyncAssumption DEF SyncRecord
    <3>2. \/ UNCHANGED <<step, at>>
          \/ /\ at' = [at EXCEPT ![f] = t]
             /\ step' = [step EXCEPT ![f] = "saved"]
      BY <1>27 DEF SyncRecord
    <3> QED
      BY <3>1, <3>2 DEF ProgressType, TypeOK, FeedSteps
  <2>5. GhostsType'
    BY <1>27, TxSyncAssumption DEF SyncRecord, GhostsType, TypeOK, ghosts, Insert, Fault, Tear
  <2> QED
    BY <2>1, <2>2, <2>3, <2>4, <2>5 DEF TypeOK
<1>28. ASSUME NEW f \in Feeds, NEW t \in Txs, Check(f, t) PROVE TypeOK'
  <2>1. StoresType'
    BY <1>28, TxSyncAssumption DEF Check, StoresType, TypeOK, stores, Save, Insert, Stages
  <2>2. ChainType'
    BY <1>28, TxSyncAssumption DEF Check, ChainType, TypeOK, chain
  <2>3. LocalsType'
    BY <1>28, TxSyncAssumption DEF Check, LocalsType, TypeOK, locals, Over
  <2>4. ProgressType'
    <3>1. UNCHANGED <<window, event, live>> /\ t # None
      BY <1>28, TxSyncAssumption DEF Check
    <3>2. \/ UNCHANGED <<step, at>>
          \/ /\ at' = [at EXCEPT ![f] = t]
             /\ \E to \in {"found", "missing"} : step' = [step EXCEPT ![f] = to]
      BY <1>28 DEF Check
    <3> QED
      BY <3>1, <3>2 DEF ProgressType, TypeOK, FeedSteps
  <2>5. GhostsType'
    BY <1>28, TxSyncAssumption DEF Check, GhostsType, TypeOK, ghosts, Insert, Fault, Tear
  <2> QED
    BY <2>1, <2>2, <2>3, <2>4, <2>5 DEF TypeOK
<1>29. ASSUME Crash PROVE TypeOK'
  <2>1. StoresType'
    BY <1>29, TxSyncAssumption DEF Crash, StoresType, TypeOK, stores, Save, Insert, Stages
  <2>2. ChainType'
    BY <1>29, TxSyncAssumption DEF Crash, ChainType, TypeOK, chain
  <2>3. LocalsType'
    BY <1>29, TxSyncAssumption DEF Crash, LocalsType, TypeOK, locals, Over
  <2>4. ProgressType'
    BY <1>29, TxSyncAssumption DEF Crash, ProgressType, TypeOK, locals, Goes, WindowStates, EventStates, FeedSteps
  <2>5. GhostsType'
    <3>1. Saving \subseteq Txs
      BY TxSyncAssumption DEF Saving, TypeOK, ProgressType
    <3> QED
      BY <1>29, <3>1 DEF Crash, GhostsType, TypeOK, Fault, Tear
  <2> QED
    BY <2>1, <2>2, <2>3, <2>4, <2>5 DEF TypeOK
<1>31. ASSUME NEW t \in Txs, EventThrows(t) PROVE TypeOK'
  <2>1. StoresType'
    BY <1>31 DEF EventThrows, StoresType, TypeOK, stores
  <2>2. ChainType'
    BY <1>31 DEF EventThrows, ChainType, TypeOK, chain
  <2>3. LocalsType'
    BY <1>31 DEF EventThrows, LocalsType, TypeOK, locals
  <2>4. ProgressType'
    BY <1>31 DEF EventThrows, ProgressType, TypeOK, locals, EventStates
  <2>5. GhostsType'
    BY <1>31 DEF EventThrows, GhostsType, TypeOK, Fault, Tear
  <2> QED
    BY <2>1, <2>2, <2>3, <2>4, <2>5 DEF TypeOK
<1>32. ASSUME NEW f \in Feeds, FeedThrows(f) PROVE TypeOK'
  <2>1. StoresType'
    BY <1>32 DEF FeedThrows, StoresType, TypeOK, stores
  <2>2. ChainType'
    BY <1>32 DEF FeedThrows, ChainType, TypeOK, chain
  <2>3. LocalsType'
    BY <1>32, OverTypes DEF FeedThrows, LocalsType, TypeOK
  <2>4. ProgressType'
    BY <1>32, TxSyncAssumption DEF FeedThrows, ProgressType, TypeOK, FeedSteps
  <2>5. GhostsType'
    <3>1. {t \in {at[f]} : step[f] = "saved"} \subseteq Txs
      BY DEF TypeOK, ProgressType
    <3> QED
      BY <1>32, <3>1 DEF FeedThrows, GhostsType, TypeOK, Fault, Tear
  <2> QED
    BY <2>1, <2>2, <2>3, <2>4, <2>5 DEF TypeOK
<1>30. CASE UNCHANGED vars
  BY <1>30 DEF vars, TypeOK, stores, chain, locals, ghosts, StoresType, ChainType, LocalsType, ProgressType, GhostsType
<1> QED
  BY <1>1, <1>2, <1>3, <1>4, <1>5, <1>6, <1>7, <1>8, <1>9, <1>10, <1>11, <1>12, <1>13, <1>14, <1>15, <1>16, <1>17, <1>18, <1>19, <1>20, <1>21, <1>22, <1>23, <1>24, <1>25, <1>26, <1>27, <1>28, <1>29, <1>30, <1>31, <1>32 DEF Next, TxStep, FeedStep

\* Every variable keeps to its type, for any number of feeds.
THEOREM TypeCorrect == Spec => []TypeOK
<1>1. TypeOK /\ [Next]_vars => TypeOK'
  BY TypeNext
<1> QED
  BY TypeInit, <1>1, PTL DEF Spec
-----------------------------------------------------------------------------
(* What has been synchronized, for one feed. *)

LEMMA Values ==
  ASSUME NEW f \in Feeds, TypeOK
  PROVE  /\ syncHeight[f] \in Nat /\ latest[f] \in Nat /\ tip[f] \in Nat
         /\ prev[f] \in Nat /\ offset[f] \in Nat /\ indexed[f] \in Nat
         /\ Len(log[f]) \in Nat /\ indexed[f] <= Len(log[f])
         /\ \A t \in Txs : height[t] \in Nat
         /\ \A i \in 1..Len(log[f]) : log[f][i] \in Txs
  BY DEF TypeOK, StoresType, ChainType, LocalsType

\* A stage that is final, or that of a transaction the feed does not rely on, does
\* no harm.
LEMMA Harmless ==
  ASSUME NEW f \in Feeds, IInv(f), NEW t \in Txs,
         \A u \in Txs : u # t => incident'[u] = incident[u],
         \/ incident'[t] = "synced"
         \/ ~Upto(t, syncHeight[f]) /\ (step[f] \in Synchronizing => ~Upto(t, latest[f])),
         UNCHANGED <<step, log, height, syncHeight, latest, prev, offset, page, last, indexed>>
  PROVE  PageInv(f)' /\ NoneMissedOn(f)'
<1>1. \A u \in Txs :
        /\ incident[u] = "synced"
        /\ Upto(u, syncHeight[f]) \/ (step[f] \in Synchronizing /\ Upto(u, latest[f]))
        => incident'[u] = "synced"
  OBVIOUS
<1>2. \A i \in 1..Len(log[f]) :
        log[f][i] \in Txs /\ (height[log[f][i]] <= latest[f] => Upto(log[f][i], latest[f]))
  BY Values DEF IInv, ChainInv, Upto
<1>3. NoneMissedOn(f)'
  BY <1>1 DEF IInv, NoneMissedOn, Upto
<1>4. \A i \in 1..Len(log[f]) :
        step[f] \in {"fetch", "fetched", "page", "saved"} /\ i > indexed[f] - offset[f] /\ height[log[f][i]] <= latest[f]
          => incident'[log[f][i]] = "synced" \/ log[f][i] \in page[f]
  BY <1>1, <1>2 DEF IInv, PageInv, Synchronizing
<1>5. \A u \in Txs : Upto(u, latest[f]) =>
        /\ step[f] \in {"fetched", "page", "saved"} /\ last[f] => incident'[u] = "synced" \/ u \in page[f]
        /\ step[f] \in Checking => incident'[u] = "synced"
  BY <1>1 DEF IInv, PageInv, Synchronizing, Checking
<1>6. PageInv(f)'
  BY <1>4, <1>5 DEF IInv, PageInv, Upto
<1> QED
  BY <1>3, <1>6

\* What a node does not find is not among what the feed relies on.
LEMMA NotFound ==
  ASSUME NEW f \in Feeds, IInv(f), NEW t \in Txs, t \notin Found(f)
  PROVE  /\ ~Upto(t, syncHeight[f])
         /\ step[f] \in Synchronizing => ~Upto(t, latest[f])
<1>1. CASE height[t] > 0
  <2>1. PICK i \in 1..Len(log[f]) : log[f][i] = t
    BY <1>1 DEF IInv, ChainInv
  <2>2. i > indexed[f]
    BY <2>1, Values DEF Found, IInv
  <2> QED
    BY <2>1, <2>2, Values DEF IInv, IndexInv, Upto
<1> QED
  BY <1>1 DEF Upto

LEMMA InvNext ==
  ASSUME NEW f, Feeds = {f}, IInv(f), [Next]_vars
  PROVE  IInv(f)'
<1> USE DEF IInv
<1>0. TypeOK' /\ f \in Feeds /\ \A t \in Txs : Of[t] = f
  BY TypeNext, TxSyncAssumption
<1>1. ASSUME NEW t \in Txs, Approve(t) PROVE IInv(f)'
  <2>1. ChainInv(f)'
    BY <1>0, <1>1 DEF Approve, ChainInv, stores, chain, locals, Over, TypeOK, StoresType, ChainType, LocalsType, ProgressType
  <2>2. IndexInv(f)'
    BY <1>0, <1>1 DEF Approve, IndexInv, stores, chain, locals, Over, Goes, Synchronizing, Upto, TypeOK, StoresType, ChainType, LocalsType, ProgressType
  <2>3. PageInv(f)' /\ NoneMissedOn(f)'
    <3>1. \A u \in Txs : u # t => incident'[u] = incident[u]
      BY <1>0, <1>1 DEF Approve, Save, TypeOK, StoresType
    <3>2. ~Upto(t, syncHeight[f]) /\ ~Upto(t, latest[f])
      BY <1>0, <1>1 DEF Approve, ChainInv, Upto
    <3> QED
      BY <1>0, <1>1, <3>1, <3>2, Harmless DEF Approve, stores, chain, locals
  <2>4. NoneMissedOn(f)'
    BY <2>3
  <2> QED
    BY <1>0, <2>1, <2>2, <2>3, <2>4
<1>2. ASSUME NEW t \in Txs, ApproveInsert(t) PROVE IInv(f)'
  <2>1. ChainInv(f)'
    BY <1>0, <1>2 DEF ApproveInsert, ChainInv, stores, chain, locals, Over, TypeOK, StoresType, ChainType, LocalsType, ProgressType
  <2>2. IndexInv(f)'
    BY <1>0, <1>2 DEF ApproveInsert, IndexInv, stores, chain, locals, Over, Goes, Synchronizing, Upto, TypeOK, StoresType, ChainType, LocalsType, ProgressType
  <2>3. PageInv(f)'
    BY <1>0, <1>2 DEF ApproveInsert, PageInv, stores, chain, locals, Over, Goes, Synchronizing, Checking, Upto, Save, TypeOK, StoresType, ChainType, LocalsType, ProgressType
  <2>4. NoneMissedOn(f)'
    BY <1>0, <1>2 DEF ApproveInsert, NoneMissedOn, stores, chain, Upto, Save, TypeOK, StoresType, ChainType, LocalsType, ProgressType
  <2> QED
    BY <1>0, <2>1, <2>2, <2>3, <2>4
<1>3. ASSUME NEW t \in Txs, Broadcast(t) PROVE IInv(f)'
  <2>1. ChainInv(f)'
    <3>1. height[t] = 0 /\ mempool' \subseteq mempool \cup {t} /\ window'[t] # "contacting"
      BY <1>0, <1>3 DEF Broadcast, ChainInv, TypeOK, ProgressType
    <3>2. \A u \in Txs : u # t => window'[u] = window[u]
      BY <1>0, <1>3 DEF Broadcast, TypeOK, ProgressType
    <3>3. t \in mempool' => window'[t] = "done"
      BY <1>0, <1>3 DEF Broadcast, TypeOK, ProgressType, ChainInv
    <3>4. mempool \subseteq Txs
      BY DEF TypeOK, ChainType
    <3> QED
      BY <1>3, <3>1, <3>2, <3>3, <3>4 DEF Broadcast, ChainInv, stores, locals
  <2>2. IndexInv(f)'
    BY <1>0, <1>3 DEF Broadcast, IndexInv, stores, chain, locals, Over, Goes, Synchronizing, Upto, TypeOK, StoresType, ChainType, LocalsType, ProgressType
  <2>3. PageInv(f)'
    BY <1>0, <1>3 DEF Broadcast, PageInv, stores, chain, locals, Over, Goes, Synchronizing, Checking, Upto, Save, TypeOK, StoresType, ChainType, LocalsType, ProgressType
  <2>4. NoneMissedOn(f)'
    BY <1>0, <1>3 DEF Broadcast, NoneMissedOn, stores, chain, Upto, Save, TypeOK, StoresType, ChainType, LocalsType, ProgressType
  <2> QED
    BY <1>0, <2>1, <2>2, <2>3, <2>4
<1>4. ASSUME NEW t \in Txs, HandleCheckTxError(t) PROVE IInv(f)'
  <2>1. ChainInv(f)'
    BY <1>0, <1>4 DEF HandleCheckTxError, ChainInv, stores, chain, locals, Over, TypeOK, StoresType, ChainType, LocalsType, ProgressType
  <2>2. IndexInv(f)'
    BY <1>0, <1>4 DEF HandleCheckTxError, IndexInv, stores, chain, locals, Over, Goes, Synchronizing, Upto, TypeOK, StoresType, ChainType, LocalsType, ProgressType
  <2>3. PageInv(f)' /\ NoneMissedOn(f)'
    <3>1. \A u \in Txs : u # t => incident'[u] = incident[u]
      BY <1>0, <1>4 DEF HandleCheckTxError, Save, TypeOK, StoresType
    <3>2. incident'[t] = "synced"
      BY <1>0, <1>4 DEF HandleCheckTxError, Save, TypeOK, StoresType
    <3> QED
      BY <1>0, <1>4, <3>1, <3>2, Harmless DEF HandleCheckTxError, stores, chain, locals
  <2>4. NoneMissedOn(f)'
    BY <2>3
  <2> QED
    BY <1>0, <2>1, <2>2, <2>3, <2>4
<1>5. ASSUME NEW t \in Txs, Commit(t) PROVE IInv(f)'
  <2>c1. t \in mempool /\ height[t] = 0 /\ f \in Feeds /\ Of[t] = f /\ window[t] = "done"
    BY <1>0, <1>5 DEF Commit, ChainInv
  <2>c2. log'[f] = Append(log[f], t) /\ height'[t] = tip[f] + 1
    BY <1>0, <1>5 DEF Commit, TypeOK, ChainType
  <2>c3. \A u \in Txs : u # t => height'[u] = height[u]
    BY <1>0, <1>5 DEF Commit, TypeOK, ChainType
  <2>c4. Len(log'[f]) = Len(log[f]) + 1 /\ log'[f][Len(log[f]) + 1] = t
        /\ \A i \in 1..Len(log[f]) : log'[f][i] = log[f][i] /\ log[f][i] # t
    <3>1. log[f] \in Seq(Txs)
      BY <1>0 DEF TypeOK, ChainType
    <3>2. \A i \in 1..Len(log[f]) : log[f][i] # t
      BY <1>0, <2>c1 DEF ChainInv
    <3>3. Len(log'[f]) = Len(log[f]) + 1 /\ log'[f][Len(log[f]) + 1] = t
      BY <2>c2, <3>1
    <3>4. \A i \in 1..Len(log[f]) : log'[f][i] = log[f][i]
      BY <2>c2, <3>1
    <3> QED
      BY <3>2, <3>3, <3>4
  <2>c5. \A i \in 1..Len(log[f]) : log[f][i] \in Txs /\ height'[log'[f][i]] = height[log[f][i]]
    BY <1>0, <2>c3, <2>c4, Values
  <2>1. ChainInv(f)'
    <3>1. UNCHANGED <<stores, tip, latest, window>> /\ mempool' = mempool \ {t} /\ mempool \subseteq Txs
      BY <1>5 DEF Commit, locals, TypeOK, ChainType
    <3>2. \A i \in 1..Len(log'[f]) : i \in 1..Len(log[f]) \/ i = Len(log[f]) + 1
      BY <1>0, <2>c4, Values
    <3>3. \A i \in 1..Len(log'[f]) : height'[log'[f][i]] > 0 /\ height'[log'[f][i]] <= tip[f] + 1
      <4>1. ASSUME NEW i \in 1..Len(log[f])
            PROVE  height'[log'[f][i]] > 0 /\ height'[log'[f][i]] <= tip[f] + 1
        BY <2>c5 DEF ChainInv
      <4>2. height'[t] > 0 /\ height'[t] <= tip[f] + 1
        BY <1>0, <2>c2, Values
      <4> QED
        BY <2>c4, <3>2, <4>1, <4>2
    <3>4. \A u \in Txs : height'[u] > 0 => \E i \in 1..Len(log'[f]) : log'[f][i] = u
      <4> SUFFICES ASSUME NEW u \in Txs, height'[u] > 0
                   PROVE  \E i \in 1..Len(log'[f]) : log'[f][i] = u
        OBVIOUS
      <4>0. Len(log[f]) \in Nat
        BY <1>0, Values
      <4>1. CASE u = t
        <5>1. Len(log[f]) + 1 \in 1..Len(log'[f])
          BY <2>c4, <4>0
        <5> QED
          BY <2>c4, <4>1, <5>1
      <4>2. CASE u # t
        <5>1. PICK i \in 1..Len(log[f]) : log[f][i] = u
          BY <2>c3, <4>2 DEF ChainInv
        <5>2. i \in 1..Len(log'[f]) /\ log'[f][i] = u
          BY <2>c4, <4>0, <5>1
        <5> QED
          BY <5>2
      <4> QED
        BY <4>1, <4>2
    <3>5. \A i, j \in 1..Len(log'[f]) : i <= j => height'[log'[f][i]] <= height'[log'[f][j]]
      BY <1>0, <2>c2, <2>c4, <2>c5, <3>2, <3>3, Values DEF ChainInv
    <3>6. \A u \in Txs : height'[u] <= tip[f] + 1
      BY <1>0, <2>c2, <2>c3, Values DEF ChainInv
    <3>7. \A u \in mempool' : height'[u] = 0 /\ window'[u] = "done"
      BY <2>c3, <3>1 DEF ChainInv
    <3>8. \A u \in Txs : window'[u] # "done" => height'[u] = 0
      BY <2>c1, <2>c3, <3>1 DEF ChainInv
    <3> QED
      BY <3>1, <3>3, <3>4, <3>5, <3>6, <3>7, <3>8 DEF ChainInv, stores
  <2>2. IndexInv(f)'
    <3>1. UNCHANGED <<stores, indexed, latest, step, live, at>>
      BY <1>5 DEF Commit, locals
    <3>2. \A i \in 1..Len(log'[f]) : i > indexed[f] =>
            /\ height'[log'[f][i]] > syncHeight[f]
            /\ step[f] \in Synchronizing => height'[log'[f][i]] > latest[f]
      BY <1>0, <2>c2, <2>c4, <2>c5, Values DEF IndexInv, ChainInv
    <3>3. \A u \in Txs : event'[u] = event[u] \/ (u = t /\ event'[u] \in {"none", "event"})
      <4>1. event \in [Txs -> EventStates]
        BY DEF TypeOK, ProgressType
      <4>2. event' = [event EXCEPT ![t] = IF live[Of[t]] THEN "event" ELSE "none"]
        BY <1>5 DEF Commit
      <4>3. event'[t] \in {"none", "event"}
        BY <4>1, <4>2
      <4>4. \A u \in Txs : u # t => event'[u] = event[u]
        BY <4>1, <4>2
      <4> HIDE DEF IInv
      <4> QED
        BY <4>3, <4>4, Zenon
    <3>4. step[f] \in {"off", "latest"} => \A u \in Txs : event'[u] = "none"
      BY <1>0, <1>5 DEF Commit, IndexInv, TypeOK, ProgressType
    <3>5. \A u \in Txs, h \in Nat : h <= tip[f] /\ ~Upto(u, h) => ~(0 < height'[u] /\ height'[u] <= h)
      BY <1>0, <2>c2, <2>c3, Values DEF Upto
    <3>6. syncHeight[f] <= tip[f] /\ latest[f] <= tip[f]
      BY DEF ChainInv
    <3>7. step[f] = "missing" => at[f] \in Txs
      BY <1>0 DEF TypeOK, ProgressType
    <3> HIDE DEF IInv
    <3>8. \A u \in Txs : event'[u] = "missing" =>
            /\ ~(0 < height'[u] /\ height'[u] <= syncHeight[f])
            /\ step[f] \in Synchronizing => ~(0 < height'[u] /\ height'[u] <= latest[f])
      BY <1>0, <3>3, <3>5, <3>6, Values DEF IndexInv, IInv
    <3>9. step[f] = "missing" =>
            /\ ~(0 < height'[at[f]] /\ height'[at[f]] <= syncHeight[f])
            /\ ~(0 < height'[at[f]] /\ height'[at[f]] <= latest[f])
      BY <1>0, <3>5, <3>6, <3>7, Values DEF IndexInv, IInv
    <3> QED
      BY <3>1, <3>2, <3>4, <3>8, <3>9 DEF IndexInv, IInv, Upto, stores
  <2>3. PageInv(f)'
    <3>1. UNCHANGED <<stores, indexed, latest, prev, offset, page, last, step>>
      BY <1>5 DEF Commit, locals
    <3>2. \A u \in Txs : (0 < height'[u] /\ height'[u] <= latest[f]) => Upto(u, latest[f])
      BY <1>0, <2>c2, <2>c3, Values DEF Upto, ChainInv
    <3>3. \A i \in 1..Len(log'[f]) : height'[log'[f][i]] <= latest[f] =>
            i \in 1..Len(log[f]) /\ height[log[f][i]] <= latest[f] /\ log'[f][i] = log[f][i]
      BY <1>0, <2>c2, <2>c4, <2>c5, Values DEF ChainInv
    <3>4. step[f] \in {"fetch", "fetched", "page", "saved"} =>
            \A i \in 1..Len(log'[f]) :
              i > indexed[f] - offset[f] /\ height'[log'[f][i]] <= latest[f]
                => incident[log'[f][i]] = "synced" \/ log'[f][i] \in page[f]
      BY <3>3 DEF PageInv
    <3> QED
      BY <3>1, <3>2, <3>4 DEF PageInv, Upto, stores
  <2>4. NoneMissedOn(f)'
    <3>1. syncHeight' = syncHeight /\ incident' = incident
      BY <1>5 DEF Commit, stores
    <3>2. syncHeight[f] \in Nat /\ tip[f] \in Nat /\ syncHeight[f] <= tip[f]
      BY <1>0, Values DEF ChainInv
    <3>3. ~(height'[t] <= syncHeight[f])
      BY <2>c2, <3>2
    <3> QED
      BY <2>c3, <3>1, <3>3 DEF NoneMissedOn, Upto
  <2> QED
    BY <1>0, <2>1, <2>2, <2>3, <2>4
<1>6. ASSUME NEW t \in Txs, Download(t) PROVE IInv(f)'
  <2>1. ChainInv(f)'
    BY <1>0, <1>6 DEF Download, ChainInv, stores, chain, locals, Over, TypeOK, StoresType, ChainType, LocalsType, ProgressType
  <2>2. IndexInv(f)'
    <3>1. \A u \in Txs : event'[u] = "missing" => event[u] = "missing" \/ (u = t /\ t \notin Found(f))
      <4>1. event \in [Txs -> EventStates] /\ Of[t] = f
        BY <1>0 DEF TypeOK, ProgressType
      <4>2. \A u \in Txs : u # t => event'[u] = event[u]
        BY <1>6, <4>1 DEF Download
      <4>3. event'[t] = "missing" => t \notin Found(f)
        BY <1>6, <4>1 DEF Download
      <4> HIDE DEF IInv
      <4> QED
        BY <4>2, <4>3, Zenon
    <3>2. \A u \in Txs : event[u] = "none" => event'[u] = "none"
      BY <1>0, <1>6 DEF Download, TypeOK, ProgressType
    <3>3. \A u \in Txs : event'[u] = "missing" =>
            ~Upto(u, syncHeight[f]) /\ (step[f] \in Synchronizing => ~Upto(u, latest[f]))
      BY <1>0, <3>1, NotFound DEF IndexInv
    <3> QED
      BY <1>6, <3>2, <3>3 DEF Download, IndexInv, stores, chain, locals, Upto
  <2>3. PageInv(f)'
    BY <1>0, <1>6 DEF Download, PageInv, stores, chain, locals, Over, Goes, Synchronizing, Checking, Upto, Save, TypeOK, StoresType, ChainType, LocalsType, ProgressType
  <2>4. NoneMissedOn(f)'
    BY <1>0, <1>6 DEF Download, NoneMissedOn, stores, chain, Upto, Save, TypeOK, StoresType, ChainType, LocalsType, ProgressType
  <2> QED
    BY <1>0, <2>1, <2>2, <2>3, <2>4
<1>7. ASSUME NEW t \in Txs, DownloadMissing(t) PROVE IInv(f)'
  <2>1. ChainInv(f)'
    BY <1>0, <1>7 DEF DownloadMissing, ChainInv, stores, chain, locals, Over, TypeOK, StoresType, ChainType, LocalsType, ProgressType
  <2>2. IndexInv(f)'
    BY <1>0, <1>7 DEF DownloadMissing, IndexInv, stores, chain, locals, Over, Goes, Synchronizing, Upto, TypeOK, StoresType, ChainType, LocalsType, ProgressType
  <2>3. PageInv(f)' /\ NoneMissedOn(f)'
    <3>1. \A u \in Txs : u # t => incident'[u] = incident[u]
      BY <1>0, <1>7 DEF DownloadMissing, Save, TypeOK, StoresType
    <3>2. ~Upto(t, syncHeight[f]) /\ (step[f] \in Synchronizing => ~Upto(t, latest[f]))
      BY <1>0, <1>7 DEF DownloadMissing, IndexInv
    <3> QED
      BY <1>0, <1>7, <3>1, <3>2, Harmless DEF DownloadMissing, stores, chain, locals
  <2>4. NoneMissedOn(f)'
    BY <2>3
  <2> QED
    BY <1>0, <2>1, <2>2, <2>3, <2>4
<1>8. ASSUME NEW t \in Txs, EventRecord(t) PROVE IInv(f)'
  <2>1. ChainInv(f)'
    BY <1>0, <1>8 DEF EventRecord, ChainInv, stores, chain, locals, Over, TypeOK, StoresType, ChainType, LocalsType, ProgressType
  <2>2. IndexInv(f)'
    BY <1>0, <1>8 DEF EventRecord, IndexInv, stores, chain, locals, Over, Goes, Synchronizing, Upto, TypeOK, StoresType, ChainType, LocalsType, ProgressType
  <2>3. PageInv(f)'
    BY <1>0, <1>8 DEF EventRecord, PageInv, stores, chain, locals, Over, Goes, Synchronizing, Checking, Upto, Save, TypeOK, StoresType, ChainType, LocalsType, ProgressType
  <2>4. NoneMissedOn(f)'
    BY <1>0, <1>8 DEF EventRecord, NoneMissedOn, stores, chain, Upto, Save, TypeOK, StoresType, ChainType, LocalsType, ProgressType
  <2> QED
    BY <1>0, <2>1, <2>2, <2>3, <2>4
<1>9. ASSUME NEW t \in Txs, EventInsert(t) PROVE IInv(f)'
  <2>1. ChainInv(f)'
    BY <1>0, <1>9 DEF EventInsert, ChainInv, stores, chain, locals, Over, TypeOK, StoresType, ChainType, LocalsType, ProgressType
  <2>2. IndexInv(f)'
    BY <1>0, <1>9 DEF EventInsert, IndexInv, stores, chain, locals, Over, Goes, Synchronizing, Upto, TypeOK, StoresType, ChainType, LocalsType, ProgressType
  <2>3. PageInv(f)'
    BY <1>0, <1>9 DEF EventInsert, PageInv, stores, chain, locals, Over, Goes, Synchronizing, Checking, Upto, Save, TypeOK, StoresType, ChainType, LocalsType, ProgressType
  <2>4. NoneMissedOn(f)'
    BY <1>0, <1>9 DEF EventInsert, NoneMissedOn, stores, chain, Upto, Save, TypeOK, StoresType, ChainType, LocalsType, ProgressType
  <2> QED
    BY <1>0, <2>1, <2>2, <2>3, <2>4
<1>10. ASSUME NEW t \in Txs, CloseWindow(t) PROVE IInv(f)'
  <2>1. ChainInv(f)'
    BY <1>0, <1>10 DEF CloseWindow, ChainInv, stores, chain, locals, Over, TypeOK, StoresType, ChainType, LocalsType, ProgressType
  <2>2. IndexInv(f)'
    BY <1>0, <1>10 DEF CloseWindow, IndexInv, stores, chain, locals, Over, Goes, Synchronizing, Upto, TypeOK, StoresType, ChainType, LocalsType, ProgressType
  <2>3. PageInv(f)'
    BY <1>0, <1>10 DEF CloseWindow, PageInv, stores, chain, locals, Over, Goes, Synchronizing, Checking, Upto, Save, TypeOK, StoresType, ChainType, LocalsType, ProgressType
  <2>4. NoneMissedOn(f)'
    BY <1>0, <1>10 DEF CloseWindow, NoneMissedOn, stores, chain, Upto, Save, TypeOK, StoresType, ChainType, LocalsType, ProgressType
  <2> QED
    BY <1>0, <2>1, <2>2, <2>3, <2>4
<1>11. ASSUME LatestBlock(f) PROVE IInv(f)'
  <2>1. ChainInv(f)'
    BY <1>0, <1>11 DEF LatestBlock, ChainInv, stores, chain, locals, Over, TypeOK, StoresType, ChainType, LocalsType, ProgressType
  <2>2. IndexInv(f)'
    BY <1>0, <1>11 DEF LatestBlock, IndexInv, stores, chain, locals, Over, Goes, Synchronizing, Upto, TypeOK, StoresType, ChainType, LocalsType, ProgressType
  <2>3. PageInv(f)'
    BY <1>0, <1>11 DEF LatestBlock, PageInv, stores, chain, locals, Over, Goes, Synchronizing, Checking, Upto, Save, TypeOK, StoresType, ChainType, LocalsType, ProgressType
  <2>4. NoneMissedOn(f)'
    BY <1>0, <1>11 DEF LatestBlock, NoneMissedOn, stores, chain, Upto, Save, TypeOK, StoresType, ChainType, LocalsType, ProgressType
  <2> QED
    BY <1>0, <2>1, <2>2, <2>3, <2>4
<1>12. ASSUME Subscribe(f) PROVE IInv(f)'
  <2>1. ChainInv(f)'
    BY <1>0, <1>12 DEF Subscribe, ChainInv, stores, chain, locals, Over, TypeOK, StoresType, ChainType, LocalsType, ProgressType
  <2>2. IndexInv(f)'
    BY <1>0, <1>12 DEF Subscribe, IndexInv, stores, chain, locals, Over, Goes, Synchronizing, Upto, TypeOK, StoresType, ChainType, LocalsType, ProgressType
  <2>3. PageInv(f)'
    BY <1>0, <1>12 DEF Subscribe, PageInv, stores, chain, locals, Over, Goes, Synchronizing, Checking, Upto, Save, TypeOK, StoresType, ChainType, LocalsType, ProgressType
  <2>4. NoneMissedOn(f)'
    BY <1>0, <1>12 DEF Subscribe, NoneMissedOn, stores, chain, Upto, Save, TypeOK, StoresType, ChainType, LocalsType, ProgressType
  <2> QED
    BY <1>0, <2>1, <2>2, <2>3, <2>4
<1>13. ASSUME SyncHeight(f) PROVE IInv(f)'
  <2>1. ChainInv(f)'
    BY <1>0, <1>13 DEF SyncHeight, ChainInv, stores, chain, locals, Over, TypeOK, StoresType, ChainType, LocalsType, ProgressType
  <2>2. IndexInv(f)'
    BY <1>0, <1>13 DEF SyncHeight, IndexInv, stores, chain, locals, Over, Goes, Synchronizing, Upto, TypeOK, StoresType, ChainType, LocalsType, ProgressType
  <2>3. PageInv(f)'
    <3>1. step[f] = "subscribed" /\ step'[f] = "fetch" /\ offset'[f] = 0 /\ prev'[f] = syncHeight[f]
      BY <1>0, <1>13 DEF SyncHeight, Goes, TypeOK, ProgressType, LocalsType
    <3>2. UNCHANGED <<incident, log, height, indexed, syncHeight, latest, page, last>>
      BY <1>13 DEF SyncHeight, stores, chain
    <3>3. \A i \in 1..Len(log[f]) : i > indexed[f] => height[log[f][i]] > latest[f]
      BY <3>1 DEF IndexInv, Synchronizing
    <3>4. \A i \in 1..Len(log[f]) : ~(i > indexed[f] - 0 /\ height[log[f][i]] <= latest[f])
      BY <1>0, <3>3, Values
    <3>5. page[f] = {}
      BY <3>1 DEF PageInv
    <3> QED
      BY <3>1, <3>2, <3>4, <3>5 DEF PageInv, Checking
  <2>4. NoneMissedOn(f)'
    BY <1>0, <1>13 DEF SyncHeight, NoneMissedOn, stores, chain, Upto, Save, TypeOK, StoresType, ChainType, LocalsType, ProgressType
  <2> QED
    BY <1>0, <2>1, <2>2, <2>3, <2>4
<1>14. ASSUME Fetch(f) PROVE IInv(f)'
  <2>1. ChainInv(f)'
    BY <1>0, <1>14 DEF Fetch, ChainInv, stores, chain, locals, Over, TypeOK, StoresType, ChainType, LocalsType, ProgressType
  <2>2. IndexInv(f)'
    BY <1>0, <1>14 DEF Fetch, IndexInv, stores, chain, locals, Over, Goes, Synchronizing, Upto, TypeOK, StoresType, ChainType, LocalsType, ProgressType
  <2>3. PageInv(f)'
    <3> DEFINE limit == IF offset[f] = 0 THEN FirstPage ELSE PageLimit
               hi == indexed[f] - offset[f]
               txs == {log[f][i] : i \in {j \in 1..indexed[f] : hi - limit < j /\ j <= hi}}
    <3>1. /\ step[f] = "fetch" /\ step'[f] = "fetched"
          /\ page'[f] = txs /\ offset'[f] = offset[f] + limit
      BY <1>0, <1>14 DEF Fetch, Goes, TypeOK, ProgressType, LocalsType
    <3>2. last'[f] => \/ prev[f] > latest[f]
                      \/ \E t \in txs : prev[f] > height[t]
                      \/ hi <= limit
      BY <1>0, <1>14 DEF Fetch, TypeOK, LocalsType
    <3>3. UNCHANGED <<incident, log, height, indexed, syncHeight, latest, prev>>
      BY <1>14 DEF Fetch, stores, chain
    <3>4. limit \in Nat
      BY TxSyncAssumption
    <3>5. \A i \in 1..Len(log[f]) : height[log[f][i]] <= latest[f] => i <= indexed[f]
      BY <1>0, <3>1, Values DEF IndexInv, Synchronizing
    <3>6. prev[f] = syncHeight[f] /\ page[f] = {}
      BY <3>1 DEF PageInv, Synchronizing
    <3>7. \A i \in 1..Len(log[f]) : i > hi /\ height[log[f][i]] <= latest[f] => incident[log[f][i]] = "synced"
      BY <3>1, <3>6 DEF PageInv
    <3>8. \A i \in 1..Len(log[f]) : i > hi - limit /\ i <= hi /\ height[log[f][i]] <= latest[f] => log[f][i] \in txs
      BY <1>0, <3>4, <3>5, Values
    <3>9. \A i \in 1..Len(log[f]) : i > indexed[f] - (offset[f] + limit) /\ height[log[f][i]] <= latest[f]
            => incident[log[f][i]] = "synced" \/ log[f][i] \in txs
      BY <1>0, <3>4, <3>7, <3>8, Values
    <3>10. ASSUME last'[f], NEW i \in 1..Len(log[f]), height[log[f][i]] <= latest[f], i <= hi - limit
           PROVE  incident[log[f][i]] = "synced"
      <4>1. log[f][i] \in Txs /\ height[log[f][i]] > 0
        BY <1>0, Values DEF ChainInv
      <4>2. CASE prev[f] > latest[f]
        BY <1>0, <3>6, <3>10, <4>1, <4>2, Values DEF NoneMissedOn, Upto
      <4>3. ASSUME NEW t \in txs, prev[f] > height[t] PROVE incident[log[f][i]] = "synced"
        <5>1. PICK j \in 1..indexed[f] : t = log[f][j] /\ hi - limit < j
          OBVIOUS
        <5>2. j \in 1..Len(log[f]) /\ i <= j
          <6>1. indexed[f] \in Nat /\ Len(log[f]) \in Nat /\ indexed[f] <= Len(log[f]) /\ offset[f] \in Nat
            BY <1>0, Values
          <6> QED
            BY <3>4, <3>10, <5>1, <6>1
        <5>3. height[log[f][i]] <= height[t]
          BY <5>1, <5>2 DEF ChainInv
        <5>4. log[f][j] \in Txs
          BY <1>0, <5>2, Values
        <5> QED
          BY <1>0, <3>6, <4>1, <4>3, <5>1, <5>3, <5>4, Values DEF NoneMissedOn, Upto
      <4>4. ~(hi <= limit)
        BY <1>0, <3>4, <3>10, Values
      <4> QED
        BY <3>2, <3>10, <4>2, <4>3, <4>4
    <3>11. last'[f] => \A t \in Txs : Upto(t, latest[f]) => incident[t] = "synced" \/ t \in txs
      <4> SUFFICES ASSUME last'[f], NEW t \in Txs, Upto(t, latest[f])
                   PROVE  incident[t] = "synced" \/ t \in txs
        OBVIOUS
      <4>1. PICK i \in 1..Len(log[f]) : log[f][i] = t
        BY DEF ChainInv, Upto
      <4>2. height[log[f][i]] <= latest[f]
        BY <4>1 DEF Upto
      <4>3. i <= hi - limit \/ i > indexed[f] - (offset[f] + limit)
        BY <1>0, <3>4, Values
      <4> HIDE DEF txs, hi, limit
      <4> QED
        BY <3>9, <3>10, <4>1, <4>2, <4>3
    <3> HIDE DEF txs, limit
    <3> QED
      BY <3>1, <3>3, <3>6, <3>9, <3>11 DEF PageInv, Upto, Checking
  <2>4. NoneMissedOn(f)'
    BY <1>0, <1>14 DEF Fetch, NoneMissedOn, stores, chain, Upto, Save, TypeOK, StoresType, ChainType, LocalsType, ProgressType
  <2> QED
    BY <1>0, <2>1, <2>2, <2>3, <2>4
<1>15. ASSUME Former(f) PROVE IInv(f)'
  <2>1. ChainInv(f)'
    BY <1>0, <1>15 DEF Former, ChainInv, stores, chain, locals, Over, TypeOK, StoresType, ChainType, LocalsType, ProgressType
  <2>2. IndexInv(f)'
    BY <1>0, <1>15 DEF Former, IndexInv, stores, chain, locals, Over, Goes, Synchronizing, Upto, TypeOK, StoresType, ChainType, LocalsType, ProgressType
  <2>3. PageInv(f)'
    BY <1>0, <1>15 DEF Former, PageInv, stores, chain, locals, Over, Goes, Synchronizing, Checking, Upto, Save, TypeOK, StoresType, ChainType, LocalsType, ProgressType
  <2>4. NoneMissedOn(f)'
    BY <1>0, <1>15 DEF Former, NoneMissedOn, stores, chain, Upto, Save, TypeOK, StoresType, ChainType, LocalsType, ProgressType
  <2> QED
    BY <1>0, <2>1, <2>2, <2>3, <2>4
<1>16. ASSUME SyncInsert(f) PROVE IInv(f)'
  <2>1. ChainInv(f)'
    BY <1>0, <1>16 DEF SyncInsert, ChainInv, stores, chain, locals, Over, TypeOK, StoresType, ChainType, LocalsType, ProgressType
  <2>2. IndexInv(f)'
    BY <1>0, <1>16 DEF SyncInsert, IndexInv, stores, chain, locals, Over, Goes, Synchronizing, Upto, TypeOK, StoresType, ChainType, LocalsType, ProgressType
  <2>3. PageInv(f)'
    BY <1>0, <1>16 DEF SyncInsert, PageInv, stores, chain, locals, Over, Goes, Synchronizing, Checking, Upto, Save, TypeOK, StoresType, ChainType, LocalsType, ProgressType
  <2>4. NoneMissedOn(f)'
    BY <1>0, <1>16 DEF SyncInsert, NoneMissedOn, stores, chain, Upto, Save, TypeOK, StoresType, ChainType, LocalsType, ProgressType
  <2> QED
    BY <1>0, <2>1, <2>2, <2>3, <2>4
<1>17. ASSUME PageDone(f) PROVE IInv(f)'
  <2>1. ChainInv(f)'
    BY <1>0, <1>17 DEF PageDone, ChainInv, stores, chain, locals, Over, TypeOK, StoresType, ChainType, LocalsType, ProgressType
  <2>2. IndexInv(f)'
    BY <1>0, <1>17 DEF PageDone, IndexInv, stores, chain, locals, Over, Goes, Synchronizing, Upto, TypeOK, StoresType, ChainType, LocalsType, ProgressType
  <2>3. PageInv(f)'
    BY <1>0, <1>17 DEF PageDone, PageInv, stores, chain, locals, Over, Goes, Synchronizing, Checking, Upto, Save, TypeOK, StoresType, ChainType, LocalsType, ProgressType
  <2>4. NoneMissedOn(f)'
    BY <1>0, <1>17 DEF PageDone, NoneMissedOn, stores, chain, Upto, Save, TypeOK, StoresType, ChainType, LocalsType, ProgressType
  <2> QED
    BY <1>0, <2>1, <2>2, <2>3, <2>4
<1>18. ASSUME FilterOrder(f) PROVE IInv(f)'
  <2>1. ChainInv(f)'
    BY <1>0, <1>18 DEF FilterOrder, ChainInv, stores, chain, locals, Over, TypeOK, StoresType, ChainType, LocalsType, ProgressType
  <2>2. IndexInv(f)'
    BY <1>0, <1>18 DEF FilterOrder, IndexInv, stores, chain, locals, Over, Goes, Synchronizing, Upto, TypeOK, StoresType, ChainType, LocalsType, ProgressType
  <2>3. PageInv(f)'
    BY <1>0, <1>18 DEF FilterOrder, PageInv, stores, chain, locals, Over, Goes, Synchronizing, Checking, Upto, Save, TypeOK, StoresType, ChainType, LocalsType, ProgressType
  <2>4. NoneMissedOn(f)'
    BY <1>0, <1>18 DEF FilterOrder, NoneMissedOn, stores, chain, Upto, Save, TypeOK, StoresType, ChainType, LocalsType, ProgressType
  <2> QED
    BY <1>0, <2>1, <2>2, <2>3, <2>4
<1>19. ASSUME FilterIncidents(f) PROVE IInv(f)'
  <2>1. ChainInv(f)'
    BY <1>0, <1>19 DEF FilterIncidents, ChainInv, stores, chain, locals, Over, TypeOK, StoresType, ChainType, LocalsType, ProgressType
  <2>2. IndexInv(f)'
    BY <1>0, <1>19 DEF FilterIncidents, IndexInv, stores, chain, locals, Over, Goes, Synchronizing, Upto, TypeOK, StoresType, ChainType, LocalsType, ProgressType
  <2>3. PageInv(f)'
    BY <1>0, <1>19 DEF FilterIncidents, PageInv, stores, chain, locals, Over, Goes, Synchronizing, Checking, Upto, Save, TypeOK, StoresType, ChainType, LocalsType, ProgressType
  <2>4. NoneMissedOn(f)'
    BY <1>0, <1>19 DEF FilterIncidents, NoneMissedOn, stores, chain, Upto, Save, TypeOK, StoresType, ChainType, LocalsType, ProgressType
  <2> QED
    BY <1>0, <2>1, <2>2, <2>3, <2>4
<1>20. ASSUME FilterBoth(f) PROVE IInv(f)'
  <2>1. ChainInv(f)'
    <3>1. latest'[f] \in {0, latest[f]}
      BY <1>0, <1>20 DEF FilterBoth, Over
    <3>2. UNCHANGED <<stores, chain, window>>
      BY <1>20 DEF FilterBoth
    <3> QED
      BY <1>0, <3>1, <3>2, Values DEF ChainInv, stores, chain
  <2>2. IndexInv(f)'
    BY <1>0, <1>20 DEF FilterBoth, IndexInv, stores, chain, locals, Over, Goes, Synchronizing, Upto, TypeOK, StoresType, ChainType, LocalsType, ProgressType
  <2>3. PageInv(f)'
    BY <1>0, <1>20 DEF FilterBoth, PageInv, stores, chain, locals, Over, Goes, Synchronizing, Checking, Upto, Save, TypeOK, StoresType, ChainType, LocalsType, ProgressType
  <2>4. NoneMissedOn(f)'
    BY <1>0, <1>20 DEF FilterBoth, NoneMissedOn, stores, chain, Upto, Save, TypeOK, StoresType, ChainType, LocalsType, ProgressType
  <2> QED
    BY <1>0, <2>1, <2>2, <2>3, <2>4
<1>21. ASSUME Checked(f) PROVE IInv(f)'
  <2>1. ChainInv(f)'
    BY <1>21 DEF Checked, ChainInv, Save, chain
  <2>2. IndexInv(f)'
    BY <1>0, <1>21 DEF Checked, IndexInv, stores, chain, locals, Over, Goes, Synchronizing, Upto, TypeOK, StoresType, ChainType, LocalsType, ProgressType
  <2>0. PICK t \in Txs : t = at[f]
    BY <1>0, <1>21, TxSyncAssumption DEF Checked, TypeOK, ProgressType
  <2>a. \A u \in Txs : u # t => incident'[u] = incident[u]
    BY <1>0, <1>21, <2>0 DEF Checked, Save, TypeOK, StoresType
  <2>b. \/ incident'[t] = "synced"
        \/ ~Upto(t, syncHeight[f]) /\ ~Upto(t, latest[f])
    BY <1>0, <1>21, <2>0 DEF Checked, Save, IndexInv, TypeOK, StoresType
  <2>c. step[f] \in Checking /\ step'[f] = "check" /\ "check" \in Checking
    BY <1>0, <1>21 DEF Checked, Checking, TypeOK, ProgressType
  <2>d. UNCHANGED <<height, syncHeight, latest, prev>>
    BY <1>21 DEF Checked, chain
  <2>3. PageInv(f)'
    <3>1. \A u \in Txs : Upto(u, latest[f]) => incident'[u] = "synced"
      BY <2>a, <2>b, <2>c DEF PageInv
    <3>2. prev'[f] = syncHeight'[f]
      BY <2>c, <2>d DEF PageInv, Checking, Synchronizing
    <3> QED
      BY <2>c, <2>d, <3>1, <3>2 DEF PageInv, Upto
  <2>4. NoneMissedOn(f)'
    BY <2>a, <2>b, <2>d DEF NoneMissedOn, Upto
  <2> QED
    BY <1>0, <2>1, <2>2, <2>3, <2>4
<1>22. ASSUME UpdateSyncInfo(f) PROVE IInv(f)'
  <2>1. ChainInv(f)'
    <3>1. UNCHANGED <<chain, window>> /\ latest'[f] = 0 /\ syncHeight'[f] = latest[f]
      BY <1>0, <1>22 DEF UpdateSyncInfo, Over, TypeOK, StoresType
    <3>2. latest[f] <= tip[f] /\ 0 <= tip[f]
      BY <1>0, Values DEF ChainInv
    <3> QED
      BY <3>1, <3>2 DEF ChainInv, chain
  <2>2. IndexInv(f)'
    BY <1>0, <1>22 DEF UpdateSyncInfo, IndexInv, stores, chain, locals, Over, Goes, Synchronizing, Upto, TypeOK, StoresType, ChainType, LocalsType, ProgressType
  <2>3. PageInv(f)'
    BY <1>0, <1>22 DEF UpdateSyncInfo, PageInv, stores, chain, locals, Over, Goes, Synchronizing, Checking, Upto, Save, TypeOK, StoresType, ChainType, LocalsType, ProgressType
  <2>4. NoneMissedOn(f)'
    <3>1. syncHeight'[f] = latest[f] /\ UNCHANGED <<height, incident>> /\ step[f] \in Checking
      BY <1>0, <1>22 DEF UpdateSyncInfo, Goes, Checking, chain, TypeOK, StoresType
    <3> QED
      BY <3>1 DEF PageInv, NoneMissedOn, Upto
  <2> QED
    BY <1>0, <2>1, <2>2, <2>3, <2>4
<1>23. ASSUME NewBlock(f) PROVE IInv(f)'
  <2>1. ChainInv(f)'
    BY <1>0, <1>23 DEF NewBlock, ChainInv, stores, chain, locals, Over, TypeOK, StoresType, ChainType, LocalsType, ProgressType
  <2>2. IndexInv(f)'
    BY <1>0, <1>23 DEF NewBlock, IndexInv, stores, chain, locals, Over, Goes, Synchronizing, Upto, TypeOK, StoresType, ChainType, LocalsType, ProgressType
  <2>3. PageInv(f)'
    BY <1>0, <1>23 DEF NewBlock, PageInv, stores, chain, locals, Over, Goes, Synchronizing, Checking, Upto, Save, TypeOK, StoresType, ChainType, LocalsType, ProgressType
  <2>4. NoneMissedOn(f)'
    BY <1>0, <1>23 DEF NewBlock, NoneMissedOn, stores, chain, Upto, Save, TypeOK, StoresType, ChainType, LocalsType, ProgressType
  <2> QED
    BY <1>0, <2>1, <2>2, <2>3, <2>4
<1>24. ASSUME Index(f) PROVE IInv(f)'
  <2>1. ChainInv(f)'
    BY <1>0, <1>24 DEF Index, ChainInv, stores, chain, locals, Over, TypeOK, StoresType, ChainType, LocalsType, ProgressType
  <2>2. IndexInv(f)'
    BY <1>0, <1>24 DEF Index, IndexInv, stores, chain, locals, Over, Goes, Synchronizing, Upto, TypeOK, StoresType, ChainType, LocalsType, ProgressType
  <2>3. PageInv(f)'
    BY <1>0, <1>24 DEF Index, PageInv, stores, chain, locals, Over, Goes, Synchronizing, Checking, Upto, Save, TypeOK, StoresType, ChainType, LocalsType, ProgressType
  <2>4. NoneMissedOn(f)'
    BY <1>0, <1>24 DEF Index, NoneMissedOn, stores, chain, Upto, Save, TypeOK, StoresType, ChainType, LocalsType, ProgressType
  <2> QED
    BY <1>0, <2>1, <2>2, <2>3, <2>4
<1>25. ASSUME Gap(f) PROVE IInv(f)'
  <2>1. ChainInv(f)'
    BY <1>0, <1>25 DEF Gap, ChainInv, stores, chain, locals, Over, TypeOK, StoresType, ChainType, LocalsType, ProgressType
  <2>2. IndexInv(f)'
    BY <1>0, <1>25 DEF Gap, IndexInv, stores, chain, locals, Over, Goes, Synchronizing, Upto, TypeOK, StoresType, ChainType, LocalsType, ProgressType
  <2>3. PageInv(f)'
    BY <1>0, <1>25 DEF Gap, PageInv, stores, chain, locals, Over, Goes, Synchronizing, Checking, Upto, Save, TypeOK, StoresType, ChainType, LocalsType, ProgressType
  <2>4. NoneMissedOn(f)'
    BY <1>0, <1>25 DEF Gap, NoneMissedOn, stores, chain, Upto, Save, TypeOK, StoresType, ChainType, LocalsType, ProgressType
  <2> QED
    BY <1>0, <2>1, <2>2, <2>3, <2>4
<1>26. ASSUME Restart(f) PROVE IInv(f)'
  <2>1. ChainInv(f)'
    BY <1>0, <1>26 DEF Restart, ChainInv, stores, chain, locals, Over, TypeOK, StoresType, ChainType, LocalsType, ProgressType
  <2>2. IndexInv(f)'
    BY <1>0, <1>26 DEF Restart, IndexInv, stores, chain, locals, Over, Goes, Synchronizing, Upto, TypeOK, StoresType, ChainType, LocalsType, ProgressType
  <2>3. PageInv(f)'
    BY <1>0, <1>26 DEF Restart, PageInv, stores, chain, locals, Over, Goes, Synchronizing, Checking, Upto, Save, TypeOK, StoresType, ChainType, LocalsType, ProgressType
  <2>4. NoneMissedOn(f)'
    BY <1>0, <1>26 DEF Restart, NoneMissedOn, stores, chain, Upto, Save, TypeOK, StoresType, ChainType, LocalsType, ProgressType
  <2> QED
    BY <1>0, <2>1, <2>2, <2>3, <2>4
<1>27. ASSUME NEW t \in Txs, SyncRecord(f, t) PROVE IInv(f)'
  <2>1. ChainInv(f)'
    BY <1>0, <1>27 DEF SyncRecord, ChainInv, stores, chain, locals, Over, TypeOK, StoresType, ChainType, LocalsType, ProgressType
  <2>2. IndexInv(f)'
    BY <1>0, <1>27 DEF SyncRecord, IndexInv, stores, chain, locals, Over, Goes, Synchronizing, Upto, TypeOK, StoresType, ChainType, LocalsType, ProgressType
  <2>3. PageInv(f)'
    <3>1. step[f] = "page" /\ step'[f] \in {"page", "saved"} /\ page'[f] = page[f] \ {t}
      BY <1>0, <1>27 DEF SyncRecord, TypeOK, ProgressType, LocalsType
    <3>2. incident'[t] = "synced" /\ \A u \in Txs : u # t => incident'[u] = incident[u]
      BY <1>0, <1>27 DEF SyncRecord, Save, TypeOK, StoresType
    <3>3. UNCHANGED <<log, height, indexed, syncHeight, latest, prev, offset, last>>
      BY <1>27 DEF SyncRecord, chain
    <3>4. \A u \in Txs : incident[u] = "synced" \/ u \in page[f] => incident'[u] = "synced" \/ u \in page'[f]
      BY <3>1, <3>2
    <3>5. \A i \in 1..Len(log[f]) : log[f][i] \in Txs
      BY <1>0, Values
    <3>6. \A i \in 1..Len(log[f]) : i > indexed[f] - offset[f] /\ height[log[f][i]] <= latest[f]
            => incident'[log[f][i]] = "synced" \/ log[f][i] \in page'[f]
      BY <3>1, <3>4, <3>5 DEF PageInv
    <3>7. last[f] => \A u \in Txs : Upto(u, latest[f]) => incident'[u] = "synced" \/ u \in page'[f]
      BY <3>1, <3>4 DEF PageInv
    <3>8. prev[f] = syncHeight[f]
      BY <3>1 DEF PageInv, Synchronizing
    <3> QED
      BY <3>1, <3>3, <3>6, <3>7, <3>8 DEF PageInv, Upto, Checking
  <2>4. NoneMissedOn(f)'
    BY <1>0, <1>27 DEF SyncRecord, NoneMissedOn, stores, chain, Upto, Save, TypeOK, StoresType, ChainType, LocalsType, ProgressType
  <2> QED
    BY <1>0, <2>1, <2>2, <2>3, <2>4
<1>28. ASSUME NEW t \in Txs, Check(f, t) PROVE IInv(f)'
  <2>1. ChainInv(f)'
    BY <1>0, <1>28 DEF Check, ChainInv, stores, chain, locals, Over, TypeOK, StoresType, ChainType, LocalsType, ProgressType
  <2>2. IndexInv(f)'
    <3>1. step'[f] = "missing" => at'[f] = t /\ t \notin Found(f)
      BY <1>0, <1>28 DEF Check, TypeOK, ProgressType
    <3>2. step[f] = "check" /\ step'[f] \in {"check", "found", "missing"}
      BY <1>0, <1>28 DEF Check, TypeOK, ProgressType
    <3>3. step'[f] = "missing" => ~Upto(at'[f], latest[f]) /\ ~Upto(at'[f], syncHeight[f])
      BY <1>0, <3>1, <3>2, NotFound DEF Synchronizing
    <3> QED
      BY <1>28, <3>2, <3>3 DEF Check, IndexInv, stores, chain, Upto, Synchronizing
  <2>3. PageInv(f)'
    BY <1>0, <1>28 DEF Check, PageInv, stores, chain, locals, Over, Goes, Synchronizing, Checking, Upto, Save, TypeOK, StoresType, ChainType, LocalsType, ProgressType
  <2>4. NoneMissedOn(f)'
    BY <1>0, <1>28 DEF Check, NoneMissedOn, stores, chain, Upto, Save, TypeOK, StoresType, ChainType, LocalsType, ProgressType
  <2> QED
    BY <1>0, <2>1, <2>2, <2>3, <2>4
<1>29. ASSUME Crash PROVE IInv(f)'
  <2>1. ChainInv(f)'
    <3>1. latest'[f] = 0
      BY <1>0, <1>29 DEF Crash, Over
    <3>2. UNCHANGED <<stores, chain, window>>
      BY <1>29 DEF Crash
    <3> QED
      BY <1>0, <3>1, <3>2, Values DEF ChainInv, stores, chain
  <2>2. IndexInv(f)'
    BY <1>0, <1>29 DEF Crash, IndexInv, stores, chain, locals, Over, Goes, Synchronizing, Upto, TypeOK, StoresType, ChainType, LocalsType, ProgressType
  <2>3. PageInv(f)'
    BY <1>0, <1>29 DEF Crash, PageInv, stores, chain, locals, Over, Goes, Synchronizing, Checking, Upto, Save, TypeOK, StoresType, ChainType, LocalsType, ProgressType
  <2>4. NoneMissedOn(f)'
    BY <1>0, <1>29 DEF Crash, NoneMissedOn, stores, chain, Upto, Save, TypeOK, StoresType, ChainType, LocalsType, ProgressType
  <2> QED
    BY <1>0, <2>1, <2>2, <2>3, <2>4
<1>31. ASSUME NEW t \in Txs, EventThrows(t) PROVE IInv(f)'
  <2>1. ChainInv(f)'
    BY <1>0, <1>31 DEF EventThrows, ChainInv, stores, chain, locals, TypeOK, StoresType, ChainType, LocalsType, ProgressType
  <2>2. IndexInv(f)'
    BY <1>0, <1>31 DEF EventThrows, IndexInv, stores, chain, locals, Synchronizing, Upto, TypeOK, StoresType, ChainType, LocalsType, ProgressType
  <2>3. PageInv(f)'
    BY <1>0, <1>31 DEF EventThrows, PageInv, stores, chain, locals, Synchronizing, Checking, Upto, TypeOK, StoresType, ChainType, LocalsType, ProgressType
  <2>4. NoneMissedOn(f)'
    BY <1>0, <1>31 DEF EventThrows, NoneMissedOn, stores, chain, Upto, TypeOK, StoresType, ChainType, LocalsType, ProgressType
  <2> QED
    BY <1>0, <2>1, <2>2, <2>3, <2>4
<1>32. ASSUME FeedThrows(f) PROVE IInv(f)'
  <2>1. ChainInv(f)'
    <3>1. latest'[f] = 0
      BY <1>0, <1>32 DEF FeedThrows, Over
    <3>2. UNCHANGED <<stores, chain, window>>
      BY <1>32 DEF FeedThrows
    <3> QED
      BY <1>0, <3>1, <3>2, Values DEF ChainInv, stores, chain
  <2>2. step'[f] \in {"deaf", "threw"}
    BY <1>0, <1>32 DEF FeedThrows, TypeOK, ProgressType
  <2>3. IndexInv(f)'
    BY <1>0, <1>32, <2>2 DEF FeedThrows, IndexInv, stores, chain, Synchronizing, Upto, TypeOK, StoresType, ChainType, LocalsType, ProgressType
  <2>4. PageInv(f)'
    BY <1>0, <1>32, <2>2 DEF FeedThrows, PageInv, stores, chain, Synchronizing, Checking, Upto, TypeOK, StoresType, ChainType, LocalsType, ProgressType
  <2>5. NoneMissedOn(f)'
    BY <1>0, <1>32 DEF FeedThrows, NoneMissedOn, stores, chain, Upto, TypeOK, StoresType, ChainType, LocalsType, ProgressType
  <2> QED
    BY <1>0, <2>1, <2>3, <2>4, <2>5
<1>30. CASE UNCHANGED vars
  BY <1>0, <1>30 DEF vars, stores, chain, locals, ChainInv, IndexInv, PageInv, NoneMissedOn, Upto
<1> QED
  BY <1>1, <1>2, <1>3, <1>4, <1>5, <1>6, <1>7, <1>8, <1>9, <1>10, <1>11, <1>12, <1>13, <1>14, <1>15, <1>16, <1>17, <1>18, <1>19, <1>20, <1>21, <1>22, <1>23, <1>24, <1>25, <1>26, <1>27, <1>28, <1>29, <1>30, <1>31, <1>32 DEF Next, TxStep, FeedStep

LEMMA InvInit == ASSUME NEW f, Feeds = {f}, Init PROVE IInv(f)
<1>0. TypeOK /\ f \in Feeds
  BY TypeInit
<1>1. log[f] = Past[f] /\ indexed[f] = Len(Past[f]) /\ Past[f] \in Seq(Foreign)
  BY <1>0, TxSyncAssumption DEF Init
<1>2. PastTxs = {Past[f][i] : i \in 1..Len(Past[f])} /\ PastTxs \subseteq Foreign
  BY <1>1 DEF PastTxs
<1>3. /\ height = [t \in Txs |-> IF t \in PastTxs THEN 1 ELSE 0]
      /\ syncHeight[f] = 0 /\ latest[f] = 0 /\ tip[f] = 1
      /\ mempool = Foreign \ PastTxs
      /\ window = [t \in Txs |-> IF t \in Foreign THEN "done" ELSE "idle"]
  BY <1>0 DEF Init
<1>4. ChainInv(f)
  BY <1>0, <1>1, <1>2, <1>3, TxSyncAssumption DEF ChainInv
<1>5. IndexInv(f) /\ PageInv(f) /\ NoneMissedOn(f)
  BY <1>0, <1>1, <1>3 DEF Init, IndexInv, PageInv, NoneMissedOn, Upto, Synchronizing, Checking
<1> QED
  BY <1>0, <1>4, <1>5 DEF IInv

\* A service with one feed misses no transaction of its chain, whatever crashes
\* and races with it (followAccount(), synchronize(), updateSyncInfo()).
THEOREM OneFeedMissesNone == ASSUME NEW f, Feeds = {f} PROVE Spec => []NoneMissed
<1>1. Init => IInv(f)
  BY InvInit
<1>2. IInv(f) /\ [Next]_vars => IInv(f)'
  BY InvNext
<1>3. IInv(f) => NoneMissed
  BY TxSyncAssumption DEF IInv, NoneMissedOn, NoneMissed, Upto
<1> QED
  BY <1>1, <1>2, <1>3, PTL DEF Spec
-----------------------------------------------------------------------------
(* The histories, for any number of feeds: a record is on its way to its     *)
(* place from the first save on, and nobody changes a record that is not.    *)

\* The place of a transaction is being saved.
Saves(t) ==
  \/ window[t] = "saved" \/ event[t] = "saved"
  \/ \E f \in Feeds : step[f] = "saved" /\ at[f] = t

PlacedOf(t) ==
  /\ incident[t] # "none" => t \in listed \/ t \in torn \/ Saves(t)
  /\ window[t] \in {"contacting", "rejected"} => t \in listed

\* A transaction is sent once, and its event comes after that.
SentOf(t) ==
  /\ t \in mempool => window[t] = "done" /\ event[t] = "none"
  /\ window[t] # "done" => event[t] = "none"

\* A feed asks the node about transactions that have a record.
AskedOf(f) ==
  /\ step[f] \in {"filterOrder", "check", "found", "missing"} =>
       \A t \in pending[f] : incident[t] # "none"
  /\ step[f] \in {"found", "missing"} => at[f] \in Txs /\ incident[at[f]] # "none"

HistoryInv ==
  TypeOK /\ (\A t \in Txs : PlacedOf(t) /\ SentOf(t)) /\ (\A f \in Feeds : AskedOf(f))

LEMMA SaveRecords ==
  ASSUME TypeOK, NEW t \in Txs, NEW stage \in Stages \ {"none"}, Save(t, stage)
  PROVE  /\ incident'[t] # "none" /\ \A u \in Txs \ {t} : incident'[u] = incident[u]
         /\ \A u \in Txs : incident[u] # "none" => incident'[u] # "none"
         /\ \A u \in Txs : ~Saves(u)
<1>1. \A u \in Txs : ~Saves(u)
  BY DEF Save, LockFree, Saving, Saves
<1>2. incident' = [incident EXCEPT ![t] = stage] /\ incident \in [Txs -> Stages]
  BY DEF Save, TypeOK, StoresType
<1> QED
  BY <1>1, <1>2

LEMMA InsertPlaces ==
  ASSUME NEW t \in Txs, Insert(t)
  PROVE  /\ t \in listed' /\ listed \subseteq listed'
         /\ \A u \in Txs : u \in torn => u \in torn' \/ u \in listed'
BY DEF Insert

\* A place is kept as long as the stores, the windows and the handlers are.
LEMMA PlaceKept ==
  ASSUME NEW t \in Txs, PlacedOf(t), incident'[t] # "none" => incident[t] # "none",
         listed \subseteq listed', t \in torn => t \in torn' \/ t \in listed',
         Saves(t) => Saves(t)' \/ t \in listed', UNCHANGED window
  PROVE  PlacedOf(t)'
BY DEF PlacedOf

LEMMA AskedKept ==
  ASSUME NEW f \in Feeds, AskedOf(f), TypeOK,
         \A t \in Txs : incident[t] # "none" => incident'[t] # "none",
         step'[f] = step[f], pending'[f] = pending[f], at'[f] = at[f]
  PROVE  AskedOf(f)'
BY DEF AskedOf, TypeOK, LocalsType

LEMMA HistoryInit == Init => HistoryInv
<1> SUFFICES ASSUME Init PROVE HistoryInv
  OBVIOUS
<1>1. TypeOK
  BY TypeInit
<1>2. \A t \in Txs : incident[t] = "none" /\ window[t] \in {"idle", "done"}
  BY DEF Init
<1>3. \A f \in Feeds : step[f] = "off"
  BY DEF Init
<1>4. \A t \in Txs : SentOf(t)
  BY DEF Init, SentOf
<1> QED
  BY <1>1, <1>2, <1>3, <1>4 DEF HistoryInv, PlacedOf, AskedOf

\* The windows and the handlers of events.
LEMMA HistoryTx ==
  ASSUME HistoryInv, NEW t \in Txs,
         \/ TxStep(t) \/ Approve(t) \/ Broadcast(t) \/ HandleCheckTxError(t)
         \/ Commit(t) \/ CloseWindow(t) \/ EventThrows(t)
  PROVE  (\A u \in Txs : PlacedOf(u)') /\ (\A f \in Feeds : AskedOf(f)')
<1>0. /\ TypeOK /\ (\A u \in Txs : PlacedOf(u) /\ SentOf(u)) /\ (\A f \in Feeds : AskedOf(f))
      /\ window \in [Txs -> WindowStates] /\ event \in [Txs -> EventStates]
      /\ incident \in [Txs -> Stages]
  BY DEF HistoryInv, TypeOK, ProgressType, StoresType
<1>1. UNCHANGED <<step, pending, at>>
  BY DEF TxStep, ApproveInsert, Download, DownloadMissing, EventRecord, EventInsert, Approve, Broadcast,
    HandleCheckTxError, Commit, CloseWindow, EventThrows, locals
<1>2. ASSUME \A u \in Txs : incident[u] # "none" => incident'[u] # "none"
      PROVE  \A f \in Feeds : AskedOf(f)'
  BY <1>0, <1>1, <1>2, AskedKept
<1>3. ASSUME NEW stage \in Stages \ {"none"}, Save(t, stage), UNCHANGED <<listed, torn>>,
             Saves(t)' \/ incident[t] # "none",
             \A u \in Txs : window'[u] \in {"contacting", "rejected"} => window'[u] = window[u]
      PROVE  (\A u \in Txs : PlacedOf(u)') /\ (\A f \in Feeds : AskedOf(f)')
  <2>1. /\ \A u \in Txs \ {t} : incident'[u] = incident[u]
        /\ \A u \in Txs : ~Saves(u)
    BY <1>0, <1>3, SaveRecords
  <2>2. \A u \in Txs : PlacedOf(u)'
    BY <1>0, <1>3, <2>1 DEF PlacedOf
  <2> QED
    BY <1>0, <1>2, <1>3, <2>2, SaveRecords
<1>4. CASE Approve(t)
  <2>1. Save(t, "pending") /\ window' = [window EXCEPT ![t] = "saved"] /\ UNCHANGED <<listed, torn>>
    BY <1>4 DEF Approve, ghosts
  <2>2. /\ Saves(t)'
        /\ \A u \in Txs : window'[u] \in {"contacting", "rejected"} => window'[u] = window[u]
    BY <1>0, <2>1 DEF Saves
  <2> QED
    BY <1>3, <2>1, <2>2 DEF Stages
<1>5. CASE ApproveInsert(t)
  <2>1. /\ Insert(t) /\ window' = [window EXCEPT ![t] = "contacting"]
        /\ UNCHANGED <<incident, event>>
    BY <1>5 DEF ApproveInsert
  <2>2. \A u \in Txs : PlacedOf(u)'
    BY <1>0, <1>1, <2>1, InsertPlaces DEF PlacedOf, Saves
  <2> QED
    BY <1>2, <2>1, <2>2
<1>6. CASE Broadcast(t)
  <2>1. /\ UNCHANGED <<incident, listed, torn, event>> /\ window[t] = "contacting"
        /\ window' \in {[window EXCEPT ![t] = "done"], [window EXCEPT ![t] = "rejected"]}
    BY <1>6 DEF Broadcast, stores, ghosts
  <2>2. \A u \in Txs : PlacedOf(u)'
    BY <1>0, <1>1, <2>1 DEF PlacedOf, Saves
  <2> QED
    BY <1>2, <2>1, <2>2
<1>7. CASE HandleCheckTxError(t)
  <2>1. /\ Save(t, "synced") /\ window' = [window EXCEPT ![t] = "done"] /\ UNCHANGED <<listed, torn>>
        /\ window[t] = "rejected" /\ UNCHANGED event
    BY <1>7 DEF HandleCheckTxError, ghosts
  <2>2. t \in listed
    BY <1>0, <2>1 DEF PlacedOf
  <2>3. \A u \in Txs : PlacedOf(u)'
    BY <1>0, <2>1, <2>2, SaveRecords DEF PlacedOf, Stages
  <2> QED
    BY <1>0, <1>2, <2>1, <2>3, SaveRecords DEF Stages
<1>8. CASE Commit(t)
  <2>1. /\ UNCHANGED <<incident, listed, torn, window>> /\ t \in mempool
        /\ \A u \in Txs \ {t} : event'[u] = event[u]
    BY <1>0, <1>8 DEF Commit, stores
  <2>2. \A u \in Txs : PlacedOf(u)'
    BY <1>0, <1>1, <2>1 DEF PlacedOf, Saves, SentOf
  <2> QED
    BY <1>2, <2>1, <2>2
<1>9. CASE CloseWindow(t)
  <2>1. /\ UNCHANGED <<incident, listed, event>> /\ window' = [window EXCEPT ![t] = "done"]
        /\ torn' = IF window[t] = "saved" /\ t \notin listed THEN torn \cup {t} ELSE torn
    BY <1>9 DEF CloseWindow, Tear, stores
  <2>2. \A u \in Txs \ {t} : PlacedOf(u)'
    BY <1>0, <1>1, <2>1 DEF PlacedOf, Saves
  <2>3. PlacedOf(t)'
    BY <1>0, <1>1, <2>1 DEF PlacedOf, Saves
  <2> QED
    BY <1>2, <2>1, <2>2, <2>3
<1>10. CASE Download(t)
  <2>1. /\ UNCHANGED <<incident, listed, torn, window>> /\ event[t] = "event"
        /\ \A u \in Txs \ {t} : event'[u] = event[u]
    BY <1>0, <1>10 DEF Download, stores, ghosts
  <2>2. \A u \in Txs : PlacedOf(u)'
    BY <1>0, <1>1, <2>1 DEF PlacedOf, Saves
  <2> QED
    BY <1>2, <2>1, <2>2
<1>11. CASE DownloadMissing(t)
  <2>1. /\ UNCHANGED <<listed, torn, window>> /\ event[t] = "missing"
        /\ \A u \in Txs \ {t} : event'[u] = event[u]
        /\ \A u \in Txs : incident[u] = "none" <=> incident'[u] = "none"
    BY <1>0, <1>11 DEF DownloadMissing
  <2>2. \A u \in Txs : PlacedOf(u)'
    BY <1>0, <1>1, <2>1 DEF PlacedOf, Saves
  <2> QED
    BY <1>2, <2>1, <2>2
<1>12. CASE EventRecord(t)
  <2>1. /\ Save(t, "synced") /\ UNCHANGED <<listed, torn, window>>
        /\ event' = [event EXCEPT ![t] = IF Anew(t) THEN "saved" ELSE "none"]
    BY <1>12 DEF EventRecord, ghosts
  <2>2. Saves(t)' \/ incident[t] # "none"
    BY <1>0, <2>1 DEF Saves, Anew
  <2> QED
    BY <1>3, <2>1, <2>2 DEF Stages
<1>13. CASE EventInsert(t)
  <2>1. /\ Insert(t) /\ event' = [event EXCEPT ![t] = "none"]
        /\ UNCHANGED <<incident, window>>
    BY <1>13 DEF EventInsert
  <2>2. \A u \in Txs : PlacedOf(u)'
    BY <1>0, <1>1, <2>1, InsertPlaces DEF PlacedOf, Saves
  <2> QED
    BY <1>2, <2>1, <2>2
<1>14. CASE EventThrows(t)
  <2>1. /\ UNCHANGED <<incident, listed, window>> /\ event' = [event EXCEPT ![t] = "none"]
        /\ torn' = IF event[t] = "saved" /\ t \notin listed THEN torn \cup {t} ELSE torn
    BY <1>14 DEF EventThrows, Tear, stores
  <2>2. \A u \in Txs \ {t} : PlacedOf(u)'
    BY <1>0, <1>1, <2>1 DEF PlacedOf, Saves
  <2>3. PlacedOf(t)'
    BY <1>0, <1>1, <2>1 DEF PlacedOf, Saves
  <2> QED
    BY <1>2, <2>1, <2>2, <2>3
<1> QED
  BY <1>4, <1>5, <1>6, <1>7, <1>8, <1>9, <1>10, <1>11, <1>12, <1>13, <1>14 DEF TxStep

\* A transaction is sent once.
LEMMA SentNext ==
  ASSUME HistoryInv, [Next]_vars
  PROVE  \A t \in Txs : SentOf(t)'
<1>0. /\ \A u \in Txs : SentOf(u)
      /\ window \in [Txs -> WindowStates] /\ event \in [Txs -> EventStates]
  BY DEF HistoryInv, TypeOK, ProgressType
<1>1. ASSUME NEW t \in Txs, Approve(t) \/ ApproveInsert(t) \/ HandleCheckTxError(t) \/ CloseWindow(t)
      PROVE  \A u \in Txs : SentOf(u)'
  <2>1. /\ UNCHANGED <<mempool, event>> /\ window[t] # "done"
        /\ \A u \in Txs \ {t} : window'[u] = window[u]
    BY <1>0, <1>1 DEF Approve, ApproveInsert, HandleCheckTxError, CloseWindow, chain
  <2> QED
    BY <1>0, <2>1 DEF SentOf
<1>2. ASSUME NEW t \in Txs, Broadcast(t) PROVE \A u \in Txs : SentOf(u)'
  <2>1. /\ UNCHANGED event /\ window[t] = "contacting" /\ mempool' \in {mempool, mempool \cup {t}}
        /\ mempool' # mempool => window'[t] = "done"
        /\ \A u \in Txs \ {t} : window'[u] = window[u]
    BY <1>0, <1>2 DEF Broadcast
  <2> QED
    BY <1>0, <2>1 DEF SentOf
<1>3. ASSUME NEW t \in Txs, Commit(t) PROVE \A u \in Txs : SentOf(u)'
  <2>1. /\ UNCHANGED window /\ t \in mempool /\ mempool' = mempool \ {t}
        /\ \A u \in Txs \ {t} : event'[u] = event[u]
    BY <1>0, <1>3 DEF Commit
  <2> QED
    BY <1>0, <2>1 DEF SentOf
<1>4. ASSUME NEW t \in Txs,
             Download(t) \/ DownloadMissing(t) \/ EventRecord(t) \/ EventInsert(t) \/ EventThrows(t)
      PROVE  \A u \in Txs : SentOf(u)'
  <2>1. /\ UNCHANGED <<mempool, window>> /\ event[t] # "none"
        /\ \A u \in Txs \ {t} : event'[u] = event[u]
    BY <1>0, <1>4 DEF Download, DownloadMissing, EventRecord, EventInsert, EventThrows, chain
  <2> QED
    BY <1>0, <2>1 DEF SentOf
<1>5. ASSUME NEW f \in Feeds,
             FeedStep(f) \/ NewBlock(f) \/ Index(f) \/ Gap(f) \/ Restart(f) \/ FeedThrows(f)
      PROVE  \A u \in Txs : SentOf(u)'
  <2>1. UNCHANGED <<mempool, window, event>>
    BY <1>5 DEF FeedStep, LatestBlock, Subscribe, SyncHeight, Fetch, Former, SyncInsert, PageDone,
      FilterOrder, FilterIncidents, FilterBoth, Checked, UpdateSyncInfo, SyncRecord, Check, NewBlock,
      Index, Gap, Restart, FeedThrows, chain
  <2> QED
    BY <1>0, <2>1 DEF SentOf
<1>6. CASE Crash
  <2>1. UNCHANGED <<mempool, window>> /\ \A u \in Txs : event'[u] = "none"
    BY <1>6 DEF Crash, chain
  <2> QED
    BY <1>0, <2>1 DEF SentOf
<1>7. CASE UNCHANGED vars
  BY <1>0, <1>7 DEF vars, chain, SentOf
<1> QED
  BY <1>1, <1>2, <1>3, <1>4, <1>5, <1>6, <1>7 DEF Next, TxStep

\* The feeds.
LEMMA HistoryFeed ==
  ASSUME HistoryInv, NEW f \in Feeds,
         FeedStep(f) \/ NewBlock(f) \/ Index(f) \/ Gap(f) \/ Restart(f) \/ FeedThrows(f)
  PROVE  (\A t \in Txs : PlacedOf(t)') /\ (\A g \in Feeds : AskedOf(g)')
<1>0. /\ TypeOK /\ (\A u \in Txs : PlacedOf(u)) /\ (\A g \in Feeds : AskedOf(g))
      /\ step \in [Feeds -> FeedSteps] /\ at \in [Feeds -> Txs \cup {None}]
      /\ pending \in [Feeds -> SUBSET Txs] /\ incident \in [Txs -> Stages]
      /\ step[f] \in {"saved", "found", "missing"} => at[f] \in Txs
  BY TxSyncAssumption DEF HistoryInv, TypeOK, ProgressType, StoresType, LocalsType, TxSyncAssumption
<1>1. UNCHANGED <<window, event>>
  BY DEF FeedStep, LatestBlock, Subscribe, SyncHeight, Fetch, Former, SyncInsert, PageDone,
    FilterOrder, FilterIncidents, FilterBoth, Checked, UpdateSyncInfo, SyncRecord, Check, NewBlock,
    Index, Gap, Restart, FeedThrows
<1> DEFINE Others == \A g \in Feeds \ {f} : step'[g] = step[g] /\ at'[g] = at[g] /\ pending'[g] = pending[g]
           Places == \A t \in Txs : PlacedOf(t)'
           Asked  == \A g \in Feeds : AskedOf(g)'
           Grows  == \A t \in Txs : incident[t] # "none" => incident'[t] # "none"
<1>2. ASSUME Others, Grows, AskedOf(f)' PROVE Asked
  BY <1>0, <1>2, AskedKept
<1>3. ASSUME UNCHANGED <<incident, listed, torn>>, Others, step[f] # "saved" PROVE Places
  <2> SUFFICES ASSUME NEW t \in Txs PROVE PlacedOf(t)'
    OBVIOUS
  <2>1. Saves(t) => Saves(t)'
    BY <1>1, <1>3 DEF Saves
  <2> QED
    BY <1>0, <1>1, <1>3, <2>1, PlaceKept
<1>4. ASSUME UNCHANGED <<incident, listed, torn, step, at, pending>> PROVE Places /\ Asked
  <2>1. Places
    BY <1>0, <1>1, <1>4 DEF PlacedOf, Saves
  <2> QED
    BY <1>0, <1>4, <2>1, AskedKept
<1>5. ASSUME NEW from \in FeedSteps, NEW to \in FeedSteps, Goes(f, from, to),
             UNCHANGED <<incident, listed, torn, at, pending>>, from # "saved",
             to \notin {"filterOrder", "check", "found", "missing"}
      PROVE  Places /\ Asked
  <2>1. step[f] = from /\ step'[f] = to /\ \A g \in Feeds \ {f} : step'[g] = step[g]
    BY <1>0, <1>5 DEF Goes
  <2>2. AskedOf(f)'
    BY <1>5, <2>1 DEF AskedOf
  <2> QED
    BY <1>2, <1>3, <1>5, <2>1, <2>2
<1>6. CASE LatestBlock(f) \/ Subscribe(f) \/ SyncHeight(f) \/ Fetch(f) \/ Former(f) \/ PageDone(f)
  BY <1>5, <1>6 DEF LatestBlock, Subscribe, SyncHeight, Fetch, Former, PageDone, stores, ghosts, locals,
    FeedSteps
<1>7. CASE SyncInsert(f)
  <2>1. /\ step[f] = "saved" /\ step'[f] = "page" /\ Insert(at[f]) /\ at[f] \in Txs
        /\ Others /\ UNCHANGED incident
    BY <1>0, <1>7 DEF SyncInsert, Goes
  <2>2. Places
    <3> SUFFICES ASSUME NEW t \in Txs PROVE PlacedOf(t)'
      OBVIOUS
    <3>1. Saves(t) => Saves(t)' \/ t \in listed'
      BY <1>1, <2>1, InsertPlaces DEF Saves
    <3> QED
      BY <1>0, <1>1, <2>1, <3>1, InsertPlaces, PlaceKept
  <2>3. AskedOf(f)'
    BY <2>1 DEF AskedOf
  <2> QED
    BY <1>2, <2>1, <2>2, <2>3
<1>8. CASE FilterOrder(f)
  <2>1. /\ step[f] = "filter" /\ step'[f] = "filterIncidents" /\ Others
        /\ UNCHANGED <<incident, listed, torn>>
    BY <1>0, <1>8 DEF FilterOrder, Goes, stores, ghosts
  <2>2. AskedOf(f)'
    BY <2>1 DEF AskedOf
  <2> QED
    BY <1>2, <1>3, <2>1, <2>2
<1>9. CASE FilterIncidents(f)
  <2>1. /\ step[f] = "filter" /\ step'[f] = "filterOrder" /\ Others
        /\ pending'[f] = {t \in Txs : incident[t] = "pending"}
        /\ UNCHANGED <<incident, listed, torn>>
    BY <1>0, <1>9 DEF FilterIncidents, Goes, stores, ghosts
  <2>2. AskedOf(f)'
    BY <2>1 DEF AskedOf
  <2> QED
    BY <1>2, <1>3, <2>1, <2>2
<1>10. CASE FilterBoth(f)
  <2>1. /\ step[f] \in {"filterIncidents", "filterOrder"} /\ step'[f] \in {"check", "threw"} /\ Others
        /\ UNCHANGED <<incident, listed, torn>>
    BY <1>0, <1>10 DEF FilterBoth, Goes, stores, ghosts
  <2>2. step'[f] = "check" =>
          \/ pending'[f] = {t \in pending[f] : incident[t] = "pending"}
          \/ step[f] = "filterOrder" /\ pending'[f] \subseteq pending[f]
    BY <1>0, <1>10 DEF FilterBoth, Goes
  <2>3. AskedOf(f)'
    BY <1>0, <2>1, <2>2 DEF AskedOf
  <2> QED
    BY <1>2, <1>3, <2>1, <2>3
<1>11. CASE Checked(f)
  <2>1. /\ Save(at[f], IF step[f] = "found" THEN "synced" ELSE "absent") /\ at[f] \in Txs
        /\ step[f] \in {"found", "missing"} /\ step'[f] = "check" /\ Others
        /\ pending'[f] = pending[f] /\ UNCHANGED <<listed, torn>>
    BY <1>0, <1>11 DEF Checked, ghosts
  <2>2. incident[at[f]] # "none"
    BY <1>0, <2>1 DEF AskedOf
  <2>3. Grows /\ \A u \in Txs : ~Saves(u) /\ (incident'[u] # "none" => incident[u] # "none")
    BY <1>0, <2>1, <2>2, SaveRecords DEF Stages
  <2>4. Places
    BY <1>0, <1>1, <2>1, <2>3 DEF PlacedOf
  <2>5. AskedOf(f)'
    BY <1>0, <2>1, <2>3 DEF AskedOf
  <2> QED
    BY <1>2, <2>1, <2>3, <2>4, <2>5
<1>12. CASE UpdateSyncInfo(f)
  BY <1>5, <1>12 DEF UpdateSyncInfo, ghosts, FeedSteps
<1>13. ASSUME NEW t \in Txs, SyncRecord(f, t) PROVE Places /\ Asked
  <2>1. /\ Save(t, "synced") /\ step[f] = "page" /\ Others /\ UNCHANGED <<listed, torn>>
        /\ IF Anew(t) THEN at'[f] = t /\ step'[f] = "saved" ELSE step'[f] = "page"
    BY <1>0, <1>13 DEF SyncRecord, ghosts
  <2>2. Grows /\ \A u \in Txs : ~Saves(u) /\ (u # t => incident'[u] = incident[u])
    BY <1>0, <2>1, SaveRecords DEF Stages
  <2>3. Saves(t)' \/ incident[t] # "none"
    BY <1>0, <2>1 DEF Saves, Anew
  <2>4. Places
    BY <1>0, <1>1, <2>1, <2>2, <2>3 DEF PlacedOf
  <2>5. AskedOf(f)'
    BY <2>1 DEF AskedOf
  <2> QED
    BY <1>2, <2>1, <2>2, <2>4, <2>5
<1>14. ASSUME NEW t \in Txs, Check(f, t) PROVE Places /\ Asked
  <2>1. /\ step[f] = "check" /\ Others /\ t \in pending[f] /\ pending'[f] = pending[f] \ {t}
        /\ UNCHANGED <<incident, listed, torn>>
        /\ \/ at'[f] = t /\ step'[f] \in {"found", "missing"}
           \/ at'[f] = at[f] /\ step'[f] = step[f]
    BY <1>0, <1>14 DEF Check, stores
  <2>2. AskedOf(f)'
    BY <1>0, <2>1 DEF AskedOf
  <2> QED
    BY <1>2, <1>3, <2>1, <2>2
<1>15. CASE NewBlock(f) \/ Index(f) \/ Gap(f) \/ Restart(f)
  BY <1>4, <1>15 DEF NewBlock, Index, Gap, Restart, stores, locals, ghosts
<1>16. CASE FeedThrows(f)
  <2>1. /\ step'[f] \in {"deaf", "threw"} /\ Others /\ UNCHANGED <<incident, listed>>
        /\ torn' = torn \cup ({t \in {at[f]} : step[f] = "saved"} \ listed)
    BY <1>0, <1>16 DEF FeedThrows, Tear, stores
  <2>2. Places
    <3> SUFFICES ASSUME NEW t \in Txs PROVE PlacedOf(t)'
      OBVIOUS
    <3>1. CASE step[f] = "saved" /\ at[f] = t
      BY <1>0, <1>1, <2>1, <3>1 DEF PlacedOf
    <3>2. CASE ~(step[f] = "saved" /\ at[f] = t)
      <4>1. Saves(t) => Saves(t)'
        BY <1>1, <2>1, <3>2 DEF Saves
      <4> QED
        BY <1>0, <1>1, <2>1, <4>1, PlaceKept
    <3> QED
      BY <3>1, <3>2
  <2>3. AskedOf(f)'
    BY <2>1 DEF AskedOf
  <2> QED
    BY <1>2, <2>1, <2>2, <2>3
<1> QED
  BY <1>6, <1>7, <1>8, <1>9, <1>10, <1>11, <1>12, <1>13, <1>14, <1>15, <1>16 DEF FeedStep

LEMMA HistoryNext == HistoryInv /\ [Next]_vars => HistoryInv'
<1> SUFFICES ASSUME HistoryInv, [Next]_vars PROVE HistoryInv'
  OBVIOUS
<1>1. TypeOK' /\ TypeOK
  BY TypeNext DEF HistoryInv
<1>2. \A t \in Txs : SentOf(t)'
  BY SentNext
<1>3. CASE Crash
  <2>1. /\ UNCHANGED <<incident, listed, window>>
        /\ torn' = torn \cup ({t \in Saving : window[t] # "saved"} \ listed)
        /\ \A f \in Feeds : step'[f] = "off"
    BY <1>3 DEF Crash, Tear, stores
  <2>2. \A t \in Txs : Saves(t) => t \in Saving
    BY DEF Saves, Saving
  <2>3. \A t \in Txs : PlacedOf(t)'
    BY <2>1, <2>2 DEF HistoryInv, PlacedOf, Saves
  <2>4. \A f \in Feeds : AskedOf(f)'
    BY <2>1 DEF AskedOf
  <2> QED
    BY <1>1, <1>2, <2>3, <2>4 DEF HistoryInv
<1>4. CASE UNCHANGED vars
  BY <1>1, <1>2, <1>4 DEF HistoryInv, vars, stores, ghosts, locals, PlacedOf, Saves, AskedOf
<1> QED
  BY <1>1, <1>2, <1>3, <1>4, HistoryTx, HistoryFeed DEF HistoryInv, Next

\* Every transaction with a record is in the history of its chain, or is being
\* put there, unless a crash, a closed window or a rejected call came between the
\* two saves of record(): with any number of feeds, windows and handlers of events,
\* and whatever the node finds (record() and mutateData() of store/incidents.ts).
THEOREM HistoryKept == Spec => []HistoryComplete
<1>1. Spec => []HistoryInv
  BY HistoryInit, HistoryNext, PTL DEF Spec
<1>2. HistoryInv => HistoryComplete
  BY DEF HistoryInv, PlacedOf, Saves, Saving, HistoryComplete
<1> QED
  BY <1>1, <1>2, PTL
=============================================================================
