------------------------------ MODULE Services ------------------------------
(***************************************************************************)
(* What a node does beside consensus and execution: the transaction pool,  *)
(* the event handler, the sync of the chain, the reports of a shard, and   *)
(* the cold start.  None of them calls another here, so that only one of   *)
(* them, part, takes steps; the others stay as they were at first.         *)
(***************************************************************************)
EXTENDS Integers, FiniteSets, Sequences

CONSTANTS
  Parts,  \* the parts that may run
  \* TxPool
  UserTx, Unordered, ConsensusTx, Address, Numbered, AddressOf, OrderOf, Free,
  PoolLimit, FreeLimit, AccountLimit, AccountFreeLimit,
  PoolTimeout, TrackerTimeout, MaxTime, MaxBlocks, MaxTxs, Together,
  \* EventHandler
  Channel, ClientFilterId, Pattern, ValuePath, Wildcard, WatchedTx, Reported,
  MaxChannels, MaxFilters, MaxFiltersPerChannel, MaxRegistrations,
  \* ChainSync
  SyncPeer, SyncForeign, SyncFirst, InitTip, SyncMaxBlock, Closing, SegmentLength,
  MaxInFlight, SyncMaxFaults,
  \* ShardReports
  Call, ShardMaxBlock, Period, Limit, MaxReports, NumDeleted, Lightweight, ShardMaxFaults,
  \* ColdStart
  ColdPeer, ColdForeign, HasSnapshot, ColdFirst, NumChunks, Top, ColdMaxBlock,
  OldSegmentLength, ColdMaxFaults, MaxLosses

ASSUME PartsAreAssumed == Parts \subseteq {"pool", "events", "sync", "reports", "cold"}

VARIABLES
  part,
  poolPool, poolTracker, poolTotal, poolFreeTotal, poolFreeOf, poolCreated, poolFront,
  poolFinal, poolBlocks, poolFinalized, poolTold, poolNow,
  handNodes, handEvents, handParsed, handChannels, handSocket, handIsAlive, handSilent,
  handFilters, handFilterIds, handChannelOf, handOfType, handOfTx, handCallback, handTimers,
  handTxState, handTold, handSerial,
  syncState, syncLast, syncNotarized, syncPool, syncDisk, syncSync, syncAsleep, syncOutbound,
  syncReqs, syncResp, syncTip, syncFaults,
  repLast, repSent, repBusy, repCalls, repTxs, repLatest, repReports, repFaults,
  coldState, coldStateSync, coldOldSync, coldOldDone, coldAsleep, coldOldest, coldDisk,
  coldOutbound, coldSent, coldGot, coldStream, coldFaults

-----------------------------------------------------------------------------
Pool == INSTANCE TxPool
  WITH pool <- poolPool, tracker <- poolTracker, total <- poolTotal,
       freeTotal <- poolFreeTotal, freeOf <- poolFreeOf, created <- poolCreated,
       front <- poolFront, final <- poolFinal, blocks <- poolBlocks,
       finalized <- poolFinalized, told <- poolTold, now <- poolNow

ASSUME PoolIsAssumed == Pool!TxPoolAssumption

\* The global id of a filter is its channel and the id of its client.
EventFilter == Channel \X ClientFilterId

Events == INSTANCE EventHandler
  WITH Filter <- EventFilter, Tx <- WatchedTx,
       nodes <- handNodes, events <- handEvents, parsed <- handParsed,
       channels <- handChannels, socket <- handSocket, isAlive <- handIsAlive,
       silent <- handSilent, filters <- handFilters, filterIds <- handFilterIds,
       channelOf <- handChannelOf, ofType <- handOfType, ofTx <- handOfTx,
       callback <- handCallback, timers <- handTimers, txState <- handTxState,
       told <- handTold, serial <- handSerial

ASSUME EventsAreAssumed == Events!EventHandlerAssumption

Syncing == INSTANCE ChainSync
  WITH Peer <- SyncPeer, Foreign <- SyncForeign, First <- SyncFirst,
       MaxBlock <- SyncMaxBlock, MaxFaults <- SyncMaxFaults,
       state <- syncState, last <- syncLast, notarized <- syncNotarized, pool <- syncPool,
       disk <- syncDisk, sync <- syncSync, asleep <- syncAsleep, outbound <- syncOutbound,
       reqs <- syncReqs, resp <- syncResp, tip <- syncTip, faults <- syncFaults

ASSUME SyncIsAssumed == Syncing!ChainSyncAssumption

Reports == INSTANCE ShardReports
  WITH MaxBlock <- ShardMaxBlock, MaxFaults <- ShardMaxFaults,
       last <- repLast, sent <- repSent, busy <- repBusy, calls <- repCalls, txs <- repTxs,
       latest <- repLatest, reports <- repReports, faults <- repFaults

ASSUME ReportsAreAssumed == Reports!ShardAssumption

Cold == INSTANCE ColdStart
  WITH Peer <- ColdPeer, Foreign <- ColdForeign, First <- ColdFirst,
       MaxBlock <- ColdMaxBlock, MaxFaults <- ColdMaxFaults,
       state <- coldState, stateSync <- coldStateSync, oldSync <- coldOldSync,
       oldDone <- coldOldDone, asleep <- coldAsleep, oldest <- coldOldest, disk <- coldDisk,
       outbound <- coldOutbound, sent <- coldSent, got <- coldGot, stream <- coldStream,
       faults <- coldFaults

ASSUME ColdIsAssumed == Cold!ColdStartAssumption

-----------------------------------------------------------------------------
poolVars ==
  <<poolPool, poolTracker, poolTotal, poolFreeTotal, poolFreeOf, poolCreated, poolFront,
    poolFinal, poolBlocks, poolFinalized, poolTold, poolNow>>
handVars ==
  <<handNodes, handEvents, handParsed, handChannels, handSocket, handIsAlive, handSilent,
    handFilters, handFilterIds, handChannelOf, handOfType, handOfTx, handCallback, handTimers,
    handTxState, handTold, handSerial>>
syncVars ==
  <<syncState, syncLast, syncNotarized, syncPool, syncDisk, syncSync, syncAsleep, syncOutbound,
    syncReqs, syncResp, syncTip, syncFaults>>
repVars == <<repLast, repSent, repBusy, repCalls, repTxs, repLatest, repReports, repFaults>>
coldVars ==
  <<coldState, coldStateSync, coldOldSync, coldOldDone, coldAsleep, coldOldest, coldDisk,
    coldOutbound, coldSent, coldGot, coldStream, coldFaults>>
vars == <<part, poolVars, handVars, syncVars, repVars, coldVars>>

\* What the part that takes steps leaves alone
Only(p) ==
  /\ part = p
  /\ UNCHANGED part
  /\ IF p = "pool" THEN TRUE ELSE UNCHANGED poolVars
  /\ IF p = "events" THEN TRUE ELSE UNCHANGED handVars
  /\ IF p = "sync" THEN TRUE ELSE UNCHANGED syncVars
  /\ IF p = "reports" THEN TRUE ELSE UNCHANGED repVars
  /\ IF p = "cold" THEN TRUE ELSE UNCHANGED coldVars

\* A part that does not run starts in one of its initial states only.
Init ==
  /\ part \in Parts
  /\ Pool!Init /\ Events!Init /\ Reports!Init /\ Cold!Init
  /\ Syncing!Init /\ (part # "sync" => syncOutbound = {})

Next ==
  \/ Only("pool") /\ Pool!Next
  \/ Only("events") /\ Events!Next
  \/ Only("sync") /\ Syncing!Next
  \/ Only("reports") /\ Reports!Next
  \/ Only("cold") /\ Cold!Next

Spec == Init /\ [][Next]_vars

-----------------------------------------------------------------------------
(* Properties.  A part that does not run changes nothing.                  *)

(* The type invariants of the parts, with what each says of requests and   *)
(* calls that are under way at one time.                                   *)
TypeOK == Pool!TypeOK /\ Events!TypeOK /\ Syncing!TypeOK /\ Reports!TypeOK /\ Cold!TypeOK

(* After any mixture of additions, blocks of several forks, clean-ups and  *)
(* timeouts the counters of the transaction pool agree with its lists, the *)
(* tracker knows all that is in it, no transaction is in it twice, none    *)
(* that it knows to be settled, and none whose turn has passed on the      *)
(* final chain (an unordered transaction has no turn).                     *)
PoolIsClean ==
  /\ Pool!CountsAreExact
  /\ Pool!SettledIsGone
  /\ Pool!PoolIsTracked
  /\ Pool!OncePerPool
  /\ Pool!PoolIsNotStale

(* What matches a changed value is a registered filter and no node of the  *)
(* tree is empty or lost; the indexes of filters agree, each has a channel *)
(* that is open, timeouts are those of the filters there are, and a client *)
(* was told the state its transaction has now.                             *)
FiltersAgree ==
  /\ Events!MatchedIsRegistered
  /\ Events!TreeIsTight
  /\ Events!IndexesAgree
  /\ Events!FiltersHaveChannels
  /\ Events!TimersAreCurrent
  /\ Events!ToldIsCurrent

(* Whatever was lost, late or answered by another peer: a node that serves *)
(* has what a peer had, the block files have no gap, the old chain is      *)
(* whole when its sync says so, and the parent chain has the reports of a  *)
(* shard without a gap.                                                    *)
ChainsAreWhole ==
  /\ Syncing!ServingIsSynced
  /\ Cold!FilesAreContiguous /\ Cold!DoneIsWhole
  /\ Reports!ReportsAreConsecutive

(* The last final block goes back only when the node restarts, and the     *)
(* latest reported block of a shard never, nor does its report go.         *)
NothingGoesBack ==
  /\ Syncing!NeverBack
  /\ Reports!LatestIsReported
=============================================================================
