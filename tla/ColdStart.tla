----------------------------- MODULE ColdStart -----------------------------
(***************************************************************************)
(* How a node of sync mode 'peer' starts without a chain of its own        *)
(* (p2p/index.js): it takes the latest snapshot of a peer, chunk by chunk, *)
(* starts from there, and fetches the blocks below the snapshot from its   *)
(* peers while it already follows the chain.                               *)
(*                                                                         *)
(* Block numbers stand for blocks.  What the node does above the snapshot  *)
(* is ChainSync; here the blocks in memory move up (Grow).                 *)
(***************************************************************************)
EXTENDS Integers, Sequences, FiniteSetsExt, Functions

CONSTANTS
  Peer,
  Foreign,           \* the peers whose old blocks are not of the chain
  HasSnapshot,       \* the peers that have a snapshot
  First,             \* First[p]: the oldest block file of p
  NumChunks,         \* the chunks of a snapshot
  Top,               \* the block of the snapshot
  MaxBlock,          \* bound: the highest block
  OldSegmentLength,  \* OLD_CHAIN_SEGMENT_LENGTH
  MaxFaults,         \* bound: faults before a peer refuses or is busy
  MaxLosses          \* bound: faults before a connection is lost

NoPeer == [peer |-> "none"]

ColdStartAssumption ==
  /\ "none" \notin Peer /\ IsFiniteSet(Peer)
  /\ Foreign \subseteq Peer /\ HasSnapshot \subseteq Peer \ Foreign
  /\ First \in [Peer -> 0..Top]
  /\ NumChunks \in Nat \ {0} /\ MaxBlock \in Nat /\ Top \in 1..MaxBlock
  /\ OldSegmentLength \in Nat \ {0}

VARIABLES
  state,     \* node.state
  stateSync, \* stateSyncInProgress, with the chunks received
  oldSync,   \* oldChainSyncInProgress, with its oldestBlockNumber
  oldDone,   \* oldChainSyncDone
  asleep,    \* the handlers of old segments that sleep: their forceToReset
  oldest,    \* bc.oldestBlockNumber(): the oldest block in memory
  disk,      \* the block files
  outbound,  \* the connected peers
  sent,      \* sent[p]: the requests to p under way
  got,       \* got[p]: the answers of p under way
  stream,    \* stream[p]: who p streams its snapshot to: nobody, me (and the
             \* next chunk) or another node
  faults     \* how many faults there were

vars == <<state, stateSync, oldSync, oldDone, asleep, oldest, disk, outbound, sent, got, stream, faults>>
old == <<oldSync, oldDone, asleep, disk>>
wire == <<sent, got>>

Nobody == [to |-> "nobody"]
Another == [to |-> "another"]

Init ==
  /\ state = "STATE_SYNCING"
  /\ stateSync = NoPeer /\ oldSync = NoPeer /\ oldDone = FALSE
  /\ asleep = <<>> /\ oldest = -1 /\ disk = {}
  /\ outbound = Peer
  /\ sent = [p \in Peer |-> <<>>]
  /\ got = [p \in Peer |-> <<>>]
  /\ stream = [p \in Peer |-> Nobody]
  /\ faults = 0

-----------------------------------------------------------------------------
(* The snapshot                                                            *)

(* requestSnapshotChunks, when the node is prepared and for every new      *)
(* connection, with assignRandomPeerForStateSync.                          *)
RequestSnapshotChunks ==
  /\ state = "STATE_SYNCING" /\ stateSync = NoPeer
  /\ \E p \in outbound :
       /\ stateSync' = [peer |-> p, chunks |-> 0]
       /\ sent' = [sent EXCEPT ![p] = Append(@, [kind |-> "snapshot"])]
  /\ UNCHANGED <<state, old, oldest, outbound, got, stream, faults>>

(* SNAPSHOT_CHUNK_REQUEST with loadAndStreamLatestSnapshotChunks: a peer   *)
(* that is already streaming refuses, one without a snapshot is silent.    *)
StartStream(p) ==
  /\ sent[p] # <<>> /\ Head(sent[p]).kind = "snapshot"
  /\ sent' = [sent EXCEPT ![p] = Tail(@)]
  /\ IF stream[p] # Nobody
     THEN got' = [got EXCEPT ![p] = Append(@, [kind |-> "refused"])] /\ UNCHANGED stream
     ELSE /\ stream' = [stream EXCEPT ![p] = IF p \in HasSnapshot THEN [to |-> "me", next |-> 0] ELSE @]
          /\ UNCHANGED got
  /\ UNCHANGED <<state, stateSync, old, oldest, outbound, faults>>

(* streamRequestedSnapshotChunks *)
SendChunk(p) ==
  /\ stream[p].to = "me"
  /\ got' = [got EXCEPT ![p] = Append(@, [kind |-> "chunk", index |-> stream[p].next])]
  /\ stream' = [stream EXCEPT ![p] = IF @.next = NumChunks - 1 THEN Nobody ELSE [to |-> "me", next |-> @.next + 1]]
  /\ UNCHANGED <<state, stateSync, old, oldest, outbound, sent, faults>>

(* Another node asks the peer for its snapshot.                            *)
StreamToAnother(p) ==
  /\ p \in HasSnapshot /\ stream[p] = Nobody /\ faults < MaxFaults
  /\ faults' = faults + 1
  /\ stream' = [stream EXCEPT ![p] = Another]
  /\ UNCHANGED <<state, stateSync, old, oldest, outbound, wire>>

EndOfStream(p) ==
  /\ stream[p] = Another
  /\ stream' = [stream EXCEPT ![p] = Nobody]
  /\ UNCHANGED <<state, stateSync, old, oldest, outbound, wire, faults>>

-----------------------------------------------------------------------------
(* The old blocks                                                          *)

\* Mutant: the peer is kept although a reset is asked for.
KeepsPeer(s, force, o) ==
  IF s # NoPeer /\ s.peer \in outbound THEN {s}
  ELSE {[peer |-> p, oldest |-> o] : p \in outbound \ {s.peer}}

(* assignRandomPeerForOldChainSync when the sync status is s and the       *)
(* oldest block in memory o: a new peer starts again below that block.     *)
Assigned(s, force, o) ==
  IF ~force /\ s # NoPeer /\ s.peer \in outbound THEN {s}
  ELSE {[peer |-> p, oldest |-> o] : p \in outbound \ {s.peer}}

(* requestOldChainSegment, in the state CHAIN_SYNCING or SERVING; q is     *)
(* what sent is before.                                                    *)
RequestOld(s, force, o, q) ==
  \/ (oldDone \/ Assigned(s, force, o) = {}) /\ oldSync' = s /\ sent' = q /\ UNCHANGED oldDone
  \/ /\ ~oldDone
     /\ \E t \in Assigned(s, force, o) :
          IF t.oldest = 0
          THEN oldSync' = NoPeer /\ oldDone' = TRUE /\ sent' = q
          ELSE /\ oldSync' = t /\ UNCHANGED oldDone
               /\ sent' = [q EXCEPT ![t.peer] = Append(@, [kind |-> "old", oldest |-> t.oldest])]

(* getOldBlockList with getOldBlockPathList: the files from the asked      *)
(* number down to the first one that is missing.                           *)
OldBlockList(p, from) ==
  [kind |-> "old", from |-> from,
   to |-> IF from < First[p] THEN from + 1 ELSE Max({First[p], from - OldSegmentLength + 1})]

Empty == [kind |-> "old", from |-> -1, to |-> 0]

(* OLD_CHAIN_SEGMENT_REQUEST *)
AnswerOld(p) ==
  /\ sent[p] # <<>> /\ Head(sent[p]).kind = "old"
  /\ sent' = [sent EXCEPT ![p] = Tail(@)]
  /\ got' = [got EXCEPT ![p] = Append(@, OldBlockList(p, Head(sent[p]).oldest - 1))]
  /\ UNCHANGED <<state, stateSync, old, oldest, outbound, stream, faults>>

(* A peer that fetches old blocks itself has none to give.                 *)
RefuseOld(p) ==
  /\ sent[p] # <<>> /\ Head(sent[p]).kind = "old" /\ faults < MaxFaults
  /\ faults' = faults + 1
  /\ sent' = [sent EXCEPT ![p] = Tail(@)]
  /\ got' = [got EXCEPT ![p] = Append(@, Empty)]
  /\ UNCHANGED <<state, stateSync, old, oldest, outbound, stream>>

IsEmpty(r) == r.from < r.to

(* The block n of a peer: those of another chain are numbered after the    *)
(* blocks of this one.                                                     *)
BlockOf(p, n) == IF p \in Foreign THEN MaxBlock + 1 + n ELSE n

\* Mutant: only the number of the block above is looked at.
JoinsByNumber(p, r) == r.from + 1 \in disk

(* precheckOldChainSegment: every block is the one that the block above it *)
(* names, which the node has.  (getBlockByNumber looks for that in memory  *)
(* while it is one of the newest ON_MEMORY_CHAIN_LENGTH; a segment that    *)
(* fails for it is asked for again.)                                       *)
PassesPrecheck(p, r) == BlockOf(p, r.from) + 1 \in disk

\* Mutant: the bounds of an empty segment are taken for a progress.
ReachedByAny(r) == r.to

(* updateOldChainSyncStatus *)
Reached(r) == IF IsEmpty(r) THEN oldSync.oldest ELSE r.to

(* handleOldChainSegment, up to the sleep or the end of the sync.          *)
HandleOld(p, r) ==
  /\ UNCHANGED <<state, stateSync, oldest, sent>>
  /\ IF oldSync.peer # p
     THEN UNCHANGED old
     ELSE IF ~IsEmpty(r) /\ ~PassesPrecheck(p, r)
     THEN asleep' = Append(asleep, TRUE) /\ UNCHANGED <<oldSync, oldDone, disk>>
     ELSE /\ disk' = disk \cup {BlockOf(p, n) : n \in r.to .. r.from}
          /\ IF Reached(r) > 0
             THEN /\ oldSync' = [oldSync EXCEPT !.oldest = Reached(r)]
                  /\ asleep' = Append(asleep, IsEmpty(r))
                  /\ UNCHANGED oldDone
             ELSE oldSync' = NoPeer /\ oldDone' = TRUE /\ UNCHANGED asleep

\* Mutant: a timer that goes on.
WakeAgain ==
  /\ asleep # <<>>
  /\ RequestOld(oldSync, Head(asleep), oldest, sent)
  /\ UNCHANGED <<state, stateSync, asleep, oldest, disk, outbound, got, stream, faults>>

(* OLD_CHAIN_SEGMENT_SLEEP_MS later: the next request.                     *)
Wake ==
  /\ asleep # <<>>
  /\ asleep' = Tail(asleep)
  /\ RequestOld(oldSync, Head(asleep), oldest, sent)
  /\ UNCHANGED <<state, stateSync, oldest, disk, outbound, got, stream, faults>>

-----------------------------------------------------------------------------
(* Answers and connections                                                 *)

(* handleSnapshotChunk with buildSnapshotAndStartBlockchainNode and        *)
(* startNode: with the last chunk the node starts from the snapshot.  A    *)
(* refusal, or a chunk that does not follow, stops the node.               *)
HandleChunk(p, r) ==
  IF state # "STATE_SYNCING" \/ stateSync.peer # p
  THEN UNCHANGED <<state, stateSync, old, oldest, sent>>
  ELSE IF r.kind = "refused" \/ r.index # stateSync.chunks
  THEN state' = "STOPPED" /\ UNCHANGED <<stateSync, old, oldest, sent>>
  ELSE IF r.index < NumChunks - 1
  THEN stateSync' = [stateSync EXCEPT !.chunks = @ + 1] /\ UNCHANGED <<state, old, oldest, sent>>
  ELSE /\ state' = "CHAIN_SYNCING"
       /\ stateSync' = NoPeer
       /\ oldest' = Top /\ disk' = {Top}
       /\ RequestOld(oldSync, FALSE, Top, sent)
       /\ UNCHANGED asleep

Handle(p) ==
  /\ got[p] # <<>>
  /\ got' = [got EXCEPT ![p] = Tail(@)]
  /\ UNCHANGED <<outbound, stream, faults>>
  /\ IF Head(got[p]).kind = "old" THEN HandleOld(p, Head(got[p])) ELSE HandleChunk(p, Head(got[p]))

(* The node has one more final block, and keeps one less in memory.        *)
Grow ==
  /\ state = "CHAIN_SYNCING" /\ oldest < MaxBlock
  /\ oldest' = oldest + 1
  /\ disk' = disk \cup {oldest + 1}
  /\ UNCHANGED <<state, stateSync, oldSync, oldDone, asleep, outbound, wire, stream, faults>>

(* The 'close' handler of a socket: neither sync is told.                  *)
Disconnect(p) ==
  /\ p \in outbound /\ faults < MaxLosses
  /\ faults' = faults + 1
  /\ outbound' = outbound \ {p}
  /\ sent' = [sent EXCEPT ![p] = <<>>]
  /\ got' = [got EXCEPT ![p] = <<>>]
  /\ stream' = [stream EXCEPT ![p] = IF @.to = "me" THEN Another ELSE @]
  /\ UNCHANGED <<state, stateSync, old, oldest>>

Connect(p) ==
  /\ p \notin outbound
  /\ outbound' = outbound \cup {p}
  /\ UNCHANGED <<state, stateSync, old, oldest, wire, stream, faults>>

-----------------------------------------------------------------------------
Step(p) ==
  \/ StartStream(p) \/ SendChunk(p) \/ EndOfStream(p)
  \/ AnswerOld(p) \/ Handle(p) \/ Connect(p)

Next ==
  \/ RequestSnapshotChunks \/ Wake \/ Grow
  \/ \E p \in Peer : Step(p) \/ StreamToAnother(p) \/ RefuseOld(p) \/ Disconnect(p)

Spec == Init /\ [][Next]_vars

(* Timers fire, sockets deliver, peers answer, connections come back.      *)
Fairness ==
  /\ WF_vars(RequestSnapshotChunks) /\ WF_vars(Wake)
  /\ \A p \in Peer : WF_vars(Step(p))

LiveSpec == Spec /\ Fairness

-----------------------------------------------------------------------------
\* The messages of a queue that are about old blocks
OldIn(q) == Cardinality({i \in DOMAIN q : q[i].kind = "old"})

OldRequests ==
  Len(asleep) + FoldFunction(+, 0, [p \in Peer |-> OldIn(sent[p]) + OldIn(got[p])])

\* Types of the variables; a node that starts has a whole snapshot; there is
\* at most one request or handler for old blocks at a time.
TypeOK ==
  /\ state \in {"STATE_SYNCING", "CHAIN_SYNCING", "STOPPED"}
  /\ stateSync = NoPeer \/ (stateSync.peer \in Peer /\ stateSync.chunks \in 0..(NumChunks - 1))
  /\ oldSync = NoPeer \/ (oldSync.peer \in Peer /\ oldSync.oldest \in 1..MaxBlock)
  /\ oldest \in {-1} \cup Top..MaxBlock
  /\ OldRequests <= 1

\* The block files have no gap: whatever peer the old blocks come from and
\* however late, each segment joins the blocks that are there
\* (precheckOldChainSegment, writeOldChainSegment).
FilesAreContiguous ==
  state = "CHAIN_SYNCING" => \E b \in 0..Top : disk = b..oldest

\* When the sync of the old chain says it is done, all blocks are there
\* (resetOldChainSyncPeer sets oldChainSyncDone).
DoneIsWhole == oldDone => disk = 0..oldest

\* A node that started gets all the old blocks (handleOldChainSegment).
OldChainIsFetched == state = "CHAIN_SYNCING" ~> oldDone
=============================================================================
