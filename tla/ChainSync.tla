----------------------------- MODULE ChainSync -----------------------------
(***************************************************************************)
(* How a node that is behind fetches the chain from its peers.             *)
(*                                                                         *)
(* One node asks one outbound peer at a time (p2p/index.js                 *)
(* chainSyncInProgress) for the blocks above its last final block; the     *)
(* peer answers with at most SegmentLength blocks from its disk, with its  *)
(* last block number and with the blocks it has above that number.  Every  *)
(* answer is merged, may make the node SERVING, and asks for more.         *)
(*                                                                         *)
(* The chain is a line of block numbers 0..MaxBlock; -1 is the empty       *)
(* chain.  A block is notarized by the votes that the next one carries,    *)
(* and a block of Closing that is notarized finalizes everything below it. *)
(***************************************************************************)
EXTENDS Integers, Sequences, FiniteSets, FiniteSetsExt, Functions

CONSTANTS
  Peer,
  Foreign,        \* the peers that follow a chain of another genesis block
  First,          \* First[p]: the oldest block file that p has
  InitTip,        \* InitTip[p]: the highest block that p has notarized at the start
  MaxBlock,       \* bound: the highest block
  Closing,        \* the blocks at which three blocks of consecutive epochs end
  SegmentLength,  \* CHAIN_SEGMENT_LENGTH
  MaxInFlight,    \* bound: requests and answers under way, sleeping handlers included
  MaxFaults       \* bound: connections lost, unanswered requests and restarts

NoPeer == [peer |-> "none"]

ChainSyncAssumption ==
  /\ IsFiniteSet(Peer) /\ MaxBlock \in Nat
  /\ Foreign \subseteq Peer
  /\ First \in [Peer -> Nat]
  /\ InitTip \in [Peer -> 0..MaxBlock]
  /\ Closing \subseteq 2..MaxBlock
  /\ {SegmentLength, MaxInFlight} \subseteq Nat \ {0}

VARIABLES
  state,    \* node.state: CHAIN_SYNCING or SERVING
  last,     \* node.bc.lastBlockNumber(): the last final block
  notarized,\* the highest notarized block of node.bp
  pool,     \* the highest block that node.bp has seen and executed
  disk,     \* the highest block file
  sync,     \* client.chainSyncInProgress
  asleep,   \* the peers whose invalid answers put handlers to sleep, a sequence
  outbound, \* the peers of client.outbound
  reqs,     \* reqs[p]: the last block numbers asked from p and not answered yet
  resp,     \* resp[p]: the answers of p under way
  tip,      \* tip[p]: the highest notarized block of p
  faults    \* how many faults there were

vars == <<state, last, notarized, pool, disk, sync, asleep, outbound, reqs, resp, tip, faults>>
chain == <<last, notarized, pool, disk>>
net == <<reqs, resp>>

(* BlockPool.getFinalizableChain and tryFinalizeChain: everything below a  *)
(* notarized block that ends three consecutive epochs is final.            *)
FinalAfter(from, upTo) == Max({from} \cup {c - 1 : c \in {d \in Closing : d <= upTo}})

PeerLast(p) == FinalAfter(0, tip[p])

Init ==
  /\ state = "CHAIN_SYNCING"
  /\ last = -1 /\ notarized = -1 /\ pool = -1 /\ disk = -1
  /\ sync = NoPeer
  /\ asleep = <<>>
  /\ outbound \in SUBSET Peer
  /\ reqs = [p \in Peer |-> <<>>]
  /\ resp = [p \in Peer |-> <<>>]
  /\ tip = InitTip
  /\ faults = 0

-----------------------------------------------------------------------------
(* Requesting                                                              *)

(* setChainSyncPeer: nothing was asked yet.  updatedAt is the function     *)
(* Date.now itself, and no comparison with it is true.                     *)
ChainSyncPeer(p) == [peer |-> p, lastBlockNumber |-> -2, fresh |-> FALSE]

(* assignRandomPeerForChainSync: keep the peer that is still connected, or *)
(* take another one.                                                       *)
Assignable(s) ==
  IF s # NoPeer /\ s.peer \in outbound THEN {s}
  ELSE {ChainSyncPeer(p) : p \in outbound \ {s.peer}}

(* Mutant of Request: the time buffer is never over. *)
RequestOnce(s, l, q) ==
  \/ Assignable(s) = {} /\ sync' = s /\ reqs' = q
  \/ \E t \in Assignable(s) :
       IF t.lastBlockNumber >= l THEN sync' = t /\ reqs' = q
       ELSE /\ sync' = [t EXCEPT !.lastBlockNumber = l, !.fresh = TRUE]
            /\ reqs' = [q EXCEPT ![t.peer] = Append(@, l)]

(* requestChainSegment with the chain at l and the sync status s: at most  *)
(* one request per last block number and epoch.  q is what reqs is before. *)
Request(s, l, q) ==
  \/ Assignable(s) = {} /\ sync' = s /\ reqs' = q
  \/ \E t \in Assignable(s) :
       IF t.lastBlockNumber >= l /\ t.fresh
       THEN sync' = t /\ reqs' = q
       ELSE /\ sync' = [t EXCEPT !.lastBlockNumber = l, !.fresh = TRUE]
            /\ reqs' = [q EXCEPT ![t.peer] = Append(@, l)]

InFlight ==
  FoldFunction(+, 0, [p \in Peer |-> Len(reqs[p]) + Len(resp[p])]) + Len(asleep)

(* A new outbound peer, a consensus message from the future, and any       *)
(* message that the node is not ready for call requestChainSegment.        *)
Trigger ==
  /\ InFlight < MaxInFlight
  /\ Request(sync, last, reqs)
  /\ UNCHANGED <<state, chain, asleep, outbound, resp, tip, faults>>

(* The time buffer of one epoch has passed since the last request.         *)
BufferElapses ==
  /\ sync # NoPeer /\ sync.fresh
  /\ sync' = [sync EXCEPT !.fresh = FALSE]
  /\ UNCHANGED <<state, chain, asleep, outbound, net, tip, faults>>

-----------------------------------------------------------------------------
(* The peer                                                                *)

(* Blockchain.getBlockList with FileUtil.getBlockPathList: the last block  *)
(* when the requester has everything, otherwise the files from the asked   *)
(* number on, up to the first one that is missing.                         *)
BlockList(p, from) ==
  IF from = PeerLast(p) + 1 THEN [from |-> PeerLast(p), to |-> PeerLast(p)]
  ELSE [from |-> from,
        to |-> IF from < First[p] THEN from - 1
               ELSE Min({PeerLast(p), from + SegmentLength - 1})]

(* Server CHAIN_SEGMENT_REQUEST at a SERVING peer.  The answer carries the *)
(* last block number and the catch-up information, the blocks up to tip.   *)
Answer(p) ==
  /\ reqs[p] # <<>>
  /\ LET list == BlockList(p, Head(reqs[p]) + 1)
     IN  resp' = [resp EXCEPT ![p] = Append(@,
           [from |-> list.from, to |-> list.to, number |-> PeerLast(p), tip |-> tip[p]])]
  /\ reqs' = [reqs EXCEPT ![p] = Tail(@)]
  /\ UNCHANGED <<state, chain, sync, asleep, outbound, tip, faults>>

(* A peer that is not SERVING itself does not answer.                      *)
NotReady(p) ==
  /\ reqs[p] # <<>> /\ faults < MaxFaults
  /\ faults' = faults + 1
  /\ reqs' = [reqs EXCEPT ![p] = Tail(@)]
  /\ UNCHANGED <<state, chain, sync, asleep, outbound, resp, tip>>

(* The peer notarizes its next block.                                      *)
Extend(p) ==
  /\ tip[p] < MaxBlock
  /\ tip' = [tip EXCEPT ![p] = @ + 1]
  /\ UNCHANGED <<state, chain, sync, asleep, outbound, net, faults>>

-----------------------------------------------------------------------------
(* The answer                                                              *)

IsEmpty(r) == r.to < r.from

(* Mutant of ChainAt: final blocks are kept in memory only. *)
ChainInMemory(n, v) ==
  LET l == IF n >= 0 THEN FinalAfter(Max({last, 0}), Max({v, notarized})) ELSE last
  IN  [last |-> l, notarized |-> Max({v, notarized, l}), pool |-> Max({n, pool}), disk |-> disk]

(* The chain once the blocks up to number n are executed and those up to   *)
(* number v are notarized: tryFinalizeChain writes what becomes final.     *)
ChainAt(n, v) ==
  LET l == IF n >= 0 THEN FinalAfter(Max({last, 0}), Max({v, notarized})) ELSE last
  IN  [last |-> l, notarized |-> Max({v, notarized, l}), pool |-> Max({n, pool}),
       disk |-> Max({disk, l})]

Here == [last |-> last, notarized |-> notarized, pool |-> pool, disk |-> disk]

SetChain(c) ==
  last' = c.last /\ notarized' = c.notarized /\ pool' = c.pool /\ disk' = c.disk

(* mergeChainSegment with getValidBlocksInChainSegment: the result and the *)
(* chain after it.  Each block notarizes the one before it.  A foreign     *)
(* block never extends the chain of the node.                              *)
Merge(p, r) ==
  IF IsEmpty(r) \/ r.to < last THEN [result |-> 1, chain |-> Here]
  ELSE IF r.to = last \/ p \in Foreign \/ r.from > pool + 1
       THEN [result |-> -1, chain |-> Here]
       ELSE [result |-> 0, chain |-> IF r.to > pool THEN ChainAt(r.to, r.to - 1) ELSE Here]

(* precheckChainSegment: the answer starts with another genesis block.     *)
FailsPrecheck(p, r) == p \in Foreign /\ r.from = 0 /\ ~IsEmpty(r)

(* Mutant of IsCaughtUp: one segment behind is near enough. *)
IsNear(c, number) == c.last + SegmentLength >= number

(* tryInitProcesses: the node has all the final blocks of the peer.        *)
IsCaughtUp(c, number) == c.last >= number

(* Mutant of CatchUp: the node takes over the chain of the peer. *)
TakeOver(p, c, r) ==
  IF p \notin Foreign /\ r.number <= c.pool
  THEN [last |-> r.number, notarized |-> r.tip, pool |-> Max({r.tip, c.pool}), disk |-> Max({r.number, c.disk})]
  ELSE c

(* Consensus.catchUp: the blocks above the last one of the peer, with the  *)
(* votes for the tip, are added when the node has the block below them.    *)
CatchUp(p, c, r) ==
  IF p \notin Foreign /\ r.number <= c.pool /\ r.tip > r.number
  THEN LET l == FinalAfter(c.last, Max({r.tip, c.notarized}))
       IN  [last |-> l, notarized |-> Max({r.tip, c.notarized}), pool |-> Max({r.tip, c.pool}),
            disk |-> Max({c.disk, l})]
  ELSE c

(* handleChainSegment                                                      *)
Handle(p) ==
  /\ resp[p] # <<>>
  /\ resp' = [resp EXCEPT ![p] = Tail(@)]
  /\ UNCHANGED <<outbound, tip, faults>>
  /\ LET r == Head(resp[p])
         m == Merge(p, r)
         kept == IF m.result # 0 THEN NoPeer ELSE sync
         after == IF m.result >= 0 THEN CatchUp(p, m.chain, r) ELSE m.chain
     IN  IF sync.peer # p                      \* not the peer that was asked
         THEN UNCHANGED <<state, chain, sync, asleep, reqs>>
         ELSE IF FailsPrecheck(p, r)
         THEN asleep' = Append(asleep, p) /\ UNCHANGED <<state, chain, sync, reqs>>
         ELSE IF IsCaughtUp(Here, r.number)
         THEN /\ state' = "SERVING"
              /\ sync' = NoPeer
              /\ SetChain(CatchUp(p, Here, r))
              /\ UNCHANGED <<asleep, reqs>>
         ELSE /\ state' = IF IsEmpty(r) \/ (m.result >= 0 /\ IsCaughtUp(m.chain, r.number))
                          THEN "SERVING" ELSE state
              /\ SetChain(after)
              /\ UNCHANGED asleep
              /\ IF after.last <= r.number THEN Request(kept, after.last, reqs)
                 ELSE sync' = kept /\ UNCHANGED reqs

(* The handler of an invalid answer wakes up after CHAIN_SEGMENT_SLEEP_MS: *)
(* it drops the peer of the moment and asks again.                         *)
Wake ==
  /\ asleep # <<>>
  /\ asleep' = Tail(asleep)
  /\ Request(NoPeer, last, reqs)
  /\ UNCHANGED <<state, chain, outbound, resp, tip, faults>>

-----------------------------------------------------------------------------
(* Connections, blocks of the consensus and restarts                       *)

Connect(p) ==
  /\ p \notin outbound
  /\ outbound' = outbound \cup {p}
  /\ UNCHANGED <<state, chain, sync, asleep, net, tip, faults>>

(* The messages of a closed socket are lost.                               *)
Closed(p) ==
  /\ p \in outbound /\ faults < MaxFaults
  /\ faults' = faults + 1
  /\ outbound' = outbound \ {p}
  /\ reqs' = [reqs EXCEPT ![p] = <<>>]
  /\ resp' = [resp EXCEPT ![p] = <<>>]
  /\ UNCHANGED <<state, chain, asleep, tip>>

(* The peer closes the socket: the 'close' handler still finds it in       *)
(* outbound and forgets the peer of the chain sync.                        *)
PeerCloses(p) ==
  /\ Closed(p)
  /\ sync' = IF sync.peer = p THEN NoPeer ELSE sync

(* The node closes it: closeSocketSafe takes the peer out of outbound      *)
(* first, and the 'close' handler does not recognize it.                   *)
NodeCloses(p) ==
  /\ Closed(p)
  /\ UNCHANGED sync

(* A SERVING node follows the consensus: the proposal of the block above   *)
(* its last notarized one (a higher one is a Trigger), and the votes.      *)
Proposal ==
  /\ state = "SERVING" /\ pool \in 0..(MaxBlock - 1) /\ notarized = pool
  /\ \E p \in Peer \ Foreign : tip[p] >= pool
  /\ SetChain(ChainAt(pool + 1, pool))
  /\ UNCHANGED <<state, sync, asleep, outbound, net, tip, faults>>

Votes ==
  /\ state = "SERVING" /\ notarized < pool
  /\ \E p \in Peer \ Foreign : tip[p] >= pool
  /\ SetChain(ChainAt(pool, pool))
  /\ UNCHANGED <<state, sync, asleep, outbound, net, tip, faults>>

(* A crash and a restart: loadAndExecuteChainOnDb executes the blocks of   *)
(* the disk.  The votes for the highest one were only in memory.           *)
Restart ==
  /\ disk >= 0 /\ faults < MaxFaults
  /\ faults' = faults + 1
  /\ state' = "CHAIN_SYNCING"
  /\ pool' = disk
  /\ last' = FinalAfter(0, disk - 1)
  /\ notarized' = Max({disk - 1, last'})
  /\ sync' = NoPeer /\ asleep' = <<>> /\ outbound' = {}
  /\ reqs' = [p \in Peer |-> <<>>]
  /\ resp' = [p \in Peer |-> <<>>]
  /\ UNCHANGED <<disk, tip>>

-----------------------------------------------------------------------------
NodeSteps ==
  \/ Trigger \/ BufferElapses \/ Wake \/ Proposal \/ Votes \/ Restart
  \/ \E p \in Peer : Handle(p) \/ Connect(p) \/ NodeCloses(p)
PeerSteps == \E p \in Peer : Answer(p) \/ NotReady(p) \/ Extend(p) \/ PeerCloses(p)

Next == NodeSteps \/ PeerSteps
Spec == Init /\ [][Next]_vars

(* Timers fire, handlers run, sockets deliver, and a node looks for peers  *)
(* as long as it has too few.  Nothing is assumed of faults, of new blocks *)
(* and of the choice of the peer.                                          *)
Fairness ==
  /\ WF_vars(Trigger) /\ WF_vars(BufferElapses) /\ WF_vars(Wake)
  /\ \A p \in Peer : WF_vars(Handle(p)) /\ WF_vars(Answer(p)) /\ WF_vars(Connect(p))
LiveSpec == Spec /\ Fairness

-----------------------------------------------------------------------------
\* Types of the variables; the chain on disk reaches the last final block,
\* and the final chain the block pool.
TypeOK ==
  /\ state \in {"CHAIN_SYNCING", "SERVING"}
  /\ {last, notarized, pool, disk} \subseteq -1..MaxBlock
  /\ last <= disk /\ last <= notarized /\ notarized <= pool
  /\ sync = NoPeer \/ (sync.peer \in Peer /\ sync.lastBlockNumber \in -2..MaxBlock)
  /\ outbound \subseteq Peer
  /\ \A p \in Peer : tip[p] \in 0..MaxBlock
  /\ InFlight <= MaxInFlight

\* A node that serves has every block that was final at one of its peers
\* when it started (node/index.js and p2p/index.js set SERVING, "Blockchain
\* Node is now synced!").
ServingIsSynced ==
  state = "SERVING" => \E p \in Peer : last >= FinalAfter(0, InitTip[p])

\* A final block stays final until the node restarts: an answer that comes
\* late, twice or from a former peer never takes the chain back
\* (handleChainSegment, mergeChainSegment).
NeverBack == [][last' >= last \/ Restart]_vars

\* The node gets every block that was final at a peer at the start
\* (CHAIN_SEGMENT_REQUEST in p2p/server.js).
CatchesUp == <>(\A p \in Peer : last >= FinalAfter(0, InitTip[p]))
=============================================================================
