---------------------------- MODULE ShardReports ----------------------------
(***************************************************************************)
(* How a shard reports the proof hashes of its final blocks to the parent  *)
(* chain.                                                                  *)
(*                                                                         *)
(* Every epoch the shard reporter (p2p/server.js reportShardProofHashes)   *)
(* asks the parent chain for the last block number that was reported and   *)
(* then sends one transaction with the proof hashes of the blocks above    *)
(* it.  The answers are awaited, so that several calls overlap.  On the    *)
(* parent chain a write rule checks every hash, a function keeps the       *)
(* latest block number, and the oldest reports are collected.              *)
(*                                                                         *)
(* A block stands for its proof hash.                                      *)
(***************************************************************************)
EXTENDS Integers, Sequences, SequencesExt

CONSTANTS
  Call,            \* bound: the calls of reportShardProofHashes that overlap
  MaxBlock,        \* bound: the last block of the shard
  Period,          \* sharding/reporting_period
  Limit,           \* resource/set_op_list_size_limit
  MaxReports,      \* sharding/max_shard_report
  NumDeleted,      \* sharding/num_shard_report_deleted
  Lightweight,     \* LIGHTWEIGHT when the shard was set up: any report is accepted
  MaxFaults        \* bound: transactions lost, requests unanswered, restarts

Idle == [at |-> "idle"]

ShardAssumption ==
  /\ {MaxBlock, Period, MaxFaults} \subseteq Nat
  /\ {Limit, MaxReports, NumDeleted} \subseteq Nat \ {0}
  /\ NumDeleted <= MaxReports
  /\ Lightweight \in BOOLEAN

VARIABLES
  last,     \* the last final block of the shard
  sent,     \* lastReportedBlockNumberSent
  busy,     \* isReportingShardProofHash
  calls,    \* calls[c]: how far a call of reportShardProofHashes has come
  txs,      \* the transactions under way to the parent chain
  latest,   \* latest_block_number on the parent chain
  reports,  \* the blocks in proof_hash_map, in the order they were added
  faults    \* how many faults there were

reporter == <<sent, busy, calls>>
parent == <<latest, reports>>
vars == <<last, reporter, txs, parent, faults>>

\* buildShardingSetupTxBody: latest_block_number is -1.
Init ==
  /\ last = 0 /\ sent = -1 /\ busy = FALSE
  /\ calls = [c \in Call |-> Idle]
  /\ txs = {}
  /\ latest = -1 /\ reports = <<>>
  /\ faults = 0

-----------------------------------------------------------------------------
(* The reporter                                                            *)

\* A block of the shard becomes final.
Finalize ==
  /\ last < MaxBlock
  /\ last' = last + 1
  /\ UNCHANGED <<reporter, txs, parent, faults>>

IsTooEarly == last < sent + Period

\* The interval: the last final block is read and the parent chain is asked.
Ask(c) ==
  /\ calls[c] = Idle /\ ~IsTooEarly
  /\ calls' = [calls EXCEPT ![c] = [at |-> "asking", last |-> last]]
  /\ UNCHANGED <<last, sent, busy, txs, parent, faults>>

\* getLastReportedBlockNumber
Reply(c) ==
  /\ calls[c].at = "asking"
  /\ calls' = [calls EXCEPT ![c] = [at |-> "answered", last |-> @.last, confirmed |-> latest]]
  /\ UNCHANGED <<last, sent, busy, txs, parent, faults>>

NoReply(c) ==
  /\ calls[c].at = "asking" /\ faults < MaxFaults
  /\ faults' = faults + 1
  /\ calls' = [calls EXCEPT ![c] = Idle]
  /\ UNCHANGED <<last, sent, busy, txs, parent>>

\* A report that starts behind what was sent instead of what was confirmed
AfterSent(call) == [from |-> sent + 1, to |-> Min({call.last, sent + Limit})]

\* A report up to the limit, final or not
UpToLimit(call) == [from |-> call.confirmed + 1, to |-> call.confirmed + Limit]

\* The blocks above the confirmed one, up to the last final block that the
\* call has read and to the limit of a transaction.
ToReport(call) ==
  [from |-> call.confirmed + 1, to |-> Min({call.last, call.confirmed + Limit})]

\* The answer is there: one call at a time sends a transaction.
Report(c) ==
  /\ calls[c].at = "answered"
  /\ LET tx == ToReport(calls[c])
         begins == ~busy /\ tx.from <= tx.to
     IN  /\ sent' = IF begins THEN tx.to ELSE sent
         /\ txs' = IF begins THEN txs \cup {tx} ELSE txs
         /\ busy' = (busy \/ begins)
         /\ calls' = [calls EXCEPT ![c] = IF begins THEN [at |-> "sending"] ELSE Idle]
  /\ UNCHANGED <<last, parent, faults>>

\* signAndSendTx returns or throws.
Done(c) ==
  /\ calls[c].at = "sending"
  /\ calls' = [calls EXCEPT ![c] = Idle]
  /\ busy' = FALSE
  /\ UNCHANGED <<last, sent, txs, parent, faults>>

Restart ==
  /\ faults < MaxFaults
  /\ faults' = faults + 1
  /\ sent' = -1 /\ busy' = FALSE
  /\ calls' = [c \in Call |-> Idle]
  /\ UNCHANGED <<last, txs, parent>>

-----------------------------------------------------------------------------
(* The parent chain                                                        *)

Here == [ok |-> TRUE, latest |-> latest, reports |-> reports]

\* A rule that only looks at who writes
IsReporter(b, s) == TRUE

\* The write rule of proof_hash for the shard reporter: the block after the
\* latest one, or a hash that is there already.
IsPermitted(b, s) == Lightweight \/ b = s.latest + 1 \/ Contains(s.reports, b)

\* A collection that takes the newest reports
WithoutNewest(list) == IF Len(list) > MaxReports THEN SubSeq(list, 1, Len(list) - NumDeleted) ELSE list

\* applyStateGarbageCollectionRule: the first children are deleted.
Collected(list) == IF Len(list) > MaxReports THEN SubSeq(list, NumDeleted + 1, Len(list)) ELSE list

\* An operation of the transaction: write the hash, call
\* _updateLatestShardReport, collect the oldest reports.
Write(s, b) ==
  IF ~s.ok \/ ~IsPermitted(b, s) THEN [s EXCEPT !.ok = FALSE]
  ELSE [ok |-> TRUE, latest |-> Max({s.latest, b}),
        reports |-> Collected(IF Contains(s.reports, b) THEN s.reports ELSE Append(s.reports, b))]

\* The blocks that a transaction reports, one operation after the other
BlocksOf(tx) == [i \in 1..(tx.to - tx.from + 1) |-> tx.from + i - 1]

\* The transaction is executed in a block; when one operation fails, all are
\* undone.
Execute(tx) ==
  /\ tx \in txs
  /\ txs' = txs \ {tx}
  /\ LET after == FoldLeft(Write, Here, BlocksOf(tx))
     IN  IF after.ok THEN latest' = after.latest /\ reports' = after.reports
         ELSE UNCHANGED parent
  /\ UNCHANGED <<last, reporter, faults>>

\* It never gets into a block.  (The shard goes on for a period, so that the
\* bound MaxBlock is not what keeps the blocks from being reported again.)
Lose(tx) ==
  /\ tx \in txs /\ faults < MaxFaults /\ last + Period <= MaxBlock
  /\ faults' = faults + 1
  /\ txs' = txs \ {tx}
  /\ UNCHANGED <<last, reporter, parent>>

-----------------------------------------------------------------------------
Next ==
  \/ Finalize \/ Restart
  \/ \E c \in Call : Ask(c) \/ Reply(c) \/ NoReply(c) \/ Report(c) \/ Done(c)
  \/ \E tx \in txs : Execute(tx) \/ Lose(tx)

Spec == Init /\ [][Next]_vars

(* The shard goes on, the interval fires, requests are answered and a      *)
(* transaction gets into a block unless it is lost.                        *)
Fairness ==
  /\ WF_vars(Finalize)
  /\ \A c \in Call : WF_vars(Ask(c)) /\ WF_vars(Reply(c)) /\ WF_vars(Report(c)) /\ WF_vars(Done(c))
  /\ WF_vars(\E tx \in txs : Execute(tx))

LiveSpec == Spec /\ Fairness

-----------------------------------------------------------------------------
\* Types of the variables; nothing is reported or sent that is not final, and
\* at most one call is sending.
TypeOK ==
  /\ last \in 0..MaxBlock /\ sent \in -1..last /\ latest \in -1..last
  /\ \A tx \in txs : tx.from \in 0..tx.to /\ tx.to <= last
  /\ ToSet(reports) \subseteq 0..latest
  /\ \A c \in Call : calls[c].at \in {"idle", "asking", "answered", "sending"}
  /\ \A c, d \in Call : calls[c].at = "sending" /\ calls[d].at = "sending" => c = d
  /\ (busy <=> \E c \in Call : calls[c].at = "sending")

\* The parent chain has the reports of the newest blocks, one after the other
\* up to latest_block_number: calls that overlap, transactions that are lost
\* or late and restarts leave no gap (reportShardProofHashes, the write rule
\* of buildShardingSetupTxBody; test/integration/sharding.test.js expects
\* consecutive block numbers).
ReportsAreConsecutive ==
  \A i \in DOMAIN reports : reports[i] = latest - Len(reports) + i

\* A report never makes the latest block number smaller, and the newest block
\* keeps its report (_updateLatestShardReport, the garbage collection).
LatestIsReported == [][latest' >= latest /\ (latest' >= 0 => Contains(reports', latest'))]_vars

\* All blocks but those of the last period are reported in the end, whatever
\* was lost (reportShardProofHashes asks for what is confirmed).
EveryBlockIsReported == <>(latest > MaxBlock - Period)
=============================================================================
