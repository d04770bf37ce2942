---------------------------- MODULE StateVersions ----------------------------
(***************************************************************************)
(* The versions of the state that a node holds: db/state-manager.js, the   *)
(* part of db/index.js that creates, backs up, restores and destroys a     *)
(* database, and the callers that decide which version a database starts   *)
(* from and when it goes (node/index.js, consensus/index.js,               *)
(* block-pool/index.js).                                                   *)
(*                                                                         *)
(* A version is a name in rootMap.  Deleting one that a database still     *)
(* reads, or the final one, would take the state away under a running      *)
(* node; not deleting one keeps a whole state tree in memory.  The code    *)
(* logs an error and goes on when a name is missing or taken, and so do    *)
(* the operators here.                                                     *)
(*                                                                         *)
(* All of it is synchronous, so a callback (task) is not interrupted, but  *)
(* callbacks come in any order.  That a version is a value of its own,     *)
(* which no write to another one changes, is the business of the tree.     *)
(***************************************************************************)
EXTENDS BlockTree

CONSTANTS
  Tx,     \* transactions
  TempId, \* the indices that createUniqueVersionName tries, bounded for TLC
  Blamed  \* blocks that get a vote against them, although they may be valid

ASSUME TempIdIsAssumed == TempId \subseteq Nat
ASSUME BlamedIsAssumed == Blamed \subseteq Block

(***************************************************************************)
(* Names: EMPTY and START (StateVersions in common/constants.js), FINAL:n, *)
(* NODE:n of the front db, and the unique ones of all other databases: what*)
(* they are for, the number of a block, an index.                          *)
(* None is a db's stateVersion or backupStateVersion when it is null.      *)
(***************************************************************************)
None       == <<"none", 0, 0>>
Empty      == <<"EMPTY", 0, 0>>
Start      == <<"START", 0, 0>>
FinalOf(n) == <<"FINAL", n, 0>>
NodeOf(n)  == <<"NODE", n, 0>>
Prefix     == {"block", "scratch", "copy", "backup", "restored"}
TempName   == Prefix \X Nat \X TempId
Name       == {Empty, Start} \cup TempName \cup {"FINAL", "NODE"} \X (Nat \cup {-1}) \X {0}

\* What a state holds: the blocks executed to get it, and of the transactions
\* executed since, everything or only the fee.
Effect == Tx \X {"all", "fee"}
Content == [blocks : SUBSET Block, txs : SUBSET Effect]
Nothing == [blocks |-> {}, txs |-> {}]
StateAfter(b) == [blocks |-> Chain[b], txs |-> {}]

\* A database, reduced to the versions that it owns.
Db == [ver : Name \cup {None}, backup : Name \cup {None}]
Closed == [ver |-> None, backup |-> None]
Opened(v) == [ver |-> v, backup |-> None]

(***************************************************************************)
(* The databases: node.db, hashToDb, the temporary one that a task works   *)
(* on, and the temporary copy of that one (the backupDb of                 *)
(* getOffensesAndEvidence, the tempDb of executeProposalTx and             *)
(* getValidTransactions).                                                  *)
(***************************************************************************)
Front     == <<"front", Root>>
Work      == <<"work", Root>>
Spare     == <<"spare", Root>>
PoolDb(b) == <<"pool", b>>
Handle    == {Front, Work, Spare} \cup {"pool"} \X Block

VARIABLES
  roots,    \* stateManager.rootMap, from version to content
  final,    \* stateManager.finalVersion
  db,       \* the databases
  last,     \* bc.lastBlock(), or the genesis block that is to be executed
  phase,    \* "genesis": nothing executed; "loaded": a snapshot; "running"
  task,     \* the callback: "idle", "block", "scratch" or "finalizing"
  block,    \* the block that the task "block" validates, else Root
  running,  \* the transaction being executed and its database, if any
  applied   \* what a client was told of node.db since last became final

vars == <<roots, final, db, last, phase, task, block, running, applied>>

Owned(h) == {db[h].ver, db[h].backup} \ {None}
IsOpen(h) == db[h].ver # None

-----------------------------------------------------------------------------
(* StateManager.                                                           *)

CanClone(r, v, w) == v \in DOMAIN r /\ w \notin DOMAIN r

\* cloneVersion, which does nothing if it cannot.
Clone(r, v, w) ==
  IF CanClone(r, v, w)
  THEN [x \in DOMAIN r \cup {w} |-> IF x = w THEN r[v] ELSE r[x]]
  ELSE r

\* deleteVersion, for every version of S: the final one is kept.
Delete(r, f, S) == [x \in DOMAIN r \ (S \ {f}) |-> r[x]]

\* finalizeVersion.
FinalAfter(r, f, v) == IF v \in DOMAIN r THEN v ELSE f

\* createUniqueVersionName: the first index that gives a new name.  The time
\* in the name only makes for more of them.
Unused(taken, prefix, n) ==
  {v \in ({prefix} \X {n} \X TempId) \ taken :
     \A i \in TempId : i < v[3] => <<prefix, n, i>> \in taken}

\* lastBlockNumber() of the database h.
NumberOf(h) == IF h = Front THEN Number[last] ELSE Number[block]

-----------------------------------------------------------------------------
(* DB.                                                                     *)

\* setStateVersion, and setBackupStateVersion with the two fields swapped.
Refuses(d, v) == v \in {d.ver, d.backup}
RootsAfterSet(r, f, d, v) == IF Refuses(d, v) THEN r ELSE Delete(r, f, {d.ver})
DbAfterSet(d, v) == IF Refuses(d, v) THEN d ELSE [d EXCEPT !.ver = v]
RootsAfterSetBackup(r, f, d, v) == IF Refuses(d, v) THEN r ELSE Delete(r, f, {d.backup})
DbAfterSetBackup(d, v) == IF Refuses(d, v) THEN d ELSE [d EXCEPT !.backup = v]

\* What a transaction leaves in version v.
Written(r, v, e) == [r EXCEPT ![v].txs = @ \cup {e}]

\* A mutant for the runs: the backup is dropped, and not copied back.
BackupDropped(h, v) ==
  [roots |-> Delete(roots, final, {db[h].backup}),
   final |-> final,
   db    |-> [db[h] EXCEPT !.backup = None]]

(***************************************************************************)
(* restoreDb of database h, which leaves the contents of the backup in a   *)
(* new version v.  It does nothing if there is no backup.                  *)
(***************************************************************************)
Restored(h, v) ==
  LET d      == db[h]
      cloned == Clone(roots, d.backup, v)
      f      == IF d.ver = final THEN FinalAfter(cloned, final, v) ELSE final
      moved  == DbAfterSet(d, v)
  IN  IF CanClone(roots, d.backup, v)
      THEN [roots |-> Delete(RootsAfterSet(cloned, f, d, v), f, {moved.backup}),
            final |-> f,
            db    |-> [moved EXCEPT !.backup = None]]
      ELSE [roots |-> roots, final |-> final, db |-> d]

-----------------------------------------------------------------------------
(* The constructor of BlockchainNode and the start of startNode.           *)

Common ==
  /\ last = Root
  /\ task = "idle" /\ block = Root
  /\ running = {} /\ applied = {}

\* Without a snapshot, START is final, and the genesis block is to be executed.
InitFresh ==
  /\ Number[Root] = 0
  /\ phase = "genesis"
  /\ roots = [v \in {Empty, Start, NodeOf(-1)} |-> Nothing]
  /\ final = Start
  /\ db = [h \in Handle |-> IF h = Front THEN Opened(NodeOf(-1)) ELSE Closed]
  /\ Common

(***************************************************************************)
(* resetDbWithSnapshot, and loadAndExecuteChainOnDb for the block of the   *)
(* snapshot.  START is not deleted, because it is final when the database  *)
(* leaves it, nor is it final afterwards.                                  *)
(***************************************************************************)
InitLoaded ==
  /\ phase = "loaded"
  /\ final = FinalOf(Number[Root])
  /\ \E v \in Unused({}, "block", Number[Root]) :
       /\ roots = [x \in {Empty, Start, NodeOf(-1), final, v} |->
                     IF x \in {final, v} THEN StateAfter(Root) ELSE Nothing]
       /\ db = [h \in Handle |-> CASE h = Front -> Opened(NodeOf(-1))
                                   [] h = PoolDb(Root) -> Opened(v)
                                   [] OTHER -> Closed]
  /\ Common

Init == InitFresh \/ InitLoaded

-----------------------------------------------------------------------------
(* Transactions (DB.executeTransaction).                                   *)

\* A mutant for the runs: on whatever database is open.
ExecutesOnAny(h) == IsOpen(h)

\* The database that the transactions of a task are executed on.
Executes(h) == \/ h = Front /\ task \in {"idle", "finalizing"}
               \/ h = Work /\ task \in {"block", "scratch"}

\* precheckTransaction: a transaction that is in the state has used up its nonce.
HasNonceOf(h, t) == \A e \in roots[db[h].ver].txs : e[1] # t

\* backupDb, and the operation.
Begin(h, t) ==
  /\ running = {} /\ Executes(h)
  /\ HasNonceOf(h, t)
  /\ \E v \in Unused(DOMAIN roots, "backup", NumberOf(h)) :
       LET cloned == Clone(roots, db[h].ver, v)
       IN  /\ CanClone(roots, db[h].ver, v)
           /\ roots' = Written(RootsAfterSetBackup(cloned, final, db[h], v),
                               db[h].ver, <<t, "all">>)
           /\ db' = [db EXCEPT ![h] = DbAfterSetBackup(@, v)]
  /\ running' = {<<h, t>>}
  /\ UNCHANGED <<final, last, phase, task, block, applied>>

Report(h, e) == applied' = IF h = Front THEN applied \cup {e} ELSE applied

\* deleteBackupStateVersion.
Succeed(h, t) ==
  /\ <<h, t>> \in running
  /\ roots' = Delete(roots, final, {db[h].backup})
  /\ db' = [db EXCEPT ![h] = [@ EXCEPT !.backup = None]]
  /\ running' = {}
  /\ Report(h, <<t, "all">>)
  /\ UNCHANGED <<final, last, phase, task, block>>

\* restoreDb.
Fail(h, t) ==
  /\ <<h, t>> \in running
  /\ \E v \in Unused(DOMAIN roots, "restored", NumberOf(h)) :
       LET r == Restored(h, v)
       IN  /\ roots' = r.roots
           /\ final' = r.final
           /\ db' = [db EXCEPT ![h] = r.db]
  /\ running' = {}
  /\ UNCHANGED <<last, phase, task, block, applied>>

(***************************************************************************)
(* The balance does not cover the fee after the operation: collectFee      *)
(* restores the database and collects what there is.  The second restoreDb *)
(* in executeTransaction finds no backup, so the fee stays.                *)
(***************************************************************************)
FailOnFee(h, t) ==
  /\ <<h, t>> \in running
  /\ \E v \in Unused(DOMAIN roots, "restored", NumberOf(h)) :
       LET r == Restored(h, v)
       IN  /\ roots' = Written(r.roots, r.db.ver, <<t, "fee">>)
           /\ final' = r.final
           /\ db' = [db EXCEPT ![h] = r.db]
  /\ running' = {}
  /\ Report(h, <<t, "fee">>)
  /\ UNCHANGED <<last, phase, task, block>>

\* Without restoreIfFails: the votes in a block, and what is only tried out on
\* a database that is destroyed at once.
ExecuteUnsaved(h, t) ==
  /\ running = {} /\ h \in {Work, Spare} /\ IsOpen(h)
  /\ HasNonceOf(h, t)
  /\ roots' = Written(roots, db[h].ver, <<t, "all">>)
  /\ UNCHANGED <<final, db, last, phase, task, block, running, applied>>

-----------------------------------------------------------------------------
(* Temporary databases.                                                    *)

\* createTempDb, into handle h.
Create(h, base, prefix, n) ==
  \E v \in Unused(DOMAIN roots, prefix, n) :
    /\ CanClone(roots, base, v)
    /\ roots' = Clone(roots, base, v)
    /\ db' = [db EXCEPT ![h] = Opened(v)]

\* destroyDb.
Destroy(h) ==
  /\ roots' = Delete(roots, final, Owned(h))
  /\ db' = [db EXCEPT ![h] = Closed]

\* getBaseStateVersion: the final version stands for the predecessor whenever
\* the last block has its number, whatever its hash.
BaseVersion(b) ==
  IF phase = "genesis" \/ Number[b] = Number[last] + 1
  THEN final ELSE db[PoolDb(Parent[b])].ver

\* validateAndExecuteBlockOnDb of a block that was not seen.
OpenForBlock(b) ==
  /\ task = "idle" /\ running = {} /\ ~IsOpen(PoolDb(b))
  /\ IF phase = "genesis" THEN b = Root ELSE b # Root
  /\ Create(Work, BaseVersion(b), "block", Number[b])
  /\ task' = "block" /\ block' = b
  /\ UNCHANGED <<final, last, phase, running, applied>>

\* createProposal, checkVoteTx and getValidTransactions: a database that is
\* destroyed again, from the final version, that of a block, or node.db.
OpenScratch(base) ==
  /\ task = "idle" /\ running = {}
  /\ base \in {final, db[Front].ver} \cup {db[PoolDb(b)].ver : b \in Block}
  /\ Create(Work, base, "scratch", Number[last])
  /\ task' = "scratch"
  /\ UNCHANGED <<final, last, phase, block, running, applied>>

\* A copy of the database of the task.
OpenSpare(h) ==
  /\ task # "idle" /\ running = {} /\ Executes(h) /\ ~IsOpen(Spare)
  /\ Create(Spare, db[h].ver, "copy", Number[last])
  /\ UNCHANGED <<final, last, phase, task, block, running, applied>>

CloseSpare ==
  /\ running = {} /\ IsOpen(Spare)
  /\ Destroy(Spare)
  /\ UNCHANGED <<final, last, phase, task, block, running, applied>>

\* getOffensesAndEvidence goes back to the copy, and makes another one.
RollBack ==
  /\ task = "scratch" /\ running = {} /\ IsOpen(Spare)
  /\ \E v \in Unused(DOMAIN roots, "copy", Number[last]) :
       LET copied == Clone(roots, db[Spare].ver, v)
           moved  == Delete(RootsAfterSet(copied, final, db[Work], v), final, Owned(Spare))
           work   == DbAfterSet(db[Work], v)
       IN  /\ CanClone(roots, db[Spare].ver, v)
           /\ \E w \in Unused(DOMAIN moved, "copy", Number[last]) :
                /\ CanClone(moved, work.ver, w)
                /\ roots' = Clone(moved, work.ver, w)
                /\ db' = [db EXCEPT ![Work] = work, ![Spare] = Opened(w)]
  /\ UNCHANGED <<final, last, phase, task, block, running, applied>>

\* destroyDb at the end of a task, or when a check of the block throws.
Discard ==
  /\ task \in {"block", "scratch"} /\ running = {} /\ ~IsOpen(Spare)
  /\ Destroy(Work)
  /\ task' = "idle" /\ block' = Root
  /\ UNCHANGED <<final, last, phase, running, applied>>

\* A mutant for the runs: no check of the state proof hash.
HashUnchecked == TRUE

(***************************************************************************)
(* All of the block has been executed: addToHashToDbMap.  The state is     *)
(* that of the block only if it was executed on its predecessor, which     *)
(* validateStateProofHash checks.                                          *)
(***************************************************************************)
HashMatches == roots[db[Work].ver].blocks \cup {block} = Chain[block]

Accept ==
  /\ task = "block" /\ running = {} /\ ~IsOpen(Spare)
  /\ HashMatches
  /\ roots' = [roots EXCEPT ![db[Work].ver] = [blocks |-> @.blocks \cup {block}, txs |-> {}]]
  /\ db' = [db EXCEPT ![Work] = Closed, ![PoolDb(block)] = db[Work]]
  /\ task' = "idle" /\ block' = Root
  /\ UNCHANGED <<final, last, phase, running, applied>>

-----------------------------------------------------------------------------
(* Finalization.                                                           *)

\* A mutant for the runs: node.db works on the final version itself.
SyncFrontToFinal(r, f, v) ==
  [roots |-> RootsAfterSet(r, f, db[Front], f), final |-> f, db |-> DbAfterSet(db[Front], f)]

\* syncDbAndNonce on the versions r: setStateVersion even if nothing was cloned.
SyncFront(r, f, v) ==
  IF v = db[Front].ver
  THEN [roots |-> r, final |-> f, db |-> db[Front]]
  ELSE [roots |-> RootsAfterSet(Clone(r, f, v), f, db[Front], v),
        final |-> f,
        db    |-> DbAfterSet(db[Front], v)]

\* Mutants for the runs: the version of the block itself becomes final; the
\* previous final version is deleted before there is another one.
FinalizeInPlace(v, n) == SyncFront(Delete(roots, v, {final}), v, NodeOf(n))
DeleteBeforeFinalizing(v, n) ==
  LET cloned == Clone(Delete(roots, final, {final}), v, FinalOf(n))
  IN  SyncFront(cloned, FinalAfter(cloned, final, FinalOf(n)), NodeOf(n))

\* cloneAndFinalizeVersion.
CloneAndFinalize(v, n) ==
  LET cloned == Clone(roots, v, FinalOf(n))
      f      == FinalAfter(cloned, final, FinalOf(n))
  IN  IF CanClone(roots, v, FinalOf(n))
      THEN SyncFront(Delete(cloned, f, {final}), f, NodeOf(n))
      ELSE [roots |-> roots, final |-> final, db |-> db[Front]]

\* One round of tryFinalizeChain, or the genesis block in loadAndExecuteChainOnDb.
\* That the block has a db is StateFollowsChain of OneNode.tla.
FinalizeBlock(b) ==
  /\ task \in {"idle", "finalizing"} /\ running = {} /\ ~IsOpen(Spare)
  /\ IF phase = "genesis" THEN b = Root ELSE b # Root /\ Parent[b] = last
  /\ IsOpen(PoolDb(b))
  /\ LET r == CloneAndFinalize(db[PoolDb(b)].ver, Number[b])
     IN  /\ roots' = r.roots
         /\ final' = r.final
         /\ db' = [db EXCEPT ![Front] = r.db]
  /\ last' = b
  /\ phase' = "running"
  /\ task' = IF phase = "genesis" THEN "idle" ELSE "finalizing"
  /\ applied' = {}
  /\ UNCHANGED <<block, running>>

LowerBlocks == {b \in Block : Number[b] < Number[last]}

(***************************************************************************)
(* cleanUpAfterFinalization: the databases of blocks with a lower number   *)
(* and of those of an earlier epoch that epochToBlock holds.  A block that *)
(* has a vote against it is in hashToInvalidBlockInfo and may stay.        *)
(***************************************************************************)
CleanUp(gone) ==
  /\ task = "finalizing" /\ running = {} /\ ~IsOpen(Spare)
  /\ LowerBlocks \ Blamed \subseteq gone
  /\ \A b \in gone \ LowerBlocks : Epoch[b] < Epoch[last]
  /\ roots' = Delete(roots, final, UNION {Owned(PoolDb(b)) : b \in gone})
  /\ db' = [h \in Handle |-> IF h \in {PoolDb(b) : b \in gone} THEN Closed ELSE db[h]]
  /\ task' = "idle"
  /\ UNCHANGED <<final, last, phase, block, running, applied>>

Next ==
  \/ \E h \in Handle, t \in Tx : \/ Begin(h, t) \/ Succeed(h, t)
                                \/ Fail(h, t) \/ FailOnFee(h, t)
                                \/ ExecuteUnsaved(h, t)
  \/ \E b \in Block : OpenForBlock(b) \/ FinalizeBlock(b)
  \/ \E v \in DOMAIN roots : OpenScratch(v)
  \/ \E h \in {Front, Work} : OpenSpare(h)
  \/ CloseSpare \/ RollBack \/ Discard \/ Accept
  \/ \E gone \in SUBSET Block : CleanUp(gone)

Spec == Init /\ [][Next]_vars

-----------------------------------------------------------------------------
TypeOK ==
  /\ DOMAIN roots \subseteq Name
  /\ \A v \in DOMAIN roots : roots[v] \in Content
  /\ final \in Name
  /\ db \in [Handle -> Db]
  /\ last \in Block /\ block \in Block
  /\ phase \in {"genesis", "loaded", "running"}
  /\ task \in {"idle", "block", "scratch", "finalizing"}
  /\ running \subseteq {Front, Work} \X Tx
  /\ applied \subseteq Effect

(***************************************************************************)
(* There always is a final version, and it holds the state of the last     *)
(* block with nothing on top (cloneAndFinalizeVersion, isFinalVersion in   *)
(* setStateVersion and restoreDb): what a proposer or a validator builds   *)
(* on is the chain.                                                        *)
(***************************************************************************)
FinalIsOfLastBlock ==
  /\ final \in DOMAIN roots
  /\ roots[final] = IF phase = "genesis" THEN Nothing ELSE StateAfter(last)

(***************************************************************************)
(* A database in hashToDb keeps the state after its block, whatever is     *)
(* executed on its copies, and whichever version it was executed on        *)
(* (getBaseStateVersion asks for the number of the predecessor only).      *)
(***************************************************************************)
PoolIsExact ==
  \A b \in Block : IsOpen(PoolDb(b)) =>
    db[PoolDb(b)].ver \in DOMAIN roots /\ roots[db[PoolDb(b)].ver] = StateAfter(b)

(***************************************************************************)
(* No version is deleted under a database that reads it, because no two    *)
(* databases own the same one, and none owns the final or the empty one    *)
(* (setStateVersion, deleteVersion, destroyDb).                            *)
(***************************************************************************)
NothingIsShared ==
  \A h \in Handle :
    /\ Owned(h) \subseteq DOMAIN roots \ {final, Empty, Start}
    /\ \A g \in Handle \ {h} : Owned(g) \cap Owned(h) = {}
    /\ db[h].ver = db[h].backup => ~IsOpen(h)

(***************************************************************************)
(* A transaction that fails leaves no trace in node.db but the fee, where  *)
(* one was collected after the failure; one that succeeded stays until the *)
(* next block becomes final (backupDb, restoreDb, collectFee,              *)
(* syncDbAndNonce).                                                        *)
(***************************************************************************)
FrontIsAsReported ==
  running = {} =>
    /\ IsOpen(Front)
    /\ db[Front].ver \in DOMAIN roots
    /\ roots[db[Front].ver] =
         [blocks |-> IF phase = "running" THEN Chain[last] ELSE {}, txs |-> applied]

\* The databases that a clean-up closes and no task opens again.
LowerAreClosed == \A b \in LowerBlocks : Chain[b] \cap Blamed = {} => ~IsOpen(PoolDb(b))

(***************************************************************************)
(* Nothing leaks: every version is owned by a database or final, but for   *)
(* EMPTY and START, and a task that ends leaves no database behind, nor a  *)
(* finalization those of lower blocks, which nobody can build on again,    *)
(* but on a branch with a vote against it (destroyDb,                      *)
(* cleanUpAfterFinalization, getBaseStateVersion).                         *)
(***************************************************************************)
NothingLeaks ==
  /\ DOMAIN roots \subseteq {Empty, Start, final} \cup UNION {Owned(h) : h \in Handle}
  /\ task = "idle" => ~IsOpen(Work) /\ ~IsOpen(Spare) /\ LowerAreClosed
  /\ running = {} => \A h \in Handle : db[h].backup = None

-----------------------------------------------------------------------------
(* The inductive invariant: the above in terms of single versions, and the *)
(* names and the control on which it rests.                                *)

\* A database owns versions that exist, and no one else does.
Owns ==
  \A h \in Handle : \A v \in Owned(h) :
    /\ v \in DOMAIN roots /\ v \notin {final, Empty, Start}
    /\ \A g \in Handle : g # h => v # db[g].ver /\ v # db[g].backup
    /\ db[h].ver # db[h].backup

\* FINAL:n and NODE:n are names of the last block, so the next ones are new.
FrontName == NodeOf(IF phase = "running" THEN Number[last] ELSE -1)

Named ==
  /\ final = IF phase = "genesis" THEN Start ELSE FinalOf(Number[last])
  /\ \A h \in Handle : /\ db[h].ver \in TempName \cup {None} \cup (IF h = Front THEN {FrontName} ELSE {})
                       /\ db[h].backup \in TempName \cup {None}
  /\ \A v \in DOMAIN roots :
       v \in {Empty, Start, final} \/ \E h \in Handle : v \in {db[h].ver, db[h].backup}

FrontBlocks == IF phase = "running" THEN Chain[last] ELSE {}

\* What is on node.db, and in its backup while a transaction runs on it.
FrontHolds ==
  /\ IsOpen(Front)
  /\ db[Front].backup = None =>
       roots[db[Front].ver] = [blocks |-> FrontBlocks, txs |-> applied]
  /\ db[Front].backup # None =>
       /\ roots[db[Front].backup] = [blocks |-> FrontBlocks, txs |-> applied]
       /\ \E t \in Tx : /\ <<Front, t>> \in running
                        /\ roots[db[Front].ver] =
                             [blocks |-> FrontBlocks, txs |-> applied \cup {<<t, "all">>}]

Control ==
  /\ running = {} \/ \E h \in {Front, Work}, t \in Tx : running = {<<h, t>>} /\ Executes(h)
  /\ \A h \in Handle : db[h].backup # None <=> \E t \in Tx : <<h, t>> \in running
  /\ task \in {"block", "scratch"} <=> IsOpen(Work)
  /\ task = "idle" => ~IsOpen(Spare)
  /\ task = "block" => ~IsOpen(PoolDb(block))
                       /\ (block \in LowerBlocks => Chain[block] \cap Blamed # {})
  /\ task # "finalizing" => LowerAreClosed
  /\ phase = "genesis" => last = Root

IInv == /\ TypeOK /\ FinalIsOfLastBlock /\ PoolIsExact
        /\ Owns /\ Named /\ FrontHolds /\ Control
=============================================================================
