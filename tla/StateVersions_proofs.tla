------------------------ MODULE StateVersions_proofs ------------------------
(***************************************************************************)
(* The proofs about StateVersions: for every block tree, whatever tasks    *)
(* come in whatever order, the final version exists and is the state of    *)
(* the last block, no version is deleted under a database, and none leaks. *)
(***************************************************************************)
EXTENDS StateVersions, TLAPS

\* What is proved of chains next to the abstract specification, of which only
\* the tree matters for that.
Trees == INSTANCE ChainFinality_proofs
           WITH Node <- {}, Quorum <- {}, votes <- {}, final <- {}

\* Numbers and epochs grow along a chain, which has one block of every number.
LEMMA ChainsAreOrdered == ChainIsOrdered
<1>1. Trees!TreeAssumption
  BY TreeIsAssumed DEF TreeAssumption, Trees!TreeAssumption
<1>2. Trees!QuorumAssumption
  BY DEF Trees!QuorumAssumption
<1>3. Trees!ChainIsOrdered
  BY <1>1, <1>2, Trees!ChainsAreOrdered
<1> QED BY <1>3 DEF ChainIsOrdered, Trees!ChainIsOrdered

\* Handles are told apart by their first component, those of the pool by the block.
LEMMA Handles ==
  /\ Front \in Handle /\ Work \in Handle /\ Spare \in Handle
  /\ \A b \in Block : PoolDb(b) \in Handle
  /\ Front # Work /\ Front # Spare /\ Work # Spare
  /\ \A b \in Block : PoolDb(b) \notin {Front, Work, Spare}
  /\ \A a, b \in Block : PoolDb(a) = PoolDb(b) => a = b
  /\ \A h \in Handle : h \in {Front, Work, Spare} \/ \E b \in Block : h = PoolDb(b)
BY DEF Handle, Front, Work, Spare, PoolDb

\* Names of different kinds are different, and so are numbered ones by number.
LEMMA Names ==
  /\ None \notin Name
  /\ Empty \in Name /\ Start \in Name /\ Empty # Start
  /\ TempName \subseteq Name /\ Empty \notin TempName /\ Start \notin TempName
  /\ \A n \in Nat : FinalOf(n) \in Name
  /\ \A n \in Nat \cup {-1} : NodeOf(n) \in Name
  /\ \A n \in Int : /\ FinalOf(n) \notin TempName \cup {Empty, Start, None}
                    /\ NodeOf(n) \notin TempName \cup {Empty, Start, None}
  /\ \A m, n \in Int : /\ FinalOf(m) # NodeOf(n)
                       /\ FinalOf(m) = FinalOf(n) => m = n
                       /\ NodeOf(m) = NodeOf(n) => m = n
  /\ None \notin TempName
BY DEF None, Name, Empty, Start, TempName, Prefix, FinalOf, NodeOf

\* cloneVersion adds the new version with the content of the old one.
LEMMA Cloning ==
  ASSUME NEW r, NEW v, NEW w, CanClone(r, v, w)
  PROVE  /\ DOMAIN Clone(r, v, w) = DOMAIN r \cup {w}
         /\ Clone(r, v, w)[w] = r[v]
         /\ \A x \in DOMAIN r : Clone(r, v, w)[x] = r[x]
         /\ w \notin DOMAIN r /\ v \in DOMAIN r
BY DEF CanClone, Clone

\* deleteVersion takes away the versions it is given, but never the final one.
LEMMA Deleting ==
  ASSUME NEW r, NEW f, NEW S
  PROVE  /\ DOMAIN Delete(r, f, S) = DOMAIN r \ (S \ {f})
         /\ \A x \in DOMAIN Delete(r, f, S) : Delete(r, f, S)[x] = r[x]
BY DEF Delete

\* There is nothing to delete where there is no version.
LEMMA DeletingNone ==
  ASSUME NEW r, NEW f, None \notin DOMAIN r
  PROVE  /\ DOMAIN Delete(r, f, {None}) = DOMAIN r
         /\ \A x \in DOMAIN r : Delete(r, f, {None})[x] = r[x]
BY DEF Delete

\* A write changes the content of one version.
LEMMA Writing ==
  ASSUME NEW r, NEW v \in DOMAIN r, NEW e,
         \A x \in DOMAIN r : r[x] \in Content, e \in Effect
  PROVE  /\ DOMAIN Written(r, v, e) = DOMAIN r
         /\ Written(r, v, e)[v] = [blocks |-> r[v].blocks, txs |-> r[v].txs \cup {e}]
         /\ \A x \in DOMAIN r \ {v} : Written(r, v, e)[x] = r[x]
         /\ Written(r, v, e)[v] \in Content
BY DEF Written, Content

\* A new name is a name of a temporary version that does not exist.
LEMMA Fresh ==
  ASSUME NEW taken, NEW prefix \in Prefix, NEW n \in Nat, NEW v \in Unused(taken, prefix, n)
  PROVE  v \in TempName /\ v \notin taken
BY DEF Unused, TempName

-----------------------------------------------------------------------------
(* What the invariant says of a single database.                           *)

\* Types in the form in which the steps use them.
LEMMA Types ==
  ASSUME IInv
  PROVE  /\ \A h \in Handle : /\ db[h] = [ver |-> db[h].ver, backup |-> db[h].backup]
                              /\ db[h].ver \in Name \cup {None}
                              /\ db[h].backup \in Name \cup {None}
         /\ DOMAIN db = Handle
         /\ None \notin DOMAIN roots
         /\ \A v \in DOMAIN roots : roots[v] \in Content
         /\ Number[last] \in Nat /\ Number[block] \in Nat
         /\ \A h \in Handle : NumberOf(h) \in Nat
BY Names, TreeIsAssumed DEF IInv, TypeOK, Db, NumberOf, TreeAssumption

\* The versions of an open database.
LEMMA OpenDbs ==
  ASSUME IInv, NEW h \in Handle
  PROVE  /\ IsOpen(h) => /\ db[h].ver \in DOMAIN roots
                         /\ db[h].ver \notin {final, Empty, Start}
                         /\ db[h].ver # db[h].backup
                         /\ \A g \in Handle : g # h => db[h].ver # db[g].ver /\ db[h].ver # db[g].backup
         /\ db[h].backup # None => /\ db[h].backup \in DOMAIN roots
                                   /\ db[h].backup \notin {final, Empty, Start}
                                   /\ db[h].ver # db[h].backup
                                   /\ \A g \in Handle : g # h => db[h].backup # db[g].ver /\ db[h].backup # db[g].backup
BY DEF IInv, Owns, Owned, IsOpen

\* Nothing runs, or one transaction on node.db or on the database of the task.
LEMMA Backups ==
  ASSUME IInv
  PROVE  /\ running = {} => \A h \in Handle : db[h].backup = None
         /\ \A h, t : <<h, t>> \in running =>
              /\ h \in {Front, Work} /\ h \in Handle /\ t \in Tx
              /\ running = {<<h, t>>} /\ Executes(h) /\ IsOpen(h)
              /\ db[h].backup # None
              /\ \A g \in Handle \ {h} : db[g].backup = None
<1>1. ASSUME running = {}
      PROVE  \A h \in Handle : db[h].backup = None
  BY <1>1 DEF IInv, Control
<1>2. ASSUME NEW h, NEW t, <<h, t>> \in running
      PROVE  /\ h \in {Front, Work} /\ h \in Handle /\ t \in Tx
             /\ running = {<<h, t>>} /\ Executes(h) /\ IsOpen(h)
             /\ db[h].backup # None
             /\ \A g \in Handle \ {h} : db[g].backup = None
  <2>1. PICK g \in {Front, Work}, s \in Tx : running = {<<g, s>>} /\ Executes(g)
    BY <1>2 DEF IInv, Control
  <2>2. g = h /\ s = t
    BY <1>2, <2>1
  <2>3. IsOpen(h)
    BY <2>1, <2>2, Handles DEF IInv, Control, FrontHolds, Executes
  <2>4. h \in Handle
    BY <2>1, <2>2, Handles
  <2>5. db[h].backup # None /\ \A k \in Handle \ {h} : db[k].backup = None
    BY <2>1, <2>2, <2>4 DEF IInv, Control
  <2> QED
    BY <2>1, <2>2, <2>3, <2>4, <2>5
<1> QED
  BY <1>1, <1>2

\* Where no database of the pool is opened, those of lower blocks stay closed.
LEMMA LowerKept ==
  ASSUME IInv, last' = last,
         \A b \in Block : db'[PoolDb(b)].ver # None => db[PoolDb(b)].ver # None
  PROVE  LowerBlocks' = LowerBlocks /\ (task # "finalizing" => LowerAreClosed')
BY DEF IInv, Control, LowerAreClosed, LowerBlocks, IsOpen, PoolDb

-----------------------------------------------------------------------------
(***************************************************************************)
(* A step that changes one temporary database, or node.db between two      *)
(* finalizations: its old versions are gone but for those it keeps, and    *)
(* what is new has a new name.                                             *)
(***************************************************************************)
Changes(h, d) ==
  /\ db' = [db EXCEPT ![h] = d]
  /\ UNCHANGED <<final, last, phase>>
  /\ d \in Db
  /\ \A v \in {d.ver, d.backup} \ {None} : v \in Owned(h) \/ v \in TempName \ DOMAIN roots
  /\ d.ver = d.backup => d.ver = None
  /\ d.backup \in TempName \cup {None}
  /\ DOMAIN roots' = (DOMAIN roots \ Owned(h)) \cup ({d.ver, d.backup} \ {None})
  /\ \A x \in DOMAIN roots \ Owned(h) : roots'[x] = roots[x]

\* A changed database owns what nobody else owns.
LEMMA ChangeOwns ==
  ASSUME IInv, NEW h \in Handle, NEW d, Changes(h, d)
  PROVE  Owns'
<1>1. /\ db'[h] = d
      /\ \A g \in Handle : g # h => db'[g] = db[g]
  BY Types DEF Changes
<1>2. SUFFICES ASSUME NEW k \in Handle, NEW v \in Owned(k)'
               PROVE  /\ v \in DOMAIN roots' /\ v \notin {final, Empty, Start}
                      /\ \A g \in Handle : g # k => v # db'[g].ver /\ v # db'[g].backup
                      /\ db'[k].ver # db'[k].backup
  BY DEF Owns, Changes
<1>3. CASE k = h
  <2>1. v \in {d.ver, d.backup} \ {None}
    BY <1>1, <1>3 DEF Owned
  <2>2. CASE v \in Owned(h)
    BY <2>1, <2>2, <1>1, <1>3 DEF IInv, Owns, Changes
  <2>3. CASE v \in TempName \ DOMAIN roots
    <3>1. v \notin {final, Empty, Start} /\ v # None
      BY <2>3, Names DEF IInv, FinalIsOfLastBlock
    <3>2. \A g \in Handle : v # db[g].ver /\ v # db[g].backup
      BY <2>3, <3>1, OpenDbs DEF IsOpen
    <3> QED
      BY <2>1, <3>1, <3>2, <1>1, <1>3 DEF Changes
  <2> QED
    BY <2>1, <2>2, <2>3 DEF Changes
<1>4. CASE k # h
  <2>1. v \in Owned(k)
    BY <1>1, <1>4 DEF Owned
  <2>2. v \in DOMAIN roots /\ v \notin Owned(h) /\ v \notin {final, Empty, Start} /\ v # None
    BY <2>1, <1>4 DEF IInv, Owns, Owned
  <2>3. v \notin {d.ver, d.backup}
    BY <2>2 DEF Changes
  <2> QED
    BY <2>1, <2>2, <2>3, <1>1, <1>4 DEF IInv, Owns, Changes
<1> QED
  BY <1>3, <1>4

\* Every version still belongs to a database, or is final or a constant one.
LEMMA ChangeNamed ==
  ASSUME IInv, NEW h \in Handle, NEW d, Changes(h, d)
  PROVE  Named'
<1>1. /\ db'[h] = d
      /\ \A g \in Handle : g # h => db'[g] = db[g]
  BY Types DEF Changes
<1>2. final' = IF phase' = "genesis" THEN Start ELSE FinalOf(Number[last'])
  BY DEF Changes, IInv, Named
<1>3. FrontName' = FrontName
  BY DEF Changes, FrontName
<1>4. d.ver \in TempName \cup {None} \cup (IF h = Front THEN {FrontName} ELSE {})
  BY DEF Changes, Owned, IInv, Named
<1>5. \A v \in DOMAIN roots' :
        v \in {Empty, Start, final} \/ \E g \in Handle : v \in {db'[g].ver, db'[g].backup}
  <2> SUFFICES ASSUME NEW v \in DOMAIN roots', v \notin {Empty, Start, final}
               PROVE  \E g \in Handle : v \in {db'[g].ver, db'[g].backup}
    OBVIOUS
  <2>1. CASE v \in {d.ver, d.backup}
    BY <2>1, <1>1
  <2>2. CASE v \notin {d.ver, d.backup}
    <3>1. v \in DOMAIN roots /\ v \notin Owned(h)
      BY <2>2 DEF Changes
    <3>2. PICK g \in Handle : v \in {db[g].ver, db[g].backup}
      BY <3>1 DEF IInv, Named
    <3>3. v # None
      BY <3>1, Types
    <3>4. g # h
      BY <3>1, <3>2, <3>3 DEF Owned
    <3> QED
      BY <3>2, <3>4, <1>1
  <2> QED
    BY <2>1, <2>2
<1> QED
  BY <1>1, <1>2, <1>3, <1>4, <1>5 DEF Changes, IInv, Named

\* Versions that other databases own, and the final one, keep their contents.
LEMMA ChangeKeeps ==
  ASSUME IInv, NEW h \in Handle, NEW d, Changes(h, d)
  PROVE  /\ FinalIsOfLastBlock'
         /\ \A g \in Handle \ {h} : \A v \in Owned(g) : v \in DOMAIN roots' /\ roots'[v] = roots[v]
         /\ (\A b \in Block : PoolDb(b) # h) => PoolIsExact'
<1>1. /\ db'[h] = d
      /\ \A g \in Handle : g # h => db'[g] = db[g]
  BY Types DEF Changes
<1>2. final \notin Owned(h)
  BY OpenDbs, Names DEF Owned, IsOpen
<1>3. FinalIsOfLastBlock'
  BY <1>2 DEF IInv, FinalIsOfLastBlock, Changes
<1>4. \A g \in Handle \ {h} : \A v \in Owned(g) : v \in DOMAIN roots' /\ roots'[v] = roots[v]
  <2> SUFFICES ASSUME NEW g \in Handle \ {h}, NEW v \in Owned(g)
               PROVE  v \in DOMAIN roots' /\ roots'[v] = roots[v]
    OBVIOUS
  <2>1. v \in DOMAIN roots /\ v \notin Owned(h)
    BY DEF IInv, Owns, Owned
  <2> QED
    BY <2>1 DEF Changes
<1>5. ASSUME \A b \in Block : PoolDb(b) # h
      PROVE  PoolIsExact'
  BY <1>1, <1>4, <1>5, Handles DEF IInv, PoolIsExact, IsOpen, Owned
<1> QED
  BY <1>3, <1>4, <1>5

\* The new versions and databases are versions and databases.
LEMMA ChangeTypes ==
  ASSUME IInv, NEW h \in Handle, NEW d, Changes(h, d)
  PROVE  /\ DOMAIN roots' \subseteq Name
         /\ db' \in [Handle -> Db]
         /\ (\A v \in {d.ver, d.backup} \ {None} : roots'[v] \in Content) =>
              \A v \in DOMAIN roots' : roots'[v] \in Content
BY Types, Names DEF Changes, IInv, TypeOK, Owned

\* node.db is as it was if no transaction runs on it.
LEMMA ChangeFront ==
  ASSUME IInv, NEW h \in Handle, NEW d, Changes(h, d),
         h # Front, running = {}, applied' = applied
  PROVE  FrontHolds'
<1>1. db'[Front] = db[Front] /\ db[Front].backup = None /\ IsOpen(Front)
  BY Types, Handles, Backups DEF Changes, IInv, FrontHolds
<1>2. roots'[db[Front].ver] = roots[db[Front].ver]
  BY <1>1, ChangeKeeps, Handles DEF Owned, IsOpen
<1>3. FrontBlocks' = FrontBlocks
  BY DEF FrontBlocks, Changes
<1> QED
  BY <1>1, <1>2, <1>3 DEF IInv, FrontHolds, IsOpen

-----------------------------------------------------------------------------
(* Transactions.                                                           *)

\* The backup of a running transaction comes with a new name, and what the
\* transaction does is not in it.
LEMMA Beginning ==
  ASSUME IInv, NEW h \in Handle, NEW t \in Tx, Begin(h, t)
  PROVE  \E v \in TempName :
           /\ Changes(h, [ver |-> db[h].ver, backup |-> v])
           /\ roots'[v] = roots[db[h].ver]
           /\ roots'[db[h].ver] = [blocks |-> roots[db[h].ver].blocks,
                                  txs |-> roots[db[h].ver].txs \cup {<<t, "all">>}]
           /\ roots[db[h].ver] \in Content /\ roots'[db[h].ver] \in Content
           /\ v # db[h].ver
<1> DEFINE u == db[h].ver
<1>1. PICK v \in Unused(DOMAIN roots, "backup", NumberOf(h)) :
        LET cloned == Clone(roots, u, v)
        IN  /\ CanClone(roots, u, v)
            /\ roots' = Written(RootsAfterSetBackup(cloned, final, db[h], v), u, <<t, "all">>)
            /\ db' = [db EXCEPT ![h] = DbAfterSetBackup(@, v)]
  BY DEF Begin
<1> DEFINE cloned == Clone(roots, u, v)
           kept   == Delete(cloned, final, {None})
<1>2. v \in TempName /\ v \notin DOMAIN roots
  BY Fresh, Types DEF Prefix
<1>3. /\ u \in DOMAIN roots /\ u # v /\ u # None /\ v # None
      /\ db[h].backup = None
  <2>1. running = {} /\ u \in DOMAIN roots
    BY <1>1 DEF Begin, CanClone
  <2> QED
    BY <2>1, <1>2, Types, Names, Backups
<1>4. /\ RootsAfterSetBackup(cloned, final, db[h], v) = kept
      /\ DbAfterSetBackup(db[h], v) = [ver |-> u, backup |-> v]
  BY <1>3, Types DEF RootsAfterSetBackup, DbAfterSetBackup, Refuses
<1>5. /\ DOMAIN kept = DOMAIN roots \cup {v}
      /\ kept[v] = roots[u]
      /\ \A x \in DOMAIN roots : kept[x] = roots[x]
  <2> HIDE DEF cloned, u
  <2>0. CanClone(roots, u, v)
    BY <1>1
  <2>1. /\ DOMAIN cloned = DOMAIN roots \cup {v}
        /\ cloned[v] = roots[u]
        /\ \A x \in DOMAIN roots : cloned[x] = roots[x]
    BY <2>0, Cloning DEF cloned
  <2>2. None \notin DOMAIN cloned
    BY <2>1, <1>3, Types
  <2> QED
    BY <2>1, <2>2, DeletingNone
<1> HIDE DEF kept
<1>6. roots' = Written(kept, u, <<t, "all">>)
  BY <1>1, <1>4
<1>7. \A x \in DOMAIN kept : kept[x] \in Content
  BY <1>3, <1>5, Types
<1>8. /\ DOMAIN roots' = DOMAIN roots \cup {v}
      /\ roots'[u] = [blocks |-> roots[u].blocks, txs |-> roots[u].txs \cup {<<t, "all">>}]
      /\ roots'[u] \in Content /\ roots[u] \in Content
      /\ \A x \in (DOMAIN roots \cup {v}) \ {u} : roots'[x] = kept[x]
  <2>1. <<t, "all">> \in Effect /\ u \in DOMAIN kept
    BY <1>3, <1>5 DEF Effect
  <2> QED
    BY <1>3, <1>5, <1>6, <1>7, <2>1, Writing, Types
<1>9. Changes(h, [ver |-> u, backup |-> v])
  <2>1. db' = [db EXCEPT ![h] = [ver |-> u, backup |-> v]]
    BY <1>1, <1>4
  <2>2. [ver |-> u, backup |-> v] \in Db
    BY <1>2, Types, Names DEF Db
  <2>3. Owned(h) = {u}
    BY <1>3 DEF Owned
  <2>4. \A x \in {u, v} \ {None} : x \in Owned(h) \/ x \in TempName \ DOMAIN roots
    BY <1>2, <2>3
  <2>5. DOMAIN roots' = (DOMAIN roots \ Owned(h)) \cup ({u, v} \ {None})
    BY <1>3, <1>8, <2>3
  <2>6. \A x \in DOMAIN roots \ Owned(h) : roots'[x] = roots[x]
    BY <1>5, <1>8, <2>3
  <2>7. UNCHANGED <<final, last, phase>>
    BY DEF Begin
  <2> HIDE DEF u
  <2> QED
    BY <1>2, <1>3, <2>1, <2>2, <2>4, <2>5, <2>6, <2>7 DEF Changes
<1> QED
  BY <1>2, <1>3, <1>5, <1>8, <1>9

\* A transaction begins: the backup and the operation.
LEMMA BeginStep ==
  ASSUME IInv, NEW h \in Handle, NEW t \in Tx, Begin(h, t)
  PROVE  IInv'
<1> DEFINE u == db[h].ver
<1>1. PICK v \in TempName :
        /\ Changes(h, [ver |-> u, backup |-> v])
        /\ roots'[v] = roots[u]
        /\ roots'[u] = [blocks |-> roots[u].blocks, txs |-> roots[u].txs \cup {<<t, "all">>}]
        /\ roots[u] \in Content /\ roots'[u] \in Content
        /\ v # u
  BY Beginning
<1>2. /\ running = {} /\ Executes(h) /\ running' = {<<h, t>>}
      /\ UNCHANGED <<final, last, phase, task, block, applied>>
  BY DEF Begin
<1>3. /\ h \in {Front, Work} /\ \A b \in Block : PoolDb(b) # h
      /\ \A g \in Handle : db[g].backup = None
      /\ v # None
  BY <1>2, Handles, Backups, Names DEF Executes
<1>4. /\ db'[h] = [ver |-> u, backup |-> v]
      /\ \A g \in Handle : g # h => db'[g] = db[g]
  BY <1>1, Types DEF Changes
<1>5. TypeOK'
  <2>1. running' \subseteq {Front, Work} \X Tx
    BY <1>2, <1>3
  <2> QED
    BY <1>1, <1>2, <2>1, ChangeTypes DEF IInv, TypeOK
<1>6. FinalIsOfLastBlock' /\ PoolIsExact' /\ Owns' /\ Named'
  BY <1>1, <1>3, ChangeKeeps, ChangeOwns, ChangeNamed
<1>7. FrontHolds'
  <2>1. CASE h = Front
    <3>1. IsOpen(Front) /\ roots[u] = [blocks |-> FrontBlocks, txs |-> applied]
      BY <2>1, <1>3, Handles DEF IInv, FrontHolds
    <3>2. FrontBlocks' = FrontBlocks
      BY <1>2 DEF FrontBlocks
    <3>3. db'[Front].ver = u /\ db'[Front].backup = v /\ u # None
      BY <2>1, <3>1, <1>4 DEF IsOpen
    <3>4. roots'[v] = [blocks |-> FrontBlocks', txs |-> applied']
      BY <3>1, <3>2, <1>1, <1>2
    <3>5. roots'[u] = [blocks |-> FrontBlocks', txs |-> applied' \cup {<<t, "all">>}]
      BY <3>1, <3>2, <1>1, <1>2
    <3>6. <<Front, t>> \in running'
      BY <2>1, <1>2
    <3> QED
      BY <3>3, <3>4, <3>5, <3>6, <1>3 DEF FrontHolds, IsOpen
  <2>2. CASE h # Front
    BY <2>2, <1>1, <1>2, ChangeFront
  <2> QED
    BY <2>1, <2>2
<1>8. Control'
  <2>1. \A g \in Handle : db'[g].backup # None <=> \E s \in Tx : <<g, s>> \in running'
    BY <1>2, <1>3, <1>4
  <2>2. \A g \in Handle : IsOpen(g)' <=> IsOpen(g)
    BY <1>4 DEF IsOpen
  <2>3. Executes(h)'
    BY <1>2 DEF Executes
  <2>4. block \in Block
    BY DEF IInv, TypeOK
  <2>5. LowerBlocks' = LowerBlocks /\ (task # "finalizing" => LowerAreClosed')
    BY <1>2, <2>2, Handles, LowerKept DEF IsOpen
  <2> QED
    BY <1>2, <1>3, <2>1, <2>2, <2>3, <2>4, <2>5, Handles DEF IInv, Control
<1> QED
  BY <1>5, <1>6, <1>7, <1>8 DEF IInv

\* deleteBackupStateVersion ends a transaction that succeeded.
LEMMA SucceedStep ==
  ASSUME IInv, NEW h \in Handle, NEW t \in Tx, Succeed(h, t)
  PROVE  IInv'
<1> DEFINE u == db[h].ver
           w == db[h].backup
<1>1. /\ <<h, t>> \in running /\ running' = {}
      /\ roots' = Delete(roots, final, {w})
      /\ db' = [db EXCEPT ![h] = [@ EXCEPT !.backup = None]]
      /\ applied' = IF h = Front THEN applied \cup {<<t, "all">>} ELSE applied
      /\ UNCHANGED <<final, last, phase, task, block>>
  BY DEF Succeed, Report
<1>2. /\ h \in {Front, Work} /\ running = {<<h, t>>} /\ IsOpen(h) /\ w # None
      /\ \A g \in Handle \ {h} : db[g].backup = None
      /\ \A b \in Block : PoolDb(b) # h
  BY <1>1, Backups, Handles
<1>3. /\ u \in DOMAIN roots /\ u # w /\ u # None
      /\ w \in DOMAIN roots /\ w # final
      /\ Owned(h) = {u, w}
  BY <1>2, OpenDbs DEF Owned, IsOpen
<1>4. /\ DOMAIN roots' = DOMAIN roots \ {w}
      /\ \A x \in DOMAIN roots \ {w} : roots'[x] = roots[x]
  BY <1>1, <1>3 DEF Delete
<1>5. /\ db'[h] = [ver |-> u, backup |-> None]
      /\ \A g \in Handle : g # h => db'[g] = db[g]
  BY <1>1, Types
<1>6. Changes(h, [ver |-> u, backup |-> None])
  <2>1. db' = [db EXCEPT ![h] = [ver |-> u, backup |-> None]]
    BY <1>1, <1>5
  <2>2. [ver |-> u, backup |-> None] \in Db
    BY Types DEF Db
  <2> QED
    BY <1>1, <1>3, <1>4, <2>1, <2>2 DEF Changes
<1>7. TypeOK'
  <2>1. roots'[u] \in Content
    BY <1>3, <1>4, Types
  <2>2. applied' \subseteq Effect
    BY <1>1 DEF IInv, TypeOK, Effect
  <2>3. /\ DOMAIN roots' \subseteq Name /\ db' \in [Handle -> Db]
        /\ \A v \in DOMAIN roots' : roots'[v] \in Content
    BY <1>6, <2>1, ChangeTypes
  <2> QED
    BY <1>1, <2>2, <2>3 DEF IInv, TypeOK
<1>8. FinalIsOfLastBlock' /\ PoolIsExact' /\ Owns' /\ Named'
  BY <1>2, <1>6, ChangeKeeps, ChangeOwns, ChangeNamed
<1>9. FrontHolds'
  <2>1. FrontBlocks' = FrontBlocks
    BY <1>1 DEF FrontBlocks
  <2>2. CASE h = Front
    <3>1. roots[u] = [blocks |-> FrontBlocks, txs |-> applied \cup {<<t, "all">>}]
      BY <2>2, <1>2 DEF IInv, FrontHolds
    <3> QED
      BY <2>1, <2>2, <3>1, <1>1, <1>2, <1>3, <1>4, <1>5 DEF FrontHolds, IsOpen
  <2>3. CASE h # Front
    <3>1. db'[Front] = db[Front] /\ db[Front].backup = None /\ IsOpen(Front) /\ applied' = applied
      BY <2>3, <1>1, <1>2, <1>5, Handles DEF IInv, FrontHolds
    <3>2. roots'[db[Front].ver] = roots[db[Front].ver]
      BY <2>3, <3>1, <1>6, ChangeKeeps, Handles DEF Owned, IsOpen
    <3> QED
      BY <2>1, <3>1, <3>2 DEF IInv, FrontHolds, IsOpen
  <2> QED
    BY <2>2, <2>3
<1>10. Control'
  <2>1. \A g \in Handle : db'[g].backup = None
    BY <1>2, <1>5
  <2>2. \A g \in Handle : IsOpen(g)' <=> IsOpen(g)
    BY <1>5 DEF IsOpen
  <2>3. block \in Block
    BY DEF IInv, TypeOK
  <2>4. LowerBlocks' = LowerBlocks /\ (task # "finalizing" => LowerAreClosed')
    BY <1>1, <2>2, Handles, LowerKept DEF IsOpen
  <2> QED
    BY <1>1, <2>1, <2>2, <2>3, <2>4, Handles DEF IInv, Control
<1> QED
  BY <1>7, <1>8, <1>9, <1>10 DEF IInv

\* restoreDb leaves one new version, with the contents of the backup.
LEMMA Restoring ==
  ASSUME IInv, NEW h, NEW t, <<h, t>> \in running,
         NEW v \in Unused(DOMAIN roots, "restored", NumberOf(h))
  PROVE  /\ v \in TempName /\ v \notin DOMAIN roots
         /\ Restored(h, v).final = final
         /\ Restored(h, v).db = [ver |-> v, backup |-> None]
         /\ DOMAIN Restored(h, v).roots = (DOMAIN roots \ Owned(h)) \cup {v}
         /\ Restored(h, v).roots[v] = roots[db[h].backup]
         /\ \A x \in DOMAIN roots \ Owned(h) : Restored(h, v).roots[x] = roots[x]
<1> DEFINE u == db[h].ver
           w == db[h].backup
           cloned == Clone(roots, w, v)
           once   == Delete(cloned, final, {u})
           twice  == Delete(once, final, {w})
<1>1. h \in Handle /\ IsOpen(h) /\ w # None
  BY Backups
<1>2. v \in TempName /\ v \notin DOMAIN roots
  BY <1>1, Fresh, Types DEF Prefix
<1>3. /\ u \in DOMAIN roots /\ w \in DOMAIN roots /\ u # w
      /\ u # final /\ w # final /\ v # final
      /\ u # v /\ w # v /\ u # None
      /\ Owned(h) = {u, w}
  BY <1>1, <1>2, OpenDbs DEF Owned, IsOpen, IInv, FinalIsOfLastBlock
<1>4. CanClone(roots, w, v)
  BY <1>2, <1>3 DEF CanClone
<1>5. /\ DOMAIN cloned = DOMAIN roots \cup {v}
      /\ cloned[v] = roots[w]
      /\ \A x \in DOMAIN roots : cloned[x] = roots[x]
  BY <1>4, Cloning
<1> HIDE DEF cloned
<1>6. /\ DOMAIN once = (DOMAIN roots \cup {v}) \ {u}
      /\ \A x \in DOMAIN once : once[x] = cloned[x]
  BY <1>3, <1>5 DEF Delete
<1> HIDE DEF once
<1>7. /\ DOMAIN twice = (DOMAIN roots \cup {v}) \ {u, w}
      /\ \A x \in DOMAIN twice : twice[x] = once[x]
  BY <1>3, <1>6 DEF Delete
<1> HIDE DEF twice
<1>8. Restored(h, v) = [roots |-> twice, final |-> final, db |-> [ver |-> v, backup |-> None]]
  <2>1. DbAfterSet(db[h], v) = [ver |-> v, backup |-> w]
    BY <1>1, <1>3, Types DEF DbAfterSet, Refuses
  <2>2. RootsAfterSet(cloned, final, db[h], v) = once
    BY <1>3 DEF RootsAfterSet, Refuses, once
  <2> QED
    BY <1>3, <1>4, <2>1, <2>2 DEF Restored, cloned, twice
<1> QED
  BY <1>2, <1>3, <1>5, <1>6, <1>7, <1>8

\* The rest of a step that ends a transaction with restoreDb: the version that
\* is left holds S on top of what the backup held.
LEMMA AfterRestore ==
  ASSUME IInv, NEW h, NEW t, <<h, t>> \in running, NEW v,
         Changes(h, [ver |-> v, backup |-> None]),
         v \in TempName,
         NEW S \in SUBSET Effect,
         roots'[v] = [blocks |-> roots[db[h].backup].blocks,
                      txs |-> roots[db[h].backup].txs \cup S],
         running' = {},
         applied' = IF h = Front THEN applied \cup S ELSE applied,
         UNCHANGED <<task, block>>
  PROVE  IInv'
<1>1. /\ h \in {Front, Work} /\ h \in Handle /\ running = {<<h, t>>} /\ IsOpen(h)
      /\ db[h].backup # None
      /\ \A g \in Handle \ {h} : db[g].backup = None
      /\ \A b \in Block : PoolDb(b) # h
  BY Backups, Handles
<1>2. db[h].backup \in DOMAIN roots /\ roots[db[h].backup] \in Content
  BY <1>1, OpenDbs, Types
<1>3. /\ db'[h] = [ver |-> v, backup |-> None]
      /\ \A g \in Handle : g # h => db'[g] = db[g]
      /\ v # None
  BY <1>1, Types, Names DEF Changes
<1>4. TypeOK'
  <2>1. roots'[v] \in Content
    BY <1>2 DEF Content
  <2>2. /\ DOMAIN roots' \subseteq Name /\ db' \in [Handle -> Db]
        /\ \A x \in DOMAIN roots' : roots'[x] \in Content
    BY <1>1, <2>1, ChangeTypes
  <2> QED
    BY <2>2 DEF IInv, TypeOK, Changes
<1>5. FinalIsOfLastBlock' /\ PoolIsExact' /\ Owns' /\ Named'
  BY <1>1, ChangeKeeps, ChangeOwns, ChangeNamed
<1>6. FrontHolds'
  <2>1. FrontBlocks' = FrontBlocks
    BY DEF FrontBlocks, Changes
  <2>2. CASE h = Front
    <3>1. roots[db[h].backup] = [blocks |-> FrontBlocks, txs |-> applied]
      BY <2>2, <1>1 DEF IInv, FrontHolds
    <3>2. roots'[v] = [blocks |-> FrontBlocks', txs |-> applied']
      BY <2>1, <2>2, <3>1
    <3> QED
      BY <2>2, <3>2, <1>3 DEF FrontHolds, IsOpen
  <2>3. CASE h # Front
    <3>1. db'[Front] = db[Front] /\ db[Front].backup = None /\ IsOpen(Front) /\ applied' = applied
      BY <2>3, <1>1, <1>3, Handles DEF IInv, FrontHolds
    <3>2. roots'[db[Front].ver] = roots[db[Front].ver]
      BY <2>3, <3>1, <1>1, ChangeKeeps, Handles DEF Owned, IsOpen
    <3> QED
      BY <2>1, <3>1, <3>2 DEF IInv, FrontHolds, IsOpen
  <2> QED
    BY <2>2, <2>3
<1>7. Control'
  <2>1. \A g \in Handle : db'[g].backup = None
    BY <1>1, <1>3
  <2>2. \A g \in Handle : IsOpen(g)' <=> IsOpen(g)
    BY <1>1, <1>3 DEF IsOpen
  <2>3. block \in Block /\ last' = last
    BY DEF IInv, TypeOK, Changes
  <2>4. LowerBlocks' = LowerBlocks /\ (task # "finalizing" => LowerAreClosed')
    BY <2>2, <2>3, Handles, LowerKept DEF IsOpen
  <2> QED
    BY <2>1, <2>2, <2>3, <2>4, Handles DEF IInv, Control, Changes
<1> QED
  BY <1>4, <1>5, <1>6, <1>7 DEF IInv

\* restoreDb after a failure undoes the transaction.
LEMMA FailStep ==
  ASSUME IInv, NEW h \in Handle, NEW t \in Tx, Fail(h, t)
  PROVE  IInv'
<1>1. PICK v \in Unused(DOMAIN roots, "restored", NumberOf(h)) :
        /\ roots' = Restored(h, v).roots
        /\ final' = Restored(h, v).final
        /\ db' = [db EXCEPT ![h] = Restored(h, v).db]
  BY DEF Fail
<1>2. /\ <<h, t>> \in running /\ running' = {}
      /\ UNCHANGED <<last, phase, task, block, applied>>
  BY DEF Fail
<1>3. /\ v \in TempName /\ v \notin DOMAIN roots /\ final' = final
      /\ db' = [db EXCEPT ![h] = [ver |-> v, backup |-> None]]
      /\ DOMAIN roots' = (DOMAIN roots \ Owned(h)) \cup {v}
      /\ roots'[v] = roots[db[h].backup]
      /\ \A x \in DOMAIN roots \ Owned(h) : roots'[x] = roots[x]
  BY <1>1, <1>2, Restoring
<1>4. v # None /\ [ver |-> v, backup |-> None] \in Db
  BY <1>3, Names DEF Db
<1>5. Changes(h, [ver |-> v, backup |-> None])
  BY <1>2, <1>3, <1>4 DEF Changes
<1>6. roots'[v] = [blocks |-> roots[db[h].backup].blocks,
                  txs |-> roots[db[h].backup].txs \cup {}]
  <2>1. roots[db[h].backup] \in Content
    BY <1>2, Backups, OpenDbs, Types
  <2> QED
    BY <1>3, <2>1 DEF Content
<1>7. applied' = IF h = Front THEN applied \cup {} ELSE applied
  BY <1>2
<1> QED
  BY <1>2, <1>3, <1>5, <1>6, <1>7, AfterRestore

\* collectFee undoes the transaction and leaves its fee.
LEMMA FailOnFeeStep ==
  ASSUME IInv, NEW h \in Handle, NEW t \in Tx, FailOnFee(h, t)
  PROVE  IInv'
<1> DEFINE e == <<t, "fee">>
<1>1. PICK v \in Unused(DOMAIN roots, "restored", NumberOf(h)) :
        /\ roots' = Written(Restored(h, v).roots, Restored(h, v).db.ver, e)
        /\ final' = Restored(h, v).final
        /\ db' = [db EXCEPT ![h] = Restored(h, v).db]
  BY DEF FailOnFee
<1>2. /\ <<h, t>> \in running /\ running' = {}
      /\ UNCHANGED <<last, phase, task, block>>
      /\ applied' = IF h = Front THEN applied \cup {e} ELSE applied
  BY DEF FailOnFee, Report
<1> DEFINE r == Restored(h, v).roots
<1>3. /\ v \in TempName /\ v \notin DOMAIN roots /\ final' = final
      /\ db' = [db EXCEPT ![h] = [ver |-> v, backup |-> None]]
      /\ roots' = Written(r, v, e)
      /\ DOMAIN r = (DOMAIN roots \ Owned(h)) \cup {v}
      /\ r[v] = roots[db[h].backup]
      /\ \A x \in DOMAIN roots \ Owned(h) : r[x] = roots[x]
  <2> HIDE DEF e
  <2>1. /\ v \in TempName /\ v \notin DOMAIN roots
        /\ Restored(h, v).final = final
        /\ Restored(h, v).db = [ver |-> v, backup |-> None]
        /\ DOMAIN r = (DOMAIN roots \ Owned(h)) \cup {v}
        /\ r[v] = roots[db[h].backup]
        /\ \A x \in DOMAIN roots \ Owned(h) : r[x] = roots[x]
    BY <1>2, Restoring
  <2>2. Restored(h, v).db.ver = v
    BY <2>1
  <2> QED
    BY <1>1, <2>1, <2>2
<1> HIDE DEF r
<1>4. v # None /\ [ver |-> v, backup |-> None] \in Db /\ e \in Effect
  BY <1>3, Names DEF Db, Effect
<1>5. roots[db[h].backup] \in Content
  BY <1>2, Backups, OpenDbs, Types
<1>6. /\ DOMAIN roots' = DOMAIN r
      /\ roots'[v] = [blocks |-> r[v].blocks, txs |-> r[v].txs \cup {e}]
      /\ \A x \in DOMAIN r \ {v} : roots'[x] = r[x]
  <2>1. \A x \in DOMAIN r : r[x] \in Content
    BY <1>3, <1>5, Types
  <2> HIDE DEF e
  <2> QED
    BY <1>3, <1>4, <2>1, Writing
<1>7. Changes(h, [ver |-> v, backup |-> None])
  BY <1>2, <1>3, <1>4, <1>6 DEF Changes
<1>8. roots'[v] = [blocks |-> roots[db[h].backup].blocks,
                  txs |-> roots[db[h].backup].txs \cup {e}]
  BY <1>3, <1>6
<1>9. {e} \in SUBSET Effect
  BY <1>4
<1> QED
  BY <1>2, <1>3, <1>7, <1>8, <1>9, AfterRestore

-----------------------------------------------------------------------------
(***************************************************************************)
(* A step between transactions that changes the databases of H, none of    *)
(* which is node.db: versions pass from one to another, are deleted, or    *)
(* have a new name.                                                        *)
(***************************************************************************)
Taken(H) == UNION {Owned(h) : h \in H}
Given(H) == {db'[h].ver : h \in H} \ {None}

Moves(H) ==
  /\ db' \in [Handle -> Db]
  /\ \A g \in Handle \ H : db'[g] = db[g]
  /\ UNCHANGED <<final, last, phase, running, applied>>
  /\ running = {}
  /\ \A h \in H : /\ db'[h].backup = None
                  /\ db'[h].ver \in TempName \cup {None}
                  /\ db'[h].ver \in DOMAIN roots => db'[h].ver \in Taken(H)
  /\ \A g, h \in H : db'[g].ver = db'[h].ver => db'[g].ver = None \/ g = h
  /\ DOMAIN roots' = (DOMAIN roots \ Taken(H)) \cup Given(H)
  /\ \A x \in DOMAIN roots \ Taken(H) : roots'[x] = roots[x]

\* Moved databases own what nobody else owns.
LEMMA MoveOwns ==
  ASSUME IInv, NEW H \in SUBSET Handle, Moves(H)
  PROVE  Owns'
<1>1. /\ \A g \in Handle \ H : db'[g] = db[g] /\ db'[g].backup = None
      /\ \A g \in Handle : db'[g].backup = None
  BY Backups DEF Moves
<1>2. SUFFICES ASSUME NEW k \in Handle, db'[k].ver # None
               PROVE  /\ db'[k].ver \in DOMAIN roots'
                      /\ db'[k].ver \notin {final, Empty, Start}
                      /\ \A g \in Handle : g # k => db'[k].ver # db'[g].ver
  BY <1>1 DEF Owns, Owned, Moves
<1> DEFINE v == db'[k].ver
<1>3. CASE k \in H
  <2>1. v \in DOMAIN roots'
    BY <1>2, <1>3 DEF Moves, Given
  <2>2. v \in TempName /\ v # None
    BY <1>2, <1>3 DEF Moves
  <2>3. CASE v \in DOMAIN roots
    <3>1. PICK h \in H : v \in Owned(h)
      BY <1>3, <2>3 DEF Moves, Taken
    <3>2. /\ v \notin {final, Empty, Start}
          /\ \A g \in Handle : g # h => v # db[g].ver
      BY <3>1 DEF IInv, Owns
    <3> QED
      BY <1>1, <1>3, <2>1, <2>2, <3>1, <3>2 DEF Moves
  <2>4. CASE v \notin DOMAIN roots
    <3>1. v \notin {final, Empty, Start}
      BY <2>2, <2>4, Names DEF IInv, FinalIsOfLastBlock
    <3>2. \A g \in Handle : v # db[g].ver
      BY <2>2, <2>4, OpenDbs DEF IsOpen
    <3> QED
      BY <1>1, <1>3, <2>1, <2>2, <3>1, <3>2 DEF Moves
  <2> QED
    BY <2>3, <2>4
<1>4. CASE k \notin H
  <2>1. v = db[k].ver /\ v \in Owned(k)
    BY <1>1, <1>2, <1>4 DEF Owned
  <2>2. /\ v \in DOMAIN roots /\ v \notin {final, Empty, Start}
        /\ \A g \in Handle : g # k => v # db[g].ver /\ v # db[g].backup
    BY <2>1 DEF IInv, Owns
  <2>3. v \notin Taken(H)
    BY <1>4, <2>2 DEF Taken, Owned
  <2>4. \A g \in H : v # db'[g].ver
    BY <2>2, <2>3 DEF Moves
  <2> QED
    BY <1>1, <1>4, <2>2, <2>3, <2>4 DEF Moves
<1> QED
  BY <1>3, <1>4

\* Every version still belongs to a database, or is final or a constant one.
LEMMA MoveNamed ==
  ASSUME IInv, NEW H \in SUBSET Handle, Front \notin H, Moves(H)
  PROVE  Named'
<1>1. final' = IF phase' = "genesis" THEN Start ELSE FinalOf(Number[last'])
  BY DEF Moves, IInv, Named
<1>2. FrontName' = FrontName
  BY DEF Moves, FrontName
<1>3. \A h \in Handle : /\ db'[h].ver \in TempName \cup {None} \cup (IF h = Front THEN {FrontName} ELSE {})
                        /\ db'[h].backup \in TempName \cup {None}
  BY DEF Moves, IInv, Named
<1>4. \A v \in DOMAIN roots' :
        v \in {Empty, Start, final} \/ \E g \in Handle : v \in {db'[g].ver, db'[g].backup}
  <2> SUFFICES ASSUME NEW v \in DOMAIN roots', v \notin {Empty, Start, final}
               PROVE  \E g \in Handle : v \in {db'[g].ver, db'[g].backup}
    OBVIOUS
  <2>1. CASE v \in Given(H)
    BY <2>1 DEF Given
  <2>2. CASE v \notin Given(H)
    <3>1. v \in DOMAIN roots /\ v \notin Taken(H) /\ v # None
      BY <2>2, Types DEF Moves
    <3>2. PICK g \in Handle : v \in {db[g].ver, db[g].backup}
      BY <3>1 DEF IInv, Named
    <3>3. g \notin H
      BY <3>1, <3>2 DEF Owned, Taken
    <3> QED
      BY <3>2, <3>3 DEF Moves
  <2> QED
    BY <2>1, <2>2
<1> QED
  BY <1>1, <1>2, <1>3, <1>4 DEF Moves, Named

\* Such a step preserves the invariant if the new versions hold what they should.
LEMMA MoveStep ==
  ASSUME IInv, NEW H \in SUBSET Handle, Front \notin H, Moves(H),
         \A v \in Given(H) : roots'[v] \in Content,
         \A b \in Block : PoolDb(b) \in H /\ IsOpen(PoolDb(b))' =>
                            roots'[db'[PoolDb(b)].ver] = StateAfter(b),
         task' \in {"idle", "block", "scratch", "finalizing"}, block' \in Block,
         task' \in {"block", "scratch"} <=> IsOpen(Work)',
         task' = "idle" => ~IsOpen(Spare)',
         task' = "block" => /\ db'[PoolDb(block')].ver = None
                            /\ block' \in LowerBlocks => Chain[block'] \cap Blamed # {},
         task' # "finalizing" => LowerAreClosed'
  PROVE  IInv'
<1>1. \A g \in Handle \ H : \A v \in Owned(g) : v \in DOMAIN roots' /\ roots'[v] = roots[v]
  <2> SUFFICES ASSUME NEW g \in Handle \ H, NEW v \in Owned(g)
               PROVE  v \in DOMAIN roots' /\ roots'[v] = roots[v]
    OBVIOUS
  <2>1. /\ v \in DOMAIN roots
        /\ \A h \in Handle : h # g => v # db[h].ver /\ v # db[h].backup
    BY DEF IInv, Owns
  <2>2. v \notin Taken(H)
    BY <2>1 DEF Taken, Owned
  <2> QED
    BY <2>1, <2>2 DEF Moves
<1>2. TypeOK'
  <2>1. DOMAIN roots' \subseteq Name
    BY Names DEF Moves, Given, IInv, TypeOK
  <2>2. \A v \in DOMAIN roots' : roots'[v] \in Content
    BY DEF Moves, IInv, TypeOK
  <2> QED
    BY <2>1, <2>2 DEF Moves, IInv, TypeOK
<1>3. FinalIsOfLastBlock'
  <2>1. final \notin Taken(H)
    BY DEF Taken, IInv, Owns
  <2> QED
    BY <2>1 DEF Moves, IInv, FinalIsOfLastBlock
<1>4. PoolIsExact'
  <2> SUFFICES ASSUME NEW b \in Block, db'[PoolDb(b)].ver # None
               PROVE  /\ db'[PoolDb(b)].ver \in DOMAIN roots'
                      /\ roots'[db'[PoolDb(b)].ver] = StateAfter(b)
    BY DEF PoolIsExact, IsOpen, StateAfter
  <2>1. CASE PoolDb(b) \in H
    BY <2>1 DEF Moves, Given, IsOpen
  <2>2. CASE PoolDb(b) \notin H
    <3>1. PoolDb(b) \in Handle /\ db'[PoolDb(b)] = db[PoolDb(b)]
      BY <2>2, Handles DEF Moves
    <3> QED
      BY <2>2, <3>1, <1>1 DEF IInv, PoolIsExact, IsOpen, Owned
  <2> QED
    BY <2>1, <2>2
<1>5. FrontHolds'
  <2>1. db'[Front] = db[Front] /\ db[Front].backup = None /\ IsOpen(Front)
    BY Handles, Backups DEF Moves, IInv, FrontHolds
  <2>2. roots'[db[Front].ver] = roots[db[Front].ver]
    BY <2>1, <1>1, Handles DEF Owned, IsOpen
  <2>3. FrontBlocks' = FrontBlocks
    BY DEF FrontBlocks, Moves
  <2> QED
    BY <2>1, <2>2, <2>3 DEF IInv, FrontHolds, IsOpen, Moves
<1>6. Control'
  <2>1. \A g \in Handle : db'[g].backup = None
    BY Backups DEF Moves
  <2>2. /\ running' = {} /\ (phase' = "genesis" => last' = Root)
        /\ LowerBlocks' = LowerBlocks
    BY DEF Moves, IInv, Control, LowerBlocks
  <2> QED
    BY <2>1, <2>2 DEF Control, IsOpen, PoolDb
<1> QED
  BY <1>2, <1>3, <1>4, <1>5, <1>6, MoveOwns, MoveNamed DEF IInv

\* A version of a single database.
LEMMA Single ==
  ASSUME NEW h \in Handle
  PROVE  /\ {h} \in SUBSET Handle
         /\ Taken({h}) = Owned(h)
         /\ Given({h}) = {db'[h].ver} \ {None}
BY DEF Taken, Given

\* createTempDb opens a database on a new version, a copy of the base.
LEMMA Creating ==
  ASSUME IInv, NEW h \in Handle \ {Front}, NEW base, NEW prefix \in Prefix, NEW n \in Nat,
         Create(h, base, prefix, n), ~IsOpen(h), running = {},
         UNCHANGED <<final, last, phase, running, applied>>
  PROVE  /\ Moves({h})
         /\ \A v \in Given({h}) : roots'[v] \in Content
         /\ IsOpen(h)'
<1>1. PICK v \in Unused(DOMAIN roots, prefix, n) :
        /\ CanClone(roots, base, v)
        /\ roots' = Clone(roots, base, v)
        /\ db' = [db EXCEPT ![h] = Opened(v)]
  BY DEF Create
<1>2. v \in TempName /\ v \notin DOMAIN roots /\ v # None
  BY Fresh, Names
<1>3. /\ DOMAIN roots' = DOMAIN roots \cup {v}
      /\ roots'[v] = roots[base] /\ base \in DOMAIN roots
      /\ \A x \in DOMAIN roots : roots'[x] = roots[x]
  <2>1. CanClone(roots, base, v) /\ roots' = Clone(roots, base, v)
    BY <1>1
  <2>2. /\ DOMAIN Clone(roots, base, v) = DOMAIN roots \cup {v}
        /\ Clone(roots, base, v)[v] = roots[base] /\ base \in DOMAIN roots
        /\ \A x \in DOMAIN roots : Clone(roots, base, v)[x] = roots[x]
    BY <2>1, Cloning
  <2> QED
    BY <2>1, <2>2
<1>4. db'[h] = Opened(v) /\ \A g \in Handle \ {h} : db'[g] = db[g]
  BY <1>1, Types
<1>5. Opened(v) \in Db /\ Opened(v).ver = v /\ Opened(v).backup = None
  BY <1>2, Names DEF Db, Opened
<1>6. Taken({h}) = {} /\ Given({h}) = {v}
  <2>1. Owned(h) = {}
    BY Backups DEF Owned, IsOpen
  <2> QED
    BY <2>1, <1>2, <1>4, <1>5, Single
<1>7. db' \in [Handle -> Db]
  BY <1>1, <1>5 DEF IInv, TypeOK
<1>8. Moves({h})
  BY <1>2, <1>3, <1>4, <1>5, <1>6, <1>7 DEF Moves
<1>9. roots'[v] \in Content
  BY <1>3, Types
<1> QED
  BY <1>2, <1>4, <1>5, <1>6, <1>8, <1>9 DEF IsOpen

\* destroyDb closes databases, and their versions are gone.
LEMMA Destroying ==
  ASSUME IInv, NEW H \in SUBSET Handle,
         roots' = Delete(roots, final, Taken(H)),
         db' = [g \in Handle |-> IF g \in H THEN Closed ELSE db[g]],
         running = {}, UNCHANGED <<final, last, phase, running, applied>>
  PROVE  Moves(H) /\ Given(H) = {}
<1>1. Closed \in Db /\ Closed.ver = None /\ Closed.backup = None
  BY DEF Closed, Db
<1>2. /\ db' \in [Handle -> Db]
      /\ \A g \in Handle \ H : db'[g] = db[g]
      /\ \A g \in H : db'[g].ver = None /\ db'[g].backup = None
  BY <1>1 DEF IInv, TypeOK
<1>3. Given(H) = {}
  BY <1>2 DEF Given
<1>4. final \notin Taken(H)
  BY DEF IInv, Owns, Taken
<1>5. /\ DOMAIN roots' = DOMAIN roots \ Taken(H)
      /\ \A x \in DOMAIN roots \ Taken(H) : roots'[x] = roots[x]
  BY <1>4 DEF Delete
<1>6. None \notin DOMAIN roots
  BY Types
<1> QED
  BY <1>2, <1>3, <1>5, <1>6 DEF Moves

\* Without restoreIfFails, a transaction changes the version of its database.
LEMMA ExecuteUnsavedStep ==
  ASSUME IInv, NEW h \in Handle, NEW t \in Tx, ExecuteUnsaved(h, t)
  PROVE  IInv'
<1> DEFINE u == db[h].ver
           e == <<t, "all">>
<1>1. /\ running = {} /\ h \in {Work, Spare} /\ u # None
      /\ roots' = Written(roots, u, e)
      /\ UNCHANGED <<final, db, last, phase, task, block, running, applied>>
  BY DEF ExecuteUnsaved, IsOpen
<1>2. h # Front /\ (\A b \in Block : PoolDb(b) # h)
  BY <1>1, Handles
<1>3. u \in DOMAIN roots /\ u \in TempName /\ db[h].backup = None
  BY <1>1, <1>2, OpenDbs, Backups DEF IsOpen, IInv, Named
<1>4. /\ DOMAIN roots' = DOMAIN roots
      /\ roots'[u] \in Content
      /\ \A x \in DOMAIN roots \ {u} : roots'[x] = roots[x]
  <2>1. e \in Effect
    BY DEF Effect
  <2>2. \A x \in DOMAIN roots : roots[x] \in Content
    BY Types
  <2> HIDE DEF u, e
  <2>3. /\ DOMAIN Written(roots, u, e) = DOMAIN roots
        /\ \A x \in DOMAIN roots \ {u} : Written(roots, u, e)[x] = roots[x]
        /\ Written(roots, u, e)[u] \in Content
    BY <1>3, <2>1, <2>2 DEF Written, Content
  <2> QED
    BY <1>1, <2>3
<1>5. Owned(h) = {u} /\ Taken({h}) = {u} /\ Given({h}) = {u}
  BY <1>1, <1>3, Single DEF Owned
<1>6. db' = db /\ db \in [Handle -> Db]
  BY <1>1 DEF IInv, TypeOK
<1>7. Moves({h})
  <2> HIDE DEF u
  <2>1. db'[h].ver = u
    BY <1>6 DEF u
  <2> QED
    BY <1>1, <1>3, <1>4, <1>5, <1>6, <2>1 DEF Moves
<1>8. task \in {"idle", "block", "scratch", "finalizing"} /\ block \in Block
  BY DEF IInv, TypeOK
<1>9. task # "finalizing" => LowerAreClosed'
  BY <1>1, <1>6, LowerKept
<1> QED
  BY <1>1, <1>2, <1>4, <1>5, <1>7, <1>8, <1>9, MoveStep, Single DEF IInv, Control, IsOpen

\* The database of a block that is validated is opened.
LEMMA OpenForBlockStep ==
  ASSUME IInv, NEW b \in Block, OpenForBlock(b)
  PROVE  IInv'
<1>1. /\ task = "idle" /\ running = {} /\ ~IsOpen(PoolDb(b))
      /\ Create(Work, BaseVersion(b), "block", Number[b])
      /\ task' = "block" /\ block' = b
      /\ UNCHANGED <<final, last, phase, running, applied>>
  BY DEF OpenForBlock
<1>2. Number[b] \in Nat /\ "block" \in Prefix /\ Work \in Handle \ {Front}
  BY TreeIsAssumed, Handles DEF TreeAssumption, Prefix
<1>3. ~IsOpen(Work)
  BY <1>1 DEF IInv, Control
<1>4. /\ Moves({Work}) /\ IsOpen(Work)'
      /\ \A v \in Given({Work}) : roots'[v] \in Content
  BY <1>1, <1>2, <1>3, Creating
<1>5. \A a \in Block : db'[PoolDb(a)] = db[PoolDb(a)]
  BY <1>4, Handles DEF Moves
<1>6. LowerAreClosed'
  BY <1>1, <1>5, LowerKept
<1>7. ASSUME b \in LowerBlocks
      PROVE  Chain[b] \cap Blamed # {}
  <2>1. Number[b] < Number[last] /\ Number[b] \in Nat /\ Number[last] \in Nat
    BY <1>2, <1>7, Types DEF LowerBlocks
  <2>2. phase # "genesis"
    BY <2>1 DEF OpenForBlock, IInv, Control
  <2>3. b # Root /\ BaseVersion(b) = db[PoolDb(Parent[b])].ver
    BY <2>1, <2>2 DEF OpenForBlock, BaseVersion
  <2>4. /\ Parent[b] \in Block /\ Number[Parent[b]] \in Nat
        /\ Number[b] = Number[Parent[b]] + 1 /\ Chain[Parent[b]] \subseteq Chain[b]
    BY <2>3, TreeIsAssumed DEF TreeAssumption
  <2>5. IsOpen(PoolDb(Parent[b]))
    BY <1>1, <2>3, Types DEF Create, CanClone, IsOpen
  <2>6. Parent[b] \in LowerBlocks
    BY <2>1, <2>4 DEF LowerBlocks
  <2>7. Chain[Parent[b]] \cap Blamed # {}
    BY <1>1, <2>5, <2>6 DEF IInv, Control, LowerAreClosed
  <2> QED
    BY <2>4, <2>7
<1> QED
  BY <1>1, <1>4, <1>5, <1>6, <1>7, MoveStep, Handles, Single DEF IsOpen

\* The database of a proposal or of a vote is opened.
LEMMA OpenScratchStep ==
  ASSUME IInv, NEW base, OpenScratch(base)
  PROVE  IInv'
<1>1. /\ task = "idle" /\ running = {}
      /\ Create(Work, base, "scratch", Number[last])
      /\ task' = "scratch"
      /\ UNCHANGED <<final, last, phase, block, running, applied>>
  BY DEF OpenScratch
<1>2. "scratch" \in Prefix /\ Work \in Handle \ {Front} /\ block' \in Block
  BY <1>1, Handles DEF Prefix, IInv, TypeOK
<1>3. ~IsOpen(Work)
  BY <1>1 DEF IInv, Control
<1>4. /\ Moves({Work}) /\ IsOpen(Work)'
      /\ \A v \in Given({Work}) : roots'[v] \in Content
  BY <1>1, <1>2, <1>3, Creating, Types
<1>5. LowerAreClosed'
  <2>1. \A b \in Block : db'[PoolDb(b)] = db[PoolDb(b)]
    BY <1>4, Handles DEF Moves
  <2> QED
    BY <1>1, <2>1, LowerKept
<1> QED
  BY <1>1, <1>2, <1>4, <1>5, MoveStep, Handles, Single

\* A copy of a database is opened ...
LEMMA OpenSpareStep ==
  ASSUME IInv, NEW h \in {Front, Work}, OpenSpare(h)
  PROVE  IInv'
<1>1. /\ task # "idle" /\ running = {} /\ ~IsOpen(Spare)
      /\ Create(Spare, db[h].ver, "copy", Number[last])
      /\ UNCHANGED <<final, last, phase, task, block, running, applied>>
  BY DEF OpenSpare
<1>2. "copy" \in Prefix /\ Spare \in Handle \ {Front}
  BY Handles DEF Prefix
<1>3. /\ Moves({Spare})
      /\ \A v \in Given({Spare}) : roots'[v] \in Content
  BY <1>1, <1>2, Creating, Types
<1>4. /\ db'[Work] = db[Work]
      /\ \A b \in Block : db'[PoolDb(b)] = db[PoolDb(b)]
  BY <1>3, Handles DEF Moves
<1>5. task \in {"block", "scratch", "finalizing"} /\ block \in Block
  BY <1>1 DEF IInv, TypeOK
<1>6. IsOpen(Work)' <=> IsOpen(Work)
  BY <1>4 DEF IsOpen
<1>7. task # "finalizing" => LowerAreClosed'
  BY <1>1, <1>4, LowerKept
<1> QED
  BY <1>1, <1>3, <1>4, <1>5, <1>6, <1>7, MoveStep, Handles, Single DEF IInv, Control, IsOpen

\* ... and closed.
LEMMA CloseSpareStep ==
  ASSUME IInv, CloseSpare
  PROVE  IInv'
<1>1. /\ running = {} /\ Destroy(Spare)
      /\ UNCHANGED <<final, last, phase, task, block, running, applied>>
  BY DEF CloseSpare
<1>2. /\ roots' = Delete(roots, final, Taken({Spare}))
      /\ db' = [g \in Handle |-> IF g \in {Spare} THEN Closed ELSE db[g]]
  BY <1>1, Single, Handles, Types DEF Destroy
<1>3. Moves({Spare}) /\ Given({Spare}) = {}
  BY <1>1, <1>2, Destroying, Handles, Single
<1>4. /\ db'[Work] = db[Work] /\ ~IsOpen(Spare)'
      /\ \A b \in Block : db'[PoolDb(b)] = db[PoolDb(b)]
  BY <1>2, Handles DEF IsOpen, Closed
<1>5. task \in {"idle", "block", "scratch", "finalizing"} /\ block \in Block
  BY DEF IInv, TypeOK
<1>6. IsOpen(Work)' <=> IsOpen(Work)
  BY <1>4 DEF IsOpen
<1>7. task # "finalizing" => LowerAreClosed'
  BY <1>1, <1>4, LowerKept
<1> QED
  BY <1>1, <1>3, <1>4, <1>5, <1>6, <1>7, MoveStep, Handles, Single DEF IInv, Control, IsOpen

\* The task's database is destroyed.
LEMMA DiscardStep ==
  ASSUME IInv, Discard
  PROVE  IInv'
<1>1. /\ running = {} /\ ~IsOpen(Spare) /\ Destroy(Work)
      /\ task' = "idle" /\ block' = Root
      /\ UNCHANGED <<final, last, phase, running, applied>>
  BY DEF Discard
<1>2. /\ roots' = Delete(roots, final, Taken({Work}))
      /\ db' = [g \in Handle |-> IF g \in {Work} THEN Closed ELSE db[g]]
  BY <1>1, Single, Handles, Types DEF Destroy
<1>3. Moves({Work}) /\ Given({Work}) = {}
  BY <1>1, <1>2, Destroying, Handles, Single
<1>4. ~IsOpen(Work)' /\ ~IsOpen(Spare)'
  BY <1>1, <1>2, Handles DEF IsOpen, Closed
<1>5. Root \in Block
  BY TreeIsAssumed DEF TreeAssumption
<1>6. LowerAreClosed'
  <2>1. \A b \in Block : db'[PoolDb(b)] = db[PoolDb(b)]
    BY <1>2, Handles
  <2>2. task # "finalizing"
    BY DEF Discard
  <2> QED
    BY <1>1, <2>1, <2>2, LowerKept
<1> QED
  BY <1>1, <1>3, <1>4, <1>5, <1>6, MoveStep, Handles, Single

\* The databases of lower blocks are destroyed.
LEMMA CleanUpStep ==
  ASSUME IInv, NEW gone \in SUBSET Block, CleanUp(gone)
  PROVE  IInv'
<1> DEFINE H == {PoolDb(b) : b \in gone}
<1>1. /\ running = {} /\ ~IsOpen(Spare)
      /\ roots' = Delete(roots, final, UNION {Owned(PoolDb(b)) : b \in gone})
      /\ db' = [h \in Handle |-> IF h \in H THEN Closed ELSE db[h]]
      /\ task = "finalizing" /\ task' = "idle"
      /\ UNCHANGED <<final, last, phase, block, running, applied>>
  BY DEF CleanUp
<1>2. H \in SUBSET Handle /\ Front \notin H /\ Work \notin H /\ Spare \notin H
  BY Handles
<1>3. UNION {Owned(PoolDb(b)) : b \in gone} = Taken(H)
  BY DEF Taken
<1> HIDE DEF H
<1>4. Moves(H) /\ Given(H) = {}
  BY <1>1, <1>2, <1>3, Destroying
<1>5. \A b \in Block : PoolDb(b) \in H => ~IsOpen(PoolDb(b))'
  BY <1>1, <1>2, Handles DEF IsOpen, Closed, PoolDb
<1>6. db'[Work] = db[Work] /\ db'[Spare] = db[Spare]
  BY <1>1, <1>2, Handles
<1>7. ~IsOpen(Work)' /\ ~IsOpen(Spare)'
  BY <1>1, <1>6 DEF IsOpen, IInv, Control
<1>8. block' \in Block
  BY <1>1 DEF IInv, TypeOK
<1>9. LowerAreClosed'
  <2> SUFFICES ASSUME NEW b \in Block, b \in LowerBlocks, Chain[b] \cap Blamed = {}
               PROVE  db'[PoolDb(b)].ver = None
    BY <1>1 DEF LowerAreClosed, LowerBlocks, IsOpen, PoolDb
  <2>1. b \in gone
    BY ChainsAreOrdered DEF CleanUp, ChainIsOrdered
  <2>2. PoolDb(b) \in H
    BY <2>1 DEF H
  <2> QED
    BY <2>2, <1>5 DEF IsOpen, PoolDb
<1> QED
  BY <1>1, <1>2, <1>4, <1>5, <1>7, <1>8, <1>9, MoveStep

\* The task's database becomes that of its block.
LEMMA AcceptStep ==
  ASSUME IInv, Accept
  PROVE  IInv'
<1> DEFINE u == db[Work].ver
           p == PoolDb(block)
           H == {Work, p}
<1>1. /\ task = "block" /\ running = {} /\ ~IsOpen(Spare)
      /\ roots[u].blocks \cup {block} = Chain[block]
      /\ roots' = [roots EXCEPT ![u] = [blocks |-> @.blocks \cup {block}, txs |-> {}]]
      /\ db' = [db EXCEPT ![Work] = Closed, ![p] = db[Work]]
      /\ task' = "idle" /\ block' = Root
      /\ UNCHANGED <<final, last, phase, running, applied>>
  BY DEF Accept, HashMatches
<1>2. /\ block \in Block /\ Root \in Block
      /\ p \in Handle /\ Work \in Handle /\ Spare \in Handle
      /\ Front \notin H /\ Spare \notin H /\ Work # p
  BY Handles, TreeIsAssumed DEF IInv, TypeOK, TreeAssumption
<1>3. u # None /\ db[p].ver = None
  BY <1>1 DEF IInv, Control, IsOpen
<1>4. db[Work] = [ver |-> u, backup |-> None] /\ db[p].backup = None
  BY <1>1, <1>2, Types, Backups
<1>5. u \in DOMAIN roots /\ u \in TempName
  BY <1>2, <1>3, OpenDbs DEF IsOpen, IInv, Named
<1> HIDE DEF p
<1>6. /\ db' \in [Handle -> Db]
      /\ db'[Work] = Closed /\ db'[p] = [ver |-> u, backup |-> None]
      /\ \A g \in Handle \ H : db'[g] = db[g]
      /\ Closed.ver = None /\ Closed.backup = None
  <2>1. Closed \in Db /\ Closed.ver = None /\ Closed.backup = None
    BY DEF Closed, Db
  <2>2. db \in [Handle -> Db]
    BY DEF IInv, TypeOK
  <2> QED
    BY <1>1, <1>2, <1>4, <2>1, <2>2
<1>7. Taken(H) = {u} /\ Given(H) = {u}
  <2>1. Owned(Work) = {u} /\ Owned(p) = {}
    BY <1>3, <1>4 DEF Owned
  <2>2. db'[Work].ver = None /\ db'[p].ver = u
    BY <1>6
  <2> HIDE DEF u
  <2> QED
    BY <1>3, <2>1, <2>2 DEF Taken, Given
<1>8. /\ DOMAIN roots' = DOMAIN roots
      /\ \A x \in DOMAIN roots \ {u} : roots'[x] = roots[x]
      /\ roots'[u] = StateAfter(block)
  BY <1>1, <1>5 DEF StateAfter
<1>9. StateAfter(block) \in Content
  BY <1>2, TreeIsAssumed DEF StateAfter, Content, TreeAssumption
<1>10. Moves(H)
  <2>1. \A g \in H : db'[g].backup = None /\ db'[g].ver \in {u, None}
    BY <1>6
  <2>2. None \notin DOMAIN roots
    BY Types
  <2>3. \A g, h \in H : db'[g].ver = db'[h].ver => db'[g].ver = None \/ g = h
    BY <1>3, <1>6
  <2>4. running = {} /\ UNCHANGED <<final, last, phase, running, applied>>
    BY <1>1
  <2>5. db' \in [Handle -> Db] /\ \A g \in Handle \ H : db'[g] = db[g]
    BY <1>6
  <2> HIDE DEF u, H
  <2>6. /\ DOMAIN roots' = (DOMAIN roots \ Taken(H)) \cup Given(H)
        /\ \A x \in DOMAIN roots \ Taken(H) : roots'[x] = roots[x]
    BY <1>5, <1>7, <1>8
  <2>7. \A g \in H : /\ db'[g].ver \in TempName \cup {None}
                     /\ db'[g].ver \in DOMAIN roots => db'[g].ver \in Taken(H)
    BY <1>5, <1>7, <2>1, <2>2
  <2> QED
    BY <2>1, <2>3, <2>4, <2>5, <2>6, <2>7 DEF Moves
<1>11. \A b \in Block : PoolDb(b) \in H /\ IsOpen(PoolDb(b))' =>
                          roots'[db'[PoolDb(b)].ver] = StateAfter(b)
  <2> SUFFICES ASSUME NEW b \in Block, PoolDb(b) \in H
               PROVE  roots'[db'[PoolDb(b)].ver] = StateAfter(b)
    OBVIOUS
  <2>1. b = block
    BY <1>2, Handles DEF p
  <2> QED
    BY <2>1, <1>6, <1>8 DEF p
<1>12. H \in SUBSET Handle
  BY <1>2
<1>13. ~IsOpen(Work)' /\ ~IsOpen(Spare)'
  BY <1>1, <1>2, <1>6 DEF IsOpen
<1>14. \A x \in Given(H) : roots'[x] \in Content
  BY <1>7, <1>8, <1>9
<1>15. task' = "idle" /\ block' \in Block /\ Front \notin H
  BY <1>1, <1>2
<1>16. LowerAreClosed'
  <2> SUFFICES ASSUME NEW b \in Block, b \in LowerBlocks, Chain[b] \cap Blamed = {}
               PROVE  db'[PoolDb(b)].ver = None
    BY <1>1 DEF LowerAreClosed, LowerBlocks, IsOpen, PoolDb
  <2>1. b # block
    BY <1>1 DEF IInv, Control
  <2>2. PoolDb(b) \in Handle \ H
    BY <1>2, <2>1, Handles DEF p
  <2> QED
    BY <1>1, <1>6, <2>2 DEF IInv, Control, LowerAreClosed, IsOpen
<1> HIDE DEF H
<1> QED
  BY <1>10, <1>11, <1>12, <1>13, <1>14, <1>15, <1>16, MoveStep

\* The database of the task goes back to the copy, which is copied again.
LEMMA RollBackStep ==
  ASSUME IInv, RollBack
  PROVE  IInv'
<1> DEFINE u == db[Work].ver
           s == db[Spare].ver
           H == {Work, Spare}
<1>1. /\ task = "scratch" /\ running = {} /\ u # None /\ s # None
      /\ UNCHANGED <<final, last, phase, task, block, running, applied>>
  BY DEF RollBack, IsOpen, IInv, Control
<1>2. Work \in Handle /\ Spare \in Handle /\ Work # Spare /\ Front \notin H
  BY Handles
<1>3. /\ u \in DOMAIN roots /\ s \in DOMAIN roots /\ u # s
      /\ u # final /\ s # final
      /\ db[Work] = [ver |-> u, backup |-> None]
      /\ db[Spare] = [ver |-> s, backup |-> None]
  BY <1>1, <1>2, OpenDbs, Types, Backups DEF IsOpen
<1>4. PICK v \in Unused(DOMAIN roots, "copy", Number[last]) :
        LET copied == Clone(roots, s, v)
            moved  == Delete(RootsAfterSet(copied, final, db[Work], v), final, Owned(Spare))
            work   == DbAfterSet(db[Work], v)
        IN  /\ CanClone(roots, s, v)
            /\ \E w \in Unused(DOMAIN moved, "copy", Number[last]) :
                 /\ CanClone(moved, work.ver, w)
                 /\ roots' = Clone(moved, work.ver, w)
                 /\ db' = [db EXCEPT ![Work] = work, ![Spare] = Opened(w)]
  BY DEF RollBack
<1>5. v \in TempName /\ v \notin DOMAIN roots /\ v # None
  BY Fresh, Types, Names DEF Prefix
<1> DEFINE copied == Clone(roots, s, v)
           left   == RootsAfterSet(copied, final, db[Work], v)
           moved  == Delete(left, final, Owned(Spare))
<1>6. /\ ~Refuses(db[Work], v)
      /\ DbAfterSet(db[Work], v) = [ver |-> v, backup |-> None]
      /\ Owned(Spare) = {s}
  BY <1>1, <1>3, <1>5 DEF DbAfterSet, Refuses, Owned
<1> DEFINE work == DbAfterSet(db[Work], v)
<1>7. PICK w \in Unused(DOMAIN moved, "copy", Number[last]) :
        /\ CanClone(moved, work.ver, w)
        /\ roots' = Clone(moved, work.ver, w)
        /\ db' = [db EXCEPT ![Work] = work, ![Spare] = Opened(w)]
  BY <1>4
<1>8. /\ DOMAIN copied = DOMAIN roots \cup {v}
      /\ copied[v] = roots[s]
      /\ \A x \in DOMAIN roots : copied[x] = roots[x]
  BY <1>4, Cloning
<1> HIDE DEF copied
<1>9. /\ DOMAIN left = (DOMAIN roots \cup {v}) \ {u}
      /\ \A x \in DOMAIN left : left[x] = copied[x]
  BY <1>3, <1>6, <1>8 DEF RootsAfterSet, Delete
<1> HIDE DEF left
<1>10. /\ DOMAIN moved = (DOMAIN roots \cup {v}) \ {u, s}
       /\ \A x \in DOMAIN moved : moved[x] = left[x]
  BY <1>3, <1>6, <1>9 DEF Delete
<1> HIDE DEF moved
<1>11. w \in TempName /\ w \notin DOMAIN moved /\ w # None
  <2>1. w \in TempName /\ w \notin DOMAIN moved
    BY Types DEF Unused, TempName, Prefix
  <2> QED
    BY <2>1, Names
<1>12. /\ DOMAIN roots' = DOMAIN moved \cup {w}
       /\ roots'[w] = moved[v]
       /\ \A x \in DOMAIN moved : roots'[x] = moved[x]
  <2>1. CanClone(moved, v, w) /\ roots' = Clone(moved, v, w)
    BY <1>6, <1>7
  <2>2. /\ DOMAIN Clone(moved, v, w) = DOMAIN moved \cup {w}
        /\ Clone(moved, v, w)[w] = moved[v]
        /\ \A x \in DOMAIN moved : Clone(moved, v, w)[x] = moved[x]
    BY <2>1, Cloning
  <2> QED
    BY <2>1, <2>2
<1>13. v # u /\ v # s /\ v # w
  BY <1>3, <1>5, <1>10, <1>11
<1>14. /\ db' \in [Handle -> Db]
       /\ db'[Work].ver = v /\ db'[Work].backup = None
       /\ db'[Spare].ver = w /\ db'[Spare].backup = None
       /\ \A g \in Handle \ H : db'[g] = db[g]
  <2>1. /\ Opened(w) \in Db /\ Opened(w).ver = w /\ Opened(w).backup = None
        /\ [ver |-> v, backup |-> None] \in Db
    BY <1>5, <1>11, Names DEF Opened, Db
  <2>2. db \in [Handle -> Db]
    BY DEF IInv, TypeOK
  <2>3. db' = [db EXCEPT ![Work] = [ver |-> v, backup |-> None], ![Spare] = Opened(w)]
    BY <1>6, <1>7
  <2> QED
    BY <1>2, <2>1, <2>2, <2>3
<1>15. Taken(H) = {u, s} /\ Given(H) = {v, w}
  <2>1. Owned(Work) = {u} /\ Owned(Spare) = {s}
    BY <1>1, <1>3 DEF Owned
  <2> HIDE DEF u, s
  <2> QED
    BY <1>5, <1>11, <1>14, <2>1 DEF Taken, Given
<1>16. /\ DOMAIN roots' = (DOMAIN roots \ {u, s}) \cup {v, w}
       /\ \A x \in DOMAIN roots \ {u, s} : roots'[x] = roots[x]
       /\ roots'[v] = roots[s] /\ roots'[w] = roots[s]
  BY <1>8, <1>9, <1>10, <1>12, <1>13
<1>17. Moves(H)
  <2>1. w \in DOMAIN roots => w \in {u, s}
    BY <1>10, <1>11
  <2> HIDE DEF u, s
  <2> QED
    BY <1>1, <1>5, <1>11, <1>13, <1>14, <1>15, <1>16, <2>1 DEF Moves
<1>18. \A b \in Block : PoolDb(b) \notin H /\ db'[PoolDb(b)] = db[PoolDb(b)]
  BY <1>14, Handles
<1>19. \A x \in Given(H) : roots'[x] \in Content
  BY <1>3, <1>15, <1>16, Types
<1>20. IsOpen(Work)' /\ block \in Block /\ H \in SUBSET Handle
  BY <1>2, <1>5, <1>14 DEF IsOpen, IInv, TypeOK
<1>21. LowerAreClosed'
  BY <1>1, <1>18, LowerKept
<1> HIDE DEF H
<1> QED
  BY <1>1, <1>2, <1>17, <1>18, <1>19, <1>20, <1>21, MoveStep

-----------------------------------------------------------------------------
(* Finalization.                                                           *)

\* The names of the new final version and of the new node.db are new.
LEMMA NextNames ==
  ASSUME IInv, NEW b \in Block, FinalizeBlock(b)
  PROVE  /\ Number[b] \in Nat
         /\ FinalOf(Number[b]) \notin DOMAIN roots
         /\ NodeOf(Number[b]) \notin DOMAIN roots
         /\ FrontName # NodeOf(Number[b])
<1> DEFINE n == Number[b]
<1>1. n \in Nat /\ Number[last] \in Nat
  BY Types, TreeIsAssumed DEF TreeAssumption
<1>2. phase # "genesis" => n = Number[last] + 1
  BY TreeIsAssumed DEF FinalizeBlock, TreeAssumption
<1> HIDE DEF n
<1>3. FrontName # NodeOf(n)
  <2>1. Number[last] # n \/ phase = "genesis"
    BY <1>1, <1>2
  <2> QED
    BY <1>1, <2>1, Names DEF FrontName
<1>4. ASSUME NEW v \in DOMAIN roots
      PROVE  v # FinalOf(n) /\ v # NodeOf(n)
  <2>1. v \in {Empty, Start, final, FrontName} \cup TempName
    BY Types DEF IInv, Named
  <2>2. final # FinalOf(n) /\ final # NodeOf(n)
    <3>1. CASE phase = "genesis"
      BY <3>1, <1>1, Names DEF IInv, Named
    <3>2. CASE phase # "genesis"
      <4>1. final = FinalOf(Number[last]) /\ Number[last] # n
        BY <3>2, <1>1, <1>2 DEF IInv, Named
      <4> QED
        BY <4>1, <1>1, Names
    <3> QED
      BY <3>1, <3>2
  <2>3. FrontName # FinalOf(n)
    BY <1>1, Names DEF FrontName
  <2>4. FinalOf(n) \notin TempName \cup {Empty, Start} /\ NodeOf(n) \notin TempName \cup {Empty, Start}
    BY <1>1, Names
  <2> QED
    BY <1>3, <2>1, <2>2, <2>3, <2>4
<1> QED
  BY <1>1, <1>3, <1>4 DEF n

(***************************************************************************)
(* cloneAndFinalizeVersion: the state of the block is copied to the new    *)
(* final version and from there to node.db; the previous versions of both  *)
(* are gone.                                                               *)
(***************************************************************************)
LEMMA Finalizing ==
  ASSUME IInv, NEW b \in Block, FinalizeBlock(b)
  PROVE  /\ final' = FinalOf(Number[b])
         /\ db' = [db EXCEPT ![Front] = [ver |-> NodeOf(Number[b]), backup |-> None]]
         /\ DOMAIN roots' = (DOMAIN roots \ {final, db[Front].ver})
                              \cup {FinalOf(Number[b]), NodeOf(Number[b])}
         /\ roots'[FinalOf(Number[b])] = StateAfter(b)
         /\ roots'[NodeOf(Number[b])] = StateAfter(b)
         /\ \A x \in DOMAIN roots \ {final, db[Front].ver} : roots'[x] = roots[x]
<1> DEFINE n == Number[b]
           v == db[PoolDb(b)].ver
           u == db[Front].ver
           F == FinalOf(n)
           N == NodeOf(n)
           one   == Clone(roots, v, F)
           two   == Delete(one, F, {final})
           three == Clone(two, F, N)
           four  == RootsAfterSet(three, F, db[Front], N)
           r     == CloneAndFinalize(v, n)
<1>1. /\ running = {} /\ v # None
      /\ roots' = r.roots /\ final' = r.final
      /\ db' = [db EXCEPT ![Front] = r.db]
  BY DEF FinalizeBlock, IsOpen
<1>2. /\ n \in Nat /\ F \notin DOMAIN roots /\ N \notin DOMAIN roots
      /\ FrontName # N /\ F # N
  BY NextNames, Names
<1>3. PoolDb(b) \in Handle /\ PoolDb(b) # Front /\ Front \in Handle
  BY Handles
<1>4. /\ v \in DOMAIN roots /\ v # final /\ v # u /\ roots[v] = StateAfter(b)
  BY <1>1, <1>3, OpenDbs DEF IsOpen, IInv, PoolIsExact
<1>5. /\ u \in DOMAIN roots /\ u # None /\ u # N /\ u # final /\ u # F
      /\ db[Front] = [ver |-> u, backup |-> None]
      /\ final \in DOMAIN roots /\ N # None
  <2>1. IsOpen(Front) /\ db[Front].backup = None
    BY <1>1, <1>3, Backups DEF IInv, FrontHolds
  <2>2. db[Front] = [ver |-> u, backup |-> None] /\ u # None
    BY <1>3, <2>1, Types DEF IsOpen
  <2>3. u \in DOMAIN roots /\ u # final
    BY <1>3, <2>1, OpenDbs
  <2>4. final \in DOMAIN roots
    BY DEF IInv, FinalIsOfLastBlock
  <2>5. N # None
    BY <1>2, Names
  <2> QED
    BY <1>2, <2>2, <2>3, <2>4, <2>5
<1>6. CanClone(roots, v, F)
  BY <1>2, <1>4 DEF CanClone
<1>7. /\ DOMAIN one = DOMAIN roots \cup {F}
      /\ one[F] = roots[v]
      /\ \A x \in DOMAIN roots : one[x] = roots[x]
  <2> HIDE DEF v, F
  <2> QED
    BY <1>6, Cloning
<1>8. FinalAfter(one, final, F) = F
  BY <1>7 DEF FinalAfter
<1>9. r = SyncFront(two, F, N)
  <2>1. r = SyncFront(Delete(one, FinalAfter(one, final, F), {final}),
                      FinalAfter(one, final, F), N)
    BY <1>6, Zenon DEF CloneAndFinalize
  <2> QED
    BY <1>8, <2>1
<1> HIDE DEF one
<1>10. /\ DOMAIN two = (DOMAIN roots \ {final}) \cup {F}
       /\ \A x \in DOMAIN two : two[x] = one[x]
  BY <1>2, <1>5, <1>7 DEF Delete
<1>11. r = [roots |-> four, final |-> F, db |-> DbAfterSet(db[Front], N)]
  BY <1>5, <1>9 DEF SyncFront
<1> HIDE DEF two
<1>12. /\ DOMAIN three = DOMAIN two \cup {N}
       /\ three[N] = two[F]
       /\ \A x \in DOMAIN two : three[x] = two[x]
  <2>1. CanClone(two, F, N)
    BY <1>2, <1>10 DEF CanClone
  <2> QED
    BY <2>1, Cloning
<1> HIDE DEF three
<1>13. DbAfterSet(db[Front], N) = [ver |-> N, backup |-> None] /\ ~Refuses(db[Front], N)
  BY <1>5 DEF DbAfterSet, Refuses
<1>14. /\ DOMAIN four = DOMAIN three \ {u}
       /\ \A x \in DOMAIN four : four[x] = three[x]
  <2>1. four = Delete(three, F, {u})
    BY <1>13 DEF RootsAfterSet
  <2> QED
    BY <1>5, <2>1 DEF Delete
<1> HIDE DEF four, r
<1>15. roots' = four /\ final' = F /\ db' = [db EXCEPT ![Front] = [ver |-> N, backup |-> None]]
  BY <1>1, <1>11, <1>13
<1>16. DOMAIN four = (DOMAIN roots \ {final, u}) \cup {F, N}
  BY <1>5, <1>10, <1>12, <1>14
<1>17. four[F] = StateAfter(b) /\ four[N] = StateAfter(b)
  BY <1>4, <1>5, <1>7, <1>10, <1>12, <1>14, <1>16
<1>18. \A x \in DOMAIN roots \ {final, u} : four[x] = roots[x]
  BY <1>7, <1>10, <1>12, <1>14, <1>16
<1> QED
  BY <1>15, <1>16, <1>17, <1>18

\* A block becomes final, and the versions of the front database move.
LEMMA FinalizeStep ==
  ASSUME IInv, NEW b \in Block, FinalizeBlock(b)
  PROVE  IInv'
<1> DEFINE n == Number[b]
           u == db[Front].ver
           F == FinalOf(n)
           N == NodeOf(n)
<1>1. /\ final' = F
      /\ db' = [db EXCEPT ![Front] = [ver |-> N, backup |-> None]]
      /\ DOMAIN roots' = (DOMAIN roots \ {final, u}) \cup {F, N}
      /\ roots'[F] = StateAfter(b) /\ roots'[N] = StateAfter(b)
      /\ \A x \in DOMAIN roots \ {final, u} : roots'[x] = roots[x]
  BY Finalizing
<1>2. /\ n \in Nat /\ F \notin DOMAIN roots /\ N \notin DOMAIN roots /\ F # N
      /\ F \in Name /\ N \in Name
      /\ F \notin TempName \cup {Empty, Start, None}
      /\ N \notin TempName \cup {Empty, Start, None}
  BY NextNames, Names
<1>3. /\ running = {} /\ running' = {} /\ last' = b /\ phase' = "running"
      /\ task \in {"idle", "finalizing"} /\ task' \in {"idle", "finalizing"}
      /\ ~IsOpen(Spare) /\ applied' = {} /\ block' = block
  BY DEF FinalizeBlock
<1>4. /\ Front \in Handle /\ u # None /\ u \in DOMAIN roots
      /\ db[Front].backup = None
      /\ u \notin {final, Empty, Start}
      /\ \A g \in Handle : g # Front => u # db[g].ver /\ u # db[g].backup
  <2>1. Front \in Handle /\ IsOpen(Front) /\ db[Front].backup = None
    BY <1>3, Handles, Backups DEF IInv, FrontHolds
  <2> QED
    BY <2>1, OpenDbs DEF IsOpen
<1> HIDE DEF n, F, N
<1>5. /\ db \in [Handle -> Db] /\ [ver |-> N, backup |-> None] \in Db
      /\ db' \in [Handle -> Db]
      /\ db'[Front].ver = N /\ db'[Front].backup = None
      /\ \A g \in Handle : g # Front => db'[g] = db[g]
      /\ \A g \in Handle : db[g].backup = None /\ db'[g].backup = None
  <2>1. db \in [Handle -> Db] /\ [ver |-> N, backup |-> None] \in Db
    BY <1>2 DEF IInv, TypeOK, Db
  <2>2. /\ db' \in [Handle -> Db]
        /\ db'[Front].ver = N /\ db'[Front].backup = None
        /\ \A g \in Handle : g # Front => db'[g] = db[g]
    BY <1>1, <1>4, <2>1
  <2>3. \A g \in Handle : db[g].backup = None
    BY <1>3, Backups
  <2> QED
    BY <2>1, <2>2, <2>3
<1>6. \A g \in Handle : g # Front /\ db[g].ver # None =>
        /\ db[g].ver \in DOMAIN roots' /\ roots'[db[g].ver] = roots[db[g].ver]
        /\ db[g].ver \notin {F, N, final, Empty, Start}
  <2> SUFFICES ASSUME NEW g \in Handle, g # Front, db[g].ver # None
               PROVE  /\ db[g].ver \in DOMAIN roots'
                      /\ roots'[db[g].ver] = roots[db[g].ver]
                      /\ db[g].ver \notin {F, N, final, Empty, Start}
    OBVIOUS
  <2>1. db[g].ver \in DOMAIN roots /\ db[g].ver \notin {final, Empty, Start} /\ db[g].ver # u
    BY <1>4, OpenDbs DEF IsOpen
  <2> QED
    BY <1>1, <1>2, <2>1
<1>7. StateAfter(b) \in Content
  BY TreeIsAssumed DEF StateAfter, Content, TreeAssumption
<1>8. TypeOK'
  <2>1. DOMAIN roots' \subseteq Name
    BY <1>1, <1>2 DEF IInv, TypeOK
  <2>2. \A v \in DOMAIN roots' : roots'[v] \in Content
    BY <1>1, <1>7 DEF IInv, TypeOK
  <2> QED
    BY <1>1, <1>2, <1>3, <1>5, <2>1, <2>2 DEF IInv, TypeOK
<1>9. FinalIsOfLastBlock'
  BY <1>1, <1>3 DEF FinalIsOfLastBlock, StateAfter
<1>10. PoolIsExact'
  <2> SUFFICES ASSUME NEW a \in Block, db'[PoolDb(a)].ver # None
               PROVE  /\ db'[PoolDb(a)].ver \in DOMAIN roots'
                      /\ roots'[db'[PoolDb(a)].ver] = StateAfter(a)
    BY DEF PoolIsExact, IsOpen, StateAfter
  <2>1. PoolDb(a) \in Handle /\ PoolDb(a) # Front
    BY Handles
  <2> QED
    BY <2>1, <1>5, <1>6 DEF IInv, PoolIsExact, IsOpen
<1>11. Owns'
  <2> SUFFICES ASSUME NEW k \in Handle, db'[k].ver # None
               PROVE  /\ db'[k].ver \in DOMAIN roots'
                      /\ db'[k].ver \notin {F, Empty, Start}
                      /\ \A g \in Handle : g # k => db'[k].ver # db'[g].ver
    BY <1>1, <1>5 DEF Owns, Owned
  <2>1. CASE k = Front
    BY <2>1, <1>1, <1>2, <1>5, <1>6
  <2>2. CASE k # Front
    <3>1. \A g \in Handle : g # k => db[k].ver # db[g].ver
      BY <2>2, <1>5, OpenDbs DEF IsOpen
    <3> QED
      BY <2>2, <3>1, <1>5, <1>6
  <2> QED
    BY <2>1, <2>2
<1>12. Named'
  <2>1. final' = IF phase' = "genesis" THEN Start ELSE FinalOf(Number[last'])
    BY <1>1, <1>3 DEF F, n
  <2>2. FrontName' = N
    BY <1>3 DEF FrontName, N, n
  <2>3. \A h \in Handle : /\ db'[h].ver \in TempName \cup {None} \cup (IF h = Front THEN {N} ELSE {})
                          /\ db'[h].backup \in TempName \cup {None}
    BY <1>5 DEF IInv, Named
  <2>4. ASSUME NEW v \in DOMAIN roots'
        PROVE  v \in {Empty, Start, F} \/ \E g \in Handle : v \in {db'[g].ver, db'[g].backup}
    <3>1. CASE v \in {F, N}
      BY <3>1, <1>4, <1>5
    <3>2. CASE v \notin {F, N}
      <4>1. v \in DOMAIN roots /\ v # final /\ v # u
        BY <3>2, <1>1
      <4>2. v # None
        BY <4>1, Types
      <4> QED
        BY <4>1, <4>2, <1>5 DEF IInv, Named
    <3> QED
      BY <3>1, <3>2
  <2> QED
    BY <2>1, <2>2, <2>3, <2>4, <1>1 DEF Named
<1>13. FrontHolds'
  BY <1>1, <1>2, <1>3, <1>5 DEF FrontHolds, FrontBlocks, IsOpen, StateAfter
<1>14. Control'
  <2>1. IsOpen(Work)' <=> IsOpen(Work)
    BY <1>5, Handles DEF IsOpen
  <2>2. ~IsOpen(Spare)'
    BY <1>3, <1>5, Handles DEF IsOpen
  <2>3. ASSUME task' # "finalizing"
        PROVE  LowerAreClosed'
    <3>1. last' = Root
      BY <1>3, <2>3 DEF FinalizeBlock
    <3>2. \A a \in Block : Number[a] \in Nat /\ Number[Root] \in Nat /\ Number[Root] <= Number[a]
      BY TreeIsAssumed, ChainsAreOrdered DEF TreeAssumption, ChainIsOrdered
    <3>3. LowerBlocks' = {}
      BY <3>1, <3>2 DEF LowerBlocks
    <3> QED
      BY <3>3 DEF LowerAreClosed
  <2> QED
    BY <1>3, <1>5, <2>1, <2>2, <2>3 DEF IInv, Control
<1> QED
  BY <1>8, <1>9, <1>10, <1>11, <1>12, <1>13, <1>14 DEF IInv

-----------------------------------------------------------------------------
(* The inductive invariant.                                                *)

\* The first state of a node that starts at genesis ...
LEMMA InitFreshIInv == InitFresh => IInv
<1> SUFFICES ASSUME InitFresh PROVE IInv
  OBVIOUS
<1>1. /\ phase = "genesis" /\ final = Start
      /\ roots = [v \in {Empty, Start, NodeOf(-1)} |-> Nothing]
      /\ db = [h \in Handle |-> IF h = Front THEN Opened(NodeOf(-1)) ELSE Closed]
      /\ last = Root /\ task = "idle" /\ block = Root /\ running = {} /\ applied = {}
      /\ Root \in Block
  BY TreeIsAssumed DEF InitFresh, Common, TreeAssumption
<1>2. /\ Opened(NodeOf(-1)) = [ver |-> NodeOf(-1), backup |-> None]
      /\ Closed = [ver |-> None, backup |-> None]
      /\ NodeOf(-1) \in Name /\ NodeOf(-1) \notin {Empty, Start, None}
      /\ Empty \in Name /\ Start \in Name /\ Empty # Start
  BY Names DEF Opened, Closed
<1>3. /\ db[Front].ver = NodeOf(-1) /\ db[Front].backup = None
      /\ \A h \in Handle : h # Front => db[h].ver = None /\ db[h].backup = None
      /\ \A h \in Handle : db[h] \in Db
  BY <1>1, <1>2, Handles DEF Db
<1>4. Nothing \in Content
  BY DEF Nothing, Content
<1>5. TypeOK
  <2>1. DOMAIN roots \subseteq Name /\ \A v \in DOMAIN roots : roots[v] \in Content
    BY <1>1, <1>2, <1>4
  <2>2. db \in [Handle -> Db]
    BY <1>1, <1>3
  <2> QED
    BY <1>1, <1>2, <2>1, <2>2 DEF TypeOK
<1>6. FinalIsOfLastBlock
  BY <1>1 DEF FinalIsOfLastBlock
<1>7. PoolIsExact
  BY <1>3, Handles DEF PoolIsExact, IsOpen
<1>8. Owns
  BY <1>1, <1>2, <1>3 DEF Owns, Owned
<1>9. Named
  BY <1>1, <1>3, Handles DEF Named, FrontName
<1>10. FrontHolds
  BY <1>1, <1>2, <1>3 DEF FrontHolds, FrontBlocks, IsOpen, Nothing
<1>11. Control
  <2>1. LowerAreClosed
    BY <1>3, Handles DEF LowerAreClosed, LowerBlocks, IsOpen
  <2> QED
    BY <1>1, <1>3, <2>1, Handles DEF Control, IsOpen
<1> QED
  BY <1>5, <1>6, <1>7, <1>8, <1>9, <1>10, <1>11 DEF IInv

\* ... and of one that starts from a snapshot.
LEMMA InitLoadedIInv == InitLoaded => IInv
<1> SUFFICES ASSUME InitLoaded PROVE IInv
  OBVIOUS
<1> DEFINE F == FinalOf(Number[Root])
           N == NodeOf(-1)
<1>1. PICK v \in Unused({}, "block", Number[Root]) :
        /\ roots = [x \in {Empty, Start, N, final, v} |->
                      IF x \in {final, v} THEN StateAfter(Root) ELSE Nothing]
        /\ db = [h \in Handle |-> CASE h = Front -> Opened(N)
                                    [] h = PoolDb(Root) -> Opened(v)
                                    [] OTHER -> Closed]
  BY DEF InitLoaded
<1>2. /\ phase = "loaded" /\ final = F
      /\ last = Root /\ task = "idle" /\ block = Root /\ running = {} /\ applied = {}
      /\ Root \in Block /\ Number[Root] \in Nat
  BY TreeIsAssumed DEF InitLoaded, Common, TreeAssumption
<1>3. v \in TempName
  BY <1>2, Fresh DEF Prefix
<1>4. /\ Opened(N) = [ver |-> N, backup |-> None]
      /\ Opened(v) = [ver |-> v, backup |-> None]
      /\ Closed = [ver |-> None, backup |-> None]
  BY DEF Opened, Closed
<1>5. /\ {N, F, v, Empty, Start} \subseteq Name
      /\ N \notin {Empty, Start, None, v} /\ F \notin {Empty, Start, None, N, v}
      /\ v \notin {Empty, Start, None}
  BY <1>2, <1>3, Names
<1> HIDE DEF N, F
<1>6. PoolDb(Root) \in Handle /\ PoolDb(Root) # Front /\ Front \in Handle
  BY <1>2, Handles
<1>7. /\ db[Front] = [ver |-> N, backup |-> None]
      /\ db[PoolDb(Root)] = [ver |-> v, backup |-> None]
      /\ \A h \in Handle : h \notin {Front, PoolDb(Root)} => db[h] = [ver |-> None, backup |-> None]
  BY <1>1, <1>4, <1>6
<1>8. /\ DOMAIN roots = {Empty, Start, N, F, v}
      /\ roots[F] = StateAfter(Root) /\ roots[v] = StateAfter(Root)
      /\ roots[N] = Nothing /\ roots[Empty] = Nothing /\ roots[Start] = Nothing
  BY <1>1, <1>2, <1>5
<1>9. TypeOK
  <2>1. StateAfter(Root) \in Content /\ Nothing \in Content
    BY TreeIsAssumed DEF StateAfter, Nothing, Content, TreeAssumption
  <2>2. \A h \in Handle : db[h] \in Db
    BY <1>5, <1>7 DEF Db
  <2>3. db \in [Handle -> Db]
    BY <1>1, <2>2
  <2>4. DOMAIN roots \subseteq Name /\ \A x \in DOMAIN roots : roots[x] \in Content
    BY <1>5, <1>8, <2>1
  <2> QED
    BY <1>2, <1>5, <2>3, <2>4 DEF TypeOK
<1>10. FinalIsOfLastBlock
  BY <1>2, <1>8 DEF FinalIsOfLastBlock
<1>11. PoolIsExact
  <2> SUFFICES ASSUME NEW b \in Block, IsOpen(PoolDb(b))
               PROVE  db[PoolDb(b)].ver \in DOMAIN roots /\ roots[db[PoolDb(b)].ver] = StateAfter(b)
    BY DEF PoolIsExact
  <2>1. PoolDb(b) = PoolDb(Root)
    BY <1>7, Handles DEF IsOpen
  <2>2. b = Root
    BY <2>1, <1>2, Handles
  <2> QED
    BY <2>2, <1>7, <1>8
<1>12. Owns
  BY <1>2, <1>5, <1>6, <1>7, <1>8 DEF Owns, Owned
<1>13. Named
  <2>1. FrontName = N /\ final = F
    BY <1>2 DEF FrontName, N
  <2>2. \A h \in Handle : /\ db[h].ver \in TempName \cup {None} \cup (IF h = Front THEN {N} ELSE {})
                          /\ db[h].backup \in TempName \cup {None}
    BY <1>3, <1>6, <1>7
  <2>3. \A x \in DOMAIN roots : x \in {Empty, Start, final} \/ \E h \in Handle : x \in {db[h].ver, db[h].backup}
    BY <2>1, <1>6, <1>7, <1>8
  <2>4. final = IF phase = "genesis" THEN Start ELSE FinalOf(Number[last])
    BY <1>2 DEF F
  <2> QED
    BY <2>1, <2>2, <2>3, <2>4 DEF Named
<1>14. FrontHolds
  BY <1>2, <1>5, <1>7, <1>8 DEF FrontHolds, FrontBlocks, IsOpen, Nothing
<1>15. Control
  <2>1. \A h \in Handle : db[h].backup = None
    BY <1>7
  <2>2. ~IsOpen(Work) /\ ~IsOpen(Spare)
    BY <1>2, <1>7, Handles DEF IsOpen
  <2>3. LowerAreClosed
    <3>1. \A b \in Block : b # Root => ~IsOpen(PoolDb(b))
      BY <1>2, <1>7, Handles DEF IsOpen
    <3> QED
      BY <1>2, <3>1 DEF LowerAreClosed, LowerBlocks
  <2> QED
    BY <1>2, <2>1, <2>2, <2>3 DEF Control
<1> QED
  BY <1>9, <1>10, <1>11, <1>12, <1>13, <1>14, <1>15 DEF IInv

\* Every step preserves the invariant.
LEMMA NextIInv == IInv /\ [Next]_vars => IInv'
<1> SUFFICES ASSUME IInv, [Next]_vars PROVE IInv'
  OBVIOUS
<1>1. ASSUME NEW h \in Handle, NEW t \in Tx,
             Begin(h, t) \/ Succeed(h, t) \/ Fail(h, t) \/ FailOnFee(h, t) \/ ExecuteUnsaved(h, t)
      PROVE  IInv'
  BY <1>1, BeginStep, SucceedStep, FailStep, FailOnFeeStep, ExecuteUnsavedStep
<1>2. ASSUME NEW b \in Block, OpenForBlock(b) \/ FinalizeBlock(b)
      PROVE  IInv'
  BY <1>2, OpenForBlockStep, FinalizeStep
<1>3. ASSUME NEW v \in DOMAIN roots, OpenScratch(v)
      PROVE  IInv'
  BY <1>3, OpenScratchStep
<1>4. ASSUME NEW h \in {Front, Work}, OpenSpare(h)
      PROVE  IInv'
  BY <1>4, OpenSpareStep
<1>5. ASSUME CloseSpare \/ RollBack \/ Discard \/ Accept
      PROVE  IInv'
  BY <1>5, CloseSpareStep, RollBackStep, DiscardStep, AcceptStep
<1>6. ASSUME NEW gone \in SUBSET Block, CleanUp(gone)
      PROVE  IInv'
  BY <1>6, CleanUpStep
<1>7. CASE UNCHANGED vars
  <2>1. /\ roots' = roots /\ final' = final /\ db' = db /\ last' = last /\ phase' = phase
        /\ task' = task /\ block' = block /\ running' = running /\ applied' = applied
    BY <1>7 DEF vars
  <2>2. TypeOK' /\ FinalIsOfLastBlock' /\ PoolIsExact'
    BY <2>1 DEF IInv, TypeOK, FinalIsOfLastBlock, PoolIsExact, IsOpen, StateAfter
  <2>3. Owns' /\ Named'
    BY <2>1 DEF IInv, Owns, Owned, Named, FrontName
  <2>4. FrontHolds' /\ Control'
    BY <2>1 DEF IInv, FrontHolds, FrontBlocks, Control, LowerAreClosed, LowerBlocks, IsOpen, Executes
  <2> QED
    BY <2>2, <2>3, <2>4 DEF IInv
<1> QED
  BY <1>1, <1>2, <1>3, <1>4, <1>5, <1>6, <1>7 DEF Next

(***************************************************************************)
(* The inductive invariant holds: every database owns versions that no one *)
(* else owns, the final version and the names follow the last block, and a *)
(* transaction in progress has its backup.                                 *)
(***************************************************************************)
THEOREM InductiveInvariant == Spec => []IInv
<1>1. Init => IInv
  BY InitFreshIInv, InitLoadedIInv DEF Init
<1> QED
  BY <1>1, NextIInv, PTL DEF Spec

-----------------------------------------------------------------------------
(* What a reader should know of, from the inductive invariant.             *)

(***************************************************************************)
(* The final version exists and is the state of the last block, with       *)
(* nothing executed on top of it, for every block tree and every order of  *)
(* the tasks (cloneAndFinalizeVersion, isFinalVersion).                    *)
(***************************************************************************)
THEOREM FinalVersion == Spec => [](TypeOK /\ FinalIsOfLastBlock)
<1>1. IInv => TypeOK /\ FinalIsOfLastBlock
  BY DEF IInv
<1> QED
  BY <1>1, InductiveInvariant, PTL

(***************************************************************************)
(* Versions have names of the forms that the code makes, and databases,    *)
(* tasks and transactions keep their types (createUniqueVersionName,       *)
(* StateManager, DB).                                                      *)
(***************************************************************************)
THEOREM VersionsTypeOK == Spec => []TypeOK
<1>1. IInv => TypeOK
  BY DEF IInv
<1> QED
  BY <1>1, InductiveInvariant, PTL

(***************************************************************************)
(* The databases of pending blocks hold the states of their blocks         *)
(* (validateStateProofHash, addToHashToDbMap).                             *)
(***************************************************************************)
THEOREM PoolExact == Spec => []PoolIsExact
<1>1. IInv => PoolIsExact
  BY DEF IInv
<1> QED
  BY <1>1, InductiveInvariant, PTL

(***************************************************************************)
(* No version is deleted under a database, because no two own the same one *)
(* (setStateVersion, deleteVersion, destroyDb).                            *)
(***************************************************************************)
THEOREM NothingShared == Spec => []NothingIsShared
<1>1. ASSUME IInv PROVE NothingIsShared
  <2> SUFFICES ASSUME NEW h \in Handle
               PROVE  /\ Owned(h) \subseteq DOMAIN roots \ {final, Empty, Start}
                      /\ \A g \in Handle \ {h} : Owned(g) \cap Owned(h) = {}
                      /\ db[h].ver = db[h].backup => ~IsOpen(h)
    BY DEF NothingIsShared
  <2> QED
    BY <1>1, OpenDbs DEF IInv, Owns, Owned, IsOpen
<1> QED
  BY <1>1, InductiveInvariant, PTL

(***************************************************************************)
(* What a client was told of its transactions is what node.db holds:       *)
(* nothing of one that failed, but for the fee (backupDb, restoreDb,       *)
(* collectFee, syncDbAndNonce).                                            *)
(***************************************************************************)
THEOREM FrontReported == Spec => []FrontIsAsReported
<1>1. ASSUME IInv PROVE FrontIsAsReported
  <2> SUFFICES ASSUME running = {}
               PROVE  /\ IsOpen(Front) /\ db[Front].ver \in DOMAIN roots
                      /\ roots[db[Front].ver] = [blocks |-> FrontBlocks, txs |-> applied]
    BY DEF FrontIsAsReported, FrontBlocks
  <2>1. Front \in Handle /\ db[Front].backup = None
    BY <1>1, Backups, Handles
  <2> QED
    BY <1>1, <2>1, OpenDbs DEF IInv, FrontHolds
<1> QED
  BY <1>1, InductiveInvariant, PTL

(***************************************************************************)
(* Every version belongs to a database or is final, so the memory of a     *)
(* node is bounded by its open databases (destroyDb, deleteVersion).       *)
(***************************************************************************)
THEOREM NoLeaks == Spec => []NothingLeaks
<1>1. ASSUME IInv PROVE NothingLeaks
  <2>1. DOMAIN roots \subseteq {Empty, Start, final} \cup UNION {Owned(h) : h \in Handle}
    <3> SUFFICES ASSUME NEW v \in DOMAIN roots, v \notin {Empty, Start, final}
                 PROVE  \E h \in Handle : v \in Owned(h)
      OBVIOUS
    <3>1. PICK h \in Handle : v \in {db[h].ver, db[h].backup}
      BY <1>1 DEF IInv, Named
    <3> QED
      BY <1>1, <3>1, Types DEF Owned
  <2>2. task = "idle" => ~IsOpen(Work) /\ ~IsOpen(Spare) /\ LowerAreClosed
    BY <1>1 DEF IInv, Control
  <2>3. running = {} => \A h \in Handle : db[h].backup = None
    BY <1>1, Backups
  <2> QED
    BY <2>1, <2>2, <2>3 DEF NothingLeaks
<1> QED
  BY <1>1, InductiveInvariant, PTL
=============================================================================
