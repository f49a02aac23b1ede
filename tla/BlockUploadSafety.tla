-------------------------- MODULE BlockUploadSafety --------------------------
(***************************************************************************)
(* Under SafeFaults the upload service publishes only whole contents: the  *)
(* inductive invariant IInv of BlockUploadInvariant, one lemma for each of *)
(* its parts.                                                              *)
(***************************************************************************)
EXTENDS BlockUploadProofs

\* A lock is held exactly where the code is between its lock and its unlock.
LEMMA LockStep ==
  ASSUME SafeFaults, TypeOK, LockInv, CfgInv, [Next]_vars
  PROVE  LockInv'
<1> USE NamesAssumption DEF TypeOK, LockInv, Goto, CreateSteps, MergeSteps, Locks, Labels
<1>1. ASSUME NEW p \in Procs, NEW f \in Files, NEW k \in Keys, AddFile(p, f, k) PROVE LockInv'
  BY <1>1, SMTT(30) DEF AddFile, Dispatch, Absent, Stored, Uploading, db, disk
<1>2. ASSUME NEW p \in Procs, FileExist(p) PROVE LockInv'
  BY <1>2 DEF FileExist, Reply, Exit, disk
<1>3. ASSUME NEW p \in Procs, MakeDir(p) PROVE LockInv'
  BY <1>3 DEF MakeDir, db, locals
<1>4. ASSUME NEW p \in Procs, LockCreate(p) PROVE LockInv'
  BY <1>4 DEF LockCreate, Lock, CanLock, db, disk, locals
<1>5. ASSUME NEW p \in Procs, CfgExists(p) PROVE LockInv'
  BY <1>5 DEF CfgExists, Unlock, AfterCreate, db, disk, locals
<1>6. ASSUME NEW p \in Procs, CreateCfg(p) PROVE LockInv'
  BY <1>6 DEF CreateCfg, db, locals
<1>7. ASSUME NEW p \in Procs, CreateCfgFailed(p) PROVE LockInv'
  BY <1>7 DEF CreateCfgFailed, CfgInv
<1>8. ASSUME NEW p \in Procs, InsertStatus(p) PROVE LockInv'
  BY <1>8 DEF InsertStatus, Absent, Stored, Uploading, disk, locals
<1>9. ASSUME NEW p \in Procs, CloseCfg(p) PROVE LockInv'
  BY <1>9 DEF CloseCfg, Unlock, AfterCreate, db, locals
<1>10. ASSUME NEW p \in Procs, LockOp(p) PROVE LockInv'
  BY <1>10 DEF LockOp, Lock, CanLock, db, disk, locals
<1>11. ASSUME NEW p \in Procs, TakeBlock(p) PROVE LockInv'
  BY <1>11 DEF TakeBlock, Unlock, Reply, db
<1>12. ASSUME NEW p \in Procs, NoBlockLeft(p) PROVE LockInv'
  BY <1>12 DEF NoBlockLeft, Reply, Exit, db, disk
<1>13. ASSUME NEW p \in Procs, FoundOver(p) PROVE LockInv'
  BY <1>13 DEF FoundOver, Unlock, db, disk
<1>14. ASSUME NEW p \in Procs, RecvOpen(p) PROVE LockInv'
  BY <1>14 DEF RecvOpen, db, locals
<1>15. ASSUME NEW p \in Procs, RecvOk(p) PROVE LockInv'
  BY <1>15 DEF RecvOk, db
<1>16. ASSUME NEW p \in Procs, RecvFail(p) PROVE LockInv'
  BY <1>16 DEF RecvFail, db, disk, locals
<1>17. ASSUME NEW p \in Procs, RecordBlock(p) PROVE LockInv'
  BY <1>17 DEF RecordBlock, Record, CanLock, Reply, Exit, db
<1>18. ASSUME NEW p \in Procs, RecordLast(p) PROVE LockInv'
  BY <1>18 DEF RecordLast, Record, CanLock, Unlock, db, locals
<1>19. ASSUME NEW p \in Procs, LockMerge(p) PROVE LockInv'
  BY <1>19 DEF LockMerge, Lock, CanLock, db, locals
<1>20. ASSUME NEW p \in Procs, MergeCopy(p) PROVE LockInv'
  BY <1>20 DEF MergeCopy, db, locals
<1>21. ASSUME NEW p \in Procs, Purge(p) PROVE LockInv'
  BY <1>21 DEF Purge, db, locals
<1>22. ASSUME NEW p \in Procs, Flush(p) PROVE LockInv'
  BY <1>22 DEF Flush, db, locals
<1>23. ASSUME NEW p \in Procs, Publish(p) PROVE LockInv'
  BY <1>23 DEF Publish, Reply, Exit, Absent, Stored, Uploading, disk
<1>24. ASSUME NEW p \in Procs, Kill(p) PROVE LockInv'
  BY <1>24 DEF Kill, Lost, Exit, db
<1>25. CASE Restart
  BY <1>25 DEF Restart, Lost, db
<1>26. CASE UNCHANGED vars
  BY <1>26 DEF vars, db, disk, locals
<1> QED
  BY <1>1, <1>2, <1>3, <1>4, <1>5, <1>6, <1>7, <1>8, <1>9, <1>10, <1>11, <1>12, <1>13,
     <1>14, <1>15, <1>16, <1>17, <1>18, <1>19, <1>20, <1>21, <1>22, <1>23, <1>24, <1>25, <1>26
  DEF Next, Serve, Create, Select, Receive, Finish, Merge, SafeFaults, RestartMain

\* A first createConfig of f is not disturbed by other requests for f.
LEMMA OpeningStep ==
  ASSUME SafeFaults, TypeOK, LockInv, OpeningInv, StatusInv, [Next]_vars
  PROVE  OpeningInv'
<1> USE NamesAssumption DEF TypeOK, LockInv, OpeningInv, StatusInv, Opening, SafeFaults, Unregistered, Goto, CreateSteps, MergeSteps, Locks, Labels
<1>1. ASSUME NEW p \in Procs, NEW f \in Files, NEW k \in Keys, AddFile(p, f, k) PROVE OpeningInv'
  <2>1. \A q \in Procs : ~Opening(q, f)
    BY <1>1 DEF AddFile
  <2>2. ASSUME status[f] = Absent, NEW q \in Procs, q # p PROVE file[q] # f
    BY <2>1, <2>2
  <2>3. /\ file' = [file EXCEPT ![p] = f] /\ lock' = lock
        /\ pc' = [pc EXCEPT ![p] = Dispatch(status[f])] /\ pc[p] = "idle"
    BY <1>1 DEF AddFile
  <2>4. status[f] # Absent => Dispatch(status[f]) \in {"link", "lockOp"}
    BY DEF Dispatch, Absent, Stored, Uploading
  <2>5. Dispatch(status[f]) # "idle"
    BY DEF Dispatch, Absent, Stored, Uploading
  <2>6. ASSUME NEW q \in Procs, pc'[q] = "idle" PROVE file'[q] = NoFile
    BY <2>3, <2>5, <2>6
  <2>7. ASSUME NEW q \in Procs, NEW g \in Files, Opening(q, g)',
               NEW r \in Procs, q # r, file'[r] = g
        PROVE  FALSE
    <3>1. CASE q = p
      <4>1. g = f /\ status[f] = Absent
        BY <2>3, <2>4, <2>7, <3>1
      <4> QED
        BY <2>2, <2>3, <2>7, <3>1, <4>1
    <3>2. CASE q # p
      <4>1. Opening(q, g)
        BY <2>3, <2>7, <3>2
      <4>2. r = p => g = f
        BY <2>3, <2>7
      <4>3. r # p => file[r] = g
        BY <2>3, <2>7
      <4> QED
        BY <2>1, <2>7, <4>1, <4>2, <4>3
    <3> QED
      BY <3>1, <3>2
  <2> HIDE DEF TypeOK, LockInv, StatusInv, SafeFaults, Opening
  <2> QED
    BY <2>6, <2>7
<1>2. ASSUME NEW p \in Procs, FileExist(p) PROVE OpeningInv'
  <2>1. Exit(p)
    BY <1>2 DEF FileExist
  <2>2. /\ pc' = [pc EXCEPT ![p] = "idle"] /\ file' = [file EXCEPT ![p] = NoFile]
        /\ \A q \in Procs : lock'["op"] = q => lock["op"] = q
        /\ \A q \in Procs : q # p => (lock'["op"] = q <=> lock["op"] = q)
    BY <2>1 DEF Exit
  <2> QED
    BY <2>2
<1>3. ASSUME NEW p \in Procs, MakeDir(p) PROVE OpeningInv'
  BY <1>3 DEF MakeDir, db, locals
<1>4. ASSUME NEW p \in Procs, LockCreate(p) PROVE OpeningInv'
  BY <1>4 DEF LockCreate, Lock, CanLock, db, disk, locals
<1>5. ASSUME NEW p \in Procs, CfgExists(p) PROVE OpeningInv'
  BY <1>5 DEF CfgExists, Unlock, AfterCreate, db, disk, locals
<1>6. ASSUME NEW p \in Procs, CreateCfg(p) PROVE OpeningInv'
  BY <1>6 DEF CreateCfg, db, locals
<1>7. ASSUME NEW p \in Procs, CreateCfgFailed(p) PROVE OpeningInv'
  BY <1>7 DEF CreateCfgFailed, AfterCreate, db, disk, locals
<1>8. ASSUME NEW p \in Procs, InsertStatus(p) PROVE OpeningInv'
  BY <1>8 DEF InsertStatus, Absent, Stored, Uploading, disk, locals
<1>9. ASSUME NEW p \in Procs, CloseCfg(p) PROVE OpeningInv'
  BY <1>9 DEF CloseCfg, Unlock, AfterCreate, db, locals
<1>10. ASSUME NEW p \in Procs, LockOp(p) PROVE OpeningInv'
  BY <1>10 DEF LockOp, Lock, CanLock, db, disk, locals
<1>11. ASSUME NEW p \in Procs, TakeBlock(p) PROVE OpeningInv'
  BY <1>11 DEF TakeBlock, Unlock, Reply, db
<1>12. ASSUME NEW p \in Procs, NoBlockLeft(p) PROVE OpeningInv'
  BY <1>12 DEF NoBlockLeft, Reply, Exit, db, disk
<1>13. ASSUME NEW p \in Procs, FoundOver(p) PROVE OpeningInv'
  BY <1>13 DEF FoundOver, Unlock, db, disk
<1>14. ASSUME NEW p \in Procs, RecvOpen(p) PROVE OpeningInv'
  BY <1>14 DEF RecvOpen, db, locals
<1>15. ASSUME NEW p \in Procs, RecvOk(p) PROVE OpeningInv'
  BY <1>15 DEF RecvOk, db
<1>16. ASSUME NEW p \in Procs, RecvFail(p) PROVE OpeningInv'
  BY <1>16 DEF RecvFail, db, disk, locals
<1>17. ASSUME NEW p \in Procs, RecordBlock(p) PROVE OpeningInv'
  BY <1>17 DEF RecordBlock, Record, CanLock, Reply, Exit, db
<1>18. ASSUME NEW p \in Procs, RecordLast(p) PROVE OpeningInv'
  BY <1>18 DEF RecordLast, Record, CanLock, Unlock, db, locals
<1>19. ASSUME NEW p \in Procs, LockMerge(p) PROVE OpeningInv'
  BY <1>19 DEF LockMerge, Lock, CanLock, db, locals
<1>20. ASSUME NEW p \in Procs, MergeCopy(p) PROVE OpeningInv'
  BY <1>20 DEF MergeCopy, db, locals
<1>21. ASSUME NEW p \in Procs, Purge(p) PROVE OpeningInv'
  BY <1>21 DEF Purge, db, locals
<1>22. ASSUME NEW p \in Procs, Flush(p) PROVE OpeningInv'
  BY <1>22 DEF Flush, db, locals
<1>23. ASSUME NEW p \in Procs, Publish(p) PROVE OpeningInv'
  BY <1>23 DEF Publish, Reply, Exit, Absent, Stored, Uploading, disk
<1>24. ASSUME NEW p \in Procs, Kill(p) PROVE OpeningInv'
  BY <1>24 DEF Kill, Lost, Exit, db
<1>25. CASE Restart
  BY <1>25 DEF Restart, Lost, db
<1>26. CASE UNCHANGED vars
  BY <1>26, SMTT(30) DEF vars, db, disk, locals
<1> QED
  BY <1>1, <1>2, <1>3, <1>4, <1>5, <1>6, <1>7, <1>8, <1>9, <1>10, <1>11, <1>12, <1>13,
     <1>14, <1>15, <1>16, <1>17, <1>18, <1>19, <1>20, <1>21, <1>22, <1>23, <1>24, <1>25, <1>26
  DEF Next, Serve, Create, Select, Receive, Finish, Merge, SafeFaults, RestartMain

\* No child goes on to select a block of f, and nothing is merged, before the
\* status of f has been inserted.
LEMMA StatusStep ==
  ASSUME SafeFaults, TypeOK, LockInv, StatusInv, CfgInv, [Next]_vars
  PROVE  StatusInv'
<1> USE NamesAssumption DEF TypeOK, LockInv, StatusInv, SafeFaults, Unregistered, Goto, CreateSteps, MergeSteps, Locks, Labels
<1>1. ASSUME NEW p \in Procs, NEW f \in Files, NEW k \in Keys, AddFile(p, f, k) PROVE StatusInv'
  BY <1>1, SMTT(30) DEF AddFile, Dispatch, Absent, Stored, Uploading, db, disk
<1>2. ASSUME NEW p \in Procs, FileExist(p) PROVE StatusInv'
  BY <1>2 DEF FileExist, Reply, Exit, disk
<1>3. ASSUME NEW p \in Procs, MakeDir(p) PROVE StatusInv'
  BY <1>3 DEF MakeDir, db, locals
<1>4. ASSUME NEW p \in Procs, LockCreate(p) PROVE StatusInv'
  BY <1>4 DEF LockCreate, Lock, CanLock, db, disk, locals
<1>5. ASSUME NEW p \in Procs, CfgExists(p) PROVE StatusInv'
  BY <1>5 DEF CfgExists, Unlock, AfterCreate, db, disk, locals, CfgInv
<1>6. ASSUME NEW p \in Procs, CreateCfg(p) PROVE StatusInv'
  BY <1>6 DEF CreateCfg, db, locals, CfgInv
<1>7. ASSUME NEW p \in Procs, CreateCfgFailed(p) PROVE StatusInv'
  BY <1>7 DEF CreateCfgFailed, AfterCreate, db, disk, locals, CfgInv
<1>8. ASSUME NEW p \in Procs, InsertStatus(p) PROVE StatusInv'
  BY <1>8 DEF InsertStatus, Absent, Stored, Uploading, disk, locals
<1>9. ASSUME NEW p \in Procs, CloseCfg(p) PROVE StatusInv'
  BY <1>9 DEF CloseCfg, Unlock, AfterCreate, db, locals, CfgInv
<1>10. ASSUME NEW p \in Procs, LockOp(p) PROVE StatusInv'
  BY <1>10 DEF LockOp, Lock, CanLock, db, disk, locals
<1>11. ASSUME NEW p \in Procs, TakeBlock(p) PROVE StatusInv'
  BY <1>11 DEF TakeBlock, Unlock, Reply, db
<1>12. ASSUME NEW p \in Procs, NoBlockLeft(p) PROVE StatusInv'
  BY <1>12 DEF NoBlockLeft, Reply, Exit, db, disk
<1>13. ASSUME NEW p \in Procs, FoundOver(p) PROVE StatusInv'
  BY <1>13 DEF FoundOver, Unlock, db, disk
<1>14. ASSUME NEW p \in Procs, RecvOpen(p) PROVE StatusInv'
  BY <1>14 DEF RecvOpen, db, locals
<1>15. ASSUME NEW p \in Procs, RecvOk(p) PROVE StatusInv'
  BY <1>15 DEF RecvOk, db
<1>16. ASSUME NEW p \in Procs, RecvFail(p) PROVE StatusInv'
  BY <1>16 DEF RecvFail, db, disk, locals
<1>17. ASSUME NEW p \in Procs, RecordBlock(p) PROVE StatusInv'
  BY <1>17 DEF RecordBlock, Record, CanLock, Reply, Exit, db
<1>18. ASSUME NEW p \in Procs, RecordLast(p) PROVE StatusInv'
  BY <1>18 DEF RecordLast, Record, CanLock, Unlock, db, locals
<1>19. ASSUME NEW p \in Procs, LockMerge(p) PROVE StatusInv'
  <2>1. /\ pc[p] = "lockMerge"
        /\ \/ pc' = [pc EXCEPT ![p] = "copy"] /\ comp[file[p]] = "none" /\ comp' = [comp EXCEPT ![file[p]] = "partial"]
           \/ pc' = [pc EXCEPT ![p] = "publish"] /\ comp[file[p]] # "none" /\ comp' = comp
        /\ lock["merge"] \in {NoProc, p} /\ lock' = [lock EXCEPT !["merge"] = p]
        /\ UNCHANGED <<status, rows, dir, cfg, flags, blocks, file, key, blockNum, fileL, received, sent>>
    BY <1>19 DEF LockMerge, Lock, CanLock, db, locals
  <2>2. status[file[p]] # Absent
    BY <2>1
  <2>3. \A q \in Procs : pc'[q] = "insert" <=> pc[q] = "insert"
    BY <2>1
  <2>4. \A f \in Files : status[f] = Absent => comp'[f] = comp[f]
    BY <2>1, <2>2
  <2>5. \A q \in Procs : /\ pc'[q] = "link" => pc[q] = "link"
                         /\ pc'[q] \notin Unregistered \/ lock'["op"] = q
                             => pc[q] \notin Unregistered \/ lock["op"] = q
    BY <2>1
  <2> QED
    BY <2>1, <2>3, <2>4, <2>5
<1>20. ASSUME NEW p \in Procs, MergeCopy(p) PROVE StatusInv'
  BY <1>20 DEF MergeCopy, db, locals
<1>21. ASSUME NEW p \in Procs, Purge(p) PROVE StatusInv'
  BY <1>21 DEF Purge, db, locals
<1>22. ASSUME NEW p \in Procs, Flush(p) PROVE StatusInv'
  BY <1>22 DEF Flush, db, locals
<1>23. ASSUME NEW p \in Procs, Publish(p) PROVE StatusInv'
  BY <1>23 DEF Publish, Reply, Exit, Absent, Stored, Uploading, disk
<1>24. ASSUME NEW p \in Procs, Kill(p) PROVE StatusInv'
  BY <1>24 DEF Kill, Lost, Exit, db
<1>25. CASE Restart
  BY <1>25 DEF Restart, Lost, db
<1>26. CASE UNCHANGED vars
  BY <1>26 DEF vars, db, disk, locals
<1> QED
  BY <1>1, <1>2, <1>3, <1>4, <1>5, <1>6, <1>7, <1>8, <1>9, <1>10, <1>11, <1>12, <1>13,
     <1>14, <1>15, <1>16, <1>17, <1>18, <1>19, <1>20, <1>21, <1>22, <1>23, <1>24, <1>25, <1>26
  DEF Next, Serve, Create, Select, Receive, Finish, Merge, SafeFaults, RestartMain

\* The bytes of a complete cfg.
LEMMA ReadyFlags ==
  ASSUME TypeOK, NEW f \in Files, Ready(f)
  PROVE  /\ flags[f] \in Seq({Free, Taken, Over})
         /\ Len(flags[f]) = BlockNum(f)
         /\ BlockNum(f) \in Nat \ {0}
         /\ DOMAIN flags[f] = 1 .. BlockNum(f)
<1>1. flags[f] \in Seq({Free, Taken, Over}) /\ Len(flags[f]) = BlockNum(f)
  BY DEF TypeOK, Ready
<1> QED
  BY <1>1, BlockNumPositive

\* The scan of a complete cfg picks a block of the file.
LEMMA PickInside ==
  ASSUME TypeOK, NEW f \in Files, Ready(f), FreeFlags(flags[f]) # {}
  PROVE  /\ FirstFree(flags[f]) \in Block(f)
         /\ flags[f][FirstFree(flags[f]) + 1] = Free
<1>1. flags[f] \in Seq({Free, Taken, Over})
  BY ReadyFlags, Zenon
<1>2. /\ FirstFree(flags[f]) \in 0 .. Len(flags[f]) - 1
      /\ flags[f][FirstFree(flags[f]) + 1] = Free
  BY <1>1, FirstFreeIsFree, Zenon
<1> QED
  BY <1>2, ReadyFlags DEF Block

\* A flag written to a complete cfg leaves it complete.
LEMMA WriteReady ==
  ASSUME TypeOK, NEW f \in Files, Ready(f), NEW b \in Block(f),
         NEW v \in {Free, Taken, Over}
  PROVE  /\ WriteAt(flags[f], b, v) \in Seq({Free, Taken, Over})
         /\ Len(WriteAt(flags[f], b, v)) = BlockNum(f)
         /\ WriteAt(flags[f], b, v)[b + 1] = v
         /\ \A i \in 1 .. BlockNum(f) : i # b + 1 => WriteAt(flags[f], b, v)[i] = flags[f][i]
<1> DEFINE s == flags[f]
<1>1. s \in Seq({Free, Taken, Over}) /\ Len(s) = BlockNum(f) /\ BlockNum(f) \in Nat
  BY ReadyFlags
<1>2. b \in Nat /\ b < Len(s)
  BY <1>1 DEF Block
<1> HIDE DEF s
<1>3. /\ WriteAt(s, b, v) \in Seq({Free, Taken, Over})
      /\ Len(WriteAt(s, b, v)) = Len(s)
      /\ WriteAt(s, b, v)[b + 1] = v
      /\ \A i \in 1 .. Len(s) : i # b + 1 => WriteAt(s, b, v)[i] = s[i]
  BY <1>1, <1>2, WriteInside, Zenon
<1> QED
  BY <1>1, <1>3 DEF s

\* What a child records in a complete cfg.
LEMMA RecordReady ==
  ASSUME TypeOK, NEW p \in Procs, pc[p] = "record", Ready(file[p])
  PROVE  /\ Recorded(p) \in Seq({Free, Taken, Over})
         /\ Len(Recorded(p)) = BlockNum(file[p])
         /\ Recorded(p)[blockNum[p] + 1] = IF received[p] THEN Over ELSE Free
         /\ \A i \in 1 .. BlockNum(file[p]) :
              i # blockNum[p] + 1 => Recorded(p)[i] = flags[file[p]][i]
<1> DEFINE v == IF received[p] THEN Over ELSE Free
<1>1. /\ Recorded(p) = WriteAt(flags[file[p]], blockNum[p], v)
      /\ v \in {Free, Taken, Over}
  BY DEF Recorded, Ready
<1>2. file[p] \in Files /\ blockNum[p] \in Block(file[p])
  BY DEF TypeOK
<1> HIDE DEF v
<1>3. /\ WriteAt(flags[file[p]], blockNum[p], v) \in Seq({Free, Taken, Over})
      /\ Len(WriteAt(flags[file[p]], blockNum[p], v)) = BlockNum(file[p])
      /\ WriteAt(flags[file[p]], blockNum[p], v)[blockNum[p] + 1] = v
      /\ \A i \in 1 .. BlockNum(file[p]) :
           i # blockNum[p] + 1
             => WriteAt(flags[file[p]], blockNum[p], v)[i] = flags[file[p]][i]
  BY <1>1, <1>2, WriteReady, Zenon
<1> QED
  BY <1>1, <1>3, Zenon DEF v

\* A cfg that is there when a child takes the op lock has all its bytes.
LEMMA CfgReady ==
  ASSUME TypeOK, LockInv, OpeningInv, CfgInv, NEW p \in Procs,
         pc[p] \in {"lockOp", "record"}, lock["op"] \in {NoProc, p}, cfg[file[p]]
  PROVE  Ready(file[p])
<1>1. file[p] \in Files
  BY DEF TypeOK
<1> SUFFICES ASSUME ~Ready(file[p]) PROVE FALSE
  OBVIOUS
<1>2. PICK q \in Procs : file[q] = file[p] /\ pc[q] \in {"insert", "close"}
  BY <1>1 DEF CfgInv
<1>3. q # p /\ Opening(q, file[p])
  BY <1>2, NamesAssumption DEF Opening, CreateSteps
<1> QED
  BY <1>1, <1>3 DEF OpeningInv

\* Steps that leave createConfig and the choice of a block alone, and write
\* the flags of complete cfgs only, keep CfgInv.
LEMMA CfgFrame ==
  ASSUME TypeOK, CfgInv, dir' = dir, cfg' = cfg,
         \A f \in Files : \/ flags'[f] = flags[f]
                          \/ Ready(f) /\ Len(flags'[f]) = BlockNum(f),
         \A f \in Files : comp'[f] = "none" => comp[f] = "none",
         \A q \in Procs : \/ pc'[q] = pc[q] /\ file'[q] = file[q]
                          \/ /\ pc'[q] \notin CreateSteps \union {"pick"}
                             /\ pc[q] \notin {"insert", "close"}
  PROVE  CfgInv'
<1>1. \A q \in Procs : pc[q] # "idle" => file[q] \in Files
  BY DEF TypeOK
<1>2. \A f \in Files : /\ BlockNum(f) # 0
                       /\ Ready(f) => flags[f] # <<>>
  BY BlockNumPositive DEF Ready
<1>3. \A f \in Files : Ready(f) => Ready(f)'
  BY DEF Ready
<1>4. \A f \in Files : /\ cfg'[f] => dir'[f]
                       /\ ~cfg'[f] => flags'[f] = <<>>
                       /\ cfg'[f] => \/ Ready(f)'
                                     \/ \E p \in Procs : /\ file'[p] = f
                                                         /\ pc'[p] \in {"insert", "close"}
  BY <1>2, <1>3 DEF CfgInv, Ready
<1>5. ASSUME NEW p \in Procs
      PROVE  /\ pc'[p] \in {"mkdir", "lockCreate", "create"} => ~cfg'[file'[p]]
             /\ pc'[p] \in {"lockCreate", "create"} => dir'[file'[p]]
             /\ pc'[p] \in {"insert", "close"} => cfg'[file'[p]] /\ flags'[file'[p]] = <<>>
             /\ pc'[p] = "pick" /\ comp'[file'[p]] = "none" => Ready(file[p])'
  <2>1. CASE pc'[p] = pc[p] /\ file'[p] = file[p] /\ pc[p] # "idle"
    <3>1. file[p] \in Files
      BY <1>1, <2>1
    <3>2. pc[p] \in {"insert", "close"} => flags'[file[p]] = <<>>
      BY <1>2, <3>1 DEF CfgInv
    <3>3. pc[p] = "pick" /\ comp[file[p]] = "none" => Ready(file[p])'
      <4>1. pc[p] = "pick" /\ comp[file[p]] = "none" => Ready(file[p])
        BY DEF CfgInv
      <4> QED
        BY <1>3, <3>1, <4>1, <2>1 DEF Ready
    <3> QED
      BY <2>1, <3>1, <3>2, <3>3 DEF CfgInv
  <2>2. CASE pc'[p] \notin CreateSteps \union {"pick"}
    BY <2>2 DEF CreateSteps
  <2> QED
    BY <2>1, <2>2 DEF CreateSteps
<1> QED
  BY <1>4, <1>5 DEF CfgInv, Ready

\* The cfg of f is created once, complete before anybody picks a block from
\* it, and removed only by the merge.
LEMMA CfgStep ==
  ASSUME SafeFaults, TypeOK, LockInv, OpeningInv, StatusInv, CfgInv, MergeInv, [Next]_vars
  PROVE  CfgInv'
<1> USE NamesAssumption DEF TypeOK, LockInv, Goto, CreateSteps, MergeSteps, Locks, Labels
<1>1. ASSUME NEW p \in Procs, NEW f \in Files, NEW k \in Keys, AddFile(p, f, k) PROVE CfgInv'
  BY <1>1, BlockNumPositive, SMTT(30) DEF AddFile, Dispatch, Absent, Stored, Uploading, db, disk, OpeningInv, Opening, StatusInv, CfgInv, MergeInv, SafeFaults, Unregistered, Ready
<1>2. ASSUME NEW p \in Procs, FileExist(p) PROVE CfgInv'
  <2>1. /\ UNCHANGED <<dir, cfg, flags>>
        /\ \A f \in Files : comp'[f] = "none" => comp[f] = "none"
    BY <1>2 DEF FileExist, Reply, Exit, disk
  <2>2. pc[p] \notin {"insert", "close"} /\ pc'[p] \notin CreateSteps \union {"pick"}
    BY <1>2 DEF FileExist, Reply, Exit, disk
  <2>3. \A q \in Procs : q # p => pc'[q] = pc[q] /\ file'[q] = file[q]
    BY <1>2 DEF FileExist, Reply, Exit, disk
  <2> QED
    BY <2>1, <2>2, <2>3, CfgFrame
<1>3. ASSUME NEW p \in Procs, MakeDir(p) PROVE CfgInv'
  BY <1>3, BlockNumPositive, SMTT(30) DEF MakeDir, db, locals, OpeningInv, Opening, StatusInv, CfgInv, MergeInv, SafeFaults, Unregistered, Ready
<1>4. ASSUME NEW p \in Procs, LockCreate(p) PROVE CfgInv'
  BY <1>4, BlockNumPositive, SMTT(30) DEF LockCreate, Lock, CanLock, db, disk, locals, OpeningInv, Opening, StatusInv, CfgInv, MergeInv, SafeFaults, Unregistered, Ready
<1>5. ASSUME NEW p \in Procs, CfgExists(p) PROVE CfgInv'
  BY <1>5, BlockNumPositive, SMTT(30) DEF CfgExists, Unlock, AfterCreate, db, disk, locals, OpeningInv, Opening, StatusInv, CfgInv, MergeInv, SafeFaults, Unregistered, Ready
<1>6. ASSUME NEW p \in Procs, CreateCfg(p) PROVE CfgInv'
  BY <1>6, BlockNumPositive, SMTT(30) DEF CreateCfg, db, locals, OpeningInv, Opening, StatusInv, CfgInv, MergeInv, SafeFaults, Unregistered, Ready
<1>7. ASSUME NEW p \in Procs, CreateCfgFailed(p) PROVE CfgInv'
  BY <1>7, BlockNumPositive, SMTT(30) DEF CreateCfgFailed, AfterCreate, db, disk, locals, OpeningInv, Opening, StatusInv, CfgInv, MergeInv, SafeFaults, Unregistered, Ready
<1>8. ASSUME NEW p \in Procs, InsertStatus(p) PROVE CfgInv'
  BY <1>8, BlockNumPositive, SMTT(30) DEF InsertStatus, Absent, Stored, Uploading, disk, locals, OpeningInv, Opening, StatusInv, CfgInv, MergeInv, SafeFaults, Unregistered, Ready
<1>9. ASSUME NEW p \in Procs, CloseCfg(p) PROVE CfgInv'
  BY <1>9, BlockNumPositive, SMTT(30) DEF CloseCfg, Unlock, AfterCreate, db, locals, OpeningInv, Opening, StatusInv, CfgInv, MergeInv, SafeFaults, Unregistered, Ready
<1>10. ASSUME NEW p \in Procs, LockOp(p) PROVE CfgInv'
  <2> DEFINE g == file[p]
  <2>1. /\ pc[p] = "lockOp" /\ g \in Files /\ lock["op"] \in {NoProc, p}
        /\ pc' = [pc EXCEPT ![p] = IF cfg[g] THEN "pick" ELSE "mkdir"]
        /\ UNCHANGED <<dir, cfg, flags, comp, file>>
    BY <1>10 DEF LockOp, Lock, CanLock, db, disk, locals
  <2>2. cfg[g] => Ready(g)
    BY <2>1, CfgReady
  <2> QED
    BY <2>1, <2>2 DEF CfgInv, Ready
<1>11. ASSUME NEW p \in Procs, TakeBlock(p) PROVE CfgInv'
  <2> DEFINE g == file[p]
  <2>1. /\ pc[p] = "pick" /\ g \in Files /\ FreeFlags(flags[g]) # {}
        /\ flags' = [flags EXCEPT ![g] = WriteAt(flags[g], FirstFree(flags[g]), Taken)]
        /\ pc' = [pc EXCEPT ![p] = "recv"]
        /\ UNCHANGED <<dir, cfg, comp, file>>
    BY <1>11 DEF TakeBlock
  <2>3. flags[g] # <<>>
    BY <2>1 DEF FreeFlags
  <2>4. Ready(g)
    BY <2>1, <2>3 DEF CfgInv
  <2>5. Len(WriteAt(flags[g], FirstFree(flags[g]), Taken)) = BlockNum(g)
    BY <2>1, <2>4, PickInside, WriteReady, ZenonT(30)
  <2>6. Len(flags'[g]) = BlockNum(g)
    BY <2>1, <2>4, <2>5 DEF Ready
  <2>7. \A f \in Files : f # g => flags'[f] = flags[f]
    BY <2>1
  <2> HIDE DEF g
  <2>8. \A f \in Files : \/ flags'[f] = flags[f]
                         \/ Ready(f) /\ Len(flags'[f]) = BlockNum(f)
    BY <2>4, <2>6, <2>7
  <2>9. \A q \in Procs : \/ pc'[q] = pc[q] /\ file'[q] = file[q]
                         \/ /\ pc'[q] \notin CreateSteps \union {"pick"}
                            /\ pc[q] \notin {"insert", "close"}
    BY <2>1
  <2> QED
    BY <2>1, <2>8, <2>9, CfgFrame
<1>12. ASSUME NEW p \in Procs, NoBlockLeft(p) PROVE CfgInv'
  <2>1. /\ UNCHANGED <<dir, cfg, flags>>
        /\ \A f \in Files : comp'[f] = "none" => comp[f] = "none"
    BY <1>12 DEF NoBlockLeft, Reply, Exit, db, disk
  <2>2. pc[p] \notin {"insert", "close"} /\ pc'[p] \notin CreateSteps \union {"pick"}
    BY <1>12 DEF NoBlockLeft, Reply, Exit, db, disk
  <2>3. \A q \in Procs : q # p => pc'[q] = pc[q] /\ file'[q] = file[q]
    BY <1>12 DEF NoBlockLeft, Reply, Exit, db, disk
  <2> QED
    BY <2>1, <2>2, <2>3, CfgFrame
<1>13. ASSUME NEW p \in Procs, FoundOver(p) PROVE CfgInv'
  <2>1. /\ UNCHANGED <<dir, cfg, flags>>
        /\ \A f \in Files : comp'[f] = "none" => comp[f] = "none"
    BY <1>13 DEF FoundOver, Unlock, db, disk
  <2>2. pc[p] \notin {"insert", "close"} /\ pc'[p] \notin CreateSteps \union {"pick"}
    BY <1>13 DEF FoundOver, Unlock, db, disk
  <2>3. \A q \in Procs : q # p => pc'[q] = pc[q] /\ file'[q] = file[q]
    BY <1>13 DEF FoundOver, Unlock, db, disk
  <2> QED
    BY <2>1, <2>2, <2>3, CfgFrame
<1>14. ASSUME NEW p \in Procs, RecvOpen(p) PROVE CfgInv'
  <2>1. /\ UNCHANGED <<dir, cfg, flags>>
        /\ \A f \in Files : comp'[f] = "none" => comp[f] = "none"
    BY <1>14 DEF RecvOpen, db, locals
  <2>2. pc[p] \notin {"insert", "close"} /\ pc'[p] \notin CreateSteps \union {"pick"}
    BY <1>14 DEF RecvOpen, db, locals
  <2>3. \A q \in Procs : q # p => pc'[q] = pc[q] /\ file'[q] = file[q]
    BY <1>14 DEF RecvOpen, db, locals
  <2> QED
    BY <2>1, <2>2, <2>3, CfgFrame
<1>15. ASSUME NEW p \in Procs, RecvOk(p) PROVE CfgInv'
  <2>1. /\ UNCHANGED <<dir, cfg, flags>>
        /\ \A f \in Files : comp'[f] = "none" => comp[f] = "none"
    BY <1>15 DEF RecvOk, db
  <2>2. pc[p] \notin {"insert", "close"} /\ pc'[p] \notin CreateSteps \union {"pick"}
    BY <1>15 DEF RecvOk, db
  <2>3. \A q \in Procs : q # p => pc'[q] = pc[q] /\ file'[q] = file[q]
    BY <1>15 DEF RecvOk, db
  <2> QED
    BY <2>1, <2>2, <2>3, CfgFrame
<1>16. ASSUME NEW p \in Procs, RecvFail(p) PROVE CfgInv'
  <2>1. /\ UNCHANGED <<dir, cfg, flags>>
        /\ \A f \in Files : comp'[f] = "none" => comp[f] = "none"
    BY <1>16 DEF RecvFail, db, disk, locals
  <2>2. pc[p] \notin {"insert", "close"} /\ pc'[p] \notin CreateSteps \union {"pick"}
    BY <1>16 DEF RecvFail, db, disk, locals
  <2>3. \A q \in Procs : q # p => pc'[q] = pc[q] /\ file'[q] = file[q]
    BY <1>16 DEF RecvFail, db, disk, locals
  <2> QED
    BY <2>1, <2>2, <2>3, CfgFrame
<1>17. ASSUME NEW p \in Procs, RecordBlock(p) PROVE CfgInv'
  <2> DEFINE g == file[p]
  <2>1. /\ pc[p] = "record" /\ g \in Files /\ lock["op"] \in {NoProc, p}
        /\ flags' = [flags EXCEPT ![g] = Recorded(p)]
        /\ UNCHANGED <<dir, cfg, comp>>
    BY <1>17 DEF RecordBlock, Record, CanLock, Reply, Exit, db
  <2>2. \A q \in Procs : \/ pc'[q] = pc[q] /\ file'[q] = file[q]
                         \/ /\ pc'[q] \notin CreateSteps \union {"pick"}
                            /\ pc[q] \notin {"insert", "close"}
    BY <1>17 DEF RecordBlock, Record, CanLock, Reply, Exit, db
  <2>3. cfg[g] => Ready(g)
    BY <2>1, CfgReady
  <2>4. Ready(g) => Len(Recorded(p)) = BlockNum(g)
    BY <2>1, RecordReady
  <2>5. ~cfg[g] => Recorded(p) = flags[g]
    BY DEF Recorded
  <2>6. flags'[g] = Recorded(p) /\ \A f \in Files : f # g => flags'[f] = flags[f]
    BY <2>1
  <2> HIDE DEF g
  <2>7. \A f \in Files : \/ flags'[f] = flags[f]
                         \/ Ready(f) /\ Len(flags'[f]) = BlockNum(f)
    BY <2>3, <2>4, <2>5, <2>6
  <2> QED
    BY <2>1, <2>2, <2>7, CfgFrame
<1>18. ASSUME NEW p \in Procs, RecordLast(p) PROVE CfgInv'
  <2> DEFINE g == file[p]
  <2>1. /\ pc[p] = "record" /\ g \in Files /\ lock["op"] \in {NoProc, p}
        /\ flags' = [flags EXCEPT ![g] = Recorded(p)]
        /\ UNCHANGED <<dir, cfg, comp>>
    BY <1>18 DEF RecordLast, Record, CanLock, Unlock, db, locals
  <2>2. \A q \in Procs : \/ pc'[q] = pc[q] /\ file'[q] = file[q]
                         \/ /\ pc'[q] \notin CreateSteps \union {"pick"}
                            /\ pc[q] \notin {"insert", "close"}
    BY <1>18 DEF RecordLast, Record, CanLock, Unlock, db, locals
  <2>3. cfg[g] => Ready(g)
    BY <2>1, CfgReady
  <2>4. Ready(g) => Len(Recorded(p)) = BlockNum(g)
    BY <2>1, RecordReady
  <2>5. ~cfg[g] => Recorded(p) = flags[g]
    BY DEF Recorded
  <2>6. flags'[g] = Recorded(p) /\ \A f \in Files : f # g => flags'[f] = flags[f]
    BY <2>1
  <2> HIDE DEF g
  <2>7. \A f \in Files : \/ flags'[f] = flags[f]
                         \/ Ready(f) /\ Len(flags'[f]) = BlockNum(f)
    BY <2>3, <2>4, <2>5, <2>6
  <2> QED
    BY <2>1, <2>2, <2>7, CfgFrame
<1>19. ASSUME NEW p \in Procs, LockMerge(p) PROVE CfgInv'
  <2>1. /\ UNCHANGED <<dir, cfg, flags>>
        /\ \A f \in Files : comp'[f] = "none" => comp[f] = "none"
    BY <1>19 DEF LockMerge, Lock, CanLock, db, locals
  <2>2. pc[p] \notin {"insert", "close"} /\ pc'[p] \notin CreateSteps \union {"pick"}
    BY <1>19 DEF LockMerge, Lock, CanLock, db, locals
  <2>3. \A q \in Procs : q # p => pc'[q] = pc[q] /\ file'[q] = file[q]
    BY <1>19 DEF LockMerge, Lock, CanLock, db, locals
  <2> QED
    BY <2>1, <2>2, <2>3, CfgFrame
<1>20. ASSUME NEW p \in Procs, MergeCopy(p) PROVE CfgInv'
  <2>1. /\ UNCHANGED <<dir, cfg, flags>>
        /\ \A f \in Files : comp'[f] = "none" => comp[f] = "none"
    BY <1>20 DEF MergeCopy, db, locals
  <2>2. pc[p] \notin {"insert", "close"} /\ pc'[p] \notin CreateSteps \union {"pick"}
    BY <1>20 DEF MergeCopy, db, locals
  <2>3. \A q \in Procs : q # p => pc'[q] = pc[q] /\ file'[q] = file[q]
    BY <1>20 DEF MergeCopy, db, locals
  <2> QED
    BY <2>1, <2>2, <2>3, CfgFrame
<1>21. ASSUME NEW p \in Procs, Purge(p) PROVE CfgInv'
  BY <1>21, BlockNumPositive, SMTT(30) DEF Purge, db, locals, OpeningInv, Opening, StatusInv, CfgInv, MergeInv, SafeFaults, Unregistered, Ready
<1>22. ASSUME NEW p \in Procs, Flush(p) PROVE CfgInv'
  <2>1. /\ UNCHANGED <<dir, cfg, flags>>
        /\ \A f \in Files : comp'[f] = "none" => comp[f] = "none"
    BY <1>22 DEF Flush, db, locals
  <2>2. pc[p] \notin {"insert", "close"} /\ pc'[p] \notin CreateSteps \union {"pick"}
    BY <1>22 DEF Flush, db, locals
  <2>3. \A q \in Procs : q # p => pc'[q] = pc[q] /\ file'[q] = file[q]
    BY <1>22 DEF Flush, db, locals
  <2> QED
    BY <2>1, <2>2, <2>3, CfgFrame
<1>23. ASSUME NEW p \in Procs, Publish(p) PROVE CfgInv'
  <2>1. /\ UNCHANGED <<dir, cfg, flags>>
        /\ \A f \in Files : comp'[f] = "none" => comp[f] = "none"
    BY <1>23 DEF Publish, Reply, Exit, Absent, Stored, Uploading, disk
  <2>2. pc[p] \notin {"insert", "close"} /\ pc'[p] \notin CreateSteps \union {"pick"}
    BY <1>23 DEF Publish, Reply, Exit, Absent, Stored, Uploading, disk
  <2>3. \A q \in Procs : q # p => pc'[q] = pc[q] /\ file'[q] = file[q]
    BY <1>23 DEF Publish, Reply, Exit, Absent, Stored, Uploading, disk
  <2> QED
    BY <2>1, <2>2, <2>3, CfgFrame
<1>24. ASSUME NEW p \in Procs, Kill(p) PROVE CfgInv'
  BY <1>24, BlockNumPositive, SMTT(30) DEF Kill, Lost, Exit, db, OpeningInv, Opening, StatusInv, CfgInv, MergeInv, SafeFaults, Unregistered, Ready
<1>25. CASE Restart
  BY <1>25, BlockNumPositive, SMTT(30) DEF Restart, Lost, db, OpeningInv, Opening, StatusInv, CfgInv, MergeInv, SafeFaults, Unregistered, Ready
<1>26. CASE UNCHANGED vars
  BY <1>26, BlockNumPositive, SMTT(30) DEF vars, db, disk, locals, OpeningInv, Opening, StatusInv, CfgInv, MergeInv, SafeFaults, Unregistered, Ready
<1> QED
  BY <1>1, <1>2, <1>3, <1>4, <1>5, <1>6, <1>7, <1>8, <1>9, <1>10, <1>11, <1>12, <1>13,
     <1>14, <1>15, <1>16, <1>17, <1>18, <1>19, <1>20, <1>21, <1>22, <1>23, <1>24, <1>25, <1>26
  DEF Next, Serve, Create, Select, Receive, Finish, Merge, SafeFaults, RestartMain

\* Steps that leave the transfers alone keep BlockInv, if what is written to
\* a cfg whose blocks are needed is a first, empty list of flags.
LEMMA BlockFrame ==
  ASSUME TypeOK, BlockInv,
         \A f \in Files : Assembling(f)' =>
           /\ Assembling(f)
           /\ \/ cfg'[f] = cfg[f] /\ flags'[f] = flags[f] /\ blocks'[f] = blocks[f]
              \/ ~Ready(f) /\ \A i \in DOMAIN flags'[f] : flags'[f][i] # Over,
         \A q \in Procs : Receiving(q)' =>
           /\ Receiving(q) /\ file'[q] = file[q]
           /\ pc'[q] = pc[q] \/ (pc'[q] = "record" /\ ~received'[q])
           /\ blockNum'[q] = blockNum[q] /\ fileL'[q] = fileL[q],
         \A q \in Procs : received'[q] =>
           /\ received[q]
           /\ pc'[q] \in {"record", "lockMerge", "publish"} \union MergeSteps
  PROVE  BlockInv'
<1>1. \A q \in Procs : Receiving(q) => file[q] \in Files
  BY DEF TypeOK, Receiving
<1>2. ASSUME NEW p \in Procs, Receiving(p)', Assembling(file[p])'
      PROVE  /\ Ready(file[p])'
             /\ fileL'[p] = BlockNum(file'[p])
             /\ flags'[file'[p]][blockNum'[p] + 1] = Taken
             /\ pc'[p] = "recving" => blocks'[file'[p]][blockNum'[p]] = p
             /\ pc'[p] = "record" /\ received'[p] => blocks'[file'[p]][blockNum'[p]] = "good"
             /\ \A q \in Procs : Receiving(q)' /\ q # p /\ file'[q] = file'[p]
                                   => blockNum'[q] # blockNum'[p]
  <2>1. Receiving(p) /\ file[p] \in Files /\ file'[p] = file[p]
    BY <1>1, <1>2
  <2> PICK g \in Files : g = file[p]
    BY <2>1
  <2>2. Assembling(g)'
    BY <1>2, <2>1 DEF Assembling
  <2>3. Assembling(g) /\ Ready(g)
    BY <2>1, <2>2 DEF BlockInv
  <2>4. cfg'[g] = cfg[g] /\ flags'[g] = flags[g] /\ blocks'[g] = blocks[g]
    BY <2>1, <2>2, <2>3
  <2>5. Ready(g)'
    BY <2>3, <2>4 DEF Ready
  <2>6. \A q \in Procs : Receiving(q)' /\ q # p /\ file'[q] = g => blockNum'[q] # blockNum'[p]
    BY <1>2, <2>1, <2>3 DEF BlockInv
  <2>7. /\ fileL[p] = BlockNum(g)
        /\ flags[g][blockNum[p] + 1] = Taken
        /\ pc[p] = "recving" => blocks[g][blockNum[p]] = p
        /\ pc[p] = "record" /\ received[p] => blocks[g][blockNum[p]] = "good"
    BY <2>1, <2>3 DEF BlockInv
  <2>8. /\ pc'[p] = pc[p] \/ (pc'[p] = "record" /\ ~received'[p])
        /\ blockNum'[p] = blockNum[p] /\ fileL'[p] = fileL[p]
        /\ received'[p] => received[p]
    BY <1>2
  <2>9. Ready(file[p])'
    BY <2>1, <2>5 DEF Ready
  <2> QED
    BY <2>1, <2>4, <2>6, <2>7, <2>8, <2>9
<1>3. ASSUME NEW f \in Files, Assembling(f)'
      PROVE  \A i \in DOMAIN flags'[f] : flags'[f][i] = Over => blocks'[f][i - 1] = "good"
  BY <1>3 DEF BlockInv
<1> QED
  BY <1>2, <1>3 DEF BlockInv

\* A step of one child that neither receives nor touches an upload directory.
LEMMA BlockQuiet ==
  ASSUME TypeOK, BlockInv, NEW p \in Procs,
         \A q \in Procs : q # p =>
           /\ pc'[q] = pc[q] /\ file'[q] = file[q] /\ blockNum'[q] = blockNum[q]
           /\ fileL'[q] = fileL[q] /\ received'[q] = received[q],
         pc'[p] \notin {"recv", "recving", "record"},
         received'[p] => pc'[p] \in {"lockMerge", "publish"} \union MergeSteps,
         \A f \in Files : Assembling(f)' => Assembling(f),
         cfg' = cfg, flags' = flags, blocks' = blocks,
         received'[p] => received[p]
  PROVE  BlockInv'
<1>1. \A f \in Files : Assembling(f)' =>
        /\ Assembling(f)
        /\ \/ cfg'[f] = cfg[f] /\ flags'[f] = flags[f] /\ blocks'[f] = blocks[f]
           \/ ~Ready(f) /\ \A i \in DOMAIN flags'[f] : flags'[f][i] # Over
  OBVIOUS
<1>2. \A q \in Procs : Receiving(q)' =>
        /\ Receiving(q) /\ file'[q] = file[q]
        /\ pc'[q] = pc[q] \/ (pc'[q] = "record" /\ ~received'[q])
        /\ blockNum'[q] = blockNum[q] /\ fileL'[q] = fileL[q]
  <2> SUFFICES ASSUME NEW q \in Procs, Receiving(q)'
               PROVE  /\ Receiving(q) /\ file'[q] = file[q]
                      /\ pc'[q] = pc[q] \/ (pc'[q] = "record" /\ ~received'[q])
                      /\ blockNum'[q] = blockNum[q] /\ fileL'[q] = fileL[q]
    OBVIOUS
  <2>1. q # p
    BY DEF Receiving
  <2> QED
    BY <2>1 DEF Receiving
<1>3. \A q \in Procs : received'[q] =>
        /\ received[q]
        /\ pc'[q] \in {"record", "lockMerge", "publish"} \union MergeSteps
  <2> SUFFICES ASSUME NEW q \in Procs, received'[q]
               PROVE  /\ received[q]
                      /\ pc'[q] \in {"record", "lockMerge", "publish"} \union MergeSteps
    OBVIOUS
  <2>1. CASE q = p
    BY <2>1
  <2>2. CASE q # p
    BY <2>2 DEF BlockInv
  <2> QED
    BY <2>1, <2>2
<1> QED
  BY <1>1, <1>2, <1>3, BlockFrame, Zenon

\* What a step of p does that touches one block b of g, its own, and the
\* flag of b.
Moved(p, g, b) ==
  /\ Ready(g) /\ Ready(g)' /\ DOMAIN flags'[g] = DOMAIN flags[g]
  /\ \A i \in 1 .. BlockNum(g) : i # b + 1 => flags'[g][i] = flags[g][i]
  /\ \A c \in Block(g) : c # b => blocks'[g][c] = blocks[g][c]
  /\ flags'[g][b + 1] = Over => blocks'[g][b] = "good"
  /\ \A q \in Procs : Receiving(q) /\ q # p /\ file[q] = g => blockNum[q] # b
  /\ Receiving(p)' => /\ blockNum'[p] = b
                      /\ fileL'[p] = BlockNum(g)
                      /\ flags'[g][b + 1] = Taken
                      /\ pc'[p] = "recving" => blocks'[g][b] = p
                      /\ pc'[p] = "record" /\ received'[p] => blocks'[g][b] = "good"

\* Such a step keeps BlockInv.
LEMMA BlockMove ==
  ASSUME TypeOK, BlockInv, NEW p \in Procs, NEW g \in Files, NEW b \in Block(g),
         file[p] = g, comp' = comp, cfg' = cfg,
         \A q \in Procs : q # p =>
           /\ pc'[q] = pc[q] /\ file'[q] = file[q] /\ blockNum'[q] = blockNum[q]
           /\ fileL'[q] = fileL[q] /\ received'[q] = received[q],
         pc'[p] \in {"recv", "recving", "record", "lockMerge", "idle"},
         received'[p] => pc'[p] \in {"record", "lockMerge"},
         Receiving(p)' => file'[p] = file[p],
         \A f \in Files : f # g => flags'[f] = flags[f] /\ blocks'[f] = blocks[f],
         Assembling(g) => Moved(p, g, b)
  PROVE  BlockInv'
<1>1. \A f \in Files : Assembling(f)' => Assembling(f)
  BY DEF Assembling
<1>2. \A q \in Procs : /\ Receiving(q) => file[q] \in Files /\ blockNum[q] \in Block(file[q])
                       /\ q # p => (Receiving(q)' <=> Receiving(q))
                       /\ Receiving(q)' => file'[q] = file[q]
  BY DEF TypeOK, Receiving
<1>3. ASSUME NEW q \in Procs, NEW f \in Files, file[q] = f, Receiving(q)', Assembling(f)'
      PROVE  /\ Ready(f)'
             /\ fileL'[q] = BlockNum(f)
             /\ flags'[f][blockNum'[q] + 1] = Taken
             /\ pc'[q] = "recving" => blocks'[f][blockNum'[q]] = q
             /\ pc'[q] = "record" /\ received'[q] => blocks'[f][blockNum'[q]] = "good"
             /\ \A r \in Procs : Receiving(r)' /\ r # q /\ file'[r] = f
                                   => blockNum'[r] # blockNum'[q]
  <2>1. CASE q = p
    BY <1>1, <1>2, <1>3, <2>1 DEF Moved
  <2>2. CASE q # p
    <3>1. /\ Receiving(q) /\ Assembling(f) /\ Ready(f)
          /\ fileL[q] = BlockNum(f)
          /\ flags[f][blockNum[q] + 1] = Taken
          /\ pc[q] = "recving" => blocks[f][blockNum[q]] = q
          /\ pc[q] = "record" /\ received[q] => blocks[f][blockNum[q]] = "good"
      BY <1>1, <1>2, <1>3, <2>2 DEF BlockInv
    <3>2. \A r \in Procs : Receiving(r) /\ r # q /\ file[r] = f => blockNum[r] # blockNum[q]
      BY <1>1, <1>2, <1>3, <2>2 DEF BlockInv
    <3>3. f = g => blockNum[q] # b /\ blockNum[q] \in Block(g)
      BY <1>2, <1>3, <2>2, <3>1 DEF Moved
    <3>4. f # g => Ready(f)'
      BY <3>1 DEF Ready
    <3>5. /\ Ready(f)'
          /\ flags'[f][blockNum[q] + 1] = flags[f][blockNum[q] + 1]
          /\ blocks'[f][blockNum[q]] = blocks[f][blockNum[q]]
      <4>1. CASE f = g
        <5>1. /\ blockNum[q] + 1 \in 1 .. BlockNum(g) /\ blockNum[q] + 1 # b + 1
              /\ blockNum[q] # b /\ blockNum[q] \in Block(g)
          BY <3>3, <4>1, BlockNumPositive DEF Block
        <5> QED
          BY <3>1, <4>1, <5>1 DEF Moved
      <4>2. CASE f # g
        BY <3>4, <4>2
      <4> QED
        BY <4>1, <4>2
    <3>6. \A r \in Procs : Receiving(r)' /\ r # q /\ file'[r] = f => blockNum'[r] # blockNum[q]
      <4> SUFFICES ASSUME NEW r \in Procs, Receiving(r)', r # q, file[r] = f
                   PROVE  blockNum'[r] # blockNum[q]
        OBVIOUS
      <4>1. CASE r = p
        BY <3>1, <3>3, <4>1 DEF Moved
      <4>2. CASE r # p
        BY <1>2, <2>2, <3>2, <4>2
      <4> QED
        BY <4>1, <4>2
    <3> QED
      BY <2>2, <3>1, <3>5, <3>6
  <2> QED
    BY <2>1, <2>2
<1>4. ASSUME NEW f \in Files, Assembling(f)'
      PROVE  \A i \in DOMAIN flags'[f] : flags'[f][i] = Over => blocks'[f][i - 1] = "good"
  <2>1. Assembling(f)
    BY <1>1, <1>4
  <2>2. \A i \in DOMAIN flags[f] : flags[f][i] = Over => blocks[f][i - 1] = "good"
    BY <2>1 DEF BlockInv
  <2>3. CASE f # g
    BY <2>2, <2>3
  <2>4. CASE f = g
    <3>1. DOMAIN flags[f] = 1 .. BlockNum(f)
      BY <2>1, <2>4, ReadyFlags DEF Moved
    <3>2. DOMAIN flags'[f] = 1 .. BlockNum(f)
      BY <2>1, <2>4, <3>1 DEF Moved
    <3>3. ASSUME NEW i \in 1 .. BlockNum(f), flags'[f][i] = Over
          PROVE  blocks'[f][i - 1] = "good"
      <4>1. CASE i = b + 1
        <5>1. i - 1 = b
          BY <4>1, BlockNumPositive DEF Block
        <5> QED
          BY <2>1, <2>4, <3>3, <4>1, <5>1 DEF Moved
      <4>2. CASE i # b + 1
        <5>1. i - 1 \in Block(g) /\ i - 1 # b
          BY <2>4, <3>3, <4>2, BlockNumPositive DEF Block
        <5> QED
          BY <2>1, <2>2, <2>4, <3>1, <3>3, <4>2, <5>1 DEF Moved
      <4> QED
        BY <4>1, <4>2
    <3> QED
      BY <3>2, <3>3
  <2> QED
    BY <2>3, <2>4
<1>5. ASSUME NEW q \in Procs, received'[q]
      PROVE  pc'[q] \in {"record", "lockMerge", "publish"} \union MergeSteps
  BY <1>5 DEF BlockInv
<1>6. ASSUME NEW q \in Procs, Receiving(q)', Assembling(file[q])'
      PROVE  /\ Ready(file[q])'
             /\ fileL'[q] = BlockNum(file'[q])
             /\ flags'[file'[q]][blockNum'[q] + 1] = Taken
             /\ pc'[q] = "recving" => blocks'[file'[q]][blockNum'[q]] = q
             /\ pc'[q] = "record" /\ received'[q] => blocks'[file'[q]][blockNum'[q]] = "good"
             /\ \A r \in Procs : Receiving(r)' /\ r # q /\ file'[r] = file'[q]
                                   => blockNum'[r] # blockNum'[q]
  <2>1. file[q] \in Files /\ file'[q] = file[q]
    BY <1>2, <1>6 DEF Receiving
  <2> PICK f \in Files : file[q] = f
    BY <2>1
  <2>2. Assembling(f)'
    BY <1>6, <2>1 DEF Assembling
  <2>3. Ready(f)'
    BY <1>3, <1>6, <2>2
  <2>4. Ready(file[q])'
    BY <2>1, <2>3 DEF Ready
  <2> QED
    BY <1>3, <1>6, <2>1, <2>2, <2>4
<1> QED
  BY <1>4, <1>5, <1>6 DEF BlockInv

\* A block is taken, received and recorded by one child.
LEMMA BlockStep ==
  ASSUME SafeFaults, TypeOK, LockInv, OpeningInv, CfgInv, BlockInv, MergeInv, [Next]_vars
  PROVE  BlockInv'
<1> USE NamesAssumption
<1>1. ASSUME NEW p \in Procs, NEW f \in Files, NEW k \in Keys, AddFile(p, f, k) PROVE BlockInv'
  <2> USE DEF TypeOK, Labels, Goto
  <2>1. \A q \in Procs : q # p =>
          /\ pc'[q] = pc[q] /\ file'[q] = file[q] /\ blockNum'[q] = blockNum[q]
          /\ fileL'[q] = fileL[q] /\ received'[q] = received[q]
    BY <1>1 DEF AddFile, Dispatch, Absent, Stored, Uploading, db, disk
  <2>2. /\ pc'[p] \notin {"recv", "recving", "record", "copy"}
        /\ received'[p] => received[p]
        /\ received'[p] => pc'[p] \in {"lockMerge", "publish"} \union MergeSteps
    BY <1>1 DEF AddFile, Dispatch, Absent, Stored, Uploading, db, disk, BlockInv, MergeSteps
  <2>3. /\ \A g \in Files : comp'[g] = "none" => comp[g] = "none"
        /\ UNCHANGED <<cfg, flags, blocks>>
    BY <1>1 DEF AddFile, Dispatch, Absent, Stored, Uploading, db, disk
  <2>4. \A g \in Files : Assembling(g)' => Assembling(g)
    BY <2>1, <2>2, <2>3 DEF Assembling
  <2> HIDE DEF TypeOK, Labels, Goto
  <2>5. pc'[p] \notin {"recv", "recving", "record"}
    BY <2>2
  <2> QED
    BY <2>1, <2>2, <2>3, <2>4, <2>5, BlockQuiet, Zenon
<1>2. ASSUME NEW p \in Procs, FileExist(p) PROVE BlockInv'
  <2> USE DEF TypeOK, Labels, Goto
  <2>1. \A q \in Procs : q # p =>
          /\ pc'[q] = pc[q] /\ file'[q] = file[q] /\ blockNum'[q] = blockNum[q]
          /\ fileL'[q] = fileL[q] /\ received'[q] = received[q]
    BY <1>2 DEF FileExist, Reply, Exit, disk
  <2>2. /\ pc'[p] \notin {"recv", "recving", "record", "copy"}
        /\ received'[p] => received[p]
        /\ received'[p] => pc'[p] \in {"lockMerge", "publish"} \union MergeSteps
    BY <1>2 DEF FileExist, Reply, Exit, disk, BlockInv, MergeSteps
  <2>3. /\ \A f \in Files : comp'[f] = "none" => comp[f] = "none"
        /\ UNCHANGED <<cfg, flags, blocks>>
    BY <1>2 DEF FileExist, Reply, Exit, disk
  <2>4. \A f \in Files : Assembling(f)' => Assembling(f)
    BY <2>1, <2>2, <2>3 DEF Assembling
  <2> HIDE DEF TypeOK, Labels, Goto
  <2>5. pc'[p] \notin {"recv", "recving", "record"}
    BY <2>2
  <2> QED
    BY <2>1, <2>2, <2>3, <2>4, <2>5, BlockQuiet, Zenon
<1>3. ASSUME NEW p \in Procs, MakeDir(p) PROVE BlockInv'
  <2> USE DEF TypeOK, Labels, Goto
  <2>1. \A q \in Procs : q # p =>
          /\ pc'[q] = pc[q] /\ file'[q] = file[q] /\ blockNum'[q] = blockNum[q]
          /\ fileL'[q] = fileL[q] /\ received'[q] = received[q]
    BY <1>3 DEF MakeDir, db, locals
  <2>2. /\ pc'[p] \notin {"recv", "recving", "record", "copy"}
        /\ received'[p] => received[p]
        /\ received'[p] => pc'[p] \in {"lockMerge", "publish"} \union MergeSteps
    BY <1>3 DEF MakeDir, db, locals, BlockInv, MergeSteps
  <2>3. /\ \A f \in Files : comp'[f] = "none" => comp[f] = "none"
        /\ UNCHANGED <<cfg, flags, blocks>>
    BY <1>3 DEF MakeDir, db, locals
  <2>4. \A f \in Files : Assembling(f)' => Assembling(f)
    BY <2>1, <2>2, <2>3 DEF Assembling
  <2> HIDE DEF TypeOK, Labels, Goto
  <2>5. pc'[p] \notin {"recv", "recving", "record"}
    BY <2>2
  <2> QED
    BY <2>1, <2>2, <2>3, <2>4, <2>5, BlockQuiet, Zenon
<1>4. ASSUME NEW p \in Procs, LockCreate(p) PROVE BlockInv'
  <2> USE DEF TypeOK, Labels, Goto
  <2>1. \A q \in Procs : q # p =>
          /\ pc'[q] = pc[q] /\ file'[q] = file[q] /\ blockNum'[q] = blockNum[q]
          /\ fileL'[q] = fileL[q] /\ received'[q] = received[q]
    BY <1>4 DEF LockCreate, Lock, CanLock, db, disk, locals
  <2>2. /\ pc'[p] \notin {"recv", "recving", "record", "copy"}
        /\ received'[p] => received[p]
        /\ received'[p] => pc'[p] \in {"lockMerge", "publish"} \union MergeSteps
    BY <1>4 DEF LockCreate, Lock, CanLock, db, disk, locals, BlockInv, MergeSteps
  <2>3. /\ \A f \in Files : comp'[f] = "none" => comp[f] = "none"
        /\ UNCHANGED <<cfg, flags, blocks>>
    BY <1>4 DEF LockCreate, Lock, CanLock, db, disk, locals
  <2>4. \A f \in Files : Assembling(f)' => Assembling(f)
    BY <2>1, <2>2, <2>3 DEF Assembling
  <2> HIDE DEF TypeOK, Labels, Goto
  <2>5. pc'[p] \notin {"recv", "recving", "record"}
    BY <2>2
  <2> QED
    BY <2>1, <2>2, <2>3, <2>4, <2>5, BlockQuiet, Zenon
<1>5. ASSUME NEW p \in Procs, CfgExists(p) PROVE BlockInv'
  <2> USE DEF TypeOK, Labels, Goto
  <2>1. \A q \in Procs : q # p =>
          /\ pc'[q] = pc[q] /\ file'[q] = file[q] /\ blockNum'[q] = blockNum[q]
          /\ fileL'[q] = fileL[q] /\ received'[q] = received[q]
    BY <1>5 DEF CfgExists, Unlock, AfterCreate, db, disk, locals
  <2>2. /\ pc'[p] \notin {"recv", "recving", "record", "copy"}
        /\ received'[p] => received[p]
        /\ received'[p] => pc'[p] \in {"lockMerge", "publish"} \union MergeSteps
    <3>1. pc[p] = "create" /\ pc' = [pc EXCEPT ![p] = AfterCreate(p)] /\ received' = received
      BY <1>5 DEF CfgExists, db, disk, locals
    <3>2. AfterCreate(p) \in {"pick", "lockOp"}
      BY DEF AfterCreate
    <3> QED
      BY <3>1, <3>2 DEF BlockInv, MergeSteps
  <2>3. /\ \A f \in Files : comp'[f] = "none" => comp[f] = "none"
        /\ UNCHANGED <<cfg, flags, blocks>>
    BY <1>5 DEF CfgExists, Unlock, AfterCreate, db, disk, locals
  <2>4. \A f \in Files : Assembling(f)' => Assembling(f)
    BY <2>1, <2>2, <2>3 DEF Assembling
  <2> HIDE DEF TypeOK, Labels, Goto
  <2>5. pc'[p] \notin {"recv", "recving", "record"}
    BY <2>2
  <2> QED
    BY <2>1, <2>2, <2>3, <2>4, <2>5, BlockQuiet, Zenon
<1>6. ASSUME NEW p \in Procs, CreateCfg(p) PROVE BlockInv'
  <2> USE DEF TypeOK, Labels, Goto
  <2>1. \A q \in Procs : q # p =>
          /\ pc'[q] = pc[q] /\ file'[q] = file[q] /\ blockNum'[q] = blockNum[q]
          /\ fileL'[q] = fileL[q] /\ received'[q] = received[q]
    BY <1>6 DEF CreateCfg, db, locals
  <2>2. /\ pc[p] = "create" /\ pc'[p] \notin {"recv", "recving", "record", "copy"}
        /\ file[p] \in Files
        /\ UNCHANGED <<comp, file, received, blocks>>
        /\ \A f \in Files : f # file[p] => cfg'[f] = cfg[f] /\ flags'[f] = flags[f]
    BY <1>6 DEF CreateCfg, db, locals
  <2>3. \A f \in Files : Assembling(f)' => Assembling(f)
    BY <2>1, <2>2 DEF Assembling
  <2>4. ~received[p]
    BY <2>2 DEF BlockInv, MergeSteps
  <2>5. ~Ready(file[p]) /\ \A i \in DOMAIN flags'[file[p]] : flags'[file[p]][i] # Over
    <3>1. flags'[file[p]] = <<>> /\ ~cfg[file[p]]
      BY <1>6, <2>2 DEF CreateCfg, CfgInv
    <3> QED
      BY <3>1 DEF Ready
  <2>6. \A q \in Procs : Receiving(q)' =>
          /\ Receiving(q) /\ file'[q] = file[q]
          /\ pc'[q] = pc[q] \/ (pc'[q] = "record" /\ ~received'[q])
          /\ blockNum'[q] = blockNum[q] /\ fileL'[q] = fileL[q]
    BY <2>1, <2>2 DEF Receiving
  <2>7. \A q \in Procs : received'[q] =>
          /\ received[q]
          /\ pc'[q] \in {"record", "lockMerge", "publish"} \union MergeSteps
    BY <2>1, <2>2, <2>4 DEF BlockInv
  <2>8. \A f \in Files : Assembling(f)' =>
          /\ Assembling(f)
          /\ \/ cfg'[f] = cfg[f] /\ flags'[f] = flags[f] /\ blocks'[f] = blocks[f]
             \/ ~Ready(f) /\ \A i \in DOMAIN flags'[f] : flags'[f][i] # Over
    BY <2>2, <2>3, <2>5
  <2> HIDE DEF TypeOK, Labels, Goto
  <2> QED
    BY <2>6, <2>7, <2>8, BlockFrame, Zenon
<1>7. ASSUME NEW p \in Procs, CreateCfgFailed(p) PROVE BlockInv'
  <2> USE DEF TypeOK, Labels, Goto
  <2>1. \A q \in Procs : q # p =>
          /\ pc'[q] = pc[q] /\ file'[q] = file[q] /\ blockNum'[q] = blockNum[q]
          /\ fileL'[q] = fileL[q] /\ received'[q] = received[q]
    BY <1>7 DEF CreateCfgFailed, AfterCreate, db, disk, locals
  <2>2. /\ pc'[p] \notin {"recv", "recving", "record", "copy"}
        /\ received'[p] => received[p]
        /\ received'[p] => pc'[p] \in {"lockMerge", "publish"} \union MergeSteps
    BY <1>7 DEF CreateCfgFailed, AfterCreate, db, disk, locals, BlockInv, MergeSteps
  <2>3. /\ \A f \in Files : comp'[f] = "none" => comp[f] = "none"
        /\ UNCHANGED <<cfg, flags, blocks>>
    BY <1>7 DEF CreateCfgFailed, AfterCreate, db, disk, locals
  <2>4. \A f \in Files : Assembling(f)' => Assembling(f)
    BY <2>1, <2>2, <2>3 DEF Assembling
  <2> HIDE DEF TypeOK, Labels, Goto
  <2>5. pc'[p] \notin {"recv", "recving", "record"}
    BY <2>2
  <2> QED
    BY <2>1, <2>2, <2>3, <2>4, <2>5, BlockQuiet, Zenon
<1>8. ASSUME NEW p \in Procs, InsertStatus(p) PROVE BlockInv'
  <2> USE DEF TypeOK, Labels, Goto
  <2>1. \A q \in Procs : q # p =>
          /\ pc'[q] = pc[q] /\ file'[q] = file[q] /\ blockNum'[q] = blockNum[q]
          /\ fileL'[q] = fileL[q] /\ received'[q] = received[q]
    BY <1>8 DEF InsertStatus, Absent, Stored, Uploading, disk, locals
  <2>2. /\ pc'[p] \notin {"recv", "recving", "record", "copy"}
        /\ received'[p] => received[p]
        /\ received'[p] => pc'[p] \in {"lockMerge", "publish"} \union MergeSteps
    BY <1>8 DEF InsertStatus, Absent, Stored, Uploading, disk, locals, BlockInv, MergeSteps
  <2>3. /\ \A f \in Files : comp'[f] = "none" => comp[f] = "none"
        /\ UNCHANGED <<cfg, flags, blocks>>
    BY <1>8 DEF InsertStatus, Absent, Stored, Uploading, disk, locals
  <2>4. \A f \in Files : Assembling(f)' => Assembling(f)
    BY <2>1, <2>2, <2>3 DEF Assembling
  <2> HIDE DEF TypeOK, Labels, Goto
  <2>5. pc'[p] \notin {"recv", "recving", "record"}
    BY <2>2
  <2> QED
    BY <2>1, <2>2, <2>3, <2>4, <2>5, BlockQuiet, Zenon
<1>9. ASSUME NEW p \in Procs, CloseCfg(p) PROVE BlockInv'
  <2> USE DEF TypeOK, Labels, Goto
  <2>1. \A q \in Procs : q # p =>
          /\ pc'[q] = pc[q] /\ file'[q] = file[q] /\ blockNum'[q] = blockNum[q]
          /\ fileL'[q] = fileL[q] /\ received'[q] = received[q]
    BY <1>9 DEF CloseCfg, AfterCreate, db, locals
  <2>2. /\ pc[p] = "close" /\ pc'[p] \notin {"recv", "recving", "record", "copy"}
        /\ file[p] \in Files
        /\ UNCHANGED <<comp, file, received, blocks>>
        /\ \A f \in Files : f # file[p] => cfg'[f] = cfg[f] /\ flags'[f] = flags[f]
    BY <1>9 DEF CloseCfg, AfterCreate, db, locals
  <2>3. \A f \in Files : Assembling(f)' => Assembling(f)
    BY <2>1, <2>2 DEF Assembling
  <2>4. ~received[p]
    BY <2>2 DEF BlockInv, MergeSteps
  <2>5. ~Ready(file[p]) /\ \A i \in DOMAIN flags'[file[p]] : flags'[file[p]][i] # Over
    <3>1. /\ flags[file[p]] = <<>> /\ cfg[file[p]]
          /\ flags'[file[p]] = [i \in 1 .. BlockNum(file[p]) |-> Free]
      BY <1>9, <2>2 DEF CloseCfg, CfgInv
    <3>2. Free # Over
      BY DEF Free, Over
    <3>3. ~Ready(file[p])
      BY <2>2, <3>1, BlockNumPositive DEF Ready
    <3> QED
      BY <3>1, <3>2, <3>3
  <2>6. \A q \in Procs : Receiving(q)' =>
          /\ Receiving(q) /\ file'[q] = file[q]
          /\ pc'[q] = pc[q] \/ (pc'[q] = "record" /\ ~received'[q])
          /\ blockNum'[q] = blockNum[q] /\ fileL'[q] = fileL[q]
    BY <2>1, <2>2 DEF Receiving
  <2>7. \A q \in Procs : received'[q] =>
          /\ received[q]
          /\ pc'[q] \in {"record", "lockMerge", "publish"} \union MergeSteps
    BY <2>1, <2>2, <2>4 DEF BlockInv
  <2>8. \A f \in Files : Assembling(f)' =>
          /\ Assembling(f)
          /\ \/ cfg'[f] = cfg[f] /\ flags'[f] = flags[f] /\ blocks'[f] = blocks[f]
             \/ ~Ready(f) /\ \A i \in DOMAIN flags'[f] : flags'[f][i] # Over
    BY <2>2, <2>3, <2>5
  <2> HIDE DEF TypeOK, Labels, Goto
  <2> QED
    BY <2>6, <2>7, <2>8, BlockFrame, Zenon
<1>10. ASSUME NEW p \in Procs, LockOp(p) PROVE BlockInv'
  <2> USE DEF TypeOK, Labels, Goto
  <2>1. \A q \in Procs : q # p =>
          /\ pc'[q] = pc[q] /\ file'[q] = file[q] /\ blockNum'[q] = blockNum[q]
          /\ fileL'[q] = fileL[q] /\ received'[q] = received[q]
    BY <1>10 DEF LockOp, Lock, CanLock, db, disk, locals
  <2>2. /\ pc'[p] \notin {"recv", "recving", "record", "copy"}
        /\ received'[p] => received[p]
        /\ received'[p] => pc'[p] \in {"lockMerge", "publish"} \union MergeSteps
    BY <1>10 DEF LockOp, Lock, CanLock, db, disk, locals, BlockInv, MergeSteps
  <2>3. /\ \A f \in Files : comp'[f] = "none" => comp[f] = "none"
        /\ UNCHANGED <<cfg, flags, blocks>>
    BY <1>10 DEF LockOp, Lock, CanLock, db, disk, locals
  <2>4. \A f \in Files : Assembling(f)' => Assembling(f)
    BY <2>1, <2>2, <2>3 DEF Assembling
  <2> HIDE DEF TypeOK, Labels, Goto
  <2>5. pc'[p] \notin {"recv", "recving", "record"}
    BY <2>2
  <2> QED
    BY <2>1, <2>2, <2>3, <2>4, <2>5, BlockQuiet, Zenon
<1>11. ASSUME NEW p \in Procs, TakeBlock(p) PROVE BlockInv'
  <2> PICK g \in Files : g = file[p]
    BY <1>11 DEF TypeOK, TakeBlock
  <2> PICK b : b = FirstFree(flags[g])
    OBVIOUS
  <2>1. /\ FreeFlags(flags[g]) # {} /\ pc[p] = "pick" /\ pc' = [pc EXCEPT ![p] = "recv"]
        /\ flags' = [flags EXCEPT ![g] = WriteAt(flags[g], b, Taken)]
        /\ fileL' = [fileL EXCEPT ![p] = CfgSize(g)]
        /\ blockNum' = [blockNum EXCEPT ![p] = b]
        /\ cfg' = cfg /\ comp' = comp /\ file' = file /\ blocks' = blocks
        /\ received' = received
    BY <1>11 DEF TakeBlock, Goto
  <2>2. Ready(g)
    <3>1. flags[g] # <<>>
      BY <2>1 DEF FreeFlags
    <3> QED
      BY <3>1 DEF CfgInv
  <2>3. b \in Block(g) /\ flags[g][b + 1] = Free
    BY <2>1, <2>2, PickInside, Zenon
  <2>4. /\ WriteAt(flags[g], b, Taken) \in Seq({Free, Taken, Over})
        /\ Len(WriteAt(flags[g], b, Taken)) = BlockNum(g)
        /\ WriteAt(flags[g], b, Taken)[b + 1] = Taken
        /\ \A i \in 1 .. BlockNum(g) : i # b + 1 => WriteAt(flags[g], b, Taken)[i] = flags[g][i]
    BY <2>2, <2>3, WriteReady, Zenon
  <2>5. flags'[g] = WriteAt(flags[g], b, Taken) /\ \A f \in Files : f # g => flags'[f] = flags[f]
    BY <2>1 DEF TypeOK
  <2>6. DOMAIN flags'[g] = DOMAIN flags[g]
    <3>1. DOMAIN WriteAt(flags[g], b, Taken) = 1 .. BlockNum(g)
      BY <2>4
    <3> QED
      BY <2>2, <2>5, <3>1, ReadyFlags
  <2>7. Ready(g)'
    BY <2>1, <2>2, <2>4, <2>5 DEF Ready
  <2>8. ~received[p]
    BY <2>1 DEF BlockInv, MergeSteps
  <2>9. /\ Over # Taken /\ Taken # Free
        /\ fileL'[p] = BlockNum(g) /\ blockNum'[p] = b /\ pc'[p] = "recv"
    BY <2>1, <2>2 DEF Over, Taken, Free, TypeOK, CfgSize, Ready
  <2>10. ASSUME Assembling(g) PROVE Moved(p, g, b)
    <3>1. \A q \in Procs : Receiving(q) /\ q # p /\ file[q] = g => blockNum[q] # b
      BY <2>3, <2>9, <2>10 DEF BlockInv
    <3> QED
      BY <2>1, <2>2, <2>4, <2>5, <2>6, <2>7, <2>9, <3>1 DEF Moved
  <2>11. \A q \in Procs : q # p =>
          /\ pc'[q] = pc[q] /\ file'[q] = file[q] /\ blockNum'[q] = blockNum[q]
          /\ fileL'[q] = fileL[q] /\ received'[q] = received[q]
    BY <2>1
  <2> QED
    BY <2>1, <2>3, <2>5, <2>8, <2>9, <2>10, <2>11, BlockMove
<1>12. ASSUME NEW p \in Procs, NoBlockLeft(p) PROVE BlockInv'
  <2> USE DEF TypeOK, Labels, Goto
  <2>1. \A q \in Procs : q # p =>
          /\ pc'[q] = pc[q] /\ file'[q] = file[q] /\ blockNum'[q] = blockNum[q]
          /\ fileL'[q] = fileL[q] /\ received'[q] = received[q]
    BY <1>12 DEF NoBlockLeft, Reply, Exit, db, disk
  <2>2. /\ pc'[p] \notin {"recv", "recving", "record", "copy"}
        /\ received'[p] => received[p]
        /\ received'[p] => pc'[p] \in {"lockMerge", "publish"} \union MergeSteps
    BY <1>12 DEF NoBlockLeft, Reply, Exit, db, disk, BlockInv, MergeSteps
  <2>3. /\ \A f \in Files : comp'[f] = "none" => comp[f] = "none"
        /\ UNCHANGED <<cfg, flags, blocks>>
    BY <1>12 DEF NoBlockLeft, Reply, Exit, db, disk
  <2>4. \A f \in Files : Assembling(f)' => Assembling(f)
    BY <2>1, <2>2, <2>3 DEF Assembling
  <2> HIDE DEF TypeOK, Labels, Goto
  <2>5. pc'[p] \notin {"recv", "recving", "record"}
    BY <2>2
  <2> QED
    BY <2>1, <2>2, <2>3, <2>4, <2>5, BlockQuiet, Zenon
<1>13. ASSUME NEW p \in Procs, FoundOver(p) PROVE BlockInv'
  <2> USE DEF TypeOK, Labels, Goto
  <2>1. \A q \in Procs : q # p =>
          /\ pc'[q] = pc[q] /\ file'[q] = file[q] /\ blockNum'[q] = blockNum[q]
          /\ fileL'[q] = fileL[q] /\ received'[q] = received[q]
    BY <1>13 DEF FoundOver, Unlock, db, disk
  <2>2. /\ pc'[p] \notin {"recv", "recving", "record", "copy"}
        /\ received'[p] => received[p]
        /\ received'[p] => pc'[p] \in {"lockMerge", "publish"} \union MergeSteps
    BY <1>13 DEF FoundOver, Unlock, db, disk, BlockInv, MergeSteps
  <2>3. /\ \A f \in Files : comp'[f] = "none" => comp[f] = "none"
        /\ UNCHANGED <<cfg, flags, blocks>>
    BY <1>13 DEF FoundOver, Unlock, db, disk
  <2>4. \A f \in Files : Assembling(f)' => Assembling(f)
    BY <2>1, <2>2, <2>3 DEF Assembling
  <2> HIDE DEF TypeOK, Labels, Goto
  <2>5. pc'[p] \notin {"recv", "recving", "record"}
    BY <2>2
  <2> QED
    BY <2>1, <2>2, <2>3, <2>4, <2>5, BlockQuiet, Zenon
<1>14. ASSUME NEW p \in Procs, RecvOpen(p) PROVE BlockInv'
  <2> PICK g \in Files : g = file[p]
    BY <1>14 DEF TypeOK, RecvOpen
  <2> DEFINE b == blockNum[p]
  <2>1. /\ pc[p] = "recv" /\ Receiving(p) /\ pc' = [pc EXCEPT ![p] = "recving"] /\ b \in Block(g)
        /\ blocks' = [blocks EXCEPT ![g][b] = IF dir[g] THEN p ELSE blocks[g][b]]
        /\ received' = received
        /\ cfg' = cfg /\ flags' = flags /\ comp' = comp /\ file' = file
        /\ blockNum' = blockNum /\ fileL' = fileL
    BY <1>14 DEF RecvOpen, db, locals, TypeOK, Receiving, Goto
  <2>2. \A f \in Files : /\ f # g => blocks'[f] = blocks[f]
                         /\ blocks[f] \in [Block(f) -> {"none", "good"} \union Procs]
    BY <2>1 DEF TypeOK
  <2>3. /\ \A c \in Block(g) : c # b => blocks'[g][c] = blocks[g][c]
        /\ blocks'[g][b] = IF dir[g] THEN p ELSE blocks[g][b]
    BY <2>1, <2>2 DEF TypeOK
  <2>4. ASSUME Assembling(g)
        PROVE  /\ Ready(g) /\ fileL[p] = BlockNum(g) /\ flags[g][b + 1] = Taken
               /\ dir[g]
               /\ \A q \in Procs : Receiving(q) /\ q # p /\ file[q] = g => blockNum[q] # b
    BY <2>1, <2>4 DEF BlockInv, CfgInv, Ready
  <2>5. Ready(g) => Ready(g)'
    BY <2>1 DEF Ready
  <2>6. received'[p] => pc'[p] \in {"record", "lockMerge"}
    BY <2>1 DEF BlockInv, TypeOK, MergeSteps
  <2>7. Over # Taken
    BY DEF Over, Taken
  <2>8. \A q \in Procs : q # p =>
          /\ pc'[q] = pc[q] /\ file'[q] = file[q] /\ blockNum'[q] = blockNum[q]
          /\ fileL'[q] = fileL[q] /\ received'[q] = received[q]
    BY <2>1
  <2>9. pc'[p] = "recving" /\ blockNum'[p] = b
    BY <2>1 DEF TypeOK
  <2> HIDE DEF b
  <2>10. Assembling(g) => Moved(p, g, b)
    <3> SUFFICES ASSUME Assembling(g) PROVE Moved(p, g, b)
      OBVIOUS
    <3>1. /\ Ready(g) /\ Ready(g)' /\ fileL'[p] = BlockNum(g) /\ flags'[g][b + 1] = Taken
          /\ \A q \in Procs : Receiving(q) /\ q # p /\ file[q] = g => blockNum[q] # b
      BY <2>1, <2>4, <2>5
    <3>2. /\ "recving" = "recving" => blocks'[g][b] = p
          /\ "recving" = "record" /\ received'[p] => blocks'[g][b] = "good"
      BY <2>3, <2>4
    <3> QED
      BY <2>1, <2>3, <2>7, <2>9, <3>1, <3>2 DEF Moved
  <2>11. /\ \A f \in Files : f # g => flags'[f] = flags[f] /\ blocks'[f] = blocks[f]
         /\ pc'[p] \in {"recv", "recving", "record", "lockMerge", "idle"}
    BY <2>1, <2>2, <2>9
  <2> QED
    BY <2>1, <2>6, <2>8, <2>10, <2>11, BlockMove
<1>15. ASSUME NEW p \in Procs, RecvOk(p) PROVE BlockInv'
  <2> PICK g \in Files : g = file[p]
    BY <1>15 DEF TypeOK, RecvOk
  <2> DEFINE b == blockNum[p]
  <2>1. /\ pc[p] = "recving" /\ Receiving(p) /\ pc' = [pc EXCEPT ![p] = "record"] /\ b \in Block(g)
        /\ blocks' = [blocks EXCEPT ![g][b] = IF blocks[g][b] = p THEN "good" ELSE blocks[g][b]]
        /\ received' = [received EXCEPT ![p] = TRUE]
        /\ cfg' = cfg /\ flags' = flags /\ comp' = comp /\ file' = file
        /\ blockNum' = blockNum /\ fileL' = fileL
    BY <1>15 DEF RecvOk, db, locals, TypeOK, Receiving, Goto
  <2>2. \A f \in Files : /\ f # g => blocks'[f] = blocks[f]
                         /\ blocks[f] \in [Block(f) -> {"none", "good"} \union Procs]
    BY <2>1 DEF TypeOK
  <2>3. /\ \A c \in Block(g) : c # b => blocks'[g][c] = blocks[g][c]
        /\ blocks'[g][b] = IF blocks[g][b] = p THEN "good" ELSE blocks[g][b]
    BY <2>1, <2>2 DEF TypeOK
  <2>4. ASSUME Assembling(g)
        PROVE  /\ Ready(g) /\ fileL[p] = BlockNum(g) /\ flags[g][b + 1] = Taken
               /\ blocks[g][b] = p
               /\ \A q \in Procs : Receiving(q) /\ q # p /\ file[q] = g => blockNum[q] # b
    BY <2>1, <2>4 DEF BlockInv
  <2>5. Ready(g) => Ready(g)'
    BY <2>1 DEF Ready
  <2>6. received'[p] => pc'[p] \in {"record", "lockMerge"}
    BY <2>1 DEF BlockInv, TypeOK, MergeSteps
  <2>7. Over # Taken
    BY DEF Over, Taken
  <2>8. \A q \in Procs : q # p =>
          /\ pc'[q] = pc[q] /\ file'[q] = file[q] /\ blockNum'[q] = blockNum[q]
          /\ fileL'[q] = fileL[q] /\ received'[q] = received[q]
    BY <2>1
  <2>9. pc'[p] = "record" /\ blockNum'[p] = b
    BY <2>1 DEF TypeOK
  <2> HIDE DEF b
  <2>10. Assembling(g) => Moved(p, g, b)
    <3> SUFFICES ASSUME Assembling(g) PROVE Moved(p, g, b)
      OBVIOUS
    <3>1. /\ Ready(g) /\ Ready(g)' /\ fileL'[p] = BlockNum(g) /\ flags'[g][b + 1] = Taken
          /\ \A q \in Procs : Receiving(q) /\ q # p /\ file[q] = g => blockNum[q] # b
      BY <2>1, <2>4, <2>5
    <3>2. /\ "record" = "recving" => blocks'[g][b] = p
          /\ "record" = "record" /\ received'[p] => blocks'[g][b] = "good"
      BY <2>3, <2>4
    <3> QED
      BY <2>1, <2>3, <2>7, <2>9, <3>1, <3>2 DEF Moved
  <2>11. /\ \A f \in Files : f # g => flags'[f] = flags[f] /\ blocks'[f] = blocks[f]
         /\ pc'[p] \in {"recv", "recving", "record", "lockMerge", "idle"}
    BY <2>1, <2>2, <2>9
  <2> QED
    BY <2>1, <2>6, <2>8, <2>10, <2>11, BlockMove
<1>16. ASSUME NEW p \in Procs, RecvFail(p) PROVE BlockInv'
  <2> USE DEF TypeOK, Labels, Goto
  <2>1. \A q \in Procs : q # p =>
          /\ pc'[q] = pc[q] /\ file'[q] = file[q] /\ blockNum'[q] = blockNum[q]
          /\ fileL'[q] = fileL[q] /\ received'[q] = received[q]
    BY <1>16 DEF RecvFail, db, disk, locals
  <2>2. /\ pc[p] \in {"recv", "recving"} /\ pc'[p] = "record" /\ file' = file
        /\ UNCHANGED <<cfg, flags, blocks, comp, blockNum, fileL, received>>
    BY <1>16 DEF RecvFail, db, disk, locals
  <2>3. \A f \in Files : Assembling(f)' => Assembling(f)
    BY <2>1, <2>2 DEF Assembling
  <2>4. ~received[p]
    BY <2>2 DEF BlockInv, MergeSteps
  <2>5. \A q \in Procs : Receiving(q)' =>
          /\ Receiving(q) /\ file'[q] = file[q]
          /\ pc'[q] = pc[q] \/ (pc'[q] = "record" /\ ~received'[q])
          /\ blockNum'[q] = blockNum[q] /\ fileL'[q] = fileL[q]
    BY <2>1, <2>2, <2>4 DEF Receiving
  <2>6. \A q \in Procs : received'[q] =>
          /\ received[q]
          /\ pc'[q] \in {"record", "lockMerge", "publish"} \union MergeSteps
    BY <2>1, <2>2, <2>4 DEF BlockInv
  <2>7. \A f \in Files : Assembling(f)' =>
          /\ Assembling(f)
          /\ \/ cfg'[f] = cfg[f] /\ flags'[f] = flags[f] /\ blocks'[f] = blocks[f]
             \/ ~Ready(f) /\ \A i \in DOMAIN flags'[f] : flags'[f][i] # Over
    BY <2>2, <2>3
  <2> HIDE DEF TypeOK, Labels, Goto
  <2> QED
    BY <2>5, <2>6, <2>7, BlockFrame, Zenon
<1>17. ASSUME NEW p \in Procs, RecordBlock(p) PROVE BlockInv'
  <2> PICK g \in Files : g = file[p]
    BY <1>17 DEF TypeOK, Record, RecordBlock
  <2> PICK b \in Block(g) : b = blockNum[p]
    BY <1>17 DEF TypeOK, Record, RecordBlock
  <2>1. /\ pc[p] = "record" /\ Receiving(p) /\ lock["op"] \in {NoProc, p}
        /\ flags' = [flags EXCEPT ![g] = Recorded(p)]
        /\ cfg' = cfg /\ comp' = comp /\ blocks' = blocks
    BY <1>17 DEF Record, CanLock, RecordBlock, Receiving
  <2>2. /\ pc' = [pc EXCEPT ![p] = "idle"]
        /\ received'[p] => "idle" = "lockMerge"
        /\ \A q \in Procs : q # p =>
             /\ pc'[q] = pc[q] /\ file'[q] = file[q] /\ blockNum'[q] = blockNum[q]
             /\ fileL'[q] = fileL[q] /\ received'[q] = received[q]
    BY <1>17 DEF Record, RecordBlock, locals, Goto, Exit, TypeOK
  <2>3. pc'[p] = "idle" /\ ~Receiving(p)'
    BY <2>2 DEF TypeOK, Receiving
  <2>4. flags'[g] = Recorded(p) /\ \A f \in Files : f # g => flags'[f] = flags[f]
    BY <2>1 DEF TypeOK
  <2>5. ASSUME Assembling(g) PROVE Moved(p, g, b)
    <3>1. /\ Ready(g)
          /\ received[p] => blocks[g][b] = "good"
          /\ \A q \in Procs : Receiving(q) /\ q # p /\ file[q] = g => blockNum[q] # b
      BY <2>1, <2>5 DEF BlockInv
    <3>2. /\ Recorded(p) \in Seq({Free, Taken, Over})
          /\ Len(Recorded(p)) = BlockNum(g)
          /\ Recorded(p)[b + 1] = IF received[p] THEN Over ELSE Free
          /\ \A i \in 1 .. BlockNum(g) : i # b + 1 => Recorded(p)[i] = flags[g][i]
      BY <2>1, <3>1, RecordReady
    <3>3. DOMAIN flags'[g] = DOMAIN flags[g]
      <4>1. DOMAIN Recorded(p) = 1 .. BlockNum(g)
        BY <3>2
      <4> QED
        BY <2>4, <3>1, <4>1, ReadyFlags
    <3>4. Ready(g)'
      BY <2>1, <2>4, <3>1, <3>2 DEF Ready
    <3>5. Free # Over
      BY DEF Free, Over
    <3> QED
      BY <2>1, <2>3, <2>4, <3>1, <3>2, <3>3, <3>4, <3>5 DEF Moved
  <2> QED
    BY <2>1, <2>2, <2>3, <2>4, <2>5, BlockMove
<1>18. ASSUME NEW p \in Procs, RecordLast(p) PROVE BlockInv'
  <2> PICK g \in Files : g = file[p]
    BY <1>18 DEF TypeOK, Record, RecordLast
  <2> PICK b \in Block(g) : b = blockNum[p]
    BY <1>18 DEF TypeOK, Record, RecordLast
  <2>1. /\ pc[p] = "record" /\ Receiving(p) /\ lock["op"] \in {NoProc, p}
        /\ flags' = [flags EXCEPT ![g] = Recorded(p)]
        /\ cfg' = cfg /\ comp' = comp /\ blocks' = blocks
    BY <1>18 DEF Record, CanLock, RecordLast, Receiving
  <2>2. /\ pc' = [pc EXCEPT ![p] = "lockMerge"]
        /\ received'[p] => "lockMerge" = "lockMerge"
        /\ \A q \in Procs : q # p =>
             /\ pc'[q] = pc[q] /\ file'[q] = file[q] /\ blockNum'[q] = blockNum[q]
             /\ fileL'[q] = fileL[q] /\ received'[q] = received[q]
    BY <1>18 DEF Record, RecordLast, locals, Goto, Exit, TypeOK
  <2>3. pc'[p] = "lockMerge" /\ ~Receiving(p)'
    BY <2>2 DEF TypeOK, Receiving
  <2>4. flags'[g] = Recorded(p) /\ \A f \in Files : f # g => flags'[f] = flags[f]
    BY <2>1 DEF TypeOK
  <2>5. ASSUME Assembling(g) PROVE Moved(p, g, b)
    <3>1. /\ Ready(g)
          /\ received[p] => blocks[g][b] = "good"
          /\ \A q \in Procs : Receiving(q) /\ q # p /\ file[q] = g => blockNum[q] # b
      BY <2>1, <2>5 DEF BlockInv
    <3>2. /\ Recorded(p) \in Seq({Free, Taken, Over})
          /\ Len(Recorded(p)) = BlockNum(g)
          /\ Recorded(p)[b + 1] = IF received[p] THEN Over ELSE Free
          /\ \A i \in 1 .. BlockNum(g) : i # b + 1 => Recorded(p)[i] = flags[g][i]
      BY <2>1, <3>1, RecordReady
    <3>3. DOMAIN flags'[g] = DOMAIN flags[g]
      <4>1. DOMAIN Recorded(p) = 1 .. BlockNum(g)
        BY <3>2
      <4> QED
        BY <2>4, <3>1, <4>1, ReadyFlags
    <3>4. Ready(g)'
      BY <2>1, <2>4, <3>1, <3>2 DEF Ready
    <3>5. Free # Over
      BY DEF Free, Over
    <3> QED
      BY <2>1, <2>3, <2>4, <3>1, <3>2, <3>3, <3>4, <3>5 DEF Moved
  <2> QED
    BY <2>1, <2>2, <2>3, <2>4, <2>5, BlockMove
<1>19. ASSUME NEW p \in Procs, LockMerge(p) PROVE BlockInv'
  <2> USE DEF TypeOK, Labels, Goto
  <2>1. \A q \in Procs : q # p =>
          /\ pc'[q] = pc[q] /\ file'[q] = file[q] /\ blockNum'[q] = blockNum[q]
          /\ fileL'[q] = fileL[q] /\ received'[q] = received[q]
    BY <1>19 DEF LockMerge, Lock, CanLock, db, locals
  <2>2. /\ pc'[p] \in {"copy", "publish"} /\ received' = received
        /\ UNCHANGED <<cfg, flags, blocks>>
    BY <1>19 DEF LockMerge, Lock, CanLock, db, locals
  <2>3. /\ file' = file /\ \A f \in Files : comp'[f] = "none" => comp[f] = "none"
        /\ pc'[p] = "copy" => comp[file[p]] = "none"
    BY <1>19 DEF LockMerge, Lock, CanLock, db, locals
  <2>4. \A f \in Files : Assembling(f)' => Assembling(f)
    BY <2>1, <2>2, <2>3 DEF Assembling
  <2>5. /\ pc'[p] \notin {"recv", "recving", "record"}
        /\ pc'[p] \in {"lockMerge", "publish"} \union MergeSteps
    BY <2>2 DEF MergeSteps
  <2> HIDE DEF TypeOK, Labels, Goto
  <2> QED
    BY <2>1, <2>2, <2>4, <2>5, BlockQuiet
<1>20. ASSUME NEW p \in Procs, MergeCopy(p) PROVE BlockInv'
  <2> USE DEF TypeOK, Labels, Goto
  <2>1. \A q \in Procs : q # p =>
          /\ pc'[q] = pc[q] /\ file'[q] = file[q] /\ blockNum'[q] = blockNum[q]
          /\ fileL'[q] = fileL[q] /\ received'[q] = received[q]
    BY <1>20 DEF MergeCopy, db, locals
  <2>2. /\ pc'[p] \notin {"recv", "recving", "record", "copy"}
        /\ received'[p] => received[p]
        /\ received'[p] => pc'[p] \in {"lockMerge", "publish"} \union MergeSteps
    BY <1>20 DEF MergeCopy, db, locals, BlockInv, MergeSteps
  <2>3. /\ \A f \in Files : comp'[f] = "none" => comp[f] = "none"
        /\ UNCHANGED <<cfg, flags, blocks>>
    BY <1>20 DEF MergeCopy, db, locals
  <2>4. \A f \in Files : Assembling(f)' => Assembling(f)
    BY <2>1, <2>2, <2>3 DEF Assembling
  <2> HIDE DEF TypeOK, Labels, Goto
  <2>5. pc'[p] \notin {"recv", "recving", "record"}
    BY <2>2
  <2> QED
    BY <2>1, <2>2, <2>3, <2>4, <2>5, BlockQuiet, Zenon
<1>21. ASSUME NEW p \in Procs, Purge(p) PROVE BlockInv'
  <2> USE DEF TypeOK, Labels, Goto
  <2>1. \A q \in Procs : q # p =>
          /\ pc'[q] = pc[q] /\ file'[q] = file[q] /\ blockNum'[q] = blockNum[q]
          /\ fileL'[q] = fileL[q] /\ received'[q] = received[q]
    BY <1>21 DEF Purge, db, locals
  <2>2. /\ pc[p] = "purge" /\ pc'[p] = "flush" /\ file' = file /\ file[p] \in Files
        /\ UNCHANGED <<comp, received>>
        /\ \A f \in Files : f # file[p] =>
             cfg'[f] = cfg[f] /\ flags'[f] = flags[f] /\ blocks'[f] = blocks[f]
    BY <1>21 DEF Purge, db, locals
  <2>3. /\ \A f \in Files : Assembling(f)' => Assembling(f)
        /\ \A q \in Procs : pc'[q] = "copy" => pc[q] = "copy"
    BY <2>1, <2>2 DEF Assembling
  <2>4. ~Assembling(file[p])
    <3>1. comp[file[p]] # "none" /\ lock["merge"] = p
      BY <2>2 DEF MergeInv, LockInv, MergeSteps
    <3>2. \A q \in Procs : pc[q] = "copy" => lock["merge"] = q
      BY DEF LockInv, MergeSteps
    <3> QED
      BY <2>2, <3>1, <3>2 DEF Assembling
  <2>5. \A q \in Procs : Receiving(q)' =>
          /\ Receiving(q) /\ file'[q] = file[q]
          /\ pc'[q] = pc[q] \/ (pc'[q] = "record" /\ ~received'[q])
          /\ blockNum'[q] = blockNum[q] /\ fileL'[q] = fileL[q]
    BY <2>1, <2>2 DEF Receiving
  <2>6. \A q \in Procs : received'[q] =>
          /\ received[q]
          /\ pc'[q] \in {"record", "lockMerge", "publish"} \union MergeSteps
    BY <2>1, <2>2 DEF BlockInv, MergeSteps
  <2>7. \A f \in Files : Assembling(f)' =>
          /\ Assembling(f)
          /\ \/ cfg'[f] = cfg[f] /\ flags'[f] = flags[f] /\ blocks'[f] = blocks[f]
             \/ ~Ready(f) /\ \A i \in DOMAIN flags'[f] : flags'[f][i] # Over
    BY <2>2, <2>3, <2>4
  <2> HIDE DEF TypeOK, Labels, Goto
  <2> QED
    BY <2>5, <2>6, <2>7, BlockFrame, Zenon
<1>22. ASSUME NEW p \in Procs, Flush(p) PROVE BlockInv'
  <2> USE DEF TypeOK, Labels, Goto
  <2>1. \A q \in Procs : q # p =>
          /\ pc'[q] = pc[q] /\ file'[q] = file[q] /\ blockNum'[q] = blockNum[q]
          /\ fileL'[q] = fileL[q] /\ received'[q] = received[q]
    BY <1>22 DEF Flush, db, locals
  <2>2. /\ pc'[p] \notin {"recv", "recving", "record", "copy"}
        /\ received'[p] => received[p]
        /\ received'[p] => pc'[p] \in {"lockMerge", "publish"} \union MergeSteps
    BY <1>22 DEF Flush, db, locals, BlockInv, MergeSteps
  <2>3. /\ \A f \in Files : comp'[f] = "none" => comp[f] = "none"
        /\ UNCHANGED <<cfg, flags, blocks>>
    BY <1>22 DEF Flush, db, locals
  <2>4. \A f \in Files : Assembling(f)' => Assembling(f)
    BY <2>1, <2>2, <2>3 DEF Assembling
  <2> HIDE DEF TypeOK, Labels, Goto
  <2>5. pc'[p] \notin {"recv", "recving", "record"}
    BY <2>2
  <2> QED
    BY <2>1, <2>2, <2>3, <2>4, <2>5, BlockQuiet, Zenon
<1>23. ASSUME NEW p \in Procs, Publish(p) PROVE BlockInv'
  <2> USE DEF TypeOK, Labels, Goto
  <2>1. \A q \in Procs : q # p =>
          /\ pc'[q] = pc[q] /\ file'[q] = file[q] /\ blockNum'[q] = blockNum[q]
          /\ fileL'[q] = fileL[q] /\ received'[q] = received[q]
    BY <1>23 DEF Publish, Reply, Exit, Absent, Stored, Uploading, disk
  <2>2. /\ pc'[p] \notin {"recv", "recving", "record", "copy"}
        /\ received'[p] => received[p]
        /\ received'[p] => pc'[p] \in {"lockMerge", "publish"} \union MergeSteps
    BY <1>23 DEF Publish, Reply, Exit, Absent, Stored, Uploading, disk, BlockInv, MergeSteps
  <2>3. /\ \A f \in Files : comp'[f] = "none" => comp[f] = "none"
        /\ UNCHANGED <<cfg, flags, blocks>>
    BY <1>23 DEF Publish, Reply, Exit, Absent, Stored, Uploading, disk
  <2>4. \A f \in Files : Assembling(f)' => Assembling(f)
    BY <2>1, <2>2, <2>3 DEF Assembling
  <2> HIDE DEF TypeOK, Labels, Goto
  <2>5. pc'[p] \notin {"recv", "recving", "record"}
    BY <2>2
  <2> QED
    BY <2>1, <2>2, <2>3, <2>4, <2>5, BlockQuiet, Zenon
<1>24. ASSUME NEW p \in Procs, Kill(p) PROVE BlockInv'
  <2> USE DEF TypeOK, Labels, Goto
  <2>1. \A q \in Procs : q # p =>
          /\ pc'[q] = pc[q] /\ file'[q] = file[q] /\ blockNum'[q] = blockNum[q]
          /\ fileL'[q] = fileL[q] /\ received'[q] = received[q]
    BY <1>24 DEF Kill, Lost, Exit, db
  <2>2. /\ pc'[p] \notin {"recv", "recving", "record", "copy"}
        /\ received'[p] => received[p]
        /\ received'[p] => pc'[p] \in {"lockMerge", "publish"} \union MergeSteps
    BY <1>24 DEF Kill, Lost, Exit, db, BlockInv, MergeSteps
  <2>3. /\ \A f \in Files : comp'[f] = "none" => comp[f] = "none"
        /\ UNCHANGED <<cfg, flags, blocks>>
    BY <1>24 DEF Kill, Lost, Exit, db
  <2>4. \A f \in Files : Assembling(f)' => Assembling(f)
    BY <2>1, <2>2, <2>3 DEF Assembling
  <2> HIDE DEF TypeOK, Labels, Goto
  <2>5. pc'[p] \notin {"recv", "recving", "record"}
    BY <2>2
  <2> QED
    BY <2>1, <2>2, <2>3, <2>4, <2>5, BlockQuiet, Zenon
<1>25. CASE Restart
  <2>1. /\ pc' = [p \in Procs |-> "idle"] /\ received' = [p \in Procs |-> FALSE]
        /\ flags' = [f \in Files |-> <<>>]
    BY <1>25 DEF Restart
  <2>2. \A p \in Procs : ~Receiving(p)' /\ ~received'[p]
    BY <2>1 DEF Receiving
  <2> QED
    BY <2>1, <2>2 DEF BlockInv
<1>26. CASE UNCHANGED vars
  BY <1>26 DEF vars, disk, locals, BlockInv, Receiving, Assembling, Ready
<1> QED
  BY <1>1, <1>2, <1>3, <1>4, <1>5, <1>6, <1>7, <1>8, <1>9, <1>10, <1>11, <1>12, <1>13,
     <1>14, <1>15, <1>16, <1>17, <1>18, <1>19, <1>20, <1>21, <1>22, <1>23, <1>24, <1>25, <1>26
  DEF Next, Serve, Create, Select, Receive, Finish, Merge, SafeFaults, RestartMain

\* A step of p outside mergeFile, or to its door, keeps MergeInv, if it spoils
\* no complete cfg.
LEMMA MergeFrame ==
  ASSUME TypeOK, MergeInv, NEW p \in Procs,
         \A q \in Procs : q # p =>
           pc'[q] = pc[q] /\ file'[q] = file[q] /\ fileL'[q] = fileL[q],
         pc[p] \notin MergeSteps,
         pc'[p] \notin {"publish"} \union MergeSteps,
         \A f \in Files :
           pc'[p] = "lockMerge" /\ file'[p] = f /\ comp[f] = "none" =>
             Ready(f)' /\ AllOver(flags'[f]) /\ fileL'[p] = BlockNum(f),
         pc'[p] = "lockMerge" => file'[p] \in Files,
         comp' = comp,
         \A k \in Keys : \/ rows'[k] = rows[k]
                         \/ rows'[k] \in Files /\ status[rows'[k]] = Stored,
         \A f \in Files : status'[f] = Stored <=> status[f] = Stored,
         \A f \in Files : Ready(f) => Ready(f)',
         \A f \in Files :
           Assembling(f) /\ Ready(f) /\ AllOver(flags[f]) => flags'[f] = flags[f]
  PROVE  MergeInv'
<1>1. ASSUME NEW q \in Procs, NEW f \in Files, file'[q] = f
      PROVE  /\ \/ pc'[q] = "copy"
                \/ pc'[q] = "lockMerge" /\ comp'[f] = "none"
                => Ready(f)' /\ AllOver(flags'[f]) /\ fileL'[q] = BlockNum(f)
             /\ pc'[q] = "purge" => Ready(f)'
             /\ pc'[q] = "copy" => comp'[f] = "partial"
             /\ pc'[q] \in {"purge", "flush"} => comp'[f] = "buffered"
             /\ pc'[q] = "publish" => comp'[f] = "whole"
  <2>1. CASE q = p
    BY <1>1, <2>1 DEF MergeSteps
  <2>2. CASE q # p
    <3>1. pc'[q] = pc[q] /\ file[q] = f /\ fileL'[q] = fileL[q]
      BY <1>1, <2>2
    <3>2. /\ \/ pc[q] = "copy"
             \/ pc[q] = "lockMerge" /\ comp[f] = "none"
             => Ready(f) /\ AllOver(flags[f]) /\ fileL[q] = BlockNum(f) /\ Assembling(f)
          /\ pc[q] = "purge" => Ready(f)
          /\ pc[q] = "copy" => comp[f] = "partial"
          /\ pc[q] \in {"purge", "flush"} => comp[f] = "buffered"
          /\ pc[q] = "publish" => comp[f] = "whole"
      BY <3>1 DEF MergeInv, Assembling
    <3> QED
      BY <3>1, <3>2
  <2> QED
    BY <2>1, <2>2
<1>2. ASSUME NEW f \in Files, comp'[f] \in {"partial", "buffered"}
      PROVE  \E q \in Procs : file'[q] = f /\ pc'[q] \in MergeSteps
  <2>1. PICK q \in Procs : file[q] = f /\ pc[q] \in MergeSteps
    BY <1>2 DEF MergeInv
  <2> QED
    BY <2>1
<1>3. \A f \in Files : status'[f] = Stored => comp'[f] = "whole"
  BY DEF MergeInv
<1>4. ASSUME NEW k \in Keys, rows'[k] # NoFile PROVE status'[rows'[k]] = Stored
  <2>1. CASE rows'[k] = rows[k]
    <3>1. rows[k] \in Files /\ status[rows[k]] = Stored
      BY <1>4, <2>1 DEF MergeInv, TypeOK
    <3> QED
      BY <2>1, <3>1
  <2>2. CASE rows'[k] \in Files /\ status[rows'[k]] = Stored
    BY <2>2
  <2> QED
    BY <2>1, <2>2
<1>5. \A q \in Procs : pc'[q] \in {"lockMerge", "publish"} \union MergeSteps => file'[q] \in Files
  BY DEF TypeOK, MergeSteps
<1>6. ASSUME NEW q \in Procs
      PROVE  /\ \/ pc'[q] = "copy"
                \/ pc'[q] = "lockMerge" /\ comp'[file'[q]] = "none"
                => Ready(file[q])' /\ AllOver(flags'[file'[q]]) /\ fileL'[q] = BlockNum(file'[q])
             /\ pc'[q] = "purge" => Ready(file[q])'
             /\ pc'[q] = "copy" => comp'[file'[q]] = "partial"
             /\ pc'[q] \in {"purge", "flush"} => comp'[file'[q]] = "buffered"
             /\ pc'[q] = "publish" => comp'[file'[q]] = "whole"
  <2>1. CASE pc'[q] \in {"lockMerge", "publish"} \union MergeSteps
    <3> PICK f \in Files : file'[q] = f
      BY <1>5, <2>1
    <3>1. Ready(f)' => Ready(file[q])'
      BY DEF Ready
    <3> QED
      BY <1>1, <3>1
  <2>2. CASE pc'[q] \notin {"lockMerge", "publish"} \union MergeSteps
    BY <2>2 DEF MergeSteps
  <2> QED
    BY <2>1, <2>2
<1> QED
  BY <1>2, <1>3, <1>4, <1>6 DEF MergeInv, AllOver

\* A step of the child p that merges g, or is about to, keeps MergeInv.
LEMMA MergeMove ==
  ASSUME TypeOK, MergeInv, NEW p \in Procs, NEW g \in Files, file[p] = g,
         \A q \in Procs : q # p =>
           /\ pc'[q] = pc[q] /\ file'[q] = file[q] /\ fileL'[q] = fileL[q]
           /\ pc[q] \notin {"publish"} \union MergeSteps,
         \A f \in Files : f # g =>
           comp'[f] = comp[f] /\ cfg'[f] = cfg[f] /\ flags'[f] = flags[f],
         comp'[g] # "none",
         pc'[p] \in {"idle", "publish"} \union MergeSteps,
         pc'[p] # "idle" => file'[p] = g,
         pc'[p] \in {"copy", "purge"} => Ready(g)',
         pc'[p] = "copy" => /\ AllOver(flags'[g]) /\ fileL'[p] = BlockNum(g)
                            /\ comp'[g] = "partial",
         pc'[p] \in {"purge", "flush"} => comp'[g] = "buffered",
         pc'[p] \in {"idle", "publish"} => comp'[g] = "whole",
         \A f \in Files : \/ status'[f] = status[f]
                          \/ f = g /\ status'[g] = Stored /\ pc'[p] = "idle",
         comp[g] = "whole" => comp'[g] = "whole",
         rows' = rows
  PROVE  MergeInv'
<1>1. ASSUME NEW q \in Procs, NEW f \in Files, file'[q] = f
      PROVE  /\ \/ pc'[q] = "copy"
                \/ pc'[q] = "lockMerge" /\ comp'[f] = "none"
                => Ready(f)' /\ AllOver(flags'[f]) /\ fileL'[q] = BlockNum(f)
             /\ pc'[q] = "purge" => Ready(f)'
             /\ pc'[q] = "copy" => comp'[f] = "partial"
             /\ pc'[q] \in {"purge", "flush"} => comp'[f] = "buffered"
             /\ pc'[q] = "publish" => comp'[f] = "whole"
  <2>1. CASE q = p
    BY <1>1, <2>1 DEF MergeSteps
  <2>2. CASE q # p
    <3>1. /\ pc'[q] = pc[q] /\ file[q] = f /\ fileL'[q] = fileL[q]
          /\ pc[q] \notin {"publish"} \union MergeSteps
      BY <1>1, <2>2
    <3>2. pc[q] = "lockMerge" /\ comp[f] = "none"
            => Ready(f) /\ AllOver(flags[f]) /\ fileL[q] = BlockNum(f)
      BY <3>1 DEF MergeInv
    <3>3. comp'[f] = "none" => comp[f] = "none" /\ cfg'[f] = cfg[f] /\ flags'[f] = flags[f]
      OBVIOUS
    <3>4. comp'[f] = "none" /\ Ready(f) => Ready(f)'
      BY <3>3 DEF Ready
    <3> QED
      BY <3>1, <3>2, <3>3, <3>4 DEF MergeSteps
  <2> QED
    BY <2>1, <2>2
<1>2. ASSUME NEW f \in Files, comp'[f] \in {"partial", "buffered"}
      PROVE  \E q \in Procs : file'[q] = f /\ pc'[q] \in MergeSteps
  <2>1. CASE f = g
    BY <1>2, <2>1 DEF MergeSteps
  <2>2. CASE f # g
    <3>1. PICK q \in Procs : file[q] = f /\ pc[q] \in MergeSteps
      BY <1>2, <2>2 DEF MergeInv
    <3> QED
      BY <2>2, <3>1
  <2> QED
    BY <2>1, <2>2
<1>3. ASSUME NEW f \in Files, status'[f] = Stored PROVE comp'[f] = "whole"
  BY <1>3 DEF MergeInv
<1>4. \A k \in Keys : rows'[k] # NoFile => status'[rows'[k]] = Stored
  BY DEF MergeInv, TypeOK
<1>5. \A q \in Procs : pc'[q] \in {"lockMerge", "publish"} \union MergeSteps => file'[q] \in Files
  BY DEF TypeOK, MergeSteps
<1>6. ASSUME NEW q \in Procs
      PROVE  /\ \/ pc'[q] = "copy"
                \/ pc'[q] = "lockMerge" /\ comp'[file'[q]] = "none"
                => Ready(file[q])' /\ AllOver(flags'[file'[q]]) /\ fileL'[q] = BlockNum(file'[q])
             /\ pc'[q] = "purge" => Ready(file[q])'
             /\ pc'[q] = "copy" => comp'[file'[q]] = "partial"
             /\ pc'[q] \in {"purge", "flush"} => comp'[file'[q]] = "buffered"
             /\ pc'[q] = "publish" => comp'[file'[q]] = "whole"
  <2>1. CASE pc'[q] \in {"lockMerge", "publish"} \union MergeSteps
    <3> PICK f \in Files : file'[q] = f
      BY <1>5, <2>1
    <3>1. Ready(f)' => Ready(file[q])'
      BY DEF Ready
    <3> QED
      BY <1>1, <3>1
  <2>2. CASE pc'[q] \notin {"lockMerge", "publish"} \union MergeSteps
    BY <2>2 DEF MergeSteps
  <2> QED
    BY <2>1, <2>2
<1> QED
  BY <1>2, <1>3, <1>4, <1>6 DEF MergeInv, AllOver

\* A content is assembled once, from all its blocks, and published after that.
LEMMA MergeStep ==
  ASSUME SafeFaults, TypeOK, LockInv, OpeningInv, StatusInv, CfgInv, BlockInv, MergeInv, [Next]_vars
  PROVE  MergeInv'
<1> USE NamesAssumption
<1>1. ASSUME NEW p \in Procs, NEW f \in Files, NEW k \in Keys, AddFile(p, f, k) PROVE MergeInv'
  <2> USE DEF TypeOK, Labels, Goto
  <2>1. \A q \in Procs : q # p =>
          pc'[q] = pc[q] /\ file'[q] = file[q] /\ fileL'[q] = fileL[q]
    BY <1>1 DEF AddFile, Dispatch, Absent, Stored, Uploading, db, disk
  <2>2. /\ pc[p] \notin MergeSteps /\ pc'[p] \notin {"lockMerge", "publish"} \union MergeSteps
        /\ comp' = comp /\ rows' = rows
    BY <1>1 DEF AddFile, Dispatch, Absent, Stored, Uploading, db, disk, MergeSteps
  <2>3. \A g \in Files : status'[g] = Stored <=> status[g] = Stored
    BY <1>1 DEF AddFile, Dispatch, Absent, Stored, Uploading, db, disk, Stored, Uploading, Absent
  <2>4. cfg' = cfg /\ flags' = flags
    BY <1>1 DEF AddFile, Dispatch, Absent, Stored, Uploading, db, disk
  <2>5. \A g \in Files : Ready(g) => Ready(g)'
    BY <2>4 DEF Ready
  <2> HIDE DEF TypeOK, Labels, Goto
  <2> QED
    BY <2>1, <2>2, <2>3, <2>4, <2>5, MergeFrame
<1>2. ASSUME NEW p \in Procs, FileExist(p) PROVE MergeInv'
  <2> USE DEF TypeOK, Labels, Goto
  <2>1. \A q \in Procs : q # p =>
          pc'[q] = pc[q] /\ file'[q] = file[q] /\ fileL'[q] = fileL[q]
    BY <1>2 DEF FileExist, Reply, Exit, disk
  <2>2. /\ pc[p] \notin MergeSteps /\ pc'[p] \notin {"lockMerge", "publish"} \union MergeSteps
        /\ comp' = comp
    BY <1>2 DEF FileExist, Reply, Exit, disk, MergeSteps
  <2>3. status' = status /\ cfg' = cfg /\ flags' = flags
    BY <1>2 DEF FileExist, disk
  <2>4. \A k \in Keys : rows'[k] = rows[k] \/ (rows'[k] \in Files /\ status[rows'[k]] = Stored)
    <3>1. pc[p] = "link" /\ file[p] \in Files
      BY <1>2 DEF FileExist
    <3>2. status[file[p]] = Stored
      BY <3>1 DEF StatusInv
    <3>3. rows' = rows \/ rows' = [rows EXCEPT ![key[p]] = file[p]]
      BY <1>2 DEF FileExist
    <3> QED
      BY <3>1, <3>2, <3>3
  <2>5. \A f \in Files : Ready(f) => Ready(f)'
    BY <2>3 DEF Ready
  <2> HIDE DEF TypeOK, Labels, Goto
  <2> QED
    BY <2>1, <2>2, <2>3, <2>4, <2>5, MergeFrame
<1>3. ASSUME NEW p \in Procs, MakeDir(p) PROVE MergeInv'
  <2> USE DEF TypeOK, Labels, Goto
  <2>1. \A q \in Procs : q # p =>
          pc'[q] = pc[q] /\ file'[q] = file[q] /\ fileL'[q] = fileL[q]
    BY <1>3 DEF MakeDir, db, locals
  <2>2. /\ pc[p] \notin MergeSteps /\ pc'[p] \notin {"lockMerge", "publish"} \union MergeSteps
        /\ comp' = comp /\ rows' = rows
    BY <1>3 DEF MakeDir, db, locals, MergeSteps
  <2>3. \A f \in Files : status'[f] = Stored <=> status[f] = Stored
    BY <1>3 DEF MakeDir, db, locals, Stored, Uploading, Absent
  <2>4. cfg' = cfg /\ flags' = flags
    BY <1>3 DEF MakeDir, db, locals
  <2>5. \A f \in Files : Ready(f) => Ready(f)'
    BY <2>4 DEF Ready
  <2> HIDE DEF TypeOK, Labels, Goto
  <2> QED
    BY <2>1, <2>2, <2>3, <2>4, <2>5, MergeFrame
<1>4. ASSUME NEW p \in Procs, LockCreate(p) PROVE MergeInv'
  <2> USE DEF TypeOK, Labels, Goto
  <2>1. \A q \in Procs : q # p =>
          pc'[q] = pc[q] /\ file'[q] = file[q] /\ fileL'[q] = fileL[q]
    BY <1>4 DEF LockCreate, Lock, CanLock, db, disk, locals
  <2>2. /\ pc[p] \notin MergeSteps /\ pc'[p] \notin {"lockMerge", "publish"} \union MergeSteps
        /\ comp' = comp /\ rows' = rows
    BY <1>4 DEF LockCreate, Lock, CanLock, db, disk, locals, MergeSteps
  <2>3. \A f \in Files : status'[f] = Stored <=> status[f] = Stored
    BY <1>4 DEF LockCreate, Lock, CanLock, db, disk, locals, Stored, Uploading, Absent
  <2>4. cfg' = cfg /\ flags' = flags
    BY <1>4 DEF LockCreate, Lock, CanLock, db, disk, locals
  <2>5. \A f \in Files : Ready(f) => Ready(f)'
    BY <2>4 DEF Ready
  <2> HIDE DEF TypeOK, Labels, Goto
  <2> QED
    BY <2>1, <2>2, <2>3, <2>4, <2>5, MergeFrame
<1>5. ASSUME NEW p \in Procs, CfgExists(p) PROVE MergeInv'
  <2> USE DEF TypeOK, Labels, Goto
  <2>1. \A q \in Procs : q # p =>
          pc'[q] = pc[q] /\ file'[q] = file[q] /\ fileL'[q] = fileL[q]
    BY <1>5 DEF CfgExists, Unlock, AfterCreate, db, disk, locals
  <2>2. /\ pc[p] \notin MergeSteps /\ pc'[p] \notin {"lockMerge", "publish"} \union MergeSteps
        /\ comp' = comp /\ rows' = rows
    BY <1>5 DEF CfgExists, Unlock, AfterCreate, db, disk, locals, MergeSteps
  <2>3. \A f \in Files : status'[f] = Stored <=> status[f] = Stored
    BY <1>5 DEF CfgExists, Unlock, AfterCreate, db, disk, locals, Stored, Uploading, Absent
  <2>4. cfg' = cfg /\ flags' = flags
    BY <1>5 DEF CfgExists, Unlock, AfterCreate, db, disk, locals
  <2>5. \A f \in Files : Ready(f) => Ready(f)'
    BY <2>4 DEF Ready
  <2> HIDE DEF TypeOK, Labels, Goto
  <2> QED
    BY <2>1, <2>2, <2>3, <2>4, <2>5, MergeFrame
<1>6. ASSUME NEW p \in Procs, CreateCfg(p) PROVE MergeInv'
  <2> USE DEF TypeOK, Labels, Goto
  <2>1. \A q \in Procs : q # p =>
          pc'[q] = pc[q] /\ file'[q] = file[q] /\ fileL'[q] = fileL[q]
    BY <1>6 DEF CreateCfg, db, locals
  <2>2. /\ pc[p] \notin MergeSteps /\ pc'[p] \notin {"lockMerge", "publish"} \union MergeSteps
        /\ comp' = comp /\ rows' = rows
    BY <1>6 DEF CreateCfg, db, locals, MergeSteps
  <2>3. \A f \in Files : status'[f] = Stored <=> status[f] = Stored
    BY <1>6 DEF CreateCfg, db, locals, Stored, Uploading, Absent
  <2>4. flags' = flags
    BY <1>6 DEF CreateCfg
  <2>5. \A f \in Files : Ready(f) => Ready(f)'
    BY <1>6 DEF CreateCfg, Ready
  <2> HIDE DEF TypeOK, Labels, Goto
  <2> QED
    BY <2>1, <2>2, <2>3, <2>4, <2>5, MergeFrame
<1>7. ASSUME NEW p \in Procs, CreateCfgFailed(p) PROVE MergeInv'
  <2> USE DEF TypeOK, Labels, Goto
  <2>1. \A q \in Procs : q # p =>
          pc'[q] = pc[q] /\ file'[q] = file[q] /\ fileL'[q] = fileL[q]
    BY <1>7 DEF CreateCfgFailed, AfterCreate, db, disk, locals
  <2>2. /\ pc[p] \notin MergeSteps /\ pc'[p] \notin {"lockMerge", "publish"} \union MergeSteps
        /\ comp' = comp /\ rows' = rows
    BY <1>7 DEF CreateCfgFailed, AfterCreate, db, disk, locals, MergeSteps
  <2>3. \A f \in Files : status'[f] = Stored <=> status[f] = Stored
    BY <1>7 DEF CreateCfgFailed, AfterCreate, db, disk, locals, Stored, Uploading, Absent
  <2>4. cfg' = cfg /\ flags' = flags
    BY <1>7 DEF CreateCfgFailed, AfterCreate, db, disk, locals
  <2>5. \A f \in Files : Ready(f) => Ready(f)'
    BY <2>4 DEF Ready
  <2> HIDE DEF TypeOK, Labels, Goto
  <2> QED
    BY <2>1, <2>2, <2>3, <2>4, <2>5, MergeFrame
<1>8. ASSUME NEW p \in Procs, InsertStatus(p) PROVE MergeInv'
  <2> USE DEF TypeOK, Labels, Goto
  <2>1. \A q \in Procs : q # p =>
          pc'[q] = pc[q] /\ file'[q] = file[q] /\ fileL'[q] = fileL[q]
    BY <1>8 DEF InsertStatus, Absent, Stored, Uploading, disk, locals
  <2>2. /\ pc[p] \notin MergeSteps /\ pc'[p] \notin {"lockMerge", "publish"} \union MergeSteps
        /\ comp' = comp /\ rows' = rows
    BY <1>8 DEF InsertStatus, Absent, Stored, Uploading, disk, locals, MergeSteps
  <2>3. \A f \in Files : status'[f] = Stored <=> status[f] = Stored
    BY <1>8 DEF InsertStatus, Absent, Stored, Uploading, disk, locals, Stored, Uploading, Absent
  <2>4. cfg' = cfg /\ flags' = flags
    BY <1>8 DEF InsertStatus, Absent, Stored, Uploading, disk, locals
  <2>5. \A f \in Files : Ready(f) => Ready(f)'
    BY <2>4 DEF Ready
  <2> HIDE DEF TypeOK, Labels, Goto
  <2> QED
    BY <2>1, <2>2, <2>3, <2>4, <2>5, MergeFrame
<1>9. ASSUME NEW p \in Procs, CloseCfg(p) PROVE MergeInv'
  <2> USE DEF TypeOK, Labels, Goto
  <2>1. \A q \in Procs : q # p =>
          pc'[q] = pc[q] /\ file'[q] = file[q] /\ fileL'[q] = fileL[q]
    BY <1>9 DEF CloseCfg, Unlock, AfterCreate, db, locals
  <2>2. /\ pc[p] \notin MergeSteps /\ pc'[p] \notin {"lockMerge", "publish"} \union MergeSteps
        /\ comp' = comp /\ rows' = rows
    BY <1>9 DEF CloseCfg, Unlock, AfterCreate, db, locals, MergeSteps
  <2>3. \A f \in Files : status'[f] = Stored <=> status[f] = Stored
    BY <1>9 DEF CloseCfg, Unlock, AfterCreate, db, locals, Stored, Uploading, Absent
  <2>4. ~Ready(file[p]) /\ file[p] \in Files
    <3>1. flags[file[p]] = <<>> /\ file[p] \in Files
      BY <1>9 DEF CloseCfg, CfgInv
    <3> QED
      BY <3>1, BlockNumPositive DEF Ready
  <2>5. /\ \A f \in Files : f # file[p] => flags'[f] = flags[f]
        /\ cfg' = cfg
    BY <1>9 DEF CloseCfg
  <2>6. \A f \in Files : Ready(f) => Ready(f)'
    BY <2>4, <2>5 DEF Ready
  <2> HIDE DEF TypeOK, Labels, Goto
  <2> QED
    BY <2>1, <2>2, <2>3, <2>4, <2>5, <2>6, MergeFrame
<1>10. ASSUME NEW p \in Procs, LockOp(p) PROVE MergeInv'
  <2> USE DEF TypeOK, Labels, Goto
  <2>1. \A q \in Procs : q # p =>
          pc'[q] = pc[q] /\ file'[q] = file[q] /\ fileL'[q] = fileL[q]
    BY <1>10 DEF LockOp, Lock, CanLock, db, disk, locals
  <2>2. /\ pc[p] \notin MergeSteps /\ pc'[p] \notin {"lockMerge", "publish"} \union MergeSteps
        /\ comp' = comp /\ rows' = rows
    BY <1>10 DEF LockOp, Lock, CanLock, db, disk, locals, MergeSteps
  <2>3. \A f \in Files : status'[f] = Stored <=> status[f] = Stored
    BY <1>10 DEF LockOp, Lock, CanLock, db, disk, locals, Stored, Uploading, Absent
  <2>4. cfg' = cfg /\ flags' = flags
    BY <1>10 DEF LockOp, Lock, CanLock, db, disk, locals
  <2>5. \A f \in Files : Ready(f) => Ready(f)'
    BY <2>4 DEF Ready
  <2> HIDE DEF TypeOK, Labels, Goto
  <2> QED
    BY <2>1, <2>2, <2>3, <2>4, <2>5, MergeFrame
<1>11. ASSUME NEW p \in Procs, TakeBlock(p) PROVE MergeInv'
  <2> USE DEF TypeOK, Labels, Goto
  <2>1. \A q \in Procs : q # p =>
          pc'[q] = pc[q] /\ file'[q] = file[q] /\ fileL'[q] = fileL[q]
    BY <1>11 DEF TakeBlock, Unlock, Reply, db
  <2>2. /\ pc[p] \notin MergeSteps /\ pc'[p] \notin {"lockMerge", "publish"} \union MergeSteps
        /\ comp' = comp /\ rows' = rows
    BY <1>11 DEF TakeBlock, Unlock, Reply, db, MergeSteps
  <2>3. \A f \in Files : status'[f] = Stored <=> status[f] = Stored
    BY <1>11 DEF TakeBlock, Unlock, Reply, db, Stored, Uploading, Absent
  <2>4. PICK g \in Files : /\ FreeFlags(flags[g]) # {}
                           /\ flags' = [flags EXCEPT ![g] = WriteAt(flags[g], FirstFree(flags[g]), Taken)]
                           /\ cfg' = cfg
    BY <1>11 DEF TakeBlock
  <2>5. Ready(g) /\ ~AllOver(flags[g])
    <3>1. flags[g] # <<>>
      BY <2>4 DEF FreeFlags
    <3>2. Free # Over
      BY DEF Free, Over
    <3> QED
      BY <2>4, <3>1, <3>2 DEF CfgInv, FreeFlags, AllOver
  <2>6. Len(WriteAt(flags[g], FirstFree(flags[g]), Taken)) = BlockNum(g)
    BY <2>4, <2>5, PickInside, WriteReady, Zenon
  <2>7. \A f \in Files : f # g => flags'[f] = flags[f]
    BY <2>4
  <2>8. \A f \in Files : Ready(f) => Ready(f)'
    BY <2>4, <2>6, <2>7 DEF Ready
  <2> HIDE DEF TypeOK, Labels, Goto
  <2> QED
    BY <2>1, <2>2, <2>3, <2>5, <2>7, <2>8, MergeFrame
<1>12. ASSUME NEW p \in Procs, NoBlockLeft(p) PROVE MergeInv'
  <2> USE DEF TypeOK, Labels, Goto
  <2>1. \A q \in Procs : q # p =>
          pc'[q] = pc[q] /\ file'[q] = file[q] /\ fileL'[q] = fileL[q]
    BY <1>12 DEF NoBlockLeft, Reply, Exit, db, disk
  <2>2. /\ pc[p] \notin MergeSteps /\ pc'[p] \notin {"lockMerge", "publish"} \union MergeSteps
        /\ comp' = comp /\ rows' = rows
    BY <1>12 DEF NoBlockLeft, Reply, Exit, db, disk, MergeSteps
  <2>3. \A f \in Files : status'[f] = Stored <=> status[f] = Stored
    BY <1>12 DEF NoBlockLeft, Reply, Exit, db, disk, Stored, Uploading, Absent
  <2>4. cfg' = cfg /\ flags' = flags
    BY <1>12 DEF NoBlockLeft, Reply, Exit, db, disk
  <2>5. \A f \in Files : Ready(f) => Ready(f)'
    BY <2>4 DEF Ready
  <2> HIDE DEF TypeOK, Labels, Goto
  <2> QED
    BY <2>1, <2>2, <2>3, <2>4, <2>5, MergeFrame
<1>13. ASSUME NEW p \in Procs, FoundOver(p) PROVE MergeInv'
  <2> PICK g \in Files : g = file[p]
    BY <1>13 DEF TypeOK, FoundOver
  <2>1. /\ pc[p] = "pick" /\ AllOver(flags[g]) /\ pc' = [pc EXCEPT ![p] = "lockMerge"]
        /\ fileL' = [fileL EXCEPT ![p] = CfgSize(g)]
        /\ status' = status /\ rows' = rows
        /\ cfg' = cfg /\ flags' = flags /\ comp' = comp /\ file' = file
    BY <1>13 DEF FoundOver, Goto, db, disk
  <2>2. /\ pc'[p] = "lockMerge" /\ fileL'[p] = CfgSize(g)
        /\ \A q \in Procs : q # p =>
             pc'[q] = pc[q] /\ file'[q] = file[q] /\ fileL'[q] = fileL[q]
    BY <2>1 DEF TypeOK
  <2>3. \A f \in Files : Ready(f) => Ready(f)'
    BY <2>1 DEF Ready
  <2>4. comp[g] = "none" => Ready(g)
    BY <2>1 DEF CfgInv
  <2>5. comp[g] = "none" => Ready(g)' /\ AllOver(flags'[g]) /\ fileL'[p] = BlockNum(g)
    BY <2>1, <2>2, <2>3, <2>4 DEF CfgSize, Ready
  <2>6. pc[p] \notin MergeSteps /\ pc'[p] \notin {"publish"} \union MergeSteps
    BY <2>1, <2>2 DEF MergeSteps
  <2> QED
    BY <2>1, <2>2, <2>3, <2>5, <2>6, MergeFrame
<1>14. ASSUME NEW p \in Procs, RecvOpen(p) PROVE MergeInv'
  <2> USE DEF TypeOK, Labels, Goto
  <2>1. \A q \in Procs : q # p =>
          pc'[q] = pc[q] /\ file'[q] = file[q] /\ fileL'[q] = fileL[q]
    BY <1>14 DEF RecvOpen, db, locals
  <2>2. /\ pc[p] \notin MergeSteps /\ pc'[p] \notin {"lockMerge", "publish"} \union MergeSteps
        /\ comp' = comp /\ rows' = rows
    BY <1>14 DEF RecvOpen, db, locals, MergeSteps
  <2>3. \A f \in Files : status'[f] = Stored <=> status[f] = Stored
    BY <1>14 DEF RecvOpen, db, locals, Stored, Uploading, Absent
  <2>4. cfg' = cfg /\ flags' = flags
    BY <1>14 DEF RecvOpen, db, locals
  <2>5. \A f \in Files : Ready(f) => Ready(f)'
    BY <2>4 DEF Ready
  <2> HIDE DEF TypeOK, Labels, Goto
  <2> QED
    BY <2>1, <2>2, <2>3, <2>4, <2>5, MergeFrame
<1>15. ASSUME NEW p \in Procs, RecvOk(p) PROVE MergeInv'
  <2> USE DEF TypeOK, Labels, Goto
  <2>1. \A q \in Procs : q # p =>
          pc'[q] = pc[q] /\ file'[q] = file[q] /\ fileL'[q] = fileL[q]
    BY <1>15 DEF RecvOk, db
  <2>2. /\ pc[p] \notin MergeSteps /\ pc'[p] \notin {"lockMerge", "publish"} \union MergeSteps
        /\ comp' = comp /\ rows' = rows
    BY <1>15 DEF RecvOk, db, MergeSteps
  <2>3. \A f \in Files : status'[f] = Stored <=> status[f] = Stored
    BY <1>15 DEF RecvOk, db, Stored, Uploading, Absent
  <2>4. cfg' = cfg /\ flags' = flags
    BY <1>15 DEF RecvOk, db
  <2>5. \A f \in Files : Ready(f) => Ready(f)'
    BY <2>4 DEF Ready
  <2> HIDE DEF TypeOK, Labels, Goto
  <2> QED
    BY <2>1, <2>2, <2>3, <2>4, <2>5, MergeFrame
<1>16. ASSUME NEW p \in Procs, RecvFail(p) PROVE MergeInv'
  <2> USE DEF TypeOK, Labels, Goto
  <2>1. \A q \in Procs : q # p =>
          pc'[q] = pc[q] /\ file'[q] = file[q] /\ fileL'[q] = fileL[q]
    BY <1>16 DEF RecvFail, db, disk, locals
  <2>2. /\ pc[p] \notin MergeSteps /\ pc'[p] \notin {"lockMerge", "publish"} \union MergeSteps
        /\ comp' = comp /\ rows' = rows
    BY <1>16 DEF RecvFail, db, disk, locals, MergeSteps
  <2>3. \A f \in Files : status'[f] = Stored <=> status[f] = Stored
    BY <1>16 DEF RecvFail, db, disk, locals, Stored, Uploading, Absent
  <2>4. cfg' = cfg /\ flags' = flags
    BY <1>16 DEF RecvFail, db, disk, locals
  <2>5. \A f \in Files : Ready(f) => Ready(f)'
    BY <2>4 DEF Ready
  <2> HIDE DEF TypeOK, Labels, Goto
  <2> QED
    BY <2>1, <2>2, <2>3, <2>4, <2>5, MergeFrame
<1>17. ASSUME NEW p \in Procs, RecordBlock(p) PROVE MergeInv'
  <2> USE DEF TypeOK, Labels, Goto
  <2>1. \A q \in Procs : q # p =>
          pc'[q] = pc[q] /\ file'[q] = file[q] /\ fileL'[q] = fileL[q]
    BY <1>17 DEF RecordBlock, Record, CanLock, Reply, Exit, db
  <2>2. /\ pc[p] \notin MergeSteps /\ pc'[p] \notin {"lockMerge", "publish"} \union MergeSteps
        /\ comp' = comp /\ rows' = rows
    BY <1>17 DEF RecordBlock, Record, CanLock, Reply, Exit, db, MergeSteps
  <2>3. \A f \in Files : status'[f] = Stored <=> status[f] = Stored
    BY <1>17 DEF RecordBlock, Record, CanLock, Reply, Exit, db, Stored, Uploading, Absent
  <2>4. PICK g \in Files : /\ g = file[p] /\ pc[p] = "record" /\ lock["op"] \in {NoProc, p}
                           /\ flags' = [flags EXCEPT ![g] = Recorded(p)]
                           /\ cfg' = cfg
    BY <1>17 DEF RecordBlock, Record, CanLock
  <2>5. \A f \in Files : f # g => flags'[f] = flags[f]
    BY <2>4
  <2>6. \A f \in Files : Ready(f) => Ready(f)'
    <3>1. Ready(g) => Len(Recorded(p)) = BlockNum(g)
      BY <2>4, RecordReady
    <3> QED
      BY <2>4, <2>5, <3>1 DEF Ready
  <2>7. Assembling(g) => ~AllOver(flags[g])
    <3> SUFFICES ASSUME Assembling(g) PROVE ~AllOver(flags[g])
      OBVIOUS
    <3>1. Ready(g) /\ flags[g][blockNum[p] + 1] = Taken /\ blockNum[p] \in Block(g)
      <4>1. blockNum[p] \in Block(g)
        BY <2>4 DEF TypeOK
      <4>2. Receiving(p) /\ Assembling(file[p])
        BY <2>4 DEF Receiving
      <4>3. Ready(file[p]) /\ flags[file[p]][blockNum[p] + 1] = Taken
        BY <4>2 DEF BlockInv
      <4> QED
        BY <2>4, <4>1, <4>3
    <3>2. blockNum[p] + 1 \in DOMAIN flags[g]
      BY <3>1, ReadyFlags DEF Block
    <3>3. Taken # Over
      BY DEF Taken, Over
    <3> QED
      BY <3>1, <3>2, <3>3 DEF AllOver
  <2> HIDE DEF TypeOK, Labels, Goto
  <2> QED
    BY <2>1, <2>2, <2>3, <2>5, <2>6, <2>7, MergeFrame
<1>18. ASSUME NEW p \in Procs, RecordLast(p) PROVE MergeInv'
  <2>4. PICK g \in Files : /\ g = file[p] /\ pc[p] = "record" /\ lock["op"] \in {NoProc, p}
                           /\ flags' = [flags EXCEPT ![g] = Recorded(p)]
                           /\ cfg' = cfg
    BY <1>18 DEF RecordLast, Record, CanLock, TypeOK
  <2>5. \A f \in Files : f # g => flags'[f] = flags[f]
    BY <2>4
  <2>6. \A f \in Files : Ready(f) => Ready(f)'
    <3>1. Ready(g) => Len(Recorded(p)) = BlockNum(g)
      BY <2>4, RecordReady
    <3> QED
      BY <2>4, <2>5, <3>1 DEF Ready
  <2>7. Assembling(g) => ~AllOver(flags[g])
    <3> SUFFICES ASSUME Assembling(g) PROVE ~AllOver(flags[g])
      OBVIOUS
    <3>1. Ready(g) /\ flags[g][blockNum[p] + 1] = Taken /\ blockNum[p] \in Block(g)
      <4>1. blockNum[p] \in Block(g)
        BY <2>4 DEF TypeOK
      <4>2. Receiving(p) /\ Assembling(file[p])
        BY <2>4 DEF Receiving
      <4>3. Ready(file[p]) /\ flags[file[p]][blockNum[p] + 1] = Taken
        BY <4>2 DEF BlockInv
      <4> QED
        BY <2>4, <4>1, <4>3
    <3>2. blockNum[p] + 1 \in DOMAIN flags[g]
      BY <3>1, ReadyFlags DEF Block
    <3>3. Taken # Over
      BY DEF Taken, Over
    <3> QED
      BY <3>1, <3>2, <3>3 DEF AllOver
  <2>8. /\ status' = status /\ rows' = rows /\ comp' = comp /\ file' = file /\ fileL' = fileL
        /\ pc' = [pc EXCEPT ![p] = "lockMerge"] /\ Counted(p) = fileL[p]
    BY <1>18 DEF RecordLast, Goto, db, locals
  <2>9. pc'[p] = "lockMerge" /\ \A q \in Procs : q # p => pc'[q] = pc[q]
    BY <2>8 DEF TypeOK
  <2>10. ASSUME comp[g] = "none"
         PROVE  Ready(g)' /\ AllOver(flags'[g]) /\ fileL'[p] = BlockNum(g)
    <3>1. Ready(g) /\ fileL[p] = BlockNum(g)
      BY <2>4, <2>10 DEF BlockInv, Receiving, Assembling
    <3>2. /\ Recorded(p) \in Seq({Free, Taken, Over}) /\ Len(Recorded(p)) = BlockNum(g)
          /\ BlockNum(g) \in Nat
      BY <2>4, <3>1, RecordReady, BlockNumPositive
    <3>3. OverNum(Recorded(p), BlockNum(g), IF received[p] THEN 0 ELSE -1) = BlockNum(g)
      BY <2>8, <3>1 DEF Counted
    <3>4. AllOver(Recorded(p))
      BY <3>2, <3>3, FullCount, Zenon
    <3>5. flags'[g] = Recorded(p)
      BY <2>4 DEF TypeOK
    <3> QED
      BY <2>6, <2>8, <3>1, <3>4, <3>5
  <2>11. pc[p] \notin MergeSteps /\ pc'[p] \notin {"publish"} \union MergeSteps
    BY <2>4, <2>9 DEF MergeSteps
  <2> QED
    BY <2>4, <2>5, <2>6, <2>7, <2>8, <2>9, <2>10, <2>11, MergeFrame
<1>19. ASSUME NEW p \in Procs, LockMerge(p) PROVE MergeInv'
  <2> PICK g \in Files : g = file[p]
    BY <1>19 DEF TypeOK, LockMerge
  <2>1. /\ pc[p] = "lockMerge" /\ status' = status /\ rows' = rows
        /\ \A q \in Procs : q # p =>
             pc'[q] = pc[q] /\ file'[q] = file[q] /\ fileL'[q] = fileL[q]
    BY <1>19 DEF LockMerge, Lock, CanLock, db, locals, Goto, TypeOK
  <2>2. \A q \in Procs : q # p => pc[q] \notin {"publish"} \union MergeSteps
    BY <1>19 DEF LockInv, MergeSteps, LockMerge, Lock, CanLock, db, locals
  <2>3. /\ cfg' = cfg /\ flags' = flags /\ file' = file /\ fileL' = fileL
        /\ \/ pc'[p] = "copy" /\ comp[g] = "none" /\ comp' = [comp EXCEPT ![g] = "partial"]
           \/ pc'[p] = "publish" /\ comp[g] # "none" /\ comp' = comp
    BY <1>19 DEF LockMerge, Lock, CanLock, db, locals, Goto, TypeOK
  <2>4. comp[g] # "none" => comp[g] = "whole"
    <3>1. comp[g] \notin {"partial", "buffered"}
      BY <2>1, <2>2 DEF MergeInv, MergeSteps
    <3> QED
      BY <3>1 DEF TypeOK
  <2>5. pc'[p] = "copy" => Ready(g) /\ AllOver(flags[g]) /\ fileL[p] = BlockNum(g)
    BY <2>1, <2>3 DEF MergeInv
  <2>6. Ready(g) => Ready(g)'
    BY <2>3 DEF Ready
  <2>7. /\ comp'[g] = IF pc'[p] = "copy" THEN "partial" ELSE "whole"
        /\ \A f \in Files : f # g => comp'[f] = comp[f]
        /\ comp[g] = "whole" => comp'[g] = "whole"
    BY <2>3, <2>4 DEF TypeOK
  <2>8. pc'[p] \in {"idle", "publish"} \union MergeSteps
    BY <2>3 DEF MergeSteps
  <2> QED
    BY <2>1, <2>2, <2>3, <2>5, <2>6, <2>7, <2>8, MergeMove
<1>20. ASSUME NEW p \in Procs, MergeCopy(p) PROVE MergeInv'
  <2> PICK g \in Files : g = file[p]
    BY <1>20 DEF TypeOK, MergeCopy
  <2>1. /\ pc[p] = "copy" /\ status' = status /\ rows' = rows
        /\ \A q \in Procs : q # p =>
             pc'[q] = pc[q] /\ file'[q] = file[q] /\ fileL'[q] = fileL[q]
    BY <1>20 DEF MergeCopy, db, locals, Goto, TypeOK
  <2>2. \A q \in Procs : q # p => pc[q] \notin {"publish"} \union MergeSteps
    BY <1>20 DEF LockInv, MergeSteps, MergeCopy, db, locals
  <2>3. Ready(g) /\ AllOver(flags[g]) /\ fileL[p] = BlockNum(g)
    BY <2>1 DEF MergeInv
  <2>4. \A b \in Block(g) : blocks[g][b] = "good"
    <3> SUFFICES ASSUME NEW b \in Block(g) PROVE blocks[g][b] = "good"
      OBVIOUS
    <3>1. PICK i \in DOMAIN flags[g] : i = b + 1 /\ i - 1 = b
      BY <2>3, ReadyFlags DEF Block
    <3>2. flags[g][i] = Over
      BY <2>3 DEF AllOver
    <3>3. Assembling(g)
      BY <2>1 DEF Assembling
    <3> QED
      BY <3>1, <3>2, <3>3 DEF BlockInv
  <2>5. /\ cfg' = cfg /\ flags' = flags /\ file' = file
        /\ pc'[p] = "purge" /\ comp' = [comp EXCEPT ![g] = "buffered"]
    BY <1>20, <2>3, <2>4 DEF MergeCopy, db, locals, Goto, TypeOK
  <2>6. Ready(g)'
    BY <2>3, <2>5 DEF Ready
  <2>7. /\ comp'[g] = "buffered" /\ comp[g] = "partial"
        /\ \A f \in Files : f # g => comp'[f] = comp[f]
    BY <2>1, <2>5 DEF TypeOK, MergeInv
  <2>8. pc'[p] \in {"idle", "publish"} \union MergeSteps
    BY <2>5 DEF MergeSteps
  <2> QED
    BY <2>1, <2>2, <2>5, <2>6, <2>7, <2>8, MergeMove
<1>21. ASSUME NEW p \in Procs, Purge(p) PROVE MergeInv'
  <2> PICK g \in Files : g = file[p]
    BY <1>21 DEF TypeOK, Purge
  <2>1. /\ pc[p] = "purge" /\ status' = status /\ rows' = rows
        /\ \A q \in Procs : q # p =>
             pc'[q] = pc[q] /\ file'[q] = file[q] /\ fileL'[q] = fileL[q]
    BY <1>21 DEF Purge, db, locals, Goto, TypeOK
  <2>2. \A q \in Procs : q # p => pc[q] \notin {"publish"} \union MergeSteps
    BY <1>21 DEF LockInv, MergeSteps, Purge, db, locals
  <2>3. /\ comp' = comp /\ file' = file /\ pc'[p] = "flush"
        /\ \A f \in Files : f # g => cfg'[f] = cfg[f] /\ flags'[f] = flags[f]
    BY <1>21 DEF Purge, db, locals, Goto, TypeOK
  <2>4. comp[g] = "buffered"
    BY <2>1 DEF MergeInv
  <2>5. pc'[p] \in {"idle", "publish"} \union MergeSteps
    BY <2>3 DEF MergeSteps
  <2> QED
    BY <2>1, <2>2, <2>3, <2>4, <2>5, MergeMove
<1>22. ASSUME NEW p \in Procs, Flush(p) PROVE MergeInv'
  <2> PICK g \in Files : g = file[p]
    BY <1>22 DEF TypeOK, Flush
  <2>1. /\ pc[p] = "flush" /\ status' = status /\ rows' = rows
        /\ \A q \in Procs : q # p =>
             pc'[q] = pc[q] /\ file'[q] = file[q] /\ fileL'[q] = fileL[q]
    BY <1>22 DEF Flush, db, locals, Goto, TypeOK
  <2>2. \A q \in Procs : q # p => pc[q] \notin {"publish"} \union MergeSteps
    BY <1>22 DEF LockInv, MergeSteps, Flush, db, locals
  <2>3. comp[g] = "buffered"
    BY <2>1 DEF MergeInv
  <2>4. /\ cfg' = cfg /\ flags' = flags /\ file' = file
        /\ pc'[p] = "publish" /\ comp' = [comp EXCEPT ![g] = "whole"]
    BY <1>22, <2>3 DEF Flush, db, locals, Goto, TypeOK
  <2>5. comp'[g] = "whole" /\ \A f \in Files : f # g => comp'[f] = comp[f]
    BY <2>4 DEF TypeOK
  <2>6. pc'[p] \in {"idle", "publish"} \union MergeSteps
    BY <2>4
  <2> QED
    BY <2>1, <2>2, <2>4, <2>5, <2>6, MergeMove
<1>23. ASSUME NEW p \in Procs, Publish(p) PROVE MergeInv'
  <2> PICK g \in Files : g = file[p]
    BY <1>23 DEF TypeOK, Publish
  <2>1. /\ pc[p] = "publish" /\ status' = [status EXCEPT ![g] = IF @ = Absent THEN @ ELSE Stored] /\ rows' = rows
        /\ \A q \in Procs : q # p =>
             pc'[q] = pc[q] /\ file'[q] = file[q] /\ fileL'[q] = fileL[q]
    BY <1>23 DEF Publish, Reply, Exit, Absent, Stored, Uploading, disk, Goto, TypeOK
  <2>2. \A q \in Procs : q # p => pc[q] \notin {"publish"} \union MergeSteps
    BY <1>23 DEF LockInv, MergeSteps, Publish, Reply, Exit, Absent, Stored, Uploading, disk
  <2>3. comp[g] = "whole"
    BY <2>1 DEF MergeInv
  <2>4. cfg' = cfg /\ flags' = flags /\ comp' = comp /\ pc'[p] = "idle"
    BY <1>23 DEF Publish, Reply, Exit, Absent, Stored, Uploading, disk, Goto, TypeOK
  <2>5. \A f \in Files : status'[f] = status[f] \/ (f = g /\ status'[g] = Stored)
    BY <2>1 DEF TypeOK
  <2> QED
    BY <2>1, <2>2, <2>3, <2>4, <2>5, MergeMove
<1>24. ASSUME NEW p \in Procs, Kill(p) PROVE MergeInv'
  <2> USE DEF TypeOK, Labels, Goto
  <2>1. \A q \in Procs : q # p =>
          pc'[q] = pc[q] /\ file'[q] = file[q] /\ fileL'[q] = fileL[q]
    BY <1>24 DEF Kill, Lost, Exit, db, SafeFaults
  <2>2. /\ pc[p] \notin MergeSteps /\ pc'[p] \notin {"lockMerge", "publish"} \union MergeSteps
        /\ comp' = comp /\ rows' = rows
    BY <1>24 DEF Kill, Lost, Exit, db, SafeFaults, MergeSteps
  <2>3. \A f \in Files : status'[f] = Stored <=> status[f] = Stored
    BY <1>24 DEF Kill, Lost, Exit, db, SafeFaults, Stored, Uploading, Absent
  <2>4. cfg' = cfg /\ flags' = flags
    BY <1>24 DEF Kill, Lost, Exit, db, SafeFaults
  <2>5. \A f \in Files : Ready(f) => Ready(f)'
    BY <2>4 DEF Ready
  <2> HIDE DEF TypeOK, Labels, Goto
  <2> QED
    BY <2>1, <2>2, <2>3, <2>4, <2>5, MergeFrame
<1>25. CASE Restart
  <2>1. \A p \in Procs : pc[p] \notin MergeSteps
    BY <1>25 DEF Restart, SafeFaults
  <2>2. \A f \in Files : comp[f] \notin {"partial", "buffered"}
    BY <2>1 DEF MergeInv
  <2>3. /\ comp' = [f \in Files |-> Lost(comp[f])] /\ pc' = [p \in Procs |-> "idle"]
        /\ status' = status /\ rows' = rows
    BY <1>25 DEF Restart, db
  <2>4. \A f \in Files : comp'[f] = comp[f]
    BY <2>2, <2>3 DEF Lost
  <2>5. \A p \in Procs : pc'[p] = "idle"
    BY <2>3
  <2>6. \A f \in Files : status'[f] = Stored => comp'[f] = "whole"
    BY <2>3, <2>4 DEF MergeInv
  <2>7. \A k \in Keys : rows'[k] # NoFile => status'[rows'[k]] = Stored
    BY <2>3 DEF MergeInv
  <2> QED
    BY <2>2, <2>4, <2>5, <2>6, <2>7 DEF MergeInv, MergeSteps
<1>26. CASE UNCHANGED vars
  BY <1>26 DEF vars, db, disk, locals, MergeInv, Ready
<1> QED
  BY <1>1, <1>2, <1>3, <1>4, <1>5, <1>6, <1>7, <1>8, <1>9, <1>10, <1>11, <1>12, <1>13,
     <1>14, <1>15, <1>16, <1>17, <1>18, <1>19, <1>20, <1>21, <1>22, <1>23, <1>24, <1>25, <1>26
  DEF Next, Serve, Create, Select, Receive, Finish, Merge, SafeFaults, RestartMain

\* The size of the cfg that a child has found is the number of blocks.
LEMMA CountStep ==
  ASSUME SafeFaults, TypeOK, CfgInv, CountInv, [Next]_vars
  PROVE  CountInv'
<1>1. ASSUME NEW p \in Procs, TakeBlock(p) PROVE CountInv'
  <2> PICK f \in Files : f = file[p]
    BY <1>1 DEF TypeOK, TakeBlock
  <2>1. FreeFlags(flags[f]) # {} /\ fileL' = [fileL EXCEPT ![p] = CfgSize(f)] /\ file' = file
    BY <1>1 DEF TakeBlock
  <2>2. flags[f] # <<>>
    BY <2>1 DEF FreeFlags
  <2>3. Ready(f)
    BY <2>2 DEF CfgInv
  <2>4. CfgSize(f) = BlockNum(f)
    BY <2>3 DEF CfgSize, Ready
  <2>5. \A q \in Procs : q # p => pc'[q] = pc[q] /\ fileL'[q] = fileL[q]
    BY <1>1, <2>1 DEF TakeBlock, Goto, TypeOK
  <2>6. fileL'[p] = BlockNum(f)
    BY <2>1, <2>4 DEF TypeOK
  <2> QED
    BY <2>1, <2>5, <2>6 DEF CountInv, Receiving
<1>2. ASSUME NEW p \in Procs, ~TakeBlock(p),
             Serve(p) \/ Kill(p) \/ \E f \in Files, k \in Keys : AddFile(p, f, k)
      PROVE  CountInv'
  <2> USE DEF TypeOK, Receiving, Goto, locals, Exit
  <2> SUFFICES ASSUME NEW q \in Procs, Receiving(q)'
               PROVE  Receiving(q) /\ file'[q] = file[q] /\ fileL'[q] = fileL[q]
    BY DEF CountInv
  <2>1. CASE \E f \in Files, k \in Keys : AddFile(p, f, k)
    BY <2>1 DEF AddFile, Dispatch, Absent, Stored, Uploading
  <2>2. CASE FileExist(p) \/ NoBlockLeft(p) \/ RecordBlock(p) \/ Kill(p) \/ Publish(p)
    BY <2>2 DEF FileExist, NoBlockLeft, RecordBlock, Kill, Publish
  <2>3. CASE LockOp(p) \/ FoundOver(p)
    BY <2>3 DEF LockOp, FoundOver
  <2>4. CASE Create(p)
    <3>1. /\ UNCHANGED <<file, fileL>>
          /\ \E l \in {"lockCreate", "create", "pick", "lockOp", "insert", "close"} : pc' = [pc EXCEPT ![p] = l]
      BY <2>4 DEF Create, MakeDir, LockCreate, CfgExists, CreateCfg, CreateCfgFailed, InsertStatus,
         CloseCfg, AfterCreate
    <3> QED
      BY <3>1
  <2>5. CASE Receive(p)
    BY <2>5 DEF Receive, RecvOpen, RecvOk, RecvFail
  <2>6. CASE RecordLast(p)
    BY <2>6 DEF RecordLast, Record
  <2>7. CASE LockMerge(p) \/ MergeCopy(p) \/ Purge(p) \/ Flush(p)
    BY <2>7 DEF LockMerge, MergeCopy, Purge, Flush
  <2> QED
    BY <1>2, <2>1, <2>2, <2>3, <2>4, <2>5, <2>6, <2>7, Zenon DEF Serve, Select, Finish, Merge
<1>3. CASE Restart
  BY <1>3 DEF Restart, CountInv, Receiving
<1>4. CASE UNCHANGED vars
  BY <1>4 DEF vars, locals, CountInv, Receiving
<1> QED
  BY <1>1, <1>2, <1>3, <1>4 DEF Next, SafeFaults, RestartMain

\* The invariant holds initially.
LEMMA InvInit == Init => IInv
<1> SUFFICES ASSUME Init PROVE IInv
  OBVIOUS
<1>1. TypeOK
  BY TypeInit
<1>2. LockInv
  BY NamesAssumption DEF Init, LockInv, Locks, CreateSteps, MergeSteps
<1>3. OpeningInv
  BY DEF Init, OpeningInv, Opening, CreateSteps
<1>4. StatusInv
  BY NamesAssumption DEF Init, StatusInv, Unregistered, Absent, Stored, Locks
<1>5. CfgInv
  BY DEF Init, CfgInv
<1>6. BlockInv
  BY DEF Init, BlockInv, Receiving
<1>7. CountInv
  BY DEF Init, CountInv, Receiving
<1>8. MergeInv
  BY DEF Init, MergeInv, Absent, Stored
<1> QED
  BY <1>1, <1>2, <1>3, <1>4, <1>5, <1>6, <1>7, <1>8 DEF IInv

\* Every step keeps it.
LEMMA InvStep == ASSUME SafeFaults, IInv, [Next]_vars PROVE IInv'
  BY TypeStep, LockStep, OpeningStep, StatusStep, CfgStep, BlockStep, CountStep,
     MergeStep DEF IInv

\* Under SafeFaults the invariant holds in every reachable state.
THEOREM Invariance == SafeFaults => (Spec => []IInv)
<1> SUFFICES ASSUME SafeFaults PROVE Spec => []IInv
  OBVIOUS
<1>1. Init => IInv
  BY InvInit
<1>2. IInv /\ [Next]_vars => IInv'
  BY InvStep
<1> QED
  BY <1>1, <1>2, PTL DEF Spec

\* PublishedWhole for any number of children, contents and blocks: a content
\* whose status says that it is there is there byte for byte, if requests do
\* not overlap the first createConfig and no fault hits a merge
\* (mergeFile, server.cpp:393-421).
THEOREM PublishedIsWhole == SafeFaults => (Spec => []PublishedWhole)
<1>1. IInv => PublishedWhole
  BY DEF IInv, MergeInv, PublishedWhole
<1> QED
  BY <1>1, Invariance, PTL

\* LinkedIsWhole under the same conditions: what a user's path is linked to
\* can be downloaded (fileExist, server.cpp:265-283).
THEOREM LinksAreWhole == SafeFaults => (Spec => []LinkedIsWhole)
<1>1. IInv => LinkedIsWhole
  BY DEF IInv, TypeOK, MergeInv, LinkedIsWhole
<1> QED
  BY <1>1, Invariance, PTL

\* NoLockCycle: no two children wait for one another (the create lock is
\* taken under the op lock, server.cpp:434-439, never the other way round).
THEOREM LocksAreOrdered == SafeFaults => (Spec => []NoLockCycle)
<1>1. IInv => NoLockCycle
  <2> SUFFICES ASSUME IInv, NEW p \in Procs, NEW q \in Procs,
                      NEW l \in WaitsFor(p), lock[l] = q, NEW m \in WaitsFor(q), lock[m] = p
               PROVE  FALSE
    BY DEF NoLockCycle
  <2>1. ASSUME NEW r \in Procs, NEW n \in WaitsFor(r)
        PROVE  \/ n = "create" /\ pc[r] = "lockCreate"
               \/ n = "op" /\ pc[r] \in {"lockOp", "record"}
               \/ n = "merge" /\ pc[r] = "lockMerge"
    BY <2>1 DEF WaitsFor
  <2>2. /\ \/ l = "create" /\ pc[p] = "lockCreate"
           \/ l = "op" /\ pc[p] \in {"lockOp", "record"}
           \/ l = "merge" /\ pc[p] = "lockMerge"
        /\ \/ m = "create" /\ pc[q] = "lockCreate"
           \/ m = "op" /\ pc[q] \in {"lockOp", "record"}
           \/ m = "merge" /\ pc[q] = "lockMerge"
    BY <2>1
  <2>3. LockInv
    BY DEF IInv
  <2> QED
    BY <2>2, <2>3 DEF LockInv, MergeSteps, CreateSteps
<1> QED
  BY <1>1, Invariance, PTL

-----------------------------------------------------------------------------
(* Replies *)

\* The pieces of the handler that reply, and the others.
LEMMA ReplyKinds ==
  ASSUME TypeOK, Next, NEW p \in Procs,
         sent'[p] # sent[p], sent'[p] # <<>>
  PROVE  FileExist(p) \/ TakeBlock(p) \/ NoBlockLeft(p) \/ RecordBlock(p) \/ Publish(p)
<1> USE DEF TypeOK
<1>1. ASSUME NEW q \in Procs, NEW f \in Files, NEW k \in Keys, AddFile(q, f, k) PROVE FALSE
  BY <1>1 DEF AddFile
<1>2. ASSUME NEW q \in Procs, Create(q) PROVE sent' = sent
  BY <1>2 DEF Create, MakeDir, LockCreate, CfgExists, CreateCfg, CreateCfgFailed, InsertStatus, CloseCfg
<1>3. ASSUME NEW q \in Procs,
             \/ LockOp(q) \/ FoundOver(q) \/ Receive(q) \/ RecordLast(q)
             \/ LockMerge(q) \/ MergeCopy(q) \/ Purge(q) \/ Flush(q) \/ Kill(q)
      PROVE  sent' = sent
  BY <1>3 DEF LockOp, FoundOver, Receive, RecvOpen, RecvOk, RecvFail, RecordLast,
     LockMerge, MergeCopy, Purge, Flush, Kill
<1>4. ASSUME NEW q \in Procs, q # p,
             FileExist(q) \/ TakeBlock(q) \/ NoBlockLeft(q) \/ RecordBlock(q) \/ Publish(q)
      PROVE  sent'[p] = sent[p]
  BY <1>4 DEF FileExist, TakeBlock, NoBlockLeft, RecordBlock, Publish, Reply
<1>5. ~Restart /\ (RestartMain => sent' = sent)
  BY DEF Restart, RestartMain
<1> QED
  BY <1>1, <1>2, <1>3, <1>4, <1>5 DEF Next, Serve, Select, Finish, Merge

\* CompleteReplyMeansStored: a client told that all blocks are finished finds
\* the content stored (mergeFile comes before the reply, server.cpp:509-512).
THEOREM RepliesAreTrue == SafeFaults => (Spec => CompleteReplyMeansStored)
<1> SUFFICES ASSUME SafeFaults PROVE Spec => CompleteReplyMeansStored
  OBVIOUS
<1> DEFINE True == \A p \in Procs : \A f \in Files :
              file[p] = f /\ Len(sent[p]) = 1 /\ sent'[p] = Append(sent[p], BlockNum(f))
                => status'[f] = Stored
<1>1. ASSUME IInv, Next PROVE True
  <2> SUFFICES ASSUME NEW p \in Procs, NEW f \in Files, file[p] = f,
                      sent'[p] = Append(sent[p], BlockNum(f))
               PROVE  status'[f] = Stored
    OBVIOUS
  <2>1. TypeOK /\ sent[p] \in Seq(Int) /\ BlockNum(f) \in Nat \ {0}
    BY <1>1, BlockNumPositive DEF IInv, TypeOK
  <2>2. ASSUME NEW m \in Int, sent' = [sent EXCEPT ![p] = Append(@, m)] PROVE m = BlockNum(f)
    <3>1. Append(sent[p], m) = Append(sent[p], BlockNum(f))
      BY <2>1, <2>2 DEF TypeOK
    <3> QED
      BY <2>1, <3>1
  <2>3. ~FileExist(p)
    BY <2>1, <2>2 DEF FileExist, Reply
  <2>4. ~TakeBlock(p)
    <3> SUFFICES ASSUME TakeBlock(p) PROVE FALSE
      OBVIOUS
    <3>1. flags[f] \in Seq({Free, Taken, Over}) /\ Len(flags[f]) <= BlockNum(f) /\ FreeFlags(flags[f]) # {}
      BY <2>1 DEF TakeBlock, TypeOK
    <3>2. FirstFree(flags[f]) \in 0 .. Len(flags[f]) - 1
      BY <3>1, FirstFreeIsFree, Zenon
    <3>3. FirstFree(flags[f]) \in Int /\ FirstFree(flags[f]) < BlockNum(f)
      BY <2>1, <3>1, <3>2
    <3> QED
      BY <2>1, <2>2, <3>3 DEF TakeBlock, Reply
  <2>5. ~NoBlockLeft(p)
    BY <2>1, <2>2 DEF NoBlockLeft, Reply
  <2>6. ~RecordBlock(p)
    <3> SUFFICES ASSUME RecordBlock(p) PROVE FALSE
      OBVIOUS
    <3>1. pc[p] = "record" /\ Counted(p) # fileL[p] /\ sent' = [sent EXCEPT ![p] = Append(@, Counted(p))]
      BY DEF RecordBlock, Record, Reply
    <3>2. fileL[p] = BlockNum(f)
      BY <1>1, <3>1 DEF IInv, CountInv, Receiving
    <3>3. Append(sent[p], Counted(p)) = Append(sent[p], BlockNum(f))
      BY <2>1, <3>1 DEF TypeOK
    <3> QED
      BY <2>1, <3>1, <3>2, <3>3
  <2>7. Publish(p) => status'[f] = Stored
    <3> SUFFICES ASSUME Publish(p) PROVE status'[f] = Stored
      OBVIOUS
    <3>1. status[f] # Absent
      BY <1>1 DEF Publish, IInv, StatusInv, Unregistered
    <3> QED
      BY <2>1, <3>1 DEF Publish, TypeOK
  <2>8. sent'[p] # sent[p] /\ sent'[p] # <<>>
    BY <2>1
  <2> QED
    BY <1>1, <2>1, <2>3, <2>4, <2>5, <2>6, <2>7, <2>8, ReplyKinds
<1>2. IInv /\ [Next]_vars => [True]_vars
  BY <1>1
<1> QED
  BY <1>2, Invariance, PTL DEF Spec, CompleteReplyMeansStored

-----------------------------------------------------------------------------
(* The abstract store *)

\* The pieces of the handler that touch the two tables, and the others.
LEMMA TableKinds ==
  ASSUME Next
  PROVE  \/ UNCHANGED <<status, rows>>
         \/ \E p \in Procs : InsertStatus(p) \/ Publish(p) \/ FileExist(p)
<1>1. ASSUME NEW p \in Procs,
             \/ \E f \in Files, k \in Keys : AddFile(p, f, k)
             \/ MakeDir(p) \/ LockCreate(p) \/ CfgExists(p) \/ CreateCfg(p)
             \/ CreateCfgFailed(p) \/ CloseCfg(p)
             \/ Select(p) \/ Receive(p) \/ Finish(p)
             \/ LockMerge(p) \/ MergeCopy(p) \/ Purge(p) \/ Flush(p) \/ Kill(p)
      PROVE  UNCHANGED <<status, rows>>
  BY <1>1 DEF db, AddFile, MakeDir, LockCreate, CfgExists, CreateCfg, CreateCfgFailed, CloseCfg,
     Select, LockOp, TakeBlock, NoBlockLeft, FoundOver, Receive, RecvOpen, RecvOk, RecvFail,
     Finish, RecordBlock, RecordLast, LockMerge, MergeCopy, Purge, Flush, Kill
<1>2. Restart \/ RestartMain => UNCHANGED <<status, rows>>
  BY DEF Restart, RestartMain, db
<1> QED
  BY <1>1, <1>2 DEF Next, Serve, Create, Merge

Named(s) == IF s = Absent THEN "absent" ELSE IF s = Uploading THEN "uploading" ELSE "stored"

\* In the states of the invariant a content is what its status says.
LEMMA StoreNamed == ASSUME IInv, NEW f \in Files PROVE StoreOf(f) = Named(status[f])
<1>1. status[f] \in {Absent, Stored, Uploading} /\ (status[f] = Stored => comp[f] = "whole")
  BY DEF IInv, TypeOK, MergeInv
<1> QED
  BY <1>1 DEF StoreOf, Named, Absent, Stored, Uploading

\* One status changes, and with it one content of the store.
LEMMA NamedSet ==
  ASSUME NEW m \in [Files -> {Absent, Stored, Uploading}], NEW g \in Files,
         NEW s \in {Absent, Stored, Uploading}
  PROVE  [f \in Files |-> Named([m EXCEPT ![g] = s][f])]
           = [[f \in Files |-> Named(m[f])] EXCEPT ![g] = Named(s)]
<1>1. \A f \in Files : Named([m EXCEPT ![g] = s][f]) = IF f = g THEN Named(s) ELSE Named(m[f])
  OBVIOUS
<1>2. [[f \in Files |-> Named(m[f])] EXCEPT ![g] = Named(s)]
        = [f \in Files |-> IF f = g THEN Named(s) ELSE Named(m[f])]
  OBVIOUS
<1> QED
  BY <1>1, <1>2

\* The three names.
LEMMA Names ==
  /\ Named(Absent) = "absent" /\ Named(Uploading) = "uploading" /\ Named(Stored) = "stored"
  BY DEF Named, Absent, Uploading, Stored

\* Every step of the service is a step of the store or leaves it alone.
LEMMA StoreStep ==
  ASSUME IInv, IInv', [Next]_vars
  PROVE  [Store!Next]_(Store!vars)
<1> DEFINE S == [f \in Files |-> StoreOf(f)]
<1>1. S = [f \in Files |-> Named(status[f])]
  BY StoreNamed
<1>2. S' = [f \in Files |-> Named(status'[f])]
  <2> SUFFICES ASSUME NEW f \in Files PROVE StoreOf(f)' = Named(status'[f])
    OBVIOUS
  <2>1. status'[f] \in {Absent, Stored, Uploading} /\ (status'[f] = Stored => comp'[f] = "whole")
    BY DEF IInv, TypeOK, MergeInv
  <2> QED
    BY <2>1 DEF StoreOf, Named, Absent, Stored, Uploading
<1>3. TypeOK /\ StatusInv
  BY DEF IInv
<1> SUFFICES Store!Next \/ (S' = S /\ rows' = rows)
  BY DEF Store!vars
<1> HIDE DEF S
<1>4. CASE UNCHANGED <<status, rows>>
  BY <1>1, <1>2, <1>4
<1>5. ASSUME NEW p \in Procs, InsertStatus(p) PROVE Store!Next \/ (S' = S /\ rows' = rows)
  <2>1. /\ file[p] \in Files /\ rows' = rows
        /\ status' = [status EXCEPT ![file[p]] = IF @ = Absent THEN Uploading ELSE @]
    BY <1>3, <1>5 DEF InsertStatus, TypeOK
  <2>2. CASE status[file[p]] = Absent
    <3>1. status' = [status EXCEPT ![file[p]] = Uploading]
      BY <2>1, <2>2
    <3>2. S[file[p]] = "absent"
      BY <1>1, <2>1, <2>2, Names
    <3>3. S' = [S EXCEPT ![file[p]] = "uploading"]
      <4>1. /\ status \in [Files -> {Absent, Stored, Uploading}]
            /\ Uploading \in {Absent, Stored, Uploading} /\ file[p] \in Files
        BY <1>3, <2>1 DEF TypeOK
      <4>2. [f \in Files |-> Named([status EXCEPT ![file[p]] = Uploading][f])]
              = [[f \in Files |-> Named(status[f])] EXCEPT ![file[p]] = Named(Uploading)]
        BY <4>1, NamedSet
      <4> QED
        BY <1>1, <1>2, <3>1, <4>2, Names, Zenon
    <3> QED
      BY <2>1, <3>2, <3>3, Zenon DEF S, Store!Next, Store!Begin
  <2>3. CASE status[file[p]] # Absent
    <3>1. status' = status
      BY <1>3, <2>1, <2>3 DEF TypeOK
    <3> QED
      BY <1>1, <1>2, <2>1, <3>1
  <2> QED
    BY <2>2, <2>3
<1>6. ASSUME NEW p \in Procs, Publish(p) PROVE Store!Next \/ (S' = S /\ rows' = rows)
  <2>1. /\ file[p] \in Files /\ rows' = rows /\ status[file[p]] # Absent
        /\ status' = [status EXCEPT ![file[p]] = Stored]
    BY <1>3, <1>6 DEF Publish, TypeOK, StatusInv, Unregistered
  <2>2. CASE status[file[p]] = Uploading
    <3>1. S[file[p]] = "uploading"
      BY <1>1, <2>1, <2>2, Names
    <3>2. S' = [S EXCEPT ![file[p]] = "stored"]
      <4>1. /\ status \in [Files -> {Absent, Stored, Uploading}]
            /\ Stored \in {Absent, Stored, Uploading} /\ file[p] \in Files
        BY <1>3, <2>1 DEF TypeOK
      <4>2. [f \in Files |-> Named([status EXCEPT ![file[p]] = Stored][f])]
              = [[f \in Files |-> Named(status[f])] EXCEPT ![file[p]] = Named(Stored)]
        BY <4>1, NamedSet
      <4> QED
        BY <1>1, <1>2, <2>1, <4>2, Names, Zenon
    <3> QED
      BY <2>1, <3>1, <3>2, Zenon DEF S, Store!Next, Store!Finish
  <2>3. CASE status[file[p]] # Uploading
    <3>1. status' = status
      BY <1>3, <2>1, <2>3 DEF TypeOK
    <3> QED
      BY <1>1, <1>2, <2>1, <3>1
  <2> QED
    BY <2>2, <2>3
<1>7. ASSUME NEW p \in Procs, FileExist(p) PROVE Store!Next \/ (S' = S /\ rows' = rows)
  <2>1. /\ file[p] \in Files /\ key[p] \in Keys /\ status' = status /\ status[file[p]] = Stored
        /\ \/ rows' = rows
           \/ rows[key[p]] = NoFile /\ rows' = [rows EXCEPT ![key[p]] = file[p]]
    BY <1>3, <1>7 DEF FileExist, TypeOK, StatusInv
  <2>2. S' = S /\ S[file[p]] = "stored"
    BY <1>1, <1>2, <2>1 DEF Named, Absent, Stored, Uploading
  <2> QED
    BY <2>1, <2>2, Zenon DEF S, Store!Next, Store!Link
<1> QED
  BY <1>4, <1>5, <1>6, <1>7, TableKinds DEF vars, db

\* ImplementsStore: the handlers implement the abstract store (addFile to
\* mergeFile, server.cpp:285-574): contents become stored only whole, and paths
\* are linked only to stored contents.
THEOREM StoreIsImplemented == SafeFaults => (Spec => ImplementsStore)
<1> SUFFICES ASSUME SafeFaults PROVE Spec => ImplementsStore
  OBVIOUS
<1>1. Init => Store!Init
  <2> SUFFICES ASSUME Init PROVE Store!Init
    OBVIOUS
  <2>1. \A f \in Files : StoreOf(f) = "absent"
    BY DEF Init, StoreOf, Absent, Stored, Uploading
  <2> QED
    BY <2>1 DEF Init, Store!Init
<1>2. IInv /\ IInv' /\ [Next]_vars => [Store!Next]_(Store!vars)
  BY StoreStep
<1> QED
  BY <1>1, <1>2, Invariance, PTL DEF Spec, ImplementsStore, Store!Spec
=============================================================================
