-------------------------- MODULE BlockUploadProofs --------------------------
(***************************************************************************)
(* Theorems about BlockUpload, for any number of children, contents, paths *)
(* and blocks, under any faults or all but a few.                          *)
(***************************************************************************)
EXTENDS BlockUploadInvariant, FiniteSetTheorems, WellFoundedInduction, TLAPS

-----------------------------------------------------------------------------
(* The pure parts *)

\* Every content has at least one block, the empty one too
\* (server.cpp:322).
LEMMA BlockNumPositive == \A f \in Files : BlockNum(f) \in Nat \ {0}
<1> SUFFICES ASSUME NEW f \in Files PROVE BlockNum(f) \in Nat \ {0}
  OBVIOUS
<1>1. FileSize[f] \in Nat /\ BLOCKSIZE \in Nat /\ BLOCKSIZE > 0
  BY SizesAssumption
<1>2. CASE FileSize[f] = 0
  BY <1>2 DEF BlockNum
<1>3. CASE FileSize[f] # 0
  <2>1. FileSize[f] - 1 \in Nat
    BY <1>1, <1>3
  <2>2. (FileSize[f] - 1) \div BLOCKSIZE \in Nat
    BY <1>1, <2>1
  <2> QED
    BY <1>3, <2>2 DEF BlockNum
<1> QED
  BY <1>2, <1>3

\* A byte written inside a file changes that byte alone.
LEMMA WriteInside ==
  ASSUME NEW s \in Seq({Free, Taken, Over}), NEW b \in Nat, b < Len(s),
         NEW v \in {Free, Taken, Over}
  PROVE  /\ WriteAt(s, b, v) \in Seq({Free, Taken, Over})
         /\ Len(WriteAt(s, b, v)) = Len(s)
         /\ WriteAt(s, b, v)[b + 1] = v
         /\ \A i \in 1 .. Len(s) : i # b + 1 => WriteAt(s, b, v)[i] = s[i]
<1>1. WriteAt(s, b, v) =
        [i \in 1 .. Len(s) |-> IF i = b + 1 THEN v ELSE IF i <= Len(s) THEN s[i] ELSE Free]
  BY DEF WriteAt
<1> QED
  BY <1>1

\* A fresh cfg is a sequence of free bytes.
LEMMA FreshFlags ==
  ASSUME NEW n \in Nat
  PROVE  /\ [i \in 1 .. n |-> Free] \in Seq({Free, Taken, Over})
         /\ Len([i \in 1 .. n |-> Free]) = n
<1> DEFINE z == [i \in 1 .. n |-> Free]
<1>1. z \in [1 .. n -> {Free, Taken, Over}]
  OBVIOUS
<1> HIDE DEF z
<1>2. z \in Seq({Free, Taken, Over}) /\ Len(z) = n
  BY <1>1
<1> QED
  BY <1>2 DEF z

\* A byte written at most one file's length of n away keeps the file a
\* sequence of flags of length at most n.
LEMMA WriteType ==
  ASSUME NEW s \in Seq({Free, Taken, Over}), NEW n \in Nat, Len(s) <= n,
         NEW b \in 0 .. n - 1, NEW v \in {Free, Taken, Over}
  PROVE  /\ WriteAt(s, b, v) \in Seq({Free, Taken, Over})
         /\ Len(WriteAt(s, b, v)) <= n
<1> DEFINE m == IF Len(s) > b THEN Len(s) ELSE b + 1
<1>1. m \in Nat /\ m <= n
  OBVIOUS
<1>2. WriteAt(s, b, v) =
        [i \in 1 .. m |-> IF i = b + 1 THEN v ELSE IF i <= Len(s) THEN s[i] ELSE Free]
  BY DEF WriteAt
<1>3. \A i \in 1 .. m : (IF i = b + 1 THEN v ELSE IF i <= Len(s) THEN s[i] ELSE Free)
                          \in {Free, Taken, Over}
  OBVIOUS
<1> HIDE DEF m
<1>4. WriteAt(s, b, v) \in [1 .. m -> {Free, Taken, Over}]
  BY <1>2, <1>3
<1> QED
  BY <1>1, <1>4

\* The scan's choice is the index of a free byte.
LEMMA FirstFreeIsFree ==
  ASSUME NEW s \in Seq({Free, Taken, Over}), FreeFlags(s) # {}
  PROVE  /\ FirstFree(s) \in 0 .. Len(s) - 1
         /\ s[FirstFree(s) + 1] = Free
<1> DEFINE R == {r \in Nat \X Nat : r[1] < r[2]}
<1>1. FreeFlags(s) \subseteq 1 .. Len(s)
  BY DEF FreeFlags
<1>2. IsWellFoundedOn(R, Nat)
  BY NatLessThanWellFounded, Zenon DEF OpToRel
<1>3. \A x, y \in Nat : <<y, x>> \in R <=> y < x
  OBVIOUS
<1> HIDE DEF R
<1>4. PICK x \in FreeFlags(s) : \A y \in FreeFlags(s) : <<y, x>> \notin R
  <2>1. FreeFlags(s) \subseteq Nat
    BY <1>1
  <2> QED
    BY <1>2, <2>1, WFMin, Zenon
<1>5. \A j \in FreeFlags(s) : x <= j
  <2> SUFFICES ASSUME NEW j \in FreeFlags(s), j < x PROVE FALSE
    BY <1>1
  <2>1. x \in Nat /\ j \in Nat
    BY <1>1
  <2>2. <<j, x>> \in R
    BY <1>3, <2>1
  <2> QED
    BY <1>4, <2>2, Zenon
<1> QED
  BY <1>1, <1>5 DEF FirstFree, FreeFlags

\* A count is a natural number.
LEMMA CountType == \A s, v : \A n \in Int : OverNum(s, n, v) \in Nat
<1> SUFFICES ASSUME NEW s, NEW v, NEW n \in Int PROVE OverNum(s, n, v) \in Nat
  OBVIOUS
<1> DEFINE last == IF s = <<>> THEN v ELSE s[Len(s)]
           C == {i \in 1 .. n : (IF i <= Len(s) THEN s[i] ELSE last) = Over}
<1>1. IsFiniteSet(1 .. n)
  BY FS_Interval
<1>2. IsFiniteSet(C)
  BY <1>1, FS_Subset
<1> QED
  BY <1>2, FS_CardinalityType DEF OverNum

\* A full count means that every byte is -1: overNum == fileL at
\* server.cpp:509, when the cfg has fileL bytes.
LEMMA FullCount ==
  ASSUME NEW n \in Nat, NEW s \in Seq({Free, Taken, Over}), NEW v,
         Len(s) = n, OverNum(s, n, v) = n
  PROVE  AllOver(s)
<1> DEFINE last == IF s = <<>> THEN v ELSE s[Len(s)]
           C == {i \in 1 .. n : (IF i <= Len(s) THEN s[i] ELSE last) = Over}
<1>1. IsFiniteSet(1 .. n) /\ Cardinality(1 .. n) = n
  <2>1. Cardinality(1 .. n) = IF 1 > n THEN 0 ELSE n - 1 + 1
    BY FS_Interval
  <2> QED
    BY <2>1, FS_Interval
<1>2. Cardinality(C) = n
  BY DEF OverNum
<1>3. C = 1 .. n
  BY <1>1, <1>2, FS_Subset
<1> QED
  BY <1>3 DEF AllOver

-----------------------------------------------------------------------------
(* Type correctness *)

LEMMA TypeInit == Init => TypeOK
<1> SUFFICES ASSUME Init PROVE TypeOK
  OBVIOUS
<1>1. \A f \in Files : BlockNum(f) \in Nat
  BY BlockNumPositive
<1> QED
  BY <1>1, Z3 DEF Init, TypeOK, Labels, CreateSteps, Locks, Absent, Stored, Uploading

\* What the end of a child leaves behind is well typed.
LEMMA ExitType ==
  ASSUME TypeOK, NEW p \in Procs, Exit(p)
  PROVE  /\ pc' \in [Procs -> Labels] /\ lock' \in [Locks -> Procs \union {NoProc}]
         /\ file' \in [Procs -> Files \union {NoFile}] /\ key' \in [Procs -> Keys \union {NoKey}]
         /\ blockNum' \in [Procs -> Int] /\ fileL' \in [Procs -> Int]
         /\ received' \in [Procs -> BOOLEAN]
         /\ \A q \in Procs : /\ pc'[q] # "idle" => file'[q] \in Files /\ key'[q] \in Keys
                             /\ pc'[q] \in {"recv", "recving", "record"}
                                  => blockNum'[q] \in Block(file'[q])
BY DEF TypeOK, Exit, Goto, Labels

LEMMA TypeStep == TypeOK /\ [Next]_vars => TypeOK'
<1> SUFFICES ASSUME TypeOK, [Next]_vars PROVE TypeOK'
  OBVIOUS
<1> USE BlockNumPositive DEF TypeOK, Goto, Labels, CreateSteps
<1>1. ASSUME NEW p \in Procs, NEW f \in Files, NEW k \in Keys, AddFile(p, f, k) PROVE TypeOK'
  <2>1. Dispatch(status[f]) \in {"mkdir", "link", "lockOp"}
    BY DEF Dispatch, Absent, Stored, Uploading
  <2>2. sent' \in [Procs -> Seq(Int)]
    BY <1>1 DEF AddFile
  <2>3. /\ file' \in [Procs -> Files \union {NoFile}]
        /\ key' \in [Procs -> Keys \union {NoKey}]
        /\ pc' \in [Procs -> Labels]
    BY <1>1, <2>1 DEF AddFile
  <2> QED
    BY <1>1, <2>1, <2>2, <2>3 DEF AddFile, db, disk
<1>2. ASSUME NEW p \in Procs, FileExist(p) PROVE TypeOK'
  <2>1. file[p] \in Files /\ key[p] \in Keys
    BY <1>2 DEF FileExist
  <2>2. rows' \in [Keys -> Files \union {NoFile}]
    BY <1>2, <2>1 DEF FileExist
  <2>3. /\ [sent EXCEPT ![p] = Append(@, -2)] \in [Procs -> Seq(Int)]
        /\ [sent EXCEPT ![p] = Append(@, -1)] \in [Procs -> Seq(Int)]
    OBVIOUS
  <2>4. \/ sent' = [sent EXCEPT ![p] = Append(@, -2)]
        \/ sent' = [sent EXCEPT ![p] = Append(@, -1)]
    BY <1>2 DEF FileExist, Reply
  <2>5. sent' \in [Procs -> Seq(Int)]
    BY <2>3, <2>4, Zenon
  <2> QED
    BY <1>2, <2>1, <2>2, <2>5, ExitType DEF FileExist, disk
<1>3. ASSUME NEW p \in Procs, MakeDir(p) PROVE TypeOK'
  BY <1>3 DEF MakeDir, db, locals
<1>4. ASSUME NEW p \in Procs, LockCreate(p) PROVE TypeOK'
  BY <1>4 DEF LockCreate, Lock, db, disk, locals
<1>5. ASSUME NEW p \in Procs, CfgExists(p) PROVE TypeOK'
  BY <1>5 DEF CfgExists, Unlock, AfterCreate, db, disk, locals
<1>6. ASSUME NEW p \in Procs, CreateCfg(p) PROVE TypeOK'
  BY <1>6 DEF CreateCfg, db, locals
<1>7. ASSUME NEW p \in Procs, CreateCfgFailed(p) PROVE TypeOK'
  BY <1>7 DEF CreateCfgFailed, AfterCreate, db, disk, locals
<1>8. ASSUME NEW p \in Procs, InsertStatus(p) PROVE TypeOK'
  BY <1>8 DEF InsertStatus, Uploading, disk, locals
<1>9. ASSUME NEW p \in Procs, CloseCfg(p) PROVE TypeOK'
  <2> DEFINE f == file[p]
  <2>1. f \in Files /\ BlockNum(f) \in Nat
    BY <1>9 DEF CloseCfg
  <2>2. /\ flags'[f] \in Seq({Free, Taken, Over})
        /\ Len(flags'[f]) <= BlockNum(f)
    BY <1>9, <2>1, FreshFlags DEF CloseCfg
  <2>3. \A g \in Files : g # f => flags'[g] = flags[g]
    BY <1>9, <2>1 DEF CloseCfg
  <2>4. \A g \in Files : flags'[g] \in Seq({Free, Taken, Over}) /\ Len(flags'[g]) <= BlockNum(g)
    BY <2>1, <2>2, <2>3
  <2>5. DOMAIN flags' = Files
    BY <1>9 DEF CloseCfg
  <2> QED
    BY <1>9, <2>4, <2>5 DEF CloseCfg, Unlock, AfterCreate, db, locals
<1>10. ASSUME NEW p \in Procs, LockOp(p) PROVE TypeOK'
  BY <1>10 DEF LockOp, Lock, db, disk, locals
<1>11. ASSUME NEW p \in Procs, TakeBlock(p) PROVE TypeOK'
  <2> DEFINE f == file[p]
             b == FirstFree(flags[f])
  <2>1. f \in Files /\ BlockNum(f) \in Nat /\ flags[f] \in Seq({Free, Taken, Over})
        /\ Len(flags[f]) <= BlockNum(f)
    BY <1>11 DEF TakeBlock
  <2>2. b \in 0 .. Len(flags[f]) - 1
    BY <1>11, <2>1, FirstFreeIsFree DEF TakeBlock
  <2>3. b \in 0 .. BlockNum(f) - 1
    BY <2>1, <2>2
  <2>4. /\ WriteAt(flags[f], b, Taken) \in Seq({Free, Taken, Over})
        /\ Len(WriteAt(flags[f], b, Taken)) <= BlockNum(f)
    BY <2>1, <2>3, WriteType
  <2>5. \A g \in Files : flags'[g] \in Seq({Free, Taken, Over}) /\ Len(flags'[g]) <= BlockNum(g)
    BY <1>11, <2>1, <2>4 DEF TakeBlock
  <2>6. DOMAIN flags' = Files
    BY <1>11 DEF TakeBlock
  <2>7. CfgSize(f) \in Int
    BY <2>1 DEF CfgSize
  <2>8. fileL' \in [Procs -> Int] /\ blockNum' \in [Procs -> Int] /\ sent' \in [Procs -> Seq(Int)]
    BY <1>11, <2>3, <2>7 DEF TakeBlock, Reply
  <2> HIDE DEF b
  <2> QED
    BY <1>11, <2>1, <2>3, <2>5, <2>6, <2>8 DEF TakeBlock, Unlock, Block, db, b
<1>12. ASSUME NEW p \in Procs, NoBlockLeft(p) PROVE TypeOK'
  <2>1. sent' \in [Procs -> Seq(Int)]
    BY <1>12 DEF NoBlockLeft, Reply
  <2> QED
    BY <1>12, <2>1, ExitType DEF NoBlockLeft, db, disk
<1>13. ASSUME NEW p \in Procs, FoundOver(p) PROVE TypeOK'
  <2>1. CfgSize(file[p]) \in Int
    BY <1>13 DEF FoundOver, CfgSize
  <2> QED
    BY <1>13, <2>1 DEF FoundOver, Unlock, db, disk
<1>14. ASSUME NEW p \in Procs, RecvOpen(p) PROVE TypeOK'
  BY <1>14 DEF RecvOpen, db, locals
<1>15. ASSUME NEW p \in Procs, RecvOk(p) PROVE TypeOK'
  BY <1>15 DEF RecvOk, db
<1>16. ASSUME NEW p \in Procs, RecvFail(p) PROVE TypeOK'
  BY <1>16 DEF RecvFail, db, disk, locals
<1>17. ASSUME NEW p \in Procs, Record(p)
       PROVE  /\ \A g \in Files : flags'[g] \in Seq({Free, Taken, Over}) /\ Len(flags'[g]) <= BlockNum(g)
              /\ DOMAIN flags' = Files
              /\ file[p] \in Files
              /\ Counted(p) \in Int
  <2> DEFINE f == file[p]
             v == IF received[p] THEN Over ELSE Free
  <2>1. /\ f \in Files /\ BlockNum(f) \in Nat
        /\ blockNum[p] \in 0 .. BlockNum(f) - 1
    BY <1>17 DEF Record, Block
  <2>2. v \in {Free, Taken, Over}
    OBVIOUS
  <2>3. /\ WriteAt(flags[f], blockNum[p], v) \in Seq({Free, Taken, Over})
        /\ Len(WriteAt(flags[f], blockNum[p], v)) <= BlockNum(f)
    BY <2>1, <2>2, WriteType
  <2>4. Recorded(p) \in Seq({Free, Taken, Over}) /\ Len(Recorded(p)) <= BlockNum(f)
    BY <2>1, <2>3 DEF Recorded
  <2>5. fileL[p] \in Int
    OBVIOUS
  <2>6. Counted(p) \in Nat
    BY <2>5, CountType DEF Counted
  <2> QED
    BY <1>17, <2>1, <2>4, <2>6 DEF Record
<1>18. ASSUME NEW p \in Procs, RecordBlock(p) PROVE TypeOK'
  <2>1. Record(p)
    BY <1>18 DEF RecordBlock
  <2>2. sent' \in [Procs -> Seq(Int)]
    BY <1>17, <1>18, <2>1 DEF RecordBlock, Reply
  <2>3. /\ \A g \in Files : flags'[g] \in Seq({Free, Taken, Over}) /\ Len(flags'[g]) <= BlockNum(g)
        /\ DOMAIN flags' = Files
    BY <1>17, <2>1
  <2>4. Exit(p)
    BY <1>18 DEF RecordBlock
  <2>5. /\ UNCHANGED <<status, rows, dir, cfg, blocks, comp>>
    BY <1>18 DEF RecordBlock, db
  <2> HIDE DEF Goto
  <2> QED
    BY <2>2, <2>3, <2>4, <2>5, ExitType
<1>19. ASSUME NEW p \in Procs, RecordLast(p) PROVE TypeOK'
  <2>1. Record(p)
    BY <1>19 DEF RecordLast
  <2>2. /\ \A g \in Files : flags'[g] \in Seq({Free, Taken, Over}) /\ Len(flags'[g]) <= BlockNum(g)
        /\ DOMAIN flags' = Files
        /\ file[p] \in Files
    BY <1>17, <2>1
  <2>3. pc[p] = "record"
    BY <2>1 DEF Record
  <2>4. /\ pc' = [pc EXCEPT ![p] = "lockMerge"]
        /\ lock' = [lock EXCEPT !["op"] = NoProc]
        /\ UNCHANGED <<status, rows, dir, cfg, blocks, comp, file, key>>
        /\ UNCHANGED <<blockNum, fileL, received, sent>>
    BY <1>19 DEF RecordLast, Unlock, db, locals
  <2> QED
    BY <2>2, <2>3, <2>4
<1>20. ASSUME NEW p \in Procs, LockMerge(p) PROVE TypeOK'
  <2>1. /\ pc[p] = "lockMerge"
        /\ pc' = [pc EXCEPT ![p] = "copy"] \/ pc' = [pc EXCEPT ![p] = "publish"]
        /\ comp' = [comp EXCEPT ![file[p]] = "partial"] \/ comp' = comp
        /\ lock' = [lock EXCEPT !["merge"] = p]
    BY <1>20 DEF LockMerge, Lock
  <2>2. /\ UNCHANGED <<status, rows, dir, cfg, flags, blocks, file, key>>
        /\ UNCHANGED <<blockNum, fileL, received, sent>>
    BY <1>20 DEF LockMerge, db, locals
  <2>3. comp' \in [Files -> {"none", "partial", "buffered", "whole"}]
    BY <2>1
  <2>4. lock' \in [Locks -> Procs \union {NoProc}]
    BY <2>1
  <2>5. /\ pc' \in [Procs -> Labels]
        /\ \A q \in Procs : pc'[q] # "idle" => pc[q] # "idle"
        /\ \A q \in Procs :
             pc'[q] \in {"recv", "recving", "record"} => pc[q] \in {"recv", "recving", "record"}
    BY <2>1
  <2> QED
    BY <2>2, <2>3, <2>4, <2>5
<1>21. ASSUME NEW p \in Procs, MergeCopy(p) PROVE TypeOK'
  <2>1. /\ pc[p] = "copy" /\ pc' = [pc EXCEPT ![p] = "purge"]
        /\ comp' = [comp EXCEPT ![file[p]] = "buffered"] \/ comp' = comp
    BY <1>21 DEF MergeCopy
  <2>2. /\ UNCHANGED <<lock, status, rows, dir, cfg, flags, blocks, file, key>>
        /\ UNCHANGED <<blockNum, fileL, received, sent>>
    BY <1>21 DEF MergeCopy, db, locals
  <2> QED
    BY <2>1, <2>2
<1>22. ASSUME NEW p \in Procs, Purge(p) PROVE TypeOK'
  <2>1. \A f \in Files : <<>> \in Seq({Free, Taken, Over}) /\ Len(<<>>) <= BlockNum(f)
    OBVIOUS
  <2> QED
    BY <1>22, <2>1 DEF Purge, db, locals
<1>23. ASSUME NEW p \in Procs, Flush(p) PROVE TypeOK'
  BY <1>23, SMTT(30) DEF Flush, db, locals
<1>24. ASSUME NEW p \in Procs, Publish(p) PROVE TypeOK'
  <2>1. /\ sent' \in [Procs -> Seq(Int)]
        /\ status' \in [Files -> {Absent, Stored, Uploading}]
    BY <1>24 DEF Publish, Reply
  <2>2. Exit(p)
    BY <1>24 DEF Publish
  <2> QED
    BY <1>24, <2>1, <2>2, ExitType DEF Publish, disk
<1>25. ASSUME NEW p \in Procs, Kill(p) PROVE TypeOK'
  <2>1. comp' \in [Files -> {"none", "partial", "buffered", "whole"}]
    BY <1>25 DEF Kill, Lost
  <2> QED
    BY <1>25, <2>1, ExitType DEF Kill, db
<1>26. CASE Restart
  <2>1. \A f \in Files : <<>> \in Seq({Free, Taken, Over}) /\ Len(<<>>) <= BlockNum(f)
    OBVIOUS
  <2>2. sent' \in [Procs -> Seq(Int)] /\ comp' \in [Files -> {"none", "partial", "buffered", "whole"}]
    BY <1>26 DEF Restart, Lost
  <2> QED
    BY <1>26, <2>1, <2>2 DEF Restart, db
<1>27. CASE RestartMain
  <2>1. \A f \in Files : <<>> \in Seq({Free, Taken, Over}) /\ Len(<<>>) <= BlockNum(f)
    OBVIOUS
  <2> QED
    BY <1>27, <2>1 DEF RestartMain, db, locals
<1>28. CASE UNCHANGED vars
  BY <1>28 DEF vars, db, disk, locals
<1> QED
  BY <1>1, <1>2, <1>3, <1>4, <1>5, <1>6, <1>7, <1>8, <1>9, <1>10, <1>11, <1>12, <1>13, <1>14,
     <1>15, <1>16, <1>18, <1>19, <1>20, <1>21, <1>22, <1>23, <1>24, <1>25, <1>26, <1>27, <1>28
  DEF Next, Serve, Create, Select, Receive, Finish, Merge

\* Every reachable state is well typed: with selectBlock's scan and count,
\* no request leaves the range of the cfg (server.cpp:441-504).
THEOREM TypeCorrect == Spec => []TypeOK
<1> QED
  BY TypeInit, TypeStep, PTL DEF Spec

-----------------------------------------------------------------------------
(* Action properties *)

\* The merge lock protects the content that is being assembled.
LEMMA MergeLockStep ==
  ASSUME TypeOK, MergeLockInv, [Next]_vars
  PROVE  MergeLockInv'
<1> USE NamesAssumption DEF TypeOK, MergeLockInv, Goto, MergeSteps, Locks, Labels
<1>1. ASSUME NEW p \in Procs, NEW f \in Files, NEW k \in Keys, AddFile(p, f, k) PROVE MergeLockInv'
  BY <1>1 DEF AddFile, Dispatch, Absent, Stored, Uploading, db, disk
<1>2. ASSUME NEW p \in Procs, FileExist(p) PROVE MergeLockInv'
  BY <1>2 DEF FileExist, Reply, Exit, disk
<1>3. ASSUME NEW p \in Procs, MakeDir(p) PROVE MergeLockInv'
  BY <1>3 DEF MakeDir, db, locals
<1>4. ASSUME NEW p \in Procs, LockCreate(p) PROVE MergeLockInv'
  BY <1>4 DEF LockCreate, Lock, CanLock, db, disk, locals
<1>5. ASSUME NEW p \in Procs, CfgExists(p) PROVE MergeLockInv'
  BY <1>5 DEF CfgExists, Unlock, AfterCreate, db, disk, locals
<1>6. ASSUME NEW p \in Procs, CreateCfg(p) PROVE MergeLockInv'
  BY <1>6 DEF CreateCfg, db, locals
<1>7. ASSUME NEW p \in Procs, CreateCfgFailed(p) PROVE MergeLockInv'
  BY <1>7 DEF CreateCfgFailed, AfterCreate, db, disk, locals
<1>8. ASSUME NEW p \in Procs, InsertStatus(p) PROVE MergeLockInv'
  BY <1>8 DEF InsertStatus, Absent, Stored, Uploading, disk, locals
<1>9. ASSUME NEW p \in Procs, CloseCfg(p) PROVE MergeLockInv'
  BY <1>9 DEF CloseCfg, Unlock, AfterCreate, db, locals
<1>10. ASSUME NEW p \in Procs, LockOp(p) PROVE MergeLockInv'
  BY <1>10 DEF LockOp, Lock, CanLock, db, disk, locals
<1>11. ASSUME NEW p \in Procs, TakeBlock(p) PROVE MergeLockInv'
  BY <1>11 DEF TakeBlock, Unlock, Reply, db
<1>12. ASSUME NEW p \in Procs, NoBlockLeft(p) PROVE MergeLockInv'
  BY <1>12 DEF NoBlockLeft, Reply, Exit, db, disk
<1>13. ASSUME NEW p \in Procs, FoundOver(p) PROVE MergeLockInv'
  BY <1>13 DEF FoundOver, Unlock, db, disk
<1>14. ASSUME NEW p \in Procs, RecvOpen(p) PROVE MergeLockInv'
  BY <1>14 DEF RecvOpen, db, locals
<1>15. ASSUME NEW p \in Procs, RecvOk(p) PROVE MergeLockInv'
  BY <1>15 DEF RecvOk, db
<1>16. ASSUME NEW p \in Procs, RecvFail(p) PROVE MergeLockInv'
  BY <1>16 DEF RecvFail, db, disk, locals
<1>17. ASSUME NEW p \in Procs, RecordBlock(p) PROVE MergeLockInv'
  BY <1>17 DEF RecordBlock, Record, CanLock, Reply, Exit, db
<1>18. ASSUME NEW p \in Procs, RecordLast(p) PROVE MergeLockInv'
  BY <1>18 DEF RecordLast, Record, CanLock, Unlock, db, locals
<1>19. ASSUME NEW p \in Procs, LockMerge(p) PROVE MergeLockInv'
  <2>1. /\ pc[p] = "lockMerge" /\ file[p] \in Files
        /\ lock["merge"] \in {NoProc, p} /\ lock' = [lock EXCEPT !["merge"] = p]
        /\ \/ pc' = [pc EXCEPT ![p] = "copy"] /\ comp' = [comp EXCEPT ![file[p]] = "partial"]
           \/ pc' = [pc EXCEPT ![p] = "publish"] /\ comp' = comp
        /\ file' = file
    BY <1>19 DEF LockMerge, Lock, CanLock, locals
  <2>2. \A q \in Procs : q # p => pc'[q] = pc[q] /\ pc[q] \notin MergeSteps \union {"publish"}
    BY <2>1
  <2> QED
    BY <2>1, <2>2
<1>20. ASSUME NEW p \in Procs, MergeCopy(p) PROVE MergeLockInv'
  BY <1>20 DEF MergeCopy, db, locals
<1>21. ASSUME NEW p \in Procs, Purge(p) PROVE MergeLockInv'
  BY <1>21 DEF Purge, db, locals
<1>22. ASSUME NEW p \in Procs, Flush(p) PROVE MergeLockInv'
  BY <1>22 DEF Flush, db, locals
<1>23. ASSUME NEW p \in Procs, Publish(p) PROVE MergeLockInv'
  BY <1>23 DEF Publish, Reply, Exit, Absent, Stored, Uploading, disk
<1>24. ASSUME NEW p \in Procs, Kill(p) PROVE MergeLockInv'
  BY <1>24 DEF Kill, Lost, Exit, db
<1>25. CASE Restart
  BY <1>25 DEF Restart, Lost, db
<1>26. CASE RestartMain
  BY <1>26 DEF RestartMain, db, locals
<1>27. CASE UNCHANGED vars
  BY <1>27 DEF vars, db, disk, locals
<1> QED
  BY <1>1, <1>2, <1>3, <1>4, <1>5, <1>6, <1>7, <1>8, <1>9, <1>10, <1>11, <1>12, <1>13,
     <1>14, <1>15, <1>16, <1>17, <1>18, <1>19, <1>20, <1>21, <1>22, <1>23, <1>24, <1>25, <1>26, <1>27
  DEF Next, Serve, Create, Select, Receive, Finish, Merge

\* So the merge lock is held through every merge, whatever dies.
LEMMA MergeLockAlways == Spec => [](TypeOK /\ MergeLockInv)
<1>1. Init => MergeLockInv
  BY DEF Init, MergeLockInv, MergeSteps
<1>2. TypeOK /\ MergeLockInv /\ [Next]_vars => MergeLockInv'
  BY MergeLockStep
<1> QED
  BY <1>1, <1>2, TypeCorrect, PTL DEF Spec

\* The status of a content moves forward only, whatever children do and
\* whatever dies: the INSERT of createConfig fails on a row that is there,
\* and nothing deletes one (server.cpp:332 and 418).
THEOREM StatusMovesForward == Spec => StatusForward
<1> DEFINE Forward == \A f \in Files : /\ status[f] = Uploading => status'[f] # Absent
                                       /\ status[f] = Stored => status'[f] = Stored
                                       /\ status[f] = Absent => status'[f] # Stored
<1>1. ASSUME TypeOK, Next PROVE Forward
  <2> USE DEF Absent, Stored, Uploading
  <2>1. CASE status' = status
    BY <2>1
  <2>2. ASSUME NEW p \in Procs, InsertStatus(p) PROVE Forward
    BY <1>1, <2>2 DEF InsertStatus, TypeOK
  <2>3. ASSUME NEW p \in Procs, Publish(p) PROVE Forward
    <3>1. pc[p] = "publish" /\ status' = [status EXCEPT ![file[p]] = IF @ = Absent THEN @ ELSE Stored]
      BY <2>3 DEF Publish
    <3> QED
      BY <1>1, <3>1 DEF TypeOK
  <2>4. ASSUME NEW p \in Procs, Create(p) PROVE status' = status \/ InsertStatus(p)
    BY <2>4 DEF Create, MakeDir, LockCreate, CfgExists, CreateCfg, CreateCfgFailed, CloseCfg, db
  <2>5. ASSUME NEW p \in Procs, Select(p) \/ Receive(p) PROVE status' = status
    BY <2>5 DEF Select, LockOp, TakeBlock, NoBlockLeft, FoundOver, Receive, RecvOpen, RecvOk,
       RecvFail, db
  <2>6. ASSUME NEW p \in Procs, Finish(p) PROVE status' = status
    BY <2>6 DEF Finish, RecordBlock, RecordLast, db
  <2>7. ASSUME NEW p \in Procs, Merge(p) PROVE status' = status \/ Publish(p)
    BY <2>7 DEF Merge, LockMerge, MergeCopy, Purge, Flush, db
  <2>8. ASSUME NEW p \in Procs, Serve(p)
        PROVE  status' = status \/ InsertStatus(p) \/ Publish(p)
    <3>1. FileExist(p) => status' = status
      BY DEF FileExist
    <3> QED
      BY <2>8, <3>1, <2>4, <2>5, <2>6, <2>7 DEF Serve
  <2>9. ASSUME NEW p \in Procs, NEW f \in Files, NEW k \in Keys, AddFile(p, f, k)
        PROVE  status' = status
    BY <2>9 DEF AddFile, db
  <2>10. Restart \/ RestartMain => status' = status
    BY DEF Restart, RestartMain, db
  <2>11. ASSUME NEW p \in Procs, Kill(p) PROVE status' = status
    BY <2>11 DEF Kill, db
  <2> QED
    BY <1>1, <2>1, <2>2, <2>3, <2>8, <2>9, <2>10, <2>11 DEF Next
<1>2. TypeOK /\ [Next]_vars => [Forward]_vars
  BY <1>1
<1> QED
  BY <1>2, TypeCorrect, PTL DEF Spec, StatusForward

\* A finished content is never touched again, whatever children do and
\* whatever dies (the test of line 402 and the merge lock, server.cpp:396-419).
THEOREM WholeIsFinal == Spec => WholeStaysWhole
<1> DEFINE Kept == \A f \in Files : comp[f] = "whole" => comp'[f] = "whole"
<1>1. ASSUME TypeOK, MergeLockInv, Next PROVE Kept
  <2>1. CASE comp' = comp
    BY <2>1
  <2>2. ASSUME NEW p \in Procs, LockMerge(p) PROVE Kept
    <3>1. \/ comp[file[p]] = "none" /\ comp' = [comp EXCEPT ![file[p]] = "partial"]
          \/ comp' = comp
      BY <1>1, <2>2 DEF LockMerge
    <3> QED
      BY <1>1, <3>1 DEF TypeOK
  <2>3. ASSUME NEW p \in Procs, MergeCopy(p) PROVE Kept
    <3>1. comp[file[p]] \in {"partial", "buffered"}
      BY <1>1, <2>3 DEF MergeCopy, MergeLockInv, MergeSteps
    <3>2. \A f \in Files : f # file[p] => comp'[f] = comp[f]
      BY <1>1, <2>3 DEF MergeCopy, TypeOK
    <3> QED
      BY <3>1, <3>2
  <2>4. ASSUME NEW p \in Procs, Flush(p) PROVE Kept
    BY <1>1, <2>4 DEF Flush, TypeOK
  <2>5. ASSUME NEW p \in Procs, Kill(p) PROVE Kept
    BY <1>1, <2>5 DEF Kill, Lost, TypeOK
  <2>6. CASE Restart
    BY <1>1, <2>6 DEF Restart, Lost, TypeOK
  <2>7. ASSUME NEW p \in Procs, Create(p) \/ Select(p) PROVE comp' = comp
    BY <2>7 DEF Create, MakeDir, LockCreate, CfgExists, CreateCfg, CreateCfgFailed, InsertStatus,
       CloseCfg, Select, LockOp, TakeBlock, NoBlockLeft, FoundOver, disk
  <2>8. ASSUME NEW p \in Procs, Receive(p) \/ Finish(p) PROVE comp' = comp
    BY <2>8 DEF Receive, RecvOpen, RecvOk, RecvFail, Finish, RecordBlock, RecordLast, disk
  <2>9. ASSUME NEW p \in Procs, Merge(p)
        PROVE  comp' = comp \/ LockMerge(p) \/ MergeCopy(p) \/ Flush(p)
    BY <2>9 DEF Merge, Purge, Publish, disk
  <2>10. ASSUME NEW p \in Procs, Serve(p)
         PROVE  comp' = comp \/ LockMerge(p) \/ MergeCopy(p) \/ Flush(p)
    <3>1. FileExist(p) => comp' = comp
      BY DEF FileExist, disk
    <3> QED
      BY <2>10, <3>1, <2>7, <2>8, <2>9 DEF Serve
  <2>11. ASSUME NEW p \in Procs, NEW f \in Files, NEW k \in Keys, AddFile(p, f, k)
         PROVE  comp' = comp
    BY <2>11 DEF AddFile, disk
  <2>12. RestartMain => comp' = comp
    BY DEF RestartMain
  <2> QED
    BY <1>1, <2>1, <2>2, <2>3, <2>4, <2>5, <2>6, <2>10, <2>11, <2>12 DEF Next
<1>2. TypeOK /\ MergeLockInv /\ [Next]_vars => [Kept]_vars
  BY <1>1
<1> QED
  BY <1>2, MergeLockAlways, PTL DEF Spec, WholeStaysWhole

-----------------------------------------------------------------------------
(* The block discipline *)

(***************************************************************************)
(* What the upload service keeps whatever dies and however requests        *)
(* overlap: no block is with two children, a flag byte -1 stands for a     *)
(* block that is there, and stays -1, as long as main is not started again *)
(* over living children (~Orphans); and a flag byte 1 has its child, as    *)
(* long as no child dies with a block in its hands.                        *)
(***************************************************************************)

Merging == {"lockMerge", "publish"} \union MergeSteps

\* A step of p leaves the transfers of the other children alone.
OthersKeep(p) ==
  \A q \in Procs : q # p =>
    /\ pc'[q] = pc[q] /\ file'[q] = file[q]
    /\ blockNum'[q] = blockNum[q] /\ received'[q] = received[q]

\* A step of p that transfers nothing and writes to no cfg that is in use.
Quiet(p) ==
  /\ OthersKeep(p)
  /\ ~Receiving(p)'
  /\ received'[p] => received[p] /\ pc'[p] \in Merging
  /\ \A f \in Files :
       /\ comp'[f] = "none" => comp[f] = "none"
       /\ comp[f] = "none" => flags'[f] = flags[f] /\ blocks'[f] = blocks[f]

\* The steps that are quiet.
LEMMA QuietSteps ==
  ASSUME TypeOK, MergeLockInv, ReceivedInv, NEW p \in Procs,
         \/ \E f \in Files, k \in Keys : AddFile(p, f, k)
         \/ FileExist(p) \/ MakeDir(p) \/ LockCreate(p) \/ CfgExists(p) \/ CreateCfg(p)
         \/ CreateCfgFailed(p) \/ InsertStatus(p) \/ LockOp(p) \/ NoBlockLeft(p)
         \/ FoundOver(p) \/ Merge(p) \/ Kill(p)
  PROVE  Quiet(p)
<1> USE DEF TypeOK, ReceivedInv, Quiet, OthersKeep, Receiving, Merging, MergeSteps, Goto, Labels
<1>1. ASSUME NEW f \in Files, NEW k \in Keys, AddFile(p, f, k) PROVE Quiet(p)
  BY <1>1 DEF AddFile, Dispatch, Absent, Stored, Uploading, db, disk
<1>2. CASE FileExist(p)
  BY <1>2 DEF FileExist, Reply, Exit, disk
<1>3. CASE MakeDir(p)
  BY <1>3 DEF MakeDir, db, locals
<1>4. CASE LockCreate(p)
  BY <1>4 DEF LockCreate, db, disk, locals
<1>5. CASE CfgExists(p)
  <2>1. AfterCreate(p) \in {"pick", "lockOp"}
    BY DEF AfterCreate
  <2> QED
    BY <1>5, <2>1 DEF CfgExists, db, disk, locals
<1>6. CASE CreateCfg(p)
  BY <1>6 DEF CreateCfg, db, locals
<1>7. CASE CreateCfgFailed(p)
  <2>1. AfterCreate(p) \in {"pick", "lockOp"}
    BY DEF AfterCreate
  <2> QED
    BY <1>7, <2>1 DEF CreateCfgFailed, db, disk, locals
<1>8. CASE InsertStatus(p)
  BY <1>8 DEF InsertStatus, disk, locals
<1>9. CASE LockOp(p)
  BY <1>9 DEF LockOp, db, disk, locals
<1>10. CASE NoBlockLeft(p)
  BY <1>10 DEF NoBlockLeft, Reply, Exit, db, disk
<1>11. CASE FoundOver(p)
  BY <1>11 DEF FoundOver, db, disk
<1>12. CASE LockMerge(p)
  BY <1>12 DEF LockMerge, db, locals
<1>13. CASE MergeCopy(p)
  BY <1>13 DEF MergeCopy, db, locals
<1>14. CASE Purge(p)
  <2>1. /\ comp' = comp /\ comp[file[p]] # "none"
        /\ \A f \in Files : f # file[p] => flags'[f] = flags[f] /\ blocks'[f] = blocks[f]
    BY <1>14 DEF Purge, MergeLockInv
  <2>2. /\ UNCHANGED <<file, blockNum, received>>
        /\ pc' = [pc EXCEPT ![p] = "flush"] /\ pc[p] = "purge"
    BY <1>14 DEF Purge, locals
  <2> QED
    BY <2>1, <2>2
<1>15. CASE Flush(p)
  BY <1>15 DEF Flush, db, locals
<1>16. CASE Publish(p)
  BY <1>16 DEF Publish, Reply, Exit, disk
<1>17. CASE Kill(p)
  BY <1>17 DEF Kill, Lost, Exit, db
<1> QED
  BY <1>1, <1>2, <1>3, <1>4, <1>5, <1>6, <1>7, <1>8, <1>9, <1>10, <1>11, <1>12, <1>13,
     <1>14, <1>15, <1>16, <1>17, Zenon DEF Merge

\* Every step is quiet, a step of a transfer, the first bytes of a cfg, or a
\* restart.
LEMMA StepKinds ==
  ASSUME ~Orphans, TypeOK, MergeLockInv, ReceivedInv, Next
  PROVE  \/ \E p \in Procs : \/ Quiet(p) \/ TakeBlock(p) \/ Receive(p) \/ Finish(p) \/ CloseCfg(p)
         \/ Restart
<1>1. ASSUME NEW p \in Procs, Serve(p) \/ Kill(p) \/ \E f \in Files, k \in Keys : AddFile(p, f, k)
      PROVE  Quiet(p) \/ TakeBlock(p) \/ Receive(p) \/ Finish(p) \/ CloseCfg(p)
  BY <1>1, QuietSteps, Zenon DEF Serve, Create, Select
<1> QED
  BY <1>1, Zenon DEF Next, RestartMain

\* The cfg and the create lock.
LEMMA KeptStep ==
  ASSUME ~Orphans, TypeOK, KeptInv, HandInv, [Next]_vars
  PROVE  KeptInv'
<1> USE NamesAssumption DEF TypeOK, KeptInv, HandInv, Holds, Receiving, Goto, Locks, Labels
<1>1. ASSUME NEW p \in Procs, NEW f \in Files, NEW k \in Keys, AddFile(p, f, k) PROVE KeptInv'
  BY <1>1 DEF AddFile, Dispatch, Absent, Stored, Uploading, db, disk
<1>2. ASSUME NEW p \in Procs, FileExist(p) PROVE KeptInv'
  BY <1>2 DEF FileExist, Reply, Exit, disk
<1>3. ASSUME NEW p \in Procs, MakeDir(p) PROVE KeptInv'
  BY <1>3 DEF MakeDir, db, locals
<1>4. ASSUME NEW p \in Procs, LockCreate(p) PROVE KeptInv'
  BY <1>4 DEF LockCreate, Lock, CanLock, db, disk, locals
<1>5. ASSUME NEW p \in Procs, CfgExists(p) PROVE KeptInv'
  BY <1>5 DEF CfgExists, Unlock, AfterCreate, db, disk, locals
<1>6. ASSUME NEW p \in Procs, CreateCfg(p) PROVE KeptInv'
  BY <1>6 DEF CreateCfg, db, locals
<1>7. ASSUME NEW p \in Procs, CreateCfgFailed(p) PROVE KeptInv'
  BY <1>7 DEF CreateCfgFailed, AfterCreate, db, disk, locals
<1>8. ASSUME NEW p \in Procs, InsertStatus(p) PROVE KeptInv'
  BY <1>8 DEF InsertStatus, Absent, Stored, Uploading, disk, locals
<1>9. ASSUME NEW p \in Procs, CloseCfg(p) PROVE KeptInv'
  BY <1>9 DEF CloseCfg, Unlock, AfterCreate, db, locals
<1>10. ASSUME NEW p \in Procs, LockOp(p) PROVE KeptInv'
  BY <1>10 DEF LockOp, Lock, CanLock, db, disk, locals
<1>11. ASSUME NEW p \in Procs, TakeBlock(p) PROVE KeptInv'
  BY <1>11 DEF TakeBlock, FreeFlags, Unlock, Reply, db
<1>12. ASSUME NEW p \in Procs, NoBlockLeft(p) PROVE KeptInv'
  BY <1>12 DEF NoBlockLeft, Reply, Exit, db, disk
<1>13. ASSUME NEW p \in Procs, FoundOver(p) PROVE KeptInv'
  BY <1>13 DEF FoundOver, Unlock, db, disk
<1>14. ASSUME NEW p \in Procs, RecvOpen(p) PROVE KeptInv'
  BY <1>14 DEF RecvOpen, db, locals
<1>15. ASSUME NEW p \in Procs, RecvOk(p) PROVE KeptInv'
  BY <1>15 DEF RecvOk, db
<1>16. ASSUME NEW p \in Procs, RecvFail(p) PROVE KeptInv'
  BY <1>16 DEF RecvFail, db, disk, locals
<1>17. ASSUME NEW p \in Procs, RecordBlock(p) PROVE KeptInv'
  BY <1>17 DEF RecordBlock, Record, Recorded, CanLock, Reply, Exit, db
<1>18. ASSUME NEW p \in Procs, RecordLast(p) PROVE KeptInv'
  BY <1>18 DEF RecordLast, Record, Recorded, CanLock, Unlock, db, locals
<1>19. ASSUME NEW p \in Procs, LockMerge(p) PROVE KeptInv'
  BY <1>19 DEF LockMerge, Lock, CanLock, db, locals
<1>20. ASSUME NEW p \in Procs, MergeCopy(p) PROVE KeptInv'
  BY <1>20 DEF MergeCopy, db, locals
<1>21. ASSUME NEW p \in Procs, Purge(p) PROVE KeptInv'
  BY <1>21 DEF Purge, db, locals
<1>22. ASSUME NEW p \in Procs, Flush(p) PROVE KeptInv'
  BY <1>22 DEF Flush, db, locals
<1>23. ASSUME NEW p \in Procs, Publish(p) PROVE KeptInv'
  BY <1>23 DEF Publish, Reply, Exit, Absent, Stored, Uploading, disk
<1>24. ASSUME NEW p \in Procs, Kill(p) PROVE KeptInv'
  BY <1>24 DEF Kill, Lost, Exit, db
<1>25. CASE Restart
  BY <1>25 DEF Restart, Lost, db
<1>26. CASE UNCHANGED vars
  BY <1>26 DEF vars, db, disk, locals
<1> QED
  BY <1>1, <1>2, <1>3, <1>4, <1>5, <1>6, <1>7, <1>8, <1>9, <1>10, <1>11, <1>12, <1>13,
     <1>14, <1>15, <1>16, <1>17, <1>18, <1>19, <1>20, <1>21, <1>22, <1>23, <1>24, <1>25, <1>26
  DEF Next, Serve, Create, Select, Receive, Finish, Merge, RestartMain

\* A quiet step keeps HandInv.
LEMMA HandQuiet ==
  ASSUME TypeOK, TypeOK', HandInv, NEW p \in Procs, Quiet(p)
  PROVE  HandInv'
<1>1. ReceivedInv /\ OverIsGood
  BY DEF HandInv
<1>2. ReceivedInv'
  BY <1>1 DEF ReceivedInv, Quiet, OthersKeep, Merging
<1>3. OverIsGood'
  BY <1>1 DEF OverIsGood, Quiet
<1>4. \A q \in Procs : Receiving(q)' =>
        /\ q # p /\ Receiving(q) /\ pc'[q] = pc[q] /\ file'[q] = file[q]
        /\ blockNum'[q] = blockNum[q] /\ received'[q] = received[q]
  BY DEF Quiet, OthersKeep, Receiving
<1>5. ASSUME NEW q \in Procs, NEW f \in Files, Receiving(q)', file'[q] = f, comp'[f] = "none"
      PROVE  Holds(q, f, blockNum[q])'
  <2>1. /\ Receiving(q) /\ file[q] = f /\ comp[f] = "none" /\ blockNum'[q] = blockNum[q]
        /\ flags'[f] = flags[f] /\ blocks'[f] = blocks[f]
    BY <1>4, <1>5 DEF Quiet
  <2>2. Holds(q, f, blockNum[q])
    BY <2>1 DEF HandInv
  <2> QED
    BY <1>4, <1>5, <2>1, <2>2 DEF Holds
<1> QED
  BY <1>2, <1>3, <1>5 DEF HandInv

\* A step of p that touches one block b of g, which p alone has, and its flag.
Transfer(p, g, b) ==
  /\ DOMAIN flags'[g] = DOMAIN flags[g]
  /\ \A i \in DOMAIN flags[g] : i # b + 1 => flags'[g][i] = flags[g][i]
  /\ \A c \in Block(g) : c # b => blocks'[g][c] = blocks[g][c]
  /\ flags'[g][b + 1] = Over => blocks'[g][b] = "good"
  /\ \A q \in Procs : Receiving(q) /\ q # p /\ file[q] = g => blockNum[q] # b
  /\ Receiving(p)' => /\ blockNum'[p] = b
                      /\ b + 1 \in DOMAIN flags'[g] /\ flags'[g][b + 1] = Taken
                      /\ pc'[p] = "recving" => blocks'[g][b] = p
                      /\ pc'[p] = "record" /\ received'[p] => blocks'[g][b] = "good"

\* Such a step keeps HandInv.
LEMMA HandMove ==
  ASSUME TypeOK, HandInv, NEW p \in Procs, NEW g \in Files, NEW b \in Block(g),
         file[p] = g, comp' = comp, OthersKeep(p),
         received'[p] => pc'[p] \in {"record", "lockMerge"},
         Receiving(p)' => file'[p] = file[p],
         \A f \in Files : f # g => flags'[f] = flags[f] /\ blocks'[f] = blocks[f],
         comp[g] = "none" => Transfer(p, g, b)
  PROVE  HandInv'
<1>1. \A q \in Procs : /\ Receiving(q) => file[q] \in Files /\ blockNum[q] \in Block(file[q])
                       /\ q # p => (Receiving(q)' <=> Receiving(q))
                       /\ Receiving(q)' => file'[q] = file[q]
  BY DEF TypeOK, Receiving, OthersKeep
<1>2. ASSUME NEW q \in Procs, NEW f \in Files, Receiving(q)', file'[q] = f, comp'[f] = "none"
      PROVE  Holds(q, f, blockNum[q])'
  <2>1. comp[f] = "none"
    BY <1>2
  <2>2. CASE q = p
    <3>1. f = g
      BY <1>2, <2>2
    <3>2. \A r \in Procs : Receiving(r)' /\ r # q /\ file'[r] = f => blockNum'[r] # blockNum'[q]
      BY <1>1, <1>2, <2>1, <2>2, <3>1 DEF Transfer, OthersKeep
    <3> QED
      BY <1>2, <2>1, <2>2, <3>1, <3>2 DEF Transfer, Holds
  <2>3. CASE q # p
    <3>1. /\ Receiving(q) /\ file[q] = f /\ pc'[q] = pc[q]
          /\ blockNum'[q] = blockNum[q] /\ received'[q] = received[q]
      BY <1>1, <1>2, <2>3 DEF OthersKeep
    <3>2. Holds(q, f, blockNum[q])
      BY <2>1, <3>1 DEF HandInv
    <3>3. f = g => blockNum[q] # b /\ blockNum[q] \in Block(g) /\ blockNum[q] + 1 # b + 1
      BY <1>1, <2>1, <2>3, <3>1, BlockNumPositive DEF Transfer, Block
    <3>4. /\ blockNum[q] + 1 \in DOMAIN flags'[f]
          /\ flags'[f][blockNum[q] + 1] = flags[f][blockNum[q] + 1]
          /\ blocks'[f][blockNum[q]] = blocks[f][blockNum[q]]
      BY <2>1, <3>2, <3>3 DEF Transfer, Holds
    <3>5. \A r \in Procs : Receiving(r)' /\ r # q /\ file'[r] = f => blockNum'[r] # blockNum[q]
      <4> SUFFICES ASSUME NEW r \in Procs, Receiving(r)', r # q, file'[r] = f
                   PROVE  blockNum'[r] # blockNum[q]
        OBVIOUS
      <4>1. CASE r = p
        BY <1>1, <2>1, <3>3, <4>1 DEF Transfer
      <4>2. CASE r # p
        BY <1>1, <3>2, <4>2 DEF Holds, OthersKeep
      <4> QED
        BY <4>1, <4>2
    <3> QED
      BY <3>1, <3>2, <3>4, <3>5 DEF Holds
  <2> QED
    BY <2>2, <2>3
<1>3. OverIsGood'
  <2> SUFFICES ASSUME NEW f \in Files, comp[f] = "none", NEW i \in DOMAIN flags'[f],
                      flags'[f][i] = Over
               PROVE  blocks'[f][i - 1] = "good"
    BY DEF OverIsGood
  <2>1. \A j \in DOMAIN flags[f] : flags[f][j] = Over => blocks[f][j - 1] = "good"
    BY DEF HandInv, OverIsGood
  <2>2. CASE f # g
    BY <2>1, <2>2
  <2>3. CASE f = g
    <3>1. i \in DOMAIN flags[f] /\ DOMAIN flags[f] \subseteq 1 .. BlockNum(f) /\ BlockNum(f) \in Nat
      BY <2>3, BlockNumPositive DEF Transfer, TypeOK
    <3>2. CASE i = b + 1
      <4>1. i - 1 = b
        BY <3>2, BlockNumPositive DEF Block
      <4> QED
        BY <2>3, <3>2, <4>1 DEF Transfer
    <3>3. CASE i # b + 1
      <4>1. i - 1 \in Block(g) /\ i - 1 # b
        BY <2>3, <3>1, <3>3, BlockNumPositive DEF Block
      <4> QED
        BY <2>1, <2>3, <3>1, <3>3, <4>1 DEF Transfer
    <3> QED
      BY <3>2, <3>3
  <2> QED
    BY <2>2, <2>3
<1>4. ReceivedInv'
  BY DEF HandInv, ReceivedInv, OthersKeep, MergeSteps
<1> QED
  BY <1>2, <1>3, <1>4 DEF HandInv

\* A block is taken, received and recorded by one child, whatever the others do.
LEMMA HandStep ==
  ASSUME ~Orphans, TypeOK, TypeOK', MergeLockInv, KeptInv, HandInv, [Next]_vars
  PROVE  HandInv'
<1>1. ASSUME NEW p \in Procs, Quiet(p) PROVE HandInv'
  BY <1>1, HandQuiet
<1>2. ASSUME NEW p \in Procs, TakeBlock(p) PROVE HandInv'
  <2> PICK g \in Files : g = file[p]
    BY <1>2 DEF TypeOK, TakeBlock
  <2> PICK b : b = FirstFree(flags[g])
    OBVIOUS
  <2>1. /\ FreeFlags(flags[g]) # {} /\ pc[p] = "pick" /\ pc' = [pc EXCEPT ![p] = "recv"]
        /\ flags' = [flags EXCEPT ![g] = WriteAt(flags[g], b, Taken)]
        /\ blockNum' = [blockNum EXCEPT ![p] = b]
        /\ UNCHANGED <<cfg, comp, file, blocks, received>>
    BY <1>2 DEF TakeBlock, Goto
  <2>2. flags[g] \in Seq({Free, Taken, Over}) /\ Len(flags[g]) <= BlockNum(g) /\ BlockNum(g) \in Nat
    BY BlockNumPositive DEF TypeOK
  <2>3. b \in 0 .. Len(flags[g]) - 1 /\ flags[g][b + 1] = Free
    BY <2>1, <2>2, FirstFreeIsFree, Zenon
  <2>4. b \in Nat /\ b < Len(flags[g]) /\ b \in Block(g)
    BY <2>2, <2>3 DEF Block
  <2>5. /\ WriteAt(flags[g], b, Taken) \in Seq({Free, Taken, Over})
        /\ Len(WriteAt(flags[g], b, Taken)) = Len(flags[g])
        /\ WriteAt(flags[g], b, Taken)[b + 1] = Taken
        /\ \A i \in 1 .. Len(flags[g]) : i # b + 1 => WriteAt(flags[g], b, Taken)[i] = flags[g][i]
    BY <2>2, <2>4, WriteInside
  <2>6. flags'[g] = WriteAt(flags[g], b, Taken) /\ \A f \in Files : f # g => flags'[f] = flags[f]
    BY <2>1 DEF TypeOK
  <2>7. DOMAIN flags'[g] = DOMAIN flags[g] /\ b + 1 \in DOMAIN flags[g]
    BY <2>2, <2>3, <2>5, <2>6
  <2>8. Taken # Over /\ Free # Taken
    BY DEF Taken, Over, Free
  <2>9. ASSUME comp[g] = "none", NEW q \in Procs, Receiving(q), q # p, file[q] = g
        PROVE  blockNum[q] # b
    BY <2>3, <2>8, <2>9 DEF HandInv, Holds
  <2>10. ~received[p] /\ blockNum'[p] = b /\ pc'[p] = "recv"
    BY <2>1 DEF HandInv, ReceivedInv, MergeSteps, TypeOK
  <2>11. OthersKeep(p)
    BY <2>1 DEF OthersKeep, TypeOK
  <2>12. comp[g] = "none" => Transfer(p, g, b)
    BY <2>1, <2>2, <2>5, <2>6, <2>7, <2>8, <2>9, <2>10 DEF Transfer
  <2> QED
    BY <2>1, <2>4, <2>6, <2>10, <2>11, <2>12, HandMove
<1>3. ASSUME NEW p \in Procs, Receive(p) PROVE HandInv'
  <2> PICK g \in Files : g = file[p]
    BY <1>3 DEF TypeOK, Receive, RecvOpen, RecvOk, RecvFail
  <2> PICK b : b = blockNum[p]
    OBVIOUS
  <2>1. /\ Receiving(p) /\ pc[p] # "record"
        /\ pc' \in {[pc EXCEPT ![p] = "recving"], [pc EXCEPT ![p] = "record"]}
        /\ UNCHANGED <<cfg, comp, file, blockNum, flags>>
    BY <1>3 DEF Receive, RecvOpen, RecvOk, RecvFail, Goto, Receiving, locals, disk
  <2>2. b \in Block(g)
    BY <2>1 DEF TypeOK, Receiving
  <2>3. /\ \A f \in Files : f # g => blocks'[f] = blocks[f]
        /\ \A c \in Block(g) : c # b => blocks'[g][c] = blocks[g][c]
    BY <1>3, <2>2 DEF Receive, RecvOpen, RecvOk, RecvFail, TypeOK, disk
  <2>4. received' = received \/ received' = [received EXCEPT ![p] = TRUE]
    BY <1>3 DEF Receive, RecvOpen, RecvOk, RecvFail, locals
  <2>5. ~received[p]
    BY <2>1 DEF HandInv, ReceivedInv, Receiving, MergeSteps
  <2>6. OthersKeep(p)
    BY <2>1, <2>4 DEF OthersKeep, TypeOK
  <2>7. received'[p] => pc'[p] = "record"
    BY <1>3, <2>5 DEF Receive, RecvOpen, RecvOk, RecvFail, Goto, TypeOK, locals
  <2>8. ASSUME comp[g] = "none" PROVE Transfer(p, g, b)
    <3>1. Holds(p, g, b)
      BY <2>1, <2>8 DEF HandInv
    <3>2. cfg[g] /\ dir[g]
      BY <3>1 DEF Holds, KeptInv
    <3>3. Taken # Over
      BY DEF Taken, Over
    <3>4. pc'[p] = "recving" => blocks'[g][b] = p
      BY <1>3, <2>2, <3>2 DEF Receive, RecvOpen, RecvOk, RecvFail, Goto, TypeOK
    <3>5. received'[p] => blocks'[g][b] = "good"
      <4>1. CASE RecvOk(p)
        <5>1. blocks[g][b] = p
          BY <3>1, <4>1 DEF Holds, RecvOk
        <5> QED
          BY <2>2, <4>1, <5>1 DEF RecvOk, TypeOK
      <4>2. CASE ~RecvOk(p)
        BY <1>3, <2>5, <4>2 DEF Receive, RecvOpen, RecvFail, locals
      <4> QED
        BY <4>1, <4>2
    <3> QED
      BY <2>1, <2>3, <3>1, <3>3, <3>4, <3>5 DEF Transfer, Holds
  <2> QED
    BY <2>1, <2>2, <2>3, <2>6, <2>7, <2>8, HandMove
<1>4. ASSUME NEW p \in Procs, Finish(p) PROVE HandInv'
  <2> PICK g \in Files : g = file[p]
    BY <1>4 DEF TypeOK, Finish, RecordBlock, RecordLast, Record
  <2> PICK b : b = blockNum[p]
    OBVIOUS
  <2>1. /\ pc[p] = "record" /\ pc' \in {[pc EXCEPT ![p] = "idle"], [pc EXCEPT ![p] = "lockMerge"]}
        /\ flags' = [flags EXCEPT ![g] = Recorded(p)]
        /\ UNCHANGED <<cfg, comp, blocks>>
    BY <1>4 DEF Finish, RecordBlock, RecordLast, Record, Exit, Goto
  <2>2. b \in Block(g) /\ Receiving(p)
    BY <2>1 DEF TypeOK, Receiving
  <2>3. OthersKeep(p)
    BY <1>4 DEF Finish, RecordBlock, RecordLast, Exit, Goto, OthersKeep, TypeOK, locals
  <2>4. received'[p] => pc'[p] = "lockMerge"
    BY <1>4 DEF Finish, RecordBlock, RecordLast, Exit, Goto, TypeOK
  <2>5. ~Receiving(p)'
    BY <2>1 DEF Receiving, TypeOK
  <2>6. flags'[g] = Recorded(p) /\ \A f \in Files : f # g => flags'[f] = flags[f]
    BY <2>1 DEF TypeOK
  <2>7. ASSUME comp[g] = "none" PROVE Transfer(p, g, b)
    <3>1. Holds(p, g, b)
      BY <2>2, <2>7 DEF HandInv
    <3>2. cfg[g]
      BY <3>1 DEF Holds, KeptInv
    <3> PICK v \in {Free, Taken, Over} : v = IF received[p] THEN Over ELSE Free
      OBVIOUS
    <3>3. Recorded(p) = WriteAt(flags[g], b, v)
      BY <3>2 DEF Recorded
    <3>4. flags[g] \in Seq({Free, Taken, Over}) /\ b \in Nat /\ b < Len(flags[g])
      BY <2>2, <3>1, BlockNumPositive DEF TypeOK, Holds, Block
    <3>5. /\ Len(Recorded(p)) = Len(flags[g]) /\ Recorded(p) \in Seq({Free, Taken, Over})
          /\ Recorded(p)[b + 1] = v
          /\ \A i \in 1 .. Len(flags[g]) : i # b + 1 => Recorded(p)[i] = flags[g][i]
      <4>1. /\ Len(WriteAt(flags[g], b, v)) = Len(flags[g])
            /\ WriteAt(flags[g], b, v) \in Seq({Free, Taken, Over})
            /\ WriteAt(flags[g], b, v)[b + 1] = v
            /\ \A i \in 1 .. Len(flags[g]) : i # b + 1 => WriteAt(flags[g], b, v)[i] = flags[g][i]
        BY <3>4, WriteInside, Zenon
      <4> QED
        BY <3>3, <4>1, Zenon
    <3>6. DOMAIN flags'[g] = DOMAIN flags[g]
      BY <2>6, <3>4, <3>5
    <3>7. v = Over => received[p]
      BY DEF Free, Over
    <3> QED
      BY <2>1, <2>5, <2>6, <3>1, <3>4, <3>5, <3>6, <3>7 DEF Transfer, Holds
  <2> QED
    BY <2>1, <2>2, <2>3, <2>4, <2>5, <2>6, <2>7, HandMove
<1>5. ASSUME NEW p \in Procs, CloseCfg(p) PROVE HandInv'
  <2> PICK g \in Files : g = file[p]
    BY <1>5 DEF TypeOK, CloseCfg
  <2>1. /\ pc[p] = "close" /\ pc' = [pc EXCEPT ![p] = AfterCreate(p)]
        /\ \A f \in Files : f # g => flags'[f] = flags[f]
        /\ UNCHANGED <<comp, file, blockNum, received, blocks>>
    BY <1>5 DEF CloseCfg, Goto, TypeOK, locals
  <2>2. AfterCreate(p) \in {"pick", "lockOp"}
    BY DEF AfterCreate
  <2>3. \A i \in DOMAIN flags'[g] : flags'[g][i] = Over => i \in DOMAIN flags[g] /\ flags[g][i] = Over
    BY <1>5 DEF CloseCfg, TypeOK, Free, Over
  <2>4. comp[g] = "none" => flags[g] = <<>>
    BY <2>1 DEF KeptInv
  <2>5. OthersKeep(p) /\ ~Receiving(p)' /\ ~received[p]
    BY <2>1, <2>2 DEF OthersKeep, Receiving, HandInv, ReceivedInv, MergeSteps, TypeOK
  <2>6. \A q \in Procs : Receiving(q)' => /\ q # p /\ Receiving(q) /\ pc'[q] = pc[q]
    BY <2>5 DEF OthersKeep, Receiving
  <2>7. OverIsGood'
    BY <2>1, <2>3 DEF HandInv, OverIsGood
  <2>8. ReceivedInv'
    BY <2>1, <2>5 DEF HandInv, ReceivedInv, OthersKeep
  <2>9. ASSUME NEW q \in Procs, NEW f \in Files, Receiving(q)', file'[q] = f, comp'[f] = "none"
        PROVE  Holds(q, f, blockNum[q])'
    <3>1. Holds(q, f, blockNum[q])
      BY <2>1, <2>6, <2>9 DEF HandInv
    <3>2. f # g
      BY <2>1, <2>4, <2>9, <3>1 DEF Holds
    <3> QED
      BY <2>1, <2>6, <2>9, <3>1, <3>2 DEF Holds
  <2> QED
    BY <2>7, <2>8, <2>9 DEF HandInv
<1>6. CASE Restart
  BY <1>6 DEF Restart, HandInv, ReceivedInv, Receiving, OverIsGood
<1>7. CASE UNCHANGED vars
  BY <1>7 DEF vars, disk, locals, HandInv, ReceivedInv, Holds, Receiving, OverIsGood
<1>8. ReceivedInv
  BY DEF HandInv
<1> QED
  BY <1>1, <1>2, <1>3, <1>4, <1>5, <1>6, <1>7, <1>8, StepKinds

-----------------------------------------------------------------------------
(* The theorems *)

\* The invariant holds whatever dies and however requests overlap.
THEOREM CrashInvariance == ~Orphans => (Spec => []CrashInv)
<1> SUFFICES ASSUME ~Orphans PROVE Spec => []CrashInv
  OBVIOUS
<1>1. Init => CrashInv
  <2>1. Init => TypeOK
    BY TypeInit
  <2>2. Init => MergeLockInv /\ KeptInv /\ HandInv
    BY DEF Init, MergeLockInv, KeptInv, HandInv, ReceivedInv, Receiving, OverIsGood, MergeSteps
  <2> QED
    BY <2>1, <2>2 DEF CrashInv
<1>2. CrashInv /\ [Next]_vars => CrashInv'
  BY TypeStep, MergeLockStep, KeptStep, HandStep DEF CrashInv
<1> QED
  BY <1>1, <1>2, PTL DEF Spec

\* Until a content is assembled, no two children have the same block of it
\* (the scan and the flag byte 1 under the op lock, server.cpp:434-461),
\* whatever dies.
THEOREM BlocksAreExclusive == ~Orphans => (Spec => []ExclusiveBlock)
<1>1. CrashInv => ExclusiveBlock
  BY DEF CrashInv, TypeOK, HandInv, Holds, Receiving, ExclusiveBlock
<1> QED
  BY <1>1, CrashInvariance, PTL

\* A flag byte -1 stands for a block that is on disk as the client sent it
\* (server.cpp:482-485), whatever dies.
THEOREM OversAreGood == ~Orphans => (Spec => []OverIsGood)
<1>1. CrashInv => OverIsGood
  BY DEF CrashInv, HandInv
<1> QED
  BY <1>1, CrashInvariance, PTL

\* The write of one byte leaves the other bytes alone.
LEMMA WriteElsewhere ==
  ASSUME NEW s \in Seq({Free, Taken, Over}), NEW b \in Nat, b < Len(s),
         NEW v \in {Free, Taken, Over}, NEW i \in DOMAIN s, i # b + 1
  PROVE  i \in DOMAIN WriteAt(s, b, v) /\ WriteAt(s, b, v)[i] = s[i]
<1>1. WriteAt(s, b, v) \in Seq({Free, Taken, Over}) /\ Len(WriteAt(s, b, v)) = Len(s)
  BY WriteInside
<1>2. \A j \in 1 .. Len(s) : j # b + 1 => WriteAt(s, b, v)[j] = s[j]
  BY WriteInside
<1> QED
  BY <1>1, <1>2

\* OverStaysOver: a block that is recorded as received is not asked for again
\* while its directory lives (selectBlock, server.cpp:449-459, 480-495).
THEOREM OversStay == ~Orphans => (Spec => OverStaysOver)
<1> SUFFICES ASSUME ~Orphans PROVE Spec => OverStaysOver
  OBVIOUS
<1> DEFINE Stays == \A f \in Files : comp[f] = "none" /\ cfg'[f] =>
                      \A i \in DOMAIN flags[f] : flags[f][i] = Over =>
                        i \in DOMAIN flags'[f] /\ flags'[f][i] = Over
<1>1. ASSUME CrashInv, CrashInv', Next PROVE Stays
  <2> SUFFICES ASSUME NEW f \in Files, comp[f] = "none", cfg'[f],
                      NEW i \in DOMAIN flags[f], flags[f][i] = Over
               PROVE  i \in DOMAIN flags'[f] /\ flags'[f][i] = Over
    OBVIOUS
  <2>1. /\ TypeOK /\ TypeOK' /\ MergeLockInv /\ KeptInv /\ HandInv
    BY <1>1 DEF CrashInv
  <2>2. flags[f] \in Seq({Free, Taken, Over}) /\ Len(flags[f]) <= BlockNum(f) /\ BlockNum(f) \in Nat
    BY <2>1, BlockNumPositive DEF TypeOK
  <2>3. Over # Free /\ Over # Taken
    BY DEF Over, Free, Taken
  <2>4. ASSUME NEW p \in Procs, TakeBlock(p) PROVE flags'[f] = flags[f] \/ (i \in DOMAIN flags'[f] /\ flags'[f][i] = Over)
    <3> PICK b : b = FirstFree(flags[f])
      OBVIOUS
    <3>1. /\ FreeFlags(flags[file[p]]) # {} /\ file[p] \in Files
          /\ flags' = [flags EXCEPT ![file[p]] = WriteAt(flags[file[p]], FirstFree(flags[file[p]]), Taken)]
      BY <2>1, <2>4 DEF TakeBlock, TypeOK
    <3>2. CASE f = file[p]
      <4>1. b \in 0 .. Len(flags[f]) - 1 /\ flags[f][b + 1] = Free
        BY <2>2, <3>1, <3>2, FirstFreeIsFree, Zenon
      <4>2. b \in Nat /\ b < Len(flags[f])
        BY <2>2, <4>1
      <4>3. /\ Len(WriteAt(flags[f], b, Taken)) = Len(flags[f])
            /\ WriteAt(flags[f], b, Taken) \in Seq({Free, Taken, Over})
            /\ \A j \in 1 .. Len(flags[f]) : j # b + 1 => WriteAt(flags[f], b, Taken)[j] = flags[f][j]
        BY <2>2, <4>2, WriteInside, Zenon
      <4>4. flags'[f] = WriteAt(flags[f], b, Taken)
        BY <2>1, <3>1, <3>2 DEF TypeOK
      <4>5. i # b + 1
        BY <2>3, <4>1
      <4> QED
        BY <2>2, <4>3, <4>4, <4>5
    <3>3. CASE f # file[p]
      BY <2>1, <3>1, <3>3 DEF TypeOK
    <3> QED
      BY <3>2, <3>3
  <2>5. ASSUME NEW p \in Procs, Finish(p) PROVE flags'[f] = flags[f] \/ (i \in DOMAIN flags'[f] /\ flags'[f][i] = Over)
    <3> PICK b : b = blockNum[p]
      OBVIOUS
    <3>1. /\ pc[p] = "record" /\ file[p] \in Files
          /\ flags' = [flags EXCEPT ![file[p]] = Recorded(p)]
      BY <2>1, <2>5 DEF Finish, RecordBlock, RecordLast, Record, TypeOK
    <3>2. CASE f = file[p] /\ cfg[f]
      <4>1. Holds(p, f, b) /\ b \in Nat
        BY <2>1, <3>1, <3>2, BlockNumPositive DEF HandInv, Receiving, TypeOK, Block
      <4>2. b < Len(flags[f]) /\ i # b + 1
        BY <2>2, <2>3, <4>1 DEF Holds
      <4>3. PICK w \in {Free, Taken, Over} : flags'[f] = WriteAt(flags[f], b, w)
        BY <2>1, <3>1, <3>2 DEF TypeOK, Recorded
      <4> QED
        BY <2>2, <4>1, <4>2, <4>3, WriteElsewhere
    <3>3. CASE f # file[p]
      BY <2>1, <3>1, <3>3 DEF TypeOK
    <3>4. CASE f = file[p] /\ ~cfg[f]
      BY <2>1, <3>1, <3>4 DEF TypeOK, Recorded
    <3> QED
      BY <3>2, <3>3, <3>4
  <2>6. ASSUME NEW p \in Procs, CloseCfg(p) PROVE flags'[f] = flags[f]
    <3>1. f = file[p] => flags[f] = <<>>
      BY <2>1, <2>6 DEF KeptInv, CloseCfg
    <3>2. f # file[p] => flags'[f] = flags[f]
      BY <2>1, <2>6 DEF CloseCfg, TypeOK
    <3> QED
      BY <3>1, <3>2
  <2>7. ASSUME NEW p \in Procs, Quiet(p) \/ Receive(p) PROVE flags'[f] = flags[f]
    BY <2>7 DEF Quiet, Receive, RecvOpen, RecvOk, RecvFail, disk
  <2>8. ~Restart
    BY DEF Restart
  <2> QED
    BY <1>1, <2>1, <2>4, <2>5, <2>6, <2>7, <2>8, StepKinds DEF HandInv
<1>2. CrashInv /\ CrashInv' /\ [Next]_vars => [Stays]_vars
  BY <1>1
<1> QED
  BY <1>2, CrashInvariance, PTL DEF Spec, OverStaysOver

-----------------------------------------------------------------------------
(* Flags and their owners.  Here main may also be restarted over its       *)
(* children, but no child dies between the choice of a block and the       *)
(* second half of selectBlock.                                             *)

\* A step that hands out no block and ends no transfer.
LEMMA OwnersKept ==
  ASSUME TakenIsOwned,
         \A q \in Procs : Receiving(q) =>
            Receiving(q)' /\ file'[q] = file[q] /\ blockNum'[q] = blockNum[q],
         \A f \in Files : \A i \in DOMAIN flags'[f] :
            flags'[f][i] = Taken => i \in DOMAIN flags[f] /\ flags[f][i] = Taken
  PROVE  TakenIsOwned'
<1> SUFFICES ASSUME NEW f \in Files, NEW i \in DOMAIN flags'[f], flags'[f][i] = Taken
             PROVE  \E p \in Procs : Receiving(p)' /\ file'[p] = f /\ blockNum'[p] = i - 1
  BY DEF TakenIsOwned
<1>1. PICK p \in Procs : Receiving(p) /\ file[p] = f /\ blockNum[p] = i - 1
  BY DEF TakenIsOwned
<1> QED
  BY <1>1

TakenInv == TakenIsOwned /\ \A f \in Files : ~cfg[f] => flags[f] = <<>>

\* The steps, but for the death of a child that is receiving.
Keeping ==
  \/ \E p \in Procs : \/ Serve(p) \/ (Kill(p) /\ ~Receiving(p))
                      \/ \E f \in Files, k \in Keys : AddFile(p, f, k)
  \/ Restart \/ RestartMain

\* None of them leaves a flag without its child.
LEMMA TakenStep ==
  ASSUME TypeOK, TypeOK', TakenInv, Keeping \/ UNCHANGED vars
  PROVE  TakenInv'
<1>0. Taken # Free /\ Taken # Over
  BY DEF Taken, Free, Over
<1>1. ASSUME NEW f \in Files, ~cfg'[f] PROVE flags'[f] = <<>>
  <2> USE DEF TypeOK, TakenInv
  <2>1. ASSUME NEW p \in Procs, Serve(p) PROVE flags'[f] = <<>>
    <3>1. CASE Create(p)
      BY <1>1, <3>1 DEF Create, MakeDir, LockCreate, CfgExists, CreateCfg, CreateCfgFailed,
         InsertStatus, CloseCfg, disk
    <3>2. CASE TakeBlock(p)
      BY <1>1, <3>2 DEF TakeBlock, FreeFlags
    <3>3. CASE Finish(p)
      BY <1>1, <3>3 DEF Finish, RecordBlock, RecordLast, Record, Recorded
    <3>4. CASE Merge(p)
      BY <1>1, <3>4 DEF Merge, LockMerge, MergeCopy, Purge, Flush, Publish, disk
    <3>5. CASE FileExist(p) \/ LockOp(p) \/ NoBlockLeft(p) \/ FoundOver(p) \/ Receive(p)
      BY <1>1, <3>5 DEF FileExist, LockOp, NoBlockLeft, FoundOver, Receive, RecvOpen, RecvOk, RecvFail, disk
    <3> QED
      BY <2>1, <3>1, <3>2, <3>3, <3>4, <3>5 DEF Serve, Select
  <2>2. CASE \E p \in Procs : Kill(p) \/ \E g \in Files, k \in Keys : AddFile(p, g, k)
    BY <1>1, <2>2 DEF Kill, AddFile, disk
  <2>3. CASE Restart \/ RestartMain
    BY <1>1, <2>3 DEF Restart, RestartMain
  <2>4. CASE UNCHANGED vars
    BY <1>1, <2>4 DEF vars, disk
  <2> QED
    BY <2>1, <2>2, <2>3, <2>4 DEF Keeping
<1>2. ASSUME NEW p \in Procs, TakeBlock(p) PROVE TakenIsOwned'
  <2> SUFFICES ASSUME NEW f \in Files, NEW i \in DOMAIN flags'[f], flags'[f][i] = Taken
               PROVE  \E q \in Procs : Receiving(q)' /\ file'[q] = f /\ blockNum'[q] = i - 1
    BY DEF TakenIsOwned
  <2>1. /\ pc[p] = "pick" /\ pc' = [pc EXCEPT ![p] = "recv"] /\ file' = file
        /\ file[p] \in Files /\ FreeFlags(flags[file[p]]) # {}
        /\ flags' = [flags EXCEPT ![file[p]] = WriteAt(flags[file[p]], FirstFree(flags[file[p]]), Taken)]
        /\ blockNum' = [blockNum EXCEPT ![p] = FirstFree(flags[file[p]])]
    BY <1>2 DEF TakeBlock, Goto, TypeOK
  <2>2. \A q \in Procs : Receiving(q) =>
          q # p /\ Receiving(q)' /\ file'[q] = file[q] /\ blockNum'[q] = blockNum[q]
    BY <2>1 DEF Receiving, TypeOK
  <2>3. CASE i \in DOMAIN flags[f] /\ flags[f][i] = Taken
    BY <2>2, <2>3 DEF TakenInv, TakenIsOwned
  <2>4. CASE ~(i \in DOMAIN flags[f] /\ flags[f][i] = Taken)
    <3>1. f = file[p]
      BY <2>1, <2>4 DEF TypeOK
    <3>2. flags[f] \in Seq({Free, Taken, Over})
      BY DEF TypeOK
    <3>3. FirstFree(flags[f]) \in 0 .. Len(flags[f]) - 1
      BY <2>1, <3>1, <3>2, FirstFreeIsFree, Zenon
    <3>4. FirstFree(flags[f]) \in Nat /\ FirstFree(flags[f]) < Len(flags[f])
      BY <3>2, <3>3
    <3>5. flags'[f] = WriteAt(flags[f], FirstFree(flags[f]), Taken)
      BY <2>1, <3>1 DEF TypeOK
    <3>6. Len(WriteAt(flags[f], FirstFree(flags[f]), Taken)) = Len(flags[f])
          /\ WriteAt(flags[f], FirstFree(flags[f]), Taken) \in Seq({Free, Taken, Over})
      BY <3>2, <3>4, WriteInside
    <3>7. i = FirstFree(flags[f]) + 1
      BY <2>4, <3>2, <3>4, <3>5, <3>6, WriteElsewhere
    <3>8. Receiving(p)' /\ file'[p] = f /\ blockNum'[p] = i - 1
      BY <2>1, <3>1, <3>4, <3>7 DEF Receiving, TypeOK
    <3> QED
      BY <3>8
  <2> QED
    BY <2>3, <2>4
<1>3. ASSUME NEW p \in Procs, Finish(p) PROVE TakenIsOwned'
  <2> SUFFICES ASSUME NEW f \in Files, NEW i \in DOMAIN flags'[f], flags'[f][i] = Taken
               PROVE  \E q \in Procs : Receiving(q)' /\ file'[q] = f /\ blockNum'[q] = i - 1
    BY DEF TakenIsOwned
  <2>1. /\ pc[p] = "record" /\ file[p] \in Files /\ blockNum[p] \in Nat
        /\ flags' = [flags EXCEPT ![file[p]] = Recorded(p)]
    BY <1>3, BlockNumPositive DEF Finish, RecordBlock, RecordLast, Record, TypeOK, Block
  <2>2. \A q \in Procs : q # p /\ Receiving(q) =>
          Receiving(q)' /\ file'[q] = file[q] /\ blockNum'[q] = blockNum[q]
    BY <1>3 DEF Finish, RecordBlock, RecordLast, Exit, Goto, locals, Receiving, TypeOK
  <2>3. /\ i \in DOMAIN flags[f] /\ flags[f][i] = Taken
        /\ f = file[p] => i # blockNum[p] + 1
    <3>1. CASE f # file[p]
      BY <2>1, <3>1 DEF TypeOK
    <3>2. CASE f = file[p] /\ ~cfg[f]
      BY <2>1, <3>2 DEF TypeOK, TakenInv, Recorded
    <3>3. CASE f = file[p] /\ cfg[f]
      <4>1. PICK w \in {Free, Over} : flags'[f] = WriteAt(flags[f], blockNum[p], w)
        BY <2>1, <3>3 DEF TypeOK, Recorded
      <4>2. flags[f] \in Seq({Free, Taken, Over})
        BY DEF TypeOK
      <4> QED
        BY <1>0, <2>1, <3>3, <4>1, <4>2 DEF WriteAt
    <3> QED
      BY <3>1, <3>2, <3>3
  <2>4. PICK q \in Procs : Receiving(q) /\ file[q] = f /\ blockNum[q] = i - 1
    BY <2>3 DEF TakenInv, TakenIsOwned
  <2>5. q # p
    <3>1. i \in Int
      BY <2>3 DEF TypeOK
    <3> QED
      BY <2>1, <2>3, <2>4, <3>1
  <2> QED
    BY <2>2, <2>4, <2>5
<1>4. ASSUME NEW p \in Procs, CloseCfg(p) PROVE TakenIsOwned'
  <2>1. \A f \in Files : \A i \in DOMAIN flags'[f] :
          flags'[f][i] = Taken => i \in DOMAIN flags[f] /\ flags[f][i] = Taken
    BY <1>0, <1>4 DEF CloseCfg, TypeOK
  <2>2. \A q \in Procs : Receiving(q) =>
          Receiving(q)' /\ file'[q] = file[q] /\ blockNum'[q] = blockNum[q]
    BY <1>4 DEF CloseCfg, Goto, locals, Receiving, TypeOK
  <2> QED
    BY <2>1, <2>2, OwnersKept DEF TakenInv
<1>5. ASSUME NEW p \in Procs,
             \/ \E f \in Files, k \in Keys : AddFile(p, f, k)
             \/ FileExist(p) \/ LockOp(p) \/ NoBlockLeft(p) \/ FoundOver(p)
             \/ MakeDir(p) \/ LockCreate(p) \/ CfgExists(p) \/ CreateCfg(p)
             \/ CreateCfgFailed(p) \/ InsertStatus(p)
             \/ Receive(p) \/ Merge(p) \/ (Kill(p) /\ ~Receiving(p))
      PROVE  TakenIsOwned'
  <2>1. \A f \in Files : flags'[f] = flags[f] \/ flags'[f] = <<>>
    BY <1>5 DEF TypeOK, AddFile, FileExist, LockOp, NoBlockLeft, FoundOver, MakeDir, LockCreate,
       CfgExists, CreateCfg, CreateCfgFailed, InsertStatus, Receive, RecvOpen, RecvOk, RecvFail,
       Merge, LockMerge, MergeCopy, Purge, Flush, Publish, Kill, disk
  <2>2. \A q \in Procs : Receiving(q) =>
          Receiving(q)' /\ file'[q] = file[q] /\ blockNum'[q] = blockNum[q]
    <3> USE DEF TypeOK, Receiving, Goto, locals, Exit
    <3>1. CASE \E f \in Files, k \in Keys : AddFile(p, f, k)
      BY <3>1 DEF AddFile
    <3>2. CASE FileExist(p) \/ NoBlockLeft(p) \/ (Kill(p) /\ ~Receiving(p)) \/ Publish(p)
      BY <3>2 DEF FileExist, NoBlockLeft, Kill, Publish
    <3>3. CASE LockOp(p) \/ FoundOver(p)
      BY <3>3 DEF LockOp, FoundOver
    <3>4. CASE MakeDir(p) \/ LockCreate(p) \/ CfgExists(p)
      BY <3>4 DEF MakeDir, LockCreate, CfgExists
    <3>5. CASE CreateCfg(p) \/ CreateCfgFailed(p) \/ InsertStatus(p)
      BY <3>5 DEF CreateCfg, CreateCfgFailed, InsertStatus
    <3>6. CASE Receive(p)
      BY <3>6 DEF Receive, RecvOpen, RecvOk, RecvFail
    <3>7. CASE LockMerge(p) \/ MergeCopy(p) \/ Purge(p) \/ Flush(p)
      BY <3>7 DEF LockMerge, MergeCopy, Purge, Flush
    <3> QED
      BY <1>5, <3>1, <3>2, <3>3, <3>4, <3>5, <3>6, <3>7 DEF Merge
  <2> QED
    BY <2>1, <2>2, OwnersKept DEF TakenInv
<1>6. CASE Restart \/ RestartMain
  <2>1. \A f \in Files : flags'[f] = <<>>
    BY <1>6 DEF Restart, RestartMain
  <2> QED
    BY <1>1, <2>1 DEF TakenInv, TakenIsOwned
<1>7. CASE UNCHANGED vars
  BY <1>7 DEF vars, disk, locals, TakenInv, TakenIsOwned, Receiving
<1> QED
  BY <1>1, <1>2, <1>3, <1>4, <1>5, <1>6, <1>7, Zenon
  DEF Keeping, Serve, Create, Select, TakenInv

\* TakenIsOwned: a flag byte 1 always has the child that will clear it
\* (server.cpp:455-456 and 480-495), if children die only elsewhere.
THEOREM FlagsHaveOwners ==
  KillAt \cap {"recv", "recving", "record"} = {} => (Spec => []TakenIsOwned)
<1> SUFFICES ASSUME KillAt \cap {"recv", "recving", "record"} = {} PROVE Spec => []TakenIsOwned
  OBVIOUS
<1>1. Init => TypeOK /\ TakenInv
  BY TypeInit DEF Init, TakenInv, TakenIsOwned
<1>2. TypeOK /\ TakenInv /\ [Next]_vars => (TypeOK /\ TakenInv)'
  <2>1. ASSUME TypeOK, Next PROVE Keeping
    BY <2>1 DEF Next, Keeping, Kill, Receiving
  <2> QED
    BY <2>1, TypeStep, TakenStep
<1>3. TakenInv => TakenIsOwned
  BY DEF TakenInv
<1> QED
  BY <1>1, <1>2, <1>3, PTL DEF Spec
=============================================================================
