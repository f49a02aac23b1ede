---------------------------- MODULE StorageProofs ----------------------------
(***************************************************************************)
(* What the upload page and the upload service make of a content that both *)
(* store, for any number of children, browsers, contents and paths.        *)
(***************************************************************************)
EXTENDS StorageInvariant, BlockUploadProofs

-----------------------------------------------------------------------------
(* Frames *)

\* What the system keeps of f is as before.
Same(f) ==
  /\ status'[f] = status[f] /\ dir'[f] = dir[f] /\ cfg'[f] = cfg[f]
  /\ flags'[f] = flags[f] /\ blocks'[f] = blocks[f] /\ comp'[f] = comp[f]
  /\ \A k \in Keys : rows'[k] = f <=> rows[k] = f

SameChild(q) ==
  /\ pc'[q] = pc[q] /\ file'[q] = file[q] /\ blockNum'[q] = blockNum[q]
  /\ fileL'[q] = fileL[q] /\ received'[q] = received[q]

SamePage(s) == wpc'[s] = wpc[s] /\ wfile'[s] = wfile[s] /\ wkey'[s] = wkey[s]

\* A step of child p for content f.
ChildOnly(p, f) ==
  /\ \A q \in Procs : q # p => SameChild(q)
  /\ \A g \in Files : g # f => Same(g)
  /\ IF pc'[p] = "idle" THEN file'[p] = NoFile ELSE file'[p] = f

\* A step of browser s for content f.
PageOnly(s, f) ==
  /\ \A t \in Sessions : t # s => SamePage(t)
  /\ \A q \in Procs : SameChild(q)
  /\ \A g \in Files : g # f => Same(g)
  /\ IF wpc'[s] = "idle" THEN wfile'[s] = NoFile ELSE wfile'[s] = f

LEMMA ServeOnly ==
  ASSUME TypeOK, NEW p \in Procs, NEW f \in Files, file[p] = f, Serve(p)
  PROVE  ChildOnly(p, f)
<1> USE NamesAssumption DEF TypeOK, ChildOnly, SameChild, Same, Goto
<1>1. CASE FileExist(p)
  BY <1>1 DEF FileExist, Exit, disk
<1>2. CASE Create(p)
  BY <1>2 DEF Create, MakeDir, LockCreate, CfgExists, CreateCfg, CreateCfgFailed, InsertStatus,
     CloseCfg, AfterCreate, db, disk, locals
<1>3. CASE Select(p)
  BY <1>3 DEF Select, LockOp, TakeBlock, NoBlockLeft, FoundOver, Exit, db, disk, locals
<1>4. CASE Receive(p)
  BY <1>4 DEF Receive, RecvOpen, RecvOk, RecvFail, db, disk, locals
<1>5. CASE Finish(p)
  BY <1>5 DEF Finish, Record, RecordBlock, RecordLast, Exit, db, disk, locals
<1>6. CASE Merge(p)
  BY <1>6 DEF Merge, LockMerge, MergeCopy, Purge, Flush, Publish, Exit, db, disk, locals
<1> QED
  BY <1>1, <1>2, <1>3, <1>4, <1>5, <1>6 DEF Serve

LEMMA AddFileOnly ==
  ASSUME TypeOK, NEW p \in Procs, NEW f \in Files, NEW k \in Keys, AddFile(p, f, k)
  PROVE  ChildOnly(p, f) /\ pc[p] = "idle" /\ pc'[p] = Dispatch(status[f])
         /\ received'[p] = received[p] /\ Same(f)
<1>1. Dispatch(status[f]) # "idle"
  BY DEF TypeOK, Dispatch, Absent, Stored, Uploading
<1> QED
  BY <1>1 DEF TypeOK, AddFile, ChildOnly, SameChild, Same, Goto, db, disk

LEMMA PageStepOnly ==
  ASSUME TypeOK, PageTypes, NEW s \in Sessions, NEW f \in Files, wfile[s] = f, Page(s)
  PROVE  PageOnly(s, f) /\ PageTypes'
<1> USE NamesAssumption DEF TypeOK, PageTypes, PageOnly, SameChild, SamePage, Same, WGoto, Done,
     Untouched, locals
<1>1. CASE Look(s)
  <2>1. wpc'[s] \in {"save", "link"} /\ UNCHANGED <<status, rows, comp>>
    BY <1>1 DEF Look
  <2> QED
    BY <1>1, <2>1 DEF Look
<1>2. CASE SaveOpen(s)
  BY <1>2 DEF SaveOpen
<1>3. CASE SaveDone(s)
  BY <1>3 DEF SaveDone
<1>4. CASE AddStatus(s)
  <2>1. /\ \/ status' = [status EXCEPT ![f] = Stored] /\ WGoto(s, "link")
           \/ status' = status /\ Done(s)
        /\ Untouched /\ UNCHANGED <<rows, comp>> /\ wpc[s] = "status"
    BY <1>4 DEF AddStatus
  <2>2. CASE status' = [status EXCEPT ![f] = Stored] /\ WGoto(s, "link")
    BY <2>1, <2>2
  <2>3. CASE status' = status /\ Done(s)
    BY <2>1, <2>3
  <2> QED
    BY <2>1, <2>2, <2>3
<1>5. CASE LinkRow(s)
  BY <1>5 DEF LinkRow
<1> QED
  BY <1>1, <1>2, <1>3, <1>4, <1>5 DEF Page

LEMMA UploadOnly ==
  ASSUME TypeOK, PageTypes, NEW s \in Sessions, NEW f \in Files, NEW k \in Keys, Upload(s, f, k)
  PROVE  PageOnly(s, f) /\ PageTypes' /\ Same(f) /\ wpc'[s] = "look"
  BY NamesAssumption DEF TypeOK, PageTypes, PageOnly, SameChild, SamePage, Same, Upload,
     Untouched, locals

-----------------------------------------------------------------------------
(* A child's step, for its own content *)

\* What a child keeps while it serves f, and leaves when it ends.
Served(p, f) ==
  /\ ContentInv(f) /\ ChildInv(p, f)
  /\ pc[p] = "idle" => Settled(f) /\ Finished(f)

\* fileExist and createConfig.
LEMMA CreateKeeps ==
  ASSUME TypeOK, TypeOK', NEW p \in Procs, NEW f \in Files, file[p] = f,
         ContentInv(f), ChildInv(p, f), FileExist(p) \/ Create(p)
  PROVE  Served(p, f)'
<1> USE NamesAssumption, BlockNumPositive
    DEF TypeOK, Served, ContentInv, ChildInv, Settled, Finished, Selecting, MergeSteps, CreateSteps, Receiving,
        Ready, Goto, Absent, Stored, Uploading
<1>1. CASE FileExist(p)
  BY <1>1 DEF FileExist, Exit, disk
<1>2. CASE MakeDir(p)
  BY <1>2 DEF MakeDir, db, locals
<1>3. CASE LockCreate(p)
  BY <1>3 DEF LockCreate, db, disk, locals
<1>4. CASE CfgExists(p) \/ CreateCfgFailed(p)
  BY <1>4 DEF CfgExists, CreateCfgFailed
<1>5. CASE CreateCfg(p)
  BY <1>5 DEF CreateCfg, db, locals
<1>6. CASE InsertStatus(p)
  BY <1>6 DEF InsertStatus, disk, locals
<1>7. CASE CloseCfg(p)
  <2>1. /\ flags'[f] = [i \in 1 .. BlockNum(f) |-> Free]
        /\ pc'[p] \in {"lockOp", "pick"} /\ UNCHANGED <<db, dir, cfg, blocks, comp, locals>>
    BY <1>7 DEF CloseCfg, AfterCreate
  <2>2. Len(flags'[f]) = BlockNum(f) /\ \A i \in DOMAIN flags'[f] : flags'[f][i] # Over
    BY <2>1, FreshFlags DEF Free, Over
  <2> QED
    BY <1>7, <2>1, <2>2 DEF CloseCfg, db, locals
<1> QED
  BY <1>1, <1>2, <1>3, <1>4, <1>5, <1>6, <1>7 DEF Create

\* selectBlock.
LEMMA SelectKeeps ==
  ASSUME TypeOK, TypeOK', NEW p \in Procs, NEW f \in Files, file[p] = f,
         ContentInv(f), ChildInv(p, f), Select(p)
  PROVE  Served(p, f)'
<1> DEFINE b == FirstFree(flags[f])
<1>0. BlockNum(f) \in Nat /\ flags[f] \in Seq({Free, Taken, Over})
  BY BlockNumPositive DEF TypeOK
<1>2. CASE TakeBlock(p)
  <2>1. /\ flags'[f] = WriteAt(flags[f], b, Taken) /\ FreeFlags(flags[f]) # {}
        /\ fileL'[p] = CfgSize(f) /\ blockNum'[p] = b /\ pc'[p] = "recv" /\ pc[p] = "pick"
        /\ UNCHANGED <<db, dir, cfg, blocks, comp, file, key, received>>
    BY <1>2 DEF TakeBlock, TypeOK, Goto
  <2>2. Len(flags[f]) = BlockNum(f) /\ cfg[f]
    BY <2>1 DEF ChildInv, Selecting, Ready
  <2>3. FirstFree(flags[f]) \in 0 .. Len(flags[f]) - 1
    BY <1>0, <2>1, FirstFreeIsFree, Zenon
  <2>4. b \in Nat /\ b < Len(flags[f])
    BY <1>0, <2>2, <2>3
  <2> HIDE DEF b
  <2>5. Taken \in {Free, Taken, Over}
    OBVIOUS
  <2>6. /\ WriteAt(flags[f], b, Taken) \in Seq({Free, Taken, Over})
        /\ Len(WriteAt(flags[f], b, Taken)) = Len(flags[f])
        /\ WriteAt(flags[f], b, Taken)[b + 1] = Taken
        /\ \A i \in 1 .. Len(flags[f]) : i # b + 1 => WriteAt(flags[f], b, Taken)[i] = flags[f][i]
    BY <1>0, <2>4, <2>5, WriteInside, Zenon
  <2>7. /\ Len(flags'[f]) = BlockNum(f) /\ flags'[f][b + 1] = Taken
        /\ \A i \in 1 .. Len(flags[f]) : i # b + 1 => flags'[f][i] = flags[f][i]
        /\ DOMAIN flags'[f] = 1 .. BlockNum(f) /\ DOMAIN flags[f] = 1 .. BlockNum(f)
    BY <1>0, <2>1, <2>2, <2>6
  <2>8. \A i \in DOMAIN flags'[f] : flags'[f][i] = Over => i \in DOMAIN flags[f] /\ flags[f][i] = Over
    BY <2>2, <2>7 DEF Taken, Over
  <2>9. fileL'[p] = BlockNum(f)
    BY <2>1, <2>2 DEF CfgSize
  <2> QED
    BY <2>1, <2>7, <2>8, <2>9 DEF db, TypeOK, Served, ContentInv, ChildInv, Selecting, MergeSteps,
       CreateSteps, Receiving, Ready
<1> USE NamesAssumption DEF TypeOK, Served, ContentInv, ChildInv, Settled, Finished, Selecting,
        MergeSteps, CreateSteps, Receiving, Ready, Goto
<1>1. CASE LockOp(p)
  BY <1>1 DEF LockOp, db, disk, locals
<1>3. CASE NoBlockLeft(p)
  BY <1>3 DEF NoBlockLeft, Exit, db, disk, Absent, Uploading
<1>4. CASE FoundOver(p)
  BY <1>4 DEF FoundOver, CfgSize, db, disk
<1> QED
  BY <1>1, <1>2, <1>3, <1>4 DEF Select

\* recvFile, and the second half of selectBlock.
LEMMA ReceiveKeeps ==
  ASSUME TypeOK, TypeOK', NEW p \in Procs, NEW f \in Files, file[p] = f,
         ContentInv(f), ChildInv(p, f), Receive(p)
  PROVE  Served(p, f)'
<1> USE NamesAssumption, BlockNumPositive
    DEF TypeOK, Served, ContentInv, ChildInv, Settled, Finished, Selecting, MergeSteps, CreateSteps, Receiving,
        Ready, Goto
<1> DEFINE b == blockNum[p]
<1>1. b \in Block(f) /\ b \in Nat /\ flags[f][b + 1] = Taken /\ dir[f]
  BY DEF Receive, RecvOpen, RecvOk, RecvFail, Block
<1>2. \A i \in DOMAIN flags[f] : flags[f][i] = Over => i - 1 # b
  BY <1>1 DEF Taken, Over
<1>3. CASE RecvOpen(p)
  <2>1. blocks'[f] = [blocks[f] EXCEPT ![b] = p]
    BY <1>1, <1>3 DEF RecvOpen
  <2>2. blocks'[f][b] = p /\ \A c : c # b => blocks'[f][c] = blocks[f][c]
    BY <1>1, <2>1
  <2> QED
    BY <1>1, <1>2, <1>3, <2>2 DEF RecvOpen, db, locals
<1>4. CASE RecvOk(p)
  <2>1. blocks'[f] = [blocks[f] EXCEPT ![b] = "good"]
    BY <1>1, <1>4 DEF RecvOk
  <2>2. blocks'[f][b] = "good" /\ \A c : c # b => blocks'[f][c] = blocks[f][c]
    BY <1>1, <2>1
  <2> QED
    BY <1>1, <1>2, <1>4, <2>2 DEF RecvOk, db
<1>5. CASE RecvFail(p)
  BY <1>5 DEF RecvFail, db, disk, locals
<1> QED
  BY <1>3, <1>4, <1>5 DEF Receive

LEMMA FinishKeeps ==
  ASSUME TypeOK, TypeOK', NEW p \in Procs, NEW f \in Files, file[p] = f,
         ContentInv(f), ChildInv(p, f), Finish(p)
  PROVE  Served(p, f)'
<1> DEFINE b == blockNum[p]
           v == IF received[p] THEN Over ELSE Free
<1>1. /\ pc[p] = "record" /\ b \in Block(f) /\ b \in Nat /\ b < Len(flags[f])
      /\ cfg[f] /\ Len(flags[f]) = BlockNum(f) /\ flags[f] \in Seq({Free, Taken, Over})
      /\ flags'[f] = Recorded(p) /\ fileL[p] = BlockNum(f) /\ BlockNum(f) \in Nat
  BY BlockNumPositive DEF Finish, RecordBlock, RecordLast, Record, Block, TypeOK, ChildInv,
     Receiving, Selecting, Ready
<1>2. Recorded(p) = WriteAt(flags[f], b, v)
  BY <1>1 DEF Recorded
<1>3. /\ Recorded(p) \in Seq({Free, Taken, Over}) /\ Len(Recorded(p)) = BlockNum(f)
      /\ Recorded(p)[b + 1] = v
      /\ \A i \in 1 .. Len(flags[f]) : i # b + 1 => Recorded(p)[i] = flags[f][i]
      /\ DOMAIN Recorded(p) = 1 .. BlockNum(f) /\ DOMAIN flags[f] = 1 .. BlockNum(f)
  <2>1. v \in {Free, Taken, Over}
    OBVIOUS
  <2> HIDE DEF v, b
  <2>2. /\ WriteAt(flags[f], b, v) \in Seq({Free, Taken, Over})
        /\ Len(WriteAt(flags[f], b, v)) = Len(flags[f])
        /\ WriteAt(flags[f], b, v)[b + 1] = v
        /\ \A i \in 1 .. Len(flags[f]) : i # b + 1 => WriteAt(flags[f], b, v)[i] = flags[f][i]
    <3>1. flags[f] \in Seq({Free, Taken, Over}) /\ b \in Nat /\ b < Len(flags[f])
      BY <1>1
    <3> QED
      BY <2>1, <3>1, WriteInside, Zenon
  <2> QED
    BY <1>1, <1>2, <2>2
<1>7. OverNum(Recorded(p), BlockNum(f), IF received[p] THEN 0 ELSE -1) = BlockNum(f) => AllOver(Recorded(p))
  BY <1>1, <1>3, FullCount, Zenon
<1> USE NamesAssumption DEF TypeOK, Served, ContentInv, ChildInv, Settled, Finished, Selecting,
        MergeSteps, CreateSteps, Receiving, Ready, Goto
<1>4. \A i \in DOMAIN flags'[f] : flags'[f][i] = Over => blocks[f][i - 1] = "good"
  <2>1. v = Over => blocks[f][b] = "good"
    BY <1>1 DEF Free, Over
  <2> HIDE DEF v
  <2> QED
    BY <1>1, <1>3, <2>1
<1> HIDE DEF b, v
<1>5. CASE RecordBlock(p)
  BY <1>1, <1>3, <1>4, <1>5 DEF RecordBlock, Exit, db, Absent, Uploading
<1>6. CASE RecordLast(p)
  <2>1. OverNum(Recorded(p), BlockNum(f), IF received[p] THEN 0 ELSE -1) = BlockNum(f)
    BY <1>1, <1>6 DEF RecordLast, Counted
  <2>2. AllOver(Recorded(p))
    BY <1>7, <2>1
  <2> QED
    BY <1>1, <1>3, <1>4, <1>6, <2>2 DEF RecordLast, db, locals
<1> QED
  BY <1>5, <1>6 DEF Finish

\* mergeFile.
LEMMA MergeKeeps ==
  ASSUME TypeOK, TypeOK', NEW p \in Procs, NEW f \in Files, file[p] = f,
         ContentInv(f), ChildInv(p, f), Merge(p)
  PROVE  Served(p, f)'
<1> USE NamesAssumption, BlockNumPositive
    DEF TypeOK, Served, ContentInv, ChildInv, Settled, Finished, Selecting, MergeSteps, CreateSteps, Receiving,
        Ready, Goto
<1>1. CASE LockMerge(p)
  BY <1>1 DEF LockMerge, db, locals, Stored, Uploading
<1>2. CASE MergeCopy(p)
  <2>1. \A b \in Block(f) : blocks[f][b] = "good"
    <3>1. \A b \in Block(f) : b + 1 \in DOMAIN flags[f] /\ (b + 1) - 1 = b
      BY <1>2 DEF MergeCopy, Block
    <3> QED
      BY <1>2, <3>1 DEF MergeCopy, AllOver
  <2>2. comp'[f] = "buffered"
    BY <1>2, <2>1 DEF MergeCopy
  <2> QED
    BY <1>2, <2>2 DEF MergeCopy, db, locals, Stored, Uploading
<1>3. CASE Purge(p)
  BY <1>3 DEF Purge, db, locals
<1>4. CASE Flush(p)
  BY <1>4 DEF Flush, db, locals
<1>5. CASE Publish(p)
  BY <1>5 DEF Publish, Exit, disk, Absent, Stored, Uploading
<1> QED
  BY <1>1, <1>2, <1>3, <1>4, <1>5 DEF Merge

LEMMA ServeKeeps ==
  ASSUME TypeOK, TypeOK', NEW p \in Procs, NEW f \in Files, file[p] = f,
         ContentInv(f), ChildInv(p, f), Serve(p)
  PROVE  Served(p, f)'
  BY CreateKeeps, SelectKeeps, ReceiveKeeps, FinishKeeps, MergeKeeps DEF Serve

-----------------------------------------------------------------------------
(* The page's step, for its own content *)

LEMMA PageKeepsTypes ==
  ASSUME TypeOK, PageTypes, NEW s \in Sessions, Page(s)
  PROVE  TypeOK'
<1> USE DEF TypeOK, PageTypes, Untouched, locals
<1>1. CASE Look(s)
  BY <1>1 DEF Look
<1>2. CASE SaveOpen(s)
  BY <1>2 DEF SaveOpen
<1>3. CASE SaveDone(s)
  BY <1>3 DEF SaveDone
<1>4. CASE AddStatus(s)
  <2>1. \/ status' = [status EXCEPT ![wfile[s]] = Stored]
        \/ status' = status
    BY <1>4 DEF AddStatus
  <2>2. Untouched /\ UNCHANGED <<rows, comp>>
    BY <1>4 DEF AddStatus
  <2> QED
    BY <2>1, <2>2
<1>5. CASE LinkRow(s)
  BY <1>5 DEF LinkRow
<1> QED
  BY <1>1, <1>2, <1>3, <1>4, <1>5 DEF Page

LEMMA PageKeeps ==
  ASSUME TypeOK, PageTypes, NEW s \in Sessions, NEW f \in Files, wfile[s] = f,
         ContentInv(f), Settled(f), PageInv(s, f), Page(s)
  PROVE  /\ ContentInv(f)' /\ Settled(f)' /\ PageInv(s, f)'
         /\ wpc'[s] = "idle" => Finished(f)'
<1> USE NamesAssumption
    DEF TypeOK, PageTypes, ContentInv, Settled, Finished, PageInv, Ready, WGoto, Done, Untouched, locals
<1>1. CASE Look(s)
  BY <1>1 DEF Look
<1>2. CASE SaveOpen(s)
  BY <1>2 DEF SaveOpen
<1>3. CASE SaveDone(s)
  BY <1>3 DEF SaveDone
<1>4. CASE AddStatus(s)
  <2>1. /\ \/ status[f] = Absent /\ status' = [status EXCEPT ![f] = Stored] /\ WGoto(s, "link")
           \/ status[f] # Absent /\ status' = status /\ Done(s)
        /\ Untouched /\ UNCHANGED <<rows, comp>> /\ wpc[s] = "status"
    BY <1>4 DEF AddStatus
  <2>2. CASE status[f] = Absent /\ status' = [status EXCEPT ![f] = Stored] /\ WGoto(s, "link")
    BY <2>1, <2>2 DEF Absent, Stored, Uploading
  <2>3. CASE status[f] # Absent /\ status' = status /\ Done(s)
    BY <2>1, <2>3
  <2> QED
    BY <2>1, <2>2, <2>3
<1>5. CASE LinkRow(s)
  BY <1>5 DEF LinkRow
<1> QED
  BY <1>1, <1>2, <1>3, <1>4, <1>5 DEF Page

-----------------------------------------------------------------------------
(* What the others rely on stays *)

LEMMA ContentStays ==
  ASSUME NEW g \in Files, Same(g)
  PROVE  /\ ContentInv(g) => ContentInv(g)'
         /\ Settled(g) => Settled(g)'
         /\ Finished(g) => Finished(g)'
  BY DEF Same, ContentInv, Settled, Finished, Ready

LEMMA ChildStays ==
  ASSUME NEW g \in Files, NEW q \in Procs, Same(g), SameChild(q), ChildInv(q, g)
  PROVE  ChildInv(q, g)'
  BY DEF Same, SameChild, ChildInv, Ready, Receiving

LEMMA PageStays ==
  ASSUME NEW g \in Files, NEW s \in Sessions, Same(g), wpc'[s] = wpc[s], wfile'[s] = wfile[s],
         PageInv(s, g)
  PROVE  PageInv(s, g)'
  BY DEF Same, PageInv, Finished

\* A child with another content.
LEMMA OtherChild ==
  ASSUME NEW g \in Files, NEW q \in Procs, ChildInv(q, g), SameChild(q), file[q] # g
  PROVE  ChildInv(q, g)'
  BY DEF SameChild, ChildInv

\* A child's step, new or under way, for the content that is its alone.
LEMMA ChildTurn ==
  ASSUME TypeOK, PageTypes, InTurns, NEW p \in Procs, NEW f \in Files,
         file[p] # NoFile => file[p] = f,
         \A q \in Procs : q # p => file[q] # f, \A s \in Sessions : wfile[s] # f,
         ChildOnly(p, f), Served(p, f)', UNCHANGED <<page, users>>
  PROVE  InTurns'
<1> USE NamesAssumption
<1>1. /\ wpc' = wpc /\ wfile' = wfile /\ users' = users
      /\ \A q \in Procs : q # p => SameChild(q)
      /\ \A g \in Files : g # f => Same(g)
      /\ file'[p] \in {f, NoFile} /\ (file'[p] = NoFile => pc'[p] = "idle")
  BY DEF ChildOnly, page
<1>2. TurnsInv'
  BY <1>1 DEF InTurns, TurnsInv, SameChild
<1>3. ASSUME NEW g \in Files PROVE ContentInv(g)'
  <2>1. CASE g = f
    BY <2>1 DEF Served
  <2>2. CASE g # f
    BY <1>1, <2>2, ContentStays DEF InTurns
  <2> QED
    BY <2>1, <2>2
<1>4. ASSUME NEW g \in Files, \A q \in Procs : file'[q] # g
      PROVE  Settled(g)' /\ ((\A s \in Sessions : wfile'[s] # g) => Finished(g)')
  <2>1. CASE g = f
    BY <1>1, <1>4, <2>1 DEF Served
  <2>2. CASE g # f
    <3>1. \A q \in Procs : file[q] # g
      BY <1>1, <1>4, <2>2 DEF SameChild
    <3> QED
      BY <1>1, <2>2, <3>1, ContentStays DEF InTurns, QuietInv
  <2> QED
    BY <2>1, <2>2
<1>5. ASSUME NEW g \in Files, NEW q \in Procs PROVE ChildInv(q, g)'
  <2>1. CASE q = p /\ g = f
    BY <2>1 DEF Served
  <2>2. CASE q = p /\ g # f
    <3>1. ChildInv(p, f)'
      BY DEF Served
    <3> QED
      BY <1>1, <2>2, <3>1 DEF ChildInv
  <2>3. CASE q # p /\ g = f
    BY <1>1, <2>3, OtherChild DEF InTurns
  <2>4. CASE q # p /\ g # f
    BY <1>1, <2>4, ChildStays DEF InTurns
  <2> QED
    BY <2>1, <2>2, <2>3, <2>4
<1>6. ASSUME NEW g \in Files, NEW s \in Sessions PROVE PageInv(s, g)'
  <2>1. CASE g = f
    BY <1>1, <2>1 DEF PageInv
  <2>2. CASE g # f
    BY <1>1, <2>2, PageStays DEF InTurns
  <2> QED
    BY <2>1, <2>2
<1> QED
  BY <1>2, <1>3, <1>4, <1>5, <1>6 DEF InTurns, QuietInv

\* A browser's.
LEMMA PageTurn ==
  ASSUME TypeOK, PageTypes, InTurns, NEW s \in Sessions, NEW f \in Files,
         wfile[s] # NoFile => wfile[s] = f,
         \A q \in Procs : file[q] # f, \A t \in Sessions : t # s => wfile[t] # f,
         users' = users, users # "alone", PageOnly(s, f),
         ContentInv(f)', Settled(f)', PageInv(s, f)', wpc'[s] = "idle" => Finished(f)'
  PROVE  InTurns'
<1> USE NamesAssumption
<1>1. /\ users' = users /\ \A q \in Procs : SameChild(q)
      /\ \A t \in Sessions : t # s => SamePage(t)
      /\ \A g \in Files : g # f => Same(g)
      /\ wfile'[s] \in {f, NoFile} /\ (wfile'[s] = NoFile => wpc'[s] = "idle")
  BY DEF PageOnly
<1>2. TurnsInv'
  BY <1>1 DEF InTurns, TurnsInv, SameChild, SamePage
<1>3. ASSUME NEW g \in Files PROVE ContentInv(g)'
  <2>1. CASE g # f
    BY <1>1, <2>1, ContentStays DEF InTurns
  <2> QED
    BY <2>1
<1>4. ASSUME NEW g \in Files, \A q \in Procs : file'[q] # g
      PROVE  Settled(g)' /\ ((\A t \in Sessions : wfile'[t] # g) => Finished(g)')
  <2>1. CASE g = f
    BY <1>1, <2>1
  <2>2. CASE g # f
    <3>1. \A q \in Procs : file[q] # g
      BY <1>1, <1>4 DEF SameChild
    <3>2. (\A t \in Sessions : wfile'[t] # g) => \A t \in Sessions : wfile[t] # g
      BY <1>1, <2>2 DEF SamePage
    <3> QED
      BY <1>1, <2>2, <3>1, <3>2, ContentStays DEF InTurns, QuietInv
  <2> QED
    BY <2>1, <2>2
<1>5. ASSUME NEW g \in Files, NEW q \in Procs PROVE ChildInv(q, g)'
  <2>1. CASE g = f
    BY <1>1, <2>1, OtherChild DEF InTurns
  <2>2. CASE g # f
    BY <1>1, <2>2, ChildStays DEF InTurns
  <2> QED
    BY <2>1, <2>2
<1>6. ASSUME NEW g \in Files, NEW t \in Sessions PROVE PageInv(t, g)'
  <2>1. CASE t = s /\ g # f
    BY <1>1, <2>1 DEF PageInv
  <2>2. CASE t # s /\ g = f
    BY <1>1, <2>2 DEF PageInv, SamePage
  <2>3. CASE t # s /\ g # f
    BY <1>1, <2>3, PageStays DEF InTurns, SamePage
  <2> QED
    BY <2>1, <2>2, <2>3
<1> QED
  BY <1>2, <1>3, <1>4, <1>5, <1>6 DEF InTurns, QuietInv

-----------------------------------------------------------------------------
(* Without the page *)

LEMMA AloneServe ==
  ASSUME TypeOK, NEW p \in Procs, NEW f \in Files, file[p] = f, ChildInv(p, f),
         \A q \in Procs : q # p => file[q] # f, AloneInv(f), Serve(p), ChildOnly(p, f)
  PROVE  AloneInv(f)'
<1>1. pc[p] # "publish" /\ comp[f] = "whole" => status[f] = Stored
  BY DEF AloneInv
<1>2. /\ \A q \in Procs : q # p => file'[q] # f
      /\ pc'[p] # "idle" => file'[p] = f
  BY DEF ChildOnly, SameChild
<1>3. status[f] # Stored \/ Swept(f)
  BY DEF AloneInv
<1>4. pc[p] \in {"flush", "publish"} => Swept(f)
  BY DEF AloneInv
<1>5. Absent # Stored /\ Uploading # Stored /\ Absent # Uploading
  BY DEF Absent, Stored, Uploading
<1>6. /\ comp'[f] = "whole" => status'[f] = Stored \/ pc'[p] = "publish"
      /\ status'[f] = Stored \/ pc'[p] \in {"flush", "publish"} => Swept(f)'
  <2> USE NamesAssumption, <1>1, <1>3, <1>4, <1>5
      DEF TypeOK, ChildInv, Swept, Goto, Selecting, CreateSteps, MergeSteps
  <2>1. CASE FileExist(p)
    BY <2>1 DEF FileExist, Exit, disk
  <2>2. CASE Create(p)
    BY <2>2 DEF Create, MakeDir, LockCreate, CfgExists, CreateCfg, CreateCfgFailed, InsertStatus,
       CloseCfg, AfterCreate, db, disk, locals
  <2>3. CASE Select(p)
    BY <2>3 DEF Select, LockOp, TakeBlock, NoBlockLeft, FoundOver, Exit, db, disk, locals
  <2>4. CASE Receive(p)
    BY <2>4 DEF Receive, RecvOpen, RecvOk, RecvFail, db, disk, locals
  <2>5. CASE Finish(p)
    BY <2>5 DEF Finish, Record, RecordBlock, RecordLast, Exit, db, disk, locals
  <2>6. CASE Merge(p)
    <3>1. CASE LockMerge(p)
      BY <3>1 DEF LockMerge, db, locals
    <3>2. CASE MergeCopy(p)
      BY <3>2 DEF MergeCopy, db, locals
    <3>3. CASE Purge(p)
      BY <3>3 DEF Purge, db, locals
    <3>4. CASE Flush(p)
      BY <3>4 DEF Flush, db, locals
    <3>5. CASE Publish(p)
      BY <3>5 DEF Publish, Exit, disk
    <3> QED
      BY <2>6, <3>1, <3>2, <3>3, <3>4, <3>5 DEF Merge
  <2> QED
    BY <2>1, <2>2, <2>3, <2>4, <2>5, <2>6 DEF Serve
<1> QED
  BY <1>2, <1>6 DEF AloneInv

LEMMA AloneStays ==
  ASSUME NEW p \in Procs, NEW f \in Files, NEW g \in Files, g # f, file[p] # g,
         AloneInv(g), ChildOnly(p, f)
  PROVE  AloneInv(g)'
<1>1. \A q \in Procs : file'[q] = g <=> file[q] = g
  BY NamesAssumption DEF ChildOnly, SameChild
<1>2. \A q \in Procs : file[q] = g => pc'[q] = pc[q]
  BY DEF ChildOnly, SameChild
<1>3. Same(g)
  BY DEF ChildOnly
<1> QED
  BY <1>1, <1>2, <1>3 DEF AloneInv, Swept, Same

-----------------------------------------------------------------------------
(* The step *)

LEMMA ChildTypes ==
  ASSUME TypeOK, PageTypes, NEW p \in Procs, NEW f \in Files, ChildOnly(p, f),
         UNCHANGED <<page, users>>
  PROVE  PageTypes'
  BY DEF TypeOK, PageTypes, page, ChildOnly, SameChild

LEMMA ServeStep ==
  ASSUME StorageInv, NEW p \in Procs, ChildDoes(Serve(p))
  PROVE  StorageInv'
<1>1. /\ TypeOK /\ PageTypes /\ Serve(p) /\ UNCHANGED <<page, users>> /\ users' = users
  BY DEF StorageInv, ChildDoes
<1>2. TypeOK'
  BY <1>1, TypeStep DEF Next
<1>3. pc[p] # "idle"
  BY <1>1 DEF Serve, FileExist, Create, MakeDir, LockCreate, CfgExists, CreateCfg, CreateCfgFailed,
     InsertStatus, CloseCfg, Select, LockOp, TakeBlock, NoBlockLeft, FoundOver, Receive, RecvOpen,
     RecvOk, RecvFail, Finish, RecordBlock, RecordLast, Record, Merge, LockMerge, MergeCopy, Purge,
     Flush, Publish
<1>4. PICK f \in Files : file[p] = f
  BY <1>1, <1>3 DEF TypeOK
<1>5. f # NoFile /\ ChildOnly(p, f)
  BY <1>1, <1>4, ServeOnly, NamesAssumption
<1>6. PageTypes'
  BY <1>1, <1>5, ChildTypes
<1>7. ASSUME users # "any" PROVE InTurns'
  <2>1. InTurns /\ ContentInv(f) /\ ChildInv(p, f)
    BY <1>7 DEF StorageInv, InTurns
  <2>2. Served(p, f)'
    BY <1>1, <1>2, <1>4, <2>1, ServeKeeps
  <2>3. /\ \A q \in Procs : q # p => file[q] # f
        /\ \A s \in Sessions : wfile[s] # f
    BY <1>4, <1>5, <2>1 DEF InTurns, TurnsInv
  <2> QED
    BY <1>1, <1>4, <1>5, <2>1, <2>2, <2>3, ChildTurn
<1>8. ASSUME users = "alone", NEW g \in Files PROVE AloneInv(g)'
  <2>1. InTurns /\ ChildInv(p, f) /\ AloneInv(g) /\ AloneInv(f)
    BY <1>8 DEF StorageInv, InTurns
  <2>2. CASE g = f
    <3>1. \A q \in Procs : q # p => file[q] # f
      BY <1>4, <1>5, <2>1 DEF InTurns, TurnsInv
    <3> QED
      BY <1>1, <1>4, <1>5, <2>1, <2>2, <3>1, AloneServe
  <2>3. CASE g # f
    BY <1>4, <1>5, <2>1, <2>3, AloneStays
  <2> QED
    BY <2>2, <2>3
<1> QED
  BY <1>1, <1>2, <1>6, <1>7, <1>8 DEF StorageInv

LEMMA AsksStep ==
  ASSUME StorageInv, NEW p \in Procs, NEW f \in Files, Asks(p, f)
  PROVE  StorageInv'
<1>1. PICK k \in Keys : AddFile(p, f, k)
  BY DEF Asks, ChildDoes
<1>2. TypeOK /\ PageTypes /\ UNCHANGED <<page, users>> /\ users' = users /\ MayAsk(f)
  BY DEF StorageInv, Asks, ChildDoes
<1>3. TypeOK'
  BY <1>1, <1>2, TypeStep DEF Next
<1>4. /\ ChildOnly(p, f) /\ pc[p] = "idle" /\ pc'[p] = Dispatch(status[f])
      /\ received'[p] = received[p] /\ Same(f) /\ file[p] = NoFile /\ f # NoFile
  BY <1>1, <1>2, AddFileOnly, NamesAssumption DEF PageTypes
<1>5. PageTypes'
  BY <1>2, <1>4, ChildTypes
<1>6. Dispatch(status[f]) = IF status[f] = Absent THEN "mkdir" ELSE
                            IF status[f] = Stored THEN "link" ELSE "lockOp"
  BY <1>2 DEF TypeOK, Dispatch, Absent, Stored, Uploading
<1>7. ASSUME users # "any" PROVE InTurns'
  <2>1. InTurns /\ ContentInv(f) /\ ChildInv(p, f) /\ QuietInv(f)
    BY <1>7 DEF StorageInv, InTurns
  <2>2. (\A q \in Procs : file[q] # f) /\ \A s \in Sessions : wfile[s] # f
    BY <1>2, <1>7 DEF MayAsk, Busy
  <2>3. Settled(f) /\ Finished(f) /\ ~received[p]
    BY <1>4, <2>1, <2>2 DEF QuietInv, ChildInv, MergeSteps
  <2>4. ContentInv(f)'
    BY <1>4, <2>1, ContentStays
  <2>5. ChildInv(p, f)'
    BY <1>2, <1>4, <1>6, <2>1, <2>3, Zenon DEF ChildInv, Same, Settled, Finished, ContentInv, Ready, Selecting,
       CreateSteps, MergeSteps, Receiving, TypeOK, Absent, Stored, Uploading
  <2>6. Served(p, f)'
    BY <1>4, <1>6, <2>4, <2>5 DEF Served
  <2> QED
    BY <1>2, <1>4, <2>1, <2>2, <2>6, ChildTurn
<1>8. ASSUME users = "alone", NEW g \in Files PROVE AloneInv(g)'
  <2>1. AloneInv(g) /\ AloneInv(f)
    BY <1>8 DEF StorageInv
  <2>2. CASE g = f
    <3>1. \A q \in Procs : file[q] # f
      BY <1>2, <1>8 DEF MayAsk, Busy
    <3>2. pc'[p] \notin {"flush", "publish"} /\ \A q \in Procs : q # p => file'[q] = file[q]
      BY <1>4, <1>6 DEF ChildOnly, SameChild
    <3> QED
      BY <1>4, <2>1, <2>2, <3>1, <3>2 DEF AloneInv, Same, Swept
  <2>3. CASE g # f
    BY <1>4, <2>1, <2>3, AloneStays, NamesAssumption
  <2> QED
    BY <2>2, <2>3
<1> QED
  BY <1>2, <1>3, <1>5, <1>7, <1>8 DEF StorageInv

LEMMA PageStep ==
  ASSUME StorageInv, NEW s \in Sessions, Page(s)
  PROVE  StorageInv'
<1>1. TypeOK /\ PageTypes
  BY DEF StorageInv
<1>2. wpc[s] # "idle" /\ users' = users
  BY DEF Page, Look, SaveOpen, SaveDone, AddStatus, LinkRow, Untouched
<1>3. PICK f \in Files : wfile[s] = f
  BY <1>1, <1>2 DEF PageTypes
<1>4. PageOnly(s, f) /\ PageTypes' /\ TypeOK' /\ f # NoFile
  BY <1>1, <1>3, PageStepOnly, PageKeepsTypes, NamesAssumption
<1>5. ASSUME users # "any" PROVE InTurns' /\ users # "alone"
  <2>1. InTurns /\ ContentInv(f) /\ PageInv(s, f) /\ QuietInv(f)
    BY <1>5 DEF StorageInv, InTurns
  <2>2. /\ \A q \in Procs : file[q] # f
        /\ \A t \in Sessions : t # s => wfile[t] # f
        /\ users # "alone"
    BY <1>2, <1>3, <1>4, <2>1 DEF InTurns, TurnsInv
  <2>3. Settled(f)
    BY <2>1, <2>2 DEF QuietInv
  <2>4. /\ ContentInv(f)' /\ Settled(f)' /\ PageInv(s, f)'
        /\ wpc'[s] = "idle" => Finished(f)'
    BY <1>1, <1>3, <2>1, <2>3, PageKeeps
  <2> QED
    BY <1>1, <1>2, <1>3, <1>4, <2>1, <2>2, <2>4, PageTurn
<1> QED
  BY <1>2, <1>4, <1>5 DEF StorageInv

LEMMA UploadStep ==
  ASSUME StorageInv, NEW s \in Sessions, NEW f \in Files, NEW k \in Keys, Upload(s, f, k)
  PROVE  StorageInv'
<1>1. TypeOK /\ PageTypes
  BY DEF StorageInv
<1>2. /\ wpc[s] = "idle" /\ users # "alone" /\ MayAsk(f) /\ users' = users
      /\ UNCHANGED vars
  BY DEF Upload, Untouched, vars, db, disk
<1>3. /\ PageOnly(s, f) /\ PageTypes' /\ Same(f) /\ wpc'[s] = "look" /\ f # NoFile
      /\ wfile[s] = NoFile
  BY <1>1, <1>2, UploadOnly, NamesAssumption DEF PageTypes
<1>4. TypeOK'
  BY <1>1, <1>2, TypeStep
<1>5. ASSUME users # "any" PROVE InTurns'
  <2>1. InTurns /\ ContentInv(f) /\ QuietInv(f)
    BY <1>5 DEF StorageInv, InTurns
  <2>2. (\A q \in Procs : file[q] # f) /\ \A t \in Sessions : wfile[t] # f
    BY <1>2, <1>5 DEF MayAsk, Busy
  <2>3. Settled(f) /\ Finished(f)
    BY <2>1, <2>2 DEF QuietInv
  <2>4. ContentInv(f)' /\ Settled(f)' /\ Finished(f)'
    BY <1>3, <2>1, <2>3, ContentStays
  <2>5. PageInv(s, f)'
    BY <1>3, <2>4 DEF PageInv
  <2> QED
    BY <1>1, <1>2, <1>3, <2>1, <2>2, <2>4, <2>5, PageTurn
<1> QED
  BY <1>2, <1>3, <1>4, <1>5 DEF StorageInv

\* StorageInv in every reachable state.
THEOREM StorageInvariance == SpecBoth => []StorageInv
<1>1. InitBoth => StorageInv
  <2> SUFFICES ASSUME InitBoth PROVE StorageInv
    OBVIOUS
  <2>1. TypeOK
    BY TypeInit DEF InitBoth
  <2>2. PageTypes /\ TurnsInv
    BY DEF InitBoth, Init, PageTypes, TurnsInv
  <2>3. ASSUME NEW f \in Files
        PROVE  /\ ContentInv(f) /\ QuietInv(f) /\ AloneInv(f)
               /\ \A p \in Procs : ChildInv(p, f)
               /\ \A s \in Sessions : PageInv(s, f)
    BY NamesAssumption DEF InitBoth, Init, ContentInv, QuietInv, AloneInv, ChildInv, PageInv, Settled, Finished,
       Absent, Stored, Uploading
  <2> QED
    BY <2>1, <2>2, <2>3 DEF StorageInv, InTurns
<1>2. StorageInv /\ [NextBoth]_all => StorageInv'
  <2> SUFFICES ASSUME StorageInv, [NextBoth]_all PROVE StorageInv'
    OBVIOUS
  <2>1. CASE UNCHANGED all
    BY <2>1 DEF all, vars, db, disk, locals, page, StorageInv, TypeOK, PageTypes, InTurns, TurnsInv,
       ContentInv, QuietInv, Settled, Finished, Ready, ChildInv, PageInv, AloneInv, Swept, Receiving
  <2> QED
    BY <2>1, ServeStep, AsksStep, PageStep, UploadStep DEF NextBoth
<1> QED
  BY <1>1, <1>2, PTL DEF SpecBoth

-----------------------------------------------------------------------------
(* Theorems *)

\* A page saves a content in place only while none of it is there.
LEMMA SavingIsPartial ==
  ASSUME InTurns, NEW f \in Files, comp[f] = "whole"
  PROVE  OnDisk(f) = "whole"
  BY DEF InTurns, PageInv, OnDisk

\* StorageWhole: when uploads of one content through the page and through the
\* service follow one another, a status 1 and a row stand for a whole content,
\* though neither program takes the other's lock (views.py:109-124,
\* server.cpp:396-419).
THEOREM StoredOnceWhole == SpecBoth => []StorageWhole
<1>1. StorageInv => StorageWhole
  <2> SUFFICES ASSUME StorageInv, users # "any", NEW f \in Files,
                      status[f] = Stored \/ \E k \in Keys : rows[k] = f
               PROVE  status[f] # Absent /\ OnDisk(f) = "whole"
    BY DEF StorageWhole
  <2>1. InTurns /\ ContentInv(f)
    BY DEF StorageInv, InTurns
  <2> QED
    BY <2>1, SavingIsPartial DEF ContentInv
<1> QED
  BY <1>1, StorageInvariance, PTL

\* NothingLeft: without the page, and one request for a content after the
\* other, nothing of a stored content stays in upload/ (server.cpp:402-417).
THEOREM UploadsAreSwept == SpecBoth => []NothingLeft
<1>1. StorageInv => NothingLeft
  BY DEF StorageInv, NothingLeft, NoLeftover, AloneInv, Swept
<1> QED
  BY <1>1, StorageInvariance, PTL

\* SavedOnce: no page saves over a whole content, and no merge appends to it,
\* when requests for it follow one another (views.py:112, server.cpp:402).
THEOREM WholeIsSavedOnce == SpecBoth => SavedOnce
<1> DEFINE Once == users # "any" =>
                     \A f \in Files : OnDisk(f) = "whole" => OnDisk(f)' = "whole"
<1>1. ASSUME StorageInv, StorageInv', NextBoth PROVE Once
  <2> SUFFICES ASSUME users # "any", NEW f \in Files, OnDisk(f) = "whole" PROVE OnDisk(f)' = "whole"
    OBVIOUS
  <2>1. comp[f] = "whole" /\ InTurns /\ users' = users
    <3>1. users' = users
      BY <1>1 DEF NextBoth, Asks, ChildDoes, Page, Look, SaveOpen, SaveDone, AddStatus, LinkRow,
         Upload, Untouched
    <3>2. comp[f] = "whole"
      BY DEF OnDisk
    <3> QED
      BY <1>1, <3>1, <3>2 DEF StorageInv
  <2>2. InTurns'
    BY <1>1, <2>1 DEF StorageInv
  <2>3. comp'[f] = "whole"
    <3> USE DEF StorageInv, TypeOK, PageTypes, InTurns
    <3>1. ASSUME NEW p \in Procs, Serve(p) PROVE comp'[f] = "whole"
      <4>1. CASE comp' = comp
        BY <2>1, <4>1
      <4>2. CASE Merge(p)
        <5>1. file[p] = f => pc[p] \notin {"copy", "flush"}
          BY <2>1 DEF ChildInv, MergeSteps
        <5> QED
          BY <1>1, <2>1, <4>2, <5>1 DEF Merge, LockMerge, MergeCopy, Purge, Flush, Publish, disk
      <4> QED
        BY <3>1, <4>1, <4>2 DEF Serve, FileExist, Create, MakeDir, LockCreate, CfgExists, CreateCfg,
           CreateCfgFailed, InsertStatus, CloseCfg, Select, LockOp, TakeBlock, NoBlockLeft, FoundOver,
           Receive, RecvOpen, RecvOk, RecvFail, Finish, RecordBlock, RecordLast, disk
    <3>2. ASSUME NEW p \in Procs, NEW g \in Files, Asks(p, g) PROVE comp'[f] = "whole"
      BY <2>1, <3>2 DEF Asks, ChildDoes, AddFile, disk
    <3>3. ASSUME NEW s \in Sessions, Page(s) PROVE comp'[f] = "whole"
      BY <1>1, <2>1, <3>3 DEF Page, Look, SaveOpen, SaveDone, AddStatus, LinkRow, PageInv
    <3>4. ASSUME NEW s \in Sessions, NEW g \in Files, NEW k \in Keys, Upload(s, g, k)
          PROVE  comp'[f] = "whole"
      BY <2>1, <3>4 DEF Upload
    <3> QED
      BY <1>1, <3>1, <3>2, <3>3, <3>4 DEF NextBoth, ChildDoes
  <2>4. OnDisk(f)' = "whole"
    BY <2>2, <2>3 DEF InTurns, PageInv, OnDisk
  <2> QED
    BY <2>4
<1>2. StorageInv /\ StorageInv' /\ [NextBoth]_all => [Once]_all
  BY <1>1
<1> QED
  BY <1>2, StorageInvariance, PTL DEF SpecBoth, SavedOnce

\* TakenIsOwned, beside the page and however requests overlap: a block that is
\* marked as taken is with a child (server.cpp:455-456 and 480-495).
THEOREM FlagsKeepOwners == SpecBoth => []TakenIsOwned
<1>1. InitBoth => TakenInv
  BY DEF InitBoth, Init, TakenInv, TakenIsOwned
<1>2. StorageInv /\ StorageInv' /\ TakenInv /\ [NextBoth]_all => TakenInv'
  <2> SUFFICES ASSUME StorageInv, StorageInv', TakenInv, [NextBoth]_all PROVE TakenInv'
    OBVIOUS
  <2>1. TypeOK /\ TypeOK'
    BY DEF StorageInv
  <2>2. CASE Keeping
    BY <2>1, <2>2, TakenStep
  <2>3. ASSUME UNCHANGED <<pc, cfg, flags, locals>> PROVE TakenInv'
    BY <2>3 DEF TakenInv, TakenIsOwned, Receiving, locals
  <2>4. ASSUME NEW s \in Sessions, Page(s) \/ \E f \in Files, k \in Keys : Upload(s, f, k)
        PROVE  UNCHANGED <<pc, cfg, flags, locals>>
    BY <2>4 DEF Page, Look, SaveOpen, SaveDone, AddStatus, LinkRow, Upload, Untouched
  <2>5. UNCHANGED all => UNCHANGED <<pc, cfg, flags, locals>>
    BY DEF all, vars, disk
  <2> QED
    BY <2>2, <2>3, <2>4, <2>5 DEF NextBoth, ChildDoes, Asks, Keeping
<1>3. TakenInv => TakenIsOwned
  BY DEF TakenInv
<1> QED
  BY <1>1, <1>2, <1>3, StorageInvariance, PTL DEF SpecBoth
=============================================================================
