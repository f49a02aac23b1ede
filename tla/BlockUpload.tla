----------------------------- MODULE BlockUpload -----------------------------
(***************************************************************************)
(* The add-file request of Linux_Server/server.cpp (opcode 0x03) for a     *)
(* file.  Every connection is served by a forked child; the children share *)
(* the database (table status: one row per MD5; table file: one row per    *)
(* user and path), the directory upload/<md5> with its cfg (one flag byte  *)
(* per block), the finished contents under /root/files, and three lock     *)
(* files taken with fcntl(F_SETLKW).  One request uploads at most one      *)
(* block: the client repeats it until it is told that the file exists.     *)
(*                                                                         *)
(* An action is a piece of the handler between two points where another    *)
(* child may step in: a database statement, a lock, a file operation whose *)
(* result others can see, or a wait for the socket.                        *)
(***************************************************************************)
EXTENDS Integers, Sequences, FiniteSets

CONSTANTS
  Procs,      \* the children that may be alive at once
  Files,      \* contents, named by their MD5
  Keys,       \* (user, virtual path) pairs
  NoProc, NoFile, NoKey,
  FileSize,   \* FileSize[f]: the length in bytes the client announces
  BLOCKSIZE,  \* 1024*1024 in the code
  Overlap,    \* may a request for f arrive while an addFile is still
              \* inside createConfig for f?
  KillAt,     \* the points at which a child may die
  RestartAt,  \* where the children may be when the machine goes down
  Orphans     \* may main be restarted while its children live on?

Free == 0     \* flag byte: nobody has this block
Taken == 1    \* flag byte: handed to a client
Over == -1    \* flag byte: received and checked

Absent == -1  \* Query_Md5_Statu: no row
Stored == 1
Uploading == 2

Locks == {"create", "op", "merge"}
CreateSteps == {"mkdir", "lockCreate", "create", "insert", "close"}
Labels == CreateSteps \union
          {"idle", "link", "lockOp", "pick", "recv", "recving", "record",
           "lockMerge", "copy", "purge", "flush", "publish"}

ASSUME SizesAssumption == /\ FileSize \in [Files -> Nat]
                          /\ BLOCKSIZE \in Nat \ {0}
ASSUME NamesAssumption == /\ NoProc \notin Procs
                          /\ NoFile \notin Files
                          /\ NoKey \notin Keys
                          /\ {"none", "good"} \cap Procs = {}
ASSUME FaultsAssumption == /\ {Overlap, Orphans} \subseteq BOOLEAN
                           /\ KillAt \subseteq Labels \ {"idle"}
                           /\ RestartAt \subseteq Labels

VARIABLES
  pc,        \* where each child is; an idle child is not running
  lock,      \* the holder of each lock file
  status,    \* table status
  rows,      \* table file, restricted to files
  dir,       \* does upload/<md5> exist?
  cfg,       \* does upload/<md5>/cfg exist?
  flags,     \* its bytes on disk
  blocks,    \* upload/<md5>/<i>: none, last opened by a child, or good
  comp,      \* /root/files/<md5>: none, partial, buffered (all written but
             \* the tail still in the stream's buffer), whole
  file, key, \* the request a child serves
  blockNum, fileL, received,   \* selectBlock's locals
  sent       \* the integers a child has replied to its client

db == <<status, rows>>
disk == <<dir, cfg, flags, blocks, comp>>
locals == <<file, key, blockNum, fileL, received>>
vars == <<pc, lock, db, disk, locals, sent>>

-----------------------------------------------------------------------------
(* Pure parts *)

\* (fileSize - 1) / (1024*1024) + 1 with C's truncating division.
BlockNum(f) == IF FileSize[f] = 0 THEN 1 ELSE (FileSize[f] - 1) \div BLOCKSIZE + 1

Block(f) == 0 .. BlockNum(f) - 1

\* The write of one byte at offset b of a file: a gap reads as zeros.
WriteAt(s, b, v) ==
  [i \in 1 .. (IF Len(s) > b THEN Len(s) ELSE b + 1) |->
     IF i = b + 1 THEN v ELSE IF i <= Len(s) THEN s[i] ELSE Free]

FreeFlags(s) == {i \in DOMAIN s : s[i] = Free}

Mutant_AllOver(s) == FreeFlags(s) = {}

\* overmark: no byte differs from -1.
AllOver(s) == \A i \in DOMAIN s : s[i] = Over

\* The first zero byte, as a block number.
FirstFree(s) == (CHOOSE i \in FreeFlags(s) : \A j \in FreeFlags(s) : i <= j) - 1

\* overNum: n reads of one byte each; a read past the end leaves the
\* variable at the last byte read, or at its initial value v.
OverNum(s, n, v) ==
  LET last == IF s = <<>> THEN v ELSE s[Len(s)]
  IN  Cardinality({i \in 1 .. n : (IF i <= Len(s) THEN s[i] ELSE last) = Over})

-----------------------------------------------------------------------------
(* Control *)

Goto(p, l) == pc' = [pc EXCEPT ![p] = l]
Reply(p, m) == sent' = [sent EXCEPT ![p] = Append(@, m)]

\* fcntl(F_SETLKW): granted when free, or already this process's own.
CanLock(p, l) == lock[l] \in {NoProc, p}
Lock(p, l) == CanLock(p, l) /\ lock' = [lock EXCEPT ![l] = p]
Unlock(l) == lock' = [lock EXCEPT ![l] = NoProc]

\* A child that ends drops its locks with its file descriptors.
Exit(p) == /\ Goto(p, "idle")
           /\ lock' = [l \in Locks |-> IF lock[l] = p THEN NoProc ELSE lock[l]]
           /\ file' = [file EXCEPT ![p] = NoFile]
           /\ key' = [key EXCEPT ![p] = NoKey]
           /\ blockNum' = [blockNum EXCEPT ![p] = -3]
           /\ fileL' = [fileL EXCEPT ![p] = 0]
           /\ received' = [received EXCEPT ![p] = FALSE]

\* A child inside the createConfig that addFile (not selectBlock) called.
Opening(p, f) == file[p] = f /\ pc[p] \in CreateSteps /\ lock["op"] # p

Init == /\ pc = [p \in Procs |-> "idle"]
        /\ lock = [l \in Locks |-> NoProc]
        /\ status = [f \in Files |-> Absent]
        /\ rows = [k \in Keys |-> NoFile]
        /\ dir = [f \in Files |-> FALSE]
        /\ cfg = [f \in Files |-> FALSE]
        /\ flags = [f \in Files |-> <<>>]
        /\ blocks = [f \in Files |-> [b \in Block(f) |-> "none"]]
        /\ comp = [f \in Files |-> "none"]
        /\ file = [p \in Procs |-> NoFile]
        /\ key = [p \in Procs |-> NoKey]
        /\ blockNum = [p \in Procs |-> -3]
        /\ fileL = [p \in Procs |-> 0]
        /\ received = [p \in Procs |-> FALSE]
        /\ sent = [p \in Procs |-> <<>>]

-----------------------------------------------------------------------------
(* addFile and fileExist *)

Mutant_Dispatch(s) == IF s = Absent THEN "mkdir" ELSE "link"

\* The switch on the status that addFile has read.
Dispatch(s) == CASE s = Absent    -> "mkdir"
                 [] s = Stored    -> "link"
                 [] s = Uploading -> "lockOp"

\* A new connection: the request is read, then the status of its content.
AddFile(p, f, k) ==
  /\ pc[p] = "idle"
  /\ Overlap \/ \A q \in Procs : ~Opening(q, f)
  /\ file' = [file EXCEPT ![p] = f]
  /\ key' = [key EXCEPT ![p] = k]
  /\ sent' = [sent EXCEPT ![p] = <<>>]
  /\ Goto(p, Dispatch(status[f]))
  /\ UNCHANGED <<lock, db, disk, blockNum, fileL, received>>

\* The content is there: the INSERT of the row fails on a path in use.
FileExist(p) ==
  /\ pc[p] = "link"
  /\ IF rows[key[p]] = NoFile
       THEN rows' = [rows EXCEPT ![key[p]] = file[p]] /\ Reply(p, -2)
       ELSE UNCHANGED rows /\ Reply(p, -1)
  /\ Exit(p)
  /\ UNCHANGED <<status, disk>>

-----------------------------------------------------------------------------
(* createConfig *)

MakeDir(p) ==
  /\ pc[p] = "mkdir"
  /\ dir' = [dir EXCEPT ![file[p]] = TRUE]
  /\ Goto(p, "lockCreate")
  /\ UNCHANGED <<lock, db, cfg, flags, blocks, comp, locals, sent>>

LockCreate(p) ==
  /\ pc[p] = "lockCreate"
  /\ Lock(p, "create")
  /\ Goto(p, "create")
  /\ UNCHANGED <<db, disk, locals, sent>>

\* Where createConfig returns to: selectBlock holds the op lock, addFile
\* has yet to call selectBlock.
AfterCreate(p) == IF lock["op"] = p THEN "pick" ELSE "lockOp"

\* Another child has created the cfg.
CfgExists(p) ==
  /\ pc[p] = "create"
  /\ cfg[file[p]]
  /\ Unlock("create")
  /\ Goto(p, AfterCreate(p))
  /\ UNCHANGED <<db, disk, locals, sent>>

CreateCfg(p) ==
  /\ pc[p] = "create"
  /\ ~cfg[file[p]]
  /\ dir[file[p]]
  /\ cfg' = [cfg EXCEPT ![file[p]] = TRUE]
  /\ Goto(p, "insert")
  /\ UNCHANGED <<lock, db, dir, flags, blocks, comp, locals, sent>>

\* The directory is gone: `return -1`, without the unlock of line 336; both
\* callers go on as if nothing had happened.
CreateCfgFailed(p) ==
  /\ pc[p] = "create"
  /\ ~cfg[file[p]]
  /\ ~dir[file[p]]
  /\ Goto(p, AfterCreate(p))
  /\ UNCHANGED <<lock, db, disk, locals, sent>>

Mutant_InsertStatus(p) ==
  /\ pc[p] = "insert"
  /\ status' = [status EXCEPT ![file[p]] = Uploading]
  /\ Goto(p, "close")
  /\ UNCHANGED <<lock, rows, disk, locals, sent>>

\* Insert_Md5_Statu(md5, "2"): fails on a row that is there.
InsertStatus(p) ==
  /\ pc[p] = "insert"
  /\ status' = [status EXCEPT ![file[p]] = IF @ = Absent THEN Uploading ELSE @]
  /\ Goto(p, "close")
  /\ UNCHANGED <<lock, rows, disk, locals, sent>>

Mutant_CloseCfg(p) ==
  LET f == file[p] IN
  /\ pc[p] = "close"
  /\ flags' = [flags EXCEPT ![f] =
                 IF cfg[f] THEN [i \in 1 .. BlockNum(f) |-> Free] ELSE @]
  /\ Goto(p, AfterCreate(p))
  /\ UNCHANGED <<lock, db, dir, cfg, blocks, comp, locals, sent>>

\* file.close() writes the buffered zeros out, to a file that may have been
\* removed since; then the lock is released.
CloseCfg(p) ==
  LET f == file[p] IN
  /\ pc[p] = "close"
  /\ flags' = [flags EXCEPT ![f] =
                 IF cfg[f] THEN [i \in 1 .. BlockNum(f) |-> Free] ELSE @]
  /\ Unlock("create")
  /\ Goto(p, AfterCreate(p))
  /\ UNCHANGED <<db, dir, cfg, blocks, comp, locals, sent>>

-----------------------------------------------------------------------------
(* selectBlock, up to the reply with the block number *)

LockOp(p) ==
  /\ pc[p] = "lockOp"
  /\ Lock(p, "op")
  /\ Goto(p, IF cfg[file[p]] THEN "pick" ELSE "mkdir")
  /\ UNCHANGED <<db, disk, locals, sent>>

\* get_file_size(cfg): -1 when there is none.
CfgSize(f) == IF cfg[f] THEN Len(flags[f]) ELSE -1

Mutant_TakeBlock(p) ==
  LET f == file[p]
      b == FirstFree(flags[f]) IN
  /\ pc[p] = "pick"
  /\ FreeFlags(flags[f]) # {}
  /\ fileL' = [fileL EXCEPT ![p] = CfgSize(f)]
  /\ blockNum' = [blockNum EXCEPT ![p] = b]
  /\ Unlock("op")
  /\ Reply(p, b)
  /\ Goto(p, "recv")
  /\ UNCHANGED <<db, disk, file, key, received>>

Mutant_OneBased(p) ==
  LET f == file[p]
      b == FirstFree(flags[f]) + 1 IN
  /\ pc[p] = "pick"
  /\ FreeFlags(flags[f]) # {}
  /\ flags' = [flags EXCEPT ![f] = WriteAt(@, b - 1, Taken)]
  /\ fileL' = [fileL EXCEPT ![p] = CfgSize(f)]
  /\ blockNum' = [blockNum EXCEPT ![p] = b]
  /\ Unlock("op")
  /\ Reply(p, b)
  /\ Goto(p, "recv")
  /\ UNCHANGED <<db, dir, cfg, blocks, comp, file, key, received>>

\* The first free block becomes this child's.
TakeBlock(p) ==
  LET f == file[p]
      b == FirstFree(flags[f]) IN
  /\ pc[p] = "pick"
  /\ FreeFlags(flags[f]) # {}
  /\ flags' = [flags EXCEPT ![f] = WriteAt(@, b, Taken)]
  /\ fileL' = [fileL EXCEPT ![p] = CfgSize(f)]
  /\ blockNum' = [blockNum EXCEPT ![p] = b]
  /\ Unlock("op")
  /\ Reply(p, b)
  /\ Goto(p, "recv")
  /\ UNCHANGED <<db, dir, cfg, blocks, comp, file, key, received>>

Mutant_NoBlockLeft(p) ==
  /\ pc[p] = "pick"
  /\ FreeFlags(flags[file[p]]) = {}
  /\ ~AllOver(flags[file[p]])
  /\ Goto(p, "lockOp")
  /\ UNCHANGED <<lock, db, disk, locals, sent>>

\* All blocks are with other clients: come back later (-3).
NoBlockLeft(p) ==
  /\ pc[p] = "pick"
  /\ FreeFlags(flags[file[p]]) = {}
  /\ ~AllOver(flags[file[p]])
  /\ Reply(p, -3)
  /\ Exit(p)
  /\ UNCHANGED <<db, disk>>

\* overmark: every byte read was -1, or there was no byte to read.
FoundOver(p) ==
  /\ pc[p] = "pick"
  /\ AllOver(flags[file[p]])
  /\ fileL' = [fileL EXCEPT ![p] = CfgSize(file[p])]
  /\ Unlock("op")
  /\ Goto(p, "lockMerge")
  /\ UNCHANGED <<db, disk, file, key, blockNum, received, sent>>

-----------------------------------------------------------------------------
(* recvFile, and the second half of selectBlock *)

\* The size has arrived: the block's file is opened and truncated, unless
\* its directory is gone (the stream is not tested).
RecvOpen(p) ==
  LET f == file[p] IN
  /\ pc[p] = "recv"
  /\ blocks' = [blocks EXCEPT ![f][blockNum[p]] = IF dir[f] THEN p ELSE @]
  /\ Goto(p, "recving")
  /\ UNCHANGED <<lock, db, dir, cfg, flags, comp, locals, sent>>

\* All bytes and a digest that fits.  What the block's file holds is what
\* the child that opened it last has written.
RecvOk(p) ==
  LET f == file[p] IN
  /\ pc[p] = "recving"
  /\ blocks' = [blocks EXCEPT ![f][blockNum[p]] = IF @ = p THEN "good" ELSE @]
  /\ received' = [received EXCEPT ![p] = TRUE]
  /\ Goto(p, "record")
  /\ UNCHANGED <<lock, db, dir, cfg, flags, comp, file, key, blockNum, fileL, sent>>

Mutant_RecvFail(p) ==
  /\ pc[p] \in {"recv", "recving"}
  /\ received' = [received EXCEPT ![p] = TRUE]
  /\ Goto(p, "record")
  /\ UNCHANGED <<lock, db, disk, file, key, blockNum, fileL, sent>>

\* The connection ends early or the digest differs.
RecvFail(p) ==
  /\ pc[p] \in {"recv", "recving"}
  /\ Goto(p, "record")
  /\ UNCHANGED <<lock, db, disk, locals, sent>>

Mutant_Recorded(p) ==
  LET f == file[p] IN
  IF cfg[f] /\ received[p] THEN WriteAt(flags[f], blockNum[p], Over)
  ELSE flags[f]

\* The cfg after this child's block has been written down as over or free.
Recorded(p) ==
  LET f == file[p] IN
  IF cfg[f] THEN WriteAt(flags[f], blockNum[p], IF received[p] THEN Over ELSE Free)
  ELSE flags[f]

\* The number of finished blocks counted from it.
Counted(p) == OverNum(Recorded(p), fileL[p], IF received[p] THEN 0 ELSE -1)

Record(p) ==
  /\ pc[p] = "record"
  /\ CanLock(p, "op")
  /\ flags' = [flags EXCEPT ![file[p]] = Recorded(p)]

\* Under one hold of the op lock: write the flag, count, unlock.
RecordBlock(p) ==
  /\ Record(p)
  /\ Counted(p) # fileL[p]
  /\ Reply(p, Counted(p))
  /\ Exit(p)
  /\ UNCHANGED <<db, dir, cfg, blocks, comp>>

Mutant_RecordLast(p) ==
  /\ Record(p)
  /\ Counted(p) = fileL[p]
  /\ Reply(p, Counted(p))
  /\ Goto(p, "lockMerge")
  /\ Unlock("op")
  /\ UNCHANGED <<db, dir, cfg, blocks, comp, locals>>

\* The count is complete: mergeFile comes before the reply.
RecordLast(p) ==
  /\ Record(p)
  /\ Counted(p) = fileL[p]
  /\ Goto(p, "lockMerge")
  /\ Unlock("op")
  /\ UNCHANGED <<db, dir, cfg, blocks, comp, locals, sent>>

-----------------------------------------------------------------------------
(* mergeFile *)

Mutant_LockMerge(p) ==
  LET f == file[p] IN
  /\ pc[p] = "lockMerge"
  /\ Lock(p, "merge")
  /\ comp' = [comp EXCEPT ![f] = "partial"] /\ Goto(p, "copy")
  /\ UNCHANGED <<db, dir, cfg, flags, blocks, locals, sent>>

\* The content's file is created empty, unless it is there.
LockMerge(p) ==
  LET f == file[p] IN
  /\ pc[p] = "lockMerge"
  /\ Lock(p, "merge")
  /\ IF comp[f] = "none"
       THEN comp' = [comp EXCEPT ![f] = "partial"] /\ Goto(p, "copy")
       ELSE UNCHANGED comp /\ Goto(p, "publish")
  /\ UNCHANGED <<db, dir, cfg, flags, blocks, locals, sent>>

\* The blocks 0..fileL-1 are appended in order; an insertion that fails (no
\* such block) disables those after it.
MergeCopy(p) ==
  LET f == file[p] IN
  /\ pc[p] = "copy"
  /\ comp' = [comp EXCEPT ![f] =
                IF fileL[p] = BlockNum(f) /\ \A b \in Block(f) : blocks[f][b] = "good"
                THEN "buffered" ELSE @]
  /\ Goto(p, "purge")
  /\ UNCHANGED <<lock, db, dir, cfg, flags, blocks, locals, sent>>

Mutant_Purge(p) ==
  LET f == file[p] IN
  /\ pc[p] = "purge"
  /\ blocks' = [blocks EXCEPT ![f] = [b \in Block(f) |-> "none"]]
  /\ Goto(p, "flush")
  /\ UNCHANGED <<lock, db, dir, cfg, flags, comp, locals, sent>>

\* rm -rf upload/<md5>
Purge(p) ==
  LET f == file[p] IN
  /\ pc[p] = "purge"
  /\ dir' = [dir EXCEPT ![f] = FALSE]
  /\ cfg' = [cfg EXCEPT ![f] = FALSE]
  /\ flags' = [flags EXCEPT ![f] = <<>>]
  /\ blocks' = [blocks EXCEPT ![f] = [b \in Block(f) |-> "none"]]
  /\ Goto(p, "flush")
  /\ UNCHANGED <<lock, db, comp, locals, sent>>

\* The scope of compF ends: the stream is flushed and closed.
Flush(p) ==
  /\ pc[p] = "flush"
  /\ comp' = [comp EXCEPT ![file[p]] = IF @ = "buffered" THEN "whole" ELSE @]
  /\ Goto(p, "publish")
  /\ UNCHANGED <<lock, db, dir, cfg, flags, blocks, locals, sent>>

\* Update_Md5_Statu(md5, "1") changes the row if there is one; then the
\* reply: the block number found by the scan (-3), or the count.
Publish(p) ==
  LET f == file[p] IN
  /\ pc[p] = "publish"
  /\ status' = [status EXCEPT ![f] = IF @ = Absent THEN @ ELSE Stored]
  /\ Reply(p, IF blockNum[p] = -3 THEN -3 ELSE fileL[p])
  /\ Exit(p)
  /\ UNCHANGED <<rows, disk>>

-----------------------------------------------------------------------------
(* Faults *)

\* A buffered tail dies with the process that holds it.
Lost(c) == IF c = "buffered" THEN "partial" ELSE c

\* A child dies: SIGPIPE on a closed socket, a kill, lack of memory.
Kill(p) ==
  /\ pc[p] \in KillAt
  /\ comp' = IF pc[p] \in {"purge", "flush"}
             THEN [comp EXCEPT ![file[p]] = Lost(@)] ELSE comp
  /\ Exit(p)
  /\ UNCHANGED <<db, dir, cfg, flags, blocks, sent>>

\* The machine goes down and main starts again: rm -rf upload/, new lock
\* files.  The database and /root/files stay.
Restart ==
  /\ \A p \in Procs : pc[p] \in RestartAt
  /\ comp' = [f \in Files |-> Lost(comp[f])]
  /\ pc' = [p \in Procs |-> "idle"]
  /\ lock' = [l \in Locks |-> NoProc]
  /\ dir' = [f \in Files |-> FALSE]
  /\ cfg' = [f \in Files |-> FALSE]
  /\ flags' = [f \in Files |-> <<>>]
  /\ blocks' = [f \in Files |-> [b \in Block(f) |-> "none"]]
  /\ file' = [p \in Procs |-> NoFile]
  /\ key' = [p \in Procs |-> NoKey]
  /\ blockNum' = [p \in Procs |-> -3]
  /\ fileL' = [p \in Procs |-> 0]
  /\ received' = [p \in Procs |-> FALSE]
  /\ sent' = [p \in Procs |-> <<>>]
  /\ UNCHANGED db

\* Only main is killed and started again: its rm -rf upload/ comes under the
\* feet of the children, whose locks survive (the lock files are truncated,
\* not replaced).
RestartMain ==
  /\ Orphans
  /\ dir' = [f \in Files |-> FALSE]
  /\ cfg' = [f \in Files |-> FALSE]
  /\ flags' = [f \in Files |-> <<>>]
  /\ blocks' = [f \in Files |-> [b \in Block(f) |-> "none"]]
  /\ UNCHANGED <<pc, lock, db, comp, locals, sent>>

-----------------------------------------------------------------------------
Create(p) == \/ MakeDir(p) \/ LockCreate(p) \/ CfgExists(p) \/ CreateCfg(p)
             \/ CreateCfgFailed(p) \/ InsertStatus(p) \/ CloseCfg(p)

Select(p) == LockOp(p) \/ TakeBlock(p) \/ NoBlockLeft(p) \/ FoundOver(p)

Receive(p) == RecvOpen(p) \/ RecvOk(p) \/ RecvFail(p)

Finish(p) == RecordBlock(p) \/ RecordLast(p)

Merge(p) == LockMerge(p) \/ MergeCopy(p) \/ Purge(p) \/ Flush(p) \/ Publish(p)

\* What a child does once its request is in.
Serve(p) == FileExist(p) \/ Create(p) \/ Select(p) \/ Receive(p) \/ Finish(p) \/ Merge(p)

Next == \/ \E p \in Procs : \/ \E f \in Files, k \in Keys : AddFile(p, f, k)
                            \/ Serve(p)
                            \/ Kill(p)
        \/ Restart
        \/ RestartMain

Spec == Init /\ [][Next]_vars

-----------------------------------------------------------------------------
(* Fairness.  Children are scheduled by the kernel, which serves the calls  *)
(* of F_SETLKW blocked on a lock in turn, and every client either sends     *)
(* what it announced or drops the connection (recv has no timeout).  A      *)
(* child that waits for a lock waits at one place: strong fairness of all   *)
(* it can do says no more than that it is not passed over for ever.         *)
Fairness == \A p \in Procs : SF_vars(Serve(p))

FairSpec == Spec /\ Fairness

\* Clients that want f keep asking, and a transfer that is tried again and
\* again gets through once.
ClientFairness ==
  \A p \in Procs : /\ \A f \in Files : SF_vars(\E k \in Keys : AddFile(p, f, k))
                   /\ SF_vars(RecvOpen(p))
                   /\ SF_vars(RecvOk(p))

-----------------------------------------------------------------------------
(* Correctness *)

\* Every variable keeps its type; in particular a block number handed out
\* is a block of the file (selectBlock's scan, server.cpp:449-459).
TypeOK ==
  /\ pc \in [Procs -> Labels]
  /\ lock \in [Locks -> Procs \union {NoProc}]
  /\ status \in [Files -> {Absent, Stored, Uploading}]
  /\ rows \in [Keys -> Files \union {NoFile}]
  /\ dir \in [Files -> BOOLEAN]
  /\ cfg \in [Files -> BOOLEAN]
  /\ \A f \in Files : flags[f] \in Seq({Free, Taken, Over}) /\ Len(flags[f]) <= BlockNum(f)
  /\ DOMAIN flags = Files
  /\ DOMAIN blocks = Files
  /\ \A f \in Files : blocks[f] \in [Block(f) -> {"none", "good"} \union Procs]
  /\ comp \in [Files -> {"none", "partial", "buffered", "whole"}]
  /\ file \in [Procs -> Files \union {NoFile}]
  /\ key \in [Procs -> Keys \union {NoKey}]
  /\ blockNum \in [Procs -> Int]
  /\ fileL \in [Procs -> Int]
  /\ received \in [Procs -> BOOLEAN]
  /\ sent \in [Procs -> Seq(Int)]
  /\ \A p \in Procs :
       /\ pc[p] # "idle" => file[p] \in Files /\ key[p] \in Keys
       /\ pc[p] \in {"recv", "recving", "record"} => blockNum[p] \in Block(file[p])

Receiving(p) == pc[p] \in {"recv", "recving", "record"}

\* Until its content is assembled, no block is in the hands of two children
\* (the scan and the flag byte 1 under the op lock, server.cpp:434-461).
ExclusiveBlock ==
  \A p, q \in Procs :
    /\ p # q /\ Receiving(p) /\ Receiving(q)
    /\ file[p] = file[q] /\ comp[file[p]] = "none"
    => blockNum[p] # blockNum[q]

\* A content whose status says that it is there is there, byte for byte:
\* mergeFile's status update (server.cpp:418) comes only after a copy of all
\* blocks has reached the disk.
PublishedWhole == \A f \in Files : status[f] = Stored => comp[f] = "whole"

\* As long as the content is not being assembled, a flag byte -1 stands for
\* a block that is on disk as the client sent it (server.cpp:482-485).
OverIsGood ==
  \A f \in Files : comp[f] = "none" =>
    \A i \in DOMAIN flags[f] : flags[f][i] = Over => blocks[f][i - 1] = "good"

\* A flag byte 1 belongs to a child that is still receiving that block; a
\* flag nobody owns would keep the block from every later client
\* (server.cpp:455-456 and 480-495).
TakenIsOwned ==
  \A f \in Files : \A i \in DOMAIN flags[f] : flags[f][i] = Taken =>
    \E p \in Procs : Receiving(p) /\ file[p] = f /\ blockNum[p] = i - 1

\* A row of table file names only a content that can be downloaded
\* (fileExist is reached from status 1 only, server.cpp:558-559).
LinkedIsWhole ==
  \A k \in Keys : rows[k] # NoFile => status[rows[k]] = Stored /\ comp[rows[k]] = "whole"

\* What a child blocked on a lock waits for.
WaitsFor(p) == CASE pc[p] = "lockCreate" -> {"create"}
                 [] pc[p] \in {"lockOp", "record"} -> {"op"}
                 [] pc[p] = "lockMerge" -> {"merge"}
                 [] OTHER -> {}

\* No two children wait for one another's lock (createConfig is called
\* under the op lock at server.cpp:439 and takes the create lock).
NoLockCycle ==
  \A p, q \in Procs :
    ~ (p # q /\ (\E l \in WaitsFor(p) : lock[l] = q) /\ (\E l \in WaitsFor(q) : lock[l] = p))

\* A finished content is never touched again, by a late merge, a second
\* upload of the same content, a kill or a restart (server.cpp:402).
WholeStaysWhole ==
  [][\A f \in Files : comp[f] = "whole" => comp'[f] = "whole"]_vars

\* The status of a content only moves from none to uploading to stored
\* (server.cpp:332 and 418).
StatusForward ==
  [][\A f \in Files : /\ status[f] = Uploading => status'[f] # Absent
                      /\ status[f] = Stored => status'[f] = Stored
                      /\ status[f] = Absent => status'[f] # Stored]_vars

\* Progress is kept: a block recorded as received is not asked for again
\* while the upload directory lives (server.cpp:480-495 against 453-456).
OverStaysOver ==
  [][\A f \in Files : comp[f] = "none" /\ cfg'[f] =>
       \A i \in DOMAIN flags[f] : flags[f][i] = Over =>
         i \in DOMAIN flags'[f] /\ flags'[f][i] = Over]_vars

\* A client told that all blocks are finished finds the content stored:
\* mergeFile comes before the reply (server.cpp:509-512).
CompleteReplyMeansStored ==
  [][\A p \in Procs : \A f \in Files :
       file[p] = f /\ Len(sent[p]) = 1 /\ sent'[p] = Append(sent[p], BlockNum(f))
         => status'[f] = Stored]_vars

\* Every request ends: no child waits for ever (server.cpp:307, 434, 476
\* and 397 are the waits).
EveryRequestEnds == \A p \in Procs : pc[p] # "idle" ~> pc[p] = "idle"

\* An upload that clients keep working on is completed (the block loop over
\* connections: server.cpp:449-459, 480-509).
UploadCompletes == \A f \in Files : status[f] = Uploading ~> status[f] = Stored

\* When requests follow one another, a content that is stored has left nothing
\* in upload/ once its last child has ended (mergeFile removes the directory
\* only if it copied: server.cpp:402-417).
NoLeftover ==
  (\A p \in Procs : pc[p] = "idle") =>
    \A f \in Files : status[f] = Stored => ~ dir[f] /\ blocks[f] = [b \in Block(f) |-> "none"]

\* The service as its users see it: see ContentStore.
StoreOf(f) == CASE status[f] = Absent    -> "absent"
                [] status[f] = Uploading -> "uploading"
                [] OTHER -> IF comp[f] = "whole" THEN "stored" ELSE "torn"

Store == INSTANCE ContentStore WITH store <- [f \in Files |-> StoreOf(f)], links <- rows

\* The handlers implement the abstract store (addFile to mergeFile,
\* server.cpp:285-574): contents become stored only whole, and paths are
\* linked only to stored contents.
ImplementsStore == Store!Spec
=============================================================================
