------------------------ MODULE BlockUploadInvariant ------------------------
(***************************************************************************)
(* The inductive invariants behind the theorems.  CrashInv holds however   *)
(* requests overlap and whatever dies, as long as main is not restarted    *)
(* over living children.  IInv holds when a request for f does not arrive  *)
(* inside another one's first createConfig for f, and when no child dies,  *)
(* and no restart comes, between the creation of a cfg and the writing of  *)
(* its bytes or in the middle of a merge.                                  *)
(***************************************************************************)
EXTENDS BlockUpload

MergeSteps == {"copy", "purge", "flush"}

SafeFaults == /\ ~Overlap /\ ~Orphans
              /\ KillAt \cap (MergeSteps \union {"insert", "close"}) = {}
              /\ RestartAt \cap MergeSteps = {}

\* Whatever fails: a child that merges holds the merge lock, and what it
\* merges is not finished.
MergeLockInv ==
  \A p \in Procs :
    /\ pc[p] \in MergeSteps \union {"publish"} => lock["merge"] = p
    /\ pc[p] \in MergeSteps => comp[file[p]] \in {"partial", "buffered"}

\* A cfg lies in its directory and has bytes only while it is there; a child
\* that makes one holds the create lock, and nobody has written to it.
KeptInv ==
  /\ \A f \in Files : /\ cfg[f] => dir[f]
                      /\ ~cfg[f] => flags[f] = <<>>
  /\ \A p \in Procs :
       /\ pc[p] \in {"create", "insert", "close"} => lock["create"] = p
       /\ pc[p] \in {"insert", "close"} /\ comp[file[p]] = "none" => flags[file[p]] = <<>>

\* A child that has received a block is recording it, or merges.
ReceivedInv ==
  \A p \in Procs :
    received[p] => pc[p] \in {"record", "lockMerge", "publish"} \union MergeSteps

\* Block b of f is marked as taken, is with child p alone, and has on disk what
\* p has written so far.
Holds(p, f, b) ==
  /\ b + 1 \in DOMAIN flags[f] /\ flags[f][b + 1] = Taken
  /\ pc[p] = "recving" => blocks[f][b] = p
  /\ pc[p] = "record" /\ received[p] => blocks[f][b] = "good"
  /\ \A q \in Procs : Receiving(q) /\ q # p /\ file[q] = f => blockNum[q] # b

\* Whatever fails: a child holds the block it receives, until the content is
\* being assembled.
HandInv ==
  /\ ReceivedInv
  /\ \A p \in Procs, f \in Files :
       Receiving(p) /\ file[p] = f /\ comp[f] = "none" => Holds(p, f, blockNum[p])
  /\ OverIsGood

CrashInv == TypeOK /\ MergeLockInv /\ KeptInv /\ HandInv

\* All flag bytes of f's cfg are on disk.
Ready(f) == cfg[f] /\ Len(flags[f]) = BlockNum(f)

\* The blocks of f are still needed.
Assembling(f) == comp[f] = "none" \/ \E p \in Procs : pc[p] = "copy" /\ file[p] = f

\* Who holds which lock.
LockInv ==
  \A p \in Procs :
    /\ (lock["create"] = p) <=> (pc[p] \in {"create", "insert", "close"})
    /\ lock["op"] = p => pc[p] \in CreateSteps \union {"pick"}
    /\ pc[p] = "pick" => lock["op"] = p
    /\ (lock["merge"] = p) <=> (pc[p] \in MergeSteps \union {"publish"})

\* A child that opens f is alone on f; one that is not running serves none.
OpeningInv ==
  \A p \in Procs :
    /\ pc[p] = "idle" => file[p] = NoFile
    /\ \A q \in Procs, f \in Files : Opening(p, f) /\ p # q => file[q] # f

\* Where the status of a child's content may still be Absent.
Unregistered == {"idle", "mkdir", "lockCreate", "create", "insert"}

\* What the status of f says of the children that serve f.
StatusInv ==
  /\ \A f \in Files : status[f] = Absent =>
       /\ comp[f] = "none"
       /\ cfg[f] => \E p \in Procs : file[p] = f /\ pc[p] = "insert"
  /\ \A p \in Procs : /\ pc[p] = "link" => status[file[p]] = Stored
                      /\ pc[p] \notin Unregistered \/ lock["op"] = p
                         => status[file[p]] # Absent

\* The cfg of f through createConfig.
CfgInv ==
  /\ \A f \in Files : /\ cfg[f] => dir[f]
                      /\ ~cfg[f] => flags[f] = <<>>
                      /\ cfg[f] => \/ Ready(f)
                                   \/ \E p \in Procs : /\ file[p] = f
                                                       /\ pc[p] \in {"insert", "close"}
  /\ \A p \in Procs :
       /\ pc[p] \in {"mkdir", "lockCreate", "create"} => ~cfg[file[p]]
       /\ pc[p] \in {"lockCreate", "create"} => dir[file[p]]
       /\ pc[p] \in {"insert", "close"} => cfg[file[p]] /\ flags[file[p]] = <<>>
       /\ pc[p] = "pick" /\ comp[file[p]] = "none" => Ready(file[p])

\* A block on its way from a client to the cfg.
BlockInv ==
  /\ \A p \in Procs :
       received[p] => pc[p] \in {"record", "lockMerge", "publish"} \union MergeSteps
  /\ \A p \in Procs :
       Receiving(p) /\ Assembling(file[p]) =>
         LET f == file[p] b == blockNum[p] IN
         /\ Ready(f)
         /\ fileL[p] = BlockNum(f)
         /\ flags[f][b + 1] = Taken
         /\ pc[p] = "recving" => blocks[f][b] = p
         /\ pc[p] = "record" /\ received[p] => blocks[f][b] = "good"
         /\ \A q \in Procs : Receiving(q) /\ q # p /\ file[q] = f => blockNum[q] # b
  /\ \A f \in Files : Assembling(f) =>
       \A i \in DOMAIN flags[f] : flags[f][i] = Over => blocks[f][i - 1] = "good"

\* The number of bytes a child found in the cfg is the number of blocks.
CountInv == \A p \in Procs : Receiving(p) => fileL[p] = BlockNum(file[p])

\* The content of f through mergeFile.
MergeInv ==
  /\ \A p \in Procs :
       LET f == file[p] IN
       /\ \/ pc[p] = "copy"
          \/ pc[p] = "lockMerge" /\ comp[f] = "none"
          => Ready(f) /\ AllOver(flags[f]) /\ fileL[p] = BlockNum(f)
       /\ pc[p] = "purge" => Ready(f)
       /\ pc[p] = "copy" => comp[f] = "partial"
       /\ pc[p] \in {"purge", "flush"} => comp[f] = "buffered"
       /\ pc[p] = "publish" => comp[f] = "whole"
  /\ \A f \in Files : comp[f] \in {"partial", "buffered"} =>
       \E p \in Procs : file[p] = f /\ pc[p] \in MergeSteps
  /\ \A f \in Files : status[f] = Stored => comp[f] = "whole"
  /\ \A k \in Keys : rows[k] # NoFile => status[rows[k]] = Stored

IInv == /\ TypeOK /\ LockInv /\ OpeningInv /\ StatusInv
        /\ CfgInv /\ BlockInv /\ CountInv /\ MergeInv
=============================================================================
