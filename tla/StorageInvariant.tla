-------------------------- MODULE StorageInvariant --------------------------
(***************************************************************************)
(* The inductive invariant behind Storage's theorems: what the page and    *)
(* the children leave one another when requests for one content take turns.*)
(***************************************************************************)
EXTENDS Storage, BlockUploadInvariant

PageTypes ==
  /\ wpc \in [Sessions -> {"idle", "look", "save", "saving", "status", "link"}]
  /\ wfile \in [Sessions -> Files \union {NoFile}]
  /\ wkey \in [Sessions -> Keys \union {NoKey}]
  /\ \A s \in Sessions : IF wpc[s] = "idle" THEN wfile[s] = NoFile
                         ELSE wfile[s] \in Files /\ wkey[s] \in Keys
  /\ \A p \in Procs : pc[p] = "idle" => file[p] = NoFile

\* One request at a time serves a content.
TurnsInv ==
  /\ \A p, q \in Procs : file[p] # NoFile /\ file[p] = file[q] => p = q
  /\ \A p \in Procs, s \in Sessions : file[p] # NoFile => file[p] # wfile[s]
  /\ \A s, t \in Sessions : wfile[s] # NoFile /\ wfile[s] = wfile[t] => s = t
  /\ users = "alone" => \A s \in Sessions : wpc[s] = "idle"

\* What holds of f whoever serves it.
ContentInv(f) ==
  /\ cfg[f] => dir[f]
  /\ ~cfg[f] => flags[f] = <<>>
  /\ \A i \in DOMAIN flags[f] : flags[f][i] = Over => blocks[f][i - 1] = "good"
  /\ status[f] = Stored \/ (\E k \in Keys : rows[k] = f)
       => status[f] # Absent /\ comp[f] = "whole"

\* What a child leaves behind, and what the page does.
Settled(f) == /\ cfg[f] => Ready(f)
              /\ status[f] = Uploading => cfg[f]
              /\ status[f] = Absent => ~cfg[f]
Finished(f) == comp[f] = "none" \/ (comp[f] = "whole" /\ status[f] # Absent)

\* What holds of f while no child serves it, and while nobody does.
QuietInv(f) ==
  (\A p \in Procs : file[p] # f) =>
    /\ Settled(f)
    /\ (\A s \in Sessions : wfile[s] # f) => Finished(f)

Selecting == {"lockOp", "pick", "recv", "recving", "record", "lockMerge"}

\* What a child that serves f relies on.
ChildInv(p, f) ==
  /\ received[p] => pc[p] \in {"record", "lockMerge", "publish"} \union MergeSteps
  /\ file[p] = f =>
     /\ pc[p] = "link" => status[f] = Stored
     /\ pc[p] \in CreateSteps => comp[f] = "none" /\ flags[f] = <<>>
     /\ pc[p] \in CreateSteps \ {"close"} => status[f] = Absent
     /\ pc[p] \in {"mkdir", "lockCreate", "create"} => ~cfg[f]
     /\ pc[p] \in {"lockCreate", "create"} => dir[f]
     /\ pc[p] \in {"insert", "close"} => cfg[f]
     /\ pc[p] \in Selecting \union MergeSteps \union {"close", "publish"} => status[f] = Uploading
     /\ pc[p] \in Selecting \union {"copy", "purge"} => Ready(f)
     /\ pc[p] \in {"link", "flush", "publish"} => (cfg[f] => Ready(f))
     /\ pc[p] \in Selecting => comp[f] \in {"none", "whole"}
     /\ Receiving(p) => /\ fileL[p] = BlockNum(f)
                        /\ flags[f][blockNum[p] + 1] = Taken
     /\ pc[p] = "recving" => blocks[f][blockNum[p]] = p
     /\ pc[p] = "record" /\ received[p] => blocks[f][blockNum[p]] = "good"
     /\ pc[p] \in {"lockMerge", "copy"} => AllOver(flags[f]) /\ fileL[p] = BlockNum(f)
     /\ pc[p] = "copy" => comp[f] = "partial"
     /\ pc[p] \in {"purge", "flush"} => comp[f] = "buffered"
     /\ pc[p] = "publish" => comp[f] = "whole"

\* What the page relies on.
PageInv(s, f) ==
  wfile[s] = f =>
    /\ wpc[s] = "look" => Finished(f)
    /\ wpc[s] = "save" => comp[f] = "none"
    /\ wpc[s] = "saving" => comp[f] = "partial"
    /\ wpc[s] \in {"status", "link"} => comp[f] = "whole"
    /\ wpc[s] = "link" => status[f] # Absent

Swept(f) == ~dir[f] /\ blocks[f] = [b \in Block(f) |-> "none"]

\* Without the page, what is whole was merged, and what was merged is swept.
AloneInv(f) ==
  /\ comp[f] = "whole" =>
       status[f] = Stored \/ \E p \in Procs : file[p] = f /\ pc[p] = "publish"
  /\ status[f] = Stored \/ (\E p \in Procs : file[p] = f /\ pc[p] \in {"flush", "publish"})
       => Swept(f)

\* Requests in turn.
InTurns ==
  /\ TurnsInv
  /\ \A f \in Files : /\ ContentInv(f) /\ QuietInv(f)
                      /\ \A p \in Procs : ChildInv(p, f)
                      /\ \A s \in Sessions : PageInv(s, f)

StorageInv ==
  /\ TypeOK /\ PageTypes
  /\ users # "any" => InTurns
  /\ users = "alone" => \A f \in Files : AloneInv(f)
=============================================================================
