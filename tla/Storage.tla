------------------------------ MODULE Storage ------------------------------
(***************************************************************************)
(* The upload page of the web driver (upload in Webpages/Driver/app/       *)
(* views.py) beside the upload service of the C++ server, on the same      *)
(* tables status and file and the same directory of finished contents.     *)
(* The page saves a content in place, and knows of no lock file.           *)
(***************************************************************************)
EXTENDS BlockUpload

CONSTANT Sessions  \* browsers, each with one upload at a time

VARIABLES
  wpc,         \* "idle", "look", "save", "saving", "status", "link"
  wfile, wkey, \* the content and the path of the page's request
  users        \* how they behave: "any", "turns" (requests for one content
               \* follow one another) or "alone" (and nobody uses the page)

page == <<wpc, wfile, wkey>>
all == <<vars, page, users>>

InitBoth == /\ Init
            /\ users \in {"any", "turns", "alone"}
            /\ wpc = [s \in Sessions |-> "idle"]
            /\ wfile = [s \in Sessions |-> NoFile]
            /\ wkey = [s \in Sessions |-> NoKey]

\* What a reader of /root/files/<md5> finds.
OnDisk(f) == IF \E s \in Sessions : wpc[s] = "saving" /\ wfile[s] = f
             THEN "partial" ELSE comp[f]

Busy(f) == \/ \E p \in Procs : file[p] = f
           \/ \E s \in Sessions : wfile[s] = f

MayAsk(f) == users = "any" \/ ~ Busy(f)

WGoto(s, l) == /\ wpc' = [wpc EXCEPT ![s] = l]
               /\ UNCHANGED <<wfile, wkey>>

\* The answer, or an error page.
Done(s) == /\ wpc' = [wpc EXCEPT ![s] = "idle"]
           /\ wfile' = [wfile EXCEPT ![s] = NoFile]
           /\ wkey' = [wkey EXCEPT ![s] = NoKey]

Untouched == UNCHANGED <<pc, lock, dir, cfg, flags, blocks, locals, sent, users>>

\* getFiles shows no file of that name in the folder.
Upload(s, f, k) == /\ wpc[s] = "idle"
                   /\ users # "alone"
                   /\ MayAsk(f)
                   /\ rows[k] = NoFile
                   /\ wpc' = [wpc EXCEPT ![s] = "look"]
                   /\ wfile' = [wfile EXCEPT ![s] = f]
                   /\ wkey' = [wkey EXCEPT ![s] = k]
                   /\ Untouched /\ UNCHANGED <<status, rows, comp>>

Mutant_Look(s) == /\ wpc[s] = "look"
                  /\ WGoto(s, IF status[wfile[s]] = Absent THEN "save" ELSE "link")
                  /\ Untouched /\ UNCHANGED <<status, rows, comp>>

Mutant_LookAway(s) == /\ wpc[s] = "look"
                      /\ WGoto(s, "save")
                      /\ Untouched /\ UNCHANGED <<status, rows, comp>>

\* os.path.isfile
Look(s) == /\ wpc[s] = "look"
           /\ WGoto(s, IF comp[wfile[s]] = "none" THEN "save" ELSE "link")
           /\ Untouched /\ UNCHANGED <<status, rows, comp>>

Mutant_SaveOpen(s) == /\ wpc[s] = "save"
                      /\ comp' = [comp EXCEPT ![wfile[s]] = IF @ = "none" THEN "partial" ELSE @]
                      /\ WGoto(s, "status")
                      /\ Untouched /\ UNCHANGED <<status, rows>>

\* file.save: the file is truncated, whatever it held by now (OnDisk), and
\* written; its last byte is in place when save returns.
SaveOpen(s) == /\ wpc[s] = "save"
               /\ comp' = [comp EXCEPT ![wfile[s]] = IF @ = "none" THEN "partial" ELSE @]
               /\ WGoto(s, "saving")
               /\ Untouched /\ UNCHANGED <<status, rows>>

SaveDone(s) == /\ wpc[s] = "saving"
               /\ comp' = [comp EXCEPT ![wfile[s]] = "whole"]
               /\ WGoto(s, "status")
               /\ Untouched /\ UNCHANGED <<status, rows>>

\* The commit of Status(md5, 1): an error page if the content has a row.
AddStatus(s) == /\ wpc[s] = "status"
                /\ IF status[wfile[s]] = Absent
                   THEN status' = [status EXCEPT ![wfile[s]] = Stored] /\ WGoto(s, "link")
                   ELSE UNCHANGED status /\ Done(s)
                /\ Untouched /\ UNCHANGED <<rows, comp>>

\* The commit of the row: the path must be new, the content have a status.
LinkRow(s) == /\ wpc[s] = "link"
              /\ rows' = IF rows[wkey[s]] = NoFile /\ status[wfile[s]] # Absent
                         THEN [rows EXCEPT ![wkey[s]] = wfile[s]] ELSE rows
              /\ Done(s)
              /\ Untouched /\ UNCHANGED <<status, comp>>

Page(s) == Look(s) \/ SaveOpen(s) \/ SaveDone(s) \/ AddStatus(s) \/ LinkRow(s)

\* A step of a child beside the page.
ChildDoes(A) == A /\ UNCHANGED <<page, users>>

\* A request for f comes in.
Asks(p, f) == /\ MayAsk(f)
              /\ \E k \in Keys : ChildDoes(AddFile(p, f, k))

NextBoth == \/ \E p \in Procs : ChildDoes(Serve(p)) \/ \E f \in Files : Asks(p, f)
            \/ \E s \in Sessions : Page(s) \/ \E f \in Files, k \in Keys : Upload(s, f, k)

SpecBoth == InitBoth /\ [][NextBoth]_all

\* Children as before, clients that keep asking as before; the web server's
\* threads run on.
FairBoth ==
  /\ SpecBoth
  /\ \A p \in Procs : /\ SF_all(ChildDoes(Serve(p)))
                      /\ SF_all(ChildDoes(RecvOpen(p)))
                      /\ SF_all(ChildDoes(RecvOk(p)))
                      /\ \A f \in Files : SF_all(Asks(p, f))
  /\ \A s \in Sessions : WF_all(Page(s))

-----------------------------------------------------------------------------
(* Properties *)

\* Uploads of one content through both programs, one after the other, in any
\* state the other left it, end with whole contents under status and rows
\* (views.py:109-124 beside server.cpp:396-419).
StorageWhole ==
  users # "any" => \A f \in Files : (status[f] = Stored \/ \E k \in Keys : rows[k] = f) =>
             status[f] # Absent /\ OnDisk(f) = "whole"

\* A file on disk is not saved over by requests that follow one another: what
\* was whole stays so (views.py:112).
SavedOnce ==
  [][users # "any" => \A f \in Files : OnDisk(f) = "whole" => OnDisk(f)' = "whole"]_all

\* Even when they overlap, a content marked as stored becomes whole in the
\* end (views.py:115-121 against server.cpp:402).
StoredBecomesWhole ==
  \A f \in Files : (status[f] = Stored) ~> (OnDisk(f) = "whole")

\* Without the page, and one request after the other, a content that is stored
\* has left nothing in upload/ once its last child has ended (mergeFile removes
\* the directory only if it copied: server.cpp:402-417).
NothingLeft == users = "alone" => NoLeftover
=============================================================================
