------------------------- MODULE TwoFrontsInvariant -------------------------
(***************************************************************************)
(* The inductive invariants behind TwoFronts' theorems.  BothInv holds for *)
(* any requests of both programs at once, in any order; TreeInv when a     *)
(* user waits for an answer, on either side, and keeps to what is shown.   *)
(***************************************************************************)
EXTENDS TwoFronts, FileTableInvariant

\* No request deletes or moves the root folder, nor puts an entry in its place;
\* the folder a browser says it is in is above what it copies.
KeepsRoot ==
  /\ \A r \in Requests :
       /\ r.op \in {"add", "del", "move"} => r.src # Root
       /\ r.op \in {"copy", "move"} => r.dst # Root
  /\ \A r \in WebRequests :
       /\ r.op \in {"delete", "move"} => r.src # Root
       /\ r.op \in {"copy", "move"} => Len(r.srcpath) < Len(r.src)

\* What requests are under way, on both sides.
BothTypes ==
  /\ user \in [Users -> Passwords \union {NoPassword}]
  /\ pc \in [Procs -> Labels \union {"idle"}] /\ req \in [Procs -> Requests \union {None}]
  /\ DOMAIN got = Procs /\ DOMAIN reply = Procs
  /\ wpc \in [Sessions -> {"idle", "addUser", "insert", "follow", "remove"}]
  /\ wreq \in [Sessions -> WebRequests \union {None}] /\ DOMAIN plan = Sessions
  /\ \A p \in Procs : /\ pc[p] # "idle" => req[p] # None
                      /\ pc[p] \in RegistSteps => req[p].op = "regist"
                      /\ pc[p] = "insert" => req[p].op \in {"copy", "move"}
                      /\ pc[p] = "delete" => req[p].op = "move"
  /\ \A s \in Sessions : /\ wpc[s] # "idle" => wreq[s] # None
                         /\ wpc[s] = "addUser" => wreq[s].op = "register"
                         /\ wpc[s] = "follow" => wreq[s].op = "move"

\* A row of the table, or to come; the root is a folder's.
Proper(r) == /\ r \in [user : Users, path : Seq(STRING), md5 : Md5s \union {NULL}]
             /\ r.path = Root => r.md5 = NULL

RowsInv ==
  /\ \A r \in file : Proper(r)
  /\ \A p \in Procs : \A r \in got[p] : Proper(r)
  /\ \A s \in Sessions : \A r \in plan[s] : /\ wpc[s] = "insert" => Proper(r)
                                            /\ wpc[s] = "remove" => r.path # Root

\* Someone will give u its root.
Makes(p, u) == \/ /\ pc[p] \in {"sendDone", "checkUser"}
                  /\ req[p].user = u /\ user[u] = req[p].pw
               \/ pc[p] = "rootRow" /\ req[p].user = u
WebMakes(s, u) == /\ wpc[s] = "insert" /\ wreq[s].op = "register" /\ wreq[s].user = u
                  /\ plan[s] = {Row(u, Root, NULL)}

RootInv ==
  \A u \in Users : user[u] # NoPassword =>
    \/ Row(u, Root, NULL) \in file
    \/ \E p \in Procs : Makes(p, u)
    \/ \E s \in Sessions : WebMakes(s, u)

BothInv == BothTypes /\ RowsInv /\ RootInv

-----------------------------------------------------------------------------
\* What the pages' links hold: good paths; to copy or move, the folder that is
\* shown, which holds the entry, and a folder to put it into.
WebShaped ==
  \A r \in WebRequests :
    /\ Good(r.src) /\ Good(r.dst)
    /\ r.op \in {"copy", "move"} =>
         /\ IsFolder(r.dst)
         /\ r.srcpath = Parent(r.src)
         /\ Len(r.src) = Len(r.srcpath) + IF IsFolder(r.src) THEN 2 ELSE 1

\* Users do one thing at a time, keep to what is shown, and move no folder into
\* itself or onto one it lies in.
Keeping == Sequential /\ Sensible /\ Apart /\ Plain /\ Shaped /\ WebShaped

\* One request of a user at a time, on either side, registrations aside.
WebAlone ==
  /\ \A s, t \in Sessions :
       s # t /\ wpc[s] # "idle" /\ wpc[t] # "idle" /\ wreq[s].user = wreq[t].user =>
         wreq[s].op = "register" /\ wreq[t].op = "register"
  /\ \A p \in Procs, s \in Sessions :
       pc[p] # "idle" /\ wpc[s] # "idle" /\ req[p].user = wreq[s].user =>
         req[p].op = "regist" /\ wreq[s].op = "register"

WebStages ==
  /\ wpc \in [Sessions -> {"idle", "addUser", "insert", "follow", "remove"}]
  /\ wreq \in [Sessions -> WebRequests \union {None}] /\ DOMAIN plan = Sessions
  /\ \A s \in Sessions :
       /\ wpc[s] # "idle" => wreq[s] # None
       /\ wpc[s] = "addUser" => wreq[s].op = "register"
       /\ wpc[s] = "follow" => wreq[s].op = "move"
       /\ wpc[s] = "remove" => wreq[s].op \in {"delete", "move"}

\* What r's delete names.
Named(path, r) == IF IsFolder(r.src) THEN Like(path, r.src) ELSE path = r.src

\* What r's delete takes away has a copy among rows that it leaves.
Copied(r, rows) ==
  \A t \in Web!Doomed(r) : \E n \in rows :
    n.user = t.user /\ n.md5 = t.md5 /\ ~ Named(n.path, r)

\* The rows a page is about to commit: each in a folder that is there, or that
\* comes with it, and for a move a copy of all that it will delete.
ToInsert(r, rows) ==
  /\ \A n \in rows : /\ n \in [user : Users, path : Seq(STRING), md5 : Md5s \union {NULL}]
                     /\ n.user = r.user /\ user[n.user] # NoPassword /\ Good(n.path)
                     /\ Parented(n, file \union rows)
                     /\ r.op = "register" => n.path = Root
  /\ \A m, n \in rows : SameKey(m, n) => m = n
  /\ r.op = "move" => Copied(r, rows) /\ \A n \in rows : ~ Named(n.path, r)

Planned(label, r, rows) ==
  /\ label = "insert" => ToInsert(r, rows)
  /\ label = "follow" => Copied(r, file)
  /\ label = "remove" => /\ rows = Web!Doomed(r)
                         /\ r.op = "move" => Copied(r, file)

PlanOf(s) == Planned(wpc[s], wreq[s], plan[s])

PlanInv == \A s \in Sessions : PlanOf(s)

TreeInv == ReachInv /\ WebStages /\ WebAlone /\ PlanInv
=============================================================================
