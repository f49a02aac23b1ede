------------------------- MODULE FileTableInvariant -------------------------
(***************************************************************************)
(* The inductive invariants behind the theorems of FileTableProofs.        *)
(* TableInv holds for any requests in any order; MoveInv when a user waits *)
(* for a reply before the next request and moves no folder into itself;    *)
(* ReachInv when users also keep to what a folder view offers.             *)
(***************************************************************************)
EXTENDS FileTable

RegistSteps == {"insertUser", "sendDone", "sendTaken", "checkUser", "rootRow"}

\* A folder is moved neither into itself nor onto a folder it lies in.
Apart ==
  \A r \in Requests : r.op = "move" /\ IsFolder(r.src) =>
    ~ IsPrefix(r.src, r.dst) /\ ~ IsPrefix(r.dst, r.src)

\* The target of a folder is a folder, and has a name of one byte a character.
Plain ==
  \A r \in Requests : r.op \in {"copy", "move"} =>
    /\ IsFolder(r.src) => IsFolder(r.dst)
    /\ Bytes(r.dst) = Len(r.dst)

\* A path from the root, of names without a wide character or a wildcard.
Good(path) == /\ path \in Seq(STRING) /\ path # <<>> /\ path[1] = Slash
              /\ \A i \in DOMAIN path : path[i] \notin Wide \union {Wildcard}

Shaped == \A r \in Requests : Good(r.src) /\ Good(r.dst)

\* Which request a child serves at each of its statements; it has no flag yet
\* before the first reply.
StageInv ==
  \A p \in Procs :
    /\ pc[p] = "idle" => req[p] = None /\ got[p] = {}
    /\ pc[p] \in RegistSteps => req[p].op = "regist"
    /\ pc[p] = "insert" => req[p].op \in {"copy", "move"}
    /\ pc[p] = "delete" => req[p].op = "move"
    /\ pc[p] \in {"insertUser", "sendDone", "sendTaken", "insert", "delete"} => reply[p] = None

\* The rows a child has read can be rows of the table, and have keys of their own.
GotInv ==
  \A p \in Procs :
    /\ \A r \in got[p] : /\ r \in [user : Users, path : Seq(STRING), md5 : Md5s \union {NULL}]
                         /\ r.user = req[p].user
    /\ \A r, s \in got[p] : SameKey(r, s) => r = s

\* The INSERT of this child has made the account it registers.
Winner(p) == \/ pc[p] = "sendDone"
             \/ pc[p] \in RegistSteps /\ reply[p] = 0

WinInv ==
  \A p \in Procs : Winner(p) =>
    /\ user[req[p].user] = req[p].pw
    /\ \A q \in Procs : Winner(q) /\ req[q].user = req[p].user => q = p

TableInv == TypeOK /\ StageInv /\ GotInv /\ WinInv

\* One request of a user at a time, registrations aside.
AloneInv ==
  \A p, q \in Procs :
    p # q /\ pc[p] # "idle" /\ pc[q] # "idle" /\ req[p].user = req[q].user =>
      req[p].op = "regist" /\ req[q].op = "regist"

\* What a copy or a move has read is still what it would read; between its two
\* statements a move has both sets of rows in the table, apart.
ReadInv ==
  \A p \in Procs :
    /\ pc[p] \in {"insert", "delete"} =>
         got[p] = Renamed(req[p].user, req[p].src, req[p].dst) /\ got[p] # {}
    /\ pc[p] = "delete" =>
         got[p] \subseteq file /\ \A r \in got[p] : ~ Matches(r.path, req[p].src)

MoveInv == TableInv /\ AloneInv /\ ReadInv

\* All paths are good, those of rows to come included.
GoodInv == /\ \A r \in file : Good(r.path)
           /\ \A p \in Procs : \A r \in got[p] : Good(r.path)

\* A row that has its folder's row among rows.
Parented(n, rows) ==
  n.path # Root => \E s \in rows : s.user = n.user /\ s.path = Parent(n.path)

\* The folder that a copy or move goes into stays there.
TargetInv ==
  \A p \in Procs : pc[p] = "insert" =>
    \E s \in file : s.user = req[p].user /\ s.path = Parent(req[p].dst)

ReachInv == MoveInv /\ GoodInv /\ Reachable /\ TargetInv
=============================================================================
