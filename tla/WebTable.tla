------------------------------ MODULE WebTable ------------------------------
(***************************************************************************)
(* The pages of Webpages/Driver/app/views.py that work on tables user and  *)
(* file: register, newFolder, delete, copy and move.  A request reads in   *)
(* one transaction, whose first SELECT fixes what it sees, and commits     *)
(* what it decided in one or two more steps; in between, others commit.    *)
(* move is a copy after which the browser asks for a delete.               *)
(***************************************************************************)
EXTENDS Paths

CONSTANTS
  Sessions,    \* browsers, each with one request at a time
  Users, NoPassword, NULL, None,
  WebRequests, \* records of op, user, pw, src, dst, srcpath
  MaxPath,     \* bound on the tokens of a path, for TLC
  Leaves       \* may a browser not follow the redirect of a move?

VARIABLES
  user, file,  \* the tables, shared with the C++ server
  wpc, wreq,   \* where each request is, and what it asks
  plan         \* the rows it will insert, or delete

Row(u, path, md5) == [user |-> u, path |-> path, md5 |-> md5]
Mine(u) == {r \in file : r.user = u}
Keys(rows) == {<<r.user, r.path>> : r \in rows}

\* A commit of new rows: all of them, or none and an error page.
Unused(rows) == Keys(rows) \cap Keys(file) = {}
Commit(rows) == file' = IF Unused(rows) THEN file \union rows ELSE file

\* getFiles: the entries of a folder, files and implied folders.
GetFiles(u, folder) == BuildTree({r.path : r \in Mine(u)}, folder)

\* The last name of a path: src.split('/') without the empty end.
Name(path) == IF IsFolder(path) THEN Last(Front(path)) ELSE Last(path)

WebInit == /\ wpc = [s \in Sessions |-> "idle"]
           /\ wreq = [s \in Sessions |-> None]
           /\ plan = [s \in Sessions |-> {}]

Take(s, op, r) == /\ wpc[s] = "idle" /\ r.op = op
                  /\ UNCHANGED <<user, file>>

\* The request r goes on at label, or is done.
To(s, r, label, rows) == /\ wpc' = [wpc EXCEPT ![s] = label]
                         /\ wreq' = [wreq EXCEPT ![s] = IF label = "idle" THEN None ELSE r]
                         /\ plan' = [plan EXCEPT ![s] = rows]

-----------------------------------------------------------------------------
(* register *)

FindUser(s, r) ==
  /\ Take(s, "register", r)
  /\ To(s, r, IF user[r.user] = NoPassword THEN "addUser" ELSE "idle", {})

Mutant_AddUser(s) ==
  /\ wpc[s] = "addUser"
  /\ LET r == wreq[s] IN
       IF user[r.user] = NoPassword
       THEN user' = [user EXCEPT ![r.user] = r.pw] /\ To(s, r, "idle", {})
       ELSE To(s, r, "idle", {}) /\ UNCHANGED user
  /\ UNCHANGED file

Mutant_AddAgain(s) ==
  /\ wpc[s] = "addUser"
  /\ user' = [user EXCEPT ![wreq[s].user] = wreq[s].pw]
  /\ To(s, wreq[s], "insert", {Row(wreq[s].user, Root, NULL)})
  /\ UNCHANGED file

\* The first commit; a name taken since is an error page.
AddUser(s) ==
  /\ wpc[s] = "addUser"
  /\ LET r == wreq[s] IN
       IF user[r.user] = NoPassword
       THEN /\ user' = [user EXCEPT ![r.user] = r.pw]
            /\ To(s, r, "insert", {Row(r.user, Root, NULL)})
       ELSE To(s, r, "idle", {}) /\ UNCHANGED user
  /\ UNCHANGED file

-----------------------------------------------------------------------------
(* newFolder, copy *)

NewFolder(s, r) ==
  /\ Take(s, "newFolder", r)
  /\ LET row == Row(r.user, r.src, NULL)
     IN IF Keys({row}) \subseteq Keys(file) THEN To(s, r, "idle", {})
                                            ELSE To(s, r, "insert", {row})

\* The checks of copy: the destination does not begin with the source, nor
\* hold an entry of the same name and kind.
Refused(r) == \/ IsPrefix(r.src, r.dst)
              \/ <<Name(r.src), IsFolder(r.src)>> \in GetFiles(r.user, r.dst)

Mutant_Copies(r) ==
  {[t EXCEPT !.path = r.dst \o Rest(r.src, r.srcpath)] :
     t \in {q \in Mine(r.user) : q.path = r.src}}

\* The new rows: a folder's by replacing srcpath, the folder the browser says
\* it is in, in every path LIKE the source.
Copies(r) ==
  IF IsFolder(r.src)
  THEN {[t EXCEPT !.path = Replace(t.path, r.srcpath, r.dst)] :
          t \in {q \in Mine(r.user) : Like(q.path, r.src)}}
  ELSE {[t EXCEPT !.path = Append(r.dst, Name(r.src))] :
          t \in {q \in Mine(r.user) : q.path = r.src}}

\* A file that is gone is an error page, a folder's copy of nothing is not.
Copy(s, r) ==
  /\ r.op \in {"copy", "move"} /\ Take(s, r.op, r)
  /\ \A t \in Copies(r) : Len(t.path) <= MaxPath
  /\ IF Refused(r) \/ (Copies(r) = {} /\ ~ IsFolder(r.src)) THEN To(s, r, "idle", {})
                                                            ELSE To(s, r, "insert", Copies(r))

\* The commit of newFolder, copy, and of register's second part.  A copy that
\* worked sends the browser of a move on to delete.
Insert(s) ==
  /\ wpc[s] = "insert"
  /\ Commit(plan[s])
  /\ To(s, wreq[s], IF wreq[s].op = "move" /\ Unused(plan[s])
           THEN "follow" ELSE "idle", {})
  /\ UNCHANGED user

-----------------------------------------------------------------------------
(* delete *)

Mutant_Doomed(r) == {t \in Mine(r.user) : t.path = r.src}

\* The rows delete reads: LIKE for a folder, one row for a file.
Doomed(r) == {t \in Mine(r.user) : IF IsFolder(r.src) THEN Like(t.path, r.src)
                                                       ELSE t.path = r.src}

\* Of no file, delete(None) is an error page.
Delete(s, r) ==
  /\ Take(s, "delete", r)
  /\ To(s, r, IF Doomed(r) = {} THEN "idle" ELSE "remove", Doomed(r))

\* jump.html asks for the delete of what was copied, or the user has left.
Follow(s) ==
  /\ wpc[s] = "follow"
  /\ \/ To(s, wreq[s], "remove", Doomed(wreq[s]))
     \/ Leaves /\ To(s, wreq[s], "idle", {})
  /\ UNCHANGED <<user, file>>

\* The commit deletes the rows that were read, by their keys.
RemoveRows(s) ==
  /\ wpc[s] = "remove"
  /\ file' = {r \in file : <<r.user, r.path>> \notin Keys(plan[s])}
  /\ To(s, wreq[s], "idle", {})
  /\ UNCHANGED user

Ask(s, r) == FindUser(s, r) \/ NewFolder(s, r) \/ Copy(s, r) \/ Delete(s, r)
Proceed(s) == AddUser(s) \/ Insert(s) \/ Follow(s) \/ RemoveRows(s)
=============================================================================
