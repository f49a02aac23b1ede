----------------------------- MODULE Catalogue -----------------------------
(***************************************************************************)
(* What the requests on tables user and file promise: each is one step,    *)
(* or nothing.  An account's password is set once; a row is put where none *)
(* was; a removal takes exactly the rows of a path; a copy puts a second   *)
(* row for every row of its source, and a move takes the source away in    *)
(* the same step.                                                          *)
(***************************************************************************)
EXTENDS Paths

CONSTANTS Users, NoPassword, NULL, Requests

VARIABLES user, file

Row(u, path, md5) == [user |-> u, path |-> path, md5 |-> md5]
Of(u, path) == {r \in file : r.user = u /\ Matches(r.path, path)}
Moved(rows, src, dst) ==
  {[r EXCEPT !.path = Replace(r.path, src, dst)] : r \in rows}
Fresh(rows) == \A r \in rows, s \in file : <<r.user, r.path>> # <<s.user, s.path>>

CInit == user = [u \in Users |-> NoPassword] /\ file = {}

Open(u, w) == /\ user[u] = NoPassword
              /\ user' = [user EXCEPT ![u] = w]
              /\ UNCHANGED file

Link(row) == /\ Fresh({row})
             /\ file' = file \union {row}
             /\ UNCHANGED user

Unlink(u, path) == /\ file' = file \ Of(u, path)
                   /\ UNCHANGED user

Copy(u, src, dst) == LET new == Moved(Of(u, src), src, dst)
                     IN /\ Fresh(new)
                        /\ file' = file \union new
                        /\ UNCHANGED user

Move(u, src, dst) == LET new == Moved(Of(u, src), src, dst)
                     IN /\ Fresh(new)
                        /\ file' = (file \ Of(u, src)) \union new
                        /\ UNCHANGED user

CNext ==
  \E r \in Requests :
    \/ r.op = "regist" /\ Open(r.user, r.pw)
    \/ r.op = "regist" /\ Link(Row(r.user, Root, NULL))
    \/ r.op = "add" /\ Link(Row(r.user, r.src, r.md5))
    \/ r.op = "del" /\ Unlink(r.user, r.src)
    \/ r.op = "copy" /\ Copy(r.user, r.src, r.dst)
    \/ r.op = "move" /\ Move(r.user, r.src, r.dst)

CSpec == CInit /\ [][CNext]_<<user, file>>
=============================================================================
