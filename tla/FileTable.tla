----------------------------- MODULE FileTable -----------------------------
(***************************************************************************)
(* The requests of Linux_Server/server.cpp on tables user and file:        *)
(* regist, logIn, getFileList, addFile (its INSERT), delFile, moveFile and *)
(* copyFile, with the functions of Database/DB_Operate.cpp they call.      *)
(* Every SQL statement commits by itself, so an action is a statement; the *)
(* handlers of other children run in between.  A UID stands for its user   *)
(* name, which is unique.                                                  *)
(***************************************************************************)
EXTENDS Integers, FiniteSets, Paths

CONSTANTS
  Procs,       \* the children that may be alive at once
  Users, Passwords, Md5s,
  NoPassword,  \* no account of this name
  NULL,        \* the md5 of a folder's row
  None,        \* no reply
  Requests,    \* what clients ask for: records of op, user, pw, src, dst, md5
  MaxPath,     \* bound on the tokens of a path, for TLC
  Sequential,  \* does a user wait for a reply before the next request?
               \* (two people may still register one name at once)
  Sensible,    \* do clients work inside folders that are there?
  KillAt       \* the points at which a child may die, or lose its client

Ops == {"regist", "login", "list", "add", "del", "copy", "move"}
Labels == {"insertUser", "sendDone", "sendTaken", "checkUser", "rootRow",
           "insert", "delete"}

ASSUME RequestsAssumption ==
  /\ Requests \subseteq [op : Ops, user : Users, pw : Passwords,
                         src : Seq(STRING), dst : Seq(STRING), md5 : Md5s \union {NULL}]
  /\ \A r \in Requests : r.src # <<>> /\ r.dst # <<>>
  /\ NoPassword \notin Passwords /\ NULL \notin Md5s
  /\ None \notin Requests /\ None \notin {0, -1}
  /\ {Sequential, Sensible} \subseteq BOOLEAN /\ KillAt \subseteq Labels

\* True of every string, but not known to the provers.
ASSUME SlashAssumption == Slash \in STRING

VARIABLES
  user,    \* table user: the password of an account
  file,    \* table file
  pc, req, \* where each child is, and what it was asked
  got,     \* the rows of its SELECT, under their new names
  reply    \* what it has sent

locals == <<pc, req, got, reply>>
vars == <<user, file, locals>>

-----------------------------------------------------------------------------
(* The statements *)

Row(u, path, md5) == [user |-> u, path |-> path, md5 |-> md5]

Mutant_Selected(u, path) == {r \in file : Matches(r.path, path)}

\* The rows of u that path names.
Selected(u, path) == {r \in file : r.user = u /\ Matches(r.path, path)}

SameKey(r, s) == r.user = s.user /\ r.path = s.path

\* INSERT of some rows: fails as a whole on a key that is present, and
\* on a user that is not.
Insertable(rows) == \A r \in rows : /\ user[r.user] # NoPassword
                                    /\ \A s \in file : ~ SameKey(r, s)

\* The rows the INSERT of Copy_File_Info and Update_File_Info will add.
Renamed(u, src, dst) ==
  {[r EXCEPT !.path = Replace(r.path, src, dst)] : r \in Selected(u, src)}

-----------------------------------------------------------------------------
Init ==
  /\ user = [u \in Users |-> NoPassword]
  /\ file = {}
  /\ pc = [p \in Procs |-> "idle"]
  /\ req = [p \in Procs |-> None]
  /\ got = [p \in Procs |-> {}]
  /\ reply = [p \in Procs |-> None]

\* What a user sees to be possible in the client's folder view.
Reasonable(r) ==
  LET There(path) == \E s \in file : s.user = r.user /\ s.path = path
  IN /\ r.op = "add" => There(Parent(r.src))
     /\ r.op = "del" => r.src # Root
     /\ r.op \in {"copy", "move"} => /\ There(Parent(r.dst))
                                    /\ r.src # Root
                                    /\ ~ (IsFolder(r.src) /\ IsPrefix(r.src, r.dst))

\* fork and exec, and the handler reads its request.
Take(p, op, r) ==
  /\ pc[p] = "idle" /\ r.op = op
  /\ Sequential => \A q \in Procs : pc[q] # "idle" =>
       \/ req[q].user # r.user
       \/ req[q].op = "regist" /\ op = "regist"
  /\ Sensible => Reasonable(r)

\* The handler sends v and ends.
Answer(p, v) == /\ reply' = [reply EXCEPT ![p] = v]
                /\ pc' = [pc EXCEPT ![p] = "idle"]
                /\ req' = [req EXCEPT ![p] = None]
                /\ got' = [got EXCEPT ![p] = {}]

Flag(ok) == IF ok THEN 0 ELSE -1

\* The handler goes on to its next statement; v is its flag so far.
Goto(p, label, v) == /\ pc' = [pc EXCEPT ![p] = label]
                     /\ reply' = [reply EXCEPT ![p] = v]
                     /\ UNCHANGED <<req, got>>

\* The first statement of r is done; rows is what it has read.
Start(p, label, r, rows) == /\ pc' = [pc EXCEPT ![p] = label]
                            /\ reply' = [reply EXCEPT ![p] = None]
                            /\ req' = [req EXCEPT ![p] = r]
                            /\ got' = [got EXCEPT ![p] = rows]

-----------------------------------------------------------------------------
(* regist: Insert_User, the reply, Check_User, Insert_File_Info *)

SelectUser(p, r) ==
  /\ Take(p, "regist", r)
  /\ Start(p, IF user[r.user] = NoPassword THEN "insertUser" ELSE "sendTaken", r, {})
  /\ UNCHANGED <<user, file>>

Mutant_InsertUser(p) ==
  /\ pc[p] = "insertUser"
  /\ user' = [user EXCEPT ![req[p].user] = req[p].pw]
  /\ Goto(p, "sendDone", None)
  /\ UNCHANGED file

\* INSERT INTO user: username is a unique key.
InsertUser(p) ==
  /\ pc[p] = "insertUser"
  /\ LET u == req[p].user
     IN IF user[u] = NoPassword
        THEN user' = [user EXCEPT ![u] = req[p].pw] /\ Goto(p, "sendDone", None)
        ELSE Goto(p, "sendTaken", None) /\ UNCHANGED user
  /\ UNCHANGED file

SendFlag(p) == /\ pc[p] \in {"sendDone", "sendTaken"}
               /\ Goto(p, "checkUser", Flag(pc[p] = "sendDone"))
               /\ UNCHANGED <<user, file>>

\* Check_User with the name and password just registered, or refused.
CheckUser(p) ==
  /\ pc[p] = "checkUser"
  /\ IF user[req[p].user] = req[p].pw THEN Goto(p, "rootRow", reply[p])
                                      ELSE Answer(p, reply[p])
  /\ UNCHANGED <<user, file>>

\* Insert_File_Info(UID, "/", "NULL"), whose result nobody looks at.
InsertRoot(p) ==
  /\ pc[p] = "rootRow"
  /\ LET root == Row(req[p].user, Root, NULL)
     IN file' = IF Insertable({root}) THEN file \union {root} ELSE file
  /\ Answer(p, reply[p])
  /\ UNCHANGED user

-----------------------------------------------------------------------------
(* Requests of one statement *)

\* Check_User; the result -1 of a failure is sent as it is, the line that
\* should turn it into 0 being a comparison.
LogIn(p, r) ==
  /\ Take(p, "login", r)
  /\ Answer(p, IF user[r.user] = r.pw THEN r.user ELSE -1)
  /\ UNCHANGED <<user, file>>

GetFileList(p, r) ==
  /\ Take(p, "list", r)
  /\ Answer(p, IF IsFolder(r.src)
               THEN FindFileList({s.path : s \in Selected(r.user, r.src)}, r.src)
               ELSE {})
  /\ UNCHANGED <<user, file>>

\* Insert_File_Info for a folder, or for a file that is stored.
AddFile(p, r) ==
  /\ Take(p, "add", r)
  /\ LET row == Row(r.user, r.src, r.md5)
     IN /\ file' = IF Insertable({row}) THEN file \union {row} ELSE file
        /\ Answer(p, Flag(Insertable({row})))
  /\ UNCHANGED user

\* Delete_File_Info: a DELETE of no rows is no error.
DelFile(p, r) ==
  /\ Take(p, "del", r)
  /\ file' = file \ Selected(r.user, r.src)
  /\ Answer(p, Flag(TRUE))
  /\ UNCHANGED user

-----------------------------------------------------------------------------
(* copyFile and moveFile: Copy_File_Info and Update_File_Info *)

SelectRows(p, op, r) ==
  /\ Take(p, op, r)
  /\ LET new == Renamed(r.user, r.src, r.dst)
     IN /\ \A n \in new : Len(n.path) <= MaxPath
        /\ IF new = {} \/ (op = "move" /\ Len(r.src) <= 1)
           THEN Answer(p, Flag(FALSE))
           ELSE Start(p, "insert", r, new)
  /\ UNCHANGED <<user, file>>

Mutant_InsertRows(p) ==
  /\ pc[p] = "insert"
  /\ file' = file \union got[p]
  /\ IF req[p].op = "copy" THEN Answer(p, Flag(TRUE))
     ELSE Goto(p, "delete", None)
  /\ UNCHANGED user

Mutant_GoOn(p) ==
  /\ pc[p] = "insert"
  /\ file' = IF Insertable(got[p]) THEN file \union got[p] ELSE file
  /\ IF req[p].op = "copy" THEN Answer(p, Flag(TRUE))
     ELSE Goto(p, "delete", None)
  /\ UNCHANGED user

\* One INSERT of all the rows, under the key constraint.
InsertRows(p) ==
  /\ pc[p] = "insert"
  /\ IF Insertable(got[p])
     THEN /\ file' = file \union got[p]
          /\ IF req[p].op = "copy" THEN Answer(p, Flag(TRUE))
             ELSE Goto(p, "delete", None)
     ELSE Answer(p, Flag(FALSE)) /\ UNCHANGED file
  /\ UNCHANGED user

Mutant_DeleteOld(p) ==
  /\ pc[p] = "delete"
  /\ file' = file \ Selected(req[p].user, req[p].dst)
  /\ Answer(p, Flag(TRUE))
  /\ UNCHANGED user

\* A move ends with a DELETE by the old path, not of the rows selected.
DeleteOld(p) ==
  /\ pc[p] = "delete"
  /\ file' = file \ Selected(req[p].user, req[p].src)
  /\ Answer(p, Flag(TRUE))
  /\ UNCHANGED user

\* The child dies; at sendDone and sendTaken also: its client is gone.
Kill(p) == /\ pc[p] \in KillAt
           /\ Answer(p, reply[p])
           /\ UNCHANGED <<user, file>>

\* A request comes in; its handler goes on.
Begin(p, r) == \/ SelectUser(p, r) \/ LogIn(p, r) \/ GetFileList(p, r) \/ AddFile(p, r)
               \/ DelFile(p, r) \/ SelectRows(p, "copy", r) \/ SelectRows(p, "move", r)
Continue(p) == \/ InsertUser(p) \/ SendFlag(p) \/ CheckUser(p) \/ InsertRoot(p)
               \/ InsertRows(p) \/ DeleteOld(p) \/ Kill(p)

Next == \E p \in Procs : Continue(p) \/ \E r \in Requests : Begin(p, r)

Spec == Init /\ [][Next]_vars

-----------------------------------------------------------------------------
(* Properties *)

\* Types; keys are unique and rows belong to accounts.
TypeOK ==
  /\ user \in [Users -> Passwords \union {NoPassword}]
  /\ \A r \in file : /\ r \in [user : Users, path : Seq(STRING), md5 : Md5s \union {NULL}]
                     /\ user[r.user] # NoPassword
  /\ \A r, s \in file : SameKey(r, s) => r = s
  /\ pc \in [Procs -> Labels \union {"idle"}]
  /\ req \in [Procs -> Requests \union {None}]
  /\ DOMAIN got = Procs /\ DOMAIN reply = Procs
  /\ \A p \in Procs : pc[p] # "idle" => req[p] # None
  /\ \A p \in Procs : got[p] # {} => pc[p] = "insert" \/ pc[p] = "delete"

\* Of the children that register a name at once, one at most answers 0, and
\* the account has the password that one was given (Insert_User reads, then
\* inserts, in two statements: DB_Operate.cpp:122-158).
OneWinner ==
  \A p, q \in Procs :
    (/\ req[p] # None /\ req[p].op = "regist" /\ reply[p] = 0
     /\ req[q] # None /\ req[q].op = "regist" /\ req[q].user = req[p].user)
    => /\ user[req[p].user] = req[p].pw
       /\ reply[q] = 0 => q = p

\* Every row lies in a folder that has a row: else getFileList, which shows
\* only rows, cannot lead to it.
Reachable ==
  \A r \in file : r.path # Root =>
    \E s \in file : s.user = r.user /\ s.path = Parent(r.path)

\* When every row is reachable, the server and the web driver list the same
\* children of a folder ("get the list of files under the current path").
ListingsAgree ==
  Reachable =>
    \A f \in file : IsFolder(f.path) =>
      LET listed == FindFileList({s.path : s \in Selected(f.user, f.path)}, f.path)
      IN {<<Head(c), Slash \in Range(c)>> : c \in listed}
         = BuildTree({s.path : s \in {r \in file : r.user = f.user}}, f.path)

\* The answer 0 to copy or move means that the target is there.
DoneIsThere ==
  [][\A p \in Procs :
       LET r == req[p]
       IN (/\ pc[p] # "idle" /\ pc'[p] = "idle"
           /\ r.op \in {"copy", "move"} /\ reply'[p] = 0) =>
            \E s \in file' : s.user = r.user /\ Matches(s.path, r.dst)]_vars

\* The DELETE of a move takes only rows whose new one is there.
MoveLosesNothing ==
  [][\A p \in Procs : DeleteOld(p) =>
       \A s \in file \ file' :
         [s EXCEPT !.path = Replace(s.path, req[p].src, req[p].dst)] \in file']_vars

\* Each request is one step of Catalogue: between its INSERT and its DELETE, a
\* move counts as done.
Settled == {s \in file : \A p \in Procs :
              pc[p] = "delete" => s \notin Selected(req[p].user, req[p].src)}
Promise == INSTANCE Catalogue WITH file <- Settled
ImplementsCatalogue == Promise!CSpec

=============================================================================
