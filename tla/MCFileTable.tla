---------------------------- MODULE MCFileTable ----------------------------
(***************************************************************************)
(* Small instances of FileTable for TLC.                                   *)
(***************************************************************************)
EXTENDS FileTableInvariant

CONSTANTS p1, p2, u1, u2, w1, w2, m1, m2

TwoProcs == {p1, p2}

A == <<Slash, "a", Slash>>
B == <<Slash, "b", Slash>>
FileX == <<Slash, "x">>
FileAX == <<Slash, "a", Slash, "x">>
FolderAB == <<Slash, "a", Slash, "b", Slash>>

Ask(op, u, w, src, dst, md5) ==
  [op |-> op, user |-> u, pw |-> w, src |-> src, dst |-> dst, md5 |-> md5]
Regist(u, w) == Ask("regist", u, w, Root, Root, NULL)
LogInAs(u, w) == Ask("login", u, w, Root, Root, NULL)
List(u, path) == Ask("list", u, w1, path, path, NULL)
Add(u, path, md5) == Ask("add", u, w1, path, path, md5)
Del(u, path) == Ask("del", u, w1, path, path, NULL)
CopyTo(u, src, dst) == Ask("copy", u, w1, src, dst, NULL)
MoveTo(u, src, dst) == Ask("move", u, w1, src, dst, NULL)

\* Two people who want one name, a user who builds, lists, copies, moves and
\* deletes a small tree, and another user with a folder of the same name.
Tree == {Regist(u1, w1), Regist(u1, w2), LogInAs(u1, w1), List(u1, FileX),
         Add(u1, A, NULL), Add(u1, FileAX, m1), Add(u1, FolderAB, NULL),
         Del(u1, A), Add(u1, FileX, m2), CopyTo(u1, A, B),
         MoveTo(u1, A, B), MoveTo(u1, B, FolderAB), MoveTo(u1, FileAX, FileX)}

OtherUser == {Regist(u2, w1), Add(u2, A, NULL), List(u2, A)}

Both == Tree \union OtherUser

\* A user who moves a folder while a file is being added to it.
Few == {Regist(u1, w1), Add(u1, A, NULL), Add(u1, FileAX, m1), MoveTo(u1, A, B)}
=============================================================================
