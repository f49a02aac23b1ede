---------------------------- MODULE MCTwoFronts ----------------------------
(***************************************************************************)
(* Small instances of TwoFronts for TLC.                                   *)
(***************************************************************************)
EXTENDS TwoFrontsInvariant, TLC

CONSTANTS p1, p2, s1, s2, u1, u2, w1, w2, m1, m2

A == <<Slash, "a", Slash>>
B == <<Slash, "b", Slash>>
FileX == <<Slash, "x">>
FileAX == <<Slash, "a", Slash, "x">>
FolderAB == <<Slash, "a", Slash, "b", Slash>>

Ask(op, u, w, src, dst, md5) ==
  [op |-> op, user |-> u, pw |-> w, src |-> src, dst |-> dst, md5 |-> md5]
WebAsk(op, u, w, src, dst, srcpath) ==
  [op |-> op, user |-> u, pw |-> w, src |-> src, dst |-> dst, srcpath |-> srcpath]

\* One name, registered on both sides with two passwords, and a tree worked on
\* from both sides.
Server == {Ask("regist", u1, w, Root, Root, NULL) : w \in {w1, w2}} \union
          {Ask("add", u1, w1, A, A, NULL),
           Ask("add", u1, w1, FileAX, FileAX, m1), Ask("move", u1, w1, A, B, NULL),
           Ask("copy", u1, w1, FileAX, FileX, NULL), Ask("del", u1, w1, B, B, NULL)}
Browser == {WebAsk("register", u1, w, Root, Root, Root) : w \in {w1, w2}} \union
           {WebAsk("newFolder", u1, w1, B, Root, Root), WebAsk("newFolder", u1, w1, FolderAB, A, A),
            WebAsk("delete", u1, w1, A, Root, Root), WebAsk("delete", u1, w1, FileX, Root, Root),
            WebAsk("copy", u1, w1, A, B, Root), WebAsk("move", u1, w1, FileX, A, Root),
            WebAsk("move", u1, w1, A, B, Root), WebAsk("move", u1, w1, FolderAB, Root, A)}
=============================================================================
