----------------------------- MODULE TwoFronts -----------------------------
(***************************************************************************)
(* The C++ server and the web driver on the same tables user and file.     *)
(***************************************************************************)
EXTENDS FileTable

CONSTANTS Sessions, WebRequests, Leaves

WebOps == {"register", "newFolder", "delete", "copy", "move"}

ASSUME WebRequestsAssumption ==
  /\ WebRequests \subseteq [op : WebOps, user : Users, pw : Passwords,
                            src : Seq(STRING), dst : Seq(STRING), srcpath : Seq(STRING)]
  /\ \A r \in WebRequests : r.src # <<>> /\ r.dst # <<>>
  /\ None \notin WebRequests

VARIABLES wpc, wreq, plan

Web == INSTANCE WebTable

allVars == <<vars, wpc, wreq, plan>>

BothInit == Init /\ Web!WebInit

\* With Sequential, a user waits for an answer on either side, and several
\* people only register one name at once.
MayAsk(u, registers) ==
  Sequential =>
    /\ \A p \in Procs : pc[p] # "idle" /\ req[p].user = u =>
         registers /\ req[p].op = "regist"
    /\ \A s \in Sessions : wpc[s] # "idle" /\ wreq[s].user = u =>
         registers /\ wreq[s].op = "register"

ServerStep(p) == /\ \/ Continue(p)
                    \/ \E r \in Requests : MayAsk(r.user, r.op = "regist") /\ Begin(p, r)
                 /\ UNCHANGED <<wpc, wreq, plan>>

\* What the pages offer: entries of folders that are shown.
Offered(r) ==
  LET There(path) == Row(r.user, path, NULL) \in file
  IN r.op # "register" => r.src # Root /\ There(Parent(r.src)) /\ There(r.dst)

WebStep(s) == /\ \/ Web!Proceed(s)
                 \/ \E r \in WebRequests : /\ MayAsk(r.user, r.op = "register")
                                           /\ Sensible => Offered(r)
                                           /\ Web!Ask(s, r)
              /\ UNCHANGED locals

BothNext == (\E p \in Procs : ServerStep(p)) \/ (\E s \in Sessions : WebStep(s))

BothSpec == BothInit /\ [][BothNext]_allVars

-----------------------------------------------------------------------------
(* Properties *)

\* Whichever program registers a name first, and however the others' steps
\* fall between its look and its insert, its password stays.
FirstPasswordStays ==
  [][\A u \in Users : user[u] # NoPassword => user'[u] = user[u]]_allVars

\* An account has its root folder once nobody registers it any more, whichever
\* program made it, and whichever interfered.
AccountHasRoot ==
  \A u \in Users :
    user[u] # NoPassword =>
      \/ Row(u, Root, NULL) \in file
      \/ \E p \in Procs : pc[p] # "idle" /\ req[p].op = "regist" /\ req[p].user = u
      \/ \E s \in Sessions : wpc[s] # "idle" /\ wreq[s].op = "register" /\ wreq[s].user = u

\* A step deletes no file for good unless its user asked for a delete: what a
\* move of either program takes away has its copy.
OnlyDeleteLoses ==
  [][\A r \in file \ file' :
       \/ r.md5 = NULL
       \/ \E s \in file' : s.user = r.user /\ s.md5 = r.md5
       \/ \E p \in Procs, q \in Requests : q.user = r.user /\ DelFile(p, q)
       \/ \E s \in Sessions : wpc[s] = "remove" /\ wreq[s].op = "delete"
                              /\ wreq[s].user = r.user]_allVars
=============================================================================
