--------------------------- MODULE TwoFrontsProofs ---------------------------
(***************************************************************************)
(* What the C++ server and the web driver keep together on tables user and *)
(* file, for any number of children, browsers, accounts and requests.      *)
(***************************************************************************)
EXTENDS TwoFrontsInvariant, FileTableProofs

-----------------------------------------------------------------------------
(* Paths and rows *)

\* What a browser's request holds.
LEMMA WebRequestTyped ==
  ASSUME NEW r \in WebRequests
  PROVE  /\ r.op \in WebOps /\ r.user \in Users /\ r.pw \in Passwords
         /\ r.src \in Path \ {<<>>} /\ r.dst \in Path \ {<<>>} /\ r.srcpath \in Path
         /\ r # None
  BY WebRequestsAssumption DEF Path

\* Only the root names the root.
LEMMA MatchesRoot ==
  ASSUME NEW path \in Path \ {<<>>}, Matches(Root, path)
  PROVE  path = Root
<1>1. Root \in Path /\ Len(Root) = 1
  BY RootPath DEF Root
<1>2. /\ Len(path) <= Len(Root)
      /\ \A i \in 1 .. Len(path) : Root[i] = path[i]
  BY <1>1, MatchesPrefix, Zenon
<1>3. Len(path) = 1
  BY <1>1, <1>2 DEF Path
<1> QED
  BY <1>1, <1>2, <1>3, SeqEqual DEF Path

\* A path that starts with another one and is not longer.
LEMMA ReplaceRoot ==
  ASSUME NEW p \in Path, NEW src \in Path, NEW dst \in Path \ {<<>>}, Len(src) <= Len(p),
         Replace(p, src, dst) = Root
  PROVE  dst = Root /\ Len(src) = Len(p)
<1>1. /\ Root \in Path /\ Len(Root) = 1
      /\ Len(dst) \in Nat /\ Len(p) \in Nat /\ Len(src) \in Nat /\ Len(dst) # 0
  <2>1. Root \in Path /\ Len(Root) = 1
    BY RootPath DEF Root
  <2>2. \A s \in Path : Len(s) \in Nat /\ (s # <<>> => Len(s) # 0)
    BY DEF Path
  <2> QED
    BY <2>1, <2>2
<1>2. /\ Len(Root) = Len(dst) + Len(p) - Len(src)
      /\ \A i \in 1 .. Len(dst) : Root[i] = dst[i]
  <2>1. /\ Len(Replace(p, src, dst)) = Len(dst) + Len(p) - Len(src)
        /\ \A i \in 1 .. Len(dst) : Replace(p, src, dst)[i] = dst[i]
    BY ReplaceIs, Zenon
  <2> QED
    BY <2>1
<1>3. Len(dst) = 1 /\ Len(src) = Len(p)
  <2>1. \A d, q, t \in Nat : d # 0 /\ t <= q /\ 1 = d + q - t => d = 1 /\ t = q
    OBVIOUS
  <2>2. Len(src) <= Len(p) /\ 1 = Len(dst) + Len(p) - Len(src)
    BY <1>1, <1>2
  <2> QED
    BY <1>1, <2>1, <2>2, Zenon
<1> QED
  BY <1>1, <1>2, <1>3, SeqEqual DEF Path

\* The rows a copy or a move of the C++ server adds.
LEMMA RenamedProper ==
  ASSUME \A r \in file : Proper(r), NEW u, NEW src \in Path,
         NEW dst \in Path \ {<<>>}, dst # Root
  PROVE  \A n \in Renamed(u, src, dst) : Proper(n)
<1> SUFFICES ASSUME NEW r \in Selected(u, src)
             PROVE  Proper([r EXCEPT !.path = Replace(r.path, src, dst)])
  BY DEF Renamed
<1>1. r \in Rows /\ r.path \in Path /\ Matches(r.path, src)
  BY DEF Selected, Proper, Rows, Path
<1>2. Len(src) <= Len(r.path)
  BY <1>1, MatchesPrefix, Zenon
<1>3. Replace(r.path, src, dst) \in Path
  BY <1>1, <1>2, ReplaceIs, Zenon
<1>4. Replace(r.path, src, dst) # Root
  BY <1>1, <1>2, ReplaceRoot, Zenon
<1> QED
  BY <1>1, <1>3, <1>4 DEF Proper, Rows, Path

-----------------------------------------------------------------------------
(* The C++ server's steps *)

\* What a child's step leaves in its locals.
ServerDuty(p, l, r, g) ==
  /\ \E v : Moves(p, l, r, g, v)
  /\ LocalTypes'
  /\ l # "idle" => r \in Requests
  /\ l \in RegistSteps => r.op = "regist"
  /\ l = "insert" => r.op \in {"copy", "move"}
  /\ l = "delete" => r.op = "move"
  /\ \A n \in g : Proper(n)

LEMMA ServerLocal ==
  ASSUME KeepsRoot, BothTypes, RowsInv, NEW p \in Procs,
         Continue(p) \/ \E r \in Requests : Begin(p, r)
  PROVE  \E l, r, g : ServerDuty(p, l, r, g)
<1> USE DEF RegistSteps, Labels
<1>1. LocalTypes /\ \A n \in got[p] : Proper(n)
  BY DEF BothTypes, LocalTypes, RowsInv
<1>2. ASSUME NEW v, Answer(p, v) PROVE ServerDuty(p, "idle", None, {})
  BY <1>1, <1>2, AnswerMoves DEF ServerDuty
<1>3. ASSUME NEW l \in Labels, NEW v, Goto(p, l, v), pc[p] # "idle",
             l \in RegistSteps => req[p].op = "regist",
             l = "insert" => req[p].op \in {"copy", "move"},
             l = "delete" => req[p].op = "move"
      PROVE  ServerDuty(p, l, req[p], got[p])
  BY <1>1, <1>3, GotoMoves DEF ServerDuty, BothTypes
<1>4. ASSUME NEW l \in Labels, NEW r \in Requests, NEW g, Start(p, l, r, g),
             l \in RegistSteps => r.op = "regist",
             l = "insert" => r.op \in {"copy", "move"},
             l # "delete", \A n \in g : Proper(n)
      PROVE  ServerDuty(p, l, r, g)
  BY <1>1, <1>4, StartMoves DEF ServerDuty
<1>5. CASE Continue(p)
  <2>1. ASSUME NEW l \in RegistSteps, NEW v, Goto(p, l, v), pc[p] \in RegistSteps
        PROVE  ServerDuty(p, l, req[p], got[p])
    BY <1>3, <2>1 DEF BothTypes
  <2>2. CASE InsertUser(p) \/ SendFlag(p) \/ CheckUser(p)
    <3>1. /\ pc[p] \in RegistSteps
          /\ (\E v : Answer(p, v)) \/ \E l \in RegistSteps : \E v : Goto(p, l, v)
      BY <2>2 DEF InsertUser, SendFlag, CheckUser
    <3> QED
      BY <1>2, <2>1, <3>1
  <2>3. CASE InsertRoot(p) \/ DeleteOld(p) \/ Kill(p)
    BY <1>2, <2>3 DEF InsertRoot, DeleteOld, Kill
  <2>4. CASE InsertRows(p)
    <3>1. /\ pc[p] = "insert" /\ req[p].op \in {"copy", "move"}
          /\ (\E v : Answer(p, v)) \/ (req[p].op # "copy" /\ Goto(p, "delete", None))
      BY <2>4 DEF InsertRows, BothTypes
    <3> QED
      BY <1>2, <1>3, <3>1
  <2> QED
    BY <1>5, <2>2, <2>3, <2>4 DEF Continue
<1>6. ASSUME NEW r \in Requests, Begin(p, r) PROVE \E l, q, g : ServerDuty(p, l, q, g)
  <2>1. CASE SelectUser(p, r)
    <3>1. PICK l \in {"insertUser", "sendTaken"} : Start(p, l, r, {}) /\ r.op = "regist"
      BY <2>1 DEF SelectUser, Take
    <3> QED
      BY <1>4, <3>1
  <2>2. CASE LogIn(p, r) \/ GetFileList(p, r) \/ AddFile(p, r) \/ DelFile(p, r)
    BY <1>2, <2>2 DEF LogIn, GetFileList, AddFile, DelFile
  <2>3. ASSUME NEW op \in {"copy", "move"}, SelectRows(p, op, r) PROVE \E l, q, g : ServerDuty(p, l, q, g)
    <3>1. /\ r.op = op
          /\ (\E v : Answer(p, v)) \/ Start(p, "insert", r, Renamed(r.user, r.src, r.dst))
      BY <2>3 DEF SelectRows, Take
    <3>2. \A n \in Renamed(r.user, r.src, r.dst) : Proper(n)
      BY <3>1, RequestTyped, RenamedProper DEF KeepsRoot, RowsInv
    <3> QED
      BY <1>2, <1>4, <3>1, <3>2
  <2> QED
    BY <1>6, <2>1, <2>2, <2>3 DEF Begin
<1> QED
  BY <1>5, <1>6

\* A child's step adds proper rows and takes no root away.
LEMMA ServerTable ==
  ASSUME KeepsRoot, BothTypes, RowsInv, NEW p \in Procs,
         Continue(p) \/ \E r \in Requests : Begin(p, r)
  PROVE  /\ \A r \in file' : Proper(r)
         /\ \A u \in Users : Row(u, Root, NULL) \in file => Row(u, Root, NULL) \in file'
<1>1. \A n \in file \union got[p] : Proper(n)
  BY DEF RowsInv
<1>2. ASSUME NEW u, NEW path \in Path \ {<<>>}, path # Root, file' = file \ Selected(u, path)
      PROVE  /\ \A r \in file' : Proper(r)
             /\ \A w \in Users : Row(w, Root, NULL) \in file => Row(w, Root, NULL) \in file'
  <2>1. \A w : Row(w, Root, NULL).path = Root
    BY DEF Row
  <2>2. ~ Matches(Root, path)
    BY <1>2, MatchesRoot
  <2> QED
    BY <1>1, <1>2, <2>1, <2>2 DEF Selected
<1>3. ASSUME NEW row, Proper(row), file' = file \/ file' = file \union {row}
      PROVE  /\ \A r \in file' : Proper(r)
             /\ \A w \in Users : Row(w, Root, NULL) \in file => Row(w, Root, NULL) \in file'
  BY <1>1, <1>3
<1>4. CASE InsertUser(p) \/ SendFlag(p) \/ CheckUser(p) \/ Kill(p)
  BY <1>1, <1>4 DEF InsertUser, SendFlag, CheckUser, Kill
<1>5. CASE InsertRoot(p)
  <2>1. Proper(Row(req[p].user, Root, NULL))
    <3>1. req[p].user \in Users /\ Root \in Seq(STRING)
      BY <1>5, RequestTyped, RootPath DEF InsertRoot, BothTypes, Path
    <3> QED
      BY <3>1 DEF Proper, Row
  <2> QED
    BY <1>3, <1>5, <2>1 DEF InsertRoot
<1>6. CASE InsertRows(p)
  BY <1>1, <1>6 DEF InsertRows
<1>7. CASE DeleteOld(p)
  <2>1. req[p] \in Requests /\ req[p].op = "move"
    BY <1>7 DEF DeleteOld, BothTypes
  <2>2. req[p].src \in Path \ {<<>>} /\ req[p].src # Root
    BY <2>1, RequestTyped DEF KeepsRoot
  <2> QED
    BY <1>2, <1>7, <2>2 DEF DeleteOld
<1>8. ASSUME NEW r \in Requests, Begin(p, r)
      PROVE  /\ \A n \in file' : Proper(n)
             /\ \A w \in Users : Row(w, Root, NULL) \in file => Row(w, Root, NULL) \in file'
  <2>1. CASE SelectUser(p, r) \/ LogIn(p, r) \/ GetFileList(p, r)
             \/ SelectRows(p, "copy", r) \/ SelectRows(p, "move", r)
    BY <1>1, <2>1 DEF SelectUser, LogIn, GetFileList, SelectRows
  <2>2. CASE AddFile(p, r)
    <3>1. Proper(Row(r.user, r.src, r.md5))
      BY <2>2, RequestTyped DEF AddFile, Take, KeepsRoot, Proper, Row, Path
    <3> QED
      BY <1>3, <2>2, <3>1 DEF AddFile
  <2>3. CASE DelFile(p, r)
    <3>1. r.src \in Path \ {<<>>} /\ r.src # Root
      BY <2>3, RequestTyped DEF DelFile, Take, KeepsRoot
    <3> QED
      BY <1>2, <2>3, <3>1 DEF DelFile
  <2> QED
    BY <1>8, <2>1, <2>2, <2>3 DEF Begin
<1> QED
  BY <1>4, <1>5, <1>6, <1>7, <1>8 DEF Continue

-----------------------------------------------------------------------------
(* The web driver's steps *)

\* Its operators on paths and rows are FileTable's.
LEMMA WebPaths ==
  /\ \A u, path, md5 : Web!Row(u, path, md5) = Row(u, path, md5)
  /\ \A path : Web!IsFolder(path) <=> IsFolder(path)
  /\ \A p, src, dst : Web!Replace(p, src, dst) = Replace(p, src, dst)
  /\ Web!Root = Root
<1>1. \A u, path, md5 : Web!Row(u, path, md5) = Row(u, path, md5)
  BY DEF Web!Row, Row
<1>2. \A path : Web!IsFolder(path) <=> IsFolder(path)
  BY DEF Web!IsFolder, IsFolder, Web!Last, Last, Web!Slash, Slash
<1>3. \A p, src, dst : Web!Replace(p, src, dst) = Replace(p, src, dst)
  BY DEF Web!Replace, Replace
<1>4. Web!Root = Root
  BY DEF Web!Root, Root, Web!Slash, Slash
<1> QED
  BY <1>1, <1>2, <1>3, <1>4

\* One browser's request moves.
WebMoves(s, label, r, rows) ==
  /\ wpc'[s] = label /\ wreq'[s] = r /\ plan'[s] = rows
  /\ \A q \in Sessions : q # s => wpc'[q] = wpc[q] /\ wreq'[q] = wreq[q] /\ plan'[q] = plan[q]

WebLabels == {"addUser", "insert", "follow", "remove"}

WebTypes == /\ wpc \in [Sessions -> WebLabels \union {"idle"}]
            /\ wreq \in [Sessions -> WebRequests \union {None}] /\ DOMAIN plan = Sessions

LEMMA ToMoves ==
  ASSUME WebTypes, NEW s \in Sessions, NEW r \in WebRequests, NEW label, NEW rows,
         label \in WebLabels \union {"idle"}, Web!To(s, r, label, rows)
  PROVE  /\ WebMoves(s, label, IF label = "idle" THEN None ELSE r, rows)
         /\ WebTypes'
  BY DEF WebTypes, Web!To, WebMoves

\* The rows copy adds, with the folder the browser is in above the source.
LEMMA CopiesProper ==
  ASSUME \A r \in file : Proper(r), NEW q \in WebRequests, Len(q.srcpath) < Len(q.src)
  PROVE  \A n \in Web!Copies(q) : Proper(n)
<1>1. /\ q.src \in Path \ {<<>>} /\ q.dst \in Path \ {<<>>} /\ q.srcpath \in Path
      /\ \A t \in file : t \in Rows /\ t.path \in Path
  BY WebRequestTyped DEF Proper, Rows, Path
<1>2. CASE Web!IsFolder(q.src)
  <2> SUFFICES ASSUME NEW t \in file, Web!Like(t.path, q.src)
               PROVE  Proper([t EXCEPT !.path = Replace(t.path, q.srcpath, q.dst)])
    BY <1>2, WebPaths DEF Web!Copies, Web!Mine
  <2>1. Len(q.src) <= Len(t.path)
    BY DEF Web!Like
  <2>2. Len(q.srcpath) < Len(t.path) /\ Len(q.srcpath) <= Len(t.path)
    <3>1. Len(q.src) \in Nat /\ Len(q.srcpath) \in Nat /\ Len(t.path) \in Nat
      BY <1>1 DEF Path
    <3> QED
      BY <2>1, <3>1
  <2>3. Replace(t.path, q.srcpath, q.dst) \in Path
    BY <1>1, <2>2, ReplaceIs, Zenon
  <2>4. Replace(t.path, q.srcpath, q.dst) = Root => Len(q.srcpath) = Len(t.path)
    BY <1>1, <2>2, ReplaceRoot, Zenon
  <2>5. Len(q.srcpath) # Len(t.path)
    BY <1>1, <2>2 DEF Path
  <2> QED
    BY <1>1, <2>3, <2>4, <2>5 DEF Proper, Rows, Path
<1>3. CASE ~ Web!IsFolder(q.src)
  <2> DEFINE new == Append(q.dst, Web!Name(q.src))
  <2>1. Web!Name(q.src) \in STRING
    BY <1>1, <1>3 DEF Web!Name, Web!Last, Path
  <2>2. new \in Path /\ Len(new) = Len(q.dst) + 1 /\ Len(q.dst) # 0 /\ Len(q.dst) \in Nat
    BY <1>1, <2>1 DEF Path
  <2> HIDE DEF new
  <2>3. new # Root
    <3>1. Len(Root) = 1
      BY DEF Root
    <3>2. \A n \in Nat : n # 0 => n + 1 # 1
      OBVIOUS
    <3> QED
      BY <2>2, <3>1, <3>2, Zenon
  <2> SUFFICES ASSUME NEW t \in file PROVE Proper([t EXCEPT !.path = new])
    BY <1>3 DEF Web!Copies, Web!Mine, new
  <2> QED
    BY <1>1, <2>2, <2>3 DEF Proper, Rows, Path
<1> QED
  BY <1>2, <1>3

\* delete does not read the root's row.
LEMMA DoomedRows ==
  ASSUME \A r \in file : Proper(r), NEW q \in WebRequests, q.src # Root
  PROVE  \A t \in Web!Doomed(q) : t.path # Root
<1>1. q.src \in Path \ {<<>>}
  BY WebRequestTyped
<1> SUFFICES ASSUME NEW t \in Web!Doomed(q), t.path = Root PROVE FALSE
  OBVIOUS
<1>2. IsFolder(q.src) /\ Web!Like(Root, q.src)
  BY WebPaths DEF Web!Doomed
<1>3. Len(Root) = 1
  BY DEF Root
<1>4. Len(q.src) = 1
  <2>1. Len(q.src) \in Nat /\ Len(q.src) # 0
    BY <1>1 DEF Path
  <2>2. Len(q.src) <= 1
    BY <1>2, <1>3 DEF Web!Like
  <2>3. \A n \in Nat : n # 0 /\ n <= 1 => n = 1
    OBVIOUS
  <2> QED
    BY <2>1, <2>2, <2>3, Zenon
<1>5. q.src[1] = Slash
  BY <1>1, <1>2, <1>4 DEF IsFolder, Last
<1>6. q.src = Root
  <2>1. Root[1] = Slash /\ Root \in Path
    BY RootPath DEF Root
  <2> QED
    BY <1>1, <1>3, <1>4, <1>5, <2>1, SeqEqual DEF Path
<1> QED
  BY <1>6

\* What a page's step leaves with the browser's request.
WebDuty(s, label, r, rows) ==
  /\ WebMoves(s, label, r, rows)
  /\ WebTypes'
  /\ label # "idle" => r \in WebRequests
  /\ label = "addUser" => r.op = "register"
  /\ label = "follow" => r.op = "move"
  /\ \A n \in rows : /\ label = "insert" => Proper(n)
                     /\ label = "remove" => n.path # Root

LEMMA WebLocal ==
  ASSUME KeepsRoot, BothTypes, RowsInv, NEW s \in Sessions,
         Web!Proceed(s) \/ \E r \in WebRequests : Web!Ask(s, r)
  PROVE  \E label, r, rows : WebDuty(s, label, r, rows)
<1> USE DEF WebLabels
<1>1. WebTypes /\ \A r \in file : Proper(r)
  BY DEF BothTypes, WebTypes, RowsInv
<1>2. ASSUME NEW r \in WebRequests, NEW rows, Web!To(s, r, "idle", rows), rows = {}
      PROVE  WebDuty(s, "idle", None, {})
  BY <1>1, <1>2, ToMoves DEF WebDuty
<1>3. ASSUME NEW r \in WebRequests, NEW label \in WebLabels, NEW rows, Web!To(s, r, label, rows),
             label = "addUser" => r.op = "register",
             label = "follow" => r.op = "move",
             \A n \in rows : /\ label = "insert" => Proper(n)
                             /\ label = "remove" => n.path # Root
      PROVE  WebDuty(s, label, r, rows)
  BY <1>1, <1>3, ToMoves DEF WebDuty
<1>4. ASSUME NEW u \in Users, NEW path \in Path PROVE Proper(Web!Row(u, path, NULL))
  BY <1>4, WebPaths DEF Proper, Row, Path
<1>5. CASE Web!Proceed(s)
  <2>1. wpc[s] # "idle" => wreq[s] \in WebRequests
    BY DEF BothTypes
  <2>2. CASE Web!AddUser(s)
    <3>1. wreq[s] \in WebRequests /\ wreq[s].user \in Users /\ wpc[s] = "addUser"
      BY <2>1, <2>2, WebRequestTyped DEF Web!AddUser
    <3>2. \/ Web!To(s, wreq[s], "insert", {Web!Row(wreq[s].user, Web!Root, NULL)})
          \/ Web!To(s, wreq[s], "idle", {})
      BY <2>2 DEF Web!AddUser
    <3>3. Proper(Web!Row(wreq[s].user, Web!Root, NULL))
      BY <1>4, <3>1, RootPath, WebPaths
    <3> QED
      BY <1>2, <1>3, <3>1, <3>2, <3>3
  <2>3. CASE Web!Insert(s)
    <3>1. wreq[s] \in WebRequests
      BY <2>1, <2>3 DEF Web!Insert
    <3>2. \/ Web!To(s, wreq[s], "follow", {}) /\ wreq[s].op = "move"
          \/ Web!To(s, wreq[s], "idle", {})
      BY <2>3 DEF Web!Insert
    <3> QED
      BY <1>2, <1>3, <3>1, <3>2
  <2>4. CASE Web!Follow(s)
    <3>1. wreq[s] \in WebRequests /\ wreq[s].src # Root
      BY <2>1, <2>4 DEF Web!Follow, BothTypes, KeepsRoot
    <3>2. \/ Web!To(s, wreq[s], "remove", Web!Doomed(wreq[s]))
          \/ Web!To(s, wreq[s], "idle", {})
      BY <2>4 DEF Web!Follow
    <3>3. \A t \in Web!Doomed(wreq[s]) : t.path # Root
      BY <1>1, <3>1, DoomedRows
    <3> QED
      BY <1>2, <1>3, <3>1, <3>2, <3>3
  <2>5. CASE Web!RemoveRows(s)
    BY <1>2, <2>1, <2>5 DEF Web!RemoveRows
  <2> QED
    BY <1>5, <2>2, <2>3, <2>4, <2>5 DEF Web!Proceed
<1>6. ASSUME NEW r \in WebRequests, Web!Ask(s, r) PROVE \E label, q, rows : WebDuty(s, label, q, rows)
  <2>1. CASE Web!FindUser(s, r)
    <3>1. r.op = "register" /\ (Web!To(s, r, "addUser", {}) \/ Web!To(s, r, "idle", {}))
      BY <2>1 DEF Web!FindUser, Web!Take
    <3> QED
      BY <1>2, <1>3, <3>1
  <2>2. CASE Web!NewFolder(s, r)
    <3>1. \/ Web!To(s, r, "insert", {Web!Row(r.user, r.src, NULL)})
          \/ Web!To(s, r, "idle", {})
      BY <2>2 DEF Web!NewFolder
    <3>2. Proper(Web!Row(r.user, r.src, NULL))
      BY <1>4, WebRequestTyped
    <3> QED
      BY <1>2, <1>3, <3>1, <3>2
  <2>3. CASE Web!Copy(s, r)
    <3>1. /\ r.op \in {"copy", "move"}
          /\ Web!To(s, r, "insert", Web!Copies(r)) \/ Web!To(s, r, "idle", {})
      BY <2>3 DEF Web!Copy
    <3>2. \A n \in Web!Copies(r) : Proper(n)
      BY <1>1, <3>1, CopiesProper DEF KeepsRoot
    <3> QED
      BY <1>2, <1>3, <3>1, <3>2
  <2>4. CASE Web!Delete(s, r)
    <3>1. /\ r.op = "delete"
          /\ \/ Web!To(s, r, "remove", Web!Doomed(r))
             \/ Web!To(s, r, "idle", Web!Doomed(r)) /\ Web!Doomed(r) = {}
      BY <2>4 DEF Web!Delete, Web!Take
    <3>2. \A t \in Web!Doomed(r) : t.path # Root
      BY <1>1, <3>1, DoomedRows DEF KeepsRoot
    <3> QED
      BY <1>2, <1>3, <3>1, <3>2
  <2> QED
    BY <1>6, <2>1, <2>2, <2>3, <2>4 DEF Web!Ask
<1> QED
  BY <1>5, <1>6

\* A page's step adds proper rows and takes no root away.
LEMMA WebTableStep ==
  ASSUME KeepsRoot, BothTypes, RowsInv, NEW s \in Sessions,
         Web!Proceed(s) \/ \E r \in WebRequests : Web!Ask(s, r)
  PROVE  /\ \A r \in file' : Proper(r)
         /\ \A u \in Users : Row(u, Root, NULL) \in file => Row(u, Root, NULL) \in file'
<1>1. CASE file' = file
  BY <1>1 DEF RowsInv
<1>2. CASE Web!Insert(s)
  <2>1. wpc[s] = "insert" /\ (file' = file \/ file' = file \union plan[s])
    BY <1>2 DEF Web!Insert, Web!Commit
  <2> QED
    BY <2>1 DEF RowsInv
<1>3. CASE Web!RemoveRows(s)
  <2>1. /\ wpc[s] = "remove"
        /\ file' = {r \in file : <<r.user, r.path>> \notin {<<t.user, t.path>> : t \in plan[s]}}
    BY <1>3 DEF Web!RemoveRows, Web!Keys
  <2>2. \A u : Row(u, Root, NULL).path = Root
    BY DEF Row
  <2>3. \A t \in plan[s] : t.path # Root
    BY <2>1 DEF RowsInv
  <2> QED
    BY <2>1, <2>2, <2>3 DEF RowsInv
<1>4. \/ file' = file \/ Web!Insert(s) \/ Web!RemoveRows(s)
  BY DEF Web!Proceed, Web!Ask, Web!AddUser, Web!Follow, Web!FindUser, Web!NewFolder,
         Web!Copy, Web!Delete, Web!Take
<1> QED
  BY <1>1, <1>2, <1>3, <1>4

-----------------------------------------------------------------------------
(* BothInv *)

\* The table of accounts after a step: a password is set once, by a child that
\* then sends it or by a page that then inserts the root.
LEMMA UserStep ==
  ASSUME BothTypes, BothNext
  PROVE  /\ user' \in [Users -> Passwords \union {NoPassword}]
         /\ \A u \in Users : user[u] # NoPassword => user'[u] = user[u]
         /\ \A u \in Users : user[u] = NoPassword /\ user'[u] # NoPassword =>
              \/ \E p \in Procs : Makes(p, u)'
              \/ \E s \in Sessions : WebMakes(s, u)'
<1>1. CASE user' = user
  BY <1>1 DEF BothTypes
<1>2. ASSUME NEW p \in Procs, InsertUser(p), UNCHANGED <<wpc, wreq, plan>>, user' # user
      PROVE  /\ user' \in [Users -> Passwords \union {NoPassword}]
             /\ \A u \in Users : user[u] # NoPassword => user'[u] = user[u]
             /\ \A u \in Users : user[u] = NoPassword /\ user'[u] # NoPassword =>
                  \E q \in Procs : Makes(q, u)'
  <2>1. /\ req[p] \in Requests /\ req[p].user \in Users /\ req[p].pw \in Passwords
    BY <1>2, RequestTyped DEF InsertUser, BothTypes
  <2>2. /\ user[req[p].user] = NoPassword
        /\ user' = [user EXCEPT ![req[p].user] = req[p].pw]
        /\ Goto(p, "sendDone", None)
    BY <1>2 DEF InsertUser
  <2>3. pc'[p] = "sendDone" /\ req'[p] = req[p]
    BY <2>2 DEF Goto, BothTypes
  <2>4. user'[req[p].user] = req[p].pw
    BY <2>1, <2>2 DEF BothTypes
  <2>5. Makes(p, req[p].user)'
    BY <2>3, <2>4 DEF Makes
  <2>6. \A u \in Users : u # req[p].user => user'[u] = user[u]
    BY <2>2 DEF BothTypes
  <2>7. user' \in [Users -> Passwords \union {NoPassword}]
    BY <2>1, <2>2 DEF BothTypes
  <2>8. ASSUME NEW u \in Users, user[u] = NoPassword, user'[u] # NoPassword
        PROVE  \E q \in Procs : Makes(q, u)'
    <3>1. u = req[p].user
      BY <2>6, <2>8
    <3> QED
      BY <2>3, <2>4, <3>1 DEF Makes
  <2> QED
    BY <2>2, <2>6, <2>7, <2>8
<1>3. ASSUME NEW s \in Sessions, Web!AddUser(s), user' # user
      PROVE  /\ user' \in [Users -> Passwords \union {NoPassword}]
             /\ \A u \in Users : user[u] # NoPassword => user'[u] = user[u]
             /\ \A u \in Users : user[u] = NoPassword /\ user'[u] # NoPassword =>
                  \E q \in Sessions : WebMakes(q, u)'
  <2>1. /\ wreq[s] \in WebRequests /\ wreq[s].user \in Users /\ wreq[s].pw \in Passwords
        /\ wreq[s].op = "register"
    BY <1>3, WebRequestTyped DEF Web!AddUser, BothTypes
  <2>2. /\ user[wreq[s].user] = NoPassword
        /\ user' = [user EXCEPT ![wreq[s].user] = wreq[s].pw]
        /\ Web!To(s, wreq[s], "insert", {Web!Row(wreq[s].user, Web!Root, NULL)})
    BY <1>3 DEF Web!AddUser
  <2>3. WebMoves(s, "insert", wreq[s], {Row(wreq[s].user, Root, NULL)})
    <3>1. WebTypes
      BY DEF BothTypes, WebTypes, WebLabels
    <3>2. {Web!Row(wreq[s].user, Web!Root, NULL)} = {Row(wreq[s].user, Root, NULL)}
      BY WebPaths
    <3> QED
      BY <2>1, <2>2, <3>1, <3>2, ToMoves DEF WebLabels
  <2>4. \A u \in Users : u # wreq[s].user => user'[u] = user[u]
    BY <2>2 DEF BothTypes
  <2>5. user' \in [Users -> Passwords \union {NoPassword}]
    BY <2>1, <2>2 DEF BothTypes
  <2>6. ASSUME NEW u \in Users, user[u] = NoPassword, user'[u] # NoPassword
        PROVE  \E q \in Sessions : WebMakes(q, u)'
    <3>1. u = wreq[s].user
      BY <2>4, <2>6
    <3>2. WebMakes(s, u)'
      BY <2>1, <2>3, <3>1 DEF WebMakes, WebMoves, Row
    <3> QED
      BY <3>2
  <2> QED
    BY <2>2, <2>4, <2>5, <2>6
<1>4. \/ user' = user
      \/ \E p \in Procs : InsertUser(p) /\ UNCHANGED <<wpc, wreq, plan>>
      \/ \E s \in Sessions : Web!AddUser(s)
  <2>1. ASSUME NEW p \in Procs, Continue(p) PROVE user' = user \/ InsertUser(p)
    BY <2>1 DEF Continue, SendFlag, CheckUser, InsertRoot, InsertRows, DeleteOld, Kill
  <2>2. ASSUME NEW p \in Procs, NEW r \in Requests, Begin(p, r) PROVE user' = user
    BY <2>2 DEF Begin, SelectUser, LogIn, GetFileList, AddFile, DelFile, SelectRows
  <2>3. ASSUME NEW s \in Sessions, Web!Proceed(s) PROVE user' = user \/ Web!AddUser(s)
    BY <2>3 DEF Web!Proceed, Web!Insert, Web!Follow, Web!RemoveRows
  <2>4. ASSUME NEW s \in Sessions, NEW r \in WebRequests, Web!Ask(s, r) PROVE user' = user
    BY <2>4 DEF Web!Ask, Web!FindUser, Web!NewFolder, Web!Copy, Web!Delete, Web!Take
  <2> QED
    BY <2>1, <2>2, <2>3, <2>4 DEF BothNext, ServerStep, WebStep
<1> QED
  BY <1>1, <1>2, <1>3, <1>4

\* What a child promises to an account, it or the row keeps.
LEMMA MakerMoves ==
  ASSUME KeepsRoot, KillAt \cap {"sendDone", "checkUser", "rootRow"} = {}, BothTypes, RowsInv,
         NEW p \in Procs, NEW u \in Users, Makes(p, u), user[u] # NoPassword, user'[u] = user[u],
         Continue(p) \/ \E r \in Requests : Begin(p, r)
  PROVE  Makes(p, u)' \/ Row(u, Root, NULL) \in file'
<1>1. pc[p] \in {"sendDone", "checkUser", "rootRow"} /\ req[p].user = u
  BY DEF Makes
<1>2. LocalTypes /\ {"checkUser", "rootRow"} \subseteq Labels
  BY DEF BothTypes, LocalTypes, Labels
<1>3. CASE SendFlag(p)
  <2>1. \E v : Moves(p, "checkUser", req[p], got[p], v)
    BY <1>2, <1>3, GotoMoves DEF SendFlag
  <2>2. user[u] = req[p].pw
    BY <1>3 DEF Makes, SendFlag
  <2> QED
    BY <1>1, <2>1, <2>2 DEF Makes, Moves
<1>4. CASE CheckUser(p)
  <2>1. user[u] = req[p].pw
    BY <1>4 DEF Makes, CheckUser
  <2>2. Goto(p, "rootRow", reply[p])
    BY <1>1, <1>4, <2>1 DEF CheckUser
  <2>3. Moves(p, "rootRow", req[p], got[p], reply[p])
    BY <1>2, <2>2, GotoMoves
  <2> QED
    BY <1>1, <2>3 DEF Makes, Moves
<1>5. CASE InsertRoot(p)
  <2> DEFINE root == Row(u, Root, NULL)
  <2>1. file' = IF Insertable({root}) THEN file \union {root} ELSE file
    BY <1>1, <1>5 DEF InsertRoot
  <2>2. CASE \E t \in file : SameKey(root, t)
    <3>1. PICK t \in file : t.user = u /\ t.path = Root
      BY <2>2 DEF SameKey, Row
    <3>2. t = root
      BY <3>1 DEF RowsInv, Proper, Row
    <3> QED
      BY <2>1, <3>2
  <2>3. CASE ~ \E t \in file : SameKey(root, t)
    <3>1. root.user = u
      BY DEF Row
    <3>2. Insertable({root})
      BY <2>3, <3>1 DEF Insertable
    <3> QED
      BY <2>1, <3>2
  <2> QED
    BY <2>2, <2>3
<1>6. \/ SendFlag(p) \/ CheckUser(p) \/ InsertRoot(p)
  <2>1. ~ InsertUser(p) /\ ~ InsertRows(p) /\ ~ DeleteOld(p) /\ ~ Kill(p)
    BY <1>1 DEF InsertUser, InsertRows, DeleteOld, Kill
  <2>2. ~ \E r \in Requests : Begin(p, r)
    BY <1>1 DEF Begin, SelectUser, LogIn, GetFileList, AddFile, DelFile, SelectRows, Take
  <2> QED
    BY <2>1, <2>2 DEF Continue
<1> QED
  BY <1>3, <1>4, <1>5, <1>6

\* What a page promises to an account, it or the row keeps.
LEMMA WebMakerMoves ==
  ASSUME BothTypes, RowsInv, NEW s \in Sessions, NEW u \in Users, WebMakes(s, u),
         Web!Proceed(s) \/ \E r \in WebRequests : Web!Ask(s, r)
  PROVE  Row(u, Root, NULL) \in file'
<1> DEFINE root == Row(u, Root, NULL)
<1>1. wpc[s] = "insert" /\ plan[s] = {root}
  BY DEF WebMakes
<1>2. Web!Insert(s)
  BY <1>1 DEF Web!Proceed, Web!Ask, Web!AddUser, Web!Follow, Web!RemoveRows, Web!FindUser,
     Web!NewFolder, Web!Copy, Web!Delete, Web!Take
<1>3. file' = IF Web!Unused({root}) THEN file \union {root} ELSE file
  BY <1>1, <1>2 DEF Web!Insert, Web!Commit
<1>4. ASSUME ~ Web!Unused({root}) PROVE root \in file
  <2>1. PICK t \in file : <<t.user, t.path>> = <<root.user, root.path>>
    BY <1>4 DEF Web!Unused, Web!Keys
  <2>2. t.user = u /\ t.path = Root
    BY <2>1 DEF Row
  <2> QED
    BY <2>2 DEF RowsInv, Proper, Row
<1> HIDE DEF root
<1>5. root \in file'
  BY <1>3, <1>4
<1> QED
  BY <1>5 DEF root

\* A step of either program keeps BothInv.
LEMMA BothStep ==
  ASSUME KeepsRoot, KillAt \cap {"sendDone", "checkUser", "rootRow"} = {}, BothInv,
         [BothNext]_allVars
  PROVE  BothInv'
<1>1. BothTypes /\ RowsInv /\ RootInv
  BY DEF BothInv
<1>2. ASSUME NEW p \in Procs, ServerStep(p) PROVE BothInv'
  <2>1. /\ Continue(p) \/ \E r \in Requests : Begin(p, r)
        /\ wpc' = wpc /\ wreq' = wreq /\ plan' = plan
    BY <1>2 DEF ServerStep
  <2>2. PICK l, r, g : ServerDuty(p, l, r, g)
    BY <1>1, <2>1, ServerLocal
  <2>3. PICK v : Moves(p, l, r, g, v)
    BY <2>2 DEF ServerDuty
  <2>4. /\ user' \in [Users -> Passwords \union {NoPassword}]
        /\ \A u \in Users : user[u] # NoPassword => user'[u] = user[u]
        /\ \A u \in Users : user[u] = NoPassword /\ user'[u] # NoPassword =>
              \/ \E q \in Procs : Makes(q, u)'
              \/ \E s \in Sessions : WebMakes(s, u)'
    BY <1>1, <1>2, UserStep DEF BothNext
  <2>5. /\ \A n \in file' : Proper(n)
        /\ \A u \in Users : Row(u, Root, NULL) \in file => Row(u, Root, NULL) \in file'
    BY <1>1, <2>1, ServerTable
  <2>6. BothTypes'
    <3>1. LocalTypes' /\ (l # "idle" => r \in Requests) /\ (l \in RegistSteps => r.op = "regist")
          /\ (l = "insert" => r.op \in {"copy", "move"}) /\ (l = "delete" => r.op = "move")
      BY <2>2 DEF ServerDuty
    <3>2. \A q \in Procs : /\ pc'[q] # "idle" => req'[q] # None
                           /\ pc'[q] \in RegistSteps => req'[q].op = "regist"
                           /\ pc'[q] = "insert" => req'[q].op \in {"copy", "move"}
                           /\ pc'[q] = "delete" => req'[q].op = "move"
      BY <1>1, <2>3, <3>1, RequestTyped DEF BothTypes, Moves
    <3> QED
      BY <1>1, <2>1, <2>4, <3>1, <3>2 DEF BothTypes, LocalTypes
  <2>7. RowsInv'
    <3>1. \A n \in g : Proper(n)
      BY <2>2 DEF ServerDuty
    <3>2. \A q \in Procs : \A n \in got'[q] : Proper(n)
      BY <1>1, <2>3, <3>1 DEF RowsInv, Moves
    <3> QED
      BY <1>1, <2>1, <2>5, <3>2 DEF RowsInv, Proper
  <2>8. ASSUME NEW u \in Users, user[u] # NoPassword
        PROVE  \/ Row(u, Root, NULL) \in file'
               \/ \E q \in Procs : Makes(q, u)'
               \/ \E s \in Sessions : WebMakes(s, u)'
    <3>1. user'[u] = user[u]
      BY <2>4, <2>8
    <3>2. ASSUME NEW q \in Procs, Makes(q, u), q # p PROVE Makes(q, u)'
      BY <2>3, <3>1, <3>2 DEF Makes, Moves
    <3>3. ASSUME NEW s \in Sessions, WebMakes(s, u) PROVE WebMakes(s, u)'
      BY <2>1, <3>3 DEF WebMakes, Row
    <3>4. ASSUME Makes(p, u) PROVE Makes(p, u)' \/ Row(u, Root, NULL) \in file'
      BY <1>1, <2>1, <2>8, <3>1, <3>4, MakerMoves
    <3> QED
      BY <1>1, <2>5, <2>8, <3>2, <3>3, <3>4 DEF RootInv
  <2>9. RootInv'
    BY <2>4, <2>8 DEF RootInv, Row
  <2> QED
    BY <2>6, <2>7, <2>9 DEF BothInv
<1>3. ASSUME NEW s \in Sessions, WebStep(s) PROVE BothInv'
  <2>1. /\ Web!Proceed(s) \/ \E r \in WebRequests : Web!Ask(s, r)
        /\ pc' = pc /\ req' = req /\ got' = got /\ reply' = reply
    BY <1>3 DEF WebStep, locals
  <2>2. PICK label, r, rows : WebDuty(s, label, r, rows)
    BY <1>1, <2>1, WebLocal
  <2>3. /\ WebMoves(s, label, r, rows) /\ WebTypes'
        /\ label # "idle" => r \in WebRequests
        /\ label = "addUser" => r.op = "register"
        /\ label = "follow" => r.op = "move"
        /\ \A n \in rows : (label = "insert" => Proper(n)) /\ (label = "remove" => n.path # Root)
    BY <2>2 DEF WebDuty
  <2>4. /\ user' \in [Users -> Passwords \union {NoPassword}]
        /\ \A u \in Users : user[u] # NoPassword => user'[u] = user[u]
        /\ \A u \in Users : user[u] = NoPassword /\ user'[u] # NoPassword =>
              \/ \E q \in Procs : Makes(q, u)'
              \/ \E t \in Sessions : WebMakes(t, u)'
    BY <1>1, <1>3, UserStep DEF BothNext
  <2>5. /\ \A n \in file' : Proper(n)
        /\ \A u \in Users : Row(u, Root, NULL) \in file => Row(u, Root, NULL) \in file'
    BY <1>1, <2>1, WebTableStep
  <2>6. BothTypes'
    <3>1. \A t \in Sessions : /\ wpc'[t] # "idle" => wreq'[t] # None
                              /\ wpc'[t] = "addUser" => wreq'[t].op = "register"
                              /\ wpc'[t] = "follow" => wreq'[t].op = "move"
      BY <1>1, <2>3, WebRequestTyped DEF BothTypes, WebMoves
    <3> QED
      BY <1>1, <2>1, <2>3, <2>4, <3>1 DEF BothTypes, WebTypes, WebLabels
  <2>7. RowsInv'
    <3>1. \A t \in Sessions : \A n \in plan'[t] : /\ wpc'[t] = "insert" => Proper(n)
                                                  /\ wpc'[t] = "remove" => n.path # Root
      BY <1>1, <2>3 DEF RowsInv, WebMoves
    <3> QED
      BY <1>1, <2>1, <2>5, <3>1 DEF RowsInv, Proper
  <2>8. ASSUME NEW u \in Users, user[u] # NoPassword
        PROVE  \/ Row(u, Root, NULL) \in file'
               \/ \E q \in Procs : Makes(q, u)'
               \/ \E t \in Sessions : WebMakes(t, u)'
    <3>1. user'[u] = user[u]
      BY <2>4, <2>8
    <3>2. ASSUME NEW q \in Procs, Makes(q, u) PROVE Makes(q, u)'
      BY <2>1, <3>1, <3>2 DEF Makes
    <3>3. ASSUME NEW t \in Sessions, WebMakes(t, u), t # s PROVE WebMakes(t, u)'
      BY <2>3, <3>3 DEF WebMakes, WebMoves, Row
    <3>4. ASSUME WebMakes(s, u) PROVE Row(u, Root, NULL) \in file'
      BY <1>1, <2>1, <3>4, WebMakerMoves
    <3> QED
      BY <1>1, <2>5, <2>8, <3>2, <3>3, <3>4 DEF RootInv
  <2>9. RootInv'
    BY <2>4, <2>8 DEF RootInv, Row
  <2> QED
    BY <2>6, <2>7, <2>9 DEF BothInv
<1>4. CASE UNCHANGED allVars
  BY <1>1, <1>4 DEF allVars, vars, locals, BothInv, BothTypes, RowsInv, RootInv, Proper,
     Makes, WebMakes, Row
<1> QED
  BY <1>2, <1>3, <1>4 DEF BothNext

\* BothInv in every reachable state.
THEOREM BothInvariance ==
  KeepsRoot /\ KillAt \cap {"sendDone", "checkUser", "rootRow"} = {} => (BothSpec => []BothInv)
<1> SUFFICES ASSUME KeepsRoot, KillAt \cap {"sendDone", "checkUser", "rootRow"} = {}
             PROVE  BothSpec => []BothInv
  OBVIOUS
<1>1. BothInit => BothInv
  BY DEF BothInit, Init, Web!WebInit, BothInv, BothTypes, RowsInv, RootInv, RegistSteps, Labels
<1>2. BothInv /\ [BothNext]_allVars => BothInv'
  BY BothStep
<1> QED
  BY <1>1, <1>2, PTL DEF BothSpec

\* AccountHasRoot: whichever program makes an account, whatever else is going
\* on, it has its root folder or someone is about to give it one
\* (server.cpp's regist, views.py's register), as long as no child dies on the way.
THEOREM AccountsHaveRoots ==
  KeepsRoot /\ KillAt \cap {"sendDone", "checkUser", "rootRow"} = {}
    => (BothSpec => []AccountHasRoot)
<1>1. BothInv => AccountHasRoot
  <2> SUFFICES ASSUME BothInv, NEW u \in Users, user[u] # NoPassword
               PROVE  \/ Row(u, Root, NULL) \in file
                      \/ \E p \in Procs : pc[p] # "idle" /\ req[p].op = "regist" /\ req[p].user = u
                      \/ \E s \in Sessions :
                           wpc[s] # "idle" /\ wreq[s].op = "register" /\ wreq[s].user = u
    BY DEF AccountHasRoot
  <2>1. ASSUME NEW p \in Procs, Makes(p, u)
        PROVE  pc[p] # "idle" /\ req[p].op = "regist" /\ req[p].user = u
    BY <2>1 DEF BothInv, BothTypes, Makes, RegistSteps
  <2>2. ASSUME NEW s \in Sessions, WebMakes(s, u)
        PROVE  wpc[s] # "idle" /\ wreq[s].op = "register" /\ wreq[s].user = u
    BY <2>2 DEF WebMakes
  <2> QED
    BY <2>1, <2>2 DEF BothInv, RootInv
<1> QED
  BY <1>1, BothInvariance, PTL

\* FirstPasswordStays: a registered name keeps its password, whatever children
\* and browsers do at once (the unique key behind DB_Operate.cpp's Insert_User
\* and views.py's register); no condition on requests or deaths.
THEOREM PasswordsStay == BothSpec => FirstPasswordStays
<1> DEFINE Registers == \/ user' = user
                        \/ \E u, pw : user[u] = NoPassword /\ user' = [user EXCEPT ![u] = pw]
           Table == user = [u \in Users |-> user[u]]
           Kept == \A u \in Users : user[u] # NoPassword => user'[u] = user[u]
<1>1. ASSUME BothNext
      PROVE  Registers
  <2>1. ASSUME NEW p \in Procs, Continue(p)
        PROVE  Registers
    BY <2>1 DEF Continue, InsertUser, SendFlag, CheckUser, InsertRoot, InsertRows, DeleteOld, Kill
  <2>2. ASSUME NEW p \in Procs, NEW r \in Requests, Begin(p, r)
        PROVE  Registers
    BY <2>2 DEF Begin, SelectUser, LogIn, GetFileList, AddFile, DelFile, SelectRows
  <2>3. ASSUME NEW s \in Sessions, Web!Proceed(s)
        PROVE  Registers
    BY <2>3 DEF Web!Proceed, Web!AddUser, Web!Insert, Web!Follow, Web!RemoveRows
  <2>4. ASSUME NEW s \in Sessions, NEW r \in WebRequests, Web!Ask(s, r)
        PROVE  Registers
    BY <2>4 DEF Web!Ask, Web!FindUser, Web!NewFolder, Web!Copy, Web!Delete, Web!Take
  <2>5. \/ \E p \in Procs : Continue(p) \/ \E r \in Requests : Begin(p, r)
        \/ \E s \in Sessions : Web!Proceed(s) \/ \E r \in WebRequests : Web!Ask(s, r)
    BY <1>1 DEF BothNext, ServerStep, WebStep
  <2> HIDE DEF Registers
  <2> QED
    BY <2>1, <2>2, <2>3, <2>4, <2>5
<1>2. Table /\ [BothNext]_allVars => Table' /\ Kept
  <2>1. ASSUME Table, user' = user PROVE Table' /\ Kept
    BY <2>1
  <2>2. ASSUME Table, NEW u, NEW pw, user[u] = NoPassword, user' = [user EXCEPT ![u] = pw]
        PROVE  Table' /\ Kept
    BY <2>2
  <2>3. UNCHANGED allVars => user' = user
    BY DEF allVars, vars
  <2> QED
    BY <1>1, <2>1, <2>2, <2>3
<1>3. BothInit => Table
  BY DEF BothInit, Init
<1>4. Table /\ [BothNext]_allVars => [Kept]_allVars
  BY <1>2
<1> QED
  BY <1>2, <1>3, <1>4, PTL DEF BothSpec, FirstPasswordStays

-----------------------------------------------------------------------------
(* What the pages copy and delete, in the server's terms *)

LEMMA WebLists ==
  /\ \A p, path : Web!Like(p, path) <=> Like(p, path)
  /\ \A folder, p : Web!IsPrefix(folder, p) <=> IsPrefix(folder, p)
  /\ \A paths, visit : Web!BuildTree(paths, visit) = BuildTree(paths, visit)
<1>1. Web!Wildcard = Wildcard
  BY Zenon DEF Web!Wildcard, Wildcard
<1>2. \A p, path : Web!Like(p, path) <=> Like(p, path)
  BY <1>1 DEF Web!Like, Like
<1>3. \A folder, p : Web!IsPrefix(folder, p) <=> IsPrefix(folder, p)
  BY DEF Web!IsPrefix, IsPrefix
<1>4. \A paths, visit : Web!BuildTree(paths, visit) = BuildTree(paths, visit)
  BY <1>3, Zenon DEF Web!BuildTree, BuildTree, Web!Rest, Rest, Web!Slash, Slash, Web!Range, Range
<1> QED
  BY <1>2, <1>3, <1>4

\* LIKE a good folder's path is lying below it.
LEMMA LikeUnder ==
  ASSUME NEW p \in Path, NEW path, Good(path)
  PROVE  Like(p, path) <=> Under(p, path)
<1>1. path \in Path /\ \A i \in DOMAIN path : path[i] # Wildcard
  BY GoodIs DEF Good
<1>2. DOMAIN path = 1 .. Len(path)
  BY <1>1 DEF Path
<1> QED
  BY <1>1, <1>2 DEF Like, Under

\* delete names the rows that delFile matches.
LEMMA NamedIs ==
  ASSUME WebShaped, NEW p \in Path, NEW r \in WebRequests
  PROVE  Named(p, r) <=> Matches(p, r.src)
<1>1. Good(r.src)
  BY DEF WebShaped
<1>2. CASE IsFolder(r.src)
  <2>1. Like(p, r.src) <=> Matches(p, r.src)
    BY <1>1, <1>2, LikeUnder, MatchesUnder, Zenon
  <2> QED
    BY <1>2, <2>1 DEF Named
<1>3. CASE ~IsFolder(r.src)
  BY <1>3 DEF Named, Matches
<1> QED
  BY <1>2, <1>3

LEMMA DoomedIs ==
  ASSUME WebShaped, \A t \in file : t.path \in Path, NEW r \in WebRequests
  PROVE  Web!Doomed(r) = Selected(r.user, r.src)
<1>1. \A t \in file : Named(t.path, r) <=> Matches(t.path, r.src)
  BY NamedIs
<1>2. Web!Doomed(r) = {t \in file : t.user = r.user /\ Named(t.path, r)}
  BY WebPaths, WebLists DEF Web!Doomed, Web!Mine, Named
<1> QED
  BY <1>1, <1>2 DEF Selected

\* Where copy puts its source.
Target(r) == Replace(r.src, r.srcpath, r.dst)

\* A request to copy, as the pages make it.
Copying(r) == r \in WebRequests /\ r.op \in {"copy", "move"} /\ r.src # Root

\* What an entry's path has after its folder's: a name, and a slash.
Tokens(r) == IF IsFolder(r.src) THEN 2 ELSE 1

LEMMA CopyingIs ==
  ASSUME WebShaped, NEW r, Copying(r)
  PROVE  /\ Good(r.src) /\ Good(r.dst) /\ r.src \in Path /\ r.dst \in Path /\ r.srcpath \in Path
         /\ IsFolder(r.dst) /\ Len(r.src) = Len(r.srcpath) + Tokens(r)
         /\ Cut(r.src, Len(r.srcpath)) /\ Len(r.srcpath) <= Len(r.src)
         /\ Tokens(r) \in {1, 2} /\ (Tokens(r) = 2 <=> IsFolder(r.src))
<1>1. /\ Good(r.src) /\ Good(r.dst) /\ IsFolder(r.dst) /\ r.srcpath = Parent(r.src)
      /\ Len(r.src) = Len(r.srcpath) + Tokens(r)
  BY DEF WebShaped, Copying, Tokens
<1>2. /\ r.src \in Path /\ r.dst \in Path /\ r.src[1] = Slash /\ Len(r.src) > 1
  BY <1>1, GoodIs DEF Copying
<1>3. PICK k \in 1 .. Len(r.src) - 1 : Cut(r.src, k)
  BY <1>2, CutExists
<1>4. r.srcpath = SubSeq(r.src, 1, k)
  BY <1>1, <1>2, <1>3, ParentIs
<1>5. r.srcpath \in Path /\ Len(r.srcpath) = k /\ k <= Len(r.src)
  BY <1>2, <1>3, <1>4 DEF Path
<1>6. Tokens(r) \in {1, 2} /\ (Tokens(r) = 2 <=> IsFolder(r.src))
  BY DEF Tokens
<1> QED
  BY <1>1, <1>2, <1>3, <1>5, <1>6

\* An entry of a folder, put into another one.
LEMMA EntryMoves ==
  ASSUME NEW src \in Path, NEW up \in Path, NEW dst \in Path, Good(src), Good(dst), IsFolder(dst),
         Cut(src, Len(up)), NEW d \in {1, 2}, Len(src) = Len(up) + d, d = 2 => IsFolder(src)
  PROVE  /\ Replace(src, up, dst) \in Path /\ Good(Replace(src, up, dst))
         /\ Len(Replace(src, up, dst)) = Len(dst) + d
         /\ \A i \in 1 .. Len(dst) : Replace(src, up, dst)[i] = dst[i]
         /\ \A i \in 1 .. d : Replace(src, up, dst)[Len(dst) + i] = src[Len(up) + i]
         /\ Parent(Replace(src, up, dst)) = dst
         /\ IsFolder(src) <=> IsFolder(Replace(src, up, dst))
<1>1. Len(src) \in Nat /\ Len(up) \in Nat /\ Len(dst) \in Nat /\ d \in Nat /\ d > 0 /\ Len(dst) > 0
  BY GoodIs DEF Path
<1>2. Len(up) <= Len(src) /\ Len(src) - Len(up) = d
  BY <1>1
<1>3. PICK a \in Path : /\ a = Replace(src, up, dst) /\ Len(a) = Len(dst) + d
                        /\ \A i \in 1 .. Len(dst) : a[i] = dst[i]
                        /\ \A i \in 1 .. d : a[Len(dst) + i] = src[Len(up) + i]
  <2>1. /\ Replace(src, up, dst) \in Path
        /\ Len(Replace(src, up, dst)) = Len(dst) + Len(src) - Len(up)
        /\ \A i \in 1 .. Len(dst) : Replace(src, up, dst)[i] = dst[i]
        /\ \A i \in 1 .. Len(src) - Len(up) : Replace(src, up, dst)[Len(dst) + i] = src[Len(up) + i]
    BY <1>2, ReplaceIs, Zenon
  <2>2. Len(dst) + Len(src) - Len(up) = Len(dst) + d
    BY <1>1
  <2> QED
    BY <1>2, <2>1, <2>2, Zenon
<1>4. Good(a)
  BY <1>2, <1>3, GoodReplace, Zenon
<1>5. a[Len(a)] = src[Len(src)]
  <2>1. d \in 1 .. d
    BY <1>1
  <2> QED
    BY <1>3, <2>1
<1>6. Cut(a, Len(dst))
  <2>1. Len(dst) \in 1 .. Len(a) - 1
    BY <1>1, <1>3
  <2>2. a[Len(dst)] = Slash
    BY <1>1, <1>3 DEF IsFolder, Last
  <2>3. ASSUME NEW j \in Len(dst) + 1 .. Len(a) - 1 PROVE a[j] # Slash
    <3>1. d = 2 /\ j = Len(dst) + 1
      BY <1>1, <1>3
    <3>2. a[j] = src[Len(up) + 1]
      BY <1>3, <3>1
    <3>3. Len(up) + 1 \in Len(up) + 1 .. Len(src) - 1
      BY <1>1, <3>1
    <3> QED
      BY <3>2, <3>3 DEF Cut
  <2> QED
    BY <2>1, <2>2, <2>3 DEF Cut
<1>7. Parent(a) = dst
  <2>1. Parent(a) = SubSeq(a, 1, Len(dst))
    BY <1>3, <1>6, ParentIs
  <2>2. Len(dst) <= Len(a)
    BY <1>1, <1>3
  <2>3. /\ SubSeq(a, 1, Len(dst)) \in Path /\ Len(SubSeq(a, 1, Len(dst))) = Len(dst)
        /\ \A i \in 1 .. Len(dst) : SubSeq(a, 1, Len(dst))[i] = dst[i]
    BY <1>1, <1>3, <2>2 DEF Path
  <2> DEFINE b == SubSeq(a, 1, Len(dst))
  <2> HIDE DEF b
  <2>4. b = dst
    BY <1>1, <2>3, SeqEqual DEF Path, b
  <2> QED
    BY <2>1, <2>4 DEF b
<1>8. IsFolder(src) <=> IsFolder(a)
  BY <1>5 DEF IsFolder, Last
<1> QED
  BY <1>3, <1>4, <1>7, <1>8, Zenon

LEMMA TargetIs ==
  ASSUME WebShaped, NEW r, Copying(r)
  PROVE  /\ Target(r) \in Path /\ Good(Target(r)) /\ Parent(Target(r)) = r.dst
         /\ \A i \in 1 .. Len(r.dst) : Target(r)[i] = r.dst[i]
         /\ Target(r)[Len(r.dst) + 1] = r.src[Len(r.srcpath) + 1]
         /\ IsFolder(r.src) <=> IsFolder(Target(r))
         /\ Len(Target(r)) = Len(r.dst) + Tokens(r)
<1>1. /\ Good(r.src) /\ Good(r.dst) /\ r.src \in Path /\ r.dst \in Path /\ r.srcpath \in Path
      /\ IsFolder(r.dst) /\ Cut(r.src, Len(r.srcpath)) /\ Len(r.src) = Len(r.srcpath) + Tokens(r)
      /\ Tokens(r) \in {1, 2} /\ (Tokens(r) = 2 => IsFolder(r.src))
  BY CopyingIs
<1> DEFINE src == r.src
           up == r.srcpath
           dst == r.dst
           d == Tokens(r)
           a == Target(r)
<1>2. src \in Path /\ up \in Path /\ dst \in Path /\ d \in {1, 2} /\ a = Replace(src, up, dst)
  BY <1>1 DEF Target
<1>3. Good(src) /\ Good(dst) /\ IsFolder(dst) /\ Cut(src, Len(up)) /\ Len(src) = Len(up) + d
  BY <1>1
<1>4. d = 2 => IsFolder(src)
  BY <1>1
<1> HIDE DEF src, up, dst, d, a
<1>5. /\ a \in Path /\ Good(a) /\ Parent(a) = dst /\ Len(a) = Len(dst) + d
      /\ \A i \in 1 .. Len(dst) : a[i] = dst[i]
  BY <1>2, <1>3, <1>4, EntryMoves
<1>6. IsFolder(src) <=> IsFolder(a)
  BY <1>2, <1>3, <1>4, EntryMoves
<1>7. a[Len(dst) + 1] = src[Len(up) + 1]
  <2>1. 1 \in 1 .. d
    BY <1>2
  <2> QED
    BY <1>2, <1>3, <1>4, <2>1, EntryMoves
<1> QED
  BY <1>5, <1>6, <1>7 DEF src, up, dst, d, a

\* A path put under a new folder in two steps.
LEMMA ReplaceTwice ==
  ASSUME NEW p \in Path, NEW src \in Path, NEW up \in Path, NEW dst \in Path,
         Len(up) <= Len(src), Under(p, src)
  PROVE  Replace(p, src, Replace(src, up, dst)) = Replace(p, up, dst)
<1>0. Len(p) \in Nat /\ Len(src) \in Nat /\ Len(up) \in Nat /\ Len(dst) \in Nat /\ Len(src) <= Len(p)
  BY DEF Path, Under
<1>1. PICK a \in Path :
        /\ a = Replace(src, up, dst) /\ Len(a) = Len(dst) + Len(src) - Len(up)
        /\ \A i \in 1 .. Len(dst) : a[i] = dst[i]
        /\ \A i \in 1 .. Len(src) - Len(up) : a[Len(dst) + i] = src[Len(up) + i]
  <2>1. /\ Replace(src, up, dst) \in Path
        /\ Len(Replace(src, up, dst)) = Len(dst) + Len(src) - Len(up)
        /\ \A i \in 1 .. Len(dst) : Replace(src, up, dst)[i] = dst[i]
        /\ \A i \in 1 .. Len(src) - Len(up) : Replace(src, up, dst)[Len(dst) + i] = src[Len(up) + i]
    BY ReplaceIs, Zenon
  <2> QED
    BY <2>1, Zenon
<1>2. PICK b \in Path :
        /\ b = Replace(p, src, a) /\ Len(b) = Len(a) + Len(p) - Len(src)
        /\ \A i \in 1 .. Len(a) : b[i] = a[i]
        /\ \A i \in 1 .. Len(p) - Len(src) : b[Len(a) + i] = p[Len(src) + i]
  <2>1. /\ Replace(p, src, a) \in Path
        /\ Len(Replace(p, src, a)) = Len(a) + Len(p) - Len(src)
        /\ \A i \in 1 .. Len(a) : Replace(p, src, a)[i] = a[i]
        /\ \A i \in 1 .. Len(p) - Len(src) : Replace(p, src, a)[Len(a) + i] = p[Len(src) + i]
    BY <1>0, ReplaceIs, Zenon
  <2> QED
    BY <2>1, Zenon
<1>3. Len(up) <= Len(p)
  BY <1>0
<1>4. PICK c \in Path :
        /\ c = Replace(p, up, dst) /\ Len(c) = Len(dst) + Len(p) - Len(up)
        /\ \A i \in 1 .. Len(dst) : c[i] = dst[i]
        /\ \A i \in 1 .. Len(p) - Len(up) : c[Len(dst) + i] = p[Len(up) + i]
  <2>1. /\ Replace(p, up, dst) \in Path
        /\ Len(Replace(p, up, dst)) = Len(dst) + Len(p) - Len(up)
        /\ \A i \in 1 .. Len(dst) : Replace(p, up, dst)[i] = dst[i]
        /\ \A i \in 1 .. Len(p) - Len(up) : Replace(p, up, dst)[Len(dst) + i] = p[Len(up) + i]
    BY <1>3, ReplaceIs, ZenonT(60)
  <2> QED
    BY <2>1, Zenon
<1>5. Len(b) = Len(c)
  BY <1>0, <1>1, <1>2, <1>4
<1>6. ASSUME NEW i \in 1 .. Len(b) PROVE b[i] = c[i]
  <2>1. CASE i <= Len(dst)
    <3>1. i \in 1 .. Len(dst) /\ i \in 1 .. Len(a)
      BY <1>0, <1>1, <2>1
    <3> QED
      BY <1>1, <1>2, <1>4, <3>1
  <2>2. CASE i > Len(dst) /\ i <= Len(a)
    <3>1. PICK j \in 1 .. Len(src) - Len(up) : i = Len(dst) + j
      <4>1. i - Len(dst) \in 1 .. Len(src) - Len(up) /\ i = Len(dst) + (i - Len(dst))
        BY <1>0, <1>1, <2>2
      <4> QED
        BY <4>1, Zenon
    <3>2. j \in 1 .. Len(p) - Len(up) /\ Len(up) + j \in 1 .. Len(src) /\ i \in 1 .. Len(a)
      BY <1>0, <2>2, <3>1
    <3>3. b[i] = src[Len(up) + j] /\ c[i] = p[Len(up) + j]
      BY <1>1, <1>2, <1>4, <3>1, <3>2
    <3> QED
      BY <3>2, <3>3 DEF Under
  <2>3. CASE i > Len(a)
    <3>1. PICK j \in 1 .. Len(p) - Len(src) : i = Len(a) + j
      <4>1. i - Len(a) \in 1 .. Len(p) - Len(src) /\ i = Len(a) + (i - Len(a))
        BY <1>0, <1>1, <1>2, <2>3
      <4> QED
        BY <4>1, Zenon
    <3>2. /\ Len(src) - Len(up) + j \in 1 .. Len(p) - Len(up)
          /\ i = Len(dst) + (Len(src) - Len(up) + j)
          /\ Len(up) + (Len(src) - Len(up) + j) = Len(src) + j
      BY <1>0, <1>1, <3>1
    <3>3. c[i] = p[Len(src) + j]
      BY <1>4, <3>2
    <3> QED
      BY <1>2, <3>1, <3>3
  <2> QED
    BY <1>0, <1>1, <2>1, <2>2, <2>3
<1> QED
  BY <1>1, <1>2, <1>4, <1>5, <1>6, SeqEqual DEF Path

\* copy's new rows are those of the server's copy to that path.
LEMMA CopiesAre ==
  ASSUME WebShaped, TypeOK, NEW r, Copying(r)
  PROVE  Web!Copies(r) = Renamed(r.user, r.src, Target(r))
<1>1. /\ Good(r.src) /\ r.src \in Path /\ r.dst \in Path /\ r.srcpath \in Path
      /\ Len(r.srcpath) <= Len(r.src) /\ Len(r.src) \in Nat /\ Len(r.src) > 0
  <2>1. /\ Good(r.src) /\ r.src \in Path /\ r.dst \in Path /\ r.srcpath \in Path
        /\ Len(r.srcpath) <= Len(r.src)
    BY CopyingIs
  <2>2. Len(r.src) \in Nat /\ Len(r.src) > 0
    BY <2>1, GoodIs
  <2> QED
    BY <2>1, <2>2
<1>2. \A t \in file : t.path \in Path
  BY DEF TypeOK, Path
<1>3. CASE IsFolder(r.src)
  <2>1. Web!Copies(r) = {[t EXCEPT !.path = Replace(t.path, r.srcpath, r.dst)] :
                           t \in {q \in file : q.user = r.user /\ Like(q.path, r.src)}}
    BY <1>3, WebPaths, WebLists DEF Web!Copies, Web!Mine
  <2>2. \A t \in file : /\ Like(t.path, r.src) <=> Matches(t.path, r.src)
                        /\ Like(t.path, r.src) =>
                             Replace(t.path, r.srcpath, r.dst) = Replace(t.path, r.src, Target(r))
    <3> SUFFICES ASSUME NEW t \in file
                 PROVE  /\ Like(t.path, r.src) <=> Matches(t.path, r.src)
                        /\ Like(t.path, r.src) =>
                             Replace(t.path, r.srcpath, r.dst) = Replace(t.path, r.src, Target(r))
      OBVIOUS
    <3>1. /\ Like(t.path, r.src) <=> Under(t.path, r.src)
          /\ Matches(t.path, r.src) <=> Under(t.path, r.src)
      BY <1>1, <1>2, <1>3, LikeUnder, MatchesUnder
    <3>2. Under(t.path, r.src) => Replace(t.path, r.srcpath, r.dst) = Replace(t.path, r.src, Target(r))
      <4>1. t.path \in Path
        BY <1>2
      <4> QED
        BY <1>1, <4>1, ReplaceTwice, Zenon DEF Target
    <3> QED
      BY <3>1, <3>2
  <2>3. \A t \in Selected(r.user, r.src) :
          [t EXCEPT !.path = Replace(t.path, r.srcpath, r.dst)]
          = [t EXCEPT !.path = Replace(t.path, r.src, Target(r))]
    BY <2>2 DEF Selected
  <2>4. {q \in file : q.user = r.user /\ Like(q.path, r.src)} = Selected(r.user, r.src)
    BY <2>2 DEF Selected
  <2> QED
    BY <2>1, <2>3, <2>4 DEF Renamed
<1>4. CASE ~IsFolder(r.src)
  <2>1. Web!Copies(r) = {[t EXCEPT !.path = Append(r.dst, Web!Name(r.src))] :
                           t \in {q \in file : q.user = r.user /\ q.path = r.src}}
    BY <1>4, WebPaths DEF Web!Copies, Web!Mine
  <2>2. Append(r.dst, Web!Name(r.src)) = Target(r)
    <3>1. Web!Name(r.src) = r.src[Len(r.src)]
      BY <1>4, WebPaths DEF Web!Name, Web!Last
    <3>2. /\ Target(r) \in Path /\ Len(Target(r)) = Len(r.dst) + 1
          /\ \A i \in 1 .. Len(r.dst) : Target(r)[i] = r.dst[i]
          /\ Target(r)[Len(r.dst) + 1] = r.src[Len(r.srcpath) + 1]
      <4>1. Len(Target(r)) = Len(r.dst) + Tokens(r)
        BY TargetIs
      <4>2. Len(Target(r)) = Len(r.dst) + 1
        BY <1>4, <4>1 DEF Tokens
      <4> QED
        BY <4>2, TargetIs
    <3>3. Len(r.srcpath) + 1 = Len(r.src)
      <4>1. Len(r.src) = Len(r.srcpath) + Tokens(r)
        BY CopyingIs
      <4> QED
        BY <1>4, <4>1 DEF Tokens
    <3> DEFINE a == Target(r)
               x == r.src[Len(r.src)]
               b == Append(r.dst, x)
    <3>4. x \in STRING
      BY <1>1 DEF Path
    <3> HIDE DEF a, x
    <3>5. b \in Path /\ Len(b) = Len(r.dst) + 1 /\ b[Len(r.dst) + 1] = x
          /\ \A i \in 1 .. Len(r.dst) : b[i] = r.dst[i]
      BY <1>1, <3>4 DEF Path
    <3> HIDE DEF b
    <3>6. a \in Path /\ Len(a) = Len(r.dst) + 1 /\ a[Len(r.dst) + 1] = x
          /\ \A i \in 1 .. Len(r.dst) : a[i] = r.dst[i]
      BY <3>2, <3>3 DEF a, x
    <3>7. Len(r.dst) \in Nat
      BY <1>1 DEF Path
    <3>8. \A i \in 1 .. Len(a) : a[i] = b[i]
      BY <3>5, <3>6, <3>7
    <3>9. a = b
      BY <3>5, <3>6, <3>8, SeqEqual DEF Path
    <3> QED
      BY <3>1, <3>9 DEF a, b, x
  <2>3. Replace(r.src, r.src, Target(r)) = Target(r)
    <3>1. Target(r) \in Path
      BY TargetIs
    <3> QED
      BY <1>1, <3>1, ReplaceSelf
  <2>4. Selected(r.user, r.src) = {q \in file : q.user = r.user /\ q.path = r.src}
    BY <1>4 DEF Selected, Matches
  <2> QED
    BY <2>1, <2>2, <2>3, <2>4 DEF Renamed
<1> QED
  BY <1>3, <1>4

\* An entry put into a folder above it, below what it was: the folder has that
\* entry already.
LEMMA EntryApart ==
  ASSUME NEW src \in Path, NEW up \in Path, NEW dst \in Path, NEW p \in Path, NEW a \in Path,
         NEW d \in {1, 2}, d = 2 <=> IsFolder(src), Len(src) = Len(up) + d,
         Len(a) = Len(dst) + d, \A i \in 1 .. Len(dst) : a[i] = dst[i],
         a[Len(dst) + 1] = src[Len(up) + 1],
         Matches(p, src), Matches(Replace(p, src, a), src), ~ IsPrefix(src, dst)
  PROVE  /\ IsPrefix(dst, p) /\ p # dst
         /\ Head(Rest(p, dst)) = src[Len(up) + 1]
         /\ Slash \in Range(Rest(p, dst)) <=> IsFolder(src)
<1>1. Len(src) \in Nat /\ Len(up) \in Nat /\ Len(dst) \in Nat /\ Len(p) \in Nat /\ Len(a) \in Nat
  BY DEF Path
<1>2. Len(src) <= Len(p) /\ \A i \in 1 .. Len(src) : p[i] = src[i]
  BY MatchesPrefix
<1>3. PICK c \in Path : /\ c = Replace(p, src, a) /\ Len(c) = Len(a) + Len(p) - Len(src)
                        /\ \A i \in 1 .. Len(a) : c[i] = a[i]
  <2>1. /\ Replace(p, src, a) \in Path /\ Len(Replace(p, src, a)) = Len(a) + Len(p) - Len(src)
        /\ \A i \in 1 .. Len(a) : Replace(p, src, a)[i] = a[i]
    BY <1>2, ReplaceIs, ZenonT(60)
  <2> QED
    BY <2>1, Zenon
<1>4. Matches(c, src) /\ Len(src) <= Len(c) /\ \A i \in 1 .. Len(src) : c[i] = src[i]
  BY <1>3, MatchesPrefix, Zenon
<1>5. Len(dst) < Len(src)
  <2> SUFFICES ASSUME Len(src) <= Len(dst) PROVE FALSE
    BY <1>1
  <2>1. \A i \in 1 .. Len(src) : i \in 1 .. Len(dst) /\ i \in 1 .. Len(a)
    BY <1>1
  <2>2. \A i \in 1 .. Len(src) : dst[i] = src[i]
    BY <1>3, <1>4, <2>1
  <2>3. Under(dst, src)
    BY <2>2 DEF Under
  <2> QED
    BY <2>3, PrefixUnder
<1>6. \A i \in 1 .. Len(dst) : i \in 1 .. Len(src) /\ i \in 1 .. Len(a)
  BY <1>1, <1>5
<1>7. \A i \in 1 .. Len(dst) : dst[i] = p[i]
  BY <1>2, <1>3, <1>4, <1>6
<1>8. Len(dst) < Len(p) /\ IsPrefix(dst, p) /\ p # dst
  <2>1. Len(dst) < Len(p)
    BY <1>1, <1>2, <1>5
  <2>2. Under(p, dst)
    BY <1>1, <1>7, <2>1 DEF Under
  <2> QED
    BY <1>1, <2>1, <2>2, PrefixUnder
<1>9. p[Len(dst) + 1] = src[Len(up) + 1]
  <2>1. Len(dst) + 1 \in 1 .. Len(src) /\ Len(dst) + 1 \in 1 .. Len(a)
    BY <1>1, <1>5
  <2> QED
    BY <1>2, <1>3, <1>4, <2>1
<1>10. Head(Rest(p, dst)) = src[Len(up) + 1]
  BY <1>8, <1>9, RestIs
<1>11. Slash \in Range(Rest(p, dst)) <=> \E i \in Len(dst) + 1 .. Len(p) : p[i] = Slash
  BY <1>8, RestIs
<1>12. CASE IsFolder(src)
  <2>1. Len(src) \in Len(dst) + 1 .. Len(p) /\ Len(src) \in 1 .. Len(src)
    BY <1>1, <1>2, <1>5
  <2>2. p[Len(src)] = Slash
    BY <1>2, <1>12, <2>1 DEF IsFolder, Last
  <2> QED
    BY <1>8, <1>10, <1>11, <1>12, <2>1, <2>2
<1>13. CASE ~IsFolder(src)
  <2>1. p = src /\ c = src /\ d = 1
    BY <1>4, <1>13 DEF Matches
  <2>2. Len(dst) + 1 .. Len(p) = {Len(src)}
    BY <1>1, <1>3, <2>1
  <2>3. src[Len(src)] # Slash
    BY <1>13 DEF IsFolder, Last
  <2> QED
    BY <1>8, <1>10, <1>11, <1>13, <2>1, <2>2, <2>3
<1> QED
  BY <1>12, <1>13

\* The checks of copy keep what it adds apart from what a move will delete.
LEMMA CopiesApart ==
  ASSUME WebShaped, TypeOK, NEW r, Copying(r), ~ Web!Refused(r)
  PROVE  \A n \in Renamed(r.user, r.src, Target(r)) : ~ Matches(n.path, r.src)
<1> SUFFICES ASSUME NEW t \in file, t.user = r.user, Matches(t.path, r.src),
                    Matches(Replace(t.path, r.src, Target(r)), r.src)
             PROVE  FALSE
  <2>1. ASSUME NEW t \in file PROVE [t EXCEPT !.path = Replace(t.path, r.src, Target(r))].path
                                    = Replace(t.path, r.src, Target(r))
    BY <2>1 DEF TypeOK
  <2> QED
    BY <2>1 DEF Renamed, Selected
<1>1. /\ r.src \in Path /\ r.dst \in Path /\ r.srcpath \in Path /\ t.path \in Path
      /\ Len(r.src) = Len(r.srcpath) + Tokens(r)
      /\ Tokens(r) \in {1, 2} /\ (Tokens(r) = 2 <=> IsFolder(r.src))
  BY CopyingIs DEF TypeOK, Path
<1>2. /\ Target(r) \in Path /\ Len(Target(r)) = Len(r.dst) + Tokens(r)
      /\ \A i \in 1 .. Len(r.dst) : Target(r)[i] = r.dst[i]
      /\ Target(r)[Len(r.dst) + 1] = r.src[Len(r.srcpath) + 1]
  BY TargetIs
<1> DEFINE mine == {q.path : q \in {s \in file : s.user = r.user}}
<1>3. /\ ~ IsPrefix(r.src, r.dst)
      /\ <<Web!Name(r.src), IsFolder(r.src)>> \notin BuildTree(mine, r.dst)
  <2>1. Web!GetFiles(r.user, r.dst) = BuildTree(mine, r.dst)
    BY WebLists DEF Web!GetFiles, Web!Mine
  <2> QED
    BY <2>1, WebLists, WebPaths DEF Web!Refused
<1>4. /\ IsPrefix(r.dst, t.path) /\ t.path # r.dst
      /\ Head(Rest(t.path, r.dst)) = r.src[Len(r.srcpath) + 1]
      /\ Slash \in Range(Rest(t.path, r.dst)) <=> IsFolder(r.src)
  <2> DEFINE src == r.src
             up == r.srcpath
             dst == r.dst
             d == Tokens(r)
             a == Target(r)
             p == t.path
  <2>1. /\ src \in Path /\ up \in Path /\ dst \in Path /\ p \in Path /\ a \in Path
        /\ d \in {1, 2} /\ (d = 2 <=> IsFolder(src)) /\ Len(src) = Len(up) + d
    BY <1>1, <1>2
  <2>2. /\ Len(a) = Len(dst) + d /\ a[Len(dst) + 1] = src[Len(up) + 1]
        /\ \A i \in 1 .. Len(dst) : a[i] = dst[i]
    BY <1>2
  <2>3. Matches(p, src) /\ Matches(Replace(p, src, a), src) /\ ~ IsPrefix(src, dst)
    BY <1>3
  <2> HIDE DEF src, up, dst, d, a, p
  <2>4. IsPrefix(dst, p) /\ p # dst
    BY <2>1, <2>2, <2>3, EntryApart
  <2>6. Head(Rest(p, dst)) = src[Len(up) + 1]
    BY <2>1, <2>2, <2>3, EntryApart
  <2>5. Slash \in Range(Rest(p, dst)) <=> IsFolder(src)
    BY <2>1, <2>2, <2>3, EntryApart
  <2> QED
    BY <2>4, <2>5, <2>6 DEF src, up, dst, p
<1>5. Web!Name(r.src) = r.src[Len(r.srcpath) + 1]
  <2>0. Len(r.src) \in Nat /\ Len(r.srcpath) \in Nat
    BY <1>1 DEF Path
  <2>1. CASE IsFolder(r.src)
    <3>1. Len(r.src) = Len(r.srcpath) + 2
      BY <1>1, <2>1
    <3>2. Web!Name(r.src) = Web!Last(Web!Front(r.src))
      BY <2>1, WebPaths DEF Web!Name
    <3>3. /\ Web!Front(r.src) = SubSeq(r.src, 1, Len(r.src) - 1)
          /\ Len(SubSeq(r.src, 1, Len(r.src) - 1)) = Len(r.src) - 1
          /\ SubSeq(r.src, 1, Len(r.src) - 1)[Len(r.src) - 1] = r.src[Len(r.src) - 1]
      BY <1>1, <2>0, <3>1 DEF Web!Front, Path
    <3>4. Len(r.src) - 1 = Len(r.srcpath) + 1
      BY <2>0, <3>1
    <3> QED
      BY <3>2, <3>3, <3>4 DEF Web!Last
  <2>2. CASE ~IsFolder(r.src)
    <3>1. Len(r.src) = Len(r.srcpath) + 1
      BY <1>1, <2>2
    <3> QED
      BY <2>2, <3>1, WebPaths DEF Web!Name, Web!Last
  <2> QED
    BY <2>1, <2>2
<1>6. t.path \in {q \in mine : IsPrefix(r.dst, q) /\ q # r.dst}
  BY <1>4
<1>7. <<Head(Rest(t.path, r.dst)), Slash \in Range(Rest(t.path, r.dst))>> \in BuildTree(mine, r.dst)
  BY <1>6 DEF BuildTree
<1>8. IsFolder(r.src) = (Slash \in Range(Rest(t.path, r.dst)))
  BY <1>4 DEF IsFolder
<1> QED
  BY <1>3, <1>4, <1>5, <1>7, <1>8, Zenon

-----------------------------------------------------------------------------
(* TreeInv: what a step leaves alone *)

\* The rows of u are those there were.
SameRows(u) == \A t : t.user = u => (t \in file <=> t \in file')

\* The step is on the rows of u; accounts stay.
On(u) == /\ \A w : w # u => SameRows(w)
         /\ \A w \in Users : user[w] # NoPassword => user'[w] = user[w]

LEMMA TreeParts ==
  ASSUME TreeInv
  PROVE  /\ TypeOK /\ TableOK /\ LocalTypes /\ StageInv /\ GotInv /\ WinInv /\ AloneInv /\ ReadInv
         /\ GoodInv /\ Reachable /\ TargetInv /\ BothTypes /\ WebTypes
         /\ \A s \in Sessions : wpc[s] # "idle" => wreq[s] \in WebRequests
<1>1. /\ TypeOK /\ TableOK /\ LocalTypes /\ StageInv /\ GotInv /\ WinInv /\ AloneInv /\ ReadInv
      /\ GoodInv /\ Reachable /\ TargetInv /\ WebStages
  BY TypeParts DEF TreeInv, ReachInv, MoveInv, TableInv
<1>2. BothTypes
  BY <1>1 DEF BothTypes, TypeOK, StageInv, WebStages
<1>3. WebTypes /\ \A s \in Sessions : wpc[s] # "idle" => wreq[s] \in WebRequests
  BY <1>1 DEF WebTypes, WebLabels, WebStages
<1> QED
  BY <1>1, <1>2, <1>3

\* A session that does not move keeps its plan, if the step is on another
\* user's rows, or if it registers.
LEMMA PlanFrame ==
  ASSUME WebStages, NEW s \in Sessions, PlanOf(s), NEW u, On(u),
         \A q \in WebRequests : q.user \in Users,
         wpc'[s] = wpc[s], wreq'[s] = wreq[s], plan'[s] = plan[s],
         wpc[s] # "idle" => wreq[s].user # u \/ wreq[s].op = "register"
  PROVE  PlanOf(s)'
<1>1. CASE wpc[s] = "idle"
  BY <1>1 DEF PlanOf, Planned
<1> SUFFICES ASSUME wpc[s] # "idle" PROVE PlanOf(s)'
  BY <1>1
<1> DEFINE r == wreq[s]
<1>2. r \in WebRequests /\ r.user \in Users
  BY DEF WebStages
<1>3. CASE r.op = "register"
  <2>1. wpc[s] \notin {"follow", "remove"}
    BY <1>3 DEF WebStages
  <2>2. CASE wpc[s] = "insert"
    <3>1. ToInsert(r, plan[s])
      BY <2>2 DEF PlanOf, Planned
    <3>2. \A n \in plan[s] : n.path = Root /\ n.user \in Users
      BY <1>2, <1>3, <3>1 DEF ToInsert
    <3>3. \A n \in plan[s] : user'[n.user] # NoPassword
      BY <1>2, <3>1, <3>2 DEF ToInsert, On
    <3>4. ToInsert(r, plan[s])'
      BY <1>3, <3>1, <3>2, <3>3 DEF ToInsert, Parented, SameKey, Good
    <3> QED
      BY <2>2, <3>4 DEF PlanOf, Planned
  <2> QED
    BY <2>1, <2>2 DEF PlanOf, Planned
<1>4. CASE r.user # u
  <2>1. SameRows(r.user)
    BY <1>4 DEF On
  <2>2. Web!Doomed(r)' = Web!Doomed(r)
    BY <2>1 DEF SameRows, Web!Doomed, Web!Mine
  <2>3. \A t \in Web!Doomed(r) : t.user = r.user
    BY DEF Web!Doomed, Web!Mine
  <2>4. CASE wpc[s] = "insert"
    <3>1. ToInsert(r, plan[s])
      BY <2>4 DEF PlanOf, Planned
    <3>2. \A n \in plan[s] : n.user = r.user /\ user'[n.user] # NoPassword
      BY <1>2, <3>1 DEF ToInsert, On
    <3>3. \A n \in plan[s] : Parented(n, file' \union plan[s])
      BY <2>1, <3>1, <3>2 DEF ToInsert, Parented, SameRows
    <3>4. Copied(r, plan[s]) => Copied(r, plan[s])'
      BY <2>2 DEF Copied, Named
    <3>5. ToInsert(r, plan[s])'
      BY <3>1, <3>2, <3>3, <3>4 DEF ToInsert, SameKey, Good, Named, Parented
    <3> QED
      BY <2>4, <3>5 DEF PlanOf, Planned
  <2>5. Copied(r, file) => Copied(r, file)'
    BY <2>1, <2>2, <2>3 DEF Copied, Named, SameRows
  <2> QED
    BY <2>2, <2>4, <2>5 DEF PlanOf, Planned
<1> QED
  BY <1>3, <1>4

\* A step on the rows of u leaves a copy or move of another user as it is.
LEMMA ReadFrame ==
  ASSUME ReadInv, TargetInv, GotInv, UNCHANGED locals, NEW u, On(u),
         \A p \in Procs : pc[p] \in {"insert", "delete"} => req[p].user # u
  PROVE  ReadInv' /\ TargetInv'
<1>1. \A p \in Procs : pc[p] \in {"insert", "delete"} => SameRows(req[p].user)
  BY DEF On
<1>2. pc' = pc /\ req' = req /\ got' = got
  BY DEF locals
<1>3. \A p \in Procs : \A n \in got[p] : n.user = req[p].user
  BY DEF GotInv
<1>4. \A w, a, b : SameRows(w) => Renamed(w, a, b)' = Renamed(w, a, b)
  BY DEF SameRows, Renamed, Selected
<1>5. ReadInv'
  <2> SUFFICES ASSUME NEW p \in Procs, pc[p] \in {"insert", "delete"}
               PROVE  /\ got[p] = Renamed(req[p].user, req[p].src, req[p].dst)' /\ got[p] # {}
                      /\ pc[p] = "delete" =>
                           got[p] \subseteq file' /\ \A n \in got[p] : ~ Matches(n.path, req[p].src)
    BY <1>2 DEF ReadInv
  <2>1. SameRows(req[p].user)
    BY <1>1
  <2>2. /\ got[p] = Renamed(req[p].user, req[p].src, req[p].dst) /\ got[p] # {}
        /\ pc[p] = "delete" =>
             got[p] \subseteq file /\ \A n \in got[p] : ~ Matches(n.path, req[p].src)
    BY DEF ReadInv
  <2>3. pc[p] = "delete" => got[p] \subseteq file'
    BY <1>3, <2>1, <2>2 DEF SameRows
  <2> QED
    BY <1>2, <1>4, <2>1, <2>2, <2>3
<1>6. TargetInv'
  BY <1>1, <1>2 DEF TargetInv, SameRows
<1> QED
  BY <1>5, <1>6

-----------------------------------------------------------------------------
(* TreeInv: a child's step *)

\* Whose request a child's step is about.
Serves(p, q) == \/ Continue(p) /\ q = req[p]
                \/ /\ q \in Requests /\ MayAsk(q.user, q.op = "regist")
                   /\ Begin(p, q)

LEMMA ServerMoves ==
  ASSUME TreeInv, NEW p \in Procs, NEW q, Serves(p, q)
  PROVE  /\ pc'[p] # "idle" => req'[p] = q
         /\ \A t : t.user # q.user => (t \in file <=> t \in file')
<1>1. LocalTypes /\ GotInv
  BY TreeParts
<1>2. \A u, w, path : u # w => \A t : t.user = w => t \notin Selected(u, path)
  BY DEF Selected
<1>3. \A u, path, md5 : Row(u, path, md5).user = u
  BY DEF Row
<1>4. CASE Continue(p) /\ q = req[p]
  <2>1. pc'[p] # "idle" => req'[p] = q
    BY <1>1, <1>4 DEF LocalTypes, Continue, InsertUser, SendFlag, CheckUser, InsertRoot,
                      InsertRows, DeleteOld, Kill, Answer, Goto
  <2>2. CASE InsertRoot(p)
    BY <2>1, <1>3, <1>4, <2>2 DEF InsertRoot
  <2>3. CASE InsertRows(p)
    BY <2>1, <1>1, <1>4, <2>3 DEF InsertRows, GotInv
  <2>4. CASE DeleteOld(p)
    BY <2>1, <1>2, <1>4, <2>4 DEF DeleteOld
  <2>5. CASE file' = file
    BY <2>1, <2>5
  <2> QED
    BY <1>4, <2>1, <2>2, <2>3, <2>4, <2>5 DEF Continue, InsertUser, SendFlag, CheckUser, Kill
<1>5. CASE q \in Requests /\ Begin(p, q)
  <2>1. pc'[p] # "idle" => req'[p] = q
    BY <1>1, <1>5 DEF LocalTypes, Begin, SelectUser, LogIn, GetFileList, AddFile, DelFile,
                      SelectRows, Answer, Start
  <2>2. CASE AddFile(p, q)
    BY <2>1, <1>3, <2>2 DEF AddFile
  <2>3. CASE DelFile(p, q)
    BY <2>1, <1>2, <2>3 DEF DelFile
  <2>4. CASE file' = file
    BY <2>1, <2>4
  <2> QED
    BY <1>5, <2>1, <2>2, <2>3, <2>4 DEF Begin, SelectUser, LogIn, GetFileList, SelectRows
<1> QED
  BY <1>4, <1>5 DEF Serves

\* A child's step keeps TreeInv.
LEMMA ServerTree ==
  ASSUME Sequential, Sensible, Apart, Plain, Shaped, TreeInv, NEW p \in Procs, ServerStep(p)
  PROVE  TreeInv'
<1>1. PICK q : Serves(p, q)
  BY DEF ServerStep, Serves
<1>2. /\ WebStages /\ WebAlone /\ PlanInv /\ ReachInv
      /\ LocalTypes /\ BothTypes /\ TypeOK /\ GoodInv /\ MoveInv /\ Reachable /\ TargetInv
  BY TreeParts DEF TreeInv, ReachInv
<1>3. /\ Next /\ (Continue(p) \/ \E r \in Requests : Begin(p, r))
      /\ wpc' = wpc /\ wreq' = wreq /\ plan' = plan
  BY DEF ServerStep, Next
<1>4. ReachInv'
  BY <1>2, <1>3, MoveStep, GoodStep, ReachStep DEF ReachInv
<1>5. /\ pc'[p] # "idle" => req'[p] = q
      /\ \A t : t.user # q.user => (t \in file <=> t \in file')
  BY <1>1, ServerMoves
<1>6. \A o \in Procs \ {p} : pc'[o] = pc[o] /\ req'[o] = req[o]
  BY <1>2, <1>3, GotStep
<1>7. On(q.user)
  <2>1. \A w \in Users : user[w] # NoPassword => user'[w] = user[w]
    BY <1>2, UserStep DEF BothNext
  <2> QED
    BY <1>5, <2>1 DEF On, SameRows
<1>8. \A s \in Sessions : wpc[s] # "idle" /\ wreq[s].user = q.user =>
                            wreq[s].op = "register" /\ q.op = "regist"
  <2>1. CASE Continue(p) /\ q = req[p]
    <3>1. pc[p] # "idle"
      BY <2>1, RequestsAssumption DEF Continue, InsertUser, SendFlag, CheckUser, InsertRoot,
         InsertRows, DeleteOld, Kill, Labels
    <3> QED
      BY <1>2, <2>1, <3>1 DEF WebAlone
  <2>2. CASE MayAsk(q.user, q.op = "regist")
    BY <2>2 DEF MayAsk
  <2> QED
    BY <1>1, <2>1, <2>2 DEF Serves
<1>9. WebStages'
  BY <1>2, <1>3 DEF WebStages
<1>10. WebAlone'
  BY <1>2, <1>3, <1>5, <1>6, <1>8 DEF WebAlone
<1>11. PlanInv'
  <2> SUFFICES ASSUME NEW s \in Sessions PROVE PlanOf(s)'
    BY DEF PlanInv
  <2>1. PlanOf(s) /\ wpc'[s] = wpc[s] /\ wreq'[s] = wreq[s] /\ plan'[s] = plan[s]
    BY <1>2, <1>3 DEF PlanInv
  <2>2. wpc[s] # "idle" => wreq[s].user # q.user \/ wreq[s].op = "register"
    BY <1>8
  <2>3. \A r \in WebRequests : r.user \in Users
    BY WebRequestTyped
  <2> QED
    BY <1>2, <1>7, <2>1, <2>2, <2>3, PlanFrame
<1> QED
  BY <1>4, <1>9, <1>10, <1>11 DEF TreeInv

-----------------------------------------------------------------------------
(* TreeInv: a page's step *)

\* What the step of s does with request q, and that what it plans is planned well.
PageMove(s, label, q, rows) ==
  /\ q \in WebRequests
  /\ WebMoves(s, label, IF label = "idle" THEN None ELSE q, rows) /\ WebTypes'
  /\ label = "addUser" => q.op = "register"
  /\ label = "follow" => q.op = "move"
  /\ label = "remove" => q.op \in {"delete", "move"}
  /\ \/ wpc[s] # "idle" /\ q = wreq[s]
     \/ wpc[s] = "idle" /\ MayAsk(q.user, q.op = "register")
  /\ Planned(label, q, rows)'

\* What copy plans.
LEMMA CopyPlanned ==
  ASSUME WebShaped, TypeOK, GoodInv, Reachable, NEW r, Copying(r), Offered(r), ~ Web!Refused(r)
  PROVE  ToInsert(r, Web!Copies(r))
<1> DEFINE new == Renamed(r.user, r.src, Target(r))
<1>1. Web!Copies(r) = new
  BY CopiesAre
<1>2. /\ r \in WebRequests /\ r.user \in Users /\ r.src \in Path /\ Good(r.src) /\ r.op # "register"
  BY CopyingIs, WebRequestTyped DEF Copying
<1>3. /\ Target(r) \in Path /\ Good(Target(r)) /\ Parent(Target(r)) = r.dst
      /\ IsFolder(r.src) <=> IsFolder(Target(r))
  BY TargetIs
<1>4. PICK f \in file : f.user = r.user /\ f.path = r.dst /\ user[r.user] # NoPassword
  <2>1. Row(r.user, r.dst, NULL) \in file
    BY <1>2 DEF Offered
  <2>2. Row(r.user, r.dst, NULL).user = r.user /\ Row(r.user, r.dst, NULL).path = r.dst
    BY DEF Row
  <2> QED
    BY <2>1, <2>2 DEF TypeOK
<1>5. /\ \A n \in new : n \in Rows /\ n.user = r.user
      /\ \A m, n \in new : SameKey(m, n) => m = n
  BY <1>2, <1>3, RenamedRows
<1>6. \A n \in new : Good(n.path)
  <2> SUFFICES ASSUME NEW t \in file, Matches(t.path, r.src)
               PROVE  Good(Replace(t.path, r.src, Target(r))) /\ t \in Rows
    BY DEF Renamed, Selected, Rows
  <2>1. t \in Rows /\ t.path \in Path /\ Good(t.path)
    BY DEF TypeOK, GoodInv, Rows, Path
  <2>2. Len(r.src) <= Len(t.path)
    BY <1>2, <2>1, MatchesPrefix
  <2> QED
    BY <1>2, <1>3, <2>1, <2>2, GoodReplace
<1>7. \A n \in new : Parented(n, file \union new)
  <2>1. \E t \in file : t.user = r.user /\ t.path = Parent(Target(r))
    BY <1>3, <1>4
  <2>2. IsFolder(r.src) => IsFolder(Target(r))
    BY <1>3
  <2> QED
    BY <1>2, <1>3, <2>1, <2>2, CopyParented, Zenon
<1>8. \A n \in new : ~ Named(n.path, r)
  <2>1. \A n \in new : ~ Matches(n.path, r.src) /\ n.path \in Path
    BY <1>5, CopiesApart DEF Rows
  <2> QED
    BY <1>2, <2>1, NamedIs
<1>9. Copied(r, new)
  <2>1. Web!Doomed(r) = Selected(r.user, r.src)
    BY <1>2, DoomedIs DEF TypeOK, Path
  <2> SUFFICES ASSUME NEW t \in Selected(r.user, r.src)
               PROVE  \E n \in new : n.user = t.user /\ n.md5 = t.md5 /\ ~ Named(n.path, r)
    BY <2>1 DEF Copied
  <2> DEFINE n == [t EXCEPT !.path = Replace(t.path, r.src, Target(r))]
  <2>2. n \in new
    BY DEF Renamed
  <2>3. n.user = t.user /\ n.md5 = t.md5
    BY DEF Selected, TypeOK
  <2> HIDE DEF n, new
  <2> QED
    BY <1>8, <2>2, <2>3
<1> HIDE DEF new
<1> QED
  BY <1>1, <1>2, <1>4, <1>5, <1>6, <1>7, <1>8, <1>9 DEF ToInsert, Rows, Path

\* What newFolder plans.
LEMMA FolderPlanned ==
  ASSUME WebShaped, TypeOK, NEW r \in WebRequests, r.op = "newFolder", Offered(r)
  PROVE  ToInsert(r, {Row(r.user, r.src, NULL)})
<1> DEFINE n == Row(r.user, r.src, NULL)
           f == Row(r.user, Parent(r.src), NULL)
<1>1. /\ n \in Rows /\ n.user = r.user /\ n.path = r.src /\ f.user = r.user /\ f.path = Parent(r.src)
  BY WebRequestTyped DEF Row, Rows
<1>2. f \in file
  BY DEF Offered
<1> HIDE DEF n, f
<1>3. user[r.user] # NoPassword
  BY <1>1, <1>2 DEF TypeOK
<1>4. Good(n.path)
  BY <1>1 DEF WebShaped
<1>5. Parented(n, file \union {n})
  BY <1>1, <1>2 DEF Parented
<1>6. ToInsert(r, {n})
  BY <1>1, <1>3, <1>4, <1>5 DEF ToInsert, Rows, Path
<1> QED
  BY <1>6 DEF n

\* What register plans.
LEMMA RootPlanned ==
  ASSUME NEW r \in WebRequests, r.op = "register", user'[r.user] # NoPassword
  PROVE  ToInsert(r, {Row(r.user, Root, NULL)})'
<1> DEFINE n == Row(r.user, Root, NULL)
<1>1. n \in Rows /\ n.user = r.user /\ n.path = Root
  BY WebRequestTyped, RootPath DEF Row, Rows
<1> HIDE DEF n
<1>2. Good(n.path)
  BY <1>1, GoodRoot
<1>3. ToInsert(r, {n})'
  BY <1>1, <1>2 DEF ToInsert, Parented, Rows, Path, SameKey, Good
<1> QED
  BY <1>3 DEF n, Row

\* The requests of a page: each step plans well.
LEMMA PageMoves ==
  ASSUME Sensible, WebShaped, TreeInv, NEW s \in Sessions, WebStep(s)
  PROVE  \E label, q, rows : PageMove(s, label, q, rows)
<1> USE DEF WebLabels
<1>1. /\ TypeOK /\ GoodInv /\ Reachable /\ BothTypes /\ WebTypes /\ WebStages /\ PlanOf(s)
      /\ wpc[s] # "idle" => wreq[s] \in WebRequests
  BY TreeParts DEF TreeInv, PlanInv
<1>2. ASSUME NEW q \in WebRequests, Web!To(s, q, "idle", {}),
             \/ wpc[s] # "idle" /\ q = wreq[s]
             \/ wpc[s] = "idle" /\ MayAsk(q.user, q.op = "register")
      PROVE  PageMove(s, "idle", q, {})
  BY <1>1, <1>2, ToMoves DEF PageMove, Planned
<1>3. ASSUME NEW q \in WebRequests, NEW label \in WebLabels, NEW rows, Web!To(s, q, label, rows),
             label = "addUser" => q.op = "register",
             label = "follow" => q.op = "move",
             label = "remove" => q.op \in {"delete", "move"},
             \/ wpc[s] # "idle" /\ q = wreq[s]
             \/ wpc[s] = "idle" /\ MayAsk(q.user, q.op = "register"),
             Planned(label, q, rows)'
      PROVE  PageMove(s, label, q, rows)
  BY <1>1, <1>3, ToMoves DEF PageMove
<1>4. ASSUME file' = file, user' = user
      PROVE  \A label, q, rows : Planned(label, q, rows) => Planned(label, q, rows)'
  <2>1. \A q : Web!Doomed(q)' = Web!Doomed(q)
    BY <1>4 DEF Web!Doomed, Web!Mine
  <2>2. \A q, rows : Copied(q, rows)' = Copied(q, rows)
    BY <1>4, <2>1 DEF Copied, Named
  <2>3. \A q, rows : ToInsert(q, rows)' = ToInsert(q, rows)
    BY <1>4, <2>2 DEF ToInsert, Parented, SameKey, Good, Named
  <2> QED
    BY <1>4, <2>1, <2>2, <2>3 DEF Planned
<1>5. CASE Web!AddUser(s)
  <2>1. PICK q \in WebRequests : q = wreq[s] /\ wpc[s] = "addUser" /\ q.op = "register"
    BY <1>1, <1>5 DEF Web!AddUser, WebStages
  <2>2. CASE Web!To(s, q, "idle", {})
    BY <1>2, <2>1, <2>2
  <2>3. CASE /\ user' = [user EXCEPT ![q.user] = q.pw]
             /\ Web!To(s, q, "insert", {Web!Row(q.user, Web!Root, NULL)})
    <3>1. user'[q.user] # NoPassword
      BY <1>1, <2>1, <2>3, WebRequestTyped, RequestsAssumption DEF BothTypes
    <3>2. ToInsert(q, {Row(q.user, Root, NULL)})'
      BY <2>1, <3>1, RootPlanned
    <3>3. Planned("insert", q, {Row(q.user, Root, NULL)})'
      BY <3>2 DEF Planned
    <3>4. Web!To(s, q, "insert", {Row(q.user, Root, NULL)})
      BY <2>3, WebPaths
    <3>5. PageMove(s, "insert", q, {Row(q.user, Root, NULL)})
      BY <1>3, <2>1, <3>3, <3>4 DEF Row
    <3> QED
      BY <3>5
  <2> QED
    BY <1>5, <2>1, <2>2, <2>3 DEF Web!AddUser
<1>6. CASE Web!Insert(s)
  <2>1. PICK q \in WebRequests : q = wreq[s] /\ wpc[s] = "insert" /\ ToInsert(q, plan[s])
    BY <1>1, <1>6 DEF Web!Insert, PlanOf, Planned
  <2>2. CASE Web!To(s, q, "idle", {})
    BY <1>2, <2>1, <2>2
  <2>3. CASE q.op = "move" /\ Web!Unused(plan[s]) /\ Web!To(s, q, "follow", {})
    <3>1. file' = file \union plan[s]
      BY <1>6, <2>3 DEF Web!Insert, Web!Commit
    <3>2. Copied(q, plan[s]) /\ \A n \in plan[s] : ~ Named(n.path, q)
      BY <2>1, <2>3 DEF ToInsert
    <3>3. Web!Doomed(q)' = Web!Doomed(q)
      <4>1. Web!Doomed(q) = {t \in file : t.user = q.user /\ Named(t.path, q)}
        BY WebPaths, WebLists DEF Web!Doomed, Web!Mine, Named
      <4>2. Web!Doomed(q)' = {t \in file' : t.user = q.user /\ Named(t.path, q)}
        BY WebPaths, WebLists DEF Web!Doomed, Web!Mine, Named
      <4> QED
        BY <3>1, <3>2, <4>1, <4>2
    <3>4. Copied(q, file)'
      BY <3>1, <3>2, <3>3 DEF Copied, Named
    <3>5. Planned("follow", q, {})'
      BY <3>4 DEF Planned
    <3>6. PageMove(s, "follow", q, {})
      BY <1>3, <2>1, <2>3, <3>5
    <3> QED
      BY <3>6
  <2> QED
    BY <1>6, <2>1, <2>2, <2>3 DEF Web!Insert
<1>7. CASE Web!Follow(s)
  <2>1. PICK q \in WebRequests : /\ q = wreq[s] /\ wpc[s] = "follow" /\ q.op = "move"
                                 /\ Copied(q, file)
    BY <1>1, <1>7 DEF Web!Follow, PlanOf, Planned, WebStages
  <2>2. CASE Web!To(s, q, "idle", {})
    BY <1>2, <2>1, <2>2
  <2>3. CASE Web!To(s, q, "remove", Web!Doomed(q))
    <3>1. Planned("remove", q, Web!Doomed(q))
      BY <2>1 DEF Planned
    <3>2. PICK rows : rows = Web!Doomed(q)
      OBVIOUS
    <3>3. Planned("remove", q, rows)'
      BY <1>4, <1>7, <3>1, <3>2 DEF Web!Follow
    <3>4. PageMove(s, "remove", q, rows)
      BY <1>3, <2>1, <2>3, <3>2, <3>3
    <3> QED
      BY <3>4
  <2> QED
    BY <1>7, <2>1, <2>2, <2>3 DEF Web!Follow
<1>8. CASE Web!RemoveRows(s)
  <2>1. PICK q \in WebRequests : q = wreq[s] /\ wpc[s] = "remove" /\ Web!To(s, q, "idle", {})
    BY <1>1, <1>8 DEF Web!RemoveRows
  <2> QED
    BY <1>2, <2>1
<1>9. ASSUME NEW q \in WebRequests, MayAsk(q.user, q.op = "register"), Offered(q), Web!Ask(s, q)
      PROVE  \E label, rows : PageMove(s, label, q, rows)
  <2>1. wpc[s] = "idle" /\ user' = user /\ file' = file
    BY <1>9 DEF Web!Ask, Web!FindUser, Web!NewFolder, Web!Copy, Web!Delete, Web!Take
  <2>2. CASE \E rows : Web!To(s, q, "idle", rows) /\ rows = {}
    BY <1>2, <1>9, <2>1, <2>2
  <2>3. ASSUME NEW label \in WebLabels, NEW rows, Web!To(s, q, label, rows),
               label = "addUser" => q.op = "register",
               label = "follow" => q.op = "move",
               label = "remove" => q.op \in {"delete", "move"},
               Planned(label, q, rows)
        PROVE  PageMove(s, label, q, rows)
    BY <1>3, <1>4, <1>9, <2>1, <2>3
  <2>4. CASE Web!FindUser(s, q)
    <3>1. q.op = "register" /\ (Web!To(s, q, "addUser", {}) \/ Web!To(s, q, "idle", {}))
      BY <2>4 DEF Web!FindUser, Web!Take
    <3>2. Planned("addUser", q, {})
      BY DEF Planned
    <3> QED
      BY <2>2, <2>3, <3>1, <3>2
  <2>5. CASE Web!NewFolder(s, q)
    <3>1. /\ q.op = "newFolder"
          /\ \/ Web!To(s, q, "insert", {Row(q.user, q.src, NULL)})
             \/ Web!To(s, q, "idle", {})
      BY <2>5, WebPaths DEF Web!NewFolder, Web!Take
    <3>2. Planned("insert", q, {Row(q.user, q.src, NULL)})
      BY <1>1, <1>9, <3>1, FolderPlanned DEF Planned
    <3> QED
      BY <2>2, <2>3, <3>1, <3>2
  <2>6. CASE Web!Copy(s, q)
    <3>1. q.op \in {"copy", "move"}
      BY <2>6 DEF Web!Copy
    <3>2. CASE Web!To(s, q, "idle", {})
      BY <2>2, <3>2
    <3>3. CASE ~ Web!Refused(q) /\ Web!To(s, q, "insert", Web!Copies(q))
      <4>1. Copying(q)
        BY <1>9, <3>1 DEF Copying, Offered
      <4>2. ToInsert(q, Web!Copies(q))
        BY <1>1, <1>9, <3>3, <4>1, CopyPlanned
      <4>3. PICK rows : rows = Web!Copies(q)
        OBVIOUS
      <4>4. Planned("insert", q, rows)
        BY <4>2, <4>3 DEF Planned
      <4> QED
        BY <2>3, <3>3, <4>3, <4>4
    <3> QED
      BY <2>6, <3>2, <3>3 DEF Web!Copy
  <2>7. CASE Web!Delete(s, q)
    <3>1. PICK rows : rows = Web!Doomed(q)
      OBVIOUS
    <3>2. /\ q.op = "delete"
          /\ \/ Web!To(s, q, "remove", rows)
             \/ Web!To(s, q, "idle", rows) /\ rows = {}
      BY <2>7, <3>1 DEF Web!Delete, Web!Take
    <3>3. Planned("remove", q, rows)
      BY <3>1, <3>2 DEF Planned
    <3> QED
      BY <2>2, <2>3, <3>2, <3>3
  <2> QED
    BY <1>9, <2>4, <2>5, <2>6, <2>7 DEF Web!Ask
<1> QED
  BY <1>5, <1>6, <1>7, <1>8, <1>9 DEF WebStep, Web!Proceed

\* The tables after a page's step.
LEMMA PageTable ==
  ASSUME WebShaped, TreeInv, NEW s \in Sessions, WebStep(s)
  PROVE  /\ TableOK' /\ (\A t \in file' : Good(t.path)) /\ Reachable'
         /\ \A w \in Users : user[w] # NoPassword => user'[w] = user[w]
         /\ \/ file' = file
            \/ wpc[s] # "idle" /\ \A t : t.user # wreq[s].user => (t \in file <=> t \in file')
<1>1. /\ TypeOK /\ TableOK /\ GoodInv /\ Reachable /\ BothTypes /\ WebStages /\ PlanOf(s)
      /\ wpc[s] # "idle" => wreq[s] \in WebRequests
  BY TreeParts DEF TreeInv, PlanInv
<1>2. /\ user' \in [Users -> Passwords \union {NoPassword}]
      /\ \A w \in Users : user[w] # NoPassword => user'[w] = user[w]
  BY <1>1, UserStep DEF BothNext
<1>3. CASE file' = file
  <2>1. TableOK'
    BY <1>1, <1>2, <1>3 DEF TableOK, Rows, Path, SameKey
  <2>2. Reachable'
    BY <1>1, <1>3 DEF Reachable
  <2> QED
    BY <1>1, <1>2, <1>3, <2>1, <2>2 DEF GoodInv
<1>4. CASE Web!Insert(s) /\ Web!Unused(plan[s])
  <2>1. /\ wpc[s] = "insert" /\ file' = file \union plan[s] /\ user' = user
        /\ ToInsert(wreq[s], plan[s])
    BY <1>1, <1>4 DEF Web!Insert, Web!Commit, PlanOf, Planned
  <2>2. Insertable(plan[s])
    <3>1. \A n \in plan[s] : user[n.user] # NoPassword
      BY <2>1 DEF ToInsert
    <3>2. \A n \in plan[s], t \in file : <<n.user, n.path>> # <<t.user, t.path>>
      BY <1>4 DEF Web!Unused, Web!Keys
    <3> QED
      BY <3>1, <3>2 DEF Insertable, SameKey
  <2>3. plan[s] \subseteq Rows /\ \A m, n \in plan[s] : SameKey(m, n) => m = n
    BY <2>1 DEF ToInsert, Rows, Path
  <2>4. TableOK'
    <3>1. /\ \A r \in file \union plan[s] :
               /\ r \in [user : Users, path : Seq(STRING), md5 : Md5s \union {NULL}]
               /\ user[r.user] # NoPassword
          /\ \A r, t \in file \union plan[s] : SameKey(r, t) => r = t
      BY <1>1, <2>2, <2>3, InsertTyped
    <3> QED
      BY <1>2, <2>1, <3>1 DEF TableOK, Rows, Path, SameKey
  <2>5. \A t \in file' : Good(t.path)
    BY <1>1, <2>1 DEF ToInsert, GoodInv
  <2>6. Reachable'
    BY <1>1, <2>1, ReachInsert DEF ToInsert
  <2>7. \A t : t.user # wreq[s].user => (t \in file <=> t \in file')
    BY <2>1 DEF ToInsert
  <2> QED
    BY <1>2, <2>1, <2>4, <2>5, <2>6, <2>7
<1>5. CASE Web!RemoveRows(s)
  <2>1. /\ wpc[s] = "remove" /\ wreq[s] \in WebRequests /\ user' = user
        /\ plan[s] = Web!Doomed(wreq[s])
        /\ file' = {t \in file : <<t.user, t.path>> \notin {<<n.user, n.path>> : n \in plan[s]}}
    BY <1>1, <1>5 DEF Web!RemoveRows, Web!Keys, PlanOf, Planned
  <2>2. plan[s] = Selected(wreq[s].user, wreq[s].src)
    BY <1>1, <2>1, DoomedIs DEF TypeOK, Path
  <2>3. file' = file \ Selected(wreq[s].user, wreq[s].src)
    BY <1>1, <2>1, <2>2 DEF TypeOK, SameKey, Selected
  <2>4. TableOK'
    BY <1>1, <2>1, <2>3 DEF TableOK, Rows, Path, SameKey
  <2>5. \A t \in file' : Good(t.path)
    BY <1>1, <2>3 DEF GoodInv
  <2>6. Reachable'
    BY <1>1, <2>1, <2>3, ReachDelete DEF WebShaped
  <2>7. \A t : t.user # wreq[s].user => (t \in file <=> t \in file')
    BY <2>3 DEF Selected
  <2> QED
    BY <1>2, <2>1, <2>4, <2>5, <2>6, <2>7
<1>6. file' = file \/ (Web!Insert(s) /\ Web!Unused(plan[s])) \/ Web!RemoveRows(s)
  <2>1. Web!Insert(s) => file' = file \/ Web!Unused(plan[s])
    BY DEF Web!Insert, Web!Commit
  <2>2. ~ Web!Insert(s) /\ ~ Web!RemoveRows(s) => file' = file
    BY DEF WebStep, Web!Proceed, Web!Ask, Web!AddUser, Web!Follow,
           Web!FindUser, Web!NewFolder, Web!Copy, Web!Delete, Web!Take
  <2> QED
    BY <2>1, <2>2
<1> QED
  BY <1>3, <1>4, <1>5, <1>6

\* A page's step keeps TreeInv.
LEMMA WebTree ==
  ASSUME Sequential, Sensible, WebShaped, TreeInv, NEW s \in Sessions, WebStep(s)
  PROVE  TreeInv'
<1>1. PICK label, q, rows : PageMove(s, label, q, rows)
  BY PageMoves
<1>2. /\ TypeOK /\ StageInv /\ GotInv /\ WinInv /\ AloneInv /\ ReadInv /\ GoodInv /\ TargetInv
      /\ WebStages /\ WebAlone /\ PlanInv /\ WebTypes
  BY TreeParts DEF TreeInv
<1>3. /\ pc' = pc /\ req' = req /\ got' = got /\ reply' = reply /\ locals' = locals
  BY DEF WebStep, locals
<1>4. /\ q \in WebRequests /\ q.user \in Users /\ q # None
      /\ WebMoves(s, label, IF label = "idle" THEN None ELSE q, rows) /\ WebTypes'
      /\ label = "addUser" => q.op = "register"
      /\ label = "follow" => q.op = "move"
      /\ label = "remove" => q.op \in {"delete", "move"}
  BY <1>1, WebRequestTyped DEF PageMove
<1>5. /\ \A t \in Sessions : t # s /\ wpc[t] # "idle" /\ wreq[t].user = q.user =>
                               wreq[t].op = "register" /\ q.op = "register"
      /\ \A p \in Procs : pc[p] # "idle" /\ req[p].user = q.user =>
                            req[p].op = "regist" /\ q.op = "register"
  <2>1. CASE wpc[s] # "idle" /\ q = wreq[s]
    BY <1>2, <2>1 DEF WebAlone
  <2>2. CASE MayAsk(q.user, q.op = "register")
    BY <2>2 DEF MayAsk
  <2> QED
    BY <1>1, <2>1, <2>2 DEF PageMove
<1>6. /\ TableOK' /\ (\A t \in file' : Good(t.path)) /\ Reachable'
      /\ \A w \in Users : user[w] # NoPassword => user'[w] = user[w]
  BY PageTable
<1>7. On(q.user)
  <2>1. \/ file' = file
        \/ wpc[s] # "idle" /\ \A t : t.user # wreq[s].user => (t \in file <=> t \in file')
    BY PageTable
  <2>2. wpc[s] # "idle" => q = wreq[s]
    BY <1>1 DEF PageMove
  <2> QED
    BY <1>6, <2>1, <2>2 DEF On, SameRows
<1>8. TypeOK'
  <2>1. LocalTypes /\ \A p \in Procs : pc[p] # "idle" => req[p] # None
    BY <1>2, TypeParts
  <2>2. LocalTypes'
    BY <1>3, <2>1 DEF LocalTypes
  <2> QED
    BY <1>2, <1>3, <1>6, <2>2 DEF TypeOK, TableOK, LocalTypes, Rows, Path
<1>9. StageInv' /\ GotInv' /\ AloneInv'
  BY <1>2, <1>3 DEF StageInv, GotInv, AloneInv, SameKey
<1>10. WinInv'
  <2>1. \A p \in Procs : Winner(p)' <=> Winner(p)
    BY <1>3 DEF Winner
  <2>2. \A p \in Procs : Winner(p) => req[p].user \in Users /\ req[p].pw # NoPassword
    <3>1. \A p \in Procs : Winner(p) => req[p] \in Requests
      BY <1>2 DEF Winner, RegistSteps, TypeOK
    <3>2. \A r \in Requests : r.user \in Users /\ r.pw # NoPassword
      BY RequestTyped, RequestsAssumption
    <3> QED
      BY <3>1, <3>2
  <2> QED
    BY <1>2, <1>3, <1>6, <2>1, <2>2 DEF WinInv
<1>11. ReadInv' /\ TargetInv'
  <2>1. \A p \in Procs : pc[p] \in {"insert", "delete"} => req[p].user # q.user
    BY <1>2, <1>5 DEF StageInv
  <2> QED
    BY <1>2, <1>3, <1>7, <2>1, ReadFrame
<1>12. GoodInv'
  BY <1>2, <1>3, <1>6 DEF GoodInv
<1>13. ReachInv'
  BY <1>6, <1>8, <1>9, <1>10, <1>11, <1>12 DEF ReachInv, MoveInv, TableInv
<1>14. WebStages'
  <2>1. \A t \in Sessions :
          /\ wpc'[t] # "idle" => wreq'[t] # None
          /\ wpc'[t] = "addUser" => wreq'[t].op = "register"
          /\ wpc'[t] = "follow" => wreq'[t].op = "move"
          /\ wpc'[t] = "remove" => wreq'[t].op \in {"delete", "move"}
    BY <1>2, <1>4 DEF WebStages, WebMoves
  <2> QED
    BY <1>4, <2>1 DEF WebStages, WebTypes, WebLabels
<1>15. WebAlone'
  <2>1. wpc'[s] # "idle" => wreq'[s] = q
    BY <1>4 DEF WebMoves
  <2>2. \A t \in Sessions : t # s => wpc'[t] = wpc[t] /\ wreq'[t] = wreq[t]
    BY <1>4 DEF WebMoves
  <2> QED
    BY <1>2, <1>3, <1>5, <2>1, <2>2 DEF WebAlone
<1>16. PlanInv'
  <2> SUFFICES ASSUME NEW t \in Sessions PROVE PlanOf(t)'
    BY DEF PlanInv
  <2>1. CASE t = s
    <3>1. Planned(label, q, rows)' /\ wpc'[s] = label /\ plan'[s] = rows
          /\ (label # "idle" => wreq'[s] = q)
      BY <1>1, <1>4 DEF PageMove, WebMoves
    <3>2. CASE label = "idle"
      BY <2>1, <3>1, <3>2 DEF PlanOf, Planned
    <3>3. CASE label # "idle"
      BY <2>1, <3>1, <3>3 DEF PlanOf, Planned, ToInsert, Copied, Web!Doomed, Web!Mine, Named,
         Parented, SameKey, Good
    <3> QED
      BY <3>2, <3>3
  <2>2. CASE t # s
    <3>1. PlanOf(t) /\ wpc'[t] = wpc[t] /\ wreq'[t] = wreq[t] /\ plan'[t] = plan[t]
      BY <1>2, <1>4, <2>2 DEF PlanInv, WebMoves
    <3>2. wpc[t] # "idle" => wreq[t].user # q.user \/ wreq[t].op = "register"
      BY <1>5, <2>2
    <3>3. \A r \in WebRequests : r.user \in Users
      BY WebRequestTyped
    <3> QED
      BY <1>2, <1>7, <3>1, <3>2, <3>3, PlanFrame
  <2> QED
    BY <2>1, <2>2
<1> QED
  BY <1>13, <1>14, <1>15, <1>16 DEF TreeInv

\* TreeInv in every reachable state.
THEOREM TreeInvariance == Keeping => (BothSpec => []TreeInv)
<1> SUFFICES ASSUME Keeping PROVE BothSpec => []TreeInv
  OBVIOUS
<1>1. Sequential /\ Sensible /\ Apart /\ Plain /\ Shaped /\ WebShaped
  BY DEF Keeping
<1>2. BothInit => TreeInv
  BY DEF BothInit, Init, Web!WebInit, TreeInv, ReachInv, MoveInv, TableInv, TypeOK, StageInv,
     GotInv, WinInv, Winner, AloneInv, ReadInv, GoodInv, Reachable, TargetInv, WebStages, WebAlone,
     PlanInv, PlanOf, Planned, RegistSteps, Labels
<1>3. TreeInv /\ [BothNext]_allVars => TreeInv'
  <2>1. ASSUME TreeInv, UNCHANGED allVars PROVE TreeInv'
    <3>1. UNCHANGED vars /\ wpc' = wpc /\ wreq' = wreq /\ plan' = plan
      BY <2>1 DEF allVars
    <3>2. ReachInv'
      <4>1. MoveInv /\ GoodInv /\ Reachable /\ TargetInv /\ TypeOK
        BY <2>1, TreeParts DEF TreeInv, ReachInv
      <4> QED
        BY <1>1, <3>1, <4>1, MoveStep, GoodStep, ReachStep DEF ReachInv
    <3>3. WebStages' /\ WebAlone'
      BY <2>1, <3>1 DEF TreeInv, WebStages, WebAlone, vars, locals
    <3>4. PlanInv'
      BY <2>1, <3>1 DEF TreeInv, PlanInv, PlanOf, Planned, ToInsert, Copied, Web!Doomed,
         Web!Mine, Named, Parented, SameKey, Good, vars
    <3> QED
      BY <3>2, <3>3, <3>4 DEF TreeInv
  <2> QED
    BY <1>1, <2>1, ServerTree, WebTree DEF BothNext
<1> QED
  BY <1>2, <1>3, PTL DEF BothSpec

\* Reachable, with both programs on one tree (DB_Operate.cpp's statements and
\* views.py's newFolder, copy, move and delete): no step of either leaves a row
\* whose folder has none, while users do one thing at a time, on either side.
THEOREM RowsAreReachableInBoth == Keeping => (BothSpec => []Reachable)
<1>1. TreeInv => Reachable
  BY DEF TreeInv, ReachInv
<1> QED
  BY <1>1, TreeInvariance, PTL

\* OnlyDeleteLoses: a row of a file goes for good only in a delete that its
\* user asked for; the DELETE of a move, and the delete that follows the web
\* driver's move, leave a row of the same user with the same contents
\* (DB_Operate.cpp's Update_File_Info, views.py's copy, then delete).
THEOREM OnlyDeletesLose == Keeping => (BothSpec => OnlyDeleteLoses)
<1> SUFFICES ASSUME Keeping PROVE BothSpec => OnlyDeleteLoses
  OBVIOUS
<1> DEFINE Fate(r) == \/ r.md5 = NULL
                      \/ \E s \in file' : s.user = r.user /\ s.md5 = r.md5
                      \/ \E p \in Procs, q \in Requests : q.user = r.user /\ DelFile(p, q)
                      \/ \E s \in Sessions : wpc[s] = "remove" /\ wreq[s].op = "delete"
                                             /\ wreq[s].user = r.user
           Kept == \A r \in file \ file' : Fate(r)
<1>1. ASSUME TreeInv, NEW p \in Procs, ServerStep(p), NEW r \in file \ file' PROVE Fate(r)
  <2>1. TypeOK /\ StageInv /\ ReadInv
    BY <1>1, TreeParts
  <2>2. CASE DeleteOld(p)
    <3> DEFINE new == Renamed(req[p].user, req[p].src, req[p].dst)
               n == [r EXCEPT !.path = Replace(r.path, req[p].src, req[p].dst)]
    <3>1. /\ pc[p] = "delete" /\ r \in Selected(req[p].user, req[p].src)
          /\ file' = file \ Selected(req[p].user, req[p].src)
      BY <1>1, <2>2 DEF DeleteOld
    <3>2. n \in new /\ n.user = r.user /\ n.md5 = r.md5
      BY <2>1, <3>1 DEF Renamed, Selected, TypeOK
    <3>3. new \subseteq file /\ \A m \in new : ~ Matches(m.path, req[p].src)
      BY <2>1, <3>1 DEF ReadInv
    <3> HIDE DEF new, n
    <3>4. n \in file'
      BY <3>1, <3>2, <3>3 DEF Selected
    <3> QED
      BY <3>2, <3>4
  <2>3. ASSUME NEW q \in Requests, DelFile(p, q) PROVE Fate(r)
    <3>1. q.user = r.user
      BY <1>1, <2>3 DEF DelFile, Selected
    <3> QED
      BY <2>3, <3>1
  <2>4. Continue(p) \/ \E q \in Requests : Begin(p, q)
    BY <1>1 DEF ServerStep
  <2> HIDE DEF Fate
  <2> QED
    BY <1>1, <2>2, <2>3, <2>4, RowsStep
<1>2. ASSUME TreeInv, NEW s \in Sessions, WebStep(s), NEW r \in file \ file' PROVE Fate(r)
  <2>1. TypeOK /\ WebStages /\ PlanOf(s)
    BY <1>2, TreeParts DEF TreeInv, PlanInv
  <2>2. CASE Web!RemoveRows(s)
    <3>1. /\ wpc[s] = "remove" /\ wreq[s] \in WebRequests /\ wreq[s].op \in {"delete", "move"}
          /\ plan[s] = Web!Doomed(wreq[s])
          /\ file' = {t \in file : <<t.user, t.path>> \notin {<<n.user, n.path>> : n \in plan[s]}}
      BY <2>1, <2>2 DEF Web!RemoveRows, Web!Keys, WebStages, PlanOf, Planned
    <3>2. Web!Doomed(wreq[s]) = {t \in file : t.user = wreq[s].user /\ Named(t.path, wreq[s])}
      BY WebPaths, WebLists DEF Web!Doomed, Web!Mine, Named
    <3>3. file' = {t \in file : t \notin plan[s]}
      BY <2>1, <3>1, <3>2 DEF TypeOK, SameKey
    <3>4. r \in plan[s] /\ r.user = wreq[s].user
      BY <1>2, <3>1, <3>2, <3>3
    <3>5. CASE wreq[s].op = "delete"
      BY <3>1, <3>4, <3>5
    <3>6. CASE wreq[s].op = "move"
      <4>1. Copied(wreq[s], file)
        BY <2>1, <3>1, <3>6 DEF PlanOf, Planned
      <4>2. PICK n \in file : n.user = r.user /\ n.md5 = r.md5 /\ ~ Named(n.path, wreq[s])
        BY <3>1, <3>4, <4>1 DEF Copied
      <4>3. n \in file'
        BY <3>1, <3>2, <3>3, <4>2
      <4> QED
        BY <4>2, <4>3
    <3> QED
      BY <3>1, <3>5, <3>6
  <2>3. CASE Web!Insert(s)
    BY <1>2, <2>3 DEF Web!Insert, Web!Commit
  <2>4. file' = file \/ Web!Insert(s) \/ Web!RemoveRows(s)
    BY <1>2 DEF WebStep, Web!Proceed, Web!Ask, Web!AddUser, Web!Follow, Web!FindUser,
       Web!NewFolder, Web!Copy, Web!Delete, Web!Take
  <2> HIDE DEF Fate
  <2> QED
    BY <1>2, <2>2, <2>3, <2>4
<1>3. TreeInv /\ BothNext => Kept
  <2> HIDE DEF Fate
  <2> QED
    BY <1>1, <1>2 DEF BothNext
<1>4. TreeInv /\ [BothNext]_allVars => [Kept]_allVars
  <2> HIDE DEF Kept
  <2> QED
    BY <1>3
<1> QED
  BY <1>4, TreeInvariance, PTL DEF BothSpec, OnlyDeleteLoses
=============================================================================
