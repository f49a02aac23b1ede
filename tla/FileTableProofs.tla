--------------------------- MODULE FileTableProofs ---------------------------
(***************************************************************************)
(* What the requests on tables user and file keep, for any number of       *)
(* children, accounts, requests and rows.                                  *)
(***************************************************************************)
EXTENDS FileTableInvariant, FiniteSetTheorems, SequenceTheorems,
        WellFoundedInduction, TLAPS

-----------------------------------------------------------------------------
(* Paths *)

Path == Seq(STRING)

LEMMA RootPath == Root \in Path
<1>1. \A S : \A x \in S : <<x>> \in Seq(S)
  OBVIOUS
<1> QED
  BY <1>1, SlashAssumption, Zenon DEF Root, Path

\* The smaller of two numbers.
LEMMA MinOfTwo ==
  ASSUME NEW a \in Nat, NEW b \in Nat
  PROVE  Min({a, b}) = IF a <= b THEN a ELSE b
<1>1. \E x \in {a, b} : \A y \in {a, b} : x <= y
  OBVIOUS
<1>2. Min({a, b}) \in {a, b} /\ \A y \in {a, b} : Min({a, b}) <= y
  BY <1>1 DEF Min
<1> QED
  BY <1>2

\* A path has at least as many bytes as tokens.
LEMMA BytesBound ==
  ASSUME NEW path \in Path
  PROVE  Bytes(path) \in Nat /\ Len(path) <= Bytes(path)
<1> DEFINE W == {i \in DOMAIN path : path[i] \in Wide}
<1>1. IsFiniteSet(1 .. Len(path))
  BY FS_Interval DEF Path
<1>2. W \in SUBSET (1 .. Len(path))
  BY DEF Path
<1>3. IsFiniteSet(W)
  BY <1>1, <1>2, FS_Subset
<1>4. Cardinality(W) \in Nat
  BY <1>3, FS_CardinalityType
<1>5. Bytes(path) = Len(path) + Cardinality(W)
  BY DEF Bytes
<1> HIDE DEF W
<1> QED
  BY <1>4, <1>5 DEF Path

\* A path that is matched begins with the path of the request.
LEMMA MatchesPrefix ==
  ASSUME NEW p \in Path, NEW path \in Path, Matches(p, path)
  PROVE  /\ Len(path) <= Len(p)
         /\ \A i \in 1 .. Len(path) : p[i] = path[i]
<1>1. CASE IsFolder(path)
  <2>1. PICK n \in Nat : n = Min({Len(p), Bytes(path)}) /\ n <= Len(p)
    <3>1. Len(p) \in Nat /\ Bytes(path) \in Nat
      BY BytesBound DEF Path
    <3>2. Min({Len(p), Bytes(path)}) = IF Len(p) <= Bytes(path) THEN Len(p) ELSE Bytes(path)
      BY <3>1, MinOfTwo, Zenon
    <3> QED
      BY <3>1, <3>2
  <2>2. SubSeq(p, 1, n) = path
    BY <1>1, <2>1 DEF Matches
  <2>3. Len(SubSeq(p, 1, n)) = n
    BY <2>1 DEF Path
  <2>4. \A i \in 1 .. n : SubSeq(p, 1, n)[i] = p[i]
    BY <2>1 DEF Path
  <2> QED
    BY <2>1, <2>2, <2>3, <2>4
<1>2. CASE ~IsFolder(path)
  BY <1>2 DEF Matches, Path
<1> QED
  BY <1>1, <1>2

\* Replace puts dst for the first tokens of a path.
LEMMA ReplaceIs ==
  ASSUME NEW p \in Path, NEW src \in Path, NEW dst \in Path, Len(src) <= Len(p)
  PROVE  /\ Replace(p, src, dst) \in Path
         /\ Len(Replace(p, src, dst)) = Len(dst) + Len(p) - Len(src)
         /\ \A i \in 1 .. Len(dst) : Replace(p, src, dst)[i] = dst[i]
         /\ \A i \in 1 .. Len(p) - Len(src) :
              Replace(p, src, dst)[Len(dst) + i] = p[Len(src) + i]
<1> DEFINE t == SubSeq(p, Len(src) + 1, Len(p))
<1>1. /\ t \in Path /\ Len(t) = Len(p) - Len(src)
      /\ \A i \in 1 .. Len(p) - Len(src) : t[i] = p[Len(src) + i]
  BY DEF Path
<1>2. Replace(p, src, dst) = dst \o t
  BY DEF Replace
<1> HIDE DEF t
<1>3. /\ dst \o t \in Path
      /\ Len(dst \o t) = Len(dst) + Len(t)
      /\ \A i \in 1 .. Len(dst) + Len(t) :
           (dst \o t)[i] = IF i <= Len(dst) THEN dst[i] ELSE t[i - Len(dst)]
  BY <1>1, ConcatProperties DEF Path
<1>4. Len(dst) \in Nat /\ Len(p) \in Nat /\ Len(src) \in Nat
  BY DEF Path
<1>5. \A i \in 1 .. Len(p) - Len(src) : (dst \o t)[Len(dst) + i] = t[i]
  BY <1>1, <1>3, <1>4
<1> QED
  BY <1>1, <1>2, <1>3, <1>4, <1>5

\* It gives paths of one source different names.
LEMMA ReplaceInjective ==
  ASSUME NEW p \in Path, NEW q \in Path, NEW src \in Path, NEW dst \in Path,
         Matches(p, src), Matches(q, src), Replace(p, src, dst) = Replace(q, src, dst)
  PROVE  p = q
<1>0. \A s \in Path : Len(s) \in Nat
  BY DEF Path
<1>1. /\ Len(src) <= Len(p) /\ \A i \in 1 .. Len(src) : p[i] = src[i]
      /\ Len(src) <= Len(q) /\ \A i \in 1 .. Len(src) : q[i] = src[i]
  BY MatchesPrefix, Zenon
<1>2. Len(p) = Len(q)
  <2>1. /\ Len(Replace(p, src, dst)) = Len(dst) + Len(p) - Len(src)
        /\ Len(Replace(q, src, dst)) = Len(dst) + Len(q) - Len(src)
    BY <1>1, ReplaceIs, Zenon
  <2> QED
    BY <1>0, <2>1
<1>3. ASSUME NEW i \in 1 .. Len(p), i > Len(src) PROVE p[i] = q[i]
  <2>1. PICK j \in 1 .. Len(p) - Len(src) : i = Len(src) + j
    BY <1>3 DEF Path
  <2>2. /\ Replace(p, src, dst)[Len(dst) + j] = p[Len(src) + j]
        /\ Replace(q, src, dst)[Len(dst) + j] = q[Len(src) + j]
    <3>1. /\ \A k \in 1 .. Len(p) - Len(src) : Replace(p, src, dst)[Len(dst) + k] = p[Len(src) + k]
          /\ \A k \in 1 .. Len(q) - Len(src) : Replace(q, src, dst)[Len(dst) + k] = q[Len(src) + k]
      BY <1>1, ReplaceIs, Zenon
    <3> QED
      BY <1>2, <3>1
  <2> QED
    BY <2>1, <2>2
<1>4. \A i \in 1 .. Len(p) : p[i] = q[i]
  BY <1>1, <1>3 DEF Path
<1> QED
  BY <1>2, <1>4, SeqEqual DEF Path

\* The new path of a folder's row lies in the new folder.
LEMMA ReplaceMatches ==
  ASSUME NEW p \in Path, NEW src \in Path \ {<<>>}, NEW dst \in Path \ {<<>>}, Matches(p, src),
         IsFolder(src) => IsFolder(dst), Bytes(dst) = Len(dst)
  PROVE  Matches(Replace(p, src, dst), dst)
<1> DEFINE r == Replace(p, src, dst)
<1>0. Len(src) \in Nat /\ Len(dst) \in Nat /\ Len(p) \in Nat
  BY DEF Path
<1>1. /\ Len(src) <= Len(p) /\ r \in Path /\ Len(dst) <= Len(r)
      /\ \A i \in 1 .. Len(dst) : r[i] = dst[i]
      /\ Len(r) = Len(dst) + Len(p) - Len(src)
  <2>1. Len(src) <= Len(p)
    BY MatchesPrefix, Zenon
  <2>2. /\ r \in Path /\ Len(r) = Len(dst) + Len(p) - Len(src)
        /\ \A i \in 1 .. Len(dst) : r[i] = dst[i]
    BY <2>1, ReplaceIs, Zenon
  <2> QED
    BY <1>0, <2>1, <2>2
<1> HIDE DEF r
<1>2. CASE IsFolder(dst)
  <2>1. Min({Len(r), Bytes(dst)}) = Len(dst)
    <3>1. Len(r) \in Nat /\ Len(dst) \in Nat
      BY <1>1 DEF Path
    <3> QED
      BY <1>1, <3>1, MinOfTwo
  <2>2. SubSeq(r, 1, Len(dst)) = dst
    BY <1>1, SeqEqual DEF Path
  <2> QED
    BY <1>2, <2>1, <2>2 DEF Matches, r
<1>3. CASE ~IsFolder(dst)
  <2>1. p = src
    BY <1>3 DEF Matches
  <2>2. r = dst
    BY <1>1, <2>1, SeqEqual DEF Path
  <2> QED
    BY <1>3, <2>2 DEF Matches, r
<1> QED
  BY <1>2, <1>3

\* If neither folder lies in the other, it does not lie in the old one.
LEMMA ReplaceApart ==
  ASSUME NEW p \in Path, NEW src \in Path, NEW dst \in Path, Matches(p, src),
         ~IsPrefix(src, dst), ~IsPrefix(dst, src)
  PROVE  ~Matches(Replace(p, src, dst), src)
<1> DEFINE r == Replace(p, src, dst)
<1> SUFFICES ASSUME Matches(r, src) PROVE FALSE
  OBVIOUS
<1>0. Len(src) \in Nat /\ Len(dst) \in Nat /\ Len(p) \in Nat
  BY DEF Path
<1>1. /\ Len(src) <= Len(p) /\ r \in Path /\ Len(dst) <= Len(r)
      /\ \A i \in 1 .. Len(dst) : r[i] = dst[i]
  <2>1. Len(src) <= Len(p)
    BY MatchesPrefix, Zenon
  <2>2. /\ r \in Path /\ Len(r) = Len(dst) + Len(p) - Len(src)
        /\ \A i \in 1 .. Len(dst) : r[i] = dst[i]
    BY <2>1, ReplaceIs, Zenon
  <2> QED
    BY <1>0, <2>1, <2>2
<1> HIDE DEF r
<1>2. Len(src) <= Len(r) /\ \A i \in 1 .. Len(src) : r[i] = src[i]
  BY <1>1, MatchesPrefix
<1>3. CASE Len(src) <= Len(dst)
  <2>1. \A i \in 1 .. Len(src) : dst[i] = src[i]
    BY <1>1, <1>2, <1>3 DEF Path
  <2>2. SubSeq(src, 1, Len(src)) = SubSeq(dst, 1, Len(src))
    BY <1>3, <2>1 DEF Path
  <2> QED
    BY <1>3, <2>2 DEF IsPrefix
<1>4. CASE Len(dst) <= Len(src)
  <2>1. \A i \in 1 .. Len(dst) : dst[i] = src[i]
    BY <1>1, <1>2, <1>4 DEF Path
  <2>2. SubSeq(dst, 1, Len(dst)) = SubSeq(src, 1, Len(dst))
    BY <1>4, <2>1 DEF Path
  <2> QED
    BY <1>4, <2>2 DEF IsPrefix
<1> QED
  BY <1>3, <1>4 DEF Path

-----------------------------------------------------------------------------
(* Rows and requests *)

Rows == [user : Users, path : Path, md5 : Md5s \union {NULL}]

\* What a request holds.
LEMMA RequestTyped ==
  ASSUME NEW r \in Requests
  PROVE  /\ r.op \in Ops /\ r.user \in Users /\ r.pw \in Passwords
         /\ r.src \in Path \ {<<>>} /\ r.dst \in Path \ {<<>>} /\ r.md5 \in Md5s \union {NULL}
         /\ r # None
  BY RequestsAssumption DEF Path

\* The rows that a copy or move adds have keys of their own.
LEMMA RenamedRows ==
  ASSUME TypeOK, NEW u \in Users, NEW src \in Path, NEW dst \in Path
  PROVE  /\ \A n \in Renamed(u, src, dst) : n \in Rows /\ n.user = u
         /\ \A m, n \in Renamed(u, src, dst) : SameKey(m, n) => m = n
<1>1. ASSUME NEW n \in Renamed(u, src, dst)
      PROVE  \E r \in file : /\ r \in Rows /\ r.user = u /\ Matches(r.path, src)
                             /\ Replace(r.path, src, dst) \in Path
                             /\ n = [user |-> u, path |-> Replace(r.path, src, dst), md5 |-> r.md5]
  <2>1. PICK r \in Selected(u, src) : n = [r EXCEPT !.path = Replace(r.path, src, dst)]
    BY <1>1 DEF Renamed
  <2>2. r \in file /\ r \in Rows /\ r.user = u /\ Matches(r.path, src) /\ r.path \in Path
    BY DEF Selected, TypeOK, Rows, Path
  <2>3. Replace(r.path, src, dst) \in Path
    BY <2>2, MatchesPrefix, ReplaceIs, Zenon
  <2>4. n = [user |-> u, path |-> Replace(r.path, src, dst), md5 |-> r.md5]
    BY <2>1, <2>2 DEF Rows
  <2> QED
    BY <2>2, <2>3, <2>4
<1>2. ASSUME NEW n \in Renamed(u, src, dst) PROVE n \in Rows /\ n.user = u
  BY <1>1, <1>2 DEF Rows
<1>3. ASSUME NEW m \in Renamed(u, src, dst), NEW n \in Renamed(u, src, dst), SameKey(m, n)
      PROVE  m = n
  <2>1. PICK r \in file : /\ r \in Rows /\ r.user = u /\ Matches(r.path, src)
                          /\ m = [user |-> u, path |-> Replace(r.path, src, dst), md5 |-> r.md5]
    BY <1>1
  <2>2. PICK s \in file : /\ s \in Rows /\ s.user = u /\ Matches(s.path, src)
                          /\ n = [user |-> u, path |-> Replace(s.path, src, dst), md5 |-> s.md5]
    BY <1>1
  <2>3. Replace(r.path, src, dst) = Replace(s.path, src, dst) /\ r.path \in Path /\ s.path \in Path
    BY <1>3, <2>1, <2>2 DEF SameKey, Rows
  <2>4. r.path = s.path
    BY <2>1, <2>2, <2>3, ReplaceInjective, Zenon
  <2>5. r = s
    BY <2>1, <2>2, <2>4 DEF TypeOK, SameKey
  <2> QED
    BY <2>1, <2>2, <2>5
<1> QED
  BY <1>2, <1>3

\* An INSERT keeps the table well formed.
LEMMA InsertTyped ==
  ASSUME TypeOK, NEW rows, rows \subseteq Rows, Insertable(rows),
         \A m, n \in rows : SameKey(m, n) => m = n
  PROVE  /\ \A r \in file \union rows :
              /\ r \in [user : Users, path : Seq(STRING), md5 : Md5s \union {NULL}]
              /\ user[r.user] # NoPassword
         /\ \A r, s \in file \union rows : SameKey(r, s) => r = s
<1>1. \A r, s : SameKey(r, s) => SameKey(s, r)
  BY DEF SameKey
<1> QED
  BY <1>1 DEF TypeOK, Insertable, Rows, Path

-----------------------------------------------------------------------------
(* TableInv *)

LocalTypes == /\ pc \in [Procs -> Labels \union {"idle"}]
              /\ req \in [Procs -> Requests \union {None}]
              /\ DOMAIN got = Procs /\ DOMAIN reply = Procs

\* p's step ends at l with request r, rows g and flag v, and leaves the other
\* children where they are.
Moves(p, l, r, g, v) ==
  /\ pc'[p] = l /\ req'[p] = r /\ got'[p] = g /\ reply'[p] = v
  /\ \A q \in Procs : q # p => /\ pc'[q] = pc[q] /\ req'[q] = req[q]
                               /\ got'[q] = got[q] /\ reply'[q] = reply[q]

\* Answer, Goto and Start move one child.
LEMMA AnswerMoves ==
  ASSUME LocalTypes, NEW p \in Procs, NEW v, Answer(p, v)
  PROVE  Moves(p, "idle", None, {}, v) /\ LocalTypes'
  BY DEF LocalTypes, Answer, Moves

LEMMA GotoMoves ==
  ASSUME LocalTypes, NEW p \in Procs, NEW l \in Labels, NEW v, Goto(p, l, v)
  PROVE  Moves(p, l, req[p], got[p], v) /\ LocalTypes'
  BY DEF LocalTypes, Goto, Moves

LEMMA StartMoves ==
  ASSUME LocalTypes, NEW p \in Procs, NEW l \in Labels, NEW r \in Requests, NEW g,
         Start(p, l, r, g)
  PROVE  Moves(p, l, r, g, None) /\ LocalTypes'
  BY DEF LocalTypes, Start, Moves

\* TypeOK again, by its parts.
TableOK == /\ user \in [Users -> Passwords \union {NoPassword}]
           /\ \A r \in file : r \in Rows /\ user[r.user] # NoPassword
           /\ \A r, s \in file : SameKey(r, s) => r = s

LEMMA TypeParts ==
  TypeOK <=> /\ TableOK /\ LocalTypes
             /\ \A p \in Procs : pc[p] # "idle" => req[p] # None
             /\ \A p \in Procs : got[p] # {} => pc[p] = "insert" \/ pc[p] = "delete"
  BY DEF TypeOK, TableOK, LocalTypes, Rows, Path

\* The local parts of the invariant after a step of p.
LEMMA LocalStep ==
  ASSUME TypeOK, StageInv, GotInv, NEW p \in Procs, NEW l, NEW r, NEW g, NEW v,
         Moves(p, l, r, g, v),
         l # "idle" => r \in Requests,
         l = "idle" => r = None,
         g # {} => l \in {"insert", "delete"},
         l \in RegistSteps => r.op = "regist",
         l = "insert" => r.op \in {"copy", "move"},
         l = "delete" => r.op = "move",
         l \in {"insertUser", "sendDone", "sendTaken", "insert", "delete"} => v = None,
         \A n \in g : n \in Rows /\ n.user = r.user,
         \A m, n \in g : SameKey(m, n) => m = n
  PROVE  /\ StageInv' /\ GotInv'
         /\ \A q \in Procs : pc'[q] # "idle" => req'[q] # None
         /\ \A q \in Procs : got'[q] # {} => pc'[q] = "insert" \/ pc'[q] = "delete"
<1>1. StageInv'
  BY RequestTyped DEF StageInv, Moves
<1>2. GotInv'
  BY DEF GotInv, Moves, Rows, Path, SameKey
<1>3. \A q \in Procs : pc'[q] # "idle" => req'[q] # None
  BY RequestTyped DEF TypeOK, Moves
<1>4. \A q \in Procs : got'[q] # {} => pc'[q] = "insert" \/ pc'[q] = "delete"
  BY DEF TypeOK, Moves
<1> QED
  BY <1>1, <1>2, <1>3, <1>4

\* What a step of p has to show for TableInv, p's locals first.
LocalDuty(p, l, r, g, v) ==
  /\ Moves(p, l, r, g, v) /\ LocalTypes'
  /\ l # "idle" => r \in Requests
  /\ l = "idle" => r = None
  /\ g # {} => l \in {"insert", "delete"}
  /\ l \in RegistSteps => r.op = "regist"
  /\ l = "insert" => r.op \in {"copy", "move"}
  /\ l = "delete" => r.op = "move"
  /\ l \in {"insertUser", "sendDone", "sendTaken", "insert", "delete"} => v = None
  /\ \A n \in g : n \in Rows /\ n.user = r.user
  /\ \A m, n \in g : SameKey(m, n) => m = n

LEMMA Assemble ==
  ASSUME TypeOK, StageInv, GotInv, TableOK', WinInv',
         NEW p \in Procs, NEW l, NEW r, NEW g, NEW v, LocalDuty(p, l, r, g, v)
  PROVE  TableInv'
<1>1. /\ StageInv' /\ GotInv'
      /\ \A q \in Procs : pc'[q] # "idle" => req'[q] # None
      /\ \A q \in Procs : got'[q] # {} => pc'[q] = "insert" \/ pc'[q] = "delete"
  BY LocalStep DEF LocalDuty
<1>2. TypeOK'
  BY <1>1 DEF TypeOK, TableOK, LocalTypes, LocalDuty, Rows, Path
<1> QED
  BY <1>1, <1>2 DEF TableInv

\* A step that makes no winner.
LEMMA WinKept ==
  ASSUME TypeOK, WinInv, user' = user,
         NEW p \in Procs, NEW l, NEW r, NEW g, NEW v, Moves(p, l, r, g, v),
         l = "sendDone" \/ (l \in RegistSteps /\ v = 0) => Winner(p) /\ r = req[p]
  PROVE  WinInv'
<1>1. \A q \in Procs : Winner(q)' => Winner(q) /\ req'[q] = req[q]
  BY DEF Moves, Winner
<1> QED
  BY <1>1 DEF WinInv

\* The table has one password for an account, one row for a key, and one winner
\* of a registration, after every step.
LEMMA TableStep ==
  ASSUME TableInv, [Next]_vars
  PROVE  TableInv'
<1>1. TypeOK /\ StageInv /\ GotInv /\ WinInv /\ LocalTypes /\ TableOK
  BY TypeParts DEF TableInv
<1>2. RegistSteps \subseteq Labels /\ "idle" \notin RegistSteps
  BY DEF RegistSteps, Labels
<1>3. None # 0 /\ None # -1
  BY RequestsAssumption
<1> USE DEF RegistSteps, Labels
<1>4. ASSUME NEW p \in Procs, NEW r \in Requests, SelectUser(p, r) PROVE TableInv'
  <2>1. PICK l \in {"insertUser", "sendTaken"} : Start(p, l, r, {})
    BY <1>4 DEF SelectUser
  <2>2. LocalDuty(p, l, r, {}, None) /\ r.op = "regist"
    BY <1>1, <1>4, <2>1, StartMoves DEF LocalDuty, SelectUser, Take
  <2>3. TableOK' /\ user' = user
    BY <1>1, <1>4 DEF SelectUser, TableOK, SameKey
  <2>4. WinInv'
    BY <1>1, <1>3, <2>2, <2>3, WinKept DEF LocalDuty
  <2> QED
    BY <1>1, <2>2, <2>3, <2>4, Assemble
<1>5. ASSUME NEW p \in Procs, InsertUser(p) PROVE TableInv'
  <2>1. /\ pc[p] = "insertUser" /\ req[p] \in Requests /\ req[p].op = "regist" /\ got[p] = {}
        /\ file' = file /\ req[p].user \in Users /\ req[p].pw \in Passwords
    BY <1>1, <1>5, RequestTyped DEF InsertUser, TypeOK, StageInv
  <2>2. CASE user[req[p].user] = NoPassword
    <3>1. Goto(p, "sendDone", None) /\ user' = [user EXCEPT ![req[p].user] = req[p].pw]
      BY <1>5, <2>2 DEF InsertUser
    <3>2. LocalDuty(p, "sendDone", req[p], {}, None)
      BY <1>1, <2>1, <3>1, GotoMoves DEF LocalDuty
    <3>3. TableOK'
      BY <1>1, <2>1, <3>1, RequestsAssumption DEF TableOK, Rows, SameKey
    <3>4. \A q \in Procs : Winner(q) => /\ req[q].user \in Users /\ req[q].user # req[p].user
                                        /\ req[q].pw \in Passwords
      <4> SUFFICES ASSUME NEW q \in Procs, Winner(q)
                   PROVE /\ req[q].user \in Users /\ req[q].user # req[p].user
                         /\ req[q].pw \in Passwords
        OBVIOUS
      <4>1. pc[q] # "idle" /\ user[req[q].user] = req[q].pw
        BY <1>1 DEF Winner, WinInv
      <4>2. req[q] \in Requests
        BY <1>1, <4>1 DEF TypeOK
      <4> QED
        BY <2>2, <4>1, <4>2, RequestTyped, RequestsAssumption
    <3>5. \A q \in Procs : q # p => (Winner(q)' <=> Winner(q)) /\ req'[q] = req[q]
      BY <3>2 DEF LocalDuty, Moves, Winner
    <3>6. req'[p] = req[p] /\ user'[req[p].user] = req[p].pw
      BY <1>1, <2>1, <3>1, <3>2 DEF LocalDuty, Moves, TypeOK
    <3>7. \A u \in Users : u # req[p].user => user'[u] = user[u]
      BY <1>1, <3>1 DEF TypeOK
    <3>8. WinInv'
      BY <1>1, <3>4, <3>5, <3>6, <3>7 DEF WinInv
    <3> QED
      BY <1>1, <3>2, <3>3, <3>8, Assemble
  <2>3. CASE user[req[p].user] # NoPassword
    <3>1. Goto(p, "sendTaken", None) /\ user' = user
      BY <1>5, <2>3 DEF InsertUser
    <3>2. LocalDuty(p, "sendTaken", req[p], {}, None)
      BY <1>1, <2>1, <3>1, GotoMoves DEF LocalDuty
    <3>3. TableOK'
      BY <1>1, <2>1, <3>1 DEF TableOK, SameKey
    <3>4. WinInv'
      BY <1>1, <1>3, <3>1, <3>2, WinKept DEF LocalDuty
    <3> QED
      BY <1>1, <3>2, <3>3, <3>4, Assemble
  <2> QED
    BY <2>2, <2>3
<1>6. ASSUME NEW p \in Procs, SendFlag(p) PROVE TableInv'
  <2>1. /\ pc[p] \in {"sendDone", "sendTaken"} /\ req[p] \in Requests /\ req[p].op = "regist"
        /\ got[p] = {} /\ user' = user /\ file' = file
    BY <1>1, <1>6 DEF SendFlag, TypeOK, StageInv
  <2>2. PICK v : v = Flag(pc[p] = "sendDone")
    OBVIOUS
  <2>3. LocalDuty(p, "checkUser", req[p], {}, v)
    BY <1>1, <1>6, <2>1, <2>2, GotoMoves DEF SendFlag, LocalDuty
  <2>4. TableOK'
    BY <1>1, <2>1 DEF TableOK, SameKey
  <2>5. v = 0 => Winner(p)
    BY <2>2 DEF Flag, Winner
  <2>6. WinInv'
    BY <1>1, <2>1, <2>3, <2>5, WinKept DEF LocalDuty
  <2> QED
    BY <1>1, <2>3, <2>4, <2>6, Assemble
<1>7. ASSUME NEW p \in Procs, CheckUser(p) PROVE TableInv'
  <2>1. /\ pc[p] = "checkUser" /\ req[p] \in Requests /\ req[p].op = "regist"
        /\ got[p] = {} /\ user' = user /\ file' = file
    BY <1>1, <1>7 DEF CheckUser, TypeOK, StageInv
  <2>2. PICK l \in {"rootRow", "idle"} :
          LocalDuty(p, l, IF l = "rootRow" THEN req[p] ELSE None, {}, reply[p])
    BY <1>1, <1>7, <2>1, GotoMoves, AnswerMoves DEF CheckUser, LocalDuty
  <2>3. TableOK'
    BY <1>1, <2>1 DEF TableOK, SameKey
  <2>4. WinInv'
    BY <1>1, <2>1, <2>2, WinKept DEF LocalDuty, Winner
  <2> QED
    BY <1>1, <2>2, <2>3, <2>4, Assemble
<1>8. ASSUME NEW p \in Procs, InsertRoot(p) PROVE TableInv'
  <2>1. /\ pc[p] = "rootRow" /\ req[p] \in Requests /\ user' = user
    BY <1>1, <1>8 DEF InsertRoot, TypeOK
  <2>2. PICK row : row = Row(req[p].user, Root, NULL)
    OBVIOUS
  <2>3. {row} \subseteq Rows
    <3>1. Root \in Path /\ req[p].user \in Users
      BY <2>1, RootPath, RequestTyped
    <3> QED
      BY <2>2, <3>1 DEF Row, Rows
  <2>4. file' = file \/ (Insertable({row}) /\ file' = file \union {row})
    BY <1>8, <2>2 DEF InsertRoot
  <2>5. TableOK'
    <3>1. \A m, n \in {row} : SameKey(m, n) => m = n
      OBVIOUS
    <3> QED
      BY <1>1, <2>1, <2>3, <2>4, <3>1, InsertTyped DEF TableOK, Rows, Path, SameKey
  <2>6. LocalDuty(p, "idle", None, {}, reply[p])
    BY <1>1, <1>8, AnswerMoves DEF InsertRoot, LocalDuty
  <2>7. WinInv'
    BY <1>1, <2>1, <2>6, WinKept DEF LocalDuty
  <2> QED
    BY <1>1, <2>5, <2>6, <2>7, Assemble
<1>9. ASSUME NEW p \in Procs, NEW v, Answer(p, v), user' = user, TableOK' PROVE TableInv'
  <2>1. LocalDuty(p, "idle", None, {}, v)
    BY <1>1, <1>9, AnswerMoves DEF LocalDuty
  <2>2. WinInv'
    BY <1>1, <1>9, <2>1, WinKept DEF LocalDuty
  <2> QED
    BY <1>1, <1>9, <2>1, <2>2, Assemble
<1>10. ASSUME user' = user, file' \subseteq file PROVE TableOK'
  BY <1>1, <1>10 DEF TableOK, SameKey
<1>11. ASSUME NEW p \in Procs, NEW r \in Requests, LogIn(p, r) \/ GetFileList(p, r) \/ DelFile(p, r)
       PROVE  TableInv'
  BY <1>9, <1>10, <1>11 DEF LogIn, GetFileList, DelFile
<1>12. ASSUME NEW p \in Procs, NEW r \in Requests, AddFile(p, r) PROVE TableInv'
  <2>1. PICK row : row = Row(r.user, r.src, r.md5)
    OBVIOUS
  <2>2. {row} \subseteq Rows
    BY <2>1, RequestTyped DEF Row, Rows
  <2>3. /\ file' = file \/ (Insertable({row}) /\ file' = file \union {row})
        /\ user' = user /\ \E v : Answer(p, v)
    BY <1>12, <2>1 DEF AddFile
  <2>4. TableOK'
    BY <1>1, <2>2, <2>3, InsertTyped DEF TableOK, Rows, Path, SameKey
  <2> QED
    BY <1>9, <2>3, <2>4
<1>13. ASSUME NEW p \in Procs, NEW r \in Requests, NEW op \in {"copy", "move"}, SelectRows(p, op, r)
       PROVE  TableInv'
  <2>1. PICK new : new = Renamed(r.user, r.src, r.dst)
    OBVIOUS
  <2>2. /\ user' = user /\ file' = file /\ r.op = op
        /\ Answer(p, Flag(FALSE)) \/ Start(p, "insert", r, new)
    BY <1>13, <2>1 DEF SelectRows, Take
  <2>3. TableOK'
    BY <1>10, <2>2
  <2>4. ASSUME Start(p, "insert", r, new) PROVE TableInv'
    <3>1. /\ \A n \in new : n \in Rows /\ n.user = r.user
          /\ \A m, n \in new : SameKey(m, n) => m = n
      BY <1>1, <2>1, RequestTyped, RenamedRows
    <3>2. LocalDuty(p, "insert", r, new, None)
      BY <1>1, <2>2, <2>4, <3>1, StartMoves DEF LocalDuty
    <3>3. WinInv'
      BY <1>1, <1>3, <2>2, <3>2, WinKept DEF LocalDuty
    <3> QED
      BY <1>1, <2>3, <3>2, <3>3, Assemble
  <2> QED
    BY <1>9, <2>2, <2>3, <2>4
<1>14. ASSUME NEW p \in Procs, InsertRows(p) PROVE TableInv'
  <2>1. /\ pc[p] = "insert" /\ req[p] \in Requests /\ req[p].op \in {"copy", "move"} /\ user' = user
    BY <1>1, <1>14 DEF InsertRows, TypeOK, StageInv
  <2>2. /\ \A n \in got[p] : n \in Rows /\ n.user = req[p].user
        /\ \A m, n \in got[p] : SameKey(m, n) => m = n
    BY <1>1 DEF GotInv, Rows, Path
  <2>3. file' = file \/ (Insertable(got[p]) /\ file' = file \union got[p])
    BY <1>14 DEF InsertRows
  <2>4. TableOK'
    BY <1>1, <2>1, <2>2, <2>3, InsertTyped DEF TableOK, Rows, Path, SameKey
  <2>5. (\E v : Answer(p, v)) \/ (Goto(p, "delete", None) /\ req[p].op = "move")
    BY <1>14, <2>1 DEF InsertRows
  <2>6. ASSUME Goto(p, "delete", None), req[p].op = "move" PROVE TableInv'
    <3>1. LocalDuty(p, "delete", req[p], got[p], None)
      BY <1>1, <2>1, <2>2, <2>6, GotoMoves DEF LocalDuty
    <3>2. WinInv'
      BY <1>1, <1>3, <2>1, <3>1, WinKept DEF LocalDuty
    <3> QED
      BY <1>1, <2>4, <3>1, <3>2, Assemble
  <2> QED
    BY <1>9, <2>1, <2>4, <2>5, <2>6
<1>15. ASSUME NEW p \in Procs, DeleteOld(p) \/ Kill(p) PROVE TableInv'
  BY <1>9, <1>10, <1>15 DEF DeleteOld, Kill
<1>16. CASE UNCHANGED vars
  BY <1>1, <1>16 DEF vars, locals, TableInv, TypeOK, StageInv, GotInv, WinInv, Winner, SameKey
<1> QED
  BY <1>4, <1>5, <1>6, <1>7, <1>8, <1>11, <1>12, <1>13, <1>14, <1>15, <1>16
  DEF Next, Continue, Begin

\* TableInv in every reachable state.
THEOREM TableInvariance == Spec => []TableInv
<1>1. Init => TableInv
  BY RequestsAssumption
  DEF Init, TableInv, TypeOK, StageInv, GotInv, WinInv, Winner, RegistSteps, Labels
<1>2. TableInv /\ [Next]_vars => TableInv'
  BY TableStep
<1> QED
  BY <1>1, <1>2, PTL DEF Spec

\* TypeOK: a key has one row, and a row an account (the keys of tables user and
\* file under DB_Operate's INSERTs, DB_Operate.cpp:122-158, 356-518).
THEOREM TypeCorrect == Spec => []TypeOK
<1>1. TableInv => TypeOK
  BY DEF TableInv
<1> QED
  BY <1>1, TableInvariance, PTL

\* OneWinner: however many children register a name at once, one at most
\* answers 0, and its password is the account's (DB_Operate.cpp:122-158).
THEOREM OneRegistrationWins == Spec => []OneWinner
<1>1. TableInv => OneWinner
  <2> SUFFICES ASSUME TableInv, NEW p \in Procs, NEW q \in Procs,
                      req[p] # None, req[p].op = "regist", reply[p] = 0,
                      req[q] # None, req[q].op = "regist", req[q].user = req[p].user
               PROVE  user[req[p].user] = req[p].pw /\ (reply[q] = 0 => q = p)
    BY DEF OneWinner
  <2>1. TypeOK /\ StageInv /\ WinInv
    BY DEF TableInv
  <2>2. ASSUME NEW c \in Procs, req[c] # None, req[c].op = "regist", reply[c] = 0
        PROVE  Winner(c)
    BY <2>1, <2>2 DEF TypeOK, Labels, StageInv, Winner, RegistSteps
  <2> QED
    BY <2>1, <2>2 DEF WinInv
<1> QED
  BY <1>1, TableInvariance, PTL

-----------------------------------------------------------------------------
(* MoveInv *)

\* Renamed, of any rows.
RenamedOf(rows, u, src, dst) ==
  {[r EXCEPT !.path = Replace(r.path, src, dst)] :
     r \in {s \in rows : s.user = u /\ Matches(s.path, src)}}

\* A user's next request waits.
LEMMA AloneStep ==
  ASSUME AloneInv, NEW p \in Procs, NEW l, NEW r, NEW g, NEW v, Moves(p, l, r, g, v),
         l # "idle" => \/ pc[p] # "idle" /\ r = req[p]
                       \/ \A q \in Procs : pc[q] # "idle" =>
                            \/ req[q].user # r.user
                            \/ req[q].op = "regist" /\ r.op = "regist"
  PROVE  AloneInv'
  BY DEF AloneInv, Moves

\* A statement of p on the rows of user u alone, who has no other copy or move;
\* what p has read is true after it.
ReadDuty(p, l, r, g, v, u) ==
  /\ Moves(p, l, r, g, v)
  /\ \A s : s.user # u => (s \in file <=> s \in file')
  /\ \A q \in Procs : q # p /\ pc[q] \in {"insert", "delete"} => req[q].user # u
  /\ l \in {"insert", "delete"} => g = RenamedOf(file', r.user, r.src, r.dst) /\ g # {}
  /\ l = "delete" => g \subseteq file' /\ \A n \in g : ~ Matches(n.path, r.src)

LEMMA ReadStep ==
  ASSUME ReadInv, GotInv, NEW p \in Procs, NEW l, NEW r, NEW g, NEW v, NEW u,
         ReadDuty(p, l, r, g, v, u)
  PROVE  ReadInv'
<1> SUFFICES ASSUME NEW q \in Procs, pc'[q] \in {"insert", "delete"}
             PROVE  /\ got'[q] = RenamedOf(file', req'[q].user, req'[q].src, req'[q].dst)
                    /\ got'[q] # {}
                    /\ pc'[q] = "delete" =>
                         got'[q] \subseteq file' /\ \A n \in got'[q] : ~ Matches(n.path, req'[q].src)
  BY DEF ReadInv, Renamed, Selected, RenamedOf
<1>1. CASE q = p
  BY <1>1 DEF ReadDuty, Moves
<1>2. CASE q # p
  <2>1. /\ pc'[q] = pc[q] /\ req'[q] = req[q] /\ got'[q] = got[q] /\ req[q].user # u
        /\ \A s : s.user # u => (s \in file <=> s \in file')
    BY <1>2 DEF ReadDuty, Moves
  <2>2. /\ got[q] = RenamedOf(file, req[q].user, req[q].src, req[q].dst) /\ got[q] # {}
        /\ pc[q] = "delete" =>
             got[q] \subseteq file /\ \A n \in got[q] : ~ Matches(n.path, req[q].src)
    BY <2>1 DEF ReadInv, Renamed, Selected, RenamedOf
  <2>3. RenamedOf(file', req[q].user, req[q].src, req[q].dst)
        = RenamedOf(file, req[q].user, req[q].src, req[q].dst)
    BY <2>1 DEF RenamedOf
  <2>4. \A n \in got[q] : n.user = req[q].user
    BY DEF GotInv
  <2>5. pc[q] = "delete" => got[q] \subseteq file'
    BY <2>1, <2>2, <2>4
  <2> QED
    BY <2>1, <2>2, <2>3, <2>5
<1> QED
  BY <1>1, <1>2

\* The rows a move adds are not among those it will delete.
LEMMA NewRowsApart ==
  ASSUME Apart, TypeOK, NEW r \in Requests, r.op = "move",
         Insertable(RenamedOf(file, r.user, r.src, r.dst))
  PROVE  \A n \in RenamedOf(file, r.user, r.src, r.dst) : ~ Matches(n.path, r.src)
<1> SUFFICES ASSUME NEW s \in file, s.user = r.user, Matches(s.path, r.src), s \in Rows,
                    NEW n, n = [s EXCEPT !.path = Replace(s.path, r.src, r.dst)],
                    n \in RenamedOf(file, r.user, r.src, r.dst),
                    Matches(n.path, r.src)
             PROVE  FALSE
  BY DEF RenamedOf, TypeOK, Rows, Path
<1>0. s.path \in Path /\ r.src \in Path /\ r.dst \in Path
  BY RequestTyped DEF Rows
<1>1. n.path = Replace(s.path, r.src, r.dst) /\ n.user = s.user
  BY DEF Rows
<1>2. CASE IsFolder(r.src)
  <2>1. ~ IsPrefix(r.src, r.dst) /\ ~ IsPrefix(r.dst, r.src)
    BY <1>2 DEF Apart
  <2> QED
    BY <1>0, <1>1, <2>1, ReplaceApart, Zenon
<1>3. CASE ~ IsFolder(r.src)
  <2>1. n.path = r.src /\ s.path = r.src
    BY <1>3 DEF Matches
  <2> QED
    BY <1>1, <2>1 DEF Insertable, SameKey
<1> QED
  BY <1>2, <1>3

\* What a copy or a move has read stays true until it is done.
LEMMA MoveStep ==
  ASSUME Sequential, Apart, MoveInv, [Next]_vars
  PROVE  MoveInv'
<1>1. TypeOK /\ StageInv /\ GotInv /\ LocalTypes /\ AloneInv /\ ReadInv
  BY TypeParts DEF TableInv, MoveInv
<1>2. TableInv'
  BY TableStep DEF MoveInv
<1>3. SUFFICES AloneInv' /\ ReadInv'
  BY <1>2 DEF MoveInv
<1> USE DEF RegistSteps, Labels
<1>4. ASSUME NEW p \in Procs, NEW q \in Procs, q # p, pc[p] # "idle", pc[q] \in {"insert", "delete"}
      PROVE  req[q].user # req[p].user
  BY <1>1, <1>4 DEF AloneInv, StageInv
<1>5. ASSUME NEW p \in Procs, NEW op, NEW r \in Requests, Take(p, op, r)
      PROVE  /\ \A q \in Procs : pc[q] # "idle" => \/ req[q].user # r.user
                                                   \/ req[q].op = "regist" /\ r.op = "regist"
             /\ \A q \in Procs : q # p /\ pc[q] \in {"insert", "delete"} => req[q].user # r.user
             /\ r.op = op
  BY <1>1, <1>5 DEF Take, StageInv
\* The steps that end a request.
<1>6. ASSUME NEW p \in Procs, NEW v, Answer(p, v), NEW u,
             \A s : s.user # u => (s \in file <=> s \in file'),
             \A q \in Procs : q # p /\ pc[q] \in {"insert", "delete"} => req[q].user # u
      PROVE  AloneInv' /\ ReadInv'
  <2>1. Moves(p, "idle", None, {}, v)
    BY <1>1, <1>6, AnswerMoves
  <2>2. AloneInv'
    BY <1>1, <2>1, AloneStep
  <2>3. ReadInv'
    <3>1. ReadDuty(p, "idle", None, {}, v, u)
      BY <1>6, <2>1 DEF ReadDuty
    <3> QED
      BY <1>1, <3>1, ReadStep
  <2> QED
    BY <2>2, <2>3
<1>7. ASSUME NEW p \in Procs, NEW v, Answer(p, v), file' = file
      PROVE  AloneInv' /\ ReadInv'
  <2>1. \A q \in Procs : q # p /\ pc[q] \in {"insert", "delete"} => req[q].user \in Users
    BY <1>1, RequestTyped DEF TypeOK
  <2>2. PICK u : u \notin Users
    BY NoSetContainsEverything
  <2> QED
    BY <1>6, <1>7, <2>1, <2>2
\* The steps of a registration.
<1>8. ASSUME NEW p \in Procs, NEW l, NEW r, NEW g, NEW v, Moves(p, l, r, g, v), file' = file,
             l \notin {"insert", "delete"},
             \/ pc[p] # "idle" /\ r = req[p]
             \/ \A q \in Procs : pc[q] # "idle" => \/ req[q].user # r.user
                                                   \/ req[q].op = "regist" /\ r.op = "regist"
      PROVE  AloneInv' /\ ReadInv'
  <2>1. \A q \in Procs : q # p /\ pc[q] \in {"insert", "delete"} => req[q].user \in Users
    BY <1>1, RequestTyped DEF TypeOK
  <2>2. PICK u : u \notin Users
    BY NoSetContainsEverything
  <2>3. AloneInv'
    BY <1>1, <1>8, AloneStep
  <2>4. ReadDuty(p, l, r, g, v, u)
    BY <1>8, <2>1, <2>2 DEF ReadDuty
  <2>5. ReadInv'
    BY <1>1, <2>4, ReadStep
  <2> QED
    BY <2>3, <2>5
<1>9. ASSUME NEW p \in Procs, NEW r \in Requests, SelectUser(p, r) PROVE AloneInv' /\ ReadInv'
  <2>1. PICK l \in {"insertUser", "sendTaken"} : Moves(p, l, r, {}, None)
    BY <1>1, <1>9, StartMoves DEF SelectUser
  <2> QED
    BY <1>5, <1>8, <1>9, <2>1 DEF SelectUser
<1>10. ASSUME NEW p \in Procs, InsertUser(p) \/ SendFlag(p) \/ CheckUser(p)
       PROVE  AloneInv' /\ ReadInv'
  <2>1. pc[p] # "idle" /\ file' = file
    BY <1>10 DEF InsertUser, SendFlag, CheckUser
  <2>2. \/ \E v : Answer(p, v)
        \/ \E l \in {"sendDone", "sendTaken", "checkUser", "rootRow"} : \E v : Goto(p, l, v)
    BY <1>10 DEF InsertUser, SendFlag, CheckUser
  <2>3. ASSUME NEW l \in {"sendDone", "sendTaken", "checkUser", "rootRow"}, NEW v, Goto(p, l, v)
        PROVE  AloneInv' /\ ReadInv'
    <3>1. Moves(p, l, req[p], got[p], v)
      BY <1>1, <2>3, GotoMoves
    <3> QED
      BY <1>8, <2>1, <3>1
  <2> QED
    BY <1>7, <2>1, <2>2, <2>3
<1>11. ASSUME NEW p \in Procs, InsertRoot(p) PROVE AloneInv' /\ ReadInv'
  <2>1. \A s : s.user # req[p].user => (s \in file <=> s \in file')
    BY <1>11 DEF InsertRoot, Row
  <2>2. pc[p] # "idle" /\ \E v : Answer(p, v)
    BY <1>11 DEF InsertRoot
  <2> QED
    BY <1>4, <1>6, <2>1, <2>2
<1>12. ASSUME NEW p \in Procs, NEW r \in Requests, LogIn(p, r) \/ GetFileList(p, r)
       PROVE  AloneInv' /\ ReadInv'
  BY <1>7, <1>12 DEF LogIn, GetFileList
<1>13. ASSUME NEW p \in Procs, NEW r \in Requests, AddFile(p, r) \/ DelFile(p, r)
       PROVE  AloneInv' /\ ReadInv'
  <2>1. \A s : s.user # r.user => (s \in file <=> s \in file')
    <3>1. CASE AddFile(p, r)
      <4>1. Row(r.user, r.src, r.md5).user = r.user
        BY DEF Row
      <4>2. file' = file \/ file' = file \union {Row(r.user, r.src, r.md5)}
        BY <3>1 DEF AddFile
      <4> QED
        BY <4>1, <4>2
    <3>2. CASE DelFile(p, r)
      BY <3>2 DEF DelFile, Selected
    <3> QED
      BY <1>13, <3>1, <3>2
  <2>2. (\E v : Answer(p, v)) /\ \E op : Take(p, op, r)
    BY <1>13 DEF AddFile, DelFile
  <2>3. \A q \in Procs : q # p /\ pc[q] \in {"insert", "delete"} => req[q].user # r.user
    BY <1>5, <2>2
  <2> QED
    BY <1>6, <2>1, <2>2, <2>3
<1>14. ASSUME NEW p \in Procs, NEW r \in Requests, NEW op \in {"copy", "move"}, SelectRows(p, op, r)
       PROVE  AloneInv' /\ ReadInv'
  <2>1. Take(p, op, r) /\ file' = file
    BY <1>14 DEF SelectRows
  <2>2. \/ \E v : Answer(p, v)
        \/ \E g : g = RenamedOf(file', r.user, r.src, r.dst) /\ g # {} /\ Start(p, "insert", r, g)
    BY <1>14 DEF SelectRows, Renamed, Selected, RenamedOf
  <2>3. ASSUME NEW g, g = RenamedOf(file', r.user, r.src, r.dst), g # {}, Start(p, "insert", r, g)
        PROVE  AloneInv' /\ ReadInv'
    <3>1. Moves(p, "insert", r, g, None)
      BY <1>1, <2>3, StartMoves
    <3>2. AloneInv'
      BY <1>1, <1>5, <2>1, <3>1, AloneStep
    <3>3. \A q \in Procs : q # p /\ pc[q] \in {"insert", "delete"} => req[q].user # r.user
      BY <1>5, <2>1
    <3>4. ReadDuty(p, "insert", r, g, None, r.user)
      BY <2>1, <2>3, <3>1, <3>3 DEF ReadDuty
    <3>5. ReadInv'
      BY <1>1, <3>4, ReadStep
    <3> QED
      BY <3>2, <3>5
  <2> QED
    BY <1>7, <2>1, <2>2, <2>3
<1>15. ASSUME NEW p \in Procs, InsertRows(p) PROVE AloneInv' /\ ReadInv'
  <2>1. /\ pc[p] = "insert" /\ req[p] \in Requests
        /\ got[p] = RenamedOf(file, req[p].user, req[p].src, req[p].dst) /\ got[p] # {}
        /\ \A n \in got[p] : n.user = req[p].user
    BY <1>1, <1>15 DEF InsertRows, ReadInv, Renamed, Selected, RenamedOf, GotInv, TypeOK
  <2>2. \A s : s.user # req[p].user => (s \in file <=> s \in file')
    BY <1>15, <2>1 DEF InsertRows
  <2>3. ASSUME NEW v, Answer(p, v) PROVE AloneInv' /\ ReadInv'
    BY <1>4, <1>6, <2>1, <2>2, <2>3
  <2>4. ASSUME Goto(p, "delete", None), Insertable(got[p]), file' = file \union got[p],
               req[p].op = "move"
        PROVE  AloneInv' /\ ReadInv'
    <3>1. Moves(p, "delete", req[p], got[p], None)
      BY <1>1, <2>4, GotoMoves
    <3>2. \A n \in got[p] : ~ Matches(n.path, req[p].src)
      BY <1>1, <2>1, <2>4, NewRowsApart
    <3>3. got[p] = RenamedOf(file', req[p].user, req[p].src, req[p].dst)
      BY <2>1, <2>4, <3>2 DEF RenamedOf
    <3>4. AloneInv'
      BY <1>1, <2>1, <3>1, AloneStep
    <3>5. /\ \A q \in Procs : q # p /\ pc[q] \in {"insert", "delete"} => req[q].user # req[p].user
          /\ got[p] \subseteq file'
      BY <1>4, <2>1, <2>4
    <3>6. ReadDuty(p, "delete", req[p], got[p], None, req[p].user)
      BY <2>1, <2>2, <3>1, <3>2, <3>3, <3>5 DEF ReadDuty
    <3>7. ReadInv'
      BY <1>1, <3>6, ReadStep
    <3> QED
      BY <3>4, <3>7
  <2> QED
    BY <1>1, <1>15, <2>1, <2>3, <2>4 DEF InsertRows, StageInv
<1>16. ASSUME NEW p \in Procs, DeleteOld(p) PROVE AloneInv' /\ ReadInv'
  <2>1. \A s : s.user # req[p].user => (s \in file <=> s \in file')
    BY <1>16 DEF DeleteOld, Selected
  <2>2. pc[p] # "idle" /\ \E v : Answer(p, v)
    BY <1>16 DEF DeleteOld
  <2> QED
    BY <1>4, <1>6, <2>1, <2>2
<1>17. ASSUME NEW p \in Procs, Kill(p) PROVE AloneInv' /\ ReadInv'
  BY <1>7, <1>17 DEF Kill
<1>18. CASE UNCHANGED vars
  BY <1>1, <1>18 DEF vars, locals, AloneInv, ReadInv, Renamed, Selected
<1> QED
  BY <1>9, <1>10, <1>11, <1>12, <1>13, <1>14, <1>15, <1>16, <1>17, <1>18
  DEF Next, Continue, Begin

\* MoveInv in every reachable state, when a user waits for each reply and moves
\* no folder into itself.
THEOREM MoveInvariance == Sequential /\ Apart => (Spec => []MoveInv)
<1> SUFFICES ASSUME Sequential, Apart PROVE Spec => []MoveInv
  OBVIOUS
<1>1. Init => MoveInv
  BY RequestsAssumption
  DEF Init, TableInv, TypeOK, StageInv, GotInv, WinInv, Winner, RegistSteps, Labels,
      MoveInv, AloneInv, ReadInv
<1>2. MoveInv /\ [Next]_vars => MoveInv'
  BY MoveStep
<1> QED
  BY <1>1, <1>2, PTL DEF Spec

\* MoveLosesNothing: the DELETE of a move takes only rows whose new ones are in
\* the table (Update_File_Info, DB_Operate.cpp:456-518).
THEOREM MovesLoseNothing == Sequential /\ Apart => (Spec => MoveLosesNothing)
<1> SUFFICES ASSUME Sequential, Apart PROVE Spec => MoveLosesNothing
  OBVIOUS
<1> DEFINE Kept == \A p \in Procs : DeleteOld(p) =>
                     \A s \in file \ file' :
                       [s EXCEPT !.path = Replace(s.path, req[p].src, req[p].dst)] \in file'
<1>1. ASSUME MoveInv PROVE Kept
  <2> SUFFICES ASSUME NEW p \in Procs, DeleteOld(p), NEW s \in file \ file'
               PROVE  [s EXCEPT !.path = Replace(s.path, req[p].src, req[p].dst)] \in file'
    OBVIOUS
  <2> DEFINE n == [s EXCEPT !.path = Replace(s.path, req[p].src, req[p].dst)]
  <2>1. /\ pc[p] = "delete" /\ file' = file \ Selected(req[p].user, req[p].src)
        /\ s \in Selected(req[p].user, req[p].src)
    BY DEF DeleteOld
  <2>2. /\ got[p] = Renamed(req[p].user, req[p].src, req[p].dst)
        /\ got[p] \subseteq file /\ \A r \in got[p] : ~ Matches(r.path, req[p].src)
    BY <1>1, <2>1 DEF MoveInv, ReadInv
  <2>3. n \in got[p]
    BY <2>1, <2>2 DEF Renamed
  <2> HIDE DEF n
  <2>4. n \in file /\ ~ Matches(n.path, req[p].src)
    BY <2>2, <2>3
  <2>5. n \in file'
    BY <2>1, <2>4 DEF Selected
  <2> QED
    BY <2>5 DEF n
<1>2. MoveInv /\ [Next]_vars => [Kept]_vars
  BY <1>1
<1> QED
  BY <1>2, MoveInvariance, PTL DEF Spec, MoveLosesNothing

\* DoneIsThere: the answer 0 to copy or move means that the target is there
\* (server.cpp's copyFile and moveFile send the flag of these statements).
THEOREM DoneMeansThere == Sequential /\ Apart /\ Plain => (Spec => DoneIsThere)
<1> SUFFICES ASSUME Sequential, Apart, Plain PROVE Spec => DoneIsThere
  OBVIOUS
<1> DEFINE There == \A p \in Procs :
       LET r == req[p]
       IN (/\ pc[p] # "idle" /\ pc'[p] = "idle"
           /\ r.op \in {"copy", "move"} /\ reply'[p] = 0) =>
            \E s \in file' : s.user = r.user /\ Matches(s.path, r.dst)
<1>1. ASSUME MoveInv, Next PROVE There
  <2> SUFFICES ASSUME NEW p \in Procs, pc[p] # "idle", pc'[p] = "idle",
                      req[p].op \in {"copy", "move"}, reply'[p] = 0
               PROVE  \E s \in file' : s.user = req[p].user /\ Matches(s.path, req[p].dst)
    OBVIOUS
  <2>1. TypeOK /\ StageInv /\ GotInv /\ ReadInv /\ LocalTypes
    BY <1>1, TypeParts DEF MoveInv, TableInv
  <2>2. pc[p] \in {"insert", "delete"} /\ req[p] \in Requests /\ reply[p] = None
    BY <2>1 DEF TypeOK, Labels, StageInv, RegistSteps
  <2>3. ASSUME NEW n \in got[p] PROVE n.user = req[p].user /\ Matches(n.path, req[p].dst)
    <3>1. got[p] = Renamed(req[p].user, req[p].src, req[p].dst)
      BY <2>1, <2>2 DEF ReadInv
    <3>2. PICK s \in file : /\ Matches(s.path, req[p].src)
                            /\ n = [s EXCEPT !.path = Replace(s.path, req[p].src, req[p].dst)]
      BY <3>1 DEF Renamed, Selected
    <3>3. s \in Rows /\ s.path \in Path
      BY <2>1 DEF TypeOK, Rows, Path
    <3>4. n.path = Replace(s.path, req[p].src, req[p].dst)
      BY <3>2, <3>3 DEF Rows
    <3>5. /\ req[p].src \in Path \ {<<>>} /\ req[p].dst \in Path \ {<<>>}
          /\ IsFolder(req[p].src) => IsFolder(req[p].dst)
          /\ Bytes(req[p].dst) = Len(req[p].dst)
      BY <2>2, RequestTyped DEF Plain
    <3>6. Matches(Replace(s.path, req[p].src, req[p].dst), req[p].dst)
      BY <3>2, <3>3, <3>5, ReplaceMatches, Zenon
    <3> QED
      BY <2>1, <3>4, <3>6 DEF GotInv
  <2>4. got[p] # {}
    BY <2>1, <2>2 DEF ReadInv
  \* Another child's step leaves this one alone.
  <2>5. \/ InsertRows(p) \/ DeleteOld(p) \/ Kill(p)
    <3>1. ASSUME NEW q \in Procs, NEW v, NEW l, Answer(q, v) \/ Goto(q, l, v), q # p PROVE FALSE
      BY <2>1, <3>1 DEF LocalTypes, Answer, Goto
    <3>2. ASSUME NEW q \in Procs, NEW l, NEW r, NEW g, Start(q, l, r, g), q # p PROVE FALSE
      BY <2>1, <3>2 DEF LocalTypes, Start
    <3>3. PICK q \in Procs : Continue(q) \/ \E r \in Requests : Begin(q, r)
      BY <1>1 DEF Next
    <3>4. CASE Continue(q)
      <4>1. \E v, l : Answer(q, v) \/ Goto(q, l, v)
        BY <3>4 DEF Continue, InsertUser, SendFlag, CheckUser, InsertRoot, InsertRows, DeleteOld, Kill
      <4>2. q = p
        BY <3>1, <4>1
      <4> QED
        BY <2>2, <3>4, <4>2 DEF Continue, InsertUser, SendFlag, CheckUser, InsertRoot
    <3>5. CASE \E r \in Requests : Begin(q, r)
      <4>1. PICK r \in Requests : Begin(q, r)
        BY <3>5
      <4>2. pc[q] = "idle"
        BY <4>1 DEF Begin, SelectUser, LogIn, GetFileList, AddFile, DelFile, SelectRows, Take
      <4>3. (\E v : Answer(q, v)) \/ \E l, g : Start(q, l, r, g)
        BY <4>1 DEF Begin, SelectUser, LogIn, GetFileList, AddFile, DelFile, SelectRows
      <4> QED
        BY <3>1, <3>2, <4>2, <4>3
    <3> QED
      BY <3>3, <3>4, <3>5
  <2>6. CASE InsertRows(p)
    <3>1. None # 0 /\ Flag(FALSE) # 0
      BY RequestsAssumption DEF Flag
    <3>2. got[p] \subseteq file'
      BY <2>1, <2>6, <3>1 DEF InsertRows, Answer, LocalTypes
    <3> QED
      BY <2>3, <2>4, <3>2
  <2>7. CASE DeleteOld(p)
    <3>1. file' = file \ Selected(req[p].user, req[p].src) /\ pc[p] = "delete"
      BY <2>7 DEF DeleteOld
    <3>2. got[p] \subseteq file /\ \A n \in got[p] : ~ Matches(n.path, req[p].src)
      BY <2>1, <3>1 DEF ReadInv
    <3>3. got[p] \subseteq file'
      BY <3>1, <3>2 DEF Selected
    <3> QED
      BY <2>3, <2>4, <3>3
  <2>8. CASE Kill(p)
    <3>1. reply'[p] = None
      BY <2>1, <2>2, <2>8 DEF Kill, Answer, LocalTypes
    <3> QED
      BY <3>1, RequestsAssumption
  <2> QED
    BY <2>5, <2>6, <2>7, <2>8
<1>2. MoveInv /\ [Next]_vars => [There]_vars
  BY <1>1
<1> QED
  BY <1>2, MoveInvariance, PTL DEF Spec, DoneIsThere

-----------------------------------------------------------------------------
(* The refinement of Catalogue *)

\* Catalogue's paths are FileTable's.
LEMMA SamePaths ==
  /\ Promise!Root = Root
  /\ \A p, path : Promise!Matches(p, path) <=> Matches(p, path)
  /\ \A p, src, dst : Promise!Replace(p, src, dst) = Replace(p, src, dst)
<1>1. \A S : Promise!Min(S) = Min(S)
  BY DEF Promise!Min, Min
<1>2. \A path : Promise!Bytes(path) = Bytes(path)
  <2>1. \A S : Promise!Cardinality(S) = Cardinality(S)
    BY DEF Promise!Cardinality, Cardinality
  <2> QED
    BY <2>1, Zenon DEF Promise!Bytes, Bytes, Promise!Wide, Wide
<1>3. \A path : Promise!IsFolder(path) <=> IsFolder(path)
  BY DEF Promise!IsFolder, IsFolder, Promise!Last, Last, Promise!Slash, Slash
<1>4. \A p, path : Promise!Matches(p, path) <=> Matches(p, path)
  BY <1>1, <1>2, <1>3, Zenon DEF Promise!Matches, Matches
<1>5. \A p, src, dst : Promise!Replace(p, src, dst) = Replace(p, src, dst)
  BY DEF Promise!Replace, Replace
<1>6. Promise!Root = Root
  BY DEF Promise!Root, Root, Promise!Slash, Slash
<1> QED
  BY <1>4, <1>5, <1>6

\* What Catalogue's Of and Moved are.
LEMMA OfIs ==
  ASSUME NEW u, NEW path
  PROVE  \A s : s \in Promise!Of(u, path) <=> s \in Settled /\ s.user = u /\ Matches(s.path, path)
BY SamePaths DEF Promise!Of

LEMMA MovedIs ==
  ASSUME NEW rows, NEW src, NEW dst
  PROVE  Promise!Moved(rows, src, dst) = {[r EXCEPT !.path = Replace(r.path, src, dst)] : r \in rows}
BY SamePaths DEF Promise!Moved

\* A statement of p on the rows of user u alone, for whom no other child is
\* between the two statements of a move.
SettledDuty(p, l, r, g, v, u) ==
  /\ Moves(p, l, r, g, v)
  /\ \A s : s.user # u => (s \in file <=> s \in file')
  /\ \A q \in Procs : q # p /\ pc[q] = "delete" => req[q].user # u
  /\ pc[p] = "delete" => req[p].user = u
  /\ l = "delete" => r.user = u

\* It settles rows of u alone.
LEMMA SettledStep ==
  ASSUME NEW p \in Procs, NEW l, NEW r, NEW g, NEW v, NEW u, SettledDuty(p, l, r, g, v, u)
  PROVE  /\ \A s : s.user # u => (s \in Settled' <=> s \in Settled)
         /\ \A s : s.user = u =>
              (s \in Settled <=> s \in file /\ (pc[p] = "delete" => ~ Matches(s.path, req[p].src)))
         /\ \A s : s.user = u =>
              (s \in Settled' <=> s \in file' /\ (l = "delete" => ~ Matches(s.path, r.src)))
<1>1. \A s : s \in Settled <=>
        s \in file /\ \A q \in Procs :
          pc[q] = "delete" => ~ (s.user = req[q].user /\ Matches(s.path, req[q].src))
  BY DEF Settled, Selected
<1>2. \A s : s \in Settled' <=>
        s \in file' /\ \A q \in Procs :
          pc'[q] = "delete" => ~ (s.user = req'[q].user /\ Matches(s.path, req'[q].src))
  BY DEF Settled, Selected
<1>3. \A q \in Procs : q # p => pc'[q] = pc[q] /\ req'[q] = req[q]
  BY DEF SettledDuty, Moves
<1>4. pc'[p] = l /\ req'[p] = r
  BY DEF SettledDuty, Moves
<1> QED
  BY <1>1, <1>2, <1>3, <1>4 DEF SettledDuty

LEMMA SettledIsThere == \A s \in Settled : s \in file
  BY DEF Settled

\* A step that changes no row and neither begins nor ends a DELETE.
LEMMA SettledKept ==
  ASSUME MoveInv, file' = file, NEW p \in Procs, pc[p] # "delete",
         NEW l, l # "delete", NEW r, NEW g, NEW v, Moves(p, l, r, g, v)
  PROVE  Settled' = Settled
<1>1. PICK u : u \notin Users
  BY NoSetContainsEverything
<1>2. \A q \in Procs : pc[q] = "delete" => req[q].user # u
  BY <1>1, RequestTyped DEF MoveInv, TableInv, TypeOK
<1>3. SettledDuty(p, l, r, g, v, u)
  BY <1>2 DEF SettledDuty
<1>4. \A s : s \in Settled' <=> s \in Settled
  BY <1>3, SettledStep
<1> QED
  BY <1>4 DEF Settled

\* An INSERT into the rows of u, who is moving nothing.
LEMMA SettledInsert ==
  ASSUME NEW p \in Procs, NEW l, NEW r, NEW g, NEW v, NEW u, SettledDuty(p, l, r, g, v, u),
         pc[p] # "delete", l # "delete",
         NEW rows, \A n \in rows : n.user = u, Insertable(rows), file' = file \union rows
  PROVE  Settled' = Settled \union rows /\ Promise!Fresh(rows)
<1>1. \A s : s \in Settled' <=> s \in Settled \/ s \in rows
  BY SettledStep
<1>2. Settled' = Settled \union rows
  BY <1>1 DEF Settled
<1>3. Promise!Fresh(rows)
  BY SettledIsThere DEF Promise!Fresh, Insertable, SameKey
<1> QED
  BY <1>2, <1>3

\* Every statement is a step of Catalogue, or none.
LEMMA PromiseStep ==
  ASSUME Sequential, Apart, "delete" \notin KillAt, MoveInv, Next
  PROVE  Promise!CNext \/ (user' = user /\ Settled' = Settled)
<1>1. TypeOK /\ StageInv /\ GotInv /\ LocalTypes /\ AloneInv /\ ReadInv
  BY TypeParts DEF TableInv, MoveInv
<1>2. ASSUME NEW p \in Procs, pc[p] # "idle"
      PROVE  \A q \in Procs : q # p /\ pc[q] = "delete" => req[q].user # req[p].user
  BY <1>1, <1>2 DEF AloneInv, StageInv
<1>3. ASSUME NEW p \in Procs, NEW op, NEW r \in Requests, Take(p, op, r)
      PROVE  /\ \A q \in Procs : q # p /\ pc[q] = "delete" => req[q].user # r.user
             /\ r.op = op /\ pc[p] = "idle"
  BY <1>1, <1>3 DEF Take, StageInv
<1>4. ASSUME NEW p \in Procs, pc[p] # "delete", file' = file, user' = user,
             \/ \E v : Answer(p, v)
             \/ \E l \in Labels \ {"delete"} : \E v : Goto(p, l, v)
             \/ \E l \in Labels \ {"delete"}, r \in Requests : \E g : Start(p, l, r, g)
      PROVE  user' = user /\ Settled' = Settled
  <2>1. PICK l, r, g, v : l # "delete" /\ Moves(p, l, r, g, v)
    BY <1>1, <1>4, AnswerMoves, GotoMoves, StartMoves
  <2> QED
    BY <1>4, <2>1, SettledKept
<1>5. ASSUME NEW p \in Procs, InsertUser(p) PROVE Promise!CNext \/ (user' = user /\ Settled' = Settled)
  <2>1. pc[p] = "insertUser" /\ req[p] \in Requests /\ req[p].op = "regist" /\ file' = file
    BY <1>1, <1>5 DEF InsertUser, TypeOK, StageInv, RegistSteps
  <2>2. PICK l \in {"sendDone", "sendTaken"} : Goto(p, l, None)
    BY <1>5 DEF InsertUser
  <2>3. Moves(p, l, req[p], got[p], None)
    BY <1>1, <2>2, GotoMoves DEF Labels
  <2>4. Settled' = Settled
    BY <2>1, <2>2, <2>3, SettledKept
  <2>5. user' = user \/ Promise!Open(req[p].user, req[p].pw)
    BY <1>5, <2>4 DEF InsertUser, Promise!Open
  <2> QED
    BY <2>1, <2>4, <2>5 DEF Promise!CNext
<1>6. ASSUME NEW p \in Procs, SendFlag(p) \/ CheckUser(p) \/ Kill(p)
      PROVE  user' = user /\ Settled' = Settled
  BY <1>4, <1>6 DEF SendFlag, CheckUser, Kill, Labels
<1>7. ASSUME NEW p \in Procs, InsertRoot(p) PROVE Promise!CNext \/ (user' = user /\ Settled' = Settled)
  <2>1. /\ pc[p] = "rootRow" /\ req[p] \in Requests /\ req[p].op = "regist"
        /\ user' = user /\ Answer(p, reply[p])
    BY <1>1, <1>7 DEF InsertRoot, TypeOK, StageInv, RegistSteps
  <2> DEFINE row == Row(req[p].user, Root, NULL)
  <2>2. row.user = req[p].user /\ row = Promise!Row(req[p].user, Root, NULL)
    BY DEF Row, Promise!Row
  <2>3. file' = file \/ (Insertable({row}) /\ file' = file \union {row})
    BY <1>7 DEF InsertRoot
  <2> HIDE DEF row
  <2>4. Moves(p, "idle", None, {}, reply[p])
    BY <1>1, <2>1, AnswerMoves
  <2>5. CASE file' = file
    BY <1>4, <2>1, <2>5
  <2>6. CASE Insertable({row}) /\ file' = file \union {row}
    <3>1. SettledDuty(p, "idle", None, {}, reply[p], req[p].user)
      BY <1>2, <2>1, <2>2, <2>4, <2>6 DEF SettledDuty
    <3>2. Settled' = Settled \union {row} /\ Promise!Fresh({row})
      BY <2>1, <2>2, <2>6, <3>1, SettledInsert
    <3>3. Promise!Link(Promise!Row(req[p].user, Root, NULL))
      BY <2>1, <2>2, <3>2 DEF Promise!Link
    <3> QED
      BY <2>1, <3>3, SamePaths DEF Promise!CNext
  <2> QED
    BY <2>3, <2>5, <2>6
<1>8. ASSUME NEW p \in Procs, NEW r \in Requests, LogIn(p, r) \/ GetFileList(p, r) \/ SelectUser(p, r)
      PROVE  user' = user /\ Settled' = Settled
  BY <1>3, <1>4, <1>8 DEF LogIn, GetFileList, SelectUser, Labels
<1>9. ASSUME NEW p \in Procs, NEW r \in Requests, AddFile(p, r)
      PROVE  Promise!CNext \/ (user' = user /\ Settled' = Settled)
  <2>1. Take(p, "add", r) /\ user' = user
    BY <1>9 DEF AddFile
  <2> DEFINE row == Row(r.user, r.src, r.md5)
  <2>2. row.user = r.user /\ row = Promise!Row(r.user, r.src, r.md5)
    BY DEF Row, Promise!Row
  <2>3. file' = file \/ (Insertable({row}) /\ file' = file \union {row})
    BY <1>9 DEF AddFile
  <2>4. PICK v : Answer(p, v)
    BY <1>9 DEF AddFile
  <2> HIDE DEF row
  <2>5. CASE file' = file
    BY <1>3, <1>4, <2>1, <2>4, <2>5
  <2>6. CASE Insertable({row}) /\ file' = file \union {row}
    <3>1. Moves(p, "idle", None, {}, v)
      BY <1>1, <2>4, AnswerMoves
    <3>2. SettledDuty(p, "idle", None, {}, v, r.user)
      BY <1>3, <2>1, <2>2, <2>6, <3>1 DEF SettledDuty
    <3>3. Settled' = Settled \union {row} /\ Promise!Fresh({row})
      BY <1>3, <2>1, <2>2, <2>6, <3>2, SettledInsert
    <3>4. Promise!Link(Promise!Row(r.user, r.src, r.md5))
      BY <2>1, <2>2, <3>3 DEF Promise!Link
    <3> QED
      BY <1>3, <2>1, <3>4 DEF Promise!CNext
  <2> QED
    BY <2>3, <2>5, <2>6
<1>10. ASSUME NEW p \in Procs, NEW r \in Requests, DelFile(p, r) PROVE Promise!CNext
  <2>1. /\ Take(p, "del", r) /\ user' = user /\ file' = file \ Selected(r.user, r.src)
        /\ \E v : Answer(p, v)
    BY <1>10 DEF DelFile
  <2>2. PICK v : Moves(p, "idle", None, {}, v)
    BY <1>1, <2>1, AnswerMoves
  <2>3. SettledDuty(p, "idle", None, {}, v, r.user)
    BY <1>3, <2>1, <2>2 DEF SettledDuty, Selected
  <2>4. \A s : s \in Settled' <=> s \in Settled /\ ~ (s.user = r.user /\ Matches(s.path, r.src))
    BY <1>3, <2>1, <2>3, SettledStep DEF Selected
  <2>5. Settled' = Settled \ Promise!Of(r.user, r.src)
    BY <2>4, OfIs DEF Settled
  <2>6. Promise!Unlink(r.user, r.src)
    BY <2>1, <2>5 DEF Promise!Unlink
  <2> QED
    BY <1>3, <2>1, <2>6 DEF Promise!CNext
<1>11. ASSUME NEW p \in Procs, NEW r \in Requests, NEW op, SelectRows(p, op, r)
       PROVE  user' = user /\ Settled' = Settled
  <2>1. /\ Take(p, op, r) /\ file' = file /\ user' = user
        /\ \/ \E v : Answer(p, v)
           \/ \E g : Start(p, "insert", r, g)
    BY <1>11 DEF SelectRows
  <2>2. pc[p] # "delete" /\ "insert" \in Labels \ {"delete"}
    BY <1>3, <2>1 DEF Labels
  <2> QED
    BY <1>4, <2>1, <2>2
<1>12. ASSUME NEW p \in Procs, InsertRows(p) PROVE Promise!CNext \/ (user' = user /\ Settled' = Settled)
  <2> DEFINE u == req[p].user
             src == req[p].src
             dst == req[p].dst
             new == got[p]
  <2>1. /\ pc[p] = "insert" /\ req[p] \in Requests /\ req[p].op \in {"copy", "move"} /\ user' = user
        /\ new = RenamedOf(file, u, src, dst)
        /\ \A n \in new : n.user = u
    BY <1>1, <1>12 DEF InsertRows, ReadInv, StageInv, Renamed, Selected, RenamedOf, GotInv, TypeOK
  <2>2. \/ file' = file /\ \E v : Answer(p, v)
        \/ /\ Insertable(new) /\ file' = file \union new
           /\ \/ req[p].op = "copy" /\ \E v : Answer(p, v)
              \/ req[p].op = "move" /\ Goto(p, "delete", None)
    BY <1>12, <2>1 DEF InsertRows
  <2> HIDE DEF new
  <2>3. CASE file' = file /\ \E v : Answer(p, v)
    BY <1>4, <2>1, <2>3
  <2>4. \A q \in Procs : q # p /\ pc[q] = "delete" => req[q].user # u
    BY <1>2, <2>1
  <2>5. ASSUME NEW l, NEW r, NEW g, NEW v, SettledDuty(p, l, r, g, v, u)
        PROVE  new = Promise!Moved(Promise!Of(u, src), src, dst)
    <3>1. \A s : s.user = u => (s \in Settled <=> s \in file)
      BY <2>1, <2>5, SettledStep
    <3>2. \A s : s \in Promise!Of(u, src) <=> s \in file /\ s.user = u /\ Matches(s.path, src)
      BY <3>1, OfIs
    <3>3. Promise!Of(u, src) = {s \in file : s.user = u /\ Matches(s.path, src)}
      BY <3>2
    <3> QED
      BY <2>1, <3>3, MovedIs DEF RenamedOf
  <2>6. CASE Insertable(new) /\ file' = file \union new /\ req[p].op = "copy" /\ \E v : Answer(p, v)
    <3>1. PICK v : Moves(p, "idle", None, {}, v)
      BY <1>1, <2>6, AnswerMoves
    <3>2. SettledDuty(p, "idle", None, {}, v, u)
      BY <2>1, <2>4, <2>6, <3>1 DEF SettledDuty
    <3>3. Settled' = Settled \union new /\ Promise!Fresh(new)
      BY <2>1, <2>6, <3>2, SettledInsert
    <3>4. Promise!Copy(u, src, dst)
      BY <2>1, <2>5, <3>2, <3>3 DEF Promise!Copy
    <3> QED
      BY <2>1, <2>6, <3>4 DEF Promise!CNext
  <2>7. CASE Insertable(new) /\ file' = file \union new /\ req[p].op = "move" /\ Goto(p, "delete", None)
    <3>1. Moves(p, "delete", req[p], new, None)
      BY <1>1, <2>7, GotoMoves DEF Labels, new
    <3>2. SettledDuty(p, "delete", req[p], new, None, u)
      BY <2>1, <2>4, <2>7, <3>1 DEF SettledDuty
    <3>3. \A n \in new : ~ Matches(n.path, src)
      BY <1>1, <2>1, <2>7, NewRowsApart
    <3>4. \A s : s \in Settled' <=>
            (s \in Settled /\ ~ (s.user = u /\ Matches(s.path, src))) \/ s \in new
      BY <2>1, <2>7, <3>2, <3>3, SettledStep
    <3>5. Settled' = (Settled \ Promise!Of(u, src)) \union new
      BY <3>4, OfIs DEF Settled
    <3>6. Promise!Fresh(new)
      BY <2>1, <2>7, SettledIsThere DEF Promise!Fresh, Insertable, SameKey
    <3>7. Promise!Move(u, src, dst)
      BY <2>1, <2>5, <3>2, <3>5, <3>6 DEF Promise!Move
    <3> QED
      BY <2>1, <2>7, <3>7 DEF Promise!CNext
  <2> QED
    BY <2>2, <2>3, <2>6, <2>7
<1>13. ASSUME NEW p \in Procs, DeleteOld(p) PROVE user' = user /\ Settled' = Settled
  <2>1. /\ pc[p] = "delete" /\ user' = user /\ file' = file \ Selected(req[p].user, req[p].src)
        /\ \E v : Answer(p, v)
    BY <1>13 DEF DeleteOld
  <2>2. PICK v : Moves(p, "idle", None, {}, v)
    BY <1>1, <2>1, AnswerMoves
  <2>3. SettledDuty(p, "idle", None, {}, v, req[p].user)
    BY <1>2, <2>1, <2>2 DEF SettledDuty, Selected
  <2>4. \A s : s \in Settled' <=> s \in Settled
    BY <2>1, <2>3, SettledStep DEF Selected
  <2> QED
    BY <2>1, <2>4 DEF Settled
<1> QED
  BY <1>5, <1>6, <1>7, <1>8, <1>9, <1>10, <1>11, <1>12, <1>13 DEF Next, Continue, Begin

\* ImplementsCatalogue: each request is one step of Catalogue, or none, when a
\* user waits for each reply, moves no folder into itself, and no child dies
\* between the INSERT and the DELETE of a move (DB_Operate.cpp:356-518).
THEOREM CatalogueIsImplemented ==
  Sequential /\ Apart /\ "delete" \notin KillAt => (Spec => ImplementsCatalogue)
<1> SUFFICES ASSUME Sequential, Apart, "delete" \notin KillAt PROVE Spec => ImplementsCatalogue
  OBVIOUS
<1>1. Init => Promise!CInit
  BY DEF Init, Promise!CInit, Settled
<1>2. MoveInv /\ [Next]_vars => [Promise!CNext]_<<user, Settled>>
  <2> SUFFICES ASSUME MoveInv, [Next]_vars
               PROVE  Promise!CNext \/ (user' = user /\ Settled' = Settled)
    OBVIOUS
  <2>1. CASE Next
    BY <2>1, PromiseStep
  <2>2. CASE UNCHANGED vars
    BY <2>2 DEF vars, locals, Settled, Selected
  <2> QED
    BY <2>1, <2>2
<1> QED
  BY <1>1, <1>2, MoveInvariance, PTL DEF Spec, ImplementsCatalogue, Promise!CSpec

-----------------------------------------------------------------------------
(* Parents *)

\* A set of numbers has a least one.
LEMMA LeastNumber ==
  ASSUME NEW T \in SUBSET Nat, T # {}
  PROVE  \E x \in T : \A y \in T : x <= y
<1> DEFINE R == {r \in Nat \X Nat : r[1] < r[2]}
<1>1. IsWellFoundedOn(R, Nat)
  BY NatLessThanWellFounded, Zenon DEF OpToRel
<1>2. \A x, y \in Nat : <<y, x>> \in R <=> y < x
  OBVIOUS
<1> HIDE DEF R
<1>3. PICK x \in T : \A y \in T : <<y, x>> \notin R
  BY <1>1, WFMin, Zenon
<1>4. \A y \in T : <<y, x>> \notin R => x <= y
  BY <1>2
<1> QED
  BY <1>3, <1>4, Zenon

\* Where the folder of a path ends.
Cut(path, k) == /\ k \in 1 .. Len(path) - 1 /\ path[k] = Slash
                /\ \A j \in k + 1 .. Len(path) - 1 : path[j] # Slash

\* path lies in folder, or is it.
Under(path, folder) == /\ Len(folder) <= Len(path)
                       /\ \A i \in 1 .. Len(folder) : path[i] = folder[i]

LEMMA CutExists ==
  ASSUME NEW path \in Path, path[1] = Slash, Len(path) > 1
  PROVE  \E k \in 1 .. Len(path) - 1 : Cut(path, k)
<1>0. Len(path) \in Nat
  BY DEF Path
<1> DEFINE n == Len(path) - 1
           T == {m \in 0 .. n - 1 : path[n - m] = Slash}
<1>1. T \in SUBSET Nat /\ n - 1 \in T
  BY <1>0
<1>2. PICK m \in T : \A y \in T : m <= y
  BY <1>1, LeastNumber, Zenon
<1>3. n - m \in 1 .. n /\ path[n - m] = Slash
  BY <1>0, <1>2
<1>4. ASSUME NEW j \in n - m + 1 .. n, path[j] = Slash PROVE FALSE
  <2>1. n - j \in 0 .. n - 1 /\ n - (n - j) = j /\ n - j < m
    BY <1>0, <1>3, <1>4
  <2>2. n - j \in T
    BY <1>4, <2>1
  <2> QED
    BY <1>0, <1>2, <2>1, <2>2
<1> QED
  BY <1>3, <1>4 DEF Cut

LEMMA ParentIs ==
  ASSUME NEW path \in Path, NEW k, Cut(path, k)
  PROVE  Parent(path) = SubSeq(path, 1, k)
<1>0. Len(path) \in Nat /\ k \in 1 .. Len(path) - 1 /\ path # <<>>
  BY DEF Path, Cut
<1> DEFINE body == IF IsFolder(path) THEN Front(path) ELSE path
           C(i) == /\ i \in DOMAIN body /\ body[i] = Slash
                   /\ \A j \in i + 1 .. Len(body) : body[j] # Slash
           cut == CHOOSE i \in DOMAIN body : /\ body[i] = Slash
                                             /\ \A j \in i + 1 .. Len(body) : body[j] # Slash
<1>1. Parent(path) = SubSeq(body, 1, cut)
  BY DEF Parent
<1>2. /\ body \in Path /\ Len(body) \in {Len(path) - 1, Len(path)}
      /\ \A i \in 1 .. Len(path) - 1 : body[i] = path[i]
      /\ Len(body) = Len(path) => body[Len(body)] # Slash
  <2>1. CASE IsFolder(path)
    <3>1. body = SubSeq(path, 1, Len(path) - 1)
      BY <2>1 DEF Front
    <3> HIDE DEF body
    <3> QED
      BY <1>0, <3>1 DEF Path
  <2>2. CASE ~IsFolder(path)
    <3>1. body = path
      BY <2>2
    <3> HIDE DEF body
    <3> QED
      BY <1>0, <2>2, <3>1 DEF IsFolder, Last
  <2> QED
    BY <2>1, <2>2
<1> HIDE DEF body
<1>3. C(k)
  BY <1>0, <1>2 DEF Cut, Path
<1>4. \A i : C(i) => i = k
  BY <1>0, <1>2 DEF Cut, Path
<1>5. cut = k
  BY <1>3, <1>4
<1>6. SubSeq(body, 1, k) = SubSeq(path, 1, k)
  BY <1>0, <1>2 DEF Path
<1> QED
  BY <1>1, <1>5, <1>6

\* A path below a folder: its parent is the folder, or below it, and moves with it.
LEMMA ParentUnder ==
  ASSUME NEW path \in Path, NEW folder \in Path \ {<<>>}, IsFolder(folder),
         Under(path, folder), path # folder, path[1] = Slash
  PROVE  /\ Parent(path) \in Path /\ Under(Parent(path), folder) /\ Under(path, Parent(path))
         /\ Len(Parent(path)) < Len(path) /\ IsFolder(Parent(path)) /\ Parent(path)[1] = Slash
<1>0. Len(path) \in Nat /\ Len(folder) \in Nat /\ Len(folder) > 0
  BY DEF Path
<1>1. Len(folder) < Len(path)
  BY <1>0, SeqEqual DEF Under, Path
<1>2. PICK k \in 1 .. Len(path) - 1 : Cut(path, k)
  BY <1>0, <1>1, CutExists
<1>3. Len(folder) <= k
  <2>1. path[Len(folder)] = Slash
    BY <1>0 DEF Under, IsFolder, Last
  <2> QED
    BY <1>0, <1>1, <1>2, <2>1 DEF Cut
<1>4. Parent(path) = SubSeq(path, 1, k)
  BY <1>2, ParentIs
<1> QED
  BY <1>0, <1>1, <1>2, <1>3, <1>4 DEF Under, Cut, IsFolder, Last, Path

\* Parents are folders above, of any path from the root.
LEMMA ParentAbove ==
  ASSUME NEW path \in Path, path[1] = Slash, Len(path) > 1
  PROVE  /\ Parent(path) \in Path /\ Parent(path) # <<>> /\ Under(path, Parent(path))
         /\ Len(Parent(path)) < Len(path) /\ IsFolder(Parent(path))
<1>0. Len(path) \in Nat
  BY DEF Path
<1>1. PICK k \in 1 .. Len(path) - 1 : Cut(path, k)
  BY CutExists
<1>2. Parent(path) = SubSeq(path, 1, k)
  BY <1>1, ParentIs
<1> QED
  BY <1>0, <1>1, <1>2 DEF Under, Cut, IsFolder, Last, Path

LEMMA ParentMoves ==
  ASSUME NEW path \in Path, NEW src \in Path \ {<<>>}, NEW dst \in Path \ {<<>>},
         IsFolder(src), IsFolder(dst), Under(path, src), path # src, path[1] = Slash
  PROVE  Parent(Replace(path, src, dst)) = Replace(Parent(path), src, dst)
<1>0. /\ Len(path) \in Nat /\ Len(src) \in Nat /\ Len(src) > 0
      /\ Len(dst) \in Nat /\ Len(dst) > 0 /\ Len(src) <= Len(path)
  BY DEF Path, Under
<1>1. Len(src) < Len(path)
  BY <1>0, SeqEqual DEF Under, Path
<1>2. PICK k \in 1 .. Len(path) - 1 : Cut(path, k)
  BY <1>0, <1>1, CutExists
<1>3. Len(src) <= k
  <2>1. path[Len(src)] = Slash
    BY <1>0 DEF Under, IsFolder, Last
  <2> QED
    BY <1>0, <1>1, <1>2, <2>1 DEF Cut
<1>4. Parent(path) = SubSeq(path, 1, k)
  BY <1>2, ParentIs
<1> DEFINE new == Replace(path, src, dst)
           n == Len(dst) + k - Len(src)
<1>5. /\ new \in Path /\ Len(new) = Len(dst) + Len(path) - Len(src)
      /\ \A i \in 1 .. Len(dst) : new[i] = dst[i]
      /\ \A i \in 1 .. Len(path) - Len(src) : new[Len(dst) + i] = path[Len(src) + i]
  BY <1>0, ReplaceIs, Zenon
<1> HIDE DEF new
<1>6. \A i \in Len(dst) + 1 .. Len(new) : new[i] = path[i - Len(dst) + Len(src)]
  <2> SUFFICES ASSUME NEW i \in Len(dst) + 1 .. Len(new) PROVE new[i] = path[i - Len(dst) + Len(src)]
    OBVIOUS
  <2>1. PICK j \in 1 .. Len(path) - Len(src) : i = Len(dst) + j
    BY <1>0, <1>5
  <2> QED
    BY <1>0, <1>5, <2>1
<1>7. /\ n \in 1 .. Len(new) - 1 /\ n >= Len(dst)
      /\ new[n] = Slash
  <2>1. dst[Len(dst)] = Slash /\ path[k] = Slash
    BY <1>2 DEF IsFolder, Last, Cut
  <2>2. n \in Nat /\ n >= Len(dst) /\ n < Len(new)
    BY <1>0, <1>1, <1>2, <1>3, <1>5
  <2>3. CASE k = Len(src)
    BY <1>0, <1>5, <2>1, <2>2, <2>3
  <2>4. CASE k # Len(src)
    <3>1. n \in Len(dst) + 1 .. Len(new) /\ n - Len(dst) + Len(src) = k
      BY <1>0, <1>2, <1>3, <2>2, <2>4
    <3> QED
      BY <1>0, <1>6, <2>1, <2>2, <3>1
  <2> QED
    BY <2>3, <2>4
<1>8. ASSUME NEW j \in n + 1 .. Len(new) - 1 PROVE new[j] # Slash
  <2>1. j \in Len(dst) + 1 .. Len(new) /\ j - Len(dst) + Len(src) \in k + 1 .. Len(path) - 1
    BY <1>0, <1>2, <1>5, <1>7
  <2> QED
    BY <1>2, <1>6, <2>1 DEF Cut
<1>9. Parent(new) = SubSeq(new, 1, n)
  BY <1>5, <1>7, <1>8, ParentIs DEF Cut
<1>10. PICK s \in Path : /\ s = SubSeq(path, 1, k) /\ Len(s) = k
                         /\ \A i \in 1 .. k : s[i] = path[i]
  <2>1. /\ SubSeq(path, 1, k) \in Path /\ Len(SubSeq(path, 1, k)) = k
        /\ \A i \in 1 .. k : SubSeq(path, 1, k)[i] = path[i]
    BY <1>0, <1>2 DEF Path
  <2> QED
    BY <2>1, Zenon
<1> DEFINE up == Replace(s, src, dst)
<1>11. /\ up \in Path /\ Len(up) = n
       /\ \A i \in 1 .. Len(dst) : up[i] = dst[i]
       /\ \A i \in 1 .. k - Len(src) : up[Len(dst) + i] = path[Len(src) + i]
  <2>1. Len(src) <= Len(s)
    BY <1>3, <1>10
  <2>2. /\ up \in Path /\ Len(up) = Len(dst) + Len(s) - Len(src)
        /\ \A i \in 1 .. Len(dst) : up[i] = dst[i]
        /\ \A i \in 1 .. Len(s) - Len(src) : up[Len(dst) + i] = s[Len(src) + i]
    BY <2>1, ReplaceIs, Zenon
  <2> HIDE DEF up
  <2>3. ASSUME NEW i \in 1 .. k - Len(src) PROVE up[Len(dst) + i] = path[Len(src) + i]
    <3>1. i \in 1 .. Len(s) - Len(src) /\ Len(src) + i \in 1 .. k
      BY <1>0, <1>3, <1>10
    <3> QED
      BY <1>10, <2>2, <3>1
  <2> QED
    BY <1>10, <2>2, <2>3
<1>12. /\ SubSeq(new, 1, n) \in Path /\ Len(SubSeq(new, 1, n)) = n
       /\ \A i \in 1 .. n : SubSeq(new, 1, n)[i] = new[i]
  <2>1. n \in Nat /\ n <= Len(new) /\ Len(new) \in Nat
    BY <1>0, <1>5, <1>7 DEF Path
  <2> HIDE DEF n
  <2> QED
    BY <1>5, <2>1 DEF Path
<1> HIDE DEF up
<1>13. \A i \in 1 .. n : up[i] = new[i]
  <2> SUFFICES ASSUME NEW i \in 1 .. n PROVE up[i] = new[i]
    OBVIOUS
  <2>1. CASE i <= Len(dst)
    BY <1>0, <1>5, <1>11, <2>1
  <2>2. CASE i > Len(dst)
    <3>1. PICK j \in 1 .. k - Len(src) : i = Len(dst) + j
      BY <1>0, <1>2, <1>3, <2>2
    <3>2. j \in 1 .. Len(path) - Len(src)
      BY <1>0, <1>2, <3>1
    <3> QED
      BY <1>5, <1>11, <3>1, <3>2
  <2> QED
    BY <1>0, <2>1, <2>2
<1>14. up = SubSeq(new, 1, n)
  BY <1>11, <1>12, <1>13, SeqEqual DEF Path
<1> QED
  BY <1>4, <1>9, <1>10, <1>14 DEF new, up

-----------------------------------------------------------------------------
(* Good paths *)

LEMMA GoodIs ==
  ASSUME NEW path, Good(path)
  PROVE  /\ path \in Path \ {<<>>} /\ path[1] = Slash /\ Len(path) \in Nat /\ Len(path) > 0
         /\ path # Root => Len(path) > 1
<1>1. path \in Path /\ path # <<>> /\ path[1] = Slash
  BY DEF Good, Path
<1>2. Len(path) \in Nat /\ Len(path) > 0
  BY <1>1 DEF Path
<1>3. Len(path) = 1 => path = Root
  BY <1>1, SeqEqual, RootPath DEF Path, Root
<1>4. \A n \in Nat : n > 0 /\ n # 1 => n > 1
  OBVIOUS
<1> QED
  BY <1>1, <1>2, <1>3, <1>4, Zenon

\* For a good folder the rows that are matched are those that lie below it.
LEMMA MatchesUnder ==
  ASSUME NEW p \in Path, NEW folder, Good(folder), IsFolder(folder)
  PROVE  Matches(p, folder) <=> Under(p, folder)
<1>1. folder \in Path \ {<<>>}
  BY GoodIs
<1>2. Bytes(folder) = Len(folder)
  <2>1. {i \in DOMAIN folder : folder[i] \in Wide} = {}
    BY DEF Good
  <2>2. Cardinality({}) = 0
    BY FS_EmptySet
  <2>3. Bytes(folder) = Len(folder) + Cardinality({})
    BY <2>1, Zenon DEF Bytes
  <2> QED
    BY <1>1, <2>2, <2>3 DEF Path
<1>3. ASSUME Under(p, folder) PROVE Matches(p, folder)
  <2>1. Min({Len(p), Len(folder)}) = Len(folder)
    <3>1. Len(p) \in Nat /\ Len(folder) \in Nat
      BY <1>1 DEF Path
    <3> QED
      BY <1>3, <3>1, MinOfTwo DEF Under
  <2>2. SubSeq(p, 1, Len(folder)) = folder
    BY <1>1, <1>3, SeqEqual DEF Path, Under
  <2> QED
    BY <1>2, <2>1, <2>2 DEF Matches
<1>4. ASSUME Matches(p, folder) PROVE Under(p, folder)
  BY <1>1, <1>4, MatchesPrefix DEF Under
<1> QED
  BY <1>3, <1>4

\* What is left when the rows of a path are taken away keeps its parents.
LEMMA BelowMatches ==
  ASSUME NEW p, Good(p), p # Root, NEW path, Good(path), Matches(Parent(p), path)
  PROVE  Matches(p, path)
<1>1. /\ p \in Path /\ path \in Path \ {<<>>} /\ Len(p) \in Nat /\ Len(path) \in Nat
      /\ Parent(p) \in Path /\ Len(Parent(p)) \in Nat
      /\ Under(p, Parent(p)) /\ IsFolder(Parent(p))
  <2>1. p \in Path /\ p[1] = Slash /\ Len(p) > 1 /\ path \in Path \ {<<>>}
    BY GoodIs
  <2>2. Parent(p) \in Path /\ Under(p, Parent(p)) /\ IsFolder(Parent(p))
    BY <2>1, ParentAbove
  <2> QED
    BY <2>1, <2>2 DEF Path
<1>2. CASE IsFolder(path)
  <2>1. Under(Parent(p), path)
    BY <1>1, <1>2, MatchesUnder
  <2>2. Under(p, path)
    BY <1>1, <2>1 DEF Under
  <2> QED
    BY <1>1, <1>2, <2>2, MatchesUnder
<1>3. CASE ~IsFolder(path)
  BY <1>1, <1>3 DEF Matches
<1> QED
  BY <1>2, <1>3

\* A good path stays good under a new folder.
LEMMA GoodReplace ==
  ASSUME NEW p \in Path, Good(p), NEW src \in Path, Len(src) <= Len(p),
         NEW dst \in Path, Good(dst)
  PROVE  Good(Replace(p, src, dst))
<1>0. Len(p) \in Nat /\ Len(dst) \in Nat /\ Len(src) \in Nat
  BY DEF Path
<1>1. dst[1] = Slash /\ Len(dst) > 0
  BY GoodIs
<1>2. PICK n \in Path :
        /\ n = Replace(p, src, dst) /\ Len(n) = Len(dst) + Len(p) - Len(src)
        /\ \A i \in 1 .. Len(dst) : n[i] = dst[i]
        /\ \A i \in 1 .. Len(p) - Len(src) : n[Len(dst) + i] = p[Len(src) + i]
  <2>1. /\ Replace(p, src, dst) \in Path
        /\ Len(Replace(p, src, dst)) = Len(dst) + Len(p) - Len(src)
        /\ \A i \in 1 .. Len(dst) : Replace(p, src, dst)[i] = dst[i]
        /\ \A i \in 1 .. Len(p) - Len(src) : Replace(p, src, dst)[Len(dst) + i] = p[Len(src) + i]
    BY ReplaceIs, Zenon
  <2> QED
    BY <2>1, Zenon
<1>3. n # <<>> /\ n[1] = Slash /\ Len(n) \in Nat
  BY <1>0, <1>1, <1>2 DEF Path
<1>4. ASSUME NEW i \in 1 .. Len(n) PROVE n[i] \notin Wide \union {Wildcard}
  <2>1. CASE i <= Len(dst)
    <3>1. i \in DOMAIN dst /\ n[i] = dst[i]
      BY <1>0, <1>2, <2>1 DEF Path
    <3> QED
      BY <3>1 DEF Good
  <2>2. CASE i > Len(dst)
    <3>1. PICK j \in 1 .. Len(p) - Len(src) : i = Len(dst) + j
      <4>1. i - Len(dst) \in 1 .. Len(p) - Len(src) /\ i = Len(dst) + (i - Len(dst))
        BY <1>0, <1>2, <1>3, <2>2
      <4> QED
        BY <4>1, Zenon
    <3>2. Len(src) + j \in DOMAIN p /\ n[i] = p[Len(src) + j]
      BY <1>0, <1>2, <3>1 DEF Path
    <3> QED
      BY <3>2 DEF Good
  <2> QED
    BY <1>0, <1>3, <2>1, <2>2
<1>5. DOMAIN n = 1 .. Len(n) /\ n \in Seq(STRING)
  BY <1>2 DEF Path
<1>6. Good(n)
  BY <1>3, <1>4, <1>5 DEF Good
<1> QED
  BY <1>2, <1>6

\* A path put in place of itself.
LEMMA ReplaceSelf ==
  ASSUME NEW src \in Path, NEW dst \in Path
  PROVE  Replace(src, src, dst) = dst
<1>1. /\ Replace(src, src, dst) \in Path
      /\ Len(Replace(src, src, dst)) = Len(dst) + Len(src) - Len(src)
      /\ \A i \in 1 .. Len(dst) : Replace(src, src, dst)[i] = dst[i]
  <2>1. Len(src) <= Len(src)
    BY DEF Path
  <2> QED
    BY <2>1, ReplaceIs, Zenon
<1> QED
  BY <1>1, SeqEqual DEF Path

-----------------------------------------------------------------------------
(* GoodInv and Reachable *)

\* The rows of a step of p: which are added, and which go.
LEMMA RowsStep ==
  ASSUME NEW p \in Procs, Continue(p) \/ \E r \in Requests : Begin(p, r)
  PROVE  \/ file' = file
         \/ InsertRoot(p) /\ file' = file \union {Row(req[p].user, Root, NULL)}
         \/ \E r \in Requests : AddFile(p, r) /\ file' = file \union {Row(r.user, r.src, r.md5)}
         \/ \E r \in Requests : DelFile(p, r)
         \/ InsertRows(p) /\ file' = file \union got[p]
         \/ DeleteOld(p)
<1>1. CASE InsertUser(p) \/ SendFlag(p) \/ CheckUser(p) \/ Kill(p)
  BY <1>1 DEF InsertUser, SendFlag, CheckUser, Kill
<1>2. CASE InsertRoot(p)
  BY <1>2 DEF InsertRoot
<1>3. CASE InsertRows(p)
  BY <1>3 DEF InsertRows
<1>4. CASE DeleteOld(p)
  BY <1>4
<1>5. ASSUME NEW r \in Requests, Begin(p, r)
      PROVE  file' = file \/ AddFile(p, r) \/ DelFile(p, r)
  BY <1>5 DEF Begin, SelectUser, LogIn, GetFileList, SelectRows
<1>6. ASSUME NEW r \in Requests, AddFile(p, r)
      PROVE  file' = file \/ file' = file \union {Row(r.user, r.src, r.md5)}
  BY <1>6 DEF AddFile
<1> QED
  BY <1>1, <1>2, <1>3, <1>4, <1>5, <1>6, Zenon DEF Continue

\* What p has read, after its step.
LEMMA GotStep ==
  ASSUME LocalTypes, NEW p \in Procs, Continue(p) \/ \E r \in Requests : Begin(p, r)
  PROVE  /\ \A q \in Procs \ {p} : got'[q] = got[q] /\ pc'[q] = pc[q] /\ req'[q] = req[q]
         /\ \/ got'[p] = {}
            \/ got'[p] = got[p]
            \/ \E r \in Requests : got'[p] = Renamed(r.user, r.src, r.dst)
         /\ pc'[p] = "insert" =>
              \E op \in {"copy", "move"}, r \in Requests :
                Take(p, op, r) /\ req'[p] = r /\ file' = file
<1>1. ASSUME NEW v, Answer(p, v)
      PROVE  /\ \A q \in Procs \ {p} : got'[q] = got[q] /\ pc'[q] = pc[q] /\ req'[q] = req[q]
             /\ got'[p] = {} /\ pc'[p] = "idle"
  BY <1>1 DEF LocalTypes, Answer
<1>2. ASSUME NEW l, NEW v, Goto(p, l, v)
      PROVE  /\ \A q \in Procs \ {p} : got'[q] = got[q] /\ pc'[q] = pc[q] /\ req'[q] = req[q]
             /\ got'[p] = got[p] /\ pc'[p] = l
  BY <1>2 DEF LocalTypes, Goto
<1>3. ASSUME NEW l, NEW r, NEW g, Start(p, l, r, g)
      PROVE  /\ \A q \in Procs \ {p} : got'[q] = got[q] /\ pc'[q] = pc[q] /\ req'[q] = req[q]
             /\ got'[p] = g /\ pc'[p] = l /\ req'[p] = r
  BY <1>3 DEF LocalTypes, Start
<1>4. CASE InsertUser(p) \/ SendFlag(p) \/ CheckUser(p)
  <2>1. (\E v : Answer(p, v)) \/ \E l \in {"sendDone", "sendTaken", "checkUser", "rootRow"} : \E v : Goto(p, l, v)
    BY <1>4 DEF InsertUser, SendFlag, CheckUser
  <2> QED
    BY <1>1, <1>2, <2>1
<1>5. CASE InsertRoot(p) \/ DeleteOld(p) \/ Kill(p)
  BY <1>1, <1>5 DEF InsertRoot, DeleteOld, Kill
<1>6. CASE InsertRows(p)
  <2>1. (\E v : Answer(p, v)) \/ Goto(p, "delete", None)
    BY <1>6 DEF InsertRows
  <2> QED
    BY <1>1, <1>2, <2>1
<1>7. ASSUME NEW r \in Requests, SelectUser(p, r)
      PROVE  \E l \in {"insertUser", "sendTaken"} : Start(p, l, r, {})
  BY <1>7 DEF SelectUser
<1>8. ASSUME NEW r \in Requests, LogIn(p, r) \/ GetFileList(p, r) \/ AddFile(p, r) \/ DelFile(p, r)
      PROVE  \E v : Answer(p, v)
  BY <1>8 DEF LogIn, GetFileList, AddFile, DelFile
<1>9. ASSUME NEW r \in Requests, NEW op \in {"copy", "move"}, SelectRows(p, op, r)
      PROVE  /\ Take(p, op, r) /\ file' = file
             /\ (\E v : Answer(p, v)) \/ Start(p, "insert", r, Renamed(r.user, r.src, r.dst))
  BY <1>9 DEF SelectRows
<1>10. ASSUME NEW r \in Requests, Begin(p, r)
       PROVE  \/ \E v : Answer(p, v)
              \/ \E l \in {"insertUser", "sendTaken"} : Start(p, l, r, {})
              \/ \E op \in {"copy", "move"} :
                   /\ Take(p, op, r) /\ file' = file
                   /\ Start(p, "insert", r, Renamed(r.user, r.src, r.dst))
  BY <1>7, <1>8, <1>9, <1>10 DEF Begin
<1>11. CASE \E r \in Requests : Begin(p, r)
  <2>1. PICK r \in Requests : Begin(p, r)
    BY <1>11
  <2>2. CASE \E v : Answer(p, v)
    BY <1>1, <2>2
  <2>3. CASE \E l \in {"insertUser", "sendTaken"} : Start(p, l, r, {})
    BY <1>3, <2>3
  <2>4. ASSUME NEW op \in {"copy", "move"}, Take(p, op, r), file' = file,
               Start(p, "insert", r, Renamed(r.user, r.src, r.dst))
        PROVE  /\ \A q \in Procs \ {p} : got'[q] = got[q] /\ pc'[q] = pc[q] /\ req'[q] = req[q]
               /\ \E s \in Requests : got'[p] = Renamed(s.user, s.src, s.dst)
               /\ \E o \in {"copy", "move"}, s \in Requests :
                    Take(p, o, s) /\ req'[p] = s /\ file' = file
    BY <1>3, <2>4, Zenon
  <2> QED
    BY <1>10, <2>1, <2>2, <2>3, <2>4
<1> QED
  BY <1>4, <1>5, <1>6, <1>11 DEF Continue

\* The rows a copy or move adds have good paths.
LEMMA RenamedGood ==
  ASSUME TypeOK, GoodInv, Shaped, NEW r \in Requests
  PROVE  \A n \in Renamed(r.user, r.src, r.dst) : Good(n.path)
<1> SUFFICES ASSUME NEW s \in file, Matches(s.path, r.src)
             PROVE  Good(Replace(s.path, r.src, r.dst)) /\ s \in Rows
  BY DEF Renamed, Selected, Rows
<1>1. s \in Rows /\ s.path \in Path /\ r.src \in Path /\ r.dst \in Path
  BY RequestTyped DEF TypeOK, Rows, Path
<1>2. Good(s.path) /\ Good(r.dst)
  BY DEF GoodInv, Shaped
<1>3. Len(r.src) <= Len(s.path)
  BY <1>1, MatchesPrefix
<1> QED
  BY <1>1, <1>2, <1>3, GoodReplace

LEMMA GoodRoot == Good(Root)
<1>1. Root \in Path /\ Root # <<>> /\ Root[1] = Slash /\ DOMAIN Root = {1}
  BY RootPath DEF Root
<1>2. Slash \notin Wide
  BY DEF Slash, Wide
<1>3. Slash # Wildcard
  BY Zenon DEF Slash, Wildcard
<1> QED
  BY <1>1, <1>2, <1>3 DEF Good, Path

LEMMA GoodStep ==
  ASSUME Shaped, TypeOK, GoodInv, [Next]_vars
  PROVE  GoodInv'
<1>1. CASE UNCHANGED vars
  BY <1>1 DEF vars, locals, GoodInv
<1>2. ASSUME NEW p \in Procs, Continue(p) \/ \E r \in Requests : Begin(p, r)
      PROVE  GoodInv'
  <2>1. \A q \in Procs : \A r \in got'[q] : Good(r.path)
    <3>1. LocalTypes
      BY TypeParts
    <3>2. /\ \A q \in Procs \ {p} : got'[q] = got[q]
          /\ \/ got'[p] = {} \/ got'[p] = got[p]
             \/ \E r \in Requests : got'[p] = Renamed(r.user, r.src, r.dst)
      BY <1>2, <3>1, GotStep
    <3>3. \A r \in got'[p] : Good(r.path)
      BY <3>2, RenamedGood DEF GoodInv
    <3> QED
      BY <3>2, <3>3 DEF GoodInv
  <2>2. \A r \in file' : Good(r.path)
    <3>1. \A u, path, md5 : Row(u, path, md5).path = path
      BY DEF Row
    <3>2. CASE file' = file
      BY <3>2 DEF GoodInv
    <3>3. CASE file' = file \union {Row(req[p].user, Root, NULL)}
      BY <3>1, <3>3, GoodRoot DEF GoodInv
    <3>4. ASSUME NEW r \in Requests, file' = file \union {Row(r.user, r.src, r.md5)}
          PROVE  \A s \in file' : Good(s.path)
      BY <3>1, <3>4 DEF GoodInv, Shaped
    <3>5. ASSUME NEW r \in Requests, DelFile(p, r) PROVE \A s \in file' : Good(s.path)
      BY <3>5 DEF GoodInv, DelFile
    <3>6. CASE file' = file \union got[p]
      BY <3>6 DEF GoodInv
    <3>7. CASE DeleteOld(p)
      BY <3>7 DEF GoodInv, DeleteOld
    <3> QED
      BY <1>2, <3>2, <3>3, <3>4, <3>5, <3>6, <3>7, RowsStep
  <2> QED
    BY <2>1, <2>2 DEF GoodInv
<1> QED
  BY <1>1, <1>2 DEF Next

\* GoodInv in every reachable state.
THEOREM GoodInvariance == Shaped => (Spec => []GoodInv)
<1> SUFFICES ASSUME Shaped PROVE Spec => []GoodInv
  OBVIOUS
<1>1. Init => GoodInv
  BY DEF Init, GoodInv
<1>2. TypeOK /\ GoodInv /\ [Next]_vars => GoodInv'
  BY GoodStep
<1> QED
  BY <1>1, <1>2, TypeCorrect, PTL DEF Spec

LEMMA ReachInsert ==
  ASSUME Reachable, NEW new, file' = file \union new, \A n \in new : Parented(n, file \union new)
  PROVE  Reachable'
  BY DEF Reachable, Parented

LEMMA ReachInsertRow ==
  ASSUME Reachable, NEW u, NEW path, NEW md5, file' = file \union {Row(u, path, md5)},
         path # Root => \E s \in file : s.user = u /\ s.path = Parent(path)
  PROVE  Reachable'
<1>1. /\ Row(u, path, md5).user = u /\ Row(u, path, md5).path = path
  BY DEF Row
<1> DEFINE n == Row(u, path, md5)
<1>2. Parented(n, file \union {n})
  BY <1>1 DEF Parented
<1> HIDE DEF n
<1>3. \A m \in {n} : Parented(m, file \union {n})
  BY <1>2
<1>4. file' = file \union {n}
  BY DEF n
<1> QED
  BY <1>3, <1>4, ReachInsert, Zenon

LEMMA ReachDelete ==
  ASSUME GoodInv, Reachable, NEW u, NEW path, Good(path), file' = file \ Selected(u, path)
  PROVE  Reachable'
<1> SUFFICES ASSUME NEW r \in file', r.path # Root
             PROVE  \E s \in file' : s.user = r.user /\ s.path = Parent(r.path)
  BY DEF Reachable
<1>1. PICK s \in file : s.user = r.user /\ s.path = Parent(r.path)
  BY DEF Reachable
<1>2. Good(r.path)
  BY DEF GoodInv
<1>3. s \in Selected(u, path) => r \in Selected(u, path)
  BY <1>1, <1>2, BelowMatches DEF Selected
<1> QED
  BY <1>1, <1>3

\* A copy of what is below src, with a folder for dst to lie in.
LEMMA CopyParented ==
  ASSUME TypeOK, GoodInv, Reachable, NEW u, NEW src, Good(src), NEW dst, Good(dst),
         IsFolder(src) => IsFolder(dst),
         \E s \in file : s.user = u /\ s.path = Parent(dst)
  PROVE  \A n \in Renamed(u, src, dst) : Parented(n, file \union Renamed(u, src, dst))
<1>1. src \in Path \ {<<>>} /\ dst \in Path \ {<<>>} /\ dst[1] = Slash /\ src[1] = Slash
  BY GoodIs
<1> SUFFICES ASSUME NEW t \in file, t.user = u, Matches(t.path, src),
                    NEW n, n = [t EXCEPT !.path = Replace(t.path, src, dst)]
             PROVE  \E s \in file \union Renamed(u, src, dst) :
                      s.user = n.user /\ s.path = Parent(n.path)
  BY DEF Renamed, Selected, Parented
<1>2. /\ t.path \in Path /\ n.user = u /\ n.path = Replace(t.path, src, dst) /\ t.path[1] = Slash
  BY GoodIs DEF TypeOK, Path, GoodInv
<1>3. CASE t.path = src
  <2>1. n.path = dst
    BY <1>1, <1>2, <1>3, ReplaceSelf
  <2> QED
    BY <1>2, <2>1
<1>4. CASE t.path # src
  <2>1. IsFolder(src) /\ IsFolder(dst)
    BY <1>4 DEF Matches
  <2>2. Under(t.path, src)
    BY <1>2, <2>1, MatchesUnder
  <2>3. t.path # Root
    <3>1. Good(t.path)
      BY DEF GoodInv
    <3>2. Len(t.path) \in Nat /\ Len(src) \in Nat /\ Len(src) > 0
      BY <1>1, <1>2 DEF Path
    <3>3. t.path = Root => Len(t.path) = 1
      BY DEF Root
    <3>6. Len(src) <= Len(t.path)
      BY <2>2 DEF Under
    <3>7. \A i, j \in Nat : i > 0 /\ i <= j /\ j = 1 => i = j
      OBVIOUS
    <3>4. Len(t.path) = 1 => Len(src) = Len(t.path)
      BY <3>2, <3>6, <3>7, Zenon
    <3>5. Len(src) = Len(t.path) => src = t.path
      BY <1>1, <1>2, <2>2, SeqEqual DEF Under, Path
    <3> QED
      BY <1>4, <3>3, <3>4, <3>5
  <2>4. PICK s \in file : s.user = u /\ s.path = Parent(t.path)
    BY <2>3 DEF Reachable
  <2>5. Parent(t.path) \in Path /\ Under(Parent(t.path), src)
    BY <1>1, <1>2, <1>4, <2>1, <2>2, ParentUnder
  <2>6. Matches(s.path, src)
    BY <2>1, <2>4, <2>5, MatchesUnder
  <2> DEFINE m == [s EXCEPT !.path = Replace(s.path, src, dst)]
  <2>7. m \in Renamed(u, src, dst)
    BY <2>4, <2>6 DEF Renamed, Selected
  <2>8. m.user = u /\ m.path = Replace(Parent(t.path), src, dst)
    BY <2>4 DEF TypeOK
  <2>9. Parent(n.path) = Replace(Parent(t.path), src, dst)
    BY <1>1, <1>2, <1>4, <2>1, <2>2, ParentMoves
  <2> HIDE DEF m
  <2> QED
    BY <1>2, <2>7, <2>8, <2>9
<1> QED
  BY <1>3, <1>4

\* A step of p takes nothing from a user whose copy or move is under way.
LEMMA OthersKeep ==
  ASSUME MoveInv, Sequential, NEW p \in Procs, Continue(p) \/ \E r \in Requests : Begin(p, r),
         NEW q \in Procs, q # p, pc[q] = "insert"
  PROVE  \A s \in file : s.user = req[q].user => s \in file'
<1>1. AloneInv /\ StageInv
  BY DEF MoveInv, TableInv
<1>2. ASSUME NEW r \in Requests, DelFile(p, r) PROVE r.user # req[q].user /\ file' = file \ Selected(r.user, r.src)
  BY <1>1, <1>2 DEF DelFile, Take, StageInv
<1>3. DeleteOld(p) => /\ req[p].user # req[q].user
                      /\ file' = file \ Selected(req[p].user, req[p].src)
  BY <1>1 DEF DeleteOld, AloneInv, StageInv
<1> QED
  BY <1>2, <1>3, RowsStep DEF Selected

LEMMA ReachStep ==
  ASSUME Sequential, Sensible, Plain, Shaped, MoveInv, GoodInv, Reachable, TargetInv, [Next]_vars
  PROVE  Reachable' /\ TargetInv'
<1>1. CASE UNCHANGED vars
  BY <1>1 DEF vars, locals, Reachable, TargetInv
<1>2. ASSUME NEW p \in Procs, Continue(p) \/ \E r \in Requests : Begin(p, r)
      PROVE  Reachable' /\ TargetInv'
  <2>1. TypeOK /\ LocalTypes /\ StageInv /\ ReadInv
    BY TypeParts DEF MoveInv, TableInv
  <2>2. TargetInv'
    <3> SUFFICES ASSUME NEW q \in Procs, pc'[q] = "insert"
                 PROVE  \E s \in file' : s.user = req'[q].user /\ s.path = Parent(req'[q].dst)
      BY DEF TargetInv
    <3>1. CASE q = p
      <4>1. PICK op \in {"copy", "move"}, r \in Requests : Take(p, op, r) /\ req'[p] = r /\ file' = file
        BY <1>2, <2>1, <3>1, GotStep
      <4> QED
        BY <3>1, <4>1 DEF Take, Reasonable
    <3>2. CASE q # p
      <4>1. pc[q] = "insert" /\ req'[q] = req[q]
        BY <1>2, <2>1, <3>2, GotStep
      <4>2. PICK s \in file : s.user = req[q].user /\ s.path = Parent(req[q].dst)
        BY <4>1 DEF TargetInv
      <4> QED
        BY <1>2, <3>2, <4>1, <4>2, OthersKeep
    <3> QED
      BY <3>1, <3>2
  <2>3. Reachable'
    <3>2. CASE file' = file
      BY <3>2 DEF Reachable
    <3>3. CASE file' = file \union {Row(req[p].user, Root, NULL)}
      BY <3>3, ReachInsertRow, Zenon
    <3>4. ASSUME NEW r \in Requests, AddFile(p, r), file' = file \union {Row(r.user, r.src, r.md5)}
          PROVE  Reachable'
      <4>1. r.op = "add" /\ Reasonable(r)
        BY <3>4 DEF AddFile, Take
      <4>2. \E s \in file : s.user = r.user /\ s.path = Parent(r.src)
        BY <4>1 DEF Reasonable
      <4> QED
        BY <3>4, <4>2, ReachInsertRow, Zenon
    <3>5. ASSUME NEW r \in Requests, DelFile(p, r) PROVE Reachable'
      <4>1. Good(r.src) /\ file' = file \ Selected(r.user, r.src)
        BY <3>5 DEF Shaped, DelFile
      <4> QED
        BY <4>1, ReachDelete
    <3>6. ASSUME InsertRows(p), file' = file \union got[p] PROVE Reachable'
      <4>1. /\ pc[p] = "insert" /\ req[p] \in Requests /\ req[p].op \in {"copy", "move"}
            /\ got[p] = Renamed(req[p].user, req[p].src, req[p].dst)
        BY <2>1, <3>6 DEF InsertRows, TypeOK, StageInv, ReadInv
      <4>2. /\ Good(req[p].src) /\ Good(req[p].dst)
            /\ IsFolder(req[p].src) => IsFolder(req[p].dst)
            /\ \E s \in file : s.user = req[p].user /\ s.path = Parent(req[p].dst)
        BY <4>1 DEF Shaped, Plain, TargetInv
      <4>3. \A n \in got[p] : Parented(n, file \union got[p])
        BY <2>1, <4>1, <4>2, CopyParented, Zenon
      <4> QED
        BY <3>6, <4>3, ReachInsert
    <3>7. ASSUME DeleteOld(p) PROVE Reachable'
      <4>1. /\ Good(req[p].src) /\ file' = file \ Selected(req[p].user, req[p].src)
        BY <2>1, <3>7 DEF Shaped, DeleteOld, TypeOK
      <4> QED
        BY <4>1, ReachDelete
    <3> QED
      BY <1>2, <3>2, <3>3, <3>4, <3>5, <3>6, <3>7, RowsStep
  <2> QED
    BY <2>2, <2>3
<1> QED
  BY <1>1, <1>2 DEF Next

\* Reachable: the list of a folder leads to every row, when users do one thing
\* at a time, inside folders that are there (DelFile and the statements of
\* Copy_File_Info and Update_File_Info take a folder with all below it,
\* DB_Operate.cpp:356-518).
THEOREM RowsAreReachable ==
  Sequential /\ Sensible /\ Apart /\ Plain /\ Shaped => (Spec => []Reachable)
<1> SUFFICES ASSUME Sequential, Sensible, Apart, Plain, Shaped PROVE Spec => []Reachable
  OBVIOUS
<1>1. Init => Reachable /\ TargetInv
  BY DEF Init, Reachable, TargetInv
<1>2. MoveInv /\ GoodInv /\ Reachable /\ TargetInv /\ [Next]_vars => (Reachable /\ TargetInv)'
  BY ReachStep
<1>3. Spec => []MoveInv
  BY MoveInvariance
<1>4. Spec => []GoodInv
  BY GoodInvariance
<1> QED
  BY <1>1, <1>2, <1>3, <1>4, PTL DEF Spec
-----------------------------------------------------------------------------
(* The two lists of a folder *)

LEMMA PrefixUnder ==
  ASSUME NEW p \in Path, NEW folder \in Path
  PROVE  IsPrefix(folder, p) <=> Under(p, folder)
<1>0. Len(p) \in Nat /\ Len(folder) \in Nat
  BY DEF Path
<1>1. ASSUME Len(folder) <= Len(p)
      PROVE  SubSeq(folder, 1, Len(folder)) = SubSeq(p, 1, Len(folder))
             <=> \A i \in 1 .. Len(folder) : p[i] = folder[i]
  <2>1. /\ SubSeq(folder, 1, Len(folder)) \in Path /\ SubSeq(p, 1, Len(folder)) \in Path
        /\ Len(SubSeq(folder, 1, Len(folder))) = Len(folder)
        /\ Len(SubSeq(p, 1, Len(folder))) = Len(folder)
        /\ \A i \in 1 .. Len(folder) : /\ SubSeq(folder, 1, Len(folder))[i] = folder[i]
                                       /\ SubSeq(p, 1, Len(folder))[i] = p[i]
    BY <1>0, <1>1 DEF Path
  <2> DEFINE a == SubSeq(folder, 1, Len(folder))
             b == SubSeq(p, 1, Len(folder))
  <2> HIDE DEF a, b
  <2>2. a = b <=> \A i \in 1 .. Len(folder) : a[i] = b[i]
    BY <1>0, <2>1, SeqEqual DEF Path, a, b
  <2> QED
    BY <2>1, <2>2 DEF a, b
<1> QED
  BY <1>1 DEF IsPrefix, Under

\* What remains of a path below a folder.
LEMMA RestIs ==
  ASSUME NEW p \in Path, NEW folder \in Path, Len(folder) < Len(p)
  PROVE  /\ Head(Rest(p, folder)) = p[Len(folder) + 1]
         /\ Slash \in Range(Rest(p, folder)) <=>
              \E i \in Len(folder) + 1 .. Len(p) : p[i] = Slash
         /\ Slash \in Range(Front(Rest(p, folder))) <=>
              \E i \in Len(folder) + 1 .. Len(p) - 1 : p[i] = Slash
<1>0. Len(p) \in Nat /\ Len(folder) \in Nat
  BY DEF Path
<1> DEFINE n == Len(p) - Len(folder)
<1>1. PICK t \in Path : /\ t = Rest(p, folder) /\ Len(t) = n
                        /\ \A i \in 1 .. n : t[i] = p[Len(folder) + i]
  <2>1. /\ Rest(p, folder) \in Path /\ Len(Rest(p, folder)) = n
        /\ \A i \in 1 .. n : Rest(p, folder)[i] = p[Len(folder) + i]
    BY <1>0 DEF Path, Rest
  <2> QED
    BY <2>1, Zenon
<1>2. PICK u \in Path : /\ u = Front(t) /\ Len(u) = n - 1
                        /\ \A i \in 1 .. n - 1 : u[i] = t[i]
  <2>1. /\ Front(t) \in Path /\ Len(Front(t)) = n - 1
        /\ \A i \in 1 .. n - 1 : Front(t)[i] = t[i]
    BY <1>0, <1>1 DEF Path, Front
  <2> QED
    BY <2>1, Zenon
<1>3. Head(t) = p[Len(folder) + 1]
  BY <1>0, <1>1 DEF Path
<1>4. Slash \in Range(t) <=> \E i \in 1 .. n : p[Len(folder) + i] = Slash
  <2>1. DOMAIN t = 1 .. n
    BY <1>1 DEF Path
  <2> QED
    BY <1>1, <2>1 DEF Range
<1>5. Slash \in Range(u) <=> \E i \in 1 .. n - 1 : p[Len(folder) + i] = Slash
  <2>1. \A i \in 1 .. n - 1 : u[i] = p[Len(folder) + i]
    BY <1>0, <1>1, <1>2
  <2>2. DOMAIN u = 1 .. n - 1
    BY <1>2 DEF Path
  <2> QED
    BY <2>1, <2>2 DEF Range
<1>6. \A m \in Int : (\E i \in 1 .. m : p[Len(folder) + i] = Slash)
                     <=> \E i \in Len(folder) + 1 .. Len(folder) + m : p[i] = Slash
  <2>1. ASSUME NEW m \in Int, NEW i \in 1 .. m, p[Len(folder) + i] = Slash
        PROVE  \E j \in Len(folder) + 1 .. Len(folder) + m : p[j] = Slash
    <3>1. Len(folder) + i \in Len(folder) + 1 .. Len(folder) + m
      BY <1>0
    <3> QED
      BY <2>1, <3>1
  <2>2. ASSUME NEW m \in Int, NEW i \in Len(folder) + 1 .. Len(folder) + m, p[i] = Slash
        PROVE  \E j \in 1 .. m : p[Len(folder) + j] = Slash
    <3>1. i - Len(folder) \in 1 .. m /\ Len(folder) + (i - Len(folder)) = i
      BY <1>0
    <3>2. p[Len(folder) + (i - Len(folder))] = Slash
      BY <2>2, <3>1
    <3> QED
      BY <3>1, <3>2, Zenon
  <2> QED
    BY <2>1, <2>2
<1>7. n \in Int /\ n - 1 \in Int /\ Len(folder) + n = Len(p) /\ Len(folder) + (n - 1) = Len(p) - 1
  BY <1>0
<1> HIDE DEF n
<1>8. /\ (\E i \in 1 .. n : p[Len(folder) + i] = Slash)
           <=> \E i \in Len(folder) + 1 .. Len(p) : p[i] = Slash
      /\ (\E i \in 1 .. n - 1 : p[Len(folder) + i] = Slash)
           <=> \E i \in Len(folder) + 1 .. Len(p) - 1 : p[i] = Slash
  BY <1>6, <1>7
<1> QED
  BY <1>1, <1>2, <1>3, <1>4, <1>5, <1>8, Zenon

\* A row below a folder, of a name in it that stands for a folder.
Within(r, f, name) ==
  /\ r \in file /\ r.user = f.user /\ Under(r.path, f.path) /\ r.path # f.path
  /\ r.path[Len(f.path) + 1] = name
  /\ \E i \in Len(f.path) + 1 .. Len(r.path) : r.path[i] = Slash

LEMMA WithinParent ==
  ASSUME TypeOK, GoodInv, Reachable, NEW f \in file, IsFolder(f.path), NEW name,
         NEW r, Within(r, f, name),
         NEW i \in Len(f.path) + 1 .. Len(r.path) - 1, r.path[i] = Slash
  PROVE  \E s : Within(s, f, name) /\ Len(s.path) < Len(r.path)
<1>1. /\ r.path \in Path /\ f.path \in Path \ {<<>>} /\ r.path[1] = Slash /\ r \in file
      /\ Len(r.path) \in Nat /\ Len(f.path) \in Nat /\ Len(f.path) > 0 /\ Under(r.path, f.path)
  <2>1. r \in file /\ Under(r.path, f.path)
    BY DEF Within
  <2>2. Good(r.path) /\ Good(f.path)
    BY <2>1 DEF GoodInv
  <2> QED
    BY <2>1, <2>2, GoodIs
<1>2. Len(r.path) > 1
  BY <1>1
<1>3. PICK k \in 1 .. Len(r.path) - 1 : Cut(r.path, k)
  BY <1>1, <1>2, CutExists
<1>4. i <= k
  BY <1>1, <1>3 DEF Cut
<1>5. Parent(r.path) = SubSeq(r.path, 1, k)
  BY <1>1, <1>3, ParentIs
<1>6. r.path # Root
  <2>1. r.path = Root => Len(r.path) = 1
    BY DEF Root
  <2>2. \A n : n = 1 => ~ (n > 1)
    OBVIOUS
  <2> QED
    BY <1>2, <2>1, <2>2, Zenon
<1>7. PICK s \in file : s.user = r.user /\ s.path = Parent(r.path)
  BY <1>1, <1>6 DEF Reachable
<1>8. /\ s.path \in Path /\ Len(s.path) = k /\ \A j \in 1 .. k : s.path[j] = r.path[j]
  BY <1>1, <1>3, <1>5, <1>7 DEF Path
<1>9. Len(f.path) + 1 \in 1 .. k /\ Len(f.path) < k
  BY <1>1, <1>3, <1>4
<1>10. s.user = f.user /\ s.path[Len(f.path) + 1] = name
  BY <1>7, <1>8, <1>9 DEF Within
<1>11. Under(s.path, f.path)
  BY <1>1, <1>8, <1>9 DEF Under
<1>12. s.path # f.path
  BY <1>1, <1>8, <1>9
<1>13. k \in Len(f.path) + 1 .. Len(s.path) /\ s.path[k] = Slash
  BY <1>1, <1>3, <1>8, <1>9 DEF Cut
<1>14. Within(s, f, name)
  BY <1>10, <1>11, <1>12, <1>13 DEF Within
<1> QED
  BY <1>1, <1>3, <1>8, <1>14

\* Of a name that stands for a folder there is a row that the server lists.
LEMMA WithinListed ==
  ASSUME TypeOK, GoodInv, Reachable, NEW f \in file, IsFolder(f.path), NEW name,
         NEW r, Within(r, f, name)
  PROVE  \E s : /\ Within(s, f, name)
                /\ \A i \in Len(f.path) + 1 .. Len(s.path) - 1 : s.path[i] # Slash
<1> DEFINE T == {Len(s.path) : s \in {t \in file : Within(t, f, name)}}
<1>1. T \in SUBSET Nat
  BY DEF TypeOK, Path
<1>2. Len(r.path) \in T
  BY DEF Within
<1>3. PICK n \in T : \A m \in T : n <= m
  BY <1>1, <1>2, LeastNumber, Zenon
<1>4. PICK s \in file : Within(s, f, name) /\ n = Len(s.path)
  BY <1>3
<1>5. \A t : Within(t, f, name) => Len(t.path) \in T
  BY DEF Within
<1>6. n \in Nat /\ \A t : Within(t, f, name) => Len(t.path) \in Nat /\ n <= Len(t.path)
  BY <1>1, <1>3, <1>5
<1> HIDE DEF T
<1>7. ASSUME NEW i \in Len(f.path) + 1 .. Len(s.path) - 1, s.path[i] = Slash PROVE FALSE
  <2>1. PICK t : Within(t, f, name) /\ Len(t.path) < Len(s.path)
    BY <1>4, <1>7, WithinParent
  <2> QED
    BY <1>4, <1>6, <2>1
<1> QED
  BY <1>4, <1>7

\* ListingsAgree in every reachable state: getFileList and the web driver show
\* the same names in a folder (DB_Operate.cpp:299-352, utils.py buildTree).
THEOREM ListingsAlike == Shaped => (Spec => []ListingsAgree)
<1> SUFFICES ASSUME Shaped PROVE Spec => []ListingsAgree
  OBVIOUS
<1>1. TypeOK /\ GoodInv => ListingsAgree
  <2> SUFFICES ASSUME TypeOK, GoodInv, Reachable, NEW f \in file, IsFolder(f.path)
               PROVE  {<<Head(c), Slash \in Range(c)>> : c \in
                         FindFileList({s.path : s \in Selected(f.user, f.path)}, f.path)}
                      = BuildTree({s.path : s \in {r \in file : r.user = f.user}}, f.path)
    BY DEF ListingsAgree
  <2> DEFINE folder == f.path
             mine == {s.path : s \in {r \in file : r.user = f.user}}
             chosen == {s.path : s \in Selected(f.user, f.path)}
             Entry(p) == <<Head(Rest(p, folder)), Slash \in Range(Rest(p, folder))>>
             Shown(p) == Slash \notin Range(Front(Rest(p, folder)))
             tree == {q \in mine : IsPrefix(folder, q) /\ q # folder}
             list == {q \in chosen : IsPrefix(folder, q) /\ q # folder /\ Shown(q)}
  <2>1. folder \in Path \ {<<>>} /\ Good(folder) /\ \A p \in mine : p \in Path
    BY GoodIs DEF GoodInv, TypeOK, Path
  <2>2. chosen \subseteq mine /\ \A p \in mine : IsPrefix(folder, p) => p \in chosen
    <3>1. \A r \in file : r.path \in Path
      BY DEF TypeOK, Path
    <3>2. \A r \in file : IsPrefix(folder, r.path) => Matches(r.path, folder)
      BY <2>1, <3>1, PrefixUnder, MatchesUnder
    <3> QED
      BY <3>2 DEF Selected
  <2>3. ASSUME NEW p \in tree PROVE \E q \in list : Entry(q) = Entry(p)
    <3>1. p \in mine /\ p \in Path /\ IsPrefix(folder, p) /\ p # folder
      BY <2>1
    <3>2. Under(p, folder) /\ Len(folder) < Len(p)
      <4>1. Under(p, folder)
        BY <2>1, <3>1, PrefixUnder
      <4> QED
        BY <2>1, <3>1, <4>1, SeqEqual DEF Under, Path
    <3>3. CASE Shown(p)
      BY <2>2, <3>1, <3>3
    <3>4. CASE ~Shown(p)
      <4>1. PICK r \in file : r.user = f.user /\ r.path = p
        BY <3>1
      <4>2. \E i \in Len(folder) + 1 .. Len(p) - 1 : p[i] = Slash
        BY <2>1, <3>1, <3>2, <3>4, RestIs
      <4>3. \E i \in Len(folder) + 1 .. Len(p) : p[i] = Slash
        BY <2>1, <3>1, <4>2 DEF Path
      <4> DEFINE name == p[Len(folder) + 1]
      <4>4. Within(r, f, name)
        BY <3>1, <3>2, <4>1, <4>3 DEF Within
      <4> HIDE DEF name
      <4>5. PICK s : /\ Within(s, f, name)
                     /\ \A i \in Len(folder) + 1 .. Len(s.path) - 1 : s.path[i] # Slash
        BY <4>4, WithinListed
      <4>6. /\ s.path \in mine /\ s.path \in Path /\ Under(s.path, folder) /\ s.path # folder
            /\ s.path[Len(folder) + 1] = name
            /\ \E i \in Len(folder) + 1 .. Len(s.path) : s.path[i] = Slash
        BY <2>1, <4>5 DEF Within
      <4>7. Len(folder) < Len(s.path) /\ IsPrefix(folder, s.path)
        <5>1. IsPrefix(folder, s.path)
          BY <2>1, <4>6, PrefixUnder
        <5> QED
          BY <2>1, <4>6, <5>1, SeqEqual DEF Under, Path
      <4>8. Shown(s.path) /\ Head(Rest(s.path, folder)) = name /\ Slash \in Range(Rest(s.path, folder))
        BY <2>1, <4>5, <4>6, <4>7, RestIs
      <4>9. Head(Rest(p, folder)) = name /\ Slash \in Range(Rest(p, folder))
        BY <2>1, <3>1, <3>2, <4>3, RestIs DEF name
      <4>10. s.path \in list
        BY <2>2, <4>6, <4>7, <4>8
      <4>11. Entry(s.path) = Entry(p)
        BY <4>8, <4>9
      <4> QED
        BY <4>10, <4>11
    <3> QED
      BY <3>3, <3>4
  <2>4. list \subseteq tree
    BY <2>2
  <2>5. /\ FindFileList(chosen, folder) = {Rest(p, folder) : p \in list}
        /\ BuildTree(mine, folder) = {Entry(p) : p \in tree}
    BY DEF FindFileList, BuildTree
  <2>6. {<<Head(c), Slash \in Range(c)>> : c \in {Rest(p, folder) : p \in list}}
        = {Entry(p) : p \in list}
    OBVIOUS
  <2>7. {Entry(p) : p \in list} = {Entry(p) : p \in tree}
    <3> HIDE DEF Entry, list, tree
    <3> QED
      BY <2>3, <2>4
  <2> QED
    BY <2>5, <2>6, <2>7
<1> QED
  BY <1>1, TypeCorrect, GoodInvariance, PTL
=============================================================================
