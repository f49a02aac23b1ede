------------------------------- MODULE Paths -------------------------------
(***************************************************************************)
(* Virtual paths, and the two programs that list a folder of table file:   *)
(* DB_Operate::Find_File_List of the C++ server and buildTree of the web   *)
(* driver.  A path is a sequence of tokens, "/" being one of them; names   *)
(* are single tokens.  A path that ends with "/" is a folder's.            *)
(***************************************************************************)
EXTENDS Naturals, FiniteSets, Sequences, SequencesExt, FiniteSetsExt

Slash == "/"
Root == <<Slash>>

IsFolder(path) == Last(path) = Slash

\* Names made of a character that GBK, the encoding of the tables and of the
\* connection, writes in two bytes; the others take one.
Wide == {"w"}
Bytes(path) == Len(path) + Cardinality({i \in DOMAIN path : path[i] \in Wide})

Mutant_Matches(p, path) == p = path

\* The rows a statement of DB_Operate selects for path: virtualpath = path, or
\* left(virtualpath, n) = path for a folder's.  n is path.size(), its bytes,
\* where left counts characters.
Matches(p, path) ==
  IF IsFolder(path) THEN SubSeq(p, 1, Min({Len(p), Bytes(path)})) = path ELSE p = path

\* virtualpath LIKE 'path%': "_" stands for any one token.
Wildcard == "_"
Like(p, path) == /\ Len(path) <= Len(p)
                 /\ \A i \in DOMAIN path : path[i] \in {p[i], Wildcard}

\* Virtual_Path.replace(0, n, Aim_Path), n being the length of src.
Replace(p, src, dst) == dst \o SubSeq(p, Len(src) + 1, Len(p))

Rest(p, folder) == SubSeq(p, Len(folder) + 1, Len(p))

Mutant_FindFileList(paths, folder) ==
  {Rest(p, folder) : p \in {q \in paths :
      /\ IsPrefix(folder, q) /\ q # folder
      /\ Slash \notin Range(Rest(q, folder))}}

\* DB_Operate::Find_File_List: what remains of the paths that are longer than
\* the folder's and have no "/" after it, but perhaps at the end.
FindFileList(paths, folder) ==
  {Rest(p, folder) : p \in {q \in paths :
      /\ IsPrefix(folder, q) /\ q # folder
      /\ Slash \notin Range(Front(Rest(q, folder)))}}

\* utils.buildTree: <<name, is it a folder?>> for the folder visit.  A path
\* that goes on after its first name stands for a folder of that name.
BuildTree(paths, visit) ==
  {<<Head(Rest(p, visit)), Slash \in Range(Rest(p, visit))>> :
      p \in {q \in paths : IsPrefix(visit, q) /\ q # visit}}

\* The folder a path lies in.
Parent(p) ==
  LET body == IF IsFolder(p) THEN Front(p) ELSE p
      cut == CHOOSE i \in DOMAIN body :
               /\ body[i] = Slash
               /\ \A j \in i + 1 .. Len(body) : body[j] # Slash
  IN SubSeq(body, 1, cut)
=============================================================================
