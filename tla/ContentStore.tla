---------------------------- MODULE ContentStore ----------------------------
(***************************************************************************)
(* What the upload service promises about stored contents, whatever the    *)
(* number of connections: a content (named by its MD5) is absent, being    *)
(* uploaded, or stored for good, and a user's path is linked only to a     *)
(* content that is stored.  The three values are those the comment of      *)
(* Query_Md5_Statu names ("have, uploading, none", DB_Operate.h:36).       *)
(***************************************************************************)
CONSTANTS Files,    \* contents, each named by its MD5
          Keys,     \* (user, virtual path) pairs, the key of table file
          NoFile    \* the value of a path that has no row

VARIABLES store,    \* store[f]: what the service holds of content f
          links     \* links[k]: the content that path k names

vars == <<store, links>>

Init == /\ store = [f \in Files |-> "absent"]
        /\ links = [k \in Keys |-> NoFile]

\* The first request for a content the service does not have.
Begin(f) == /\ store[f] = "absent"
            /\ store' = [store EXCEPT ![f] = "uploading"]
            /\ UNCHANGED links

\* Every block has arrived and the whole content is in place.
Finish(f) == /\ store[f] = "uploading"
             /\ store' = [store EXCEPT ![f] = "stored"]
             /\ UNCHANGED links

\* A free path is given a stored content.
Link(k, f) == /\ store[f] = "stored"
              /\ links[k] = NoFile
              /\ links' = [links EXCEPT ![k] = f]
              /\ UNCHANGED store

Next == \E f \in Files : \/ Begin(f)
                         \/ Finish(f)
                         \/ \E k \in Keys : Link(k, f)

Spec == Init /\ [][Next]_vars
=============================================================================
