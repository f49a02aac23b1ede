-------------------------- MODULE DatagramCollector --------------------------
(***************************************************************************)
(* The collectors over UDP in Pre-Project.  W0802-test4 keeps its records  *)
(* in arrays and tells all clients "end" when the last string has come;    *)
(* W0902-test4 keeps them in a map and tells each at once.  Both know a    *)
(* client by its port alone, and a field by its length.  A client sends    *)
(* its process id and the time, waits for a length, sends a string, and    *)
(* waits again; nothing is ever sent twice by the programs.  A field is    *)
(* named by the client it is of.                                           *)
(***************************************************************************)
EXTENDS Integers, Sequences, FiniteSets, SequencesExt

CONSTANTS
  Clients,
  Port,       \* the port of each; clients on two hosts may have the same
  InMap,      \* is it W0902-test4?
  Ordered,    \* does the network keep the order?
  Lossy,      \* does it lose or repeat datagrams?
  MaxRepeats, \* datagrams the network repeats: a bound
  None

\* Assumed of the constants.
DatagramAssumption == /\ IsFiniteSet(Clients) /\ DOMAIN Port = Clients /\ MaxRepeats \in Nat
                      /\ {InMap, Ordered, Lossy} \subseteq BOOLEAN

VARIABLES
  cpc,       \* what a client does next
  net,       \* its datagrams on the way to the server
  words,     \* the server's on the way to it
  repeats,   \* datagrams repeated so far
  rows,      \* the records, in the order of their ports' first datagrams
  finish,    \* strings received
  spc,       \* "recv", "end", "exit", "crash"
  table      \* the records inserted

vars == <<cpc, net, words, repeats, rows, finish, spc, table>>

process == Cardinality(Clients)  \* as many clients as the server waits for

Init == /\ cpc = [c \in Clients |-> "pid"]
        /\ net = [c \in Clients |-> <<>>] /\ words = net
        /\ repeats = 0 /\ rows = <<>> /\ finish = 0 /\ spc = "recv" /\ table = {}

-----------------------------------------------------------------------------
(* The client *)

SendField(c) ==
  LET After == [pid |-> "time", time |-> "length", str |-> "end"]
  IN /\ cpc[c] \in DOMAIN After
     /\ net' = [net EXCEPT ![c] = Append(@, cpc[c])]
     /\ cpc' = [cpc EXCEPT ![c] = After[@]]
     /\ UNCHANGED <<repeats, words, rows, finish, spc, table>>

\* Whatever arrives is taken for what it waits for.
Hear(c) == /\ cpc[c] \in {"length", "end"}
           /\ \E i \in DOMAIN words[c] :
                /\ Ordered => i = 1
                /\ words' = [words EXCEPT ![c] = RemoveAt(@, i)]
           /\ cpc' = [cpc EXCEPT ![c] = IF @ = "length" THEN "str" ELSE "done"]
           /\ UNCHANGED <<repeats, net, rows, finish, spc, table>>

\* W0902-test4 ends when recvfrom gives an error, which a word too long for it
\* (a second "str") or a port already closed does: not on a good network.
Errs(c) == /\ InMap /\ Lossy /\ cpc[c] \in {"length", "end"}
           /\ cpc' = [cpc EXCEPT ![c] = "failed"]
           /\ UNCHANGED <<repeats, net, words, rows, finish, spc, table>>

-----------------------------------------------------------------------------
(* The network *)

Lose == /\ Lossy
        /\ \E c \in Clients :
             \/ \E i \in DOMAIN net[c] : net' = [net EXCEPT ![c] = RemoveAt(@, i)] /\ UNCHANGED words
             \/ \E i \in DOMAIN words[c] : words' = [words EXCEPT ![c] = RemoveAt(@, i)] /\ UNCHANGED net
        /\ UNCHANGED <<repeats, cpc, rows, finish, spc, table>>

Repeat == /\ Lossy /\ repeats < MaxRepeats
          /\ repeats' = repeats + 1
          /\ \E c \in Clients : \E i \in DOMAIN net[c] :
               net' = [net EXCEPT ![c] = Append(@, @[i])]
          /\ UNCHANGED <<cpc, words, rows, finish, spc, table>>

-----------------------------------------------------------------------------
(* The server *)

Mutant_Find(port) == IF rows = <<>> THEN 0 ELSE 1

\* The place of a port, 0 without one.
Find(port) == SelectInSeq(rows, LAMBDA row : row.port = port)

Row(c) == [port |-> Port[c], addr |-> c, pid |-> None, time |-> None, str |-> None]

\* The next datagram of a client.
Taken(c, i) == /\ i \in DOMAIN net[c] /\ (Ordered => i = 1)
               /\ spc = "recv" /\ net' = [net EXCEPT ![c] = RemoveAt(@, i)]

Mutant_Finished == finish + 1 >= process

Finished == finish >= process

\* W0802-test4: any field makes the record; a time is answered with a length.
RecvArray(c) ==
  \E i \in DOMAIN net[c] :
    LET field == net[c][i]
        found == IF Find(Port[c]) = 0 THEN Append(rows, Row(c)) ELSE rows
        at == IF Find(Port[c]) = 0 THEN Len(found) ELSE Find(Port[c])
    IN /\ ~InMap /\ Taken(c, i)
       /\ rows' = [found EXCEPT ![at][field] = c]
       /\ words' = IF field = "time" THEN [words EXCEPT ![c] = Append(@, "str")] ELSE words
       /\ finish' = IF field = "str" THEN finish + 1 ELSE finish
       /\ spc' = IF Finished' THEN "end" ELSE "recv"
       /\ UNCHANGED <<repeats, cpc, table>>

Unset == [port |-> None, addr |-> None, pid |-> None, time |-> None, str |-> None]

\* The ends, to the address each record began with, and one row per slot: also
\* the slots of clients that were never heard.
EndArray == /\ ~InMap /\ spc = "end"
            /\ words' = [c \in Clients |-> IF \E i \in DOMAIN rows : rows[i].addr = c
                                           THEN Append(words[c], "end") ELSE words[c]]
            /\ table' = ToSet(rows) \union (IF Len(rows) < process THEN {Unset} ELSE {})
            /\ spc' = "exit"
            /\ UNCHANGED <<repeats, cpc, net, rows, finish>>

Mutant_NewData(c) == Append(rows, [Row(c) EXCEPT !.pid = c])

\* A process id makes a record, in place of one that was there.
NewData(c) == IF Find(Port[c]) = 0 THEN Append(rows, [Row(c) EXCEPT !.pid = c])
              ELSE [rows EXCEPT ![Find(Port[c])] = [Row(c) EXCEPT !.pid = c]]

\* W0902-test4: the other fields look the record up, and follow a null pointer
\* when there is none; a string is answered with "end".
RecvMap(c) ==
  \E i \in DOMAIN net[c] :
    LET field == net[c][i]
    IN /\ InMap /\ Taken(c, i)
       /\ IF field # "pid" /\ Find(Port[c]) = 0
          THEN spc' = "crash" /\ UNCHANGED <<rows, words, finish>>
          ELSE /\ rows' = IF field = "pid" THEN NewData(c)
                          ELSE [rows EXCEPT ![Find(Port[c])][field] = c]
               /\ words' = CASE field = "pid" -> words
                             [] field = "time" -> [words EXCEPT ![c] = Append(@, "str")]
                             [] field = "str" -> [words EXCEPT ![c] = Append(@, "end")]
               /\ finish' = IF field = "str" THEN finish + 1 ELSE finish
               /\ spc' = IF Finished' THEN "end" ELSE "recv"
       /\ UNCHANGED <<repeats, cpc, table>>

EndMap == /\ InMap /\ spc = "end"
          /\ table' = ToSet(rows) /\ spc' = "exit"
          /\ UNCHANGED <<repeats, cpc, net, words, rows, finish>>

\* Its recvfrom gives an error too, for an "end" to a client that has gone.
ErrMap == /\ InMap /\ Lossy /\ spc = "recv"
          /\ spc' = "crash"
          /\ UNCHANGED <<repeats, cpc, net, words, rows, finish, table>>

-----------------------------------------------------------------------------
Client(c) == SendField(c) \/ Hear(c)
Server == EndArray \/ EndMap \/ \E c \in Clients : RecvArray(c) \/ RecvMap(c)

Next == Server \/ ErrMap \/ Lose \/ Repeat \/ \E c \in Clients : Client(c) \/ Errs(c)

Spec == Init /\ [][Next]_vars

-----------------------------------------------------------------------------
(* Properties *)

Complete(c) == [Row(c) EXCEPT !.pid = c, !.time = c, !.str = c]

\* On a network that loses nothing and keeps the order, the server stores the
\* whole record of every client, and nothing else.
StoresAll == spc = "exit" => table = {Complete(c) : c \in Clients}

\* What becomes true on such a network: every client is told to end, and the
\* server has stored.
Collected == spc = "exit" /\ \A c \in Clients : cpc[c] = "done"

\* Whatever is lost, repeated or reordered, no record mixes the fields of two
\* clients, as long as no two have the same port.
NoMixing == \A i \in DOMAIN rows : {rows[i].pid, rows[i].time, rows[i].str} \subseteq {rows[i].addr, None}

\* No client has two records.
OneRecord == \A i, j \in DOMAIN rows : rows[i].port = rows[j].port => i = j

\* The server outlives a network that keeps the order and loses nothing.
NoCrash == spc # "crash"

\* No two clients have the same port.
OwnPorts == \A c, d \in Clients : Port[c] = Port[d] => c = d

\* The server's records are as right as the ports and the network allow.
DatagramsAreRight ==
  /\ OneRecord
  /\ OwnPorts => NoMixing
  /\ (OwnPorts /\ Ordered /\ ~Lossy) => StoresAll /\ NoCrash
==============================================================================
