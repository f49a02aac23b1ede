------------------------------ MODULE Collector ------------------------------
(***************************************************************************)
(* Pre-Project/test3: one server with a select loop collects a record of   *)
(* every client: its process id, the time, and a string of a length the    *)
(* server tells it.  The stream of a client is modelled by positions: rec  *)
(* keeps from where, and how much, the server took for each field.  Short  *)
(* sends arrive in one piece, the string in any pieces.                    *)
(***************************************************************************)
EXTENDS Integers, FiniteSets, Sequences

CONSTANTS
  Clients,
  Mortal,     \* the clients that may end at any time
  MaxClient,  \* how many records end the server; 500
  Numbers,    \* lengths of strings; 5000 .. 9999
  PidL, TimeL, \* 4 and 19 bytes
  None

\* Assumed of the constants.
CollectorAssumption ==
  /\ Mortal \subseteq Clients /\ MaxClient \in 1 .. Cardinality(Clients)
  /\ Numbers \subseteq Nat \ {0} /\ {PidL, TimeL} \subseteq Nat \ {0}

VARIABLES
  cpc,        \* where a client is
  number,     \* the length it was sent; 0 before
  sent, arrived, read, \* bytes of its stream: sent, at the server, taken
  queue,      \* connections not yet accepted
  client,     \* the accepted ones, in order
  stage,      \* Recved_Num: -1 before the greeting, 3 when closed
  l,          \* bytes of the string so far
  rec,        \* the_mysql_data
  sockMax,    \* does select look at the listening socket?  "high" if so
  table, spc  \* the rows inserted; "loop", "end"

clientVars == <<cpc, sent, arrived>>
serverVars == <<number, read, client, stage, l, rec, sockMax, table, spc>>
vars == <<clientVars, serverVars, queue>>

\* sockMax has no initial value, and is raised only by accepted sockets: it may
\* be below the listening socket, not below, or too negative for select.
Init ==
  /\ cpc = [c \in Clients |-> "start"]
  /\ number = [c \in Clients |-> 0]
  /\ sent = [c \in Clients |-> 0] /\ arrived = sent /\ read = sent
  /\ queue = {} /\ client = <<>>
  /\ stage = [c \in Clients |-> -1]
  /\ l = [c \in Clients |-> 0]
  /\ rec = [c \in Clients |-> [pid |-> None, time |-> None, str |-> None]]
  /\ sockMax \in {"negative", "low", "high"}
  /\ table = {} /\ spc = "loop"

-----------------------------------------------------------------------------
(* The client: test3-client.cpp *)

Connect(c) == /\ cpc[c] = "start" /\ spc = "loop"
              /\ cpc' = [cpc EXCEPT ![c] = "greet"]
              /\ queue' = queue \union {c}
              /\ UNCHANGED <<sent, arrived, serverVars>>

\* It polls until it has the greeting.
Greet(c) == /\ cpc[c] = "greet" /\ number[c] # 0
            /\ cpc' = [cpc EXCEPT ![c] = "pid"]
            /\ UNCHANGED <<sent, arrived, serverVars, queue>>

Piece(c) == CASE cpc[c] = "pid" -> PidL [] cpc[c] = "time" -> TimeL
              [] cpc[c] = "str" -> number[c]
After == [pid |-> "time", time |-> "str", str |-> "poll"]

Send(c) == /\ cpc[c] \in DOMAIN After
           /\ cpc' = [cpc EXCEPT ![c] = After[@]]
           /\ sent' = [sent EXCEPT ![c] = @ + Piece(c)]
           /\ UNCHANGED <<arrived, serverVars, queue>>

\* poll and recv return when the server has closed.
Leave(c) == /\ cpc[c] = "poll" /\ (stage[c] = 3 \/ spc = "end")
            /\ cpc' = [cpc EXCEPT ![c] = "closed"]
            /\ UNCHANGED <<sent, arrived, serverVars, queue>>

\* What it sent still arrives.
Die(c) == /\ c \in Mortal /\ cpc[c] \notin {"closed", "dead"}
          /\ cpc' = [cpc EXCEPT ![c] = "dead"]
          /\ UNCHANGED <<sent, arrived, serverVars, queue>>

Arrive(c) == /\ arrived[c] < sent[c]
             /\ arrived' \in {[arrived EXCEPT ![c] = n] : n \in arrived[c] + 1 .. sent[c]}
             /\ arrived'[c] < PidL + TimeL => arrived'[c] \in {PidL, sent[c]}
             /\ UNCHANGED <<cpc, sent, serverVars, queue>>

-----------------------------------------------------------------------------
(* The server: test3-server.cpp *)

RecvedClient == Cardinality({c \in Clients : stage[c] = 3})

\* Readable: data, or the end of the stream, which read gives as 0.
Ready == {c \in Clients : /\ stage[c] \in 0 .. 2
                          /\ \/ arrived[c] > read[c]
                             \/ cpc[c] = "dead" /\ arrived[c] = sent[c]}

\* What is asked of read, and what it returns.
Limit(c) == CASE stage[c] = 0 -> PidL [] stage[c] = 1 -> TimeL
              [] stage[c] = 2 -> number[c] - l[c]

Mutant_Got(c) == Limit(c)

Got(c) == IF arrived[c] - read[c] < Limit(c) THEN arrived[c] - read[c] ELSE Limit(c)

Accept == IF queue = {} THEN UNCHANGED <<queue, client, number>>
          ELSE \E c \in queue, n \in Numbers :
                 /\ queue' = queue \ {c}
                 /\ client' = Append(client, c)
                 /\ number' = [number EXCEPT ![c] = n]

\* The fields of a fixed length are taken to be complete, whatever read says.
Complete(c) == stage[c] < 2 \/ l[c] + Got(c) = number[c]

Field(c) == CASE stage[c] = 0 -> [rec[c] EXCEPT !.pid = <<read[c], Got(c)>>]
              [] stage[c] = 1 -> [rec[c] EXCEPT !.time = <<read[c], Got(c)>>]
              [] stage[c] = 2 -> IF Complete(c)
                                 THEN [rec[c] EXCEPT !.str = <<read[c] - l[c], l[c] + Got(c)>>]
                                 ELSE rec[c]

\* One turn of the loop: select, accept, the greeting, and one read of every
\* connection that was ready.
Round ==
  /\ spc = "loop" /\ RecvedClient < MaxClient
  /\ sockMax = "high" /\ Ready \union queue # {}
  /\ Accept
  /\ stage' = [c \in Clients |->
       IF c \in queue \ queue' THEN 0
       ELSE IF c \in Ready /\ Complete(c) THEN stage[c] + 1 ELSE stage[c]]
  /\ read' = [c \in Clients |-> IF c \in Ready THEN read[c] + Got(c) ELSE read[c]]
  /\ l' = [c \in Clients |-> IF c \in Ready /\ stage[c] = 2 THEN l[c] + Got(c) ELSE l[c]]
  /\ rec' = [c \in Clients |-> IF c \in Ready THEN Field(c) ELSE rec[c]]
  /\ UNCHANGED <<clientVars, sockMax, table, spc>>

Mutant_Put == /\ spc = "loop" /\ RecvedClient + 1 >= MaxClient
              /\ table' = {rec[client[i]] : i \in 1 .. Len(client)}
              /\ spc' = "end"
              /\ UNCHANGED <<clientVars, queue, number, read, client, stage, l, rec, sockMax>>

\* The first MaxClient slots go into the table.
Put == /\ spc = "loop" /\ RecvedClient >= MaxClient
       /\ table' = {rec[client[i]] : i \in 1 .. MaxClient}
       /\ spc' = "end"
       /\ UNCHANGED <<clientVars, queue, number, read, client, stage, l, rec, sockMax>>

\* select fails before anybody is accepted: the unset slots go into the table.
SelectFails == /\ spc = "loop" /\ sockMax = "negative"
               /\ table' = {[pid |-> None, time |-> None, str |-> None]}
               /\ spc' = "end"
               /\ UNCHANGED <<clientVars, queue, number, read, client, stage, l, rec, sockMax>>

-----------------------------------------------------------------------------
Client(c) == Connect(c) \/ Greet(c) \/ Send(c) \/ Arrive(c) \/ Leave(c)

Next == Round \/ Put \/ SelectFails \/ \E c \in Clients : (Client(c) \/ Die(c))

Spec == Init /\ [][Next]_vars

-----------------------------------------------------------------------------
(* Properties *)

TypeOK ==
  /\ cpc \in [Clients -> DOMAIN After \union {"start", "greet", "poll", "closed", "dead"}]
  /\ number \in [Clients -> Numbers \union {0}]
  /\ \A c \in Clients : 0 <= read[c] /\ read[c] <= arrived[c] /\ arrived[c] <= sent[c]
  /\ \A c \in Clients : stage[c] \in -1 .. 3 /\ l[c] \in 0 .. number[c]
  /\ \A i, j \in DOMAIN client : client[i] = client[j] => i = j
  /\ queue \cap {client[i] : i \in DOMAIN client} = {}
  /\ spc \in {"loop", "end"}

\* The record a client sends.
Sent(c) == [pid |-> <<0, PidL>>, time |-> <<PidL, TimeL>>, str |-> <<PidL + TimeL, number[c]>>]

\* A record counted as complete has the client's own bytes in each field, in
\* whatever pieces they came, and whichever other clients ended early.
FinishedIsRight == \A c \in Clients : stage[c] = 3 => rec[c] = Sent(c)

\* When as many clients came as records are wanted, the rows put into the
\* table are the complete records (test3-server.cpp:265).
StoredIsFinished ==
  spc = "end" /\ Len(client) = MaxClient => table = {rec[c] : c \in {d \in Clients : stage[d] = 3}}

\* Both, and that the streams are never read beyond what has come.
RecordsAreRight == TypeOK /\ FinishedIsRight /\ StoredIsFinished

\* When select looks at the listening socket, the server has stored its
\* records: what becomes true as long as MaxClient clients live.
Collected == sockMax = "high" => spc = "end"
=============================================================================
