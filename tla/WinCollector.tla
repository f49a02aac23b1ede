----------------------------- MODULE WinCollector -----------------------------
(***************************************************************************)
(* Pre-Project/W0902-test3: the collector of test3 on Windows.  One client *)
(* process polls all its sockets, and closes each as soon as recv has      *)
(* nothing for it.  When the server has closed its first connection, it    *)
(* puts INVALID_SOCKET into the sets; select then fails and leaves the     *)
(* sets full, so that every connection is read, ready or not.  Bytes are   *)
(* counted as in Collector.                                                *)
(***************************************************************************)
EXTENDS Integers, FiniteSets

CONSTANTS
  Sockets,      \* of the client; as many as records end the server, 500
  Numbers,      \* lengths of strings; 5000 .. 9999
  PidL, TimeL,  \* 4 and 19 bytes
  None

\* Assumed of the constants.
WinAssumption == /\ IsFiniteSet(Sockets) /\ Numbers \subseteq Nat \ {0}
                 /\ {PidL, TimeL} \subseteq Nat \ {0}

VARIABLES
  test,       \* the client's status of a socket; -2 before, 2 when closed
  word,       \* the greeting on the way to it
  datal,      \* the length it was told
  sent, arrived, read,
  status,     \* the server's; -2 before accept, 3 when closed
  msgl, l,    \* bytes of the string: expected, and so far
  sqlData,
  table, spc  \* the records inserted; "loop", "end"

clientVars == <<test, datal, sent>>
serverVars == <<read, status, msgl, l, sqlData, table, spc>>
vars == <<clientVars, serverVars, word, arrived>>

Init == /\ test = [c \in Sockets |-> -2] /\ status = test
        /\ word = [c \in Sockets |-> 0] /\ datal = word /\ msgl = word /\ l = word
        /\ sent = [c \in Sockets |-> 0] /\ arrived = sent /\ read = sent
        /\ sqlData = [c \in Sockets |-> [pid |-> None, time |-> None, msg |-> None]]
        /\ table = {} /\ spc = "loop"

-----------------------------------------------------------------------------
(* The client: W0902-test3_client.cpp *)

\* The connections succeed; one that fails keeps the client in its loop for ever.
Connect(c) == /\ test[c] = -2
              /\ test' = [test EXCEPT ![c] = -1]
              /\ status' = [status EXCEPT ![c] = -1]
              /\ UNCHANGED <<datal, sent, read, msgl, l, sqlData, table, spc, word, arrived>>

Connected == \A c \in Sockets : test[c] # -2

Turn(c) ==
  /\ Connected
  /\ \/ /\ test[c] = -1 /\ word[c] # 0
        /\ datal' = [datal EXCEPT ![c] = word[c]]
        /\ word' = [word EXCEPT ![c] = 0]
        /\ test' = [test EXCEPT ![c] = 0]
        /\ UNCHANGED sent
     \/ /\ test[c] = 0
        /\ sent' = [sent EXCEPT ![c] = PidL + TimeL + datal[c]]
        /\ test' = [test EXCEPT ![c] = 1]
        /\ UNCHANGED <<datal, word>>
     \* recv has nothing, or the server has closed: the socket is closed.
     \/ /\ test[c] = 1
        /\ test' = [test EXCEPT ![c] = 2]
        /\ UNCHANGED <<datal, word, sent>>
  /\ UNCHANGED <<serverVars, arrived>>

\* What was sent arrives, the short fields whole.
Arrive(c) ==
  /\ arrived[c] < sent[c]
  /\ \E n \in arrived[c] + 1 .. sent[c] :
       /\ n < sent[c] => n > PidL + TimeL \/ n \in {PidL, PidL + TimeL}
       /\ arrived' = [arrived EXCEPT ![c] = n]
  /\ UNCHANGED <<clientVars, serverVars, word>>

-----------------------------------------------------------------------------
(* The server: W0902-test3_server.cpp *)

comp == Cardinality({c \in Sockets : status[c] = 3})

\* The greeting goes out when the socket is writable.
Greet(c) == /\ spc = "loop" /\ status[c] = -1
            /\ \E number \in Numbers : /\ msgl' = [msgl EXCEPT ![c] = number]
                                       /\ word' = [word EXCEPT ![c] = number]
            /\ l' = [l EXCEPT ![c] = 0]
            /\ status' = [status EXCEPT ![c] = 0]
            /\ UNCHANGED <<clientVars, read, sqlData, table, spc, arrived>>

\* FD_ISSET: data or the end of the stream, and everything once select fails.
IsSet(c) == \/ arrived[c] > read[c]
            \/ test[c] = 2 /\ arrived[c] = sent[c]
            \/ comp > 0

Limit(c) == CASE status[c] = 0 -> PidL [] status[c] = 1 -> TimeL
              [] status[c] = 2 -> msgl[c] - l[c]

\* What recv returns; 0 stands for an error too.
Ret(c) == IF arrived[c] - read[c] < Limit(c) THEN arrived[c] - read[c] ELSE Limit(c)

Mutant_Complete(c) == status[c] < 2 \/ l[c] + Ret(c) = msgl[c]

\* A field is complete when recv gave something, the string when it gave all.
Complete(c) == IF status[c] < 2 THEN Ret(c) > 0 ELSE l[c] + Ret(c) = msgl[c]

Field(c) == CASE status[c] = 0 -> [sqlData[c] EXCEPT !.pid = <<read[c], Ret(c)>>]
              [] status[c] = 1 -> [sqlData[c] EXCEPT !.time = <<read[c], Ret(c)>>]
              [] status[c] = 2 -> [sqlData[c] EXCEPT !.msg = <<read[c] - l[c], l[c] + Ret(c)>>]

Recv(c) ==
  /\ spc = "loop" /\ status[c] \in 0 .. 2 /\ IsSet(c)
  /\ status' = [status EXCEPT ![c] = IF Complete(c) THEN @ + 1 ELSE @]
  /\ sqlData' = [sqlData EXCEPT ![c] = IF Ret(c) > 0 \/ Complete(c) THEN Field(c) ELSE @]
  /\ read' = [read EXCEPT ![c] = @ + Ret(c)]
  /\ l' = IF status[c] = 2 THEN [l EXCEPT ![c] = @ + Ret(c)] ELSE l
  /\ UNCHANGED <<clientVars, msgl, table, spc, word, arrived>>

Put == /\ spc = "loop" /\ comp = Cardinality(Sockets)
       /\ table' = {sqlData[c] : c \in Sockets}
       /\ spc' = "end"
       /\ UNCHANGED <<clientVars, read, status, msgl, l, sqlData, word, arrived>>

-----------------------------------------------------------------------------
Client(c) == Connect(c) \/ Turn(c)
Server(c) == Greet(c) \/ Recv(c)

Next == Put \/ \E c \in Sockets : Client(c) \/ Arrive(c) \/ Server(c)

Spec == Init /\ [][Next]_vars

-----------------------------------------------------------------------------
(* Properties *)

\* A complete record has the client's own fields, whole, although connections
\* are read that have nothing to read, and closed before the server has read.
FinishedIsRight ==
  \A c \in Sockets : status[c] = 3 =>
    sqlData[c] = [pid |-> <<0, PidL>>, time |-> <<PidL, TimeL>>, msg |-> <<PidL + TimeL, msgl[c]>>]

\* The server stores the records of all its connections, all complete.
StoredIsFinished ==
  spc = "end" => /\ \A c \in Sockets : status[c] = 3
                 /\ table = {sqlData[c] : c \in Sockets}

RecordsAreRight == FinishedIsRight /\ StoredIsFinished

\* What becomes true: the server has stored its records, and the client closed
\* its sockets.
Collected == spc = "end" /\ \A c \in Sockets : test[c] = 2
===============================================================================
