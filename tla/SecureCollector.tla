--------------------------- MODULE SecureCollector ---------------------------
(***************************************************************************)
(* Pre-Project/test5: the collector of test3 with a key exchange.  A       *)
(* client sends an RSA key, is answered with an AES key and, encrypted, a  *)
(* length, and sends its three fields encrypted, in whole blocks.  The     *)
(* server works out how many bytes the string will take.  Bytes are        *)
(* counted as in Collector; a cipher text is named by its key too.         *)
(***************************************************************************)
EXTENDS Integers, FiniteSets, Sequences

CONSTANTS
  Clients, Mortal,  \* the mortal ones may end at any time
  MaxClient,        \* records that end the server; 500
  Numbers,          \* lengths of strings; 5000 .. 9999
  Block,            \* AES_BLOCK_SIZE, 16
  KeyL, PidL, TimeL, \* 26, 4 and 19 bytes
  Keys, None

\* Assumed of the constants.
SecureAssumption ==
  /\ Mortal \subseteq Clients /\ MaxClient \in 1 .. Cardinality(Clients)
  /\ Numbers \subseteq Nat \ {0} /\ {Block, KeyL, PidL, TimeL} \subseteq Nat \ {0}
  /\ None \notin Keys

VARIABLES
  cpc,        \* where a client is
  key,        \* its AES key
  words,      \* what the server sent it and it has not received
  asked,      \* the length it was told
  sent, arrived, read,
  stage,      \* Recved_Num: -2 before accept, 3 when closed
  service,    \* the server's key for it
  maxl, l,    \* bytes of the string: expected, and so far
  rec,        \* the_mysql_data
  client,     \* the accepted ones, in order
  sockMax,    \* does select look at the listening socket?  "high" if so
  table, spc  \* the records inserted; "loop", "end", "crash"

clientVars == <<cpc, key, asked, sent>>
serverVars == <<read, stage, service, maxl, l, rec, client, sockMax>>
vars == <<clientVars, serverVars, words, arrived, table, spc>>

\* sockMax has no initial value, as in Collector.
Init ==
  /\ cpc = [c \in Clients |-> "start"]
  /\ key = [c \in Clients |-> None] /\ service = key
  /\ words = [c \in Clients |-> <<>>]
  /\ asked = [c \in Clients |-> 0] /\ maxl = asked /\ l = asked
  /\ sent = [c \in Clients |-> 0] /\ arrived = sent /\ read = sent
  /\ stage = [c \in Clients |-> -2]
  /\ rec = [c \in Clients |-> [pid |-> None, time |-> None, str |-> None]]
  /\ client = <<>> /\ sockMax \in {"negative", "low", "high"}
  /\ table = {} /\ spc = "loop"

-----------------------------------------------------------------------------
\* encrypt: the length of the cipher text of so many bytes.
Padded(size) == ((size - 1) \div Block + 1) * Block

(* The client: test5-client.cpp *)

\* It sends a string with its zero.
Piece(c) == CASE cpc[c] = "start" -> KeyL
              [] cpc[c] = "pid" -> Padded(PidL)
              [] cpc[c] = "time" -> Padded(TimeL)
              [] cpc[c] = "str" -> Padded(asked[c] + 1)

Mutant_After == [start |-> "pid", pid |-> "time", time |-> "str", str |-> "poll"]

After == [start |-> "key", pid |-> "time", time |-> "str", str |-> "poll"]

\* The connection is made with the first.
Send(c) == /\ cpc[c] \in DOMAIN After
           /\ cpc' = [cpc EXCEPT ![c] = After[@]]
           /\ sent' = [sent EXCEPT ![c] = @ + Piece(c)]
           /\ UNCHANGED <<key, asked, serverVars, words, arrived, table, spc>>

\* clientKeySet with the first 16 bytes.
RecvKey(c) == /\ cpc[c] = "key" /\ words[c] # <<>>
              /\ key' = [key EXCEPT ![c] = Head(words[c])]
              /\ words' = [words EXCEPT ![c] = Tail(@)]
              /\ cpc' = [cpc EXCEPT ![c] = "greet"]
              /\ UNCHANGED <<asked, sent, serverVars, arrived, table, spc>>

RecvNumber(c) == /\ cpc[c] = "greet" /\ words[c] # <<>>
                 /\ Head(words[c]).key = key[c]
                 /\ asked' = [asked EXCEPT ![c] = Head(words[c]).number]
                 /\ words' = [words EXCEPT ![c] = Tail(@)]
                 /\ cpc' = [cpc EXCEPT ![c] = "pid"]
                 /\ UNCHANGED <<key, sent, serverVars, arrived, table, spc>>

Leave(c) == /\ cpc[c] = "poll" /\ (stage[c] = 3 \/ spc # "loop")
            /\ cpc' = [cpc EXCEPT ![c] = "closed"]
            /\ UNCHANGED <<key, asked, sent, serverVars, words, arrived, table, spc>>

Die(c) == /\ c \in Mortal /\ cpc[c] \notin {"closed", "dead"}
          /\ cpc' = [cpc EXCEPT ![c] = "dead"]
          /\ UNCHANGED <<key, asked, sent, serverVars, words, arrived, table, spc>>

\* The key and the short fields arrive whole, the string in pieces.
Arrive(c) ==
  /\ arrived[c] < sent[c]
  /\ \E n \in arrived[c] + 1 .. sent[c] :
       /\ n < sent[c] => \/ n > KeyL + Padded(PidL) + Padded(TimeL)
                         \/ n \in {KeyL + Padded(PidL), KeyL + Padded(PidL) + Padded(TimeL)}
       /\ arrived' = [arrived EXCEPT ![c] = n]
  /\ UNCHANGED <<clientVars, serverVars, words, table, spc>>

-----------------------------------------------------------------------------
(* The server: test5-server.cpp *)

\* select sees the listening socket only below sockMax + 1.
Accept(c) == /\ spc = "loop" /\ sockMax = "high"
             /\ stage[c] = -2 /\ cpc[c] # "start"
             /\ stage' = [stage EXCEPT ![c] = -1]
             /\ client' = Append(client, c)
             /\ UNCHANGED <<clientVars, read, service, maxl, l, rec, sockMax,
                            words, arrived, table, spc>>

Ready(c) == \/ arrived[c] > read[c]
            \/ cpc[c] = "dead" /\ arrived[c] = sent[c]

Mutant_MaxL(number) == (number \div Block) * Block

\* sendStrLen's result: the bytes the string will take.
MaxL(number) == (number \div Block + 1) * Block

\* serviceKeySet and sendStrLen, for the key that came or, when the client died
\* without sending one, for what the stack held.
KeyAndNumber(c) ==
  /\ spc = "loop" /\ stage[c] = -1 /\ Ready(c)
  /\ \E aes \in Keys, number \in Numbers :
       /\ service' = [service EXCEPT ![c] = aes]
       /\ words' = [words EXCEPT ![c] = @ \o <<aes, [key |-> aes, number |-> number]>>]
       /\ maxl' = [maxl EXCEPT ![c] = MaxL(number)]
  /\ read' = [read EXCEPT ![c] = IF arrived[c] = read[c] THEN @ ELSE @ + KeyL]
  /\ stage' = [stage EXCEPT ![c] = 0]
  /\ UNCHANGED <<clientVars, l, rec, client, sockMax, arrived, table, spc>>

\* A client that died ends the server too: the second write gives SIGPIPE or
\* exit, or what is no key gives no RSA structure to encrypt with.
KeyFails(c) == /\ spc = "loop" /\ stage[c] = -1 /\ Ready(c) /\ cpc[c] = "dead"
               /\ spc' = "crash"
               /\ UNCHANGED <<clientVars, serverVars, words, arrived, table>>

Limit(c) == CASE stage[c] = 0 -> Padded(PidL) [] stage[c] = 1 -> Padded(TimeL)
              [] stage[c] = 2 -> maxl[c] - l[c]

Got(c) == IF arrived[c] - read[c] < Limit(c) THEN arrived[c] - read[c] ELSE Limit(c)

\* The short fields are taken for complete; the string when maxl bytes came.
Complete(c) == stage[c] < 2 \/ l[c] + Got(c) = maxl[c]

Field(c) == CASE stage[c] = 0 -> [rec[c] EXCEPT !.pid = <<read[c], Got(c)>>]
              [] stage[c] = 1 -> [rec[c] EXCEPT !.time = <<read[c], Got(c)>>]
              [] stage[c] = 2 -> IF Complete(c)
                                 THEN [rec[c] EXCEPT !.str = <<read[c] - l[c], maxl[c]>>]
                                 ELSE rec[c]

Serve(c) ==
  /\ spc = "loop" /\ stage[c] \in 0 .. 2 /\ Ready(c)
  /\ stage' = [stage EXCEPT ![c] = IF Complete(c) THEN @ + 1 ELSE @]
  /\ read' = [read EXCEPT ![c] = @ + Got(c)]
  /\ l' = IF stage[c] = 2 THEN [l EXCEPT ![c] = @ + Got(c)] ELSE l
  /\ rec' = [rec EXCEPT ![c] = Field(c)]
  /\ UNCHANGED <<clientVars, service, maxl, client, sockMax, words, arrived, table, spc>>

\* put_to_mysql with the first MaxClient slots, when as many are complete.
Put == /\ spc = "loop" /\ Cardinality({c \in Clients : stage[c] = 3}) >= MaxClient
       /\ table' = {rec[client[i]] : i \in 1 .. MaxClient}
       /\ spc' = "end"
       /\ UNCHANGED <<clientVars, serverVars, words, arrived>>

\* select fails before anybody is accepted: the unset slots go into the table.
SelectFails == /\ spc = "loop" /\ sockMax = "negative"
               /\ table' = {[pid |-> None, time |-> None, str |-> None]}
               /\ spc' = "end"
               /\ UNCHANGED <<clientVars, serverVars, words, arrived>>

-----------------------------------------------------------------------------
Client(c) == Send(c) \/ RecvKey(c) \/ RecvNumber(c) \/ Arrive(c) \/ Leave(c)
Server(c) == Accept(c) \/ KeyAndNumber(c) \/ KeyFails(c) \/ Serve(c)

Next == Put \/ SelectFails \/ \E c \in Clients : Client(c) \/ Die(c) \/ Server(c)

Spec == Init /\ [][Next]_vars

-----------------------------------------------------------------------------
(* Properties *)

\* A complete record has the client's own fields, whole: the server expects as
\* many bytes of the string as the client makes of it, also when its length and
\* zero just fill the last block, or just do not.
FinishedIsRight ==
  LET pid == Padded(PidL) time == Padded(TimeL)
  IN \A c \in Clients : stage[c] = 3 =>
       rec[c] = [pid |-> <<KeyL, pid>>, time |-> <<KeyL + pid, time>>,
                 str |-> <<KeyL + pid + time, Padded(asked[c] + 1)>>]

\* The two ends use the same key from the first encrypted byte of the client on.
KeysAgree == \A c \in Clients : sent[c] > KeyL => key[c] # None /\ key[c] = service[c]

\* Both: the records are the clients', and can be decrypted.
RecordsAreRight == FinishedIsRight /\ KeysAgree

\* When select looks at the listening socket, the server has stored its records:
\* what becomes true when no client dies.
Collected == sockMax = "high" => spc = "end" \/ \E c \in Mortal : cpc[c] = "dead"
==============================================================================
