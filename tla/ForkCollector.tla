---------------------------- MODULE ForkCollector ----------------------------
(***************************************************************************)
(* Pre-Project/W0802-test1 and W0802-test2: a server that forks a child    *)
(* for every connection, and its clients.  In test1 the child asks for     *)
(* each field by a word of its own and reads whatever comes; in test2 it   *)
(* asks once, and reads the three fields one after the other.  Then it     *)
(* says "end", waits for the client to close, and inserts the record.      *)
(* Bytes are counted as in Collector: a field is <<where, how many>>.      *)
(***************************************************************************)
EXTENDS Integers, Sequences, FiniteSets

CONSTANTS
  Clients,
  Mortal,      \* the clients that may end at any time
  OneByOne,    \* is it test1?
  Pieces,      \* may the string arrive in pieces?
  Numbers,     \* lengths of strings: 50 .. 99 in test1, 5000 .. 9999 in test2
  PidL, TimeL,
  StrL,        \* room for the string in test1's record, 100
  Fds,         \* descriptors of the parent for connections
  None, Junk

\* Assumed of the constants.
ForkAssumption == /\ Mortal \subseteq Clients /\ {OneByOne, Pieces} \subseteq BOOLEAN
                  /\ Numbers \subseteq Nat \ {0} /\ {PidL, TimeL, StrL, Fds} \subseteq Nat \ {0}
                  /\ OneByOne \/ Numbers \subseteq 1 .. 10240

VARIABLES
  cpc,       \* the client's place: the word it waits for, or what it sends
  sent, arrived, read, \* bytes of its stream
  words,     \* words on the way to the client
  spc,       \* the child's place
  number,    \* the length it asked for
  row,       \* its record
  open,      \* connections the parent holds, also those of clients that
             \* came before these: it never closes one
  table      \* the clients whose record is inserted

clientVars == <<cpc, sent>>
childVars == <<words, spc, number, row, read>>
vars == <<clientVars, childVars, arrived, open, table>>

Init == /\ cpc = [c \in Clients |-> "start"]
        /\ sent = [c \in Clients |-> 0] /\ arrived = sent /\ read = sent /\ number = sent
        /\ words = [c \in Clients |-> <<>>]
        /\ spc = [c \in Clients |-> "none"]
        /\ row = [c \in Clients |-> [pid |-> None, time |-> None, str |-> None]]
        /\ open \in 0 .. Fds /\ table = {}

-----------------------------------------------------------------------------
(* The clients *)

Connect(c) == /\ cpc[c] = "start"
              /\ cpc' = [cpc EXCEPT ![c] = IF OneByOne THEN "pid" ELSE "pidtimestr"]
              /\ spc' = [spc EXCEPT ![c] = "queued"]
              /\ UNCHANGED <<sent, words, number, row, read, arrived, open, table>>

Size(c) == [pid |-> PidL, time |-> TimeL, str |-> number[c]]

\* test1: the client waits for a word and answers it, or leaves at "end".
Answer(c) ==
  LET After == [pid |-> "time", time |-> "str", str |-> "end", end |-> "done"]
  IN /\ OneByOne /\ words[c] # <<>> /\ cpc[c] = Head(words[c])
     /\ cpc' = [cpc EXCEPT ![c] = After[@]]
     /\ words' = [words EXCEPT ![c] = Tail(@)]
     /\ sent' = IF cpc[c] = "end" THEN sent ELSE [sent EXCEPT ![c] = @ + Size(c)[cpc[c]]]
     /\ UNCHANGED <<spc, number, row, read, arrived, open, table>>

\* test2: the client has the greeting, or "end".
Hear(c) == /\ ~OneByOne /\ words[c] # <<>> /\ cpc[c] = Head(words[c])
           /\ cpc' = [cpc EXCEPT ![c] = IF @ = "end" THEN "done" ELSE "pid"]
           /\ words' = [words EXCEPT ![c] = Tail(@)]
           /\ UNCHANGED <<sent, spc, number, row, read, arrived, open, table>>

Tell(c) == /\ ~OneByOne /\ cpc[c] \in DOMAIN Size(c)
           /\ cpc' = [cpc EXCEPT ![c] = [pid |-> "time", time |-> "str", str |-> "end"][@]]
           /\ sent' = [sent EXCEPT ![c] = @ + Size(c)[cpc[c]]]
           /\ UNCHANGED <<childVars, arrived, open, table>>

Die(c) == /\ c \in Mortal /\ cpc[c] \notin {"start", "done", "dead"}
          /\ cpc' = [cpc EXCEPT ![c] = "dead"]
          /\ UNCHANGED <<sent, childVars, arrived, open, table>>

\* What was sent arrives; the short fields whole.
Arrive(c) ==
  /\ arrived[c] < sent[c]
  /\ \E n \in arrived[c] + 1 .. sent[c] :
       /\ n < sent[c] => \/ Pieces /\ n > PidL + TimeL
                         \/ n \in {PidL, PidL + TimeL}
       /\ arrived' = [arrived EXCEPT ![c] = n]
  /\ UNCHANGED <<clientVars, childVars, open, table>>

-----------------------------------------------------------------------------
(* The server *)

Mutant_Accept(c) == /\ spc[c] = "queued" /\ open + 1 < Fds
                    /\ open' = open + 1
                    /\ spc' = [spc EXCEPT ![c] = "greet"]
                    /\ UNCHANGED <<clientVars, words, number, row, read, arrived, table>>

\* accept and fork; the parent keeps the connection open, and can no longer
\* accept when it has no descriptor left.
Accept(c) == /\ spc[c] = "queued" /\ open < Fds
             /\ open' = open + 1
             /\ spc' = [spc EXCEPT ![c] = "greet"]
             /\ UNCHANGED <<clientVars, words, number, row, read, arrived, table>>

Ended(c) == cpc[c] \in {"done", "dead"} /\ arrived[c] = sent[c]

\* A send to a client that has ended succeeds, or kills the child.
Say(c, word, next) ==
  \/ /\ words' = [words EXCEPT ![c] = Append(@, word)]
     /\ spc' = [spc EXCEPT ![c] = next]
  \/ /\ cpc[c] = "dead" /\ words' = words
     /\ spc' = [spc EXCEPT ![c] = "killed"]

\* The length is chosen with the word that carries it.
Choose(c) == \E n \in Numbers : number' = [number EXCEPT ![c] = n]

Least(m, n) == IF m < n THEN m ELSE n

GreetOne(c) == /\ OneByOne /\ spc[c] = "greet"
               /\ Say(c, "pid", "pid")
               /\ UNCHANGED <<clientVars, number, row, read, arrived, open, table>>

GreetAll(c) == /\ ~OneByOne /\ spc[c] = "greet"
               /\ Say(c, "pidtimestr", "pid") /\ Choose(c)
               /\ UNCHANGED <<clientVars, row, read, arrived, open, table>>

Mutant_Kept(got) == IF got[2] + 2 < StrL THEN got ELSE Junk

\* test1 adds a newline and a zero: the longest string leaves no room for it.
Kept(got) == IF got[2] + 2 <= StrL THEN got ELSE Junk

\* test1: recv of up to 4096 bytes, which is 0 bytes at the end of the stream.
RecvOne(c) ==
  /\ OneByOne /\ spc[c] \in DOMAIN Size(c)
  /\ arrived[c] > read[c] \/ Ended(c)
  /\ LET got == <<read[c], arrived[c] - read[c]>>
     IN row' = [row EXCEPT ![c][spc[c]] = IF spc[c] = "str" THEN Kept(got) ELSE got]
  /\ read' = [read EXCEPT ![c] = arrived[c]]
  /\ CASE spc[c] = "pid" -> Say(c, "time", "time") /\ UNCHANGED number
       [] spc[c] = "time" -> Say(c, "str", "str") /\ Choose(c)
       [] spc[c] = "str" -> Say(c, "end", "drain") /\ UNCHANGED number
  /\ UNCHANGED <<clientVars, arrived, open, table>>

Mutant_Limit(c) == [pid |-> PidL + TimeL, time |-> TimeL, str |-> 10240]

\* test2: what each recv asks for.
Limit(c) == [pid |-> PidL, time |-> TimeL, str |-> 10240]

RecvAll(c) ==
  /\ ~OneByOne /\ spc[c] \in DOMAIN Size(c)
  /\ arrived[c] > read[c] \/ Ended(c)
  /\ LET n == Least(arrived[c] - read[c], Limit(c)[spc[c]])
     IN /\ row' = [row EXCEPT ![c][spc[c]] = <<read[c], n>>]
        /\ read' = [read EXCEPT ![c] = @ + n]
  /\ IF spc[c] = "str" THEN Say(c, "end", "drain")
     ELSE /\ spc' = [spc EXCEPT ![c] = IF @ = "pid" THEN "time" ELSE "str"]
          /\ UNCHANGED words
  /\ UNCHANGED <<clientVars, number, arrived, open, table>>

Mutant_Drained(c) == arrived[c] = sent[c]

\* recv until it returns 0.
Drained(c) == Ended(c)

Insert(c) == /\ spc[c] = "drain" /\ Drained(c)
             /\ read' = [read EXCEPT ![c] = arrived[c]]
             /\ table' = table \union {c}
             /\ spc' = [spc EXCEPT ![c] = "exit"]
             /\ UNCHANGED <<clientVars, words, number, row, arrived, open>>

-----------------------------------------------------------------------------
Client(c) == Connect(c) \/ Answer(c) \/ Hear(c) \/ Tell(c)
Child(c) == GreetOne(c) \/ GreetAll(c) \/ RecvOne(c) \/ RecvAll(c) \/ Insert(c)

Next == \E c \in Clients : Client(c) \/ Die(c) \/ Arrive(c) \/ Accept(c) \/ Child(c)

Spec == Init /\ [][Next]_vars


-----------------------------------------------------------------------------
(* Properties *)

Right(c) == [pid |-> <<0, PidL>>, time |-> <<PidL, TimeL>>, str |-> <<PidL + TimeL, number[c]>>]

\* The record of a client that ended of itself is the client's, when its string
\* arrives in one piece and fits with its newline and zero.
RecordedRight ==
  \A c \in table : cpc[c] = "done" /\ (OneByOne => number[c] + 2 <= StrL) => row[c] = Right(c)

\* Whatever pieces the string comes in, the record of a client that ended of
\* itself has its process id, its time, and the beginning of its string.
RecordedBegins ==
  \A c \in table : cpc[c] = "done" =>
     /\ row[c].pid = Right(c).pid /\ row[c].time = Right(c).time
     /\ row[c].str[1] = Right(c).str[1] /\ row[c].str[2] \in 1 .. number[c]

\* A record is inserted only when its client has gone, and not by a child that
\* was killed.
InsertedLast == \A c \in table : cpc[c] \in {"done", "dead"} /\ spc[c] = "exit"

\* The table's records are as right as the way the strings arrive allows.
RecordsAreRight == /\ InsertedLast
                   /\ ~Pieces => RecordedRight
                   /\ ~OneByOne => RecordedBegins

\* What becomes true whatever other clients do: who does not die is recorded,
\* unless the parent had used its last descriptor before it got to it.
Collected == \A c \in Clients \ Mortal : c \in table \/ (spc[c] = "queued" /\ open = Fds)
==============================================================================
