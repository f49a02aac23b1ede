-------------------------- MODULE PreProjectProofs --------------------------
(***************************************************************************)
(* What the programs of Pre-Project promise, for every number of clients   *)
(* and every length of string: the collectors, the forwarders over TCP and *)
(* UDP, and their configuration.  Each is an instance under a name of its  *)
(* own; what is assumed of its constants is a hypothesis of each theorem   *)
(* about it.                                                               *)
(***************************************************************************)
EXTENDS Integers, FiniteSets, Sequences, Functions, FiniteSetTheorems,
        SequenceTheorems, WellFoundedInduction, TLAPS

CONSTANTS
  Clients, Numbers, PidL, TimeL, None,           \* of several
  Mortal, MaxClient,                             \* of Collector
  Sockets,                                       \* of WinCollector
  MaxClient5, TimeL5, Block, KeyL, Keys,         \* of SecureCollector
  OneByOne, Pieces, StrL, Fds, Junk,             \* of ForkCollector
  Callers, Port, InMap, Ordered, MaxRepeats, Lossy,  \* of DatagramCollector
  UDPParas, Transfer, Uses, MaxSends,            \* of UdpNat
  Procs, Root, MaxClients, MaxBytes, BUFL, Slow, Full, InTurns,  \* of TcpNat
  Digits, Base, Fields, MaxLines                 \* of PortRanges

VARIABLES
  table, spc, cpc, sent, arrived, read, l, queue, number, words,  \* of several
  client, stage, rec, sockMax,                             \* of Collector
  test, word, datal, status, msgl, sqlData,                \* of WinCollector
  row, open,                                               \* of ForkCollector
  key, asked, service, maxl,                               \* of SecureCollector
  net, repeats, rows, finish,                              \* of DatagramCollector
  UDPTables, requests, forwarded, answers, returned, sends, waiting, got,  \* of UdpNat
  role, calls, connections, stopped, hasClient,            \* of TcpNat
  inSent, inRead, inEnd, outSent, outRead, outEnd, toOut, toIn, logged,
  file, ss, configs, through                               \* of PortRanges

T3 == INSTANCE Collector
Win == INSTANCE WinCollector
Fork == INSTANCE ForkCollector
T5 == INSTANCE SecureCollector WITH MaxClient <- MaxClient5, TimeL <- TimeL5
Dgram == INSTANCE DatagramCollector WITH Clients <- Callers
Udp == INSTANCE UdpNat
Tcp == INSTANCE TcpNat WITH queue <- calls
Ports == INSTANCE PortRanges WITH read <- through

\* A set of numbers has a least one.
LEMMA LeastNumber ==
  ASSUME NEW T \in SUBSET Nat, T # {}
  PROVE  \E x \in T : \A y \in T : x <= y
<1> DEFINE R == {r \in Nat \X Nat : r[1] < r[2]}
<1>1. IsWellFoundedOn(R, Nat)
  BY NatLessThanWellFounded, Zenon DEF OpToRel
<1>2. \A x, y \in Nat : <<y, x>> \in R <=> y < x
  OBVIOUS
<1> HIDE DEF R
<1>3. PICK x \in T : \A y \in T : <<y, x>> \notin R
  BY <1>1, WFMin, Zenon
<1>4. \A y \in T : <<y, x>> \notin R => x <= y
  BY <1>2
<1> QED
  BY <1>3, <1>4, Zenon


-----------------------------------------------------------------------------
(* test3: the collector with a select loop *)

\* Where a field of a record was taken from, and how much.
Part == {None} \union (Nat \X Nat)

\* The types of what the programs keep.
T3Types ==
  /\ cpc \in [Clients -> {"start", "greet", "pid", "time", "str", "poll", "closed", "dead"}]
  /\ number \in [Clients -> Nat] /\ sent \in [Clients -> Nat]
  /\ arrived \in [Clients -> Nat] /\ read \in [Clients -> Nat] /\ l \in [Clients -> Nat]
  /\ queue \subseteq Clients /\ client \in Seq(Clients)
  /\ stage \in [Clients -> -1 .. 3]
  /\ rec \in [Clients -> [pid : Part, time : Part, str : Part]]
  /\ spc \in {"loop", "end"}

\* A client is told its length when it is accepted, once.
Told(c) ==
  /\ number[c] \in Numbers \union {0}
  /\ stage[c] = -1 <=> number[c] = 0
  /\ cpc[c] \in {"pid", "time", "str", "poll", "closed"} => number[c] # 0
  /\ c \in queue => number[c] = 0 /\ cpc[c] # "start"
  /\ cpc[c] = "start" => number[c] = 0

\* What a client has sent goes by its place, and short fields arrive whole.
Streams(c) ==
  /\ number[c] = 0 => sent[c] = 0
  /\ cpc[c] \in {"start", "greet", "pid"} => sent[c] = 0
  /\ cpc[c] = "time" => sent[c] = PidL
  /\ cpc[c] = "str" => sent[c] = PidL + TimeL
  /\ cpc[c] \in {"poll", "closed"} => sent[c] = PidL + TimeL + number[c]
  /\ sent[c] \in {0, PidL, PidL + TimeL, PidL + TimeL + number[c]}
  /\ read[c] <= arrived[c] /\ arrived[c] <= sent[c]
  /\ arrived[c] \in {0, PidL} \/ arrived[c] >= PidL + TimeL

\* The stream of a client that died ended within a short field.
Cut(c) == cpc[c] = "dead" /\ sent[c] = arrived[c] /\ arrived[c] = read[c]

\* A field of a fixed length counts as taken also when the stream was cut, but
\* then the string never comes.
InOrder(c) ==
  /\ stage[c] < 2 => l[c] = 0
  /\ stage[c] <= 0 => read[c] = 0
  /\ stage[c] = 1 => \/ read[c] = PidL /\ rec[c].pid = <<0, PidL>>
                     \/ Cut(c)
  /\ stage[c] = 2 => \/ /\ read[c] = PidL + TimeL + l[c] /\ l[c] < number[c]
                        /\ rec[c].pid = <<0, PidL>> /\ rec[c].time = <<PidL, TimeL>>
                     \/ Cut(c) /\ l[c] = 0
  /\ stage[c] = 3 => rec[c] = T3!Sent(c) /\ l[c] = number[c]

\* The slots hold the accepted clients, each once.
Slots ==
  /\ \A i \in 1 .. Len(client) : stage[client[i]] # -1
  /\ \A i, j \in 1 .. Len(client) : client[i] = client[j] => i = j
  /\ \A c \in Clients : stage[c] # -1 => \E i \in 1 .. Len(client) : client[i] = c

\* The inductive invariant of the collector with a select loop.
T3Inv == /\ T3Types
         /\ \A c \in Clients : Told(c) /\ Streams(c) /\ InOrder(c)
         /\ Slots
         /\ T3!StoredIsFinished

\* It holds when nobody has connected.
LEMMA T3Begins == T3!CollectorAssumption /\ T3!Init => T3Inv
<1> SUFFICES ASSUME T3!CollectorAssumption, T3!Init PROVE T3Inv
  OBVIOUS
<1>1. T3Types
  BY DEF T3!Init, T3Types, Part
<1>2. \A c \in Clients : Told(c) /\ Streams(c) /\ InOrder(c)
  BY DEF T3!Init, Told, Streams, InOrder, T3!CollectorAssumption
<1>3. Slots
  BY DEF T3!Init, Slots
<1>4. T3!StoredIsFinished
  BY DEF T3!Init, T3!StoredIsFinished
<1> QED
  BY <1>1, <1>2, <1>3, <1>4 DEF T3Inv

\* The steps of a client and of the network change its place, or its stream.
LEMMA T3Clients ==
  ASSUME T3!CollectorAssumption, T3Inv, NEW c \in Clients, T3!Client(c) \/ T3!Die(c)
  PROVE T3Inv'
<1>0. PidL \in Nat /\ TimeL \in Nat /\ PidL > 0 /\ TimeL > 0 /\ Numbers \subseteq Nat
  BY DEF T3!CollectorAssumption
<1>k. T3Types /\ Slots /\ T3!StoredIsFinished /\ \A d \in Clients : Told(d) /\ Streams(d) /\ InOrder(d)
  BY DEF T3Inv
<1>a. /\ number' = number /\ read' = read /\ client' = client /\ stage' = stage /\ l' = l
      /\ rec' = rec /\ table' = table /\ spc' = spc
      /\ \A d \in Clients \ {c} :
           /\ cpc'[d] = cpc[d] /\ sent'[d] = sent[d] /\ arrived'[d] = arrived[d]
           /\ (d \in queue') <=> (d \in queue)
  <2>1. /\ number' = number /\ read' = read /\ client' = client /\ stage' = stage /\ l' = l
        /\ rec' = rec /\ table' = table /\ spc' = spc
    BY DEF T3!Client, T3!Connect, T3!Greet, T3!Send, T3!Arrive, T3!Leave, T3!Die, T3!serverVars
  <2>2. ASSUME NEW d \in Clients \ {c}
        PROVE /\ cpc'[d] = cpc[d] /\ sent'[d] = sent[d] /\ arrived'[d] = arrived[d]
              /\ (d \in queue') <=> (d \in queue)
    BY <1>k DEF T3Types, T3!Client, T3!Connect, T3!Greet, T3!Send, T3!Arrive, T3!Leave, T3!Die, T3!serverVars
  <2> QED
    BY <2>1, <2>2
<1>b. T3Types'
  <2>1. CASE T3!Connect(c)
    BY <2>1, <1>k DEF T3Types, T3!Connect, T3!serverVars
  <2>2. CASE T3!Greet(c)
    BY <2>2, <1>k DEF T3Types, T3!Greet, T3!serverVars
  <2>3. CASE T3!Send(c)
    <3>1. T3!Piece(c) \in Nat
      BY <2>3, <1>k, <1>0 DEF T3Types, T3!Send, T3!After, T3!Piece
    <3> QED
      BY <2>3, <3>1, <1>k, <1>0 DEF T3Types, T3!Send, T3!After, T3!serverVars
  <2>4. CASE T3!Arrive(c)
    <3>1. PICK n \in arrived[c] + 1 .. sent[c] : arrived' = [arrived EXCEPT ![c] = n]
      BY <2>4 DEF T3Types, T3!Arrive
    <3>2. n \in Nat
      BY <3>1, <1>k DEF T3Types
    <3> QED
      BY <2>4, <3>1, <3>2, <1>k DEF T3Types, T3!Arrive, T3!serverVars
  <2>5. CASE T3!Leave(c)
    BY <2>5, <1>k DEF T3Types, T3!Leave, T3!serverVars
  <2>6. CASE T3!Die(c)
    BY <2>6, <1>k DEF T3Types, T3!Die, T3!serverVars
  <2> QED
    BY <2>1, <2>2, <2>3, <2>4, <2>5, <2>6 DEF T3Types, T3!Client
<1>s. \A d \in Clients : T3!Sent(d)' = T3!Sent(d)
  BY <1>a DEF T3!Sent
<1>c. ASSUME NEW d \in Clients \ {c} PROVE Told(d)' /\ Streams(d)' /\ InOrder(d)'
  <2>0. Told(d) /\ Streams(d) /\ InOrder(d)
    BY <1>k
  <2>1. Told(d)'
    BY <2>0, <1>a DEF Told
  <2>2. Streams(d)'
    BY <2>0, <1>a DEF Streams
  <2>3. InOrder(d)'
    BY <2>0, <1>a, <1>s DEF InOrder, Cut
  <2> QED
    BY <2>1, <2>2, <2>3
<1>t. Told(c) /\ Streams(c) /\ InOrder(c)
  BY <1>k
<1>y. /\ number[c] \in Nat /\ sent[c] \in Nat /\ arrived[c] \in Nat /\ read[c] \in Nat /\ l[c] \in Nat
      /\ stage[c] \in -1 .. 3
  BY <1>k DEF T3Types
<1>o. ASSUME cpc[c] = "dead" => cpc'[c] = "dead",
             cpc[c] = "dead" /\ sent[c] = arrived[c] => sent'[c] = sent[c] /\ arrived'[c] = arrived[c]
      PROVE InOrder(c)'
  BY <1>t, <1>a, <1>s, <1>o DEF InOrder, Cut
<1>d. Told(c)' /\ Streams(c)' /\ InOrder(c)'
  <2>1. CASE T3!Connect(c)
    <3>1. cpc[c] = "start" /\ cpc'[c] = "greet" /\ sent' = sent /\ arrived' = arrived
      BY <2>1, <1>k DEF T3Types, T3!Connect
    <3>2. Told(c)'
      BY <3>1, <1>t, <1>y, <1>a DEF Told
    <3>3. Streams(c)'
      BY <3>1, <1>t, <1>y, <1>a DEF Streams
    <3> QED
      BY <3>1, <3>2, <3>3, <1>o
  <2>2. CASE T3!Greet(c)
    <3>1. /\ cpc[c] = "greet" /\ cpc'[c] = "pid" /\ sent' = sent /\ arrived' = arrived
          /\ queue' = queue /\ number[c] # 0
      BY <2>2, <1>k DEF T3Types, T3!Greet
    <3>2. Told(c)'
      BY <3>1, <1>t, <1>y, <1>a DEF Told
    <3>3. Streams(c)'
      BY <3>1, <1>t, <1>y, <1>a DEF Streams
    <3> QED
      BY <3>1, <3>2, <3>3, <1>o
  <2>3. CASE T3!Send(c)
    <3>1. /\ sent'[c] = sent[c] + T3!Piece(c) /\ arrived' = arrived /\ queue' = queue
          /\ \/ cpc[c] = "pid" /\ cpc'[c] = "time"
             \/ cpc[c] = "time" /\ cpc'[c] = "str"
             \/ cpc[c] = "str" /\ cpc'[c] = "poll"
      BY <2>3, <1>k DEF T3Types, T3!Send, T3!After
    <3>2. Told(c)'
      BY <3>1, <1>t, <1>y, <1>a DEF Told
    <3>3. /\ cpc[c] = "pid" => T3!Piece(c) = PidL
          /\ cpc[c] = "time" => T3!Piece(c) = TimeL
          /\ cpc[c] = "str" => T3!Piece(c) = number[c]
      BY DEF T3!Piece
    <3>n. number[c] # 0
      BY <3>1, <1>t DEF Told
    <3>4. Streams(c)'
      BY <3>1, <3>3, <3>n, <1>t, <1>y, <1>a, <1>0 DEF Streams
    <3> QED
      BY <3>1, <3>2, <3>4, <1>o
  <2>4. CASE T3!Arrive(c)
    <3>1. PICK n \in arrived[c] + 1 .. sent[c] : arrived' = [arrived EXCEPT ![c] = n]
      BY <2>4 DEF T3!Arrive
    <3>2. /\ cpc' = cpc /\ sent' = sent /\ arrived'[c] = n /\ queue' = queue
          /\ n < PidL + TimeL => n \in {PidL, sent[c]}
      BY <2>4, <3>1, <1>k DEF T3Types, T3!Arrive
    <3>3. Told(c)'
      BY <3>2, <1>t, <1>y, <1>a DEF Told
    <3>4. Streams(c)'
      BY <3>2, <1>t, <1>y, <1>a, <1>0 DEF Streams
    <3> QED
      BY <3>2, <3>3, <3>4, <1>t, <1>y, <1>o DEF Streams
  <2>5. CASE T3!Leave(c)
    <3>1. /\ cpc[c] = "poll" /\ cpc'[c] = "closed" /\ sent' = sent /\ arrived' = arrived
          /\ queue' = queue
      BY <2>5, <1>k DEF T3Types, T3!Leave
    <3>2. Told(c)'
      BY <3>1, <1>t, <1>y, <1>a DEF Told
    <3>3. Streams(c)'
      BY <3>1, <1>t, <1>y, <1>a DEF Streams
    <3> QED
      BY <3>1, <3>2, <3>3, <1>o
  <2>6. CASE T3!Die(c)
    <3>1. cpc'[c] = "dead" /\ sent' = sent /\ arrived' = arrived /\ queue' = queue
      BY <2>6, <1>k DEF T3Types, T3!Die
    <3>2. Told(c)'
      BY <3>1, <1>t, <1>y, <1>a DEF Told
    <3>3. Streams(c)'
      BY <3>1, <1>t, <1>y, <1>a DEF Streams
    <3> QED
      BY <3>1, <3>2, <3>3, <1>o
  <2> QED
    BY <2>1, <2>2, <2>3, <2>4, <2>5, <2>6 DEF T3!Client
<1>e. Slots'
  BY <1>k, <1>a DEF Slots
<1>f. T3!StoredIsFinished'
  BY <1>k, <1>a DEF T3!StoredIsFinished
<1>g. \A d \in Clients : Told(d)' /\ Streams(d)' /\ InOrder(d)'
  BY <1>c, <1>d
<1> QED
  BY <1>b, <1>e, <1>f, <1>g DEF T3Inv

\* What a read of a ready connection returns, and when a record is complete.
LEMMA T3Reads ==
  ASSUME T3!CollectorAssumption, T3Inv, NEW c \in Clients, c \in T3!Ready
  PROVE /\ T3!Got(c) \in Nat /\ stage[c] \in 0 .. 2
        /\ stage[c] = 0 => T3!Got(c) = PidL \/ (Cut(c) /\ T3!Got(c) = 0)
        /\ stage[c] = 1 => (Cut(c) /\ T3!Got(c) = 0) \/ (read[c] = PidL /\ T3!Got(c) = TimeL)
        /\ stage[c] = 2 => (Cut(c) /\ T3!Got(c) = 0) \/ l[c] + T3!Got(c) <= number[c]
        /\ read[c] + T3!Got(c) <= arrived[c]
<1>0. PidL \in Nat /\ TimeL \in Nat /\ PidL > 0 /\ TimeL > 0
  BY DEF T3!CollectorAssumption
<1>1. Told(c) /\ Streams(c) /\ InOrder(c)
  BY DEF T3Inv
<1>2. /\ number[c] \in Nat /\ sent[c] \in Nat /\ arrived[c] \in Nat /\ read[c] \in Nat /\ l[c] \in Nat
      /\ stage[c] \in -1 .. 3
  BY DEF T3Inv, T3Types
<1>3. /\ stage[c] \in 0 .. 2
      /\ arrived[c] > read[c] \/ (cpc[c] = "dead" /\ arrived[c] = sent[c])
  BY DEF T3!Ready
<1>4. /\ stage[c] = 0 => T3!Limit(c) = PidL
      /\ stage[c] = 1 => T3!Limit(c) = TimeL
      /\ stage[c] = 2 => T3!Limit(c) = number[c] - l[c]
  BY DEF T3!Limit
<1>5. CASE stage[c] = 0
  BY <1>0, <1>1, <1>2, <1>3, <1>4, <1>5 DEF Streams, InOrder, Cut, T3!Got
<1>6. CASE stage[c] = 1
  <2>1. Cut(c) \/ read[c] = PidL
    BY <1>1, <1>6 DEF InOrder
  <2>2. CASE Cut(c)
    <3>1. T3!Got(c) = 0
      BY <2>2, <1>0, <1>2, <1>4, <1>6 DEF Cut, T3!Got
    <3> QED
      BY <3>1, <2>2, <1>1, <1>2, <1>3, <1>6 DEF Streams
  <2>3. CASE read[c] = PidL /\ ~Cut(c)
    <3>1. arrived[c] >= PidL + TimeL
      BY <2>3, <1>0, <1>1, <1>2, <1>3 DEF Streams, Cut
    <3>2. T3!Got(c) = TimeL
      BY <3>1, <2>3, <1>0, <1>2, <1>4, <1>6 DEF T3!Got
    <3> QED
      BY <3>1, <3>2, <2>3, <1>0, <1>2, <1>3, <1>6
  <2> QED
    BY <2>1, <2>2, <2>3
<1>7. CASE stage[c] = 2
  <2>1. number[c] - l[c] \in Nat
    BY <1>1, <1>2, <1>7 DEF InOrder
  <2> QED
    BY <2>1, <1>0, <1>1, <1>2, <1>3, <1>4, <1>7 DEF Streams, InOrder, Cut, T3!Got
<1> QED
  BY <1>3, <1>5, <1>6, <1>7

\* accept takes a client from the queue and tells it a length, or does nothing.
LEMMA T3Accepts ==
  ASSUME T3Inv, T3!Accept
  PROVE /\ queue' \subseteq queue
        /\ \A c \in Clients :
             \/ /\ c \in queue \ queue' /\ number'[c] \in Numbers
                /\ number' = [number EXCEPT ![c] = number'[c]]
                /\ client' = Append(client, c)
             \/ c \notin queue \ queue' /\ number'[c] = number[c]
        /\ queue' = queue => client' = client /\ number' = number
<1>1. T3Types
  BY DEF T3Inv
<1>2. CASE queue = {}
  BY <1>1, <1>2 DEF T3!Accept, T3Types
<1>3. CASE queue # {}
  BY <1>1, <1>3 DEF T3!Accept, T3Types
<1> QED
  BY <1>2, <1>3

\* One turn of the server's loop: each connection has either just been
\* accepted, or been read, or is as it was.
LEMMA T3Rounds ==
  ASSUME T3!CollectorAssumption, T3Inv, T3!Round
  PROVE T3Inv'
<1>0. PidL \in Nat /\ TimeL \in Nat /\ PidL > 0 /\ TimeL > 0 /\ Numbers \subseteq Nat \ {0}
  BY DEF T3!CollectorAssumption
<1>k. T3Types /\ Slots /\ \A c \in Clients : Told(c) /\ Streams(c) /\ InOrder(c)
  BY DEF T3Inv
<1>1. /\ T3!Accept /\ spc = "loop"
      /\ cpc' = cpc /\ sent' = sent /\ arrived' = arrived /\ table' = table /\ spc' = spc
  BY DEF T3!Round, T3!clientVars
<1>2. ASSUME NEW c \in Clients
      PROVE /\ stage'[c] = IF c \in queue \ queue' THEN 0
                           ELSE IF c \in T3!Ready /\ T3!Complete(c) THEN stage[c] + 1 ELSE stage[c]
            /\ read'[c] = IF c \in T3!Ready THEN read[c] + T3!Got(c) ELSE read[c]
            /\ l'[c] = IF c \in T3!Ready /\ stage[c] = 2 THEN l[c] + T3!Got(c) ELSE l[c]
            /\ rec'[c] = IF c \in T3!Ready THEN T3!Field(c) ELSE rec[c]
  BY DEF T3!Round
<1>3. /\ stage' = [c \in Clients |-> stage'[c]] /\ read' = [c \in Clients |-> read'[c]]
      /\ l' = [c \in Clients |-> l'[c]] /\ rec' = [c \in Clients |-> rec'[c]]
  BY DEF T3!Round
<1>4. ASSUME NEW c \in Clients
      PROVE /\ number[c] \in Nat /\ sent[c] \in Nat /\ arrived[c] \in Nat /\ read[c] \in Nat /\ l[c] \in Nat
            /\ stage[c] \in -1 .. 3 /\ rec[c] \in [pid : Part, time : Part, str : Part]
  BY <1>k DEF T3Types
<1>5. ASSUME NEW c \in Clients, c \in queue \ queue'
      PROVE /\ Told(c)' /\ Streams(c)' /\ InOrder(c)' /\ stage'[c] = 0 /\ l'[c] = l[c]
            /\ read'[c] = read[c] /\ rec'[c] = rec[c]
  <2>0. Told(c) /\ Streams(c) /\ InOrder(c)
    BY <1>k
  <2>1. number[c] = 0 /\ stage[c] = -1 /\ cpc[c] # "start"
    BY <2>0, <1>5 DEF Told
  <2>2. c \notin T3!Ready
    BY <2>1 DEF T3!Ready
  <2>3. stage'[c] = 0 /\ read'[c] = read[c] /\ l'[c] = l[c] /\ rec'[c] = rec[c]
    BY <2>2, <1>2, <1>5
  <2>4. number'[c] \in Numbers /\ number'[c] # 0 /\ number'[c] \in Nat
    BY <1>1, <1>5, <1>0, T3Accepts
  <2>5. Told(c)'
    BY <2>1, <2>3, <2>4, <1>1, <1>5 DEF Told
  <2>6. Streams(c)'
    BY <2>0, <2>1, <2>3, <2>4, <1>1, <1>4, <1>0 DEF Streams, Told
  <2>7. InOrder(c)'
    BY <2>0, <2>1, <2>3 DEF InOrder
  <2> QED
    BY <2>3, <2>5, <2>6, <2>7
<1>6. ASSUME NEW c \in Clients, c \notin queue \ queue', c \notin T3!Ready
      PROVE /\ Told(c)' /\ Streams(c)' /\ InOrder(c)' /\ stage'[c] = stage[c] /\ l'[c] = l[c]
            /\ read'[c] = read[c] /\ rec'[c] = rec[c]
  <2>0. Told(c) /\ Streams(c) /\ InOrder(c)
    BY <1>k
  <2>3. stage'[c] = stage[c] /\ read'[c] = read[c] /\ l'[c] = l[c] /\ rec'[c] = rec[c]
    BY <1>2, <1>6
  <2>4. number'[c] = number[c] /\ (c \in queue' => c \in queue)
    BY <1>1, <1>6, T3Accepts
  <2>5. Told(c)'
    BY <2>0, <2>3, <2>4, <1>1 DEF Told
  <2>6. Streams(c)'
    BY <2>0, <2>3, <2>4, <1>1 DEF Streams
  <2>7. InOrder(c)'
    BY <2>0, <2>3, <2>4, <1>1 DEF InOrder, T3!Sent, Cut
  <2> QED
    BY <2>3, <2>5, <2>6, <2>7
<1>7. ASSUME NEW c \in Clients, c \in T3!Ready
      PROVE /\ Told(c)' /\ Streams(c)' /\ InOrder(c)' /\ stage'[c] \in {stage[c], stage[c] + 1} /\ stage[c] \in 0 .. 2
            /\ read'[c] \in Nat /\ l'[c] \in Nat /\ rec'[c] \in [pid : Part, time : Part, str : Part]
  <2>0. Told(c) /\ Streams(c) /\ InOrder(c)
    BY <1>k
  <2> DEFINE g == T3!Got(c)
  <2>1. /\ g \in Nat /\ stage[c] \in 0 .. 2
        /\ stage[c] = 0 => g = PidL \/ (Cut(c) /\ g = 0)
        /\ stage[c] = 1 => (Cut(c) /\ g = 0) \/ (read[c] = PidL /\ g = TimeL)
        /\ stage[c] = 2 => (Cut(c) /\ g = 0) \/ l[c] + g <= number[c]
        /\ read[c] + g <= arrived[c]
    BY <1>7, T3Reads
  <2>2. c \notin queue /\ number[c] # 0
    BY <2>0, <2>1 DEF Told
  <2>3. /\ stage'[c] = IF stage[c] < 2 \/ l[c] + g = number[c] THEN stage[c] + 1 ELSE stage[c]
        /\ read'[c] = read[c] + g /\ rec'[c] = T3!Field(c)
        /\ l'[c] = IF stage[c] = 2 THEN l[c] + g ELSE l[c]
    BY <2>2, <1>2, <1>7 DEF T3!Complete
  <2>4. number'[c] = number[c] /\ c \notin queue'
    BY <2>2, <1>1, T3Accepts
  <2>5. /\ stage[c] = 0 => T3!Field(c) = [rec[c] EXCEPT !.pid = <<read[c], g>>]
        /\ stage[c] = 1 => T3!Field(c) = [rec[c] EXCEPT !.time = <<read[c], g>>]
        /\ stage[c] = 2 /\ l[c] + g = number[c]
             => T3!Field(c) = [rec[c] EXCEPT !.str = <<read[c] - l[c], l[c] + g>>]
        /\ stage[c] = 2 /\ l[c] + g # number[c] => T3!Field(c) = rec[c]
    BY DEF T3!Field, T3!Complete
  <2> HIDE DEF g
  <2>6. Told(c)'
    BY <2>0, <2>1, <2>2, <2>3, <2>4, <1>1, <1>4 DEF Told
  <2>7. Streams(c)'
    BY <2>0, <2>1, <2>3, <2>4, <1>1, <1>4 DEF Streams
  <2>8. T3!Sent(c)' = T3!Sent(c) /\ (Cut(c) /\ g = 0 => Cut(c)')
    BY <2>3, <2>4, <1>1, <1>4 DEF T3!Sent, Cut
  <2>r. PICK p \in Part, t \in Part, x \in Part : rec[c] = [pid |-> p, time |-> t, str |-> x]
    <3>1. rec[c] \in [pid : Part, time : Part, str : Part]
      BY <1>4
    <3> QED
      BY <3>1
  <2>9. InOrder(c)' /\ rec'[c] \in [pid : Part, time : Part, str : Part]
    <3>1. CASE stage[c] = 0
      <4>1. rec'[c] = [pid |-> <<read[c], g>>, time |-> t, str |-> x] /\ <<read[c], g>> \in Part
        BY <3>1, <2>1, <2>3, <2>5, <2>r, <1>4 DEF Part
      <4>2. rec'[c] \in [pid : Part, time : Part, str : Part] /\ rec'[c].pid = <<read[c], g>>
        BY <4>1
      <4>3. stage'[c] = 1 /\ read[c] = 0 /\ l'[c] = 0 /\ read'[c] = g
        BY <3>1, <2>0, <2>1, <2>3, <1>4 DEF InOrder
      <4> QED
        BY <4>2, <4>3, <3>1, <2>1, <2>8 DEF InOrder
    <3>2. CASE stage[c] = 1
      <4>1. rec'[c] = [pid |-> p, time |-> <<read[c], g>>, str |-> x] /\ <<read[c], g>> \in Part
        BY <3>2, <2>1, <2>3, <2>5, <2>r, <1>4 DEF Part
      <4>2. /\ rec'[c] \in [pid : Part, time : Part, str : Part]
            /\ rec'[c].pid = rec[c].pid /\ rec'[c].time = <<read[c], g>>
        BY <4>1, <2>r
      <4>3. stage'[c] = 2 /\ l'[c] = 0 /\ read'[c] = read[c] + g
        BY <3>2, <2>0, <2>1, <2>3, <1>4 DEF InOrder
      <4>4. Cut(c) => g = 0
        BY <2>1, <1>4 DEF Cut
      <4>5. CASE Cut(c)
        <5>1. Cut(c)'
          BY <4>4, <4>5, <2>8
        <5> QED
          BY <5>1, <4>2, <4>3 DEF InOrder
      <4>6. CASE ~Cut(c)
        <5>1. read[c] = PidL /\ g = TimeL /\ rec[c].pid = <<0, PidL>>
          BY <4>6, <3>2, <2>0, <2>1 DEF InOrder
        <5>2. read'[c] = PidL + TimeL + l'[c] /\ l'[c] < number'[c]
          BY <5>1, <4>3, <2>2, <2>4, <1>4, <1>0
        <5> QED
          BY <5>1, <5>2, <4>2, <4>3 DEF InOrder
      <4> QED
        BY <4>2, <4>5, <4>6
    <3>3. CASE stage[c] = 2 /\ l[c] + g # number[c]
      <4>1. rec'[c] = rec[c] /\ stage'[c] = 2 /\ l'[c] = l[c] + g /\ read'[c] = read[c] + g
        BY <3>3, <2>1, <2>3, <2>5, <1>4
      <4>2. CASE Cut(c)
        <5>1. g = 0
          BY <4>2, <2>1, <1>4 DEF Cut
        <5> QED
          BY <5>1, <4>1, <4>2, <3>3, <2>0, <2>4, <2>8, <1>4 DEF InOrder
      <4>3. CASE ~Cut(c)
        BY <4>1, <4>3, <3>3, <2>0, <2>1, <2>4, <1>4, <1>0 DEF InOrder
      <4> QED
        BY <4>1, <4>2, <4>3, <1>4
    <3>4. CASE stage[c] = 2 /\ l[c] + g = number[c]
      <4>1. ~(Cut(c) /\ g = 0)
        BY <3>4, <2>0, <2>2, <1>4, <1>0 DEF InOrder
      <4>c. ~Cut(c)
        BY <4>1, <2>1, <1>4 DEF Cut
      <4>2. /\ read[c] = PidL + TimeL + l[c]
            /\ rec[c].pid = <<0, PidL>> /\ rec[c].time = <<PidL, TimeL>>
        BY <4>c, <3>4, <2>0 DEF InOrder
      <4>3. read[c] - l[c] = PidL + TimeL /\ l[c] + g = number[c]
        BY <4>2, <3>4, <1>0, <1>4
      <4>4. rec'[c] = [pid |-> p, time |-> t, str |-> <<PidL + TimeL, number[c]>>]
        BY <4>3, <3>4, <2>3, <2>5, <2>r
      <4>5. rec'[c] = T3!Sent(c) /\ <<PidL + TimeL, number[c]>> \in Part
        BY <4>2, <4>4, <2>r, <1>0, <1>4 DEF T3!Sent, Part
      <4>6. stage'[c] = 3 /\ l'[c] = number'[c]
        BY <3>4, <2>3, <2>4
      <4> QED
        BY <4>4, <4>5, <4>6, <2>8, <2>r DEF InOrder
    <3> QED
      BY <3>1, <3>2, <3>3, <3>4, <2>1
  <2>10. stage'[c] \in {stage[c], stage[c] + 1} /\ read'[c] \in Nat /\ l'[c] \in Nat
    BY <2>1, <2>3, <1>4
  <2> QED
    BY <2>1, <2>6, <2>7, <2>9, <2>10
<1>8. ASSUME NEW c \in Clients PROVE Told(c)' /\ Streams(c)' /\ InOrder(c)'
  BY <1>5, <1>6, <1>7
<1>9. T3Types'
  <2>1. /\ queue' \subseteq Clients /\ number' \in [Clients -> Nat] /\ client' \in Seq(Clients)
    <3>1. CASE queue = {}
      BY <3>1, <1>1, <1>k DEF T3!Accept, T3Types
    <3>2. CASE queue # {}
      <4>1. PICK c \in queue, n \in Numbers :
               /\ queue' = queue \ {c} /\ client' = Append(client, c)
               /\ number' = [number EXCEPT ![c] = n]
        BY <3>2, <1>1 DEF T3!Accept
      <4>2. n \in Nat /\ c \in Clients
        BY <4>1, <1>0, <1>k DEF T3Types
      <4> QED
        BY <4>1, <4>2, <1>k DEF T3Types
    <3> QED
      BY <3>1, <3>2
  <2>2. ASSUME NEW c \in Clients
        PROVE /\ read'[c] \in Nat /\ l'[c] \in Nat /\ stage'[c] \in -1 .. 3
              /\ rec'[c] \in [pid : Part, time : Part, str : Part]
    <3>1. CASE c \in queue \ queue'
      BY <3>1, <1>4, <1>5
    <3>2. CASE c \notin queue \ queue' /\ c \notin T3!Ready
      BY <3>2, <1>4, <1>6
    <3>3. CASE c \in T3!Ready
      BY <3>3, <1>7
    <3> QED
      BY <3>1, <3>2, <3>3
  <2>3. /\ read' \in [Clients -> Nat] /\ l' \in [Clients -> Nat]
    BY <2>2, <1>3
  <2>4. /\ stage' \in [Clients -> -1 .. 3]
    BY <2>2, <1>3
  <2>5. rec' \in [Clients -> [pid : Part, time : Part, str : Part]]
    BY <2>2, <1>3
  <2> QED
    BY <2>1, <2>3, <2>4, <2>5, <1>1, <1>k DEF T3Types
<1>10. Slots'
  <2>1. ASSUME NEW c \in Clients, c \notin queue \ queue' PROVE (stage'[c] = -1) <=> (stage[c] = -1)
    BY <2>1, <1>4, <1>6, <1>7
  <2>2. ASSUME NEW c \in queue PROVE stage[c] = -1 /\ c \in Clients
    BY <1>k DEF Told, T3Types
  <2>3. CASE queue' = queue
    <3>1. client' = client
      BY <2>3, <1>1, T3Accepts
    <3>2. \A i \in 1 .. Len(client) : client[i] \in Clients
      BY <1>k DEF T3Types
    <3> QED
      BY <3>1, <3>2, <2>1, <2>3, <1>k DEF Slots
  <2>4. CASE queue' # queue
    <3>1. PICK c \in queue : /\ queue' = queue \ {c} /\ client' = Append(client, c)
      BY <2>4, <1>1 DEF T3!Accept
    <3>2. c \in Clients /\ stage[c] = -1 /\ stage'[c] = 0
      BY <3>1, <2>2, <1>5
    <3>3. \A i \in 1 .. Len(client) : client[i] \in Clients /\ client[i] # c
      <4>1. \A i \in 1 .. Len(client) : client[i] \in Clients
        BY <1>k DEF T3Types
      <4>2. \A i \in 1 .. Len(client) : client[i] # c
        BY <3>2, <1>k DEF Slots
      <4> QED
        BY <4>1, <4>2
    <3>4. /\ Len(client') = Len(client) + 1 /\ Len(client) \in Nat /\ client'[Len(client) + 1] = c
          /\ \A i \in 1 .. Len(client) : client'[i] = client[i]
      BY <3>1, <3>2, <1>k DEF T3Types
    <3>5. \A d \in Clients \ {c} : (stage'[d] = -1) <=> (stage[d] = -1)
      BY <3>1, <2>1
    <3>6. \A i \in 1 .. Len(client') : stage'[client'[i]] # -1
      BY <3>2, <3>3, <3>4, <3>5, <1>k DEF Slots
    <3>7. \A i, j \in 1 .. Len(client') : client'[i] = client'[j] => i = j
      BY <3>3, <3>4, <1>k DEF Slots
    <3>8. ASSUME NEW d \in Clients, stage'[d] # -1 PROVE \E i \in 1 .. Len(client') : client'[i] = d
      <4>1. CASE d = c
        BY <4>1, <3>4
      <4>2. CASE d # c
        BY <4>2, <3>4, <3>5, <3>8, <1>k DEF Slots
      <4> QED
        BY <4>1, <4>2
    <3> QED
      BY <3>6, <3>7, <3>8 DEF Slots
  <2> QED
    BY <2>3, <2>4
<1>11. T3!StoredIsFinished'
  BY <1>1 DEF T3!StoredIsFinished
<1> QED
  BY <1>8, <1>9, <1>10, <1>11 DEF T3Inv

\* When all the slots are full, each finished client has one, and each slot a
\* finished client.
LEMMA T3Puts ==
  ASSUME T3!CollectorAssumption, T3Inv, T3!Put
  PROVE T3Inv'
<1>k. T3Types /\ Slots /\ \A c \in Clients : Told(c) /\ Streams(c) /\ InOrder(c)
  BY DEF T3Inv
<1>1. /\ cpc' = cpc /\ sent' = sent /\ arrived' = arrived /\ queue' = queue /\ number' = number
      /\ read' = read /\ client' = client /\ stage' = stage /\ l' = l /\ rec' = rec
      /\ spc' = "end" /\ table' = {rec[client[i]] : i \in 1 .. MaxClient}
      /\ T3!RecvedClient >= MaxClient
  BY DEF T3!Put, T3!clientVars
<1>2. T3Types' /\ Slots'
  BY <1>1, <1>k DEF T3Types, Slots
<1>3. ASSUME NEW c \in Clients PROVE Told(c)' /\ Streams(c)' /\ InOrder(c)'
  <2>0. Told(c) /\ Streams(c) /\ InOrder(c)
    BY <1>k
  <2>1. Told(c)'
    BY <2>0, <1>1 DEF Told
  <2>2. Streams(c)'
    BY <2>0, <1>1 DEF Streams
  <2>3. InOrder(c)'
    BY <2>0, <1>1 DEF InOrder, Cut, T3!Sent
  <2> QED
    BY <2>1, <2>2, <2>3
<1>4. ASSUME Len(client) = MaxClient PROVE table' = {rec[c] : c \in {d \in Clients : stage[d] = 3}}
  <2> DEFINE Done == {d \in Clients : stage[d] = 3}
             Held == {client[i] : i \in 1 .. Len(client)}
  <2>1. Len(client) \in Nat /\ \A i \in 1 .. Len(client) : client[i] \in Clients
    BY <1>k DEF T3Types
  <2>2. IsFiniteSet(1 .. Len(client)) /\ Cardinality(1 .. Len(client)) = Len(client)
    BY <2>1, FS_Interval
  <2>3. IsFiniteSet(Held) /\ Cardinality(Held) <= Len(client)
    <3>1. client \in [1 .. Len(client) -> Held]
      BY <1>k DEF T3Types
    <3>2. client \in Surjection(1 .. Len(client), Held)
      BY <3>1 DEF Surjection
    <3> HIDE DEF Held
    <3>3. IsFiniteSet(Held) /\ Cardinality(Held) <= Cardinality(1 .. Len(client))
      BY <3>2, <2>2, FS_Surjection, Zenon
    <3> QED
      BY <3>3, <2>2
  <2>4. Done \subseteq Held
    BY <1>k DEF Slots
  <2>5. IsFiniteSet(Done) /\ Cardinality(Done) <= Cardinality(Held)
        /\ (Cardinality(Done) = Cardinality(Held) => Done = Held)
    BY <2>3, <2>4, FS_Subset
  <2>6. Cardinality(Done) >= Len(client)
    <3>1. T3!RecvedClient = Cardinality(Done)
      BY Zenon DEF T3!RecvedClient, T3!Cardinality, Cardinality
    <3>2. T3!RecvedClient >= MaxClient /\ Len(client) = MaxClient
      BY <1>1, <1>4
    <3> HIDE DEF Done
    <3> QED
      BY <3>1, <3>2
  <2>7. Done = Held
    <3>1. Cardinality(Done) \in Nat /\ Cardinality(Held) \in Nat
      BY <2>3, <2>5, FS_CardinalityType
    <3> HIDE DEF Done, Held
    <3> QED
      BY <3>1, <2>1, <2>3, <2>5, <2>6
  <2>8. table' = {rec[c] : c \in Held}
    BY <1>1, <1>4
  <2> QED
    BY <2>7, <2>8
<1>5. T3!StoredIsFinished'
  BY <1>1, <1>4 DEF T3!StoredIsFinished
<1> QED
  BY <1>2, <1>3, <1>5 DEF T3Inv

\* A step that changes nothing keeps it.
LEMMA T3Stutters ==
  ASSUME T3Inv, UNCHANGED T3!vars PROVE T3Inv'
<1>1. /\ cpc' = cpc /\ sent' = sent /\ arrived' = arrived /\ queue' = queue /\ number' = number
      /\ read' = read /\ client' = client /\ stage' = stage /\ l' = l /\ rec' = rec
      /\ spc' = spc /\ table' = table
  BY DEF T3!vars, T3!clientVars, T3!serverVars
<1>2. T3Types' /\ Slots' /\ T3!StoredIsFinished'
  <2>1. T3Types'
    BY <1>1 DEF T3Inv, T3Types
  <2>2. Slots'
    BY <1>1 DEF T3Inv, Slots
  <2>3. T3!StoredIsFinished'
    BY <1>1 DEF T3Inv, T3!StoredIsFinished
  <2> QED
    BY <2>1, <2>2, <2>3
<1>3. ASSUME NEW c \in Clients PROVE Told(c)' /\ Streams(c)' /\ InOrder(c)'
  <2>0. Told(c) /\ Streams(c) /\ InOrder(c)
    BY DEF T3Inv
  <2>1. Told(c)'
    BY <2>0, <1>1 DEF Told
  <2>2. Streams(c)'
    BY <2>0, <1>1 DEF Streams
  <2>3. InOrder(c)'
    BY <2>0, <1>1 DEF InOrder, Cut, T3!Sent
  <2> QED
    BY <2>1, <2>2, <2>3
<1> QED
  BY <1>2, <1>3 DEF T3Inv

\* A server whose select fails has accepted nobody.
Unheard == sockMax = "negative" => client = <<>>

LEMMA T3Unheard == T3!Spec => []Unheard
<1>1. T3!Init => Unheard
  BY DEF T3!Init, Unheard
<1>2. Unheard /\ [T3!Next]_(T3!vars) => Unheard'
  <2> SUFFICES ASSUME Unheard, [T3!Next]_(T3!vars) PROVE Unheard'
    OBVIOUS
  <2>1. CASE T3!Round
    BY <2>1 DEF T3!Round, Unheard
  <2>2. CASE T3!Put \/ T3!SelectFails \/ UNCHANGED T3!vars
    BY <2>2 DEF T3!Put, T3!SelectFails, T3!vars, T3!serverVars, Unheard
  <2>3. ASSUME NEW c \in Clients, T3!Client(c) \/ T3!Die(c) PROVE Unheard'
    BY <2>3 DEF T3!Client, T3!Connect, T3!Greet, T3!Send, T3!Arrive, T3!Leave, T3!Die,
                T3!serverVars, Unheard
  <2> QED
    BY <2>1, <2>2, <2>3 DEF T3!Next
<1> QED
  BY <1>1, <1>2, PTL DEF T3!Spec

\* Then no slot is full.
LEMMA T3Fails ==
  ASSUME T3!CollectorAssumption, T3Inv, Unheard, T3!SelectFails PROVE T3Inv'
<1>1. /\ cpc' = cpc /\ sent' = sent /\ arrived' = arrived /\ queue' = queue /\ number' = number
      /\ read' = read /\ client' = client /\ stage' = stage /\ l' = l /\ rec' = rec
      /\ spc' = "end" /\ sockMax = "negative"
  BY DEF T3!SelectFails, T3!clientVars
<1>2. T3Types' /\ Slots'
  BY <1>1 DEF T3Inv, T3Types, Slots
<1>3. ASSUME NEW c \in Clients PROVE Told(c)' /\ Streams(c)' /\ InOrder(c)'
  <2>0. Told(c) /\ Streams(c) /\ InOrder(c)
    BY DEF T3Inv
  <2>1. Told(c)'
    BY <2>0, <1>1 DEF Told
  <2>2. Streams(c)'
    BY <2>0, <1>1 DEF Streams
  <2>3. InOrder(c)'
    BY <2>0, <1>1 DEF InOrder, Cut, T3!Sent
  <2> QED
    BY <2>1, <2>2, <2>3
<1>4. T3!StoredIsFinished'
  <2>1. Len(client) = 0
    BY <1>1 DEF Unheard
  <2>2. Len(client') # MaxClient
    BY <1>1, <2>1 DEF T3!CollectorAssumption
  <2> QED
    BY <2>2 DEF T3!StoredIsFinished
<1> QED
  BY <1>2, <1>3, <1>4 DEF T3Inv

\* It holds always.
THEOREM T3Invariance == T3!CollectorAssumption => (T3!Spec => []T3Inv)
<1> SUFFICES ASSUME T3!CollectorAssumption PROVE T3!Spec => []T3Inv
  OBVIOUS
<1>1. T3!Init => T3Inv
  BY T3Begins
<1>2. T3Inv /\ Unheard /\ [T3!Next]_(T3!vars) => T3Inv'
  BY T3Clients, T3Rounds, T3Puts, T3Fails, T3Stutters DEF T3!Next
<1> QED
  BY <1>1, <1>2, T3Unheard, PTL DEF T3!Spec

\* test3's collector never reads beyond what has come; a record it counts as finished holds the client's own
\* process id, time and whole string, also when other clients die; it stores
\* the finished records and nothing else.
THEOREM T3RecordsAreRight == T3!CollectorAssumption => (T3!Spec => []T3!RecordsAreRight)
<1> SUFFICES ASSUME T3!CollectorAssumption PROVE T3!Spec => []T3!RecordsAreRight
  OBVIOUS
<1>1. ASSUME T3Inv PROVE T3!RecordsAreRight
  <2>k. T3Types /\ Slots /\ T3!StoredIsFinished /\ \A c \in Clients : Told(c) /\ Streams(c) /\ InOrder(c)
    BY <1>1 DEF T3Inv
  <2>1. cpc \in [Clients -> DOMAIN T3!After \union {"start", "greet", "poll", "closed", "dead"}]
    <3>1. DOMAIN T3!After = {"pid", "time", "str"}
      BY DEF T3!After
    <3>2. {"start", "greet", "pid", "time", "str", "poll", "closed", "dead"}
            = {"pid", "time", "str"} \union {"start", "greet", "poll", "closed", "dead"}
      OBVIOUS
    <3> QED
      BY <3>1, <3>2, <2>k DEF T3Types
  <2>2. number \in [Clients -> Numbers \union {0}]
    BY <2>k DEF T3Types, Told
  <2>3. ASSUME NEW c \in Clients
        PROVE /\ 0 <= read[c] /\ read[c] <= arrived[c] /\ arrived[c] <= sent[c]
              /\ stage[c] \in -1 .. 3 /\ l[c] \in 0 .. number[c]
    <3>1. read[c] \in Nat /\ stage[c] \in -1 .. 3 /\ l[c] \in Nat /\ number[c] \in Nat
      BY <2>k DEF T3Types
    <3>2. read[c] <= arrived[c] /\ arrived[c] <= sent[c]
      BY <2>k DEF Streams
    <3>3. l[c] <= number[c]
      BY <3>1, <2>k DEF InOrder
    <3> QED
      BY <3>1, <3>2, <3>3
  <2>d. DOMAIN client = 1 .. Len(client)
    BY <2>k DEF T3Types
  <2>4. \A i, j \in DOMAIN client : client[i] = client[j] => i = j
    BY <2>d, <2>k DEF Slots
  <2>5. queue \cap {client[i] : i \in DOMAIN client} = {}
    <3>1. \A c \in queue : stage[c] = -1
      BY <2>k DEF Told, T3Types
    <3> QED
      BY <3>1, <2>d, <2>k DEF Slots
  <2>6. T3!FinishedIsRight
    BY <2>k DEF InOrder, T3!FinishedIsRight
  <2>7. spc \in {"loop", "end"}
    BY <2>k DEF T3Types
  <2> QED
    BY <2>k, <2>1, <2>2, <2>3, <2>4, <2>5, <2>6, <2>7 DEF T3!TypeOK, T3!RecordsAreRight
<1> QED
  BY <1>1, T3Invariance, PTL

-----------------------------------------------------------------------------
(* W0902-test3: the collector on Windows *)

\* The types of what the programs keep.
WinTypes ==
  /\ test \in [Sockets -> -2 .. 2] /\ status \in [Sockets -> -2 .. 3]
  /\ word \in [Sockets -> Nat] /\ datal \in [Sockets -> Nat] /\ msgl \in [Sockets -> Nat]
  /\ sent \in [Sockets -> Nat] /\ arrived \in [Sockets -> Nat] /\ read \in [Sockets -> Nat]
  /\ l \in [Sockets -> Nat]
  /\ sqlData \in [Sockets -> [pid : Part, time : Part, msg : Part]]

\* Both ends have the length of the greeting, each in its time.
Greeted(c) ==
  /\ test[c] = -2 => status[c] = -2
  /\ status[c] < 0 => msgl[c] = 0 /\ test[c] < 0
  /\ status[c] >= 0 => msgl[c] # 0
  /\ word[c] \in {0, msgl[c]}
  /\ test[c] >= 0 => datal[c] = msgl[c]

\* A client sends everything, or has not begun; short fields arrive whole.
Sending(c) ==
  /\ test[c] < 1 => sent[c] = 0
  /\ test[c] >= 1 => sent[c] = PidL + TimeL + msgl[c]
  /\ read[c] <= arrived[c] /\ arrived[c] <= sent[c]
  /\ arrived[c] \in {0, PidL, PidL + TimeL} \/ arrived[c] > PidL + TimeL

\* What the server has of each field, in the order of the fields.
WinOrder(c) ==
  /\ status[c] < 2 => l[c] = 0
  /\ status[c] <= 0 => read[c] = 0
  /\ status[c] = 1 => read[c] = PidL /\ sqlData[c].pid = <<0, PidL>>
  /\ status[c] = 2 => /\ read[c] = PidL + TimeL + l[c] /\ l[c] < msgl[c]
                      /\ sqlData[c].pid = <<0, PidL>> /\ sqlData[c].time = <<PidL, TimeL>>
  /\ status[c] = 3 => sqlData[c] = [pid |-> <<0, PidL>>, time |-> <<PidL, TimeL>>,
                                    msg |-> <<PidL + TimeL, msgl[c]>>]

\* The inductive invariant of the collector on Windows.
WinInv == WinTypes /\ \A c \in Sockets : Greeted(c) /\ Sending(c) /\ WinOrder(c)

\* Nothing of a connection has changed.
WinSame(c) ==
  /\ test'[c] = test[c] /\ status'[c] = status[c] /\ word'[c] = word[c] /\ datal'[c] = datal[c]
  /\ msgl'[c] = msgl[c] /\ sent'[c] = sent[c] /\ arrived'[c] = arrived[c] /\ read'[c] = read[c]
  /\ l'[c] = l[c] /\ sqlData'[c] = sqlData[c]

\* It goes by the connection.
LEMMA WinElsewhere ==
  ASSUME WinInv, NEW c \in Sockets, WinSame(c)
  PROVE  Greeted(c)' /\ Sending(c)' /\ WinOrder(c)'
<1>0. Greeted(c) /\ Sending(c) /\ WinOrder(c)
  BY DEF WinInv
<1>1. Greeted(c)'
  BY <1>0 DEF WinSame, Greeted
<1>2. Sending(c)'
  BY <1>0 DEF WinSame, Sending
<1>3. WinOrder(c)'
  BY <1>0 DEF WinSame, WinOrder
<1> QED
  BY <1>1, <1>2, <1>3

\* The steps of the client, of the network, and the greeting.
LEMMA WinSteps ==
  ASSUME Win!WinAssumption, WinInv, NEW c \in Sockets,
         Win!Connect(c) \/ Win!Turn(c) \/ Win!Arrive(c) \/ Win!Greet(c)
  PROVE  WinInv'
<1>0. PidL \in Nat /\ TimeL \in Nat /\ PidL > 0 /\ TimeL > 0 /\ Numbers \subseteq Nat \ {0}
  BY DEF Win!WinAssumption
<1>k. WinTypes /\ Greeted(c) /\ Sending(c) /\ WinOrder(c)
  BY DEF WinInv
<1>y. /\ test[c] \in -2 .. 2 /\ status[c] \in -2 .. 3 /\ word[c] \in Nat /\ datal[c] \in Nat
      /\ msgl[c] \in Nat /\ sent[c] \in Nat /\ arrived[c] \in Nat /\ read[c] \in Nat /\ l[c] \in Nat
  BY <1>k DEF WinTypes
<1>e. ASSUME \A d \in Sockets \ {c} : WinSame(d), Greeted(c)' /\ Sending(c)' /\ WinOrder(c)'
      PROVE  \A d \in Sockets : Greeted(d)' /\ Sending(d)' /\ WinOrder(d)'
  BY <1>e, WinElsewhere
<1>1. CASE Win!Connect(c)
  <2>1. /\ test[c] = -2 /\ test' = [test EXCEPT ![c] = -1] /\ status' = [status EXCEPT ![c] = -1]
        /\ word' = word /\ datal' = datal /\ msgl' = msgl /\ sent' = sent /\ arrived' = arrived
        /\ read' = read /\ l' = l /\ sqlData' = sqlData
    BY <1>1 DEF Win!Connect
  <2>2. WinTypes' /\ test'[c] = -1 /\ status'[c] = -1 /\ \A d \in Sockets \ {c} : WinSame(d)
    BY <2>1, <1>k DEF WinTypes, WinSame
  <2>3. Greeted(c)'
    BY <2>1, <2>2, <1>k, <1>y DEF Greeted
  <2>4. Sending(c)'
    BY <2>1, <2>2, <1>k, <1>y DEF Sending
  <2>5. WinOrder(c)'
    BY <2>1, <2>2, <1>k, <1>y DEF WinOrder, Greeted
  <2> QED
    BY <2>2, <2>3, <2>4, <2>5, <1>e DEF WinInv
<1>2. CASE Win!Turn(c)
  <2>1. /\ read' = read /\ status' = status /\ msgl' = msgl /\ l' = l /\ sqlData' = sqlData
        /\ arrived' = arrived
    BY <1>2 DEF Win!Turn, Win!serverVars
  <2>2. CASE test[c] = -1
    <3>1. /\ word[c] # 0 /\ datal' = [datal EXCEPT ![c] = word[c]] /\ word' = [word EXCEPT ![c] = 0]
          /\ test' = [test EXCEPT ![c] = 0] /\ sent' = sent
      BY <1>2, <2>2 DEF Win!Turn
    <3>2. /\ WinTypes' /\ test'[c] = 0 /\ word'[c] = 0 /\ datal'[c] = word[c]
          /\ \A d \in Sockets \ {c} : WinSame(d)
      BY <3>1, <2>1, <1>k DEF WinTypes, WinSame
    <3>3. Greeted(c)'
      BY <3>1, <3>2, <2>1, <1>k, <1>y DEF Greeted
    <3>4. Sending(c)'
      BY <3>1, <3>2, <2>1, <2>2, <1>k, <1>y DEF Sending
    <3>5. WinOrder(c)'
      BY <3>2, <2>1, <1>k DEF WinOrder
    <3> QED
      BY <3>2, <3>3, <3>4, <3>5, <1>e DEF WinInv
  <2>3. CASE test[c] = 0
    <3>1. /\ sent' = [sent EXCEPT ![c] = PidL + TimeL + datal[c]] /\ word' = word /\ datal' = datal
          /\ test' = [test EXCEPT ![c] = 1]
      BY <1>2, <2>3 DEF Win!Turn
    <3>2. /\ WinTypes' /\ test'[c] = 1 /\ sent'[c] = PidL + TimeL + datal[c]
          /\ \A d \in Sockets \ {c} : WinSame(d)
      BY <3>1, <2>1, <1>k, <1>0 DEF WinTypes, WinSame
    <3>3. Greeted(c)'
      BY <3>1, <3>2, <2>1, <2>3, <1>k, <1>y DEF Greeted
    <3>4. Sending(c)'
      BY <3>1, <3>2, <2>1, <2>3, <1>k, <1>y, <1>0 DEF Sending, Greeted
    <3>5. WinOrder(c)'
      BY <3>2, <2>1, <1>k DEF WinOrder
    <3> QED
      BY <3>2, <3>3, <3>4, <3>5, <1>e DEF WinInv
  <2>4. CASE test[c] = 1
    <3>1. /\ sent' = sent /\ word' = word /\ datal' = datal /\ test' = [test EXCEPT ![c] = 2]
      BY <1>2, <2>4 DEF Win!Turn
    <3>2. WinTypes' /\ test'[c] = 2 /\ \A d \in Sockets \ {c} : WinSame(d)
      BY <3>1, <2>1, <1>k DEF WinTypes, WinSame
    <3>3. Greeted(c)'
      BY <3>1, <3>2, <2>1, <2>4, <1>k, <1>y DEF Greeted
    <3>4. Sending(c)'
      BY <3>1, <3>2, <2>1, <2>4, <1>k, <1>y DEF Sending
    <3>5. WinOrder(c)'
      BY <3>2, <2>1, <1>k DEF WinOrder
    <3> QED
      BY <3>2, <3>3, <3>4, <3>5, <1>e DEF WinInv
  <2> QED
    BY <1>2, <2>2, <2>3, <2>4 DEF Win!Turn
<1>4. CASE Win!Arrive(c)
  <2>1. PICK n \in arrived[c] + 1 .. sent[c] :
           /\ n < sent[c] => n > PidL + TimeL \/ n \in {PidL, PidL + TimeL}
           /\ arrived' = [arrived EXCEPT ![c] = n]
    BY <1>4 DEF Win!Arrive
  <2>2. /\ test' = test /\ status' = status /\ word' = word /\ datal' = datal /\ msgl' = msgl
        /\ sent' = sent /\ read' = read /\ l' = l /\ sqlData' = sqlData
    BY <1>4 DEF Win!Arrive, Win!clientVars, Win!serverVars
  <2>3. n \in Nat
    BY <1>y
  <2>4. WinTypes' /\ arrived'[c] = n /\ \A d \in Sockets \ {c} : WinSame(d)
    BY <2>1, <2>2, <2>3, <1>k DEF WinTypes, WinSame
  <2>5. Greeted(c)'
    BY <2>2, <1>k DEF Greeted
  <2>6. Sending(c)'
    BY <2>1, <2>2, <2>4, <1>k, <1>y, <1>0 DEF Sending
  <2>7. WinOrder(c)'
    BY <2>2, <1>k DEF WinOrder
  <2> QED
    BY <2>4, <2>5, <2>6, <2>7, <1>e DEF WinInv
<1>5. CASE Win!Greet(c)
  <2>1. PICK n \in Numbers : msgl' = [msgl EXCEPT ![c] = n] /\ word' = [word EXCEPT ![c] = n]
    BY <1>5 DEF Win!Greet
  <2>2. /\ status[c] = -1 /\ l' = [l EXCEPT ![c] = 0] /\ status' = [status EXCEPT ![c] = 0]
        /\ test' = test /\ datal' = datal /\ sent' = sent /\ arrived' = arrived /\ read' = read
        /\ sqlData' = sqlData
    BY <1>5 DEF Win!Greet, Win!clientVars
  <2>3. n \in Nat /\ n # 0
    BY <1>0
  <2>4. /\ WinTypes' /\ msgl'[c] = n /\ word'[c] = n /\ l'[c] = 0 /\ status'[c] = 0
        /\ \A d \in Sockets \ {c} : WinSame(d)
    BY <2>1, <2>2, <2>3, <1>k DEF WinTypes, WinSame
  <2>5. Greeted(c)'
    BY <2>2, <2>3, <2>4, <1>k, <1>y DEF Greeted
  <2>6. Sending(c)'
    BY <2>2, <2>4, <1>k, <1>y DEF Sending, Greeted
  <2>7. WinOrder(c)'
    BY <2>2, <2>4, <1>k, <1>y DEF WinOrder
  <2> QED
    BY <2>4, <2>5, <2>6, <2>7, <1>e DEF WinInv
<1> QED
  BY <1>1, <1>2, <1>4, <1>5

\* A read of a connection, ready or not.
LEMMA WinReads ==
  ASSUME Win!WinAssumption, WinInv, NEW c \in Sockets, Win!Recv(c)
  PROVE  WinInv'
<1>0. PidL \in Nat /\ TimeL \in Nat /\ PidL > 0 /\ TimeL > 0
  BY DEF Win!WinAssumption
<1>k. WinTypes /\ Greeted(c) /\ Sending(c) /\ WinOrder(c)
  BY DEF WinInv
<1>y. /\ status[c] \in 0 .. 2 /\ msgl[c] \in Nat /\ sent[c] \in Nat /\ arrived[c] \in Nat
      /\ read[c] \in Nat /\ l[c] \in Nat /\ sqlData[c] \in [pid : Part, time : Part, msg : Part]
  BY <1>k DEF WinTypes, Win!Recv
<1> DEFINE g == Win!Ret(c)
<1>1. /\ status[c] = 0 => Win!Limit(c) = PidL
      /\ status[c] = 1 => Win!Limit(c) = TimeL
      /\ status[c] = 2 => Win!Limit(c) = msgl[c] - l[c]
  BY DEF Win!Limit
<1>2. /\ g \in Nat /\ read[c] + g <= arrived[c]
      /\ status[c] = 0 => g \in {0, PidL}
      /\ status[c] = 1 => g \in {0, TimeL}
      /\ status[c] = 2 => l[c] + g <= msgl[c]
  <2>1. CASE status[c] = 0
    BY <2>1, <1>0, <1>1, <1>k, <1>y DEF Sending, WinOrder, Win!Ret
  <2>2. CASE status[c] = 1
    <3>1. read[c] = PidL
      BY <2>2, <1>k DEF WinOrder
    <3>2. arrived[c] = PidL \/ arrived[c] >= PidL + TimeL
      BY <3>1, <1>0, <1>k, <1>y DEF Sending
    <3> QED
      BY <2>2, <3>1, <3>2, <1>0, <1>1, <1>y DEF Win!Ret
  <2>3. CASE status[c] = 2
    <3>1. l[c] < msgl[c] /\ read[c] <= arrived[c]
      BY <2>3, <1>k DEF WinOrder, Sending
    <3> QED
      BY <2>3, <3>1, <1>1, <1>y DEF Win!Ret
  <2> QED
    BY <2>1, <2>2, <2>3, <1>y
<1>3. /\ Win!Complete(c) <=> IF status[c] < 2 THEN g > 0 ELSE l[c] + g = msgl[c]
      /\ status' = [status EXCEPT ![c] = IF Win!Complete(c) THEN status[c] + 1 ELSE status[c]]
      /\ sqlData' = [sqlData EXCEPT ![c] = IF g > 0 \/ Win!Complete(c) THEN Win!Field(c) ELSE sqlData[c]]
      /\ read' = [read EXCEPT ![c] = read[c] + g]
      /\ l' = IF status[c] = 2 THEN [l EXCEPT ![c] = l[c] + g] ELSE l
      /\ test' = test /\ datal' = datal /\ sent' = sent /\ msgl' = msgl /\ word' = word
      /\ arrived' = arrived
  BY Zenon DEF Win!Recv, Win!Complete, Win!clientVars
<1>4. /\ status[c] = 0 => Win!Field(c) = [sqlData[c] EXCEPT !.pid = <<read[c], g>>]
      /\ status[c] = 1 => Win!Field(c) = [sqlData[c] EXCEPT !.time = <<read[c], g>>]
      /\ status[c] = 2 => Win!Field(c) = [sqlData[c] EXCEPT !.msg = <<read[c] - l[c], l[c] + g>>]
  BY DEF Win!Field
<1> HIDE DEF g
<1>r. PICK p \in Part, t \in Part, x \in Part : sqlData[c] = [pid |-> p, time |-> t, msg |-> x]
  <2>1. sqlData[c] \in [pid : Part, time : Part, msg : Part]
    BY <1>y
  <2> QED
    BY <2>1
<1> DEFINE new == IF g > 0 \/ Win!Complete(c) THEN Win!Field(c) ELSE sqlData[c]
<1>5. /\ new \in [pid : Part, time : Part, msg : Part]
      /\ WinOrder(c)' \/ sqlData'[c] # new
  <2>a. sqlData'[c] = new
    BY <1>3, <1>k DEF WinTypes
  <2>b. /\ read'[c] = read[c] + g
        /\ l'[c] = IF status[c] = 2 THEN l[c] + g ELSE l[c]
        /\ status'[c] = IF Win!Complete(c) THEN status[c] + 1 ELSE status[c]
    BY <1>3, <1>k DEF WinTypes
  <2>1. CASE ~(g > 0 \/ Win!Complete(c))
    <3>1. g = 0 /\ new = sqlData[c] /\ status'[c] = status[c]
      BY <2>1, <2>b, <1>2
    <3> HIDE DEF new
    <3>2. read'[c] = read[c] /\ l'[c] = l[c]
      BY <3>1, <2>b, <1>y
    <3> QED
      BY <3>1, <3>2, <2>a, <1>3, <1>k, <1>y DEF WinOrder
  <2>2. CASE (g > 0 \/ Win!Complete(c)) /\ status[c] = 0
    <3>1. g = PidL /\ Win!Complete(c) /\ read[c] = 0 /\ l[c] = 0
      BY <2>2, <1>0, <1>2, <1>3, <1>k DEF WinOrder
    <3>2. new = [pid |-> <<0, PidL>>, time |-> t, msg |-> x] /\ <<0, PidL>> \in Part
      BY <2>2, <3>1, <1>4, <1>r, <1>0 DEF Part
    <3> HIDE DEF new
    <3>3. new \in [pid : Part, time : Part, msg : Part] /\ new.pid = <<0, PidL>>
      BY <3>2
    <3>4. status'[c] = 1 /\ read'[c] = PidL /\ l'[c] = 0
      BY <2>2, <2>b, <3>1, <1>0
    <3> QED
      BY <3>3, <3>4, <2>a DEF WinOrder
  <2>3. CASE (g > 0 \/ Win!Complete(c)) /\ status[c] = 1
    <3>1. g = TimeL /\ Win!Complete(c) /\ read[c] = PidL /\ l[c] = 0 /\ sqlData[c].pid = <<0, PidL>>
      BY <2>3, <1>0, <1>2, <1>3, <1>k DEF WinOrder
    <3>2. new = [pid |-> p, time |-> <<PidL, TimeL>>, msg |-> x] /\ <<PidL, TimeL>> \in Part
      BY <2>3, <3>1, <1>4, <1>r, <1>0 DEF Part
    <3> HIDE DEF new
    <3>3. /\ new \in [pid : Part, time : Part, msg : Part]
          /\ new.pid = <<0, PidL>> /\ new.time = <<PidL, TimeL>>
      BY <3>1, <3>2, <1>r
    <3>4. status'[c] = 2 /\ read'[c] = PidL + TimeL + l'[c] /\ l'[c] = 0
      BY <2>3, <2>b, <3>1, <1>0
    <3>5. msgl'[c] > 0
      BY <2>3, <1>3, <1>k, <1>y DEF Greeted
    <3> QED
      BY <3>3, <3>4, <3>5, <2>a DEF WinOrder
  <2>4. CASE (g > 0 \/ Win!Complete(c)) /\ status[c] = 2
    <3>1. /\ read[c] = PidL + TimeL + l[c]
          /\ sqlData[c].pid = <<0, PidL>> /\ sqlData[c].time = <<PidL, TimeL>>
      BY <2>4, <1>k DEF WinOrder
    <3>2. read[c] - l[c] = PidL + TimeL
      BY <3>1, <1>0, <1>y
    <3>3. new = [pid |-> p, time |-> t, msg |-> <<PidL + TimeL, l[c] + g>>]
      BY <2>4, <3>2, <1>4, <1>r
    <3>4. <<PidL + TimeL, l[c] + g>> \in Part /\ p = <<0, PidL>> /\ t = <<PidL, TimeL>>
      BY <3>1, <1>r, <1>0, <1>2, <1>y DEF Part
    <3> HIDE DEF new
    <3>5. /\ new \in [pid : Part, time : Part, msg : Part]
          /\ new.pid = <<0, PidL>> /\ new.time = <<PidL, TimeL>>
      BY <3>3, <3>4
    <3>6. CASE Win!Complete(c)
      <4>1. status'[c] = 3 /\ l[c] + g = msgl'[c]
        BY <2>4, <2>b, <3>6, <1>3
      <4> QED
        BY <4>1, <3>3, <3>4, <3>5, <2>a DEF WinOrder
    <3>7. CASE ~Win!Complete(c)
      <4>1. status'[c] = 2 /\ l'[c] = l[c] + g /\ l'[c] < msgl'[c] /\ read'[c] = PidL + TimeL + l'[c]
        BY <2>4, <2>b, <3>1, <3>7, <1>0, <1>2, <1>3, <1>y
      <4> QED
        BY <4>1, <3>5, <2>a DEF WinOrder
    <3> QED
      BY <3>6, <3>7
  <2> QED
    BY <2>1, <2>2, <2>3, <2>4, <1>y
<1>6. WinTypes' /\ sqlData'[c] = new /\ \A d \in Sockets \ {c} : WinSame(d)
  <2>1. read[c] + g \in Nat /\ l[c] + g \in Nat
    BY <1>2, <1>y
  <2>2. sqlData' = [sqlData EXCEPT ![c] = new]
    BY <1>3
  <2> HIDE DEF new
  <2> QED
    BY <2>1, <2>2, <1>3, <1>5, <1>y, <1>k DEF WinTypes, WinSame
<1>7. Greeted(c)'
  <2>1. status'[c] \in 0 .. 3 /\ msgl' = msgl /\ word' = word /\ datal' = datal /\ test' = test
    BY <1>3, <1>y, <1>k DEF WinTypes
  <2> QED
    BY <2>1, <1>k, <1>y DEF Greeted
<1>8. Sending(c)'
  <2>1. read'[c] = read[c] + g
    BY <1>3, <1>k DEF WinTypes
  <2> QED
    BY <2>1, <1>2, <1>3, <1>k DEF Sending
<1> HIDE DEF new
<1> QED
  BY <1>5, <1>6, <1>7, <1>8, WinElsewhere DEF WinInv

\* It holds always.
THEOREM WinInvariance == Win!WinAssumption => (Win!Spec => []WinInv)
<1> SUFFICES ASSUME Win!WinAssumption PROVE Win!Spec => []WinInv
  OBVIOUS
<1>1. Win!Init => WinInv
  <2> SUFFICES ASSUME Win!Init PROVE WinInv
    OBVIOUS
  <2>1. WinTypes
    BY DEF Win!Init, WinTypes, Part
  <2>2. \A c \in Sockets : Greeted(c) /\ Sending(c) /\ WinOrder(c)
    BY DEF Win!Init, Greeted, Sending, WinOrder, Win!WinAssumption
  <2> QED
    BY <2>1, <2>2 DEF WinInv
<1>2. WinInv /\ [Win!Next]_(Win!vars) => WinInv'
  <2> SUFFICES ASSUME WinInv, [Win!Next]_(Win!vars) PROVE WinInv'
    OBVIOUS
  <2>1. ASSUME \A d \in Sockets : WinSame(d), WinTypes' PROVE WinInv'
    <3>1. ASSUME NEW d \in Sockets PROVE Greeted(d)' /\ Sending(d)' /\ WinOrder(d)'
      BY <2>1, WinElsewhere
    <3> QED
      BY <2>1, <3>1 DEF WinInv
  <2>2. CASE Win!Put \/ UNCHANGED Win!vars
    <3>1. /\ test' = test /\ status' = status /\ word' = word /\ datal' = datal /\ msgl' = msgl
          /\ sent' = sent /\ arrived' = arrived /\ read' = read /\ l' = l /\ sqlData' = sqlData
      BY <2>2 DEF Win!Put, Win!vars, Win!clientVars, Win!serverVars
    <3> QED
      BY <3>1, <2>1 DEF WinSame, WinInv, WinTypes
  <2>3. ASSUME NEW c \in Sockets, Win!Client(c) \/ Win!Arrive(c) \/ Win!Server(c) PROVE WinInv'
    BY <2>3, WinSteps, WinReads DEF Win!Client, Win!Server
  <2> QED
    BY <2>2, <2>3 DEF Win!Next
<1> QED
  BY <1>1, <1>2, PTL DEF Win!Spec

\* W0902-test3's collector: a finished record holds the process id, the time
\* and the whole string of its own connection.
THEOREM WinFinishedIsRight == Win!WinAssumption => (Win!Spec => []Win!FinishedIsRight)
<1>1. WinInv => Win!FinishedIsRight
  BY DEF WinInv, WinOrder, Win!FinishedIsRight
<1> QED
  BY <1>1, WinInvariance, PTL

\* It also stores the records of all its connections, each complete: what puts
\* them into the table is the number of those that are.
THEOREM WinRecordsAreRight == Win!WinAssumption => (Win!Spec => []Win!RecordsAreRight)
<1> SUFFICES ASSUME Win!WinAssumption PROVE Win!Spec => []Win!RecordsAreRight
  OBVIOUS
<1> USE DEF Win!StoredIsFinished
<1>1. Win!Init => Win!StoredIsFinished
  BY DEF Win!Init
<1>2. WinInv /\ Win!StoredIsFinished /\ [Win!Next]_(Win!vars) => Win!StoredIsFinished'
  <2> SUFFICES ASSUME WinInv, Win!StoredIsFinished, [Win!Next]_(Win!vars) PROVE Win!StoredIsFinished'
    OBVIOUS
  <2>1. CASE Win!Put
    <3>1. status' = status /\ sqlData' = sqlData /\ table' = {sqlData[c] : c \in Sockets}
      BY <2>1 DEF Win!Put
    <3>5. Win!comp = Cardinality(Sockets)
      BY <2>1, Zenon DEF Win!Put, Win!Cardinality, Cardinality
    <3>2. {c \in Sockets : status[c] = 3} = Sockets
      <4> DEFINE Ended == {c \in Sockets : status[c] = 3}
      <4>1. Ended \in SUBSET Sockets
        OBVIOUS
      <4>4. Cardinality(Ended) = Cardinality(Sockets)
        BY <3>5, Zenon DEF Win!comp, Win!Cardinality, Cardinality
      <4>2. IsFiniteSet(Sockets)
        BY Zenon DEF Win!WinAssumption, Win!IsFiniteSet, IsFiniteSet
      <4> HIDE DEF Ended
      <4>3. Ended = Sockets
        BY <4>1, <4>2, <4>4, FS_Subset
      <4> QED
        BY <4>3 DEF Ended
    <3>3. \A c \in Sockets : status'[c] = 3
      BY <3>1, <3>2
    <3>4. table' = {sqlData'[c] : c \in Sockets}
      BY <3>1
    <3> QED
      BY <3>3, <3>4
  <2>2. CASE spc = "loop" /\ spc' = spc
    BY <2>2
  <2>3. CASE spc' = spc /\ table' = table /\ status' = status /\ sqlData' = sqlData
    BY <2>3
  <2>4. ASSUME NEW c \in Sockets, Win!Connect(c) PROVE Win!StoredIsFinished'
    <3>1. status[c] = -2 /\ spc' = spc
      BY <2>4 DEF Win!Connect, WinInv, Greeted
    <3> QED
      BY <3>1
  <2>5. \A c \in Sockets : Win!Greet(c) \/ Win!Recv(c) => spc = "loop" /\ spc' = spc
    BY DEF Win!Greet, Win!Recv
  <2>6. (\E c \in Sockets : Win!Turn(c) \/ Win!Arrive(c)) \/ UNCHANGED Win!vars
          => spc' = spc /\ table' = table /\ status' = status /\ sqlData' = sqlData
    BY DEF Win!Turn, Win!Arrive, Win!vars, Win!serverVars
  <2> QED
    BY <2>1, <2>2, <2>3, <2>4, <2>5, <2>6 DEF Win!Next, Win!Client, Win!Server
<1>3. Win!FinishedIsRight /\ Win!StoredIsFinished => Win!RecordsAreRight
  BY DEF Win!RecordsAreRight
<1> QED
  BY <1>1, <1>2, <1>3, WinInvariance, WinFinishedIsRight, PTL DEF Win!Spec

-----------------------------------------------------------------------------
(* W0802-test1 and W0802-test2: a child for each connection *)

\* The records, and what a field can hold.
ForkPart == {None, Junk} \union (Nat \X Nat)
ForkRows == [pid : ForkPart, time : ForkPart, str : ForkPart]

\* The types of what the programs keep; no word is one a client that has ended
\* could wait for.
ForkTypes ==
  /\ cpc \in [Clients -> {"start", "pid", "time", "str", "end", "done", "pidtimestr", "dead"}]
  /\ words \in [Clients -> Seq({"pid", "time", "str", "end", "pidtimestr"})]
  /\ spc \in [Clients -> {"none", "queued", "greet", "pid", "time", "str", "drain", "exit", "killed"}]
  /\ sent \in [Clients -> Nat] /\ arrived \in [Clients -> Nat] /\ read \in [Clients -> Nat]
  /\ number \in [Clients -> Numbers \union {0}]
  /\ row \in [Clients -> ForkRows] /\ table \subseteq Clients

\* The bytes before the string, and the word that asks for the first.
Both == PidL + TimeL
FirstWord == IF OneByOne THEN "pid" ELSE "pidtimestr"

\* Where a client that lives, the words to it and its child are together.
ForkAt(cp, wo, sp) ==
  \/ sp = "none" /\ cp = "start" /\ wo = <<>>
  \/ sp \in {"queued", "greet"} /\ cp = FirstWord /\ wo = <<>>
  \/ sp = "pid" /\ OneByOne /\ ((wo = <<"pid">> /\ cp = "pid") \/ (wo = <<>> /\ cp = "time"))
  \/ sp = "time" /\ OneByOne /\ ((wo = <<"time">> /\ cp = "time") \/ (wo = <<>> /\ cp = "str"))
  \/ sp = "str" /\ OneByOne /\ ((wo = <<"str">> /\ cp = "str") \/ (wo = <<>> /\ cp = "end"))
  \/ sp = "pid" /\ ~OneByOne /\ wo = <<"pidtimestr">> /\ cp = "pidtimestr"
  \/ sp \in {"pid", "time", "str"} /\ ~OneByOne /\ wo = <<>> /\ cp \in {"pid", "time", "str", "end"}
  \/ sp = "drain" /\ ((wo = <<"end">> /\ cp = "end") \/ (wo = <<>> /\ cp = "done"))
  \/ sp = "exit" /\ wo = <<>> /\ cp = "done"

\* What it has sent goes by its place, and what was taken by the child's; the
\* short fields arrive whole.
ForkBytes(c) ==
  /\ cpc[c] \in {"start", "pidtimestr", "pid"} => sent[c] = 0
  /\ cpc[c] = "time" => sent[c] = PidL
  /\ cpc[c] = "str" => sent[c] = Both
  /\ cpc[c] \in {"end", "done"} => sent[c] = Both + number[c]
  /\ arrived[c] \in {0, PidL, Both} \/ (arrived[c] > Both /\ (Pieces \/ arrived[c] = Both + number[c]))
  /\ spc[c] \in {"none", "queued", "greet", "pid"} => read[c] = 0
  /\ spc[c] = "time" => read[c] = PidL
  /\ spc[c] = "str" => read[c] = Both

\* The fields the child has taken are right.
ForkRight(c) ==
  /\ spc[c] \in {"time", "str", "drain", "exit"} => row[c].pid = <<0, PidL>>
  /\ spc[c] \in {"str", "drain", "exit"} => row[c].time = <<PidL, TimeL>>
  /\ spc[c] \in {"drain", "exit"} =>
       /\ ~Pieces => row[c].str = IF OneByOne THEN Fork!Kept(<<Both, number[c]>>) ELSE <<Both, number[c]>>
       /\ ~OneByOne => \E n \in 1 .. number[c] : row[c].str = <<Both, n>>

\* Of a client that lives.
ForkAlive(c) ==
  cpc[c] # "dead" => ForkAt(cpc[c], words[c], spc[c]) /\ ForkBytes(c) /\ ForkRight(c)

ForkBounds(c) == read[c] <= arrived[c] /\ arrived[c] <= sent[c]

\* The inductive invariant of the collectors with a child for each connection.
ForkInv == /\ ForkTypes /\ Fork!InsertedLast
           /\ \A c \in Clients : ForkBounds(c) /\ ForkAlive(c)

\* Nothing of a client and its child has changed.
ForkSame(c) ==
  /\ cpc'[c] = cpc[c] /\ words'[c] = words[c] /\ spc'[c] = spc[c] /\ sent'[c] = sent[c]
  /\ arrived'[c] = arrived[c] /\ read'[c] = read[c] /\ number'[c] = number[c] /\ row'[c] = row[c]

\* A step of one client, its child or its network; a client in the table is
\* left where it is.
LEMMA ForkOf ==
  ASSUME ForkInv, NEW c \in Clients, ForkTypes', ForkBounds(c)', ForkAlive(c)',
         \A d \in Clients \ {c} : ForkSame(d),
         table' = table, c \in table => spc'[c] = "exit" /\ cpc'[c] \in {"done", "dead"}
  PROVE  ForkInv'
<1>1. ASSUME NEW d \in Clients \ {c} PROVE ForkBounds(d)' /\ ForkAlive(d)'
  <2>1. ForkBounds(d) /\ ForkAlive(d) /\ ForkSame(d)
    BY DEF ForkInv
  <2>2. ForkBounds(d)'
    BY <2>1 DEF ForkBounds, ForkSame
  <2>3. ForkBytes(d) => ForkBytes(d)'
    BY <2>1 DEF ForkBytes, ForkSame
  <2>4. ForkRight(d) => ForkRight(d)'
    BY <2>1 DEF ForkRight, ForkSame, Fork!Kept
  <2>5. ForkAt(cpc[d], words[d], spc[d]) => ForkAt(cpc[d], words[d], spc[d])'
    BY <2>1, Zenon DEF ForkAt, ForkSame
  <2>6. cpc'[d] = cpc[d]
    BY <2>1 DEF ForkSame
  <2> QED
    BY <2>1, <2>2, <2>3, <2>4, <2>5, <2>6 DEF ForkAlive
<1>2. Fork!InsertedLast'
  <2>1. ASSUME NEW d \in table' PROVE cpc'[d] \in {"done", "dead"} /\ spc'[d] = "exit"
    <3>1. d \in table /\ d \in Clients /\ cpc[d] \in {"done", "dead"} /\ spc[d] = "exit"
      BY <2>1 DEF ForkInv, ForkTypes, Fork!InsertedLast
    <3>2. CASE d # c
      BY <3>1, <3>2 DEF ForkSame
    <3> QED
      BY <3>1, <3>2
  <2> QED
    BY <2>1 DEF Fork!InsertedLast
<1> QED
  BY <1>1, <1>2 DEF ForkInv

\* The client connects.
LEMMA ForkConnects ==
  ASSUME Fork!ForkAssumption, ForkInv, NEW c \in Clients, Fork!Connect(c)
  PROVE  ForkInv'
<1>1. /\ cpc[c] = "start" /\ cpc' = [cpc EXCEPT ![c] = FirstWord]
      /\ spc' = [spc EXCEPT ![c] = "queued"]
      /\ sent' = sent /\ words' = words /\ number' = number /\ row' = row /\ read' = read
      /\ arrived' = arrived /\ table' = table
  BY DEF Fork!Connect, FirstWord
<1>k. ForkTypes /\ ForkBounds(c) /\ ForkAlive(c) /\ Fork!InsertedLast
  BY DEF ForkInv
<1>2. ForkTypes' /\ \A d \in Clients \ {c} : ForkSame(d)
  BY <1>1, <1>k DEF ForkTypes, ForkSame, FirstWord
<1>3. /\ cpc'[c] = FirstWord /\ spc'[c] = "queued" /\ words'[c] = words[c]
      /\ sent'[c] = sent[c] /\ arrived'[c] = arrived[c] /\ read'[c] = read[c] /\ number'[c] = number[c]
  BY <1>1, <1>k DEF ForkTypes
<1>4. ForkAt(cpc[c], words[c], spc[c]) /\ ForkBytes(c)
  BY <1>1, <1>k DEF ForkAlive
<1>5. spc[c] = "none" /\ words[c] = <<>>
  BY <1>1, <1>4 DEF ForkAt, FirstWord
<1>6. ForkAt(cpc[c], words[c], spc[c])'
  BY <1>3, <1>5 DEF ForkAt
<1>7. ForkBytes(c)'
  BY <1>1, <1>3, <1>4, <1>5 DEF ForkBytes, FirstWord
<1>8. ForkBounds(c)' /\ ForkRight(c)'
  BY <1>3, <1>k DEF ForkBounds, ForkRight
<1>9. c \notin table
  BY <1>1, <1>k DEF Fork!InsertedLast
<1> QED
  BY <1>1, <1>2, <1>6, <1>7, <1>8, <1>9, ForkOf DEF ForkAlive

\* What a client does when it has a word, or a field to send.
ForkTurn(c, cp, sn) ==
  \/ /\ OneByOne /\ words[c] = <<cpc[c]>> /\ spc[c] = cpc[c]
     /\ \/ cpc[c] = "pid" /\ cp = "time" /\ sn = sent[c] + PidL
        \/ cpc[c] = "time" /\ cp = "str" /\ sn = sent[c] + TimeL
        \/ cpc[c] = "str" /\ cp = "end" /\ sn = sent[c] + number[c]
  \/ cpc[c] = "end" /\ words[c] = <<"end">> /\ spc[c] = "drain" /\ cp = "done" /\ sn = sent[c]
  \/ /\ ~OneByOne /\ cpc[c] = "pidtimestr" /\ words[c] = <<"pidtimestr">> /\ spc[c] = "pid"
     /\ cp = "pid" /\ sn = sent[c]
  \/ /\ ~OneByOne /\ words[c] = <<>> /\ spc[c] \in {"pid", "time", "str"}
     /\ \/ cpc[c] = "pid" /\ cp = "time" /\ sn = sent[c] + PidL
        \/ cpc[c] = "time" /\ cp = "str" /\ sn = sent[c] + TimeL
        \/ cpc[c] = "str" /\ cp = "end" /\ sn = sent[c] + number[c]

\* Each of them keeps the invariant.
LEMMA ForkTurns ==
  ASSUME Fork!ForkAssumption, ForkInv, NEW c \in Clients, NEW cp, NEW sn, ForkTurn(c, cp, sn),
         spc' = spc, number' = number, row' = row, read' = read, arrived' = arrived, table' = table,
         cpc' = [cpc EXCEPT ![c] = cp], sent' = [sent EXCEPT ![c] = sn],
         words' = [words EXCEPT ![c] = <<>>]
  PROVE  ForkInv'
<1>k. ForkTypes /\ ForkBounds(c) /\ ForkAlive(c) /\ Fork!InsertedLast
  BY DEF ForkInv
<1>n. PidL \in Nat \ {0} /\ TimeL \in Nat \ {0} /\ number[c] \in Nat /\ sent[c] \in Nat /\ arrived[c] \in Nat
  <2>1. PidL \in Nat \ {0} /\ TimeL \in Nat \ {0} /\ Numbers \subseteq Nat
    BY DEF Fork!ForkAssumption
  <2>2. number[c] \in Numbers \union {0} /\ sent[c] \in Nat /\ arrived[c] \in Nat
    BY <1>k DEF ForkTypes
  <2>3. Numbers \union {0} \subseteq Nat
    BY <2>1
  <2> QED
    BY <2>1, <2>2, <2>3, Zenon
<1>1. cpc[c] \in {"pid", "time", "str", "end", "pidtimestr"} /\ cp \in {"pid", "time", "str", "end", "done"}
  BY DEF ForkTurn
<1>2. sn \in Nat /\ sent[c] <= sn
  <2>1. sn \in {sent[c], sent[c] + PidL, sent[c] + TimeL, sent[c] + number[c]}
    BY Zenon DEF ForkTurn
  <2> QED
    BY <1>n, <2>1
<1>3. ForkTypes'
  <2>1. sent' \in [Clients -> Nat]
    BY <1>2, <1>k DEF ForkTypes
  <2>2. words' \in [Clients -> Seq({"pid", "time", "str", "end", "pidtimestr"})]
    BY <1>k DEF ForkTypes
  <2>3. cpc' \in [Clients -> {"start", "pid", "time", "str", "end", "done", "pidtimestr", "dead"}]
    BY <1>1, <1>k DEF ForkTypes
  <2> QED
    BY <2>1, <2>2, <2>3, <1>k DEF ForkTypes
<1>4. \A d \in Clients \ {c} : ForkSame(d)
  BY <1>k DEF ForkTypes, ForkSame
<1>5. /\ words'[c] = <<>> /\ spc'[c] = spc[c] /\ number'[c] = number[c] /\ arrived'[c] = arrived[c]
      /\ read'[c] = read[c] /\ row'[c] = row[c] /\ cpc'[c] = cp /\ sent'[c] = sn
  BY <1>k DEF ForkTypes
<1>6. ForkAt(cpc[c], words[c], spc[c]) /\ ForkBytes(c) /\ ForkRight(c)
  BY <1>1, <1>k DEF ForkAlive
<1>7. ForkAt(cpc[c], words[c], spc[c])'
  <2>1. ForkAt(cp, <<>>, spc[c])
    BY <1>1, <1>n DEF ForkTurn, ForkAt
  <2> QED
    BY <1>5, <2>1 DEF ForkAt
<1>8. ForkBytes(c)'
  <2>1. /\ cp \in {"start", "pidtimestr", "pid"} => sn = 0
        /\ cp = "time" => sn = PidL
        /\ cp = "str" => sn = Both
        /\ cp \in {"end", "done"} => sn = Both + number[c]
    BY <1>n, <1>6 DEF ForkTurn, ForkBytes, Both
  <2> QED
    BY <1>5, <1>6, <2>1 DEF ForkBytes, Both
<1>9. ForkBounds(c)'
  BY <1>n, <1>2, <1>5, <1>k DEF ForkBounds
<1>10. ForkRight(c)'
  BY <1>5, <1>6 DEF ForkRight, Fork!Kept
<1>11. c \notin table
  BY <1>1, <1>k DEF Fork!InsertedLast
<1> QED
  BY <1>3, <1>4, <1>7, <1>8, <1>9, <1>10, <1>11, ForkOf DEF ForkAlive

\* The client receives a word, or sends a field, or both.
LEMMA ForkSpeaks ==
  ASSUME Fork!ForkAssumption, ForkInv, NEW c \in Clients,
         Fork!Answer(c) \/ Fork!Hear(c) \/ Fork!Tell(c)
  PROVE  ForkInv'
<1>k. ForkTypes /\ ForkAlive(c)
  BY DEF ForkInv
<1>1. words[c] \in Seq({"pid", "time", "str", "end", "pidtimestr"})
  BY <1>k DEF ForkTypes
<1>t. /\ Tail(<<"pid">>) = <<>> /\ Tail(<<"time">>) = <<>> /\ Tail(<<"str">>) = <<>>
      /\ Tail(<<"end">>) = <<>> /\ Tail(<<"pidtimestr">>) = <<>>
  OBVIOUS
<1>h. /\ Head(<<"pid">>) = "pid" /\ Head(<<"time">>) = "time" /\ Head(<<"str">>) = "str"
      /\ Head(<<"end">>) = "end" /\ Head(<<"pidtimestr">>) = "pidtimestr"
  OBVIOUS
<1>u. sent = [sent EXCEPT ![c] = sent[c]] /\ words = [words EXCEPT ![c] = words[c]]
  BY <1>k DEF ForkTypes
<1>s. Fork!Size(c)["pid"] = PidL /\ Fork!Size(c)["time"] = TimeL /\ Fork!Size(c)["str"] = number[c]
  BY DEF Fork!Size
<1>2. CASE Fork!Answer(c)
  <2> DEFINE After == [pid |-> "time", time |-> "str", str |-> "end", end |-> "done"]
  <2>a. After["pid"] = "time" /\ After["time"] = "str" /\ After["str"] = "end" /\ After["end"] = "done"
    OBVIOUS
  <2>1. /\ OneByOne /\ words[c] # <<>> /\ cpc[c] = Head(words[c])
        /\ cpc' = [cpc EXCEPT ![c] = After[cpc[c]]] /\ words' = [words EXCEPT ![c] = Tail(words[c])]
        /\ sent' = IF cpc[c] = "end" THEN sent ELSE [sent EXCEPT ![c] = sent[c] + Fork!Size(c)[cpc[c]]]
        /\ spc' = spc /\ number' = number /\ row' = row /\ read' = read
        /\ arrived' = arrived /\ table' = table
    BY <1>2, Zenon DEF Fork!Answer
  <2> HIDE DEF After
  <2>2. cpc[c] \in {"pid", "time", "str", "end", "pidtimestr"}
    BY <1>1, <2>1, HeadTailProperties
  <2>3. ForkAt(cpc[c], words[c], spc[c])
    BY <1>k, <2>2 DEF ForkAlive
  <2>4. \/ cpc[c] = "pid" /\ words[c] = <<"pid">> /\ spc[c] = "pid"
        \/ cpc[c] = "time" /\ words[c] = <<"time">> /\ spc[c] = "time"
        \/ cpc[c] = "str" /\ words[c] = <<"str">> /\ spc[c] = "str"
        \/ cpc[c] = "end" /\ words[c] = <<"end">> /\ spc[c] = "drain"
    BY <1>h, <2>1, <2>3 DEF ForkAt
  <2>5. words' = [words EXCEPT ![c] = <<>>]
    BY <1>t, <2>1, <2>4, Zenon
  <2>6. CASE cpc[c] = "end"
    <3>1. cpc' = [cpc EXCEPT ![c] = "done"] /\ sent' = [sent EXCEPT ![c] = sent[c]]
      BY <1>u, <2>a, <2>1, <2>6, Zenon
    <3>2. ForkTurn(c, "done", sent[c])
      BY <2>4, <2>6 DEF ForkTurn
    <3> QED
      BY <2>1, <2>5, <3>1, <3>2, ForkTurns, Zenon
  <2>7. CASE cpc[c] = "pid"
    <3>1. cpc' = [cpc EXCEPT ![c] = "time"] /\ sent' = [sent EXCEPT ![c] = sent[c] + PidL]
      <4>1. cpc[c] # "end"
        BY <2>7
      <4> QED
        BY <1>s, <2>a, <2>1, <2>7, <4>1, Zenon
    <3>2. ForkTurn(c, "time", sent[c] + PidL)
      BY <2>1, <2>4, <2>7 DEF ForkTurn
    <3> QED
      BY <2>1, <2>5, <3>1, <3>2, ForkTurns, Zenon
  <2>8. CASE cpc[c] = "time"
    <3>1. cpc' = [cpc EXCEPT ![c] = "str"] /\ sent' = [sent EXCEPT ![c] = sent[c] + TimeL]
      <4>1. cpc[c] # "end"
        BY <2>8
      <4> QED
        BY <1>s, <2>a, <2>1, <2>8, <4>1, Zenon
    <3>2. ForkTurn(c, "str", sent[c] + TimeL)
      BY <2>1, <2>4, <2>8 DEF ForkTurn
    <3> QED
      BY <2>1, <2>5, <3>1, <3>2, ForkTurns, Zenon
  <2>9. CASE cpc[c] = "str"
    <3>1. cpc' = [cpc EXCEPT ![c] = "end"] /\ sent' = [sent EXCEPT ![c] = sent[c] + number[c]]
      <4>1. cpc[c] # "end"
        BY <2>9
      <4> QED
        BY <1>s, <2>a, <2>1, <2>9, <4>1, Zenon
    <3>2. ForkTurn(c, "end", sent[c] + number[c])
      BY <2>1, <2>4, <2>9 DEF ForkTurn
    <3> QED
      BY <2>1, <2>5, <3>1, <3>2, ForkTurns, Zenon
  <2> QED
    BY <2>4, <2>6, <2>7, <2>8, <2>9
<1>3. CASE Fork!Hear(c)
  <2>1. /\ ~OneByOne /\ words[c] # <<>> /\ cpc[c] = Head(words[c])
        /\ cpc' = [cpc EXCEPT ![c] = IF cpc[c] = "end" THEN "done" ELSE "pid"]
        /\ words' = [words EXCEPT ![c] = Tail(words[c])]
        /\ sent' = sent /\ spc' = spc /\ number' = number /\ row' = row /\ read' = read
        /\ arrived' = arrived /\ table' = table
    BY <1>3, Zenon DEF Fork!Hear
  <2>2. cpc[c] \in {"pid", "time", "str", "end", "pidtimestr"}
    BY <1>1, <2>1, HeadTailProperties
  <2>3. ForkAt(cpc[c], words[c], spc[c])
    BY <1>k, <2>2 DEF ForkAlive
  <2>4. \/ cpc[c] = "end" /\ words[c] = <<"end">> /\ spc[c] = "drain"
        \/ cpc[c] = "pidtimestr" /\ words[c] = <<"pidtimestr">> /\ spc[c] = "pid"
    BY <1>h, <2>1, <2>3 DEF ForkAt
  <2>5. words' = [words EXCEPT ![c] = <<>>] /\ sent' = [sent EXCEPT ![c] = sent[c]]
    BY <1>t, <1>u, <2>1, <2>4, Zenon
  <2>6. CASE cpc[c] = "end"
    <3>1. cpc' = [cpc EXCEPT ![c] = "done"]
      BY <2>1, <2>6, Zenon
    <3>2. ForkTurn(c, "done", sent[c])
      BY <2>4, <2>6 DEF ForkTurn
    <3> QED
      BY <2>1, <2>5, <3>1, <3>2, ForkTurns, Zenon
  <2>7. CASE cpc[c] # "end"
    <3>1. cpc' = [cpc EXCEPT ![c] = "pid"]
      BY <2>1, <2>7, Zenon
    <3>2. ForkTurn(c, "pid", sent[c])
      BY <2>1, <2>4, <2>7 DEF ForkTurn
    <3> QED
      BY <2>1, <2>5, <3>1, <3>2, ForkTurns, Zenon
  <2> QED
    BY <2>6, <2>7
<1>4. CASE Fork!Tell(c)
  <2> DEFINE Following == [pid |-> "time", time |-> "str", str |-> "end"]
  <2>a. Following["pid"] = "time" /\ Following["time"] = "str" /\ Following["str"] = "end"
    OBVIOUS
  <2>1. /\ ~OneByOne /\ cpc[c] \in DOMAIN Fork!Size(c)
        /\ cpc' = [cpc EXCEPT ![c] = Following[cpc[c]]]
        /\ sent' = [sent EXCEPT ![c] = sent[c] + Fork!Size(c)[cpc[c]]]
        /\ words' = words /\ spc' = spc /\ number' = number /\ row' = row /\ read' = read
        /\ arrived' = arrived /\ table' = table
    BY <1>4 DEF Fork!Tell, Fork!childVars
  <2> HIDE DEF Following
  <2>2. cpc[c] \in {"pid", "time", "str"}
    BY <2>1 DEF Fork!Size
  <2>3. ForkAt(cpc[c], words[c], spc[c])
    BY <1>k, <2>2 DEF ForkAlive
  <2>4. words[c] = <<>> /\ spc[c] \in {"pid", "time", "str"}
    BY <2>1, <2>2, <2>3 DEF ForkAt, FirstWord
  <2>5. words' = [words EXCEPT ![c] = <<>>]
    BY <1>u, <2>1, <2>4, Zenon
  <2>6. CASE cpc[c] = "pid"
    <3>1. cpc' = [cpc EXCEPT ![c] = "time"] /\ sent' = [sent EXCEPT ![c] = sent[c] + PidL]
      BY <1>s, <2>a, <2>1, <2>6, Zenon
    <3>2. ForkTurn(c, "time", sent[c] + PidL)
      BY <2>1, <2>4, <2>6 DEF ForkTurn
    <3> QED
      BY <2>1, <2>5, <3>1, <3>2, ForkTurns, Zenon
  <2>7. CASE cpc[c] = "time"
    <3>1. cpc' = [cpc EXCEPT ![c] = "str"] /\ sent' = [sent EXCEPT ![c] = sent[c] + TimeL]
      BY <1>s, <2>a, <2>1, <2>7, Zenon
    <3>2. ForkTurn(c, "str", sent[c] + TimeL)
      BY <2>1, <2>4, <2>7 DEF ForkTurn
    <3> QED
      BY <2>1, <2>5, <3>1, <3>2, ForkTurns, Zenon
  <2>8. CASE cpc[c] = "str"
    <3>1. cpc' = [cpc EXCEPT ![c] = "end"] /\ sent' = [sent EXCEPT ![c] = sent[c] + number[c]]
      BY <1>s, <2>a, <2>1, <2>8, Zenon
    <3>2. ForkTurn(c, "end", sent[c] + number[c])
      BY <2>1, <2>4, <2>8 DEF ForkTurn
    <3> QED
      BY <2>1, <2>5, <3>1, <3>2, ForkTurns, Zenon
  <2> QED
    BY <2>2, <2>6, <2>7, <2>8
<1> QED
  BY <1>2, <1>3, <1>4

\* A client that lives is where its words and its child say, and has not sent
\* more than its fields.
LEMMA ForkNumbers ==
  ASSUME Fork!ForkAssumption, ForkInv, NEW c \in Clients
  PROVE  /\ PidL \in Nat /\ PidL > 0 /\ TimeL \in Nat /\ TimeL > 0 /\ Both \in Nat
         /\ number[c] \in Nat /\ sent[c] \in Nat /\ arrived[c] \in Nat /\ read[c] \in Nat
         /\ \A n \in Numbers : n \in Nat /\ n > 0 /\ (~OneByOne => n <= 10240)
         /\ cpc[c] # "dead" => sent[c] \in {0, PidL, Both, Both + number[c]}
<1>1. PidL \in Nat /\ PidL > 0 /\ TimeL \in Nat /\ TimeL > 0
  BY DEF Fork!ForkAssumption
<1>2. ASSUME NEW n \in Numbers PROVE n \in Nat /\ n > 0 /\ (~OneByOne => n <= 10240)
  <2>1. Numbers \subseteq Nat \ {0}
    BY DEF Fork!ForkAssumption
  <2>2. OneByOne \/ Numbers \subseteq 1 .. 10240
    BY DEF Fork!ForkAssumption
  <2>3. n \in Nat /\ n > 0
    BY <1>2, <2>1
  <2>4. ASSUME ~OneByOne PROVE n <= 10240
    <3>1. Numbers \subseteq 1 .. 10240
      BY <2>2, <2>4
    <3> QED
      BY <3>1
  <2> QED
    BY <2>3, <2>4
<1>3. number[c] \in Numbers \union {0} /\ sent[c] \in Nat /\ arrived[c] \in Nat /\ read[c] \in Nat
  BY DEF ForkInv, ForkTypes
<1>4. number[c] \in Nat
  <2>1. Numbers \union {0} \subseteq Nat
    BY <1>2
  <2> QED
    BY <1>3, <2>1, Zenon
<1>5. ASSUME cpc[c] # "dead" PROVE sent[c] \in {0, PidL, Both, Both + number[c]}
  <2>1. ForkBytes(c) /\ cpc[c] \in {"start", "pid", "time", "str", "end", "done", "pidtimestr"}
    BY <1>5 DEF ForkInv, ForkTypes, ForkAlive
  <2> QED
    BY <2>1 DEF ForkBytes
<1> QED
  BY <1>1, <1>2, <1>3, <1>4, <1>5 DEF Both

\* A client dies.
LEMMA ForkDies ==
  ASSUME Fork!ForkAssumption, ForkInv, NEW c \in Clients, Fork!Die(c)
  PROVE  ForkInv'
<1>k. ForkTypes /\ ForkBounds(c) /\ Fork!InsertedLast
  BY DEF ForkInv
<1>1. /\ cpc[c] \notin {"done", "dead"} /\ cpc' = [cpc EXCEPT ![c] = "dead"]
      /\ sent' = sent /\ words' = words /\ spc' = spc /\ number' = number /\ row' = row /\ read' = read
      /\ arrived' = arrived /\ table' = table
  BY DEF Fork!Die, Fork!childVars
<1>2. ForkTypes' /\ \A d \in Clients \ {c} : ForkSame(d)
  BY <1>1, <1>k DEF ForkTypes, ForkSame
<1>3. cpc'[c] = "dead"
  BY <1>1, <1>k DEF ForkTypes
<1>4. ForkAlive(c)' /\ ForkBounds(c)'
  BY <1>1, <1>3, <1>k DEF ForkAlive, ForkBounds
<1>5. c \notin table
  BY <1>1, <1>k DEF Fork!InsertedLast
<1> QED
  BY <1>1, <1>2, <1>4, <1>5, ForkOf

\* Some of what a client has sent arrives.
LEMMA ForkArrives ==
  ASSUME Fork!ForkAssumption, ForkInv, NEW c \in Clients, Fork!Arrive(c)
  PROVE  ForkInv'
<1>k. ForkTypes /\ ForkBounds(c) /\ ForkAlive(c) /\ Fork!InsertedLast
  BY DEF ForkInv
<1>n. /\ PidL \in Nat /\ TimeL \in Nat /\ Both \in Nat
      /\ number[c] \in Nat /\ sent[c] \in Nat /\ arrived[c] \in Nat /\ read[c] \in Nat
      /\ cpc[c] # "dead" => sent[c] \in {0, PidL, Both, Both + number[c]}
  BY ForkNumbers
<1>1. PICK n \in arrived[c] + 1 .. sent[c] :
         /\ n < sent[c] => (Pieces /\ n > PidL + TimeL) \/ n \in {PidL, PidL + TimeL}
         /\ arrived' = [arrived EXCEPT ![c] = n]
  BY DEF Fork!Arrive
<1>2. /\ cpc' = cpc /\ sent' = sent /\ words' = words /\ spc' = spc /\ number' = number /\ row' = row
      /\ read' = read /\ table' = table
  BY DEF Fork!Arrive, Fork!childVars, Fork!clientVars
<1>3. n \in Nat /\ arrived[c] < n /\ n <= sent[c]
  BY <1>n
<1>4. ForkTypes' /\ \A d \in Clients \ {c} : ForkSame(d)
  BY <1>1, <1>2, <1>3, <1>k DEF ForkTypes, ForkSame
<1>5. arrived'[c] = n
  BY <1>1, <1>k DEF ForkTypes
<1>6. ForkBounds(c)'
  BY <1>n, <1>2, <1>3, <1>5, <1>k DEF ForkBounds
<1>7. ASSUME cpc[c] # "dead"
      PROVE  ForkAt(cpc[c], words[c], spc[c])' /\ ForkBytes(c)' /\ ForkRight(c)'
  <2>1. ForkAt(cpc[c], words[c], spc[c]) /\ ForkBytes(c) /\ ForkRight(c)
    BY <1>7, <1>k DEF ForkAlive
  <2>2. ForkAt(cpc[c], words[c], spc[c])'
    BY <1>2, <2>1 DEF ForkAt
  <2>3. ForkRight(c)'
    BY <1>2, <2>1 DEF ForkRight, Fork!Kept
  <2>4. n \in {0, PidL, Both} \/ (n > Both /\ (Pieces \/ n = Both + number[c]))
    BY <1>n, <1>1, <1>3, <1>7 DEF Both
  <2>5. ForkBytes(c)'
    BY <1>2, <1>5, <2>1, <2>4 DEF ForkBytes, Both
  <2> QED
    BY <2>2, <2>3, <2>5
<1>8. ForkAlive(c)'
  BY <1>2, <1>7 DEF ForkAlive
<1>9. c \in table => spc'[c] = "exit" /\ cpc'[c] \in {"done", "dead"}
  BY <1>2, <1>k DEF Fork!InsertedLast
<1> QED
  BY <1>2, <1>4, <1>6, <1>8, <1>9, ForkOf

\* A connection is accepted.
LEMMA ForkAccepts ==
  ASSUME Fork!ForkAssumption, ForkInv, NEW c \in Clients, Fork!Accept(c)
  PROVE  ForkInv'
<1>k. ForkTypes /\ ForkBounds(c) /\ ForkAlive(c) /\ Fork!InsertedLast
  BY DEF ForkInv
<1>1. /\ spc[c] = "queued" /\ spc' = [spc EXCEPT ![c] = "greet"]
      /\ cpc' = cpc /\ sent' = sent /\ words' = words /\ number' = number /\ row' = row /\ read' = read
      /\ arrived' = arrived /\ table' = table
  BY DEF Fork!Accept, Fork!clientVars
<1>2. ForkTypes' /\ \A d \in Clients \ {c} : ForkSame(d)
  BY <1>1, <1>k DEF ForkTypes, ForkSame
<1>3. spc'[c] = "greet"
  BY <1>1, <1>k DEF ForkTypes
<1>4. ForkAlive(c)'
  <2>1. CASE cpc[c] # "dead"
    <3>1. ForkAt(cpc[c], words[c], spc[c]) /\ ForkBytes(c)
      BY <2>1, <1>k DEF ForkAlive
    <3>2. ForkAt(cpc[c], words[c], spc[c])'
      BY <1>1, <1>3, <3>1 DEF ForkAt
    <3>3. ForkBytes(c)'
      BY <1>1, <1>3, <3>1 DEF ForkBytes, Both
    <3>4. ForkRight(c)'
      BY <1>3 DEF ForkRight
    <3> QED
      BY <3>2, <3>3, <3>4 DEF ForkAlive
  <2>2. CASE cpc[c] = "dead"
    BY <1>1, <2>2 DEF ForkAlive
  <2> QED
    BY <2>1, <2>2
<1>5. ForkBounds(c)'
  BY <1>1, <1>k DEF ForkBounds
<1>6. c \notin table
  BY <1>1, <1>k DEF Fork!InsertedLast
<1> QED
  BY <1>1, <1>2, <1>4, <1>5, <1>6, ForkOf

\* The child sends a word: one to a client that lives is on its way.
LEMMA ForkSaid ==
  ASSUME ForkTypes, NEW c \in Clients, NEW w \in {"pid", "time", "str", "end", "pidtimestr"},
         NEW next \in {"pid", "time", "str", "drain"}, Fork!Say(c, w, next)
  PROVE  /\ words' \in [Clients -> Seq({"pid", "time", "str", "end", "pidtimestr"})]
         /\ spc' \in [Clients -> {"none", "queued", "greet", "pid", "time", "str", "drain", "exit", "killed"}]
         /\ \A d \in Clients \ {c} : words'[d] = words[d] /\ spc'[d] = spc[d]
         /\ cpc[c] # "dead" => spc'[c] = next /\ words'[c] = Append(words[c], w)
<1>1. words[c] \in Seq({"pid", "time", "str", "end", "pidtimestr"})
  BY DEF ForkTypes
<1>2. Append(words[c], w) \in Seq({"pid", "time", "str", "end", "pidtimestr"})
  BY <1>1
<1> DEFINE more == Append(words[c], w)
<1>3. \/ words' = [words EXCEPT ![c] = more] /\ spc' = [spc EXCEPT ![c] = next]
      \/ cpc[c] = "dead" /\ words' = words /\ spc' = [spc EXCEPT ![c] = "killed"]
  BY Zenon DEF Fork!Say
<1>4. more \in Seq({"pid", "time", "str", "end", "pidtimestr"})
  BY <1>2
<1> HIDE DEF more
<1>5. /\ words' \in [Clients -> Seq({"pid", "time", "str", "end", "pidtimestr"})]
      /\ spc' \in [Clients -> {"none", "queued", "greet", "pid", "time", "str", "drain", "exit", "killed"}]
  BY <1>3, <1>4 DEF ForkTypes
<1>6. \A d \in Clients \ {c} : words'[d] = words[d] /\ spc'[d] = spc[d]
  BY <1>3 DEF ForkTypes
<1>7. cpc[c] # "dead" => spc'[c] = next /\ words'[c] = more
  BY <1>3 DEF ForkTypes
<1> QED
  BY <1>5, <1>6, <1>7 DEF more

\* A field of a record is filled.
LEMMA ForkTakes ==
  ASSUME row \in [Clients -> ForkRows], NEW c \in Clients,
         NEW f \in {"pid", "time", "str"}, NEW v \in ForkPart, row' = [row EXCEPT ![c][f] = v]
  PROVE  /\ row' \in [Clients -> ForkRows]
         /\ \A d \in Clients \ {c} : row'[d] = row[d]
         /\ f = "pid" => row'[c].pid = v
         /\ f = "time" => row'[c].time = v /\ row'[c].pid = row[c].pid
         /\ f = "str" => row'[c].str = v /\ row'[c].pid = row[c].pid /\ row'[c].time = row[c].time
<1> DEFINE r == [row[c] EXCEPT ![f] = v]
<1>1. row[c] \in ForkRows
  OBVIOUS
<1>2. /\ r \in ForkRows
      /\ f = "pid" => r.pid = v
      /\ f = "time" => r.time = v /\ r.pid = row[c].pid
      /\ f = "str" => r.str = v /\ r.pid = row[c].pid /\ r.time = row[c].time
  <2>1. CASE f = "pid"
    BY <1>1, <2>1 DEF ForkRows
  <2>2. CASE f = "time"
    BY <1>1, <2>2 DEF ForkRows
  <2>3. CASE f = "str"
    BY <1>1, <2>3 DEF ForkRows
  <2> QED
    BY <2>1, <2>2, <2>3
<1>3. row' = [row EXCEPT ![c] = r]
  OBVIOUS
<1> HIDE DEF r
<1>4. row'[c] = r /\ \A d \in Clients \ {c} : row'[d] = row[d]
  BY <1>3
<1>5. row' \in [Clients -> ForkRows]
  BY <1>2, <1>3
<1> QED
  BY <1>2, <1>4, <1>5

\* The child of test1 asks for the first field.
LEMMA ForkGreetsOne ==
  ASSUME Fork!ForkAssumption, ForkInv, NEW c \in Clients, Fork!GreetOne(c)
  PROVE  ForkInv'
<1>k. ForkTypes /\ ForkBounds(c) /\ ForkAlive(c) /\ Fork!InsertedLast
  BY DEF ForkInv
<1>1. /\ OneByOne /\ spc[c] = "greet" /\ Fork!Say(c, "pid", "pid")
      /\ cpc' = cpc /\ sent' = sent /\ number' = number /\ row' = row /\ read' = read
      /\ arrived' = arrived /\ table' = table
  BY DEF Fork!GreetOne, Fork!clientVars
<1>2. /\ words' \in [Clients -> Seq({"pid", "time", "str", "end", "pidtimestr"})]
      /\ spc' \in [Clients -> {"none", "queued", "greet", "pid", "time", "str", "drain", "exit", "killed"}]
      /\ \A d \in Clients \ {c} : words'[d] = words[d] /\ spc'[d] = spc[d]
      /\ cpc[c] # "dead" => spc'[c] = "pid" /\ words'[c] = Append(words[c], "pid")
  BY <1>1, <1>k, ForkSaid
<1>3. ForkTypes' /\ \A d \in Clients \ {c} : ForkSame(d)
  BY <1>1, <1>2, <1>k DEF ForkTypes, ForkSame
<1>4. ForkBounds(c)'
  BY <1>1, <1>k DEF ForkBounds
<1>5. ASSUME cpc[c] # "dead"
      PROVE  ForkAt(cpc[c], words[c], spc[c])' /\ ForkBytes(c)' /\ ForkRight(c)'
  <2>1. ForkAt(cpc[c], words[c], spc[c]) /\ ForkBytes(c)
    BY <1>5, <1>k DEF ForkAlive
  <2>2. cpc[c] = "pid" /\ words[c] = <<>>
    BY <1>1, <2>1 DEF ForkAt, FirstWord
  <2>3. Append(<<>>, "pid") = <<"pid">>
    OBVIOUS
  <2>4. cpc'[c] = "pid" /\ spc'[c] = "pid" /\ words'[c] = <<"pid">>
    BY <1>1, <1>2, <1>5, <2>2, <2>3
  <2>5. ForkAt(cpc[c], words[c], spc[c])'
    BY <1>1, <2>4 DEF ForkAt
  <2>6. ForkBytes(c)'
    BY <1>1, <2>1, <2>2, <2>4 DEF ForkBytes, Both
  <2>7. ForkRight(c)'
    BY <2>4 DEF ForkRight
  <2> QED
    BY <2>5, <2>6, <2>7
<1>6. ForkAlive(c)'
  BY <1>1, <1>5 DEF ForkAlive
<1>7. c \notin table
  BY <1>1, <1>k DEF Fork!InsertedLast
<1> QED
  BY <1>1, <1>3, <1>4, <1>6, <1>7, ForkOf

\* The child of test2 asks for all of them, and chooses the length.
LEMMA ForkGreetsAll ==
  ASSUME Fork!ForkAssumption, ForkInv, NEW c \in Clients, Fork!GreetAll(c)
  PROVE  ForkInv'
<1>k. ForkTypes /\ ForkBounds(c) /\ ForkAlive(c) /\ Fork!InsertedLast
  BY DEF ForkInv
<1>1. /\ ~OneByOne /\ spc[c] = "greet" /\ Fork!Say(c, "pidtimestr", "pid") /\ Fork!Choose(c)
      /\ cpc' = cpc /\ sent' = sent /\ row' = row /\ read' = read
      /\ arrived' = arrived /\ table' = table
  BY DEF Fork!GreetAll, Fork!clientVars
<1>2. /\ words' \in [Clients -> Seq({"pid", "time", "str", "end", "pidtimestr"})]
      /\ spc' \in [Clients -> {"none", "queued", "greet", "pid", "time", "str", "drain", "exit", "killed"}]
      /\ \A d \in Clients \ {c} : words'[d] = words[d] /\ spc'[d] = spc[d]
      /\ cpc[c] # "dead" => spc'[c] = "pid" /\ words'[c] = Append(words[c], "pidtimestr")
  BY <1>1, <1>k, ForkSaid
<1>3. /\ number' \in [Clients -> Numbers \union {0}]
      /\ \A d \in Clients \ {c} : number'[d] = number[d]
  BY <1>1, <1>k DEF Fork!Choose, ForkTypes
<1>4. ForkTypes' /\ \A d \in Clients \ {c} : ForkSame(d)
  BY <1>1, <1>2, <1>3, <1>k DEF ForkTypes, ForkSame
<1>5. ForkBounds(c)'
  BY <1>1, <1>k DEF ForkBounds
<1>6. ASSUME cpc[c] # "dead"
      PROVE  ForkAt(cpc[c], words[c], spc[c])' /\ ForkBytes(c)' /\ ForkRight(c)'
  <2>1. ForkAt(cpc[c], words[c], spc[c]) /\ ForkBytes(c)
    BY <1>6, <1>k DEF ForkAlive
  <2>2. cpc[c] = "pidtimestr" /\ words[c] = <<>>
    BY <1>1, <2>1 DEF ForkAt, FirstWord
  <2>3. Append(<<>>, "pidtimestr") = <<"pidtimestr">>
    OBVIOUS
  <2>4. cpc'[c] = "pidtimestr" /\ spc'[c] = "pid" /\ words'[c] = <<"pidtimestr">>
    BY <1>1, <1>2, <1>6, <2>2, <2>3
  <2>5. ForkAt(cpc[c], words[c], spc[c])'
    BY <1>1, <2>4 DEF ForkAt
  <2>6. sent[c] = 0 /\ read[c] = 0 /\ arrived[c] = 0
    <3>1. sent[c] = 0 /\ read[c] = 0
      BY <1>1, <2>1, <2>2 DEF ForkBytes
    <3> QED
      BY <3>1, <1>k DEF ForkBounds, ForkTypes
  <2>7. ForkBytes(c)'
    BY <1>1, <2>4, <2>6 DEF ForkBytes, Both
  <2>8. ForkRight(c)'
    BY <2>4 DEF ForkRight
  <2> QED
    BY <2>5, <2>7, <2>8
<1>7. ForkAlive(c)'
  BY <1>1, <1>6 DEF ForkAlive
<1>8. c \notin table
  BY <1>1, <1>k DEF Fork!InsertedLast
<1> QED
  BY <1>1, <1>4, <1>5, <1>7, <1>8, ForkOf

\* What a step of a child that receives leaves in place.
LEMMA ForkReceives ==
  ASSUME Fork!ForkAssumption, ForkInv, NEW c \in Clients, spc[c] \in {"pid", "time", "str"},
         NEW v \in ForkPart, row' = [row EXCEPT ![c][spc[c]] = v],
         NEW m \in Nat, m <= arrived[c], read' = [read EXCEPT ![c] = m],
         words' \in [Clients -> Seq({"pid", "time", "str", "end", "pidtimestr"})],
         spc' \in [Clients -> {"none", "queued", "greet", "pid", "time", "str", "drain", "exit", "killed"}],
         number' \in [Clients -> Numbers \union {0}],
         \A d \in Clients \ {c} : words'[d] = words[d] /\ spc'[d] = spc[d] /\ number'[d] = number[d],
         cpc' = cpc, sent' = sent, arrived' = arrived, table' = table,
         cpc[c] # "dead" => ForkAt(cpc'[c], words'[c], spc'[c]) /\ ForkBytes(c)' /\ ForkRight(c)'
  PROVE  ForkInv'
<1>k. ForkTypes /\ ForkBounds(c) /\ Fork!InsertedLast
  BY DEF ForkInv
<1>1. row' \in [Clients -> ForkRows] /\ \A d \in Clients \ {c} : row'[d] = row[d]
  BY <1>k, ForkTakes DEF ForkTypes
<1>2. read' \in [Clients -> Nat] /\ read'[c] = m /\ \A d \in Clients \ {c} : read'[d] = read[d]
  BY <1>k DEF ForkTypes
<1>3. ForkTypes'
  BY <1>1, <1>2, <1>k DEF ForkTypes
<1>4. \A d \in Clients \ {c} : ForkSame(d)
  BY <1>1, <1>2 DEF ForkSame
<1>5. ForkBounds(c)'
  BY <1>2, <1>k DEF ForkBounds
<1>6. ForkAlive(c)'
  BY DEF ForkAlive, ForkAt
<1>7. c \notin table
  BY <1>k DEF Fork!InsertedLast
<1> QED
  BY <1>3, <1>4, <1>5, <1>6, <1>7, ForkOf

\* test1: recv, and the word for the next field.
LEMMA ForkReceivesOne ==
  ASSUME Fork!ForkAssumption, ForkInv, NEW c \in Clients, Fork!RecvOne(c)
  PROVE  ForkInv'
<1> DEFINE taken == <<read[c], arrived[c] - read[c]>>
           v == IF spc[c] = "str" THEN Fork!Kept(taken) ELSE taken
<1>k. ForkTypes /\ ForkBounds(c) /\ ForkAlive(c)
  BY DEF ForkInv
<1>n. /\ PidL \in Nat /\ PidL > 0 /\ TimeL \in Nat /\ TimeL > 0 /\ Both = PidL + TimeL
      /\ number[c] \in Nat /\ sent[c] \in Nat /\ arrived[c] \in Nat /\ read[c] \in Nat
  BY ForkNumbers DEF Both
<1>1. OneByOne /\ spc[c] \in {"pid", "time", "str"} /\ (arrived[c] > read[c] \/ Fork!Ended(c))
  BY DEF Fork!RecvOne, Fork!Size
<1>2. /\ row' = [row EXCEPT ![c][spc[c]] = v] /\ read' = [read EXCEPT ![c] = arrived[c]]
      /\ cpc' = cpc /\ sent' = sent /\ arrived' = arrived /\ table' = table
  BY DEF Fork!RecvOne, Fork!clientVars
<1>3. \/ spc[c] = "pid" /\ Fork!Say(c, "time", "time") /\ number' = number
      \/ spc[c] = "time" /\ Fork!Say(c, "str", "str") /\ Fork!Choose(c)
      \/ spc[c] = "str" /\ Fork!Say(c, "end", "drain") /\ number' = number
  <2>1. (CASE spc[c] = "pid" -> Fork!Say(c, "time", "time") /\ UNCHANGED number
           [] spc[c] = "time" -> Fork!Say(c, "str", "str") /\ Fork!Choose(c)
           [] spc[c] = "str" -> Fork!Say(c, "end", "drain") /\ UNCHANGED number)
    BY Zenon DEF Fork!RecvOne
  <2>2. CASE spc[c] = "pid"
    BY <2>1, <2>2
  <2>3. CASE spc[c] = "time"
    BY <2>1, <2>3
  <2>4. CASE spc[c] = "str"
    BY <2>1, <2>4
  <2> QED
    BY <1>1, <2>2, <2>3, <2>4
<1>4. taken \in Nat \X Nat /\ v \in ForkPart
  <2>1. taken \in Nat \X Nat
    BY <1>n, <1>k DEF ForkBounds
  <2> QED
    BY <2>1 DEF Fork!Kept, ForkPart
<1>5. /\ number' \in [Clients -> Numbers \union {0}]
      /\ \A d \in Clients \ {c} : number'[d] = number[d]
  BY <1>3, <1>k DEF Fork!Choose, ForkTypes
<1>6. /\ read'[c] = arrived[c] /\ cpc'[c] = cpc[c] /\ sent'[c] = sent[c] /\ arrived'[c] = arrived[c]
  BY <1>2, <1>k DEF ForkTypes
<1>8. spc[c] # "str" => v = taken
  OBVIOUS
<1>9. spc[c] = "str" => v = Fork!Kept(taken)
  OBVIOUS
<1> HIDE DEF v
<1>7. /\ spc[c] = "pid" => row'[c].pid = v
      /\ spc[c] = "time" => row'[c].time = v /\ row'[c].pid = row[c].pid
      /\ spc[c] = "str" => row'[c].str = v /\ row'[c].pid = row[c].pid /\ row'[c].time = row[c].time
  BY <1>1, <1>2, <1>4, <1>k, ForkTakes DEF ForkTypes
<1>e. arrived[c] \in Nat /\ arrived[c] <= arrived[c]
  BY <1>n
<1>a. ASSUME cpc[c] # "dead"
      PROVE  /\ words[c] = <<>> /\ taken[1] = read[c]
             /\ \/ spc[c] = "pid" /\ cpc[c] = "time" /\ sent[c] = PidL /\ arrived[c] = PidL /\ taken = <<0, PidL>>
                \/ spc[c] = "time" /\ cpc[c] = "str" /\ sent[c] = Both /\ arrived[c] = Both /\ taken = <<PidL, TimeL>>
                \/ /\ spc[c] = "str" /\ cpc[c] = "end" /\ sent[c] = Both + number[c] /\ arrived[c] > Both
                   /\ ~Pieces => arrived[c] = Both + number[c] /\ taken = <<Both, number[c]>>
  <2>1. ForkAt(cpc[c], words[c], spc[c]) /\ ForkBytes(c) /\ ForkBounds(c)
    BY <1>a, <1>k DEF ForkAlive
  <2>2. /\ cpc[c] # "done"
        /\ spc[c] = "pid" => cpc[c] = "pid" \/ (cpc[c] = "time" /\ words[c] = <<>>)
        /\ spc[c] = "time" => cpc[c] = "time" \/ (cpc[c] = "str" /\ words[c] = <<>>)
        /\ spc[c] = "str" => cpc[c] = "str" \/ (cpc[c] = "end" /\ words[c] = <<>>)
    BY <1>1, <2>1 DEF ForkAt
  <2>3. arrived[c] > read[c]
    BY <1>1, <1>a, <2>2 DEF Fork!Ended
  <2>4. CASE spc[c] = "pid"
    <3>1. read[c] = 0 /\ cpc[c] = "time" /\ sent[c] = PidL
      BY <1>n, <2>1, <2>2, <2>3, <2>4 DEF ForkBytes, ForkBounds
    <3>2. arrived[c] = PidL
      BY <1>n, <2>1, <2>3, <3>1 DEF ForkBytes, ForkBounds
    <3> QED
      BY <1>n, <2>2, <2>4, <3>1, <3>2
  <2>5. CASE spc[c] = "time"
    <3>1. read[c] = PidL /\ cpc[c] = "str" /\ sent[c] = Both
      BY <1>n, <2>1, <2>2, <2>3, <2>5 DEF ForkBytes, ForkBounds
    <3>2. arrived[c] = Both
      BY <1>n, <2>1, <2>3, <3>1 DEF ForkBytes, ForkBounds
    <3>3. arrived[c] - read[c] = TimeL
      BY <1>n, <3>1, <3>2
    <3> QED
      BY <2>2, <2>5, <3>1, <3>2, <3>3
  <2>6. CASE spc[c] = "str"
    <3>1. read[c] = Both /\ cpc[c] = "end" /\ sent[c] = Both + number[c]
      BY <1>n, <2>1, <2>2, <2>3, <2>6 DEF ForkBytes, ForkBounds
    <3>2. arrived[c] > Both /\ (~Pieces => arrived[c] = Both + number[c])
      BY <1>n, <2>1, <2>3, <3>1 DEF ForkBytes, ForkBounds
    <3>3. ~Pieces => arrived[c] - read[c] = number[c]
      BY <1>n, <3>1, <3>2
    <3> QED
      BY <2>2, <2>6, <3>1, <3>2, <3>3
  <2> QED
    BY <1>1, <2>4, <2>5, <2>6
<1>t. Append(<<>>, "time") = <<"time">> /\ Append(<<>>, "str") = <<"str">> /\ Append(<<>>, "end") = <<"end">>
  OBVIOUS
<1> HIDE DEF taken
<1>b. CASE spc[c] = "pid"
  <2>1. Fork!Say(c, "time", "time") /\ number' = number
    BY <1>3, <1>b
  <2>2. /\ words' \in [Clients -> Seq({"pid", "time", "str", "end", "pidtimestr"})]
        /\ spc' \in [Clients -> {"none", "queued", "greet", "pid", "time", "str", "drain", "exit", "killed"}]
        /\ \A d \in Clients \ {c} : words'[d] = words[d] /\ spc'[d] = spc[d]
        /\ cpc[c] # "dead" => spc'[c] = "time" /\ words'[c] = Append(words[c], "time")
    BY <1>k, <2>1, ForkSaid
  <2>3. ASSUME cpc[c] # "dead"
        PROVE  ForkAt(cpc'[c], words'[c], spc'[c]) /\ ForkBytes(c)' /\ ForkRight(c)'
    <3>1. /\ cpc[c] = "time" /\ sent[c] = PidL /\ arrived[c] = PidL /\ taken = <<0, PidL>>
          /\ spc'[c] = "time" /\ words'[c] = <<"time">>
      BY <1>a, <1>b, <1>t, <2>2, <2>3
    <3>2. ForkAt(cpc'[c], words'[c], spc'[c])
      BY <1>1, <1>6, <3>1 DEF ForkAt
    <3>3. ForkBytes(c)'
      BY <1>6, <3>1 DEF ForkBytes, Both
    <3>4. ForkRight(c)'
      BY <1>7, <1>8, <1>b, <3>1 DEF ForkRight
    <3> QED
      BY <3>2, <3>3, <3>4
  <2> QED
    BY <1>1, <1>2, <1>4, <1>5, <1>e, <2>2, <2>3, ForkReceives, Zenon
<1>c. CASE spc[c] = "time"
  <2>1. Fork!Say(c, "str", "str")
    BY <1>3, <1>c
  <2>2. /\ words' \in [Clients -> Seq({"pid", "time", "str", "end", "pidtimestr"})]
        /\ spc' \in [Clients -> {"none", "queued", "greet", "pid", "time", "str", "drain", "exit", "killed"}]
        /\ \A d \in Clients \ {c} : words'[d] = words[d] /\ spc'[d] = spc[d]
        /\ cpc[c] # "dead" => spc'[c] = "str" /\ words'[c] = Append(words[c], "str")
    BY <1>k, <2>1, ForkSaid
  <2>3. ASSUME cpc[c] # "dead"
        PROVE  ForkAt(cpc'[c], words'[c], spc'[c]) /\ ForkBytes(c)' /\ ForkRight(c)'
    <3>1. /\ cpc[c] = "str" /\ sent[c] = Both /\ arrived[c] = Both /\ taken = <<PidL, TimeL>>
          /\ spc'[c] = "str" /\ words'[c] = <<"str">>
      BY <1>a, <1>c, <1>t, <2>2, <2>3
    <3>2. ForkAt(cpc'[c], words'[c], spc'[c])
      BY <1>1, <1>6, <3>1 DEF ForkAt
    <3>3. ForkBytes(c)'
      BY <1>6, <3>1 DEF ForkBytes, Both
    <3>4. row[c].pid = <<0, PidL>>
      BY <1>c, <1>k, <2>3 DEF ForkAlive, ForkRight
    <3>5. ForkRight(c)'
      BY <1>7, <1>8, <1>c, <3>1, <3>4 DEF ForkRight
    <3> QED
      BY <3>2, <3>3, <3>5
  <2> QED
    BY <1>1, <1>2, <1>4, <1>5, <1>e, <2>2, <2>3, ForkReceives, Zenon
<1>d. CASE spc[c] = "str"
  <2>1. Fork!Say(c, "end", "drain") /\ number' = number
    BY <1>3, <1>d
  <2>2. /\ words' \in [Clients -> Seq({"pid", "time", "str", "end", "pidtimestr"})]
        /\ spc' \in [Clients -> {"none", "queued", "greet", "pid", "time", "str", "drain", "exit", "killed"}]
        /\ \A d \in Clients \ {c} : words'[d] = words[d] /\ spc'[d] = spc[d]
        /\ cpc[c] # "dead" => spc'[c] = "drain" /\ words'[c] = Append(words[c], "end")
    BY <1>k, <2>1, ForkSaid
  <2>3. ASSUME cpc[c] # "dead"
        PROVE  ForkAt(cpc'[c], words'[c], spc'[c]) /\ ForkBytes(c)' /\ ForkRight(c)'
    <3>1. /\ cpc[c] = "end" /\ sent[c] = Both + number[c] /\ arrived[c] > Both
          /\ ~Pieces => arrived[c] = Both + number[c] /\ taken = <<Both, number[c]>>
          /\ spc'[c] = "drain" /\ words'[c] = <<"end">>
      BY <1>a, <1>d, <1>t, <2>2, <2>3
    <3>2. ForkAt(cpc'[c], words'[c], spc'[c])
      BY <1>6, <3>1 DEF ForkAt
    <3>3. ForkBytes(c)'
      BY <1>6, <2>1, <3>1 DEF ForkBytes, Both
    <3>4. row[c].pid = <<0, PidL>> /\ row[c].time = <<PidL, TimeL>>
      BY <1>d, <1>k, <2>3 DEF ForkAlive, ForkRight
    <3>5. ~Pieces => row'[c].str = Fork!Kept(<<Both, number'[c]>>)
      BY <1>7, <1>9, <1>d, <2>1, <3>1
    <3>6. ForkRight(c)'
      BY <1>1, <1>7, <1>d, <3>1, <3>4, <3>5 DEF ForkRight, Both, Fork!Kept
    <3> QED
      BY <3>2, <3>3, <3>6
  <2> QED
    BY <1>1, <1>2, <1>4, <1>5, <1>e, <2>2, <2>3, ForkReceives, Zenon
<1> QED
  BY <1>1, <1>b, <1>c, <1>d

\* test2: recv of the next field.
LEMMA ForkReceivesAll ==
  ASSUME Fork!ForkAssumption, ForkInv, NEW c \in Clients, Fork!RecvAll(c)
  PROVE  ForkInv'
<1> DEFINE limit == Fork!Limit(c)[spc[c]]
           n == Fork!Least(arrived[c] - read[c], limit)
           taken == <<read[c], n>>
<1>k. ForkTypes /\ ForkBounds(c) /\ ForkAlive(c)
  BY DEF ForkInv
<1>n. /\ PidL \in Nat /\ PidL > 0 /\ TimeL \in Nat /\ TimeL > 0 /\ Both = PidL + TimeL
      /\ number[c] \in Nat /\ sent[c] \in Nat /\ arrived[c] \in Nat /\ read[c] \in Nat
      /\ \A k \in Numbers : k \in Nat /\ k > 0 /\ (~OneByOne => k <= 10240)
  BY ForkNumbers DEF Both
<1>1. ~OneByOne /\ spc[c] \in {"pid", "time", "str"} /\ (arrived[c] > read[c] \/ Fork!Ended(c))
  BY DEF Fork!RecvAll, Fork!Size
<1>2. /\ row' = [row EXCEPT ![c][spc[c]] = taken] /\ read' = [read EXCEPT ![c] = read[c] + n]
      /\ cpc' = cpc /\ sent' = sent /\ arrived' = arrived /\ table' = table /\ number' = number
  BY DEF Fork!RecvAll, Fork!clientVars
<1>3. \/ spc[c] = "pid" /\ spc' = [spc EXCEPT ![c] = "time"] /\ words' = words
      \/ spc[c] = "time" /\ spc' = [spc EXCEPT ![c] = "str"] /\ words' = words
      \/ spc[c] = "str" /\ Fork!Say(c, "end", "drain")
  <2>1. IF spc[c] = "str" THEN Fork!Say(c, "end", "drain")
        ELSE spc' = [spc EXCEPT ![c] = IF spc[c] = "pid" THEN "time" ELSE "str"] /\ words' = words
    BY Zenon DEF Fork!RecvAll
  <2>2. CASE spc[c] = "pid"
    BY <2>1, <2>2
  <2>3. CASE spc[c] = "time"
    BY <2>1, <2>3
  <2>4. CASE spc[c] = "str"
    BY <2>1, <2>4
  <2> QED
    BY <1>1, <2>2, <2>3, <2>4
<1>4. limit \in Nat /\ (spc[c] = "pid" => limit = PidL) /\ (spc[c] = "time" => limit = TimeL)
      /\ (spc[c] = "str" => limit = 10240)
  BY <1>1, <1>n DEF Fork!Limit
<1>5. n \in Nat /\ (n = limit \/ n = arrived[c] - read[c]) /\ n <= limit /\ n <= arrived[c] - read[c]
  <2> HIDE DEF limit
  <2> QED
    BY <1>4, <1>n, <1>k DEF ForkBounds, Fork!Least
<1> HIDE DEF limit, n
<1>6. taken \in ForkPart /\ read[c] + n \in Nat /\ read[c] + n <= arrived[c]
  BY <1>n, <1>5 DEF ForkPart
<1>7. /\ read'[c] = read[c] + n /\ cpc'[c] = cpc[c] /\ sent'[c] = sent[c] /\ arrived'[c] = arrived[c]
      /\ number'[c] = number[c] /\ number' \in [Clients -> Numbers \union {0}]
      /\ \A d \in Clients \ {c} : number'[d] = number[d]
  BY <1>2, <1>k DEF ForkTypes
<1> HIDE DEF taken
<1>8. /\ spc[c] = "pid" => row'[c].pid = taken
      /\ spc[c] = "time" => row'[c].time = taken /\ row'[c].pid = row[c].pid
      /\ spc[c] = "str" => row'[c].str = taken /\ row'[c].pid = row[c].pid /\ row'[c].time = row[c].time
  BY <1>1, <1>2, <1>6, <1>k, ForkTakes DEF ForkTypes
<1>a. ASSUME cpc[c] # "dead"
      PROVE  /\ words[c] = <<>> /\ cpc[c] \in {"pid", "time", "str", "end"}
             /\ ForkBytes(c) /\ ForkRight(c) /\ taken = <<read[c], n>>
             /\ \/ spc[c] = "pid" /\ read[c] = 0 /\ n = PidL
                \/ spc[c] = "time" /\ read[c] = PidL /\ n = TimeL
                \/ /\ spc[c] = "str" /\ read[c] = Both /\ n \in 1 .. number[c]
                   /\ cpc[c] = "end" /\ (~Pieces => n = number[c])
  <2>1. ForkAt(cpc[c], words[c], spc[c]) /\ ForkBytes(c) /\ ForkRight(c) /\ ForkBounds(c)
    BY <1>a, <1>k DEF ForkAlive
  <2>2. \/ cpc[c] = "pidtimestr" /\ spc[c] = "pid"
        \/ cpc[c] \in {"pid", "time", "str", "end"} /\ words[c] = <<>>
    BY <1>1, <2>1 DEF ForkAt
  <2>3. arrived[c] > read[c]
    BY <1>1, <1>a, <2>2 DEF Fork!Ended
  <2>4. cpc[c] \in {"pid", "time", "str", "end"} /\ words[c] = <<>>
    BY <1>n, <2>1, <2>2, <2>3 DEF ForkBytes, ForkBounds
  <2>5. CASE spc[c] = "pid"
    <3>1. read[c] = 0 /\ arrived[c] >= PidL
      BY <1>n, <2>1, <2>3, <2>5 DEF ForkBytes
    <3>2. n = PidL
      BY <1>n, <1>4, <1>5, <2>5, <3>1
    <3> QED
      BY <2>1, <2>4, <2>5, <3>1, <3>2 DEF taken
  <2>6. CASE spc[c] = "time"
    <3>1. read[c] = PidL /\ arrived[c] >= Both
      BY <1>n, <2>1, <2>3, <2>6 DEF ForkBytes
    <3>2. n = TimeL
      BY <1>n, <1>4, <1>5, <2>6, <3>1
    <3> QED
      BY <2>1, <2>4, <2>6, <3>1, <3>2 DEF taken
  <2>7. CASE spc[c] = "str"
    <3>1. read[c] = Both /\ arrived[c] > Both
      BY <1>n, <2>1, <2>3, <2>7 DEF ForkBytes
    <3>2. cpc[c] = "end" /\ sent[c] = Both + number[c] /\ (~Pieces => arrived[c] = Both + number[c])
      BY <1>n, <2>1, <2>4, <3>1 DEF ForkBytes, ForkBounds
    <3>3. arrived[c] - read[c] <= number[c] /\ number[c] # 0
      BY <1>n, <2>1, <3>1, <3>2 DEF ForkBounds
    <3>4. number[c] <= 10240
      <4>1. number[c] \in Numbers
        BY <1>k, <3>3 DEF ForkTypes
      <4> QED
        BY <1>1, <1>n, <4>1
    <3>5. n = arrived[c] - read[c]
      BY <1>n, <1>4, <1>5, <2>7, <3>3, <3>4
    <3>6. n \in 1 .. number[c] /\ (~Pieces => n = number[c])
      BY <1>n, <3>1, <3>2, <3>3, <3>5
    <3> QED
      BY <2>1, <2>4, <2>7, <3>1, <3>2, <3>6 DEF taken
  <2> QED
    BY <1>1, <2>5, <2>6, <2>7
<1>t. Append(<<>>, "end") = <<"end">>
  OBVIOUS
<1>b. CASE spc[c] \in {"pid", "time"}
  <2>1. /\ words' \in [Clients -> Seq({"pid", "time", "str", "end", "pidtimestr"})]
        /\ spc' \in [Clients -> {"none", "queued", "greet", "pid", "time", "str", "drain", "exit", "killed"}]
        /\ \A d \in Clients \ {c} : words'[d] = words[d] /\ spc'[d] = spc[d]
        /\ words'[c] = words[c] /\ spc'[c] = IF spc[c] = "pid" THEN "time" ELSE "str"
    BY <1>3, <1>b, <1>k DEF ForkTypes
  <2>2. ASSUME cpc[c] # "dead"
        PROVE  ForkAt(cpc'[c], words'[c], spc'[c]) /\ ForkBytes(c)' /\ ForkRight(c)'
    <3>1. ForkAt(cpc'[c], words'[c], spc'[c])
      BY <1>1, <1>7, <1>a, <2>1, <2>2 DEF ForkAt
    <3>2. ForkBytes(c)'
      BY <1>n, <1>7, <1>a, <1>b, <2>1, <2>2 DEF ForkBytes, Both
    <3>3. ForkRight(c)'
      BY <1>8, <1>a, <1>b, <2>1, <2>2 DEF ForkRight
    <3> QED
      BY <3>1, <3>2, <3>3
  <2> QED
    BY <1>1, <1>2, <1>6, <1>7, <2>1, <2>2, ForkReceives, Zenon
<1>c. CASE spc[c] = "str"
  <2>1. Fork!Say(c, "end", "drain")
    BY <1>3, <1>c
  <2>2. /\ words' \in [Clients -> Seq({"pid", "time", "str", "end", "pidtimestr"})]
        /\ spc' \in [Clients -> {"none", "queued", "greet", "pid", "time", "str", "drain", "exit", "killed"}]
        /\ \A d \in Clients \ {c} : words'[d] = words[d] /\ spc'[d] = spc[d]
        /\ cpc[c] # "dead" => spc'[c] = "drain" /\ words'[c] = Append(words[c], "end")
    BY <1>k, <2>1, ForkSaid
  <2>3. ASSUME cpc[c] # "dead"
        PROVE  ForkAt(cpc'[c], words'[c], spc'[c]) /\ ForkBytes(c)' /\ ForkRight(c)'
    <3>1. /\ cpc[c] = "end" /\ taken = <<Both, n>> /\ n \in 1 .. number[c] /\ (~Pieces => n = number[c])
          /\ spc'[c] = "drain" /\ words'[c] = <<"end">> /\ ForkBytes(c) /\ ForkRight(c)
      BY <1>a, <1>c, <1>t, <2>2, <2>3
    <3>2. ForkAt(cpc'[c], words'[c], spc'[c])
      BY <1>7, <3>1 DEF ForkAt
    <3>3. ForkBytes(c)'
      BY <1>7, <3>1 DEF ForkBytes, Both
    <3>4. row'[c].pid = <<0, PidL>> /\ row'[c].time = <<PidL, TimeL>> /\ row'[c].str = <<Both, n>>
      BY <1>8, <1>c, <3>1 DEF ForkRight
    <3>5. ForkRight(c)'
      BY <1>1, <1>7, <3>1, <3>4 DEF ForkRight, Both
    <3> QED
      BY <3>2, <3>3, <3>5
  <2> QED
    BY <1>1, <1>2, <1>6, <1>7, <2>2, <2>3, ForkReceives, Zenon
<1> QED
  BY <1>1, <1>b, <1>c

\* The record is inserted: the client has gone, and all it sent has arrived.
LEMMA ForkInserts ==
  ASSUME Fork!ForkAssumption, ForkInv, NEW c \in Clients, Fork!Insert(c)
  PROVE  ForkInv'
<1>k. ForkTypes /\ ForkBounds(c) /\ ForkAlive(c) /\ Fork!InsertedLast
  BY DEF ForkInv
<1>1. /\ spc[c] = "drain" /\ cpc[c] \in {"done", "dead"} /\ arrived[c] = sent[c]
      /\ read' = [read EXCEPT ![c] = arrived[c]] /\ table' = table \union {c}
      /\ spc' = [spc EXCEPT ![c] = "exit"]
      /\ cpc' = cpc /\ sent' = sent /\ words' = words /\ number' = number /\ row' = row /\ arrived' = arrived
  BY DEF Fork!Insert, Fork!Drained, Fork!Ended, Fork!clientVars
<1>2. ForkTypes'
  BY <1>1, <1>k DEF ForkTypes
<1>3. spc'[c] = "exit" /\ read'[c] = arrived[c]
  BY <1>1, <1>k DEF ForkTypes
<1>4. ASSUME NEW d \in Clients \ {c} PROVE ForkBounds(d)' /\ ForkAlive(d)' /\ spc'[d] = spc[d]
  <2>1. ForkSame(d)
    BY <1>1, <1>k DEF ForkTypes, ForkSame
  <2>2. ForkBounds(d) /\ ForkAlive(d)
    BY DEF ForkInv
  <2>3. ForkBounds(d)'
    BY <2>1, <2>2 DEF ForkBounds, ForkSame
  <2>4. ForkBytes(d) => ForkBytes(d)'
    BY <2>1 DEF ForkBytes, ForkSame
  <2>5. ForkRight(d) => ForkRight(d)'
    BY <2>1 DEF ForkRight, ForkSame, Fork!Kept
  <2>6. ForkAt(cpc[d], words[d], spc[d]) => ForkAt(cpc[d], words[d], spc[d])'
    BY <2>1, Zenon DEF ForkAt, ForkSame
  <2> QED
    BY <2>1, <2>2, <2>3, <2>4, <2>5, <2>6 DEF ForkAlive, ForkSame
<1>5. ForkBounds(c)' /\ ForkAlive(c)'
  <2>1. ForkBounds(c)'
    BY <1>1, <1>3, <1>k DEF ForkBounds, ForkTypes
  <2>2. ASSUME cpc[c] # "dead"
        PROVE  ForkAt(cpc[c], words[c], spc[c])' /\ ForkBytes(c)' /\ ForkRight(c)'
    <3>1. ForkAt(cpc[c], words[c], spc[c]) /\ ForkBytes(c) /\ ForkRight(c)
      BY <2>2, <1>k DEF ForkAlive
    <3>2. ForkAt(cpc[c], words[c], spc[c])'
      BY <1>1, <1>3, <2>2, <3>1 DEF ForkAt
    <3>3. ForkBytes(c)'
      BY <1>1, <1>3, <3>1 DEF ForkBytes, Both
    <3>4. ForkRight(c)'
      BY <1>1, <1>3, <3>1 DEF ForkRight, Fork!Kept
    <3> QED
      BY <3>2, <3>3, <3>4
  <2> QED
    BY <1>1, <2>1, <2>2 DEF ForkAlive
<1>6. Fork!InsertedLast'
  <2>1. ASSUME NEW d \in table' PROVE cpc'[d] \in {"done", "dead"} /\ spc'[d] = "exit"
    <3>1. CASE d = c
      BY <1>1, <1>3, <3>1
    <3>2. CASE d # c
      <4>1. d \in table /\ d \in Clients
        BY <1>1, <1>k, <2>1, <3>2 DEF ForkTypes
      <4> QED
        BY <1>1, <1>4, <1>k, <3>2, <4>1 DEF Fork!InsertedLast
    <3> QED
      BY <3>1, <3>2
  <2> QED
    BY <2>1 DEF Fork!InsertedLast
<1> QED
  BY <1>2, <1>4, <1>5, <1>6 DEF ForkInv

\* It holds when nobody has connected.
LEMMA ForkBegins == Fork!ForkAssumption /\ Fork!Init => ForkInv
<1> SUFFICES ASSUME Fork!ForkAssumption, Fork!Init PROVE ForkInv
  OBVIOUS
<1>1. ForkTypes
  BY DEF Fork!Init, ForkTypes, ForkRows, ForkPart
<1>2. Fork!InsertedLast
  BY DEF Fork!Init, Fork!InsertedLast
<1>3. ASSUME NEW c \in Clients PROVE ForkBounds(c) /\ ForkAlive(c)
  <2>1. /\ cpc[c] = "start" /\ words[c] = <<>> /\ spc[c] = "none"
        /\ sent[c] = 0 /\ arrived[c] = 0 /\ read[c] = 0
    BY DEF Fork!Init
  <2>2. ForkAt(cpc[c], words[c], spc[c])
    BY <2>1 DEF ForkAt
  <2>3. ForkBytes(c) /\ ForkRight(c) /\ ForkBounds(c)
    BY <2>1 DEF ForkBytes, ForkRight, ForkBounds
  <2> QED
    BY <2>2, <2>3 DEF ForkAlive
<1> QED
  BY <1>1, <1>2, <1>3 DEF ForkInv

\* A record has what its client sent.
LEMMA ForkRecords == Fork!ForkAssumption /\ ForkInv => Fork!RecordsAreRight
<1> SUFFICES ASSUME Fork!ForkAssumption, ForkInv PROVE Fork!RecordsAreRight
  OBVIOUS
<1>1. Fork!InsertedLast
  BY DEF ForkInv
<1>2. ASSUME NEW c \in table, cpc[c] = "done"
      PROVE  ForkRight(c) /\ spc[c] = "exit" /\ row[c] \in ForkRows /\ number[c] \in Nat
  <2>1. c \in Clients /\ ForkAlive(c) /\ ForkTypes
    BY DEF ForkInv, ForkTypes
  <2>2. number[c] \in Nat
    BY <2>1, ForkNumbers
  <2> QED
    BY <1>1, <1>2, <2>1, <2>2 DEF ForkAlive, Fork!InsertedLast, ForkTypes
<1>3. ASSUME ~Pieces PROVE Fork!RecordedRight
  <2>1. ASSUME NEW c \in table, cpc[c] = "done", OneByOne => number[c] + 2 <= StrL
        PROVE  row[c] = Fork!Right(c)
    <3> DEFINE r == row[c]
    <3>1. r \in ForkRows /\ r.pid = <<0, PidL>> /\ r.time = <<PidL, TimeL>>
      BY <1>2, <2>1 DEF ForkRight
    <3>2. r.str = <<Both, number[c]>>
      <4>1. r.str = IF OneByOne THEN Fork!Kept(<<Both, number[c]>>) ELSE <<Both, number[c]>>
        BY <1>2, <1>3, <2>1 DEF ForkRight
      <4>2. CASE OneByOne
        <5>1. <<Both, number[c]>>[2] = number[c]
          OBVIOUS
        <5>2. Fork!Kept(<<Both, number[c]>>) = <<Both, number[c]>>
          BY <2>1, <4>2, <5>1, Zenon DEF Fork!Kept
        <5> QED
          BY <4>1, <4>2, <5>2, Zenon
      <4>3. CASE ~OneByOne
        BY <4>1, <4>3, Zenon
      <4> QED
        BY <4>2, <4>3
    <3>3. r = [pid |-> r.pid, time |-> r.time, str |-> r.str]
      BY <3>1 DEF ForkRows
    <3> QED
      BY <3>1, <3>2, <3>3, Zenon DEF Fork!Right, Both
  <2> QED
    BY <2>1 DEF Fork!RecordedRight
<1>4. ASSUME ~OneByOne PROVE Fork!RecordedBegins
  <2>1. ASSUME NEW c \in table, cpc[c] = "done"
        PROVE  /\ row[c].pid = Fork!Right(c).pid /\ row[c].time = Fork!Right(c).time
               /\ row[c].str[1] = Fork!Right(c).str[1] /\ row[c].str[2] \in 1 .. number[c]
    <3>1. row[c].pid = <<0, PidL>> /\ row[c].time = <<PidL, TimeL>>
      BY <1>2, <2>1 DEF ForkRight
    <3>2. PICK n \in 1 .. number[c] : row[c].str = <<Both, n>>
      BY <1>2, <1>4, <2>1 DEF ForkRight
    <3> QED
      BY <3>1, <3>2 DEF Fork!Right, Both
  <2> QED
    BY <2>1 DEF Fork!RecordedBegins
<1> QED
  BY <1>1, <1>3, <1>4 DEF Fork!RecordsAreRight

\* Whatever the clients do and whichever die, a record is inserted only when
\* its client has gone, and that of a client that ended of itself is what it
\* sent, as far as the way its string arrived allows: all of it if it came in
\* one piece and fits, and in test2 its beginning if it came in several.
THEOREM ForkRecordsAreRight == Fork!ForkAssumption => (Fork!Spec => []Fork!RecordsAreRight)
<1> SUFFICES ASSUME Fork!ForkAssumption PROVE Fork!Spec => []Fork!RecordsAreRight
  OBVIOUS
<1>1. Fork!Init => ForkInv
  BY ForkBegins
<1>2. ForkInv /\ [Fork!Next]_(Fork!vars) => ForkInv'
  <2> SUFFICES ASSUME ForkInv, [Fork!Next]_(Fork!vars) PROVE ForkInv'
    OBVIOUS
  <2>1. CASE UNCHANGED Fork!vars
    <3>1. /\ cpc' = cpc /\ sent' = sent /\ words' = words /\ spc' = spc /\ number' = number /\ row' = row
          /\ read' = read /\ arrived' = arrived /\ table' = table
      BY <2>1 DEF Fork!vars, Fork!clientVars, Fork!childVars
    <3>2. ForkTypes' /\ Fork!InsertedLast'
      BY <3>1 DEF ForkInv, ForkTypes, Fork!InsertedLast
    <3>3. ASSUME NEW c \in Clients PROVE ForkBounds(c)' /\ ForkAlive(c)'
      <4>1. ForkBounds(c) /\ ForkAlive(c)
        BY DEF ForkInv
      <4>2. ForkBounds(c)'
        BY <3>1, <4>1 DEF ForkBounds
      <4>3. ForkBytes(c) => ForkBytes(c)'
        BY <3>1 DEF ForkBytes
      <4>4. ForkRight(c) => ForkRight(c)'
        BY <3>1 DEF ForkRight, Fork!Kept
      <4>5. ForkAt(cpc[c], words[c], spc[c]) => ForkAt(cpc[c], words[c], spc[c])'
        BY <3>1, Zenon DEF ForkAt
      <4> QED
        BY <3>1, <4>1, <4>2, <4>3, <4>4, <4>5 DEF ForkAlive
    <3> QED
      BY <3>2, <3>3 DEF ForkInv
  <2>2. ASSUME NEW c \in Clients,
               Fork!Client(c) \/ Fork!Die(c) \/ Fork!Arrive(c) \/ Fork!Accept(c) \/ Fork!Child(c)
        PROVE  ForkInv'
    <3>1. CASE Fork!Client(c)
      BY <3>1, ForkConnects, ForkSpeaks DEF Fork!Client
    <3>2. CASE Fork!Die(c) \/ Fork!Arrive(c) \/ Fork!Accept(c)
      BY <3>2, ForkDies, ForkArrives, ForkAccepts
    <3>3. CASE Fork!Child(c)
      BY <3>3, ForkGreetsOne, ForkGreetsAll, ForkReceivesOne, ForkReceivesAll, ForkInserts DEF Fork!Child
    <3> QED
      BY <2>2, <3>1, <3>2, <3>3
  <2> QED
    BY <2>1, <2>2 DEF Fork!Next
<1>3. ForkInv => Fork!RecordsAreRight
  BY ForkRecords
<1> QED
  BY <1>1, <1>2, <1>3, PTL DEF Fork!Spec

-----------------------------------------------------------------------------
(* test5: the collector with encryption *)

\* The ends of a client's key and encrypted short fields, and the length of
\* the encrypted string.
ToPid == KeyL + T5!Padded(PidL)
ToTime == ToPid + T5!Padded(TimeL5)

\* The types of what the programs keep.
T5Types ==
  /\ cpc \in [Clients -> {"start", "key", "greet", "pid", "time", "str", "poll", "closed", "dead"}]
  /\ key \in [Clients -> Keys \union {None}] /\ service \in [Clients -> Keys \union {None}]
  /\ words = [c \in Clients |-> words[c]]
  /\ asked \in [Clients -> Nat] /\ maxl \in [Clients -> Nat] /\ l \in [Clients -> Nat]
  /\ sent \in [Clients -> Nat] /\ arrived \in [Clients -> Nat] /\ read \in [Clients -> Nat]
  /\ stage \in [Clients -> -2 .. 3]
  /\ rec \in [Clients -> [pid : Part, time : Part, str : Part]]

\* Nothing is told a client before it has sent its key.
T5Before(c) ==
  /\ cpc[c] = "start" => stage[c] = -2
  /\ stage[c] < 0 => /\ words[c] = <<>> /\ service[c] = None /\ read[c] = 0
                     /\ cpc[c] \in {"start", "key", "dead"} /\ sent[c] \in {0, KeyL}
  /\ stage[c] >= 0 => service[c] \in Keys /\ maxl[c] > 0

\* The word with the length.
NumberWord(c, n) == [key |-> service[c], number |-> n]

\* The key and the length are on their way until the client has them, and then
\* the two ends agree.
T5Words(c) ==
  /\ \/ words[c] = <<>>
     \/ \E n \in Numbers : /\ words[c] = <<service[c], NumberWord(c, n)>> /\ maxl[c] = T5!MaxL(n)
                           /\ cpc[c] \in {"key", "dead"} /\ stage[c] >= 0
     \/ \E n \in Numbers : /\ words[c] = <<NumberWord(c, n)>> /\ maxl[c] = T5!MaxL(n)
                           /\ cpc[c] \in {"greet", "dead"} /\ stage[c] >= 0
  /\ cpc[c] = "greet" => key[c] = service[c]
  /\ cpc[c] \in {"pid", "time", "str", "poll", "closed"} \/ sent[c] > KeyL =>
       /\ words[c] = <<>> /\ key[c] = service[c] /\ stage[c] >= 0
       /\ asked[c] \in Numbers /\ maxl[c] = T5!MaxL(asked[c])

\* What a client has sent goes by its place; the key and the short fields arrive
\* whole.
T5Streams(c) ==
  /\ cpc[c] = "start" => sent[c] = 0
  /\ cpc[c] \in {"key", "greet", "pid"} => sent[c] = KeyL
  /\ cpc[c] = "time" => sent[c] = ToPid
  /\ cpc[c] = "str" => sent[c] = ToTime
  /\ cpc[c] \in {"poll", "closed"} => sent[c] = ToTime + maxl[c]
  /\ sent[c] \in {0, KeyL, ToPid, ToTime, ToTime + maxl[c]}
  /\ read[c] <= arrived[c] /\ arrived[c] <= sent[c]
  /\ arrived[c] \in {0, KeyL, ToPid} \/ arrived[c] >= ToTime

\* A field of a fixed length counts as taken also when the stream was cut, but
\* then the string never comes.
T5InOrder(c) ==
  /\ stage[c] < 2 => l[c] = 0
  /\ stage[c] = 0 => read[c] = KeyL \/ Cut(c)
  /\ stage[c] = 1 => \/ read[c] = ToPid /\ rec[c].pid = <<KeyL, T5!Padded(PidL)>>
                     \/ Cut(c)
  /\ stage[c] = 2 => \/ /\ read[c] = ToTime + l[c] /\ l[c] < maxl[c]
                        /\ rec[c].pid = <<KeyL, T5!Padded(PidL)>> /\ rec[c].time = <<ToPid, T5!Padded(TimeL5)>>
                     \/ Cut(c) /\ l[c] = 0
  /\ stage[c] = 3 => /\ read[c] = ToTime + maxl[c] /\ l[c] = maxl[c]
                     /\ rec[c].pid = <<KeyL, T5!Padded(PidL)>> /\ rec[c].time = <<ToPid, T5!Padded(TimeL5)>>
                     /\ rec[c].str = <<ToTime, maxl[c]>>

\* The inductive invariant of the collector with encryption.
T5Inv == /\ T5Types
         /\ \A c \in Clients : T5Before(c) /\ T5Words(c) /\ T5Streams(c) /\ T5InOrder(c)

\* A cipher text has at least a byte, and of one with a zero more the server's
\* count is right.
LEMMA PaddedIs ==
  ASSUME T5!SecureAssumption
  PROVE  /\ \A m \in Nat \ {0} : T5!Padded(m) \in Nat /\ T5!Padded(m) > 0
         /\ \A n \in Nat : T5!MaxL(n) = T5!Padded(n + 1) /\ T5!MaxL(n) \in Nat /\ T5!MaxL(n) > 0
<1>1. Block \in Nat /\ Block > 0
  BY DEF T5!SecureAssumption
<1>2. ASSUME NEW q \in Nat PROVE (q + 1) * Block \in Nat /\ (q + 1) * Block > 0
  <2>1. q * Block \in Nat
    BY <1>1
  <2>2. (q + 1) * Block = q * Block + Block
    BY <1>1
  <2> QED
    BY <1>1, <2>1, <2>2
<1>3. ASSUME NEW n \in Nat PROVE n \div Block \in Nat
  BY <1>1
<1>4. ASSUME NEW m \in Nat \ {0} PROVE T5!Padded(m) \in Nat /\ T5!Padded(m) > 0
  <2>1. m - 1 \in Nat
    OBVIOUS
  <2> DEFINE q == (m - 1) \div Block
  <2>2. q \in Nat
    BY <1>3, <2>1
  <2>3. T5!Padded(m) = (q + 1) * Block
    BY DEF T5!Padded
  <2> HIDE DEF q
  <2> QED
    BY <1>2, <2>2, <2>3
<1>5. ASSUME NEW n \in Nat PROVE T5!MaxL(n) = T5!Padded(n + 1) /\ T5!MaxL(n) \in Nat /\ T5!MaxL(n) > 0
  <2> DEFINE q == n \div Block
  <2>1. q \in Nat
    BY <1>3
  <2>2. T5!MaxL(n) = (q + 1) * Block
    BY DEF T5!MaxL
  <2> DEFINE k == (n + 1) - 1
  <2>3. k = n
    OBVIOUS
  <2>4. T5!Padded(n + 1) = (k \div Block + 1) * Block
    BY DEF T5!Padded
  <2> HIDE DEF k
  <2>5. T5!Padded(n + 1) = (q + 1) * Block
    BY <2>3, <2>4
  <2> HIDE DEF q
  <2> QED
    BY <1>2, <2>1, <2>2, <2>5
<1> QED
  BY <1>4, <1>5

\* The numbers of a client.
LEMMA T5Numbers ==
  ASSUME T5!SecureAssumption, T5Types, NEW c \in Clients
  PROVE  /\ KeyL \in Nat /\ KeyL > 0 /\ ToPid \in Nat /\ ToPid > KeyL /\ ToTime \in Nat /\ ToTime > ToPid
         /\ T5!Padded(PidL) \in Nat /\ T5!Padded(PidL) > 0 /\ ToPid = KeyL + T5!Padded(PidL)
         /\ T5!Padded(TimeL5) \in Nat /\ T5!Padded(TimeL5) > 0 /\ ToTime = ToPid + T5!Padded(TimeL5)
         /\ asked[c] \in Nat /\ maxl[c] \in Nat /\ l[c] \in Nat /\ sent[c] \in Nat
         /\ arrived[c] \in Nat /\ read[c] \in Nat /\ stage[c] \in -2 .. 3
         /\ \A n \in Numbers : n \in Nat /\ T5!MaxL(n) \in Nat /\ T5!MaxL(n) > 0
<1>1. KeyL \in Nat /\ KeyL > 0 /\ PidL \in Nat \ {0} /\ TimeL5 \in Nat \ {0} /\ \A n \in Numbers : n \in Nat
  BY DEF T5!SecureAssumption
<1>2. /\ T5!Padded(PidL) \in Nat /\ T5!Padded(PidL) > 0 /\ T5!Padded(TimeL5) \in Nat /\ T5!Padded(TimeL5) > 0
      /\ \A n \in Numbers : T5!MaxL(n) \in Nat /\ T5!MaxL(n) > 0
  BY <1>1, PaddedIs
<1>3. /\ ToPid = KeyL + T5!Padded(PidL) /\ ToTime = ToPid + T5!Padded(TimeL5)
  BY DEF ToPid, ToTime
<1>4. /\ asked[c] \in Nat /\ maxl[c] \in Nat /\ l[c] \in Nat /\ sent[c] \in Nat
      /\ arrived[c] \in Nat /\ read[c] \in Nat /\ stage[c] \in -2 .. 3
  BY DEF T5Types
<1>5. ToPid \in Nat /\ ToPid > KeyL /\ ToTime \in Nat /\ ToTime > ToPid
  BY <1>1, <1>2, <1>3
<1> QED
  BY <1>1, <1>2, <1>3, <1>4, <1>5

\* Nothing of a client and its connection has changed.
T5Same(c) ==
  /\ cpc'[c] = cpc[c] /\ key'[c] = key[c] /\ service'[c] = service[c] /\ words'[c] = words[c]
  /\ asked'[c] = asked[c] /\ maxl'[c] = maxl[c] /\ l'[c] = l[c] /\ sent'[c] = sent[c]
  /\ arrived'[c] = arrived[c] /\ read'[c] = read[c] /\ stage'[c] = stage[c] /\ rec'[c] = rec[c]

\* A step of one client, its connection or its network.
LEMMA T5Of ==
  ASSUME T5Inv, NEW C \in SUBSET Clients, T5Types', \A d \in Clients \ C : T5Same(d),
         \A c \in C : T5Before(c)' /\ T5Words(c)' /\ T5Streams(c)' /\ T5InOrder(c)'
  PROVE  T5Inv'
<1>1. ASSUME NEW d \in Clients \ C
      PROVE  T5Before(d)' /\ T5Words(d)' /\ T5Streams(d)' /\ T5InOrder(d)'
  <2>1. T5Before(d) /\ T5Words(d) /\ T5Streams(d) /\ T5InOrder(d) /\ T5Same(d)
    BY DEF T5Inv
  <2>2. T5Before(d)'
    BY <2>1 DEF T5Before, T5Same
  <2>3. T5Words(d)'
    BY <2>1, Zenon DEF T5Words, T5Same, NumberWord
  <2>4. T5Streams(d)'
    BY <2>1 DEF T5Streams, T5Same
  <2>5. T5InOrder(d)'
    BY <2>1 DEF T5InOrder, T5Same, Cut
  <2> QED
    BY <2>2, <2>3, <2>4, <2>5
<1> QED
  BY <1>1 DEF T5Inv

\* The words of the server, one after the other.
LEMMA TwoWords ==
  ASSUME NEW a, NEW b
  PROVE  /\ <<a, b>> # <<>> /\ Head(<<a, b>>) = a /\ Tail(<<a, b>>) = <<b>>
         /\ <<b>> # <<>> /\ Head(<<b>>) = b /\ Tail(<<b>>) = <<>>
         /\ <<>> \o <<a, b>> = <<a, b>>
<1>1. /\ <<a, b>> \in Seq({a, b}) /\ Len(<<a, b>>) = 2 /\ <<a, b>>[1] = a /\ <<a, b>>[2] = b
  OBVIOUS
<1>2. <<b>> # <<>> /\ Head(<<b>>) = b /\ Tail(<<b>>) = <<>> /\ <<b>> \in Seq({a, b}) /\ Len(<<b>>) = 1 /\ <<b>>[1] = b
  OBVIOUS
<1>3. <<a, b>> # <<>> /\ Head(<<a, b>>) = a
  BY <1>1
<1>4. Tail(<<a, b>>) = <<b>>
  <2> DEFINE s == <<a, b>>
             t == <<b>>
  <2>1. Tail(s) \in Seq({a, b}) /\ Len(Tail(s)) = 1 /\ Tail(s)[1] = b
    <3>1. s \in Seq({a, b}) /\ Len(s) = 2 /\ s[2] = b
      BY <1>1
    <3> HIDE DEF s
    <3>2. s # <<>>
      BY <3>1
    <3> QED
      BY <3>1, <3>2, HeadTailProperties
  <2>2. t \in Seq({a, b}) /\ Len(t) = 1 /\ t[1] = b
    BY <1>2
  <2> HIDE DEF s, t
  <2>3. \A i \in 1 .. Len(t) : Tail(s)[i] = t[i]
    BY <2>1, <2>2
  <2>4. Tail(s) = t
    BY <2>1, <2>2, <2>3, SeqEqual
  <2> QED
    BY <2>4 DEF s, t
<1>5. <<>> \o <<a, b>> = <<a, b>>
  BY <1>1, ConcatEmptySeq
<1> QED
  BY <1>2, <1>3, <1>4, <1>5

\* A client sends its key, or a field.
LEMMA T5Sends ==
  ASSUME T5!SecureAssumption, T5Inv, NEW c \in Clients, T5!Send(c)
  PROVE  T5Inv'
<1> DEFINE cp == T5!After[cpc[c]]
           sn == sent[c] + T5!Piece(c)
<1>k. T5Types /\ T5Before(c) /\ T5Words(c) /\ T5Streams(c) /\ T5InOrder(c)
  BY DEF T5Inv
<1>n. /\ KeyL \in Nat /\ KeyL > 0 /\ ToPid \in Nat /\ ToPid > KeyL /\ ToTime \in Nat /\ ToTime > ToPid
      /\ ToPid = KeyL + T5!Padded(PidL) /\ ToTime = ToPid + T5!Padded(TimeL5)
      /\ maxl[c] \in Nat /\ sent[c] \in Nat /\ arrived[c] \in Nat /\ read[c] \in Nat
      /\ \A n \in Numbers : n \in Nat
  BY <1>k, T5Numbers
<1>1. /\ cpc[c] \in {"start", "pid", "time", "str"}
      /\ cpc' = [cpc EXCEPT ![c] = cp] /\ sent' = [sent EXCEPT ![c] = sn]
      /\ key' = key /\ service' = service /\ words' = words /\ asked' = asked /\ maxl' = maxl /\ l' = l
      /\ arrived' = arrived /\ read' = read /\ stage' = stage /\ rec' = rec
  BY DEF T5!Send, T5!serverVars, T5!After
<1>2. \/ cpc[c] = "start" /\ cp = "key" /\ sn = KeyL
      \/ cpc[c] = "pid" /\ cp = "time" /\ sn = ToPid
      \/ cpc[c] = "time" /\ cp = "str" /\ sn = ToTime
      \/ cpc[c] = "str" /\ cp = "poll" /\ sn = ToTime + maxl[c]
  <2>1. T5!After["start"] = "key" /\ T5!After["pid"] = "time" /\ T5!After["time"] = "str" /\ T5!After["str"] = "poll"
    BY DEF T5!After
  <2>2. CASE cpc[c] = "start"
    <3>1. T5!Piece(c) = KeyL
      BY <2>2 DEF T5!Piece
    <3> QED
      BY <1>n, <1>k, <2>1, <2>2, <3>1 DEF T5Streams
  <2>3. CASE cpc[c] = "pid"
    <3>1. T5!Piece(c) = T5!Padded(PidL)
      BY <2>3 DEF T5!Piece
    <3> QED
      BY <1>n, <1>k, <2>1, <2>3, <3>1 DEF T5Streams
  <2>4. CASE cpc[c] = "time"
    <3>1. T5!Piece(c) = T5!Padded(TimeL5)
      BY <2>4 DEF T5!Piece
    <3> QED
      BY <1>n, <1>k, <2>1, <2>4, <3>1 DEF T5Streams
  <2>5. CASE cpc[c] = "str"
    <3>1. T5!Piece(c) = T5!Padded(asked[c] + 1)
      BY <2>5 DEF T5!Piece
    <3>2. asked[c] \in Numbers /\ maxl[c] = T5!MaxL(asked[c])
      BY <1>k, <2>5 DEF T5Words
    <3>3. T5!Piece(c) = maxl[c]
      BY <1>n, <3>1, <3>2, PaddedIs
    <3> QED
      BY <1>n, <1>k, <2>1, <2>5, <3>3 DEF T5Streams
  <2> QED
    BY <1>1, <2>2, <2>3, <2>4, <2>5
<1> HIDE DEF cp, sn
<1>3. T5Types' /\ \A d \in Clients \ {c} : T5Same(d)
  <2>1. cpc' \in [Clients -> {"start", "key", "greet", "pid", "time", "str", "poll", "closed", "dead"}]
    BY <1>1, <1>2, <1>k DEF T5Types
  <2>2. sent' \in [Clients -> Nat]
    BY <1>n, <1>1, <1>2, <1>k DEF T5Types
  <2> QED
    BY <1>1, <2>1, <2>2, <1>k DEF T5Types, T5Same
<1>4. cpc'[c] = cp /\ sent'[c] = sn
  BY <1>1, <1>k DEF T5Types
<1>5. T5Before(c)'
  BY <1>1, <1>2, <1>4, <1>k DEF T5Before
<1>6. T5Words(c)'
  <2>1. CASE cpc[c] = "start"
    <3>1. words[c] = <<>>
      BY <2>1, <1>k DEF T5Before
    <3>2. cp = "key" /\ sn = KeyL
      BY <1>2, <2>1
    <3> QED
      BY <1>n, <1>1, <1>4, <3>1, <3>2 DEF T5Words
  <2>2. CASE cpc[c] # "start"
    <3>1. /\ words[c] = <<>> /\ key[c] = service[c] /\ stage[c] >= 0
          /\ asked[c] \in Numbers /\ maxl[c] = T5!MaxL(asked[c])
      BY <1>1, <2>2, <1>k DEF T5Words
    <3> QED
      BY <1>1, <3>1 DEF T5Words
  <2> QED
    BY <2>1, <2>2
<1>7. T5Streams(c)'
  <2>1. sent[c] <= sn
    BY <1>n, <1>2, <1>k DEF T5Streams
  <2> QED
    BY <1>n, <1>1, <1>2, <1>4, <2>1, <1>k DEF T5Streams
<1>8. T5InOrder(c)'
  BY <1>1, <1>k DEF T5InOrder, Cut
<1> QED
  <2>1. {c} \in SUBSET Clients
    OBVIOUS
  <2> QED
    BY <1>3, <1>5, <1>6, <1>7, <1>8, <2>1, T5Of

\* A client receives its key.
LEMMA T5HearsKey ==
  ASSUME T5!SecureAssumption, T5Inv, NEW c \in Clients, T5!RecvKey(c)
  PROVE  T5Inv'
<1>k. T5Types /\ T5Before(c) /\ T5Words(c) /\ T5Streams(c) /\ T5InOrder(c)
  BY DEF T5Inv
<1>1. /\ cpc[c] = "key" /\ words[c] # <<>>
      /\ key' = [key EXCEPT ![c] = Head(words[c])] /\ words' = [words EXCEPT ![c] = Tail(words[c])]
      /\ cpc' = [cpc EXCEPT ![c] = "greet"]
      /\ sent' = sent /\ service' = service /\ asked' = asked /\ maxl' = maxl /\ l' = l
      /\ arrived' = arrived /\ read' = read /\ stage' = stage /\ rec' = rec
  BY DEF T5!RecvKey, T5!serverVars
<1>2. PICK n \in Numbers : /\ words[c] = <<service[c], NumberWord(c, n)>> /\ maxl[c] = T5!MaxL(n)
                           /\ stage[c] >= 0
  BY <1>1, <1>k DEF T5Words
<1>3. Head(words[c]) = service[c] /\ Tail(words[c]) = <<NumberWord(c, n)>>
  BY <1>2, TwoWords
<1>4. service[c] \in Keys
  BY <1>2, <1>k DEF T5Before
<1>5. /\ key' = [key EXCEPT ![c] = service[c]] /\ words' = [words EXCEPT ![c] = <<NumberWord(c, n)>>]
  BY <1>1, <1>3, Zenon
<1>6. T5Types' /\ \A d \in Clients \ {c} : T5Same(d)
  <2>1. words' = [d \in Clients |-> words'[d]] /\ \A d \in Clients \ {c} : words'[d] = words[d]
    <3> DEFINE w == <<NumberWord(c, n)>>
    <3>1. words' = [words EXCEPT ![c] = w] /\ words = [d \in Clients |-> words[d]]
      BY <1>5, <1>k DEF T5Types
    <3> HIDE DEF w
    <3> QED
      BY <3>1
  <2>2. key' \in [Clients -> Keys \union {None}] /\ \A d \in Clients \ {c} : key'[d] = key[d]
    BY <1>4, <1>5, <1>k DEF T5Types
  <2>3. /\ cpc' \in [Clients -> {"start", "key", "greet", "pid", "time", "str", "poll", "closed", "dead"}]
        /\ \A d \in Clients \ {c} : cpc'[d] = cpc[d]
    BY <1>1, <1>k DEF T5Types
  <2> QED
    BY <1>1, <2>1, <2>2, <2>3, <1>k DEF T5Types, T5Same
<1>7. cpc'[c] = "greet" /\ key'[c] = service[c] /\ words'[c] = <<NumberWord(c, n)>>
  <2> DEFINE w == <<NumberWord(c, n)>>
  <2>1. words' = [words EXCEPT ![c] = w] /\ words = [d \in Clients |-> words[d]]
    BY <1>5, <1>k DEF T5Types
  <2> HIDE DEF w
  <2>2. words'[c] = w
    BY <2>1
  <2>3. cpc'[c] = "greet" /\ key'[c] = service[c]
    BY <1>1, <1>5, <1>k DEF T5Types
  <2> QED
    BY <2>2, <2>3 DEF w
<1>8. T5Before(c)'
  BY <1>1, <1>2, <1>7, <1>k DEF T5Before, T5Types
<1>9. T5Words(c)'
  <2>1. NumberWord(c, n)' = NumberWord(c, n)
    BY <1>1 DEF NumberWord
  <2>2. sent[c] = KeyL /\ KeyL \in Nat
    BY <1>1, <1>k, T5Numbers DEF T5Streams
  <2>3. ~(sent'[c] > KeyL)
    BY <1>1, <2>2
  <2>4. /\ words'[c] = <<NumberWord(c, n)'>> /\ maxl'[c] = T5!MaxL(n)
        /\ cpc'[c] \in {"greet", "dead"} /\ stage'[c] >= 0
    BY <1>1, <1>2, <1>7, <2>1
  <2>5. key'[c] = service'[c] /\ cpc'[c] = "greet"
    BY <1>1, <1>7
  <2>6. cpc'[c] \notin {"pid", "time", "str", "poll", "closed"}
    BY <2>5
  <2> QED
    BY <2>3, <2>4, <2>5, <2>6, Zenon DEF T5Words
<1>10. T5Streams(c)'
  BY <1>1, <1>7, <1>k DEF T5Streams
<1>11. T5InOrder(c)'
  BY <1>1, <1>k DEF T5InOrder, Cut
<1> QED
  <2>1. {c} \in SUBSET Clients
    OBVIOUS
  <2> QED
    BY <1>6, <1>8, <1>9, <1>10, <1>11, <2>1, T5Of

\* A client receives its length.
LEMMA T5HearsNumber ==
  ASSUME T5!SecureAssumption, T5Inv, NEW c \in Clients, T5!RecvNumber(c)
  PROVE  T5Inv'
<1>k. T5Types /\ T5Before(c) /\ T5Words(c) /\ T5Streams(c) /\ T5InOrder(c)
  BY DEF T5Inv
<1>1. /\ cpc[c] = "greet" /\ words[c] # <<>>
      /\ asked' = [asked EXCEPT ![c] = Head(words[c]).number]
      /\ words' = [words EXCEPT ![c] = Tail(words[c])]
      /\ cpc' = [cpc EXCEPT ![c] = "pid"]
      /\ key' = key /\ sent' = sent /\ service' = service /\ maxl' = maxl /\ l' = l
      /\ arrived' = arrived /\ read' = read /\ stage' = stage /\ rec' = rec
  BY DEF T5!RecvNumber, T5!serverVars
<1>2. PICK n \in Numbers : /\ words[c] = <<NumberWord(c, n)>> /\ maxl[c] = T5!MaxL(n)
                           /\ stage[c] >= 0
  BY <1>1, <1>k DEF T5Words
<1>3. Head(words[c]).number = n /\ Tail(words[c]) = <<>>
  <2>1. Head(words[c]) = NumberWord(c, n) /\ Tail(words[c]) = <<>>
    BY <1>2, TwoWords
  <2> QED
    BY <2>1 DEF NumberWord
<1>4. n \in Nat
  BY <1>k, T5Numbers
<1>5. asked' = [asked EXCEPT ![c] = n] /\ words' = [words EXCEPT ![c] = <<>>]
  BY <1>1, <1>3, Zenon
<1>6. T5Types' /\ \A d \in Clients \ {c} : T5Same(d)
  <2>1. words' = [d \in Clients |-> words'[d]] /\ \A d \in Clients \ {c} : words'[d] = words[d]
    BY <1>5, <1>k DEF T5Types
  <2>2. asked' \in [Clients -> Nat] /\ \A d \in Clients \ {c} : asked'[d] = asked[d]
    BY <1>4, <1>5, <1>k DEF T5Types
  <2>3. /\ cpc' \in [Clients -> {"start", "key", "greet", "pid", "time", "str", "poll", "closed", "dead"}]
        /\ \A d \in Clients \ {c} : cpc'[d] = cpc[d]
    BY <1>1, <1>k DEF T5Types
  <2> QED
    BY <1>1, <2>1, <2>2, <2>3, <1>k DEF T5Types, T5Same
<1>7. cpc'[c] = "pid" /\ asked'[c] = n /\ words'[c] = <<>>
  BY <1>1, <1>5, <1>k DEF T5Types
<1>8. T5Before(c)'
  BY <1>1, <1>2, <1>7, <1>k DEF T5Before, T5Types
<1>9. T5Words(c)'
  <2>1. key[c] = service[c]
    BY <1>1, <1>k DEF T5Words
  <2> QED
    BY <1>1, <1>2, <1>7, <2>1 DEF T5Words
<1>10. T5Streams(c)'
  BY <1>1, <1>7, <1>k DEF T5Streams
<1>11. T5InOrder(c)'
  BY <1>1, <1>k DEF T5InOrder, Cut
<1> QED
  <2>1. {c} \in SUBSET Clients
    OBVIOUS
  <2> QED
    BY <1>6, <1>8, <1>9, <1>10, <1>11, <2>1, T5Of

\* A client leaves, or dies.
LEMMA T5Goes ==
  ASSUME T5!SecureAssumption, T5Inv, NEW c \in Clients, T5!Leave(c) \/ T5!Die(c)
  PROVE  T5Inv'
<1>k. T5Types /\ T5Before(c) /\ T5Words(c) /\ T5Streams(c) /\ T5InOrder(c)
  BY DEF T5Inv
<1>1. /\ \/ cpc[c] = "poll" /\ cpc' = [cpc EXCEPT ![c] = "closed"]
         \/ cpc[c] \notin {"closed", "dead"} /\ cpc' = [cpc EXCEPT ![c] = "dead"]
      /\ key' = key /\ service' = service /\ words' = words /\ asked' = asked /\ maxl' = maxl /\ l' = l
      /\ sent' = sent /\ arrived' = arrived /\ read' = read /\ stage' = stage /\ rec' = rec
  BY DEF T5!Leave, T5!Die, T5!serverVars
<1>2. T5Types' /\ \A d \in Clients \ {c} : T5Same(d)
  BY <1>1, <1>k DEF T5Types, T5Same
<1>3. (cpc[c] = "poll" /\ cpc'[c] = "closed") \/ (cpc[c] # "dead" /\ cpc'[c] = "dead")
  BY <1>1, <1>k DEF T5Types
<1>4. T5Before(c)'
  BY <1>1, <1>3, <1>k DEF T5Before
<1>5. T5Words(c)'
  <2>1. CASE cpc'[c] = "closed"
    <3>1. cpc[c] = "poll"
      BY <1>3, <2>1
    <3>2. /\ words[c] = <<>> /\ key[c] = service[c] /\ stage[c] >= 0
          /\ asked[c] \in Numbers /\ maxl[c] = T5!MaxL(asked[c])
      BY <3>1, <1>k DEF T5Words
    <3> QED
      BY <1>1, <2>1, <3>2 DEF T5Words
  <2>2. CASE cpc'[c] = "dead"
    <3>1. \A n \in Numbers : NumberWord(c, n)' = NumberWord(c, n)
      BY <1>1 DEF NumberWord
    <3>2. \/ words'[c] = <<>>
          \/ \E n \in Numbers : /\ words'[c] = <<service'[c], NumberWord(c, n)'>> /\ maxl'[c] = T5!MaxL(n)
                                /\ cpc'[c] \in {"key", "dead"} /\ stage'[c] >= 0
          \/ \E n \in Numbers : /\ words'[c] = <<NumberWord(c, n)'>> /\ maxl'[c] = T5!MaxL(n)
                                /\ cpc'[c] \in {"greet", "dead"} /\ stage'[c] >= 0
      BY <1>1, <2>2, <3>1, <1>k DEF T5Words
    <3>3. sent'[c] > KeyL =>
            /\ words'[c] = <<>> /\ key'[c] = service'[c] /\ stage'[c] >= 0
            /\ asked'[c] \in Numbers /\ maxl'[c] = T5!MaxL(asked'[c])
      BY <1>1, <1>k DEF T5Words
    <3>4. cpc'[c] # "greet" /\ cpc'[c] \notin {"pid", "time", "str", "poll", "closed"}
      BY <2>2
    <3> QED
      BY <3>2, <3>3, <3>4, Zenon DEF T5Words
  <2> QED
    BY <1>3, <2>1, <2>2
<1>6. T5Streams(c)'
  BY <1>1, <1>3, <1>k DEF T5Streams
<1>7. T5InOrder(c)'
  BY <1>1, <1>3, <1>k DEF T5InOrder, Cut
<1> QED
  <2>1. {c} \in SUBSET Clients
    OBVIOUS
  <2> QED
    BY <1>2, <1>4, <1>5, <1>6, <1>7, <2>1, T5Of

\* Some of what a client has sent arrives.
LEMMA T5Arrives ==
  ASSUME T5!SecureAssumption, T5Inv, NEW c \in Clients, T5!Arrive(c)
  PROVE  T5Inv'
<1>k. T5Types /\ T5Before(c) /\ T5Words(c) /\ T5Streams(c) /\ T5InOrder(c)
  BY DEF T5Inv
<1>n. /\ KeyL \in Nat /\ KeyL > 0 /\ ToPid \in Nat /\ ToPid > KeyL /\ ToTime \in Nat /\ ToTime > ToPid
      /\ ToPid = KeyL + T5!Padded(PidL) /\ ToTime = ToPid + T5!Padded(TimeL5)
      /\ maxl[c] \in Nat /\ sent[c] \in Nat /\ arrived[c] \in Nat /\ read[c] \in Nat
  BY <1>k, T5Numbers
<1>1. PICK n \in arrived[c] + 1 .. sent[c] :
         /\ n < sent[c] => (n > ToTime \/ n \in {ToPid, ToTime})
         /\ arrived' = [arrived EXCEPT ![c] = n]
  BY DEF T5!Arrive, ToTime, ToPid
<1>2. /\ cpc' = cpc /\ key' = key /\ service' = service /\ words' = words /\ asked' = asked
      /\ maxl' = maxl /\ l' = l /\ sent' = sent /\ read' = read /\ stage' = stage /\ rec' = rec
  BY DEF T5!Arrive, T5!clientVars, T5!serverVars
<1>3. n \in Nat /\ arrived[c] < n /\ n <= sent[c]
  BY <1>n
<1>4. T5Types' /\ \A d \in Clients \ {c} : T5Same(d)
  BY <1>1, <1>2, <1>3, <1>k DEF T5Types, T5Same
<1>5. arrived'[c] = n
  BY <1>1, <1>k DEF T5Types
<1>6. T5Before(c)'
  BY <1>2, <1>k DEF T5Before
<1>7. T5Words(c)'
  BY <1>2, <1>k, Zenon DEF T5Words, NumberWord
<1>8. T5Streams(c)'
  <2>1. n \in {0, KeyL, ToPid} \/ n >= ToTime
    <3>1. sent[c] \in {0, KeyL, ToPid} \/ sent[c] >= ToTime
      BY <1>n, <1>k DEF T5Streams
    <3> QED
      BY <1>n, <1>1, <1>3, <3>1
  <2> QED
    BY <1>n, <1>2, <1>3, <1>5, <2>1, <1>k DEF T5Streams
<1>9. T5InOrder(c)'
  <2>1. ~Cut(c)
    BY <1>n, <1>3 DEF Cut
  <2> QED
    BY <1>2, <2>1, <1>k DEF T5InOrder
<1> QED
  <2>1. {c} \in SUBSET Clients
    OBVIOUS
  <2> QED
    BY <1>4, <1>6, <1>7, <1>8, <1>9, <2>1, T5Of

\* A connection is accepted.
LEMMA T5Accepts ==
  ASSUME T5!SecureAssumption, T5Inv, NEW c \in Clients, T5!Accept(c)
  PROVE  T5Inv'
<1>k. T5Types /\ T5Before(c) /\ T5Words(c) /\ T5Streams(c) /\ T5InOrder(c)
  BY DEF T5Inv
<1>1. /\ stage[c] = -2 /\ cpc[c] # "start" /\ stage' = [stage EXCEPT ![c] = -1]
      /\ cpc' = cpc /\ key' = key /\ service' = service /\ words' = words /\ asked' = asked /\ maxl' = maxl
      /\ l' = l /\ sent' = sent /\ arrived' = arrived /\ read' = read /\ rec' = rec
  BY DEF T5!Accept, T5!clientVars
<1>2. T5Types' /\ \A d \in Clients \ {c} : T5Same(d)
  BY <1>1, <1>k DEF T5Types, T5Same
<1>3. stage'[c] = -1
  BY <1>1, <1>k DEF T5Types
<1>4. T5Before(c)'
  BY <1>1, <1>3, <1>k DEF T5Before
<1>5. T5Words(c)'
  <2>1. words[c] = <<>> /\ cpc[c] \in {"key", "dead"} /\ sent[c] \in {0, KeyL}
    BY <1>1, <1>k DEF T5Before
  <2>2. KeyL \in Nat /\ KeyL > 0
    BY <1>k, T5Numbers
  <2>3. ~(sent'[c] > KeyL)
    BY <1>1, <2>1, <2>2
  <2> QED
    BY <1>1, <2>1, <2>3 DEF T5Words
<1>6. T5Streams(c)'
  BY <1>1, <1>k DEF T5Streams
<1>7. T5InOrder(c)'
  BY <1>1, <1>3, <1>k DEF T5InOrder
<1> QED
  <2>1. {c} \in SUBSET Clients
    OBVIOUS
  <2> QED
    BY <1>2, <1>4, <1>5, <1>6, <1>7, <2>1, T5Of

\* The client's key is there, and is answered; or the client died without
\* sending one.
LEMMA T5Keys ==
  ASSUME T5!SecureAssumption, T5Inv, NEW c \in Clients, T5!KeyAndNumber(c)
  PROVE  T5Inv'
<1> DEFINE r == IF arrived[c] = read[c] THEN read[c] ELSE read[c] + KeyL
<1>k. T5Types /\ T5Before(c) /\ T5Words(c) /\ T5Streams(c) /\ T5InOrder(c)
  BY DEF T5Inv
<1>n. /\ KeyL \in Nat /\ KeyL > 0 /\ ToPid \in Nat /\ ToPid > KeyL /\ ToTime \in Nat /\ ToTime > ToPid
      /\ maxl[c] \in Nat /\ l[c] \in Nat /\ sent[c] \in Nat /\ arrived[c] \in Nat /\ read[c] \in Nat
      /\ \A n \in Numbers : n \in Nat /\ T5!MaxL(n) \in Nat /\ T5!MaxL(n) > 0
  BY <1>k, T5Numbers
<1>1. /\ stage[c] = -1 /\ T5!Ready(c) /\ cpc' = cpc /\ key' = key /\ asked' = asked /\ l' = l
      /\ sent' = sent /\ arrived' = arrived /\ rec' = rec
      /\ read' = [read EXCEPT ![c] = r] /\ stage' = [stage EXCEPT ![c] = 0]
  BY DEF T5!KeyAndNumber, T5!clientVars
<1>2. PICK aes \in Keys, n \in Numbers :
         /\ service' = [service EXCEPT ![c] = aes]
         /\ words' = [words EXCEPT ![c] = words[c] \o <<aes, [key |-> aes, number |-> n]>>]
         /\ maxl' = [maxl EXCEPT ![c] = T5!MaxL(n)]
  BY Zenon DEF T5!KeyAndNumber
<1>3. words[c] = <<>> /\ read[c] = 0 /\ cpc[c] \in {"start", "key", "dead"} /\ sent[c] \in {0, KeyL}
  BY <1>1, <1>k DEF T5Before
<1>4. \/ sent[c] = KeyL /\ arrived[c] = KeyL /\ r = KeyL /\ cpc[c] \in {"key", "dead"}
      \/ cpc[c] = "dead" /\ sent[c] = 0 /\ arrived[c] = 0 /\ r = 0
  <2>1. CASE arrived[c] = read[c]
    <3>1. cpc[c] = "dead" /\ arrived[c] = sent[c]
      BY <1>n, <1>1, <2>1 DEF T5!Ready
    <3> QED
      BY <1>3, <2>1, <3>1
  <2>2. CASE arrived[c] # read[c]
    <3>1. sent[c] = KeyL /\ arrived[c] = KeyL
      BY <1>n, <1>3, <2>2, <1>k DEF T5Streams
    <3>2. cpc[c] # "start"
      BY <1>n, <3>1, <1>k DEF T5Streams
    <3> QED
      BY <1>n, <1>3, <2>2, <3>1, <3>2
  <2> QED
    BY <2>1, <2>2
<1> DEFINE reply == [key |-> aes, number |-> n]
           two == <<aes, reply>>
           m == T5!MaxL(n)
<1>5. words' = [words EXCEPT ![c] = two]
  <2>1. words[c] \o two = two
    BY <1>3, TwoWords
  <2> QED
    BY <1>2, <2>1, Zenon
<1>6. m \in Nat /\ m > 0 /\ r \in Nat
  BY <1>n
<1>7. maxl' = [maxl EXCEPT ![c] = m]
  BY <1>2
<1> HIDE DEF two, m, r
<1>8. T5Types' /\ \A d \in Clients \ {c} : T5Same(d)
  <2>1. words' = [d \in Clients |-> words'[d]] /\ \A d \in Clients \ {c} : words'[d] = words[d]
    BY <1>5, <1>k DEF T5Types
  <2>2. maxl' \in [Clients -> Nat] /\ \A d \in Clients \ {c} : maxl'[d] = maxl[d]
    BY <1>6, <1>7, <1>k DEF T5Types
  <2>3. service' \in [Clients -> Keys \union {None}] /\ \A d \in Clients \ {c} : service'[d] = service[d]
    BY <1>2, <1>k DEF T5Types
  <2>4. read' \in [Clients -> Nat] /\ \A d \in Clients \ {c} : read'[d] = read[d]
    BY <1>1, <1>6, <1>k DEF T5Types
  <2>5. stage' \in [Clients -> -2 .. 3] /\ \A d \in Clients \ {c} : stage'[d] = stage[d]
    BY <1>1, <1>k DEF T5Types
  <2> QED
    BY <1>1, <2>1, <2>2, <2>3, <2>4, <2>5, <1>k DEF T5Types, T5Same
<1>9. /\ words'[c] = two /\ maxl'[c] = m /\ service'[c] = aes /\ read'[c] = r /\ stage'[c] = 0
  <2>1. words'[c] = two
    BY <1>5, <1>k DEF T5Types
  <2> QED
    BY <1>1, <1>2, <1>7, <2>1, <1>k DEF T5Types
<1>10. T5Before(c)'
  BY <1>1, <1>4, <1>6, <1>9 DEF T5Before
<1>11. T5Words(c)'
  <2>1. NumberWord(c, n)' = reply
    BY <1>9 DEF NumberWord
  <2>2. /\ words'[c] = <<service'[c], NumberWord(c, n)'>> /\ maxl'[c] = T5!MaxL(n)
        /\ cpc'[c] \in {"key", "dead"} /\ stage'[c] >= 0
    BY <1>1, <1>4, <1>9, <2>1 DEF two, m
  <2>3. cpc'[c] # "greet" /\ cpc'[c] \notin {"pid", "time", "str", "poll", "closed"}
    BY <2>2
  <2>4. ~(sent'[c] > KeyL)
    BY <1>n, <1>1, <1>4
  <2> QED
    BY <2>2, <2>3, <2>4, Zenon DEF T5Words
<1>12. T5Streams(c)'
  BY <1>n, <1>1, <1>4, <1>9 DEF T5Streams
<1>13. T5InOrder(c)'
  <2>1. l[c] = 0
    BY <1>1, <1>k DEF T5InOrder
  <2>2. r = KeyL \/ Cut(c)'
    BY <1>1, <1>4, <1>9 DEF Cut
  <2> QED
    BY <1>1, <1>9, <2>1, <2>2 DEF T5InOrder
<1> QED
  <2>1. {c} \in SUBSET Clients
    OBVIOUS
  <2> QED
    BY <1>8, <1>10, <1>11, <1>12, <1>13, <2>1, T5Of

\* The server ends, one way or another; or nothing happens.
LEMMA T5Ends ==
  ASSUME T5Inv,
         \/ T5!Put \/ T5!SelectFails \/ UNCHANGED T5!vars
         \/ \E c \in Clients : T5!KeyFails(c)
  PROVE  T5Inv'
<1>1. /\ cpc' = cpc /\ key' = key /\ service' = service /\ words' = words /\ asked' = asked
      /\ maxl' = maxl /\ l' = l /\ sent' = sent /\ arrived' = arrived /\ read' = read
      /\ stage' = stage /\ rec' = rec
  BY DEF T5!Put, T5!SelectFails, T5!KeyFails, T5!vars, T5!clientVars, T5!serverVars
<1>2. T5Types' /\ \A d \in Clients : T5Same(d)
  BY <1>1 DEF T5Inv, T5Types, T5Same
<1>3. {} \in SUBSET Clients
  OBVIOUS
<1> QED
  BY <1>2, <1>3, T5Of

\* What comes is taken into the field whose turn it is.
LEMMA T5Serves ==
  ASSUME T5!SecureAssumption, T5Inv, NEW c \in Clients, T5!Serve(c)
  PROVE  T5Inv'
<1> DEFINE g == T5!Got(c)
           f == T5!Field(c)
           st == IF T5!Complete(c) THEN stage[c] + 1 ELSE stage[c]
           m == IF stage[c] = 2 THEN l[c] + g ELSE l[c]
           pidIs(r) == r.pid = <<KeyL, T5!Padded(PidL)>>
           timeIs(r) == r.time = <<ToPid, T5!Padded(TimeL5)>>
<1>k. T5Types /\ T5Before(c) /\ T5Words(c) /\ T5Streams(c) /\ T5InOrder(c)
  BY DEF T5Inv
<1>n. /\ KeyL \in Nat /\ KeyL > 0 /\ ToPid \in Nat /\ ToPid > KeyL /\ ToTime \in Nat /\ ToTime > ToPid
      /\ T5!Padded(PidL) \in Nat /\ T5!Padded(PidL) > 0 /\ ToPid = KeyL + T5!Padded(PidL)
      /\ T5!Padded(TimeL5) \in Nat /\ T5!Padded(TimeL5) > 0 /\ ToTime = ToPid + T5!Padded(TimeL5)
      /\ maxl[c] \in Nat /\ l[c] \in Nat /\ sent[c] \in Nat /\ arrived[c] \in Nat /\ read[c] \in Nat
  BY <1>k, T5Numbers
<1>1. /\ stage[c] \in 0 .. 2 /\ T5!Ready(c) /\ stage' = [stage EXCEPT ![c] = st]
      /\ read' = [read EXCEPT ![c] = read[c] + g] /\ rec' = [rec EXCEPT ![c] = f]
      /\ l' = IF stage[c] = 2 THEN [l EXCEPT ![c] = l[c] + g] ELSE l
      /\ cpc' = cpc /\ key' = key /\ service' = service /\ words' = words /\ asked' = asked /\ maxl' = maxl
      /\ sent' = sent /\ arrived' = arrived
  BY DEF T5!Serve, T5!clientVars
<1>2. l' = [l EXCEPT ![c] = m]
  BY <1>1, <1>k DEF T5Types
<1>3. /\ arrived[c] > read[c] \/ (cpc[c] = "dead" /\ arrived[c] = sent[c] /\ arrived[c] = read[c])
      /\ read[c] <= arrived[c] /\ arrived[c] <= sent[c] /\ maxl[c] > 0
      /\ arrived[c] \in {0, KeyL, ToPid} \/ arrived[c] >= ToTime
      /\ sent[c] <= ToTime + maxl[c]
  <2>1. read[c] <= arrived[c] /\ maxl[c] > 0
    BY <1>1, <1>k DEF T5Streams, T5Before
  <2>2. arrived[c] > read[c] \/ (cpc[c] = "dead" /\ arrived[c] = sent[c] /\ arrived[c] = read[c])
    BY <1>n, <1>1, <2>1 DEF T5!Ready
  <2> QED
    BY <1>n, <2>1, <2>2, <1>k DEF T5Streams
<1>4. rec[c] \in [pid : Part, time : Part, str : Part]
  BY <1>k DEF T5Types
<1>5. /\ g \in Nat /\ read[c] + g \in Nat /\ read[c] + g <= arrived[c] /\ st \in 0 .. 3 /\ m \in Nat
      /\ f \in [pid : Part, time : Part, str : Part]
      /\ \/ /\ st = 1 /\ m = 0
            /\ \/ read[c] + g = ToPid /\ pidIs(f)
               \/ cpc[c] = "dead" /\ sent[c] = arrived[c] /\ arrived[c] = read[c] + g
         \/ /\ st = 2
            /\ \/ read[c] + g = ToTime + m /\ m < maxl[c] /\ pidIs(f) /\ timeIs(f)
               \/ cpc[c] = "dead" /\ sent[c] = arrived[c] /\ arrived[c] = read[c] + g /\ m = 0
         \/ /\ st = 3 /\ read[c] + g = ToTime + maxl[c] /\ m = maxl[c]
            /\ pidIs(f) /\ timeIs(f) /\ f.str = <<ToTime, maxl[c]>>
  <2>1. CASE stage[c] = 0
    <3>1. /\ g = IF arrived[c] - read[c] < T5!Padded(PidL) THEN arrived[c] - read[c] ELSE T5!Padded(PidL)
          /\ f = [rec[c] EXCEPT !.pid = <<read[c], g>>] /\ st = 1 /\ m = l[c]
      BY <2>1 DEF T5!Got, T5!Limit, T5!Field, T5!Complete
    <3> HIDE DEF g, f, st, m
    <3>2. l[c] = 0 /\ (read[c] = KeyL \/ Cut(c))
      BY <2>1, <1>k DEF T5InOrder
    <3>3. \/ read[c] = KeyL /\ arrived[c] > read[c] /\ g = T5!Padded(PidL)
          \/ cpc[c] = "dead" /\ arrived[c] = sent[c] /\ arrived[c] = read[c] /\ g = 0
      BY <1>n, <1>3, <3>1, <3>2 DEF Cut
    <3>4. g \in Nat /\ read[c] + g <= arrived[c]
      BY <1>n, <1>3, <3>3
    <3>5. <<read[c], g>> \in Part
      BY <1>n, <3>4 DEF Part
    <3>6. f \in [pid : Part, time : Part, str : Part] /\ f.pid = <<read[c], g>>
      BY <1>4, <3>1, <3>5
    <3> QED
      BY <1>n, <1>3, <3>1, <3>2, <3>3, <3>4, <3>6
  <2>2. CASE stage[c] = 1
    <3>1. /\ g = IF arrived[c] - read[c] < T5!Padded(TimeL5) THEN arrived[c] - read[c] ELSE T5!Padded(TimeL5)
          /\ f = [rec[c] EXCEPT !.time = <<read[c], g>>] /\ st = 2 /\ m = l[c]
      BY <2>2 DEF T5!Got, T5!Limit, T5!Field, T5!Complete
    <3> HIDE DEF g, f, st, m
    <3>2. l[c] = 0 /\ ((read[c] = ToPid /\ pidIs(rec[c])) \/ Cut(c))
      BY <2>2, <1>k DEF T5InOrder
    <3>3. \/ read[c] = ToPid /\ pidIs(rec[c]) /\ g = T5!Padded(TimeL5)
          \/ cpc[c] = "dead" /\ arrived[c] = sent[c] /\ arrived[c] = read[c] /\ g = 0
      BY <1>n, <1>3, <3>1, <3>2 DEF Cut
    <3>4. g \in Nat /\ read[c] + g <= arrived[c]
      <4>1. arrived[c] - read[c] \in Nat
        BY <1>n, <1>3
      <4> QED
        BY <1>n, <3>1, <4>1
    <3>5. <<read[c], g>> \in Part
      BY <1>n, <3>4 DEF Part
    <3>6. f \in [pid : Part, time : Part, str : Part] /\ f.time = <<read[c], g>> /\ f.pid = rec[c].pid
      BY <1>4, <3>1, <3>5
    <3> QED
      BY <1>n, <1>3, <3>1, <3>2, <3>3, <3>4, <3>6
  <2>3. CASE stage[c] = 2
    <3>1. /\ g = IF arrived[c] - read[c] < maxl[c] - l[c] THEN arrived[c] - read[c] ELSE maxl[c] - l[c]
          /\ f = IF l[c] + g = maxl[c] THEN [rec[c] EXCEPT !.str = <<read[c] - l[c], maxl[c]>>] ELSE rec[c]
          /\ st = (IF l[c] + g = maxl[c] THEN 3 ELSE 2) /\ m = l[c] + g
      BY <2>3 DEF T5!Got, T5!Limit, T5!Field, T5!Complete
    <3> HIDE DEF g, f, st, m
    <3>2. \/ /\ read[c] = ToTime + l[c] /\ l[c] < maxl[c] /\ pidIs(rec[c]) /\ timeIs(rec[c])
          \/ Cut(c) /\ l[c] = 0
      BY <2>3, <1>k DEF T5InOrder
    <3>3. CASE read[c] = ToTime + l[c] /\ l[c] < maxl[c] /\ pidIs(rec[c]) /\ timeIs(rec[c])
      <4>1. g = arrived[c] - read[c] /\ g \in Nat /\ l[c] + g <= maxl[c]
        BY <1>n, <1>3, <3>1, <3>3
      <4>2. read[c] - l[c] = ToTime
        BY <1>n, <3>3
      <4>3. CASE l[c] + g = maxl[c]
        <5>1. f = [rec[c] EXCEPT !.str = <<ToTime, maxl[c]>>] /\ <<ToTime, maxl[c]>> \in Part
          BY <1>n, <3>1, <4>2, <4>3 DEF Part
        <5>2. f \in [pid : Part, time : Part, str : Part] /\ f.str = <<ToTime, maxl[c]>>
              /\ f.pid = rec[c].pid /\ f.time = rec[c].time
          BY <1>4, <5>1
        <5>3. st = 3 /\ m = maxl[c] /\ read[c] + g = ToTime + maxl[c] /\ read[c] + g <= arrived[c]
          BY <1>n, <3>1, <3>3, <4>1, <4>3
        <5> QED
          BY <1>n, <3>3, <4>1, <5>2, <5>3
      <4>4. CASE l[c] + g # maxl[c]
        <5>1. f = rec[c] /\ st = 2 /\ m = l[c] + g /\ read[c] + g = ToTime + m /\ m < maxl[c]
              /\ read[c] + g <= arrived[c] /\ m \in Nat
          BY <1>n, <3>1, <3>3, <4>1, <4>4
        <5>2. f \in [pid : Part, time : Part, str : Part] /\ pidIs(f) /\ timeIs(f)
          BY <1>4, <3>3, <5>1, Zenon
        <5>3. g \in Nat /\ read[c] + g \in Nat /\ st \in 0 .. 3
          BY <1>n, <4>1, <5>1
        <5> QED
          BY <5>1, <5>2, <5>3, Zenon
      <4> QED
        BY <4>3, <4>4
    <3>4. CASE Cut(c) /\ l[c] = 0
      <4>1. g = 0 /\ st = 2 /\ f = rec[c] /\ m = 0
        BY <1>n, <1>3, <3>1, <3>4 DEF Cut
      <4> QED
        BY <1>n, <1>4, <3>4, <4>1 DEF Cut
    <3> QED
      BY <3>2, <3>3, <3>4
  <2> QED
    BY <1>1, <2>1, <2>2, <2>3
<1> HIDE DEF g, f, st, m
<1>6. T5Types' /\ \A d \in Clients \ {c} : T5Same(d)
  BY <1>1, <1>2, <1>5, <1>k DEF T5Types, T5Same
<1>7. stage'[c] = st /\ read'[c] = read[c] + g /\ l'[c] = m /\ rec'[c] = f
  BY <1>1, <1>2, <1>k DEF T5Types
<1>8. T5Before(c)'
  <2>1. service[c] \in Keys /\ maxl[c] > 0 /\ cpc[c] # "start" /\ st >= 0
    BY <1>1, <1>5, <1>k DEF T5Before
  <2>2. stage'[c] >= 0 /\ ~(stage'[c] < 0)
    BY <1>5, <1>7
  <2> QED
    BY <1>1, <2>1, <2>2 DEF T5Before
<1>9. T5Words(c)'
  <2>1. \A n \in Numbers : NumberWord(c, n)' = NumberWord(c, n)
    BY <1>1 DEF NumberWord
  <2>2. stage'[c] >= 0
    BY <1>5, <1>7
  <2> QED
    BY <1>1, <2>1, <2>2, <1>k, Zenon DEF T5Words
<1>10. T5Streams(c)'
  BY <1>1, <1>5, <1>7, <1>k DEF T5Streams
<1>11. T5InOrder(c)'
  BY <1>1, <1>5, <1>7 DEF T5InOrder, Cut
<1> QED
  <2>1. {c} \in SUBSET Clients
    OBVIOUS
  <2> QED
    BY <1>6, <1>8, <1>9, <1>10, <1>11, <2>1, T5Of

\* It holds when nobody has connected.
LEMMA T5Begins == T5!SecureAssumption /\ T5!Init => T5Inv
<1> SUFFICES ASSUME T5!SecureAssumption, T5!Init PROVE T5Inv
  OBVIOUS
<1>1. T5Types
  BY DEF T5!Init, T5Types, Part
<1>2. ASSUME NEW c \in Clients PROVE T5Before(c) /\ T5Words(c) /\ T5Streams(c) /\ T5InOrder(c)
  <2>1. /\ cpc[c] = "start" /\ words[c] = <<>> /\ service[c] = None /\ maxl[c] = 0 /\ l[c] = 0
        /\ sent[c] = 0 /\ arrived[c] = 0 /\ read[c] = 0 /\ stage[c] = -2
    BY DEF T5!Init
  <2>2. KeyL \in Nat /\ KeyL > 0
    BY DEF T5!SecureAssumption
  <2>3. T5Before(c) /\ T5Streams(c) /\ T5InOrder(c)
    BY <2>1 DEF T5Before, T5Streams, T5InOrder
  <2>4. ~(sent[c] > KeyL)
    BY <2>1, <2>2
  <2>5. T5Words(c)
    BY <2>1, <2>4 DEF T5Words
  <2> QED
    BY <2>3, <2>5
<1> QED
  BY <1>1, <1>2 DEF T5Inv

\* A complete record has what its client sent, and it was sent under the key
\* the server has for it.
LEMMA T5Records == T5!SecureAssumption /\ T5Inv => T5!RecordsAreRight
<1> SUFFICES ASSUME T5!SecureAssumption, T5Inv PROVE T5!RecordsAreRight
  OBVIOUS
<1>1. ASSUME NEW c \in Clients, sent[c] > KeyL
      PROVE  key[c] # None /\ key[c] = service[c] /\ asked[c] \in Numbers /\ maxl[c] = T5!MaxL(asked[c])
  <2>1. T5Before(c) /\ T5Words(c)
    BY DEF T5Inv
  <2>2. key[c] = service[c] /\ stage[c] >= 0 /\ asked[c] \in Numbers /\ maxl[c] = T5!MaxL(asked[c])
    BY <1>1, <2>1 DEF T5Words
  <2>3. service[c] \in Keys
    BY <2>1, <2>2 DEF T5Before
  <2> QED
    BY <2>2, <2>3 DEF T5!SecureAssumption
<1>2. ASSUME NEW c \in Clients, stage[c] = 3
      PROVE  rec[c] = [pid |-> <<KeyL, T5!Padded(PidL)>>, time |-> <<ToPid, T5!Padded(TimeL5)>>,
                       str |-> <<ToTime, T5!Padded(asked[c] + 1)>>]
  <2> DEFINE r == rec[c]
  <2>1. T5Types /\ T5Streams(c) /\ T5InOrder(c)
    BY DEF T5Inv
  <2>2. /\ KeyL \in Nat /\ ToPid \in Nat /\ ToPid > KeyL /\ ToTime \in Nat /\ ToTime > ToPid
        /\ maxl[c] \in Nat /\ sent[c] \in Nat /\ arrived[c] \in Nat /\ read[c] \in Nat
        /\ \A n \in Numbers : n \in Nat
    BY <2>1, T5Numbers
  <2>3. /\ read[c] = ToTime + maxl[c] /\ r.pid = <<KeyL, T5!Padded(PidL)>>
        /\ r.time = <<ToPid, T5!Padded(TimeL5)>> /\ r.str = <<ToTime, maxl[c]>>
    BY <1>2, <2>1 DEF T5InOrder
  <2>4. sent[c] > KeyL
    BY <2>1, <2>2, <2>3 DEF T5Streams
  <2>5. maxl[c] = T5!Padded(asked[c] + 1)
    BY <1>1, <2>2, <2>4, PaddedIs
  <2>6. r = [pid |-> r.pid, time |-> r.time, str |-> r.str]
    BY <2>1 DEF T5Types
  <2> HIDE DEF r
  <2>7. r = [pid |-> <<KeyL, T5!Padded(PidL)>>, time |-> <<ToPid, T5!Padded(TimeL5)>>,
             str |-> <<ToTime, T5!Padded(asked[c] + 1)>>]
    BY <2>3, <2>5, <2>6, Zenon
  <2> QED
    BY <2>7 DEF r
<1>3. T5!FinishedIsRight
  BY <1>2, Zenon DEF T5!FinishedIsRight, ToPid, ToTime
<1>4. T5!KeysAgree
  BY <1>1 DEF T5!KeysAgree
<1> QED
  BY <1>3, <1>4 DEF T5!RecordsAreRight

\* Whatever the clients do and whichever die, a complete record has the whole
\* of what its client encrypted, the padding of the string included, and no
\* client encrypts a byte with a key that is not the server's for it.
THEOREM T5RecordsAreRight == T5!SecureAssumption => (T5!Spec => []T5!RecordsAreRight)
<1> SUFFICES ASSUME T5!SecureAssumption PROVE T5!Spec => []T5!RecordsAreRight
  OBVIOUS
<1>1. T5!Init => T5Inv
  BY T5Begins
<1>2. T5Inv /\ [T5!Next]_(T5!vars) => T5Inv'
  <2> SUFFICES ASSUME T5Inv, [T5!Next]_(T5!vars) PROVE T5Inv'
    OBVIOUS
  <2>1. CASE T5!Put \/ T5!SelectFails \/ UNCHANGED T5!vars
    BY <2>1, T5Ends
  <2>2. ASSUME NEW c \in Clients, T5!Client(c) \/ T5!Die(c) \/ T5!Server(c)
        PROVE  T5Inv'
    <3>1. CASE T5!Client(c)
      BY <3>1, T5Sends, T5HearsKey, T5HearsNumber, T5Arrives, T5Goes DEF T5!Client
    <3>2. CASE T5!Die(c)
      BY <3>2, T5Goes
    <3>3. CASE T5!Server(c)
      BY <3>3, T5Accepts, T5Keys, T5Ends, T5Serves DEF T5!Server
    <3> QED
      BY <2>2, <3>1, <3>2, <3>3
  <2> QED
    BY <2>1, <2>2 DEF T5!Next
<1>3. T5Inv => T5!RecordsAreRight
  BY T5Records
<1> QED
  BY <1>1, <1>2, <1>3, PTL DEF T5!Spec

-----------------------------------------------------------------------------
(* W0802-test4 and W0902-test4: the collectors over UDP *)

\* The record of a port is one with that port, if there is one.
LEMMA FindIs ==
  ASSUME NEW port, Len(rows) \in Nat
  PROVE  /\ Dgram!Find(port) \in 0 .. Len(rows)
         /\ Dgram!Find(port) # 0 => rows[Dgram!Find(port)].port = port
         /\ Dgram!Find(port) = 0 => \A i \in 1 .. Len(rows) : rows[i].port # port
<1> DEFINE I == {i \in 1 .. Len(rows) : rows[i].port = port}
<1>1. Dgram!Find(port) = IF I # {} THEN Dgram!Min(I) ELSE 0
  BY Zenon DEF Dgram!Find, Dgram!SelectInSeq
<1>2. I # {} => Dgram!Min(I) \in I
  <2>1. I \in SUBSET Nat
    OBVIOUS
  <2> HIDE DEF I
  <2> QED
    BY <2>1, LeastNumber, Zenon DEF Dgram!Min
<1> QED
  BY <1>1, <1>2

\* What a datagram of a client holds.
DgramFields == {"pid", "time", "str"}

\* Losing an element leaves a sequence of the same kind.
LEMMA RemovedIsSeq ==
  ASSUME NEW T, NEW s \in Seq(T), NEW i \in DOMAIN s
  PROVE  Dgram!RemoveAt(s, i) \in Seq(T)
<1>1. i \in 1 .. Len(s) /\ Len(s) \in Nat
  OBVIOUS
<1>2. SubSeq(s, 1, i - 1) \in Seq(T) /\ SubSeq(s, i + 1, Len(s)) \in Seq(T)
  <2>1. \A j \in 1 .. i - 1 : s[j] \in T
    BY <1>1
  <2>2. \A j \in i + 1 .. Len(s) : s[j] \in T
    BY <1>1
  <2> QED
    BY <1>1, <2>1, <2>2, SubSeqProperties
<1> QED
  BY <1>2 DEF Dgram!RemoveAt

\* The records of clients: each has its client's port.
Records == {r \in [port : {Port[c] : c \in Callers}, addr : Callers, pid : Callers \union {None},
                   time : Callers \union {None}, str : Callers \union {None}] : r.port = Port[r.addr]}

\* One record of each port.
Owned(s) == /\ s \in Seq(Records)
            /\ \A i, j \in 1 .. Len(s) : s[i].port = s[j].port => i = j

\* All fields are of the client that the record began with.
Unmixed(r) == {r.pid, r.time, r.str} \subseteq {r.addr, None}

\* The inductive invariant of the collectors over UDP.
DgramInv == net \in [Callers -> Seq(DgramFields)] /\ Owned(rows)

\* A field put into a client's record.
LEMMA FieldPut ==
  ASSUME NEW c \in Callers, NEW r \in Records, NEW field \in DgramFields
  PROVE  /\ [r EXCEPT ![field] = c] \in Records /\ [r EXCEPT ![field] = c].port = r.port
         /\ Unmixed(r) /\ r.addr = c => Unmixed([r EXCEPT ![field] = c])
<1>1. CASE field = "pid"
  BY <1>1 DEF Records, Unmixed
<1>2. CASE field = "time"
  BY <1>2 DEF Records, Unmixed
<1>3. CASE field = "str"
  BY <1>3 DEF Records, Unmixed
<1> QED
  BY <1>1, <1>2, <1>3 DEF DgramFields

\* A client's empty record.
LEMMA EmptyRow ==
  ASSUME NEW c \in Callers
  PROVE  Dgram!Row(c) \in Records /\ Dgram!Row(c).port = Port[c] /\ Unmixed(Dgram!Row(c)) /\ Dgram!Row(c).addr = c
  BY DEF Dgram!Row, Records, Unmixed

\* A record added for a port that had none.
LEMMA RowAdded ==
  ASSUME NEW s, Owned(s), NEW r \in Records, \A i \in 1 .. Len(s) : s[i].port # r.port
  PROVE  /\ Owned(Append(s, r)) /\ Len(Append(s, r)) = Len(s) + 1 /\ Append(s, r)[Len(s) + 1] = r
         /\ (\A i \in 1 .. Len(s) : Unmixed(s[i])) /\ Unmixed(r) =>
              \A i \in 1 .. Len(s) + 1 : Unmixed(Append(s, r)[i])
<1> DEFINE t == Append(s, r)
<1>1. s \in Seq(Records) /\ \A i, j \in 1 .. Len(s) : s[i].port = s[j].port => i = j
  BY DEF Owned
<1>2. /\ t \in Seq(Records) /\ Len(t) = Len(s) + 1 /\ Len(s) \in Nat
      /\ t[Len(s) + 1] = r /\ \A i \in 1 .. Len(s) : t[i] = s[i]
  BY <1>1
<1> HIDE DEF t
<1>3. \A i \in 1 .. Len(s) + 1 : i = Len(s) + 1 \/ i \in 1 .. Len(s)
  BY <1>2
<1>4. \A i, j \in 1 .. Len(t) : t[i].port = t[j].port => i = j
  BY <1>1, <1>2, <1>3
<1>5. (\A i \in 1 .. Len(s) : Unmixed(s[i])) /\ Unmixed(r) => \A i \in 1 .. Len(s) + 1 : Unmixed(t[i])
  BY <1>2, <1>3, Zenon
<1>6. Owned(t)
  BY <1>2, <1>4 DEF Owned
<1> QED
  BY <1>2, <1>5, <1>6 DEF t

\* A record changed into another of its port.
LEMMA RowChanged ==
  ASSUME NEW s, Owned(s), NEW k \in 1 .. Len(s), NEW r \in Records, s[k].port = r.port
  PROVE  /\ Owned([s EXCEPT ![k] = r])
         /\ (\A i \in 1 .. Len(s) : Unmixed(s[i])) /\ Unmixed(r) =>
              \A i \in 1 .. Len([s EXCEPT ![k] = r]) : Unmixed([s EXCEPT ![k] = r][i])
<1> DEFINE t == [s EXCEPT ![k] = r]
<1>1. s \in Seq(Records) /\ \A i, j \in 1 .. Len(s) : s[i].port = s[j].port => i = j
  BY DEF Owned
<1>2. /\ t \in Seq(Records) /\ Len(t) = Len(s)
      /\ t[k] = r /\ \A i \in 1 .. Len(s) \ {k} : t[i] = s[i]
  BY <1>1
<1> HIDE DEF t
<1>3. \A i \in 1 .. Len(s) : i = k \/ i \in 1 .. Len(s) \ {k}
  OBVIOUS
<1>4. \A i \in 1 .. Len(s) : t[i].port = s[i].port
  BY <1>2, <1>3, Zenon
<1>5. (\A i \in 1 .. Len(s) : Unmixed(s[i])) /\ Unmixed(r) => \A i \in 1 .. Len(s) : Unmixed(t[i])
  BY <1>2, <1>3, Zenon
<1>6. Owned(t)
  BY <1>1, <1>2, <1>4, Zenon DEF Owned
<1> QED
  BY <1>2, <1>5, <1>6 DEF t

\* What the server makes of a datagram, in the arrays and in the map.
LEMMA DgramTakes ==
  ASSUME DgramInv, NEW c \in Callers, Dgram!RecvArray(c) \/ Dgram!RecvMap(c)
  PROVE  /\ DgramInv'
         /\ Dgram!OwnPorts /\ (\A i \in 1 .. Len(rows) : Unmixed(rows[i])) => \A i \in 1 .. Len(rows') : Unmixed(rows'[i])
<1> DEFINE k == Dgram!Find(Port[c])
<1>1. net \in [Callers -> Seq(DgramFields)] /\ Owned(rows) /\ rows \in Seq(Records) /\ Len(rows) \in Nat
  BY DEF DgramInv, Owned
<1>2. PICK i \in DOMAIN net[c] :
        /\ net' = [net EXCEPT ![c] = Dgram!RemoveAt(net[c], i)]
        /\ \/ rows' = [(IF k = 0 THEN Append(rows, Dgram!Row(c)) ELSE rows)
                       EXCEPT ![IF k = 0 THEN Len(IF k = 0 THEN Append(rows, Dgram!Row(c)) ELSE rows) ELSE k][net[c][i]] = c]
           \/ rows' = Dgram!NewData(c)
           \/ k # 0 /\ rows' = [rows EXCEPT ![k][net[c][i]] = c]
           \/ rows' = rows
  BY Zenon DEF Dgram!RecvArray, Dgram!RecvMap, Dgram!Taken
<1>3. net[c][i] \in DgramFields
  BY <1>1
<1>4. net' \in [Callers -> Seq(DgramFields)]
  <2>1. net[c] \in Seq(DgramFields)
    BY <1>1
  <2>2. Dgram!RemoveAt(net[c], i) \in Seq(DgramFields)
    BY <2>1, RemovedIsSeq
  <2> QED
    BY <1>1, <1>2, <2>2
<1>5. /\ k \in 0 .. Len(rows)
      /\ k # 0 => rows[k].port = Port[c]
      /\ k = 0 => \A j \in 1 .. Len(rows) : rows[j].port # Port[c]
  BY <1>1, FindIs
<1> DEFINE field == net[c][i]
           Mixes(t) == ~(Dgram!OwnPorts /\ (\A j \in 1 .. Len(rows) : Unmixed(rows[j])) => \A j \in 1 .. Len(t) : Unmixed(t[j]))
<1> HIDE DEF k, field
<1>6. ASSUME k # 0
      PROVE  /\ k \in 1 .. Len(rows) /\ rows[k] \in Records
             /\ Dgram!OwnPorts => rows[k].addr = c
  <2>1. k \in 1 .. Len(rows) /\ rows[k] \in Records
    BY <1>1, <1>5, <1>6
  <2>2. rows[k].addr \in Callers /\ Port[rows[k].addr] = Port[c]
    BY <1>5, <1>6, <2>1 DEF Records
  <2> QED
    BY <2>1, <2>2 DEF Dgram!OwnPorts
<1>7. ASSUME k # 0, rows' = [rows EXCEPT ![k][field] = c]
      PROVE  Owned(rows') /\ ~Mixes(rows')
  <2> DEFINE r == [rows[k] EXCEPT ![field] = c]
  <2>1. r \in Records /\ r.port = rows[k].port
    BY <1>3, <1>6, <1>7, FieldPut DEF field
  <2>2. Dgram!OwnPorts /\ Unmixed(rows[k]) => Unmixed(r)
    BY <1>3, <1>6, <1>7, FieldPut DEF field
  <2>3. rows' = [rows EXCEPT ![k] = r]
    BY <1>7
  <2> HIDE DEF r
  <2>4. /\ Owned([rows EXCEPT ![k] = r])
        /\ (\A j \in 1 .. Len(rows) : Unmixed(rows[j])) /\ Unmixed(r) =>
             \A j \in 1 .. Len([rows EXCEPT ![k] = r]) : Unmixed([rows EXCEPT ![k] = r][j])
    BY <1>1, <1>6, <1>7, <2>1, RowChanged
  <2> QED
    BY <1>6, <1>7, <2>2, <2>3, <2>4
<1>8. ASSUME k = 0, rows' = [Append(rows, Dgram!Row(c)) EXCEPT ![Len(Append(rows, Dgram!Row(c)))][field] = c]
      PROVE  Owned(rows') /\ ~Mixes(rows')
  <2> DEFINE s == Append(rows, Dgram!Row(c))
             n == Len(rows) + 1
             r == [Dgram!Row(c) EXCEPT ![field] = c]
  <2>1. Dgram!Row(c) \in Records /\ Dgram!Row(c).port = Port[c] /\ Unmixed(Dgram!Row(c)) /\ Dgram!Row(c).addr = c
    BY EmptyRow
  <2>2. /\ Owned(s) /\ Len(s) = n /\ s[n] = Dgram!Row(c)
        /\ (\A j \in 1 .. Len(rows) : Unmixed(rows[j])) => \A j \in 1 .. n : Unmixed(s[j])
    BY <1>1, <1>5, <1>8, <2>1, RowAdded
  <2>3. r \in Records /\ r.port = Dgram!Row(c).port /\ Unmixed(r)
    BY <1>3, <2>1, FieldPut DEF field
  <2>4. rows' = [s EXCEPT ![n] = r]
    BY <1>8, <2>2
  <2>5. n \in 1 .. Len(s)
    BY <1>1, <2>2
  <2> HIDE DEF s, n, r
  <2> QED
    BY <2>2, <2>3, <2>4, <2>5, RowChanged
<1>9. ASSUME rows' = Dgram!NewData(c)
      PROVE  Owned(rows') /\ ~Mixes(rows')
  <2> DEFINE r == [Dgram!Row(c) EXCEPT !["pid"] = c]
  <2>1. Dgram!Row(c) \in Records /\ Dgram!Row(c).port = Port[c] /\ Unmixed(Dgram!Row(c)) /\ Dgram!Row(c).addr = c
    BY EmptyRow
  <2>2. r \in Records /\ r.port = Port[c] /\ Unmixed(r)
    BY <2>1, FieldPut DEF DgramFields
  <2>3. rows' = IF k = 0 THEN Append(rows, r) ELSE [rows EXCEPT ![k] = r]
    BY <1>9 DEF Dgram!NewData, k
  <2> HIDE DEF r
  <2>4. CASE k = 0
    <3>1. rows' = Append(rows, r) /\ \A j \in 1 .. Len(rows) : rows[j].port # r.port
      BY <1>5, <2>2, <2>3, <2>4
    <3>2. /\ Owned(Append(rows, r)) /\ Len(Append(rows, r)) = Len(rows) + 1
          /\ (\A j \in 1 .. Len(rows) : Unmixed(rows[j])) => \A j \in 1 .. Len(rows) + 1 : Unmixed(Append(rows, r)[j])
      BY <1>1, <2>2, <3>1, RowAdded
    <3> QED
      BY <3>1, <3>2
  <2>5. CASE k # 0
    <3>1. /\ Owned([rows EXCEPT ![k] = r])
          /\ (\A j \in 1 .. Len(rows) : Unmixed(rows[j])) /\ Unmixed(r) =>
               \A j \in 1 .. Len([rows EXCEPT ![k] = r]) : Unmixed([rows EXCEPT ![k] = r][j])
      BY <1>1, <1>5, <1>6, <2>2, <2>5, RowChanged
    <3> QED
      BY <2>2, <2>3, <2>5, <3>1
  <2> QED
    BY <2>4, <2>5
<1>10. Owned(rows') /\ ~Mixes(rows')
  <2>1. CASE rows' = rows
    BY <1>1, <2>1
  <2>2. CASE k = 0 /\ rows' # rows /\ rows' # Dgram!NewData(c)
    BY <1>2, <1>8, <2>2, Zenon DEF field
  <2>3. CASE k # 0 /\ rows' # rows /\ rows' # Dgram!NewData(c)
    BY <1>2, <1>7, <2>3, Zenon DEF field
  <2> QED
    BY <1>9, <2>1, <2>2, <2>3
<1> QED
  BY <1>4, <1>10 DEF DgramInv

\* Every other step leaves the records alone.
LEMMA DgramOthers ==
  ASSUME DgramInv, [Dgram!Next]_(Dgram!vars),
         ~ \E c \in Callers : Dgram!RecvArray(c) \/ Dgram!RecvMap(c)
  PROVE  DgramInv' /\ rows' = rows
<1>1. net \in [Callers -> Seq(DgramFields)] /\ Owned(rows)
  BY DEF DgramInv
<1>2. CASE Dgram!EndArray \/ Dgram!EndMap \/ Dgram!ErrMap \/ UNCHANGED Dgram!vars
  <2>1. net' = net /\ rows' = rows
    BY <1>2 DEF Dgram!EndArray, Dgram!EndMap, Dgram!ErrMap, Dgram!vars
  <2> QED
    BY <1>1, <2>1 DEF DgramInv
<1>3. ASSUME NEW c \in Callers, Dgram!SendField(c) PROVE DgramInv' /\ rows' = rows
  <2>1. /\ rows' = rows /\ cpc[c] \in DgramFields
        /\ net' = [net EXCEPT ![c] = Append(net[c], cpc[c])]
    BY <1>3 DEF Dgram!SendField, DgramFields
  <2>2. Append(net[c], cpc[c]) \in Seq(DgramFields)
    BY <1>1, <2>1
  <2> QED
    BY <1>1, <2>1, <2>2 DEF DgramInv
<1>4. ASSUME NEW c \in Callers, Dgram!Hear(c) \/ Dgram!Errs(c) PROVE DgramInv' /\ rows' = rows
  BY <1>1, <1>4 DEF Dgram!Hear, Dgram!Errs, DgramInv
<1>5. CASE Dgram!Lose
  <2>1. rows' = rows
    BY <1>5 DEF Dgram!Lose
  <2>2. ASSUME NEW c \in Callers, NEW i \in DOMAIN net[c], net' = [net EXCEPT ![c] = Dgram!RemoveAt(net[c], i)]
        PROVE  net' \in [Callers -> Seq(DgramFields)]
    <3>1. net[c] \in Seq(DgramFields)
      BY <1>1
    <3>2. Dgram!RemoveAt(net[c], i) \in Seq(DgramFields)
      BY <3>1, RemovedIsSeq
    <3> QED
      BY <1>1, <2>2, <3>2
  <2>3. net' = net \/ \E c \in Callers : \E i \in DOMAIN net[c] : net' = [net EXCEPT ![c] = Dgram!RemoveAt(net[c], i)]
    BY <1>5, Zenon DEF Dgram!Lose
  <2> QED
    BY <1>1, <2>1, <2>2, <2>3 DEF DgramInv
<1>6. CASE Dgram!Repeat
  <2>1. PICK c \in Callers : \E i \in DOMAIN net[c] : net' = [net EXCEPT ![c] = Append(net[c], net[c][i])]
    BY <1>6, Zenon DEF Dgram!Repeat
  <2>2. PICK i \in DOMAIN net[c] : net' = [net EXCEPT ![c] = Append(net[c], net[c][i])]
    BY <2>1
  <2>3. Append(net[c], net[c][i]) \in Seq(DgramFields)
    BY <1>1
  <2>4. rows' = rows
    BY <1>6 DEF Dgram!Repeat
  <2> QED
    BY <1>1, <2>2, <2>3, <2>4 DEF DgramInv
<1> QED
  BY <1>2, <1>3, <1>4, <1>5, <1>6, Zenon DEF Dgram!Next, Dgram!Server, Dgram!Client

\* No records at the start.
LEMMA DgramBegins == Dgram!Init => DgramInv /\ rows = <<>>
<1>1. <<>> \in Seq(Records) /\ Len(<<>>) = 0 /\ <<>> \in Seq(DgramFields)
  OBVIOUS
<1> QED
  BY <1>1 DEF Dgram!Init, DgramInv, Owned

\* Whatever the network loses, repeats or reorders, and even where two clients
\* have the same port, there is one record of a port.
THEOREM DgramOneRecord == Dgram!Spec => []Dgram!OneRecord
<1>1. Dgram!Init => DgramInv
  BY DgramBegins
<1>2. DgramInv /\ [Dgram!Next]_(Dgram!vars) => DgramInv'
  BY DgramOthers, DgramTakes
<1>3. DgramInv => Dgram!OneRecord
  BY DEF DgramInv, Owned, Dgram!OneRecord
<1> QED
  BY <1>1, <1>2, <1>3, PTL DEF Dgram!Spec

\* Where each client has a port of its own, no record has the fields of two
\* clients, whatever the network loses, repeats or reorders.
THEOREM DgramNoMixing == Dgram!OwnPorts => (Dgram!Spec => []Dgram!NoMixing)
<1> SUFFICES ASSUME Dgram!OwnPorts PROVE Dgram!Spec => []Dgram!NoMixing
  OBVIOUS
<1> DEFINE I == DgramInv /\ \A i \in 1 .. Len(rows) : Unmixed(rows[i])
<1>1. Dgram!Init => I
  BY DgramBegins
<1>2. I /\ [Dgram!Next]_(Dgram!vars) => I'
  <2> SUFFICES ASSUME I, [Dgram!Next]_(Dgram!vars) PROVE I'
    OBVIOUS
  <2>1. CASE \E c \in Callers : Dgram!RecvArray(c) \/ Dgram!RecvMap(c)
    BY <2>1, DgramTakes
  <2>2. CASE ~ \E c \in Callers : Dgram!RecvArray(c) \/ Dgram!RecvMap(c)
    <3>1. DgramInv' /\ rows' = rows
      BY <2>2, DgramOthers
    <3> QED
      BY <3>1
  <2> QED
    BY <2>1, <2>2
<1>3. I => Dgram!NoMixing
  BY DEF DgramInv, Owned, Unmixed, Dgram!NoMixing
<1> QED
  BY <1>1, <1>2, <1>3, PTL DEF Dgram!Spec

\* On a network that keeps the order and loses nothing: how far a client is, by
\* what it and the network have, when n of its fields have been received.
At(cp, ne, wo, n) ==
  \/ cp = "pid" /\ ne = <<>> /\ wo = <<>> /\ n = 0
  \/ cp = "time" /\ wo = <<>> /\ ((ne = <<"pid">> /\ n = 0) \/ (ne = <<>> /\ n = 1))
  \/ cp = "length" /\ \/ ne = <<"pid", "time">> /\ wo = <<>> /\ n = 0
                      \/ ne = <<"time">> /\ wo = <<>> /\ n = 1
                      \/ ne = <<>> /\ wo = <<"str">> /\ n = 2
  \/ cp = "str" /\ ne = <<>> /\ wo = <<>> /\ n = 2
  \/ cp = "end" /\ ((ne = <<"str">> /\ wo = <<>> /\ n = 2) \/ (ne = <<>> /\ n = 3))
  \/ cp = "done" /\ ne = <<>> /\ n = 3

\* Its record then, and whether the server has that.
Filled(c, n) == [port |-> Port[c], addr |-> c, pid |-> c,
                 time |-> IF n >= 2 THEN c ELSE None, str |-> IF n >= 3 THEN c ELSE None]
Holds(c, n) == IF n = 0 THEN \A i \in 1 .. Len(rows) : rows[i].port # Port[c]
               ELSE \E i \in 1 .. Len(rows) : rows[i] = Filled(c, n)

\* The clients all of whose fields have been received.
Heard == {c \in Callers : cpc[c] \in {"end", "done"} /\ net[c] = <<>>}

\* The inductive invariant on such a network.
DgramWhole ==
  /\ DgramInv
  /\ cpc \in [Callers -> {"pid", "time", "length", "str", "end", "done"}]
  /\ words \in [Callers -> Seq({"str", "end"})]
  /\ \A c \in Callers : \E n \in 0 .. 3 : At(cpc[c], net[c], words[c], n) /\ Holds(c, n)
  /\ finish = Cardinality(Heard)
  /\ spc \in {"recv", "end", "exit"} /\ (spc # "recv" => Heard = Callers)
  /\ spc = "exit" => table = {rows[i] : i \in 1 .. Len(rows)}

\* Taking the first of one or two.
LEMMA FirstTaken ==
  /\ \A x : Dgram!RemoveAt(<<x>>, 1) = <<>>
  /\ \A x, y : Dgram!RemoveAt(<<x, y>>, 1) = <<y>>
<1>1. ASSUME NEW T, NEW s \in Seq(T), s # <<>> PROVE Dgram!RemoveAt(s, 1) = Tail(s)
  <2>1. Tail(s) = SubSeq(s, 2, Len(s)) /\ Tail(s) \in Seq(T)
    BY <1>1, TailIsSubSeq, HeadTailProperties
  <2>2. SubSeq(s, 1, 0) = <<>>
    BY SubSeqEmpty
  <2>3. <<>> \o Tail(s) = Tail(s)
    BY <2>1, ConcatEmptySeq
  <2>4. 1 - 1 = 0 /\ 1 + 1 = 2
    OBVIOUS
  <2>5. Dgram!RemoveAt(s, 1) = SubSeq(s, 1, 1 - 1) \o SubSeq(s, 1 + 1, Len(s))
    BY Zenon DEF Dgram!RemoveAt
  <2> QED
    BY <2>1, <2>2, <2>3, <2>4, <2>5
<1>2. ASSUME NEW x PROVE Dgram!RemoveAt(<<x>>, 1) = <<>>
  <2>1. <<x>> \in Seq({x}) /\ <<x>> # <<>> /\ Tail(<<x>>) = <<>>
    OBVIOUS
  <2> QED
    BY <1>1, <2>1, Zenon
<1>3. ASSUME NEW x, NEW y PROVE Dgram!RemoveAt(<<x, y>>, 1) = <<y>>
  <2>1. <<x, y>> \in Seq({x, y}) /\ <<x, y>> # <<>> /\ Tail(<<x, y>>) = <<y>>
    OBVIOUS
  <2> QED
    BY <1>1, <2>1, Zenon
<1> QED
  BY <1>2, <1>3

\* A record made or filled in: the client's has one field more, and those of
\* the clients with other ports are as they were.
LEMMA OneFieldMore ==
  ASSUME DgramInv, Dgram!OwnPorts, NEW c \in Callers, NEW n \in 0 .. 2, Holds(c, n),
         NEW field, field = <<"pid", "time", "str">>[n + 1],
         \/ rows' = [(IF Dgram!Find(Port[c]) = 0 THEN Append(rows, Dgram!Row(c)) ELSE rows)
                       EXCEPT ![IF Dgram!Find(Port[c]) = 0
                                THEN Len(IF Dgram!Find(Port[c]) = 0 THEN Append(rows, Dgram!Row(c)) ELSE rows)
                                ELSE Dgram!Find(Port[c])][field] = c]
         \/ field = "pid" /\ rows' = Dgram!NewData(c)
         \/ field # "pid" /\ rows' = [rows EXCEPT ![Dgram!Find(Port[c])][field] = c]
  PROVE  /\ Holds(c, n + 1)'
         /\ \A d \in Callers \ {c}, m \in 0 .. 3 : Holds(d, m) => Holds(d, m)'
<1> DEFINE k == Dgram!Find(Port[c])
<1>1. Owned(rows) /\ rows \in Seq(Records) /\ Len(rows) \in Nat
  BY DEF DgramInv, Owned
<1>2. /\ k \in 0 .. Len(rows)
      /\ k # 0 => rows[k].port = Port[c]
      /\ k = 0 => \A j \in 1 .. Len(rows) : rows[j].port # Port[c]
  BY <1>1, FindIs
<1>3. /\ \/ rows' = [(IF k = 0 THEN Append(rows, Dgram!Row(c)) ELSE rows)
                       EXCEPT ![IF k = 0 THEN Len(IF k = 0 THEN Append(rows, Dgram!Row(c)) ELSE rows) ELSE k][field] = c]
         \/ field = "pid" /\ rows' = IF k = 0 THEN Append(rows, [Dgram!Row(c) EXCEPT !.pid = c])
                                     ELSE [rows EXCEPT ![k] = [Dgram!Row(c) EXCEPT !.pid = c]]
         \/ field # "pid" /\ rows' = [rows EXCEPT ![k][field] = c]
  BY Zenon DEF Dgram!NewData
<1> HIDE DEF k
<1>4. \E j \in 1 .. Len(rows') :
        /\ rows'[j] = Filled(c, n + 1)
        /\ \A i \in 1 .. Len(rows') \ {j} : i \in 1 .. Len(rows) /\ rows'[i] = rows[i]
        /\ \A i \in 1 .. Len(rows) \ {j} : i \in 1 .. Len(rows')
        /\ j \in 1 .. Len(rows) => rows[j].port = Port[c]
  <2>1. CASE n = 0
    <3>1. k = 0
      BY <1>2, <2>1 DEF Holds
    <3>2. field = "pid"
      BY <2>1
    <3>3. Len(Append(rows, Dgram!Row(c))) = Len(rows) + 1
      BY <1>1
    <3> DEFINE r == [Dgram!Row(c) EXCEPT !["pid"] = c]
    <3>4. r = Filled(c, 1)
      BY DEF Dgram!Row, Filled
    <3>5. \/ rows' = [Append(rows, Dgram!Row(c)) EXCEPT ![Len(rows) + 1]["pid"] = c]
          \/ rows' = Append(rows, r)
      BY <1>3, <3>1, <3>2, <3>3
    <3>6. r \in Records /\ Dgram!Row(c) \in Records
      BY FieldPut, EmptyRow DEF DgramFields
    <3>7. /\ Len(rows') = Len(rows) + 1 /\ rows'[Len(rows) + 1] = r
          /\ \A i \in 1 .. Len(rows) : rows'[i] = rows[i]
      <4>1. CASE rows' = Append(rows, r)
        <5> HIDE DEF r
        <5> QED
          BY <1>1, <3>6, <4>1
      <4>2. CASE rows' = [Append(rows, Dgram!Row(c)) EXCEPT ![Len(rows) + 1]["pid"] = c]
        <5> DEFINE s == Append(rows, Dgram!Row(c))
        <5>1. /\ s \in Seq(Records) /\ Len(s) = Len(rows) + 1 /\ s[Len(rows) + 1] = Dgram!Row(c)
              /\ \A i \in 1 .. Len(rows) : s[i] = rows[i]
          BY <1>1, <3>6
        <5>2. rows' = [s EXCEPT ![Len(rows) + 1] = r]
          BY <4>2, <5>1
        <5> HIDE DEF s, r
        <5> QED
          BY <1>1, <5>1, <5>2
      <4> QED
        BY <3>5, <4>1, <4>2
    <3> HIDE DEF r
    <3> QED
      BY <1>1, <2>1, <3>4, <3>7
  <2>2. CASE n # 0
    <3>1. PICK i \in 1 .. Len(rows) : rows[i] = Filled(c, n)
      BY <2>2 DEF Holds
    <3>2. k # 0 /\ k = i
      BY <1>1, <1>2, <3>1 DEF Owned, Filled
    <3>3. field \in {"time", "str"}
      BY <2>2
    <3>4. rows' = [rows EXCEPT ![k] = [rows[k] EXCEPT ![field] = c]]
      BY <1>3, <3>2, <3>3
    <3>5. [Filled(c, n) EXCEPT ![field] = c] = Filled(c, n + 1)
      <4>1. CASE n = 1
        BY <4>1 DEF Filled
      <4>2. CASE n = 2
        BY <4>2 DEF Filled
      <4> QED
        BY <2>2, <4>1, <4>2
    <3> QED
      BY <1>1, <1>2, <3>1, <3>2, <3>4, <3>5
  <2> QED
    BY <2>1, <2>2
<1>5. PICK j \in 1 .. Len(rows') :
        /\ rows'[j] = Filled(c, n + 1)
        /\ \A i \in 1 .. Len(rows') \ {j} : i \in 1 .. Len(rows) /\ rows'[i] = rows[i]
        /\ \A i \in 1 .. Len(rows) \ {j} : i \in 1 .. Len(rows')
        /\ j \in 1 .. Len(rows) => rows[j].port = Port[c]
  BY <1>4
<1>6. Holds(c, n + 1)'
  BY <1>5 DEF Holds
<1>7. ASSUME NEW d \in Callers \ {c}, NEW m \in 0 .. 3, Holds(d, m) PROVE Holds(d, m)'
  <2>1. Port[d] # Port[c]
    BY DEF Dgram!OwnPorts
  <2>2. CASE m = 0
    <3>1. \A i \in 1 .. Len(rows) : rows[i].port # Port[d]
      BY <1>7, <2>2 DEF Holds
    <3>2. rows'[j].port = Port[c]
      BY <1>5 DEF Filled
    <3> QED
      BY <1>5, <2>1, <2>2, <3>1, <3>2 DEF Holds
  <2>3. CASE m # 0
    <3>1. PICK i \in 1 .. Len(rows) : rows[i] = Filled(d, m)
      BY <1>7, <2>3 DEF Holds
    <3>2. i # j
      BY <1>5, <2>1, <3>1 DEF Filled
    <3>3. i \in 1 .. Len(rows') /\ rows'[i] = Filled(d, m)
      BY <1>5, <3>1, <3>2
    <3> QED
      BY <2>3, <3>3 DEF Holds
  <2> QED
    BY <2>2, <2>3
<1> QED
  BY <1>6, <1>7

\* A client's next field, and how far it then is.
LEMMA NextField ==
  ASSUME NEW cp, NEW ne, NEW wo, NEW n \in 0 .. 3, At(cp, ne, wo, n), ne # <<>>
  PROVE  /\ n \in 0 .. 2 /\ ne[1] = <<"pid", "time", "str">>[n + 1]
         /\ cp \notin {"pid", "str", "done"} /\ (cp = "end" <=> n = 2)
         /\ n = 0 => At(cp, Dgram!RemoveAt(ne, 1), wo, 1)
         /\ n = 1 => At(cp, Dgram!RemoveAt(ne, 1), Append(wo, "str"), 2)
         /\ n = 2 => Dgram!RemoveAt(ne, 1) = <<>> /\ \A w : At(cp, Dgram!RemoveAt(ne, 1), w, 3)
<1>1. Append(<<>>, "str") = <<"str">>
  OBVIOUS
<1>2. CASE ne = <<"pid">>
  <2>1. Dgram!RemoveAt(ne, 1) = <<>> /\ ne[1] = "pid"
    BY <1>2, FirstTaken
  <2>2. cp = "time" /\ wo = <<>> /\ n = 0
    BY <1>2 DEF At
  <2> QED
    BY <2>1, <2>2 DEF At
<1>3. CASE ne = <<"pid", "time">>
  <2>1. Dgram!RemoveAt(ne, 1) = <<"time">> /\ ne[1] = "pid"
    BY <1>3, FirstTaken
  <2>2. cp = "length" /\ wo = <<>> /\ n = 0
    BY <1>3 DEF At
  <2> QED
    BY <2>1, <2>2 DEF At
<1>4. CASE ne = <<"time">>
  <2>1. Dgram!RemoveAt(ne, 1) = <<>> /\ ne[1] = "time"
    BY <1>4, FirstTaken
  <2>2. cp = "length" /\ wo = <<>> /\ n = 1
    BY <1>4 DEF At
  <2> QED
    BY <1>1, <2>1, <2>2 DEF At
<1>5. CASE ne = <<"str">>
  <2>1. Dgram!RemoveAt(ne, 1) = <<>> /\ ne[1] = "str"
    BY <1>5, FirstTaken
  <2>2. cp = "end" /\ n = 2
    BY <1>5 DEF At
  <2> QED
    BY <2>1, <2>2 DEF At
<1> QED
  BY <1>2, <1>3, <1>4, <1>5 DEF At

\* Callers and network are as they were, but for one client.
LEMMA WholeElsewhere ==
  ASSUME DgramWhole, NEW c \in Callers,
         \A d \in Callers \ {c} :
           /\ cpc'[d] = cpc[d] /\ net'[d] = net[d] /\ words'[d] = words[d]
           /\ \A m \in 0 .. 3 : Holds(d, m) => Holds(d, m)'
  PROVE  /\ \A d \in Callers \ {c} : \E m \in 0 .. 3 : At(cpc[d], net[d], words[d], m)' /\ Holds(d, m)'
         /\ \A d \in Callers \ {c} : d \in Heard' <=> d \in Heard
<1>1. ASSUME NEW d \in Callers \ {c}
      PROVE  \E m \in 0 .. 3 : At(cpc[d], net[d], words[d], m)' /\ Holds(d, m)'
  <2>1. PICK m \in 0 .. 3 : At(cpc[d], net[d], words[d], m) /\ Holds(d, m)
    BY DEF DgramWhole
  <2>2. At(cpc[d], net[d], words[d], m)'
    BY <2>1, Zenon DEF At
  <2> QED
    BY <2>1, <2>2
<1>2. ASSUME NEW d \in Callers \ {c} PROVE d \in Heard' <=> d \in Heard
  BY DEF Heard
<1> QED
  BY <1>1, <1>2

\* The server takes a datagram.
LEMMA WholeTakes ==
  ASSUME DgramWhole, Dgram!OwnPorts, Ordered, IsFiniteSet(Callers),
         NEW c \in Callers, Dgram!RecvArray(c) \/ Dgram!RecvMap(c)
  PROVE  DgramWhole'
<1> DEFINE field == net[c][1]
           k == Dgram!Find(Port[c])
<1>k. /\ DgramInv /\ net \in [Callers -> Seq(DgramFields)]
      /\ cpc \in [Callers -> {"pid", "time", "length", "str", "end", "done"}]
      /\ words \in [Callers -> Seq({"str", "end"})]
      /\ finish = Cardinality(Heard) /\ spc = "recv" /\ cpc' = cpc
  BY DEF DgramWhole, DgramInv, Dgram!RecvArray, Dgram!RecvMap, Dgram!Taken
<1>1. PICK n \in 0 .. 3 : At(cpc[c], net[c], words[c], n) /\ Holds(c, n)
  BY DEF DgramWhole
<1>2. /\ 1 \in DOMAIN net[c] /\ net' = [net EXCEPT ![c] = Dgram!RemoveAt(net[c], 1)]
      /\ \/ /\ rows' = [(IF k = 0 THEN Append(rows, Dgram!Row(c)) ELSE rows)
                          EXCEPT ![IF k = 0 THEN Len(IF k = 0 THEN Append(rows, Dgram!Row(c)) ELSE rows) ELSE k][field] = c]
            /\ words' = IF field = "time" THEN [words EXCEPT ![c] = Append(@, "str")] ELSE words
            /\ finish' = IF field = "str" THEN finish + 1 ELSE finish
            /\ spc' = IF Dgram!Finished' THEN "end" ELSE "recv"
         \/ field # "pid" /\ k = 0
         \/ /\ rows' = IF field = "pid" THEN Dgram!NewData(c) ELSE [rows EXCEPT ![k][field] = c]
            /\ words' = CASE field = "pid" -> words
                          [] field = "time" -> [words EXCEPT ![c] = Append(@, "str")]
                          [] field = "str" -> [words EXCEPT ![c] = Append(@, "end")]
            /\ finish' = IF field = "str" THEN finish + 1 ELSE finish
            /\ spc' = IF Dgram!Finished' THEN "end" ELSE "recv"
  BY Zenon DEF Dgram!RecvArray, Dgram!RecvMap, Dgram!Taken
<1>3. net[c] # <<>>
  BY <1>2
<1>4. /\ n \in 0 .. 2 /\ field = <<"pid", "time", "str">>[n + 1]
      /\ cpc[c] \notin {"pid", "str", "done"} /\ (cpc[c] = "end" <=> n = 2)
      /\ n = 0 => At(cpc[c], Dgram!RemoveAt(net[c], 1), words[c], 1)
      /\ n = 1 => At(cpc[c], Dgram!RemoveAt(net[c], 1), Append(words[c], "str"), 2)
      /\ n = 2 => Dgram!RemoveAt(net[c], 1) = <<>> /\ \A w : At(cpc[c], Dgram!RemoveAt(net[c], 1), w, 3)
  <2> DEFINE cp == cpc[c]
             ne == net[c]
             wo == words[c]
  <2>1. At(cp, ne, wo, n) /\ ne # <<>>
    BY <1>1, <1>3
  <2> HIDE DEF cp, ne, wo
  <2>2. /\ n \in 0 .. 2 /\ ne[1] = <<"pid", "time", "str">>[n + 1]
        /\ cp \notin {"pid", "str", "done"} /\ (cp = "end" <=> n = 2)
        /\ n = 0 => At(cp, Dgram!RemoveAt(ne, 1), wo, 1)
        /\ n = 1 => At(cp, Dgram!RemoveAt(ne, 1), Append(wo, "str"), 2)
        /\ n = 2 => Dgram!RemoveAt(ne, 1) = <<>> /\ \A w : At(cp, Dgram!RemoveAt(ne, 1), w, 3)
    BY <2>1, NextField
  <2> QED
    BY <2>2, Zenon DEF cp, ne, wo
<1> HIDE DEF field
<1>5. (field = "pid" <=> n = 0) /\ (field = "time" <=> n = 1) /\ (field = "str" <=> n = 2)
  BY <1>4
<1>6. field # "pid" => k # 0
  <2>1. rows \in Seq(Records) /\ Len(rows) \in Nat
    BY <1>k DEF DgramInv, Owned
  <2>2. k = 0 => \A j \in 1 .. Len(rows) : rows[j].port # Port[c]
    BY <2>1, FindIs
  <2> HIDE DEF k
  <2> QED
    BY <1>1, <1>5, <2>2 DEF Holds, Filled
<1>7. /\ finish' = IF field = "str" THEN finish + 1 ELSE finish
      /\ spc' = IF Dgram!Finished' THEN "end" ELSE "recv"
      /\ \/ words' = [words EXCEPT ![c] = Append(@, "str")] /\ field = "time"
         \/ words' = words /\ field # "time"
         \/ words' = [words EXCEPT ![c] = Append(@, "end")] /\ field = "str"
  BY <1>2, <1>4, <1>6
<1>8. /\ Holds(c, n + 1)'
      /\ \A d \in Callers \ {c}, m \in 0 .. 3 : Holds(d, m) => Holds(d, m)'
  <2>1. \/ rows' = [(IF k = 0 THEN Append(rows, Dgram!Row(c)) ELSE rows)
                          EXCEPT ![IF k = 0 THEN Len(IF k = 0 THEN Append(rows, Dgram!Row(c)) ELSE rows) ELSE k][field] = c]
        \/ field = "pid" /\ rows' = Dgram!NewData(c)
        \/ field # "pid" /\ rows' = [rows EXCEPT ![k][field] = c]
    BY <1>2, <1>6, Zenon
  <2> QED
    BY <1>k, <1>1, <1>4, <2>1, OneFieldMore, Zenon
<1>9. words' \in [Callers -> Seq({"str", "end"})]
  <2>1. Append(words[c], "str") \in Seq({"str", "end"}) /\ Append(words[c], "end") \in Seq({"str", "end"})
    BY <1>k
  <2> QED
    BY <1>k, <1>7, <2>1
<1>10. At(cpc[c], net[c], words[c], n + 1)'
  <2>1. net'[c] = Dgram!RemoveAt(net[c], 1) /\ cpc'[c] = cpc[c]
    BY <1>k, <1>2
  <2>2. CASE n = 0
    <3>1. words'[c] = words[c]
      BY <1>5, <1>7, <2>2
    <3>2. At(cpc'[c], net'[c], words'[c], 1)
      BY <1>4, <2>1, <2>2, <3>1
    <3> QED
      BY <2>2, <3>2
  <2>3. CASE n = 1
    <3>1. words'[c] = Append(words[c], "str")
      BY <1>k, <1>5, <1>7, <2>3
    <3>2. At(cpc'[c], net'[c], words'[c], 2)
      BY <1>4, <2>1, <2>3, <3>1
    <3> QED
      BY <2>3, <3>2
  <2>4. CASE n = 2
    <3>1. At(cpc'[c], net'[c], words'[c], 3)
      BY <1>4, <2>1, <2>4
    <3> QED
      BY <2>4, <3>1
  <2> QED
    BY <1>4, <2>2, <2>3, <2>4
<1>11. /\ \A d \in Callers \ {c} : \E m \in 0 .. 3 : At(cpc[d], net[d], words[d], m)' /\ Holds(d, m)'
       /\ \A d \in Callers \ {c} : d \in Heard' <=> d \in Heard
  <2>1. \A d \in Callers \ {c} : cpc'[d] = cpc[d] /\ net'[d] = net[d] /\ words'[d] = words[d]
    BY <1>k, <1>2, <1>7
  <2> QED
    BY <1>8, <2>1, WholeElsewhere
<1>12. \A d \in Callers : \E m \in 0 .. 3 : At(cpc[d], net[d], words[d], m)' /\ Holds(d, m)'
  BY <1>4, <1>8, <1>10, <1>11
<1>13. IsFiniteSet(Heard) /\ c \notin Heard /\ Heard \subseteq Callers /\ Heard' \subseteq Callers
  <2>1. Heard \subseteq Callers /\ Heard' \subseteq Callers
    BY DEF Heard
  <2>2. c \notin Heard
    BY <1>3 DEF Heard
  <2> QED
    BY <2>1, <2>2, FS_Subset
<1>14. Heard' = IF n = 2 THEN Heard \union {c} ELSE Heard
  <2>1. c \in Heard' <=> n = 2
    BY <1>k, <1>2, <1>4 DEF Heard
  <2> QED
    BY <1>11, <1>13, <2>1
<1>15. finish' = Cardinality(Heard')
  <2>1. Cardinality(Heard \union {c}) = Cardinality(Heard) + 1
    BY <1>13, FS_AddElement
  <2> QED
    BY <1>k, <1>5, <1>7, <1>14, <2>1
<1>16. spc' \in {"recv", "end", "exit"} /\ spc' # "exit" /\ (spc' # "recv" => Heard' = Callers)
  <2>1. Dgram!Finished' => Cardinality(Heard') >= Cardinality(Callers)
    BY <1>15, Zenon DEF Dgram!Finished, Dgram!process, Dgram!Cardinality, Cardinality
  <2>2. Cardinality(Heard') <= Cardinality(Callers) /\ (Cardinality(Heard') = Cardinality(Callers) => Heard' = Callers)
    BY <1>13, FS_Subset
  <2>3. Cardinality(Heard') \in Nat /\ Cardinality(Callers) \in Nat
    BY <1>13, FS_Subset, FS_CardinalityType
  <2> QED
    BY <1>7, <2>1, <2>2, <2>3
<1>17. DgramInv'
  BY <1>k, DgramTakes
<1> QED
  BY <1>k, <1>9, <1>12, <1>15, <1>16, <1>17 DEF DgramWhole

\* A step that leaves the server's records alone.
LEMMA WholeKeeps ==
  ASSUME DgramWhole, NEW c \in Callers, DgramInv', rows' = rows, finish' = finish, spc' = spc, table' = table,
         cpc' \in [Callers -> {"pid", "time", "length", "str", "end", "done"}],
         words' \in [Callers -> Seq({"str", "end"})],
         \A d \in Callers \ {c} : cpc'[d] = cpc[d] /\ net'[d] = net[d] /\ words'[d] = words[d],
         \A n \in 0 .. 3 : At(cpc[c], net[c], words[c], n) => At(cpc[c], net[c], words[c], n)',
         c \in Heard' <=> c \in Heard
  PROVE  DgramWhole'
<1>1. \A d \in Callers, m \in 0 .. 3 : Holds(d, m) => Holds(d, m)'
  BY DEF Holds
<1>2. /\ \A d \in Callers \ {c} : \E m \in 0 .. 3 : At(cpc[d], net[d], words[d], m)' /\ Holds(d, m)'
      /\ \A d \in Callers \ {c} : d \in Heard' <=> d \in Heard
  BY <1>1, WholeElsewhere
<1>3. PICK n \in 0 .. 3 : At(cpc[c], net[c], words[c], n) /\ Holds(c, n)
  BY DEF DgramWhole
<1>4. \A d \in Callers : \E m \in 0 .. 3 : At(cpc[d], net[d], words[d], m)' /\ Holds(d, m)'
  BY <1>1, <1>2, <1>3
<1>5. Heard' = Heard
  <2>1. Heard \subseteq Callers /\ Heard' \subseteq Callers
    BY DEF Heard
  <2>2. \A d \in Callers : d \in Heard' <=> d \in Heard
    BY <1>2
  <2> QED
    BY <2>1, <2>2, Zenon
<1>6. /\ finish = Cardinality(Heard) /\ spc \in {"recv", "end", "exit"} /\ (spc # "recv" => Heard = Callers)
      /\ spc = "exit" => table = {rows[i] : i \in 1 .. Len(rows)}
  BY DEF DgramWhole
<1> QED
  BY <1>4, <1>5, <1>6 DEF DgramWhole

\* When all have been heard, there are as many records as clients.
LEMMA AllHaveRows ==
  ASSUME DgramWhole, Heard = Callers
  PROVE  ~(Len(rows) < Cardinality(Callers))
<1> DEFINE f == [i \in 1 .. Len(rows) |-> rows[i].addr]
<1>1. rows \in Seq(Records) /\ Len(rows) \in Nat
  BY DEF DgramWhole, DgramInv, Owned
<1>2. \A i \in 1 .. Len(rows) : rows[i].addr \in Callers
  BY <1>1 DEF Records
<1>3. ASSUME NEW c \in Callers PROVE \E i \in 1 .. Len(rows) : rows[i].addr = c
  <2>1. PICK m \in 0 .. 3 : At(cpc[c], net[c], words[c], m) /\ Holds(c, m)
    BY DEF DgramWhole
  <2>2. cpc[c] \in {"end", "done"} /\ net[c] = <<>>
    BY DEF Heard
  <2>3. m = 3
    BY <2>1, <2>2 DEF At
  <2>4. PICK i \in 1 .. Len(rows) : rows[i] = Filled(c, 3)
    BY <2>1, <2>3 DEF Holds
  <2> QED
    BY <2>4 DEF Filled
<1>4. f \in Surjection(1 .. Len(rows), Callers)
  <2>1. f \in [1 .. Len(rows) -> Callers]
    BY <1>2
  <2>2. \A c \in Callers : \E i \in 1 .. Len(rows) : f[i] = c
    BY <1>3
  <2> QED
    BY <2>1, <2>2, Zenon DEF Surjection
<1>5. IsFiniteSet(1 .. Len(rows)) /\ Cardinality(1 .. Len(rows)) = Len(rows)
  BY <1>1, FS_Interval
<1>6. IsFiniteSet(Callers) /\ Cardinality(Callers) <= Cardinality(1 .. Len(rows))
  <2> HIDE DEF f
  <2> QED
    BY <1>4, <1>5, FS_Surjection, Zenon
<1>7. Cardinality(Callers) \in Nat
  BY <1>6, FS_CardinalityType
<1> QED
  BY <1>1, <1>5, <1>6, <1>7

\* Every other step.
LEMMA WholeOthers ==
  ASSUME DgramWhole, Ordered, ~Lossy, [Dgram!Next]_(Dgram!vars),
         ~ \E c \in Callers : Dgram!RecvArray(c) \/ Dgram!RecvMap(c)
  PROVE  DgramWhole'
<1>k. /\ net \in [Callers -> Seq(DgramFields)]
      /\ cpc \in [Callers -> {"pid", "time", "length", "str", "end", "done"}]
      /\ words \in [Callers -> Seq({"str", "end"})]
      /\ \A c \in Callers : \E n \in 0 .. 3 : At(cpc[c], net[c], words[c], n)
  BY DEF DgramWhole, DgramInv
<1>0. DgramInv' /\ rows' = rows
  BY DgramOthers DEF DgramWhole
<1>1. ASSUME NEW c \in Callers, Dgram!SendField(c) PROVE DgramWhole'
  <2> DEFINE After == [pid |-> "time", time |-> "length", str |-> "end"]
  <2>1. /\ cpc[c] \in {"pid", "time", "str"}
        /\ net' = [net EXCEPT ![c] = Append(net[c], cpc[c])]
        /\ cpc' = [cpc EXCEPT ![c] = After[cpc[c]]]
        /\ words' = words /\ finish' = finish /\ spc' = spc /\ table' = table
    BY <1>1 DEF Dgram!SendField
  <2>2. cpc'[c] = After[cpc[c]] /\ net'[c] = Append(net[c], cpc[c]) /\ words'[c] = words[c]
    BY <1>k, <2>1
  <2>3. /\ Append(<<>>, "pid") = <<"pid">> /\ Append(<<>>, "time") = <<"time">>
        /\ Append(<<>>, "str") = <<"str">> /\ Append(<<"pid">>, "time") = <<"pid", "time">>
    <3>1. ASSUME NEW x PROVE Append(<<>>, x) = <<x>>
      OBVIOUS
    <3>2. Append(<<"pid">>, "time") = <<"pid", "time">>
      <4> DEFINE s == Append(<<"pid">>, "time")
                 t == <<"pid", "time">>
      <4>1. <<"pid">> \in Seq(DgramFields) /\ "time" \in DgramFields /\ Len(<<"pid">>) = 1 /\ <<"pid">>[1] = "pid"
        BY DEF DgramFields
      <4>2. s \in Seq(DgramFields) /\ Len(s) = 2 /\ s[1] = "pid" /\ s[2] = "time"
        BY <4>1
      <4>3. t \in Seq(DgramFields) /\ Len(t) = 2 /\ t[1] = "pid" /\ t[2] = "time"
        BY DEF DgramFields
      <4> HIDE DEF s, t
      <4>4. s = t
        <5>1. \A i \in 1 .. Len(s) : s[i] = t[i]
          BY <4>2, <4>3
        <5> QED
          BY <4>2, <4>3, <5>1, SeqEqual
      <4> QED
        BY <4>4 DEF s, t
    <3> QED
      BY <3>1, <3>2
  <2>4. ASSUME NEW n \in 0 .. 3, At(cpc[c], net[c], words[c], n) PROVE At(cpc[c], net[c], words[c], n)'
    <3>1. CASE cpc[c] = "pid"
      <4>1. net[c] = <<>> /\ words[c] = <<>> /\ n = 0
        BY <2>4, <3>1 DEF At
      <4>2. cpc'[c] = "time" /\ net'[c] = <<"pid">>
        BY <2>2, <2>3, <3>1, <4>1
      <4> QED
        BY <2>2, <4>1, <4>2 DEF At
    <3>2. CASE cpc[c] = "time"
      <4>1. words[c] = <<>> /\ ((net[c] = <<"pid">> /\ n = 0) \/ (net[c] = <<>> /\ n = 1))
        BY <2>4, <3>2 DEF At
      <4>2. cpc'[c] = "length"
        BY <2>2, <3>2
      <4>3. net'[c] = Append(net[c], "time")
        BY <2>2, <3>2
      <4>4. net[c] = <<"pid">> => net'[c] = <<"pid", "time">>
        BY <2>3, <4>3, Zenon
      <4>5. net[c] = <<>> => net'[c] = <<"time">>
        BY <2>3, <4>3, Zenon
      <4> QED
        BY <2>2, <4>1, <4>2, <4>4, <4>5 DEF At
    <3>3. CASE cpc[c] = "str"
      <4>1. net[c] = <<>> /\ words[c] = <<>> /\ n = 2
        BY <2>4, <3>3 DEF At
      <4>2. cpc'[c] = "end" /\ net'[c] = <<"str">>
        BY <2>2, <2>3, <3>3, <4>1
      <4> QED
        BY <2>2, <4>1, <4>2 DEF At
    <3> QED
      BY <2>1, <3>1, <3>2, <3>3
  <2>5. c \in Heard' <=> c \in Heard
    <3>1. c \notin Heard
      BY <2>1 DEF Heard
    <3>2. Append(net[c], cpc[c]) # <<>>
      <4>1. net[c] \in Seq(DgramFields) /\ cpc[c] \in DgramFields
        BY <1>k, <2>1 DEF DgramFields
      <4>2. Len(Append(net[c], cpc[c])) = Len(net[c]) + 1 /\ Len(net[c]) \in Nat /\ Len(<<>>) = 0
        BY <4>1
      <4> QED
        BY <4>2
    <3> QED
      BY <2>2, <3>1, <3>2 DEF Heard
  <2>6. cpc' \in [Callers -> {"pid", "time", "length", "str", "end", "done"}]
    BY <1>k, <2>1
  <2>7. \A d \in Callers \ {c} : cpc'[d] = cpc[d] /\ net'[d] = net[d] /\ words'[d] = words[d]
    BY <1>k, <2>1
  <2> HIDE DEF After
  <2> QED
    BY <1>k, <1>0, <2>1, <2>4, <2>5, <2>6, <2>7, WholeKeeps
<1>2. ASSUME NEW c \in Callers, Dgram!Hear(c) PROVE DgramWhole'
  <2>1. /\ cpc[c] \in {"length", "end"} /\ 1 \in DOMAIN words[c]
        /\ words' = [words EXCEPT ![c] = Dgram!RemoveAt(words[c], 1)]
        /\ cpc' = [cpc EXCEPT ![c] = IF cpc[c] = "length" THEN "str" ELSE "done"]
        /\ net' = net /\ finish' = finish /\ spc' = spc /\ table' = table
    BY <1>2 DEF Dgram!Hear
  <2>2. /\ cpc'[c] = IF cpc[c] = "length" THEN "str" ELSE "done"
        /\ net'[c] = net[c] /\ words'[c] = Dgram!RemoveAt(words[c], 1) /\ words[c] # <<>>
    BY <1>k, <2>1
  <2>4. ASSUME NEW n \in 0 .. 3, At(cpc[c], net[c], words[c], n) PROVE At(cpc[c], net[c], words[c], n)'
    <3>1. CASE cpc[c] = "length"
      <4>1. net[c] = <<>> /\ words[c] = <<"str">> /\ n = 2
        BY <2>2, <2>4, <3>1 DEF At
      <4>2. cpc'[c] = "str" /\ words'[c] = <<>>
        BY <2>2, <3>1, <4>1, FirstTaken
      <4> QED
        BY <2>2, <4>1, <4>2 DEF At
    <3>2. CASE cpc[c] = "end"
      <4>1. net[c] = <<>> /\ n = 3
        BY <2>2, <2>4, <3>2 DEF At
      <4>2. cpc'[c] = "done"
        BY <2>2, <3>2
      <4> QED
        BY <2>2, <4>1, <4>2 DEF At
    <3> QED
      BY <2>1, <3>1, <3>2
  <2>5. c \in Heard' <=> c \in Heard
    BY <2>1, <2>2 DEF Heard
  <2>6. cpc' \in [Callers -> {"pid", "time", "length", "str", "end", "done"}]
    BY <1>k, <2>1
  <2>7. words' \in [Callers -> Seq({"str", "end"})]
    <3>1. words[c] \in Seq({"str", "end"})
      BY <1>k
    <3>2. Dgram!RemoveAt(words[c], 1) \in Seq({"str", "end"})
      BY <2>1, <3>1, RemovedIsSeq
    <3> QED
      BY <1>k, <2>1, <3>2
  <2>8. \A d \in Callers \ {c} : cpc'[d] = cpc[d] /\ net'[d] = net[d] /\ words'[d] = words[d]
    BY <1>k, <2>1
  <2> QED
    BY <1>0, <2>1, <2>4, <2>5, <2>6, <2>7, <2>8, WholeKeeps
<1>3. CASE Dgram!EndArray \/ Dgram!EndMap
  <2>0. spc = "end"
    BY <1>3 DEF Dgram!EndArray, Dgram!EndMap
  <2>3. Heard = Callers /\ finish = Cardinality(Heard)
    BY <2>0 DEF DgramWhole
  <2>7. ~(Len(rows) < Dgram!process)
    <3>1. Dgram!process = Cardinality(Callers)
      BY Zenon DEF Dgram!process, Dgram!Cardinality, Cardinality
    <3> QED
      BY <2>3, <3>1, AllHaveRows, Zenon
  <2>8. table' = Dgram!ToSet(rows)
    <3>1. CASE Dgram!EndMap
      BY <3>1 DEF Dgram!EndMap
    <3>2. CASE Dgram!EndArray
      <4>1. table' = Dgram!ToSet(rows) \union (IF Len(rows) < Dgram!process THEN {Dgram!Unset} ELSE {})
        BY <3>2, Zenon DEF Dgram!EndArray
      <4> QED
        BY <2>7, <4>1
    <3> QED
      BY <1>3, <3>1, <3>2
  <2>1. /\ spc = "end" /\ spc' = "exit" /\ cpc' = cpc /\ net' = net /\ finish' = finish
        /\ table' = {rows[i] : i \in DOMAIN rows}
        /\ \/ words' = [c \in Callers |-> IF \E i \in DOMAIN rows : rows[i].addr = c
                                         THEN Append(words[c], "end") ELSE words[c]]
           \/ words' = words
    BY <1>3, <2>8 DEF Dgram!EndArray, Dgram!EndMap, Dgram!ToSet
  <2>2. words' \in [Callers -> Seq({"str", "end"})]
    <3>1. \A c \in Callers : Append(words[c], "end") \in Seq({"str", "end"})
      BY <1>k
    <3>2. CASE words' = words
      BY <1>k, <3>2
    <3>3. CASE words' = [c \in Callers |-> IF \E i \in DOMAIN rows : rows[i].addr = c
                                         THEN Append(words[c], "end") ELSE words[c]]
      <4>1. \A c \in Callers : words[c] \in Seq({"str", "end"})
        BY <1>k
      <4> QED
        BY <3>1, <3>3, <4>1
    <3> QED
      BY <2>1, <3>2, <3>3
  <2>4. Heard' = Heard
    BY <2>1 DEF Heard
  <2>5. ASSUME NEW c \in Callers PROVE \E m \in 0 .. 3 : At(cpc[c], net[c], words[c], m)' /\ Holds(c, m)'
    <3>1. PICK m \in 0 .. 3 : At(cpc[c], net[c], words[c], m) /\ Holds(c, m)
      BY DEF DgramWhole
    <3>2. cpc[c] \in {"end", "done"} /\ net[c] = <<>>
      BY <2>3 DEF Heard
    <3>3. m = 3
      BY <3>1, <3>2 DEF At
    <3>4. At(cpc[c], net[c], words[c], m)'
      BY <2>1, <3>2, <3>3 DEF At
    <3>5. Holds(c, m)'
      BY <1>0, <3>1 DEF Holds
    <3> QED
      BY <3>4, <3>5
  <2>6. table' = {rows'[i] : i \in 1 .. Len(rows')}
    <3>1. DOMAIN rows = 1 .. Len(rows)
      BY DEF DgramWhole, DgramInv, Owned
    <3> QED
      BY <1>0, <2>1, <3>1
  <2> QED
    BY <1>k, <1>0, <2>1, <2>2, <2>3, <2>4, <2>5, <2>6 DEF DgramWhole
<1>4. CASE UNCHANGED Dgram!vars
  <2>1. cpc' = cpc /\ net' = net /\ words' = words /\ rows' = rows /\ finish' = finish /\ spc' = spc /\ table' = table
    BY <1>4 DEF Dgram!vars
  <2> QED
    BY <1>0, <2>1 DEF DgramWhole, Holds, Heard
<1>5. ~Dgram!Lose /\ ~Dgram!Repeat /\ ~Dgram!ErrMap /\ \A c \in Callers : ~Dgram!Errs(c)
  BY DEF Dgram!Lose, Dgram!Repeat, Dgram!ErrMap, Dgram!Errs
<1> QED
  BY <1>1, <1>2, <1>3, <1>4, <1>5, Zenon DEF Dgram!Next, Dgram!Server, Dgram!Client

\* On a network that keeps the order and loses nothing, where each client has a
\* port of its own, the server stores every client's whole record and no other,
\* and never follows a null pointer.
THEOREM DgramStoresAll ==
  Dgram!DatagramAssumption /\ Dgram!OwnPorts /\ Ordered /\ ~Lossy =>
    (Dgram!Spec => [](Dgram!StoresAll /\ Dgram!NoCrash))
<1> SUFFICES ASSUME Dgram!DatagramAssumption, Dgram!OwnPorts, Ordered, ~Lossy
             PROVE  Dgram!Spec => [](Dgram!StoresAll /\ Dgram!NoCrash)
  OBVIOUS
<1>f. IsFiniteSet(Callers)
  BY Zenon DEF Dgram!DatagramAssumption, Dgram!IsFiniteSet, IsFiniteSet
<1>1. Dgram!Init => DgramWhole
  <2> SUFFICES ASSUME Dgram!Init PROVE DgramWhole
    OBVIOUS
  <2>1. /\ cpc = [c \in Callers |-> "pid"] /\ net = [c \in Callers |-> <<>>] /\ words = net
        /\ rows = <<>> /\ finish = 0 /\ spc = "recv"
    BY DEF Dgram!Init
  <2>2. Heard = {}
    BY <2>1 DEF Heard
  <2>3. Cardinality({}) = 0
    BY FS_EmptySet
  <2>4. \A c \in Callers : At(cpc[c], net[c], words[c], 0) /\ Holds(c, 0)
    BY <2>1 DEF At, Holds
  <2>5. words \in [Callers -> Seq({"str", "end"})]
    BY <2>1
  <2>6. DgramInv
    BY DgramBegins
  <2> QED
    BY <2>1, <2>2, <2>3, <2>4, <2>5, <2>6 DEF DgramWhole
<1>2. DgramWhole /\ [Dgram!Next]_(Dgram!vars) => DgramWhole'
  BY <1>f, WholeTakes, WholeOthers
<1>3. ASSUME DgramWhole PROVE Dgram!StoresAll /\ Dgram!NoCrash
  <2>1. Dgram!NoCrash
    BY <1>3 DEF DgramWhole, Dgram!NoCrash
  <2>2. ASSUME spc = "exit" PROVE table = {Dgram!Complete(c) : c \in Callers}
    <3>1. ASSUME NEW c \in Callers
          PROVE  \E i \in 1 .. Len(rows) : rows[i] = Dgram!Complete(c)
      <4>1. c \in Heard
        BY <1>3, <2>2 DEF DgramWhole
      <4>2. PICK n \in 0 .. 3 : At(cpc[c], net[c], words[c], n) /\ Holds(c, n)
        BY <1>3 DEF DgramWhole
      <4>3. n = 3
        <5>1. cpc[c] \in {"end", "done"} /\ net[c] = <<>>
          BY <4>1 DEF Heard
        <5> QED
          BY <4>2, <5>1 DEF At
      <4>4. Filled(c, 3) = Dgram!Complete(c)
        <5>1. Filled(c, 3) = [port |-> Port[c], addr |-> c, pid |-> c, time |-> c, str |-> c]
          BY DEF Filled
        <5>2. Dgram!Complete(c) = [port |-> Port[c], addr |-> c, pid |-> c, time |-> c, str |-> c]
          <6>1. Dgram!Row(c) = [port |-> Port[c], addr |-> c, pid |-> None, time |-> None, str |-> None]
            BY DEF Dgram!Row
          <6>2. Dgram!Complete(c) = [[[Dgram!Row(c) EXCEPT !["pid"] = c] EXCEPT !["time"] = c] EXCEPT !["str"] = c]
            BY Zenon DEF Dgram!Complete
          <6>3. [Dgram!Row(c) EXCEPT !["pid"] = c] =
                  [port |-> Port[c], addr |-> c, pid |-> c, time |-> None, str |-> None]
            BY <6>1
          <6>4. [[port |-> Port[c], addr |-> c, pid |-> c, time |-> None, str |-> None] EXCEPT !["time"] = c] =
                  [port |-> Port[c], addr |-> c, pid |-> c, time |-> c, str |-> None]
            OBVIOUS
          <6>5. [[port |-> Port[c], addr |-> c, pid |-> c, time |-> c, str |-> None] EXCEPT !["str"] = c] =
                  [port |-> Port[c], addr |-> c, pid |-> c, time |-> c, str |-> c]
            OBVIOUS
          <6> QED
            BY <6>2, <6>3, <6>4, <6>5, Zenon
        <5> QED
          BY <5>1, <5>2
      <4> QED
        BY <4>2, <4>3, <4>4 DEF Holds
    <3>2. ASSUME NEW i \in 1 .. Len(rows) PROVE \E c \in Callers : rows[i] = Dgram!Complete(c)
      <4>0. rows \in Seq(Records) /\ \A a, b \in 1 .. Len(rows) : rows[a].port = rows[b].port => a = b
        BY <1>3, Zenon DEF DgramWhole, DgramInv, Owned
      <4>1. /\ rows[i] \in Records
            /\ \A j \in 1 .. Len(rows) : rows[i].port = rows[j].port => i = j
        BY <4>0
      <4>2. rows[i].addr \in Callers /\ rows[i].port = Port[rows[i].addr]
        BY <4>1 DEF Records
      <4>3. PICK j \in 1 .. Len(rows) : rows[j] = Dgram!Complete(rows[i].addr)
        BY <3>1, <4>2
      <4>4. rows[j].port = Port[rows[i].addr]
        BY <4>3 DEF Dgram!Complete, Dgram!Row
      <4> QED
        BY <4>1, <4>2, <4>3, <4>4
    <3>3. table = {rows[i] : i \in 1 .. Len(rows)}
      BY <1>3, <2>2 DEF DgramWhole
    <3> QED
      BY <3>1, <3>2, <3>3
  <2> QED
    BY <2>1, <2>2 DEF Dgram!StoresAll
<1> QED
  BY <1>1, <1>2, <1>3, PTL DEF Dgram!Spec

\* Together: the records of the collectors over UDP, whatever the ports and the
\* network are like.
THEOREM DgramRecordsAreRight == Dgram!DatagramAssumption => (Dgram!Spec => []Dgram!DatagramsAreRight)
<1> SUFFICES ASSUME Dgram!DatagramAssumption PROVE Dgram!Spec => []Dgram!DatagramsAreRight
  OBVIOUS
<1>1. CASE Dgram!OwnPorts /\ Ordered /\ ~Lossy
  <2>1. Dgram!OneRecord /\ Dgram!NoMixing /\ Dgram!StoresAll /\ Dgram!NoCrash => Dgram!DatagramsAreRight
    BY DEF Dgram!DatagramsAreRight
  <2> QED
    BY <1>1, <2>1, DgramOneRecord, DgramNoMixing, DgramStoresAll, PTL
<1>2. CASE Dgram!OwnPorts /\ ~(Ordered /\ ~Lossy)
  <2>1. Dgram!OneRecord /\ Dgram!NoMixing => Dgram!DatagramsAreRight
    BY <1>2 DEF Dgram!DatagramsAreRight
  <2> QED
    BY <1>2, <2>1, DgramOneRecord, DgramNoMixing, PTL
<1>3. CASE ~Dgram!OwnPorts
  <2>1. Dgram!OneRecord => Dgram!DatagramsAreRight
    BY <1>3 DEF Dgram!DatagramsAreRight
  <2> QED
    BY <2>1, DgramOneRecord, PTL
<1> QED
  BY <1>1, <1>2, <1>3

-----------------------------------------------------------------------------
(* The UDP forwarder *)

\* The row of a client is one of its rows, if it has one.
LEMMA RowIs ==
  ASSUME NEW c, Len(UDPTables) \in Nat
  PROVE  /\ Udp!Row(c) \in 0 .. Len(UDPTables)
         /\ Udp!Row(c) # 0 => UDPTables[Udp!Row(c)].client = c
         /\ Udp!Row(c) = 0 => \A i \in 1 .. Len(UDPTables) : UDPTables[i].client # c
<1> DEFINE I == {i \in 1 .. Len(UDPTables) : UDPTables[i].client = c}
<1>1. Udp!Row(c) = IF I # {} THEN Udp!Min(I) ELSE 0
  BY Zenon DEF Udp!Row, Udp!SelectInSeq
<1>2. I # {} => Udp!Min(I) \in I
  <2>1. I \in SUBSET Nat
    OBVIOUS
  <2> HIDE DEF I
  <2> QED
    BY <2>1, LeastNumber, Zenon DEF Udp!Min
<1> QED
  BY <1>1, <1>2

\* The first row with a target has it.
LEMMA RowOfIs ==
  ASSUME NEW t, Len(UDPTables) \in Nat, \E i \in 1 .. Len(UDPTables) : UDPTables[i].target = t
  PROVE  Udp!RowOf(t) \in 1 .. Len(UDPTables) /\ UDPTables[Udp!RowOf(t)].target = t
<1> DEFINE I == {i \in 1 .. Len(UDPTables) : UDPTables[i].target = t}
<1>1. Udp!RowOf(t) = IF I # {} THEN Udp!Min(I) ELSE 0
  BY Zenon DEF Udp!RowOf, Udp!SelectInSeq
<1>2. I # {} /\ I \in SUBSET Nat
  OBVIOUS
<1>3. Udp!Min(I) \in I
  <2> HIDE DEF I
  <2> QED
    BY <1>2, LeastNumber, Zenon DEF Udp!Min
<1> QED
  BY <1>1, <1>2, <1>3

\* A datagram that a client may have sent.
Asked(r) == r.from \in Clients /\ r.to \in Uses[r.from]

\* Every row is of a client and a target it uses, and no client has two; what
\* is between a row's socket and a target is of the row's client.
Rows ==
  /\ UDPTables \in Seq([client : Clients, target : {Transfer[p] : p \in 1 .. UDPParas}])
  /\ \A i \in 1 .. Len(UDPTables) : \E p \in Uses[UDPTables[i].client] : UDPTables[i].target = Transfer[p]
  /\ \A i, j \in 1 .. Len(UDPTables) : UDPTables[i].client = UDPTables[j].client => i = j

\* The datagrams that the forwarder or a target has sent.
OnTheWay ==
  \A d \in forwarded \union answers :
     /\ Asked(d.request) /\ d.socket \in 1 .. Len(UDPTables)
     /\ UDPTables[d.socket].client = d.request.from
     /\ UDPTables[d.socket].target = d.target

\* The inductive invariant of the UDP forwarder.
UdpInv == Rows /\ OnTheWay /\ \A d \in requests : Asked(d)

\* Rows are of clients.
LEMMA RowsAreOfClients ==
  ASSUME Rows
  PROVE  \A k \in 1 .. Len(UDPTables) : UDPTables[k].client \in Clients
<1> DEFINE R == [client : Clients, target : {Transfer[p] : p \in 1 .. UDPParas}]
<1>1. UDPTables \in Seq(R)
  BY DEF Rows
<1>2. \A r \in R : r.client \in Clients
  OBVIOUS
<1> HIDE DEF R
<1> QED
  BY <1>1, <1>2

\* A datagram forwarded uses its sender's row, which it may have made.
LEMMA UdpForwards ==
  ASSUME Udp!UdpNatAssumption, UdpInv, NEW p \in 1 .. UDPParas, Udp!Forward(p)
  PROVE  UdpInv'
<1>k. Rows /\ OnTheWay /\ \A d \in requests : Asked(d)
  BY DEF UdpInv
<1>1. PICK d \in requests :
        /\ d.to = p /\ requests' = requests \ {d}
        /\ UDPTables' = IF Udp!Row(d.from) # 0 THEN UDPTables
                        ELSE Append(UDPTables, [client |-> d.from, target |-> Transfer[p]])
        /\ LET i == IF Udp!Row(d.from) # 0 THEN Udp!Row(d.from) ELSE Len(UDPTables')
           IN forwarded' = forwarded \union {[socket |-> i, target |-> UDPTables'[i].target, request |-> d]}
        /\ answers' = answers
  BY Zenon DEF Udp!Forward
<1> DEFINE i == IF Udp!Row(d.from) # 0 THEN Udp!Row(d.from) ELSE Len(UDPTables')
           t == UDPTables'[i].target
<1>2. Asked(d) /\ d.from \in Clients /\ p \in Uses[d.from]
  BY <1>1, <1>k DEF Asked
<1>l. Len(UDPTables) \in Nat
  BY <1>k DEF Rows
<1>r. /\ Udp!Row(d.from) \in 0 .. Len(UDPTables)
      /\ Udp!Row(d.from) # 0 => UDPTables[Udp!Row(d.from)].client = d.from
      /\ Udp!Row(d.from) = 0 => \A k \in 1 .. Len(UDPTables) : UDPTables[k].client # d.from
  <2> DEFINE c == d.from
  <2> HIDE DEF c
  <2>1. /\ Udp!Row(c) \in 0 .. Len(UDPTables)
        /\ Udp!Row(c) # 0 => UDPTables[Udp!Row(c)].client = c
        /\ Udp!Row(c) = 0 => \A k \in 1 .. Len(UDPTables) : UDPTables[k].client # c
    BY <1>l, RowIs
  <2> QED
    BY <2>1 DEF c
<1>3. /\ Rows' /\ Len(UDPTables') \in Nat /\ Len(UDPTables) <= Len(UDPTables')
      /\ \A k \in 1 .. Len(UDPTables) : UDPTables'[k] = UDPTables[k]
      /\ i \in 1 .. Len(UDPTables') /\ UDPTables'[i].client = d.from
  <2>1. CASE Udp!Row(d.from) # 0
    BY <2>1, <1>1, <1>r, <1>l, <1>k DEF Rows
  <2>2. CASE Udp!Row(d.from) = 0
    <3> DEFINE added == [client |-> d.from, target |-> Transfer[p]]
    <3>1. added \in [client : Clients, target : {Transfer[q] : q \in 1 .. UDPParas}]
      BY <1>2
    <3>2. added.client = d.from /\ added.target = Transfer[p]
      OBVIOUS
    <3>3. UDPTables' = Append(UDPTables, added) /\ i = Len(UDPTables')
      BY <2>2, <1>1
    <3> HIDE DEF added
    <3>4. /\ UDPTables' \in Seq([client : Clients, target : {Transfer[q] : q \in 1 .. UDPParas}])
          /\ Len(UDPTables') = Len(UDPTables) + 1 /\ UDPTables'[Len(UDPTables) + 1] = added
          /\ \A k \in 1 .. Len(UDPTables) : UDPTables'[k] = UDPTables[k]
      BY <3>1, <3>3, <1>k DEF Rows
    <3>5. \A k \in 1 .. Len(UDPTables') : k \in 1 .. Len(UDPTables) \/ (k = Len(UDPTables) + 1 /\ UDPTables'[k] = added)
      BY <3>4, <1>l
    <3>6. ASSUME NEW k \in 1 .. Len(UDPTables')
          PROVE \E q \in Uses[UDPTables'[k].client] : UDPTables'[k].target = Transfer[q]
      <4>1. CASE k \in 1 .. Len(UDPTables)
        BY <4>1, <3>4, <1>k DEF Rows
      <4>2. CASE UDPTables'[k] = added
        BY <4>2, <3>2, <1>2
      <4> QED
        BY <4>1, <4>2, <3>5
    <3>7. ASSUME NEW j \in 1 .. Len(UDPTables'), NEW k \in 1 .. Len(UDPTables'),
                 UDPTables'[j].client = UDPTables'[k].client
          PROVE  j = k
      <4>1. \A m \in 1 .. Len(UDPTables) : UDPTables'[m].client # d.from
        BY <3>4, <2>2, <1>r
      <4>2. CASE j \in 1 .. Len(UDPTables) /\ k \in 1 .. Len(UDPTables)
        BY <4>2, <3>4, <3>7, <1>k DEF Rows
      <4>3. CASE j = Len(UDPTables) + 1
        BY <4>1, <4>3, <3>2, <3>4, <3>5, <3>7
      <4>4. CASE k = Len(UDPTables) + 1
        BY <4>1, <4>4, <3>2, <3>4, <3>5, <3>7
      <4> QED
        BY <4>2, <4>3, <4>4, <3>5
    <3>8. Rows'
      BY <3>4, <3>6, <3>7 DEF Rows
    <3> QED
      BY <3>2, <3>3, <3>4, <3>8, <1>l
  <2> QED
    BY <2>1, <2>2
<1>4. forwarded' = forwarded \union {[socket |-> i, target |-> t, request |-> d]}
  BY <1>1, Zenon
<1> HIDE DEF i
<1>5. ASSUME NEW e \in forwarded' \union answers'
      PROVE  /\ Asked(e.request) /\ e.socket \in 1 .. Len(UDPTables')
             /\ UDPTables'[e.socket].client = e.request.from
             /\ UDPTables'[e.socket].target = e.target
  <2>1. CASE e \in forwarded \union answers
    <3>1. /\ Asked(e.request) /\ e.socket \in 1 .. Len(UDPTables)
          /\ UDPTables[e.socket].client = e.request.from
          /\ UDPTables[e.socket].target = e.target
      BY <2>1, <1>k DEF OnTheWay
    <3> QED
      BY <3>1, <1>3, <1>l
  <2>2. CASE e = [socket |-> i, target |-> t, request |-> d]
    <3>1. e.socket = i /\ e.target = t /\ e.request = d
      BY <2>2
    <3> QED
      BY <3>1, <1>2, <1>3
  <2> QED
    BY <2>1, <2>2, <1>1, <1>4
<1>6. OnTheWay'
  BY <1>5 DEF OnTheWay, Asked
<1>7. \A e \in requests' : Asked(e)'
  BY <1>1, <1>k DEF Asked
<1> QED
  BY <1>3, <1>6, <1>7 DEF UdpInv

\* It holds always.
THEOREM UdpInvariance == Udp!UdpNatAssumption => (Udp!Spec => []UdpInv)
<1> SUFFICES ASSUME Udp!UdpNatAssumption PROVE Udp!Spec => []UdpInv
  OBVIOUS
<1>1. Udp!Init => UdpInv
  BY DEF Udp!Init, UdpInv, Rows, OnTheWay
<1>2. UdpInv /\ [Udp!Next]_(Udp!vars) => UdpInv'
  <2> SUFFICES ASSUME UdpInv, [Udp!Next]_(Udp!vars) PROVE UdpInv'
    OBVIOUS
  <2>1. ASSUME NEW p \in 1 .. UDPParas, Udp!Forward(p) PROVE UdpInv'
    BY <2>1, UdpForwards
  <2>2. ASSUME UDPTables' = UDPTables, forwarded' \union answers' \subseteq forwarded \union answers,
               \A d \in requests' \ requests : Asked(d)
        PROVE  UdpInv'
    BY <2>2 DEF UdpInv, Rows, OnTheWay, Asked
  <2>3. CASE Udp!Return
    BY <2>2, <2>3 DEF Udp!Return
  <2>4. CASE Udp!Echo
    BY <2>2, <2>4 DEF Udp!Echo
  <2>5. CASE Udp!Lose
    BY <2>2, <2>5 DEF Udp!Lose
  <2>6. ASSUME NEW c \in Clients, Udp!Send(c) PROVE UdpInv'
    BY <2>2, <2>6 DEF Udp!Send, Asked
  <2>7. ASSUME NEW c \in Clients, Udp!Receive(c) PROVE UdpInv'
    BY <2>2, <2>7 DEF Udp!Receive
  <2>8. CASE UNCHANGED Udp!vars
    BY <2>2, <2>8 DEF Udp!vars
  <2> QED
    BY <2>1, <2>3, <2>4, <2>5, <2>6, <2>7, <2>8 DEF Udp!Next, Udp!Forwarder, Udp!Client
<1> QED
  BY <1>1, <1>2, PTL DEF Udp!Spec

\* The UDP forwarder never has two rows of a client.
THEOREM UdpOneRow == Udp!UdpNatAssumption => (Udp!Spec => []Udp!OneRow)
<1>1. UdpInv => Udp!OneRow
  BY DEF UdpInv, Rows, OnTheWay, Udp!OneRow
<1> QED
  BY <1>1, UdpInvariance, PTL

\* Where each client uses one listening socket, what is forwarded goes to the
\* target of the socket it was sent to.
THEOREM UdpRouted == Udp!UdpNatAssumption /\ Udp!OneUse => (Udp!Spec => []Udp!Routed)
<1> SUFFICES ASSUME Udp!UdpNatAssumption, Udp!OneUse PROVE Udp!Spec => []Udp!Routed
  OBVIOUS
<1>1. UdpInv => Udp!Routed
  BY DEF UdpInv, Rows, OnTheWay, Asked, Udp!OneUse, Udp!Routed
<1> QED
  BY <1>1, UdpInvariance, PTL

\* Where nothing is shared, the listening socket of a target is the one with it.
LEMMA ListenerIs ==
  ASSUME Udp!NothingShared, NEW p \in 1 .. UDPParas, UDPParas \in Nat
  PROVE  Udp!Listener(Transfer[p]) = p
BY DEF Udp!NothingShared, Udp!Listener

\* Where they also share neither sockets nor targets, a client receives only
\* answers to what it asked, from the socket it asked.
THEOREM UdpOwnAnswers ==
  Udp!UdpNatAssumption /\ Udp!OneUse /\ Udp!NothingShared => (Udp!Spec => []Udp!OwnAnswers)
<1> SUFFICES ASSUME Udp!UdpNatAssumption, Udp!OneUse, Udp!NothingShared PROVE Udp!Spec => []Udp!OwnAnswers
  OBVIOUS
<1>1. Udp!Init => Udp!OwnAnswers
  BY DEF Udp!Init, Udp!OwnAnswers
<1>2. UdpInv /\ Udp!OwnAnswers /\ [Udp!Next]_(Udp!vars) => Udp!OwnAnswers'
  <2> SUFFICES ASSUME UdpInv, Udp!OwnAnswers, [Udp!Next]_(Udp!vars) PROVE Udp!OwnAnswers'
    OBVIOUS
  <2>1. CASE Udp!Return
    <3>1. PICK d \in answers :
            returned' = returned \union {[to |-> UDPTables[Udp!RowOf(d.target)].client,
                                          from |-> Udp!Listener(d.target), request |-> d.request]}
      BY <2>1 DEF Udp!Return
    <3> DEFINE j == Udp!RowOf(d.target)
               c == d.request.from
               p == d.request.to
    <3>2. /\ c \in Clients /\ p \in Uses[c] /\ d.socket \in 1 .. Len(UDPTables)
          /\ UDPTables[d.socket].client = c /\ UDPTables[d.socket].target = d.target
      BY DEF UdpInv, OnTheWay, Asked
    <3>3. d.target = Transfer[p] /\ p \in 1 .. UDPParas
      BY <3>2 DEF UdpInv, Rows, Udp!OneUse, Udp!UdpNatAssumption
    <3>4. j \in 1 .. Len(UDPTables) /\ UDPTables[j].target = d.target
      <4> DEFINE t == d.target
      <4>1. Len(UDPTables) \in Nat /\ \E i \in 1 .. Len(UDPTables) : UDPTables[i].target = t
        BY <3>2 DEF UdpInv, Rows
      <4> HIDE DEF t
      <4>2. Udp!RowOf(t) \in 1 .. Len(UDPTables) /\ UDPTables[Udp!RowOf(t)].target = t
        BY <4>1, RowOfIs
      <4> QED
        BY <4>2 DEF t
    <3>5. PICK q \in Uses[UDPTables[j].client] : UDPTables[j].target = Transfer[q]
      BY <3>4 DEF UdpInv, Rows
    <3>6. UDPTables[j].client \in Clients
      <4> HIDE DEF j
      <4> QED
        BY <3>4, RowsAreOfClients DEF UdpInv
    <3>7. q \in 1 .. UDPParas
      BY <3>5, <3>6 DEF Udp!UdpNatAssumption
    <3>8. q = p
      BY <3>3, <3>4, <3>5, <3>7 DEF Udp!NothingShared
    <3>9. UDPTables[j].client = c
      BY <3>2, <3>5, <3>6, <3>8 DEF Udp!NothingShared
    <3>10. Udp!Listener(d.target) = p
      <4>1. Udp!Listener(Transfer[p]) = p
        <5> HIDE DEF p
        <5> QED
          BY <3>3, ListenerIs DEF Udp!UdpNatAssumption
      <4> QED
        BY <4>1, <3>3
    <3> QED
      BY <3>1, <3>9, <3>10 DEF Udp!OwnAnswers
  <2>2. ASSUME returned' \subseteq returned PROVE Udp!OwnAnswers'
    BY <2>2 DEF Udp!OwnAnswers
  <2>3. CASE Udp!Echo
    BY <2>2, <2>3 DEF Udp!Echo
  <2>4. CASE Udp!Lose
    BY <2>2, <2>4 DEF Udp!Lose
  <2>5. ASSUME NEW c \in Clients, Udp!Client(c) PROVE returned' \subseteq returned
    BY <2>5 DEF Udp!Client, Udp!Send, Udp!Receive
  <2>6. ASSUME NEW p \in 1 .. UDPParas, Udp!Forward(p) PROVE returned' \subseteq returned
    BY <2>6 DEF Udp!Forward
  <2>7. CASE UNCHANGED Udp!vars
    BY <2>2, <2>7 DEF Udp!vars
  <2> QED
    BY <2>1, <2>2, <2>3, <2>4, <2>5, <2>6, <2>7 DEF Udp!Next, Udp!Forwarder
<1> QED
  BY <1>1, <1>2, UdpInvariance, PTL DEF Udp!Spec

\* Together: all that the forwarder's rows promise, on whichever condition.
THEOREM UdpRowsAreRight == Udp!UdpNatAssumption => (Udp!Spec => []Udp!RowsAreRight)
<1> SUFFICES ASSUME Udp!UdpNatAssumption PROVE Udp!Spec => []Udp!RowsAreRight
  OBVIOUS
<1>1. CASE Udp!OneUse /\ Udp!NothingShared
  <2>1. Udp!OneRow /\ Udp!Routed /\ Udp!OwnAnswers => Udp!RowsAreRight
    BY DEF Udp!RowsAreRight
  <2> QED
    BY <1>1, <2>1, UdpOneRow, UdpRouted, UdpOwnAnswers, PTL
<1>2. CASE Udp!OneUse /\ ~Udp!NothingShared
  <2>1. Udp!OneRow /\ Udp!Routed => Udp!RowsAreRight
    BY <1>2 DEF Udp!RowsAreRight
  <2> QED
    BY <1>2, <2>1, UdpOneRow, UdpRouted, PTL
<1>3. CASE ~Udp!OneUse
  <2>1. Udp!OneRow => Udp!RowsAreRight
    BY <1>3 DEF Udp!RowsAreRight
  <2> QED
    BY <2>1, UdpOneRow, PTL
<1> QED
  BY <1>1, <1>2, <1>3

-----------------------------------------------------------------------------
(* The TCP forwarder *)

\* One process accepts, until it is stopped, and then none; it has something
\* to accept, and each relay a client.
TcpInv ==
  /\ role \in [Procs -> {"none", "wait", "accept", "connect", "relay", "gone"}]
  /\ hasClient \in [Procs -> BOOLEAN] /\ calls \in Nat
  /\ \A p \in Procs : role[p] \in {"wait", "accept"} => p = Root
  /\ stopped => role[Root] = "gone"
  /\ role[Root] \in {"wait", "accept", "gone"}
  /\ role[Root] = "accept" => calls > 0
  /\ Tcp!RelaysHaveClients

\* Where the target answers in time, no process accepts on the port once the
\* mapping is stopped, and each relay carries a client's connection.
THEOREM TcpMapping ==
  Tcp!TcpNatAssumption /\ ~Slow => (Tcp!Spec => [](Tcp!StopEndsMapping /\ Tcp!RelaysHaveClients))
<1> SUFFICES ASSUME Tcp!TcpNatAssumption, ~Slow
             PROVE  Tcp!Spec => [](Tcp!StopEndsMapping /\ Tcp!RelaysHaveClients)
  OBVIOUS
<1>1. Tcp!Init => TcpInv
  BY DEF Tcp!Init, TcpInv, Tcp!Never, Tcp!RelaysHaveClients, Tcp!TcpNatAssumption
<1>2. TcpInv /\ [Tcp!Next]_(Tcp!vars) => TcpInv'
  <2> SUFFICES ASSUME TcpInv, [Tcp!Next]_(Tcp!vars) PROVE TcpInv'
    OBVIOUS
  <2> USE DEF TcpInv, Tcp!RelaysHaveClients
  <2>1. CASE Tcp!Call
    BY <2>1 DEF Tcp!Call
  <2>2. CASE Tcp!Stop
    BY <2>2 DEF Tcp!Stop, Tcp!TcpNatAssumption
  <2>3. ASSUME NEW p \in Procs, Tcp!Select(p) PROVE TcpInv'
    BY <2>3 DEF Tcp!Select
  <2>4. ASSUME NEW p \in Procs, Tcp!AcceptFork(p) PROVE TcpInv'
    <3>1. p = Root /\ calls > 0 /\ ~stopped
      BY <2>4 DEF Tcp!AcceptFork
    <3>2. PICK child \in Procs : /\ role[child] = "none"
                                 /\ role' = [role EXCEPT ![p] = "wait", ![child] = "connect"]
                                 /\ hasClient' = [hasClient EXCEPT ![child] = calls > 0]
      BY <2>4 DEF Tcp!AcceptFork
    <3>3. calls' \in Nat /\ stopped' = stopped
      BY <2>4 DEF Tcp!AcceptFork
    <3>4. child # p /\ hasClient' = [hasClient EXCEPT ![child] = TRUE]
      BY <3>1, <3>2
    <3> QED
      BY <3>1, <3>2, <3>3, <3>4
  <2>5. ASSUME NEW p \in Procs, Tcp!Connected(p) PROVE TcpInv'
    BY <2>5 DEF Tcp!Connected
  <2>6. ASSUME NEW p \in Procs, Tcp!ConnectFails(p) PROVE FALSE
    BY <2>6 DEF Tcp!ConnectFails
  <2>7. ASSUME NEW p \in Procs, Tcp!Turn(p) PROVE TcpInv'
    <3>1. role[p] = "relay" /\ calls' = calls /\ stopped' = stopped /\ hasClient' = hasClient
      BY <2>7, Zenon DEF Tcp!Turn
    <3>2. CASE role' = role
      BY <3>1, <3>2
    <3>3. CASE role' = [role EXCEPT ![p] = "gone"]
      BY <3>1, <3>3
    <3> QED
      BY <2>7, <3>2, <3>3, Zenon DEF Tcp!Turn
  <2>8. ASSUME NEW p \in Procs, Tcp!Sides(p) PROVE TcpInv'
    BY <2>8 DEF Tcp!Sides, Tcp!ClientSends, Tcp!ClientEnds, Tcp!TargetSends, Tcp!TargetEnds, Tcp!mapping
  <2>9. CASE UNCHANGED Tcp!vars
    BY <2>9 DEF Tcp!vars, Tcp!mapping
  <2> QED
    BY <2>1, <2>2, <2>3, <2>4, <2>5, <2>6, <2>7, <2>8, <2>9 DEF Tcp!Next, Tcp!Mapping
<1>3. TcpInv => Tcp!StopEndsMapping /\ Tcp!RelaysHaveClients
  BY DEF TcpInv, Tcp!StopEndsMapping
<1> QED
  BY <1>1, <1>2, <1>3, PTL DEF Tcp!Spec

-----------------------------------------------------------------------------
\* The same as one property of the forwarder, whatever its targets do.
THEOREM TcpMappingStops == Tcp!TcpNatAssumption => (Tcp!Spec => []Tcp!MappingStops)
<1> SUFFICES ASSUME Tcp!TcpNatAssumption PROVE Tcp!Spec => []Tcp!MappingStops
  OBVIOUS
<1>1. CASE ~Slow
  <2>1. Tcp!StopEndsMapping /\ Tcp!RelaysHaveClients => Tcp!MappingStops
    BY DEF Tcp!MappingStops
  <2> QED
    BY <1>1, <2>1, TcpMapping, PTL
<1>2. CASE Slow
  <2>1. Tcp!MappingStops
    BY <1>2 DEF Tcp!MappingStops
  <2> QED
    BY <2>1, PTL
<1> QED
  BY <1>1, <1>2

\* Consecutive bytes of a stream.
LEMMA BytesAreSeq ==
  ASSUME NEW side, NEW k \in Nat, NEW n \in Nat
  PROVE  /\ Tcp!Bytes(side, k, n) \in Seq({side} \X Nat) /\ Len(Tcp!Bytes(side, k, n)) = n
         /\ \A i \in 1 .. n : Tcp!Bytes(side, k, n)[i] = <<side, k + i>>
<1>1. \A i \in 1 .. n : <<side, k + i>> \in {side} \X Nat
  OBVIOUS
<1>2. Tcp!Bytes(side, k, n) \in [1 .. n -> {side} \X Nat]
  BY <1>1 DEF Tcp!Bytes
<1>3. Tcp!Bytes(side, k, n) \in Seq({side} \X Nat)
  BY <1>2
<1>4. DOMAIN Tcp!Bytes(side, k, n) = 1 .. n
  BY DEF Tcp!Bytes
<1>5. Len(Tcp!Bytes(side, k, n)) = n
  BY <1>3, <1>4, LenProperties
<1>6. \A i \in 1 .. n : Tcp!Bytes(side, k, n)[i] = <<side, k + i>>
  BY DEF Tcp!Bytes
<1> QED
  BY <1>3, <1>5, <1>6

\* Consecutive stretches of a stream make one.
LEMMA BytesJoin ==
  ASSUME NEW side, NEW m \in Nat, NEW n \in Nat
  PROVE  Tcp!Bytes(side, 0, m) \o Tcp!Bytes(side, m, n) = Tcp!Bytes(side, 0, m + n)
<1> DEFINE a == Tcp!Bytes(side, 0, m)
           b == Tcp!Bytes(side, m, n)
           c == Tcp!Bytes(side, 0, m + n)
           T == {side} \X Nat
<1>z. 0 \in Nat
  OBVIOUS
<1>a. a \in Seq(T) /\ Len(a) = m /\ \A i \in 1 .. m : a[i] = <<side, 0 + i>>
  BY <1>z, BytesAreSeq, Zenon
<1>b. b \in Seq(T) /\ Len(b) = n /\ \A i \in 1 .. n : b[i] = <<side, m + i>>
  BY BytesAreSeq, Zenon
<1>c. c \in Seq(T) /\ Len(c) = m + n /\ \A i \in 1 .. m + n : c[i] = <<side, 0 + i>>
  <2>1. m + n \in Nat
    OBVIOUS
  <2> QED
    BY <2>1, <1>z, BytesAreSeq, Zenon
<1> HIDE DEF a, b, c, T
<1>1. /\ a \in Seq(T) /\ Len(a) = m /\ \A i \in 1 .. m : a[i] = <<side, 0 + i>>
      /\ b \in Seq(T) /\ Len(b) = n /\ \A i \in 1 .. n : b[i] = <<side, m + i>>
      /\ c \in Seq(T) /\ Len(c) = m + n /\ \A i \in 1 .. m + n : c[i] = <<side, 0 + i>>
  BY <1>a, <1>b, <1>c
<1>2. /\ a \o b \in Seq(T) /\ Len(a \o b) = m + n
      /\ \A i \in 1 .. m + n : (a \o b)[i] = IF i <= m THEN a[i] ELSE b[i - m]
  BY <1>1, ConcatProperties
<1> DEFINE d == a \o b
<1> HIDE DEF d
<1>d. d \in Seq(T) /\ Len(d) = m + n /\ \A i \in 1 .. m + n : d[i] = IF i <= m THEN a[i] ELSE b[i - m]
  BY <1>2 DEF d
<1>3. ASSUME NEW i \in 1 .. m + n PROVE d[i] = c[i]
  <2>0. d[i] = (IF i <= m THEN a[i] ELSE b[i - m]) /\ c[i] = <<side, i>>
    BY <1>d, <1>c
  <2>1. CASE i <= m
    <3>1. a[i] = <<side, i>>
      BY <2>1, <1>a
    <3> QED
      BY <3>1, <2>0, <2>1
  <2>2. CASE i > m
    <3>1. i - m \in 1 .. n /\ m + (i - m) = i
      BY <2>2
    <3>2. b[i - m] = <<side, m + (i - m)>>
      BY <3>1, <1>b
    <3> QED
      BY <3>1, <3>2, <2>0, <2>2
  <2> QED
    BY <2>1, <2>2
<1>4. d = c
  BY <1>1, <1>d, <1>3, SeqEqual
<1> QED
  BY <1>4 DEF a, b, c, d

\* What the relay carries.
Carried == {"in", "out"} \X Nat

\* The types of what the relays keep.
TcpTypes ==
  /\ role \in [Procs -> {"none", "wait", "accept", "connect", "relay", "gone"}]
  /\ calls \in Nat /\ connections \in Nat /\ calls <= connections /\ connections <= MaxClients
  /\ inSent \in [Procs -> Nat] /\ inRead \in [Procs -> Nat] /\ inEnd \in [Procs -> BOOLEAN]
  /\ outSent \in [Procs -> Nat] /\ outRead \in [Procs -> Nat] /\ outEnd \in [Procs -> BOOLEAN]
  /\ toOut \in [Procs -> Seq(Carried)] /\ toIn \in [Procs -> Seq(Carried)]

\* No more is written than was read, nor read than was sent.
Bounded(p) == /\ inRead[p] <= inSent[p] /\ inSent[p] <= MaxBytes
              /\ outRead[p] <= outSent[p] /\ outSent[p] <= MaxBytes
              /\ Len(toOut[p]) <= inRead[p] /\ Len(toIn[p]) <= outRead[p]

\* The client has what was read for it, or, where the connection has ended,
\* the beginning of that.
BackSoFar(p) ==
  /\ role[p] # "gone" => toIn[p] = Tcp!Bytes("out", 0, outRead[p])
  /\ \E n \in Nat : toIn[p] = Tcp!Bytes("out", 0, n)

\* Where the sides speak in turns, one of them at most has sent what is not
\* read, neither when one has ended, and what is read has been passed on.
InTurn(p) ==
  /\ inSent[p] = inRead[p] \/ outSent[p] = outRead[p]
  /\ inEnd[p] \/ outEnd[p] => inSent[p] = inRead[p] /\ outSent[p] = outRead[p] /\ ~(inEnd[p] /\ outEnd[p])
  /\ role[p] \notin {"relay", "gone"} =>
       inSent[p] = inRead[p] /\ outSent[p] = outRead[p] /\ ~inEnd[p] /\ ~outEnd[p]
  /\ toOut[p] = Tcp!Bytes("in", 0, inRead[p])
  /\ toIn[p] = Tcp!Bytes("out", 0, outRead[p])

\* The front of a buffer that begins with bytes of a stream.
LEMMA BytesTaken ==
  ASSUME NEW s, NEW side, NEW k \in Nat, NEW n \in Nat, \A i \in 1 .. n : s[i] = <<side, k + i>>
  PROVE  SubSeq(s, 1, n) = Tcp!Bytes(side, k, n)
<1> DEFINE T == {side} \X Nat
           b == Tcp!Bytes(side, k, n)
           r == SubSeq(s, 1, n)
<1>2. \A i \in 1 .. n : s[i] \in T
  OBVIOUS
<1>6. b \in Seq(T) /\ Len(b) = n /\ \A i \in 1 .. n : b[i] = <<side, k + i>>
  BY BytesAreSeq, Zenon
<1> HIDE DEF T, b
<1>4. r \in Seq(T) /\ Len(r) = n /\ \A i \in 1 .. n - 1 + 1 : r[i] = s[1 + i - 1]
  BY <1>2, SubSeqProperties
<1> HIDE DEF r
<1>5. \A i \in 1 .. n : r[i] = s[i]
  <2>1. \A i \in 1 .. n : i \in 1 .. n - 1 + 1 /\ 1 + i - 1 = i
    OBVIOUS
  <2> QED
    BY <2>1, <1>4
<1>7. r = b
  BY <1>4, <1>5, <1>6, SeqEqual
<1> QED
  BY <1>7 DEF r, b

\* What one turn of the relay reads.
LEMMA Lengths ==
  ASSUME Tcp!TcpNatAssumption, TcpTypes, NEW p \in Procs, Bounded(p)
  PROVE  /\ Tcp!Len1(p) \in -1 .. BUFL /\ Tcp!Len2(p) \in -1 .. BUFL
         /\ Tcp!Len1(p) > 0 => inRead[p] + Tcp!Len1(p) <= inSent[p]
         /\ Tcp!Len2(p) > 0 => outRead[p] + Tcp!Len2(p) <= outSent[p]
         /\ Tcp!Len1(p) > 0 <=> inSent[p] # inRead[p]
         /\ Tcp!Len2(p) > 0 <=> outSent[p] # outRead[p]
         /\ Tcp!Len1(p) = 0 => inEnd[p] /\ inSent[p] = inRead[p]
         /\ Tcp!Len2(p) = 0 => outEnd[p] /\ outSent[p] = outRead[p]
<1>1. /\ BUFL \in Nat /\ BUFL > 0 /\ inSent[p] \in Nat /\ inRead[p] \in Nat
      /\ outSent[p] \in Nat /\ outRead[p] \in Nat
      /\ inRead[p] <= inSent[p] /\ outRead[p] <= outSent[p]
  BY DEF TcpTypes, Tcp!TcpNatAssumption, Bounded
<1>2. /\ Tcp!Len1(p) \in -1 .. BUFL
      /\ Tcp!Len1(p) > 0 => inRead[p] + Tcp!Len1(p) <= inSent[p]
      /\ Tcp!Len1(p) > 0 <=> inSent[p] # inRead[p]
      /\ Tcp!Len1(p) = 0 => inEnd[p] /\ inSent[p] = inRead[p]
  BY <1>1 DEF Tcp!Len1, Tcp!Least
<1>3. /\ Tcp!Len2(p) \in -1 .. BUFL
      /\ Tcp!Len2(p) > 0 => outRead[p] + Tcp!Len2(p) <= outSent[p]
      /\ Tcp!Len2(p) > 0 <=> outSent[p] # outRead[p]
      /\ Tcp!Len2(p) = 0 => outEnd[p] /\ outSent[p] = outRead[p]
  BY <1>1 DEF Tcp!Len2, Tcp!Least
<1> QED
  BY <1>2, <1>3

\* What it writes back to the client: the target's bytes, unless the client
\* has ended.
LEMMA BackIs ==
  ASSUME Tcp!TcpNatAssumption, TcpTypes, NEW p \in Procs, Bounded(p)
  PROVE  Tcp!In(p) = IF Tcp!Len2(p) > 0 /\ Tcp!Len1(p) # 0
                     THEN Tcp!Bytes("out", outRead[p], Tcp!Len2(p)) ELSE <<>>
<1>1. Tcp!Len2(p) \in -1 .. BUFL /\ BUFL \in Nat /\ outRead[p] \in Nat
  BY Lengths DEF TcpTypes, Tcp!TcpNatAssumption
<1>2. ASSUME Tcp!Len2(p) > 0
      PROVE  SubSeq(Tcp!Buff(p), 1, Tcp!Len2(p)) = Tcp!Bytes("out", outRead[p], Tcp!Len2(p))
  <2> DEFINE s == Tcp!Buff(p)
             n == Tcp!Len2(p)
             k == outRead[p]
  <2>1. n \in Nat /\ k \in Nat /\ \A i \in 1 .. n : s[i] = <<"out", k + i>>
    BY <1>1, <1>2 DEF Tcp!Buff
  <2> HIDE DEF s, n, k
  <2>2. SubSeq(s, 1, n) = Tcp!Bytes("out", k, n)
    BY <2>1, BytesTaken, Zenon
  <2> QED
    BY <2>2 DEF s, n, k
<1> QED
  BY <1>2, Zenon DEF Tcp!In

\* What it writes to the target when only the client has sent.
LEMMA OnwardIs ==
  ASSUME Tcp!TcpNatAssumption, TcpTypes, NEW p \in Procs, Bounded(p), ~Full,
         Tcp!Len1(p) > 0, Tcp!Len2(p) = -1
  PROVE  Tcp!Out(p) = {Tcp!Bytes("in", inRead[p], Tcp!Len1(p))}
<1>1. Tcp!Len1(p) \in 1 .. BUFL /\ BUFL \in Nat /\ inRead[p] \in Nat
  <2>1. Tcp!Len1(p) \in -1 .. BUFL
    BY Lengths
  <2> QED
    BY <2>1 DEF TcpTypes, Tcp!TcpNatAssumption
<1>2. SubSeq(Tcp!Buff(p), 1, Tcp!Len1(p)) = Tcp!Bytes("in", inRead[p], Tcp!Len1(p))
  <2> DEFINE s == Tcp!Buff(p)
             n == Tcp!Len1(p)
             k == inRead[p]
  <2>1. n \in Nat /\ k \in Nat /\ \A i \in 1 .. n : s[i] = <<"in", k + i>>
    BY <1>1 DEF Tcp!Buff
  <2> HIDE DEF s, n, k
  <2>2. SubSeq(s, 1, n) = Tcp!Bytes("in", k, n)
    BY <2>1, BytesTaken, Zenon
  <2> QED
    BY <2>2 DEF s, n, k
<1>3. Tcp!Out(p) = {SubSeq(Tcp!Buff(p), 1, n) : n \in {Tcp!Len1(p)}}
  <2>1. Tcp!Len2(p) # 0
    OBVIOUS
  <2> QED
    BY <2>1, Zenon DEF Tcp!Out
<1> QED
  BY <1>2, <1>3, Zenon

\* Never more is written than was read.
LEMMA Written ==
  ASSUME Tcp!TcpNatAssumption, TcpTypes, NEW p \in Procs, Bounded(p), NEW out \in Tcp!Out(p)
  PROVE  /\ out \in Seq(Carried)
         /\ Len(out) <= IF Tcp!Len1(p) > 0 THEN Tcp!Len1(p) ELSE 0
<1>1. Tcp!Len1(p) \in -1 .. BUFL /\ Tcp!Len2(p) \in -1 .. BUFL /\ BUFL \in Nat
      /\ inRead[p] \in Nat /\ outRead[p] \in Nat
  BY Lengths DEF TcpTypes, Tcp!TcpNatAssumption
<1>2. ASSUME NEW i \in 1 .. BUFL PROVE Tcp!Buff(p)[i] \in Carried
  <2>1. Tcp!Buff(p)[i] = IF i <= Tcp!Len2(p) THEN <<"out", outRead[p] + i>> ELSE <<"in", inRead[p] + i>>
    BY DEF Tcp!Buff
  <2>2. outRead[p] + i \in Nat /\ inRead[p] + i \in Nat
    BY <1>1
  <2> QED
    BY <2>1, <2>2 DEF Carried
<1>3. CASE Tcp!Len1(p) > 0 /\ Tcp!Len2(p) # 0
  <2>1. PICK n \in 0 .. Tcp!Len1(p) : out = SubSeq(Tcp!Buff(p), 1, n)
    BY <1>1, <1>3 DEF Tcp!Out
  <2> DEFINE s == Tcp!Buff(p)
  <2>2. n \in Nat /\ n <= Tcp!Len1(p) /\ \A i \in 1 .. n : s[i] \in Carried
    BY <1>1, <1>2
  <2> HIDE DEF s
  <2>3. SubSeq(s, 1, n) \in Seq(Carried) /\ Len(SubSeq(s, 1, n)) = IF 1 <= n THEN n - 1 + 1 ELSE 0
    BY <2>2, SubSeqProperties
  <2>4. (IF 1 <= n THEN n - 1 + 1 ELSE 0) = n
    BY <2>2
  <2> QED
    BY <2>1, <2>2, <2>3, <2>4, <1>3 DEF s
<1>4. CASE ~(Tcp!Len1(p) > 0 /\ Tcp!Len2(p) # 0)
  <2>1. out = <<>>
    BY <1>4, Zenon DEF Tcp!Out
  <2> QED
    BY <2>1, <1>1
<1> QED
  BY <1>3, <1>4

\* The inductive invariants of the TCP forwarder: of any two sides, and of
\* two that speak in turns.
TcpStreams == TcpTypes /\ \A p \in Procs : Bounded(p) /\ BackSoFar(p)
TcpInTurns == TcpTypes /\ \A p \in Procs : Bounded(p) /\ InTurn(p)

\* A turn of one relay.
LEMMA TurnDoes ==
  ASSUME Tcp!TcpNatAssumption, TcpTypes, NEW p \in Procs, Bounded(p), Tcp!Turn(p)
  PROVE  /\ role[p] = "relay" /\ TcpTypes' /\ Bounded(p)'
         /\ inRead'[p] = inRead[p] + (IF Tcp!Len1(p) > 0 THEN Tcp!Len1(p) ELSE 0)
         /\ outRead'[p] = outRead[p] + (IF Tcp!Len2(p) > 0 THEN Tcp!Len2(p) ELSE 0)
         /\ \E out \in Tcp!Out(p) : toOut'[p] = toOut[p] \o out
         /\ toIn'[p] = toIn[p] \o Tcp!In(p)
         /\ inSent' = inSent /\ outSent' = outSent /\ inEnd' = inEnd /\ outEnd' = outEnd
         /\ (Tcp!Len1(p) = 0 \/ Tcp!Len2(p) = 0) <=> role'[p] = "gone"
         /\ role'[p] \in {"relay", "gone"}
         /\ \A q \in Procs \ {p} : /\ role'[q] = role[q] /\ inRead'[q] = inRead[q]
                                   /\ outRead'[q] = outRead[q]
                                   /\ toOut'[q] = toOut[q] /\ toIn'[q] = toIn[q]
<1> DEFINE m == IF Tcp!Len1(p) > 0 THEN Tcp!Len1(p) ELSE 0
           n == IF Tcp!Len2(p) > 0 THEN Tcp!Len2(p) ELSE 0
<1>1. /\ m \in Nat /\ n \in Nat /\ inRead[p] + m <= inSent[p] /\ outRead[p] + n <= outSent[p]
  <2>1. /\ Tcp!Len1(p) \in -1 .. BUFL /\ Tcp!Len2(p) \in -1 .. BUFL
        /\ Tcp!Len1(p) > 0 => inRead[p] + Tcp!Len1(p) <= inSent[p]
        /\ Tcp!Len2(p) > 0 => outRead[p] + Tcp!Len2(p) <= outSent[p]
    BY Lengths
  <2>2. /\ BUFL \in Nat /\ inRead[p] \in Nat /\ outRead[p] \in Nat
        /\ inRead[p] <= inSent[p] /\ outRead[p] <= outSent[p]
    BY DEF TcpTypes, Tcp!TcpNatAssumption, Bounded
  <2> QED
    BY <2>1, <2>2
<1>2. /\ Tcp!In(p) \in Seq(Carried) /\ Len(Tcp!In(p)) <= n
  <2>1. CASE Tcp!Len2(p) > 0 /\ Tcp!Len1(p) # 0
    <3> DEFINE k == outRead[p]
    <3>1. k \in Nat /\ n \in Nat /\ n = Tcp!Len2(p)
      BY <1>1, <2>1 DEF TcpTypes
    <3>2. Tcp!In(p) = Tcp!Bytes("out", k, n)
      BY <2>1, <3>1, BackIs
    <3> HIDE DEF n, k
    <3>3. Tcp!Bytes("out", k, n) \in Seq({"out"} \X Nat) /\ Len(Tcp!Bytes("out", k, n)) = n
      BY <3>1, BytesAreSeq, Zenon
    <3>4. Tcp!Bytes("out", k, n) \in Seq(Carried)
      <4>1. {"out"} \X Nat \subseteq Carried
        BY DEF Carried
      <4> QED
        BY <3>3, <4>1, SeqMonotonic, Zenon
    <3> QED
      BY <3>1, <3>2, <3>3, <3>4
  <2>2. CASE ~(Tcp!Len2(p) > 0 /\ Tcp!Len1(p) # 0)
    <3>1. Tcp!In(p) = <<>>
      BY <2>2, BackIs, Zenon
    <3> QED
      BY <3>1, <1>1
  <2> QED
    BY <2>1, <2>2
<1>3. PICK out \in Tcp!Out(p) : toOut' = [toOut EXCEPT ![p] = toOut[p] \o out]
  BY Zenon DEF Tcp!Turn
<1>4. out \in Seq(Carried) /\ Len(out) <= m
  BY Written, Zenon
<1>5. /\ role[p] = "relay"
      /\ inRead' = [inRead EXCEPT ![p] = inRead[p] + m] /\ outRead' = [outRead EXCEPT ![p] = outRead[p] + n]
      /\ toIn' = [toIn EXCEPT ![p] = toIn[p] \o Tcp!In(p)]
      /\ calls' = calls /\ connections' = connections
      /\ inSent' = inSent /\ outSent' = outSent /\ inEnd' = inEnd /\ outEnd' = outEnd
  BY Zenon DEF Tcp!Turn, Tcp!sides
<1>6. role' = [role EXCEPT ![p] = IF Tcp!Len1(p) = 0 \/ Tcp!Len2(p) = 0 THEN "gone" ELSE "relay"]
  <2>1. CASE Tcp!Len1(p) = 0 \/ Tcp!Len2(p) = 0
    BY <2>1, Zenon DEF Tcp!Turn
  <2>2. CASE ~(Tcp!Len1(p) = 0 \/ Tcp!Len2(p) = 0)
    <3>1. role' = role
      BY <2>2, Zenon DEF Tcp!Turn
    <3> QED
      BY <2>2, <3>1, <1>5 DEF TcpTypes
  <2> QED
    BY <2>1, <2>2
<1> HIDE DEF m, n
<1>7. /\ inRead'[p] = inRead[p] + m /\ outRead'[p] = outRead[p] + n
      /\ toOut'[p] = toOut[p] \o out /\ toIn'[p] = toIn[p] \o Tcp!In(p)
      /\ role'[p] = IF Tcp!Len1(p) = 0 \/ Tcp!Len2(p) = 0 THEN "gone" ELSE "relay"
      /\ \A q \in Procs \ {p} : /\ role'[q] = role[q] /\ inRead'[q] = inRead[q]
                                /\ outRead'[q] = outRead[q]
                                /\ toOut'[q] = toOut[q] /\ toIn'[q] = toIn[q]
  BY <1>3, <1>5, <1>6 DEF TcpTypes
<1>8. /\ toOut[p] \o out \in Seq(Carried) /\ Len(toOut[p] \o out) = Len(toOut[p]) + Len(out)
      /\ toIn[p] \o Tcp!In(p) \in Seq(Carried) /\ Len(toIn[p] \o Tcp!In(p)) = Len(toIn[p]) + Len(Tcp!In(p))
  BY <1>2, <1>4 DEF TcpTypes
<1>9. TcpTypes'
  <2>1. role' \in [Procs -> {"none", "wait", "accept", "connect", "relay", "gone"}]
    BY <1>6 DEF TcpTypes
  <2>2. inRead' \in [Procs -> Nat] /\ outRead' \in [Procs -> Nat]
    BY <1>1, <1>5 DEF TcpTypes
  <2>3. toOut' \in [Procs -> Seq(Carried)] /\ toIn' \in [Procs -> Seq(Carried)]
    BY <1>3, <1>5, <1>8 DEF TcpTypes
  <2> QED
    BY <2>1, <2>2, <2>3, <1>5 DEF TcpTypes
<1>10. Bounded(p)'
  <2>1. /\ Len(toOut[p]) \in Nat /\ Len(toIn[p]) \in Nat /\ Len(out) \in Nat /\ Len(Tcp!In(p)) \in Nat
        /\ inRead[p] \in Nat /\ outRead[p] \in Nat
    BY <1>2, <1>4 DEF TcpTypes
  <2>2. /\ inRead'[p] = inRead[p] + m /\ outRead'[p] = outRead[p] + n
        /\ Len(toOut'[p]) = Len(toOut[p]) + Len(out) /\ Len(toIn'[p]) = Len(toIn[p]) + Len(Tcp!In(p))
    BY <1>7, <1>8
  <2>3. /\ inSent'[p] = inSent[p] /\ outSent'[p] = outSent[p]
        /\ inSent[p] <= MaxBytes /\ outSent[p] <= MaxBytes
        /\ Len(toOut[p]) <= inRead[p] /\ Len(toIn[p]) <= outRead[p]
    BY <1>5 DEF Bounded
  <2>4. Len(toOut'[p]) <= inRead'[p] /\ Len(toIn'[p]) <= outRead'[p]
    <3> DEFINE a == Len(toOut[p])
               b == Len(toIn[p])
               x == Len(out)
               y == Len(Tcp!In(p))
    <3>1. /\ a \in Nat /\ b \in Nat /\ x \in Nat /\ y \in Nat /\ m \in Nat /\ n \in Nat
          /\ inRead[p] \in Nat /\ outRead[p] \in Nat
          /\ a <= inRead[p] /\ b <= outRead[p] /\ x <= m /\ y <= n
      BY <2>1, <2>3, <1>1, <1>2, <1>4, Zenon
    <3>2. /\ Len(toOut'[p]) = a + x /\ Len(toIn'[p]) = b + y
          /\ inRead'[p] = inRead[p] + m /\ outRead'[p] = outRead[p] + n
      BY <2>2, Zenon
    <3> HIDE DEF a, b, x, y
    <3>3. a + x <= inRead[p] + m /\ b + y <= outRead[p] + n
      BY <3>1
    <3> QED
      BY <3>2, <3>3, Zenon
  <2>5. /\ inRead'[p] <= inSent'[p] /\ outRead'[p] <= outSent'[p]
        /\ inSent'[p] <= MaxBytes /\ outSent'[p] <= MaxBytes
    BY <2>2, <2>3, <1>1
  <2> QED
    BY <2>4, <2>5, Zenon DEF Bounded
<1> QED
  BY <1>5, <1>7, <1>9, <1>10 DEF m, n

\* Every other step leaves alone what was read and written, and revives nothing.
LEMMA OthersDo ==
  ASSUME Tcp!TcpNatAssumption, TcpTypes, \A p \in Procs : Bounded(p),
         \/ Tcp!Call \/ Tcp!Stop \/ UNCHANGED Tcp!vars
         \/ \E p \in Procs : Tcp!Mapping(p) \/ Tcp!Sides(p)
  PROVE  /\ TcpTypes' /\ (\A q \in Procs : Bounded(q)')
         /\ inRead' = inRead /\ outRead' = outRead /\ toOut' = toOut /\ toIn' = toIn
         /\ \A q \in Procs : role[q] \in {"relay", "gone"} => role'[q] \in {"relay", "gone"}
         /\ \A q \in Procs : role[q] = "gone" => role'[q] = "gone"
<1>0. MaxClients \in Nat /\ MaxBytes \in Nat /\ Root \in Procs
  BY DEF Tcp!TcpNatAssumption
<1>1. ASSUME inRead' = inRead, outRead' = outRead, toOut' = toOut, toIn' = toIn, inSent' = inSent, outSent' = outSent
      PROVE  \A q \in Procs : Bounded(q)'
  BY <1>1 DEF Bounded
<1>2. CASE Tcp!Call
  <2>1. /\ connections < MaxClients /\ connections' = connections + 1 /\ calls' = calls + 1 /\ role' = role
        /\ inSent' = inSent /\ inEnd' = inEnd /\ outSent' = outSent /\ outEnd' = outEnd
        /\ inRead' = inRead /\ outRead' = outRead /\ toOut' = toOut /\ toIn' = toIn
    BY <1>2 DEF Tcp!Call, Tcp!sides, Tcp!copied
  <2> QED
    BY <2>1, <1>0, <1>1 DEF TcpTypes
<1>3. CASE Tcp!Stop \/ UNCHANGED Tcp!vars
  <2>1. /\ connections' = connections /\ calls' = calls
        /\ role' = [role EXCEPT ![Root] = "gone"] \/ role' = role
        /\ inSent' = inSent /\ inEnd' = inEnd /\ outSent' = outSent /\ outEnd' = outEnd
        /\ inRead' = inRead /\ outRead' = outRead /\ toOut' = toOut /\ toIn' = toIn
    BY <1>3 DEF Tcp!Stop, Tcp!sides, Tcp!copied, Tcp!vars, Tcp!mapping
  <2> QED
    BY <2>1, <1>1 DEF TcpTypes
<1>4. ASSUME NEW p \in Procs, Tcp!Mapping(p)
      PROVE  /\ TcpTypes' /\ (\A q \in Procs : Bounded(q)')
             /\ inRead' = inRead /\ outRead' = outRead /\ toOut' = toOut /\ toIn' = toIn
             /\ \A q \in Procs : role[q] \in {"relay", "gone"} => role'[q] = role[q]
  <2>1. /\ inSent' = inSent /\ inEnd' = inEnd /\ outSent' = outSent /\ connections' = connections
        /\ inRead' = inRead /\ outRead' = outRead /\ toOut' = toOut /\ toIn' = toIn
    BY <1>4 DEF Tcp!Mapping, Tcp!Select, Tcp!AcceptFork, Tcp!Connected, Tcp!ConnectFails, Tcp!sides, Tcp!copied
  <2>2. calls' \in Nat /\ calls' <= connections'
    BY <1>4, <2>1 DEF TcpTypes, Tcp!Mapping, Tcp!Select, Tcp!AcceptFork, Tcp!Connected, Tcp!ConnectFails
  <2>3. outEnd' \in [Procs -> BOOLEAN]
    BY <1>4 DEF TcpTypes, Tcp!Mapping, Tcp!Select, Tcp!AcceptFork, Tcp!Connected, Tcp!ConnectFails, Tcp!sides
  <2>4. /\ role' \in [Procs -> {"none", "wait", "accept", "connect", "relay", "gone"}]
        /\ \A q \in Procs : role[q] \in {"relay", "gone"} => role'[q] = role[q]
    <3>1. CASE Tcp!AcceptFork(p)
      BY <3>1 DEF TcpTypes, Tcp!AcceptFork
    <3>2. CASE Tcp!Select(p) \/ Tcp!Connected(p) \/ Tcp!ConnectFails(p)
      BY <3>2 DEF TcpTypes, Tcp!Select, Tcp!Connected, Tcp!ConnectFails
    <3> QED
      BY <1>4, <3>1, <3>2 DEF Tcp!Mapping
  <2>5. TcpTypes'
    BY <2>1, <2>2, <2>3, <2>4 DEF TcpTypes
  <2> QED
    BY <2>1, <2>4, <2>5, <1>1
<1>5. ASSUME NEW p \in Procs, Tcp!Sides(p)
      PROVE  /\ TcpTypes' /\ (\A q \in Procs : Bounded(q)')
             /\ inRead' = inRead /\ outRead' = outRead /\ toOut' = toOut /\ toIn' = toIn
             /\ role' = role
  <2>1. /\ role' = role /\ calls' = calls /\ connections' = connections
        /\ inRead' = inRead /\ outRead' = outRead /\ toOut' = toOut /\ toIn' = toIn
    BY <1>5 DEF Tcp!Sides, Tcp!ClientSends, Tcp!ClientEnds, Tcp!TargetSends, Tcp!TargetEnds, Tcp!mapping, Tcp!copied
  <2>2. CASE Tcp!ClientSends(p)
    <3>1. PICK n \in inSent[p] + 1 .. MaxBytes : inSent' = [inSent EXCEPT ![p] = n]
      BY <2>2 DEF Tcp!ClientSends
    <3>2. n \in Nat /\ n <= MaxBytes /\ inSent[p] <= n /\ inSent[p] \in Nat
      BY <1>0 DEF TcpTypes
    <3>3. inEnd' = inEnd /\ outSent' = outSent /\ outEnd' = outEnd
      BY <2>2 DEF Tcp!ClientSends
    <3>4. TcpTypes'
      BY <2>1, <3>1, <3>2, <3>3 DEF TcpTypes
    <3>5. ASSUME NEW q \in Procs PROVE Bounded(q)'
      BY <2>1, <3>1, <3>2, <3>3, <1>0 DEF TcpTypes, Bounded
    <3> QED
      BY <2>1, <3>4, <3>5
  <2>3. CASE Tcp!TargetSends(p)
    <3>1. PICK n \in outSent[p] + 1 .. MaxBytes : outSent' = [outSent EXCEPT ![p] = n]
      BY <2>3 DEF Tcp!TargetSends
    <3>2. n \in Nat /\ n <= MaxBytes /\ outSent[p] <= n /\ outSent[p] \in Nat
      BY <1>0 DEF TcpTypes
    <3>3. inEnd' = inEnd /\ inSent' = inSent /\ outEnd' = outEnd
      BY <2>3 DEF Tcp!TargetSends
    <3>4. TcpTypes'
      BY <2>1, <3>1, <3>2, <3>3 DEF TcpTypes
    <3>5. ASSUME NEW q \in Procs PROVE Bounded(q)'
      BY <2>1, <3>1, <3>2, <3>3, <1>0 DEF TcpTypes, Bounded
    <3> QED
      BY <2>1, <3>4, <3>5
  <2>4. CASE Tcp!ClientEnds(p) \/ Tcp!TargetEnds(p)
    <3>1. /\ inSent' = inSent /\ outSent' = outSent
          /\ inEnd' \in [Procs -> BOOLEAN] /\ outEnd' \in [Procs -> BOOLEAN]
      BY <2>4 DEF TcpTypes, Tcp!ClientEnds, Tcp!TargetEnds
    <3> QED
      BY <2>1, <3>1, <1>1 DEF TcpTypes
  <2> QED
    BY <1>5, <2>2, <2>3, <2>4 DEF Tcp!Sides
<1> QED
  BY <1>2, <1>3, <1>4, <1>5 DEF TcpTypes

\* A turn gives the client what it has read for it, or it is the last.
LEMMA TurnGivesBack ==
  ASSUME Tcp!TcpNatAssumption, TcpTypes, NEW p \in Procs, Bounded(p), BackSoFar(p), Tcp!Turn(p)
  PROVE  BackSoFar(p)'
<1>1. /\ role[p] = "relay" /\ outRead[p] \in Nat /\ toIn[p] \in Seq(Carried)
      /\ outRead'[p] = outRead[p] + (IF Tcp!Len2(p) > 0 THEN Tcp!Len2(p) ELSE 0)
      /\ toIn'[p] = toIn[p] \o Tcp!In(p)
      /\ (Tcp!Len1(p) = 0 \/ Tcp!Len2(p) = 0) <=> role'[p] = "gone"
  BY TurnDoes DEF TcpTypes
<1>2. toIn[p] = Tcp!Bytes("out", 0, outRead[p])
  BY <1>1 DEF BackSoFar
<1>3. Tcp!Len2(p) \in -1 .. BUFL /\ BUFL \in Nat
  BY Lengths DEF Tcp!TcpNatAssumption
<1>4. CASE Tcp!Len2(p) > 0 /\ Tcp!Len1(p) # 0
  <2> DEFINE m == outRead[p]
             n == Tcp!Len2(p)
  <2>1. Tcp!In(p) = Tcp!Bytes("out", m, n)
    BY <1>4, BackIs, Zenon
  <2>2. m \in Nat /\ n \in Nat /\ outRead'[p] = m + n
    BY <1>1, <1>3, <1>4
  <2>3. toIn'[p] = Tcp!Bytes("out", 0, m) \o Tcp!Bytes("out", m, n)
    BY <1>1, <1>2, <2>1
  <2> HIDE DEF m, n
  <2>4. Tcp!Bytes("out", 0, m) \o Tcp!Bytes("out", m, n) = Tcp!Bytes("out", 0, m + n)
    BY <2>2, BytesJoin, Zenon
  <2>5. m + n \in Nat /\ toIn'[p] = Tcp!Bytes("out", 0, m + n)
    BY <2>2, <2>3, <2>4
  <2> QED
    BY <2>2, <2>5, Zenon DEF BackSoFar
<1>5. CASE ~(Tcp!Len2(p) > 0 /\ Tcp!Len1(p) # 0)
  <2>1. Tcp!In(p) = <<>>
    BY <1>5, BackIs, Zenon
  <2>2. toIn'[p] = toIn[p]
    BY <1>1, <2>1
  <2>3. role'[p] # "gone" => outRead'[p] = outRead[p]
    BY <1>1, <1>3, <1>5
  <2> QED
    BY <1>1, <1>2, <2>2, <2>3, Zenon DEF BackSoFar
<1> QED
  BY <1>4, <1>5

\* Nothing has been sent or read at the start.
LEMMA TcpBegins ==
  ASSUME Tcp!TcpNatAssumption, Tcp!Init
  PROVE  TcpStreams /\ TcpInTurns
<1>1. TcpTypes
  BY DEF TcpTypes, Tcp!Init, Tcp!Zero, Tcp!Never, Tcp!TcpNatAssumption
<1>2. ASSUME NEW side PROVE Tcp!Bytes(side, 0, 0) = <<>>
  <2>1. 0 \in Nat
    OBVIOUS
  <2>2. Tcp!Bytes(side, 0, 0) \in Seq({side} \X Nat) /\ Len(Tcp!Bytes(side, 0, 0)) = 0
    BY <2>1, BytesAreSeq, Zenon
  <2> QED
    BY <2>2, EmptySeq
<1>3. ASSUME NEW p \in Procs
      PROVE  /\ role[p] \in {"wait", "none"}
             /\ toIn[p] = <<>> /\ toOut[p] = <<>> /\ outRead[p] = 0 /\ inRead[p] = 0
             /\ outSent[p] = 0 /\ inSent[p] = 0 /\ ~inEnd[p] /\ ~outEnd[p]
  BY DEF Tcp!Init, Tcp!Zero, Tcp!Never
<1>4. ASSUME NEW p \in Procs PROVE Bounded(p)
  BY <1>3 DEF Bounded, Tcp!TcpNatAssumption
<1>5. ASSUME NEW p \in Procs PROVE BackSoFar(p)
  <2>1. toIn[p] = Tcp!Bytes("out", 0, 0) /\ outRead[p] = 0 /\ 0 \in Nat
    BY <1>2, <1>3
  <2> QED
    BY <2>1, Zenon DEF BackSoFar
<1>6. ASSUME NEW p \in Procs PROVE InTurn(p)
  <2>1. toIn[p] = Tcp!Bytes("out", 0, 0) /\ toOut[p] = Tcp!Bytes("in", 0, 0)
    BY <1>2, <1>3
  <2> QED
    BY <2>1, <1>3, Zenon DEF InTurn
<1> QED
  BY <1>1, <1>4, <1>5, <1>6 DEF TcpStreams, TcpInTurns

\* A step is a turn of one relay, or it is one of the others.
LEMMA TcpSteps ==
  ASSUME [Tcp!Next]_(Tcp!vars)
  PROVE  \/ \E p \in Procs : Tcp!Turn(p)
         \/ \/ Tcp!Call \/ Tcp!Stop \/ UNCHANGED Tcp!vars
            \/ \E p \in Procs : Tcp!Mapping(p) \/ Tcp!Sides(p)
  BY DEF Tcp!Next

\* Whatever the sides do, and however full the target's socket is, the client
\* receives the target's bytes from the first on, in order and unchanged.
THEOREM TcpBackIsRight ==
  Tcp!TcpNatAssumption => (Tcp!Spec => [](Tcp!TypeOK /\ Tcp!BackIsRight))
<1> SUFFICES ASSUME Tcp!TcpNatAssumption
             PROVE  Tcp!Spec => [](Tcp!TypeOK /\ Tcp!BackIsRight)
  OBVIOUS
<1>1. Tcp!Init => TcpStreams
  BY TcpBegins
<1>2. TcpStreams /\ [Tcp!Next]_(Tcp!vars) => TcpStreams'
  <2> SUFFICES ASSUME TcpStreams, [Tcp!Next]_(Tcp!vars) PROVE TcpStreams'
    OBVIOUS
  <2>1. TcpTypes /\ \A p \in Procs : Bounded(p) /\ BackSoFar(p)
    BY DEF TcpStreams
  <2>2. ASSUME NEW p \in Procs, Tcp!Turn(p) PROVE TcpStreams'
    <3>1. TcpTypes' /\ Bounded(p)'
      BY <2>1, <2>2, TurnDoes
    <3>2. BackSoFar(p)'
      BY <2>1, <2>2, TurnGivesBack
    <3>3. /\ inSent' = inSent /\ outSent' = outSent
          /\ \A q \in Procs \ {p} : /\ role'[q] = role[q] /\ inRead'[q] = inRead[q]
                                    /\ outRead'[q] = outRead[q]
                                    /\ toOut'[q] = toOut[q] /\ toIn'[q] = toIn[q]
      BY <2>1, <2>2, TurnDoes
    <3>4. ASSUME NEW q \in Procs \ {p} PROVE Bounded(q)' /\ BackSoFar(q)'
      <4>1. Bounded(q) /\ BackSoFar(q)
        BY <2>1
      <4> QED
        BY <3>3, <4>1, Zenon DEF Bounded, BackSoFar
    <3> QED
      BY <3>1, <3>2, <3>4 DEF TcpStreams
  <2>3. ASSUME \/ Tcp!Call \/ Tcp!Stop \/ UNCHANGED Tcp!vars
               \/ \E p \in Procs : Tcp!Mapping(p) \/ Tcp!Sides(p)
        PROVE  TcpStreams'
    <3>1. /\ TcpTypes' /\ (\A q \in Procs : Bounded(q)')
          /\ outRead' = outRead /\ toIn' = toIn
          /\ \A q \in Procs : role[q] = "gone" => role'[q] = "gone"
      BY <2>1, <2>3, OthersDo
    <3>2. ASSUME NEW q \in Procs PROVE BackSoFar(q)'
      <4>1. BackSoFar(q)
        BY <2>1
      <4> QED
        BY <3>1, <4>1, Zenon DEF BackSoFar
    <3> QED
      BY <3>1, <3>2 DEF TcpStreams
  <2> QED
    BY <2>2, <2>3, TcpSteps
<1>3. TcpStreams => Tcp!TypeOK /\ Tcp!BackIsRight
  <2> SUFFICES ASSUME TcpStreams PROVE Tcp!TypeOK /\ Tcp!BackIsRight
    OBVIOUS
  <2>1. Tcp!TypeOK
    BY DEF TcpStreams, TcpTypes, Bounded, Tcp!TypeOK, Tcp!TcpNatAssumption
  <2>2. ASSUME NEW p \in Procs PROVE toIn[p] = Tcp!Bytes("out", 0, Len(toIn[p]))
    <3>1. PICK n \in Nat : toIn[p] = Tcp!Bytes("out", 0, n)
      BY DEF TcpStreams, BackSoFar
    <3>2. 0 \in Nat
      OBVIOUS
    <3>3. Len(Tcp!Bytes("out", 0, n)) = n
      BY <3>2, BytesAreSeq, Zenon
    <3> QED
      BY <3>1, <3>3
  <2> QED
    BY <2>1, <2>2 DEF Tcp!BackIsRight
<1> QED
  BY <1>1, <1>2, <1>3, PTL DEF Tcp!Spec

\* A turn passes on what one side has sent, and nothing when neither has.
LEMMA TurnInTurn ==
  ASSUME Tcp!TcpNatAssumption, ~Full, TcpTypes, NEW p \in Procs, Bounded(p), InTurn(p), Tcp!Turn(p)
  PROVE  InTurn(p)'
<1> DEFINE l1 == Tcp!Len1(p)
           l2 == Tcp!Len2(p)
<1>1. /\ role[p] = "relay" /\ outRead[p] \in Nat /\ inRead[p] \in Nat
      /\ toIn[p] \in Seq(Carried) /\ toOut[p] \in Seq(Carried)
      /\ inRead'[p] = inRead[p] + (IF l1 > 0 THEN l1 ELSE 0)
      /\ outRead'[p] = outRead[p] + (IF l2 > 0 THEN l2 ELSE 0)
      /\ toIn'[p] = toIn[p] \o Tcp!In(p)
      /\ role'[p] \in {"relay", "gone"}
      /\ inSent' = inSent /\ outSent' = outSent /\ inEnd' = inEnd /\ outEnd' = outEnd
  BY TurnDoes DEF TcpTypes
<1>2. PICK out \in Tcp!Out(p) : toOut'[p] = toOut[p] \o out
  BY TurnDoes
<1>3. /\ toOut[p] = Tcp!Bytes("in", 0, inRead[p]) /\ toIn[p] = Tcp!Bytes("out", 0, outRead[p])
  BY DEF InTurn
<1>4. /\ l1 \in -1 .. BUFL /\ l2 \in -1 .. BUFL /\ BUFL \in Nat
      /\ l1 > 0 => inRead[p] + l1 <= inSent[p]
      /\ l2 > 0 => outRead[p] + l2 <= outSent[p]
      /\ l1 > 0 <=> inSent[p] # inRead[p]
      /\ l2 > 0 <=> outSent[p] # outRead[p]
      /\ l1 = 0 => inEnd[p] /\ inSent[p] = inRead[p]
      /\ l2 = 0 => outEnd[p] /\ outSent[p] = outRead[p]
  BY Lengths DEF Tcp!TcpNatAssumption
<1>5. /\ inSent[p] = inRead[p] \/ outSent[p] = outRead[p]
      /\ inEnd[p] \/ outEnd[p] => inSent[p] = inRead[p] /\ outSent[p] = outRead[p] /\ ~(inEnd[p] /\ outEnd[p])
  BY DEF InTurn
<1>6. CASE l1 > 0
  <2>1. l2 = -1 /\ ~inEnd[p] /\ ~outEnd[p]
    BY <1>4, <1>5, <1>6
  <2>2. out = Tcp!Bytes("in", inRead[p], l1)
    BY <2>1, <1>6, OnwardIs
  <2>3. Tcp!In(p) = <<>>
    <3>1. ~(Tcp!Len2(p) > 0 /\ Tcp!Len1(p) # 0)
      BY <2>1
    <3> QED
      BY <3>1, BackIs, Zenon
  <2>4. inRead'[p] = inRead[p] + l1 /\ outRead'[p] = outRead[p] /\ outSent[p] = outRead[p]
    BY <1>1, <1>4, <1>6, <2>1
  <2>5. toIn'[p] = Tcp!Bytes("out", 0, outRead'[p])
    BY <1>1, <1>3, <2>3, <2>4
  <2>6. toOut'[p] = Tcp!Bytes("in", 0, inRead'[p])
    <3> DEFINE m == inRead[p]
    <3>1. m \in Nat /\ l1 \in Nat
      BY <1>1, <1>4, <1>6
    <3>2. toOut'[p] = Tcp!Bytes("in", 0, m) \o Tcp!Bytes("in", m, l1) /\ inRead'[p] = m + l1
      BY <1>2, <1>3, <2>2, <2>4
    <3> HIDE DEF m, l1
    <3>3. Tcp!Bytes("in", 0, m) \o Tcp!Bytes("in", m, l1) = Tcp!Bytes("in", 0, m + l1)
      BY <3>1, BytesJoin, Zenon
    <3> QED
      BY <3>2, <3>3
  <2> QED
    BY <1>1, <2>1, <2>4, <2>5, <2>6 DEF InTurn
<1>7. CASE l1 <= 0
  <2>1. inRead'[p] = inRead[p] /\ inSent[p] = inRead[p]
    BY <1>1, <1>4, <1>7
  <2>2. toOut'[p] = toOut[p]
    <3>1. ~(Tcp!Len1(p) > 0 /\ Tcp!Len2(p) # 0)
      BY <1>4, <1>7
    <3>2. out = <<>>
      BY <3>1, Zenon DEF Tcp!Out
    <3> QED
      BY <1>1, <1>2, <3>2
  <2>3. CASE l2 > 0
    <3>1. l1 # 0 /\ ~inEnd[p] /\ ~outEnd[p]
      BY <1>4, <1>5, <1>7, <2>3
    <3>2. Tcp!In(p) = Tcp!Bytes("out", outRead[p], l2)
      BY <2>3, <3>1, BackIs, Zenon
    <3>3. toIn'[p] = Tcp!Bytes("out", 0, outRead'[p])
      <4> DEFINE m == outRead[p]
      <4>1. m \in Nat /\ l2 \in Nat
        BY <1>1, <1>4, <2>3
      <4>2. toIn'[p] = Tcp!Bytes("out", 0, m) \o Tcp!Bytes("out", m, l2) /\ outRead'[p] = m + l2
        BY <1>1, <1>3, <2>3, <3>2
      <4> HIDE DEF m, l2
      <4>3. Tcp!Bytes("out", 0, m) \o Tcp!Bytes("out", m, l2) = Tcp!Bytes("out", 0, m + l2)
        BY <4>1, BytesJoin, Zenon
      <4> QED
        BY <4>2, <4>3
    <3> QED
      BY <1>1, <1>3, <2>1, <2>2, <3>1, <3>3 DEF InTurn
  <2>4. CASE l2 <= 0
    <3>1. Tcp!In(p) = <<>>
      <4>1. ~(Tcp!Len2(p) > 0 /\ Tcp!Len1(p) # 0)
        BY <1>4, <2>4
      <4> QED
        BY <4>1, BackIs, Zenon
    <3>2. toIn'[p] = toIn[p] /\ outRead'[p] = outRead[p] /\ outSent[p] = outRead[p]
      BY <1>1, <1>4, <2>4, <3>1
    <3> QED
      BY <1>1, <1>3, <1>5, <2>1, <2>2, <3>2 DEF InTurn
  <2> QED
    BY <1>4, <2>3, <2>4
<1> QED
  BY <1>4, <1>6, <1>7

\* A side sends or ends only when all else is read.
LEMMA OthersInTurn ==
  ASSUME Tcp!TcpNatAssumption, InTurns, TcpTypes, \A p \in Procs : Bounded(p) /\ InTurn(p),
         \/ Tcp!Call \/ Tcp!Stop \/ UNCHANGED Tcp!vars
         \/ \E p \in Procs : Tcp!Mapping(p) \/ Tcp!Sides(p),
         NEW q \in Procs
  PROVE  InTurn(q)'
<1>1. /\ inRead' = inRead /\ outRead' = outRead /\ toOut' = toOut /\ toIn' = toIn
      /\ role[q] \in {"relay", "gone"} => role'[q] \in {"relay", "gone"}
  BY OthersDo
<1>2. InTurn(q)
  OBVIOUS
<1>3. CASE inSent' = inSent /\ outSent' = outSent /\ inEnd' = inEnd /\ outEnd' = outEnd
  BY <1>1, <1>2, <1>3 DEF InTurn
<1>4. ASSUME NEW p \in Procs, Tcp!Mapping(p) PROVE InTurn(q)'
  <2>1. CASE Tcp!Connected(p)
    <3>1. /\ role[p] = "connect" /\ role' = [role EXCEPT ![p] = "relay"]
          /\ outEnd' = outEnd \/ outEnd' = [outEnd EXCEPT ![p] = TRUE]
          /\ inSent' = inSent /\ inEnd' = inEnd /\ outSent' = outSent
      BY <2>1 DEF Tcp!Connected
    <3>2. CASE q = p
      <4>1. /\ inSent[q] = inRead[q] /\ outSent[q] = outRead[q] /\ ~inEnd[q] /\ role'[q] = "relay"
        BY <1>2, <3>1, <3>2 DEF InTurn, TcpTypes
      <4> QED
        BY <1>1, <1>2, <3>1, <4>1, Zenon DEF InTurn
    <3>3. CASE q # p
      <4>1. outEnd'[q] = outEnd[q] /\ role'[q] = role[q]
        BY <3>1, <3>3 DEF TcpTypes
      <4> QED
        BY <1>1, <1>2, <3>1, <4>1, Zenon DEF InTurn
    <3> QED
      BY <3>2, <3>3
  <2>2. CASE Tcp!Select(p) \/ Tcp!AcceptFork(p) \/ Tcp!ConnectFails(p)
    BY <1>3, <2>2 DEF Tcp!Select, Tcp!AcceptFork, Tcp!ConnectFails, Tcp!sides
  <2> QED
    BY <1>4, <2>1, <2>2 DEF Tcp!Mapping
<1>5. ASSUME NEW p \in Procs, Tcp!Sides(p) PROVE InTurn(q)'
  <2>1. /\ role' = role /\ role[p] = "relay"
        /\ inSent[p] = inRead[p] /\ outSent[p] = outRead[p] /\ ~inEnd[p] /\ ~outEnd[p]
    BY <1>5 DEF Tcp!Sides, Tcp!ClientSends, Tcp!ClientEnds, Tcp!TargetSends, Tcp!TargetEnds, Tcp!mapping, Tcp!Quiet
  <2>2. \A x \in Procs \ {p} : inSent'[x] = inSent[x] /\ outSent'[x] = outSent[x]
                               /\ inEnd'[x] = inEnd[x] /\ outEnd'[x] = outEnd[x]
    BY <1>5 DEF TcpTypes, Tcp!Sides, Tcp!ClientSends, Tcp!ClientEnds, Tcp!TargetSends, Tcp!TargetEnds
  <2>3. CASE q # p
    <3>1. inSent'[q] = inSent[q] /\ outSent'[q] = outSent[q] /\ inEnd'[q] = inEnd[q] /\ outEnd'[q] = outEnd[q]
      BY <2>2, <2>3
    <3> QED
      BY <1>1, <1>2, <2>1, <3>1, Zenon DEF InTurn
  <2>4. CASE q = p
    <3>1. \/ inSent' = inSent /\ outSent' = outSent /\ inEnd' = inEnd /\ outEnd' = [outEnd EXCEPT ![p] = TRUE]
          \/ inSent' = inSent /\ outSent' = outSent /\ outEnd' = outEnd /\ inEnd' = [inEnd EXCEPT ![p] = TRUE]
          \/ inEnd' = inEnd /\ outEnd' = outEnd /\ outSent' = outSent
          \/ inEnd' = inEnd /\ outEnd' = outEnd /\ inSent' = inSent
      BY <1>5 DEF Tcp!Sides, Tcp!ClientSends, Tcp!ClientEnds, Tcp!TargetSends, Tcp!TargetEnds
    <3>2. role'[q] = "relay" /\ toOut'[q] = Tcp!Bytes("in", 0, inRead'[q]) /\ toIn'[q] = Tcp!Bytes("out", 0, outRead'[q])
      BY <1>1, <1>2, <2>1, <2>4, Zenon DEF InTurn
    <3>3. /\ inSent'[q] = inRead'[q] \/ outSent'[q] = outRead'[q]
          /\ inEnd'[q] \/ outEnd'[q] => inSent'[q] = inRead'[q] /\ outSent'[q] = outRead'[q] /\ ~(inEnd'[q] /\ outEnd'[q])
      BY <1>1, <2>1, <2>4, <3>1 DEF TcpTypes
    <3> QED
      BY <3>2, <3>3 DEF InTurn
  <2> QED
    BY <2>3, <2>4
<1> QED
  BY <1>3, <1>4, <1>5 DEF Tcp!Call, Tcp!Stop, Tcp!vars, Tcp!sides

\* Where the sides speak in turns and the target's socket is never full, each
\* side receives exactly the bytes of the other that were read.
THEOREM TcpRelayedRight ==
  Tcp!TcpNatAssumption /\ InTurns /\ ~Full => (Tcp!Spec => []Tcp!RelayedRight)
<1> SUFFICES ASSUME Tcp!TcpNatAssumption, InTurns, ~Full
             PROVE  Tcp!Spec => []Tcp!RelayedRight
  OBVIOUS
<1>1. Tcp!Init => TcpInTurns
  BY TcpBegins
<1>2. TcpInTurns /\ [Tcp!Next]_(Tcp!vars) => TcpInTurns'
  <2> SUFFICES ASSUME TcpInTurns, [Tcp!Next]_(Tcp!vars) PROVE TcpInTurns'
    OBVIOUS
  <2>1. TcpTypes /\ \A p \in Procs : Bounded(p) /\ InTurn(p)
    BY DEF TcpInTurns
  <2>2. ASSUME NEW p \in Procs, Tcp!Turn(p) PROVE TcpInTurns'
    <3>1. TcpTypes' /\ Bounded(p)'
      BY <2>1, <2>2, TurnDoes
    <3>2. InTurn(p)'
      BY <2>1, <2>2, TurnInTurn
    <3>3. /\ inSent' = inSent /\ outSent' = outSent /\ inEnd' = inEnd /\ outEnd' = outEnd
          /\ \A q \in Procs \ {p} : /\ role'[q] = role[q] /\ inRead'[q] = inRead[q]
                                    /\ outRead'[q] = outRead[q]
                                    /\ toOut'[q] = toOut[q] /\ toIn'[q] = toIn[q]
      BY <2>1, <2>2, TurnDoes
    <3>4. ASSUME NEW q \in Procs \ {p} PROVE Bounded(q)' /\ InTurn(q)'
      <4>1. Bounded(q) /\ InTurn(q)
        BY <2>1
      <4>2. /\ role'[q] = role[q] /\ inRead'[q] = inRead[q] /\ outRead'[q] = outRead[q]
            /\ toOut'[q] = toOut[q] /\ toIn'[q] = toIn[q]
        BY <3>3
      <4>3. Bounded(q)'
        BY <3>3, <4>1, <4>2, Zenon DEF Bounded
      <4>4. InTurn(q)'
        BY <3>3, <4>1, <4>2, Zenon DEF InTurn
      <4> QED
        BY <4>3, <4>4
    <3> QED
      BY <3>1, <3>2, <3>4 DEF TcpInTurns
  <2>3. ASSUME \/ Tcp!Call \/ Tcp!Stop \/ UNCHANGED Tcp!vars
               \/ \E p \in Procs : Tcp!Mapping(p) \/ Tcp!Sides(p)
        PROVE  TcpInTurns'
    <3>1. TcpTypes' /\ (\A q \in Procs : Bounded(q)')
      BY <2>1, <2>3, OthersDo
    <3>2. \A q \in Procs : InTurn(q)'
      BY <2>1, <2>3, OthersInTurn
    <3> QED
      BY <3>1, <3>2 DEF TcpInTurns
  <2> QED
    BY <2>2, <2>3, TcpSteps
<1>3. TcpInTurns => Tcp!RelayedRight
  BY DEF TcpInTurns, InTurn, Tcp!RelayedRight
<1> QED
  BY <1>1, <1>2, <1>3, PTL DEF Tcp!Spec

\* Together: what reaches either side through a relay, on whichever condition.
THEOREM TcpBytesAreRight == Tcp!TcpNatAssumption => (Tcp!Spec => []Tcp!BytesAreRight)
<1> SUFFICES ASSUME Tcp!TcpNatAssumption PROVE Tcp!Spec => []Tcp!BytesAreRight
  OBVIOUS
<1>1. CASE InTurns /\ ~Full
  <2>1. Tcp!TypeOK /\ Tcp!BackIsRight /\ Tcp!RelayedRight => Tcp!BytesAreRight
    BY DEF Tcp!BytesAreRight
  <2> QED
    BY <1>1, <2>1, TcpBackIsRight, TcpRelayedRight, PTL
<1>2. CASE ~(InTurns /\ ~Full)
  <2>1. Tcp!TypeOK /\ Tcp!BackIsRight => Tcp!BytesAreRight
    BY <1>2 DEF Tcp!BytesAreRight
  <2> QED
    BY <2>1, TcpBackIsRight, PTL
<1> QED
  BY <1>1, <1>2
-----------------------------------------------------------------------------
(* W1002-test6-out: the configuration of the forwarders *)

\* Digits stand for a number.
LEMMA NumberIsNat ==
  ASSUME Ports!PortsAssumption, NEW s \in Seq(DOMAIN Digits)
  PROVE  Ports!Number(s) \in Nat
<1> DEFINE L == Len(s)
           val(n) == Digits[s[n]]
<1>1. L \in Nat /\ (\A n \in 1 .. L : val(n) \in Nat) /\ Base \in Nat
  BY DEF Ports!PortsAssumption
<1>2. \A a, b, c \in Nat : a * b + c \in Nat
  OBVIOUS
<1> DEFINE next(v, n) == IF n = 0 THEN 0 ELSE v[n - 1] * Base + val(n)
           Good(m) == \E v \in [0 .. m -> Nat] : \A n \in 0 .. m : v[n] = next(v, n)
           F == CHOOSE v : v = [n \in 0 .. L |-> next(v, n)]
<1>3. Ports!Number(s) = F[L]
  BY Zenon DEF Ports!Number
<1> HIDE DEF L, val
<1>4. Good(0)
  <2> DEFINE v == [n \in 0 .. 0 |-> 0]
  <2>1. v \in [0 .. 0 -> Nat] /\ \A n \in 0 .. 0 : v[n] = next(v, n)
    OBVIOUS
  <2> QED
    BY <2>1, Zenon
<1>5. ASSUME NEW m \in 0 .. L, m # 0, Good(m - 1) PROVE Good(m)
  <2>1. PICK v \in [0 .. m - 1 -> Nat] : \A n \in 0 .. m - 1 : v[n] = next(v, n)
    BY <1>5
  <2>2. m \in Nat /\ m - 1 \in Nat /\ v[m - 1] \in Nat /\ val(m) \in Nat
    BY <1>1, <1>5
  <2> DEFINE last == v[m - 1] * Base + val(m)
             w == [n \in 0 .. m |-> IF n = m THEN last ELSE v[n]]
  <2>3. last \in Nat
    BY <1>1, <1>2, <2>2
  <2> HIDE DEF last
  <2>4. w \in [0 .. m -> Nat]
    BY <2>2, <2>3
  <2>5. ASSUME NEW n \in 0 .. m PROVE w[n] = next(w, n)
    <3>1. n # 0 => n - 1 \in 0 .. m /\ n - 1 # m
      BY <2>2
    <3>2. CASE n = m
      <4>1. w[n] = last /\ w[n - 1] = v[m - 1]
        BY <1>5, <3>1, <3>2
      <4> QED
        BY <1>5, <3>2, <4>1 DEF last
    <3>3. CASE n # m
      <4>1. n \in 0 .. m - 1 /\ w[n] = v[n]
        BY <2>2, <3>3
      <4>2. n # 0 => w[n - 1] = v[n - 1]
        BY <3>1
      <4>3. v[n] = next(v, n)
        BY <2>1, <4>1
      <4> HIDE DEF w
      <4> QED
        BY <4>1, <4>2, <4>3
    <3> QED
      BY <3>2, <3>3
  <2> HIDE DEF w
  <2> QED
    BY <2>4, <2>5
<1>6. Good(L)
  <2> DEFINE T == {m \in 0 .. L : ~Good(m)}
  <2> HIDE DEF Good
  <2>1. T \in SUBSET Nat /\ L \in 0 .. L
    BY <1>1
  <2>2. SUFFICES ASSUME T # {} PROVE FALSE
    BY <2>1
  <2>3. PICK m \in T : \A k \in T : m <= k
    BY <2>1, <2>2, LeastNumber
  <2>4. m \in 0 .. L /\ ~Good(m)
    BY <2>3
  <2>5. m # 0
    BY <1>4, <2>4
  <2>6. m - 1 \in 0 .. L /\ m - 1 \notin T
    BY <1>1, <2>3, <2>4, <2>5
  <2>7. Good(m - 1)
    BY <2>6
  <2> QED
    BY <1>5, <2>4, <2>5, <2>7
<1>7. F = [n \in 0 .. L |-> next(F, n)]
  <2>1. PICK v \in [0 .. L -> Nat] : \A n \in 0 .. L : v[n] = next(v, n)
    BY <1>6
  <2>2. v = [n \in 0 .. L |-> next(v, n)]
    <3>1. v = [n \in 0 .. L |-> v[n]]
      OBVIOUS
    <3> HIDE DEF next
    <3> QED
      BY <2>1, <3>1, Zenon
  <2> HIDE DEF next
  <2> QED
    BY <2>2, Zenon
<1> HIDE DEF F
<1>8. \A n \in 0 .. L : F[n] = next(F, n)
  BY <1>7
<1>9. ASSUME F[L] \notin Nat PROVE FALSE
  <2> DEFINE T == {m \in 0 .. L : F[m] \notin Nat}
  <2>1. T \in SUBSET Nat /\ T # {}
    BY <1>1, <1>9
  <2>2. PICK m \in T : \A k \in T : m <= k
    BY <2>1, LeastNumber
  <2>3. m \in 0 .. L /\ F[m] \notin Nat
    BY <2>2
  <2>4. m # 0
    BY <1>8, <2>3
  <2>5. m - 1 \in 0 .. L /\ m - 1 \notin T
    BY <1>1, <2>2, <2>3, <2>4
  <2>6. F[m - 1] \in Nat
    BY <2>5
  <2>7. F[m] = F[m - 1] * Base + val(m) /\ val(m) \in Nat
    BY <1>1, <1>8, <2>3, <2>4
  <2> QED
    BY <1>1, <1>2, <2>3, <2>6, <2>7
<1> QED
  BY <1>3, <1>9

\* Among the characters of a text: its first place with a property.
LEMMA FirstPlace ==
  ASSUME NEW T, NEW s \in Seq(T), NEW I \in SUBSET (1 .. Len(s))
  PROVE  LET p == IF I # {} THEN Ports!Min(I) ELSE 0
         IN /\ p = 0 <=> I = {}
            /\ p # 0 => p \in I /\ \A j \in I : p <= j
<1>1. I \in SUBSET Nat /\ 0 \notin I
  OBVIOUS
<1>2. I # {} => Ports!Min(I) \in I /\ \A j \in I : Ports!Min(I) <= j
  BY <1>1, LeastNumber, Zenon DEF Ports!Min
<1> QED
  BY <1>1, <1>2, Zenon

\* The characters of a port field.
Chars == DOMAIN Digits \union {"-"}

\* The places that the first character other than a digit, and the first dash,
\* are looked for among.
LEMMA OtherIs ==
  ASSUME NEW s \in Seq(Chars)
  PROVE  LET I == {i \in 1 .. Len(s) : s[i] \notin DOMAIN Digits}
         IN /\ Ports!Other(s) = 0 <=> I = {}
            /\ Ports!Other(s) # 0 => Ports!Other(s) \in I /\ \A j \in I : Ports!Other(s) <= j
<1> DEFINE I == {i \in 1 .. Len(s) : s[i] \notin DOMAIN Digits}
<1>1. Ports!Other(s) = IF I # {} THEN Ports!Min(I) ELSE 0
  BY Zenon DEF Ports!Other, Ports!SelectInSeq
<1>2. I \in SUBSET (1 .. Len(s))
  OBVIOUS
<1> HIDE DEF I
<1>3. LET p == IF I # {} THEN Ports!Min(I) ELSE 0
      IN /\ p = 0 <=> I = {}
         /\ p # 0 => p \in I /\ \A j \in I : p <= j
  BY <1>2, FirstPlace, Zenon
<1>4. /\ Ports!Other(s) = 0 <=> I = {}
      /\ Ports!Other(s) # 0 => Ports!Other(s) \in I /\ \A j \in I : Ports!Other(s) <= j
  BY <1>1, <1>3, Zenon
<1> QED
  BY <1>4 DEF I

LEMMA DashIs ==
  ASSUME NEW s \in Seq(Chars)
  PROVE  LET I == {i \in 1 .. Len(s) : s[i] = "-"}
         IN /\ Ports!Dash(s) = 0 <=> I = {}
            /\ Ports!Dash(s) # 0 => Ports!Dash(s) \in I /\ \A j \in I : Ports!Dash(s) <= j
<1> DEFINE I == {i \in 1 .. Len(s) : s[i] = "-"}
<1>1. Ports!Dash(s) = IF I # {} THEN Ports!Min(I) ELSE 0
  BY Zenon DEF Ports!Dash, Ports!SelectInSeq
<1>2. I \in SUBSET (1 .. Len(s))
  OBVIOUS
<1> HIDE DEF I
<1>3. LET p == IF I # {} THEN Ports!Min(I) ELSE 0
      IN /\ p = 0 <=> I = {}
         /\ p # 0 => p \in I /\ \A j \in I : p <= j
  BY <1>2, FirstPlace, Zenon
<1>4. /\ Ports!Dash(s) = 0 <=> I = {}
      /\ Ports!Dash(s) # 0 => Ports!Dash(s) \in I /\ \A j \in I : Ports!Dash(s) <= j
  BY <1>1, <1>3, Zenon
<1> QED
  BY <1>4 DEF I

\* A text of digits is a port, and no range.
LEMMA DigitalText ==
  ASSUME Ports!PortsAssumption, NEW s \in Seq(Chars), Ports!Digital(s)
  PROVE  /\ Ports!Atoi(s) = Ports!Number(s) /\ Ports!Atoi(s) \in Nat
         /\ Ports!CheckPort(s) = 1 /\ ~Ports!IsRange(s)
         /\ SubSeq(s, Ports!Dash(s) + 1, Len(s)) = s
<1>1. /\ Len(s) \in Nat /\ DOMAIN s = 1 .. Len(s)
      /\ "-" \notin DOMAIN Digits
      /\ \A i \in 1 .. Len(s) : s[i] \in DOMAIN Digits
  BY DEF Ports!Digital, Ports!PortsAssumption
<1>2. Ports!Other(s) = 0 /\ Ports!Dash(s) = 0
  BY <1>1, OtherIs, DashIs
<1>3. s \in Seq(DOMAIN Digits)
  BY <1>1
<1>4. Ports!Atoi(s) = Ports!Number(s)
  BY <1>2 DEF Ports!Atoi
<1>5. Ports!Number(s) \in Nat
  BY <1>3, NumberIsNat
<1>6. ~Ports!IsRange(s)
  BY <1>1 DEF Ports!IsRange
<1>7. SubSeq(s, Ports!Dash(s) + 1, Len(s)) = s
  BY <1>2, SubSeqFull
<1> QED
  BY <1>2, <1>4, <1>5, <1>6, <1>7 DEF Ports!CheckPort

\* A range is two ports with a dash between.
LEMMA RangeText ==
  ASSUME Ports!PortsAssumption, NEW s \in Seq(Chars), Ports!IsRange(s)
  PROVE  /\ Ports!Atoi(SubSeq(s, 1, Ports!Dash(s) - 1)) = Ports!Atoi(s)
         /\ Ports!Atoi(s) \in Nat
         /\ Ports!Atoi(SubSeq(s, Ports!Dash(s) + 1, Len(s))) \in Nat
         /\ Ports!CheckPort(s) = 0
<1>1. PICK i \in DOMAIN s : /\ s[i] = "-" /\ Ports!Digital(SubSeq(s, 1, i - 1))
                            /\ Ports!Digital(SubSeq(s, i + 1, Len(s)))
  BY DEF Ports!IsRange
<1>2. i \in 1 .. Len(s) /\ Len(s) \in Nat /\ "-" \notin DOMAIN Digits
  BY DEF Ports!PortsAssumption
<1> DEFINE left == SubSeq(s, 1, i - 1)
           right == SubSeq(s, i + 1, Len(s))
<1>3. /\ left \in Seq(Chars) /\ Len(left) = i - 1
      /\ \A j \in 1 .. i - 1 : left[j] = s[j]
  <2>1. 1 \in Int /\ i - 1 \in Int /\ \A j \in 1 .. i - 1 : s[j] \in Chars
    BY <1>2
  <2> HIDE DEF left
  <2>2. /\ left \in Seq(Chars) /\ Len(left) = IF 1 <= i - 1 THEN i - 1 - 1 + 1 ELSE 0
        /\ \A j \in 1 .. i - 1 - 1 + 1 : left[j] = s[1 + j - 1]
    BY <2>1, SubSeqProperties DEF left
  <2>3. i - 1 \in Nat
    BY <1>2
  <2>4. Len(left) = i - 1 /\ i - 1 - 1 + 1 = i - 1
    BY <2>2, <2>3
  <2>5. ASSUME NEW j \in 1 .. i - 1 PROVE left[j] = s[j]
    <3>1. j = 1 + j - 1
      OBVIOUS
    <3> QED
      BY <2>2, <2>4, <3>1
  <2> QED
    BY <2>2, <2>4, <2>5
<1>4. right \in Seq(Chars)
  <2>1. i + 1 \in Int /\ Len(s) \in Int /\ \A j \in i + 1 .. Len(s) : s[j] \in Chars
    BY <1>2
  <2> QED
    BY <2>1, SubSeqProperties
<1>5. Ports!Digital(left) /\ Ports!Digital(right)
  BY <1>1
<1> HIDE DEF left, right
<1>6. /\ Ports!Atoi(left) = Ports!Number(left) /\ Ports!Atoi(left) \in Nat
      /\ Ports!Atoi(right) \in Nat
  BY <1>3, <1>4, <1>5, DigitalText
<1>7. \A j \in 1 .. Len(s) : j < i => s[j] \in DOMAIN Digits
  <2>1. \A j \in 1 .. i - 1 : left[j] \in DOMAIN Digits
    BY <1>3, <1>5 DEF Ports!Digital
  <2> QED
    BY <1>2, <1>3, <2>1
<1>8. Ports!Other(s) = i
  <2> DEFINE I == {k \in 1 .. Len(s) : s[k] \notin DOMAIN Digits}
  <2>1. i \in I /\ (\A j \in I : i <= j) /\ I \in SUBSET Nat
    BY <1>1, <1>2, <1>7
  <2>2. Ports!Other(s) # 0 /\ Ports!Other(s) \in I /\ \A j \in I : Ports!Other(s) <= j
    BY <2>1, OtherIs
  <2> HIDE DEF I
  <2> QED
    BY <2>1, <2>2
<1>9. Ports!Dash(s) = i
  <2> DEFINE I == {k \in 1 .. Len(s) : s[k] = "-"}
  <2>1. i \in I /\ (\A j \in I : i <= j) /\ I \in SUBSET Nat
    BY <1>1, <1>2, <1>7
  <2>2. Ports!Dash(s) # 0 /\ Ports!Dash(s) \in I /\ \A j \in I : Ports!Dash(s) <= j
    BY <2>1, DashIs
  <2> HIDE DEF I
  <2> QED
    BY <2>1, <2>2
<1>10. Ports!Atoi(s) = Ports!Number(left) /\ Ports!CheckPort(s) = 0
  BY <1>1, <1>2, <1>8 DEF Ports!Atoi, Ports!CheckPort, left
<1> QED
  BY <1>6, <1>9, <1>10 DEF left, right

\* Mappings, and the pairs of ports that a sequence of them maps.
Mappings == [listenPorts : Int, inPorts : Int]
PairsOf(cs) == {<<cs[i].listenPorts, cs[i].inPorts>> : i \in DOMAIN cs}

\* Two runs of ports map one to one when they are as long as each other, and
\* not at all otherwise.
LEMMA PairsAre ==
  ASSUME NEW m \in Nat, NEW n \in Nat, NEW w \in Int, NEW x \in Int
  PROVE  LET cs == Ports!Pairs([i \in 1 .. w |-> m + i - 1], [i \in 1 .. x |-> n + i - 1])
         IN /\ cs \in Seq(Mappings)
            /\ w = x => PairsOf(cs) = {<<m + k, n + k>> : k \in 0 .. w - 1}
            /\ w # x => PairsOf(cs) = {}
<1> DEFINE s == [i \in 1 .. w |-> m + i - 1]
           t == [i \in 1 .. x |-> n + i - 1]
           long(y) == IF y > 0 THEN y ELSE 0
           pair(i) == [listenPorts |-> s[i], inPorts |-> t[i]]
<1>1. ASSUME NEW y \in Int PROVE 1 .. y = 1 .. long(y) /\ long(y) \in Nat
  OBVIOUS
<1>2. /\ s \in Seq(Int) /\ Len(s) = long(w) /\ DOMAIN s = 1 .. long(w)
      /\ \A i \in 1 .. long(w) : s[i] = m + i - 1
  <2>1. s = [i \in 1 .. long(w) |-> m + i - 1] /\ long(w) \in Nat
    BY <1>1, Zenon
  <2> HIDE DEF s, long
  <2> QED
    BY <2>1
<1>3. /\ t \in Seq(Int) /\ Len(t) = long(x) /\ DOMAIN t = 1 .. long(x)
      /\ \A i \in 1 .. long(x) : t[i] = n + i - 1
  <2>1. t = [i \in 1 .. long(x) |-> n + i - 1] /\ long(x) \in Nat
    BY <1>1, Zenon
  <2> HIDE DEF t, long
  <2> QED
    BY <2>1
<1>4. Ports!Pairs(s, t) = IF long(w) # long(x) THEN <<>> ELSE [i \in 1 .. long(w) |-> pair(i)]
  <2> HIDE DEF s, t, long
  <2> QED
    BY <1>2, <1>3, Zenon DEF Ports!Pairs
<1>5. CASE long(w) # long(x)
  <2>1. Ports!Pairs(s, t) = <<>> /\ w # x
    <3> HIDE DEF s, t, long
    <3> QED
      BY <1>4, <1>5
  <2>2. PairsOf(<<>>) = {} /\ <<>> \in Seq(Mappings)
    BY DEF PairsOf
  <2> HIDE DEF s, t
  <2>3. Ports!Pairs(s, t) \in Seq(Mappings) /\ PairsOf(Ports!Pairs(s, t)) = {}
    BY <2>1, <2>2, Zenon
  <2> QED
    BY <2>1, <2>3 DEF s, t
<1>6. CASE long(w) = long(x)
  <2> DEFINE cs == [i \in 1 .. long(w) |-> pair(i)]
  <2>1. Ports!Pairs(s, t) = cs
    <3> HIDE DEF s, t, long, cs
    <3> QED
      BY <1>4, <1>6 DEF cs
  <2>2. /\ \A i \in 1 .. long(w) : pair(i) \in Mappings /\ pair(i).listenPorts = m + i - 1
                                  /\ pair(i).inPorts = n + i - 1
        /\ long(w) \in Nat
    <3>1. \A i \in 1 .. long(w) : s[i] \in Int /\ t[i] \in Int /\ s[i] = m + i - 1 /\ t[i] = n + i - 1
      <4>1. ASSUME NEW i \in 1 .. long(w)
            PROVE s[i] \in Int /\ t[i] \in Int /\ s[i] = m + i - 1 /\ t[i] = n + i - 1
        <5>1. i \in Int
          BY <1>1
        <5>2. s[i] = m + i - 1 /\ t[i] = n + i - 1
          <6> HIDE DEF s, t, long
          <6> QED
            BY <1>2, <1>3, <1>6
        <5> HIDE DEF s, t
        <5> QED
          BY <5>1, <5>2
      <4> QED
        BY <4>1
    <3>2. long(w) \in Nat
      BY <1>1
    <3> HIDE DEF s, t, long
    <3> QED
      BY <3>1, <3>2 DEF Mappings
  <2> HIDE DEF pair
  <2>3. /\ cs \in Seq(Mappings) /\ DOMAIN cs = 1 .. long(w)
        /\ \A i \in 1 .. long(w) : cs[i].listenPorts = m + i - 1 /\ cs[i].inPorts = n + i - 1
    <3> HIDE DEF long
    <3> QED
      BY <2>2
  <2> HIDE DEF cs
  <2>4. PairsOf(cs) = {<<m + i - 1, n + i - 1>> : i \in 1 .. long(w)}
    <3> HIDE DEF long
    <3> QED
      BY <2>3 DEF PairsOf
  <2>5. {<<m + i - 1, n + i - 1>> : i \in 1 .. long(w)}
          = IF w = x THEN {<<m + k, n + k>> : k \in 0 .. w - 1} ELSE {}
    <3>1. CASE w = x
      <4>1. ASSUME NEW i \in 1 .. long(w)
            PROVE \E k \in 0 .. w - 1 : m + i - 1 = m + k /\ n + i - 1 = n + k
        <5>1. i - 1 \in 0 .. w - 1 /\ m + i - 1 = m + (i - 1) /\ n + i - 1 = n + (i - 1)
          OBVIOUS
        <5> QED
          BY <5>1
      <4>2. ASSUME NEW k \in 0 .. w - 1
            PROVE \E i \in 1 .. long(w) : m + i - 1 = m + k /\ n + i - 1 = n + k
        <5>1. k + 1 \in 1 .. long(w) /\ m + (k + 1) - 1 = m + k /\ n + (k + 1) - 1 = n + k
          OBVIOUS
        <5> QED
          BY <5>1
      <4>3. {<<m + i - 1, n + i - 1>> : i \in 1 .. long(w)} = {<<m + k, n + k>> : k \in 0 .. w - 1}
        <5> HIDE DEF long
        <5> QED
          BY <4>1, <4>2
      <4> QED
        BY <3>1, <4>3
    <3>2. CASE w # x
      <4>1. 1 .. long(w) = {}
        BY <1>6, <3>2
      <4> QED
        BY <3>2, <4>1
    <3> QED
      BY <3>1, <3>2
  <2> HIDE DEF s, t, long
  <2>6. /\ Ports!Pairs(s, t) \in Seq(Mappings)
        /\ w = x => PairsOf(Ports!Pairs(s, t)) = {<<m + k, n + k>> : k \in 0 .. w - 1}
        /\ w # x => PairsOf(Ports!Pairs(s, t)) = {}
    BY <2>1, <2>3, <2>4, <2>5, Zenon
  <2> QED
    BY <2>6 DEF s, t
<1> QED
  BY <1>5, <1>6

\* The mappings of a line are those it means.
LEMMA ConfigsMean ==
  ASSUME Ports!PortsAssumption, Ports!WellFormed, NEW line \in Ports!Lines
  PROVE  Ports!Configs(line) \in Seq(Mappings) /\ PairsOf(Ports!Configs(line)) = Ports!Meaning(line)
<1> DEFINE a == line.listenPorts
           b == line.inPorts
           most(s) == Ports!Atoi(SubSeq(s, Ports!Dash(s) + 1, Len(s)))
           wide == most(a) - Ports!Atoi(a)
           across == most(b) - Ports!Atoi(b)
           pairs == {<<Ports!Atoi(a) + k, Ports!Atoi(b) + k>> : k \in 0 .. wide}
<1>1. /\ a \in Seq(Chars) /\ (Ports!Digital(a) \/ Ports!IsRange(a))
      /\ b \in Seq(Chars) /\ (Ports!Digital(b) \/ Ports!IsRange(b))
  BY DEF Ports!WellFormed, Ports!Lines, Chars
<1>2. Ports!Meaning(line)
        = IF (Ports!IsRange(a) <=> Ports!IsRange(b)) /\ across = wide THEN pairs ELSE {}
  BY Zenon DEF Ports!Meaning
<1>3. Ports!Configs(line)
        = CASE Ports!CheckPort(a) = 1 /\ Ports!CheckPort(b) = 1 ->
                 Ports!Pairs(<<Ports!Atoi(a)>>, <<Ports!Atoi(b)>>)
            [] Ports!CheckPort(a) = 0 /\ Ports!CheckPort(b) = 0 ->
                 Ports!Pairs(Ports!GetPorts(a), Ports!GetPorts(b))
            [] OTHER -> <<>>
  BY Zenon DEF Ports!Configs
<1> HIDE DEF a, b
<1>4. ASSUME NEW s \in Seq(Chars), Ports!Digital(s)
      PROVE  /\ Ports!Atoi(s) \in Nat /\ most(s) = Ports!Atoi(s)
             /\ Ports!CheckPort(s) = 1 /\ ~Ports!IsRange(s)
  BY <1>4, DigitalText, Zenon
<1>5. ASSUME NEW s \in Seq(Chars), Ports!IsRange(s)
      PROVE  /\ Ports!Atoi(s) \in Nat /\ most(s) \in Nat /\ Ports!CheckPort(s) = 0
             /\ Ports!GetPorts(s)
                  = [i \in 1 .. most(s) - Ports!Atoi(s) + 1 |-> Ports!Atoi(s) + i - 1]
  BY <1>5, RangeText, Zenon DEF Ports!GetPorts
<1> HIDE DEF most
<1>6. CASE Ports!Digital(a) /\ Ports!Digital(b)
  <2> DEFINE m == Ports!Atoi(a)
             n == Ports!Atoi(b)
  <2>1. /\ m \in Nat /\ n \in Nat /\ most(a) = m /\ most(b) = n
        /\ Ports!CheckPort(a) = 1 /\ Ports!CheckPort(b) = 1
        /\ ~Ports!IsRange(a) /\ ~Ports!IsRange(b)
    BY <1>1, <1>4, <1>6
  <2>2. Ports!Configs(line) = Ports!Pairs(<<m>>, <<n>>)
    BY <1>3, <2>1
  <2> HIDE DEF m, n
  <2>3. <<m>> = [i \in 1 .. 1 |-> m + i - 1] /\ <<n>> = [i \in 1 .. 1 |-> n + i - 1]
    BY <2>1
  <2>4. /\ Ports!Configs(line) \in Seq(Mappings)
        /\ PairsOf(Ports!Configs(line)) = {<<m + k, n + k>> : k \in 0 .. 1 - 1}
    <3> DEFINE cs == Ports!Pairs([i \in 1 .. 1 |-> m + i - 1], [i \in 1 .. 1 |-> n + i - 1])
    <3>1. 1 \in Int
      OBVIOUS
    <3>2. /\ cs \in Seq(Mappings)
          /\ PairsOf(cs) = {<<m + k, n + k>> : k \in 0 .. 1 - 1}
      BY <2>1, <3>1, PairsAre, Zenon
    <3>3. Ports!Configs(line) = cs
      BY <2>2, <2>3, Zenon
    <3> HIDE DEF cs
    <3> QED
      BY <3>2, <3>3, Zenon
  <2>5. wide = 0 /\ across = 0
    BY <2>1 DEF m, n
  <2>6. Ports!Meaning(line) = {<<m + k, n + k>> : k \in 0 .. 0}
    BY <1>2, <2>1, <2>5 DEF m, n
  <2> QED
    BY <2>4, <2>6
<1>7. CASE Ports!IsRange(a) /\ Ports!IsRange(b)
  <2> DEFINE m == Ports!Atoi(a)
             n == Ports!Atoi(b)
  <2>1. /\ m \in Nat /\ n \in Nat /\ most(a) \in Nat /\ most(b) \in Nat
        /\ Ports!CheckPort(a) = 0 /\ Ports!CheckPort(b) = 0
        /\ Ports!GetPorts(a) = [i \in 1 .. wide + 1 |-> m + i - 1]
        /\ Ports!GetPorts(b) = [i \in 1 .. across + 1 |-> n + i - 1]
    BY <1>1, <1>5, <1>7
  <2>2. Ports!Configs(line) = Ports!Pairs(Ports!GetPorts(a), Ports!GetPorts(b))
    BY <1>3, <2>1
  <2>3. wide \in Int /\ across \in Int /\ wide + 1 \in Int /\ across + 1 \in Int
    BY <2>1
  <2>4. Ports!Meaning(line) = IF across = wide THEN {<<m + k, n + k>> : k \in 0 .. wide} ELSE {}
    BY <1>2, <1>7
  <2> HIDE DEF m, n, wide, across
  <2>5. /\ Ports!Configs(line) \in Seq(Mappings)
        /\ wide + 1 = across + 1
             => PairsOf(Ports!Configs(line)) = {<<m + k, n + k>> : k \in 0 .. (wide + 1) - 1}
        /\ wide + 1 # across + 1 => PairsOf(Ports!Configs(line)) = {}
    <3> DEFINE w == wide + 1
               x == across + 1
               cs == Ports!Pairs([i \in 1 .. w |-> m + i - 1], [i \in 1 .. x |-> n + i - 1])
    <3>1. /\ cs \in Seq(Mappings)
          /\ w = x => PairsOf(cs) = {<<m + k, n + k>> : k \in 0 .. w - 1}
          /\ w # x => PairsOf(cs) = {}
      <4>1. w \in Int /\ x \in Int
        BY <2>3
      <4>2. m \in Nat /\ n \in Nat
        BY <2>1
      <4> HIDE DEF w, x
      <4> QED
        BY <4>1, <4>2, PairsAre, Zenon
    <3>2. Ports!Configs(line) = cs
      BY <2>1, <2>2, Zenon
    <3> HIDE DEF cs, w, x
    <3>3. /\ Ports!Configs(line) \in Seq(Mappings)
          /\ w = x => PairsOf(Ports!Configs(line)) = {<<m + k, n + k>> : k \in 0 .. w - 1}
          /\ w # x => PairsOf(Ports!Configs(line)) = {}
      BY <3>1, <3>2
    <3> QED
      BY <3>3 DEF w, x
  <2>6. (wide + 1) - 1 = wide /\ (wide + 1 = across + 1 <=> across = wide)
    BY <2>3
  <2> QED
    BY <2>4, <2>5, <2>6
<1>8. CASE (Ports!Digital(a) /\ Ports!IsRange(b)) \/ (Ports!IsRange(a) /\ Ports!Digital(b))
  <2>1. Ports!Configs(line) = <<>> /\ ~(Ports!IsRange(a) <=> Ports!IsRange(b))
    <3>1. CASE Ports!Digital(a) /\ Ports!IsRange(b)
      <4>1. Ports!CheckPort(a) = 1 /\ ~Ports!IsRange(a) /\ Ports!CheckPort(b) = 0
        BY <1>1, <1>4, <1>5, <3>1
      <4> QED
        BY <1>3, <3>1, <4>1
    <3>2. CASE Ports!IsRange(a) /\ Ports!Digital(b)
      <4>1. Ports!CheckPort(b) = 1 /\ ~Ports!IsRange(b) /\ Ports!CheckPort(a) = 0
        BY <1>1, <1>4, <1>5, <3>2
      <4> QED
        BY <1>3, <3>2, <4>1
    <3> QED
      BY <1>8, <3>1, <3>2
  <2>2. Ports!Meaning(line) = {}
    BY <1>2, <2>1
  <2>3. PairsOf(<<>>) = {} /\ <<>> \in Seq(Mappings)
    BY DEF PairsOf
  <2> QED
    BY <2>1, <2>2, <2>3
<1> QED
  BY <1>1, <1>6, <1>7, <1>8

\* What is mapped after more mappings.
LEMMA PairsJoin ==
  ASSUME NEW c \in Seq(Mappings), NEW d \in Seq(Mappings)
  PROVE  PairsOf(c \o d) = PairsOf(c) \union PairsOf(d)
<1>1. /\ Len(c) \in Nat /\ Len(d) \in Nat
      /\ DOMAIN c = 1 .. Len(c) /\ DOMAIN d = 1 .. Len(d)
      /\ DOMAIN (c \o d) = 1 .. Len(c) + Len(d)
      /\ \A i \in 1 .. Len(c) + Len(d) :
           (c \o d)[i] = IF i <= Len(c) THEN c[i] ELSE d[i - Len(c)]
  BY ConcatProperties, LenProperties
<1> DEFINE e == c \o d
           m == Len(c)
           n == Len(d)
<1> HIDE DEF e
<1>2. /\ \A i \in 1 .. m : i \in DOMAIN e /\ e[i] = c[i]
      /\ \A i \in 1 .. n : i + m \in DOMAIN e /\ e[i + m] = d[i]
      /\ \A i \in DOMAIN e : (i \in 1 .. m /\ e[i] = c[i])
                               \/ (i - m \in 1 .. n /\ e[i] = d[i - m])
  <2>1. /\ m \in Nat /\ n \in Nat /\ DOMAIN e = 1 .. m + n
        /\ \A i \in 1 .. m + n : e[i] = IF i <= m THEN c[i] ELSE d[i - m]
    BY <1>1 DEF e
  <2> HIDE DEF m, n
  <2>2. ASSUME NEW i \in 1 .. n PROVE i + m \in DOMAIN e /\ e[i + m] = d[i]
    <3>1. i + m \in 1 .. m + n /\ ~(i + m <= m) /\ i + m - m = i
      BY <2>1
    <3> QED
      BY <2>1, <3>1
  <2> QED
    BY <2>1, <2>2
<1> HIDE DEF m, n
<1>3. ASSUME NEW x \in PairsOf(e) PROVE x \in PairsOf(c) \union PairsOf(d)
  <2>1. PICK i \in DOMAIN e : x = <<e[i].listenPorts, e[i].inPorts>>
    BY DEF PairsOf
  <2> QED
    BY <1>1, <1>2, <2>1 DEF PairsOf, m, n
<1>4. ASSUME NEW x \in PairsOf(c) PROVE x \in PairsOf(e)
  BY <1>1, <1>2 DEF PairsOf, m
<1>5. ASSUME NEW x \in PairsOf(d) PROVE x \in PairsOf(e)
  <2>1. PICK i \in 1 .. n : x = <<d[i].listenPorts, d[i].inPorts>>
    BY <1>1 DEF PairsOf, n
  <2>2. i + m \in DOMAIN e /\ e[i + m] = d[i]
    BY <1>2
  <2> QED
    BY <2>1, <2>2 DEF PairsOf
<1> QED
  BY <1>3, <1>4, <1>5 DEF e

\* The inductive invariant of the configuration.
PortsInv == /\ file \in Seq(Ports!Lines) /\ through \in Seq(Ports!Lines)
            /\ configs \in Seq(Mappings)
            /\ Ports!MappingsAreMeant
            /\ ss \in {"good", "eof"} /\ (ss = "good" => \A i \in DOMAIN through : ~through[i].bare)

\* The forwarder over TCP maps the ports that its configuration means, each range
\* port by port: every line's up to the one with which the stream ends.
THEOREM PortsAreMeant ==
  Ports!PortsAssumption /\ Ports!WellFormed => (Ports!Spec => []Ports!MappingsAreMeant)
<1> SUFFICES ASSUME Ports!PortsAssumption, Ports!WellFormed
             PROVE  Ports!Spec => []Ports!MappingsAreMeant
  OBVIOUS
<1>1. Ports!Init => PortsInv
  <2> SUFFICES ASSUME Ports!Init PROVE PortsInv
    OBVIOUS
  <2>1. ss = "good" /\ configs = <<>> /\ through = <<>> /\ file \in Ports!SeqOf(Ports!Lines, MaxLines)
    BY DEF Ports!Init
  <2>2. file \in Seq(Ports!Lines)
    <3>1. PICK k \in 0 .. MaxLines : file \in [1 .. k -> Ports!Lines]
      BY <2>1, Zenon DEF Ports!SeqOf
    <3>2. k \in Nat
      BY <3>1 DEF Ports!PortsAssumption
    <3> QED
      BY <3>1, <3>2
  <2>3. PairsOf(configs) = {} /\ DOMAIN through = {} /\ UNION {Ports!Meaning(through[i]) : i \in DOMAIN through} = {}
    BY <2>1 DEF PairsOf
  <2>4. Ports!MappingsAreMeant
    BY <2>3, Zenon DEF Ports!MappingsAreMeant, PairsOf
  <2>5. configs \in Seq(Mappings) /\ through \in Seq(Ports!Lines)
    BY <2>1
  <2>6. ss \in {"good", "eof"} /\ \A i \in DOMAIN through : ~through[i].bare
    BY <2>1, <2>3
  <2> QED
    BY <2>2, <2>4, <2>5, <2>6, Zenon DEF PortsInv
<1>2. PortsInv /\ [Ports!Next]_Ports!vars => PortsInv'
  <2> SUFFICES ASSUME PortsInv, [Ports!Next]_Ports!vars PROVE PortsInv'
    OBVIOUS
  <2>1. CASE UNCHANGED Ports!vars
    BY <2>1 DEF PortsInv, Ports!vars, Ports!MappingsAreMeant
  <2>2. CASE Ports!Next
    <3> DEFINE line == Head(file)
    <3>1. /\ file # <<>> /\ file' = Tail(file)
          /\ IF ss = "eof" THEN UNCHANGED <<ss, configs, through>>
             ELSE /\ ss' = IF line.bare THEN "eof" ELSE "good"
                  /\ through' = Append(through, line)
                  /\ configs' = configs \o Ports!Configs(line)
      BY <2>2 DEF Ports!Next, Ports!ReadLine
    <3>2. line \in Ports!Lines /\ file' \in Seq(Ports!Lines)
      BY <3>1, HeadTailProperties DEF PortsInv
    <3> HIDE DEF line
    <3>3. CASE ss = "eof"
      BY <3>1, <3>2, <3>3 DEF PortsInv, Ports!MappingsAreMeant
    <3>4. CASE ss # "eof"
      <4>1. /\ ss' = (IF line.bare THEN "eof" ELSE "good")
            /\ through' = Append(through, line) /\ configs' = configs \o Ports!Configs(line)
        BY <3>1, <3>4
      <4>2. /\ Ports!Configs(line) \in Seq(Mappings) /\ configs \in Seq(Mappings)
            /\ PairsOf(Ports!Configs(line)) = Ports!Meaning(line)
        BY <3>2, ConfigsMean DEF PortsInv
      <4>3. /\ configs' \in Seq(Mappings)
            /\ PairsOf(configs') = PairsOf(configs) \union Ports!Meaning(line)
        BY <4>1, <4>2, ConcatProperties, PairsJoin
      <4> DEFINE n == Len(through)
      <4>4. /\ n \in Nat /\ DOMAIN through = 1 .. n /\ DOMAIN through' = 1 .. n + 1
            /\ Len(through') = n + 1 /\ through' \in Seq(Ports!Lines)
            /\ \A i \in 1 .. n : through'[i] = through[i]
            /\ through'[n + 1] = line
        BY <3>2, <4>1 DEF PortsInv
      <4> HIDE DEF n
      <4>5. UNION {Ports!Meaning(through'[i]) : i \in DOMAIN through'}
              = (UNION {Ports!Meaning(through[i]) : i \in DOMAIN through}) \union Ports!Meaning(line)
        <5>1. DOMAIN through' = DOMAIN through \union {n + 1}
          BY <4>4
        <5>2. \A i \in DOMAIN through : Ports!Meaning(through'[i]) = Ports!Meaning(through[i])
          BY <4>4
        <5>3. Ports!Meaning(through'[n + 1]) = Ports!Meaning(line)
          BY <4>4
        <5> QED
          BY <5>1, <5>2, <5>3
      <4>6. ss = "good" /\ \A i \in 1 .. n : ~through[i].bare
        BY <3>4, <4>4 DEF PortsInv
      <4>7. PairsOf(configs) = UNION {Ports!Meaning(through[i]) : i \in DOMAIN through}
        BY Zenon DEF PortsInv, Ports!MappingsAreMeant, PairsOf
      <4>8. PairsOf(configs') = UNION {Ports!Meaning(through'[i]) : i \in DOMAIN through'}
        BY <4>3, <4>5, <4>7, Zenon
      <4>9. \A i \in 1 .. n + 1 : through'[i].bare => i = n + 1
        BY <4>4, <4>6
      <4>10. {<<configs'[i].listenPorts, configs'[i].inPorts>> : i \in DOMAIN configs'}
               = UNION {Ports!Meaning(through'[i]) : i \in DOMAIN through'}
        BY <4>8, Zenon DEF PairsOf
      <4>11. Ports!MappingsAreMeant'
        <5>1. \A i \in DOMAIN through' : through'[i].bare => i = Len(through')
          BY <4>4, <4>9, Zenon
        <5> QED
          BY <4>10, <5>1, Zenon DEF Ports!MappingsAreMeant
      <4>12. ss' \in {"good", "eof"} /\ (ss' = "good" => \A i \in DOMAIN through' : ~through'[i].bare)
        <5>1. ss' \in {"good", "eof"}
          BY <4>1
        <5>2. ss' = "good" => ~line.bare
          BY <4>1
        <5>3. \A i \in 1 .. n + 1 : i \in 1 .. n \/ i = n + 1
          BY <4>4
        <5> QED
          BY <4>4, <4>6, <5>1, <5>2, <5>3, Zenon
      <4> QED
        BY <3>2, <4>3, <4>4, <4>11, <4>12, Zenon DEF PortsInv
    <3> QED
      BY <3>3, <3>4
  <2> QED
    BY <2>1, <2>2
<1>3. PortsInv => Ports!MappingsAreMeant
  BY DEF PortsInv
<1> QED
  BY <1>1, <1>2, <1>3, PTL DEF Ports!Spec
=============================================================================
