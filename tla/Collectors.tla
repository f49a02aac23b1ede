----------------------------- MODULE Collectors -----------------------------
(***************************************************************************)
(* The collectors of Pre-Project, any one of them: which says whose step   *)
(* it is, and never changes.  Variables of the same name are shared; those *)
(* the running one does not have stay None.  PreProject adds the           *)
(* forwarders.                                                             *)
(***************************************************************************)
CONSTANTS
  Clients, Mortal, None, Junk,          \* of all: the clients, and who may end early
  Numbers, PidL, TimeL,                 \* lengths of the fields
  MaxClient,                            \* records that test3 waits for
  MaxClient5, TimeL5, Block, KeyL, Keys,  \* of test5
  StrL, Fds,                            \* of test1 and test2
  Callers, Port, MaxRepeats             \* of test4: clients of a good network, ports of all

VARIABLES which,
  table, spc,                                  \* of all
  cpc, words, sent, arrived, read, number,     \* of several
  client, stage, l, rec, sockMax,
  queue,                                       \* of Collector
  key, asked, service, maxl,                   \* of SecureCollector
  test, word, datal, status, msgl, sqlData,    \* of WinCollector
  row, open,                                   \* of ForkCollector
  net, repeats, rows, finish                   \* of DatagramCollector

own3 == <<queue>>
own5 == <<key, asked, service, maxl>>
ownWin == <<test, word, datal, status, msgl, sqlData>>
ownFork == <<row, open>>
ownUdp == <<net, repeats, rows, finish>>
vars == <<table, spc, cpc, words, sent, arrived, read, number, client, stage, l, rec, sockMax,
          own3, own5, ownWin, ownFork, ownUdp>>

Test3 == INSTANCE Collector
Test5 == INSTANCE SecureCollector WITH MaxClient <- MaxClient5, TimeL <- TimeL5
Win == INSTANCE WinCollector WITH Sockets <- Clients

\* One word at a time, and strings that come in one piece; or all at once, in pieces.
Test1 == INSTANCE ForkCollector WITH OneByOne <- TRUE, Pieces <- FALSE
Test2 == INSTANCE ForkCollector WITH OneByOne <- FALSE, Pieces <- TRUE

\* The arrays and the map, on a network that loses nothing and keeps the
\* order, and on one that does neither.
ClientPort == [c \in Clients |-> Port[c]]

Array == INSTANCE DatagramCollector WITH Clients <- Callers,
  InMap <- FALSE, Ordered <- TRUE, Lossy <- FALSE, MaxRepeats <- 0
Map == INSTANCE DatagramCollector WITH Clients <- Callers,
  InMap <- TRUE, Ordered <- TRUE, Lossy <- FALSE, MaxRepeats <- 0
ArrayLossy == INSTANCE DatagramCollector WITH Port <- ClientPort,
  InMap <- FALSE, Ordered <- FALSE, Lossy <- TRUE
MapLossy == INSTANCE DatagramCollector WITH Port <- ClientPort,
  InMap <- TRUE, Ordered <- FALSE, Lossy <- TRUE

\* Assumed of the constants of the instances.
CollectorsAssumption ==
  /\ Test3!CollectorAssumption /\ Test5!SecureAssumption /\ Win!WinAssumption
  /\ Test1!ForkAssumption /\ Test2!ForkAssumption
  /\ Array!DatagramAssumption /\ Map!DatagramAssumption
  /\ ArrayLossy!DatagramAssumption /\ MapLossy!DatagramAssumption

-----------------------------------------------------------------------------
No3 == queue = None
No5 == key = None /\ asked = None /\ service = None /\ maxl = None
NoWin == /\ test = None /\ word = None /\ datal = None
         /\ status = None /\ msgl = None /\ sqlData = None
NoFork == row = None /\ open = None
NoUdp == net = None /\ repeats = None /\ rows = None /\ finish = None
NoLoop == client = None /\ stage = None /\ rec = None /\ sockMax = None
NoStream == sent = None /\ arrived = None /\ read = None

\* No collector runs.
Off == /\ No3 /\ No5 /\ NoWin /\ NoFork /\ NoUdp /\ NoLoop /\ NoStream
       /\ table = None /\ spc = None /\ cpc = None /\ words = None
       /\ l = None /\ number = None
Still == UNCHANGED vars

UdpInit(w, init) == /\ which = w /\ init
                    /\ No3 /\ No5 /\ NoWin /\ NoFork /\ NoLoop /\ NoStream
                    /\ l = None /\ number = None

ForkInit(w, init) == /\ which = w /\ init
                     /\ No3 /\ No5 /\ NoWin /\ NoUdp /\ NoLoop /\ l = None

Init == \/ /\ which = "test3" /\ Test3!Init
           /\ No5 /\ NoWin /\ NoFork /\ NoUdp /\ words = None
        \/ /\ which = "test5" /\ Test5!Init
           /\ No3 /\ NoWin /\ NoFork /\ NoUdp /\ number = None
        \/ /\ which = "win" /\ Win!Init
           /\ No3 /\ No5 /\ NoFork /\ NoUdp /\ NoLoop
           /\ cpc = None /\ words = None /\ number = None
        \/ ForkInit("test1", Test1!Init)
        \/ ForkInit("test2", Test2!Init)
        \/ UdpInit("array", Array!Init)
        \/ UdpInit("map", Map!Init)
        \/ UdpInit("lossyArray", ArrayLossy!Init)
        \/ UdpInit("lossyMap", MapLossy!Init)

\* The step A of the collector w; the variables it does not have stay None.
Only3(A) == /\ which = "test3" /\ A
            /\ UNCHANGED <<words, own5, ownWin, ownFork, ownUdp>>
Only5(A) == /\ which = "test5" /\ A
            /\ UNCHANGED <<number, own3, ownWin, ownFork, ownUdp>>
OnlyWin(A) == /\ which = "win" /\ A
              /\ UNCHANGED <<cpc, words, number, client, stage, rec, sockMax,
                             own3, own5, ownFork, ownUdp>>
OnlyFork(w, A) == /\ which = w /\ A
                  /\ UNCHANGED <<client, stage, l, rec, sockMax, own3, own5, ownWin, ownUdp>>
OnlyUdp(w, A) == /\ which = w /\ A
                 /\ UNCHANGED <<sent, arrived, read, number, client, stage, l, rec, sockMax,
                                own3, own5, ownWin, ownFork>>

Next == \/ Only3(Test3!Next)
        \/ Only5(Test5!Next)
        \/ OnlyWin(Win!Next)
        \/ OnlyFork("test1", Test1!Next)
        \/ OnlyFork("test2", Test2!Next)
        \/ OnlyUdp("array", Array!Next)
        \/ OnlyUdp("map", Map!Next)
        \/ OnlyUdp("lossyArray", ArrayLossy!Next)
        \/ OnlyUdp("lossyMap", MapLossy!Next)

\* What each module wants fairness of, for the one that runs.
Server == \/ Only3(Test3!Round \/ Test3!Put)
          \/ Only5(Test5!Put)
          \/ OnlyWin(Win!Put)
          \/ OnlyUdp("array", Array!Server)
          \/ OnlyUdp("map", Map!Server)

Client(c) == \/ OnlyUdp("array", Array!Client(c))
             \/ OnlyUdp("map", Map!Client(c))
             \/ /\ c \in Clients
                /\ \/ Only3(Test3!Client(c))
                   \/ Only5(Test5!Client(c))
                   \/ OnlyWin(Win!Client(c))
                   \/ OnlyFork("test1", Test1!Client(c))
                   \/ OnlyFork("test2", Test2!Client(c))

Connection(c) == \/ Only5(Test5!Server(c))
                 \/ OnlyWin(Win!Server(c))
                 \/ OnlyFork("test1", Test1!Child(c))
                 \/ OnlyFork("test2", Test2!Child(c))
Delivery(c) == \/ OnlyWin(Win!Arrive(c))
               \/ OnlyFork("test1", Test1!Arrive(c))
               \/ OnlyFork("test2", Test2!Arrive(c))
Parent(c) == OnlyFork("test1", Test1!Accept(c)) \/ OnlyFork("test2", Test2!Accept(c))

-----------------------------------------------------------------------------
(* Properties *)

\* What the servers on streams hold as finished is what its client sent, with
\* the key that client has, whatever pieces the streams come in and whichever
\* other clients end early: see RecordsAreRight of each of their modules.
RecordsAreRight ==
  CASE which = "test3" -> Test3!RecordsAreRight
    [] which = "test5" -> Test5!RecordsAreRight
    [] which = "win" -> Win!RecordsAreRight
    [] which = "test1" -> Test1!RecordsAreRight
    [] which = "test2" -> Test2!RecordsAreRight
    [] OTHER -> TRUE

\* The servers on datagrams store everything on a network that keeps the order
\* and loses nothing, and mix no two clients' fields on one that does neither:
\* see DatagramsAreRight of DatagramCollector.
DatagramsAreRight ==
  CASE which = "array" -> Array!DatagramsAreRight
    [] which = "map" -> Map!DatagramsAreRight
    [] which = "lossyArray" -> ArrayLossy!DatagramsAreRight
    [] which = "lossyMap" -> MapLossy!DatagramsAreRight
    [] OTHER -> TRUE

\* What the collectors are for is done in the end, when enough clients live:
\* in test3 if select looks at the listening socket at all, in test5 if it does
\* and no client dies, in test1 and test2 for each client that lives and that
\* the parent has a descriptor for, over UDP if nothing is lost and no two
\* clients have the same port.  Of a network that loses datagrams it says
\* nothing: a client that waits for a lost one waits for ever.
EachCollects ==
  <>CASE which = "test3" -> Test3!Collected
      [] which = "test5" -> Test5!Collected
      [] which = "win" -> Win!Collected
      [] which = "test1" -> Test1!Collected
      [] which = "test2" -> Test2!Collected
      [] which = "array" -> Array!Collected
      [] which = "map" -> Map!Collected
      [] OTHER -> TRUE
=============================================================================
