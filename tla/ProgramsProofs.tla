--------------------------- MODULE ProgramsProofs ---------------------------
(***************************************************************************)
(* What PreProject promises, for all values of its constants and whichever *)
(* program runs: the theorems of PreProjectProofs, each for the instances  *)
(* of its module.  Four instances of PreProjectProofs have an instance of  *)
(* each; each lemma ...Runs first says that it is PreProject's.            *)
(***************************************************************************)
EXTENDS PreProject, TLAPS

-----------------------------------------------------------------------------
(* One program runs *)

\* PreProject begins as the program that which names.
LEMMA ProgramBegins ==
  ASSUME ProgramInit
  PROVE  /\ which = "test3" => Test3!Init
         /\ which = "test5" => Test5!Init
         /\ which = "win" => Win!Init
         /\ which = "test1" => Test1!Init
         /\ which = "test2" => Test2!Init
         /\ which = "array" => Array!Init
         /\ which = "map" => Map!Init
         /\ which = "lossyArray" => ArrayLossy!Init
         /\ which = "lossyMap" => MapLossy!Init
         /\ which = "turns" => F!Turns!Init
         /\ which = "atOnce" => F!AtOnce!Init
         /\ which = "mapping" => F!Mapping!Init
         /\ which = "apart" => F!Apart!Init
         /\ which = "losing" => F!Losing!Init
         /\ which = "mixed" => F!Mixed!Init
         /\ which = "ports" => F!Ports!Init
BY DEF ProgramInit, Init, UdpInit, ForkInit, F!Init, F!TcpInit, F!NatInit

\* Its steps are that program's.
LEMMA ProgramSteps ==
  ASSUME ProgramNext
  PROVE  /\ which' = which
         /\ which = "test3" => Test3!Next
         /\ which = "test5" => Test5!Next
         /\ which = "win" => Win!Next
         /\ which = "test1" => Test1!Next
         /\ which = "test2" => Test2!Next
         /\ which = "array" => Array!Next
         /\ which = "map" => Map!Next
         /\ which = "lossyArray" => ArrayLossy!Next
         /\ which = "lossyMap" => MapLossy!Next
         /\ which = "turns" => F!Turns!Next
         /\ which = "atOnce" => F!AtOnce!Next
         /\ which = "mapping" => F!Mapping!Next
         /\ which = "apart" => F!Apart!Next
         /\ which = "losing" => F!Losing!Next
         /\ which = "mixed" => F!Mixed!Next
         /\ which = "ports" => F!Ports!Next
BY DEF ProgramNext, Collects, Forwards, Next, Only3, Only5, OnlyWin, OnlyFork, OnlyUdp,
       F!Next, F!OnlyTcp, F!OnlyNat

\* It stays what it is.
LEMMA ProgramStays == [ProgramNext]_all => which' = which
BY ProgramSteps DEF all

-----------------------------------------------------------------------------
\* One client at a time in test1, a bad network and the arrays, sockets of
\* their own over UDP, and the processes of a mapping.
A == INSTANCE PreProjectProofs WITH
  Sockets <- Clients, OneByOne <- TRUE, Pieces <- FALSE,
  Callers <- Clients, Port <- ClientPort, InMap <- FALSE, Ordered <- FALSE, Lossy <- TRUE,
  Uses <- Alone, MaxSends <- MaxLosing,
  MaxBytes <- MappingBytes, Slow <- FALSE, Full <- FALSE, InTurns <- FALSE

\* test3: RecordsAreRight of Collector.
LEMMA Test3Runs ==
  ProgramSpec => [](which = "test3" => Test3!RecordsAreRight)
<1> DEFINE runs == which = "test3"
<1>1. A!T3!CollectorAssumption
  BY InstancesAssumption
  DEF CollectorsAssumption, Test3!CollectorAssumption, Test3!Cardinality, Test3!IsFiniteSet,
      A!T3!CollectorAssumption, A!T3!Cardinality, A!T3!IsFiniteSet
<1>2. A!T3!Spec => []A!T3!RecordsAreRight
  BY <1>1, A!T3RecordsAreRight
<1>3. ProgramInit /\ runs => A!T3!Init
  BY ProgramBegins
  DEF Test3!Init, A!T3!Init
<1>4. ProgramNext /\ runs => A!T3!Next
  <2>1. Test3!Next <=> A!T3!Next
    BY DEF Test3!Next, Test3!Round, Test3!Put, Test3!SelectFails, Test3!Client, Test3!Die,
           Test3!RecvedClient, Test3!Ready, Test3!Accept, Test3!Complete, Test3!Got,
           Test3!Field, Test3!clientVars, Test3!Connect, Test3!Greet, Test3!Send, Test3!Arrive,
           Test3!Leave, Test3!serverVars, Test3!Cardinality, Test3!Limit, Test3!After,
           Test3!Piece, Test3!IsFiniteSet, A!T3!Next, A!T3!Round, A!T3!Put, A!T3!SelectFails,
           A!T3!Client, A!T3!Die, A!T3!RecvedClient, A!T3!Ready, A!T3!Accept, A!T3!Complete,
           A!T3!Got, A!T3!Field, A!T3!clientVars, A!T3!Connect, A!T3!Greet, A!T3!Send,
           A!T3!Arrive, A!T3!Leave, A!T3!serverVars, A!T3!Cardinality, A!T3!Limit, A!T3!After,
           A!T3!Piece, A!T3!IsFiniteSet
  <2> QED
    BY <2>1, ProgramSteps
<1>5. UNCHANGED all => UNCHANGED A!T3!vars
  BY DEF all, vars, own3, A!T3!vars, A!T3!clientVars, A!T3!serverVars
<1>6. [ProgramNext]_all => (runs <=> runs')
  BY ProgramStays
<1>7. A!T3!RecordsAreRight => Test3!RecordsAreRight
  <2>1. Test3!RecordsAreRight <=> A!T3!RecordsAreRight
    BY DEF Test3!RecordsAreRight, Test3!TypeOK, Test3!FinishedIsRight, Test3!StoredIsFinished,
           Test3!After, Test3!Sent, A!T3!RecordsAreRight, A!T3!TypeOK, A!T3!FinishedIsRight,
           A!T3!StoredIsFinished, A!T3!After, A!T3!Sent
  <2> QED
    BY <2>1
<1> HIDE DEF runs
<1>8. ProgramSpec => [](runs => Test3!RecordsAreRight)
  BY <1>2, <1>3, <1>4, <1>5, <1>6, <1>7, PTL DEF ProgramSpec, A!T3!Spec
<1> QED
  BY <1>8 DEF runs

\* test5: RecordsAreRight of SecureCollector.
LEMMA Test5Runs ==
  ProgramSpec => [](which = "test5" => Test5!RecordsAreRight)
<1> DEFINE runs == which = "test5"
<1>1. A!T5!SecureAssumption
  BY InstancesAssumption
  DEF CollectorsAssumption, Test5!SecureAssumption, Test5!Cardinality, Test5!IsFiniteSet,
      A!T5!SecureAssumption, A!T5!Cardinality, A!T5!IsFiniteSet
<1>2. A!T5!Spec => []A!T5!RecordsAreRight
  BY <1>1, A!T5RecordsAreRight
<1>3. ProgramInit /\ runs => A!T5!Init
  BY ProgramBegins
  DEF Test5!Init, A!T5!Init
<1>4. ProgramNext /\ runs => A!T5!Next
  <2>1. Test5!Next <=> A!T5!Next
    BY DEF Test5!Next, Test5!Put, Test5!SelectFails, Test5!Client, Test5!Die, Test5!Server,
           Test5!Cardinality, Test5!clientVars, Test5!serverVars, Test5!Send, Test5!RecvKey,
           Test5!RecvNumber, Test5!Arrive, Test5!Leave, Test5!Accept, Test5!KeyAndNumber,
           Test5!KeyFails, Test5!Serve, Test5!IsFiniteSet, Test5!After, Test5!Piece,
           Test5!Padded, Test5!Ready, Test5!MaxL, Test5!Complete, Test5!Got, Test5!Field,
           Test5!Limit, A!T5!Next, A!T5!Put, A!T5!SelectFails, A!T5!Client, A!T5!Die,
           A!T5!Server, A!T5!Cardinality, A!T5!clientVars, A!T5!serverVars, A!T5!Send,
           A!T5!RecvKey, A!T5!RecvNumber, A!T5!Arrive, A!T5!Leave, A!T5!Accept,
           A!T5!KeyAndNumber, A!T5!KeyFails, A!T5!Serve, A!T5!IsFiniteSet, A!T5!After,
           A!T5!Piece, A!T5!Padded, A!T5!Ready, A!T5!MaxL, A!T5!Complete, A!T5!Got, A!T5!Field,
           A!T5!Limit
  <2> QED
    BY <2>1, ProgramSteps
<1>5. UNCHANGED all => UNCHANGED A!T5!vars
  BY DEF all, vars, own5, A!T5!vars, A!T5!clientVars, A!T5!serverVars
<1>6. [ProgramNext]_all => (runs <=> runs')
  BY ProgramStays
<1>7. A!T5!RecordsAreRight => Test5!RecordsAreRight
  <2>1. Test5!RecordsAreRight <=> A!T5!RecordsAreRight
    BY DEF Test5!RecordsAreRight, Test5!FinishedIsRight, Test5!KeysAgree, Test5!Padded,
           A!T5!RecordsAreRight, A!T5!FinishedIsRight, A!T5!KeysAgree, A!T5!Padded
  <2> QED
    BY <2>1
<1> HIDE DEF runs
<1>8. ProgramSpec => [](runs => Test5!RecordsAreRight)
  BY <1>2, <1>3, <1>4, <1>5, <1>6, <1>7, PTL DEF ProgramSpec, A!T5!Spec
<1> QED
  BY <1>8 DEF runs

\* win: RecordsAreRight of WinCollector.
LEMMA WinRuns ==
  ProgramSpec => [](which = "win" => Win!RecordsAreRight)
<1> DEFINE runs == which = "win"
<1>1. A!Win!WinAssumption
  BY InstancesAssumption
  DEF CollectorsAssumption, Win!WinAssumption, Win!IsFiniteSet, A!Win!WinAssumption,
      A!Win!IsFiniteSet
<1>2. A!Win!Spec => []A!Win!RecordsAreRight
  BY <1>1, A!WinRecordsAreRight
<1>3. ProgramInit /\ runs => A!Win!Init
  BY ProgramBegins
  DEF Win!Init, A!Win!Init
<1>4. ProgramNext /\ runs => A!Win!Next
  <2>1. Win!Next <=> A!Win!Next
    BY DEF Win!Next, Win!Put, Win!Client, Win!Arrive, Win!Server, Win!comp, Win!Cardinality,
           Win!clientVars, Win!Connect, Win!Turn, Win!serverVars, Win!Greet, Win!Recv,
           Win!IsFiniteSet, Win!Connected, Win!IsSet, Win!Complete, Win!Ret, Win!Field,
           Win!Limit, A!Win!Next, A!Win!Put, A!Win!Client, A!Win!Arrive, A!Win!Server,
           A!Win!comp, A!Win!Cardinality, A!Win!clientVars, A!Win!Connect, A!Win!Turn,
           A!Win!serverVars, A!Win!Greet, A!Win!Recv, A!Win!IsFiniteSet, A!Win!Connected,
           A!Win!IsSet, A!Win!Complete, A!Win!Ret, A!Win!Field, A!Win!Limit
  <2> QED
    BY <2>1, ProgramSteps
<1>5. UNCHANGED all => UNCHANGED A!Win!vars
  BY DEF all, vars, ownWin, A!Win!vars, A!Win!clientVars, A!Win!serverVars
<1>6. [ProgramNext]_all => (runs <=> runs')
  BY ProgramStays
<1>7. A!Win!RecordsAreRight => Win!RecordsAreRight
  <2>1. Win!RecordsAreRight <=> A!Win!RecordsAreRight
    BY DEF Win!RecordsAreRight, Win!FinishedIsRight, Win!StoredIsFinished,
           A!Win!RecordsAreRight, A!Win!FinishedIsRight, A!Win!StoredIsFinished
  <2> QED
    BY <2>1
<1> HIDE DEF runs
<1>8. ProgramSpec => [](runs => Win!RecordsAreRight)
  BY <1>2, <1>3, <1>4, <1>5, <1>6, <1>7, PTL DEF ProgramSpec, A!Win!Spec
<1> QED
  BY <1>8 DEF runs

\* test1: RecordsAreRight of ForkCollector.
LEMMA Test1Runs ==
  ProgramSpec => [](which = "test1" => Test1!RecordsAreRight)
<1> DEFINE runs == which = "test1"
<1>1. A!Fork!ForkAssumption
  BY InstancesAssumption
  DEF CollectorsAssumption, Test1!ForkAssumption, A!Fork!ForkAssumption
<1>2. A!Fork!Spec => []A!Fork!RecordsAreRight
  BY <1>1, A!ForkRecordsAreRight
<1>3. ProgramInit /\ runs => A!Fork!Init
  BY ProgramBegins
  DEF Test1!Init, A!Fork!Init
<1>4. ProgramNext /\ runs => A!Fork!Next
  <2>1. Test1!Next <=> A!Fork!Next
    BY DEF Test1!Next, Test1!Client, Test1!Die, Test1!Arrive, Test1!Accept, Test1!Child,
           Test1!Connect, Test1!Answer, Test1!Hear, Test1!Tell, Test1!childVars,
           Test1!clientVars, Test1!GreetOne, Test1!GreetAll, Test1!RecvOne, Test1!RecvAll,
           Test1!Insert, Test1!Size, Test1!Say, Test1!Choose, Test1!Ended, Test1!Kept,
           Test1!Least, Test1!Limit, Test1!Drained, A!Fork!Next, A!Fork!Client, A!Fork!Die,
           A!Fork!Arrive, A!Fork!Accept, A!Fork!Child, A!Fork!Connect, A!Fork!Answer,
           A!Fork!Hear, A!Fork!Tell, A!Fork!childVars, A!Fork!clientVars, A!Fork!GreetOne,
           A!Fork!GreetAll, A!Fork!RecvOne, A!Fork!RecvAll, A!Fork!Insert, A!Fork!Size,
           A!Fork!Say, A!Fork!Choose, A!Fork!Ended, A!Fork!Kept, A!Fork!Least, A!Fork!Limit,
           A!Fork!Drained
  <2> QED
    BY <2>1, ProgramSteps
<1>5. UNCHANGED all => UNCHANGED A!Fork!vars
  BY DEF all, vars, ownFork, A!Fork!vars, A!Fork!clientVars, A!Fork!childVars
<1>6. [ProgramNext]_all => (runs <=> runs')
  BY ProgramStays
<1>7. A!Fork!RecordsAreRight => Test1!RecordsAreRight
  <2>1. Test1!RecordsAreRight <=> A!Fork!RecordsAreRight
    BY DEF Test1!RecordsAreRight, Test1!InsertedLast, Test1!RecordedRight,
           Test1!RecordedBegins, Test1!Right, A!Fork!RecordsAreRight, A!Fork!InsertedLast,
           A!Fork!RecordedRight, A!Fork!RecordedBegins, A!Fork!Right
  <2> QED
    BY <2>1
<1> HIDE DEF runs
<1>8. ProgramSpec => [](runs => Test1!RecordsAreRight)
  BY <1>2, <1>3, <1>4, <1>5, <1>6, <1>7, PTL DEF ProgramSpec, A!Fork!Spec
<1> QED
  BY <1>8 DEF runs

\* lossyArray: DatagramsAreRight of DatagramCollector.
LEMMA ArrayLossyRuns ==
  ProgramSpec => [](which = "lossyArray" => ArrayLossy!DatagramsAreRight)
<1> DEFINE runs == which = "lossyArray"
<1>1. A!Dgram!DatagramAssumption
  BY InstancesAssumption
  DEF CollectorsAssumption, ArrayLossy!DatagramAssumption, ArrayLossy!IsFiniteSet,
      A!Dgram!DatagramAssumption, A!Dgram!IsFiniteSet
<1>2. A!Dgram!Spec => []A!Dgram!DatagramsAreRight
  BY <1>1, A!DgramRecordsAreRight
<1>3. ProgramInit /\ runs => A!Dgram!Init
  BY ProgramBegins
  DEF ArrayLossy!Init, A!Dgram!Init
<1>4. ProgramNext /\ runs => A!Dgram!Next
  <2>1. ArrayLossy!Next <=> A!Dgram!Next
    BY DEF ArrayLossy!Next, ArrayLossy!Server, ArrayLossy!ErrMap, ArrayLossy!Lose,
           ArrayLossy!Repeat, ArrayLossy!Client, ArrayLossy!Errs, ArrayLossy!EndArray,
           ArrayLossy!EndMap, ArrayLossy!RecvArray, ArrayLossy!RecvMap, ArrayLossy!RemoveAt,
           ArrayLossy!SendField, ArrayLossy!Hear, ArrayLossy!ToSet, ArrayLossy!process,
           ArrayLossy!Unset, ArrayLossy!Find, ArrayLossy!Row, ArrayLossy!Taken,
           ArrayLossy!Finished, ArrayLossy!NewData, ArrayLossy!Cardinality,
           ArrayLossy!SelectInSeq, ArrayLossy!IsFiniteSet, ArrayLossy!Min, A!Dgram!Next,
           A!Dgram!Server, A!Dgram!ErrMap, A!Dgram!Lose, A!Dgram!Repeat, A!Dgram!Client,
           A!Dgram!Errs, A!Dgram!EndArray, A!Dgram!EndMap, A!Dgram!RecvArray, A!Dgram!RecvMap,
           A!Dgram!RemoveAt, A!Dgram!SendField, A!Dgram!Hear, A!Dgram!ToSet, A!Dgram!process,
           A!Dgram!Unset, A!Dgram!Find, A!Dgram!Row, A!Dgram!Taken, A!Dgram!Finished,
           A!Dgram!NewData, A!Dgram!Cardinality, A!Dgram!SelectInSeq, A!Dgram!IsFiniteSet,
           A!Dgram!Min
  <2> QED
    BY <2>1, ProgramSteps
<1>5. UNCHANGED all => UNCHANGED A!Dgram!vars
  BY DEF all, vars, ownUdp, A!Dgram!vars
<1>6. [ProgramNext]_all => (runs <=> runs')
  BY ProgramStays
<1>7. A!Dgram!DatagramsAreRight => ArrayLossy!DatagramsAreRight
  <2>1. ArrayLossy!DatagramsAreRight <=> A!Dgram!DatagramsAreRight
    BY DEF ArrayLossy!DatagramsAreRight, ArrayLossy!OneRecord, ArrayLossy!OwnPorts,
           ArrayLossy!NoMixing, ArrayLossy!StoresAll, ArrayLossy!NoCrash, ArrayLossy!Complete,
           ArrayLossy!Row, A!Dgram!DatagramsAreRight, A!Dgram!OneRecord, A!Dgram!OwnPorts,
           A!Dgram!NoMixing, A!Dgram!StoresAll, A!Dgram!NoCrash, A!Dgram!Complete, A!Dgram!Row
  <2> QED
    BY <2>1
<1> HIDE DEF runs
<1>8. ProgramSpec => [](runs => ArrayLossy!DatagramsAreRight)
  BY <1>2, <1>3, <1>4, <1>5, <1>6, <1>7, PTL DEF ProgramSpec, A!Dgram!Spec
<1> QED
  BY <1>8 DEF runs

\* mapping: BytesAreRight and MappingStops of TcpNat.
LEMMA MappingRuns ==
  ProgramSpec => [](which = "mapping" =>
                     F!Mapping!BytesAreRight /\ F!Mapping!MappingStops)
<1> DEFINE runs == which = "mapping"
<1>1. A!Tcp!TcpNatAssumption
  BY InstancesAssumption
  DEF F!ForwardersAssumption, F!Mapping!TcpNatAssumption, A!Tcp!TcpNatAssumption
<1>2. A!Tcp!Spec => []A!Tcp!BytesAreRight
  BY <1>1, A!TcpBytesAreRight
<1>3. A!Tcp!Spec => []A!Tcp!MappingStops
  BY <1>1, A!TcpMappingStops
<1>4. ProgramInit /\ runs => A!Tcp!Init
  BY ProgramBegins
  DEF F!Mapping!Init, F!Mapping!Never, F!Mapping!Zero, A!Tcp!Init, A!Tcp!Never, A!Tcp!Zero
<1>5. ProgramNext /\ runs => A!Tcp!Next
  <2>1. F!Mapping!Next <=> A!Tcp!Next
    BY DEF F!Mapping!Next, F!Mapping!Call, F!Mapping!Stop, F!Mapping!Mapping, F!Mapping!Turn,
           F!Mapping!Sides, F!Mapping!sides, F!Mapping!copied, F!Mapping!Select,
           F!Mapping!AcceptFork, F!Mapping!Connected, F!Mapping!ConnectFails, F!Mapping!Len1,
           F!Mapping!Len2, F!Mapping!Out, F!Mapping!In, F!Mapping!ClientSends,
           F!Mapping!ClientEnds, F!Mapping!TargetSends, F!Mapping!TargetEnds, F!Mapping!Least,
           F!Mapping!Buff, F!Mapping!Quiet, F!Mapping!mapping, A!Tcp!Next, A!Tcp!Call,
           A!Tcp!Stop, A!Tcp!Mapping, A!Tcp!Turn, A!Tcp!Sides, A!Tcp!sides, A!Tcp!copied,
           A!Tcp!Select, A!Tcp!AcceptFork, A!Tcp!Connected, A!Tcp!ConnectFails, A!Tcp!Len1,
           A!Tcp!Len2, A!Tcp!Out, A!Tcp!In, A!Tcp!ClientSends, A!Tcp!ClientEnds,
           A!Tcp!TargetSends, A!Tcp!TargetEnds, A!Tcp!Least, A!Tcp!Buff, A!Tcp!Quiet,
           A!Tcp!mapping
  <2> QED
    BY <2>1, ProgramSteps
<1>6. UNCHANGED all => UNCHANGED A!Tcp!vars
  BY DEF all, A!Tcp!vars, A!Tcp!mapping, A!Tcp!sides, A!Tcp!copied
<1>7. [ProgramNext]_all => (runs <=> runs')
  BY ProgramStays
<1>8. A!Tcp!BytesAreRight /\ A!Tcp!MappingStops => F!Mapping!BytesAreRight /\ F!Mapping!MappingStops
  <2>1. F!Mapping!BytesAreRight <=> A!Tcp!BytesAreRight
    BY DEF F!Mapping!BytesAreRight, F!Mapping!TypeOK, F!Mapping!BackIsRight,
           F!Mapping!RelayedRight, F!Mapping!Bytes, A!Tcp!BytesAreRight, A!Tcp!TypeOK,
           A!Tcp!BackIsRight, A!Tcp!RelayedRight, A!Tcp!Bytes
  <2>2. F!Mapping!MappingStops <=> A!Tcp!MappingStops
    BY DEF F!Mapping!MappingStops, F!Mapping!StopEndsMapping, F!Mapping!RelaysHaveClients,
           A!Tcp!MappingStops, A!Tcp!StopEndsMapping, A!Tcp!RelaysHaveClients
  <2> QED
    BY <2>1, <2>2
<1> HIDE DEF runs
<1>9. ProgramSpec => [](runs => F!Mapping!BytesAreRight /\ F!Mapping!MappingStops)
  BY <1>2, <1>3, <1>4, <1>5, <1>6, <1>7, <1>8, PTL DEF ProgramSpec, A!Tcp!Spec
<1> QED
  BY <1>9 DEF runs

\* losing: RowsAreRight of UdpNat.
LEMMA LosingRuns ==
  ProgramSpec => [](which = "losing" => F!Losing!RowsAreRight)
<1> DEFINE runs == which = "losing"
<1>1. A!Udp!UdpNatAssumption
  BY InstancesAssumption
  DEF F!ForwardersAssumption, F!Losing!UdpNatAssumption, A!Udp!UdpNatAssumption
<1>2. A!Udp!Spec => []A!Udp!RowsAreRight
  BY <1>1, A!UdpRowsAreRight
<1>3. ProgramInit /\ runs => A!Udp!Init
  BY ProgramBegins
  DEF F!Losing!Init, A!Udp!Init
<1>4. ProgramNext /\ runs => A!Udp!Next
  <2>1. F!Losing!Next <=> A!Udp!Next
    BY DEF F!Losing!Next, F!Losing!Forwarder, F!Losing!Echo, F!Losing!Lose, F!Losing!Client,
           F!Losing!Return, F!Losing!Forward, F!Losing!clientVars, F!Losing!Send,
           F!Losing!Receive, F!Losing!RowOf, F!Losing!Listener, F!Losing!Row,
           F!Losing!SelectInSeq, F!Losing!Min, A!Udp!Next, A!Udp!Forwarder, A!Udp!Echo,
           A!Udp!Lose, A!Udp!Client, A!Udp!Return, A!Udp!Forward, A!Udp!clientVars, A!Udp!Send,
           A!Udp!Receive, A!Udp!RowOf, A!Udp!Listener, A!Udp!Row, A!Udp!SelectInSeq, A!Udp!Min
  <2> QED
    BY <2>1, ProgramSteps
<1>5. UNCHANGED all => UNCHANGED A!Udp!vars
  BY DEF all, A!Udp!vars, A!Udp!clientVars
<1>6. [ProgramNext]_all => (runs <=> runs')
  BY ProgramStays
<1>7. A!Udp!RowsAreRight => F!Losing!RowsAreRight
  <2>1. F!Losing!RowsAreRight <=> A!Udp!RowsAreRight
    BY DEF F!Losing!RowsAreRight, F!Losing!OneRow, F!Losing!OneUse, F!Losing!Routed,
           F!Losing!NothingShared, F!Losing!OwnAnswers, A!Udp!RowsAreRight, A!Udp!OneRow,
           A!Udp!OneUse, A!Udp!Routed, A!Udp!NothingShared, A!Udp!OwnAnswers
  <2> QED
    BY <2>1
<1> HIDE DEF runs
<1>8. ProgramSpec => [](runs => F!Losing!RowsAreRight)
  BY <1>2, <1>3, <1>4, <1>5, <1>6, <1>7, PTL DEF ProgramSpec, A!Udp!Spec
<1> QED
  BY <1>8 DEF runs

\* ports: MappingsAreMeant of PortRanges.
LEMMA PortsRuns ==
  F!Ports!WellFormed => (ProgramSpec => [](which = "ports" => F!Ports!MappingsAreMeant))
<1> SUFFICES ASSUME F!Ports!WellFormed
             PROVE  ProgramSpec => [](which = "ports" => F!Ports!MappingsAreMeant)
  OBVIOUS
<1> DEFINE runs == which = "ports"
<1>1. A!Ports!PortsAssumption /\ A!Ports!WellFormed
  BY InstancesAssumption
  DEF F!ForwardersAssumption, F!Ports!PortsAssumption, F!Ports!WellFormed, F!Ports!Digital,
      F!Ports!IsRange, A!Ports!PortsAssumption, A!Ports!WellFormed, A!Ports!Digital,
      A!Ports!IsRange
<1>2. A!Ports!Spec => []A!Ports!MappingsAreMeant
  BY <1>1, A!PortsAreMeant
<1>3. ProgramInit /\ runs => A!Ports!Init
  BY ProgramBegins
  DEF F!Ports!Init, F!Ports!SeqOf, F!Ports!Lines, A!Ports!Init, A!Ports!SeqOf, A!Ports!Lines
<1>4. ProgramNext /\ runs => A!Ports!Next
  <2>1. F!Ports!Next <=> A!Ports!Next
    BY DEF F!Ports!Next, F!Ports!ReadLine, F!Ports!Configs, F!Ports!CheckPort, F!Ports!Pairs,
           F!Ports!Atoi, F!Ports!GetPorts, F!Ports!Other, F!Ports!Number, F!Ports!Dash,
           F!Ports!SelectInSeq, F!Ports!Min, A!Ports!Next, A!Ports!ReadLine, A!Ports!Configs,
           A!Ports!CheckPort, A!Ports!Pairs, A!Ports!Atoi, A!Ports!GetPorts, A!Ports!Other,
           A!Ports!Number, A!Ports!Dash, A!Ports!SelectInSeq, A!Ports!Min
  <2> QED
    BY <2>1, ProgramSteps
<1>5. UNCHANGED all => UNCHANGED A!Ports!vars
  BY DEF all, A!Ports!vars
<1>6. [ProgramNext]_all => (runs <=> runs')
  BY ProgramStays
<1>7. A!Ports!MappingsAreMeant => F!Ports!MappingsAreMeant
  <2>1. F!Ports!MappingsAreMeant <=> A!Ports!MappingsAreMeant
    BY DEF F!Ports!MappingsAreMeant, F!Ports!Meaning, F!Ports!Atoi, F!Ports!Dash,
           F!Ports!IsRange, F!Ports!Number, F!Ports!Other, F!Ports!SelectInSeq,
           F!Ports!Digital, F!Ports!Min, A!Ports!MappingsAreMeant, A!Ports!Meaning,
           A!Ports!Atoi, A!Ports!Dash, A!Ports!IsRange, A!Ports!Number, A!Ports!Other,
           A!Ports!SelectInSeq, A!Ports!Digital, A!Ports!Min
  <2> QED
    BY <2>1
<1> HIDE DEF runs
<1>8. ProgramSpec => [](runs => F!Ports!MappingsAreMeant)
  BY <1>2, <1>3, <1>4, <1>5, <1>6, <1>7, PTL DEF ProgramSpec, A!Ports!Spec
<1> QED
  BY <1>8 DEF runs

-----------------------------------------------------------------------------
\* All at once in test2, a bad network and the map, sockets that are shared,
\* and a relay whose sides speak in turns.
B == INSTANCE PreProjectProofs WITH
  Sockets <- Clients, OneByOne <- FALSE, Pieces <- TRUE,
  Callers <- Clients, Port <- ClientPort, InMap <- TRUE, Ordered <- FALSE, Lossy <- TRUE,
  Uses <- Shared, MaxSends <- MaxLosing,
  Procs <- Relays, MaxClients <- MaxRelays, Slow <- FALSE, Full <- FALSE, InTurns <- TRUE

\* test2: RecordsAreRight of ForkCollector.
LEMMA Test2Runs ==
  ProgramSpec => [](which = "test2" => Test2!RecordsAreRight)
<1> DEFINE runs == which = "test2"
<1>1. B!Fork!ForkAssumption
  BY InstancesAssumption
  DEF CollectorsAssumption, Test2!ForkAssumption, B!Fork!ForkAssumption
<1>2. B!Fork!Spec => []B!Fork!RecordsAreRight
  BY <1>1, B!ForkRecordsAreRight
<1>3. ProgramInit /\ runs => B!Fork!Init
  BY ProgramBegins
  DEF Test2!Init, B!Fork!Init
<1>4. ProgramNext /\ runs => B!Fork!Next
  <2>1. Test2!Next <=> B!Fork!Next
    BY DEF Test2!Next, Test2!Client, Test2!Die, Test2!Arrive, Test2!Accept, Test2!Child,
           Test2!Connect, Test2!Answer, Test2!Hear, Test2!Tell, Test2!childVars,
           Test2!clientVars, Test2!GreetOne, Test2!GreetAll, Test2!RecvOne, Test2!RecvAll,
           Test2!Insert, Test2!Size, Test2!Say, Test2!Choose, Test2!Ended, Test2!Kept,
           Test2!Least, Test2!Limit, Test2!Drained, B!Fork!Next, B!Fork!Client, B!Fork!Die,
           B!Fork!Arrive, B!Fork!Accept, B!Fork!Child, B!Fork!Connect, B!Fork!Answer,
           B!Fork!Hear, B!Fork!Tell, B!Fork!childVars, B!Fork!clientVars, B!Fork!GreetOne,
           B!Fork!GreetAll, B!Fork!RecvOne, B!Fork!RecvAll, B!Fork!Insert, B!Fork!Size,
           B!Fork!Say, B!Fork!Choose, B!Fork!Ended, B!Fork!Kept, B!Fork!Least, B!Fork!Limit,
           B!Fork!Drained
  <2> QED
    BY <2>1, ProgramSteps
<1>5. UNCHANGED all => UNCHANGED B!Fork!vars
  BY DEF all, vars, ownFork, B!Fork!vars, B!Fork!clientVars, B!Fork!childVars
<1>6. [ProgramNext]_all => (runs <=> runs')
  BY ProgramStays
<1>7. B!Fork!RecordsAreRight => Test2!RecordsAreRight
  <2>1. Test2!RecordsAreRight <=> B!Fork!RecordsAreRight
    BY DEF Test2!RecordsAreRight, Test2!InsertedLast, Test2!RecordedRight,
           Test2!RecordedBegins, Test2!Right, B!Fork!RecordsAreRight, B!Fork!InsertedLast,
           B!Fork!RecordedRight, B!Fork!RecordedBegins, B!Fork!Right
  <2> QED
    BY <2>1
<1> HIDE DEF runs
<1>8. ProgramSpec => [](runs => Test2!RecordsAreRight)
  BY <1>2, <1>3, <1>4, <1>5, <1>6, <1>7, PTL DEF ProgramSpec, B!Fork!Spec
<1> QED
  BY <1>8 DEF runs

\* lossyMap: DatagramsAreRight of DatagramCollector.
LEMMA MapLossyRuns ==
  ProgramSpec => [](which = "lossyMap" => MapLossy!DatagramsAreRight)
<1> DEFINE runs == which = "lossyMap"
<1>1. B!Dgram!DatagramAssumption
  BY InstancesAssumption
  DEF CollectorsAssumption, MapLossy!DatagramAssumption, MapLossy!IsFiniteSet,
      B!Dgram!DatagramAssumption, B!Dgram!IsFiniteSet
<1>2. B!Dgram!Spec => []B!Dgram!DatagramsAreRight
  BY <1>1, B!DgramRecordsAreRight
<1>3. ProgramInit /\ runs => B!Dgram!Init
  BY ProgramBegins
  DEF MapLossy!Init, B!Dgram!Init
<1>4. ProgramNext /\ runs => B!Dgram!Next
  <2>1. MapLossy!Next <=> B!Dgram!Next
    BY DEF MapLossy!Next, MapLossy!Server, MapLossy!ErrMap, MapLossy!Lose, MapLossy!Repeat,
           MapLossy!Client, MapLossy!Errs, MapLossy!EndArray, MapLossy!EndMap,
           MapLossy!RecvArray, MapLossy!RecvMap, MapLossy!RemoveAt, MapLossy!SendField,
           MapLossy!Hear, MapLossy!ToSet, MapLossy!process, MapLossy!Unset, MapLossy!Find,
           MapLossy!Row, MapLossy!Taken, MapLossy!Finished, MapLossy!NewData,
           MapLossy!Cardinality, MapLossy!SelectInSeq, MapLossy!IsFiniteSet, MapLossy!Min,
           B!Dgram!Next, B!Dgram!Server, B!Dgram!ErrMap, B!Dgram!Lose, B!Dgram!Repeat,
           B!Dgram!Client, B!Dgram!Errs, B!Dgram!EndArray, B!Dgram!EndMap, B!Dgram!RecvArray,
           B!Dgram!RecvMap, B!Dgram!RemoveAt, B!Dgram!SendField, B!Dgram!Hear, B!Dgram!ToSet,
           B!Dgram!process, B!Dgram!Unset, B!Dgram!Find, B!Dgram!Row, B!Dgram!Taken,
           B!Dgram!Finished, B!Dgram!NewData, B!Dgram!Cardinality, B!Dgram!SelectInSeq,
           B!Dgram!IsFiniteSet, B!Dgram!Min
  <2> QED
    BY <2>1, ProgramSteps
<1>5. UNCHANGED all => UNCHANGED B!Dgram!vars
  BY DEF all, vars, ownUdp, B!Dgram!vars
<1>6. [ProgramNext]_all => (runs <=> runs')
  BY ProgramStays
<1>7. B!Dgram!DatagramsAreRight => MapLossy!DatagramsAreRight
  <2>1. MapLossy!DatagramsAreRight <=> B!Dgram!DatagramsAreRight
    BY DEF MapLossy!DatagramsAreRight, MapLossy!OneRecord, MapLossy!OwnPorts,
           MapLossy!NoMixing, MapLossy!StoresAll, MapLossy!NoCrash, MapLossy!Complete,
           MapLossy!Row, B!Dgram!DatagramsAreRight, B!Dgram!OneRecord, B!Dgram!OwnPorts,
           B!Dgram!NoMixing, B!Dgram!StoresAll, B!Dgram!NoCrash, B!Dgram!Complete, B!Dgram!Row
  <2> QED
    BY <2>1
<1> HIDE DEF runs
<1>8. ProgramSpec => [](runs => MapLossy!DatagramsAreRight)
  BY <1>2, <1>3, <1>4, <1>5, <1>6, <1>7, PTL DEF ProgramSpec, B!Dgram!Spec
<1> QED
  BY <1>8 DEF runs

\* turns: BytesAreRight and MappingStops of TcpNat.
LEMMA TurnsRuns ==
  ProgramSpec => [](which = "turns" => F!Turns!BytesAreRight /\ F!Turns!MappingStops)
<1> DEFINE runs == which = "turns"
<1>1. B!Tcp!TcpNatAssumption
  BY InstancesAssumption
  DEF F!ForwardersAssumption, F!Turns!TcpNatAssumption, B!Tcp!TcpNatAssumption
<1>2. B!Tcp!Spec => []B!Tcp!BytesAreRight
  BY <1>1, B!TcpBytesAreRight
<1>3. B!Tcp!Spec => []B!Tcp!MappingStops
  BY <1>1, B!TcpMappingStops
<1>4. ProgramInit /\ runs => B!Tcp!Init
  BY ProgramBegins
  DEF F!Turns!Init, F!Turns!Never, F!Turns!Zero, B!Tcp!Init, B!Tcp!Never, B!Tcp!Zero
<1>5. ProgramNext /\ runs => B!Tcp!Next
  <2>1. F!Turns!Next <=> B!Tcp!Next
    BY DEF F!Turns!Next, F!Turns!Call, F!Turns!Stop, F!Turns!Mapping, F!Turns!Turn,
           F!Turns!Sides, F!Turns!sides, F!Turns!copied, F!Turns!Select, F!Turns!AcceptFork,
           F!Turns!Connected, F!Turns!ConnectFails, F!Turns!Len1, F!Turns!Len2, F!Turns!Out,
           F!Turns!In, F!Turns!ClientSends, F!Turns!ClientEnds, F!Turns!TargetSends,
           F!Turns!TargetEnds, F!Turns!Least, F!Turns!Buff, F!Turns!Quiet, F!Turns!mapping,
           B!Tcp!Next, B!Tcp!Call, B!Tcp!Stop, B!Tcp!Mapping, B!Tcp!Turn, B!Tcp!Sides,
           B!Tcp!sides, B!Tcp!copied, B!Tcp!Select, B!Tcp!AcceptFork, B!Tcp!Connected,
           B!Tcp!ConnectFails, B!Tcp!Len1, B!Tcp!Len2, B!Tcp!Out, B!Tcp!In, B!Tcp!ClientSends,
           B!Tcp!ClientEnds, B!Tcp!TargetSends, B!Tcp!TargetEnds, B!Tcp!Least, B!Tcp!Buff,
           B!Tcp!Quiet, B!Tcp!mapping
  <2> QED
    BY <2>1, ProgramSteps
<1>6. UNCHANGED all => UNCHANGED B!Tcp!vars
  BY DEF all, B!Tcp!vars, B!Tcp!mapping, B!Tcp!sides, B!Tcp!copied
<1>7. [ProgramNext]_all => (runs <=> runs')
  BY ProgramStays
<1>8. B!Tcp!BytesAreRight /\ B!Tcp!MappingStops => F!Turns!BytesAreRight /\ F!Turns!MappingStops
  <2>1. F!Turns!BytesAreRight <=> B!Tcp!BytesAreRight
    BY DEF F!Turns!BytesAreRight, F!Turns!TypeOK, F!Turns!BackIsRight, F!Turns!RelayedRight,
           F!Turns!Bytes, B!Tcp!BytesAreRight, B!Tcp!TypeOK, B!Tcp!BackIsRight,
           B!Tcp!RelayedRight, B!Tcp!Bytes
  <2>2. F!Turns!MappingStops <=> B!Tcp!MappingStops
    BY DEF F!Turns!MappingStops, F!Turns!StopEndsMapping, F!Turns!RelaysHaveClients,
           B!Tcp!MappingStops, B!Tcp!StopEndsMapping, B!Tcp!RelaysHaveClients
  <2> QED
    BY <2>1, <2>2
<1> HIDE DEF runs
<1>9. ProgramSpec => [](runs => F!Turns!BytesAreRight /\ F!Turns!MappingStops)
  BY <1>2, <1>3, <1>4, <1>5, <1>6, <1>7, <1>8, PTL DEF ProgramSpec, B!Tcp!Spec
<1> QED
  BY <1>9 DEF runs

\* mixed: RowsAreRight of UdpNat.
LEMMA MixedRuns ==
  ProgramSpec => [](which = "mixed" => F!Mixed!RowsAreRight)
<1> DEFINE runs == which = "mixed"
<1>1. B!Udp!UdpNatAssumption
  BY InstancesAssumption
  DEF F!ForwardersAssumption, F!Mixed!UdpNatAssumption, B!Udp!UdpNatAssumption
<1>2. B!Udp!Spec => []B!Udp!RowsAreRight
  BY <1>1, B!UdpRowsAreRight
<1>3. ProgramInit /\ runs => B!Udp!Init
  BY ProgramBegins
  DEF F!Mixed!Init, B!Udp!Init
<1>4. ProgramNext /\ runs => B!Udp!Next
  <2>1. F!Mixed!Next <=> B!Udp!Next
    BY DEF F!Mixed!Next, F!Mixed!Forwarder, F!Mixed!Echo, F!Mixed!Lose, F!Mixed!Client,
           F!Mixed!Return, F!Mixed!Forward, F!Mixed!clientVars, F!Mixed!Send, F!Mixed!Receive,
           F!Mixed!RowOf, F!Mixed!Listener, F!Mixed!Row, F!Mixed!SelectInSeq, F!Mixed!Min,
           B!Udp!Next, B!Udp!Forwarder, B!Udp!Echo, B!Udp!Lose, B!Udp!Client, B!Udp!Return,
           B!Udp!Forward, B!Udp!clientVars, B!Udp!Send, B!Udp!Receive, B!Udp!RowOf,
           B!Udp!Listener, B!Udp!Row, B!Udp!SelectInSeq, B!Udp!Min
  <2> QED
    BY <2>1, ProgramSteps
<1>5. UNCHANGED all => UNCHANGED B!Udp!vars
  BY DEF all, B!Udp!vars, B!Udp!clientVars
<1>6. [ProgramNext]_all => (runs <=> runs')
  BY ProgramStays
<1>7. B!Udp!RowsAreRight => F!Mixed!RowsAreRight
  <2>1. F!Mixed!RowsAreRight <=> B!Udp!RowsAreRight
    BY DEF F!Mixed!RowsAreRight, F!Mixed!OneRow, F!Mixed!OneUse, F!Mixed!Routed,
           F!Mixed!NothingShared, F!Mixed!OwnAnswers, B!Udp!RowsAreRight, B!Udp!OneRow,
           B!Udp!OneUse, B!Udp!Routed, B!Udp!NothingShared, B!Udp!OwnAnswers
  <2> QED
    BY <2>1
<1> HIDE DEF runs
<1>8. ProgramSpec => [](runs => F!Mixed!RowsAreRight)
  BY <1>2, <1>3, <1>4, <1>5, <1>6, <1>7, PTL DEF ProgramSpec, B!Udp!Spec
<1> QED
  BY <1>8 DEF runs

-----------------------------------------------------------------------------
\* A good network and the arrays, and a relay whose sides speak at once.
C == INSTANCE PreProjectProofs WITH
  Sockets <- Clients, OneByOne <- FALSE, Pieces <- TRUE,
  InMap <- FALSE, Ordered <- TRUE, Lossy <- FALSE, MaxRepeats <- 0, Uses <- Alone,
  Procs <- Relays, MaxClients <- MaxRelays, Slow <- TRUE, Full <- TRUE, InTurns <- FALSE

\* array: DatagramsAreRight of DatagramCollector.
LEMMA ArrayRuns ==
  ProgramSpec => [](which = "array" => Array!DatagramsAreRight)
<1> DEFINE runs == which = "array"
<1>1. C!Dgram!DatagramAssumption
  BY InstancesAssumption
  DEF CollectorsAssumption, Array!DatagramAssumption, Array!IsFiniteSet,
      C!Dgram!DatagramAssumption, C!Dgram!IsFiniteSet
<1>2. C!Dgram!Spec => []C!Dgram!DatagramsAreRight
  BY <1>1, C!DgramRecordsAreRight
<1>3. ProgramInit /\ runs => C!Dgram!Init
  BY ProgramBegins
  DEF Array!Init, C!Dgram!Init
<1>4. ProgramNext /\ runs => C!Dgram!Next
  <2>1. Array!Next <=> C!Dgram!Next
    BY DEF Array!Next, Array!Server, Array!ErrMap, Array!Lose, Array!Repeat, Array!Client,
           Array!Errs, Array!EndArray, Array!EndMap, Array!RecvArray, Array!RecvMap,
           Array!RemoveAt, Array!SendField, Array!Hear, Array!ToSet, Array!process,
           Array!Unset, Array!Find, Array!Row, Array!Taken, Array!Finished, Array!NewData,
           Array!Cardinality, Array!SelectInSeq, Array!IsFiniteSet, Array!Min, C!Dgram!Next,
           C!Dgram!Server, C!Dgram!ErrMap, C!Dgram!Lose, C!Dgram!Repeat, C!Dgram!Client,
           C!Dgram!Errs, C!Dgram!EndArray, C!Dgram!EndMap, C!Dgram!RecvArray, C!Dgram!RecvMap,
           C!Dgram!RemoveAt, C!Dgram!SendField, C!Dgram!Hear, C!Dgram!ToSet, C!Dgram!process,
           C!Dgram!Unset, C!Dgram!Find, C!Dgram!Row, C!Dgram!Taken, C!Dgram!Finished,
           C!Dgram!NewData, C!Dgram!Cardinality, C!Dgram!SelectInSeq, C!Dgram!IsFiniteSet,
           C!Dgram!Min
  <2> QED
    BY <2>1, ProgramSteps
<1>5. UNCHANGED all => UNCHANGED C!Dgram!vars
  BY DEF all, vars, ownUdp, C!Dgram!vars
<1>6. [ProgramNext]_all => (runs <=> runs')
  BY ProgramStays
<1>7. C!Dgram!DatagramsAreRight => Array!DatagramsAreRight
  <2>1. Array!DatagramsAreRight <=> C!Dgram!DatagramsAreRight
    BY DEF Array!DatagramsAreRight, Array!OneRecord, Array!OwnPorts, Array!NoMixing,
           Array!StoresAll, Array!NoCrash, Array!Complete, Array!Row,
           C!Dgram!DatagramsAreRight, C!Dgram!OneRecord, C!Dgram!OwnPorts, C!Dgram!NoMixing,
           C!Dgram!StoresAll, C!Dgram!NoCrash, C!Dgram!Complete, C!Dgram!Row
  <2> QED
    BY <2>1
<1> HIDE DEF runs
<1>8. ProgramSpec => [](runs => Array!DatagramsAreRight)
  BY <1>2, <1>3, <1>4, <1>5, <1>6, <1>7, PTL DEF ProgramSpec, C!Dgram!Spec
<1> QED
  BY <1>8 DEF runs

\* atOnce: BytesAreRight and MappingStops of TcpNat.
LEMMA AtOnceRuns ==
  ProgramSpec => [](which = "atOnce" =>
                     F!AtOnce!BytesAreRight /\ F!AtOnce!MappingStops)
<1> DEFINE runs == which = "atOnce"
<1>1. C!Tcp!TcpNatAssumption
  BY InstancesAssumption
  DEF F!ForwardersAssumption, F!AtOnce!TcpNatAssumption, C!Tcp!TcpNatAssumption
<1>2. C!Tcp!Spec => []C!Tcp!BytesAreRight
  BY <1>1, C!TcpBytesAreRight
<1>3. C!Tcp!Spec => []C!Tcp!MappingStops
  BY <1>1, C!TcpMappingStops
<1>4. ProgramInit /\ runs => C!Tcp!Init
  BY ProgramBegins
  DEF F!AtOnce!Init, F!AtOnce!Never, F!AtOnce!Zero, C!Tcp!Init, C!Tcp!Never, C!Tcp!Zero
<1>5. ProgramNext /\ runs => C!Tcp!Next
  <2>1. F!AtOnce!Next <=> C!Tcp!Next
    BY DEF F!AtOnce!Next, F!AtOnce!Call, F!AtOnce!Stop, F!AtOnce!Mapping, F!AtOnce!Turn,
           F!AtOnce!Sides, F!AtOnce!sides, F!AtOnce!copied, F!AtOnce!Select,
           F!AtOnce!AcceptFork, F!AtOnce!Connected, F!AtOnce!ConnectFails, F!AtOnce!Len1,
           F!AtOnce!Len2, F!AtOnce!Out, F!AtOnce!In, F!AtOnce!ClientSends, F!AtOnce!ClientEnds,
           F!AtOnce!TargetSends, F!AtOnce!TargetEnds, F!AtOnce!Least, F!AtOnce!Buff,
           F!AtOnce!Quiet, F!AtOnce!mapping, C!Tcp!Next, C!Tcp!Call, C!Tcp!Stop, C!Tcp!Mapping,
           C!Tcp!Turn, C!Tcp!Sides, C!Tcp!sides, C!Tcp!copied, C!Tcp!Select, C!Tcp!AcceptFork,
           C!Tcp!Connected, C!Tcp!ConnectFails, C!Tcp!Len1, C!Tcp!Len2, C!Tcp!Out, C!Tcp!In,
           C!Tcp!ClientSends, C!Tcp!ClientEnds, C!Tcp!TargetSends, C!Tcp!TargetEnds,
           C!Tcp!Least, C!Tcp!Buff, C!Tcp!Quiet, C!Tcp!mapping
  <2> QED
    BY <2>1, ProgramSteps
<1>6. UNCHANGED all => UNCHANGED C!Tcp!vars
  BY DEF all, C!Tcp!vars, C!Tcp!mapping, C!Tcp!sides, C!Tcp!copied
<1>7. [ProgramNext]_all => (runs <=> runs')
  BY ProgramStays
<1>8. C!Tcp!BytesAreRight /\ C!Tcp!MappingStops => F!AtOnce!BytesAreRight /\ F!AtOnce!MappingStops
  <2>1. F!AtOnce!BytesAreRight <=> C!Tcp!BytesAreRight
    BY DEF F!AtOnce!BytesAreRight, F!AtOnce!TypeOK, F!AtOnce!BackIsRight,
           F!AtOnce!RelayedRight, F!AtOnce!Bytes, C!Tcp!BytesAreRight, C!Tcp!TypeOK,
           C!Tcp!BackIsRight, C!Tcp!RelayedRight, C!Tcp!Bytes
  <2>2. F!AtOnce!MappingStops <=> C!Tcp!MappingStops
    BY DEF F!AtOnce!MappingStops, F!AtOnce!StopEndsMapping, F!AtOnce!RelaysHaveClients,
           C!Tcp!MappingStops, C!Tcp!StopEndsMapping, C!Tcp!RelaysHaveClients
  <2> QED
    BY <2>1, <2>2
<1> HIDE DEF runs
<1>9. ProgramSpec => [](runs => F!AtOnce!BytesAreRight /\ F!AtOnce!MappingStops)
  BY <1>2, <1>3, <1>4, <1>5, <1>6, <1>7, <1>8, PTL DEF ProgramSpec, C!Tcp!Spec
<1> QED
  BY <1>9 DEF runs

\* apart: RowsAreRight of UdpNat.
LEMMA ApartRuns ==
  ProgramSpec => [](which = "apart" => F!Apart!RowsAreRight)
<1> DEFINE runs == which = "apart"
<1>1. C!Udp!UdpNatAssumption
  BY InstancesAssumption
  DEF F!ForwardersAssumption, F!Apart!UdpNatAssumption, C!Udp!UdpNatAssumption
<1>2. C!Udp!Spec => []C!Udp!RowsAreRight
  BY <1>1, C!UdpRowsAreRight
<1>3. ProgramInit /\ runs => C!Udp!Init
  BY ProgramBegins
  DEF F!Apart!Init, C!Udp!Init
<1>4. ProgramNext /\ runs => C!Udp!Next
  <2>1. F!Apart!Next <=> C!Udp!Next
    BY DEF F!Apart!Next, F!Apart!Forwarder, F!Apart!Echo, F!Apart!Lose, F!Apart!Client,
           F!Apart!Return, F!Apart!Forward, F!Apart!clientVars, F!Apart!Send, F!Apart!Receive,
           F!Apart!RowOf, F!Apart!Listener, F!Apart!Row, F!Apart!SelectInSeq, F!Apart!Min,
           C!Udp!Next, C!Udp!Forwarder, C!Udp!Echo, C!Udp!Lose, C!Udp!Client, C!Udp!Return,
           C!Udp!Forward, C!Udp!clientVars, C!Udp!Send, C!Udp!Receive, C!Udp!RowOf,
           C!Udp!Listener, C!Udp!Row, C!Udp!SelectInSeq, C!Udp!Min
  <2> QED
    BY <2>1, ProgramSteps
<1>5. UNCHANGED all => UNCHANGED C!Udp!vars
  BY DEF all, C!Udp!vars, C!Udp!clientVars
<1>6. [ProgramNext]_all => (runs <=> runs')
  BY ProgramStays
<1>7. C!Udp!RowsAreRight => F!Apart!RowsAreRight
  <2>1. F!Apart!RowsAreRight <=> C!Udp!RowsAreRight
    BY DEF F!Apart!RowsAreRight, F!Apart!OneRow, F!Apart!OneUse, F!Apart!Routed,
           F!Apart!NothingShared, F!Apart!OwnAnswers, C!Udp!RowsAreRight, C!Udp!OneRow,
           C!Udp!OneUse, C!Udp!Routed, C!Udp!NothingShared, C!Udp!OwnAnswers
  <2> QED
    BY <2>1
<1> HIDE DEF runs
<1>8. ProgramSpec => [](runs => F!Apart!RowsAreRight)
  BY <1>2, <1>3, <1>4, <1>5, <1>6, <1>7, PTL DEF ProgramSpec, C!Udp!Spec
<1> QED
  BY <1>8 DEF runs

-----------------------------------------------------------------------------
\* A good network and the map.
D == INSTANCE PreProjectProofs WITH
  Sockets <- Clients, OneByOne <- FALSE, Pieces <- TRUE,
  InMap <- TRUE, Ordered <- TRUE, Lossy <- FALSE, MaxRepeats <- 0, Uses <- Alone,
  Slow <- TRUE, Full <- TRUE, InTurns <- FALSE

\* map: DatagramsAreRight of DatagramCollector.
LEMMA MapRuns ==
  ProgramSpec => [](which = "map" => Map!DatagramsAreRight)
<1> DEFINE runs == which = "map"
<1>1. D!Dgram!DatagramAssumption
  BY InstancesAssumption
  DEF CollectorsAssumption, Map!DatagramAssumption, Map!IsFiniteSet,
      D!Dgram!DatagramAssumption, D!Dgram!IsFiniteSet
<1>2. D!Dgram!Spec => []D!Dgram!DatagramsAreRight
  BY <1>1, D!DgramRecordsAreRight
<1>3. ProgramInit /\ runs => D!Dgram!Init
  BY ProgramBegins
  DEF Map!Init, D!Dgram!Init
<1>4. ProgramNext /\ runs => D!Dgram!Next
  <2>1. Map!Next <=> D!Dgram!Next
    BY DEF Map!Next, Map!Server, Map!ErrMap, Map!Lose, Map!Repeat, Map!Client, Map!Errs,
           Map!EndArray, Map!EndMap, Map!RecvArray, Map!RecvMap, Map!RemoveAt, Map!SendField,
           Map!Hear, Map!ToSet, Map!process, Map!Unset, Map!Find, Map!Row, Map!Taken,
           Map!Finished, Map!NewData, Map!Cardinality, Map!SelectInSeq, Map!IsFiniteSet,
           Map!Min, D!Dgram!Next, D!Dgram!Server, D!Dgram!ErrMap, D!Dgram!Lose, D!Dgram!Repeat,
           D!Dgram!Client, D!Dgram!Errs, D!Dgram!EndArray, D!Dgram!EndMap, D!Dgram!RecvArray,
           D!Dgram!RecvMap, D!Dgram!RemoveAt, D!Dgram!SendField, D!Dgram!Hear, D!Dgram!ToSet,
           D!Dgram!process, D!Dgram!Unset, D!Dgram!Find, D!Dgram!Row, D!Dgram!Taken,
           D!Dgram!Finished, D!Dgram!NewData, D!Dgram!Cardinality, D!Dgram!SelectInSeq,
           D!Dgram!IsFiniteSet, D!Dgram!Min
  <2> QED
    BY <2>1, ProgramSteps
<1>5. UNCHANGED all => UNCHANGED D!Dgram!vars
  BY DEF all, vars, ownUdp, D!Dgram!vars
<1>6. [ProgramNext]_all => (runs <=> runs')
  BY ProgramStays
<1>7. D!Dgram!DatagramsAreRight => Map!DatagramsAreRight
  <2>1. Map!DatagramsAreRight <=> D!Dgram!DatagramsAreRight
    BY DEF Map!DatagramsAreRight, Map!OneRecord, Map!OwnPorts, Map!NoMixing, Map!StoresAll,
           Map!NoCrash, Map!Complete, Map!Row, D!Dgram!DatagramsAreRight, D!Dgram!OneRecord,
           D!Dgram!OwnPorts, D!Dgram!NoMixing, D!Dgram!StoresAll, D!Dgram!NoCrash,
           D!Dgram!Complete, D!Dgram!Row
  <2> QED
    BY <2>1
<1> HIDE DEF runs
<1>8. ProgramSpec => [](runs => Map!DatagramsAreRight)
  BY <1>2, <1>3, <1>4, <1>5, <1>6, <1>7, PTL DEF ProgramSpec, D!Dgram!Spec
<1> QED
  BY <1>8 DEF runs

-----------------------------------------------------------------------------
(* Whichever program runs *)

\* The collectors on streams: the records of whichever runs are its clients'
\* (RecordsAreRight).
THEOREM CollectorsAreRight == ProgramSpec => []RecordsAreRight
<1>1. /\ (which = "test3" => Test3!RecordsAreRight)
      /\ (which = "test5" => Test5!RecordsAreRight)
      /\ (which = "win" => Win!RecordsAreRight)
      /\ (which = "test1" => Test1!RecordsAreRight)
      /\ (which = "test2" => Test2!RecordsAreRight)
      => RecordsAreRight
  BY DEF RecordsAreRight
<1> QED
  BY <1>1, Test3Runs, Test5Runs, WinRuns, Test1Runs, Test2Runs, PTL

\* The collectors over UDP: their records are as right as ports and network
\* allow (DatagramsAreRight).
THEOREM DatagramsRight == ProgramSpec => []DatagramsAreRight
<1>1. /\ (which = "array" => Array!DatagramsAreRight)
      /\ (which = "map" => Map!DatagramsAreRight)
      /\ (which = "lossyArray" => ArrayLossy!DatagramsAreRight)
      /\ (which = "lossyMap" => MapLossy!DatagramsAreRight)
      => DatagramsAreRight
  BY DEF DatagramsAreRight
<1> QED
  BY <1>1, ArrayRuns, MapRuns, ArrayLossyRuns, MapLossyRuns, PTL

\* A relay of the TCP forwarder writes to either side what it read from the
\* other, as far as its lengths allow (BytesAreRight).
THEOREM RelaysAreRight == ProgramSpec => []BytesAreRight
<1>1. /\ (which = "turns" => F!Turns!BytesAreRight)
      /\ (which = "atOnce" => F!AtOnce!BytesAreRight)
      /\ (which = "mapping" => F!Mapping!BytesAreRight)
      => BytesAreRight
  BY DEF BytesAreRight, F!BytesAreRight
<1> QED
  BY <1>1, TurnsRuns, AtOnceRuns, MappingRuns, PTL

\* A relay on a port of the TCP forwarder has its client, and nobody accepts
\* on it once it is stopped (MappingStops).
THEOREM MappingsStop == ProgramSpec => []MappingStops
<1>1. /\ (which = "turns" => F!Turns!MappingStops)
      /\ (which = "atOnce" => F!AtOnce!MappingStops)
      /\ (which = "mapping" => F!Mapping!MappingStops)
      => MappingStops
  BY DEF MappingStops, F!MappingStops
<1> QED
  BY <1>1, TurnsRuns, AtOnceRuns, MappingRuns, PTL

\* The rows of the UDP forwarder, and what it sends by them (RowsAreRight).
THEOREM AnswersAreRouted == ProgramSpec => []RowsAreRight
<1>1. /\ (which = "apart" => F!Apart!RowsAreRight)
      /\ (which = "losing" => F!Losing!RowsAreRight)
      /\ (which = "mixed" => F!Mixed!RowsAreRight)
      => RowsAreRight
  BY DEF RowsAreRight, F!RowsAreRight
<1> QED
  BY <1>1, ApartRuns, LosingRuns, MixedRuns, PTL

\* The configuration maps the ports that its lines mean (MappingsAreMeant).
THEOREM ConfigurationIsMeant == F!Ports!WellFormed => (ProgramSpec => []MappingsAreMeant)
<1> SUFFICES ASSUME F!Ports!WellFormed
             PROVE  ProgramSpec => []MappingsAreMeant
  OBVIOUS
<1>1. (which = "ports" => F!Ports!MappingsAreMeant)
      => MappingsAreMeant
  BY DEF MappingsAreMeant, F!MappingsAreMeant
<1> QED
  BY <1>1, PortsRuns, PTL
=============================================================================
