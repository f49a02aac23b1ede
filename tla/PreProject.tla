----------------------------- MODULE PreProject -----------------------------
(***************************************************************************)
(* The programs of Pre-Project, any one of them: a collector of Collectors *)
(* or a forwarder of Forwarders.                                           *)
(***************************************************************************)
EXTENDS Collectors

CONSTANTS
  Root, Relays, MaxRelays, MaxBytes, BUFL, Procs, MaxClients, MappingBytes,
  UDPParas, Transfer, Alone, Shared, MaxSends, MaxLosing,
  Digits, Base, Fields, MaxLines       \* see Forwarders

VARIABLES
  role, calls, connections, stopped, hasClient, inSent, inRead, inEnd,
  outSent, outRead, outEnd, toOut, toIn, logged,
  UDPTables, requests, forwarded, answers, returned, sends, waiting, got,
  file, ss, configs, through

F == INSTANCE Forwarders

all == <<which, vars,
         role, calls, connections, stopped, hasClient, inSent, inRead, inEnd,
         outSent, outRead, outEnd, toOut, toIn, logged,
         UDPTables, requests, forwarded, answers, returned, sends, waiting, got,
         file, ss, configs, through>>

ASSUME InstancesAssumption == CollectorsAssumption /\ F!ForwardersAssumption

Collects(A) == A /\ F!Still /\ UNCHANGED which
Forwards(A) == A /\ Still /\ UNCHANGED which

ProgramInit == (Init /\ F!Off) \/ (F!Init /\ Off)
ProgramNext == Collects(Next) \/ Forwards(F!Next)

ProgramSpec == ProgramInit /\ [][ProgramNext]_all

\* The kernels run the programs, and the network delivers: the fairness of
\* the modules, for the program that runs.
FairProgramSpec ==
  /\ ProgramSpec
  /\ WF_all(Collects(Server) \/ Forwards(F!Forwarder))
  /\ \A c \in Clients \union Callers : WF_all(Collects(Client(c)) \/ Forwards(F!Receive(c)))
  /\ \A c \in Clients : /\ WF_all(Collects(Connection(c)) \/ Forwards(F!Echo))
                        /\ WF_all(Collects(Delivery(c)))
                        /\ WF_all(Collects(Parent(c)))

-----------------------------------------------------------------------------
(* Properties: those of Collectors, and *)

\* The TCP forwarder: see Forwarders.
BytesAreRight == F!BytesAreRight
MappingStops == F!MappingStops

\* The UDP forwarder: see Forwarders.
RowsAreRight == F!RowsAreRight
Answered == F!Answered

\* Its configuration: see Forwarders.
MappingsAreMeant == F!MappingsAreMeant
=============================================================================
