----------------------------- MODULE Forwarders -----------------------------
(***************************************************************************)
(* The forwarders of Pre-Project and their configuration, any one of them: *)
(* as in Collectors, which says whose step it is.                          *)
(***************************************************************************)
CONSTANTS
  Clients, None,
  Root, Relays, MaxRelays, MaxBytes, BUFL,     \* of a relay over TCP
  Procs, MaxClients, MappingBytes,             \* of a mapping over TCP
  UDPParas, Transfer, Alone, Shared,           \* over UDP: sockets, and who uses which
  MaxSends, MaxLosing,                         \* bounds of what is sent
  Digits, Base, Fields, MaxLines               \* of the configuration

VARIABLES which,
  role, calls, connections, stopped, hasClient, inSent, inRead, inEnd,  \* of TcpNat
  outSent, outRead, outEnd, toOut, toIn, logged,
  UDPTables, requests, forwarded, answers, returned,                    \* of UdpNat
  sends, waiting, got,
  file, ss, configs, through                                            \* of PortRanges

ownTcp == <<role, calls, connections, stopped, hasClient, inSent, inRead, inEnd,
            outSent, outRead, outEnd, toOut, toIn, logged>>
ownNat == <<UDPTables, requests, forwarded, answers, returned, sends, waiting, got>>
ownFile == <<file, ss, configs, through>>

\* A relay whose sides speak in turns, or at once with a slow target whose
\* socket may be full; the processes of a mapping.
Turns == INSTANCE TcpNat WITH queue <- calls, Procs <- Relays, MaxClients <- MaxRelays,
  Slow <- FALSE, Full <- FALSE, InTurns <- TRUE
AtOnce == INSTANCE TcpNat WITH queue <- calls, Procs <- Relays, MaxClients <- MaxRelays,
  Slow <- TRUE, Full <- TRUE, InTurns <- FALSE
Mapping == INSTANCE TcpNat WITH queue <- calls, MaxBytes <- MappingBytes,
  Slow <- FALSE, Full <- FALSE, InTurns <- FALSE

\* Clients that share nothing, on a network that loses nothing or some, and
\* clients that share listening sockets.
Apart == INSTANCE UdpNat WITH Uses <- Alone, Lossy <- FALSE
Losing == INSTANCE UdpNat WITH Uses <- Alone, MaxSends <- MaxLosing, Lossy <- TRUE
Mixed == INSTANCE UdpNat WITH Uses <- Shared, MaxSends <- MaxLosing, Lossy <- TRUE

Ports == INSTANCE PortRanges WITH read <- through

\* Assumed of the constants of the instances.
ForwardersAssumption ==
  /\ Turns!TcpNatAssumption /\ AtOnce!TcpNatAssumption /\ Mapping!TcpNatAssumption
  /\ Apart!UdpNatAssumption /\ Losing!UdpNatAssumption /\ Mixed!UdpNatAssumption
  /\ Ports!PortsAssumption

-----------------------------------------------------------------------------
NoTcp == /\ role = None /\ calls = None /\ connections = None /\ stopped = None
         /\ hasClient = None /\ inSent = None /\ inRead = None /\ inEnd = None
         /\ outSent = None /\ outRead = None /\ outEnd = None
         /\ toOut = None /\ toIn = None /\ logged = None
NoNat == /\ UDPTables = None /\ requests = None /\ forwarded = None /\ answers = None
         /\ returned = None /\ sends = None /\ waiting = None /\ got = None
NoFile == file = None /\ ss = None /\ configs = None /\ through = None

Off == NoTcp /\ NoNat /\ NoFile
Still == UNCHANGED <<ownTcp, ownNat, ownFile>>

TcpInit(w, init) == which = w /\ init /\ NoNat /\ NoFile
NatInit(w, init) == which = w /\ init /\ NoTcp /\ NoFile

Init == \/ TcpInit("turns", Turns!Init)
        \/ TcpInit("atOnce", AtOnce!Init)
        \/ TcpInit("mapping", Mapping!Init)
        \/ NatInit("apart", Apart!Init)
        \/ NatInit("losing", Losing!Init)
        \/ NatInit("mixed", Mixed!Init)
        \/ which = "ports" /\ Ports!Init /\ NoTcp /\ NoNat

OnlyTcp(w, A) == which = w /\ A /\ UNCHANGED <<ownNat, ownFile>>
OnlyNat(w, A) == which = w /\ A /\ UNCHANGED <<ownTcp, ownFile>>

Next == \/ OnlyTcp("turns", Turns!Next)
        \/ OnlyTcp("atOnce", AtOnce!Next)
        \/ OnlyTcp("mapping", Mapping!Next)
        \/ OnlyNat("apart", Apart!Next)
        \/ OnlyNat("losing", Losing!Next)
        \/ OnlyNat("mixed", Mixed!Next)
        \/ which = "ports" /\ Ports!Next /\ UNCHANGED <<ownTcp, ownNat>>

\* What UdpNat wants fairness of, for the clients that share nothing.
Forwarder == OnlyNat("apart", Apart!Forwarder)
Echo == OnlyNat("apart", Apart!Echo)
Receive(c) == c \in Clients /\ OnlyNat("apart", Apart!Receive(c))

-----------------------------------------------------------------------------
(* Properties *)

\* What a relay of the TCP forwarder writes to either side, on each instance:
\* see BytesAreRight of TcpNat.
BytesAreRight == /\ which = "turns" => Turns!BytesAreRight
                 /\ which = "atOnce" => AtOnce!BytesAreRight
                 /\ which = "mapping" => Mapping!BytesAreRight

\* Who accepts and who relays on its port: see MappingStops of TcpNat.
MappingStops == /\ which = "turns" => Turns!MappingStops
                /\ which = "atOnce" => AtOnce!MappingStops
                /\ which = "mapping" => Mapping!MappingStops

\* Where the UDP forwarder sends what: see RowsAreRight of UdpNat.
RowsAreRight == /\ which = "apart" => Apart!RowsAreRight
                /\ which = "losing" => Losing!RowsAreRight
                /\ which = "mixed" => Mixed!RowsAreRight

\* Clients that share nothing are each answered.
Answered == \A c \in Clients :
  (which = "apart" /\ Apart!NothingShared /\ waiting[c]) ~> (which = "apart" => ~waiting[c])

\* The configuration's ranges of ports: see MappingsAreMeant of PortRanges.
MappingsAreMeant == which = "ports" => Ports!MappingsAreMeant
=============================================================================
