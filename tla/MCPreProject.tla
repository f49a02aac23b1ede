---------------------------- MODULE MCPreProject ----------------------------
(***************************************************************************)
(* A small instance, for TLC, of the programs of Pre-Project: two clients, *)
(* one of which may end early, and three where nothing is lost.            *)
(***************************************************************************)
EXTENDS PreProject, TLC

CONSTANTS c1, c2, c3, p0, p1, p2, p3, t1, t2

TwoClients == {c1, c2}
ThreeClients == {c1, c2, c3}
OneMortal == {c1}
OwnPort == (c1 :> 1) @@ (c2 :> 2) @@ (c3 :> 3)

\* One relay, and a mapping with three connections.
TwoProcs == {p0, p1}
FourProcs == {p0, p1, p2, p3}

\* Each client of the UDP forwarder has a listening socket; or one uses both.
TwoTargets == <<t1, t2>>
OneEach == (c1 :> {1}) @@ (c2 :> {2})
OneBoth == (c1 :> {1, 2}) @@ (c2 :> {2})

\* Ports below 4, written in base 2.
TwoDigits == ("0" :> 0) @@ ("1" :> 1)
FewFields == {<<"1">>, <<"1", "0">>, <<"0", "-", "1">>, <<"1", "-", "1", "0">>,
              <<"1", "0", "-", "1">>, <<"1", "-", "1", "1">>}

ASSUME FieldsAssumption == F!Ports!WellFormed
=============================================================================
