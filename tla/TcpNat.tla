-------------------------------- MODULE TcpNat --------------------------------
(***************************************************************************)
(* Pre-Project/W1002-test6-TCPConnection: one mapping of a port.  A        *)
(* process accepts on the port and forks a child for each connection,      *)
(* which connects to the target and copies bytes both ways until one side  *)
(* ends.  A byte is named by its side and its place in that side's stream. *)
(***************************************************************************)
EXTENDS Integers, Sequences, FiniteSets

CONSTANTS
  Procs, Root,  \* process ids; the process that work() runs in
  MaxClients,   \* connections made to the port: a bound
  MaxBytes,     \* bytes a side sends: a bound
  BUFL,         \* sizeof buff, 10240
  Slow,         \* may the target take longer than the 1.5 seconds?
  Full,         \* may the target's socket be full?
  InTurns       \* does a side send, or end, only when all else is read?

\* Assumed of the constants.
TcpNatAssumption == /\ Root \in Procs /\ BUFL \in Nat \ {0}
                    /\ {MaxClients, MaxBytes} \subseteq Nat
                    /\ {Slow, Full, InTurns} \subseteq BOOLEAN

VARIABLES
  role,      \* "none", "wait", "accept", "connect", "relay", "gone"
  queue, connections,     \* not yet accepted; made so far
  stopped,   \* has exitMain killed the mapping's process?
  hasClient, \* is sockCli a socket?
  inSent, inRead, inEnd,    \* the client's stream, and whether it has ended
  outSent, outRead, outEnd, \* the target's
  toOut, toIn, \* what was written to either
  logged       \* the numbers of bytes of "connection end"

mapping == <<role, queue, connections, stopped, hasClient>>
sides == <<inSent, inEnd, outSent, outEnd>>
copied == <<inRead, outRead, toOut, toIn, logged>>
vars == <<mapping, sides, copied>>

Zero == [p \in Procs |-> 0]
Never == [p \in Procs |-> FALSE]

Init ==
  /\ role = [p \in Procs |-> IF p = Root THEN "wait" ELSE "none"]
  /\ queue = 0 /\ connections = 0 /\ stopped = FALSE /\ hasClient = Never
  /\ inSent = Zero /\ inRead = Zero /\ inEnd = Never
  /\ outSent = Zero /\ outRead = Zero /\ outEnd = Never
  /\ toOut = [p \in Procs |-> <<>>] /\ toIn = toOut
  /\ logged = [p \in Procs |-> <<>>]

-----------------------------------------------------------------------------
(* The mapping's processes *)

Mutant_Select(p) == /\ role[p] = "wait"
                    /\ role' = [role EXCEPT ![p] = "accept"]
                    /\ UNCHANGED <<queue, connections, stopped, hasClient, sides, copied>>

\* tranfom: select on the listening socket, which all acceptors share.
Select(p) == /\ role[p] = "wait" /\ queue > 0
             /\ role' = [role EXCEPT ![p] = "accept"]
             /\ UNCHANGED <<queue, connections, stopped, hasClient, sides, copied>>

Mutant_AcceptFork(p) ==
  /\ role[p] = "accept"
  /\ \E child \in Procs : /\ role[child] = "none"
                          /\ role' = [role EXCEPT ![p] = "wait", ![child] = "wait"]
                          /\ hasClient' = [hasClient EXCEPT ![child] = queue > 0]
  /\ queue' = IF queue > 0 THEN queue - 1 ELSE 0
  /\ UNCHANGED <<connections, stopped, sides, copied>>

\* accept and fork; the fork does not depend on what accept returned.
AcceptFork(p) ==
  /\ role[p] = "accept"
  /\ \E child \in Procs : /\ role[child] = "none"
                          /\ role' = [role EXCEPT ![p] = "wait", ![child] = "connect"]
                          /\ hasClient' = [hasClient EXCEPT ![child] = queue > 0]
  /\ queue' = IF queue > 0 THEN queue - 1 ELSE 0
  /\ UNCHANGED <<connections, stopped, sides, copied>>

\* newConnect succeeds, or finds the socket writable because it was refused.
Connected(p) == /\ role[p] = "connect"
                /\ role' = [role EXCEPT ![p] = "relay"]
                /\ outEnd' \in {outEnd, [outEnd EXCEPT ![p] = TRUE]}
                /\ UNCHANGED <<queue, connections, stopped, hasClient, inSent, inEnd, outSent, copied>>

\* newConnect fails: singleT returns -1, and the child goes on in work's loop.
ConnectFails(p) == /\ Slow /\ role[p] = "connect"
                   /\ role' = [role EXCEPT ![p] = "wait"]
                   /\ UNCHANGED <<queue, connections, stopped, hasClient, sides, copied>>

\* SIGQUIT to the children of createServer: exitSocket closes and exits.
Stop == /\ ~stopped /\ role[Root] \in {"wait", "accept"}
        /\ stopped' = TRUE
        /\ role' = [role EXCEPT ![Root] = "gone"]
        /\ UNCHANGED <<queue, connections, hasClient, sides, copied>>

-----------------------------------------------------------------------------
(* The relay: one turn of singleT's loop *)

Least(m, n) == IF m < n THEN m ELSE n

\* What read returns on a side: -1 stands for a side that was not ready.
Len1(p) == IF inSent[p] > inRead[p] THEN Least(inSent[p] - inRead[p], BUFL)
           ELSE IF inEnd[p] THEN 0 ELSE -1
Len2(p) == IF outSent[p] > outRead[p] THEN Least(outSent[p] - outRead[p], BUFL)
           ELSE IF outEnd[p] THEN 0 ELSE -1

Bytes(side, from, n) == [i \in 1 .. n |-> <<side, from + i>>]

\* Both sides are read into one buffer, the target's bytes over the client's.
Buff(p) == [i \in 1 .. BUFL |-> IF i <= Len2(p) THEN <<"out", outRead[p] + i>>
                                ELSE <<"in", inRead[p] + i>>]

Mutant_Out(p) == IF Len1(p) > 0 /\ Len2(p) # 0
                 THEN {SubSeq(Buff(p), 1, n) : n \in {BUFL}} ELSE {<<>>}

\* The target's socket does not block: a short write is not made up for.
Out(p) == IF Len1(p) > 0 /\ Len2(p) # 0
          THEN {SubSeq(Buff(p), 1, n) : n \in IF Full THEN 0 .. Len1(p) ELSE {Len1(p)}}
          ELSE {<<>>}

Mutant_In(p) == IF Len2(p) > 0 /\ Len1(p) # 0
                THEN SubSeq(Buff(p), 1, Least(BUFL, Len2(p) + 1)) ELSE <<>>

In(p) == IF Len2(p) > 0 /\ Len1(p) # 0 THEN SubSeq(Buff(p), 1, Len2(p)) ELSE <<>>

Turn(p) ==
  /\ role[p] = "relay" /\ (Len1(p) >= 0 \/ Len2(p) >= 0)
  /\ inRead' = [inRead EXCEPT ![p] = @ + (IF Len1(p) > 0 THEN Len1(p) ELSE 0)]
  /\ outRead' = [outRead EXCEPT ![p] = @ + (IF Len2(p) > 0 THEN Len2(p) ELSE 0)]
  /\ \E out \in Out(p) : toOut' = [toOut EXCEPT ![p] = @ \o out]
  /\ toIn' = [toIn EXCEPT ![p] = @ \o In(p)]
  /\ IF Len1(p) = 0 \/ Len2(p) = 0
     THEN /\ logged' = [logged EXCEPT ![p] = <<inRead'[p], outRead'[p]>>]
          /\ role' = [role EXCEPT ![p] = "gone"]
     ELSE UNCHANGED <<logged, role>>
  /\ UNCHANGED <<queue, connections, stopped, hasClient, sides>>

-----------------------------------------------------------------------------
(* The programs on either side *)

Call == /\ connections < MaxClients
        /\ connections' = connections + 1 /\ queue' = queue + 1
        /\ UNCHANGED <<role, stopped, hasClient, sides, copied>>

Quiet(p) == InTurns => inSent[p] = inRead[p] /\ outSent[p] = outRead[p] /\ ~inEnd[p] /\ ~outEnd[p]

ClientSends(p) == /\ role[p] = "relay" /\ hasClient[p] /\ ~inEnd[p] /\ Quiet(p)
                  /\ \E n \in inSent[p] + 1 .. MaxBytes : inSent' = [inSent EXCEPT ![p] = n]
                  /\ UNCHANGED <<mapping, inEnd, outSent, outEnd, copied>>

ClientEnds(p) == /\ role[p] = "relay" /\ hasClient[p] /\ ~inEnd[p] /\ Quiet(p)
                 /\ inEnd' = [inEnd EXCEPT ![p] = TRUE]
                 /\ UNCHANGED <<mapping, inSent, outSent, outEnd, copied>>

TargetSends(p) == /\ role[p] = "relay" /\ ~outEnd[p] /\ Quiet(p)
                  /\ \E n \in outSent[p] + 1 .. MaxBytes : outSent' = [outSent EXCEPT ![p] = n]
                  /\ UNCHANGED <<mapping, inSent, inEnd, outEnd, copied>>

TargetEnds(p) == /\ role[p] = "relay" /\ ~outEnd[p] /\ Quiet(p)
                 /\ outEnd' = [outEnd EXCEPT ![p] = TRUE]
                 /\ UNCHANGED <<mapping, inSent, inEnd, outSent, copied>>

Mapping(p) == Select(p) \/ AcceptFork(p) \/ Connected(p) \/ ConnectFails(p)
Sides(p) == ClientSends(p) \/ ClientEnds(p) \/ TargetSends(p) \/ TargetEnds(p)

Next == Call \/ Stop \/ \E p \in Procs : Mapping(p) \/ Turn(p) \/ Sides(p)

Spec == Init /\ [][Next]_vars

-----------------------------------------------------------------------------
(* Properties *)

TypeOK ==
  /\ role \in [Procs -> {"none", "wait", "accept", "connect", "relay", "gone"}]
  /\ queue \in 0 .. MaxClients /\ connections \in queue .. MaxClients
  /\ \A p \in Procs : /\ inRead[p] <= inSent[p] /\ inSent[p] <= MaxBytes
                      /\ outRead[p] <= outSent[p] /\ outSent[p] <= MaxBytes
                      /\ Len(toOut[p]) <= inRead[p] /\ Len(toIn[p]) <= outRead[p]

\* The target's bytes reach the client in order and unchanged, up to where the
\* connection ended, even when both sides speak at once.
BackIsRight == \A p \in Procs : toIn[p] = Bytes("out", 0, Len(toIn[p]))

\* Where the two sides speak in turns and the target keeps up, each receives
\* exactly the bytes the other sent.
RelayedRight ==
  \A p \in Procs : /\ toOut[p] = Bytes("in", 0, inRead[p])
                   /\ toIn[p] = Bytes("out", 0, outRead[p])

\* Once the mapping's process has logged its end, no process accepts on its port.
StopEndsMapping == stopped => \A p \in Procs : role[p] \notin {"wait", "accept"}

\* Each relay carries a client's connection.
RelaysHaveClients == \A p \in Procs : role[p] \in {"connect", "relay"} => hasClient[p]

\* What reaches either side is right: see the three above, whose conditions the
\* target and the programs decide.
BytesAreRight == /\ TypeOK
                 /\ BackIsRight
                 /\ (InTurns /\ ~Full) => RelayedRight

\* A mapping has one process that accepts, and none once it is stopped, as long
\* as targets answer within the 1.5 seconds that newConnect waits.
MappingStops == ~Slow => StopEndsMapping /\ RelaysHaveClients
===============================================================================
