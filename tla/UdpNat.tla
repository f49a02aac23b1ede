-------------------------------- MODULE UdpNat --------------------------------
(***************************************************************************)
(* Pre-Project/W1002-test6-UDPConnection, between programs like            *)
(* W1002-test6-testout, which send a datagram and wait for the answer, and *)
(* W1002-test6-testin, which answer.  Datagrams are texts shorter than the *)
(* buffer, so that strlen gives their length; they may overtake each       *)
(* other, and be lost.  Sockets can always be made.                        *)
(***************************************************************************)
EXTENDS Integers, Sequences, FiniteSets, SequencesExt

CONSTANTS
  Clients,     \* addresses and ports of clients
  UDPParas,    \* the number of listening sockets
  Transfer,    \* the target of each
  Uses,        \* the listening sockets a client sends to
  MaxSends,    \* datagrams a client sends: a bound
  Lossy        \* may datagrams be lost?

\* Assumed of the constants.
UdpNatAssumption ==
  /\ UDPParas \in Nat \ {0} /\ MaxSends \in Nat /\ Lossy \in BOOLEAN
  /\ DOMAIN Transfer = 1 .. UDPParas
  /\ Uses \in [Clients -> SUBSET (1 .. UDPParas)]

VARIABLES
  UDPTables,  \* the rows: a client, and the target its socket sends to
  requests,   \* datagrams on the way to a listening socket
  forwarded,  \* from a row's socket to a target
  answers,    \* from a target to a row's socket
  returned,   \* from a listening socket to a client
  sends, waiting, \* of a client: datagrams sent, and is it in its second loop?
  got         \* the answer it received last

clientVars == <<sends, waiting, got>>
vars == <<UDPTables, requests, forwarded, answers, returned, clientVars>>

Init ==
  /\ UDPTables = <<>>
  /\ requests = {} /\ forwarded = {} /\ answers = {} /\ returned = {}
  /\ sends = [c \in Clients |-> 0]
  /\ waiting = [c \in Clients |-> FALSE]
  /\ got = [c \in Clients |-> <<>>]

-----------------------------------------------------------------------------
(* The programs at either end *)

\* A request carries who sent it, where to, and its number.
Send(c) == /\ ~waiting[c] /\ sends[c] < MaxSends
           /\ sends' = [sends EXCEPT ![c] = @ + 1]
           /\ waiting' = [waiting EXCEPT ![c] = TRUE]
           /\ \E p \in Uses[c] : requests' = requests \union {[from |-> c, to |-> p, n |-> sends'[c]]}
           /\ UNCHANGED <<UDPTables, forwarded, answers, returned, got>>

Receive(c) == /\ waiting[c]
              /\ \E d \in returned :
                   /\ d.to = c
                   /\ returned' = returned \ {d}
                   /\ got' = [got EXCEPT ![c] = <<d.request>>]
              /\ waiting' = [waiting EXCEPT ![c] = FALSE]
              /\ UNCHANGED <<UDPTables, requests, forwarded, answers, sends>>

Echo == \E d \in forwarded :
          /\ forwarded' = forwarded \ {d}
          /\ answers' = answers \union {d}
          /\ UNCHANGED <<UDPTables, requests, returned, clientVars>>

Lose == /\ Lossy
        /\ \/ \E d \in requests : requests' = requests \ {d} /\ UNCHANGED <<forwarded, answers, returned>>
           \/ \E d \in forwarded : forwarded' = forwarded \ {d} /\ UNCHANGED <<requests, answers, returned>>
           \/ \E d \in answers : answers' = answers \ {d} /\ UNCHANGED <<requests, forwarded, returned>>
           \/ \E d \in returned : returned' = returned \ {d} /\ UNCHANGED <<requests, forwarded, answers>>
        /\ UNCHANGED <<UDPTables, clientVars>>

-----------------------------------------------------------------------------
(* The forwarder *)

Mutant_Row(c) == IF UDPTables = <<>> THEN 0 ELSE 1

\* The row of a client, 0 without one.
Row(c) == SelectInSeq(UDPTables, LAMBDA row : row.client = c)

Mutant_RowOf(target) == Len(UDPTables)

\* The first row with a target.
RowOf(target) == SelectInSeq(UDPTables, LAMBDA row : row.target = target)

\* A request that has arrived: find the client's row, or add it, and send on.
Forward(p) ==
  \E d \in requests :
    /\ d.to = p
    /\ requests' = requests \ {d}
    /\ UDPTables' = IF Row(d.from) # 0 THEN UDPTables
                    ELSE Append(UDPTables, [client |-> d.from, target |-> Transfer[p]])
    /\ LET i == IF Row(d.from) # 0 THEN Row(d.from) ELSE Len(UDPTables')
       IN forwarded' = forwarded \union
            {[socket |-> i, target |-> UDPTables'[i].target, request |-> d]}
    /\ UNCHANGED <<answers, returned, clientVars>>

Mutant_Listener(target) == UDPParas

\* The first listening socket whose target it is.
Listener(target) == CHOOSE p \in 1 .. UDPParas : /\ Transfer[p] = target
                                                 /\ \A q \in 1 .. p - 1 : Transfer[q] # target

\* An answer that has arrived at a row's socket: it goes to the client of the
\* first row, out of the first listening socket, with the answer's source.
Return ==
  \E d \in answers :
    /\ answers' = answers \ {d}
    /\ returned' = returned \union {[to |-> UDPTables[RowOf(d.target)].client,
                                     from |-> Listener(d.target), request |-> d.request]}
    /\ UNCHANGED <<UDPTables, requests, forwarded, clientVars>>

Client(c) == Send(c) \/ Receive(c)
Forwarder == Return \/ \E p \in 1 .. UDPParas : Forward(p)

Next == Forwarder \/ Echo \/ Lose \/ \E c \in Clients : Client(c)

Spec == Init /\ [][Next]_vars


-----------------------------------------------------------------------------
(* Properties *)

\* What a client receives answers a request of its own, and comes from the
\* address it sent that to.
OwnAnswers == \A d \in returned : d.request.from = d.to /\ d.request.to = d.from

\* A request goes to the target of the listening socket it came in at.
Routed == \A d \in forwarded : d.target = Transfer[d.request.to]

\* A client has one row, and so one socket, for ever.
OneRow == /\ \A i, j \in DOMAIN UDPTables : UDPTables[i].client = UDPTables[j].client => i = j
          /\ \A d \in forwarded \union answers : UDPTables[d.socket].client = d.request.from

\* Each client uses one listening socket at most.
OneUse == \A c \in Clients : \A p, q \in Uses[c] : p = q

\* No two clients use the same listening socket, and no two listening sockets
\* have the same target.
NothingShared ==
  /\ \A c, d \in Clients : c # d => Uses[c] \cap Uses[d] = {}
  /\ \A p, q \in 1 .. UDPParas : Transfer[p] = Transfer[q] => p = q

\* The forwarder's rows are right, and what it sends by them as right as the
\* clients' use of the sockets allows.
RowsAreRight == /\ OneRow
                /\ OneUse => Routed
                /\ (OneUse /\ NothingShared) => OwnAnswers
===============================================================================
