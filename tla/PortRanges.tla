------------------------------ MODULE PortRanges ------------------------------
(***************************************************************************)
(* Pre-Project/W1002-test6-out: ReadFile turns the lines of the            *)
(* configuration into port mappings.  Of a line only its two port fields   *)
(* matter here, as sequences of characters, and whether anything (a blank, *)
(* a comment) follows the last field.  Lines are shorter than 1024, ports  *)
(* than 6.                                                                 *)
(***************************************************************************)
EXTENDS Integers, Sequences, SequencesExt

CONSTANTS
  Digits,     \* the digits, with their values
  Base,       \* 10
  Fields,     \* port fields of the lines
  MaxLines    \* length of a file: a bound

\* Assumed of the constants.
PortsAssumption == /\ MaxLines \in Nat /\ Base \in Nat
                   /\ Digits \in [DOMAIN Digits -> Nat] /\ "-" \notin DOMAIN Digits

VARIABLES
  file,      \* the lines not yet read; empty ones are skipped at once, and one
             \* of blanks alone is a bare line with two empty fields
  ss,        \* the string stream: "good", or "eof" for ever after
  configs,   \* the mappings
  read       \* the lines that went through the stream

vars == <<file, ss, configs, read>>

Lines == [listenPorts : Fields, inPorts : Fields, bare : BOOLEAN]

Init == /\ file \in SeqOf(Lines, MaxLines)
        /\ ss = "good" /\ configs = <<>> /\ read = <<>>

-----------------------------------------------------------------------------
\* The places of the first character that is no digit, and of the first dash.
Other(text) == SelectInSeq(text, LAMBDA ch : ch \notin DOMAIN Digits)
Dash(text) == SelectInSeq(text, LAMBDA ch : ch = "-")

\* What digits stand for; 0 without any.
Number(digits) ==
  LET of[n \in 0 .. Len(digits)] == IF n = 0 THEN 0 ELSE of[n - 1] * Base + Digits[digits[n]]
  IN of[Len(digits)]

\* The digits at the start of a text.
Atoi(text) == Number(IF Other(text) = 0 THEN text ELSE SubSeq(text, 1, Other(text) - 1))

\* 1 for digits only, none included; 0 when a dash comes first of the others.
CheckPort(in) == IF Other(in) = 0 THEN 1 ELSE IF in[Other(in)] = "-" THEN 0 ELSE -1

Mutant_GetPorts(Port) ==
  LET least == Atoi(SubSeq(Port, 1, Dash(Port) - 1))
      most == Atoi(SubSeq(Port, Dash(Port) + 1, Len(Port)))
  IN [i \in 1 .. most - least |-> least + i - 1]

\* The ports of a range; none when it is refused.
GetPorts(Port) ==
  LET least == Atoi(SubSeq(Port, 1, Dash(Port) - 1))
      most == Atoi(SubSeq(Port, Dash(Port) + 1, Len(Port)))
  IN [i \in 1 .. most - least + 1 |-> least + i - 1]

Pairs(listens, ins) ==
  IF Len(listens) # Len(ins) THEN <<>>
  ELSE [i \in DOMAIN listens |-> [listenPorts |-> listens[i], inPorts |-> ins[i]]]

\* The mappings of one line.
Configs(line) ==
  CASE CheckPort(line.listenPorts) = 1 /\ CheckPort(line.inPorts) = 1 ->
         Pairs(<<Atoi(line.listenPorts)>>, <<Atoi(line.inPorts)>>)
    [] CheckPort(line.listenPorts) = 0 /\ CheckPort(line.inPorts) = 0 ->
         Pairs(GetPorts(line.listenPorts), GetPorts(line.inPorts))
    [] OTHER -> <<>>

\* One turn of ReadFile.  Reading a field up to the end of the line leaves the
\* stream at its end, and it takes no further line.
ReadLine == /\ file # <<>>
            /\ file' = Tail(file)
            /\ IF ss = "eof" THEN UNCHANGED <<ss, configs, read>>
               ELSE /\ ss' = IF Head(file).bare THEN "eof" ELSE "good"
                    /\ read' = Append(read, Head(file))
                    /\ configs' = configs \o Configs(Head(file))

Next == ReadLine

Spec == Init /\ [][Next]_vars

-----------------------------------------------------------------------------
(* Properties *)

\* What a field says: a port, a range, or nothing.
Digital(text) == text # <<>> /\ \A i \in DOMAIN text : text[i] \in DOMAIN Digits
IsRange(text) == \E i \in DOMAIN text : /\ text[i] = "-"
                                        /\ Digital(SubSeq(text, 1, i - 1))
                                        /\ Digital(SubSeq(text, i + 1, Len(text)))

\* The fields are ports and ranges.
WellFormed == \A f \in Fields : /\ f \in Seq(DOMAIN Digits \union {"-"})
                                /\ Digital(f) \/ IsRange(f)

\* The pairs of numbers that two well-formed fields stand for.
Meaning(line) ==
  LET Low(text) == Atoi(text)
      High(text) == Atoi(SubSeq(text, Dash(text) + 1, Len(text)))
      wide == High(line.listenPorts) - Low(line.listenPorts)
  IN IF /\ IsRange(line.listenPorts) <=> IsRange(line.inPorts)
        /\ High(line.inPorts) - Low(line.inPorts) = wide
     THEN {<<Low(line.listenPorts) + k, Low(line.inPorts) + k>> : k \in 0 .. wide}
     ELSE {}

\* The mappings are those the lines mean, of the lines up to and with the first
\* that ends at its last field; the lines after that one mean nothing.
MappingsAreMeant ==
  /\ {<<configs[i].listenPorts, configs[i].inPorts>> : i \in DOMAIN configs}
       = UNION {Meaning(read[i]) : i \in DOMAIN read}
  /\ \A i \in DOMAIN read : read[i].bare => i = Len(read)
===============================================================================
