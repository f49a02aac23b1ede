------------------------------ MODULE Download ------------------------------
(***************************************************************************)
(* Requests 0x07 (downLoad) and 0x08 (md5query) of Linux_Server/server.cpp *)
(* on one connection.  The client names a path, is told the file's length, *)
(* and then asks for blocks by number for as long as it likes; each answer *)
(* is a length, the bytes and their digest.  A byte is modelled by its     *)
(* position in the file, or Junk when the buffer was not filled.  The      *)
(* widths of C's integers are constants, so that they can be small.        *)
(***************************************************************************)
EXTENDS Integers, Sequences, FiniteSets

CONSTANTS
  BLOCKSIZE,
  IntRange,    \* 2^32: the values of an int
  LongRange,   \* 2^64: the values of an unsigned long long
  FileSizes,   \* lengths of files
  Asks,        \* block numbers a client may ask for
  None, Junk

ASSUME WidthsAssumption ==
  /\ {BLOCKSIZE, IntRange, LongRange} \subseteq Nat \ {0}
  /\ 2 * BLOCKSIZE < IntRange /\ IntRange * BLOCKSIZE < LongRange

\* A client asks with an int.
ASSUME NumbersAssumption ==
  /\ FileSizes \subseteq Nat
  /\ \A num \in Asks : num \in Int /\ -IntRange <= 2 * num /\ 2 * num < IntRange

VARIABLES
  status,   \* Query_Md5_Statu of the path's md5: -1 without a row
  fileSize, \* the file on disk; None without one
  polite,   \* does the client ask only for blocks the file has?
  pc,       \* "exec", "info", "recv", "end"
  res,      \* the local of that name
  failed,   \* is the stream's failbit set?
  sent,     \* the last answer
  got       \* the blocks the client has put together, None where it has not

vars == <<status, fileSize, polite, pc, res, failed, sent, got>>

\* An integer stored in an int.
ToInt(n) == LET m == n % IntRange IN IF 2 * m >= IntRange THEN m - IntRange ELSE m

-----------------------------------------------------------------------------
\* res has no initial value.
Init ==
  /\ status \in {-1, 1, 2}
  /\ fileSize \in FileSizes \union {None}
  /\ polite \in BOOLEAN
  /\ pc = "exec"
  /\ res \in {-1, 0}
  /\ failed = FALSE
  /\ sent = <<>>
  /\ got = [num \in Asks |-> None]

Stay == UNCHANGED <<status, fileSize, polite>>

\* A handler returns -1: createServer sends it once more, as an int.
Refuse == /\ sent' = <<[size |-> -1], [error |-> -1]>>
          /\ pc' = "end"
          /\ UNCHANGED <<failed, got>> /\ Stay

\* downLoad up to the test of the status.
DownLoad == /\ pc = "exec"
            /\ IF status # 1 THEN Refuse /\ UNCHANGED res
               ELSE /\ pc' = "info"
                    /\ UNCHANGED <<res, failed, sent, got>> /\ Stay

\* The path's md5 was read by a statement before: it is still its md5.
Md5Query == /\ pc = "exec"
            /\ IF status # 1 THEN Refuse
               ELSE /\ sent' = <<[md5 |-> "md5"]>>
                    /\ pc' = "end"
                    /\ UNCHANGED <<failed, got>> /\ Stay
            /\ UNCHANGED res

\* Open the file; res is tested whether or not it was set.
OpenFile ==
  /\ pc = "info"
  /\ LET found == IF fileSize = None THEN -1 ELSE res
     IN IF found = -1 THEN Refuse /\ res' = -1
        ELSE /\ res' = fileSize
             /\ sent' = <<[size |-> fileSize]>>
             /\ pc' = "recv"
             /\ UNCHANGED <<failed, got>> /\ Stay

Mutant_Offset(num) == ToInt(num * BLOCKSIZE) % LongRange

\* seekg and the length of the answer: num * BLOCKSIZE as an unsigned long
\* long, compared as such, and the rest of the file as an int.
Offset(num) == (num * BLOCKSIZE) % LongRange
Mutant_BlockSize(num) == BLOCKSIZE

BlockSize(num) == IF (Offset(num) + BLOCKSIZE) % LongRange >= fileSize
                  THEN ToInt(fileSize - Offset(num)) ELSE BLOCKSIZE

\* What is read: nothing once the stream has failed, and nothing past the end.
Bytes(num, bad) == [i \in 1 .. BlockSize(num) |->
  IF bad \/ Offset(num) + i > fileSize THEN Junk ELSE Offset(num) + i - 1]

\* The blocks there are; an empty file has one.
NumBlocks == IF fileSize = 0 THEN 1 ELSE (fileSize - 1) \div BLOCKSIZE + 1

\* A seek to a negative place fails, and so does a read past the end, and
\* nobody clears the failure.
SendBlock(num) ==
  LET bad == failed \/ 2 * Offset(num) >= LongRange
  IN /\ sent' = <<[num |-> num, size |-> BlockSize(num), data |-> Bytes(num, bad)]>>
     /\ got' = IF num \in 0 .. NumBlocks - 1 THEN [got EXCEPT ![num] = Bytes(num, bad)]
                                             ELSE got
     /\ failed' = (bad \/ (BlockSize(num) > 0 /\ Offset(num) + BlockSize(num) > fileSize))
     /\ UNCHANGED <<pc, res>> /\ Stay

\* The client closes the connection, in the middle of things too.
HangUp == /\ pc = "recv"
          /\ pc' = "end"
          /\ UNCHANGED <<res, failed, sent, got>> /\ Stay

Answer == /\ pc = "recv"
          /\ \E num \in Asks : /\ polite => num \in 0 .. NumBlocks - 1
                              /\ SendBlock(num)

Next == DownLoad \/ Md5Query \/ OpenFile \/ Answer \/ HangUp

Spec == Init /\ [][Next]_vars

\* The child runs on until it waits for its client.
FairSpec == Spec /\ WF_vars(DownLoad) /\ WF_vars(Md5Query) /\ WF_vars(OpenFile)

-----------------------------------------------------------------------------
(* Properties *)

\* A client that asks only for blocks of the file, in any order and as often as
\* it likes, has these very bytes of the file, though offsets pass the range of
\* an int; with all the blocks it has the file.
BlocksAreRight ==
  polite => \A num \in Asks : got[num] # None =>
    LET first == num * BLOCKSIZE
    IN got[num] = [i \in 1 .. (IF first + BLOCKSIZE < fileSize THEN BLOCKSIZE
                                ELSE fileSize - first) |-> first + i - 1]

\* Whoever asks for what, negative numbers and numbers past the end included:
\* a byte that is sent is the byte of that place, or what the buffer held when
\* a read had failed.
NeverOtherBytes ==
  \A i \in DOMAIN sent : "num" \in DOMAIN sent[i] =>
    \A j \in DOMAIN sent[i].data :
      sent[i].data[j] \in {Junk, sent[i].num * BLOCKSIZE + j - 1}

-----------------------------------------------------------------------------
(* What the protocol paper says *)

\* "When no data has come for T seconds, the server closes the connection":
\* a client that never asks again does not keep its child for ever.
SilentClientIsDropped == <>[][~ Answer]_vars => <>(pc = "end")
=============================================================================
