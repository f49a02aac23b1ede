--------------------------- MODULE DownloadProofs ---------------------------
(***************************************************************************)
(* The bytes a download delivers, for every length of file, block size and *)
(* width of integers that Download's assumptions allow.                    *)
(***************************************************************************)
EXTENDS Download, TLAPS

-----------------------------------------------------------------------------
(* Arithmetic of C's integers *)

LEMMA ModExact == \A a \in Nat, c \in Nat \ {0} : a < c => a % c = a
  OBVIOUS

LEMMA ModNegative == \A a \in Int, c \in Nat \ {0} : a < 0 /\ -c <= a => a % c = a + c
  OBVIOUS

LEMMA DivTimes == \A a \in Nat, c \in Nat \ {0} : a \div c \in Nat /\ (a \div c) * c <= a
  OBVIOUS

LEMMA TimesMonotone ==
  \A m, n \in Int, b \in Nat \ {0} : /\ m * b \in Int /\ n * b \in Int
                                     /\ m <= n => m * b <= n * b
                                     /\ m < n => m * b + b <= n * b
  OBVIOUS

LEMMA Widths ==
  /\ BLOCKSIZE \in Nat /\ BLOCKSIZE # 0 /\ IntRange \in Nat /\ IntRange # 0
  /\ LongRange \in Nat /\ LongRange # 0
  /\ 2 * BLOCKSIZE < IntRange /\ IntRange * BLOCKSIZE < LongRange
  /\ IntRange * BLOCKSIZE \in Nat
  BY WidthsAssumption

\* An int keeps what is at most a block.
LEMMA ToIntExact ==
  ASSUME NEW n \in Nat, n <= BLOCKSIZE
  PROVE  ToInt(n) = n
<1>1. n % IntRange = n
  BY Widths, ModExact
<1> QED
  BY <1>1, Widths DEF ToInt

\* No offset a client can name wraps: one from 0 on is exact, though past the
\* range of an int, and a negative one is in the upper half, which seekg refuses.
LEMMA OffsetExact ==
  ASSUME NEW num \in Asks, num >= 0
  PROVE  /\ Offset(num) = num * BLOCKSIZE
         /\ (Offset(num) + BLOCKSIZE) % LongRange = num * BLOCKSIZE + BLOCKSIZE
         /\ num * BLOCKSIZE \in Nat /\ 2 * (num * BLOCKSIZE) < LongRange
<1>1. num \in Nat /\ 2 * num < IntRange
  BY NumbersAssumption
<1>2. num * BLOCKSIZE \in Nat
  BY <1>1, Widths
<1>3. /\ (2 * num) * BLOCKSIZE + BLOCKSIZE <= IntRange * BLOCKSIZE
      /\ (2 * num) * BLOCKSIZE = 2 * (num * BLOCKSIZE)
  BY <1>1, Widths, TimesMonotone
<1>4. 2 * (num * BLOCKSIZE) + BLOCKSIZE < LongRange
  BY <1>2, <1>3, Widths
<1>5. /\ (num * BLOCKSIZE) % LongRange = num * BLOCKSIZE
      /\ (num * BLOCKSIZE + BLOCKSIZE) % LongRange = num * BLOCKSIZE + BLOCKSIZE
  BY <1>2, <1>4, Widths, ModExact
<1> QED
  BY <1>2, <1>4, <1>5, Widths DEF Offset

LEMMA OffsetNegative ==
  ASSUME NEW num \in Asks, num < 0
  PROVE  Offset(num) \in Nat /\ 2 * Offset(num) >= LongRange
<1>1. num \in Int /\ -IntRange <= 2 * num
  BY NumbersAssumption
<1>2. /\ num * BLOCKSIZE \in Int
      /\ (2 * num) * BLOCKSIZE = 2 * (num * BLOCKSIZE)
      /\ (-IntRange) * BLOCKSIZE = -(IntRange * BLOCKSIZE)
  BY <1>1, Widths
<1>3. -(IntRange * BLOCKSIZE) <= 2 * (num * BLOCKSIZE)
  BY <1>1, <1>2, Widths, TimesMonotone
<1>4. num * BLOCKSIZE < 0
  BY <1>1, Widths
<1>5. (num * BLOCKSIZE) % LongRange = num * BLOCKSIZE + LongRange
  BY <1>2, <1>3, <1>4, Widths, ModNegative
<1> QED
  BY <1>2, <1>3, <1>4, <1>5, Widths DEF Offset

\* A block of the file lies inside it, and is what remains at most.
LEMMA BlockOfFile ==
  ASSUME fileSize \in Nat, NEW num \in Asks, num \in 0 .. NumBlocks - 1
  PROVE  /\ num * BLOCKSIZE \in Nat /\ num * BLOCKSIZE <= fileSize
         /\ Offset(num) = num * BLOCKSIZE /\ 2 * Offset(num) < LongRange
         /\ BlockSize(num) = IF num * BLOCKSIZE + BLOCKSIZE < fileSize THEN BLOCKSIZE
                             ELSE fileSize - num * BLOCKSIZE
<1>1. num \in Int /\ num >= 0
  BY NumbersAssumption
<1>2. num * BLOCKSIZE <= fileSize
  <2>1. CASE fileSize = 0
    <3>1. num = 0
      BY <1>1, <2>1 DEF NumBlocks
    <3> QED
      BY <2>1, <3>1, Widths
  <2>2. CASE fileSize # 0
    <3> DEFINE last == (fileSize - 1) \div BLOCKSIZE
    <3>1. last \in Nat /\ last * BLOCKSIZE <= fileSize - 1
      BY <2>2, Widths, DivTimes
    <3>2. num <= last
      BY <1>1, <2>2, <3>1 DEF NumBlocks
    <3> HIDE DEF last
    <3>3. num * BLOCKSIZE <= last * BLOCKSIZE
      BY <1>1, <3>1, <3>2, Widths, TimesMonotone
    <3> QED
      BY <1>1, <3>1, <3>3, Widths, TimesMonotone
  <2> QED
    BY <2>1, <2>2
<1>3. /\ Offset(num) = num * BLOCKSIZE /\ num * BLOCKSIZE \in Nat
      /\ 2 * (num * BLOCKSIZE) < LongRange
      /\ (Offset(num) + BLOCKSIZE) % LongRange = num * BLOCKSIZE + BLOCKSIZE
  BY <1>1, OffsetExact
<1>4. CASE num * BLOCKSIZE + BLOCKSIZE >= fileSize
  <2>1. fileSize - num * BLOCKSIZE \in Nat /\ fileSize - num * BLOCKSIZE <= BLOCKSIZE
    BY <1>2, <1>3, <1>4, Widths
  <2>2. ToInt(fileSize - num * BLOCKSIZE) = fileSize - num * BLOCKSIZE
    BY <2>1, ToIntExact
  <2> QED
    BY <1>2, <1>3, <1>4, <2>2, Widths DEF BlockSize
<1>5. CASE num * BLOCKSIZE + BLOCKSIZE < fileSize
  BY <1>2, <1>3, <1>5, Widths DEF BlockSize
<1> QED
  BY <1>3, <1>4, <1>5, Widths

-----------------------------------------------------------------------------
(* Theorems *)

\* Between blocks of the file the stream never fails, so that every one of
\* them is read.
DownloadInv ==
  /\ fileSize \in FileSizes \union {None}
  /\ pc = "recv" => fileSize \in Nat
  /\ got = [num \in Asks |-> got[num]]
  /\ polite => ~ failed
  /\ BlocksAreRight
  /\ NeverOtherBytes

\* What a block of a polite client's is, once it has come.
Right(num, block) ==
  LET first == num * BLOCKSIZE
  IN block = [i \in 1 .. (IF first + BLOCKSIZE < fileSize THEN BLOCKSIZE
                          ELSE fileSize - first) |-> first + i - 1]

\* A block of the file is sent as it is on disk, and the read succeeds.
LEMMA PoliteBlock ==
  ASSUME fileSize \in Nat, NEW num \in Asks, num \in 0 .. NumBlocks - 1
  PROVE  /\ Right(num, Bytes(num, FALSE))
         /\ ~ (BlockSize(num) > 0 /\ Offset(num) + BlockSize(num) > fileSize)
<1> DEFINE first == num * BLOCKSIZE
           size == IF first + BLOCKSIZE < fileSize THEN BLOCKSIZE ELSE fileSize - first
<1>1. /\ first \in Nat /\ first <= fileSize /\ Offset(num) = first /\ BlockSize(num) = size
  BY BlockOfFile
<1>2. size \in Nat /\ first + size <= fileSize
  BY <1>1, Widths
<1>3. \A i \in 1 .. size : ~ first + i > fileSize
  BY <1>1, <1>2
<1>4. Bytes(num, FALSE) = [i \in 1 .. size |-> IF first + i > fileSize THEN Junk ELSE first + i - 1]
  BY <1>1 DEF Bytes
<1> HIDE DEF first, size
<1>5. Bytes(num, FALSE) = [i \in 1 .. size |-> first + i - 1]
  BY <1>3, <1>4
<1>6. Right(num, [i \in 1 .. size |-> first + i - 1])
  BY Zenon DEF Right, first, size
<1>7. ~ (size > 0 /\ first + size > fileSize)
  BY <1>1, <1>2
<1> QED
  BY <1>1, <1>5, <1>6, <1>7

\* Any block that is sent has Junk or the file's bytes.
LEMMA AnyBlock ==
  ASSUME NEW num \in Asks, NEW bad, bad <=> (failed \/ 2 * Offset(num) >= LongRange),
         NEW j \in DOMAIN Bytes(num, bad)
  PROVE  Bytes(num, bad)[j] \in {Junk, num * BLOCKSIZE + j - 1}
<1>1. Bytes(num, bad)[j] = IF bad \/ Offset(num) + j > fileSize THEN Junk ELSE Offset(num) + j - 1
  <2>1. DOMAIN Bytes(num, bad) = 1 .. BlockSize(num)
    BY DEF Bytes
  <2>2. \A i \in 1 .. BlockSize(num) : Bytes(num, bad)[i] =
          IF bad \/ Offset(num) + i > fileSize THEN Junk ELSE Offset(num) + i - 1
    BY Zenon DEF Bytes
  <2> QED
    BY <2>1, <2>2, Zenon
<1>2. CASE bad
  BY <1>1, <1>2
<1>3. CASE ~ bad
  <2>1. num \in Int
    BY NumbersAssumption
  <2>2. num >= 0
    BY <1>3, <2>1, OffsetNegative
  <2>3. Offset(num) = num * BLOCKSIZE
    BY <2>2, OffsetExact
  <2> QED
    BY <1>1, <2>3
<1> QED
  BY <1>2, <1>3

\* The answer to a request for a block.
LEMMA AnswerKeeps ==
  ASSUME DownloadInv, pc = "recv", NEW num \in Asks, polite => num \in 0 .. NumBlocks - 1,
         SendBlock(num)
  PROVE  DownloadInv'
<1> DEFINE bad == failed \/ 2 * Offset(num) >= LongRange
<1>1. /\ sent' = <<[num |-> num, size |-> BlockSize(num), data |-> Bytes(num, bad)]>>
      /\ got' = IF num \in 0 .. NumBlocks - 1 THEN [got EXCEPT ![num] = Bytes(num, bad)] ELSE got
      /\ failed' = (bad \/ (BlockSize(num) > 0 /\ Offset(num) + BlockSize(num) > fileSize))
      /\ pc' = pc /\ fileSize' = fileSize /\ polite' = polite
  BY DEF SendBlock, Stay
<1>2. fileSize \in Nat
  BY DEF DownloadInv
<1>3. NeverOtherBytes'
  <2>1. \A j \in DOMAIN Bytes(num, bad) : Bytes(num, bad)[j] \in {Junk, num * BLOCKSIZE + j - 1}
    BY AnyBlock
  <2> HIDE DEF bad
  <2> QED
    BY <1>1, <2>1 DEF NeverOtherBytes
<1>4. got' = [n \in Asks |-> got'[n]]
  <2> HIDE DEF bad
  <2> QED
    BY <1>1 DEF DownloadInv
<1>5. (polite' => ~ failed') /\ BlocksAreRight'
  <2>1. CASE ~ polite
    BY <1>1, <2>1 DEF BlocksAreRight
  <2>2. CASE polite
    <3>1. ~ bad
      BY <1>2, <2>2, BlockOfFile, Widths DEF DownloadInv
    <3>2. Right(num, Bytes(num, bad)) /\ ~ failed'
      BY <1>1, <1>2, <2>2, <3>1, PoliteBlock
    <3>3. ASSUME NEW n \in Asks, got'[n] # None PROVE Right(n, got'[n])
      <4> HIDE DEF bad
      <4>1. CASE n = num
        BY <1>1, <2>2, <3>2, <4>1 DEF DownloadInv
      <4>2. CASE n # num
        BY <1>1, <2>2, <3>3, <4>2 DEF DownloadInv, BlocksAreRight, Right
      <4> QED
        BY <4>1, <4>2
    <3> QED
      BY <1>1, <3>2, <3>3 DEF BlocksAreRight, Right
  <2> QED
    BY <2>1, <2>2
<1> QED
  BY <1>1, <1>3, <1>4, <1>5 DEF DownloadInv

\* The inductive invariant, in every reachable state.
THEOREM DownloadInvariance == Spec => []DownloadInv
<1>1. Init => DownloadInv
  BY DEF Init, DownloadInv, BlocksAreRight, NeverOtherBytes
<1>2. DownloadInv /\ [Next]_vars => DownloadInv'
  <2> SUFFICES ASSUME DownloadInv, [Next]_vars PROVE DownloadInv'
    OBVIOUS
  <2>1. ASSUME Refuse PROVE DownloadInv'
    BY <2>1 DEF Refuse, Stay, DownloadInv, BlocksAreRight, NeverOtherBytes
  <2>2. CASE DownLoad
    BY <2>1, <2>2 DEF DownLoad, Stay, DownloadInv, BlocksAreRight, NeverOtherBytes
  <2>3. CASE Md5Query
    <3>1. CASE ~ Refuse
      <4>1. sent' = <<[md5 |-> "md5"]>> /\ pc' = "end" /\ UNCHANGED <<failed, got, fileSize, polite>>
        BY <2>3, <3>1 DEF Md5Query, Stay
      <4>2. NeverOtherBytes'
        BY <4>1 DEF NeverOtherBytes
      <4> QED
        BY <4>1, <4>2 DEF DownloadInv, BlocksAreRight
    <3> QED
      BY <2>1, <3>1
  <2>4. CASE OpenFile
    <3>1. CASE Refuse
      BY <2>1, <3>1
    <3>2. CASE ~ Refuse
      <4>1. fileSize # None /\ sent' = <<[size |-> fileSize]>> /\ pc' = "recv"
            /\ UNCHANGED <<failed, got, fileSize, polite>>
        BY <2>4, <3>2 DEF OpenFile, Stay
      <4>2. fileSize \in Nat
        BY <4>1, NumbersAssumption DEF DownloadInv
      <4>3. NeverOtherBytes'
        BY <4>1 DEF NeverOtherBytes
      <4> QED
        BY <4>1, <4>2, <4>3 DEF DownloadInv, BlocksAreRight
    <3> QED
      BY <3>1, <3>2
  <2>5. CASE Answer
    BY <2>5, AnswerKeeps DEF Answer
  <2>6. CASE HangUp
    BY <2>6 DEF HangUp, Stay, DownloadInv, BlocksAreRight, NeverOtherBytes
  <2>7. CASE UNCHANGED vars
    BY <2>7 DEF vars, DownloadInv, BlocksAreRight, NeverOtherBytes
  <2> QED
    BY <2>2, <2>3, <2>4, <2>5, <2>6, <2>7 DEF Next
<1> QED
  BY <1>1, <1>2, PTL DEF Spec

\* BlocksAreRight: a client that asks for the blocks of its file, in any order
\* and any number of times, has their bytes, for files longer than an int can
\* say too (server.cpp, 698-736).
THEOREM BlocksComeRight == Spec => []BlocksAreRight
<1>1. DownloadInv => BlocksAreRight
  BY DEF DownloadInv
<1> QED
  BY <1>1, DownloadInvariance, PTL

\* NeverOtherBytes: whatever number a client sends, no byte of another place of
\* the file goes out as the byte of this one.
THEOREM NoOtherBytes == Spec => []NeverOtherBytes
<1>1. DownloadInv => NeverOtherBytes
  BY DEF DownloadInv
<1> QED
  BY <1>1, DownloadInvariance, PTL
=============================================================================
