# Network-Storage: specifications and proofs

A TLA+ development kept beside the network-storage program: a forking C++ file
server (`Linux_Server/`, `Database/`), a Flask front end over the same database
and the same disk (`Webpages/Driver/`), and the warm-up programs of the course
(`Pre-Project/`). The Windows client's sources are not in the repository.

1. [The system](#1-the-system): components, state, operations, hard behaviours
2. [Modules](#2-modules): what models what
3. [Model checking](#3-model-checking): runs, bounds, fairness
4. [Proofs](#4-proofs): what is proved, from what, and how
5. [Findings](#5-findings)
6. [What is not modelled](#6-what-is-not-modelled)
7. [Plan](#7-plan)

Line numbers without a file name are those of `Linux_Server/server.cpp`.

## 1. The system

`main` (876) clears `upload/`, truncates three lock files and listens. Every
connection is served by a forked child (`createServer`, forks at 861) that reads one
opcode (`exec`, 773), runs one handler and exits. The children share nothing in
memory. What they share is

| state | where | who writes it |
|---|---|---|
| table `status`: MD5 -> 1 (stored), 2 (uploading), no row | MySQL | createConfig, mergeFile, web upload |
| table `file`: (user, virtual path) -> MD5 or NULL for a folder | MySQL | addFile, fileExist, regist, del/move/copy, web |
| table `user` | MySQL | regist, web register |
| `upload/<md5>/cfg`: one flag byte per block, 0 free, 1 handed out, -1 received | disk, relative to main's directory | createConfig, selectBlock |
| `upload/<md5>/<i>`: block i | disk | recvFile, removed by mergeFile |
| `/root/files/<aa>/<md5>`: finished contents | disk | mergeFile, web upload |
| `lockCreateFile`, `lockFileOp`, `lockFileMerge` | fcntl locks | createConfig, selectBlock, mergeFile |

| component | state | operations | talks to | what is hard | what makes it correct |
|---|---|---|---|---|---|
| Upload service (265-574) | status, cfg, blocks, contents, locks | addFile, createConfig, selectBlock, recvFile, mergeFile, fileExist | database, disk, client | children interleave on one content; three locks, one nested; buffered streams; death of a child; stale status | published contents are whole and stay whole; one block, one child; requests and uploads end |
| Catalogue (182-262, 578-643; `DB_Operate.cpp`) | tables user, file | regist, logIn, getFileList, delFile, moveFile, copyFile | database | SELECT, INSERT and DELETE are separate statements; prefix lengths; key conflicts | no file of a user is lost or duplicated by a move; replies tell the truth |
| Download (645-771) | one open file | downLoad, md5query | disk, client | 64-bit offsets, block number from the client, an uninitialised result | a block sent is that block of the file; every request is answered |
| Fork server (773-894) | listening socket | accept, fork, exec | all handlers | main restarted over its children | independent of the order of connections |
| SysV semaphores (86-112) | three semaphores | sem_init, P, V | nobody | - | created and never used |
| `MyDB`, `DB_Info`, `DB_Test` | a connection | exeSQL, exeSQL_SELECT | MySQL | - | - |
| Web driver (`views.py`, `utils.py`, `models.py`) | the same tables and contents | register, login, upload, download, copy, move, delete, mkdir | database, disk | concurrent with the C++ server; file saved before the row | as the catalogue; no content taken for finished while it is written |
| Path trees (`Find_File_List`, `buildTree`, `getFiles`) | none (pure) | list a folder | catalogue, web | prefixes and folder rows | lists exactly the children of a folder |
| Windows client | unknown | the requests above | upload service | repeats, disconnects | external: the environment |
| Collectors (Pre-Project: test3, test5, W0902-test3, W0802-test1/2/4, W0902-test4) | one record per client, in arrays, a map, or a child | accept, read pid, time and string, insert | 500 clients each | partial reads, early ends, arrays indexed by slot, UDP loss, block lengths | a stored record is one client's, whole; the server ends |
| Forwarders (Pre-Project: TCPConnection, UDPConnection) | processes of a mapping; rows of clients | accept, connect, relay; forward, return | clients and targets | one buffer for both ways, children that accept, answers matched by source | bytes and answers reach whom they are for |
| Configuration of the forwarders (W1002-test6-out) | a string stream | ReadFile | a file | stream state kept between lines | mappings are those the lines mean |

The add-file protocol. One request uploads at most one block. The child reads
`status`. No row: it creates the directory and the cfg, then inserts status 2.
Status 1: it inserts the row of table `file` and answers -2. Otherwise, under
the op lock, it picks the first flag byte 0, writes 1, answers the block number,
receives the block without a lock, and under the op lock again writes -1 (or 0 if
the transfer failed) and counts the -1s. When all are -1 it merges the blocks
under the merge lock, removes the directory and sets status 1. The client repeats
the request until it is answered -2.

## 2. Modules

| module | models |
|---|---|
| `ContentStore` | What the service promises: a content is absent, being uploaded or stored for good, and a path is linked only to a stored content. |
| `BlockUpload` | The handlers of opcode 0x03 for files: one action per piece of code between two points at which another child can step in. Its fault parameters, fairness and properties. |
| `BlockUploadInvariant` | The inductive invariants. |
| `BlockUploadProofs` | Theorems that hold under all faults, and those about the block discipline under overlap, deaths and restarts. |
| `BlockUploadSafety` | Theorems that need `SafeFaults`; the refinement of `ContentStore`. |
| `Paths` | Virtual paths as sequences of tokens; which rows a statement selects; the two programs that list a folder. |
| `Catalogue` | What the requests on tables `user` and `file` promise: each is one step, or nothing. |
| `FileTable` | The catalogue requests of the server, one action per SQL statement. |
| `FileTableInvariant`, `FileTableProofs` | Its inductive invariants; its theorems, with the refinement of `Catalogue`. |
| `WebTable` | The web driver's pages on the same tables: a reading transaction, then one or two commits. |
| `TwoFronts` | `FileTable` and `WebTable` composed over the shared tables. |
| `TwoFrontsInvariant`, `TwoFrontsProofs` | What is proved of that. |
| `Download`, `DownloadProofs` | downLoad and md5query on one connection, with integers of a given width; what is proved of them. |
| `Storage` | The web driver's upload page composed with `BlockUpload`: it extends it, and shares `status`, `rows` and the finished contents. |
| `StorageInvariant`, `StorageProofs` | What is proved of that. |
| `Collector`, `SecureCollector`, `WinCollector` | The three collectors with a select loop: test3, test5 with its key exchange, and W0902-test3 on Windows. |
| `ForkCollector` | W0802-test1 and W0802-test2: a child for each connection. |
| `DatagramCollector` | W0802-test4 and W0902-test4: over UDP. |
| `TcpNat`, `UdpNat` | The two forwarders. |
| `PortRanges` | How the forwarders' configuration is read. |
| `MCBlockUpload`, `MCStorage`, `MCFileTable`, `MCTwoFronts`, `MCDownload` | Instances for TLC. |
| `Collectors`, `Forwarders` | Instances of the Pre-Project modules, as their programs and environments need them; one is chosen at the start. |
| `PreProject`, `MCPreProject` | Both of them, as one specification; values of its constants for TLC. |
| `PreProjectProofs` | What is proved of the collectors, the forwarders and `PortRanges`, of each in the module's own terms. |
| `ProgramsProofs` | The same of `PreProject`: its invariants, whichever program runs. |

### BlockUpload and the code

`pc[p]` is where child p stands; `"idle"` is a child that is not running, so
`Procs` is the set of children that may be alive at once and the same name may be
reused by a later connection. `sent[p]` holds the integers sent so far.

| action | code |
|---|---|
| `AddFile` | 518-573: read the request, read the status (550), branch |
| `FileExist` | 265-283: insert the row, answer -2 or -1 |
| `MakeDir` | 287-304: `mkdir` |
| `LockCreate` | 306-309 |
| `CfgExists`, `CreateCfg`, `CreateCfgFailed` | 310-321: the three outcomes of looking for, then opening, the cfg |
| `InsertStatus` | 332, an INSERT that fails on a present row |
| `CloseCfg` | 322-337: the zero bytes reach the disk at `close()`, then the unlock |
| `LockOp` | 423-440; without a cfg createConfig is entered with the op lock held |
| `TakeBlock`, `NoBlockLeft`, `FoundOver` | 441-473: the three outcomes of the scan |
| `RecvOpen`, `RecvOk`, `RecvFail` | 342-378 |
| `RecordBlock`, `RecordLast` | 475-515: write the flag, count, answer or go on to merge |
| `LockMerge`, `MergeCopy`, `Purge`, `Flush`, `Publish` | 380-421 |
| `Kill` | a child dies at a point in `KillAt`: its locks and its buffers go |
| `Restart` | machine and server go down with children at points in `RestartAt`; 876-884 |
| `RestartMain` | main alone is started again over living children |

Decisions that matter:

* **Stream buffers.** `createConfig` writes zeros to a stream and closes it after
  the database statement, so the cfg is visible and empty between `CreateCfg` and
  `CloseCfg`; `mergeFile`'s stream is flushed by its destructor, after the `rm -rf`.
  `comp = "buffered"` is a content complete but for that tail. A cfg longer than a
  stream buffer (files of several GB) would be partly visible earlier; this is
  not modelled.
* **Directory gone.** No stream is tested: a write into a removed directory has no
  effect and its sender goes on. `RecvOpen`, `Recorded`, `CloseCfg` and
  `MergeCopy` say so.
* **Reads past the end.** The count at 499-502 reads the flag into a variable that
  keeps its value when the read fails; `OverNum` models it, and `fileL = -1` for a
  missing cfg.
* **Block files.** What matters of a block is whether it is the one the client
  announced: `blocks[f][b]` is `"none"`, the child that last truncated it, or
  `"good"`. Clients announce the size that belongs to the MD5 they name, and a
  digest that fits stands for the right bytes.
* **Atomicity.** Between lock and unlock of the op lock no one else reads or
  writes a cfg except `createConfig` and `Purge`; the scan, the count and the flag
  writes are therefore one action each. `rm -rf` is one action: while it runs the
  directory's contents shrink, and a child that sees a part of them is not modelled.
  Deaths are modelled at the labels, not inside an action.
* `fcntl` locks belong to a process and go with it; a lock the process already
  holds is granted again. `EDEADLK`, which the code answers with `sleep(1000)` and a
  retry, shows in the model as waiting for ever, which is what it is.
* Status 3 (561, "return 0") is never written by any code and has no action.

`Opening`, `Overlap`, `KillAt`, `RestartAt` and `Orphans` choose the environment,
so that one module states both what holds under all faults and what does not.
`Overlap = FALSE` means that no request for a content arrives while an addFile is
inside its first createConfig for it.

### The catalogue and the code

`FileTable` keeps `user` (name -> password) and `file` (a set of rows), and for every
child `pc`, its request, the rows of its SELECT under their new names (`got`) and its reply.

| action | code |
|---|---|
| `SelectUser`, `InsertUser` | the two statements of Insert_User (DB_Operate.cpp 122-158), called by regist (198) |
| `SendFlag`, `CheckUser`, `InsertRoot` | 199-206: the reply, the second look, the root folder's row |
| `LogIn`, `GetFileList`, `AddFile`, `DelFile` | requests of one statement: 209-230, 232-263, 534-540 and 275-281, 578-599 |
| `SelectRows`, `InsertRows`, `DeleteOld` | the statements of Copy_File_Info and Update_File_Info (DB_Operate.cpp 394-515) |
| `Kill` | a child dies between two statements, or its client is gone when it answers |

The tables' keys are in `Insertable`: an INSERT of several rows fails as a whole. A path's
tokens stand for its characters but for names in `Wide`, of which GBK makes two bytes.
`Sequential` says that a user waits for an answer before the next request, `Sensible`
that requests are ones the folder view offers. In `Settled`, through which `FileTable` implements
`Catalogue`, a move counts as done once its copies are in the table.

`WebTable` models a page by what MySQL's repeatable read and SQLAlchemy's session make of
it: a request reads one state of the tables (`FindUser`, `NewFolder`, `Copy`, `Delete`), and
what it decided is committed later, whole or not at all (`AddUser`, `Insert`, `RemoveRows`).
A move is a copy after which the browser is sent to delete (`Follow`), or leaves.

### Storage

`Upload`, `Look`, `SaveOpen`, `SaveDone`, `AddStatus` and `LinkRow` are the upload page (views.py
86-131) between two points at which another program can step in. `Upload` takes a path
that is free, as the page sees it. While a page saves, a reader of
the content finds a part of it, whatever it was before (`OnDisk`).

### Download

A byte of an answer is named by its place in the file, or `Junk` when the buffer was not
filled by the read. `Offset` and `BlockSize` are computed with C's widths (`IntRange`, `LongRange`) and
conversions; `res` begins with any value that matters, and `failed` is the stream's failbit, which nobody
clears. A `Refuse` sends -1 and is followed by createServer's own -1 (863-868).

### Pre-Project

Streams are counted, not spelled: `sent`, `arrived` and `read` are numbers of bytes, and a record's
field is the place and the length of what was taken for it, so that a field taken from
the wrong place or cut short shows. `Arrive` lets the short fields come whole and
the string in any pieces. A read error is counted like a read of 0 bytes, which
it is for the code that adds up or stores the result only when it is positive; test3 and test5 add -1 to their
count, which no later read makes up for, so there a connection reset and an early end have
the same outcome: no complete record. In `DatagramCollector` a field is named by the
client it is of; a record of the array that no client filled is `Unset`, and an error that
recvfrom gives on Windows ends the program (`Errs`, `ErrMap`), on a bad network only. In `TcpNat` a byte by its side and place; in `UdpNat` an answer by its request.

## 3. Model checking

Twelve runs, each one question; eight find nothing, four find what section 5 tells. Every property
of the eight has a mutant of the code, in the module it is about, under which the same run
finds it violated.

| run | instance | checks | shows |
|---|---|---|---|
| `UploadSafe` | 3 children, f1; kills and restarts everywhere but inside a half-made cfg or a merge | `TypeOK`, `IInv`, `PublishedWhole`, `LinkedIsWhole`, `NoLockCycle`, `CompleteReplyMeansStored`, `ImplementsStore` | the service implements `ContentStore`; replies of completion are true; no circular wait |
| `UploadFaulty` | 3 children, f1; overlap, kills and restarts everywhere | `ExclusiveBlock`, `OverIsGood`, `OverStaysOver` | what is left of the block discipline under faults |
| `UploadOrphans` | 2 children, f1; all of that and `Orphans` | `WholeStaysWhole`, `StatusForward` | what no fault can undo |
| `StorageTogether` | 2 children and a browser, f1, no faults, under fairness | `TakenIsOwned`, `EveryRequestEnds`, `UploadCompletes`, `NothingLeft`, `StorageWhole`, `SavedOnce`, `StoredBecomesWhole` | requests end and uploads complete; page and server finish what the other left |
| `Tables` | 2 children, 2 names, 16 requests; deaths before an INSERT | `TypeOK`, `OneWinner`, `Reachable`, `ListingsAgree`, `DoneIsThere`, `MoveLosesNothing`, `ImplementsCatalogue` | every request is one step of `Catalogue`, or none |
| `BothFronts` | 2 children, 2 browsers, 1 name; deaths, and browsers that leave in a move | `FirstPasswordStays`, `AccountHasRoot`, `OnlyDeleteLoses`, `Reachable` | registrations and trees worked on from both sides |
| `Downloads` | files of 0, 1, 2, 3, 4 and 11 bytes, all numbers of an int | `BlocksAreRight`, `NeverOtherBytes` | every block is right, and no number gives another part |
| `PreProject` | one of 16 instances of the course's programs | `RecordsAreRight`, `DatagramsAreRight`, `EachCollects`, `BytesAreRight`, `MappingStops`, `RowsAreRight`, `Answered`, `MappingsAreMeant` | what each program is for |
| `UploadOverlapTorn` | 2 children, overlap | `PublishedWhole` violated | section 5 |
| `UploadLockCycle` | 3 children, overlap | `EveryRequestEnds` violated | section 5 |
| `TableMoveLoses` | 2 children, a user who does not wait | `MoveLosesNothing` violated | section 5 |
| `DownloadSilent` | one connection | `SilentClientIsDropped` violated | section 5 |

### Bounds

**Uploads.** `BLOCKSIZE` is 2 instead of 1 MiB. File `f1` has 3 bytes: two blocks, the last one
short. The hazards are between two children on one
content; a third one adds a child that arrives after the merge, or that waits for a
lock in the middle of a cycle of two. Two blocks give a first and a last block, a
cfg that is partly received, and a block freed while the other is out. Contents
are independent of one another but for the locks, which a child holds for one content at
a time whichever it is; the proofs hold for any number of them.
`sent` is emptied when a child is reused and holds at most two integers, so all
runs are finite without a state constraint. Symmetry over children is used only where
no liveness is checked. `UploadFaulty` and `UploadOrphans` do not check deadlock:
there a circular wait (section 5) is reachable. `UploadLockCycle` does not either: being stuck is what it shows.

**Storage.** The variable `users` is chosen at the start: any requests, or requests for one content in turns, or
in turns without the page. What is claimed of each says which (`StorageWhole`, `SavedOnce`,
`NothingLeft`); `StoredBecomesWhole` and the liveness properties are claimed of all.

**Tables.** Requests are a fixed small set: roots, two folders, a folder in a folder, and files with
two contents; names that collide, copies and moves between the folders and into each other. Paths
are cut off at 6 tokens (`MaxPath`): copies of a copy would grow for ever. `Sequential`
makes a user wait for the answer before asking again, except that several people may register one name at once. It is
not decoration: without it a move loses rows (`TableMoveLoses`) and the refinement
does not hold. `Sensible` keeps to what a folder view offers; a folder moved into itself is not (section 5).
Deadlock is checked.

**Downloads.** An int has 4 bits and a long 6: the offset of block 5 passes an int's range, as that of block
2048 does in the code, and that of block -1 wraps around. Longer files only repeat these cases. `polite`
is chosen at the start: a polite client asks for blocks of the file alone. A download
ends when the client hangs up, so these runs do not check deadlock.

**Pre-Project.** TLC chooses one instance at the start, and the variables of the others stay `None`:

| instance | program | environment |
|---|---|---|
| test3, test5 | `Collector`, `SecureCollector` | 2 clients, one of which may end early; strings of 2 and 3 bytes; blocks of 2; any initial `sockMax` |
| win | `WinCollector` | the client program with 2 sockets |
| test1, test2 | `ForkCollector` | 2 clients, one mortal; the string fits its record or is a byte too long (`StrL = 4`); in pieces in test2; descriptors taken by earlier clients: none to all |
| array, map | `DatagramCollector` | 3 clients, a network in order that loses nothing |
| lossyArray, lossyMap | `DatagramCollector` | 2 clients; loss, a repeat, any order |
| turns, atOnce | `TcpNat` | one relay, a buffer of 2, streams of 3 bytes; a fast target and sides in turns, or a slow one, full sockets and both sides at once |
| mapping | `TcpNat` | 4 processes, 3 connections that carry nothing, and the stop |
| apart, losing, mixed | `UdpNat` | 2 clients, 2 listening sockets, each its own or one of them shared; loss but in apart |
| ports | `PortRanges` | all files of two lines of well-formed fields, ports below 4 |

Two clients (three where the order among the others counts) show every effect one connection can have on another; the
lengths are small, but each field has its own, a string longer than one piece and, in test5, one
that fills its last block and one that does not. In turns and mapping the target is fast and never full: what they show
is bounded by what a failed connect and the shared buffer do otherwise (section 5). The way to the
target is only right in turns: with both sides speaking at once its bytes are overwritten. The programs
end, or their bounds are reached, so this run does not check deadlock. `RecordsAreRight`, `DatagramsAreRight`,
`BytesAreRight`, `MappingStops`, `RowsAreRight` and `MappingsAreMeant` are defined in the modules of the programs; the run `PreProject` checks each on
every instance it is about, and has mutants of it in each of those modules.

### Fairness

`Fairness` of `BlockUpload` is strong fairness of `Serve(p)` for every child: the kernel
schedules it and serves the blocked calls of `F_SETLKW` on a lock in turn, and
`recv` returns because the client sends or the connection breaks. A child waits for a lock at
one place and can then do nothing else, so strong fairness of everything it can do says only
that it is not passed over for ever. `UploadCompletes` needs also that a
client that wants a content keeps asking (the protocol tells it to), and that a transfer tried
again and again succeeds in the end. `FairBoth` of `Storage` says all this of the children beside the page, and
weak fairness of the web server's threads. None of it is assumed for safety.

`FairSpec` of `Download` is weak fairness of the server's own steps, and none of the client's.

`FairProgramSpec` of `PreProject` adds weak fairness to `ProgramSpec`: the kernel runs each process, and delivers on
networks that lose nothing. Per connection it is justified because the loops visit every
ready connection in each turn. No fairness is assumed of a client's death, of `Lose` and `Repeat`, of the
sides of a relay, nor of `Send` in `UdpNat`.

What is uninitialised stays open: `sockMax` of test3 and test5 begins with any of three kinds of value. When it is negative,
`select` fails and an empty record is stored (`SelectFails`); when it is low, the listening socket is never looked at. `Collected`
of both modules therefore promises something only when it is high. `Collected` of `ForkCollector` promises nothing to a client
that waits for an accept when the parent has no descriptor left; everyone it has accepted is served to the end.

## 4. Proofs

All in `TypeOK`, the invariants and the theorems is for any number of children, files, keys, blocks, users, rows,
requests and sessions. Assumed of the constants, each by name in the module that declares them and evaluated by TLC on the runs:

* `SizesAssumption`, `NamesAssumption`, `FaultsAssumption` (`BlockUpload`): sizes are naturals and `BLOCKSIZE` is positive;
  null values and the two words of `blocks` are no children, files or keys; fault parameters are sets of labels or Booleans.
* `RequestsAssumption` (`FileTable`), `WebRequestsAssumption` (`TwoFronts`): requests have their fields, and a path is not
  empty; null values are no values. `SlashAssumption`: a slash is a string.
* `WidthsAssumption`, `NumbersAssumption` (`Download`): two blocks fit an int, and the bytes of as many blocks as an int
  counts fit a long, as with 2^20, 2^32 and 2^64; a client sends ints.

What a theorem needs of the environment stands in its statement. These hypotheses are what section 5 and
`TableMoveLoses` show to be needed, and each is met by the run named in brackets.

* `SafeFaults`: no overlap with the first createConfig, no restart of main over living children, no
  death between creating a cfg and writing its bytes, no death or restart between
  opening a content and flushing it (`UploadSafe`).
* `~Orphans`: main is not restarted over living children (`UploadFaulty`).
* `Sequential`: a user waits for each reply, registrations aside. `Apart`: no folder is moved into itself, nor onto one it lies in.
  `Plain`: the target of a folder is a folder, and has a name of one byte a character. `Sensible`: what is added, copied or moved
  goes into a folder that has a row, and the root is neither deleted nor copied. `Shaped`: paths start at the root, and have no
  two-byte character or `_` in a name (`Tables`).
* `WebShaped`: the same paths in the pages' links, and a copy names the folder that holds its entry, as the
  page of that folder does. `Keeping`: all of `Sequential` to `WebShaped` (`BothFronts`).
* `KeepsRoot`: no request deletes or replaces the root folder (`BothFronts`).
* `KillAt`: where children do not die.
* Of the Pre-Project programs the properties themselves say on what they depend, so that `DatagramsAreRight`, `RowsAreRight`,
  `BytesAreRight` and `MappingStops` are claimed of every network and use. `OwnPorts`: no two clients of a
  collector over UDP have the same port. `Ordered /\ ~Lossy`: the network keeps the order and loses nothing (array and map). `OneUse`: a client
  of the UDP forwarder uses one listening socket; `NothingShared`: no two clients use the same, and no two sockets have the
  same target (apart and losing). `~Slow`, `~Full`, `InTurns`: the constants of `TcpNat` (turns and mapping).
  `WellFormed`: a port field is a row of digits, or two with a dash between (ports).
* `CollectorAssumption`, `WinAssumption`, `ForkAssumption`, `SecureAssumption`, `DatagramAssumption`, `UdpNatAssumption`, `TcpNatAssumption` and
  `PortsAssumption` are hypotheses of the theorems of `PreProjectProofs`, which has these modules as instances: there are clients, finitely many where the
  server counts them; lengths are positive; null values are no keys. A string of test2 fits its buffer (10240 bytes).
  `PreProject` assumes them of its instances by the name `InstancesAssumption`, and TLC evaluates that.

| module | theorem | statement |
|---|---|---|
| `BlockUploadProofs` | `TypeCorrect` | `Spec => []TypeOK`, under any faults |
| | `StatusMovesForward` | `Spec => StatusForward`, under any faults |
| | `WholeIsFinal` | `Spec => WholeStaysWhole`, under any faults |
| | `CrashInvariance` | `~Orphans => (Spec => []CrashInv)` |
| | `BlocksAreExclusive` | `~Orphans => (Spec => []ExclusiveBlock)` |
| | `OversAreGood` | `~Orphans => (Spec => []OverIsGood)` |
| | `OversStay` | `~Orphans => (Spec => OverStaysOver)` |
| | `FlagsHaveOwners` | `Spec => []TakenIsOwned`, if no child dies between taking a block and recording it |
| `BlockUploadSafety` | `Invariance` | `SafeFaults => (Spec => []IInv)` |
| | `PublishedIsWhole` | `SafeFaults => (Spec => []PublishedWhole)` |
| | `LinksAreWhole` | `SafeFaults => (Spec => []LinkedIsWhole)` |
| | `LocksAreOrdered` | `SafeFaults => (Spec => []NoLockCycle)` |
| | `RepliesAreTrue` | `SafeFaults => (Spec => CompleteReplyMeansStored)` |
| | `StoreIsImplemented` | `SafeFaults => (Spec => ImplementsStore)` |
| `StorageProofs` | `StorageInvariance` | `SpecBoth => []StorageInv` |
| | `StoredOnceWhole` | `SpecBoth => []StorageWhole` |
| | `UploadsAreSwept` | `SpecBoth => []NothingLeft` |
| | `WholeIsSavedOnce` | `SpecBoth => SavedOnce` |
| | `FlagsKeepOwners` | `SpecBoth => []TakenIsOwned` |
| `FileTableProofs` | `TableInvariance` | `Spec => []TableInv`, under any faults |
| | `TypeCorrect` | `Spec => []TypeOK`, under any faults |
| | `OneRegistrationWins` | `Spec => []OneWinner`, under any faults |
| | `MoveInvariance` | `Sequential /\ Apart => (Spec => []MoveInv)` |
| | `MovesLoseNothing` | `Sequential /\ Apart => (Spec => MoveLosesNothing)` |
| | `DoneMeansThere` | `Sequential /\ Apart /\ Plain => (Spec => DoneIsThere)` |
| | `CatalogueIsImplemented` | `Sequential /\ Apart => (Spec => ImplementsCatalogue)`, if no child dies between INSERT and DELETE of a move |
| | `GoodInvariance` | `Shaped => (Spec => []GoodInv)`, under any faults |
| | `RowsAreReachable` | `Sequential /\ Sensible /\ Apart /\ Plain /\ Shaped => (Spec => []Reachable)` |
| | `ListingsAlike` | `Shaped => (Spec => []ListingsAgree)`, under any faults |
| `TwoFrontsProofs` | `BothInvariance` | `KeepsRoot => (BothSpec => []BothInv)`, if no child dies in a registration |
| | `AccountsHaveRoots` | `KeepsRoot => (BothSpec => []AccountHasRoot)`, if no child dies in a registration |
| | `PasswordsStay` | `BothSpec => FirstPasswordStays`, under any faults |
| | `TreeInvariance` | `Keeping => (BothSpec => []TreeInv)`, under any faults |
| | `RowsAreReachableInBoth` | `Keeping => (BothSpec => []Reachable)`, under any faults |
| | `OnlyDeletesLose` | `Keeping => (BothSpec => OnlyDeleteLoses)`, under any faults |
| `DownloadProofs` | `DownloadInvariance` | `Spec => []DownloadInv` |
| | `BlocksComeRight` | `Spec => []BlocksAreRight` |
| | `NoOtherBytes` | `Spec => []NeverOtherBytes` |
| `PreProjectProofs` | `T3RecordsAreRight` | `Spec => []RecordsAreRight` of `Collector` |
| | `T5RecordsAreRight` | `Spec => []RecordsAreRight` of `SecureCollector` |
| | `WinFinishedIsRight`, `WinRecordsAreRight` | `Spec => []FinishedIsRight`, `Spec => []RecordsAreRight` of `WinCollector` |
| | `ForkRecordsAreRight` | `Spec => []RecordsAreRight` of `ForkCollector` |
| | `DgramOneRecord` | `Spec => []OneRecord` of `DatagramCollector`, on any network |
| | `DgramNoMixing` | `OwnPorts => (Spec => []NoMixing)`, on any network |
| | `DgramStoresAll` | `OwnPorts /\ Ordered /\ ~Lossy => (Spec => [](StoresAll /\ NoCrash))` |
| | `DgramRecordsAreRight` | `Spec => []DatagramsAreRight`: the three together |
| | `UdpOneRow` | `Spec => []OneRow` of `UdpNat` |
| | `UdpRouted` | `OneUse => (Spec => []Routed)` |
| | `UdpOwnAnswers` | `OneUse /\ NothingShared => (Spec => []OwnAnswers)` |
| | `UdpRowsAreRight` | `Spec => []RowsAreRight`: the three together |
| | `TcpMapping` | `~Slow => (Spec => [](StopEndsMapping /\ RelaysHaveClients))` of `TcpNat` |
| | `TcpMappingStops` | `Spec => []MappingStops`: the same, as the run checks it |
| | `TcpBackIsRight` | `Spec => [](TypeOK /\ BackIsRight)`, the sides speaking as they like |
| | `TcpRelayedRight` | `InTurns /\ ~Full => (Spec => []RelayedRight)` |
| | `TcpBytesAreRight` | `Spec => []BytesAreRight`: the two together |
| | `PortsAreMeant` | `WellFormed => (Spec => []MappingsAreMeant)` of `PortRanges` |
| `ProgramsProofs` | `CollectorsAreRight` | `ProgramSpec => []RecordsAreRight` of `PreProject` |
| | `DatagramsRight` | `ProgramSpec => []DatagramsAreRight` |
| | `RelaysAreRight` | `ProgramSpec => []BytesAreRight` |
| | `MappingsStop` | `ProgramSpec => []MappingStops` |
| | `AnswersAreRouted` | `ProgramSpec => []RowsAreRight` |
| | `ConfigurationIsMeant` | `WellFormed => (ProgramSpec => []MappingsAreMeant)` |

TLC checked what the theorems state before it was proved, and the inductive invariants of the file server and the web driver
too: `IInv` in `UploadSafe`, the others on the instances of the runs of their modules. Every invariant that a run expects
to hold is stated by a theorem, and so is every action property; those of `PreProject` by `ProgramsProofs`.

### The upload service

`TypeOK` is inductive given lemmas on the pure parts: a byte written inside a cfg
keeps its length (`WriteInside`, `WriteType`), the first free flag is a flag that is
free (`FirstFreeIsFree`), a count lies between 0 and its bound (`CountType`), and
it is full only if every flag is -1 (`FullCount`).

`WholeStaysWhole` is not inductive: `MergeCopy` and `Flush` write to the content. It needs
`MergeLockInv`: a child that merges holds the merge lock, and what it merges is
not finished. Both hold under any faults, because locks die with their
holder.

`CrashInv` is what is left of the block discipline when requests overlap and children die anywhere: a child that
receives holds its flag byte and its block alone (`Holds`) until the content is being assembled. It needs `KeptInv`: whoever is
about to write a new cfg holds the create lock, and found it empty. With `Orphans` this fails, as main
takes down the directories under children that go on. `TakenIsOwned` needs less, so it has an invariant of its own, and
is proved with `Orphans` too: the flags alone say which child must be there.

`PublishedWhole` says something of the end of a long story, so `IInv` has to tell
all of it:

* `LockInv`: who holds which lock, read off the program counter;
* `OpeningInv`: a child inside the first createConfig for f is alone on f;
* `StatusInv`: a content without a row is untouched, and only children in
  createConfig serve it;
* `CfgInv`: a cfg is complete unless a child in createConfig is about to fill it, so
  that the scan of an unassembled content never sees an empty one;
* `BlockInv`: a child that receives owns its flag byte, no one else has the block,
  and a byte -1 stands for a good block, for as long as the blocks are needed
  (`Assembling`: not merged, or being copied);
* `CountInv`: a child that receives has the right number of blocks in `fileL`;
* `MergeInv`: a child reaches the copy with every flag -1 and the right count, and
  a content is half-written only while a child merges it.

The blocks are still needed after `comp` has left `"none"`, during the copy: hence `Assembling`
rather than `comp[f] = "none"`. After it, a late request may upload blocks again
into a directory that is being removed; nothing is claimed of those.

`BlockUploadSafety` has one lemma per part (`LockStep`, `OpeningStep`, `StatusStep`,
`CfgStep`, `BlockStep`, `CountStep`, `MergeStep`), with one step per action. Most actions leave
most parts alone: `CfgFrame`, `BlockFrame`, `BlockQuiet` and `MergeFrame` say so
once, and `CfgReady`, `ReadyFlags`, `PickInside`, `WriteReady`, `RecordReady`,
`BlockMove` and `MergeMove` state what the few others do.
`StoreIsImplemented` maps `Flush`, `InsertStatus`, `Publish` and `FileExist` to the actions of `ContentStore`, and every
other step to a stutter.

### Storage

`StorageInv` says of each content served in turns what its last server left (`Settled`, `Finished`), so that
whichever program comes next finds it so (`QuietInv`); what a child (`ChildInv`) or a page (`PageInv`) relies on while it
serves it; and, without the page, that what is stored is swept (`Swept`). The page takes no lock: that nobody is
disturbed rests on `TurnsInv` alone. `FlagsKeepOwners` does not need turns.

### The catalogue, and both programs on it

`TableInv` adds to the types which request a child serves at each statement, that the rows it read have keys of their own, and
`WinInv`: the child whose INSERT made an account is the only one, and the account has its password. `MoveInv` adds that a
user has one request at a time, and that what a copy or move has read is still what it would read. It rests on lemmas about
paths (`Matches`, `Renamed`): two rows do not get one new name, and with `Apart` no new name is under the old one.
`CatalogueIsImplemented` takes the state in which a move has inserted but not deleted for the state
after it (`Settled`).

`Reachable` is about `Parent`, the part of a path up to its last slash but one (`Cut`, `ParentIs`). A DELETE takes with a
folder all that is below it (`BelowMatches`), so what it leaves keeps its folder. A copy of what is below a folder has the
copies of the folders (`ParentMoves`: the parent of a renamed path is its parent renamed), and the
topmost copy lies in the target's folder, which `TargetInv` says is still there at the INSERT.
`ListingsAgree` is then a fact about each state: for a name that `buildTree` takes from a longer path, the shortest row that goes
through it ends right after it (`WithinListed`, by a least length), as otherwise its folder would have a shorter one.

`BothInv` needs neither `Sequential` nor any of that: an account without its root folder has a child or a session that is
about to insert it, and no row of `got` or `plan` stands in the root's place.

`TreeInv` carries `ReachInv` (`MoveInv`, `TargetInv` and good paths) over to both programs and adds `PlanInv`: what a
page has planned is still right when it commits. That a user waits on either side (`WebAlone`) means that in between only other users' rows change
(`PlanFrame`, `ReadFrame`). A page's copy is the
server's to another target (`CopiesAre`), so the lemmas above serve both. A copy that `Refused` lets through is never
below its source (`CopiesApart`): the target would lie below the source, or above it and hold an entry of that
name. Otherwise a web move would delete its own copies.

### Downloads

`OffsetExact` and `OffsetNegative` say what C's arithmetic makes of a block's number: from 0 on the
offset is exact, and a negative number's is in the upper half of the range, where `seekg` fails. The invariant then follows every byte
from `read` to `send`; a stream that has failed sends only `Junk`.

### Pre-Project

In the collectors on streams a record is right because the streams are counted: `T3Inv` and `WinInv` tie the bytes read from a
client to its stage (`InOrder`, `WinOrder`) and the bytes sent to the client's place (`Streams`, `Sending`). A client that
dies within a short field can have that field counted as taken, so `InOrder` has the case `Cut`, from which the string never comes.
With a negative `sockMax` no client has a slot (`Unheard`), so that the empty record of `SelectFails` stands for no client's.
`T3Puts` counts: with as many finished records as slots, the slots are exactly the finished clients.

test5 sends a length and a key where test3 sends a length: `T5Inv` adds that both words are on their way until the client
has them (`T5Words`), also when the key the server made them with was not the client's but what its stack held (`T5Keys`), and that a cipher text's length, rounded up (`PaddedIs`), is what the server works out by itself (`MaxL`).

`ForkInv` puts the three places of a connection side by side (`ForkAt`): where the client is, which word is on its way,
and what the child waits for. In test1 every word is answered before the next; in test2 the client runs ahead of the child, and only the
counts of bytes (`ForkBytes`) tell what the child will find. Of a client that was killed nothing is kept but that
counts do not run backwards (`ForkBounds`): its child may insert what it has, and `RecordsAreRight` says nothing of it.

Over UDP, on any network, what `DgramInv` keeps is that each record has the port of the client it began with, and no two
have the same. Where the order is kept and nothing lost, `DgramWhole` follows each client's three datagrams: they are
taken in the order sent (`At`, `Holds`), and the server's count of finished records is that of the clients it has heard to the end (`Heard`);
with all of them heard no slot of the array is unset (`AllHaveRows`). `UdpInv` follows each
datagram from a listening socket to its row and back, so that the row found by target is
the sender's own, if no two clients share one.

The TCP relay reads both sides into one buffer, the target's bytes over the client's. `TcpStreams` holds whatever the
sides do: the client has what was read for it, or the connection has ended. `TcpInTurns` adds that at most one side has anything
unread, so that the overwriting never bites. Both rest on `TurnDoes`, one turn of the loop, and `OthersDo`, everything else.

`PortsInv` is `MappingsAreMeant` with the types and the stream: as long as it is good, no line read had ended at its last field.
The work is in the pure part: a text of digits is a port and no range (`DigitalText`), a range has its dash where the
digits first stop (`RangeText`), and two runs of ports are paired one to one or not at all (`PairsAre`, `ConfigsMean`). `Number` is
a recursive function, and that it returns a number is shown with a least counterexample (`NumberIsNat`), for
which the well-foundedness of `<` is enough.

`ProgramsProofs` has four instances of `PreProjectProofs`, so that each program of `PreProject` is an instance there too. A lemma
for each (`Test3Runs` and its like) shows that it begins, steps and promises the same, and carries the theorem over; which
program runs never changes (`ProgramStays`). The properties say themselves what they need of ports, sockets and targets, so the
six theorems have no hypothesis but `WellFormed`.

### Only model-checked

* Liveness: `EveryRequestEnds`, `UploadCompletes`, `StoredBecomesWhole`, `EachCollects`, `Answered`. Fairness and ENABLED are beyond the prover.
* What `Number` computes for every field: that it is a number is proved, that it is the decimal one only follows from its definition.

## 5. Findings

Shown by a run:

| run | what happens |
|---|---|
| `UploadOverlapTorn` | Status 2 is inserted (332) while the cfg is still empty on disk (333). A second request for the same new content sees an empty cfg, takes that for "all received", merges nothing and sets status 1. Two clients and no fault are enough. |
| `UploadLockCycle` | createConfig returns at 320 with the create lock held. That child then waits for the op lock, while the holder of the op lock waits in createConfig for the create lock. |
| `TableMoveLoses` | A folder is moved by SELECT, INSERT and DELETE; a file that comes into it in between is deleted and has no copy. |
| `DownloadSilent` | The timeout is given to the wrong socket option: a silent client keeps its child. |

Observations made while modelling. The modules have the behaviour; no run of the list above is about it.

* Uploads. A child that dies in mergeFile leaves a truncated content, and the next one takes its existence for
  completeness (402): `PublishedWhole` fails with `KillAt` at those labels. Restarting main under a child that receives makes it
  merge blocks that are gone (`Orphans`). A child that dies while it receives leaves flag 1, which only it would have
  cleared: the upload never ends. A request that read status 2 before the merge and runs createConfig after it makes a new
  `upload/<md5>`; mergeFile then skips the copy and with it the `rm -rf`. "Wait" is -3 in the code (446, 469) and -1 in the protocol paper.
* Tables. A folder moved below itself is deleted together with its copies, with the reply 0. `name` and `name/` can stand in one
  folder, deleting nothing is answered with success, and a copy onto a name that exists fails, where the comments of
  `DB_Operate.cpp` (393, 363, 390) say otherwise. `==` for `=` at 225: a failed login is answered -1, not 0. `left()` counts characters and is given
  bytes: a folder with a name that is not ASCII lists as empty, and delete, copy and move of it find nothing.
* Downloads. -1, "the end" of the protocol paper, is answered like a block; the uninitialised `res` (688) may refuse a file that is there.
* Pages. The upload page reports an instant upload of a content that is still being written. A web move from a nested folder, when the target
  is chosen through a subfolder, copies below the wrong path, because `select.html` drops `srcpath`. LIKE takes `_` in a folder's name for any character.
* Pre-Project. A child of the TCP forwarder whose connect failed becomes a second acceptor, which the stop does not reach, and the log
  counts bytes that were never relayed. Two clients of one listening socket of the UDP forwarder: the first is sent all answers. CheckPort
  takes an empty field for a port and `1-x` for a range. In W0902-test4 a time whose process id
  was lost or overtaken is written through a null pointer. In test5 a client that ends before its key
  leaves the server with a key made of an unset buffer, and one that ends before it has its length can end the server. With an unlucky
  `sockMax` test3 and test5 accept nobody. An empty line of the forwarders' configuration is skipped, but one of blanks ends the reading of it. test1's parent runs out of descriptors; test2 takes the
  first piece of a string for the string.

## 6. What is not modelled

* `P`, `V`, `sem_init`: unused.
* The web driver's login, logout, index, download and ajax pages: they change none of
  the shared state.
* `DB_Test`, `Show_*`, logs, record types, the driver calls of `MyDB` but for the encoding.
* The listening socket of the file server, `accept` and `fork` failing, process limits.
* `W1002-test6-out`'s daemon, which starts the forwarders; `socket_OpenSSL.cpp`, a sample nothing uses;
  the statements of `sql_mani.cpp`, which are the last action of each collector.
* The ciphers, and MD5 as a function: a digest stands for its bytes.
* Templates, style sheets and vendored scripts.
* Names that contain LIKE's or SQL's special characters, paths longer than buffers and other inputs
  outside the protocol. `Like` has the wildcard `_`, and `Wide` the names of two bytes; no instance uses them.

## 7. Plan

1. **Done**: the upload service; the catalogue with its abstract
   specification; the web driver beside it; downloads; storage; the Pre-Project programs; the proofs of section 4.
2. Stays with TLC: liveness.
