# TCP-IP-Practice: specifications, model checking and proofs

The repository holds a small file sharing program (`server.c`, `client.c`: one
sender, N receivers that pass segments on to each other) and four exercises
under `practice/`.  This directory holds TLA+ modules translated from the
source, the TLC runs that check them on small instances, and theorems that TLAPS
checks for every number of processes, every file and every schedule: about the
file sharing program, its framing, and the exercises.  `PROJECT.json` lists
components, runs, hazards, theorems, and the source lines behind each definition.

- [1. Inventory](#1-inventory)
- [2. Hazards](#2-hazards)
- [3. Modules and how they correspond to the code](#3-modules-and-how-they-correspond-to-the-code)
- [4. Runs, bounds and what they show](#4-runs-bounds-and-what-they-show)
- [5. Fairness](#5-fairness)
- [6. Where the code and its documentation disagree](#6-where-the-code-and-its-documentation-disagree)
- [7. What is proved](#7-what-is-proved)
- [8. What is not modelled](#8-what-is-not-modelled)
- [9. Plan](#9-plan)

## 1. Inventory

### The file sharing program

| component | source | state | operations |
|---|---|---|---|
| sender | `server.c` | sockets of the receivers, segments, loop counters, progress record | accept, announce the peers to each receiver, wait for every "Init complete", deal the segments round robin |
| receiver, connection phase | `client.c` 62-187, 227-269 | `recv_cnt`, `recv_socks[]`, `total_recv`, a mutex | listen, register, one thread per peer that connects, one thread that accepts, a main thread that polls the counter |
| receiver, data phase | `client.c` 189-225, 272-452 | `segment[]`, `all_seg_flag[]`, `recv_seg_num[]`, `remain_seg_num`, byte counts, the copy | main thread reads from the sender; per peer one thread that reads and one that forwards; a file writer; a progress thread |
| framing | `socket.c` | what has been read of a header and a content | write and read a segment on a byte stream |
| progress records | `progress.c` | `cur_size` | add what was sent or received; the progress threads end on it |
| segmentation | `file.c` | the segments of a file | `SaveFile2Seg` |
| options, console | `main.c`, `Console.c` | none of the protocol | parsing, terminal control |

How they interact: processes only through TCP connections (sender to each
receiver, and one connection per pair of receivers); the threads of a receiver
through the tables and counters named above, with one mutex for the connection
phase and one for `remain_seg_num`, and otherwise by polling flags without any
lock.  `client()` joins the forwarding threads, the writer and the progress
thread; accepting and reading threads are never joined.

What makes it correct: each copy is a prefix of the file at any time and whole
at the end; nobody finishes while somebody still has something for him; no
thread uses a table after it is freed; nobody waits for ever; the data phase
begins on a complete mesh of connections.

### The exercises

| component | source | what it is | what makes it correct |
|---|---|---|---|
| hw1 | `practice/hw1` | one server, two connections: list of files, then one file | what is saved is the file, whoever else connects in between |
| hw2 | `practice/hw2` | a file over UDP, stop and wait, 50 ms timeout | the copy is the file, in spite of loss, delay and reordering |
| hw3 | `practice/hw3` | `select()` server with directory changes, download, upload | requests and answers stay in step, what is watched is open, everybody is served |
| hw3 echo server | `practice/hw3/server/echo_server.c` | a second, smaller `select()` server | not modelled |
| hw4 server | `practice/hw4/server.c` | search server: a thread per client; they share `clnt_sock`, the table of sockets and the trie's result list | each client gets the answer to what it typed, nobody's leaving harms the others |
| hw4 trie | `practice/hw4/trie.c`, `file.c` | insert, search, delete, search for the words that contain a string; loaded from a file | the trie is a dictionary, a query finds the words that contain it, the best are sent |
| hw4 client | `practice/hw4/client.c` | a keyboard thread that sends the word after each key, a screen thread that prints answers | the screen shows the answer to what is typed |

## 2. Hazards

What is hard to test here, and the properties that would catch it (the full list,
with lines, is in `PROJECT.json`).

- Unlocked polling in the receiver: the file writer on `all_seg_flag[]`, the
  forwarding threads on `recv_seg_num[]`, the readers on `remain_seg_num`
  (`FilePrefix`, `IInv`, `ReadersEndLast`).
- Reader threads get the *address* of their creator's loop variable and may read
  it late: two of them then share a connection (`FilePrefix`,
  `ImplementsFileSharing` hold even so).
- Tables are freed while detached readers still run (`NoUseAfterFree`); a process
  ends while others may still write to it, and SIGPIPE kills them (`DoneIsQuiet`).
- Everybody writes to everybody on connections of finite capacity (`AllFinish`).
- `recv_socks[recv_cnt++]` is filled by several threads, polled by another
  (`CountIsPeers`, `TablesAreWholeButTheLast`, `SendingMeansMesh`,
  `NobodyLeftWaiting`).
- The processes agree on the mesh without talking about it (`OneLinkPerPair`).
- Arithmetic at its edges: quotas against dealing, the empty last segment
  (`ImplementsFileSharing`, `NoUseAfterFree`).
- TCP cuts up headers and contents (`SegmentsIntact`, `PlaceIsKept`).
- Late, lost, duplicated and overtaking datagrams (`CopyIsPrefix`,
  `WholeWhenDone`, `CopyInOrder`, `AckedIsWritten`, `Finishes`).
- A server that talks to the connection it accepted last instead of the one that
  is ready, and watches connections it has closed (`InStep`, `TransfersAreWhole`,
  `WatchesWhatIsOpen`, `AllServed`).
- The end of a connection taken for the end of a file (`SavedIsWhole`,
  `TransfersAreWhole`).
- A `read()` that fails leaves a header or a content as the segment before left
  it, and it is stored under a number all the same (`FailureCostsOne`, `IInv`).
- hw4's threads get the address of `clnt_sock`, share the result list, its length
  and the sort's count, and may be killed by the write to a client that has left
  (`AnswersAreRight`, `ServerSurvives`, `TableIsRight`, `AllAnswered`); the
  client's two threads share the screen (`ShownIsCurrent`).
- hw4's search goes back to the beginning of the query without looking at the
  letter again, its last line may be read twice, and a deletion must not free
  what is linked (`FindsWhatContains`, `LoadedAsWritten`, `TrieShape`,
  `ImplementsDictionary`).

## 3. Modules and how they correspond to the code

| module | models | composes |
|---|---|---|
| `FileSharing` | what the data phase promises: segments are dealt once, handed on, copied in order | |
| `Transfer` | the data phase: `server.c` 173-193, `client.c` 189-225 and 272-452 | `FileSharing` as `Promise`, with a refinement mapping |
| `MCTransfer` | instances of it: the orders in which a receiver may hold its connections | `Transfer` |
| `Transfer_proofs` | types, inductive invariants, every safety property of the data phase, and that `Transfer` implements `FileSharing` | `Transfer` |
| `Mesh` | the connection phase: `server.c` 118-171, `client.c` 62-187 and 227-269 | |
| `Mesh_proofs` | inductive invariant and every safety property of the connection phase | `Mesh` |
| `Framing`, `MCFraming` | `socket.c`: segments on a byte stream that is cut anywhere and may end | |
| `Framing_proofs` | inductive invariant and every safety property of the framing | `Framing` |
| `StopAndWait` | hw2 | |
| `StopAndWait_proofs` | inductive invariants and every safety property of hw2 | `StopAndWait` |
| `SelectServer` | hw3 | |
| `SelectServer_proofs` | inductive invariant and every safety property of hw3 | `SelectServer` |
| `Download` | hw1 | |
| `Download_proofs` | inductive invariant and both safety properties | `Download` |
| `SearchResults` | hw4, without state: scanning for a string, the bubble sort, the top of the list | |
| `Dictionary` | what hw4's trie promises: a count for each word, changed one word at a time | |
| `Trie`, `MCTrie` | hw4's trie and the loading of its data file | `SearchResults`; `Dictionary` as `Abstract`, with a refinement mapping |
| `Trie_proofs` | inductive invariants, every safety property of the trie, and that `Trie` implements `Dictionary` | `Trie` |
| `SearchServer`, `MCSearchServer` | hw4's server threads, its clients and their users | `SearchResults` |
| `SearchServer_proofs` | inductive invariants, every safety property of hw4's server and clients, and that its bubble sort sorts | `SearchServer` |

**Transfer.**  One action is what a thread does between two accesses to shared
state.  The code's busy waits are guards.  A segment's content is abstracted to
its number, so that `file[r]` shows which segment's bytes were written where;
`NoData` is what an unwritten table entry holds.  The reader thread of
`recvSegFromPeer` is seven actions: `StartReader` (it dereferences `arg`),
`ReadHeader`, `StoreBody`, `FlagFromPeer`, `CountDown` (under `remain_mutx`),
`UpdateRecvInfo` with the unlocked loop test, and `ReadGarbage` for a reader that
finds something other than a header at the front of a connection another thread
is using.  Two readers that have the same `recv_idx` add to one byte count without
a lock: `UpdateRecvInfo` may lose the addition of either.  What the process does after that is undefined: it is `"wild"` and
takes no more steps.  A connection holds `Cap` whole segments before `write()`
blocks.  `Die` closes the sockets of a process that crashes or is killed by
SIGPIPE: what it had in flight may come in or be lost, per connection.  A write
to a process that is gone is swallowed or raises SIGPIPE.  When a process dies
with data it has not read its peers' `read()` returns -1 (`HeaderReset`,
`BodyReset`), which `socket.c` does not tell from data: after an empty segment
the reader takes a stale header once more, otherwise it stores stale bytes under
a number, and what the copy is worth then nobody can say: the process is `"wild"`
and the properties say no more of it.  `peerAt` is the
outcome of the connection phase: any table that holds every peer once.  The last
entry may still be on its way into the table when the main thread goes on
(`Mesh`); it is taken to be there when the data phase first reads it.

**Mesh.**  The phases of the main thread, each connecting thread and the
accepting thread are program counters.  `recv_socks[recv_cnt++] = sock` is two
actions, the counter first, as the compiler emits it; `Locked` is `clnt_mutx`.
`SeeCount` and `TestAccept` read the counter without it.  Listen queues are
sequences; `connect()` succeeds before `accept()`, and fails if the peer does not
listen yet or if `ConnectMayFail`.

**Framing.**  The stream is a sequence of bytes, each marked with the segment and
place it belongs to; `read()` returns any non-empty prefix of what is there up
to what was asked for.  The header has two fields of two bytes, so that it may be
cut between fields and inside one.  The rest of a header that comes in parts goes
to `temp` and is lost, as in `socket.c` 61-64; a field read in part holds any
value, one not reached keeps the old one.  `Close` ends the connection anywhere,
in order or with a reset: then `read()` returns 0, on which the loops run for
ever, or -1, which `recvStr` adds to the place it reads to.

**StopAndWait.**  The network is external: sequences of datagrams of which any
element may be lost (`Lose`) or come in (`Deliver`).  The server's `recvfrom()`
takes whatever comes in as the acknowledgement and its sender as the client,
which is what the code does.  `lost`, `late` and `swapped` record what the
network has done and are read by properties only.

**SelectServer.**  Descriptors are numbers, because closing one and reusing its
number is what the code gets into trouble with.  The server's loop, its reads of
a "start" and a request, the extra read after a change of directory, transfers,
closing and watching are actions, and so are the client's menu, its copy that
cannot be opened and an upload that ends early; `Peer` is `conn[clnt_sock]`, the
connection the code reads, whichever descriptor `i` was found ready.  A blocking
`read()` is a guard.  The one of a start may return a part of it (`ShortRead`):
what follows is then read as something else.  `Farewell` is how a client sees the
server close its connection: an ordinary end if the server had read all it was
sent, otherwise a reset.  A file is sent in two steps, as the client may leave, or
be told of the end, in between (`SendFile`, `CloseFile`); when it cannot be opened
`fclose(NULL)` ends the server, which has read the request by then, so its client
sees an ordinary end (`SendFileFails`).  `ReadFile` has every way in which the
client's loop ends: 0, a block that reads as the string "eof", and the -1 of a
connection that was reset, which makes it write as many bytes as `(size_t) -1`
says.  `seen`, `adrift` and `misled` record what has gone wrong, in general, with
a client's messages, and with the end of a client's download; `adrift` also keeps
`ShortRead` within its bound.

**Download.**  The server's two accepts, the list, the file and its end; clients
queue for the two connections.  `cut` records which clients were still in the
queue when the server ended.

**SearchResults, Trie.**  A word is a sequence of letters, a node of the trie the
word that leads to it; `childNum`, `isTerminal` and `search_cnt` are kept beside
the set of linked nodes, as in the code, so that nothing but the operations makes
them agree.  `Advance` is the choice `traverseAndFindChar` makes for one letter;
`Found` walks the trie as it does, `Progress` follows one word.  `LoadLine` and
`LoadLastAgain` are the turns of the loop of `file.c`, with what `strtok()` leaves
of the last line; `Again` is the word that the second of them inserts.

**SearchServer.**  One action of a thread is what it does between two accesses to
what the threads share: `Start` (dereferences `arg`), `ReadQuery`, `ReadEnd`, the
search in the five steps in which it uses `result`, `result_cnt` and `str0`
(`Begin`, `Alloc`, `Fill`, `Find`, `End`), `Sort` and `Send` with the shared
counter as it is then, `RemoveSock` under the mutex, `Close`.  A search whose
`str0` another thread has changed may store any later word (`Find`) or stop early
(`End`), and one that stores through an entry that is not allocated yet kills the
process (`FindNowhere`).  Two abstractions are coarser than the code: `Find` is
the allocation of an entry, its two fields and `result_cnt++`, and `Send` is all
the lines of an answer.  Both matter only while two searches overlap, or two
threads write to one socket, and of these cases the properties say nothing but
that they may go wrong (`clean`, `"late"`, `"reused"`).  All clients wait in the listen queue at the beginning:
one that connects later is one that is accepted later.  The user types letters,
takes them back and leaves at any time; `Clear` is the `clrscr()` of the keyboard
thread, after its `write()`; `ReadAnswer` prints over what is on the screen.

**History variables.**  `lost`, `late`, `swapped`, `seen`, `misled`, `mishaps`,
`clean` and the two `cut` are in no guard, and `adrift` only in that of a bound.  With them one run lets everything happen at once and each property
says under which circumstances the code keeps it, instead of a run per
circumstance with the others switched off.  The circumstances are as weak as TLC
let us make them; each one left in is a way in which the code fails (section 6).

## 4. Runs, bounds and what they show

Sizes are those of one machine with two workers.

| run | states | shows |
|---|---|---|
| `TransferSafe` | 1.1 M, 90 s | 3 receivers, 2 segments of 2 and 1 bytes, buffers of 1, reader threads of receiver 2 may start late: `FilePrefix`, `ReadersEndLast`, `DoneIsQuiet`, `NoUseAfterFree` |
| `TransferFaults` | 0.44 M, 70 s | 2 receivers, 3 segments, every process may crash, every copy may fail to open, all threads may start late: `TypeOK`, `IInv`, `ImplementsFileSharing`, and `AllFinish` when none of this happens |
| `TransferEmptyTail` | violation | a file of whole segments: the table is freed under a reader (`NoUseAfterFree`) |
| `MeshSafe` | 1.2 M, 135 s | 3 receivers, any `connect()` may fail: `CountIsPeers`, `OneLinkPerPair`, `SendingMeansMesh`, `NobodyLeftWaiting`, `TablesAreWholeButTheLast`, and `EndsWithMesh` when none fails |
| `FramingCuts` | 0.48 M, 15 s | 4 segments of sizes 3, 0, 3, 2 on a connection that may end anywhere: `SegmentsIntact`, `PlaceIsKept`, `FailureCostsOne`, `AllDelivered` |
| `StopAndWaitNet` | 0.29 M, 60 s | 3 blocks, 2 clients, up to 3 datagrams in flight when one is repeated: `CopyIsPrefix`, `WholeWhenDone`, `CopyInOrder`, `AckedIsWritten`, `Finishes` |
| `StopAndWaitUnreliable` | violation | a complete copy that is not the file (`ReliableTransfer`) |
| `SelectClients` | 1.7 M, 190 s | 3 clients, one change of directory, one start that comes in parts, 2 blocks, killed clients, failing `fopen()` on either side: `InStep`, `TransfersAreWhole`, `WatchesWhatIsOpen`, `AllServed` |
| `DownloadRace` | 3 k | 3 clients, 2 names, 3 blocks, failing `fopen()`: `SavedIsWhole`, `ListBeforeFile`, `AllEnd` |
| `TrieFile` | 11 k, 40 s | every file of 3 lines over 5 words, with and without a final newline, then any deletions: `TrieShape`, `LoadedAsWritten`, `FindsWhatContains`, `AnswerIsTop`, `ImplementsDictionary` |
| `TrieMisses` | violation | a word that contains the query is not found (`FindsAllThatContain`) |
| `SearchClients` | 0.26 M, 75 s | 2 clients, 2 keys between them, users who leave when they like: `AnswersAreRight`, `ServerSurvives`, `TableIsRight`, `ShownIsCurrent`, `AllAnswered` |

Why these bounds are enough.

- *Transfer*: with 3 receivers there are two reader and two forwarding threads
  per receiver, so readers compete for `remain_seg_num`, for a connection and for
  a byte count.  Two segments give receivers with and without a segment of their
  own; three segments with two receivers (`TransferFaults`) give a receiver two of
  them and the round robin a second turn.  That nobody waits for ever is checked
  there, where the sender and the two receivers block each other; three receivers
  block in a circle only if each has two segments to forward, and six segments are
  beyond TLC here.  `Cap = 1` is the case in which writers block most; `Cap = 2` lets two
  segments be in flight.  `FileSize` is not a multiple of `SegSize`, except in
  `TransferEmptyTail`, where it is.  `peerAt` is not in the order of the ids
  (`Mixed`).
- *Mesh*: with 3 receivers there is one that only connects, one that only accepts
  and one that does both, which is when threads compete for the counter.
- *Framing*: equal and different sizes follow each other, with an empty segment
  in between and a short one last; a stale size can be right, too small or too
  large, and a read can fail after an empty segment and after a full one.
- *StopAndWait*: 3 blocks are a first, a middle and a last one; 3 datagrams in
  flight allow a late acknowledgement, a repeated block and the next one
  together.
- *SelectServer*: the third client takes a descriptor number that was closed
  before; one change of directory (`MaxDirs`) shows the extra read, and one start
  that comes in parts (`MaxCuts`) is followed by requests of the same client and of
  others.
- *Download*: three clients fill both connections and leave one in the queue.
- *Trie*: the words share beginnings, one is the beginning of another, one has a
  space, and one has the query behind a false start; three lines let a word be
  written twice and a newline repeat a last line that is new or old.
- *SearchServer*: two threads show every pair of searches; one letter makes a
  search find or miss one of the two words, two keys let a user type on, or take
  back, before the answer, and let both users have searches at once.
  `MaxLines` is 1, so that the answer depends on the sort.

Deadlock is only checked in `TransferEmptyTail`, where everything is to end: in
the other runs the programs really may stop.  A crashed or late receiver leaves
its peers waiting, a failed `connect()` stops the mesh, a lost request leaves a
UDP client waiting, users stop typing, and in `Download`, `Framing` and `Trie`
everything is over at the end.  The liveness properties say where stopping is
wrong.

Every property of a passing run has a mutant: a definition of the module is
replaced by a variant with a plausible bug (the operators commented "Bug for a
mutant run"), and TLC finds the property violated.

## 5. Fairness

- `Transfer`, `Mesh`: `WF_vars(ProgramStep)` only: some thread that can go on
  does.  No thread is favoured, because no step of these programs is ever undone
  and busy waits are guards: any infinite run of a real scheduler does at least
  this.
- `Framing`: weak fairness of the writer and of the reader: both threads run, and
  TCP delivers.
- `StopAndWait`: weak fairness of server and client, strong fairness of receiving
  an acknowledgement and a block: a network that loses every copy of what is
  repeated for ever delivers nothing, and no timeout helps.  Nothing makes users
  start a client, and `Lose` is not fair.
- `SelectServer`, `Download`: weak fairness of the server and of each client,
  whose user answers in the end.  Nobody must start a client, or kill one.
- `SearchServer`: `WF_vars(ProgramStep)`, as for `Transfer`: some thread goes on;
  users need not do anything.
- `Trie`: none; it has no liveness property.

## 6. Where the code and its documentation disagree

Three runs show a disagreement.

- `TransferEmptyTail`: a file of whole segments has an empty last segment that
  no byte count waits for, so `client()` frees `segment[]` while a reader thread
  is between storing it and counting it.  `README.md:12` says the joins make it
  safe.  (`NoUseAfterFree` holds for other files, as `TransferSafe` shows.)
- `StopAndWaitUnreliable`: acknowledgements are not told apart, and the end packet
  is not numbered.  `practice/hw2/server/server.c:4` asks for reliable transfer.
- `TrieMisses`: a letter that does not fit sets the search back to the beginning
  of the query and is not compared with it, so that the query *ab* is not found in
  *aab*.  `practice/hw4/server.c:10` asks for queries in the middle and at the end
  of a word to be found, with KMP.  (`FindsWhatContains` says what is found.)

Others show as a condition of a property, a constant of a run or an assumption
of a theorem; taking it away makes the run fail.

- Reader threads and the loop variable (`client.c:195`, constant `Late`): with a
  late receiver `AllFinish` fails, because two threads share a connection or
  one has none.
- `fopen()` of the copy fails (`client.c:370`, `OpenMayFail`): the receiver never
  ends; with an empty file it ends without a copy (`CopyIsNeeded`, section 7).
- `recv_cnt` is raised before the entry of `recv_socks` is stored and is polled
  without the mutex: "Init complete" may be sent, and the data phase begun, with
  the last entry unset (`TablesAreWholeButTheLast`); it is stored once the thread
  goes on.  `Transfer` does not model threads that are started before it is.
- Nothing is sent again and nobody connects again, although `README.md:25` and
  `README.md:32` speak of it: `Disturbed` in `AllFinish`, the failed connection
  in `EndsWithMesh`.
- A header that is cut loses number or size (`socket.c:61-64`): the condition on
  `cut` in `SegmentsIntact` and `AllDelivered`.
- hw2: `OneClient` (a second client's request redirects the file), `WellBehaved`
  (loss together with lateness, or reordering), `lost \subseteq {"block",
  "ack"}` in `Finishes` (request and end packet are sent once).
- hw3: `PassedOver` in `AllServed` (a client other than the last accepted one is not
  served) and its condition (a killed client, a transfer or a failed `fopen()` can
  stop the server), `"transfer" \notin seen` in `WatchesWhatIsOpen` (a transfer
  closes a connection that stays watched, and the next `select()` fails), `adrift`
  in `InStep` (an upload that cannot be opened, or the rest of a start that came in
  parts, is read as requests), `misled` in `TransfersAreWhole`.  A client is misled
  in four ways: the server cannot open the file and dies of `fclose(NULL)`
  (`server.c:200`), so that the client reads an ordinary end and says that the file
  is saved, with nothing in it (`client.c:92`, `209`); its own copy cannot be opened,
  which it does not mention either; a block reads as the string "eof"
  (`client.c:211`) and the rest is missing; its connection is reset.
- hw4: `clean` in `AnswersAreRight` (searches at once spoil each other), `"rude"`
  in `ServerSurvives` (a client that leaves while it is owed an answer kills the
  server) and `"reused"` there (a thread that read `clnt_sock` late closes a
  connection that is not its own, and `accept()` gives its number to the next
  client; the counterexample has three clients), `"late"` in `AllAnswered` (a thread that starts late serves another
  one's client), `"wiped"` and `"hurried"` in `ShownIsCurrent` (the screen is
  cleared after the write; lines of an older answer stay), `"middle"` in
  `TableIsRight` (the removal overwrites the wrong entries), `Again` in
  `LoadedAsWritten` (the first word of the last line of a file that ends with a
  newline is inserted with count 0) and `deleted` there (`deletion()` of a word that is a leaf does nothing).
- hw1: `got[c] = 0` in `SavedIsWhole` (a client cut off, or one whose file the
  server cannot open, says that its empty file is saved); the server ends after one client although its
  comment has steps 2 to 5 repeated.

## 7. What is proved

TLAPS checks these theorems for every value of the constants that the modules'
assumptions allow.

| assumption | allows |
|---|---|
| `TransferAssumption` | any number of receivers, any file, segment size and buffer, whole tables in any order of a receiver's connections, any late, crashing or failing processes |
| `MeshAssumption` | any finite, non-empty set of receivers; `connect()` may fail or not |
| `FramingAssumption` | any sequence of segments of any sizes up to `MaxSize`, which is any number |
| `StopAndWaitAssumption` | any set of clients, any number of blocks but none, any bounds on what the network repeats |
| `DownloadAssumption` | any set of clients, any number of names and blocks |
| `SelectServerAssumption` | any finite set of clients, any part of the menu, any number of directory changes, blocks and starts that come in parts, killed clients and failing `fopen()` or not |
| `TrieAssumption` | any finite alphabet, any files of lines over it without an empty line or a word that begins with a space, any strings to search |
| `MaxLinesAssumption`, `SearchServerAssumption` | any length of an answer; any finite set of clients, any dictionary, any number of keys |

Every theorem below is of the form `Spec => []P` for the property `P` it is named
after, under the condition given, except where said otherwise.

| module | theorems |
|---|---|
| `Transfer_proofs` | `TypeCorrect` (`TypeOK`), `IInvCorrect`, `FilePrefixCorrect`; `TransferImplementsFileSharing` (`Spec => ImplementsFileSharing`) and `DoneIsQuietCorrect` if `CopyIsNeeded`; `NobodyKilledCorrect` if `Calm`; `ReadersEndLastCorrect` if `NoRecount`; `NoUseAfterFreeCorrect` if `LastNotEmpty` |
| `Mesh_proofs` | `MeshInvCorrect`, `OneLinkPerPairCorrect`, `CountIsPeersCorrect`, `NobodyLeftWaitingCorrect`, `SendingMeansMeshCorrect`, `TablesAreWholeButTheLastCorrect` |
| `Framing_proofs` | `SegmentsIntactCorrect`, `PlaceIsKeptCorrect`, `FailureCostsOneCorrect` |
| `StopAndWait_proofs` | `CopyInOrderCorrect`, `CopyIsPrefixCorrect`, `WholeWhenDoneCorrect`, `AckedIsWrittenCorrect` |
| `Download_proofs` | `SavedIsWholeCorrect`, `ListBeforeFileCorrect` |
| `SelectServer_proofs` | `InvCorrect`, `InStepCorrect`, `TransfersAreWholeCorrect`, `WatchesWhatIsOpenCorrect` |
| `Trie_proofs` | `TrieShapeCorrect`, `LoadedAsWrittenCorrect`, `FindsWhatContainsCorrect`, `AnswerIsTopCorrect`; `TrieImplementsDictionary` (`Spec => ImplementsDictionary`) |
| `SearchServer_proofs` | `ServerSurvivesCorrect`, `TableIsRightCorrect`, `ReusedOnlyWhenLate`, `AnswersAreRightCorrect`, `ShownIsCurrentCorrect`; `BubbleSortCorrect` (for any array, the sort rearranges it into descending order and keeps the order of equal counts) |

### The data phase

*The inductive invariant.*  `FilePrefix` is not inductive: a step of the writer
keeps it only if a flagged entry of the table holds the right bytes (`TableOK`),
and a reader keeps that only if what it stores under number `k` are the bytes of
segment `k`.  As header and body are read in two steps, and two readers may share
a connection, this needs that a reader between the two has the header's body at
the front of the connection (`BodyFirst`), that it is alone there (`BodyAlone`),
and that a header that has been taken leaves its body in the connection while its
writer lives (`HeadersOK`).  What is on a connection is right because a receiver
forwards only what the sender dealt it (`OwnOK`, `FromSenderOK`, `FromPeersOK`)
after it is in its table (`PublishOK`).  `WriterOK` ties the copy to the exit.
`IInv` is the conjunction; TLC checks it in `TransferFaults`.

*The layout.*  `LocalsOK` (what program counters say of locals) and `TypeOK` are
proved inductive together; then, for each action, the parts of `IInv` it can
disturb; a temporal step combines them.

*The refinement.*  `have` is the set of flagged segments, `copied` the length of
the copy, `finished` a process that is done.  `PublishOwn` maps to `Deal`,
`FlagFromPeer` to `Forward` (`ReadersHoldOwn`) or a stutter if two readers
delivered the same segment, `WriteSegment` to `Copy`, `ReceiverExit` to `Finish`
(`WriterOK`), everything else to a stutter.  `CopyIsNeeded == FileSize > 0 \/
~OpenMayFail` excludes an empty file whose copy cannot be created, for which a
receiver does exit without a copy.

*How it ends.*  Who has finished, what is still on its way and what has been
counted are tied together by three more parts.

- `DealInv`: the segments a receiver was dealt differ, are in its table of own
  segments or on their way to it, and are no more than its quota.
- `RelayInv`: a segment is on its way to a receiver, in a reader's hands, or
  flagged there, and only one of these, and at most once: each peer forwards it
  once, and no two readers have the same one.
- `TallyInv`: `remain_seg_num` is the number of segments from peers that are not
  counted yet (`RemainCounts`), `cur_size` at most the bytes of those that are, as
  additions may be lost (`SizeCounts`), and no segment is counted twice
  (`CountsOnce`).

A receiver ends when its copy is whole, its forwarding threads have handed on
their quota and the byte counts are reached.  A whole copy needs every segment
flagged, and the only sources of a segment are the sender and the peer it was
dealt to: so everybody has dealt and forwarded all they had for it, and nothing
is left on its way (`DoneIsQuiet`).  From this `NobodyKilled`: nobody writes to a
process that is done.  `ReadersEndLast` is `RemainCounts` for a counter at 0, and
`NoUseAfterFree` follows from `SizeCounts`: as long as a reader has a segment that
is not empty the bytes do not add up to the file.

Their conditions are needed; TLC has a counterexample without each of them.

- `CopyIsNeeded`: with an empty file whose copy cannot be opened a receiver ends
  before the empty segment is on its way to it.
- `NoRecount` (the last segment is not empty, or nobody crashes and every copy is
  opened): three receivers and an empty fourth segment; a reader whose `read()`
  fails after the crash of its peer counts it a second time.
- `LastNotEmpty`: run `TransferEmptyTail`.

### The connection phase

`MeshInv` has three parts.

- `Order`: a receiver is in the sender's listen queue or table at most once
  (`AcceptedOnce`); nobody is told anything before all are accepted (`ToldLast`);
  whom a receiver connects to was accepted later, and is among the first it was
  told (`ConnectsForward`).  `OneLinkPerPair` follows: of two positions only one
  is the smaller.
- `Tables`, for each receiver: one thread holds the mutex (`OneHolder`); the
  entries below `recv_cnt` are set, the last of them once the mutex is free
  (`Filled`); what is stored is connected (`HeldIsLinked`); what waits in the
  queue or in the accepting thread's hand is not stored yet (`WaitingIsNew`,
  `AcceptedIsNew`); the counter is the number of peers (`CountIsRight`).  A
  connection counts for the first time because a pair has one: `Tables` needs
  `Order`.  The counter cannot exceed the number of slots because it counts
  peers, so no entry is written outside the table (`SlotThere`).
- `Waits`: a program counter past a busy wait means that the counter is as high
  as the wait asked.  Then the connected peers are all peers, as there are no
  more (`CountBound`), which gives `NobodyLeftWaiting`; and by `Filled` and
  `OneHolder` a table then lacks at most the entry of the thread that holds the
  mutex, which is the last one (`TablesAreWholeButTheLast`).
  `SendingMeansMesh` needs in addition that all receivers are among the first N
  accepted (`AllAccepted`).

`TablesAreWholeButTheLast` gives, for every number of receivers, what `Transfer`
assumes of `peerAt`, up to the last entry: that this one is stored before the data
phase first reads it is an assumption about the schedule, which nothing in the code
enforces.  That it is stored in the end is part of `EndsWithMesh`, which is only
model-checked.

### Framing

What the reader has before it is `Ahead`: the bytes on their way and the one the
writer would write next.  They follow each other without a gap (`Run`), whatever
has been cut off the front.  While every segment so far was delivered with its
right size the reader is where it takes itself to be (`Placed`): before a header
the front is the first byte of the current segment, in a header or a content it is
the byte after those it has.  So a header that comes in parts, though its number
or size is lost, moves the reader by four bytes all the same, and `PlaceIsKept`
and `SegmentsIntact` follow.  After a `read()` that fails nothing comes in any
more (`Failing`), and the array holds bytes of segments delivered before
(`BufferOld`), which is what `FailureCostsOne` says.

### The exercises

*hw1.*  While the server runs, whoever wants the file waits in the queue or is the
one that has been accepted, and what is on its way to anybody is the rest of the
list (`Open`); it is there once, and has nothing to read (`Alone`).  So the file
goes to a client with an empty connection, and the others that want it are in
`cut`; from then on what is on the way to the first is the rest of the file
(`Served`), and nothing of it is on the way to the others, nor to anybody if it
could not be opened (`Nothing`).  `Listed` says that one who has come to the file
has read all names: the end of its first connection came after them, or it came
from the server's end, when there is no second connection any more.

*hw2.*  What is on its way to a client, repeated blocks included, comes in the
order of its numbers and lies between the last number the client received
(`pre_seq`) and the block the server is at (`i`); what the client has written
grows and ends at `pre_seq` (`InOrder`).  So a block that is written is newer than
all before it.  Losing a datagram keeps the order of the others, a repetition
sends block `i`, the newest; overtaking is what `swapped` excludes, and it is the
only thing: `late` and several clients are allowed.  That the copy is *whole* has
two reasons, one for each way in which the network may misbehave.  As long as
nothing is late there is at most one datagram under way, and it is the block the
server waits at or its acknowledgement (`Prompt`); as long as no block is lost
every block between the client's last one and the server's is on its way
(`Reaching`).  Either keeps `Straight`: the copy is the file up to `pre_seq`.  Both
misbehaviours together break it (run `StopAndWaitUnreliable`).

*hw3.*  The server serves one request from its first `read()` to its last on the
connection it accepted last; so every client is at a point of its own that only
the client's and the server's program counters decide, and `Inv` says for each
such pair what is on its way in both directions (`Talking`, `Leaving` for clients
that have ended, `HungUpOn` for those the server has left).  A killed client
leaves its messages behind.  All this is said of the clients outside `adrift` only:
once a start was cut, or an upload could not be opened, the server may take what
a client sends for anything, and what is proved is that this disturbs no other
client.  `Links`: each client is in the queue or has one descriptor.  `Watched`: every branch that closes a descriptor
forgets it, but those of transfers.

*hw4's trie.*  `Rooted` (the beginnings of a node are nodes), `ChildrenCounted`
(`childNum` is the number of children, which `insert()` raises exactly for a letter
that is new at that node) and `LeavesAreWords` are inductive together, and decide
what `deletion()` does: it returns at a node without children, and so at any word
that is a leaf; at a node with children it finds `childNum > 0` on the way up.
`DeletionIs` gives its value: it never frees a node, and at most takes the mark of
the word it is called for (`DeletionDoes`).  `Written` relates marks and counts to
the lines read so far.  For the refinement the dictionary is the function from
marked nodes to counts: `InsertIs` and `DeletionDoes` say that it changes at one
word.

What a query finds is the value of a recursion over the tree of nodes.  A search
comes to node `p` with some number of letters of the query found in a row; a word
below `p` is to be found from there if the letters on the way lead through the rest
of the query (`Leads`, by a table of how much has been found at each of them,
`Scans`).  `RightAt` says that the traversal from `p` finds exactly these words
(`Hits`), in dictionary order: true of a node if it is true of its children
(`VisitRight`), because the children are visited in the order of their letters and
the words below one come before those below the next (`BranchesBefore`), and
therefore of the root (`FoundIs`).  A node without children is where the code
returns early, which `ChildrenCounted` makes right.  It remains to see which words
these are: if the query has been found in a row, it occurs (`LeadsContains`), and
where no letter before its first occurrence is its first letter, nothing is ever
set back from the middle of an occurrence (`StraightLeads`).  `AnswerIsTop` is
`FoundIs`, by which all results differ and each has one place, and the correctness
of the bubble sort, which loses none of them (`ArrangedIsAll`).

*hw4's server.*  `Types`, `Roomy` (a descriptor for every client), `Counted`
(`clnt_cnt` is the number of registered threads and one if main is between
counting and creating), `Prompt` (while no thread was late each has an open
descriptor of its own, and at most one waits to start), `Listed` (the table is the
set of descriptors in use while clients leave in reverse order), `Surviving` (who
is written to is there; one thread at a time is in a search).  `ReusedOnlyWhenLate`
explains the condition of `ServerSurvives`.

`AnswersAreRight` is the composition of a search and a sort.  `Right` follows a
thread that nobody disturbs through its search: the array is empty, then a
`Listing` of the first entries of the dictionary, then of all, then `Ranked`.
`Alone` is why others do not matter: while `clean[t]` holds no other thread is in
a search and none has the same array (`Memory`: arrays in use are known;
`AllocIs`: `malloc()` has a fresh one).  `BubbleSortCorrect` is proved about the
two loops: after turn `i` the last `i` entries are where they belong (`Settled`),
within a turn the least so far is carried along (`Carried`), and the array stays a
rearrangement in which equal counts keep their order (`Arranged`); so an entry's
place is the number of those that come before it (`RankedIsAnswer`), which is
what the answer is defined by.

`ShownIsCurrent` is about all parts at once: without the mishaps that are bad for
it a user either has been shown the answer to what is typed (`AtRest`), or it is
owed: the word is on its way (`Asked`), with a thread (`InHand`), or the answer is
coming back (`Answered`).  Only one of these, because a client has one connection
(`Distinct`) and a thread per connection (`OneServes`).

### Recursion

An induction principle for data cannot be instantiated by the provers, yet
recursive definitions are reasoned about.  The loops of the bubble sort are
recursive functions on an interval: a table of values up to each turn exists
(`LoopExists`), and a property that a turn keeps holds after all of them, because
the least turn after which it does not would break it (`UpTo`; that there is a
least one is well-founded induction on the numbers).  The same two lemmas give
the value of the library's `FlattenSeq` for any sequences (`FlattenIs`), and that
of the traversal of the trie: take any table of what is found at the nodes, and
compute it anew from itself as often as the trie is deep; then it is what the
recursion asks for (`WalkExists`); what is right at a node if it is at its
children is right at all of them (`Upwards`, by induction from the leaves).
`deletion()` is given by an explicit table. These lemmas and those about the
bubble sort stand in `Trie_proofs` and in `SearchServer_proofs`, as neither
module extends the other.

### Only model-checked

All liveness properties (`AllFinish`, `EndsWithMesh`, `AllDelivered`, `Finishes`,
`AllServed`, `AllEnd`, `AllAnswered`): liveness under fairness and `ENABLED` are out
of the prover's reach.

## 8. What is not modelled

- `main.c`, `Console.c`, bars, times and rates: no state of the protocol.
- Heap layout: the terminating zero behind a full buffer (`socket.c:67`), tables
  that are allocated too small (`server.c:136`, `client.c:119`), the result list
  of hw4 beyond its 100 entries.
- `writeSocketInfo` and `readSocketInfo`: their loops are those of the segment
  functions, which `Framing` models.
- `removeDisconnectedClient()` of `server.c`, which nobody calls.
- A sender whose connection to a receiver is reset, and `file.c` on a file the
  sender cannot read, `-g 0`, and values of `-n` that are not numbers.
- hw3's current directory, which all clients share: a list is sent, and a request
  served, in one turn of the loop, so that no other client's change of directory
  comes between.  List entries that come in pieces; a request (116 bytes) and what
  is left of a start come whole, at most `MaxCuts` starts are cut, and what a
  client that is adrift sends is never taken for a request.
- client.c:155, where `main` goes on while the last entry of its table is still
  unset, in the data phase: `Mesh` has the window, `Transfer` begins after it.
- hw3's `echo_server.c`, an example with no client in the repository: it sends
  back what it reads, on the connection it reads from.
- hw4's client: Backspace and layout, and answers that come in pieces.

## 9. Plan

Done: every module of section 3 with its runs; the proofs of section 7, which
cover every safety property that a run finds to hold and both refinements.

What is left:

1. An abstract channel of whole segments that `Framing` implements while headers
   are whole, so that `Transfer`'s connections rest on it.
2. The safety half of `AllFinish` and `AllServed`: that no reachable state in which
   somebody is not done yet has every thread waiting, stated with the guards
   instead of `ENABLED`.
