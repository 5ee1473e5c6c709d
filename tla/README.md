# A verification development for ULPPK

ULPPK is a C library for Unix programs: data structures that can live in
memory mapped files, message passing between processes, process control and a
forking socket server. This directory holds TLA+ models of its stateful
components, the TLC runs that check them and the TLAPS proofs about them.

Check a run with `tlc -config X.cfg M`, a proof with `tlapm M.tla`.
`PROJECT.json` lists the runs, the definitions with the source lines they
translate, the mutated definitions that show that each property can fail, the
hazards of the code and the theorems.

## 1. The system

All paths are under `src/ulppk/`.

| Part | State | Operations | What makes it correct |
|---|---|---|---|
| `dqacc` deque access | a header (`dqslots`, `dquse`, `dqtop`, `dqbottom`, open, memmapped and buffctrl bits, buffer pointer) and a ring of slots | `dq_init`, `dq_init_memmap`, `dq_init_fixbuff`, `dq_close`, `dq_atd`, `dq_abd`, `dq_rtd`, `dq_rbd` | it is a bounded deque; the buffer is freed once |
| `mmatom`, `mmapfile` | files, descriptors, mappings, `fcntl` locks on all of a file | create, connect, close, lock, unlock | descriptors are accounted for; a lock a process counts on is there |
| `mmdeque` | a `dqacc` header and slots in a mapped file | create, open, close, the four end operations, isempty, reset, stats, packets | calls of several processes linearise; a dead process leaves a usable file; packets stay whole |
| `mmpool` | two deques of buffer indices (in and out of the pool), counters, a file of buffers | define, open, close, getbuff, putbuff, zap, stats, ref2data | a buffer has one owner; none gets lost while nobody dies |
| `mmfor`, `linearlist` | fixed length records in a mapped file, the first of them the header of a list | record locks, list lock, add, delete | records stay contiguous; a writer is alone |
| `msgcell` | a named semaphore and the application's data | create, attach, send, rec, timedrec, reset, close, delete | nobody sleeps over data |
| `msgdeque` | an `mmdeque`, a `msgcell`, a lock file | send and rec of records and of byte streams, reset, stats | each message arrives once, whole and in order |
| `socketio`, `ioutils` | a descriptor and the caller's buffer | read and write a count of bytes or a line | no byte is lost or repeated |
| `process_control` | list of managed children, their count, the throttle flag | throttled fork, throttled wait, daemon | limit and exit limit hold; each managed child is reported |
| `socketserver` | `open_conns`, `loop_abort`, the listen socket, children | the accept loop, SIGCHLD and SIGTERM handlers | limit holds; children are reaped; SIGTERM ends the loop |
| `statemachine` | tables of events, actions, states and transitions; the event queue and the error queue | registration, `sm_transition`, which handlers call again through the queue | events are served in order; an abort unwinds all calls; a call returns |
| `llacc`, `btacc` | linked nodes, a search tree with parents | add, get, pluck, insert, drain; add, delete, replace, search, traverse | a list is a sequence, a tree a set in order |
| `cmdargs` | a tree of options with values | register, parse, fetch | each option has the value that was given last |
| `inifile`, `inifileparser`, `ifile` | the scanner's buffer and start condition, the parser's stack, a tree of files, sections and elements | parse, look up | the tree says what the file says |
| `appenv`, `sysconfig` | a registry of variables, the environment, the .ini tree, the user | register, set, read, parse the .ini file, change user | one precedence; the two copies agree as far as a node holds the value |
| `urlcoder`, `crc16ccitt`, `pathinfo` | none; a running value; none | encode, decode; checksum; split a path | decoding inverts encoding; the table agrees with division; the parts make up the path |
| logging, terminal modes, reports, tools | none | print, pass arguments on | |

Interactions: `mmpool` and `mmdeque` call `dqacc` on headers in mapped memory
and `mmatom` for the locks; `linearlist` goes through `mmfor` to `mmatom`;
`msgdeque` calls `mmdeque`, `msgcell` and `mmatom`; `process_control`,
`pathinfo` and `statemachine` keep their queues in `dqacc` deques, and
`statemachine`, `cmdargs`, `ifile` their tables in `llacc` lists; `appenv` is a
`btacc` tree; `sysconfig` fills it from `ifile`; `socketserver` uses
`signalkit`. Processes share state through mapped files, the semaphore, the
`fcntl` locks and signals only.

What is hard here: several processes between any two loads and stores of a
mapped header; `fcntl` locks, which belong to a process and vanish with it or
with the close of any descriptor of the file; a process that dies in a call
while the file keeps what was stored; a semaphore that is posted in a step of
its own and outlives the processes; signal handlers between two instructions
of the accept loop; the order in which children end; a state machine that calls
itself while its queue holds events; system calls that move a part of what was
asked for, are interrupted or would block; a scanner whose state outlives the
file it reads; index arithmetic of rings that are empty, full or of one slot;
`ushort` counters that wrap and `size_t` values that are compared with 0.

## 2. The modules

| Module | Models | Built on |
|---|---|---|
| `DequeOps` | the header and the ring arithmetic of `dqacc.c` as operators on a record | |
| `BoundedDeque` | abstract: a sequence of bounded length with two ends | |
| `Dqacc` | `dqacc.c` on one header; implements `BoundedDeque` | `DequeOps` |
| `MmAtom` | `mmatom.c` and `mmapfile.c`, system call by system call | |
| `MmDeque` | `mmdeque.c` over the locks of `mmatom.c`, statement by statement, threads and processes; implements `BoundedDeque` | `DequeOps` |
| `MmPacket` | the packets of `mmdeque.c`, byte by byte | deque calls atomic |
| `BufferPool` | abstract: buffers with at most one owner each | |
| `MmPool` | `mmpool.c`, deque call by deque call; implements `BufferPool` | deques as sequences |
| `LinearList` | `linearlist.c` over the locks of `mmfor.c` | |
| `MsgCell` | `msgcell.c` with an application's data | |
| `MsgDeque` | the records of `msgdeque.c` over `msgcell.c` | deque calls atomic |
| `MsgStream` | the byte streams of `msgdeque.c` | deque calls atomic |
| `SocketIo` | the loops of `socketio.c` and `ioutils.c` over a connection | |
| `ProcThrottle` | the throttle of `process_control.c` | the list as a set |
| `SocketServer` | the accept loop of `socketserver.c` and its handlers | |
| `StateMachine` | `statemachine.c` | queues as sequences |
| `NodeList` | abstract: the sequence of nodes and the values returned, as the comments of `llacc.c` promise them | |
| `LinkedList` | `llacc.c` on link words; implements `NodeList` but for the calls of `Deviates` | |
| `BinTree` | `btacc.c` on child and parent pointers | |
| `CmdArgs` | `cmdargs.c` | |
| `IniFile` | `inifile.c`, `inifileparser.c` and the tree of `ifile.c` | |
| `SysConfig` | `appenv.c`, `sysconfig.c`, the typed reads of `ifile.c` | |
| `UrlCoder`, `Crc16`, `PathInfo` | `urlcoder.c`, `crc16ccitt.c`, `pathinfo.c` | |
| `DequeOpsProofs`, `MmDequeProofs`, `MmPoolProofs` | lemmas of the ring; theorems | the modules they name |
| `StructuresProofs` | theorems | `Dqacc`, `StateMachine`, `LinkedList`, `SysConfig`, `IniFile` |
| `MsgProofs` | theorems | `MsgDeque`, `MsgCell` |
| `StreamProofs` | theorems | `SocketIo`, `MsgStream` |
| `ProcessProofs` | theorems | `ProcThrottle`, `SocketServer` |
| `SharedProofs` | theorems | `LinearList`, `MmAtom`, `MmPacket` |
| `MCStructures`, `MCShared`, `MCMessages`, `MCProcesses` | the components of a kind side by side: the constants of their instances and one `subject` per behaviour | the modules they check |
| `MCMmDeque`, `MCMsgStream` | constants of one component | |

A composite module of the last kind but one does not compose components that
interact: a behaviour is about one of them, the others stutter. It keeps the
number of runs that of the questions, and each component's properties are
checked in all behaviours, vacuously where it rests. Components that interact
meet in one module: the locks of `mmatom` and the header of `dqacc` in
`MmDeque`, `msgcell` and the deque in `MsgDeque` and `MsgStream`, the record
locks and the list in `LinearList`, the .ini tree, the registry and the
environment in `SysConfig`.

### How state and actions correspond to the code

*DequeOps, Dqacc.* The header record has the fields of `DQHEADER`; the slots
are a function of slot numbers to items. The four end operations are one
operator each that returns the next header, with the special treatment of the
first and the last item and the two directions of wrapping. `Dqacc` adds the
buffer: where `dqbuff` points, its length in bytes (a `ushort` product in
`dq_init`) and how many allocations are outstanding.

*MmAtom.* The kernel's tables are variables: the descriptors and mappings of
each process, the length of each file and the locks on it. Creation is the
chain `mmapfile_create` (the open that truncates), `Extend`, `Reopen`,
`set_mandatory_locking`, `mma_create`, an action each, and each may fail where
the code has an error path. `believed` is the lock a process has by its own
account, `dropped` what the close of another descriptor took away, `leaked` the
descriptors of failed calls.

*MmDeque.* Each thread has a step `pc` and the call it executes. A call locks
the file, tests the count, moves an index, changes the count, copies the item
and unlocks: every load and store of the header is an action of its own, in the
order of the statements. `Kill` takes a process away between any two of them;
`Fault` is the death of a process that touches memory behind the truncated
file or follows a pointer of another process. `mmdq_stats` reads without a
lock, as in the code. `CreateAlone` is the client's obligation to create a
deque while nobody has it open: the code truncates the file under the feet of
the others and nothing in it prevents that; with the constant FALSE `NoFault`
fails.

*MmPacket.* A byte is a deque call. The header of eight bytes and padding is
two items, the sync pattern and the length. The read loop counts its rounds as
the code does.

*MmPool.* The deques are sequences, because `Dqacc` and its proof show that a
header is one; a step is one deque call or one update of `stats.remaining`.
`search_deque` rotates the deque of buffers out. It pops an item of eight bytes
into an `int`: what the build places behind `x` is the constant `AfterX`
("padding", or "nitems", which is what gcc does without optimisation). `Alone`
is the obligation to define and zap a pool while no other process uses it;
neither function locks anything, and with FALSE `PoolAccounted` and
`NoDoubleAllocation` fail.

*LinearList.* A lock request, its grant and the stores of the list functions
are actions. Locks are kept for each record and process; a request that closes
a cycle of waiting processes fails with EDEADLK, and the list functions, which
do not look at the result, go on (`unlocked`).

*MsgCell.* The application's data are a number of items. The data check, the
wait and the post are steps; a wait ends by a post, by a signal or, in
`msgcell_timedrec`, by the timeout. The semaphore starts absent or at any
value.

*MsgDeque, MsgStream.* `mmdq_abd` and `mmdq_rtd` are atomic, which is what
`MmDeque` shows; the read of `dquse` by `mmdq_stats` is a step without a lock.
The insertion, the check of the deque and the post are three steps of
`msgdeque_send`; lock, stats, removal, unlock, check and wait are those of
`msgdeque_rec`. The semaphore starts with any value, because `msgcell_create`
opens one that exists as it is. In `MsgStream` each byte is a deque call of its
own, and a send that finds the deque full stops where it is.

*SocketIo.* The connection is a bounded sequence of bytes. Each system call is
an action: `write(k)` and `Read(k)` move any part of what they may, `Signalled`
is EINTR, `WouldBlock` a read that would block, `ReadEof` a peer that closed.
`WriteFails` and `ReadFails` are every other error at any point of a call, EPIPE
and a write that would block among them: `sio_writen` and the reads then return
-1, after whatever part they have moved. Such a call may fail and the next one
succeed, so a connection that stays broken is one of the behaviours. A record of
the call in progress has the bytes left and the caller's buffer; `wrote` and
`done` are what the last write and the last read told their callers. The loops
of `ioutils.c` keep the result of a system call in a `size_t` and count -1 as a
byte moved backwards; at the first failing or interrupted call of theirs the
model stops (`wild`), as the next one is outside of the caller's buffer.

*ProcThrottle.* The deque of process statuses is rotated by a search and its
order decides nothing, so it is the set of its pids. `waitpid` may return any
matching zombie, which covers the orders in which children end; the kernel may
give a reaped pid to the next child. The loop of `proc_throttled_wait` is the
`ppc` "wait" (first `waitpid`) and "again" (those after an unmanaged child).

*SocketServer.* The increment of `open_conns` is a load and a store, with the
handlers in between; a load may reuse the value compared before, as an
optimised build does. `leaked` counts what `open_conns` has beyond the children.

*StateMachine.* `frames` is the stack of the nested calls of `sm_transition`:
the transition each one executes, its next handler and its status. A handler
returns any event of the table. `Handler`, `Land` (the new state), `Dispatch`
(the next event of the queue, a nested call) and `Return` are the actions of a
call in progress. A table is registered entry by entry or is one of `Tables`.

*LinkedList, BinTree.* The link words are functions of nodes; each function of
the code is one action. `last` has the last call of a list with the value it
returned, which the refinement of `NodeList` compares. `free` are the nodes in the application's hands, `drift`
and `corrupted` the histories that the deviations of section 5 need.

*CmdArgs.* Registration, and then an action for each argument. An argument is
the text behind its dashes.

*IniFile.* A file is a sequence of lines of lexemes. The scanner gets them in
chunks and has the code's start conditions; the parser is the shift-reduce
automaton of the grammar with its error exits.

*SysConfig.* A behaviour starts with any shell of `Shells` and any disk of
`Disks`; the start-up is one action, as nothing runs concurrently, and the
program then sets, registers and reads settings and changes its user. `Fits` is
what a node of the registry holds of a value: `strncpy` copies `sizeof(value)` - 1
bytes, and `Truncated` gives the values that are longer. The start-up ends the
process when there is no .ini file, and when there is one that cannot be opened
or parsed.

*UrlCoder, Crc16, PathInfo.* Operators for the conversions; the actions apply
them to argument lists, byte streams and paths. Characters are taken from a
few that the code tells apart; bytes and words of the checksum are sets of
bits.

## 3. What the runs check

| Run | Instance | Question and answer |
|---|---|---|
| `structures` | deque: 2 items, 0 to 3 slots, `ushort` of 16 values; state machine: 2 user states of 3, 2 transitions each, queues of 2, 2 raised events; tree: 5 nodes of 4 keys; command line: 2 options, 3 arguments; .ini: files of up to 6 lines, two of them, in chunks of 13; 3 shells, a value too long for a node; lists of 3 arguments; 3 bytes of 5; paths of 5 characters | every component that lives in one process keeps its structure: the ring is one arc and a bounded deque, events are served in order and calls return, a tree is a set in order, options, .ini elements and settings hold what was given, strings survive encoding and so do the argument lists that the scanner can take; each but for the deviations that the table below names (521051 states) |
| `shared` | 2 processes; lists of 2 records, packets of 0 to 2 bytes in 5, one file, a pool of 3 buffers, one death | lists stay contiguous, packets of sequential calls whole, descriptors and locks accounted for, buffers have one owner, refusals a reason, the pool lock is given up, `BufferPool` is implemented |
| `messages` | 2 senders and 2 receivers, 2 slots, semaphore limit 2, 3 sends, one signal, one death; 3 processes at a cell, 6 calls; a connection of 2 bytes, 2 writes, 2 reads, one signal, any system call failing | no lost wakeup, order, loss of one record per death, every record is received; nobody sleeps over data; no byte is lost or repeated, and a write that failed does not say that it is complete (696249 states) |
| `processes` | 4 pids, limit 3, exit limit 2, one unmanaged child; a server with limit 3, backlog 2; a list of 4 nodes | list and count are exact, the flag stays in its band, each managed child is reported, a blocking wait blocks, the throttle ends; children within the limit, reaped, the parent accepts again, SIGTERM ends the loop; a list is one chain and the sequence promised but for the calls of `Deviates` (it is in this run to keep `structures` small; 80597 states) |
| `mmdeque` | 2 processes, 0 or 2 slots, one creation | writers are alone, `isempty` is right when it returns, no fault, every lock is given up, and the calls in the order of their unlocks are calls of one `BoundedDeque` |
| `mmdeque_kill` | 4 slots, one death | wherever a process dies the indices stay inside the slots, and the arc is off by one slot at most |
| `msgstream` | messages of 0, 1, 2 bytes, 11 slots, one death | frames never mix, messages come out whole and oldest first, the deque drains |
| `mmdeque_threads` | 2 threads of one process | **violated**: `QuiescentRing`; the file comment promises thread safety, `fcntl` locks do not exclude threads |
| `mmpool_search` | 2 processes, 3 buffers, `nitems` behind `x` | **violated**: `PutAcceptedInAnyBuild`; a buffer that is out is refused |
| `packets` | as in `shared` | **violated**: `PacketsArrive`; a packet of two bytes is read twice, out of the packets behind it |
| `msgdeque_kill` | as in `messages`, 2 sends | **violated**: `WakeupPending` after the death of a sender between insertion and post |
| `socket_leak` | limit 2, backlog 1 | **violated**: `RefusedForAChild`; lost counts end in a server that refuses everyone |

Five runs report a disagreement between the code and what it says of itself;
`PROJECT.json` quotes the lines under "findings".

The invariants are conjunctions of named parts; the parts are worth reading one
by one. `MemoryInv` is `NoBlankStored`, `HeapBalance` and `SlotsInBuffer`;
`LockingInv`, `DamageBounded`, `PoolInv`, `OrderInv`, `StreamInv`,
`ServerInv` and `ThrottleInv` are composed the same way.

### Statements of the code that TLC refutes, besides the findings

These are kept in their modules as definitions, with the line they quote. The
invariants of the runs are stated so that the deviation is named where it ends
them.

| Definition | Statement | What happens |
|---|---|---|
| `CountIsLength` (`LinkedList`) | `llacc.c:407`, the count is the number of items | an insertion in the middle is not counted, nor is a removal |
| `DeleteRemoves` (`BinTree`) | `btacc.c:222` | after `bt_replace` a child still has the old parent, and its deletion changes that |
| `RequiredEnforced` (`CmdArgs`) | `cmdargs.c:236-238` | the check visits only the options that were given |
| `OwnContent` (`IniFile`) | `ifile.c`, each file under its node | after a syntax error the next file's node takes in the rest of the buffer |
| `ListPromised` (`LinkedList`) | `llacc.c:335-345`, a node is inserted so that it immediately follows the given one, with an error only if that is not on the list | behind the first node the insertion is refused; behind the last one it reports success, and the node is behind the back pointer, where `ll_getfront` and `ll_getback` never come to it |
| `DataDirFromIni` (`SysConfig`) | `sysconfig.c:300` | `data_dir` goes to `MMDQ_DIR_PATH` |
| `PoolDirFromIni` (`SysConfig`) | `sysconfig.c:301-302`, the buffer pool and the deque directory are set to the data directory | only the deque directory is; the pool directory keeps the shell's value or the default |
| `WholeValue` (`SysConfig`) | `appenv.c:107-110`, the value of `getenv` is stored in the node | a value too long for the node is cut; the environment, and with it the children, keep all of it |
| `PairsComeBack` (`UrlCoder`) | `urlcoder.c:206`, an argument list is decoded into its parts | an empty value takes the `&` and the argument behind it with it, or the scanner behind the end; a last value of one character is dropped with its name |
| `EmptyDeleteRefused` (`LinearList`) | `linearlist.c:231-232` | `fence` is a `size_t` and never negative |
| `CloseUnmaps` (`MmAtom`) | `mmapfile.c:120` | `munmap` gets the address hint |
| `ReceivedData` (`MsgCell`) | `msgcell.c:240-242` | after a post the data are not looked at again |
| `LengthOfLine` (`SocketIo`) | `ioutils.c:123` | characters are counted twice |

### Bounds, and why they are enough

* Two processes (four in the message models, three at a cell): the state that
  processes share is a header, a lock, a semaphore. Each property of two parties
  needs two of them; two senders *and* two receivers are needed for a post of
  one sender to be taken by the receiver the other sender counted on, and at a
  cell two senders and one who sleeps.
* Rings of 0 to 4 slots: an empty ring, one slot (both ends on it), two and
  more (each end wraps alone). `StructuresProofs` proves the ring for all sizes.
* Three buffers and two processes: the deque that is searched has a first, a
  middle and a last element, and one process can have two buffers.
* One death per run: a death leaves a file behind that the others use; the
  bounds in `SkewBoundedByKills` and `LossBoundedByKills` are linear in the
  number of deaths.
* Three sends over two slots, semaphore limit 2: the deque is full once, the
  semaphore is at its limit once, and starts at every value.
* 11 slots hold two short frames (4 + 2, 4 + 1): the next send stops inside its
  length or its data.
* Limit 3, exit limit 2, four pids: there are counts at, between and below the
  two limits, and a pid is used again. In `socket_leak` the limit is 2 to keep
  the trace short.
* `UShortRange` is 16 in `structures`, and `ItemSize * slots` stays below it. With
  a smaller range `SlotsInBuffer` fails: `dq_init` computes the size of the buffer
  in a `ushort`, so a deque of 64 KB and more gets a short buffer.
* Event queue of 2 and `MaxRaised` 2: the queue is full with the two events of
  a list of two handlers, so that a nested call finds events of the call below,
  an abort finds one behind it and a third event is refused. Handlers that raise
  events for ever keep `sm_transition` from returning: the bound is that of an
  application whose handlers stop.
* Four list nodes: a first, a last and two in the middle. Five tree nodes, two of
  them of one key: deletions with both children, with a replacement that is the
  child itself and with one that is deeper and has a subtree; a replacement by
  `bt_replace` and back. `CountMod` 3 stands for the wrap of the `ushort` count.
* Three arguments: an option, its value and another; two options, one below
  the other or beside it, given by the short, the verbose or an empty name.
* .ini files of up to 6 lines in reads of 13 characters: a section that is
  closed and opened again, elements on both sides of a refill, an error with
  text behind it, and a second file after each. `FilesRead` proves the
  grammatical ones for all texts and all sizes of the buffer.
* Settings: three shells (nothing set, four variables set, the directory of the
  .ini file and an empty application name set) and disks with no .ini file, with
  one in each of three places and with two different ones at once.
* A connection of 2 bytes and writes of up to 4: every write is split, and a
  line ends in the middle of a system call.

Deadlock is checked in the three runs of `MmDeque` (`mmdeque`, `mmdeque_kill`,
`mmdeque_threads`). It is not in the others: there all processes may be dead,
calls and sends are used up, the server has ended, or a parser has returned for
the last time. That calls do return is what the liveness properties say.

### Fairness

* `MmDeque`, `MmPool`: weak fairness of the steps of a call in progress, per
  thread. A process that is not killed runs on; nobody has to start a call.
* `MsgDeque`, `MsgStream`: the same for senders, and receivers call again when
  a call returned: they are servers that loop over `msgdeque_rec`. Senders
  never have to send.
* `ProcThrottle`: the steps of `waitpid` (weakly, and strongly for a zombie that
  is there again and again: the kernel does not pass over one child for ever),
  children end, and the application waits for any child again and again, which
  the comment of `proc_throttled_fork` asks for when it returns -1.
* `SocketServer`: the parent runs, pending signals are delivered and handlers
  end. Clients need not connect and children need not end. An accept that
  fails by itself is never required; the one that fails because the listen
  socket was closed is.
* `StateMachine`, `IniFile`: the one process that is inside a call runs on.

In the composites the fairness of an action that could start in a component
that rests is conditioned on the subject.

### Mutants

Every property of a passing run has a mutated definition (marked *Faulty* in
its comment) next to the definition it replaces: the error a change of the code
could plausibly make, such as a missing decrement, an early return that keeps
the lock, a reap of one child per signal. With it the property is violated.

## 4. What is proved

The proofs hold for all values of the constants that satisfy the named ASSUMEs
of the modules (TLC evaluates those in the runs); the provers are Z3, Zenon and
LS4. None takes anything on trust. Where a theorem has a hypothesis of its own
it says what the code needs of its callers; each of them holds in a run, and
what happens without it is in the third column.

The ASSUMEs say that bounds and sizes are numbers (those of tables, rings and
buffers at least 1 where the code declares them so), that sets of nodes are
finite and that no node is NULL. Four say more: the empty name is not the name
of a state (`StateMachineAssumption`; `find_state` compares with the slots never
registered too, whose names are empty); a table of `Tables` is one that
registrations make (`TablesAssumption`); a shell has an entry for each variable,
the values the model uses for what a read of the wrong type gives are no value of
a file, and what fits of a value fits (`SysConfigAssumption`); a text is a sequence of lines of the
scanner's lexemes (`IniAssumption`).

| Theorem | States | Hypothesis |
|---|---|---|
| `StructuresProofs!TypeCorrect`, `Invariance`, `Refinement` | of the deque: `TypeOK`; `RingInv`, `NoBlankStored`, `HeapBalance`; `ImplementsDeque` | none |
| `StructuresProofs!Memory` | `MemoryInv` | `SizesFit`: the product of item size and slots fits the `ushort` that `dq_init` computes it in; beyond it the buffer is too short |
| `StructuresProofs!RunToCompletion`, `Unwinding` | `MachineInv`; `AbortUnwinds` | none |
| `StructuresProofs!OneChain`, `ListRefines` | `LLInv`; `ImplementsList`: every call is one of `NodeList`, with the value promised, or one of the three of `Deviates` | none |
| `StructuresProofs!SettingsAgree` | `ConfigInv`, in which `DataDirFromIni`, `PoolDirFromIni` and `WholeValue` are the exceptions | none |
| `StructuresProofs!FilesRead` | `IniInv` | none |
| `MmDequeProofs!Locking` | `TypeOK`, `WriterAlone`, `IsEmptyAccurate` | `OneThreadEach`: processes of one thread each, as `fcntl` locks do not exclude the threads of one (run `mmdeque_threads`); `CreateAlone`: a deque is created before it is shared, as `mmdq_create` truncates the file |
| `MmDequeProofs!Damage` | `DamageBounded`, wherever processes are killed | the same |
| `MmDequeProofs!LockingSafe`, `Refinement` | `LockingInv`, with `NoFault`; `ImplementsDeque` | the same, and no kills: a process killed in `mmdq_reset` leaves a header others fault over, and one killed between two stores leaves a call half done (run `mmdeque_kill`); the refinement needs `Track`, the history variables it maps to |
| `MmPoolProofs!PoolSafe`, `Refinement` | `PoolInv`; `ImplementsPool`; both with kills at any step and for both builds of `search_deque` | `Alone`: a pool is defined and zapped by its only user, as neither takes the lock |
| `MsgProofs!OrderSafe` | `OrderInv`, with kills | `ApartReceivers`: each receiver in a process of its own, as the lock file does not exclude threads |
| `MsgProofs!Wakeups`, `CellSafe` | `NoLostWakeup`; `CellInv` | none |
| `SharedProofs!ListSafe`, `AtomSafe`, `PacketsSafe` | `LinearInv`; `AtomInv`; `PacketInv` | none |
| `StreamProofs!StreamsWhole`, `ConnectionSafe` | `StreamInv`; `SioInv` | none |
| `ProcessProofs!Throttled`, `Reported`, `Blocks` | `ThrottleInv`; `ReportsEachManaged`; `BlockingWaitBlocks` | none |
| `ProcessProofs!Served` | `ServerInv` | none |

### The arguments

* `DequeOpsProofs`: lemmas about the ring arithmetic; what each of the four end
  operations does to the arc and to the sequence of its contents. The deque of
  `StructuresProofs` and `MmDequeProofs` rest on them.
* `StructuresProofs`, the deque: the inductive invariant is the conjunction of the invariants
  with the header types, because an index moves right only if it is a slot
  number; the work is in the modular arithmetic of the arc. `Memory` adds
  `Sized`, that an open deque's buffer has the bytes of its slots, whichever of
  the three `dq_init` functions set it up.
* The state machine: `MachineInv` is inductive as it stands. A handler that
  raises an event adds it to `event_queue` and to `accepted` at once, and
  `Dispatch` moves one from the head of the queue to the end of `served`: that the
  two histories agree is a law of concatenation at each of the three places
  where the code touches the queue. That only the innermost call acts rests on
  the order in `sm_transition`: the transition of a call is forgotten when it lands,
  before it dispatches. The tables are the long part: each registration function
  is shown to keep `TableOK`, and the start of a machine and its stock events are
  unrolled from it. `Unwinding` is an action property: only `Return` makes the stack
  shorter, and its status is the one its frame carries.
* The lists: `LLInd` says that some sequence without repetition is the chain from
  the front pointer (`Chain`), that the back pointer is at a place k of it and that
  the count is k less what drifted. `LLInv` and the abstract list `Listed` are
  defined by following the links; a lemma shows that following them yields that
  sequence, by induction over its places, so that each function of `llacc.c` is
  an operation on a sequence: `Without`, `With`, or the end cut at k. A pluck of the
  last node of a longer chain moves the back pointer to the node before it, and
  so on: the refinement reads the abstract step off the same cases, and the value
  returned with it. The insertions that `NodeList` has and `llacc.c` does not are
  those where p is the first node (`Predecessor` finds none) or at or behind k:
  they are the disjuncts of `Deviates`, each of which leaves the sequence up to k
  alone.
* The settings: `ConfigIInv` adds that registry and environment agree also where
  `ConfigInv` does not look (`Agree`), which .ini file `ini` is, and what the
  variables were when the start-up read them (`Untouched`, `StartUpDone`). What is
  cut once is not cut again (`SysConfigAssumption`), so a value that went from the
  node into the environment comes back as it is. The start-up is followed through its six assignments from the .ini file: each
  changes one variable, so a value stays until its own element comes, and
  `MMDQ_DIR_PATH` is assigned twice.
* The reader of .ini files: `ReaderIInv` says how far the reader is in the text
  that the current file had (`Stands`): between two lines, behind a bracket,
  behind the name of a section, or behind the left side of an assignment. Each of
  the five places fixes the start condition, the state of the parser and, up to the
  lines read, the tree (`UpToLine`): a name has the value of the first line that
  assigns to it. What the scanner has in its buffer and what is left in the
  stream make up the rest of the text (`Unread`), wherever the reads cut it, which is
  why the size of the buffer does not matter. `FlattenIs` gives the place of each
  lexeme in the text without its lines, by induction over them, and `AllRead` shows
  that the tree after the last line is what `Meaning` defines.
* Induction over the numbers of an interval (`UpTo`) is proved from the existence
  of a least number in a set, and that from the library's `WFMin`, which needs no
  operator as an argument. So what a recursive *function* gives can be proved
  where its recursion is over numbers; this carries `Chain` and `FlattenIs`.
* `MmDequeProofs`: `LockInv` ties the `pc` of every thread to the lock it holds
  and to the header as it is in the middle of the call (`InCall`): a thread at a
  store has the exclusive lock, so the others are outside theirs and what
  `InCall` says of them does not depend on the header (`Frame`). `SkewInv` counts
  how far the two ends and the count are apart at each step and after each kill.
  `NoFaultInv` says that pointers and slots are those of an open deque.
  `CommitInv` gives the refinement: the contents the abstract deque has after
  the calls that unlocked, together with the half of the call in progress
  (`Progress`), are the contents of the header.
* `MmPoolProofs`: `LockInv` as above; `RingInv` says where each index is, in one
  of the two deques, in a local variable or with an application; `BalanceInv`
  counts them against `stats.remaining`; `LossInv` is what is not lost while
  nobody died. `NoDoubleAllocation` is inductive only with all four: a search
  that rotates the deque of buffers out puts back what it took out because
  nobody else had it meanwhile.
* `MsgProofs`: `FileInv` (the lock file, and that `dquse` read under it keeps its
  promise), `SequenceInv` (the records in the deque are newer than those taken,
  in the order of acceptance), `CountInv` (accepted is returned plus held plus in
  the deque, but for one record per kill). `WakeInv` needs none of them: a
  sender's check that finds one record is followed by a post, and the receivers
  who passed their own check before it find the post. `CellStrong` is the same
  for the cell, with the calls that are on their way (`Busy`).
* `SharedProofs`: a process inside a list function holds every unit of the file,
  and `DataInv` says what the records are between the copies of a deletion. The
  addition at the end of the list and the move of the last record into the gap
  are laws of `Cardinality` over the records. For `MmAtom`: `DescInv` gives each
  descriptor one place (handle, call or lost), `MapInv` each mapping its file,
  `SizeInv` the length a creation chose, `KeptInv` the locks. That the lowest free
  descriptor exists is proved from the pigeonhole principle, by
  well-founded induction. For the packets, while calls do not overlap and no
  packet is longer than a byte, the bytes a call has in its hands and those in
  the deque are together the packets not yet read (`Tells`), in each of the
  states of a write, of the read of a header and of the read of the data.
* `StreamProofs`: the connection: `SioInv` needs `Reading`, which relates the
  count left to the bytes taken at every turn of a loop (`sio_readline` runs on
  at the end of the stream, where the count says less), that of a write in progress
  what is in the connection and what is left make up the data, so that one that
  fails has sent a proper beginning, and `PlainAppend`, that dropping the line ends of a longer line drops those of its last byte. The
  deque of bytes: `FramesWhole` speaks of the times when the lock file is free;
  `Whole` adds what holds inside the locked section, that the deque is the
  frames without the first c bytes (`Cut`), which the receiver has, or with the
  beginning of one more, whose end the sender has. The place of a frame is the
  cardinality of the bytes before it (`Before`): a frame more adds its bytes to
  the sum, and a bijection shows what taking the first one subtracts. The length
  is read back as it was sent because a deque has at most 65535 slots
  (`Slots`, an `unsigned short`), so its sign byte is zero (`Decodes`).
* `ProcessProofs`: for the throttle the inductive invariant adds that the list is
  finite, without which the laws of `Cardinality` say nothing about a removal.
  That a child is forked only out of throttle, and that the count is below the
  limit then (`ThrottleBand`), is what keeps the list and the count together:
  `fcds_throttle_increment` lists a child only if there is room for it. The
  server needs `LoadedInv`, that between the load and the store the loaded value
  is below the limit and not below `open_conns`, since the handler only
  decrements.

Invariants and specifications that are not proved, and stay with TLC:

* All liveness properties (`LockReleased`, `EveryRecordReceived`,
  `Drained`,
  `ThrottleEnds`, `HandlerReturns`, `TermEndsLoop`, `CallReturns`,
  `ParseReturns`): fairness and ENABLED are out of the prover's
  reach.
* `TreeInv`: the order of a tree is that of a traversal, a recursion over child
  pointers, and after `btacc.c:222` a parent pointer may be that of a node that
  was deleted; the induction would be over trees.
* `ArgsInv`: the model follows `find_option` through nested options, and the
  invariant speaks of all the arguments read so far by a recursion of its own.
  It is not true of all options: the verbose name of a later option below an
  earlier one may be the short name of an option between them, which it then
  hides (only short names are checked when an option is registered). A theorem
  needs that excluded; the options of the run have no such pair.
* `CodingInv` and `PathInv`: an encoder, a checksum and a tokenizer are folds over
  texts of any length. Both are checked for all inputs up to the bounds.
* The refinements and `LockingSafe` of `MmDeque` with kills, which are false, and
  the findings.

## 5. Not modelled, and known limits

Components without a module, because they keep no state that a property could
be about: logging (`ulppk_log`, `logger`), `diagnostics`, `trap`, terminal modes,
the reports and the command line tools, which print and pass arguments on.

Parts of the modelled components that are left out:

* `mmatom`: permissions and read-only modes, atoms without a file, and the list
  of atoms (`mma_destroy_atom` unmaps the hint address). In `MmDeque`,
  `MmPool` and `MsgDeque` a lock call never fails; in `MmAtom` and `LinearList` it
  may.
* `mmdeque`: killed in `mmdq_reset`, a process leaves a header of zero slots or
  one whose `memmapped` bit is not set, over which later processes fault.
  `NoFault` is therefore stated of the run without deaths.
* `mmpool`: `stats.remaining` is a `ushort` and wraps to 65535 when a death left
  it one short and the pool empties; `LossBoundedByKills` states it modulo 2^16.
* `msgdeque`: `msgdeque_reset` passes an `MSGDEQUE *` where `mmdq_reset` takes an
  `MMA_HANDLE *`: undefined, no model says anything about it.
  `msgdeque_rec_byte_stream` never sets `*bytes_received`; one to three bytes
  left behind by a torn frame keep the receivers in a busy loop; signals and a
  failing `calloc` of the decoded length are left out.
* `process_control`: `proc_make_daemon` (it does not call `setsid`, and the second
  fork ends the child); EINTR of `waitpid`. `proc_throttled_wait` returns NULL
  when a repeated `waitpid` fails (the model says -2), and 0 under WNOHANG after
  an unmanaged child although a managed one may have ended too. A limit of 0
  lets one child through, which the assumption excludes; an exit limit of 0
  never ends the throttle.
* `socketserver`: `connfd` stays open when SIGTERM comes between accept and the
  test; a child inherits the SIGTERM handler and would close the number of the
  listen socket; helper processes of a personality function would be reaped and
  counted by the handler.
* `socketio`, `ioutils`: name lookup, connect and `getpeername`; the file checks
  and the formatted writes. After an error the functions of `socketio.c` do not say
  how many bytes they moved, so `SioInv` says only that a beginning was written,
  and that what was read is in the buffer. Of the functions of `ioutils.c` it says
  something while none of their system calls fails or is interrupted: they take -1
  for a count. Bytes that the kernel holds when a connection breaks are
  still in `wire`: what the other end's host loses is below this code.
* `statemachine`: the diagnostics and the registration of more states than a
  table holds; `cmdargs`: the conversion of integer values and options that are
  registered after the first parse; `inifile`: the tables flex generates (the
  start conditions and rules they encode are modelled) and the diagnostics.
* The characters and bytes of all text are a few that the code tells apart.

Hazards that the models have but `PROJECT.json` does not single out, with the
property that sees them:

* `mmfor_lock_record_x_write` (`mmfor.c:221`) takes a read lock; the unlock at the
  end of a list call covers the file and with it the caller's record locks
  (`linearlist.c:282`): `LinearInv`.
* The flag of `dq_abd` is dropped when a handler raises an event
  (`statemachine.c:803`), an abort leaves events in the queue for the next call
  (817): `MachineInv`, `AbortUnwinds`. An event without a transition leaves
  `SM_NO_ERROR` (824) against the comment at lines 729-730.
* A reset takes the posts that sleeping receivers were to get
  (`msgcell.c:281`), and `msgcell_delete` unlinks an empty name (150): `CellInv`.
* A read that would block makes `sio_readn` forget the bytes it has
  (`socketio.c:24`), and `sio_readline` returns `maxlen` at the end of the stream
  (72): `SioInv`.
* `setuid` fails after `setgid` succeeded (`sysconfig.c:481`); an element that looks
  like a number is read as the address of a string (310): `ConfigInv`.
* `if_parse_inifile` returns 0 whatever happened (`inifileparser.c:1685`), and the
  scanner's start condition outlives a line and a file: `IniInv`.
* One running checksum and one `strtok` position for the process
  (`crc16ccitt.c:106`, `pathinfo.c:295`): `CodingInv`, `PathInv`.

## 6. What is left

Everything planned has been written but for these, in the order of their worth:

1. `TreeInv` as a theorem, from the set of nodes below a node instead of the
   traversal: an invariant that names for each node the keys of its two sides.
2. A `Channel` as the abstract specification of the messages: each one sent,
   received once, in order. `OrderInv` and `StreamInv` prove its content.
3. `proc_make_daemon` of `process_control`, and a lock call that fails in
   `MmDeque`.

Two definitions were made exact on the way to the proofs. `Header` and `Assignment`
of `IniFile` did not ask what kind of lexeme stands between the brackets and behind
the equal sign: for texts beyond those of the run (a bracket as a value) they called
grammatical what the parser refuses, and `IniInv` was false. And the lookup of a
state by name finds the first state for the empty name, which
`StateMachineAssumption` now excludes.
