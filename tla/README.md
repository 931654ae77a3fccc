# wcx: models, checks and proofs

wcx is a PHP 5 extension. Its core is a task queue (`wcx_task.c`) that several PHP processes share
through System V IPC: one message queue, one shared memory segment with two POSIX semaphores, and in
each worker a private list of tasks that are not due yet. The rest is a linked list, an object over
PHP arrays, an ini reader, and helper functions. This directory holds TLA+ modules of them, TLC runs
on small instances, and proofs of safety properties for every value of the constants. Some theorems hold
under hypotheses that the code does not guarantee; they are named in "Proofs", and what is lost without
them in "What is not kept".

## Inventory

| part | state | operations | what is hard | what makes it correct |
|---|---|---|---|---|
| worker loop (`WcxTask::run`, wcx_task.c:170-331) | locals, `task_process_running`, `WCX_G(wcx_task_running)` | lock, receive, execute or keep, delete, scan the crontab, unlock, sleep, stop | other workers, clears, SIGINT, callbacks that call the extension, death while locked | one process at a time in the locked section; a worker stops only when told; nothing lost, run twice or early |
| message queue (kernel, key `wcx.task_queue_key`) | messages in order, capacity, the id behind the key | msgsnd, msgrcv, IPC_RMID | a full queue, removal under other users, stale ids | what it accepted is run or deleted |
| client calls (wcx_task.c:333-524) | the message being built | post, delete, clear, info | the time is taken before the send; blocking; failure | accepted exactly when the call succeeds |
| crontab (wcx_task.c:237-309) | list of tasks by time | three insertions, scan from the head, delete by uuid | equal times, boundary seconds, freed nodes | sorted; nothing overdue is left behind |
| shared segment (wcx_task.c:557-612) | `init`, `running`, `qnum`, `slock`, `ulock` | initialise, count in, count out, reset | first processes racing, death half way, unlocked increment | semaphores initialised once, before use; the count agrees with the workers |
| script lock (wcx_task.c:424-444) | `ulock` | `wcx_lock`, `wcx_unlock` | scripts that ignore the result, that die | one holder |
| linked list (`wcx_list.c`) | nodes, head, tail, len | add, insert, delete, release, iterate, dup, search, rotate | `next` of a deleted node | forward and backward chains agree, len is the length |
| `WcxData` (`wcx_data.c`) | a table, its internal position, a readonly flag | get, set, isset, unset, iterate | integer and string keys, change during iteration, shared tables | what is set is what is got; readonly is kept |
| ini reader (`wcx_ini.c`, wcx.c:539-622) | sections, the active section, the parsing flag | entries, list entries, sections with parents | nesting, inheritance order, arrays shared with a parent | the wanted section is its parents overridden by its own entries |
| array and string helpers (wcx.c:446-537, 624-718) | none | remove, rand, bet, str_rand | mixed keys, counts | they return what the README says |
| encryption (wcx.c:227-443, `zlib.c`, `aes.c`) | none | encrypt, decrypt | header fields, padding, size of the output buffer | decrypt after encrypt is the identity |

Processes interact only through the queue, the segment and signals. Inside a process the callback
of a task is called with `slock` held (wcx_task.c:234, 303) and may itself call the extension.

## Modules

### The task queue

- `Crontab` - insertion, due test, arrival test and uuid match as operators on sequences. A uuid is
  a sequence of characters because the code matches prefixes.
- `WcxTask` - the state machine. `running`, `qnum`, `slock` are the segment; `mq` is the queue now
  behind the key (`id`, whether it is `live`, its messages); `pc`, `caller` and `loc` are each
  process' position, who called, and its locals; `held`, `eintr`, `hist` are history. One action is
  one piece of code between two accesses to shared state:

  | actions | code |
  |---|---|
  | `Boot` | MINIT: `wcx_task_init` 526-585 |
  | `Run`, `Inc`, `Check` | entry 170-206 (`running += 1` is a read and a write), loop test 208 |
  | `Lock`, `Unlock` | the two macros of wcx_task.h at their three places of use (211/313, 519/521, 594/601) |
  | `Time`, `RecvNone`, `Recv` | 214-221: from `Recv` on the message is only in the process ("got"), which may die |
  | `RecvNow/Lost/Later/Delete`, `DeleteNode`, `DeleteDone`, `Count` | what is done with it, 230-291 |
  | `CronRun`, `CronLost`, `CronReturn`, `CronEnd` | crontab scan 295-309 |
  | `ListCrash` | the freed list of a second run is used: 247, 271, 295 |
  | `Starts`, `Execute`, `Throw`, `Return` | `wcx_task_execute` 40-76 |
  | `Stop` | 321-331: IPC_RMID if the system allows it, crontab freed, the exception reaches the script |
  | `PostCall`, `DeleteCall`, `Send`, `SendFail`, `ClearCall`, `Clear`, `InfoCrash` | 333-524 |
  | `Exit`, `RelRead`, `RelWrite`, `RelZero` | MSHUTDOWN: `wcx_task_release` 587-612 |
  | `Sigint`, `SigintInLock`, `SigintInSend`, `Kill`, `Tick` | handler 35-38, EINTR in sem_wait and msgsnd, death, the clock |

- `WcxTaskProps` - its properties. `TaskLife` - what the queue promises: a task waits, runs once, not
  early, and is dropped only if a delete names it, its message cannot be read, or the workers were told
  to stop, have thrown, or died with tasks; `WcxTaskProps` instantiates it with a refinement mapping
  (`LifeOf`, `DueOf`, `Told`, `Thrown`, `Died`). A task that a process has received and not yet run or kept
  still waits; if it dies there the task is lost, and `Died` says so.
- `WcxLock` - the segment from its creation: the race of the first processes in `wcx_task_init`, and
  `wcx_lock`/`wcx_unlock`. `WcxTask` starts where this module's initialisation is complete.
- `CrontabProofs` (the operators, and lemmas about numbers and recursive functions that the other proofs
  cite), `WcxTaskProofs` (any number of workers: types, lock, count, crontab, once and not early), `WcxTaskSolo`
  (one worker: stops, deletes, the refinement), `WcxLockProofs` - theorems.

Abstractions of `WcxTask`:

- Reading `next` in a freed node (279, 308) is a choice from `FreedNext`: the old value, NULL, or a
  wild pointer, taken to crash the process. What it is depends on the allocator: glibc overwrites the second
  word of a freed node since 2.29 (the key of the tcache) and leaves it alone before. `pair` and `live` take the
  old value, `worker` adds the crash and `signals` takes all three.
- msgctl(IPC_RMID) may fail, and 323 does not look: the queue is 0666, so a process of another user may send
  and receive but not remove it. `Removers` says who may remove the queue that each process creates; in `pair`
  and `signals` one worker is root's, in `worker` and `live` all are of one user.
- A queue id is never reused; `qnum += 1`, done under the lock, is one step; the sleep at the end
  of an iteration is merged with the unlock (time may pass anywhere).
- Each process loads the extension for itself (the command line interface). Processes forked after
  MINIT would share the queue id and copy `wcx_task_ptr`, and are not modelled.
- The payload is abstract: a task is in `Garbled` if its message does not unserialize. A callback may
  post, delete, clear, exit or throw (`Callbacks`). While an exception is pending PHP calls no
  function, so `Starts` is false until run returns; that is PHP's rule (zend_call_function), not the
  extension's.
- The sizes of messages are left out. post compares task and uuid with 2048 but sends 25 bytes more (the
  header without mtype, and a NUL), and a receiver takes 2048 of them: up to 25 bytes are cut, of the uuid
  first and then of the task, which then does not unserialize - `Garbled`. With a uuid over 2048 bytes
  the difference at 374 is negative and, compared as size_t, refuses nothing.
- `MsgExcept` says whether the build sees `MSG_EXCEPT` (a `#ifdef` at 215). It is FALSE in all runs.
- `Init` has a segment whose semaphores are initialised; `WcxLock` covers how they come to be.

### The rest of the extension

- `WcxList` - every function of wcx_list.c on a heap of nodes: `heap` and `live` are the nodes malloc has
  given, `list` the headers, `iter` one iterator, `pool` the values that a free method makes a list own;
  `order`, what the calls made of each list, is the abstract sequence. An operation that walks the list
  (release, dup, search, index) is an action or an operator whose walk follows the pointers. Assumed of
  callers: a node is deleted through its own list, and an iterator is given up before the node it saved is
  freed. The worker breaks the second rule without an iterator (279, 308), which `WcxTask` models.
- `WcxData` - objects over shared tables. A table (`ent`, `pos`) is an array of PHP 5 with its one internal
  pointer; `obj` says which table the property of each object refers to, and `var` which one the script's
  variable does. Elements, defaults and iterations that are arrays come in new objects (`Format`). Tables
  that nothing refers to any more are given back (`Reach`, `Used`, `Become`). `asked` is history: the tables that
  a script asked a writable object of, and those in them. Only scalars are set:
  an array that is set behaves as one that was there. count, key and readonly only read what the other
  methods read.
- `WcxIni` - the parser callback, one step per directive. `heap` holds the zvals, so that what a section
  inherits is shared with its parent until it is separated; `fault` records the two undefined outcomes (an
  element looked up in a scalar; a reference count overwritten). `Walks` are the ways through the heap, at most
  `Deepest` keys long (a file's longest key bounds it, so no file is excluded), and `Shared`, a reference count over
  1, is read off them. The walk of an entry or a list entry is a recursive function over its path; the deep copy,
  recursive in C, is defined by the paths at which both sections have an array. An array appends
  at its largest integer key plus one (`LastIndex`). Left out: the order of elements,
  keys without a value (they change nothing), and the trimming and numeric reading of section names.
- `WcxArray` - one step per turn of the loops of wcx_array_remove and wcx_array_rand. The
  values are abstract, `Looks` says which are `==`. A random number is any of `RandRange`.
- `WcxCrypt` - wcx_encrypt and wcx_decrypt with aes_cbc_* and zlib.c. All sizes are the code's; data is its
  length; a block is the set of what was xored into it, so that xor is the symmetric difference, and only
  the key that encrypted a block undoes it. `Packed` is what deflate may make of data. With another key the
  header is `Garbage`: any number of fields, none of them `ok` (the chance that it is one is ignored).
- `MCHelpers` composes the three, which keep no state between calls: a behaviour reads one file, or makes one
  call of a helper, or encrypts once and decrypts once.
- `*Props` hold the properties; `MC*` the values of constants for TLC. `WcxListProofs`, `WcxDataProofs`,
  `WcxIniProofs` and `WcxHelperProofs` (array helpers and encryption) hold the theorems.

## Runs

| run | instance | asks |
|---|---|---|
| `worker` | One worker that may be killed anywhere or fault over a freed node, one client; three tasks with uuids `a`, `ab` and `c`, at explicit times 1 and 2 or that of the call; one delete; a callback that throws; the third message garbled; a queue of one message; two seconds. | `KeepsThePromise` (the refinement of `TaskLife`), `DeletedNeverRuns`, `CrontabSorted`, `NothingOverdue`, `NotEarly`. |
| `pair` | Two workers, one of them root's and also a client, a client, one task, callbacks that clear or exit, one clear, a second queue after the first was removed, a worker that may be killed anywhere, between msgrcv and the callback too. | `TypeOK`, `MutualExclusion`, `LockCounted`, `RunningNotNegative`, `LostWithItsHolder`: a waiting task that neither runs nor is deleted was in the hands of a process that ended, or in a queue that a process attached to it and allowed to remove it took away. Deadlock is off: a killed holder stops the others. |
| `signals` | Two workers, one of them also a client; two tasks, one delete; SIGINT at every point including inside sem_wait and msgsnd; a queue of one message, all outcomes of a freed read, callbacks that post, a worker that stops and may not remove the queue, a second queue after the first was removed. | `AtMostOnce`. Deadlock is off: a crash inside the locked section, or a callback posting to a full queue, stops everybody. |
| `live` | One worker, a client that posts and clears, callbacks that post and throw; fairness. | `Served`, `LockGranted`, `StopsOnlyWhenTold`, and the refinement with stops. |
| `lock` | Three scripts attach one after the other, lock, unlock, die anywhere. | `LockTypeOK`, `OneHolder`, `LockConserved`, `OneInside`. |
| `list` | A list and its copy, four nodes, two values of which the match method takes one for the other, the methods (free) or (dup, free), an iterator in either direction. | `Linked` (the pointers implement the sequence), `NodesOwned` (also of a copy that fails after any number of nodes: its nodes are built, then released by following their pointers), `ValuesOwned`, `VisitsAll`, `LookupAgrees`. Deadlock is off in a state with nothing left to call. |
| `data` | Two objects, an array with a nested array and an integer key, a plain and a numeric name, up to three entries. | `DataTypeOK`, `VisitsKept`, `ReadsBack`, `ReadonlyDeep` (a table changes only if it is in `asked`, whatever else the script writes to). Deadlock is off: a fatal error ends the script. |
| `helpers` | All files of five lines out of twelve directives (two sections, one in two spellings, flat, nested and list entries of one name); arrays of up to four entries with string and integer keys; data from 1 byte to a megabyte at the edges of the formulas. | `SectionsAsWritten`, `WantedGiven`, `ParentsKept`, `RemovedAsAsked`, `RandExact`, `RoundTrip`, `BuffersHold`. Deadlock is off: a call ends. |
| `bug_*` | One documented or logged claim each, which the code does not keep; see below. | |

Two workers are enough for every race of the code, which is always between one process inside a
window (the unlocked increment, sem_wait, init before sem_init, the window after IPC_RMID) and one
outside it. Three tasks are the fewest for a middle insertion. Two queues are the fewest for a
stale id, two uuids with a common prefix the fewest for a delete that matches more than one. Four nodes
are the fewest for an insertion and a deletion in the middle of a list that is also copied; two objects
the fewest for one that moves another's pointer; five lines hold a parent, a child, an entry in each and
a block that comes again. `MaxTime`, `MaxQueues`, `MaxClears`, `MaxDeletes` and `MaxRunning` bound the
counters of `WcxTask`, `MaxLen` a table, `MaxLines` a file. Symmetry is used for the addresses of `list` and
the objects of `data`; neither run checks liveness.

### Fairness

`Fairness` is weak for the clock, for each worker's own steps (the operating system runs it, and
callbacks return) and for a call that has begun. sem_wait is strongly fair: glibc's semaphores
promise no order, but a worker that received nothing sleeps at least a second with the lock free (an
interval of 0 is excluded), so a waiter is passed over only while messages last, and the tasks are
finitely many. Nothing is assumed of what scripts choose to do. `Served` asks only for tasks due before
`MaxTime`, since the crontab runs a task strictly after its second. `LockGranted` excepts the death of a
process: a second `run`, or a kill, can die holding the lock.

## What is not kept

Each `bug_*` run has one property taken from a doc or a log message, and TLC's counterexample:

- `bug_eintr`: SIGINT ends sem_wait with EINTR (the handler is set without SA_RESTART, the result
  ignored, 211), the worker logs "task queue to locked" without the lock, and later posts the
  semaphore once too often. Hence `~eintr` in the lock invariants.
- `bug_queue`: the first worker that stops removes the queue (323) that another worker serves.
- `bug_initrace`: `init = 1` (573) precedes sem_init (574-575); a process in between uses semaphores
  at zero, and an initialiser that dies there leaves them so.
- `bug_array`: in an array with string and integer keys wcx_array_remove deletes an integer key that
  comes after a removed string key as that string (wcx.c:709), and so leaves an equal entry. Hence
  `MixedKeys` in `RemovedAsAsked`.

Seen with the same models, and stated here without a run of their own.

The task queue:

- A callback that throws leaves the exception pending: the loop goes on, and every task that comes up is
  consumed without running until the worker is told to stop (60-64). `Served` without `Thrown` is false
  when `Callbacks` holds "throw"; src/README.md:53-55 says that a task whose time has come triggers the process.
- `running += 1` (206) is not locked: two workers that start together may count as one in `task_process_num`.
- With MSG_EXCEPT (216) the worker asks for every type but 1, and every message has type 1: nothing
  is ever run, `Served` is false with `MsgExcept = TRUE`.
- A callback that clears or exits waits for the lock of its own worker (519, 594).
- A delete reaches only the crontab of the worker that receives it (271), so with two workers
  `DeletedNeverRuns` is false; it is also false when a freed node reads as NULL (279). A delete matches
  every uuid it is a prefix of (275).
- `wcx_unlock` posts whoever calls it, so `OneHolder` is false as soon as a script ignores the result of
  `wcx_lock`, as example/wcx_lock.php does (`Careless`).
- A second `run`, and `wcx_task_info` after `run`, read a NULL list (247, 271, 295, 460): `ListCrash`, `InfoCrash`.
  If the queue could not be removed (323, unchecked) the second run receives from it first, and the message it
  crashes with is lost.
- A process that dies between msgrcv (218) and the callback (60) or the crontab (247-267), in
  `php_var_unserialize` or of a signal, loses the task it had received, also if its crontab is empty.
- A callback that posts to a full queue blocks the only process that could empty it.

The rest:

- Ini: a list entry under an inherited array also changes the parent (wcx_ini.c:134, `shared`); a list
  entry over an inherited scalar overwrites its reference count, and it is freed twice (167); a section
  whose parent is a scalar, and a key of dots only, make an array of what is none (`fault`); a wanted section
  that the file spells in another case first is recognised by the callback and not found by wcx_ini.
- `WcxData`: src/README.md:72 gives `$readonly=true` as the default, the class declares FALSE (wcx_data.c:375). A
  numeric name that was set cannot be read back (125): the exception in `ReadsBack`.
- Encryption: with another key the header may have no field at all, and `strcmp` reads NULL (wcx.c:394): `Crash`.
- wcx_bet compares its rate in per cent with `rand() % 101`, which has 101 outcomes (wcx.c:532), and passes an `int`
  where "l" stores a long (519).
- List: listDup of a list that frees its values, without a dup method, frees the original's values when a
  later allocation fails (`seen.shared`); listGetIterator's allocation is taken to succeed.

## Proofs

Every theorem is about all constants that satisfy the named assumptions of its module, and has no other
hypothesis than those given here. Several have some, because the code does not keep the property without
them. Each is proved from an invariant that is inductive, which the property
itself seldom is.

### The task queue

- `TypeCorrect`. `TypeOK` is not inductive: `CronReturn` takes the tail of the crontab. `TypeInv` adds
  `CronHead`, that a worker executing from the crontab has a nonempty one.
- `LockIsCounted`, `Exclusion`: `LockInv` says that the semaphore counts its holder, that whoever is in the
  locked section holds it, and that a clear begun in a callback never gets past the lock its own worker has;
  all as long as no sem_wait has failed, which is exactly what `bug_eintr` shows to be needed.
- `CountNotNegative`: `CountInv` says where `running` may be negative: only while a release that is about to
  reset it holds the lock, or for ever if that process dies there. It needs `LockInv`, for a release reads
  the count and writes it back in two steps.
- `CrontabIsSorted`, from `InsertSorted`, `RemoveAtSorted` and `TailSorted`. The lemma behind them,
  `FirstLaterFound`, shows that the middle insertion always finds its place. `ScanIsComplete` follows by
  `HeadDecides`, if a freed node never reads as NULL, which ends the scan early (`"null" \notin FreedNext`).
- `RunAtMostOnce`, `RunInTime`, for any number of workers, deaths, SIGINTs, clears and outcomes of a freed
  read: `PlaceInv` says that a task is in one place only - a message about to be sent, the queue, one
  crontab -, that what is there carries the uuid and the time of its post, and that it has not run while it is
  there, save the head of the crontab whose callback is running. A message a process has just received is a
  place of its own. A worker that leaves its loop is excepted:
  its crontab may hold the task that ended it, and is not read again.

Three theorems are about one worker (`OneWorker`; any number of clients), and are false for two, which lose
each other's count at 206 and of which a delete reaches one only:

- `StopsAsTold`: `RoleInv` (only a worker counts itself in and out, and a clear is counted before it acts) and
  `ToldInv` (until it is told, the count covers a worker in its loop).
- `DeletedIsGone`: `BookInv` relates what was posted, accepted, asked to be deleted and run to what is in which
  place; `VoidInv` says that what a delete reached is in no place. Hypothesis: a freed node is never read as
  NULL, which ends the loop of the delete early (279) and leaves tasks it names in the crontab.
- `PromiseKept`: the refinement of `TaskLife`. A task is waiting while it is in the queue or in a crontab
  (`LifeByPlace`); steps are classed by what they take away (run one, delete, receive one that is lost, leave or
  die with a crontab), and each class is one lemma that names the step of `TaskLife`. `LeaveInv` says who may have a
  crontab with tasks in it: a worker in its loop, one that was told to leave, a dead one. The last loses what it
  had in its crontab, and the task it had received and not begun (`Owes`, `Die`), and nothing else. The proof
  corrected `LifeOf`, whose CASE had guards that overlapped.

### The segment and the script lock

- `LockTypeCorrect` has no hypothesis.
- `LockHasOneHolder`, `LockIsConserved`, `SectionHasOneProcess`: under `Orderly` (no overlapping
  initialisation, no careless script; deaths anywhere), from `SegmentInv`: an initialiser is alone, and each
  semaphore counts its holder, one that died included.

### The linked list

`ListTypeCorrect`, `ListIsLinked`, `ListOwnsNodes`, `IteratorsVisitAll`, `ListOwnsValues`, `ListLooksUp`, for lists
of any length. `ListInv` says that the pointers of every list are the sequence its calls made, that the
allocated nodes are those of the lists, each once, and that a list that is not there has none; `Pending` that an
iterator's saved node is in its list and in front of all that it owes; `Own` that values are owned once,
while `seen.shared` is FALSE (the failed copy of "What is not kept"). Each call is shown to be one of three
changes of a sequence of nodes, `Woven` in, `Cut` out or `Turned`. The walks of release, dup, search and index
are recursive functions: `Recursion` shows that they exist, and the least place where they could go wrong is
excluded by `Least`. This is what lets `Crontab` take the list for the sequence of its values.

### WcxData

`DataTypeCorrect`, `LoopsVisitAll`, `ReadonlyIsDeep`, `WhatIsSetIsRead`. `DataInv` adds to the types that a loop
owes only what is at the internal pointer or behind it (`Owing`), and that the tables asked for cover every writable
object and all that is in them, and are in use (`Allowed`): so what comes out of a readonly object is either readonly or
was asked for otherwise. A new object may take a table that nothing refers to any more, so every step needs that a table
in use is not such a one. The closure that stands for PHP's reference counts is the matter of four lemmas:
`ReachStarts`, `ReachGrows`, `ReachKept`, and `ReachClosed`, by which as many rounds as there are tables are enough.
Assumed of PHP: an array holds a key once, tables are finitely many, and a table that nothing uses is empty.

### The ini reader

`IniTypeCorrect`, `IniParentsKept`, `IniSectionsAsWritten`, `IniWantedGiven`, theorems of `IniSpec`, for files and keys
of any length, any number of sections and any parents. There are two inductive invariants.

- `IniInv` says what the heap is (`IniInvariant`). Every zval has a depth, the returned array alone the depth 0, and an
  element is one deeper than its array (`Leveled`): so no array holds itself. The active section is an array that its
  name alone leads to (`Shape`, `Own`). This is why SEPARATE_ZVAL suffices: an entry walks from an array that is in one
  place, and copies what is `Shared` before it goes on, so the next array is in one place too. `ParentsKept` follows
  for any path. A list entry does not separate, and keeps the depths only: hence `~shared`.
- `IniRead` says what the heap means (`IniReads`): the leaves of the heap are `AsWritten` of all the lines read, until
  the wanted section is over, and of the lines before its end from then on; the wanted section begins at the first line
  that asks for it, and is the one being read. `NoEmpty` is the conjunct that is easily missed: each array below
  a section has a leaf. Without it, an empty array inherited over a value would say nothing in the reference and hide
  the value in the heap.

The loops of the code (the walk of a key, the parents in turn, the lines of the file) are recursive functions;
`LoopRuns` shows once that such a loop takes its state from one set to the next. `CopiedLeaves`: the deep copy makes of
two sections the leaves of the one over those of the other. `EntryRead`, `ListRead` and `SectionRead` relate an entry, a
list entry and a section to `LineSays`.

### Array helpers and encryption

These are theorems of `ArraySpec` and `CryptSpec`, the components that the run `helpers` composes.

- `RandTakesAsked`: `RandInv` says that what is still wanted is not more than what is left (`Enough`): when it is
  as much, r < RandRange makes the chance certain (`LastAreTaken`).
- `RemovesFirstAsked`: `RemoveInv` says that only what was met is gone, that `string_key` is the key of
  something met, and, unless the keys are mixed, that all that was met is gone. It holds although an
  entry is deleted by a key that may be another's.
- `ComesBack`, `BuffersAlwaysHold`: `CryptInv` follows a message from the header that
  Encrypt wrote to the result. `CbcRoundTrip` undoes the chain for any number of blocks, and shows that with
  another key the first block is nobody's plain text. `GrowsOn` shows that inflate ends in 66 of its 100 rounds:
  8 times a grown buffer is 9 times the old or more, six rounds double it (9^6 > 2 * 8^6), and eleven doublings are
  more than the 1032 that deflate can pack. `DeflateFits` and `BlocksFillBuffer` are the arithmetic of the
  sizes. Assumed of zlib (`ZlibAssumption`): deflate makes no more than it documents, and packs at most 1032 bytes
  in one; and that no header of another key says `ok` (`GarbageAssumption`).

### Only model-checked

Liveness (`Served`, `LockGranted`): fairness and ENABLED are out of the prover's reach. What the `bug_*` runs show is
a counterexample each, which needs no proof.

No theorem covers, because it does not hold: `StopsOnlyWhenTold`, `DeletedNeverRuns` and `KeepsThePromise` for two
workers (a count may be lost at 206, a delete reaches one crontab), `OneHolder`, `LockConserved` and `OneInside` without
`Orderly`, the lock invariants after a failed sem_wait, and
what "What is not kept" lists.

## Not modelled

The rounds, tables and key schedule of AES (aes.c, a vendored implementation) and zlib itself; wcx_bet,
one comparison, and wcx_str_rand, whose characters are drawn one by one; the setters of `WcxTask`, single assignments to a property; the
registration of classes, functions and ini entries, MINFO; the quality of `rand()`; the sizes of messages
and an interval of 0; the build and the sample scripts.
