# A TLA+ model of zcommonlib

zcommonlib is a C++11 library (pthreads, Qt, System V IPC, epoll) of the parts
an embedded application is assembled from: worker threads, rings with callback
threads, shared tables, message queues, timers, logs.  Nearly all its logic is
concurrent: threads of one process share rings and maps under mutexes, and
processes share segments and queues under System V semaphores and may die at
any step.  This project models that logic, checks it with TLC on small
instances and proves the most important invariants with TLAPS.

`PROJECT.json` lists the components, the runs, the mutants that show that each
property can fail, the map from every definition to the lines it translates,
the hazards and the theorems.

## Inventory

| Component | Source | State | Operations | What is hard | What makes it correct |
|---|---|---|---|---|---|
| Worker thread (`Pth_Class`) | `epoll/pthclass.*` | `m_pid`, `running`, the thread, a pending cancel | `start`, `stop`, `waitEnd`, two destructors, `start_thread` | `running` is set after `pthread_create`; deferred cancellation; a derived object destroyed under a running thread | the destructor returns; no thread is left for the base destructor |
| Rings with callback thread (`TwoBufT`, `TwoBufPthT`; `Z_Buf_T`, `Pth_Buf_T`, `Call_B_T`) | `bufmodel/TwoBufPthT.h`, `mutex/`, `prodata/zbufT.h` | slots, two indices, count, mutex, semaphore | `writeBufData`, `buf_wr_data`, `buf_write_data`, `readBufData`, `run`, destructor | tokens and messages counted apart, spurious posts, writes without a post, interrupted waits, cancelled workers | no lost wake-up; at most once, in order; the ring is drained |
| Shared table with dirty bits (`DiffQTShareDataT`) | `prodata/diffqtsharedataT.h` | table, dirty region, enable flags | `set_data`, `getDiffData`, `setDiffData`, `clearDirtyData`, `setDirtyEn` | the units are copied after the lock is released; a lost batch | no update is lost, the copy converges |
| Linked list store (`C_LIST_T`) | `prodata/clist.h` | nodes on a used and a free list | two writes, two deletes, read | pointers leave the lock; long sequences of deletes | no node is lost or shared; behaves as a bounded store |
| Shared ring with signal (`Sem_Share_Data`, `Sem_Pth_Data`, `Sem_Qt*`) | `prodata/semshare.h`, `qtsemshare.h`, `zsharememrw.h` | ring, indices and count in shared memory, a signal semaphore with SEM_UNDO | create/open, `write_send_data`, `read_send_data`, `run`, destructor | a process dies between two stores; the kernel undoes tokens | every element is signalled unless a token was lost; in order; drained |
| Timers (`F_Timer`, `TimerEvent`, `NCbk_Poll`) | `timer/`, `epoll/e_poll.*` | descriptor map, mutex, epoll set, timerfds, eventfd | `add_event`, `delete_event`, `run`, destructor, `stopPoll` | reused descriptor numbers; events reported before the lock; cancellation with the mutex held | callbacks of live, due timers only; every expiry is served |
| Message queue and receiver (`Z_Msg`, `MsgRevClass`, `MsgRevBackClass`, `MsgSendClass`) | `prodata/zmsg.h`, `msgpro/msgprocess.h` | queue id, `m_created`, the buffer, the receiver's thread | create, open, delete, send, receive, `stopMsgRev`, destructors | a queue removed and created again by others; the thread is woken by removing the queue | each message in one place; stop returns; a created queue has a remover |
| Named semaphore (`LSystemSem`, `ZSystemSem`) | `prodata/lsystemsem.*`, `zsystemsem.*` | key file, key, semaphore id, who created what | `setKey`, `handle`, `acquire`, `release`, clean-up | created with value 0 and set later; death at any step; removal under waiters | mutual exclusion; the token survives every death |
| Shared memory (`ZSysShm`, `ZSysShmBase`, `ZLockerClass`) | `prodata/zsysshm*.{h,cpp}`, `zlockerclass.h` | segment of a key, attachments, mutex, semaphore and its key file | `createData`, `readCreateData`, `setKey`, detach | a semaphore set up anew in every call; failing or dying between two of its steps; detach by the creator; a detach inside the lock | one segment; the last one removes it; calls return |
| Direct log (`PrintfClass`) | `zprint/printfclass.*` | `FILE* m_pfd`, `m_mark`, `m_printMut` | four kinds of lines, `printfInit`, `printfClassInit`, `writeData`, destructor | the file is replaced without the mutex; a raw mutex and cancelled threads | lines stand whole; no use after `fclose`; calls return |
| Asynchronous log (`CPrintfClass`) | `zprint/cprintfclass.*` | a `TwoBufPthT` ring, its own mark and level | lines, `printfInit`, the callback, destructor | two logs on one FILE; static destruction order | as above, at the end of the process too |
| Network log (`Print_Server`) | `zprint/netprint.*` | a map keyed by time stamp, a semaphore, `constate` | start and stop datagrams, `netprintf`, `run`, destructor | two lines of one microsecond; interrupted `sem_wait` | lines accounted for; wake-ups exact; progress |
| Qt shared memory (`ZQTShareMem`, `QTShareDataT`, `ShareDataProcessT`) | `prodata/zqtsharemem.*`, `qtsharemem.h`, `sharedateprocessT.h` | key file, segment, semaphore of Qt; the typed pointer and element count | `createData`, `readCreateData`, `readCreate`, `destory`, typed create and open, `set_data`, `get_data`, destructor | `destory` works without Qt's lock; what a dead creator left; a create that resets the semaphore; a failed call on an object in use | one segment; a creator always recovers; the semaphore is never lost; accesses stay in the mapping |
| Reflection (`ParaseToType`, `TBundle`, `XMLProcess`) | `reflect/` | a struct's containers and the description of its members, a bundle, an XML element | reads by name, element and bundle, `Parase`, `set_val`, `get_val`, writing | bit fields that share a word, widths, texts that do not fit | a read changes the members it names and nothing else; what is written reads back |
| Buffer with supplement (`ZBufModel`) | `bufmodel/ZBufModel.*` | ring read in two calls | write, `get_buf_data`, `add_buf_rd` | several readers between the two calls | not modelled: cannot be instantiated |
| Signals and slots | `sigslot/sigslot.h` | vector of slots | `Bind`, call, destructor | copies of a slot | not modelled: a sequential list |
| Typed System V memory (`ShareDataT`) | `prodata/sharemem.h` | a typed view of `ZSysShm` | create, open, lock | as the Qt variant | not modelled: see below |
| Data tables, sockets, date, file, C semaphore helpers | `prodata/zmap.h`, `pro_data.h`, `ptdataapp.h`, `socket/`, `udp/`, `tcp/`, `date/`, `file/`, `prodata/sem/` | little or none | wrappers | see `PROJECT.json` | not modelled |

How they interact.  `Pth_Class` is the base of every thread of the library; its
own log lines go through `PrintfClass`.  `CPrintfClass` is a `TwoBufPthT` whose
callback writes with `PrintfClass::writeData`.  `Sem_Pth_Data` puts a ring in the
memory of `ZSysShm` (or, `Sem_Qt_Data`, of `ZQTShareMem`) and wakes its thread through `LSystemSem`; `ZSysShm` itself
locks with a mutex and a `ZSystemSem`, which is an `LSystemSem` found through a
key file.  `DiffQTShareDataT` locks with the semaphore of `QSharedMemory`, as does `ShareDataProcessT` on a
`QTShareDataT`.
`F_Timer`, `Z_Msg`, `Print_Server` and the reflection are used by the application only.

## Modules

| Module | Role |
|---|---|
| `PthClass` | life cycle of a worker thread; extended by `TwoBuf`, `FTimer`, `MsgQueue`, `NetPrint` |
| `TwoBuf`, `MCTwoBuf` | both ring classes with mutex, semaphore and worker |
| `CallbackQueue` | what `TwoBuf` promises: bounded, in order, at most once; `TwoBuf` implements it |
| `PrintfClass` | the direct log |
| `CPrintfClass`, `MCCPrintf` | composes `TwoBuf` and `PrintfClass`: the asynchronous log |
| `NetPrint` | the network log |
| `DiffShare` | the shared table with dirty bits, a copy and a lossy transport |
| `CList`, `ListStore` | the linked lists and the store they implement |
| `SemShare` | the shared ring, its processes and the kernel's SEM_UNDO |
| `FTimer` | timers, epoll, the reuse of descriptor numbers |
| `MsgQueue` | the System V queue, its objects and the receiver's thread |
| `SystemSem` | key file or numeric key, semaphore, lock, for processes that die |
| `SysShm` | the segment of a key, with the set-up of its semaphore and its lock |
| `QtShm`, `MCQtShm` | the Qt segment of a key and its typed layer |
| `BitField` | the bit operations on a word |
| `Reflect`, `MCReflect` | reading and writing reflected structs, on `BitField` |
| `TwoBufProofs`, `NetPrintProofs`, `SemShareProofs`, `FTimerProofs`, `QtShmProofs` | theorems about the module of the name; `TwoBufProofs` also about `CPrintfClass` |
| `StoreProofs` | theorems about `DiffShare`, `CList` with `ListStore`, and `Reflect`, which it extends side by side |
| `SystemVProofs` | theorems about `SystemSem`, `SysShm` and `MsgQueue`, which it extends side by side |
| `ArithmeticProofs` | theorems about `BitField`, and the lemmas on indices that run round a ring |

Conventions.  An action is the part of an operation between two points where
another actor can interfere: a whole critical section when nothing inside it can
be seen or interrupted, several actions where a process can die, a thread can be
cancelled, or data is touched outside the lock.  Variables keep the names of the
code; `pc`-like variables (`own`, `thr`, `wpc`, `ppc`, `lpc`, ...) tell where an
actor is; histories and bounds are marked as such at their declaration.  A
definition `X_word` before `X` is a mutant of `X`: a plausible slip in that code,
used to show that a property can fail.  Messages, values and files are model
values or numbers; text, time and layout are abstracted.

How state and actions correspond to the code, where it is not obvious:

* `PthClass`: `own` walks the owner through a call.  `StartCreate`/`StartMark` are
  the two halves of `start()` around `running = 1`; `DtorBegin`, `DtorWake`, `Join`,
  `BaseDtor` are the derived destructor (every derived class has the same four
  steps) and then `~Pth_Class`.  `CancelHit` is the deferred cancellation; the
  composing module says where the cancellation points are.  One owner thread:
  `m_pid` is unprotected and the library drives it from one thread.
* `TwoBuf`: `WriteBegin`/`WriteEnd` and `ReadBegin`/`ReadEnd` are the halves of the
  critical sections of `writeBufData` and `readBufData`.  `cls` is the class of the
  object: `Fits`, `SilentEnd` and `SemIgnored` are where the two differ (sizes, a
  write without a post, an interrupted `sem_wait` taken for a token).
* `DiffShare`: `Snapshot` takes and clears the bits under the lock, `CopyByte`
  copies without it.  One collector per copy.  `unitcount` and `m_dirtySize` are
  rounded as `creat_data` does; `Behind` are the bytes whose bit this leaves outside
  the dirty region.
* `SemShare`: `WriteSlot`, `WriteIndex`, `WriteCount`, `WriteEnd` are the stores of
  `write_send_data`; a process may die between any two.  A process that joins walks
  through `creat_sem_data` with `rpc`: `ResetRead`, `ResetWrite`, `ResetSize` are the
  three stores of the reset, then `OpenSem`, or `CreateSemFails`; it may die
  between any two of these as well (`JoinerDies`).  `lost` counts tokens that
  the kernel undid or refused: the code ignores both.  `LeaveUnread` is the inner
  `while` that finds `running` at 0 with a token taken.
* `FTimer`: `evs` is what `epoll_wait` reported and the worker still handles;
  `ScanLock`, `ScanRead`, `CallbackReturns`, `ScanEnd` run under the mutex.
* `MsgQueue`: `CreateExcl`/`CreateOpen` are the two `msgget` calls of
  `create_object`; ids are never reused.  `PeerKilled` and `MeKilled` end a process
  without its destructors, in the middle of a call too.
* `SystemSem`: one object per process; `pc` walks through `setKey`, `handle`,
  `modifySemaphore` and the clean-up, one system call per action.  An object whose
  `m_key` is `Number` is a bare `LSystemSem` on the numeric key `NumKey`;
  `op = "try"` is an acquire with a time limit.
* `SysShm`: `shmPc` walks through `createData` and `readCreateData`: `CleanSem`,
  `FindKey`, `GetSem`, `SetSem` are the `setKey` of `init_key` and, with `shmMode`
  "Create", the second one of `createData`; `LockMutex` and `LockSem` are the two halves of
  `lock()`; the rest runs under it.  `KeyFails`, `GetFails` (then `Undo`) and
  `SemopFails` are the failures, `RegainSem` the way `modifySemaphore` takes
  when its semaphore was removed.  `opened` tells what `m_semId` is worth.  Of the
  semaphore it has what this object sees; `SystemSem` has each system call.
  `parted` is set when file or semaphore are removed, or the semaphore set, under
  others: the lock excludes nobody any more, and the model ends there.
* `QtShm`: `pc` walks through the system calls of `QSharedMemory` (Qt 5, System V
  back end: external) and of `destory`; `key` and `id` are what an object's last
  `ftok` and `shmget` returned.  `Lock` is `QSystemSemaphore`'s acquire, in one step.
  One key, one object and one thread per process.
* `CList`: `Walk` is the list found behind a head by following `next`; an operation
  is one action, for the mutex is held throughout it.
* `Reflect`: `mem` has the containers of two objects, words as functions from bit
  numbers to bits; `StringData` is `string_data` with the functions it calls;
  `want` is a history of what each member should hold, kept member by member,
  without words.  `WellFormed` says what the macros and C++ make of any struct.
* `PrintfClass`: `LogHead` and `LogBody` are the two stdio calls of a time line.
  Undefined behaviour (a FILE used after `fclose`, a destroyed mutex) sets
  `broken`, after which nothing more is claimed.
* `CPrintfClass`: `WriteData`, `Seek`, `Fwrite`, `WriteDone` replace `Callback`; Pth_Class's
  log lines are the guard `Logged`.
* `NetPrint`: a stamp is any of `Times`, so two lines may share one and a later
  one may be smaller; `Insert` is the critical section of `netprintf`, `Take` that
  of `run` with the `send_data` that follows.  `sent` are the lines handed to
  `send_data`: `run` does not look at its result (`zprint/netprint.cpp:170`), so
  no state depends on whether a datagram left.

## Runs

| Run | Instance | Shows |
|---|---|---|
| `twobuf` | both classes, 2 slots, 2 writers, 3 writes, an empty, a fitting and an oversized message, 2 starts | `TokensCoverRing`: every message has a token or a worker on its way, or was put in silently; `NoWorkerInBaseDtor`; `ImplementsQueue`: refines `CallbackQueue`; `RingIsDrained`; `DestructorReturns` |
| `diffshare` | 17 bytes in units of 2, of which bytes 0, 1, 2 and 16 are written, 2 setters, 3 writes, 2 troubles (crash, lost batch, reset, flag) | `NoLostUpdate`, `StaleIsAnnounced`, `Converges`; nothing but the rest of the table (`Behind`) is lost by the rounding |
| `clist` | 3 nodes, 2 values, 2 conditions, 2 threads holding pointers | `NodesPartitioned`, `ImplementsStore`: refines `ListStore`, crash of a second delete included |
| `semshare` | ring of 2, 2 producers, sum limit 2, 4 writes, 2 ends (exits, deaths between any two stores, a reset's included, or a join that fails) | `TokensCoverRing`, `DeliveredInOrder` (with indices and count that agree), and while no token is lost `RingIsDrained`, `StopReturns` |
| `ftimer` | 2 users, 2 descriptors, 2 timers, 1 event per `epoll_wait`, 2 starts | `MapAgrees` (with the callback's timer alive), `CallbackIsDue`, `ExpiryIsServed`, `DestructorReturns` |
| `msgqueue` | receiver and a peer, both destroyed or killed at any step, 2 types, capacity 2, 3 sends, 2 queues, 2 starts | `EveryMessageAccounted`, `QueueHasCreator`, `QueueIsServed`, `StopReturns` |
| `syssem` | 2 processes, 1 name and 1 number, 2 files, 2 semaphores, 1 death | `MutualExclusion`, `TokenConserved` (a semaphore gets its token, and keeps it), `AcquireReturns` |
| `sysshm` | 2 processes, sizes 0 and 1, 2 segments, 3 calls, 1 fault (a death at any step, or a failing file, `semget` or `semop`) | `OneSegment` (to the last one, who removes it), `CallsReturn` (both locks are freed on every way out) |
| `qtshm` | 3 processes, 2 inodes, 1 size, opens that expect a size and that take any, 2 segments, 3 calls and deaths | `OneSegment`, `CreatorRecovers`, `WritersExclude`, `AccessMapped` |
| `reflect` | the header's `Test` struct and two of bit fields (a signed and an unsigned word shared by two fields, a field that fills its word, a signed field below an enum), 6 texts, 3 calls | `MembersHold`, `SavedComesBack` |
| `cprintf` | ring of 1, a fitting and an overlong line, 2 direct loggers, 2 lines, 2 files | `LogWhole`, `NoUseAfterClose`, `LogReturns` |
| `netprint` | 2 writers, 3 lines, 2 stamps, 1 signal, 2 starts | `LinesAccounted`, `WakeUpsExact`, `NetProgress` |

Where `TypeOK` is not listed it is the first conjunct of the run's first
structural invariant, or proved only.  Deadlock is not checked: after the last call of a finite
program, or the destructor, every model may stop.

Bounds.  Every bound is a CONSTANT with a comment.  Rings have at least two slots where
wrapping matters and one where only the hand-over does; more writes than
slots, so that a ring is full, refuses and wraps; two starts, so that a worker
meets what its predecessor left (tokens, a locked mutex, a half-emptied map);
two files, queues, semaphores or segments, so that a name leads to a second one
after a removal; two threads or processes, since every hazard listed is a race
of two, and three processes where an observer of the other two matters
(`qtshm`); a table of one dirty byte's units and a rest, the smallest whose last
unit has its bit outside the region; SEMAEM 2 in place of 32767, so that the limit is reached.  Liveness runs keep
calls finite by the same bounds: a property of the form "the worker eventually
..." is then not met by starvation through endless new calls, which is what the
code's callers decide.  Symmetry is used in `qtshm` only, where no liveness is
checked.  In `reflect` the integers have 3 and 4 bits and a double shows one
digit: enough for a number to fit the wider type and not the narrower, a word
and not a field; a text names an enumerator of the member, one of another enum,
or none.  The proofs are for every width.

Fairness.  Threads that can run do run (weak fairness of each worker, of an
owner inside a call, of a caller inside a critical section).  A caller never has
to call.  Strong fairness is used where the platform queues waiters: a System V
semaphore (`Take`, `LockSem`), the mutex of the direct log, and epoll, which
rotates its ready list (`Reports`).  Crashes, signals, cancellations asked for by nobody
and clock ticks are never forced.

## Theorems

`TwoBufProofs`, for every ring size, message set, number of writers, writes and
starts: `TypeCorrect`, `NoLostWakeup` (`[]TokensCoverRing`), `BaseDtorAlone`
(`[]NoWorkerInBaseDtor`).  None is inductive.  `IInv` adds `MutexInv` (who holds the
mutex is where its critical section is open; a writer in it still has room, a
reader still has a message: without it `m_num + 1` could leave `0 .. N`) and
`LifeInv` (`m_pid` is live exactly when a thread exists; an idle owner with a live
thread has `running = 1`: without it the derived destructor could skip its join).
One lemma per actor shows that its steps preserve `IInv`.  `RingImplementsQueue`
(`ImplementsQueue`) is the refinement of `CallbackQueue`, step by step: the write
and read halves that count map to `Accept`, `Take` and `Deliver`, all else to stutters.
Its abstract queue is a window on the slots; that filling the slot behind it and
moving its start are `Append` and `Tail` rests on `IndexInv` (`m_wr` is `m_num` slots
after `m_rd`; `IndicesAgree`) and on the lemmas of `ArithmeticProofs` about `%`.

Its second half is about `CPrintfClass`, for every set of loggers and number of
lines and files: `LinesStayWhole` (`[]LogWhole`), `FileOutlivesLines`
(`[]NoUseAfterClose`) and, because every step of the log is one of its ring or
leaves the ring alone (`StepsOfTwoBuf`), `LogKeepsRing`: no lost wake-up, no
worker in the base destructor and the refinement of `CallbackQueue`, although
four steps that can be interrupted and cancelled stand in for the one of the
callback.  `CInv` adds to `IInv` who holds `m_printMut` (`PrintMutInv`: it is
destroyed with the object of the ring, hence after the worker) and, until
`m_pfd` is replaced, `PfdInv`: what a line has tested of `m_pfd` stays true
until the line is written, because only the destructor changes it and it waits
for everybody.  The attempt showed that at least two files must be allowed for,
since the constructor opens one (`PrintfAssumption`).

`StoreProofs`, first part, about `DiffShare`, for every table and unit size, set of values, number of setters
and of troubles: `TypeCorrect`, `UpdatesReachTheCopy` (`[]NoLostUpdate`),
`StaleBatchIsRepaired` (`[]StaleIsAnnounced`), from `IInv`, their conjunction with `TypeOK`: a stale
byte in the batch must be announced for the step that applies the batch, and an
update not yet copied must be announced, pending or in the batch for the
snapshot.  `BatchInRegion` keeps units behind the dirty region out of every
batch, and the lemma `RegionCovers` says, for every two sizes, which bytes these are: the
rest of a table whose whole units fill their bytes of the region exactly (`Behind`).

Its second part is about `CList`, for every number of nodes and threads and every
set of values and conditions: `NodesStayPartitioned` (`[]NodesPartitioned`) and
`ListImplementsStore` (`ImplementsStore`, the refinement of `ListStore`).  `ListInv`
says that each head leads along the links to NULL (`Chain`) and that the two
walks have every node in one place between them (`Placed`).  A walk is defined by what it is, not by
recursion, so that it can be reasoned about: `WalkIs` shows that a chain is the walk,
by the first place where another could differ.  `WriteWalks` and `DeleteWalks` say
what an operation makes of both walks, `ContentWritten` and `ContentRemoved`
what that means for the values on them; each operation is then one step of the store
with the same return code, the crash on a stale pointer included.

Its third part is about `Reflect`, for every width of the integer types, every set
of structs that are `WellFormed`, every set of texts and any number of calls:
`MembersKeepValues` (`[]MembersHold`) and `SavedReadsBack` (`[]SavedComesBack`).
`MembersHold` is almost inductive by itself; `ReflectInv` adds that a container holds a
word of its type and that an element written is a copy of the members it was written from.
The work is below it.  The bits of a number determine it and every word has a number
(`BitsDiffer`, `BitsMade`), a conversion keeps the low bits (`BitsModulo`): that is
why what is written reads back, through a wider type too (`WordBack`, `ReadAsWider`).
`FieldTakes` and `FieldRefuses` say exactly which numbers a bit field accepts,
`LowerKept` that a negative number spares the fields below.  `ReadHolds` and
`OthersHold` lift them to one text and one member, and `ReadAllHolds` to all members
in turn, where a field may be written before or after the one that shares its
word.  The attempt showed what the property had not said: a name that two enums
share is read as the first one's number, a field may be as wide as its word, and
whether a number spills is decided by the number the code reads, not by the one the
text means (see below).

`ArithmeticProofs`, for words of every width and fields anywhere in them:
`NeighboursKept` (a number that is not negative leaves the bits outside its field
alone, accepted or not), `FieldHoldsValue` (an accepted one stands in the field,
whatever was there), and that a number of fewer bits than the field is accepted
unless the field is a whole word.  `StoreProofs` rests on them for bit fields.

`NetPrintProofs`, for every number of writers, stamps, lines, signals and starts:
`NoLineDisappears` (`[]LinesAccounted`) and `WakeUpsBalance` (`[]WakeUpsExact`), from
an `IInv` of two halves.  `LineInv` says where the lines are; it needs that a stamp
and a number name one line of the map each (`NumberInv`), or taking one line could
remove two.  `WakeInv` adds them up with the cardinalities of the map, of the
writers that still owe a post and of the replaced lines.  Its equation holds only
while the object lives, since the destructor posts once more; what survives is
that a worker about to take from an empty map still has a replaced line or a
signal to blame, and for that `LifeInv` must say that a worker gets that far only
while `running` is 1, hence before the destructor.

`SemShareProofs`, for every ring size, set of producers, limit of the kernel's
adjustments, and number of writes and ends: `NoLostWakeup` (`[]TokensCoverRing`) and `RingStaysQueue`
(`[]DeliveredInOrder`).  `TokensCoverRing` is not inductive: when the consumer dies
the kernel undoes what it took, so its successor is covered only if the ring was
covered by what the semaphore holds with the consumer's own operations undone.  That is
`UndoInv` (`Balance`).  `ResetInv` follows the three stores of a reset, with the lock held by a
process that is none of the others yet: between the first and the last the ring
holds nothing (`Resetting`), and a death there leaves it torn until the next reset.  `LockInv` says who is where in a critical section.  For the
order, `Held` is the number of elements from `pRd` on while count and indices
disagree inside a section, `IndexInv` places `pWr` after them, and `OrderInv` says that
what was delivered, what the thread has in hand and what the ring holds ascend, one
after the other; a death inside a section sets `torn`, after which less is
claimed.

`FTimerProofs`, for every set of users and (finite) set of descriptors, size of the event array and number of
timers and starts: `MapStaysAgreed` (`[]MapAgrees`) and `CallbackOnlyWhenDue`
(`CallbackIsDue`).  `FdInv` says whose a descriptor is: a call's or a handle, and
only a number that was closed and not yet erased may be given out again meanwhile.
`MapInv` then compares map and kernel at every moment of a call; `LockInv`
excludes the erase while the worker reads, so what the read finds behind a
number that was reused since `epoll_wait` is the timer in the map, and `CallInv` keeps it
there for the callback.  `LifeInv` closes the destructor: the map is emptied only
after the join.

`QtShmProofs`, for every finite set of processes, every set of inodes and sizes and
every number of segments, calls and deaths: `SharedByAll` (`[]OneSegment`),
`CreateSucceeds` (`[]CreatorRecovers`), `SemaphoreKept` (`[]WritersExclude`) and
`WritesMapped` (`[]AccessMapped`).  `WritersExclude` counts the holders, but a death
undoes by `semadj`, which `SetSem` forgot: `SemInv` therefore counts the `Debtors`,
who were inside when the semaphore was set, or have left since, and says that value
and holders make one more than they; a death takes a unit only from a debtor, and
so never the last.  `FileInv` adds to `OneSegment` the processes between `ftok` and
`shmat`.  `PlaceInv` and `UseInv` carry what an object knows through its call;
a size becomes good again only with the mapping it belongs to.  `AloneInv` follows a
lone create: `Detaching` brings it to at most one segment beside the file's,
`Trying` takes that of the file, and on the second round the one the new inode led to.
The first attempt failed there: `CreatorRecovers` as it was did not hold for
three segments, as TLC then confirmed (see below), and now says what it needs
(`OneStray`).  It also found a removal of the file, by a create for which the
kernel had no room, missing from the history `cut`.

`SystemVProofs`, for every finite set of processes, every set of names and every
number of files, semaphores and deaths: `TokenNeverLost` (`[]TokenConserved`) and
`LockExcludes` (`[]MutualExclusion`).  `MutualExclusion` says nothing of semaphores;
`IInv` has two steps below it.  `TakeInv`: value and record of a semaphore add up to the
one token, and the kernel's record is of exactly those inside; it needs `SetInv`
(a semaphore is set once, by one process, while its value and record are still
zero), which needs that nobody else creates or resets what exists.  `ObjInv`: key,
file and number lead each process from its name to the semaphore its object has, so
that two of one name are on the record of one semaphore; it needs `SemsStay` and,
step by step, what `setKey` and `handle` have looked up so far (`PlaceInv`).  All but the types,
`SomeoneSetsIt` and `PlaceInv` is under `~disturbed`.  Without `kept` the attempt
failed at `setKey` with a second name, as TLC then confirmed (see below); the sum of adjustments
in `TokenConserved` became the number of `Takers`, which says more.

Its second part is about `SysShm`, for every set of processes and sizes and
every number of segments, calls and faults: `SegmentShared` (`[]OneSegment`).
Most steps only move their process, to the semaphore and in and out of the lock
(`ShmQuiet`): what they leave alone is shown once for all of them.  `ShmOwn` says of
each process that it holds its mutex behind the first half of `lock()`, and behind the
second the semaphore, unless somebody has failed to take it; hence one process at a
time is inside.  `ShmHeldInv` says that a segment with a key is attached by
somebody, or that the process inside has just created it or is about to count the
attachments: only so does the last to leave find out that it is the last.  That what
a process works in it has attached (`ShmOwn`) makes a count of zero mean that
nobody works in the segment that is removed (`ShmOneInv`).

The third part is about `MsgQueue`, for every set of objects and types and every
capacity and number of sends, queues and starts: `MessagesAccounted`
(`[]EveryMessageAccounted`) and `CreatorKeepsQueue` (`[]QueueHasCreator`).
`NextMoves` shows that each of the twenty-odd actions moves messages in one of
seven ways (`Moves`), and everything about the places of messages is then shown
for these seven.  That the handled ones ascend needs `HandledFirst`: what is in
hand is newer than what was handled, and what waits for the thread newer than
both; `Ascending` and that `msgrcv` takes the first of its type (`FirstOfType`)
keep it so while peers take others from the middle.  `ReceiverInv` excludes that
`Me` is reopened while its destructor or `stopMsgRev` removes the queue, which
`QueueHasCreator` needs; a kill may take any remover (`Removers`) but the last without
leaving an orphan.  The module extends the three models, whose names are
prefixed (`ShmInit`, `MsgInit`, ...) where they would clash; a state has the
variables of all three, and each theorem is about the specification of one.

The assumptions are those on the CONSTANTS (`TwoBufAssumption`, `TwoBufNames`,
`PthAssumption`, `PrintfAssumption`, `PrintfNames`, `CPrintfNames`,
`DiffAssumption`, `DiffNames`, `ListAssumption`, `ReflectAssumption`,
`StructAssumption`, `NetAssumption`, `SemShareAssumption`,
`SemShareNames`, `FTimerAssumption`, `FTimerNames`, `QtShmAssumption`,
`SemAssumption`, `ShmAssumption`, `ShmNames`, `MsgAssumption`), which TLC
evaluates in the runs.  Those of `Reflect` say that a `short` is no narrower than an
`int8_t` and a `ushort` than a `uchar`, that a double has every integer the types
have, that different numbers have different digits, and that structs are declared
as C++ and the macros have it (`WellFormed`).

Model-checked only: all liveness, `Converges`, `RingIsDrained`, `CallsReturn` and
the like (fairness and ENABLED are out of the prover's reach).  Every invariant
and every refinement the runs check is also proved.

## Behaviour met

What the code does and a user may not expect.  The properties describe it by an
explicit exception, never by leaving it out of the model:

* `start()` assigns `running = 1` after `pthread_create` (`epoll/pthclass.cpp:41-43`).
  A thread scheduled first reads 0 and leaves `run()`; the object looks started
  and serves nothing.  The liveness properties speak of a worker that serves.
* `attach` calls `detach` when the segment has another size
  (`prodata/zsysshm.cpp:143`) with the object's mutex held; `detach` locks it again
  and the thread waits for itself, holding the system semaphore of every other
  process (`SelfLocked` in `CallsReturn`).  `readCreateData` with its default size 0
  always does, since no segment has that size.
* A process that dies between `semget` and SETVAL leaves a semaphore of value 0, on
  which `createData` and `readCreateData` of all others wait for ever (`NeverSet` in
  `CallsReturn`), unless one of them comes with Create and sets it first.
* Nobody looks at what `lock()` returns (`zsysshm.cpp:236-237`, `:266-267`).  When the
  semaphore fails the call goes on without it (`trespassed`), `ZLockerClass` unlocks
  nothing, and the object's next `lock()` waits for its own mutex (`unguarded`).
* `createData` sets its key a second time, with Create: a process that finds
  file and semaphore there claims both, and sets the semaphore to 1 though others may
  hold it.  An object that has created one of the two, but not both, first removes it
  again.  And every later call of an owner begins with `init_key`, which removes what
  the object owns, whoever uses it (`parted` in `SysShm`).
* `buf_wr_data` of `Z_Buf_T` does not post: what it puts in waits for the next
  message, and one more is left behind for every such call (`silent`).
* `setKey` with another name takes the semaphore along that the object only opened:
  `cleanHandle` forgets the id of a creator alone (`lsystemsem.cpp:8-23`), and `handle`
  returns at once when there is one (`lsystemsem.cpp:28`).  Its `acquire` then locks the first
  name, and excludes nobody of the second (`kept` in `SystemSem`).
* `QTShareDataT` keeps pointer and size of the segment before when a create or
  open fails on an object in use (`failed` in `QtShm`); `createData` sets the
  semaphore to 1 under a holder (`forced`); `destory` removes file or segment of
  others (`cut`) and takes a segment with the id 0 for none.  When it finds the
  segment in use it removes the file only (`zqtsharemem.cpp:82`), and the segment
  stays without one; after several of these a new file's inode may lead from one
  left-over to the next, and create, which tries twice, fails (`OneStray`).
* `semtimedop` reports a time limit as EAGAIN while `modifySemaphore` waits for
  ETIMEDOUT (`lsystemsem.cpp:198`): a time-out is returned as `PError`.  `createSem`
  does not store the key, so its object cannot make a removed semaphore again.
* A field as wide as its word, or as a signed word without its sign, is never set
  (`reflect.h:54`); a negative number in a field of a signed word fills the fields
  above it (`Spilled`); `int8_t` and `uchar` are cut without a check.  An enum's name
  is looked up among the enumerators of all enums (`reflect.h:558`; the lookup by
  node at `reflect.h:570` is not used): a name two enums share gets the number of
  the first (`Meant` is then `Unknown`).
  `write_xml_attribute` writes the whole word of a bit field and the number of an
  enum, neither of which reads back; `putEnum` stores a number that `set_bundle`
  looks up as a name and reads as 0.  `Parase` goes by position, whatever name
  stands before the `=`, begins again at the first segment when segments are
  missing, and appends to strings, as do `set_val` and `get_val`.
* SEM_UNDO on the signal semaphore takes back the tokens of a producer that
  exits while its elements are still in the ring (`lsystemsem.cpp:147`); after
  about 32767 one-sided operations the kernel refuses (`lost` in `SemShare`).
* `creat_data` rounds `size / unitsize` down before it sizes the dirty region
  (`diffqtsharedataT.h:128`): 17 bytes in units of 2 mark unit 8 outside a region
  of one byte, where `getDiffData` never looks.  What is written there never
  reaches the copy (`Behind` in `NoLostUpdate` and `Converges`).
* A process that joins a ring resets it before it opens the semaphore
  (`semshare.h:77-79`); when the semaphore is there already, `creat_sem_data` with Create
  fails with -2 and the ring is reset all the same.
* A message queue whose last remover is killed, or that the second `msgget` has
  created, stays for ever (`orphan` in `MsgQueue`): the next `create_object` opens it
  with `m_created` at 0 (`zmsg.h:107-120`).
* A second `delete_list_data` of one pointer dereferences NULL (`clist.h:236`,
  outcome "crash" of `ListStore`).
* `stop()` can cancel a worker that holds a plain mutex: of `F_Timer` (`LockLost`)
  or of the direct log (`killed`); those who lock later wait for ever.
* `printfInit` and `printfClassInit` replace `m_pfd` without the mutex of the lines
  (`reopened` in `PrintfClass`).
* The creator of a semaphore or a segment removes it while others use it
  (`disturbed` in `SystemSem`, `pulled` in `SysShm`), and a semaphore recreated by
  the second `semget` is never set (`abandoned`).
* Two lines of one microsecond on the network log: the first is lost and the
  worker sends another one twice (`replaced`, `repeats` in `NetPrint`).

## Not modelled

Formatting and contents of log lines; the failures of `epoll_ctl`, and of `semop` for
want of memory except in `SysShm` (there the acquire; a release does not fail); what
`SysShm` does once the semaphore has parted its users (`SystemSem` goes on); edge-triggered use of `z_poll`; how long a time limit
is; several objects of one name in
one process; a second collector of a dirty table; use of an object by a caller
while another thread destroys it (the models require the caller's calls to be
over, as the code does); the data race on `Pth_Class::m_name`; `Print_Client` and
Qt's thread affinity of the socket; setting a `ZQTShareMem` to another key, and
its mutex (`SysShm` has the same one); in the reflection char members, the byte
swaps, the enum lookups by node and the getters of `TBundle`, which change
nothing.

Whole components: `ZBufModel::get_buf_data` converts a pointer in a way the
compiler refuses for every element type, so no program has it; `ptdataapp.h` is
one comment; `ShareDataT` adds to `ZSysShm` the typed layer that `QtShm` models on
the other kind of segment; the signals are a sequential list of callbacks (copying a
slot does not compile); maps, sockets, date and file helpers, and the C functions
of `sem/` are thin wrappers of containers and system calls.

## Plan

Done: `PthClass`, `TwoBuf` (both classes) with `CallbackQueue`, `DiffShare`, `CList`
with `ListStore`, `SemShare`, `FTimer`, `MsgQueue`, `SystemSem`, `SysShm`,
`PrintfClass`/`CPrintfClass`, `NetPrint`, `QtShm`, `Reflect`, `BitField`; the proofs
about all of them, with the refinements of `CallbackQueue` and `ListStore`.

Left: `ShareDataT` on top of `SysShm`; a second collector of a dirty table; a lock
that `SystemSem` implements until something is removed, as an abstract specification.
