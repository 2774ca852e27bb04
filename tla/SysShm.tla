------------------------------- MODULE SysShm -------------------------------
(***************************************************************************)
(* ZSysShm on ZSysShmBase, ZLockerClass and its ZSystemSem (prodata/       *)
(* zsysshm.cpp, zsysshmbase.cpp, zlockerclass.h, zsystemsem.cpp): several  *)
(* processes create, attach and detach the System V segment of one key.    *)
(* lock() takes the object's mutex, which is not recursive, and then the   *)
(* system semaphore; createData and readCreateData set up the semaphore    *)
(* anew in every call, before they lock.  One object, used by one thread,  *)
(* per process.  The names have a prefix where SystemSem, with which       *)
(* SystemVProofs reads this module, has the same ones.                     *)
(*                                                                         *)
(* Of the semaphore only what matters to this object is kept: SystemSem    *)
(* has the two semgets, the files' numbers and the kernel's undo one by    *)
(* one.  When a file or semaphore is removed while others are at work with *)
(* it, the lock excludes nobody any more, and the model ends (parted).     *)
(*                                                                         *)
(* A segment has a size; one that is removed while attached lives on       *)
(* without its key.  Segments are numbered in the order of creation.       *)
(***************************************************************************)
EXTENDS Naturals

CONSTANTS
  Users,
  Sizes,      \* the sizes asked for; 0 is the default of readCreateData
  MaxSegs,    \* bound: segments created
  MaxCalls,   \* bound: calls of createData and readCreateData
  MaxFaults   \* bound: deaths, and operations of the semaphore that fail

ASSUME ShmAssumption ==
  Sizes \subseteq Nat /\ MaxSegs \in Nat /\ MaxCalls \in Nat /\ MaxFaults \in Nat

NoSeg == 0
Free  == "free"
ASSUME ShmNames == Free \notin Users

VARIABLES
  current,      \* kernel: the segment the key leads to
  segs,         \* number of segments created
  segSize,      \* kernel: size of each segment
  attached,     \* kernel: per process, how often each segment is attached
  keyFile,      \* the key file of the semaphore is there
  semState,     \* kernel: "none", "raw" (created) or "set" (to 1)
  sem,          \* kernel: who has taken the semaphore
  m_shmMutex,   \* per process: its mutex is held
  shmPc,        \* per process: where it is in the call
  shmOp,        \* per process: the call
  shmMode,      \* per process: what handle() is called for: "Open", "Create"
                \* of setKey, or "Regain", in modifySemaphore (with Open)
  want,         \* per process: the size it asked for
  opened,       \* per process: m_semId is "none", "valid", "stale" (of a
                \* semaphore removed) or "lost" (stale, and no m_semKey)
  ownsSem,      \* per process: m_created of m_sysSem
  ownsFile,     \* per process: m_createdFile of m_sysSem
  unguarded,    \* per process: lock() has failed, its ZLockerClass lets go
  m_memory,     \* per process: the segment it works in
  m_size, m_createShm,    \* per process
  pulled,       \* history: a segment was removed while others had it
  orphaned,     \* history: the last one died, or somebody attached twice
  parted,       \* history: the semaphore was removed or set under others
  trespassed,   \* history: somebody went in without the semaphore
  calls, faults \* bounds

shmKernVars == <<current, segs, segSize, attached>>
shmSemVars  == <<keyFile, semState, opened, ownsSem, ownsFile, parted>>
shmObjVars  == <<m_memory, m_size, m_createShm>>
shmVars == <<shmKernVars, shmSemVars, sem, m_shmMutex, shmPc, shmOp, shmMode, want,
             unguarded, shmObjVars, pulled, orphaned, trespassed, calls, faults>>

Segs == 1 .. MaxSegs

\* A key file may be left of a process that has died.
ShmInit ==
  /\ current = NoSeg /\ segs = 0 /\ segSize = [s \in Segs |-> 0]
  /\ attached = [p \in Users |-> [s \in Segs |-> 0]]
  /\ keyFile \in BOOLEAN /\ semState = "none" /\ sem = Free
  /\ m_shmMutex = [p \in Users |-> FALSE]
  /\ shmPc = [p \in Users |-> "idle"] /\ shmOp = [p \in Users |-> "none"]
  /\ shmMode = [p \in Users |-> "Open"] /\ want = [p \in Users |-> 0]
  /\ opened = [p \in Users |-> "none"]
  /\ ownsSem = [p \in Users |-> FALSE] /\ ownsFile = [p \in Users |-> FALSE]
  /\ unguarded = [p \in Users |-> FALSE]
  /\ m_memory = [p \in Users |-> NoSeg] /\ m_size = [p \in Users |-> 0]
  /\ m_createShm = [p \in Users |-> FALSE]
  /\ pulled = FALSE /\ orphaned = FALSE /\ parted = FALSE
  /\ trespassed = FALSE /\ calls = 0 /\ faults = 0

ShmGo(p, where) == shmPc' = [shmPc EXCEPT ![p] = where]
Attached(s) == \E p \in Users : attached[p][s] > 0

Fault == faults < MaxFaults /\ faults' = faults + 1

\* The call returns.
Return(p) ==
  /\ ShmGo(p, "idle") /\ shmOp' = [shmOp EXCEPT ![p] = "none"]
  /\ shmMode' = [shmMode EXCEPT ![p] = "Open"] /\ want' = [want EXCEPT ![p] = 0]

\* The steps that set up the semaphore touch neither segment nor lock.
SemOnly == UNCHANGED <<shmKernVars, sem, m_shmMutex, unguarded, shmObjVars, pulled,
                       orphaned, trespassed, calls>>

-----------------------------------------------------------------------------
(* The calls, and m_sysSem.setKey in them.                                 *)

Call(p, op, size) ==
  /\ shmPc[p] = "idle" /\ calls < MaxCalls /\ calls' = calls + 1
  /\ ShmGo(p, "clean") /\ shmOp' = [shmOp EXCEPT ![p] = op]
  /\ want' = [want EXCEPT ![p] = size]
  /\ UNCHANGED <<shmKernVars, shmSemVars, sem, m_shmMutex, shmMode, unguarded,
                 shmObjVars, pulled, orphaned, trespassed, faults>>

CreateData(p, size)     == Call(p, "create", size)
ReadCreateData(p, size) == Call(p, "read", size)

RmSem(p)  == ownsSem[p] /\ opened[p] = "valid"
RmFile(p) == ownsFile[p] /\ keyFile

\* It has taken its key from the file and no answer from the semaphore yet, or
\* is about to use it.
AtWork(q) == shmPc[q] \notin {"idle", "clean", "key"}

\* semFileCleanHandle: the object gives back what it has created.  Without the
\* file those who come make another, with another key, than those attached
\* have; when its semaphore stays, also than those who have its id: p too,
\* unless its object ends (keeps is FALSE).
Clean(p, keeps) ==
  /\ keyFile' = (keyFile /\ ~ownsFile[p])
  /\ semState' = IF RmSem(p) \/ RmFile(p) THEN "none" ELSE semState
  /\ opened' = [q \in Users |->
       IF q = p THEN (IF ownsSem[p] \/ ~keeps THEN "none" ELSE opened[p])
       ELSE IF RmSem(p) /\ opened[q] = "valid" THEN "stale" ELSE opened[q]]
  /\ parted' = \/ parted
               \/ (RmSem(p) \/ RmFile(p)) /\ \E q \in Users \ {p} : AtWork(q)
               \/ RmFile(p) /\ \E q \in Users \ {p} : m_memory[q] # NoSeg
               \/ RmFile(p) /\ ~RmSem(p)
                    /\ \E q \in Users : opened[q] = "valid" /\ (q # p \/ keeps)
  /\ ownsSem' = [ownsSem EXCEPT ![p] = FALSE]
  /\ ownsFile' = [ownsFile EXCEPT ![p] = FALSE]

\* init_key sets the empty key, which cleans, and then the key of the segment;
\* so does setKey with Create.
CleanSem(p) ==
  /\ shmPc[p] = "clean" /\ Clean(p, TRUE) /\ ShmGo(p, "key")
  /\ UNCHANGED <<shmOp, shmMode, want, faults>> /\ SemOnly

\* Behind handle().  createData sets the key once more, with Create: the object
\* that created file and semaphore keeps them, any other first gives back the
\* one it has created, then opens, and owns the file.  From modifySemaphore the
\* way is back to the semop.
BehindHandle(p) ==
  LET again == shmMode[p] = "Open" /\ shmOp[p] = "create"
                 /\ ~(ownsSem'[p] /\ ownsFile'[p])
  IN /\ ShmGo(p, CASE shmMode[p] = "Regain" -> "sem"
                   [] again -> "clean"
                   [] OTHER -> "lock")
     /\ shmMode' = [shmMode EXCEPT ![p] = IF again THEN "Create" ELSE "Open"]

\* createUnixKeyFile and ftok.
FindKey(p) ==
  /\ shmPc[p] = "key" /\ keyFile' = TRUE
  /\ ownsFile' = [ownsFile EXCEPT ![p] = ~keyFile]
  /\ opened' = [opened EXCEPT ![p] = IF @ = "lost" THEN "stale" ELSE @]
  /\ ShmGo(p, "get")
  /\ UNCHANGED <<semState, ownsSem, parted, shmOp, shmMode, want, faults>> /\ SemOnly

\* The file cannot be made.  init_key does not look at what setKey returns but
\* whether there is an id, maybe from an earlier call.
KeyFails(p) ==
  /\ shmPc[p] = "key" /\ Fault
  /\ opened' = [opened EXCEPT ![p] = IF @ = "stale" THEN "lost" ELSE @]
  /\ UNCHANGED <<keyFile, semState, ownsSem, ownsFile, parted>> /\ SemOnly
  /\ IF opened[p] # "none" /\ shmMode[p] = "Open"
     THEN BehindHandle(p) /\ UNCHANGED <<shmOp, want>>
     ELSE Return(p)

\* handle(): an id that is there is good enough; otherwise semget creates or
\* opens, and what was opened with Create is claimed.
GetSem(p) ==
  /\ shmPc[p] = "get"
  /\ LET had    == opened[p] # "none"
         makes  == ~had /\ semState = "none"
         claims == ~had /\ (makes \/ shmMode[p] = "Create")
     IN /\ semState' = IF makes THEN "raw" ELSE semState
        /\ opened' = [opened EXCEPT ![p] = IF had THEN @ ELSE "valid"]
        /\ ownsSem' = [ownsSem EXCEPT ![p] = @ \/ claims]
        /\ ownsFile' = [ownsFile EXCEPT ![p] = @ \/ shmMode[p] = "Create"]
        /\ IF claims THEN ShmGo(p, "setval") /\ UNCHANGED shmMode ELSE BehindHandle(p)
  /\ UNCHANGED <<keyFile, parted, shmOp, want, faults>> /\ SemOnly

\* The kernel has no more semaphores: the key file goes again, and the call
\* returns; in modifySemaphore the next handle() fails as well.
GetFails(p) ==
  /\ shmPc[p] = "get" /\ opened[p] = "none"
  /\ Fault
  /\ ShmGo(p, IF shmMode[p] = "Regain" THEN "sem" ELSE "undo")
  /\ shmMode' = [shmMode EXCEPT ![p] = "Open"]
  /\ UNCHANGED <<shmSemVars, shmOp, want>> /\ SemOnly

\* SETVAL: 1, whoever has taken it.
SetSem(p) ==
  /\ shmPc[p] = "setval"
  /\ semState' = "set" /\ parted' = (parted \/ sem # Free)
  /\ UNCHANGED <<keyFile, opened, ownsSem, ownsFile, shmOp, want, faults>> /\ SemOnly
  /\ BehindHandle(p)

Undo(p) ==
  /\ shmPc[p] = "undo" /\ Clean(p, TRUE) /\ Return(p) /\ UNCHANGED faults /\ SemOnly

\* The destructor of m_sysSem; the next object of p is a new one.
DestructShm(p) ==
  /\ shmPc[p] = "idle" /\ m_memory[p] = NoSeg
  /\ (opened[p] # "none" \/ m_createShm[p] \/ unguarded[p])
  /\ Clean(p, FALSE)
  /\ m_shmMutex' = [m_shmMutex EXCEPT ![p] = FALSE]
  /\ unguarded' = [unguarded EXCEPT ![p] = FALSE]
  /\ m_size' = [m_size EXCEPT ![p] = 0]
  /\ m_createShm' = [m_createShm EXCEPT ![p] = FALSE]
  /\ UNCHANGED <<shmKernVars, sem, shmPc, shmOp, shmMode, want, m_memory, pulled,
                 orphaned, trespassed, calls, faults>>

-----------------------------------------------------------------------------
(* lock and unlock: the mutex first, then the semaphore.                   *)

LockOnly == UNCHANGED <<shmKernVars, shmSemVars, m_memory, m_createShm, shmMode,
                        pulled, orphaned, calls>>

\* setKey with another key and the destructor detach what is attached.
Detach(p) ==
  /\ shmPc[p] = "idle" /\ m_memory[p] # NoSeg
  /\ ShmGo(p, "lock") /\ shmOp' = [shmOp EXCEPT ![p] = "detach"]
  /\ UNCHANGED <<sem, m_shmMutex, want, unguarded, m_size, trespassed, faults>> /\ LockOnly

\* Who comes from attach, "relock", has it already.
LockMutex(p) ==
  /\ shmPc[p] \in {"lock", "relock"} /\ ~m_shmMutex[p]
  /\ m_shmMutex' = [m_shmMutex EXCEPT ![p] = TRUE] /\ ShmGo(p, "sem")
  /\ UNCHANGED <<sem, shmOp, want, unguarded, m_size, trespassed, faults>> /\ LockOnly

\* readCreateData sets m_size right behind the lock.
GoIn(p) ==
  /\ ShmGo(p, CASE shmOp[p] = "create" -> "create"
                [] shmOp[p] = "read"   -> "attach"
                [] shmOp[p] = "detach" -> "detach")
  /\ m_size' = IF shmOp[p] = "read" THEN [m_size EXCEPT ![p] = want[p]] ELSE m_size
  /\ UNCHANGED <<m_shmMutex, shmOp, want>> /\ LockOnly

MayLock(p) == opened[p] = "valid" /\ semState = "set" /\ sem = Free

LockSem(p) ==
  /\ shmPc[p] = "sem" /\ MayLock(p)
  /\ sem' = p /\ GoIn(p) /\ UNCHANGED <<unguarded, trespassed, faults>>

\* EIDRM, EINVAL: the semaphore was removed; handle() gets it by its key.
RegainSem(p) ==
  /\ shmPc[p] = "sem" /\ opened[p] = "stale" /\ ShmGo(p, "get")
  /\ shmMode' = [shmMode EXCEPT ![p] = "Regain"]
  /\ opened' = [opened EXCEPT ![p] = "none"]
  /\ ownsSem' = [ownsSem EXCEPT ![p] = FALSE]
  /\ UNCHANGED <<keyFile, semState, ownsFile, parted, shmOp, want, faults>> /\ SemOnly

\* semLock fails: nobody looks at what lock() returned, the call goes on
\* without the semaphore and its ZLockerClass will unlock nothing.
NotLocked(p) ==
  /\ shmPc[p] = "sem" /\ GoIn(p)
  /\ unguarded' = [unguarded EXCEPT ![p] = TRUE] /\ trespassed' = TRUE
  /\ UNCHANGED sem

\* An object without semaphore, left by a failed call, cannot but fail; the
\* semop can.
NoSemaphore(p) == opened[p] \in {"none", "lost"} /\ NotLocked(p) /\ UNCHANGED faults
SemopFails(p) ==
  /\ opened[p] = "valid" /\ NotLocked(p)
  /\ Fault

\* Mutant of MutexFreed: unlock gives back the semaphore only.
MutexFreed_not(p) == m_shmMutex

MutexFreed(p) == [m_shmMutex EXCEPT ![p] = FALSE]

\* ~ZLockerClass.
Unlock(p) ==
  /\ shmPc[p] = "unlock" /\ Return(p)
  /\ IF unguarded[p]
     THEN UNCHANGED <<sem, m_shmMutex>>
     ELSE sem' = (IF sem = p THEN Free ELSE sem) /\ m_shmMutex' = MutexFreed(p)
  /\ UNCHANGED <<shmKernVars, shmSemVars, unguarded, shmObjVars, pulled, orphaned,
                 trespassed, calls, faults>>

-----------------------------------------------------------------------------
(* create, attach, detach.                                                 *)

ShmOnly == UNCHANGED <<shmSemVars, sem, m_shmMutex, shmMode, want, unguarded,
                       trespassed, calls, faults>>

Exclusive == current = NoSeg

\* A size of 0 is EINVAL, a segment that is there EEXIST, and at the bound the
\* kernel has no more; m_createShm is set whatever shmget said.
CreateShm(p) ==
  /\ shmPc[p] = "create"
  /\ \/ /\ Exclusive /\ want[p] > 0 /\ segs < MaxSegs
        /\ segs' = segs + 1 /\ current' = segs + 1
        /\ segSize' = [segSize EXCEPT ![segs + 1] = want[p]]
        /\ m_size' = [m_size EXCEPT ![p] = want[p]] /\ ShmGo(p, "attach")
     \/ /\ current # NoSeg \/ want[p] = 0 \/ segs = MaxSegs
        /\ ShmGo(p, "unlock") /\ UNCHANGED <<current, segs, segSize, m_size>>
  /\ m_createShm' = [m_createShm EXCEPT ![p] = TRUE]
  /\ UNCHANGED <<attached, shmOp, m_memory, pulled, orphaned>> /\ ShmOnly

SizeOK(p) == segSize[current] = m_size[p]

\* On a size that differs attach calls detach, which locks again.  Attaching
\* twice leaves the first attachment for ever.
Attach(p) ==
  /\ shmPc[p] = "attach"
  /\ IF current = NoSeg
     THEN ShmGo(p, "unlock") /\ UNCHANGED <<attached, m_memory, orphaned, shmOp>>
     ELSE /\ attached' = [attached EXCEPT ![p][current] = @ + 1]
          /\ m_memory' = [m_memory EXCEPT ![p] = current]
          /\ orphaned' = (orphaned \/ m_memory[p] # NoSeg)
          /\ IF SizeOK(p) THEN ShmGo(p, "unlock") /\ UNCHANGED shmOp
             ELSE ShmGo(p, "relock") /\ shmOp' = [shmOp EXCEPT ![p] = "detach"]
  /\ UNCHANGED <<current, segs, segSize, m_size, m_createShm, pulled>> /\ ShmOnly

\* shmdt, m_memory = 0, m_size = 0.
Shmdt(p) ==
  /\ shmPc[p] = "detach"
  /\ attached' = [attached EXCEPT ![p][m_memory[p]] = @ - 1]
  /\ m_memory' = [m_memory EXCEPT ![p] = NoSeg]
  /\ m_size' = [m_size EXCEPT ![p] = 0]
  /\ ShmGo(p, "remove")
  /\ UNCHANGED <<current, segs, segSize, m_createShm, shmOp, pulled, orphaned>>
  /\ ShmOnly

Unused == ~Attached(current)

\* Mutant of MayPull: everybody who detaches removes the segment.
MayPull_anyone(p) == TRUE

MayPull(p) == m_createShm[p]

\* IPC_RMID when nobody is attached, and by every object that called create,
\* whoever is attached.  The id is looked up by key again.
RemoveShm(p) ==
  /\ shmPc[p] = "remove" /\ ShmGo(p, "unlock")
  /\ IF current # NoSeg /\ (Unused \/ MayPull(p))
     THEN /\ current' = NoSeg
          /\ pulled' = (pulled \/ (m_createShm[p] /\ Attached(current)))
          /\ m_createShm' = [m_createShm EXCEPT ![p] = FALSE]
     ELSE UNCHANGED <<current, pulled, m_createShm>>
  /\ UNCHANGED <<segs, segSize, attached, shmOp, m_memory, m_size, orphaned>>
  /\ ShmOnly

\* The kernel detaches everything and undoes the semaphore; key file and
\* semaphore stay as they are.
ShmDie(p) ==
  /\ shmPc[p] # "idle" \/ m_memory[p] # NoSeg \/ opened[p] # "none"
  /\ Fault
  /\ attached' = [attached EXCEPT ![p] = [s \in Segs |-> 0]]
  /\ sem' = IF sem = p THEN Free ELSE sem
  /\ m_shmMutex' = [m_shmMutex EXCEPT ![p] = FALSE] /\ Return(p)
  /\ opened' = [opened EXCEPT ![p] = "none"]
  /\ ownsSem' = [ownsSem EXCEPT ![p] = FALSE]
  /\ ownsFile' = [ownsFile EXCEPT ![p] = FALSE]
  /\ unguarded' = [unguarded EXCEPT ![p] = FALSE]
  /\ m_memory' = [m_memory EXCEPT ![p] = NoSeg]
  /\ m_size' = [m_size EXCEPT ![p] = 0]
  /\ m_createShm' = [m_createShm EXCEPT ![p] = FALSE]
  /\ orphaned' =
       (orphaned \/ (current # NoSeg
                      /\ \A q \in Users \ {p} : attached[q][current] = 0))
  /\ UNCHANGED <<current, segs, segSize, keyFile, semState, parted, pulled, trespassed, calls>>

ShmStep(p) ==
  \/ CleanSem(p) \/ FindKey(p) \/ GetSem(p) \/ SetSem(p) \/ Undo(p)
  \/ LockMutex(p) \/ LockSem(p) \/ RegainSem(p) \/ NoSemaphore(p) \/ Unlock(p)
  \/ CreateShm(p) \/ Attach(p) \/ Shmdt(p) \/ RemoveShm(p)

ShmFails(p) == KeyFails(p) \/ GetFails(p) \/ SemopFails(p)

ShmNext == ~parted /\ \E p \in Users :
          \/ \E size \in Sizes : CreateData(p, size) \/ ReadCreateData(p, size)
          \/ Detach(p) \/ DestructShm(p) \/ ShmDie(p) \/ ShmStep(p) \/ ShmFails(p)

\* Processes run, no call need fail, and the kernel serves the waiters of the
\* semaphore in turn.
ShmFairness ==
  \A p \in Users : WF_shmVars(ShmStep(p)) /\ SF_shmVars(LockSem(p))

ShmSpec == ShmInit /\ [][ShmNext]_shmVars /\ ShmFairness

-----------------------------------------------------------------------------
(* Properties.                                                             *)

ShmLocked == {"create", "attach", "relock", "detach", "remove", "unlock"}

\* Types; who is past lock() holds the mutex, and the semaphore as long as it
\* can be told by its users and nobody has failed to take it.
ShmTypeOK ==
  /\ current \in 0 .. segs /\ segs \in 0 .. MaxSegs
  /\ segSize \in [Segs -> Nat]
  /\ attached \in [Users -> [Segs -> Nat]]
  /\ keyFile \in BOOLEAN /\ semState \in {"none", "raw", "set"}
  /\ opened \in [Users -> {"none", "valid", "stale", "lost"}]
  /\ ownsSem \in [Users -> BOOLEAN] /\ ownsFile \in [Users -> BOOLEAN]
  /\ sem \in Users \cup {Free} /\ m_shmMutex \in [Users -> BOOLEAN]
  /\ shmPc \in [Users -> {"idle", "clean", "key", "get", "setval", "undo",
                          "lock", "sem"} \cup ShmLocked]
  /\ shmOp \in [Users -> {"none", "create", "read", "detach"}]
  /\ shmMode \in [Users -> {"Open", "Create", "Regain"}]
  /\ want \in [Users -> Sizes \cup {0}] /\ unguarded \in [Users -> BOOLEAN]
  /\ m_memory \in [Users -> 0 .. segs] /\ m_size \in [Users -> Sizes \cup {0}]
  /\ m_createShm \in [Users -> BOOLEAN]
  /\ pulled \in BOOLEAN /\ orphaned \in BOOLEAN /\ parted \in BOOLEAN
  /\ trespassed \in BOOLEAN /\ calls \in 0 .. MaxCalls
  /\ faults \in 0 .. MaxFaults
  /\ \A p \in Users : shmPc[p] \in ShmLocked =>
       m_shmMutex[p] /\ (~parted /\ ~trespassed => sem = p)

\* The last one to leave removes the segment, also when its creator died before:
\* between calls one that nobody has attached exists only when the last one
\* itself died or somebody attached twice.
LastOneRemoves ==
  sem = Free /\ current # NoSeg /\ ~orphaned => Attached(current)

\* Processes that share a key share memory, from the first that creates it to
\* the last that leaves: as long as no object that called create detached
\* before the others, everybody works in the one segment, and it is gone when
\* they are (types).  It takes a lock that excludes: nobody has removed or set
\* the semaphore while others worked with it, or gone in without.
OneSegment ==
  /\ ShmTypeOK
  /\ ~parted /\ ~trespassed =>
       /\ LastOneRemoves
       /\ ~pulled => \A p \in Users : m_memory[p] # NoSeg => m_memory[p] = current

\* A semaphore whose creator died between semget and SETVAL.
NeverSet == semState = "raw" /\ \A p \in Users : shmPc[p] # "setval"

\* A thread that waits for its own mutex: attach found another size.
SelfLocked(p) == shmPc[p] = "relock"

\* Every call returns, whatever fails, returns early or dies in another, unless
\* the semaphore was never set or has parted its users, or the caller's own
\* lock() has failed before, or attach finds another size than asked for: that
\* call never returns, and its semaphore stops those of all other processes.
CallsReturn ==
  \A p \in Users :
    shmPc[p] # "idle" ~>
      \/ shmPc[p] = "idle" \/ parted \/ NeverSet \/ unguarded[p]
      \/ \E q \in Users : SelfLocked(q) /\ (q = p \/ q = sem)

=============================================================================
