------------------------------- MODULE QtShm --------------------------------
(***************************************************************************)
(* ZQTShareMem and its typed layer QTShareDataT, ShareDataProcessT         *)
(* (prodata/zqtsharemem.{h,cpp}, qtsharemem.h, sharedateprocessT.h): the   *)
(* processes of one key create, open, use and leave a segment of           *)
(* QSharedMemory.  One object per process, used by one thread.             *)
(*                                                                         *)
(* QSharedMemory is external, modelled as Qt 5 does it on System V: a key  *)
(* file whose inode makes the key (ftok), a segment under that key, and a  *)
(* semaphore around create, attach and detach.  create sets the semaphore  *)
(* to 1 whoever holds it.  ZQTShareMem::destory works on the file and the  *)
(* segment by system calls of its own, without the semaphore.              *)
(*                                                                         *)
(* A segment is numbered as it is created; a key is the number of an       *)
(* inode, and a new file may get the inode of a file that was removed.     *)
(***************************************************************************)
EXTENDS Integers, FiniteSets

CONSTANTS
  Procs,
  Keys,       \* bound: inodes the key file can have
  Sizes,      \* sizes of a create
  OpenSizes,  \* sizes an open expects; 0 is readCreate, which takes any
  MaxSegs,    \* bound: segments the kernel has room for, in all
  MaxCalls    \* bound: calls and deaths

ASSUME QtShmAssumption ==
  /\ Keys \subseteq Nat \ {0} /\ Sizes \subseteq Nat \ {0} /\ OpenSizes \subseteq Nat
  /\ MaxSegs \in Nat /\ MaxCalls \in Nat /\ IsFiniteSet(Procs)

NoKey == 0
NoSeg == 0
Segs  == 1 .. MaxSegs

VARIABLES
  file,         \* the key of the key file, NoKey when there is none
  shm,          \* kernel: per key the segment it leads to
  segs,         \* kernel: number of segments created
  segSize,      \* kernel: size of each segment
  zeroId,       \* the segment that got the id 0, the first one after boot
  attached,     \* per process: the segment mapped
  semval,       \* value of the semaphore
  semadj,       \* kernel: per process, what its death adds to semval
  semOwner,     \* per process: its QSystemSemaphore will remove the semaphore
  pc, call,     \* per process: where it is, and in which call
  want,         \* per process: the size asked for
  second,       \* per process: create found a segment and is tried again
  key, id,      \* per process: what ftok and shmget returned
  m_createShm,  \* per process
  m_data,       \* per process: the segment the typed layer points to
  m_classSize,  \* per process: how much of it
  alone,        \* history, per process: nobody else did anything since its call,
                \* which found at most one segment without its file
  cut,          \* history: a call took the file or the segment from others
  forced,       \* history: the semaphore was set while somebody held it
  failed,       \* history, per process: a call failed on an object in use
  calls         \* bound

kernVars == <<file, shm, segs, segSize, zeroId, attached>>
semVars  == <<semval, semadj, semOwner, forced>>
pcVars   == <<pc, call, want, second, key, id>>
objVars  == <<m_createShm, m_data, m_classSize, failed>>
vars == <<kernVars, semVars, pcVars, objVars, alone, cut, calls>>

Init ==
  /\ file = NoKey /\ shm = [k \in Keys |-> NoSeg] /\ segs = 0
  /\ segSize = [s \in Segs |-> 0] /\ zeroId \in {NoSeg, 1}
  /\ attached = [p \in Procs |-> NoSeg]
  /\ semval = 1 /\ semadj = [p \in Procs |-> 0] /\ semOwner = [p \in Procs |-> FALSE]
  /\ pc = [p \in Procs |-> "idle"] /\ call = [p \in Procs |-> "none"]
  /\ want = [p \in Procs |-> 0] /\ second = [p \in Procs |-> FALSE]
  /\ key = [p \in Procs |-> NoKey] /\ id = [p \in Procs |-> NoSeg]
  /\ m_createShm = [p \in Procs |-> FALSE] /\ m_data = [p \in Procs |-> NoSeg]
  /\ m_classSize = [p \in Procs |-> 0] /\ failed = [p \in Procs |-> FALSE]
  /\ alone = [p \in Procs |-> FALSE] /\ cut = FALSE /\ forced = FALSE /\ calls = 0

Go(p, where) == pc' = [pc EXCEPT ![p] = where]
Users(s)     == {p \in Procs : attached[p] = s}
Current      == IF file = NoKey THEN NoSeg ELSE shm[file]

\* The id is good while its key leads to it or somebody has it mapped.
Alive(s) == s # NoSeg /\ ((\E k \in Keys : shm[k] = s) \/ Users(s) # {})
RMID(s)  == [k \in Keys |-> IF shm[k] = s THEN NoSeg ELSE shm[k]]

\* Others have it mapped, or are about to map what the file leads to.
InUse(p, s) ==
  \E q \in Procs \ {p} :
    (s # NoSeg /\ attached[q] = s) \/ pc[q] \in {"file key", "shmget excl", "create attach", "open attach"}

\* A segment without its file was left by a destory that found it in use; the
\* inode of the next file may lead to it.
OneStray ==
  \A k, l \in Keys \ {file} : shm[k] # NoSeg /\ shm[l] # NoSeg => k = l

Holding == {"file", "file key", "shmget excl", "create attach", "open key", "open attach",
            "shmdt", "detach stat", "detach rmid", "detach file", "typed set", "write"}
Holders == {p \in Procs : pc[p] \in Holding}

-----------------------------------------------------------------------------
(* The semaphore: acquire and release undo themselves at the end of the    *)
(* process; setting it forgets what there was to undo.                     *)

\* Mutant of Taken: a lock that cannot be had is not waited for.
Taken_anyway == semval' = IF semval > 0 THEN semval - 1 ELSE 0

Taken == semval > 0 /\ semval' = semval - 1

Acquire(p) ==
  /\ Taken
  /\ semadj' = [semadj EXCEPT ![p] = @ + 1]
  /\ UNCHANGED <<semOwner, forced>>

Release(p) ==
  /\ semval' = semval + 1 /\ semadj' = [semadj EXCEPT ![p] = @ - 1]
  /\ UNCHANGED <<semOwner, forced>>

\* create takes the semaphore over; an owner that sets its key anew or is
\* destroyed removes it, and the next one makes it again.
SetSem(p, owns) ==
  /\ semval' = 1 /\ semadj' = [q \in Procs |-> 0]
  /\ semOwner' = [semOwner EXCEPT ![p] = owns]
  /\ forced' = (forced \/ Holders # {})

-----------------------------------------------------------------------------
(* The calls.                                                              *)

Begin(p, c, where, size) ==
  /\ pc[p] = "idle" /\ calls < MaxCalls /\ calls' = calls + 1
  /\ call' = [call EXCEPT ![p] = c] /\ Go(p, where)
  /\ want' = [want EXCEPT ![p] = size]
  /\ alone' = [q \in Procs |-> q = p /\ c = "create" /\ OneStray /\
                 \A r \in Procs \ {p} : pc[r] = "idle" /\ attached[r] = NoSeg]
  /\ UNCHANGED <<kernVars, second, key, id, m_createShm, m_data, failed, cut>>

\* Mutant of DetachFirst: create makes the new segment beside the old one.
DetachFirst_not(p) == FALSE

DetachFirst(p) == attached[p] # NoSeg

\* createData(Create): what is attached is detached first.
CreateData(p, size) ==
  /\ Begin(p, "create", IF DetachFirst(p) THEN "detach lock" ELSE "ftok", size)
  /\ UNCHANGED <<semVars, m_classSize>>

\* readCreateData(size) and readCreate(), which takes any size; attach refuses
\* an object that is attached.
OpenData(p, size) ==
  /\ Begin(p, "open", IF attached[p] # NoSeg THEN "failed" ELSE "open lock", size)
  /\ IF attached[p] = NoSeg /\ semOwner[p] THEN SetSem(p, FALSE) ELSE UNCHANGED semVars
  /\ UNCHANGED m_classSize

\* set_data and its like: an index in range, then the lock.
AccessData(p) ==
  /\ m_classSize[p] > 0
  /\ Begin(p, "access", "write lock", 0)
  /\ UNCHANGED <<semVars, m_classSize>>

\* The destructor.
Destruct(p) ==
  /\ attached[p] # NoSeg \/ semOwner[p] \/ m_classSize[p] > 0
  /\ Begin(p, "leave", IF attached[p] # NoSeg THEN "detach lock" ELSE "gone", 0)
  /\ UNCHANGED <<semVars, m_classSize>>

Lock(p) ==
  /\ pc[p] \in {"create lock", "open lock", "detach lock", "typed lock", "write lock"}
  /\ Acquire(p)
  /\ Go(p, CASE pc[p] = "create lock" -> "file"
             [] pc[p] = "open lock"   -> "open key"
             [] pc[p] = "detach lock" -> "shmdt"
             [] pc[p] = "typed lock"  -> "typed set"
             [] pc[p] = "write lock"  -> "write")
  /\ UNCHANGED <<kernVars, call, want, second, key, id, objVars, alone, cut, calls>>

-----------------------------------------------------------------------------
(* destory(), without any lock; newcreateData calls it before create and   *)
(* again when create found a segment.                                      *)

\* What newcreateData does with its result: the first time nothing, the second
\* time FALSE, a removed file, is what it wants.
Destroyed(p, result) ==
  Go(p, IF second[p] /\ result THEN "failed" ELSE "create init")

Ftok(p) ==
  /\ pc[p] = "ftok" /\ key' = [key EXCEPT ![p] = file]
  /\ IF file = NoKey THEN Destroyed(p, TRUE) ELSE Go(p, "shmget")
  /\ UNCHANGED <<kernVars, semVars, call, want, second, id, objVars, alone, cut, calls>>

\* if(id > 0)
HasId(s) == s # NoSeg /\ s # zeroId

Shmget(p) ==
  /\ pc[p] = "shmget"
  /\ LET s == shm[key[p]]
     IN IF HasId(s) THEN Go(p, "stat") /\ id' = [id EXCEPT ![p] = s]
        ELSE Go(p, "remove file") /\ UNCHANGED id
  /\ UNCHANGED <<kernVars, semVars, call, want, second, key, objVars, alone, cut, calls>>

\* A stale id is EINVAL, or EIDRM once a later segment has its place.
StaleId(p, einval) == Destroyed(p, einval) /\ (einval \/ segs > id[p])

\* Mutant of Unused: what nobody has is left where it is.
Unused_never(s) == FALSE

Unused(s) == Users(s) = {}

ShmStat(p) ==
  /\ pc[p] = "stat"
  /\ IF ~Alive(id[p]) THEN \E einval \in BOOLEAN : StaleId(p, einval)
     ELSE Go(p, IF Unused(id[p]) THEN "rmid"
                ELSE IF m_createShm[p] THEN "rmid own" ELSE "remove file")
  /\ UNCHANGED <<kernVars, semVars, call, want, second, key, id, objVars, alone, cut, calls>>

\* The segment nobody had, and the one this object created whoever has it.
ShmRemove(p) ==
  /\ pc[p] \in {"rmid", "rmid own"}
  /\ IF ~Alive(id[p])
     THEN /\ \E einval \in BOOLEAN :
               /\ StaleId(p, einval)
               /\ m_createShm' = [m_createShm EXCEPT ![p] =
                                    @ /\ ~(einval /\ pc[p] = "rmid")]
          /\ UNCHANGED <<shm, cut>>
     ELSE /\ shm' = RMID(id[p]) /\ Go(p, "remove file")
          /\ m_createShm' = [m_createShm EXCEPT ![p] = FALSE]
          /\ cut' = (cut \/ InUse(p, id[p]))
  /\ UNCHANGED <<file, segs, segSize, zeroId, attached, semVars, call, want, second, key, id,
                 m_data, m_classSize, failed, alone, calls>>

RemoveFile(p) ==
  /\ pc[p] = "remove file" /\ file' = NoKey
  /\ cut' = (cut \/ InUse(p, Current))
  /\ Destroyed(p, file = NoKey)
  /\ UNCHANGED <<shm, segs, segSize, zeroId, attached, semVars, call, want, second, key, id,
                 objVars, alone, calls>>

-----------------------------------------------------------------------------
(* QSharedMemory::create and attach, and the typed layer behind them.      *)

\* Forgets the cached key and makes the semaphore its own, with value 1.
CreateInit(p) ==
  /\ pc[p] = "create init" /\ SetSem(p, TRUE) /\ Go(p, "create lock")
  /\ UNCHANGED <<kernVars, call, want, second, key, id, objVars, alone, cut, calls>>

\* A key file that is there is taken as it is.
MakeFile(p) ==
  /\ pc[p] = "file" /\ Go(p, "file key")
  /\ IF file # NoKey THEN UNCHANGED file ELSE file' \in Keys
  /\ UNCHANGED <<shm, segs, segSize, zeroId, attached, semVars, call, want, second, key, id,
                 objVars, alone, cut, calls>>

FileKey(p) ==
  /\ pc[p] \in {"file key", "open key"}
  /\ key' = [key EXCEPT ![p] = file]
  /\ IF file = NoKey THEN Release(p) /\ Go(p, "failed")
     ELSE /\ Go(p, IF pc[p] = "file key" THEN "shmget excl" ELSE "open attach")
          /\ UNCHANGED semVars
  /\ UNCHANGED <<kernVars, call, want, second, id, objVars, alone, cut, calls>>

\* AlreadyExists, the first time.
Retry(p) == ~second[p]

ShmgetExcl(p) ==
  /\ pc[p] = "shmget excl"
  /\ IF shm[key[p]] # NoSeg
     THEN /\ Release(p)
          /\ IF Retry(p) THEN Go(p, "ftok") /\ second' = [second EXCEPT ![p] = TRUE]
             ELSE Go(p, "failed") /\ UNCHANGED second
          /\ UNCHANGED <<shm, segs, segSize, file, cut>>
     ELSE IF segs = MaxSegs
     THEN /\ Release(p) /\ Go(p, "failed")
          /\ file' \in {file, NoKey}
          /\ cut' = (cut \/ (file' # file /\ InUse(p, Current)))
          /\ UNCHANGED <<shm, segs, segSize, second>>
     ELSE /\ segs' = segs + 1 /\ shm' = [shm EXCEPT ![key[p]] = segs + 1]
          /\ segSize' = [segSize EXCEPT ![segs + 1] = want[p]]
          /\ Go(p, "create attach")
          /\ UNCHANGED <<semVars, second, file, cut>>
  /\ UNCHANGED <<zeroId, attached, call, want, key, id, objVars, alone, calls>>

Fits(p, s) == want[p] \in {0, segSize[s]}

\* shmget by the cached key and shmat.  readCreateData leaves a segment of
\* another size attached.
ShmAttach(p) ==
  /\ pc[p] \in {"create attach", "open attach"}
  /\ LET s == shm[key[p]]
     IN IF s = NoSeg THEN Go(p, "failed") /\ UNCHANGED <<attached, m_createShm>>
        ELSE /\ attached' = [attached EXCEPT ![p] = s]
             /\ m_createShm' = [m_createShm EXCEPT ![p] = @ \/ call[p] = "create"]
             /\ Go(p, IF call[p] = "create" \/ Fits(p, s) THEN "typed lock" ELSE "failed")
  /\ Release(p)
  /\ UNCHANGED <<file, shm, segs, segSize, zeroId, call, want, second, key, id, m_data,
                 m_classSize, failed, alone, cut, calls>>

\* The end of a call: the cached key is worth keeping while attached.
Idle(p, gone) ==
  /\ Go(p, "idle") /\ call' = [call EXCEPT ![p] = "none"]
  /\ want' = [want EXCEPT ![p] = 0] /\ second' = [second EXCEPT ![p] = FALSE]
  /\ id' = [id EXCEPT ![p] = NoSeg]
  /\ key' = [key EXCEPT ![p] = IF gone \/ attached[p] = NoSeg THEN NoKey ELSE @]
  /\ alone' = [alone EXCEPT ![p] = FALSE]

\* Mutant of NewData: the pointer is set the first time only.
NewData_once(p) == IF m_data[p] # NoSeg THEN m_data[p] ELSE attached[p]

NewData(p) == attached[p]

TypedSet(p) ==
  /\ pc[p] = "typed set" /\ Release(p) /\ Idle(p, FALSE)
  /\ m_data' = [m_data EXCEPT ![p] = NewData(p)]
  /\ m_classSize' = [m_classSize EXCEPT ![p] =
                       IF Fits(p, attached[p]) THEN segSize[attached[p]] ELSE @]
  /\ failed' = [failed EXCEPT ![p] = @ \/ ~Fits(p, attached[p])]
  /\ UNCHANGED <<kernVars, m_createShm, cut, calls>>

\* A call that failed: create_data and creat_data clear m_data, the readers
\* leave it; m_classSize stays.
Failed(p) ==
  /\ pc[p] = "failed" /\ Idle(p, FALSE)
  /\ m_data' \in {[m_data EXCEPT ![p] = NoSeg]}
                   \cup (IF call[p] = "open" THEN {m_data} ELSE {})
  /\ failed' = [failed EXCEPT ![p] = @ \/ m_classSize[p] > 0]
  /\ UNCHANGED <<kernVars, semVars, m_createShm, m_classSize, cut, calls>>

Write(p) ==
  /\ pc[p] = "write" /\ Release(p) /\ Idle(p, FALSE)
  /\ UNCHANGED <<kernVars, objVars, cut, calls>>

-----------------------------------------------------------------------------
(* QSharedMemory::detach, the end of an object and of a process.           *)

Shmdt(p) ==
  /\ pc[p] = "shmdt" /\ attached' = [attached EXCEPT ![p] = NoSeg]
  /\ Go(p, "detach stat")
  /\ UNCHANGED <<file, shm, segs, segSize, zeroId, semVars, call, want, second, key, id,
                 objVars, alone, cut, calls>>

Detached(p) == Release(p) /\ Go(p, IF call[p] = "create" THEN "ftok" ELSE "gone")

\* The id is looked up again by the key of the time of attach.
DetachStat(p) ==
  /\ pc[p] = "detach stat" /\ id' = [id EXCEPT ![p] = shm[key[p]]]
  /\ IF shm[key[p]] = NoSeg \/ Users(shm[key[p]]) # {} THEN Detached(p)
     ELSE Go(p, "detach rmid") /\ UNCHANGED semVars
  /\ UNCHANGED <<kernVars, call, want, second, key, objVars, alone, cut, calls>>

DetachRmid(p) ==
  /\ pc[p] = "detach rmid"
  /\ IF Alive(id[p])
     THEN /\ shm' = RMID(id[p]) /\ Go(p, "detach file")
          /\ cut' = (cut \/ InUse(p, id[p])) /\ UNCHANGED semVars
     ELSE Detached(p) /\ UNCHANGED <<shm, cut>>
  /\ UNCHANGED <<file, segs, segSize, zeroId, attached, call, want, second, key, id, objVars,
                 alone, calls>>

\* By its name.
DetachFile(p) ==
  /\ pc[p] = "detach file" /\ Detached(p) /\ file' = NoKey
  /\ cut' = (cut \/ InUse(p, Current))
  /\ UNCHANGED <<shm, segs, segSize, zeroId, attached, call, want, second, key, id, objVars,
                 alone, calls>>

\* ~QSystemSemaphore, and the object is no more.
Gone(p) ==
  /\ pc[p] = "gone" /\ Idle(p, FALSE)
  /\ IF semOwner[p] THEN SetSem(p, FALSE) ELSE UNCHANGED semVars
  /\ m_createShm' = [m_createShm EXCEPT ![p] = FALSE]
  /\ m_data' = [m_data EXCEPT ![p] = NoSeg] /\ m_classSize' = [m_classSize EXCEPT ![p] = 0]
  /\ failed' = [failed EXCEPT ![p] = FALSE]
  /\ UNCHANGED <<kernVars, cut, calls>>

\* The kernel unmaps, and undoes the semaphore as far as 0.
Die(p) ==
  /\ pc[p] # "idle" \/ attached[p] # NoSeg
  /\ calls < MaxCalls /\ calls' = calls + 1
  /\ attached' = [attached EXCEPT ![p] = NoSeg] /\ Idle(p, TRUE)
  /\ semval' = IF semval + semadj[p] < 0 THEN 0 ELSE semval + semadj[p]
  /\ semadj' = [semadj EXCEPT ![p] = 0] /\ semOwner' = [semOwner EXCEPT ![p] = FALSE]
  /\ m_createShm' = [m_createShm EXCEPT ![p] = FALSE]
  /\ m_data' = [m_data EXCEPT ![p] = NoSeg] /\ m_classSize' = [m_classSize EXCEPT ![p] = 0]
  /\ failed' = [failed EXCEPT ![p] = FALSE]
  /\ UNCHANGED <<file, shm, segs, segSize, zeroId, forced, cut>>

Step(p) ==
  \/ Lock(p)
  \/ Ftok(p) \/ Shmget(p) \/ ShmStat(p) \/ ShmRemove(p) \/ RemoveFile(p)
  \/ CreateInit(p) \/ MakeFile(p) \/ FileKey(p) \/ ShmgetExcl(p) \/ ShmAttach(p)
  \/ TypedSet(p) \/ Failed(p) \/ Write(p)
  \/ Shmdt(p) \/ DetachStat(p) \/ DetachRmid(p) \/ DetachFile(p) \/ Gone(p)

Next ==
  \E p \in Procs :
    \/ \E size \in Sizes : CreateData(p, size)
    \/ \E size \in OpenSizes : OpenData(p, size)
    \/ AccessData(p) \/ Destruct(p) \/ Die(p) \/ Step(p)

Spec == Init /\ [][Next]_vars

-----------------------------------------------------------------------------
(* Properties.                                                             *)

Places == Holding \cup {"idle", "failed", "gone", "ftok", "shmget", "stat", "rmid", "rmid own",
                        "remove file", "create init", "create lock", "open lock",
                        "detach lock", "typed lock", "write lock"}

TypeOK ==
  /\ file \in Keys \cup {NoKey} /\ shm \in [Keys -> 0 .. segs] /\ segs \in 0 .. MaxSegs
  /\ segSize \in [Segs -> Sizes \cup {0}] /\ zeroId \in {NoSeg, 1}
  /\ attached \in [Procs -> 0 .. segs] /\ semval \in Nat /\ semadj \in [Procs -> Int]
  /\ semOwner \in [Procs -> BOOLEAN] /\ pc \in [Procs -> Places]
  /\ call \in [Procs -> {"none", "create", "open", "access", "leave"}]
  /\ want \in [Procs -> Sizes \cup OpenSizes \cup {0}] /\ second \in [Procs -> BOOLEAN]
  /\ key \in [Procs -> Keys \cup {NoKey}] /\ id \in [Procs -> 0 .. segs]
  /\ m_createShm \in [Procs -> BOOLEAN] /\ m_data \in [Procs -> 0 .. segs]
  /\ m_classSize \in [Procs -> Sizes \cup {0}] /\ alone \in [Procs -> BOOLEAN]
  /\ cut \in BOOLEAN /\ failed \in [Procs -> BOOLEAN] /\ forced \in BOOLEAN
  /\ calls \in 0 .. MaxCalls

\* Processes that share a key share memory: everybody who is attached has the
\* segment the key file leads to, so that the next one to open joins them,
\* unless a create or a detach that ran into another's lock removed the file or
\* the segment while others had it or were about to map it (types).
OneSegment ==
  TypeOK /\ (~cut => \A p \in Procs : attached[p] \in {NoSeg, Current})

\* Recovery after a crash: whatever dead processes left behind, a file, a
\* segment, one without the other, a create that runs alone succeeds, as long as
\* the kernel has room, the segment left behind has not the id 0, which destory
\* takes for none, and no more than one has lost its file: create tries twice,
\* and each new file may lead to another of them.
CreatorRecovers ==
  \A p \in Procs :
    call[p] = "create" /\ alone[p] /\ pc[p] = "failed" => segs = MaxSegs \/ Alive(zeroId)

\* lock() excludes as long as no create set the semaphore under a holder, and
\* whatever is set, undone by a death or removed by its owner, the semaphore
\* never ends up taken by nobody, where every process would wait for ever.
WritersExclude ==
  /\ semval + Cardinality(Holders) >= 1
  /\ ~forced => semval + Cardinality(Holders) = 1

\* The typed layer reads and writes inside the segment this process has mapped,
\* whatever the others create and remove and however often it creates anew;
\* only a call that failed on an object in use leaves a pointer or a size of
\* the segment before.
AccessMapped ==
  \A p \in Procs : pc[p] = "write" /\ ~failed[p] =>
    m_data[p] # NoSeg /\ m_data[p] = attached[p] /\ m_classSize[p] <= segSize[m_data[p]]

=============================================================================
