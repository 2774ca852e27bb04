---------------------------- MODULE QtShmProofs -----------------------------
(***************************************************************************)
(* Proofs about QtShm for every finite set of processes, every set of      *)
(* inodes and sizes, and every number of segments, calls and deaths: the   *)
(* inductive invariant IInv and the four properties of the module.         *)
(*                                                                         *)
(* The parts of IInv: the semaphore and who owes it (SemInv), whose        *)
(* segment the key file leads to (FileInv), and for each process what it   *)
(* knows where it stands in a call (PlaceInv), what its object points to   *)
(* (UseInv) and how far a create has come that runs alone (AloneInv).      *)
(***************************************************************************)
EXTENDS QtShm, FiniteSetTheorems, TLAPS

Creating == {"ftok", "shmget", "stat", "rmid", "rmid own", "remove file", "create init",
             "create lock", "file", "file key", "shmget excl", "create attach"}
Opening  == {"open lock", "open key", "open attach"}
Leaving  == {"detach stat", "detach rmid", "detach file"}
Mapping  == {"shmget excl", "create attach", "open attach"}

\* What an object knows in each place of its calls: a call that makes or opens
\* a segment has none mapped, one that detaches or fills in the typed layer has;
\* whoever needs the cached key has one.
PlaceInv(p) ==
  /\ pc[p] \in Creating => call[p] = "create"
  /\ call[p] = "create" =>
       /\ want[p] \in Sizes
       /\ pc[p] \in Creating \cup Leaving
                     \cup {"detach lock", "shmdt", "typed lock", "typed set", "failed"}
  /\ pc[p] \in {"idle", "detach lock", "shmdt"} \cup Leaving => ~second[p]
  /\ pc[p] \in Creating \cup Opening \cup Leaving => attached[p] = NoSeg
  /\ pc[p] \in {"detach lock", "shmdt", "typed lock", "typed set"} => attached[p] # NoSeg
  /\ attached[p] # NoSeg \/ pc[p] \in Mapping \cup {"shmget", "detach stat"}
       => key[p] # NoKey
  /\ pc[p] \in {"stat", "rmid", "rmid own"} => id[p] \notin {NoSeg, zeroId}

\* An object that may be accessed has mapped what it points to.
UseInv(p) ==
  /\ pc[p] \in {"write lock", "write"} => m_classSize[p] > 0
  /\ pc[p] \in {"idle", "write lock", "write"} /\ ~failed[p] /\ m_classSize[p] > 0 =>
       attached[p] # NoSeg /\ m_data[p] = attached[p] /\ m_classSize[p] <= segSize[m_data[p]]

\* A process that owes the semaphore a unit: it was inside, or had come out
\* without having gone in, when the semaphore was set.
Debtors == {p \in Procs : semadj[p] = IF p \in Holders THEN 0 ELSE -1}

SemInv ==
  /\ \A p \in Procs : semadj[p] \in IF p \in Holders THEN {0, 1} ELSE {-1, 0}
  /\ semval + Cardinality(Holders) >= 1 + Cardinality(Debtors)
  /\ ~forced => Debtors = {} /\ semval + Cardinality(Holders) = 1

\* As long as nobody's file or segment was removed, who is about to map one by
\* its key has the key of the file, and who has one has that of the file.
FileInv ==
  ~cut => \A p \in Procs :
    /\ pc[p] \in Mapping => key[p] = file
    /\ attached[p] \in {NoSeg, Current}

\* A create that runs alone.
AtMostOne == \A k, l \in Keys : shm[k] # NoSeg /\ shm[l] # NoSeg => k = l
Empty     == \A k \in Keys : shm[k] = NoSeg
Cleared(p) == AtMostOne /\ (second[p] => Empty)

Solitary(p) == \A q \in Procs \ {p} : pc[q] = "idle" /\ attached[q] = NoSeg

\* What it has is detached; if it was the last, the segment goes with the file,
\* and one at most is left over.
Detaching(p) ==
  /\ pc[p] \in {"detach lock", "shmdt", "detach stat"} => OneStray
  /\ pc[p] = "detach rmid" =>
       OneStray /\ key[p] # NoKey /\ id[p] # NoSeg /\ shm[key[p]] = id[p]
  /\ pc[p] = "detach file" => AtMostOne

\* Then destory takes the file and its segment away, and QSharedMemory::create
\* makes a new file; when that leads to the one left over, the second destory
\* takes it, and after that there is none.
Trying(p) ==
  /\ pc[p] \in {"ftok", "shmget", "stat", "rmid"} =>
       OneStray /\ (second[p] => AtMostOne /\ file # NoKey /\ shm[file] # NoSeg)
  /\ pc[p] \in {"shmget", "stat", "rmid"} => key[p] = file /\ file # NoKey
  /\ pc[p] \in {"stat", "rmid"} => id[p] = shm[file]
  /\ pc[p] # "rmid own"
  /\ pc[p] \in {"remove file", "create init", "create lock", "file", "file key", "shmget excl"}
       => Cleared(p)
  /\ pc[p] \in {"remove file", "file key"} => file # NoKey
  /\ pc[p] = "shmget excl" => key[p] = file
  /\ pc[p] = "create attach" => shm[key[p]] # NoSeg
  /\ pc[p] = "failed" => segs = MaxSegs

AloneInv(p) ==
  alone[p] =>
    /\ Solitary(p) /\ call[p] = "create" /\ Detaching(p)
    /\ \/ pc[p] \in {"detach lock", "shmdt", "typed lock", "typed set"} \cup Leaving
       \/ Alive(zeroId)
       \/ Trying(p)

IInv == /\ TypeOK /\ SemInv /\ FileInv
        /\ \A p \in Procs : PlaceInv(p) /\ UseInv(p) /\ AloneInv(p)

Act(p) ==
  \/ \E size \in Sizes : CreateData(p, size)
  \/ \E size \in OpenSizes : OpenData(p, size)
  \/ AccessData(p) \/ Destruct(p) \/ Die(p) \/ Step(p)

-----------------------------------------------------------------------------
(* What a step of one process leaves alone.                                *)

\* Where the others are in their calls, and what they know.
LEMMA OthersStay ==
  ASSUME TypeOK, NEW p \in Procs, Act(p), NEW q \in Procs, q # p
  PROVE  /\ pc'[q] = pc[q] /\ call'[q] = call[q] /\ want'[q] = want[q]
         /\ second'[q] = second[q] /\ key'[q] = key[q] /\ id'[q] = id[q]
         /\ attached'[q] = attached[q] /\ m_data'[q] = m_data[q]
         /\ m_classSize'[q] = m_classSize[q] /\ failed'[q] = failed[q]
<1> USE DEF TypeOK, Go
<1>1. CASE \/ \E size \in Sizes : CreateData(p, size)
           \/ \E size \in OpenSizes : OpenData(p, size)
           \/ AccessData(p) \/ Destruct(p)
  BY <1>1 DEF CreateData, OpenData, AccessData, Destruct, Begin, kernVars
<1>2. CASE Die(p) \/ Gone(p) \/ TypedSet(p) \/ Failed(p) \/ Write(p)
  BY <1>2 DEF Die, Gone, TypedSet, Failed, Write, Idle, kernVars, objVars
<1>3. CASE Lock(p) \/ Ftok(p) \/ Shmget(p) \/ ShmStat(p) \/ ShmRemove(p) \/ RemoveFile(p)
  BY <1>3 DEF Lock, Ftok, Shmget, ShmStat, ShmRemove, RemoveFile, Destroyed, StaleId,
              kernVars, objVars
<1>4. CASE CreateInit(p) \/ MakeFile(p) \/ FileKey(p) \/ ShmgetExcl(p) \/ ShmAttach(p)
  BY <1>4 DEF CreateInit, MakeFile, FileKey, ShmgetExcl, ShmAttach, kernVars, objVars
<1>5. CASE Shmdt(p) \/ DetachStat(p) \/ DetachRmid(p) \/ DetachFile(p)
  BY <1>5 DEF Shmdt, DetachStat, DetachRmid, DetachFile, Detached, kernVars, objVars
<1>6. QED
  BY <1>1, <1>2, <1>3, <1>4, <1>5 DEF Act, Step

-----------------------------------------------------------------------------
(* Types, part by part.                                                    *)

KernTypes ==
  /\ file \in Keys \cup {NoKey} /\ shm \in [Keys -> 0 .. segs] /\ segs \in 0 .. MaxSegs
  /\ segSize \in [Segs -> Sizes \cup {0}] /\ zeroId \in {NoSeg, 1}
  /\ attached \in [Procs -> 0 .. segs]

SemTypes ==
  /\ semval \in Nat /\ semadj \in [Procs -> Int]
  /\ semOwner \in [Procs -> BOOLEAN] /\ forced \in BOOLEAN

PlaceTypes ==
  /\ pc \in [Procs -> Places]
  /\ call \in [Procs -> {"none", "create", "open", "access", "leave"}]
  /\ want \in [Procs -> Sizes \cup OpenSizes \cup {0}] /\ second \in [Procs -> BOOLEAN]
  /\ key \in [Procs -> Keys \cup {NoKey}] /\ id \in [Procs -> 0 .. segs]
  /\ alone \in [Procs -> BOOLEAN] /\ cut \in BOOLEAN /\ calls \in 0 .. MaxCalls

ObjTypes ==
  /\ m_createShm \in [Procs -> BOOLEAN] /\ m_data \in [Procs -> 0 .. segs]
  /\ m_classSize \in [Procs -> Sizes \cup {0}] /\ failed \in [Procs -> BOOLEAN]

LEMMA Parts == TypeOK <=> KernTypes /\ SemTypes /\ PlaceTypes /\ ObjTypes
BY DEF TypeOK, KernTypes, SemTypes, PlaceTypes, ObjTypes

LEMMA SemTypesNext ==
  ASSUME SemTypes, NEW p \in Procs, Act(p)
  PROVE  SemTypes'
<1> USE DEF SemTypes
<1>1. CASE Acquire(p) \/ Release(p) \/ UNCHANGED semVars
  BY <1>1 DEF Acquire, Release, Taken, semVars
<1>2. ASSUME NEW b \in BOOLEAN, SetSem(p, b) PROVE SemTypes'
  <2>1. forced' \in BOOLEAN /\ semOwner' \in [Procs -> BOOLEAN]
    BY <1>2 DEF SetSem
  <2>2. QED
    BY <1>2, <2>1 DEF SetSem
<1>3. CASE Die(p)
  <2>1. semOwner' \in [Procs -> BOOLEAN] /\ forced' \in BOOLEAN
    BY <1>3 DEF Die
  <2>2. QED
    BY <1>3, <2>1 DEF Die
<1>4. QED
  <2>1. Act(p) => Acquire(p) \/ Release(p) \/ UNCHANGED semVars
                    \/ SetSem(p, TRUE) \/ SetSem(p, FALSE) \/ Die(p)
    BY DEF Act, Step, CreateData, OpenData, AccessData, Destruct, Lock, Ftok, Shmget,
           ShmStat, ShmRemove, RemoveFile, CreateInit, MakeFile, FileKey, ShmgetExcl,
           ShmAttach, TypedSet, Failed, Write, Shmdt, DetachStat, DetachRmid,
           DetachFile, Detached, Gone
  <2>2. QED
    BY <1>1, <1>2, <1>3, <2>1

LEMMA KernTypesNext ==
  ASSUME TypeOK, NEW p \in Procs, PlaceInv(p), Act(p)
  PROVE  KernTypes'
<1> USE QtShmAssumption DEF KernTypes, TypeOK, kernVars
<1>1. CASE UNCHANGED kernVars
  BY <1>1
<1>2. CASE ShmRemove(p) \/ DetachRmid(p)
  <2>1. RMID(id[p]) \in [Keys -> 0 .. segs]
    BY DEF RMID, NoSeg
  <2>2. shm' = shm \/ shm' = RMID(id[p])
    BY <1>2 DEF ShmRemove, DetachRmid
  <2>3. QED
    BY <1>2, <2>1, <2>2 DEF ShmRemove, DetachRmid
<1>3. CASE RemoveFile(p) \/ DetachFile(p) \/ MakeFile(p)
  BY <1>3 DEF RemoveFile, DetachFile, MakeFile
<1>4. CASE ShmgetExcl(p)
  <2>1. CASE UNCHANGED <<shm, segs, segSize>> /\ file' \in {file, NoKey}
    BY <1>4, <2>1 DEF ShmgetExcl
  <2>2. CASE /\ segs # MaxSegs /\ segs' = segs + 1 /\ shm' = [shm EXCEPT ![key[p]] = segs + 1]
             /\ segSize' = [segSize EXCEPT ![segs + 1] = want[p]] /\ file' = file
    <3>1. want[p] \in Sizes
      BY <1>4 DEF ShmgetExcl, PlaceInv, Creating
    <3>2. segs' \in 0 .. MaxSegs /\ 0 .. segs \subseteq 0 .. segs' /\ segs + 1 \in 0 .. segs'
      BY <2>2
    <3>3. shm' \in [Keys -> 0 .. segs'] /\ attached \in [Procs -> 0 .. segs']
      BY <2>2, <3>2
    <3>4. segSize' \in [Segs -> Sizes \cup {0}]
      BY <2>2, <3>1
    <3>5. QED
      BY <1>4, <2>2, <3>2, <3>3, <3>4 DEF ShmgetExcl
  <2>3. QED
    BY <1>4, <2>1, <2>2 DEF ShmgetExcl
<1>5. CASE ShmAttach(p)
  <2>1. key[p] \in Keys
    BY <1>5 DEF ShmAttach, PlaceInv, Mapping, NoKey
  <2>2. /\ attached' = attached \/ attached' = [attached EXCEPT ![p] = shm[key[p]]]
        /\ UNCHANGED <<file, shm, segs, segSize, zeroId>>
    BY <1>5 DEF ShmAttach
  <2>3. shm[key[p]] \in 0 .. segs
    BY <2>1
  <2>4. attached' \in [Procs -> 0 .. segs]
    BY <2>2, <2>3
  <2>5. QED
    BY <2>2, <2>4
<1>6. CASE Shmdt(p) \/ Die(p)
  <2>1. /\ attached' = [attached EXCEPT ![p] = NoSeg]
        /\ UNCHANGED <<file, shm, segs, segSize, zeroId>>
    BY <1>6 DEF Shmdt, Die
  <2>2. NoSeg \in 0 .. segs
    BY DEF NoSeg
  <2>3. QED
    BY <2>1, <2>2
<1>7. QED
  BY <1>1, <1>2, <1>3, <1>4, <1>5, <1>6
     DEF Act, Step, CreateData, OpenData, AccessData, Destruct, Begin, Lock, Ftok, Shmget,
         ShmStat, CreateInit, FileKey, TypedSet, Failed, Write, DetachStat, Gone

\* The kernel never gives a number twice.
LEMMA SegsGrow ==
  ASSUME TypeOK, NEW p \in Procs, Act(p)
  PROVE  0 .. segs \subseteq 0 .. segs'
<1>1. segs' = segs \/ segs' = segs + 1
  BY DEF Act, Step, CreateData, OpenData, AccessData, Destruct, Begin, Die, Lock, Ftok,
         Shmget, ShmStat, ShmRemove, RemoveFile, CreateInit, MakeFile, FileKey, ShmgetExcl,
         ShmAttach, TypedSet, Failed, Write, Shmdt, DetachStat, DetachRmid, DetachFile,
         Gone, kernVars
<1>2. QED
  BY <1>1 DEF TypeOK

LEMMA CallsBound == \A k \in 0 .. MaxCalls : k < MaxCalls => k + 1 \in 0 .. MaxCalls
BY QtShmAssumption

LEMMA NextSeg == \A n \in 0 .. MaxSegs : n + 1 # NoSeg
BY QtShmAssumption DEF NoSeg

LEMMA ZeroSeg == ASSUME TypeOK PROVE NoSeg \in 0 .. segs
BY QtShmAssumption DEF TypeOK, NoSeg

LEMMA PcTypes ==
  ASSUME pc \in [Procs -> Places], NEW p \in Procs, Act(p)
  PROVE  pc' \in [Procs -> Places]
<1>0. \A where \in Places : Go(p, where) => pc' \in [Procs -> Places]
  BY DEF Go
<1> USE DEF Places, Holding
<1>1. CASE \/ \E size \in Sizes : CreateData(p, size)
           \/ \E size \in OpenSizes : OpenData(p, size)
           \/ AccessData(p) \/ Destruct(p)
  BY <1>0, <1>1 DEF CreateData, OpenData, AccessData, Destruct, Begin
<1>2. CASE Die(p) \/ Gone(p) \/ TypedSet(p) \/ Failed(p) \/ Write(p)
  BY <1>0, <1>2 DEF Die, Gone, TypedSet, Failed, Write, Idle
<1>3. CASE Lock(p)
  BY <1>0, <1>3 DEF Lock
<1>4. CASE CreateInit(p) \/ MakeFile(p) \/ Shmdt(p) \/ FileKey(p)
  BY <1>0, <1>4 DEF CreateInit, MakeFile, Shmdt, FileKey
<1>5. CASE ShmAttach(p)
  BY <1>0, <1>5 DEF ShmAttach
<1>6. CASE ShmgetExcl(p)
  BY <1>0, <1>6 DEF ShmgetExcl
<1>7. CASE Ftok(p) \/ Shmget(p) \/ ShmStat(p) \/ ShmRemove(p) \/ RemoveFile(p)
  BY <1>0, <1>7 DEF Ftok, Shmget, ShmStat, ShmRemove, RemoveFile, Destroyed, StaleId
<1>8. CASE DetachStat(p) \/ DetachRmid(p) \/ DetachFile(p)
  BY <1>0, <1>8 DEF DetachStat, DetachRmid, DetachFile, Detached
<1>9. QED
  BY <1>1, <1>2, <1>3, <1>4, <1>5, <1>6, <1>7, <1>8 DEF Act, Step

LEMMA PlaceTypesNext ==
  ASSUME TypeOK, NEW p \in Procs, PlaceInv(p), Act(p)
  PROVE  PlaceTypes'
<1>0. 0 .. segs \subseteq 0 .. segs' /\ PlaceTypes /\ shm \in [Keys -> 0 .. segs]
      /\ attached \in [Procs -> 0 .. segs] /\ file \in Keys \cup {NoKey}
      /\ pc' \in [Procs -> Places] /\ NoSeg \in 0 .. segs
  BY SegsGrow, PcTypes, ZeroSeg, Parts DEF TypeOK
<1> USE <1>0 DEF PlaceTypes
<1>1. ASSUME NEW c \in {"create", "open", "access", "leave"}, NEW where \in Places,
             NEW size \in Sizes \cup OpenSizes \cup {0}, Begin(p, c, where, size)
      PROVE  PlaceTypes'
  <2>1. alone' \in [Procs -> BOOLEAN]
    BY <1>1 DEF Begin
  <2>2. UNCHANGED <<second, cut, key, id, segs>>
    BY <1>1 DEF Begin, kernVars
  <2>3. calls' \in 0 .. MaxCalls
    BY <1>1, CallsBound DEF Begin
  <2>4. second' \in [Procs -> BOOLEAN] /\ cut' \in BOOLEAN
    BY <2>2
  <2>5. QED
    BY <1>0, <1>1, <2>1, <2>2, <2>3, <2>4 DEF Begin
<1>2. ASSUME NEW gone \in BOOLEAN, Idle(p, gone), UNCHANGED <<segs, cut>>,
             calls' = calls \/ Die(p)
      PROVE  PlaceTypes'
  <2>1. alone' \in [Procs -> BOOLEAN] /\ second' \in [Procs -> BOOLEAN] /\ cut' \in BOOLEAN
    BY <1>2 DEF Idle
  <2>2. calls' \in 0 .. MaxCalls
    <3>1. calls' = calls \/ (calls < MaxCalls /\ calls' = calls + 1)
      BY <1>2 DEF Die
    <3>2. QED
      BY <3>1, CallsBound
  <2>3. QED
    BY <1>0, <1>2, <2>1, <2>2 DEF Idle
<1>3. CASE Lock(p) \/ CreateInit(p) \/ MakeFile(p) \/ Shmdt(p) \/ ShmAttach(p)
  <2>1. UNCHANGED <<call, want, second, key, id, alone, cut, calls>>
    BY <1>3 DEF Lock, CreateInit, MakeFile, Shmdt, ShmAttach
  <2>2. QED
    BY <1>0, <2>1
<1>4. CASE Ftok(p) \/ FileKey(p)
  <2>1. UNCHANGED <<call, want, second, id, alone, cut, calls>> /\ key' = [key EXCEPT ![p] = file]
    BY <1>4 DEF Ftok, FileKey
  <2>2. QED
    BY <1>0, <2>1
<1>5. CASE Shmget(p) \/ DetachStat(p)
  <2>1. key[p] \in Keys
    BY <1>5 DEF Shmget, DetachStat, PlaceInv
  <2>2. UNCHANGED <<call, want, second, key, alone, cut, calls>>
        /\ (id' = id \/ id' = [id EXCEPT ![p] = shm[key[p]]])
    BY <1>5 DEF Shmget, DetachStat
  <2>3. shm[key[p]] \in 0 .. segs
    BY <2>1
  <2>4. QED
    BY <1>0, <2>2, <2>3
<1>6. CASE ShmStat(p) \/ ShmRemove(p) \/ RemoveFile(p) \/ DetachRmid(p) \/ DetachFile(p)
  <2>1. UNCHANGED <<call, want, second, key, id, alone, calls>>
    BY <1>6 DEF ShmStat, ShmRemove, RemoveFile, DetachRmid, DetachFile
  <2>2. cut' \in BOOLEAN
    BY <1>6 DEF ShmStat, ShmRemove, RemoveFile, DetachRmid, DetachFile
  <2>3. QED
    BY <1>0, <2>1, <2>2
<1>7. CASE ShmgetExcl(p)
  <2>1. UNCHANGED <<call, want, key, id, alone, calls>>
        /\ (second' = second \/ second' = [second EXCEPT ![p] = TRUE])
    BY <1>7 DEF ShmgetExcl
  <2>2. cut' \in BOOLEAN
    BY <1>7 DEF ShmgetExcl
  <2>3. second' \in [Procs -> BOOLEAN]
    BY <2>1
  <2>4. QED
    BY <1>0, <2>1, <2>2, <2>3
<1>8. QED
  <2>1. CASE \/ \E size \in Sizes : CreateData(p, size)
             \/ \E size \in OpenSizes : OpenData(p, size)
             \/ AccessData(p) \/ Destruct(p)
    BY <1>1, <2>1 DEF CreateData, OpenData, AccessData, Destruct, Places, Holding
  <2>2. CASE Die(p) \/ Gone(p) \/ TypedSet(p) \/ Failed(p) \/ Write(p)
    BY <1>2, <2>2 DEF Die, Gone, TypedSet, Failed, Write, kernVars
  <2>3. QED
    BY <1>3, <1>4, <1>5, <1>6, <1>7, <2>1, <2>2 DEF Act, Step

LEMMA ObjTypesNext ==
  ASSUME TypeOK, NEW p \in Procs, PlaceInv(p), Act(p)
  PROVE  ObjTypes'
<1>0. 0 .. segs \subseteq 0 .. segs' /\ ObjTypes /\ NoSeg \in 0 .. segs
  BY SegsGrow, ZeroSeg, Parts
<1> USE <1>0 DEF ObjTypes, NoSeg
<1>1. CASE UNCHANGED objVars
  BY <1>1 DEF objVars
<1>2. CASE UNCHANGED <<m_data, m_classSize, failed>>
           /\ \E b \in BOOLEAN : m_createShm' = [m_createShm EXCEPT ![p] = b]
  BY <1>2
<1>3. CASE Die(p) \/ Gone(p)
  <2>1. m_createShm' = [m_createShm EXCEPT ![p] = FALSE] /\ failed' = [failed EXCEPT ![p] = FALSE]
        /\ m_data' = [m_data EXCEPT ![p] = NoSeg] /\ m_classSize' = [m_classSize EXCEPT ![p] = 0]
    BY <1>3 DEF Die, Gone
  <2>2. QED
    BY <2>1
<1>4. CASE Failed(p)
  <2>1. failed' \in [Procs -> BOOLEAN]
    BY <1>4 DEF Failed
  <2>2. m_data' = m_data \/ m_data' = [m_data EXCEPT ![p] = NoSeg]
    BY <1>4 DEF Failed
  <2>3. QED
    BY <1>4, <2>1, <2>2 DEF Failed
<1>5. CASE TypedSet(p)
  <2>1. attached[p] \in Segs
    <3>1. attached[p] # NoSeg /\ attached[p] \in 0 .. segs /\ segs \in 0 .. MaxSegs
      BY <1>5 DEF TypedSet, PlaceInv, TypeOK
    <3>2. QED
      BY <3>1, QtShmAssumption DEF Segs, NoSeg
  <2>2. failed' \in [Procs -> BOOLEAN]
    BY <1>5 DEF TypedSet
  <2>3. m_classSize' \in [Procs -> Sizes \cup {0}]
    BY <1>5, <2>1 DEF TypedSet, TypeOK
  <2>4. m_data' \in [Procs -> 0 .. segs] /\ UNCHANGED <<m_createShm, segs>>
    BY <1>5 DEF TypedSet, NewData, TypeOK, kernVars
  <2>5. QED
    BY <2>2, <2>3, <2>4
<1>6. CASE \/ \E size \in Sizes : CreateData(p, size)
           \/ \E size \in OpenSizes : OpenData(p, size)
           \/ AccessData(p) \/ Destruct(p)
  BY <1>6, <1>1 DEF CreateData, OpenData, AccessData, Destruct, Begin, objVars
<1>7. CASE ShmRemove(p) \/ ShmAttach(p)
  BY <1>7, <1>1, <1>2 DEF ShmRemove, ShmAttach, objVars
<1>8. QED
  BY <1>1, <1>3, <1>4, <1>5, <1>6, <1>7
     DEF Act, Step, Lock, Ftok, Shmget, ShmStat, RemoveFile, CreateInit, MakeFile, FileKey,
         ShmgetExcl, Write, Shmdt, DetachStat, DetachRmid, DetachFile

-----------------------------------------------------------------------------
(* The semaphore.                                                          *)

\* Who is inside, after one process went from its place to another.
LEMMA HoldersNext ==
  ASSUME pc \in [Procs -> Places], NEW p \in Procs, NEW where, Go(p, where)
  PROVE  Holders' = IF where \in Holding THEN Holders \cup {p} ELSE Holders \ {p}
BY DEF Go, Holders

Kept(p)     == UNCHANGED <<semval, semadj, forced>> /\ Holders' = Holders
Acquired(p) == Acquire(p) /\ p \notin Holders /\ Holders' = Holders \cup {p}
Released(p) == Release(p) /\ p \in Holders /\ Holders' = Holders \ {p}
Reset(p)    == (SetSem(p, TRUE) \/ SetSem(p, FALSE)) /\ Holders' = Holders
Undone(p)   ==
  /\ Holders' = Holders \ {p} /\ forced' = forced
  /\ semval' = IF semval + semadj[p] < 0 THEN 0 ELSE semval + semadj[p]
  /\ semadj' = [semadj EXCEPT ![p] = 0]

\* The lock is taken and given back where the place of a process says so.
LEMMA SemEffect ==
  ASSUME TypeOK, NEW p \in Procs, Act(p)
  PROVE  Kept(p) \/ Acquired(p) \/ Released(p) \/ Reset(p) \/ Undone(p)
<1>0. /\ \A where : Go(p, where) /\ where \in Holding => Holders' = Holders \cup {p}
      /\ \A where : Go(p, where) /\ where \notin Holding => Holders' = Holders \ {p}
      /\ p \in Holders <=> pc[p] \in Holding
      /\ p \in Holders => Holders \cup {p} = Holders
      /\ p \notin Holders => Holders \ {p} = Holders
  BY HoldersNext DEF TypeOK, Holders
<1> USE <1>0 DEF Holding, Kept, Acquired, Released, Reset, Undone
<1>1. CASE \/ \E size \in Sizes : CreateData(p, size)
           \/ \E size \in OpenSizes : OpenData(p, size)
           \/ AccessData(p) \/ Destruct(p)
  BY <1>1 DEF CreateData, OpenData, AccessData, Destruct, Begin, semVars
<1>2. CASE Die(p)
  BY <1>2 DEF Die, Idle
<1>3. CASE Gone(p) \/ Failed(p)
  BY <1>3 DEF Gone, Failed, Idle, semVars
<1>4. CASE TypedSet(p) \/ Write(p)
  BY <1>4 DEF TypedSet, Write, Idle
<1>5. CASE Lock(p)
  BY <1>5 DEF Lock
<1>6. CASE CreateInit(p) \/ MakeFile(p) \/ Shmdt(p)
  BY <1>6 DEF CreateInit, MakeFile, Shmdt, semVars
<1>7. CASE FileKey(p)
  BY <1>7 DEF FileKey, semVars
<1>8. CASE ShmAttach(p)
  BY <1>8 DEF ShmAttach
<1>9. CASE ShmgetExcl(p)
  BY <1>9 DEF ShmgetExcl, semVars
<1>10. CASE Ftok(p) \/ Shmget(p) \/ ShmStat(p) \/ ShmRemove(p) \/ RemoveFile(p)
  BY <1>10 DEF Ftok, Shmget, ShmStat, ShmRemove, RemoveFile, Destroyed, StaleId, semVars
<1>11. CASE DetachStat(p) \/ DetachRmid(p) \/ DetachFile(p)
  BY <1>11 DEF DetachStat, DetachRmid, DetachFile, Detached, semVars
<1>12. QED
  BY <1>1, <1>2, <1>3, <1>4, <1>5, <1>6, <1>7, <1>8, <1>9, <1>10, <1>11 DEF Act, Step

\* Setting the semaphore makes debtors of those inside; a death takes from it
\* what its process owed, and no more.
LEMMA SemNext ==
  ASSUME TypeOK, SemInv, NEW p \in Procs, Act(p)
  PROVE  SemInv'
<1>0. /\ IsFiniteSet(Holders) /\ IsFiniteSet(Debtors)
      /\ Cardinality(Holders) \in Nat /\ Cardinality(Debtors) \in Nat
      /\ semval \in Nat /\ semadj \in [Procs -> Int]
      /\ Holders \subseteq Procs
  <2>1. Holders \subseteq Procs /\ Debtors \subseteq Procs
    BY DEF Holders, Debtors
  <2>2. QED
    BY <2>1, FS_Subset, FS_CardinalityType, QtShmAssumption DEF TypeOK
<1> USE <1>0
<1>1. CASE Kept(p)
  <2>1. Debtors' = Debtors
    BY <1>1 DEF Kept, Debtors
  <2>2. QED
    BY <1>1, <2>1 DEF Kept, SemInv
<1>2. CASE Acquired(p)
  <2>1. /\ semadj' = [semadj EXCEPT ![p] = @ + 1] /\ semval' = semval - 1 /\ forced' = forced
        /\ Holders' = Holders \cup {p} /\ p \notin Holders
    BY <1>2 DEF Acquired, Acquire, Taken
  <2>2. \A q \in Procs : semadj'[q] \in IF q \in Holders' THEN {0, 1} ELSE {-1, 0}
    BY <2>1 DEF SemInv
  <2>3. Debtors' = Debtors
    BY <2>1 DEF Debtors, SemInv
  <2>4. Cardinality(Holders') = Cardinality(Holders) + 1
    BY <2>1, FS_AddElement
  <2>5. semval' + Cardinality(Holders') = semval + Cardinality(Holders)
    BY <2>1, <2>4
  <2>6. QED
    BY <2>1, <2>2, <2>3, <2>5 DEF SemInv
<1>3. CASE Released(p)
  <2>1. /\ semadj' = [semadj EXCEPT ![p] = @ - 1] /\ semval' = semval + 1 /\ forced' = forced
        /\ Holders' = Holders \ {p} /\ p \in Holders
    BY <1>3 DEF Released, Release
  <2>2. \A q \in Procs : semadj'[q] \in IF q \in Holders' THEN {0, 1} ELSE {-1, 0}
    BY <2>1 DEF SemInv
  <2>3. Debtors' = Debtors
    BY <2>1 DEF Debtors, SemInv
  <2>4. Cardinality(Holders') = Cardinality(Holders) - 1
    BY <2>1, FS_RemoveElement
  <2>5. semval' + Cardinality(Holders') = semval + Cardinality(Holders)
    BY <2>1, <2>4
  <2>6. QED
    BY <2>1, <2>2, <2>3, <2>5 DEF SemInv
<1>4. CASE Reset(p)
  <2>1. /\ semadj' = [q \in Procs |-> 0] /\ semval' = 1
        /\ forced' = (forced \/ Holders # {}) /\ Holders' = Holders
    BY <1>4 DEF Reset, SetSem
  <2>2. \A q \in Procs : semadj'[q] \in IF q \in Holders' THEN {0, 1} ELSE {-1, 0}
    BY <2>1
  <2>3. Debtors' = Holders
    BY <2>1 DEF Debtors
  <2>4. semval' + Cardinality(Holders') = 1 + Cardinality(Debtors')
    BY <2>1, <2>3
  <2>5. ~forced' => Holders = {}
    BY <2>1
  <2>6. ~forced' => Debtors' = {} /\ semval' + Cardinality(Holders') = 1
    BY <2>1, <2>3, <2>5, FS_EmptySet
  <2>7. semval' + Cardinality(Holders') >= 1 + Cardinality(Debtors')
    <3>1. 1 + Cardinality(Debtors') \in Nat
      BY <2>3
    <3>2. QED
      BY <2>4, <3>1
  <2>8. QED
    BY <2>2, <2>6, <2>7 DEF SemInv
<1>5. CASE Undone(p)
  <2>1. /\ semadj' = [semadj EXCEPT ![p] = 0] /\ forced' = forced
        /\ Holders' = Holders \ {p}
        /\ semval' = IF semval + semadj[p] < 0 THEN 0 ELSE semval + semadj[p]
    BY <1>5 DEF Undone
  <2>2. \A q \in Procs : semadj'[q] \in IF q \in Holders' THEN {0, 1} ELSE {-1, 0}
    BY <2>1 DEF SemInv
  <2>3. Debtors' = Debtors \ {p}
    BY <2>1 DEF Debtors
  <2>4. Cardinality(Holders') = IF p \in Holders THEN Cardinality(Holders) - 1
                                                 ELSE Cardinality(Holders)
    BY <2>1, FS_RemoveElement
  <2>5. Cardinality(Debtors') = IF p \in Debtors THEN Cardinality(Debtors) - 1
                                                 ELSE Cardinality(Debtors)
    BY <2>3, FS_RemoveElement
  <2>6. semadj[p] = IF p \in Holders THEN (IF p \in Debtors THEN 0 ELSE 1)
                                     ELSE (IF p \in Debtors THEN -1 ELSE 0)
    BY DEF SemInv, Debtors
  <2>7. /\ semval' + Cardinality(Holders') >= 1 + Cardinality(Debtors')
        /\ p \notin Debtors => semval' + Cardinality(Holders') = semval + Cardinality(Holders)
    <3>1. \A s, h, d \in Nat : s + h >= 1 + d =>
            /\ s + 1 + (h - 1) >= 1 + d /\ s + 1 + (h - 1) = s + h
            /\ s + 0 + (h - 1) >= 1 + (d - 1)
            /\ s + 0 + h >= 1 + d /\ s + 0 + h = s + h
            /\ s + (-1) + h >= 1 + (d - 1) /\ (s + (-1) < 0 => 0 + h >= 1 + (d - 1))
            /\ ~(s + 1 < 0) /\ ~(s + 0 < 0)
      OBVIOUS
    <3>2. semval + Cardinality(Holders) >= 1 + Cardinality(Debtors)
      BY DEF SemInv
    <3>3. CASE p \in Holders
      BY <2>1, <2>4, <2>5, <2>6, <3>1, <3>2, <3>3
    <3>4. CASE p \notin Holders
      BY <2>1, <2>4, <2>5, <2>6, <3>1, <3>2, <3>4
    <3>5. QED
      BY <3>3, <3>4
  <2>8. QED
    BY <2>1, <2>2, <2>3, <2>7 DEF SemInv
<1>6. QED
  BY <1>1, <1>2, <1>3, <1>4, <1>5, SemEffect

-----------------------------------------------------------------------------
(* The places of a call.                                                   *)

LEMMA ZeroIdStays ==
  ASSUME NEW p \in Procs, Act(p)
  PROVE  zeroId' = zeroId
BY DEF Act, Step, CreateData, OpenData, AccessData, Destruct, Begin, Die, Lock, Ftok,
       Shmget, ShmStat, ShmRemove, RemoveFile, CreateInit, MakeFile, FileKey, ShmgetExcl,
       ShmAttach, TypedSet, Failed, Write, Shmdt, DetachStat, DetachRmid, DetachFile,
       Gone, kernVars

\* Its own steps take a process from place to place with what it needs there.
LEMMA OwnPlace ==
  ASSUME TypeOK, NEW p \in Procs, PlaceInv(p), Act(p)
  PROVE  PlaceInv(p)'
<1>0. /\ pc \in [Procs -> Places] /\ zeroId' = zeroId
      /\ call \in [Procs -> {"none", "create", "open", "access", "leave"}]
      /\ want \in [Procs -> Sizes \cup OpenSizes \cup {0}] /\ second \in [Procs -> BOOLEAN]
      /\ key \in [Procs -> Keys \cup {NoKey}] /\ id \in [Procs -> 0 .. segs]
      /\ attached \in [Procs -> 0 .. segs]
  BY ZeroIdStays DEF TypeOK
<1> USE <1>0 DEF PlaceInv, Creating, Opening, Leaving, Mapping, Go
<1>1. CASE \/ \E size \in Sizes : CreateData(p, size)
           \/ \E size \in OpenSizes : OpenData(p, size)
           \/ AccessData(p) \/ Destruct(p)
  <2>1. UNCHANGED <<second, key, id, attached>> /\ pc[p] = "idle"
    BY <1>1 DEF CreateData, OpenData, AccessData, Destruct, Begin, kernVars
  <2>2. ASSUME NEW size \in Sizes, CreateData(p, size) PROVE PlaceInv(p)'
    BY <2>1, <2>2 DEF CreateData, Begin, DetachFirst
  <2>3. ASSUME NEW size \in OpenSizes, OpenData(p, size) PROVE PlaceInv(p)'
    BY <2>1, <2>3 DEF OpenData, Begin
  <2>4. CASE AccessData(p) \/ Destruct(p)
    BY <2>1, <2>4 DEF AccessData, Destruct, Begin
  <2>5. QED
    BY <1>1, <2>2, <2>3, <2>4
<1>2. CASE Die(p)
  BY <1>2 DEF Die, Idle
<1>3. CASE Gone(p) \/ Failed(p) \/ TypedSet(p) \/ Write(p)
  <2>1. /\ pc'[p] = "idle" /\ call'[p] = "none" /\ ~second'[p] /\ attached' = attached
        /\ attached[p] # NoSeg => key'[p] = key[p]
    BY <1>3 DEF Gone, Failed, TypedSet, Write, Idle, kernVars
  <2>2. QED
    BY <2>1
<1>4. CASE Lock(p)
  BY <1>4 DEF Lock, kernVars
<1>5. CASE CreateInit(p) \/ MakeFile(p) \/ Shmdt(p)
  BY <1>5 DEF CreateInit, MakeFile, Shmdt, kernVars
<1>6. CASE FileKey(p)
  BY <1>6 DEF FileKey, kernVars
<1>7. CASE ShmAttach(p)
  BY <1>7 DEF ShmAttach
<1>8. CASE ShmgetExcl(p)
  BY <1>8 DEF ShmgetExcl
<1>9. CASE Ftok(p) \/ Shmget(p)
  <2>1. UNCHANGED <<call, want, second, attached>>
    BY <1>9 DEF Ftok, Shmget, kernVars
  <2>2. CASE Ftok(p)
    BY <2>1, <2>2 DEF Ftok, Destroyed
  <2>3. CASE Shmget(p)
    BY <2>1, <2>3 DEF Shmget, HasId
  <2>4. QED
    BY <1>9, <2>2, <2>3
<1>10. CASE ShmStat(p) \/ ShmRemove(p) \/ RemoveFile(p)
  <2>1. UNCHANGED <<call, want, second, attached, key, id>>
    BY <1>10 DEF ShmStat, ShmRemove, RemoveFile, kernVars
  <2>2. /\ pc'[p] \in {"failed", "create init", "rmid", "rmid own", "remove file"}
        /\ pc[p] \in {"stat", "rmid", "rmid own", "remove file"}
        /\ pc'[p] \in {"rmid", "rmid own"} => pc[p] = "stat"
    BY <1>10 DEF ShmStat, ShmRemove, RemoveFile, Destroyed, StaleId
  <2>3. QED
    BY <2>1, <2>2
<1>11. CASE DetachStat(p) \/ DetachRmid(p) \/ DetachFile(p)
  BY <1>11 DEF DetachStat, DetachRmid, DetachFile, Detached, kernVars
<1>12. QED
  BY <1>1, <1>2, <1>3, <1>4, <1>5, <1>6, <1>7, <1>8, <1>9, <1>10, <1>11 DEF Act, Step

LEMMA PlaceNext ==
  ASSUME TypeOK, NEW p \in Procs, Act(p), NEW q \in Procs, PlaceInv(q)
  PROVE  PlaceInv(q)'
<1>1. CASE q = p
  BY <1>1, OwnPlace
<1>2. CASE q # p
  BY <1>2, OthersStay, ZeroIdStays DEF PlaceInv
<1>3. QED
  BY <1>1, <1>2

-----------------------------------------------------------------------------
(* The typed layer.                                                        *)

\* The size of a segment is that of its creation.
LEMMA SizesStay ==
  ASSUME TypeOK, NEW p \in Procs, Act(p), NEW s \in 1 .. segs
  PROVE  segSize'[s] = segSize[s]
<1>1. segSize' = segSize \/ segSize' = [segSize EXCEPT ![segs + 1] = want[p]]
  BY DEF Act, Step, CreateData, OpenData, AccessData, Destruct, Begin, Die, Lock, Ftok,
         Shmget, ShmStat, ShmRemove, RemoveFile, CreateInit, MakeFile, FileKey, ShmgetExcl,
         ShmAttach, TypedSet, Failed, Write, Shmdt, DetachStat, DetachRmid, DetachFile,
         Gone, kernVars
<1>2. s # segs + 1 /\ s \in Segs
  BY QtShmAssumption DEF TypeOK, Segs
<1>3. QED
  BY <1>1, <1>2 DEF TypeOK

LEMMA NotPositive == ~(0 > 0)
OBVIOUS

LEMMA LeqRefl == \A k \in Nat : k <= k
OBVIOUS

LEMMA SizesNat ==
  ASSUME TypeOK
  PROVE  /\ \A q \in Procs : m_classSize[q] \in Nat
         /\ \A s \in Segs : segSize[s] \in Nat
<1>1. \A s \in Sizes \cup {0} : s \in Nat
  BY QtShmAssumption
<1>2. /\ \A q \in Procs : m_classSize[q] \in Sizes \cup {0}
      /\ \A s \in Segs : segSize[s] \in Sizes \cup {0}
  BY DEF TypeOK
<1>3. QED
  BY <1>1, <1>2

LEMMA MappedSeg ==
  ASSUME TypeOK, NEW q \in Procs, attached[q] # NoSeg
  PROVE  attached[q] \in 1 .. segs /\ attached[q] \in Segs
<1>1. attached[q] \in 0 .. segs /\ segs \in 0 .. MaxSegs /\ MaxSegs \in Nat
  BY QtShmAssumption DEF TypeOK
<1>2. QED
  BY <1>1 DEF Segs, NoSeg

\* Pointer and size change together with the mapping, or failed is set.
LEMMA OwnUse ==
  ASSUME TypeOK, NEW p \in Procs, PlaceInv(p), UseInv(p), Act(p)
  PROVE  UseInv(p)'
<1>0. /\ pc \in [Procs -> Places] /\ attached \in [Procs -> 0 .. segs]
      /\ m_data \in [Procs -> 0 .. segs] /\ m_classSize \in [Procs -> Sizes \cup {0}]
      /\ \A q \in Procs : m_classSize[q] \in Nat
  BY SizesNat DEF TypeOK
<1>00. failed \in [Procs -> BOOLEAN]
  BY DEF TypeOK
<1> USE <1>0 DEF UseInv, Go
<1>1. ASSUME pc'[p] \notin {"idle", "write lock", "write"} PROVE UseInv(p)'
  BY <1>1
<1>2. CASE \/ \E size \in Sizes : CreateData(p, size)
           \/ \E size \in OpenSizes : OpenData(p, size)
           \/ Destruct(p)
  <2>1. pc'[p] \notin {"idle", "write lock", "write"}
    BY <1>2 DEF CreateData, OpenData, Destruct, Begin
  <2>2. QED
    BY <1>1, <2>1
<1>3. CASE AccessData(p)
  <2>1. UNCHANGED <<attached, m_data, m_classSize, failed, segSize>>
    BY <1>3 DEF AccessData, Begin, kernVars
  <2>2. pc[p] = "idle" /\ m_classSize[p] > 0
    BY <1>3 DEF AccessData, Begin
  <2>3. QED
    BY <2>1, <2>2
<1>4. CASE Lock(p) \/ Write(p)
  <2>1. UNCHANGED <<attached, m_data, m_classSize, failed, segSize>>
    BY <1>4 DEF Lock, Write, kernVars, objVars
  <2>2. CASE Lock(p)
    <3>1. pc'[p] \in {"write lock", "write"} => pc[p] = "write lock"
      BY <2>2 DEF Lock
    <3>2. pc'[p] # "idle"
      BY <2>2 DEF Lock
    <3>3. QED
      BY <2>1, <3>1, <3>2
  <2>3. CASE Write(p)
    <3>1. pc[p] = "write" /\ pc'[p] = "idle"
      BY <2>3 DEF Write, Idle
    <3>2. /\ failed'[p] = failed[p] /\ m_classSize'[p] = m_classSize[p]
          /\ attached'[p] = attached[p] /\ m_data'[p] = m_data[p]
          /\ segSize'[m_data[p]] = segSize[m_data[p]]
      BY <2>1, Zenon
    <3>3. QED
      BY <3>1, <3>2, Zenon DEF UseInv
  <2>4. QED
    BY <1>4, <2>2, <2>3
<1>5. CASE Gone(p) \/ Die(p)
  <2>1. pc'[p] = "idle" /\ m_classSize'[p] = 0
    BY <1>5 DEF Gone, Die, Idle
  <2>2. pc'[p] \notin {"write lock", "write"} /\ ~(m_classSize'[p] > 0)
    BY <2>1, NotPositive, Zenon
  <2>3. QED
    BY <2>2, Zenon DEF UseInv
<1>6. CASE Failed(p)
  <2>1. pc'[p] = "idle" /\ m_classSize' = m_classSize /\ (m_classSize[p] > 0 => failed'[p])
    BY <1>00, <1>6 DEF Failed, Idle
  <2>2. pc'[p] \notin {"write lock", "write"}
    BY <2>1
  <2>3. QED
    BY <2>1, <2>2, Zenon DEF UseInv
<1>7. CASE TypedSet(p)
  <2>1. /\ pc'[p] = "idle" /\ UNCHANGED <<attached, segSize>> /\ m_data'[p] = attached[p]
        /\ attached[p] # NoSeg
        /\ ~failed'[p] => m_classSize'[p] = segSize[attached[p]]
    BY <1>00, <1>7 DEF TypedSet, Idle, NewData, kernVars, PlaceInv
  <2>2. attached[p] \in Segs /\ segSize[attached[p]] \in Nat
    <3>1. attached[p] \in Segs
      BY <2>1, MappedSeg
    <3>2. QED
      BY <3>1, SizesNat
  <2>3. segSize'[m_data'[p]] = segSize[attached[p]]
    BY <2>1, Zenon
  <2>4. ~failed'[p] => m_classSize'[p] <= segSize'[m_data'[p]]
    BY <2>1, <2>2, <2>3, LeqRefl, Zenon
  <2>5. attached'[p] # NoSeg /\ m_data'[p] = attached'[p]
    BY <2>1
  <2>6. pc'[p] \notin {"write lock", "write"}
    BY <2>1
  <2>7. QED
    BY <2>4, <2>5, <2>6, Zenon DEF UseInv
<1>8. CASE \/ CreateInit(p) \/ MakeFile(p) \/ FileKey(p) \/ ShmgetExcl(p) \/ ShmAttach(p)
           \/ Shmdt(p)
  <2>1. pc'[p] \notin {"idle", "write lock", "write"}
    BY <1>8 DEF CreateInit, MakeFile, FileKey, ShmgetExcl, ShmAttach, Shmdt
  <2>2. QED
    BY <1>1, <2>1
<1>9. CASE Ftok(p) \/ Shmget(p) \/ ShmStat(p) \/ ShmRemove(p) \/ RemoveFile(p)
  <2>1. pc'[p] \notin {"idle", "write lock", "write"}
    BY <1>9 DEF Ftok, Shmget, ShmStat, ShmRemove, RemoveFile, Destroyed, StaleId
  <2>2. QED
    BY <1>1, <2>1
<1>10. CASE DetachStat(p) \/ DetachRmid(p) \/ DetachFile(p)
  <2>1. pc'[p] \notin {"idle", "write lock", "write"}
    BY <1>10 DEF DetachStat, DetachRmid, DetachFile, Detached
  <2>2. QED
    BY <1>1, <2>1
<1>11. QED
  BY <1>2, <1>3, <1>4, <1>5, <1>6, <1>7, <1>8, <1>9, <1>10 DEF Act, Step

LEMMA UseNext ==
  ASSUME TypeOK, NEW p \in Procs, Act(p), NEW q \in Procs, PlaceInv(q), UseInv(q)
  PROVE  UseInv(q)'
<1>1. CASE q = p
  BY <1>1, OwnUse
<1>2. CASE q # p
  <2>1. attached[q] # NoSeg => attached[q] \in 1 .. segs
    BY MappedSeg
  <2>2. attached[q] # NoSeg => segSize'[attached[q]] = segSize[attached[q]]
    BY <2>1, SizesStay
  <2>3. /\ pc'[q] = pc[q] /\ attached'[q] = attached[q] /\ m_data'[q] = m_data[q]
        /\ m_classSize'[q] = m_classSize[q] /\ failed'[q] = failed[q]
    BY <1>2, OthersStay, Zenon
  <2>4. QED
    BY <2>2, <2>3, Zenon DEF UseInv
<1>3. QED
  BY <1>1, <1>2

-----------------------------------------------------------------------------
(* One segment for all.                                                    *)

\* The file and the segment it leads to are taken away only when nobody has
\* them, or cut says so.
LEMMA FileNext ==
  ASSUME TypeOK, FileInv, \A q \in Procs : PlaceInv(q), NEW p \in Procs, Act(p)
  PROVE  FileInv'
<1>0. /\ pc \in [Procs -> Places] /\ attached \in [Procs -> 0 .. segs]
      /\ key \in [Procs -> Keys \cup {NoKey}] /\ shm \in [Keys -> 0 .. segs]
      /\ file \in Keys \cup {NoKey} /\ NoKey \notin Keys
  BY QtShmAssumption DEF TypeOK, NoKey
<1>1. /\ \A q \in Procs \ {p} : pc'[q] = pc[q] /\ key'[q] = key[q] /\ attached'[q] = attached[q]
      /\ \A q \in Procs : attached[q] # NoSeg \/ pc[q] \in Mapping => key[q] # NoKey
  BY OthersStay DEF PlaceInv
<1>2. SUFFICES ASSUME ~cut' PROVE \A q \in Procs : /\ pc'[q] \in Mapping => key'[q] = file'
                                                   /\ attached'[q] \in {NoSeg, Current'}
  BY DEF FileInv
<1>3. ~cut
  BY <1>2 DEF Act, Step, CreateData, OpenData, AccessData, Destruct, Begin, Die, Lock, Ftok,
       Shmget, ShmStat, ShmRemove, RemoveFile, CreateInit, MakeFile, FileKey, ShmgetExcl,
       ShmAttach, TypedSet, Failed, Write, Shmdt, DetachStat, DetachRmid, DetachFile,
       Gone, Idle, kernVars
<1>4. \A q \in Procs : /\ pc[q] \in Mapping => key[q] = file
                       /\ attached[q] \in {NoSeg, Current}
  BY <1>3 DEF FileInv
<1> USE <1>0
\* Nothing about the file or the segments.
<1>5. ASSUME file' = file, shm' = shm, pc'[p] \in Mapping => key'[p] = file,
             attached'[p] \in {NoSeg, Current}
      PROVE  \A q \in Procs : /\ pc'[q] \in Mapping => key'[q] = file'
                              /\ attached'[q] \in {NoSeg, Current'}
  <2>1. Current' = Current
    BY <1>5 DEF Current
  <2>2. QED
    BY <1>1, <1>4, <1>5, <2>1
\* The file goes.
<1>6. ASSUME file' \in {file, NoKey}, shm' = shm, file' # file => ~InUse(p, Current),
             pc'[p] \notin Mapping, attached' = attached, attached[p] = NoSeg
      PROVE  \A q \in Procs : /\ pc'[q] \in Mapping => key'[q] = file'
                              /\ attached'[q] \in {NoSeg, Current'}
  <2>1. CASE file' = file
    BY <1>5, <1>6, <2>1
  <2>2. CASE file' # file
    <3>1. \A q \in Procs \ {p} : pc[q] \notin Mapping /\ attached[q] = NoSeg
      BY <1>4, <1>6, <2>2 DEF InUse, Mapping
    <3>2. QED
      BY <1>1, <1>6, <3>1
  <2>3. QED
    BY <2>1, <2>2
\* The segment goes.
<1>7. ASSUME file' = file, shm' = RMID(id[p]), ~InUse(p, id[p]), id[p] # NoSeg,
             pc'[p] \notin Mapping, attached' = attached, attached[p] = NoSeg
      PROVE  \A q \in Procs : /\ pc'[q] \in Mapping => key'[q] = file'
                              /\ attached'[q] \in {NoSeg, Current'}
  <2>1. \A q \in Procs : attached[q] # id[p]
    BY <1>7 DEF InUse
  <2>2. Current' = Current \/ Current = id[p]
    BY <1>7 DEF Current, RMID
  <2>3. \A q \in Procs : attached'[q] \in {NoSeg, Current'}
    BY <1>4, <1>7, <2>1, <2>2
  <2>4. QED
    BY <1>1, <1>4, <1>7, <2>3
<1>8. CASE \/ \E size \in Sizes : CreateData(p, size)
           \/ \E size \in OpenSizes : OpenData(p, size)
           \/ AccessData(p) \/ Destruct(p)
  <2>1. file' = file /\ shm' = shm /\ attached' = attached
    BY <1>8 DEF CreateData, OpenData, AccessData, Destruct, Begin, kernVars
  <2>2. pc'[p] \notin Mapping
    BY <1>8 DEF CreateData, OpenData, AccessData, Destruct, Begin, Mapping, Go
  <2>3. QED
    BY <1>4, <1>5, <2>1, <2>2
<1>9. CASE Die(p) \/ Gone(p) \/ TypedSet(p) \/ Failed(p) \/ Write(p)
  <2>1. file' = file /\ shm' = shm /\ attached'[p] \in {NoSeg, attached[p]} /\ pc'[p] = "idle"
    BY <1>9 DEF Die, Gone, TypedSet, Failed, Write, Idle, Go, kernVars
  <2>2. QED
    BY <1>4, <1>5, <2>1 DEF Mapping
<1>10. CASE Lock(p) \/ CreateInit(p) \/ Shmdt(p) \/ Ftok(p) \/ Shmget(p) \/ ShmStat(p)
  <2>1. file' = file /\ shm' = shm /\ attached'[p] \in {NoSeg, attached[p]}
    BY <1>10 DEF Lock, CreateInit, Shmdt, Ftok, Shmget, ShmStat, kernVars
  <2>2. pc'[p] \notin Mapping
    BY <1>10 DEF Lock, CreateInit, Shmdt, Ftok, Shmget, ShmStat, Destroyed, StaleId, Mapping, Go
  <2>3. QED
    BY <1>4, <1>5, <2>1, <2>2
<1>11. CASE FileKey(p)
  <2>1. file' = file /\ shm' = shm /\ attached' = attached /\ key'[p] = file
    BY <1>11 DEF FileKey, kernVars
  <2>2. QED
    BY <1>4, <1>5, <2>1
<1>12. CASE ShmAttach(p)
  <2>1. file' = file /\ shm' = shm /\ pc'[p] \notin Mapping
    BY <1>12 DEF ShmAttach, Mapping, Go
  <2>2. key[p] = file /\ key[p] # NoKey
    BY <1>1, <1>4, <1>12 DEF ShmAttach, Mapping
  <2>3. attached'[p] \in {attached[p], Current}
    BY <1>12, <2>2 DEF ShmAttach, Current
  <2>4. QED
    BY <1>4, <1>5, <2>1, <2>3
<1>13. CASE MakeFile(p)
  <2>1. shm' = shm /\ attached' = attached /\ pc'[p] \notin Mapping
    BY <1>13 DEF MakeFile, Mapping, Go
  <2>2. CASE file # NoKey
    BY <1>4, <1>5, <1>13, <2>1, <2>2 DEF MakeFile
  <2>3. CASE file = NoKey
    <3>1. \A q \in Procs : pc[q] \notin Mapping /\ attached[q] = NoSeg
      BY <1>1, <1>4, <2>3 DEF Current
    <3>2. QED
      BY <1>1, <2>1, <3>1
  <2>4. QED
    BY <2>2, <2>3
<1>14. CASE ShmgetExcl(p)
  <2>1. /\ attached' = attached /\ key' = key /\ key[p] = file /\ file # NoKey
        /\ attached[p] = NoSeg
    BY <1>1, <1>4, <1>14 DEF ShmgetExcl, Mapping, PlaceInv, Creating
  <2>2. CASE shm[key[p]] # NoSeg
    BY <1>4, <1>5, <1>14, <2>1, <2>2 DEF ShmgetExcl
  <2>3. CASE shm[key[p]] = NoSeg /\ segs = MaxSegs
    <3>1. file' \in {file, NoKey} /\ shm' = shm /\ pc'[p] \notin Mapping
      BY <1>14, <2>3 DEF ShmgetExcl, Mapping, Go
    <3>2. file' # file => ~InUse(p, Current)
      BY <1>2, <1>14, <2>3 DEF ShmgetExcl
    <3>3. QED
      BY <1>6, <2>1, <3>1, <3>2
  <2>4. CASE shm[key[p]] = NoSeg /\ segs # MaxSegs
    <3>1. file' = file
      BY <1>14, <2>4 DEF ShmgetExcl
    <3>2. \A q \in Procs : attached[q] = NoSeg
      BY <1>4, <2>1, <2>4 DEF Current
    <3>3. QED
      BY <1>1, <1>4, <2>1, <3>1, <3>2
  <2>5. QED
    BY <2>2, <2>3, <2>4
<1>15. CASE ShmRemove(p) \/ DetachRmid(p)
  <2>1. /\ file' = file /\ attached' = attached /\ attached[p] = NoSeg
        /\ pc'[p] \notin Mapping
    BY <1>15 DEF ShmRemove, DetachRmid, PlaceInv, Creating, Leaving, StaleId, Destroyed,
                 Detached, Mapping, Go
  <2>2. CASE shm' = shm
    BY <1>5, <2>1, <2>2
  <2>3. CASE Alive(id[p])
    <3>1. shm' = RMID(id[p]) /\ ~InUse(p, id[p]) /\ id[p] # NoSeg
      BY <1>2, <1>15, <2>3 DEF ShmRemove, DetachRmid, Alive
    <3>2. QED
      BY <1>7, <2>1, <3>1
  <2>4. QED
    BY <1>15, <2>2, <2>3 DEF ShmRemove, DetachRmid
<1>16. CASE RemoveFile(p) \/ DetachFile(p)
  <2>1. /\ file' = NoKey /\ shm' = shm /\ attached' = attached /\ attached[p] = NoSeg
        /\ pc'[p] \notin Mapping
    BY <1>16 DEF RemoveFile, DetachFile, PlaceInv, Creating, Leaving, Destroyed,
                 Detached, Mapping, Go
  <2>2. ~InUse(p, Current)
    BY <1>2, <1>16 DEF RemoveFile, DetachFile
  <2>3. QED
    BY <1>6, <2>1, <2>2
<1>17. CASE DetachStat(p)
  <2>1. file' = file /\ shm' = shm /\ attached' = attached /\ pc'[p] \notin Mapping
    BY <1>17 DEF DetachStat, Detached, Mapping, Go, kernVars
  <2>2. QED
    BY <1>4, <1>5, <2>1
<1>18. QED
  BY <1>8, <1>9, <1>10, <1>11, <1>12, <1>13, <1>14, <1>15, <1>16, <1>17 DEF Act, Step

-----------------------------------------------------------------------------
(* A create that runs alone.                                               *)

\* Nobody else moves: they are idle, with nothing mapped, and a call of theirs
\* would end the solitude.
LEMMA OthersNotAlone ==
  ASSUME TypeOK, NEW p \in Procs, Act(p), NEW q \in Procs, q # p, AloneInv(q), alone'[q]
  PROVE  FALSE
<1>1. alone \in [Procs -> BOOLEAN]
  BY DEF TypeOK
<1>2. CASE \/ \E size \in Sizes : CreateData(p, size)
           \/ \E size \in OpenSizes : OpenData(p, size)
           \/ AccessData(p) \/ Destruct(p)
  <2>1. ~alone'[q]
    BY <1>2 DEF CreateData, OpenData, AccessData, Destruct, Begin
  <2>2. QED
    BY <2>1
<1>3. CASE Die(p) \/ Step(p)
  <2>1. alone'[q] = alone[q]
    BY <1>1, <1>3 DEF Die, Step, Lock, Ftok, Shmget, ShmStat, ShmRemove, RemoveFile,
         CreateInit, MakeFile, FileKey, ShmgetExcl, ShmAttach, TypedSet, Failed, Write,
         Shmdt, DetachStat, DetachRmid, DetachFile, Gone, Idle
  <2>2. pc[p] = "idle" /\ attached[p] = NoSeg
    BY <2>1 DEF AloneInv, Solitary
  <2>3. QED
    BY <1>3, <2>2 DEF Die, Step, Lock, Ftok, Shmget, ShmStat, ShmRemove, RemoveFile,
         CreateInit, MakeFile, FileKey, ShmgetExcl, ShmAttach, TypedSet, Failed, Write,
         Shmdt, DetachStat, DetachRmid, DetachFile, Gone
<1>4. QED
  BY <1>2, <1>3 DEF Act

LEMMA SolitaryNext ==
  ASSUME TypeOK, NEW p \in Procs, Act(p), Solitary(p)
  PROVE  Solitary(p)'
BY OthersStay DEF Solitary

\* Nobody removes the segment with the id 0, once create has detached.
LEMMA ZeroStaysAlive ==
  ASSUME TypeOK, NEW p \in Procs, Step(p), PlaceInv(p), pc[p] \in Creating, Alive(zeroId),
         \A q \in Procs : attached[q] = NoSeg
  PROVE  Alive(zeroId)'
<1>1. PICK k \in Keys : shm[k] = zeroId
  BY DEF Alive, Users
<1>2. zeroId # NoSeg /\ zeroId' = zeroId /\ shm \in [Keys -> 0 .. segs]
  BY ZeroIdStays DEF Alive, Act, TypeOK
<1>3. CASE shm' = shm
  BY <1>1, <1>2, <1>3 DEF Alive
<1>4. CASE ShmRemove(p)
  <2>1. id[p] # zeroId
    BY <1>4 DEF ShmRemove, PlaceInv
  <2>2. shm' \in {shm, RMID(id[p])}
    BY <1>4 DEF ShmRemove
  <2>3. shm'[k] = zeroId
    BY <1>1, <1>2, <2>1, <2>2 DEF RMID
  <2>4. QED
    BY <1>2, <2>3 DEF Alive
<1>5. CASE ShmgetExcl(p)
  <2>1. shm'[k] = shm[k]
    BY <1>1, <1>2, <1>5 DEF ShmgetExcl
  <2>2. QED
    BY <1>1, <1>2, <2>1 DEF Alive
<1>6. QED
  BY <1>3, <1>4, <1>5 DEF Step, Creating, Lock, Ftok, Shmget, ShmStat, RemoveFile,
       CreateInit, MakeFile, FileKey, ShmAttach, TypedSet, Failed, Write, Shmdt, DetachStat,
       DetachRmid, DetachFile, Gone, kernVars

\* What create asks of its start.
LEMMA AloneBegins ==
  ASSUME TypeOK, NEW p \in Procs, PlaceInv(p), alone'[p],
         \/ \E size \in Sizes : CreateData(p, size)
         \/ \E size \in OpenSizes : OpenData(p, size)
         \/ AccessData(p) \/ Destruct(p)
  PROVE  AloneInv(p)'
<1>0. pc \in [Procs -> Places] /\ call \in [Procs -> {"none", "create", "open", "access", "leave"}]
  BY DEF TypeOK
<1>1. PICK size \in Sizes : CreateData(p, size)
  BY DEF OpenData, AccessData, Destruct, Begin
<1>2. /\ OneStray /\ \A q \in Procs \ {p} : pc[q] = "idle" /\ attached[q] = NoSeg
      /\ UNCHANGED <<file, shm, attached, second>> /\ ~second[p] /\ call'[p] = "create"
      /\ pc' = [pc EXCEPT ![p] = IF attached[p] # NoSeg THEN "detach lock" ELSE "ftok"]
  BY <1>0, <1>1 DEF CreateData, Begin, kernVars, PlaceInv, DetachFirst, Go
<1>3. OneStray' /\ Solitary(p)'
  BY <1>0, <1>2 DEF OneStray, Solitary
<1>4. pc'[p] \in {"detach lock", "ftok"} /\ ~second'[p]
  BY <1>0, <1>2
<1>5. Detaching(p)' /\ (pc'[p] = "ftok" => Trying(p)')
  BY <1>3, <1>4 DEF Detaching, Trying
<1>6. QED
  BY <1>2, <1>3, <1>4, <1>5 DEF AloneInv

LEMMA AloneDetaches ==
  ASSUME TypeOK, NEW p \in Procs, PlaceInv(p), AloneInv(p), alone[p],
         \/ Lock(p) /\ pc[p] = "detach lock"
         \/ Shmdt(p) \/ DetachStat(p) \/ DetachRmid(p) \/ DetachFile(p)
  PROVE  AloneInv(p)'
<1>0. /\ pc \in [Procs -> Places] /\ call \in [Procs -> {"none", "create", "open", "access", "leave"}]
      /\ key \in [Procs -> Keys \cup {NoKey}] /\ shm \in [Keys -> 0 .. segs]
      /\ id \in [Procs -> 0 .. segs] /\ file \in Keys \cup {NoKey} /\ NoKey \notin Keys
  BY QtShmAssumption DEF TypeOK, NoKey
<1> USE <1>0
<1>1. Solitary(p)'
  BY SolitaryNext DEF AloneInv, Act, Step
<1>2. call[p] = "create" /\ Detaching(p) /\ (pc[p] \in Leaving => ~second[p])
  BY DEF AloneInv, PlaceInv
<1>3. call' = call /\ second' = second
  BY DEF Lock, Shmdt, DetachStat, DetachRmid, DetachFile
<1>4. ASSUME pc'[p] = "ftok", ~second[p], OneStray' PROVE AloneInv(p)'
  <2>1. Detaching(p)' /\ Trying(p)'
    BY <1>3, <1>4 DEF Detaching, Trying
  <2>2. QED
    BY <1>1, <1>2, <1>3, <2>1 DEF AloneInv
<1>5. ASSUME pc'[p] \in {"shmdt"} \cup Leaving, Detaching(p)' PROVE AloneInv(p)'
  BY <1>1, <1>2, <1>3, <1>5 DEF AloneInv
<1>6. CASE (Lock(p) /\ pc[p] = "detach lock") \/ Shmdt(p)
  <2>1. UNCHANGED <<file, shm>> /\ pc'[p] \in {"shmdt", "detach stat"}
        /\ pc[p] \in {"detach lock", "shmdt"}
    BY <1>6 DEF Lock, Shmdt, Go, kernVars
  <2>2. OneStray'
    BY <1>2, <2>1 DEF Detaching, OneStray
  <2>3. QED
    BY <1>5, <2>1, <2>2 DEF Detaching, Leaving
<1>7. CASE DetachStat(p)
  <2>1. UNCHANGED <<file, shm, key>> /\ pc[p] = "detach stat" /\ id' = [id EXCEPT ![p] = shm[key[p]]]
        /\ \/ pc'[p] = "ftok"
           \/ pc'[p] = "detach rmid" /\ shm[key[p]] # NoSeg
    BY <1>2, <1>7 DEF DetachStat, Detached, Go, kernVars
  <2>2. OneStray' /\ key[p] # NoKey
    BY <1>2, <2>1 DEF Detaching, OneStray, PlaceInv
  <2>3. CASE pc'[p] = "ftok"
    BY <1>2, <1>4, <2>1, <2>2, <2>3 DEF Leaving
  <2>4. CASE pc'[p] = "detach rmid" /\ shm[key[p]] # NoSeg
    BY <1>5, <2>1, <2>2, <2>4 DEF Detaching, Leaving
  <2>5. QED
    BY <2>1, <2>3, <2>4
<1>8. CASE DetachRmid(p)
  <2>1. /\ pc[p] = "detach rmid" /\ OneStray /\ key[p] \in Keys /\ id[p] # NoSeg
        /\ shm[key[p]] = id[p] /\ file' = file
    BY <1>2, <1>8 DEF Detaching, DetachRmid
  <2>2. Alive(id[p])
    BY <2>1 DEF Alive
  <2>3. shm' = RMID(id[p]) /\ pc'[p] = "detach file"
    BY <1>8, <2>2 DEF DetachRmid, Go
  <2>4. AtMostOne'
    BY <2>1, <2>3 DEF AtMostOne, OneStray, RMID
  <2>5. QED
    BY <1>5, <2>3, <2>4 DEF Detaching, Leaving
<1>9. CASE DetachFile(p)
  <2>1. pc[p] = "detach file" /\ AtMostOne /\ shm' = shm /\ pc'[p] = "ftok"
    BY <1>2, <1>9 DEF Detaching, DetachFile, Detached, Go
  <2>2. OneStray'
    BY <2>1 DEF AtMostOne, OneStray
  <2>3. QED
    BY <1>2, <1>4, <2>1, <2>2 DEF Leaving
<1>10. QED
  BY <1>6, <1>7, <1>8, <1>9

\* The part of create that cleans up and tries, while no segment has the id 0.
LEMMA AloneTries ==
  ASSUME TypeOK, NEW p \in Procs, PlaceInv(p), alone[p], Trying(p), ~Alive(zeroId), Solitary(p),
         call[p] = "create", Step(p), pc[p] \in Creating
  PROVE  Trying(p)' \/ pc'[p] = "typed lock"
<1>0. /\ pc \in [Procs -> Places] /\ second \in [Procs -> BOOLEAN]
      /\ key \in [Procs -> Keys \cup {NoKey}] /\ shm \in [Keys -> 0 .. segs]
      /\ id \in [Procs -> 0 .. segs] /\ file \in Keys \cup {NoKey} /\ NoKey \notin Keys
      /\ segs \in 0 .. MaxSegs /\ MaxSegs \in Nat
  BY QtShmAssumption DEF TypeOK, NoKey
<1> USE <1>0 DEF Trying, Go
<1>1. CASE Ftok(p)
  <2>1. UNCHANGED <<file, shm, second>> /\ pc[p] = "ftok" /\ key'[p] = file
        /\ IF file = NoKey THEN pc'[p] = "create init" ELSE pc'[p] = "shmget"
    BY <1>1 DEF Ftok, Destroyed, kernVars
  <2>2. OneStray' /\ (second[p] => AtMostOne')
    BY <2>1 DEF OneStray, AtMostOne
  <2>3. CASE file = NoKey
    <3>1. AtMostOne'
      BY <2>1, <2>3 DEF OneStray, AtMostOne
    <3>2. QED
      BY <2>1, <2>3, <3>1 DEF Cleared
  <2>4. CASE file # NoKey
    BY <2>1, <2>2, <2>4
  <2>5. QED
    BY <2>3, <2>4
<1>2. CASE Shmget(p)
  <2>1. UNCHANGED <<file, shm, second, key>> /\ pc[p] = "shmget" /\ key[p] = file /\ file \in Keys
    BY <1>2 DEF Shmget, kernVars
  <2>2. CASE HasId(shm[file])
    <3>1. pc'[p] = "stat" /\ id'[p] = shm[file]
      BY <1>2, <2>1, <2>2 DEF Shmget
    <3>2. OneStray' /\ (second[p] => AtMostOne')
      BY <2>1 DEF OneStray, AtMostOne
    <3>3. QED
      BY <2>1, <3>1, <3>2
  <2>3. CASE ~HasId(shm[file])
    <3>1. shm[file] = NoSeg
      BY <2>1, <2>3 DEF HasId, Alive
    <3>2. AtMostOne' /\ ~second'[p] /\ pc'[p] = "remove file" /\ file' # NoKey
      BY <1>2, <2>1, <2>3, <3>1 DEF Shmget, OneStray, AtMostOne
    <3>3. QED
      BY <3>2 DEF Cleared
  <2>4. QED
    BY <2>2, <2>3
<1>3. CASE ShmStat(p)
  <2>1. UNCHANGED <<file, shm, second, key, id>> /\ pc[p] = "stat" /\ key[p] = file
        /\ file \in Keys /\ id[p] = shm[file] /\ id[p] # NoSeg
    BY <1>3 DEF ShmStat, kernVars, PlaceInv
  <2>2. Alive(id[p]) /\ Users(id[p]) = {}
    BY <2>1 DEF Alive, Users, Solitary, PlaceInv, Creating
  <2>3. pc'[p] = "rmid"
    BY <1>3, <2>2 DEF ShmStat, Unused
  <2>4. OneStray' /\ (second[p] => AtMostOne')
    BY <2>1 DEF OneStray, AtMostOne
  <2>5. QED
    BY <2>1, <2>3, <2>4
<1>4. CASE ShmRemove(p)
  <2>1. UNCHANGED <<file, second, key, id>> /\ pc[p] = "rmid" /\ file \in Keys
        /\ id[p] = shm[file] /\ id[p] # NoSeg
    BY <1>4 DEF ShmRemove, PlaceInv
  <2>2. Alive(id[p])
    BY <2>1 DEF Alive
  <2>3. shm' = RMID(id[p]) /\ pc'[p] = "remove file"
    BY <1>4, <2>2 DEF ShmRemove
  <2>4. AtMostOne' /\ (second[p] => Empty')
    BY <2>1, <2>3 DEF AtMostOne, OneStray, Empty, RMID
  <2>5. QED
    BY <2>1, <2>3, <2>4 DEF Cleared
<1>5. CASE RemoveFile(p)
  <2>1. shm' = shm /\ second' = second /\ pc[p] = "remove file" /\ pc'[p] = "create init"
    BY <1>5 DEF RemoveFile, Destroyed
  <2>2. Cleared(p)'
    BY <2>1 DEF Cleared, AtMostOne, Empty
  <2>3. QED
    BY <2>1, <2>2
<1>6. CASE CreateInit(p) \/ Lock(p) \/ MakeFile(p)
  <2>1. /\ shm' = shm /\ second' = second /\ pc[p] \in {"create init", "create lock", "file"}
        /\ pc'[p] \in {"create lock", "file", "file key"}
        /\ pc'[p] = "file key" => file' # NoKey
    BY <1>6 DEF CreateInit, Lock, MakeFile, Creating, kernVars
  <2>2. Cleared(p)'
    BY <2>1 DEF Cleared, AtMostOne, Empty
  <2>3. QED
    BY <2>1, <2>2
<1>7. CASE FileKey(p)
  <2>1. /\ UNCHANGED <<file, shm, second>> /\ pc[p] = "file key" /\ pc'[p] = "shmget excl"
        /\ key'[p] = file
    BY <1>7 DEF FileKey, Creating, kernVars
  <2>2. Cleared(p)'
    BY <2>1 DEF Cleared, AtMostOne, Empty
  <2>3. QED
    BY <2>1, <2>2
<1>8. CASE ShmgetExcl(p)
  <2>1. pc[p] = "shmget excl" /\ Cleared(p) /\ key[p] = file /\ file \in Keys
    BY <1>8 DEF ShmgetExcl, PlaceInv, Mapping
  <2>2. CASE shm[file] # NoSeg
    <3>1. ~second[p]
      BY <2>1, <2>2 DEF Cleared, Empty
    <3>2. UNCHANGED <<file, shm>> /\ pc'[p] = "ftok"
      BY <1>8, <2>1, <2>2, <3>1 DEF ShmgetExcl, Retry
    <3>3. AtMostOne' /\ OneStray'
      BY <2>1, <3>2 DEF Cleared, AtMostOne, OneStray
    <3>4. QED
      BY <2>1, <2>2, <3>2, <3>3
  <2>3. CASE shm[file] = NoSeg /\ segs = MaxSegs
    BY <1>8, <2>1, <2>3 DEF ShmgetExcl
  <2>4. CASE shm[file] = NoSeg /\ segs # MaxSegs
    <3>1. pc'[p] = "create attach" /\ key'[p] = file /\ shm'[file] = segs + 1
      BY <1>8, <2>1, <2>4 DEF ShmgetExcl
    <3>2. segs + 1 # NoSeg
      BY NextSeg
    <3>3. QED
      BY <3>1, <3>2
  <2>5. QED
    BY <2>2, <2>3, <2>4
<1>9. CASE ShmAttach(p)
  BY <1>9 DEF ShmAttach, Creating
<1>10. QED
  BY <1>1, <1>2, <1>3, <1>4, <1>5, <1>6, <1>7, <1>8, <1>9
     DEF Step, Creating, TypedSet, Failed, Write, Shmdt, DetachStat, DetachRmid, DetachFile, Gone

LEMMA AloneNext ==
  ASSUME TypeOK, NEW p \in Procs, Act(p), NEW q \in Procs, PlaceInv(q), AloneInv(q)
  PROVE  AloneInv(q)'
<1>1. CASE q # p
  BY <1>1, OthersNotAlone DEF AloneInv
<1>2. CASE q = p /\ ~Step(p) /\ ~Die(p)
  BY <1>2, AloneBegins DEF AloneInv, Act
<1>3. ASSUME q = p, Step(p) \/ Die(p), alone'[p] PROVE AloneInv(p)'
  <2>0. /\ alone \in [Procs -> BOOLEAN] /\ pc \in [Procs -> Places]
        /\ call \in [Procs -> {"none", "create", "open", "access", "leave"}]
    BY DEF TypeOK
  <2>1. /\ alone[p] /\ call' = call /\ Step(p)
        /\ pc[p] \notin {"typed set", "failed", "write", "gone"}
    BY <1>3, <2>0 DEF Die, Step, Lock, Ftok, Shmget, ShmStat, ShmRemove, RemoveFile,
         CreateInit, MakeFile, FileKey, ShmgetExcl, ShmAttach, TypedSet, Failed, Write,
         Shmdt, DetachStat, DetachRmid, DetachFile, Gone, Idle
  <2>2. Solitary(p)' /\ Solitary(p) /\ call'[p] = "create" /\ call[p] = "create"
        /\ Detaching(p) /\ PlaceInv(p) /\ AloneInv(p)
    BY <1>3, <2>1, SolitaryNext DEF AloneInv
  <2>3. CASE pc[p] \in {"detach lock", "shmdt"} \cup Leaving
    <3>1. \/ Lock(p) /\ pc[p] = "detach lock"
          \/ Shmdt(p) \/ DetachStat(p) \/ DetachRmid(p) \/ DetachFile(p)
      BY <2>1, <2>3 DEF Leaving, Step, Lock, Ftok, Shmget, ShmStat, ShmRemove, RemoveFile,
         CreateInit, MakeFile, FileKey, ShmgetExcl, ShmAttach, TypedSet, Failed, Write, Gone
    <3>2. QED
      BY <2>1, <2>2, <3>1, AloneDetaches
  <2>4. CASE pc[p] = "typed lock"
    <3>1. Lock(p)
      BY <2>1, <2>4 DEF Step, Lock, Ftok, Shmget, ShmStat, ShmRemove, RemoveFile,
         CreateInit, MakeFile, FileKey, ShmgetExcl, ShmAttach, TypedSet, Failed, Write,
         Shmdt, DetachStat, DetachRmid, DetachFile, Gone
    <3>2. pc'[p] = "typed set"
      BY <2>0, <2>4, <3>1 DEF Lock, Go
    <3>3. QED
      BY <2>2, <3>2 DEF AloneInv, Detaching
  <2>5. CASE pc[p] \in Creating
    <3>1. pc'[p] \in Creating \cup {"failed", "typed lock"}
      BY <2>0, <2>1, <2>2, <2>5
         DEF Creating, Step, Lock, Ftok, Shmget, ShmStat, ShmRemove, RemoveFile, Destroyed,
         StaleId, CreateInit, MakeFile, FileKey, ShmgetExcl, ShmAttach, TypedSet, Failed,
         Write, Shmdt, DetachStat, DetachRmid, DetachFile, Gone, Go
    <3>2. Detaching(p)'
      BY <3>1 DEF Detaching, Creating
    <3>3. \A r \in Procs : attached[r] = NoSeg
      BY <2>2, <2>5 DEF Solitary, PlaceInv
    <3>4. CASE Alive(zeroId)
      BY <2>1, <2>2, <2>5, <3>2, <3>3, <3>4, ZeroStaysAlive DEF AloneInv
    <3>5. CASE ~Alive(zeroId)
      <4>1. Trying(p)
        BY <2>1, <2>2, <2>5, <3>5 DEF AloneInv, Creating, Leaving
      <4>2. Trying(p)' \/ pc'[p] = "typed lock"
        BY <2>1, <2>2, <2>5, <3>5, <4>1, AloneTries
      <4>3. QED
        BY <2>2, <3>2, <4>2 DEF AloneInv
    <3>6. QED
      BY <3>4, <3>5
  <2>6. QED
    <3>1. pc[p] \in {"detach lock", "shmdt", "typed lock"} \cup Leaving \cup Creating
      BY <2>1, <2>2 DEF PlaceInv
    <3>2. QED
      BY <2>1, <2>3, <2>4, <2>5, <3>1
<1>4. QED
  BY <1>1, <1>2, <1>3 DEF AloneInv

-----------------------------------------------------------------------------
(* The inductive invariant, and what follows.                              *)

LEMMA InitIInv == Init => IInv
<1> SUFFICES ASSUME Init PROVE IInv
  OBVIOUS
<1> USE QtShmAssumption DEF Init, NoKey, NoSeg
<1>1. TypeOK
  <2>1. KernTypes
    BY DEF KernTypes, Segs
  <2>2. SemTypes
    <3>1. semOwner \in [Procs -> BOOLEAN] /\ forced \in BOOLEAN
      OBVIOUS
    <3>2. semval \in Nat /\ semadj \in [Procs -> Int]
      OBVIOUS
    <3>3. QED
      BY <3>1, <3>2 DEF SemTypes
  <2>3. PlaceTypes
    <3>1. /\ second \in [Procs -> BOOLEAN] /\ alone \in [Procs -> BOOLEAN] /\ cut \in BOOLEAN
          /\ pc \in [Procs -> Places]
      BY DEF Places, Holding
    <3>2. /\ call \in [Procs -> {"none", "create", "open", "access", "leave"}]
          /\ want \in [Procs -> Sizes \cup OpenSizes \cup {0}]
          /\ key \in [Procs -> Keys \cup {NoKey}] /\ id \in [Procs -> 0 .. segs]
          /\ calls \in 0 .. MaxCalls
      OBVIOUS
    <3>3. QED
      BY <3>1, <3>2 DEF PlaceTypes
  <2>4. ObjTypes
    BY DEF ObjTypes
  <2>5. QED
    BY <2>1, <2>2, <2>3, <2>4, Parts
<1>2. SemInv
  <2>1. Holders = {} /\ Debtors = {}
    <3>1. Holders = {}
      BY DEF Holders, Holding
    <3>2. \A p \in Procs : semadj[p] # -1
      OBVIOUS
    <3>3. QED
      BY <3>1, <3>2 DEF Debtors
  <2>2. Cardinality(Holders) = 0 /\ Cardinality(Debtors) = 0
    BY <2>1, FS_EmptySet
  <2>3. \A p \in Procs : semadj[p] \in IF p \in Holders THEN {0, 1} ELSE {-1, 0}
    BY <2>1
  <2>4. semval = 1
    OBVIOUS
  <2>5. QED
    BY <2>1, <2>2, <2>3, <2>4 DEF SemInv
<1>3. FileInv
  BY DEF FileInv, Mapping
<1>4. ASSUME NEW p \in Procs PROVE PlaceInv(p) /\ UseInv(p) /\ AloneInv(p)
  <2>1. PlaceInv(p)
    BY DEF PlaceInv, Creating, Opening, Leaving, Mapping
  <2>2. pc[p] = "idle" /\ m_classSize[p] = 0 /\ ~alone[p]
    OBVIOUS
  <2>3. UseInv(p)
    BY <2>2, NotPositive, Zenon DEF UseInv
  <2>4. QED
    BY <2>1, <2>2, <2>3, Zenon DEF AloneInv
<1>5. QED
  BY <1>1, <1>2, <1>3, <1>4 DEF IInv

LEMMA NextIInv == IInv /\ [Next]_vars => IInv'
<1>1. ASSUME IInv, NEW p \in Procs, Act(p) PROVE IInv'
  <2>1. TypeOK /\ SemInv /\ FileInv /\ \A q \in Procs : PlaceInv(q) /\ UseInv(q) /\ AloneInv(q)
    BY <1>1, Zenon DEF IInv
  <2>2. KernTypes' /\ SemTypes' /\ PlaceTypes' /\ ObjTypes'
    BY <1>1, <2>1, Parts, KernTypesNext, SemTypesNext, PlaceTypesNext, ObjTypesNext
  <2>3. TypeOK'
    BY <2>2 DEF TypeOK, KernTypes, SemTypes, PlaceTypes, ObjTypes
  <2>4. SemInv'
    BY <1>1, <2>1, SemNext
  <2>5. FileInv'
    BY <1>1, <2>1, FileNext
  <2>6. \A q \in Procs : PlaceInv(q)' /\ UseInv(q)' /\ AloneInv(q)'
    BY <1>1, <2>1, PlaceNext, UseNext, AloneNext
  <2>7. QED
    BY <2>3, <2>4, <2>5, <2>6, Zenon DEF IInv
<1>2. ASSUME IInv, UNCHANGED vars PROVE IInv'
  <2>1. UNCHANGED <<file, shm, segs, segSize, zeroId, attached, semval, semadj, semOwner, forced,
                    pc, call, want, second, key, id, m_createShm, m_data, m_classSize, failed,
                    alone, cut, calls>>
    BY <1>2 DEF vars, kernVars, semVars, pcVars, objVars
  <2>2. TypeOK' /\ FileInv'
    BY <1>2, <2>1 DEF IInv, TypeOK, FileInv, Current
  <2>3. SemInv'
    BY <1>2, <2>1 DEF IInv, SemInv, Holders, Debtors
  <2>4. ASSUME NEW q \in Procs PROVE PlaceInv(q)' /\ UseInv(q)' /\ AloneInv(q)'
    <3>1. PlaceInv(q) /\ UseInv(q) /\ AloneInv(q)
      BY <1>2, Zenon DEF IInv
    <3>2. PlaceInv(q)' /\ UseInv(q)'
      BY <2>1, <3>1 DEF PlaceInv, UseInv
    <3>3. AloneInv(q)'
      BY <2>1, <3>1 DEF AloneInv, Solitary, Detaching, Trying, Cleared, Empty, AtMostOne,
                        OneStray, Alive, Users
    <3>4. QED
      BY <3>2, <3>3
  <2>5. QED
    BY <2>2, <2>3, <2>4, Zenon DEF IInv
<1>3. QED
  BY <1>1, <1>2 DEF Next, Act

\* The strengthening holds in every reachable state.
THEOREM Inductive == Spec => []IInv
BY InitIInv, NextIInv, PTL DEF Spec

\* Processes that share a key share memory, unless a file or a segment was
\* removed that others had or were about to map (destory, detach, and the
\* readers that attach by the key file).
THEOREM SharedByAll == Spec => []OneSegment
<1>1. IInv => OneSegment
  BY DEF IInv, FileInv, OneSegment
<1>2. QED
  BY <1>1, Inductive, PTL

\* A create that runs alone, over whatever dead processes left behind, does not
\* fail while the kernel has room, no segment has the id 0, and no more than one
\* lost its file (newcreateData, destory).
THEOREM CreateSucceeds == Spec => []CreatorRecovers
<1>1. IInv => CreatorRecovers
  <2> SUFFICES ASSUME IInv, NEW p \in Procs, alone[p], pc[p] = "failed"
               PROVE  segs = MaxSegs \/ Alive(zeroId)
    BY DEF CreatorRecovers
  <2>1. AloneInv(p)
    BY DEF IInv
  <2>2. QED
    BY <2>1 DEF AloneInv, Leaving, Trying
<1>2. QED
  BY <1>1, Inductive, PTL

\* The semaphore of the key excludes until it is set under a holder, and is
\* never taken by nobody, however processes set, undo and remove it.
THEOREM SemaphoreKept == Spec => []WritersExclude
<1>1. IInv => WritersExclude
  <2> SUFFICES ASSUME IInv PROVE WritersExclude
    OBVIOUS
  <2>1. SemInv /\ semval \in Nat /\ Holders \subseteq Procs /\ Debtors \subseteq Procs
    BY DEF IInv, TypeOK, Holders, Debtors
  <2>2. Cardinality(Holders) \in Nat /\ Cardinality(Debtors) \in Nat
    <3>1. IsFiniteSet(Holders) /\ IsFiniteSet(Debtors)
      BY <2>1, FS_Subset, QtShmAssumption
    <3>2. QED
      BY <3>1, FS_CardinalityType
  <2>3. \A n, d \in Nat : n >= 1 + d => n >= 1
    OBVIOUS
  <2>4. QED
    BY <2>1, <2>2, <2>3 DEF SemInv, WritersExclude
<1>2. QED
  BY <1>1, Inductive, PTL

\* A process writes inside the segment it has mapped, unless a call of its own
\* failed before (creat_data, read_creat_data and the pointer they set).
THEOREM WritesMapped == Spec => []AccessMapped
<1>1. IInv => AccessMapped
  <2> SUFFICES ASSUME IInv, NEW p \in Procs, pc[p] = "write", ~failed[p]
               PROVE  m_data[p] # NoSeg /\ m_data[p] = attached[p]
                        /\ m_classSize[p] <= segSize[m_data[p]]
    BY DEF AccessMapped
  <2>1. UseInv(p)
    BY Zenon DEF IInv
  <2>2. pc[p] \in {"write lock", "write"} /\ pc[p] \in {"idle", "write lock", "write"}
    OBVIOUS
  <2>3. QED
    BY <2>1, <2>2, Zenon DEF UseInv
<1>2. QED
  BY <1>1, Inductive, PTL

=============================================================================
