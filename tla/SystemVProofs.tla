--------------------------- MODULE SystemVProofs ----------------------------
(***************************************************************************)
(* Proofs about the System V objects: SystemSem, SysShm, whose lock()      *)
(* takes such a semaphore, and MsgQueue.  Each has a state of its own; the *)
(* names of SysShm and MsgQueue are prefixed for the three to be read here.*)
(*                                                                         *)
(* SystemSem, for every finite set of processes, every set of names, and   *)
(* every number of files, semaphores and deaths: the types, the fate of    *)
(* the token, and mutual exclusion.  The parts of IInv: what holds always  *)
(* (TypeOK, PlaceInv and SomeoneSetsIt), and what holds until something is *)
(* removed or reset: no semaphore is gone (SemsStay), the object of each   *)
(* process has the semaphore of its name (ObjInv), one process sets a new  *)
(* one (SetInv), and the kernel's record is of those inside (TakeInv).     *)
(***************************************************************************)
EXTENDS SystemSem, SysShm, MsgQueue, FiniteSetTheorems, SequenceTheorems,
        WellFoundedInduction, TLAPS

Setting == {"setval", "setnum"}
Inside  == {"locked", "give"}

\* What setKey and the destructor leave to the steps that follow.
PlaceInv(p) ==
  /\ pc[p] \in {"mkfile", "ftok"} => m_key[p] \in Names
  /\ pc[p] = "get2" => m_semKey[p] # 0
  /\ pc[p] \in {"idle", "mkfile", "ftok", "setnum"} => op[p] = "open"
  /\ newKey[p] # NoName => pc[p] \in {"unfile", "rmid"} /\ op[p] = "open"
  /\ op[p] = "close" => pc[p] \in {"unfile", "rmid"}

SemsStay == \A s \in 1 .. sems : \E k \in Keys : semOf[k] = s

\* The key leads from the name to the object's semaphore.
Mine(p) ==
  m_semId[p] # 0 =>
    /\ m_key[p] # NoName
    /\ m_key[p] = Number => semOf[NumKey] = m_semId[p]
    /\ m_key[p] \in Names /\ p \notin kept =>
         file[m_key[p]] # 0 /\ semOf[file[m_key[p]]] = m_semId[p]

ObjInv(p) ==
  /\ Mine(p)
  /\ pc[p] \in {"get", "get2", "setval", "done"} =>
       op[p] = "open" /\ m_key[p] \in Names
  /\ pc[p] \in {"ftok", "get", "get2"} => file[m_key[p]] # 0
  /\ pc[p] \in {"get", "get2"} => m_semId[p] = 0 /\ m_semKey[p] = file[m_key[p]]
  /\ pc[p] = "get2" => semOf[m_semKey[p]] # 0
  /\ pc[p] \in Setting \cup Inside \cup {"take"} => m_semId[p] # 0

SetInv ==
  /\ \A s \in Sems : s > sems => inited[s] = 0
  /\ \A p \in Procs : pc[p] \in Setting => inited[m_semId[p]] = 0
  /\ \A p, q \in Procs :
       pc[p] \in Setting /\ pc[q] \in Setting /\ m_semId[p] = m_semId[q] => p = q

\* The kernel's record of a semaphore is of those inside.
Record(s) ==
  /\ \A p \in Procs : adj[s][p] = IF pc[p] \in Inside /\ m_semId[p] = s THEN 1 ELSE 0
  /\ value[s] + Cardinality(Takers(s)) = inited[s]

TakeInv == \A s \in Sems : Record(s)

CalmInv == SemsStay /\ (\A p \in Procs : ObjInv(p)) /\ SetInv /\ TakeInv

IInv == /\ TypeOK /\ SomeoneSetsIt
        /\ \A p \in Procs : PlaceInv(p)
        /\ ~disturbed => CalmInv

Act(p) ==
  \/ \E n \in Names, md \in {"Open", "Create"} : SetKey(p, n, md)
  \/ ReadSemKey(p) \/ CreateSem(p)
  \/ Acquire(p, "take") \/ Acquire(p, "try") \/ Destruct(p) \/ Die(p) \/ Step(p)

-----------------------------------------------------------------------------
(* What a step of one process leaves alone.                                *)

LEMMA OthersStay ==
  ASSUME TypeOK, NEW p \in Procs, Act(p), NEW q \in Procs, q # p
  PROVE  /\ pc'[q] = pc[q] /\ op'[q] = op[q] /\ m_key'[q] = m_key[q]
         /\ newKey'[q] = newKey[q] /\ m_semKey'[q] = m_semKey[q] /\ m_semId'[q] = m_semId[q]
         /\ q \in kept' <=> q \in kept
<1> USE DEF TypeOK, Go, Rest, objVars, histVars
<1>1. ASSUME NEW n \in Names, NEW md \in {"Open", "Create"}, SetKey(p, n, md)
      PROVE  /\ pc'[q] = pc[q] /\ op'[q] = op[q] /\ m_key'[q] = m_key[q]
             /\ newKey'[q] = newKey[q] /\ m_semKey'[q] = m_semKey[q]
             /\ m_semId'[q] = m_semId[q] /\ (q \in kept' <=> q \in kept)
  BY <1>1 DEF SetKey, LookForFile
<1>2. CASE ReadSemKey(p) \/ CreateSem(p) \/ Acquire(p, "take") \/ Acquire(p, "try")
           \/ Destruct(p) \/ Release(p) \/ TimeOver(p) \/ NoKey(p)
  BY <1>2 DEF ReadSemKey, CreateSem, NewSem, Acquire, Destruct, Release, TimeOver, NoKey
<1>3. CASE MakeFile(p) \/ Ftok(p) \/ GetExcl(p) \/ GetOpen(p)
  BY <1>3 DEF MakeFile, Ftok, GetExcl, GetOpen, NewSem
<1>4. CASE SetVal(p) \/ SetNum(p) \/ Handled(p) \/ Take(p) \/ Give(p) \/ Regain(p)
  BY <1>4 DEF SetVal, SetNum, Handled, Take, Give, Semop, Regain
<1>5. CASE RemoveFile(p) \/ Die(p)
  BY <1>5 DEF RemoveFile, Die
<1>6. CASE RemoveSem(p)
  BY <1>6 DEF RemoveSem, LookForFile
<1>7. QED
  BY <1>1, <1>2, <1>3, <1>4, <1>5, <1>6 DEF Act, Step

-----------------------------------------------------------------------------
(* Types, part by part.                                                    *)

KernTypes ==
  /\ file \in [Names -> 0 .. files] /\ files \in 0 .. MaxFiles /\ sems \in 0 .. MaxSems
  /\ semOf \in [Keys -> 0 .. sems] /\ value \in [Sems -> Nat]
  /\ adj \in [Sems -> [Procs -> Int]]

PcTypes ==
  /\ pc \in [Procs -> {"idle", "mkfile", "ftok", "get", "get2", "setval", "setnum", "done",
                       "take", "locked", "give", "unfile", "rmid"}]
  /\ op \in [Procs -> {"open", "take", "try", "give", "close"}]
  /\ mode \in [Procs -> {"Open", "Create"}]

ObjTypes ==
  /\ m_key \in [Procs -> Names \cup {NoName, Number}]
  /\ newKey \in [Procs -> Names \cup {NoName}]
  /\ m_semKey \in [Procs -> (0 .. files) \cup {NumKey}] /\ m_semId \in [Procs -> 0 .. sems]

FlagTypes ==
  /\ m_created \in [Procs -> BOOLEAN] /\ m_createdFile \in [Procs -> BOOLEAN]
  /\ \A p \in Procs : m_created[p] => m_semId[p] # 0
  /\ disturbed \in BOOLEAN

HistTypes ==
  /\ inited \in [Sems -> {0, 1}] /\ abandoned \subseteq 1 .. sems
  /\ kept \subseteq Procs /\ deaths \in 0 .. MaxDeaths

LEMMA Parts == TypeOK <=> KernTypes /\ PcTypes /\ ObjTypes /\ FlagTypes /\ HistTypes
BY DEF TypeOK, KernTypes, PcTypes, ObjTypes, FlagTypes, HistTypes

\* Files and semaphores are numbered on and on.
LEMMA Grow ==
  ASSUME TypeOK, NEW p \in Procs, Act(p)
  PROVE  /\ files' \in {files, files + 1} /\ files' \in 0 .. MaxFiles
         /\ sems' \in {sems, sems + 1} /\ sems' \in 0 .. MaxSems
         /\ 0 .. files \subseteq 0 .. files' /\ 0 .. sems \subseteq 0 .. sems'
<1>1. /\ files' = files \/ (files' = files + 1 /\ files < MaxFiles)
      /\ sems' = sems \/ (sems' = sems + 1 /\ sems < MaxSems)
  BY DEF Act, Step, SetKey, ReadSemKey, CreateSem, NewSem, Acquire, Destruct, Die, MakeFile,
         Ftok, NoKey, GetExcl, GetOpen, SetVal, SetNum, Handled, Release, Take, Give, Semop,
         TimeOver, Regain, RemoveFile, RemoveSem, kernVars
<1>2. files \in 0 .. MaxFiles /\ sems \in 0 .. MaxSems /\ MaxFiles \in Nat /\ MaxSems \in Nat
  BY SemAssumption DEF TypeOK
<1>3. QED
  BY <1>1, <1>2

LEMMA ExistsSem ==
  ASSUME TypeOK, NEW s, Exists(s)
  PROVE  s \in 1 .. sems /\ s \in Sems
<1>1. \A k \in Keys : semOf[k] \in 0 .. sems /\ sems \in 0 .. MaxSems /\ MaxSems \in Nat
  BY SemAssumption DEF TypeOK
<1>2. s # 0 /\ s \in 0 .. sems /\ sems \in 0 .. MaxSems /\ MaxSems \in Nat
  BY <1>1 DEF Exists
<1>3. QED
  BY <1>2 DEF Sems

LEMMA SemKeys ==
  ASSUME TypeOK, NEW p \in Procs, m_semKey[p] # 0
  PROVE  m_semKey[p] \in Keys
<1>1. m_semKey[p] \in (0 .. files) \cup {MaxFiles + 1} /\ files \in 0 .. MaxFiles
      /\ MaxFiles \in Nat
  BY SemAssumption DEF TypeOK, NumKey
<1>2. QED
  BY <1>1 DEF Keys, NumKey

LEMMA NumKeys == NumKey \in Keys
BY SemAssumption DEF Keys, NumKey

LEMMA KernTypesNext ==
  ASSUME TypeOK, NEW p \in Procs, Act(p)
  PROVE  KernTypes'
<1>0. /\ files' \in {files, files + 1} /\ files' \in 0 .. MaxFiles
      /\ sems' \in {sems, sems + 1} /\ sems' \in 0 .. MaxSems
      /\ 0 .. files \subseteq 0 .. files' /\ 0 .. sems \subseteq 0 .. sems'
  BY Grow
<1>00. /\ file \in [Names -> 0 .. files] /\ files \in 0 .. MaxFiles /\ sems \in 0 .. MaxSems
       /\ semOf \in [Keys -> 0 .. sems] /\ value \in [Sems -> Nat]
       /\ adj \in [Sems -> [Procs -> Int]]
  BY DEF TypeOK
<1>1. CASE UNCHANGED kernVars
  BY <1>00, <1>1 DEF KernTypes, kernVars
<1>2. ASSUME semOf' \in [Keys -> 0 .. sems'], value' \in [Sems -> Nat],
             adj' \in [Sems -> [Procs -> Int]], file' \in [Names -> 0 .. files']
      PROVE  KernTypes'
  BY <1>0, <1>2 DEF KernTypes
<1>3. CASE MakeFile(p)
  <2>1. UNCHANGED <<semOf, sems, value, adj>>
        /\ (UNCHANGED <<file, files>> \/ (file' = [file EXCEPT ![m_key[p]] = files + 1] /\ files' = files + 1))
    BY <1>3 DEF MakeFile
  <2>2. files + 1 \in 0 .. files + 1
    BY <1>00
  <2>3. file' \in [Names -> 0 .. files']
    BY <1>0, <1>00, <2>1, <2>2
  <2>4. QED
    BY <1>00, <1>2, <2>1, <2>3
<1>4. CASE CreateSem(p) \/ GetExcl(p) \/ GetOpen(p)
  <2>1. /\ UNCHANGED <<file, files, value, adj>>
        /\ UNCHANGED <<semOf, sems>> \/ \E k : semOf' = [semOf EXCEPT ![k] = sems + 1] /\ sems' = sems + 1
    BY <1>4 DEF CreateSem, GetExcl, GetOpen, NewSem, kernVars
  <2>2. sems + 1 \in 0 .. sems + 1
    BY <1>00
  <2>3. semOf' \in [Keys -> 0 .. sems']
    BY <1>0, <1>00, <2>1, <2>2
  <2>4. QED
    BY <1>00, <1>2, <2>1, <2>3
<1>5. CASE SetVal(p) \/ SetNum(p)
  <2>1. /\ UNCHANGED <<file, files, semOf, sems>>
        /\ \/ UNCHANGED <<value, adj>>
           \/ \E v \in {0, 1} : value' = [value EXCEPT ![m_semId[p]] = v]
                /\ adj' = [adj EXCEPT ![m_semId[p]] = [q \in Procs |-> 0]]
    BY <1>5 DEF SetVal, SetNum, InitVal, m_initVal
  <2>2. [q \in Procs |-> 0] \in [Procs -> Int]
    OBVIOUS
  <2>3. value' \in [Sems -> Nat] /\ adj' \in [Sems -> [Procs -> Int]]
    BY <1>00, <2>1, <2>2
  <2>4. QED
    BY <1>00, <1>2, <2>1, <2>3
<1>6. CASE Take(p) \/ Give(p)
  <2>1. PICK c \in {-1, 1} : Semop(p, c)
    BY <1>6 DEF Take, Give
  <2>2. UNCHANGED <<file, files, semOf, sems>> /\ m_semId[p] \in Sems
        /\ value[m_semId[p]] + c >= 0
        /\ value' = [value EXCEPT ![m_semId[p]] = @ + c]
        /\ adj' = [adj EXCEPT ![m_semId[p]][p] = @ - c]
    BY <2>1, ExistsSem DEF Semop, UndoOf
  <2>3. \A v \in Nat, a \in Int : (v + c >= 0 => v + c \in Nat) /\ a - c \in Int
    OBVIOUS
  <2>4. value' \in [Sems -> Nat]
    BY <1>00, <2>2, <2>3
  <2>5. adj' \in [Sems -> [Procs -> Int]]
    BY <1>00, <2>2, <2>3
  <2>6. QED
    BY <1>00, <1>2, <2>2, <2>4, <2>5
<1>7. CASE RemoveFile(p)
  <2>1. UNCHANGED <<files, semOf, sems, value, adj>>
        /\ (file' = file \/ file' = [file EXCEPT ![m_key[p]] = 0])
    BY <1>7 DEF RemoveFile
  <2>2. 0 \in 0 .. files
    BY <1>00, SemAssumption
  <2>3. QED
    BY <1>00, <1>2, <2>1, <2>2
<1>8. CASE RemoveSem(p)
  <2>1. /\ UNCHANGED <<file, files, sems>>
        /\ semOf' \in {semOf, [k \in Keys |-> IF semOf[k] = m_semId[p] THEN 0 ELSE semOf[k]]}
        /\ value' \in {value, [value EXCEPT ![m_semId[p]] = 0]}
        /\ adj' \in {adj, [adj EXCEPT ![m_semId[p]] = [q \in Procs |-> 0]]}
    BY <1>8 DEF RemoveSem
  <2>2. 0 \in 0 .. sems
    BY <1>00, SemAssumption
  <2>3. semOf' \in [Keys -> 0 .. sems]
    BY <1>00, <2>1, <2>2
  <2>4. [q \in Procs |-> 0] \in [Procs -> Int]
    OBVIOUS
  <2>5. value' \in [Sems -> Nat] /\ adj' \in [Sems -> [Procs -> Int]]
    BY <1>00, <2>1, <2>4
  <2>6. QED
    BY <1>00, <1>2, <2>1, <2>3, <2>5
<1>9. CASE Die(p)
  <2>1. /\ UNCHANGED <<file, files, semOf, sems>>
        /\ value' = [s \in Sems |-> Undone(s, p)]
        /\ adj' = [s \in Sems |-> [adj[s] EXCEPT ![p] = 0]]
    BY <1>9 DEF Die
  <2>2. \A v \in Nat, a \in Int : (IF v + a < 0 THEN 0 ELSE v + a) \in Nat
    OBVIOUS
  <2>3. \A s \in Sems : Undone(s, p) \in Nat
    BY <1>00, <2>2 DEF Undone
  <2>4. value' \in [Sems -> Nat]
    BY <2>1, <2>3
  <2>5. adj' \in [Sems -> [Procs -> Int]]
    BY <1>00, <2>1
  <2>6. QED
    BY <1>00, <1>2, <2>1, <2>4, <2>5
<1>10. QED
  BY <1>1, <1>3, <1>4, <1>5, <1>6, <1>7, <1>8, <1>9
     DEF Act, Step, SetKey, ReadSemKey, Acquire, Destruct, Ftok, NoKey, Handled, Release,
         TimeOver, Regain

LEMMA PcTypesNext ==
  ASSUME PcTypes, NEW p \in Procs, PlaceInv(p), Act(p)
  PROVE  PcTypes'
<1>1. \A where \in {"idle", "mkfile", "ftok", "get", "get2", "setval", "setnum", "done",
                    "take", "locked", "give", "unfile", "rmid"} :
        Go(p, where) => pc' \in [Procs -> {"idle", "mkfile", "ftok", "get", "get2", "setval",
                          "setnum", "done", "take", "locked", "give", "unfile", "rmid"}]
  BY DEF PcTypes, Go
<1>2. \A how \in {"open", "take", "try", "give", "close"} :
        op' = [op EXCEPT ![p] = how] => op' \in [Procs -> {"open", "take", "try", "give", "close"}]
  BY DEF PcTypes
<1>3. \A md \in {"Open", "Create"} :
        mode' = [mode EXCEPT ![p] = md] => mode' \in [Procs -> {"Open", "Create"}]
  BY DEF PcTypes
<1> USE <1>1, <1>2, <1>3 DEF PcTypes, Rest
<1>4. ASSUME NEW n \in Names, NEW md \in {"Open", "Create"}, SetKey(p, n, md) PROVE PcTypes'
  BY <1>4 DEF SetKey, LookForFile
<1>5. CASE ReadSemKey(p) \/ CreateSem(p) \/ Acquire(p, "take") \/ Acquire(p, "try")
           \/ Destruct(p) \/ Release(p) \/ TimeOver(p) \/ NoKey(p)
  BY <1>5 DEF ReadSemKey, CreateSem, NewSem, Acquire, Destruct, Release, TimeOver, NoKey
<1>6. CASE MakeFile(p) \/ Ftok(p) \/ GetExcl(p) \/ GetOpen(p)
  BY <1>6 DEF MakeFile, Ftok, GetExcl, AfterNew, GetOpen
<1>7. CASE SetVal(p) \/ SetNum(p) \/ Take(p) \/ Give(p) \/ Regain(p)
  BY <1>7 DEF SetVal, SetNum, Take, Give, Semop, Regain
<1>8. CASE Handled(p)
  <2>1. op[p] \in {"open", "take", "try", "give"}
    BY <1>8 DEF Handled, PlaceInv
  <2>2. QED
    BY <1>8, <2>1 DEF Handled
<1>9. CASE RemoveFile(p) \/ Die(p) \/ RemoveSem(p)
  BY <1>9 DEF RemoveFile, Die, RemoveSem, LookForFile
<1>10. QED
  BY <1>4, <1>5, <1>6, <1>7, <1>8, <1>9 DEF Act, Step

LEMMA ObjTypesNext ==
  ASSUME TypeOK, NEW p \in Procs, PlaceInv(p), Act(p)
  PROVE  ObjTypes'
<1>0. /\ 0 .. files \subseteq 0 .. files' /\ 0 .. sems \subseteq 0 .. sems'
      /\ 0 \in 0 .. files /\ 0 \in 0 .. sems
      /\ file \in [Names -> 0 .. files] /\ semOf \in [Keys -> 0 .. sems]
      /\ m_key \in [Procs -> Names \cup {NoName, Number}]
      /\ newKey \in [Procs -> Names \cup {NoName}]
      /\ m_semKey \in [Procs -> (0 .. files) \cup {NumKey}] /\ m_semId \in [Procs -> 0 .. sems]
  BY Grow, SemAssumption DEF TypeOK
<1> USE <1>0
<1>1. ASSUME \E k \in Names \cup {NoName, Number} : m_key' \in {m_key, [m_key EXCEPT ![p] = k]},
             \E k \in Names \cup {NoName} : newKey' \in {newKey, [newKey EXCEPT ![p] = k]},
             \E k \in (0 .. files) \cup {NumKey} : m_semKey' \in {m_semKey, [m_semKey EXCEPT ![p] = k]},
             \E s \in 0 .. sems' : m_semId' \in {m_semId, [m_semId EXCEPT ![p] = s]}
      PROVE  ObjTypes'
  <2>1. m_key' \in [Procs -> Names \cup {NoName, Number}] /\ newKey' \in [Procs -> Names \cup {NoName}]
    BY <1>1
  <2>2. m_semKey' \in [Procs -> (0 .. files') \cup {NumKey}]
    BY <1>1
  <2>3. m_semId' \in [Procs -> 0 .. sems']
    BY <1>1
  <2>4. QED
    BY <2>1, <2>2, <2>3 DEF ObjTypes
<1>2. ASSUME NEW n \in Names, NEW md \in {"Open", "Create"}, SetKey(p, n, md) PROVE ObjTypes'
  BY <1>1, <1>2 DEF SetKey
<1>3. CASE Acquire(p, "take") \/ Acquire(p, "try") \/ Destruct(p) \/ Release(p) \/ TimeOver(p)
           \/ NoKey(p) \/ SetNum(p) \/ Take(p) \/ Give(p) \/ Handled(p) \/ MakeFile(p)
  <2>1. UNCHANGED <<m_key, newKey, m_semKey, m_semId>>
    BY <1>3 DEF Acquire, Destruct, Release, TimeOver, NoKey, SetNum, Take, Give, Semop, Handled,
                MakeFile, objVars
  <2>2. QED
    BY <1>1, <2>1
<1>4. CASE ReadSemKey(p)
  <2>1. semOf[NumKey] \in 0 .. sems'
    BY NumKeys
  <2>2. QED
    BY <1>1, <1>4, <2>1 DEF ReadSemKey
<1>5. CASE CreateSem(p) \/ GetExcl(p)
  <2>1. /\ newKey' = newKey /\ m_semKey' = m_semKey
        /\ m_key' = m_key \/ m_key' = [m_key EXCEPT ![p] = Number]
        /\ m_semId' = m_semId \/ (m_semId' = [m_semId EXCEPT ![p] = sems + 1] /\ sems' = sems + 1)
    BY <1>5 DEF CreateSem, GetExcl, NewSem
  <2>2. sems + 1 \in 0 .. sems + 1
    BY SemAssumption DEF TypeOK
  <2>3. QED
    BY <1>1, <2>1, <2>2
<1>6. CASE GetOpen(p)
  <2>1. /\ newKey' = newKey /\ m_semKey' = m_semKey /\ m_key' = m_key
        /\ m_semId' = [m_semId EXCEPT ![p] = semOf[Key(p)]]
             \/ (m_semId' = [m_semId EXCEPT ![p] = sems + 1] /\ sems' = sems + 1)
    BY <1>6 DEF GetOpen, NewSem
  <2>2. sems + 1 \in 0 .. sems + 1
    BY SemAssumption DEF TypeOK
  <2>3. semOf[Key(p)] \in 0 .. sems'
    BY <1>6, SemKeys DEF GetOpen, PlaceInv, Key
  <2>4. QED
    BY <1>1, <2>1, <2>2, <2>3
<1>7. CASE Ftok(p)
  <2>1. file[m_key[p]] \in 0 .. files
    BY <1>7 DEF Ftok, PlaceInv
  <2>2. QED
    BY <1>1, <1>7, <2>1 DEF Ftok
<1>8. CASE SetVal(p) \/ Regain(p) \/ RemoveFile(p)
  <2>1. UNCHANGED <<m_key, newKey>> /\ m_semKey' \in {m_semKey, [m_semKey EXCEPT ![p] = 0]}
        /\ m_semId' \in {m_semId, [m_semId EXCEPT ![p] = 0]}
    BY <1>8 DEF SetVal, Regain, RemoveFile
  <2>2. QED
    BY <1>1, <2>1
<1>9. CASE RemoveSem(p) \/ Die(p)
  <2>1. /\ \E k \in Names \cup {NoName} : m_key' = [m_key EXCEPT ![p] = k] \/ m_key' = m_key
        /\ newKey' = newKey \/ newKey' = [newKey EXCEPT ![p] = NoName]
        /\ m_semKey' = [m_semKey EXCEPT ![p] = 0]
        /\ m_semId' \in {m_semId, [m_semId EXCEPT ![p] = 0]}
    <3>1. CASE Die(p)
      BY <3>1 DEF Die
    <3>2. CASE RemoveSem(p)
      <4>1. newKey[p] \in Names \cup {NoName}
        OBVIOUS
      <4>2. m_key' = [m_key EXCEPT ![p] = newKey[p]] \/ m_key' = [m_key EXCEPT ![p] = NoName]
              \/ m_key' = m_key
        BY <3>2 DEF RemoveSem
      <4>3. QED
        BY <3>2, <4>1, <4>2 DEF RemoveSem
    <3>3. QED
      BY <1>9, <3>1, <3>2
  <2>2. QED
    BY <1>1, <2>1
<1>10. QED
  BY <1>2, <1>3, <1>4, <1>5, <1>6, <1>7, <1>8, <1>9 DEF Act, Step

\* An object that will remove a semaphore knows which one.
LEMMA FlagTypesNext ==
  ASSUME TypeOK, NEW p \in Procs, Act(p)
  PROVE  FlagTypes'
<1>0. /\ m_created \in [Procs -> BOOLEAN] /\ m_createdFile \in [Procs -> BOOLEAN]
      /\ \A q \in Procs : m_created[q] => m_semId[q] # 0
      /\ disturbed \in BOOLEAN /\ m_semId \in [Procs -> 0 .. sems]
  BY DEF TypeOK
<1> USE <1>0
<1>1. disturbed' \in BOOLEAN
  BY DEF Act, Step, SetKey, ReadSemKey, CreateSem, NewSem, Acquire, Destruct, Die, MakeFile,
         Ftok, NoKey, GetExcl, GetOpen, SetVal, SetNum, Handled, Release, Take, Give, Semop,
         TimeOver, Regain, RemoveFile, RemoveSem, histVars
<1>2. m_createdFile' \in [Procs -> BOOLEAN]
  <2>1. \/ m_createdFile' = m_createdFile
        \/ \E b \in BOOLEAN : m_createdFile' = [m_createdFile EXCEPT ![p] = b]
    BY DEF Act, Step, SetKey, LookForFile, ReadSemKey, CreateSem, Acquire, Destruct, Die,
           MakeFile, Ftok, NoKey, GetExcl, GetOpen, SetVal, SetNum, Handled, Claims, Release,
           Take, Give, Semop, TimeOver, Regain, RemoveFile, RemoveSem, objVars
  <2>2. QED
    BY <2>1
<1>3. /\ m_created' \in [Procs -> BOOLEAN]
      /\ \A q \in Procs : m_created'[q] => m_semId'[q] # 0
  <2>1. CASE UNCHANGED <<m_created, m_semId>>
    BY <2>1
  <2>2. CASE m_created' = [m_created EXCEPT ![p] = FALSE]
             /\ \E s : m_semId' \in {m_semId, [m_semId EXCEPT ![p] = s]}
    BY <2>2
  <2>3. CASE \/ ReadSemKey(p) \/ CreateSem(p) \/ GetExcl(p) \/ GetOpen(p)
    <3>1. /\ \E b \in BOOLEAN : m_created' \in {m_created, [m_created EXCEPT ![p] = b]}
          /\ \/ m_semId' = m_semId /\ m_created' = m_created
             \/ \E s : s # 0 /\ m_semId' = [m_semId EXCEPT ![p] = s]
      <4>1. sems + 1 # 0
        BY SemAssumption DEF TypeOK
      <4>2. CASE ReadSemKey(p)
        BY <4>2 DEF ReadSemKey
      <4>3. CASE CreateSem(p)
        BY <4>1, <4>3 DEF CreateSem, NewSem
      <4>4. CASE GetExcl(p)
        BY <4>1, <4>4 DEF GetExcl, NewSem
      <4>5. CASE GetOpen(p)
        <5>1. \E b \in BOOLEAN : m_created' = [m_created EXCEPT ![p] = b]
          BY <4>5 DEF GetOpen, Claims
        <5>2. QED
          BY <4>1, <4>5, <5>1 DEF GetOpen, NewSem
      <4>6. QED
        BY <2>3, <4>2, <4>3, <4>4, <4>5
    <3>2. QED
      BY <3>1
  <2>4. QED
    BY <2>1, <2>2, <2>3 DEF Act, Step, SetKey, Acquire, Destruct, Die, MakeFile, Ftok, NoKey,
       SetVal, SetNum, Handled, Release, Take, Give, Semop, TimeOver, Regain, Disowned,
       RemoveFile, RemoveSem, objVars
<1>4. QED
  BY <1>1, <1>2, <1>3 DEF FlagTypes

LEMMA DeathsBound == \A k \in 0 .. MaxDeaths : k < MaxDeaths => k + 1 \in 0 .. MaxDeaths
BY SemAssumption

LEMMA HistTypesNext ==
  ASSUME TypeOK, NEW p \in Procs, Act(p)
  PROVE  HistTypes'
<1>0. /\ inited \in [Sems -> {0, 1}] /\ abandoned \subseteq 1 .. sems
      /\ kept \subseteq Procs /\ deaths \in 0 .. MaxDeaths
      /\ sems' \in {sems, sems + 1} /\ sems' \in 0 .. MaxSems /\ sems \in 0 .. MaxSems
      /\ MaxSems \in Nat
  BY Grow, SemAssumption DEF TypeOK
<1>1. /\ inited' \in {inited, [inited EXCEPT ![m_semId[p]] = 1]}
      /\ kept' \in {kept, kept \cup {p}, kept \ {p}}
      /\ deaths' = deaths \/ (deaths < MaxDeaths /\ deaths' = deaths + 1)
  BY DEF Act, Step, SetKey, ReadSemKey, CreateSem, NewSem, Acquire, Destruct, Die, MakeFile,
         Ftok, NoKey, GetExcl, GetOpen, SetVal, SetNum, Handled, Release, Take, Give, Semop,
         TimeOver, Regain, RemoveFile, RemoveSem, histVars
<1>2. inited' \in [Sems -> {0, 1}] /\ kept' \subseteq Procs
  BY <1>0, <1>1
<1>3. deaths' \in 0 .. MaxDeaths
  BY <1>0, <1>1, DeathsBound
<1>4. abandoned' \subseteq 1 .. sems'
  <2>1. 1 .. sems \subseteq 1 .. sems'
    BY <1>0
  <2>2. CASE abandoned' = abandoned
    BY <1>0, <2>1, <2>2
  <2>3. CASE GetOpen(p)
    <3>1. abandoned' \subseteq abandoned \cup {sems + 1}
          /\ (abandoned' = abandoned \/ sems' = sems + 1)
      BY <2>3 DEF GetOpen, NewSem
    <3>2. sems + 1 \in 1 .. sems + 1
      BY <1>0
    <3>3. QED
      BY <1>0, <2>1, <3>1, <3>2
  <2>4. CASE Die(p)
    <3>1. \A s \in abandoned' : s \in abandoned \/ Exists(s)
      BY <2>4 DEF Die
    <3>2. QED
      BY <1>0, <2>1, <3>1, ExistsSem
  <2>5. QED
    BY <2>2, <2>3, <2>4
       DEF Act, Step, SetKey, ReadSemKey, CreateSem, Acquire, Destruct, MakeFile, Ftok, NoKey,
           GetExcl, SetVal, SetNum, Handled, Release, Take, Give, Semop, TimeOver, Regain,
           RemoveFile, RemoveSem, histVars
<1>5. QED
  BY <1>2, <1>3, <1>4 DEF HistTypes

-----------------------------------------------------------------------------
(* What holds always.                                                      *)

LEMMA OwnPlace ==
  ASSUME TypeOK, NEW p \in Procs, PlaceInv(p), Act(p)
  PROVE  PlaceInv(p)'
<1>0. PcTypes /\ ObjTypes /\ NoName \notin Names /\ NoName # Number
  BY Parts, SemAssumption DEF NoName, Number
<1> USE <1>0 DEF PlaceInv, PcTypes, ObjTypes, Go, Rest
<1>1. ASSUME NEW n \in Names, NEW md \in {"Open", "Create"}, SetKey(p, n, md)
      PROVE  PlaceInv(p)'
  BY <1>1 DEF SetKey, LookForFile
<1>2. CASE ReadSemKey(p) \/ CreateSem(p) \/ Acquire(p, "take") \/ Acquire(p, "try")
           \/ Destruct(p)
  BY <1>2 DEF ReadSemKey, CreateSem, Acquire, Destruct, objVars
<1>3. CASE Release(p) \/ TimeOver(p) \/ NoKey(p) \/ Take(p) \/ Give(p) \/ SetNum(p)
  BY <1>3 DEF Release, TimeOver, NoKey, Take, Give, SetNum, Semop, objVars
<1>4. CASE MakeFile(p) \/ Ftok(p)
  BY <1>4 DEF MakeFile, Ftok
<1>5. CASE GetExcl(p) \/ GetOpen(p)
  BY <1>5 DEF GetExcl, AfterNew, GetOpen, Key
<1>6. CASE SetVal(p) \/ Regain(p) \/ Handled(p)
  BY <1>6 DEF SetVal, Regain, Handled
<1>7. CASE RemoveFile(p) \/ Die(p)
  BY <1>7 DEF RemoveFile, Die
<1>8. CASE RemoveSem(p)
  BY <1>8 DEF RemoveSem, LookForFile
<1>9. QED
  BY <1>1, <1>2, <1>3, <1>4, <1>5, <1>6, <1>7, <1>8 DEF Act, Step

LEMMA PlaceNext ==
  ASSUME TypeOK, NEW p \in Procs, Act(p), NEW q \in Procs, PlaceInv(q)
  PROVE  PlaceInv(q)'
<1>1. CASE q = p
  BY <1>1, OwnPlace
<1>2. CASE q # p
  BY <1>2, OthersStay DEF PlaceInv
<1>3. QED
  BY <1>1, <1>2

\* A new semaphore is on its way to a value, or abandoned.
LEMMA SomeoneNext ==
  ASSUME TypeOK, SomeoneSetsIt, NEW p \in Procs, Act(p)
  PROVE  SomeoneSetsIt'
<1>0. /\ PcTypes /\ ObjTypes /\ inited \in [Sems -> {0, 1}]
      /\ semOf \in [Keys -> 0 .. sems] /\ sems' \in {sems, sems + 1}
      /\ sems \in 0 .. MaxSems /\ MaxSems \in Nat
  BY Parts, Grow, SemAssumption DEF TypeOK
<1>1. SUFFICES ASSUME NEW s \in 1 .. sems', Exists(s)', inited'[s] = 0
               PROVE  s \in abandoned' \/ \E q \in Procs : pc'[q] \in Setting /\ m_semId'[q] = s
  BY DEF SomeoneSetsIt, Setting
<1>2. abandoned \subseteq abandoned'
  BY DEF Act, Step, SetKey, ReadSemKey, CreateSem, Acquire, Destruct, Die, MakeFile, Ftok,
         NoKey, GetExcl, GetOpen, SetVal, SetNum, Handled, Release, Take, Give, Semop,
         TimeOver, Regain, RemoveFile, RemoveSem, histVars
<1>3. CASE sems' = sems + 1 /\ s = sems + 1
  <2>1. \/ CreateSem(p)
        \/ GetExcl(p) /\ m_semId' = [m_semId EXCEPT ![p] = sems + 1] /\ Go(p, AfterNew(p))
        \/ GetOpen(p) /\ m_semId' = [m_semId EXCEPT ![p] = sems + 1]
             /\ abandoned' = abandoned \cup (IF Claims(p) THEN {} ELSE {sems + 1})
    BY <1>0, <1>3 DEF Act, Step, SetKey, ReadSemKey, Acquire, Destruct, Die, MakeFile, Ftok,
         NoKey, GetExcl, GetOpen, NewSem, SetVal, SetNum, Handled, Release, Take, Give, Semop,
         TimeOver, Regain, RemoveFile, RemoveSem, kernVars
  <2>2. CASE CreateSem(p)
    BY <1>0, <1>3, <2>2 DEF CreateSem, NewSem, Go, PcTypes, ObjTypes, Setting
  <2>3. CASE m_semId' = [m_semId EXCEPT ![p] = sems + 1] /\ Go(p, AfterNew(p))
    BY <1>0, <1>3, <2>3 DEF AfterNew, Go, PcTypes, ObjTypes, Setting
  <2>4. CASE GetOpen(p) /\ m_semId' = [m_semId EXCEPT ![p] = sems + 1] /\ Claims(p)
    <3>1. m_created'[p]
      BY <2>4 DEF GetOpen, TypeOK
    <3>2. pc'[p] = "setval"
      BY <1>0, <2>4, <3>1 DEF GetOpen, Go, PcTypes
    <3>3. QED
      BY <1>0, <1>3, <2>4, <3>2 DEF ObjTypes, Setting
  <2>5. QED
    BY <1>3, <2>1, <2>2, <2>3, <2>4
<1>4. CASE ~(sems' = sems + 1 /\ s = sems + 1)
  <2>1. s \in 1 .. sems
    BY <1>0, <1>4
  <2>2. Exists(s)
    <3>1. \A k \in Keys : semOf'[k] \in {semOf[k], 0} \/ semOf'[k] = sems + 1
      BY <1>0 DEF Act, Step, SetKey, ReadSemKey, CreateSem, Acquire, Destruct, Die, MakeFile,
         Ftok, NoKey, GetExcl, GetOpen, NewSem, SetVal, SetNum, Handled, Release, Take, Give,
         Semop, TimeOver, Regain, RemoveFile, RemoveSem, kernVars
    <3>2. PICK k \in Keys : semOf'[k] = s
      BY <1>1 DEF Exists
    <3>3. s # sems + 1 /\ s # 0
      BY <1>0, <2>1
    <3>4. QED
      BY <3>1, <3>2, <3>3 DEF Exists
  <2>3. s \in Sems /\ inited[s] = 0
    <3>1. s \in Sems
      BY <1>0, <2>1 DEF Sems
    <3>2. inited' = inited \/ inited' = [inited EXCEPT ![m_semId[p]] = 1]
      BY DEF Act, Step, SetKey, ReadSemKey, CreateSem, Acquire, Destruct, Die, MakeFile, Ftok,
         NoKey, GetExcl, GetOpen, SetVal, SetNum, Handled, Release, Take, Give, Semop,
         TimeOver, Regain, RemoveFile, RemoveSem, histVars
    <3>3. QED
      BY <1>0, <1>1, <3>1, <3>2
  <2>4. CASE s \in abandoned
    BY <1>2, <2>4
  <2>5. ASSUME NEW q \in Procs, pc[q] \in Setting, m_semId[q] = s
        PROVE  s \in abandoned' \/ (pc'[q] \in Setting /\ m_semId'[q] = s)
    <3>1. CASE q # p
      BY <2>5, <3>1, OthersStay
    <3>2. CASE q = p
      <4>1. SetVal(p) \/ SetNum(p) \/ Die(p)
        BY <2>5, <3>2 DEF Setting, Act, Step, SetKey, ReadSemKey, CreateSem, Acquire, Destruct,
          MakeFile, Ftok, NoKey, GetExcl, GetOpen, Handled, Release, Take, Give, TimeOver,
          Regain, RemoveFile, RemoveSem
      <4>2. CASE SetVal(p) \/ SetNum(p)
        <5>1. inited' = [inited EXCEPT ![s] = 1]
          BY <2>2, <2>5, <3>2, <4>2 DEF SetVal, SetNum
        <5>2. QED
          BY <1>0, <1>1, <2>3, <5>1
      <4>3. CASE Die(p)
        BY <2>2, <2>3, <2>5, <3>2, <4>3 DEF Die, Setting
      <4>4. QED
        BY <4>1, <4>2, <4>3
    <3>3. QED
      BY <3>1, <3>2
  <2>6. QED
    BY <2>1, <2>2, <2>3, <2>4, <2>5 DEF SomeoneSetsIt, Setting
<1>5. QED
  BY <1>3, <1>4

-----------------------------------------------------------------------------
(* Until something is removed or reset.                                    *)

LEMMA NothingGoes ==
  ASSUME TypeOK, NEW p \in Procs, Act(p), ~disturbed'
  PROVE  /\ ~disturbed
         /\ \A n \in Names : file[n] # 0 => file'[n] = file[n]
         /\ \A k \in Keys : semOf[k] # 0 => semOf'[k] = semOf[k]
         /\ GetOpen(p) => Mode(p) = "Open"
         /\ RemoveFile(p) => file' = file
         /\ RemoveSem(p) => UNCHANGED <<semOf, value, adj>> /\ ~Removes(p)
<1>0. file \in [Names -> 0 .. files] /\ semOf \in [Keys -> 0 .. sems]
      /\ mode \in [Procs -> {"Open", "Create"}]
  BY DEF TypeOK
<1>1. GetOpen(p) => Mode(p) = "Open"
  BY <1>0 DEF GetOpen, Mode
<1>2. RemoveFile(p) => file' = file
  BY DEF RemoveFile
<1>3. RemoveSem(p) => UNCHANGED <<semOf, value, adj>> /\ ~Removes(p)
  BY DEF RemoveSem, Removes
<1>4. ~disturbed
  BY DEF Act, Step, SetKey, ReadSemKey, CreateSem, Acquire, Destruct, Die, MakeFile, Ftok,
         NoKey, GetExcl, GetOpen, SetVal, SetNum, Handled, Release, Take, Give, Semop,
         TimeOver, Regain, RemoveFile, RemoveSem, histVars
<1>5. \A n \in Names : file[n] # 0 => file'[n] = file[n]
  BY <1>0, <1>2 DEF Act, Step, SetKey, ReadSemKey, CreateSem, NewSem, Acquire, Destruct, Die,
         MakeFile, Ftok, NoKey, GetExcl, GetOpen, SetVal, SetNum, Handled, Release, Take,
         Give, Semop, TimeOver, Regain, RemoveSem, kernVars
<1>6. \A k \in Keys : semOf[k] # 0 => semOf'[k] = semOf[k]
  BY <1>0, <1>3 DEF Act, Step, SetKey, ReadSemKey, CreateSem, NewSem, Acquire, Destruct, Die,
         MakeFile, Ftok, NoKey, GetExcl, GetOpen, SetVal, SetNum, Handled, Release, Take,
         Give, Semop, TimeOver, Regain, RemoveFile, kernVars
<1>7. QED
  BY <1>1, <1>2, <1>3, <1>4, <1>5, <1>6

LEMMA SemsStayNext ==
  ASSUME TypeOK, SemsStay, NEW p \in Procs, PlaceInv(p), Act(p), ~disturbed'
  PROVE  SemsStay'
<1>0. /\ semOf \in [Keys -> 0 .. sems] /\ sems \in 0 .. MaxSems /\ MaxSems \in Nat
  BY SemAssumption DEF TypeOK
<1>1. SUFFICES ASSUME NEW s \in 1 .. sems' PROVE \E k \in Keys : semOf'[k] = s
  BY DEF SemsStay
<1>2. CASE s \in 1 .. sems
  <2>1. PICK k \in Keys : semOf[k] = s
    BY <1>2 DEF SemsStay
  <2>2. s # 0
    BY <1>0, <1>2
  <2>3. QED
    BY <2>1, <2>2, NothingGoes
<1>3. CASE s \notin 1 .. sems
  <2>1. sems' = sems + 1 /\ s = sems + 1 /\ sems' # sems
    BY <1>0, <1>3, Grow
  <2>2. \E k \in Keys : semOf' = [semOf EXCEPT ![k] = sems + 1]
    <3>1. CASE CreateSem(p)
      BY <2>1, <3>1, NumKeys DEF CreateSem, NewSem
    <3>2. CASE GetExcl(p) \/ GetOpen(p)
      <4>1. m_semKey[p] \in Keys
        BY <3>2, SemKeys DEF GetExcl, GetOpen, Key, PlaceInv
      <4>2. QED
        BY <2>1, <3>2, <4>1 DEF GetExcl, GetOpen, NewSem, Key, kernVars
    <3>3. QED
      BY <2>1, <3>1, <3>2 DEF Act, Step, SetKey, ReadSemKey, Acquire, Destruct, Die, MakeFile,
        Ftok, NoKey, SetVal, SetNum, Handled, Release, Take, Give, Semop, TimeOver, Regain,
        RemoveFile, RemoveSem, kernVars
  <2>3. QED
    BY <1>0, <2>1, <2>2
<1>4. QED
  BY <1>2, <1>3

\* No semaphore that somebody has is missing.
LEMMA HasSem ==
  ASSUME TypeOK, SemsStay, NEW p \in Procs, m_semId[p] # 0
  PROVE  m_semId[p] \in 1 .. sems /\ m_semId[p] \in Sems /\ Exists(m_semId[p])
<1>1. m_semId[p] \in 0 .. sems /\ sems \in 0 .. MaxSems /\ MaxSems \in Nat
  BY SemAssumption DEF TypeOK
<1>2. m_semId[p] \in 1 .. sems
  BY <1>1
<1>3. QED
  BY <1>1, <1>2 DEF SemsStay, Exists, Sems

\* Its own steps keep the object of a process on the semaphore of its name.
LEMMA OwnObj ==
  ASSUME TypeOK, SemsStay, NEW p \in Procs, PlaceInv(p), ObjInv(p), Act(p), ~disturbed'
  PROVE  ObjInv(p)'
<1>0. /\ PcTypes /\ ObjTypes /\ NoName \notin Names /\ NoName # Number /\ Number \notin Names
      /\ file \in [Names -> 0 .. files] /\ semOf \in [Keys -> 0 .. sems]
      /\ NumKey \in Keys
  BY Parts, SemAssumption, NumKeys DEF NoName, Number, TypeOK
<1>1. /\ \A n \in Names : file[n] # 0 => file'[n] = file[n]
      /\ \A k \in Keys : semOf[k] # 0 => semOf'[k] = semOf[k]
      /\ GetOpen(p) => Mode(p) = "Open"
      /\ RemoveFile(p) => file' = file
      /\ RemoveSem(p) => UNCHANGED <<semOf, value, adj>> /\ ~Removes(p)
  BY NothingGoes
<1>2. \A n \in Names : file[n] # 0 => file[n] \in Keys
  <2>1. \A n \in Names : file[n] \in 0 .. files /\ files \in 0 .. MaxFiles /\ MaxFiles \in Nat
    BY SemAssumption DEF TypeOK
  <2>2. QED
    BY <2>1 DEF Keys, NumKey
<1> USE <1>0, <1>2 DEF PcTypes, ObjTypes, Go, Rest
\* The object, its name and its semaphore are not touched.
<1>3. ASSUME m_key'[p] = m_key[p], m_semId'[p] = m_semId[p], p \in kept' <=> p \in kept
      PROVE  Mine(p)'
  BY <1>1, <1>3 DEF ObjInv, Mine
<1>4. ASSUME m_semId'[p] = 0 PROVE Mine(p)'
  BY <1>4 DEF Mine
<1>5. ASSUME NEW n \in Names, NEW md \in {"Open", "Create"}, SetKey(p, n, md)
      PROVE  ObjInv(p)'
  <2>1. m_semId' = m_semId /\ kept' = kept /\ (m_key[p] = NoName => m_semId[p] = 0)
    BY <1>5 DEF SetKey, histVars, ObjInv, Mine
  <2>2. Mine(p)'
    BY <1>3, <1>4, <1>5, <2>1 DEF SetKey, Keeps
  <2>3. QED
    BY <1>5, <2>2 DEF ObjInv, SetKey, LookForFile, kernVars, Setting, Inside
<1>6. CASE ReadSemKey(p)
  <2>1. Mine(p)'
    BY <1>6 DEF ReadSemKey, Mine, kernVars
  <2>2. QED
    BY <1>6, <2>1 DEF ReadSemKey, ObjInv, kernVars, Setting, Inside
<1>7. CASE CreateSem(p)
  <2>1. sems + 1 # 0 /\ semOf'[NumKey] = sems + 1 /\ m_semId'[p] = sems + 1
    BY <1>7, SemAssumption DEF CreateSem, NewSem, TypeOK
  <2>2. Mine(p)'
    BY <1>7, <2>1 DEF CreateSem, Mine
  <2>3. QED
    BY <1>7, <2>1, <2>2 DEF CreateSem, ObjInv, Setting, Inside
<1>8. CASE Acquire(p, "take") \/ Acquire(p, "try") \/ Destruct(p) \/ Release(p) \/ TimeOver(p)
           \/ NoKey(p)
  <2>1. UNCHANGED <<file, semOf, m_key, m_semKey, m_semId, kept>>
    BY <1>8 DEF Acquire, Destruct, Release, TimeOver, NoKey, kernVars, objVars, histVars
  <2>2. /\ pc'[p] \in {"idle", "take", "give", "rmid", "unfile"}
        /\ pc'[p] \in {"take", "give"} => m_semId[p] # 0
    BY <1>8 DEF Acquire, Destruct, Release, TimeOver, NoKey, ObjInv, Inside
  <2>3. QED
    BY <1>3, <2>1, <2>2 DEF ObjInv, Setting, Inside
<1>9. CASE Take(p) \/ Give(p) \/ SetNum(p)
  <2>1. UNCHANGED <<file, semOf, m_key, m_semKey, m_semId, kept>>
    BY <1>9 DEF Take, Give, SetNum, Semop, objVars, histVars
  <2>2. pc'[p] \in {"idle", "locked"} /\ m_semId[p] # 0
    BY <1>9 DEF Take, Give, SetNum, Semop, Exists, ObjInv, Setting
  <2>3. QED
    BY <1>3, <2>1, <2>2 DEF ObjInv, Setting, Inside
<1>10. CASE MakeFile(p)
  <2>1. UNCHANGED <<semOf, m_key, m_semKey, m_semId, kept>> /\ pc'[p] = "ftok"
        /\ m_key[p] \in Names
    BY <1>10 DEF MakeFile, PlaceInv, histVars
  <2>2. file'[m_key[p]] # 0
    <3>1. files + 1 # 0
      BY SemAssumption DEF TypeOK
    <3>2. QED
      BY <1>1, <1>10, <2>1, <3>1 DEF MakeFile
  <2>3. QED
    BY <1>3, <2>1, <2>2 DEF ObjInv, Setting, Inside
<1>11. CASE Ftok(p)
  <2>1. UNCHANGED <<file, semOf, m_key, m_semId, kept>> /\ m_semKey'[p] = file[m_key[p]]
        /\ m_key[p] \in Names /\ op' = op /\ op[p] = "open" /\ file[m_key[p]] # 0
        /\ pc'[p] = IF m_semId[p] # 0 THEN "done" ELSE "get"
    BY <1>11 DEF Ftok, PlaceInv, ObjInv, kernVars, histVars
  <2>2. QED
    BY <1>3, <2>1 DEF ObjInv, Setting, Inside
<1>12. CASE GetExcl(p)
  <2>1. UNCHANGED <<file, m_key, m_semKey, op>> /\ m_semKey[p] = file[m_key[p]] /\ m_key[p] \in Names
        /\ file[m_key[p]] # 0 /\ op[p] = "open" /\ m_semId[p] = 0
    BY <1>12 DEF GetExcl, NewSem, ObjInv, kernVars
  <2>2. CASE NewSem(p, Key(p)) /\ Go(p, AfterNew(p))
    <3>1. sems + 1 # 0 /\ semOf'[m_semKey[p]] = sems + 1 /\ m_semId'[p] = sems + 1
          /\ pc'[p] = "setval"
      BY <2>1, <2>2, SemAssumption DEF NewSem, Key, AfterNew, TypeOK
    <3>2. QED
      BY <2>1, <3>1 DEF ObjInv, Mine, Setting, Inside
  <2>3. CASE semOf[Key(p)] # 0 /\ Go(p, "get2") /\ UNCHANGED <<kernVars, m_semId, m_created>>
    BY <1>4, <2>1, <2>3 DEF ObjInv, Key, kernVars, Setting, Inside
  <2>4. QED
    BY <1>12, <2>2, <2>3 DEF GetExcl
<1>13. CASE GetOpen(p)
  <2>1. UNCHANGED <<file, m_key, m_semKey, op>> /\ m_semKey[p] = file[m_key[p]] /\ m_key[p] \in Names
        /\ file[m_key[p]] # 0 /\ op[p] = "open" /\ m_semId[p] = 0 /\ semOf[m_semKey[p]] # 0
    BY <1>13 DEF GetOpen, NewSem, ObjInv, kernVars
  <2>2. UNCHANGED semOf /\ m_semId'[p] = semOf[m_semKey[p]] /\ pc'[p] \in {"setval", "done"}
    BY <1>13, <2>1 DEF GetOpen, NewSem, Key, kernVars
  <2>3. QED
    BY <2>1, <2>2 DEF ObjInv, Mine, Setting, Inside
<1>14. CASE SetVal(p) \/ Regain(p)
  <2>1. Exists(m_semId[p])
    BY <1>14, HasSem DEF SetVal, Regain, ObjInv, Setting, Inside
  <2>2. UNCHANGED <<file, semOf, m_key, m_semKey, m_semId, kept, op>> /\ pc'[p] = "done"
        /\ pc[p] = "setval"
    BY <1>14, <2>1 DEF SetVal, Regain
  <2>3. QED
    BY <1>3, <2>2 DEF ObjInv, Setting, Inside
<1>15. CASE Handled(p)
  <2>1. UNCHANGED <<file, semOf, m_key, m_semKey, m_semId, kept>> /\ pc'[p] = "idle"
    BY <1>15 DEF Handled, ObjInv, kernVars, histVars
  <2>2. QED
    BY <1>3, <2>1 DEF ObjInv, Setting, Inside
<1>16. CASE RemoveFile(p)
  <2>1. UNCHANGED <<semOf, m_key, m_semId, kept>> /\ pc'[p] = "rmid"
    BY <1>16 DEF RemoveFile
  <2>2. QED
    BY <1>3, <2>1 DEF ObjInv, Setting, Inside
<1>17. CASE Die(p)
  <2>1. m_semId'[p] = 0 /\ pc'[p] = "idle"
    BY <1>17 DEF Die
  <2>2. QED
    BY <1>4, <2>1 DEF ObjInv, Setting, Inside
<1>18. CASE RemoveSem(p)
  <2>1. /\ UNCHANGED <<file, semOf>> /\ m_semId'[p] \in {m_semId[p], 0}
        /\ kept' = IF m_semId'[p] = 0 THEN kept \ {p}
                   ELSE IF newKey[p] \in {NoName, m_key[p]} THEN kept ELSE kept \cup {p}
    BY <1>1, <1>18 DEF RemoveSem
  <2>2. CASE newKey[p] # NoName
    <3>1. /\ m_key'[p] = newKey[p] /\ newKey[p] \in Names /\ pc'[p] \in {"ftok", "mkfile"}
          /\ pc'[p] = "ftok" => file[newKey[p]] # 0
      BY <1>18, <2>2 DEF RemoveSem, LookForFile
    <3>2. Mine(p)'
      <4>1. CASE m_semId'[p] = 0
        BY <1>4, <4>1
      <4>2. CASE m_semId'[p] # 0 /\ newKey[p] = m_key[p]
        BY <1>3, <2>1, <3>1, <4>2
      <4>3. CASE m_semId'[p] # 0 /\ newKey[p] # m_key[p]
        BY <2>1, <2>2, <3>1, <4>3 DEF Mine
      <4>4. QED
        BY <4>1, <4>2, <4>3
    <3>3. QED
      BY <2>1, <3>1, <3>2 DEF ObjInv, Setting, Inside
  <2>3. CASE newKey[p] = NoName
    <3>1. /\ pc'[p] = "idle" /\ m_key'[p] = IF op[p] = "close" THEN NoName ELSE m_key[p]
          /\ op[p] = "close" => m_semId'[p] = 0
      BY <1>18, <2>3 DEF RemoveSem
    <3>2. Mine(p)'
      BY <1>3, <1>4, <2>1, <2>3, <3>1
    <3>3. QED
      BY <3>1, <3>2 DEF ObjInv, Setting, Inside
  <2>4. QED
    BY <2>2, <2>3
<1>19. QED
  BY <1>5, <1>6, <1>7, <1>8, <1>9, <1>10, <1>11, <1>12, <1>13, <1>14, <1>15, <1>16, <1>17,
     <1>18 DEF Act, Step

\* What another process does leaves an object on its semaphore.
LEMMA ObjNext ==
  ASSUME TypeOK, SemsStay, NEW p \in Procs, \A q \in Procs : PlaceInv(q) /\ ObjInv(q),
         Act(p), ~disturbed', NEW q \in Procs
  PROVE  ObjInv(q)'
<1>1. CASE q = p
  BY <1>1, OwnObj
<1>2. CASE q # p
  <2>0. PlaceInv(q) /\ ObjInv(q)
    OBVIOUS
  <2>1. /\ pc'[q] = pc[q] /\ op'[q] = op[q] /\ m_key'[q] = m_key[q]
        /\ m_semKey'[q] = m_semKey[q] /\ m_semId'[q] = m_semId[q]
        /\ (q \in kept' <=> q \in kept)
    BY <1>2, OthersStay
  <2>2. /\ \A n \in Names : file[n] # 0 => file'[n] = file[n]
        /\ \A k \in Keys : semOf[k] # 0 => semOf'[k] = semOf[k]
    BY NothingGoes
  <2>3. \A n \in Names : file[n] # 0 => file[n] \in Keys
    <3>1. \A n \in Names : file[n] \in 0 .. files /\ files \in 0 .. MaxFiles /\ MaxFiles \in Nat
      BY SemAssumption DEF TypeOK
    <3>2. QED
      BY <3>1 DEF Keys, NumKey
  <2>4. Mine(q)'
    BY <2>0, <2>1, <2>2, <2>3, NumKeys DEF ObjInv, Mine
  <2>5. m_semKey[q] # 0 => m_semKey[q] \in Keys
    BY SemKeys
  <2>6. QED
    BY <2>0, <2>1, <2>2, <2>4, <2>5 DEF ObjInv, PlaceInv
<1>3. QED
  BY <1>1, <1>2

-----------------------------------------------------------------------------
(* One process sets a new semaphore.                                       *)

\* A step of p leads to a new semaphore it has to set, or sets the one it has,
\* or has nothing to do with setting.
LEMMA SetEffect ==
  ASSUME TypeOK, SemsStay, NEW p \in Procs, ObjInv(p), Act(p), ~disturbed'
  PROVE  \/ pc'[p] \notin Setting /\ inited' = inited
         \/ /\ pc'[p] \in Setting /\ inited' = inited
            /\ m_semId'[p] = sems + 1 /\ sems' = sems + 1
         \/ /\ pc[p] \in Setting /\ pc'[p] \notin Setting
            /\ inited' = [inited EXCEPT ![m_semId[p]] = 1]
<1>0. PcTypes /\ ObjTypes /\ FlagTypes
  BY Parts
<1> USE DEF Setting, Go, Rest, histVars
<1>1. CASE \E n \in Names, md \in {"Open", "Create"} : SetKey(p, n, md)
  BY <1>0, <1>1 DEF SetKey, LookForFile, PcTypes
<1>2. CASE ReadSemKey(p) \/ Acquire(p, "take") \/ Acquire(p, "try") \/ Destruct(p)
           \/ Release(p) \/ TimeOver(p) \/ NoKey(p) \/ MakeFile(p) \/ Ftok(p)
  BY <1>0, <1>2 DEF ReadSemKey, Acquire, Destruct, Release, TimeOver, NoKey, MakeFile, Ftok, PcTypes
<1>3. CASE Take(p) \/ Give(p) \/ Regain(p) \/ RemoveFile(p) \/ Die(p)
  BY <1>0, <1>3 DEF Take, Give, Semop, Regain, RemoveFile, Die, PcTypes
<1>4. CASE Handled(p)
  BY <1>0, <1>4 DEF Handled, PcTypes, ObjInv
<1>5. CASE RemoveSem(p)
  BY <1>0, <1>5 DEF RemoveSem, LookForFile, PcTypes
<1>6. CASE CreateSem(p) \/ GetExcl(p)
  BY <1>0, <1>6 DEF CreateSem, GetExcl, NewSem, AfterNew, PcTypes, ObjTypes
<1>7. CASE GetOpen(p)
  <2>1. ~m_created[p] /\ ~Claims(p)
    BY <1>0, <1>7, NothingGoes DEF GetOpen, ObjInv, FlagTypes, Claims
  <2>2. m_created' = [m_created EXCEPT ![p] = m_created[p] \/ Claims(p)]
        /\ pc' = [pc EXCEPT ![p] = IF m_created'[p] THEN "setval" ELSE "done"]
        /\ inited' = inited
    BY <1>7 DEF GetOpen
  <2>3. ~m_created'[p]
    BY <1>0, <2>1, <2>2 DEF FlagTypes
  <2>4. QED
    BY <1>0, <2>2, <2>3 DEF PcTypes
<1>8. CASE SetVal(p) \/ SetNum(p)
  <2>1. Exists(m_semId[p])
    BY <1>8, HasSem DEF SetVal, SetNum, ObjInv
  <2>2. QED
    BY <1>0, <1>8, <2>1 DEF SetVal, SetNum, PcTypes
<1>9. QED
  BY <1>1, <1>2, <1>3, <1>4, <1>5, <1>6, <1>7, <1>8 DEF Act, Step

LEMMA SetInvNext ==
  ASSUME TypeOK, SemsStay, SetInv, NEW p \in Procs, \A q \in Procs : ObjInv(q),
         Act(p), ~disturbed'
  PROVE  SetInv'
<1>0. /\ inited \in [Sems -> {0, 1}] /\ sems \in 0 .. MaxSems /\ sems' \in 0 .. MaxSems
      /\ sems' \in {sems, sems + 1} /\ MaxSems \in Nat
      /\ m_semId \in [Procs -> 0 .. sems]
  BY Grow, SemAssumption DEF TypeOK
<1>1. /\ \A s \in Sems : s > sems => inited[s] = 0
      /\ \A q \in Procs : pc[q] \in Setting => inited[m_semId[q]] = 0
      /\ \A q, r \in Procs :
           pc[q] \in Setting /\ pc[r] \in Setting /\ m_semId[q] = m_semId[r] => q = r
  BY DEF SetInv
<1>2. \A q \in Procs : q # p => pc'[q] = pc[q] /\ m_semId'[q] = m_semId[q]
  BY OthersStay
<1>3. \A q \in Procs : pc[q] \in Setting => m_semId[q] \in 1 .. sems /\ m_semId[q] \in Sems
  BY HasSem DEF ObjInv
<1>4. CASE pc'[p] \notin Setting /\ inited' = inited
  <2>1. \A s \in Sems : s > sems' => inited'[s] = 0
    BY <1>0, <1>1, <1>4 DEF Sems
  <2>2. QED
    BY <1>1, <1>2, <1>4, <2>1 DEF SetInv
<1>5. CASE /\ pc'[p] \in Setting /\ inited' = inited
           /\ m_semId'[p] = sems + 1 /\ sems' = sems + 1
  <2>1. \A s \in Sems : s > sems' => inited'[s] = 0
    BY <1>0, <1>1, <1>5 DEF Sems
  <2>2. inited'[sems + 1] = 0
    BY <1>0, <1>1, <1>5 DEF Sems
  <2>3. \A q \in Procs : q # p /\ pc'[q] \in Setting => m_semId'[q] # sems + 1
    BY <1>0, <1>2, <1>3
  <2>4. QED
    BY <1>1, <1>2, <1>5, <2>1, <2>2, <2>3 DEF SetInv
<1>6. CASE /\ pc[p] \in Setting /\ pc'[p] \notin Setting
           /\ inited' = [inited EXCEPT ![m_semId[p]] = 1]
  <2>1. m_semId[p] \in 1 .. sems /\ m_semId[p] \in Sems
    BY <1>3, <1>6
  <2>2. \A s \in Sems : s # m_semId[p] => inited'[s] = inited[s]
    BY <1>0, <1>6
  <2>3. \A s \in Sems : s > sems' => s > sems /\ s # m_semId[p]
    BY <1>0, <2>1 DEF Sems
  <2>4. \A q \in Procs : q # p /\ pc'[q] \in Setting =>
          m_semId'[q] \in Sems /\ m_semId'[q] # m_semId[p]
    BY <1>1, <1>2, <1>3, <1>6
  <2>5. QED
    BY <1>1, <1>2, <1>6, <2>2, <2>3, <2>4 DEF SetInv
<1>7. QED
  BY <1>4, <1>5, <1>6, SetEffect

-----------------------------------------------------------------------------
(* The kernel's record of those inside.                                    *)

LEMMA TakersFinite ==
  ASSUME NEW s
  PROVE  IsFiniteSet(Takers(s)) /\ Cardinality(Takers(s)) \in Nat /\ Takers(s) \subseteq Procs
<1>1. Takers(s) \subseteq Procs /\ IsFiniteSet(Procs)
  BY SemAssumption DEF Takers
<1>2. QED
  BY <1>1, FS_Subset, FS_CardinalityType

\* A step of p touches neither its place nor the kernel's record, or gives a
\* new semaphore its value, or takes, gives back or dies.
LEMMA TakeEffect ==
  ASSUME TypeOK, SemsStay, NEW p \in Procs, ObjInv(p), Act(p), ~disturbed'
  PROVE  \/ /\ UNCHANGED <<value, adj, inited>>
            /\ \A s : (pc'[p] \in Inside /\ m_semId'[p] = s) <=> (pc[p] \in Inside /\ m_semId[p] = s)
         \/ /\ pc[p] \in Setting /\ pc'[p] \notin Inside
            /\ value' = [value EXCEPT ![m_semId[p]] = 1]
            /\ adj' = [adj EXCEPT ![m_semId[p]] = [q \in Procs |-> 0]]
            /\ inited' = [inited EXCEPT ![m_semId[p]] = 1]
         \/ Take(p) \/ Give(p) \/ Die(p)
<1>0. PcTypes /\ ObjTypes
  BY Parts
<1> USE DEF Setting, Inside, Go, Rest, histVars, kernVars, objVars
<1>1. CASE \E n \in Names, md \in {"Open", "Create"} : SetKey(p, n, md)
  BY <1>0, <1>1 DEF SetKey, LookForFile, PcTypes
<1>2. CASE ReadSemKey(p) \/ Acquire(p, "take") \/ Acquire(p, "try") \/ Destruct(p)
           \/ Release(p) \/ TimeOver(p) \/ NoKey(p) \/ MakeFile(p) \/ Ftok(p)
  BY <1>0, <1>2 DEF ReadSemKey, Acquire, Destruct, Release, TimeOver, NoKey, MakeFile, Ftok, PcTypes
<1>3. CASE RemoveFile(p)
  BY <1>0, <1>3 DEF RemoveFile, PcTypes
<1>4. CASE Handled(p)
  BY <1>0, <1>4 DEF Handled, PcTypes, ObjInv
<1>5. CASE RemoveSem(p)
  <2>1. UNCHANGED <<value, adj, inited>> /\ pc[p] = "rmid"
    BY <1>5, NothingGoes DEF RemoveSem
  <2>2. pc'[p] \notin Inside
    BY <1>0, <1>5 DEF RemoveSem, LookForFile, PcTypes
  <2>3. QED
    BY <2>1, <2>2
<1>6. CASE CreateSem(p) \/ GetExcl(p) \/ GetOpen(p)
  BY <1>0, <1>6 DEF CreateSem, GetExcl, GetOpen, NewSem, AfterNew, PcTypes
<1>7. CASE SetVal(p) \/ SetNum(p)
  <2>1. Exists(m_semId[p])
    BY <1>7, HasSem DEF SetVal, SetNum, ObjInv
  <2>2. CASE SetVal(p)
    <3>1. InitVal(p) = 1
      BY <2>2, SemAssumption DEF SetVal, ObjInv, InitVal, m_initVal
    <3>2. QED
      BY <1>0, <2>1, <2>2, <3>1 DEF SetVal, PcTypes
  <2>3. CASE SetNum(p)
    BY <1>0, <2>1, <2>3 DEF SetNum, m_initVal, PcTypes
  <2>4. QED
    BY <1>7, <2>2, <2>3
<1>8. CASE Regain(p)
  <2>1. Exists(m_semId[p])
    BY <1>8, HasSem DEF Regain, ObjInv, Exists
  <2>2. QED
    BY <1>8, <2>1 DEF Regain
<1>9. QED
  BY <1>1, <1>2, <1>3, <1>4, <1>5, <1>6, <1>7, <1>8 DEF Act, Step

LEMMA RecordSame ==
  ASSUME NEW s \in Sems, Record(s), NEW p \in Procs,
         \A q \in Procs : q # p => pc'[q] = pc[q] /\ m_semId'[q] = m_semId[q],
         (pc'[p] \in Inside /\ m_semId'[p] = s) <=> (pc[p] \in Inside /\ m_semId[p] = s),
         adj'[s] = adj[s], value'[s] = value[s], inited'[s] = inited[s]
  PROVE  Record(s)'
<1>1. Takers(s)' = Takers(s)
  BY DEF Takers
<1>2. \A q \in Procs : (pc'[q] \in Inside /\ m_semId'[q] = s) <=> (pc[q] \in Inside /\ m_semId[q] = s)
  OBVIOUS
<1>3. \A q \in Procs : adj'[s][q] = IF pc'[q] \in Inside /\ m_semId'[q] = s THEN 1 ELSE 0
  BY <1>2 DEF Record
<1>4. QED
  BY <1>1, <1>3 DEF Record

LEMMA RecordSet ==
  ASSUME TypeOK, SemsStay, NEW p \in Procs, ObjInv(p), pc[p] \in Setting, pc'[p] \notin Inside,
         NEW s \in Sems, s = m_semId[p], Record(s), inited[s] = 0,
         \A q \in Procs : q # p => pc'[q] = pc[q] /\ m_semId'[q] = m_semId[q],
         value' = [value EXCEPT ![s] = 1], adj' = [adj EXCEPT ![s] = [q \in Procs |-> 0]],
         inited' = [inited EXCEPT ![s] = 1]
  PROVE  Record(s)'
<1>1. /\ value \in [Sems -> Nat] /\ adj \in [Sems -> [Procs -> Int]]
      /\ inited \in [Sems -> {0, 1}]
  BY DEF TypeOK
<1>2. value'[s] = 1 /\ inited'[s] = 1 /\ \A q \in Procs : adj'[s][q] = 0
  BY <1>1
<1>3. Takers(s) = {}
  <2>1. value[s] + Cardinality(Takers(s)) = 0 /\ value[s] \in Nat
    BY <1>1 DEF Record
  <2>2. Cardinality(Takers(s)) = 0
    BY <2>1, TakersFinite
  <2>3. QED
    BY <2>2, TakersFinite, FS_EmptySet
<1>4. \A q \in Procs : ~(pc[q] \in Inside /\ m_semId[q] = s)
  BY <1>3 DEF Record, Takers
<1>5. \A q \in Procs : ~(pc'[q] \in Inside /\ m_semId'[q] = s)
  BY <1>4
<1>6. Takers(s)' = {}
  BY <1>2 DEF Takers
<1>7. Cardinality(Takers(s)') = 0
  BY <1>6, FS_EmptySet
<1>8. QED
  BY <1>2, <1>5, <1>7 DEF Record

\* Taking and giving back move the token.
LEMMA RecordTake ==
  ASSUME TypeOK, NEW p \in Procs, Take(p), NEW s \in Sems, s = m_semId[p], Record(s),
         \A q \in Procs : q # p => pc'[q] = pc[q] /\ m_semId'[q] = m_semId[q]
  PROVE  Record(s)'
<1>1. /\ value \in [Sems -> Nat] /\ adj \in [Sems -> [Procs -> Int]] /\ PcTypes
  BY Parts DEF TypeOK
<1>2. /\ value' = [value EXCEPT ![s] = @ + (-1)] /\ adj' = [adj EXCEPT ![s][p] = @ - (-1)]
      /\ pc[p] = "take" /\ pc' = [pc EXCEPT ![p] = "locked"] /\ m_semId' = m_semId /\ inited' = inited
  BY DEF Take, Semop, UndoOf, Go, objVars, histVars
<1>3. adj[s][p] = 0 /\ pc'[p] = "locked"
  BY <1>1, <1>2 DEF Record, Inside, PcTypes
<1>4. /\ value'[s] = value[s] + (-1) /\ adj'[s][p] = 0 - (-1)
      /\ \A q \in Procs : q # p => adj'[s][q] = adj[s][q]
  BY <1>1, <1>2, <1>3
<1>5. \A q \in Procs : adj'[s][q] = IF pc'[q] \in Inside /\ m_semId'[q] = s THEN 1 ELSE 0
  BY <1>2, <1>3, <1>4 DEF Record, Inside
<1>6. Takers(s)' = Takers(s) \cup {p} /\ p \notin Takers(s)
  BY <1>3, <1>4 DEF Takers
<1>7. Cardinality(Takers(s)') = Cardinality(Takers(s)) + 1
  BY <1>6, TakersFinite, FS_AddElement
<1>8. \A v, c, i \in Nat : v + c = i => v + (-1) + (c + 1) = i
  OBVIOUS
<1>9. value[s] \in Nat /\ Cardinality(Takers(s)) \in Nat /\ value[s] + Cardinality(Takers(s)) = inited[s]
      /\ inited[s] \in Nat
  BY <1>1, TakersFinite DEF Record, TypeOK
<1>10. value'[s] + Cardinality(Takers(s)') = inited'[s]
  BY <1>2, <1>4, <1>7, <1>8, <1>9
<1>11. QED
  BY <1>5, <1>10 DEF Record

LEMMA RecordGive ==
  ASSUME TypeOK, NEW p \in Procs, Give(p), NEW s \in Sems, s = m_semId[p], Record(s),
         \A q \in Procs : q # p => pc'[q] = pc[q] /\ m_semId'[q] = m_semId[q]
  PROVE  Record(s)'
<1>1. /\ value \in [Sems -> Nat] /\ adj \in [Sems -> [Procs -> Int]] /\ PcTypes
  BY Parts DEF TypeOK
<1>2. /\ value' = [value EXCEPT ![s] = @ + 1] /\ adj' = [adj EXCEPT ![s][p] = @ - 1]
      /\ pc[p] = "give" /\ pc' = [pc EXCEPT ![p] = "idle"] /\ m_semId' = m_semId /\ inited' = inited
  BY DEF Give, Semop, UndoOf, Go, Rest, objVars, histVars
<1>3. adj[s][p] = 1 /\ pc'[p] = "idle"
  BY <1>1, <1>2 DEF Record, Inside, PcTypes
<1>4. /\ value'[s] = value[s] + 1 /\ adj'[s][p] = 1 - 1
      /\ \A q \in Procs : q # p => adj'[s][q] = adj[s][q]
  BY <1>1, <1>2, <1>3
<1>5. \A q \in Procs : adj'[s][q] = IF pc'[q] \in Inside /\ m_semId'[q] = s THEN 1 ELSE 0
  BY <1>2, <1>3, <1>4 DEF Record, Inside
<1>6. Takers(s)' = Takers(s) \ {p} /\ p \in Takers(s)
  BY <1>3, <1>4 DEF Takers
<1>7. Cardinality(Takers(s)') = Cardinality(Takers(s)) - 1
  BY <1>6, TakersFinite, FS_RemoveElement
<1>8. \A v, c, i \in Nat : v + c = i => v + 1 + (c - 1) = i
  OBVIOUS
<1>9. value[s] \in Nat /\ Cardinality(Takers(s)) \in Nat /\ value[s] + Cardinality(Takers(s)) = inited[s]
      /\ inited[s] \in Nat
  BY <1>1, TakersFinite DEF Record, TypeOK
<1>10. value'[s] + Cardinality(Takers(s)') = inited'[s]
  BY <1>2, <1>4, <1>7, <1>8, <1>9
<1>11. QED
  BY <1>5, <1>10 DEF Record

\* The kernel gives back what a process dies with.
LEMMA RecordDie ==
  ASSUME TypeOK, NEW p \in Procs, Die(p), NEW s \in Sems, Record(s),
         \A q \in Procs : q # p => pc'[q] = pc[q] /\ m_semId'[q] = m_semId[q]
  PROVE  Record(s)'
<1>1. /\ value[s] \in Nat /\ adj \in [Sems -> [Procs -> Int]] /\ PcTypes
      /\ inited[s] \in Nat /\ Cardinality(Takers(s)) \in Nat
  BY Parts, TakersFinite DEF TypeOK
<1>2. /\ value'[s] = Undone(s, p) /\ adj'[s] = [adj[s] EXCEPT ![p] = 0]
      /\ pc'[p] = "idle" /\ inited' = inited
  BY <1>1 DEF Die, Rest, Go, PcTypes
<1>3. \A q \in Procs : adj'[s][q] = IF q = p THEN 0 ELSE adj[s][q]
  BY <1>1, <1>2
<1>4. \A q \in Procs : adj'[s][q] = IF pc'[q] \in Inside /\ m_semId'[q] = s THEN 1 ELSE 0
  BY <1>2, <1>3 DEF Record, Inside
<1>5. Takers(s)' = Takers(s) \ {p} /\ (p \in Takers(s) <=> adj[s][p] # 0)
  BY <1>3 DEF Takers
<1>6. adj[s][p] \in {0, 1} /\ value[s] + Cardinality(Takers(s)) = inited[s]
  BY DEF Record
<1>7. value'[s] = value[s] + adj[s][p]
  BY <1>1, <1>2, <1>6 DEF Undone
<1>8. \A v, c, i \in Nat : v + c = i => v + 1 + (c - 1) = i /\ v + 0 = v
  OBVIOUS
<1>9. CASE adj[s][p] = 1
  <2>1. Cardinality(Takers(s)') = Cardinality(Takers(s)) - 1
    <3>1. p \in Takers(s)
      BY <1>5, <1>9
    <3>2. Cardinality(Takers(s) \ {p}) = Cardinality(Takers(s)) - 1
      BY <3>1, TakersFinite, FS_RemoveElement
    <3>3. QED
      BY <1>5, <3>2
  <2>2. QED
    BY <1>1, <1>2, <1>4, <1>6, <1>7, <1>8, <1>9, <2>1 DEF Record
<1>10. CASE adj[s][p] = 0
  <2>1. Takers(s)' = Takers(s)
    BY <1>5, <1>10
  <2>2. QED
    BY <1>1, <1>2, <1>4, <1>6, <1>7, <1>8, <1>10, <2>1 DEF Record
<1>11. QED
  BY <1>6, <1>9, <1>10

LEMMA TakeInvNext ==
  ASSUME TypeOK, SemsStay, SetInv, TakeInv, NEW p \in Procs, ObjInv(p), Act(p), ~disturbed'
  PROVE  TakeInv'
<1>0. /\ value \in [Sems -> Nat] /\ adj \in [Sems -> [Procs -> Int]]
      /\ inited \in [Sems -> {0, 1}] /\ PcTypes
  BY Parts DEF TypeOK
<1>1. SUFFICES ASSUME NEW s \in Sems PROVE Record(s)'
  BY DEF TakeInv
<1>2. Record(s)
  BY DEF TakeInv
<1>3. \A q \in Procs : q # p => pc'[q] = pc[q] /\ m_semId'[q] = m_semId[q]
  BY OthersStay
<1>4. CASE /\ UNCHANGED <<value, adj, inited>>
           /\ \A t : (pc'[p] \in Inside /\ m_semId'[p] = t) <=> (pc[p] \in Inside /\ m_semId[p] = t)
  BY <1>2, <1>3, <1>4, RecordSame
<1>5. CASE /\ pc[p] \in Setting /\ pc'[p] \notin Inside
           /\ value' = [value EXCEPT ![m_semId[p]] = 1]
           /\ adj' = [adj EXCEPT ![m_semId[p]] = [q \in Procs |-> 0]]
           /\ inited' = [inited EXCEPT ![m_semId[p]] = 1]
  <2>1. inited[m_semId[p]] = 0
    BY <1>5 DEF SetInv
  <2>2. CASE s = m_semId[p]
    BY <1>2, <1>3, <1>5, <2>1, <2>2, RecordSet
  <2>3. CASE s # m_semId[p]
    <3>1. adj'[s] = adj[s] /\ value'[s] = value[s] /\ inited'[s] = inited[s]
      BY <1>0, <1>5, <2>3
    <3>2. pc[p] \notin Inside
      BY <1>5 DEF Setting, Inside
    <3>3. QED
      BY <1>2, <1>3, <1>5, <3>1, <3>2, RecordSame
  <2>4. QED
    BY <2>2, <2>3
<1>6. CASE Take(p) \/ Give(p)
  <2>1. CASE s = m_semId[p]
    BY <1>2, <1>3, <1>6, <2>1, RecordTake, RecordGive
  <2>2. CASE s # m_semId[p]
    <3>1. PICK c : /\ value' = [value EXCEPT ![m_semId[p]] = @ + c]
                   /\ adj' = [adj EXCEPT ![m_semId[p]][p] = @ - c]
                   /\ m_semId' = m_semId /\ inited' = inited
      BY <1>6 DEF Take, Give, Semop, UndoOf, objVars, histVars
    <3>2. adj'[s] = adj[s] /\ value'[s] = value[s] /\ inited'[s] = inited[s]
      BY <1>0, <2>2, <3>1
    <3>3. QED
      BY <1>2, <1>3, <2>2, <3>1, <3>2, RecordSame
  <2>3. QED
    BY <2>1, <2>2
<1>7. CASE Die(p)
  BY <1>2, <1>3, <1>7, RecordDie
<1>8. QED
  BY <1>4, <1>5, <1>6, <1>7, TakeEffect

-----------------------------------------------------------------------------
(* The inductive invariant.                                                *)

LEMMA InitIInv == Init => IInv
<1> SUFFICES ASSUME Init PROVE IInv
  OBVIOUS
<1> USE SemAssumption DEF Init
<1>1. KernTypes
  BY DEF KernTypes
<1>2. PcTypes
  BY DEF PcTypes
<1>3. ObjTypes
  BY DEF ObjTypes
<1>4. FlagTypes
  BY DEF FlagTypes
<1>5. HistTypes
  BY DEF HistTypes
<1>6. TypeOK
  BY <1>1, <1>2, <1>3, <1>4, <1>5, Parts
<1>7. SomeoneSetsIt
  BY DEF SomeoneSetsIt
<1>8. \A p \in Procs : PlaceInv(p) /\ ObjInv(p)
  BY DEF PlaceInv, ObjInv, Mine, Setting, Inside
<1>9. SemsStay
  BY DEF SemsStay
<1>10. SetInv
  BY DEF SetInv, Setting
<1>11. TakeInv
  <2>1. SUFFICES ASSUME NEW s \in Sems PROVE Record(s)
    BY DEF TakeInv
  <2>2. Takers(s) = {}
    BY DEF Takers
  <2>3. Cardinality(Takers(s)) = 0
    BY <2>2, FS_EmptySet
  <2>4. QED
    BY <2>3 DEF Record, Inside
<1>12. QED
  BY <1>6, <1>7, <1>8, <1>9, <1>10, <1>11 DEF IInv, CalmInv

LEMMA NextIInv == IInv /\ [Next]_vars => IInv'
<1> SUFFICES ASSUME IInv, [Next]_vars PROVE IInv'
  OBVIOUS
<1>1. ASSUME NEW p \in Procs, Act(p) PROVE IInv'
  <2>0. TypeOK /\ SomeoneSetsIt /\ \A q \in Procs : PlaceInv(q)
    BY DEF IInv
  <2>1. KernTypes' /\ PcTypes' /\ ObjTypes' /\ FlagTypes' /\ HistTypes'
    BY <1>1, <2>0, Parts, KernTypesNext, PcTypesNext, ObjTypesNext, FlagTypesNext, HistTypesNext
  <2>2. TypeOK'
    BY <2>1 DEF TypeOK, KernTypes, PcTypes, ObjTypes, FlagTypes, HistTypes
  <2>3. SomeoneSetsIt'
    BY <1>1, <2>0, SomeoneNext
  <2>4. \A q \in Procs : PlaceInv(q)'
    BY <1>1, <2>0, PlaceNext
  <2>5. ASSUME ~disturbed' PROVE CalmInv'
    <3>1. ~disturbed
      BY <1>1, <2>0, <2>5, NothingGoes
    <3>2. SemsStay /\ (\A q \in Procs : ObjInv(q)) /\ SetInv /\ TakeInv
      BY <3>1 DEF IInv, CalmInv
    <3>3. SemsStay'
      BY <1>1, <2>0, <2>5, <3>2, SemsStayNext
    <3>4. \A q \in Procs : ObjInv(q)'
      BY <1>1, <2>0, <2>5, <3>2, ObjNext
    <3>5. SetInv'
      BY <1>1, <2>0, <2>5, <3>2, SetInvNext
    <3>6. TakeInv'
      BY <1>1, <2>0, <2>5, <3>2, TakeInvNext
    <3>7. QED
      BY <3>3, <3>4, <3>5, <3>6 DEF CalmInv
  <2>6. QED
    BY <2>2, <2>3, <2>4, <2>5 DEF IInv
<1>2. CASE UNCHANGED vars
  <2>1. /\ UNCHANGED <<file, files, semOf, sems, value, adj, pc, op, mode>>
        /\ UNCHANGED <<m_key, newKey, m_semKey, m_semId, m_created, m_createdFile>>
        /\ UNCHANGED <<inited, abandoned, disturbed, kept, deaths>>
    BY <1>2 DEF vars, kernVars, objVars, histVars
  <2>2. TypeOK'
    BY <2>1 DEF IInv, TypeOK
  <2>3. SomeoneSetsIt'
    BY <2>1 DEF IInv, SomeoneSetsIt, Exists
  <2>4. \A p \in Procs : PlaceInv(p)'
    BY <2>1 DEF IInv, PlaceInv
  <2>5. ASSUME CalmInv PROVE CalmInv'
    <3>1. SemsStay' /\ \A p \in Procs : ObjInv(p)'
      BY <2>1, <2>5 DEF CalmInv, SemsStay, ObjInv, Mine
    <3>2. SetInv'
      BY <2>1, <2>5 DEF CalmInv, SetInv
    <3>3. TakeInv'
      BY <2>1, <2>5 DEF CalmInv, TakeInv, Record, Takers
    <3>4. QED
      BY <3>1, <3>2, <3>3 DEF CalmInv
  <2>6. disturbed' <=> disturbed
    BY <2>1
  <2>7. QED
    BY <2>2, <2>3, <2>4, <2>5, <2>6 DEF IInv
<1>3. QED
  BY <1>1, <1>2 DEF Next, Act

THEOREM Inductive == Spec => []IInv
BY InitIInv, NextIInv, PTL DEF Spec

-----------------------------------------------------------------------------
(* What follows.                                                           *)

\* The types hold, whoever creates a semaphore is on the way to set it (or
\* died, or did not know), and while nothing is removed or reset the token of
\* the lock (lsystemsem.cpp, SEM_UNDO in modifySemaphore) is in the semaphore
\* or with one process, whose death puts it back.
THEOREM TokenNeverLost == Spec => []TokenConserved
<1>1. ASSUME IInv PROVE TokenConserved
  <2>1. TypeOK /\ SomeoneSetsIt
    BY <1>1 DEF IInv
  <2>2. ASSUME ~disturbed, NEW s \in 1 .. sems
        PROVE  /\ \A p \in Procs : adj[s][p] \in {0, m_initVal}
               /\ value[s] + Cardinality(Takers(s)) = inited[s] * m_initVal
    <3>1. s \in Sems
      <4>1. sems \in 0 .. MaxSems /\ MaxSems \in Nat
        BY <2>1, SemAssumption DEF TypeOK
      <4>2. QED
        BY <4>1 DEF Sems
    <3>2. Record(s) /\ inited[s] \in {0, 1}
      BY <1>1, <2>1, <2>2, <3>1 DEF IInv, CalmInv, TakeInv, TypeOK
    <3>3. inited[s] * m_initVal = inited[s]
      BY <3>2 DEF m_initVal
    <3>4. QED
      BY <3>2, <3>3 DEF Record, m_initVal
  <2>3. QED
    BY <2>1, <2>2 DEF TokenConserved
<1>2. QED
  BY <1>1, Inductive, PTL

\* While nothing is removed or reset, two processes whose objects use the same
\* name, or both the number, are not between acquire and release together,
\* except with an object that brought another name's semaphore along.
THEOREM LockExcludes == Spec => []MutualExclusion
<1>1. ASSUME IInv PROVE MutualExclusion
  <2>1. SUFFICES ASSUME ~disturbed, NEW p \in Procs \ kept, NEW q \in Procs \ kept, p # q,
                        pc[p] \in Inside, pc[q] \in Inside, m_key[p] = m_key[q]
                 PROVE  FALSE
    BY DEF MutualExclusion, Inside
  <2>2. TypeOK /\ SemsStay /\ ObjInv(p) /\ ObjInv(q) /\ TakeInv
    BY <1>1, <2>1 DEF IInv, CalmInv
  <2>3. m_semId[p] # 0 /\ m_semId[q] # 0
    BY <2>1, <2>2 DEF ObjInv
  <2>4. m_semId[p] = m_semId[q]
    <3>1. m_key[p] = Number \/ m_key[p] \in Names
      BY <2>2, <2>3 DEF ObjInv, Mine, TypeOK
    <3>2. QED
      BY <2>1, <2>2, <2>3, <3>1 DEF ObjInv, Mine
  <2> DEFINE s == m_semId[p]
  <2>5. s \in Sems
    BY <2>2, <2>3, HasSem
  <2>6. Record(s) /\ value[s] \in Nat /\ inited[s] \in {0, 1}
    BY <2>2, <2>5 DEF TakeInv, TypeOK
  <2>7. p \in Takers(s) /\ q \in Takers(s)
    BY <2>1, <2>4, <2>6 DEF Record, Takers
  <2>8. /\ IsFiniteSet(Takers(s) \ {p}) /\ q \in Takers(s) \ {p}
        /\ Cardinality(Takers(s) \ {p}) = Cardinality(Takers(s)) - 1
    BY <2>1, <2>7, TakersFinite, FS_RemoveElement
  <2>9. Cardinality(Takers(s) \ {p}) # 0 /\ Cardinality(Takers(s) \ {p}) \in Nat
    BY <2>8, FS_EmptySet, FS_CardinalityType
  <2>10. Cardinality(Takers(s)) \in Nat /\ value[s] + Cardinality(Takers(s)) = inited[s]
    BY <2>6, TakersFinite DEF Record
  <2>11. QED
    BY <2>6, <2>8, <2>9, <2>10
<1>2. QED
  BY <1>1, Inductive, PTL

-----------------------------------------------------------------------------
(* SysShm, the segment of a key and the lock of its object, for every set  *)
(* of processes and sizes and every number of segments, calls and faults.  *)
(* Most steps only move their process (ShmQuiet): to the semaphore, in and *)
(* out of the lock; five change segments or what is attached.              *)

ShmOutside == {"idle", "clean", "key", "get", "setval", "undo", "lock", "sem"}

ShmKernel ==
  /\ current \in 0 .. segs /\ segs \in 0 .. MaxSegs
  /\ segSize \in [1 .. MaxSegs -> Nat]
  /\ attached \in [Users -> [1 .. MaxSegs -> Nat]]
  /\ m_memory \in [Users -> 0 .. segs]

ShmSemTypes ==
  /\ keyFile \in BOOLEAN /\ semState \in {"none", "raw", "set"} /\ parted \in BOOLEAN
  /\ opened \in [Users -> {"none", "valid", "stale", "lost"}]
  /\ ownsSem \in [Users -> BOOLEAN] /\ ownsFile \in [Users -> BOOLEAN]

ShmPlaces ==
  /\ shmPc \in [Users -> ShmOutside \cup ShmLocked]
  /\ shmOp \in [Users -> {"none", "create", "read", "detach"}]
  /\ shmMode \in [Users -> {"Open", "Create", "Regain"}]
  /\ want \in [Users -> Sizes \cup {0}]

ShmRest ==
  /\ sem \in Users \cup {"free"} /\ m_size \in [Users -> Sizes \cup {0}]
  /\ calls \in 0 .. MaxCalls /\ faults \in 0 .. MaxFaults

ShmFlags ==
  /\ m_shmMutex \in [Users -> BOOLEAN] /\ m_createShm \in [Users -> BOOLEAN]
  /\ unguarded \in [Users -> BOOLEAN]
  /\ pulled \in BOOLEAN /\ orphaned \in BOOLEAN /\ trespassed \in BOOLEAN

\* What is true of each process: who is past its mutex holds it, who is past
\* lock() holds the semaphore as well, as long as nobody went in without; what
\* it works in it has attached, and detach() only runs with it.
ShmOwn(p) ==
  /\ shmPc[p] # "idle" => shmOp[p] # "none"
  /\ shmOp[p] = "detach" /\ shmPc[p] \notin {"remove", "unlock"} => m_memory[p] # 0
  /\ shmPc[p] = "detach" => shmOp[p] = "detach"
  /\ shmMode[p] = "Regain" => shmPc[p] \in {"get", "setval"} /\ m_shmMutex[p]
  /\ shmPc[p] \in ShmLocked \cup {"sem"} => m_shmMutex[p]
  /\ shmPc[p] \in ShmLocked /\ ~trespassed => sem = p
  /\ m_memory[p] # 0 => attached[p][m_memory[p]] > 0

\* A segment with a key is attached, or the process inside has just created it
\* or is about to see whether it was the last.
ShmHeldInv ==
  ~orphaned /\ current # 0 =>
    \/ Attached(current)
    \/ \E p \in Users : shmPc[p] \in {"attach", "remove"}

ShmOneInv == ~pulled => \A p \in Users : m_memory[p] # 0 => m_memory[p] = current

ShmTypes == ShmKernel /\ ShmSemTypes /\ ShmPlaces /\ ShmRest /\ ShmFlags
ShmInv == ShmTypes /\ (\A p \in Users : ShmOwn(p)) /\ ShmHeldInv /\ ShmOneInv

ShmCall(p) == \E size \in Sizes : Call(p, "create", size) \/ Call(p, "read", size)
ShmQuiet(p) ==
  \/ ShmCall(p) \/ CleanSem(p) \/ FindKey(p) \/ KeyFails(p) \/ GetSem(p) \/ GetFails(p)
  \/ SetSem(p) \/ Undo(p) \/ DestructShm(p) \/ Detach(p) \/ LockMutex(p) \/ LockSem(p)
  \/ RegainSem(p) \/ NoSemaphore(p) \/ SemopFails(p) \/ Unlock(p)

ShmAct(p) == \/ ShmQuiet(p) \/ ShmDie(p)
             \/ CreateShm(p) \/ Attach(p) \/ Shmdt(p) \/ RemoveShm(p)

LEMMA ShmInvInit == ShmInit => ShmInv
<1> SUFFICES ASSUME ShmInit PROVE ShmInv
  OBVIOUS
<1> USE ShmAssumption, ShmNames DEF ShmInit, Segs, NoSeg, Free
<1>1. ShmKernel /\ ShmPlaces
  BY DEF ShmKernel, ShmPlaces, ShmOutside
<1>2. ShmSemTypes
  <2>1. keyFile \in BOOLEAN
    OBVIOUS
  <2>2. /\ semState \in {"none", "raw", "set"} /\ parted \in BOOLEAN
        /\ opened \in [Users -> {"none", "valid", "stale", "lost"}]
        /\ ownsSem \in [Users -> BOOLEAN] /\ ownsFile \in [Users -> BOOLEAN]
    OBVIOUS
  <2>3. QED
    BY ONLY <2>1, <2>2, Zenon DEF ShmSemTypes
<1>3. ASSUME NEW p \in Users PROVE ShmOwn(p)
  BY DEF ShmOwn, ShmLocked
<1>4. ShmHeldInv /\ ShmOneInv
  BY DEF ShmHeldInv, ShmOneInv
<1>5. ShmRest
  BY DEF ShmRest
<1>6. ShmFlags
  BY DEF ShmFlags
<1>7. QED
  BY <1>1, <1>2, <1>3, <1>4, <1>5, <1>6 DEF ShmInv, ShmTypes

LEMMA ShmNextActs == ShmNext => \E p \in Users : ShmAct(p)
BY DEF ShmNext, ShmAct, ShmQuiet, ShmCall, ShmStep, ShmFails, CreateData, ReadCreateData

-----------------------------------------------------------------------------
(* The quiet steps.                                                        *)

\* Where handle() returns to.
LEMMA BehindEffect ==
  ASSUME NEW p \in Users, BehindHandle(p)
  PROVE  \E w \in {"sem", "clean", "lock"}, md \in {"Open", "Create"} :
           /\ shmPc' = [shmPc EXCEPT ![p] = w] /\ shmMode' = [shmMode EXCEPT ![p] = md]
           /\ w = "sem" => shmMode[p] = "Regain"
BY DEF BehindHandle, ShmGo

\* Where lock() returns to.
LEMMA GoInEffect ==
  ASSUME NEW p \in Users, GoIn(p), shmOp[p] \in {"create", "read", "detach"}
  PROVE  \E w \in {"create", "attach", "detach"} :
           shmPc' = [shmPc EXCEPT ![p] = w] /\ (w = "detach" => shmOp[p] = "detach")
BY DEF GoIn, ShmGo

LEMMA QuietKernel ==
  ASSUME NEW p \in Users, ShmQuiet(p)
  PROVE  /\ UNCHANGED <<current, segs, segSize, attached, m_memory, pulled, orphaned>>
         /\ shmPc[p] \notin {"attach", "remove"}
<1> USE DEF shmKernVars, SemOnly, LockOnly, ShmGo, shmObjVars
<1>1. CASE ShmCall(p)
  BY <1>1 DEF ShmCall, Call
<1>2. CASE CleanSem(p) \/ FindKey(p) \/ KeyFails(p)
  BY <1>2 DEF CleanSem, FindKey, KeyFails
<1>3. CASE GetSem(p) \/ GetFails(p) \/ SetSem(p) \/ Undo(p)
  BY <1>3 DEF GetSem, GetFails, SetSem, Undo
<1>4. CASE DestructShm(p) \/ Detach(p) \/ LockMutex(p)
  BY <1>4 DEF DestructShm, Detach, LockMutex
<1>5. CASE LockSem(p) \/ RegainSem(p)
  BY <1>5 DEF LockSem, RegainSem, GoIn
<1>6. CASE NoSemaphore(p) \/ SemopFails(p)
  BY <1>6 DEF NoSemaphore, SemopFails, NotLocked, GoIn
<1>7. CASE Unlock(p)
  BY <1>7 DEF Unlock
<1>8. QED
  BY <1>1, <1>2, <1>3, <1>4, <1>5, <1>6, <1>7 DEF ShmQuiet

\* What a quiet step does to its process: where it goes, and with what.
ShmMoves(p, w, o, md, sz) ==
  /\ shmPc' = [shmPc EXCEPT ![p] = w] /\ shmOp' = [shmOp EXCEPT ![p] = o]
  /\ shmMode' = [shmMode EXCEPT ![p] = md] /\ want' = [want EXCEPT ![p] = sz]

\* It keeps what is true of the process: its mutex and the semaphore apart.
ShmFits(p, w, o, md) ==
  /\ w # "idle" => o # "none"
  /\ o = "detach" /\ w \notin {"remove", "unlock"} => m_memory[p] # 0
  /\ w = "detach" => o = "detach"
  /\ md = "Regain" => w \in {"get", "setval"} /\ m_shmMutex'[p]
  /\ w \in ShmLocked \cup {"sem"} => m_shmMutex'[p]
  /\ w \in ShmLocked /\ ~trespassed' => sem' = p

ShmMove(p) ==
  \E w \in ShmOutside \cup ShmLocked, o \in {"none", "create", "read", "detach"},
     md \in {"Open", "Create", "Regain"}, sz \in Sizes \cup {0} :
    ShmMoves(p, w, o, md, sz) /\ ShmFits(p, w, o, md)

LEMMA QuietMoves ==
  ASSUME ShmInv, NEW p \in Users, ShmQuiet(p)
  PROVE  ShmMove(p)
<1>0. ShmPlaces /\ ShmOwn(p) /\ m_shmMutex \in [Users -> BOOLEAN]
  BY DEF ShmInv, ShmTypes, ShmFlags
<1>1. /\ shmPc[p] \in ShmOutside \cup ShmLocked
      /\ shmOp[p] \in {"none", "create", "read", "detach"}
      /\ shmMode[p] \in {"Open", "Create", "Regain"} /\ want[p] \in Sizes \cup {0}
      /\ shmPc = [shmPc EXCEPT ![p] = shmPc[p]] /\ shmOp = [shmOp EXCEPT ![p] = shmOp[p]]
      /\ shmMode = [shmMode EXCEPT ![p] = shmMode[p]]
      /\ want = [want EXCEPT ![p] = want[p]]
  BY <1>0 DEF ShmPlaces
\* The process stays in its call, outside the lock.
<1>2. ASSUME NEW w \in ShmOutside, NEW md \in {"Open", "Create", "Regain"},
             shmPc' = [shmPc EXCEPT ![p] = w], shmMode' = [shmMode EXCEPT ![p] = md],
             UNCHANGED <<shmOp, want>>, shmPc[p] \notin {"idle", "remove", "unlock"},
             md = "Regain" => w \in {"get", "setval"} /\ m_shmMutex'[p],
             w = "sem" => m_shmMutex'[p]
      PROVE  ShmMove(p)
  <2>1. ShmMoves(p, w, shmOp[p], md, want[p])
    BY <1>1, <1>2 DEF ShmMoves
  <2>2. ShmFits(p, w, shmOp[p], md)
    BY <1>0, <1>2 DEF ShmFits, ShmOwn, ShmOutside, ShmLocked
  <2>3. QED
    BY <1>1, <1>2, <2>1, <2>2 DEF ShmMove
<1>3. ASSUME Return(p) PROVE ShmMove(p)
  <2>1. ShmMoves(p, "idle", "none", "Open", 0)
    BY <1>3 DEF Return, ShmGo, ShmMoves
  <2>2. ShmFits(p, "idle", "none", "Open")
    BY DEF ShmFits, ShmLocked
  <2>3. QED
    BY <2>1, <2>2 DEF ShmMove, ShmOutside
<1>4. ASSUME BehindHandle(p), UNCHANGED <<shmOp, want, m_shmMutex>>,
             shmPc[p] \in {"key", "get", "setval"}
      PROVE  ShmMove(p)
  <2>1. PICK w \in {"sem", "clean", "lock"}, md \in {"Open", "Create"} :
          /\ shmPc' = [shmPc EXCEPT ![p] = w] /\ shmMode' = [shmMode EXCEPT ![p] = md]
          /\ w = "sem" => shmMode[p] = "Regain"
    BY <1>4, BehindEffect
  <2>2. w = "sem" => m_shmMutex'[p]
    BY <1>0, <1>4, <2>1 DEF ShmOwn
  <2>3. w \in ShmOutside
    BY DEF ShmOutside
  <2>4. QED
    BY <1>2, <1>4, <2>1, <2>2, <2>3
<1>5. ASSUME GoIn(p), shmPc[p] = "sem", trespassed' \/ sem' = p PROVE ShmMove(p)
  <2>1. UNCHANGED <<shmOp, want, shmMode, m_shmMutex>>
    BY <1>5 DEF GoIn, LockOnly
  <2>2. shmOp[p] \in {"create", "read", "detach"}
    BY <1>0, <1>1, <1>5 DEF ShmOwn
  <2>3. PICK w \in {"create", "attach", "detach"} :
          shmPc' = [shmPc EXCEPT ![p] = w] /\ (w = "detach" => shmOp[p] = "detach")
    BY <1>5, <2>2, GoInEffect
  <2>4. ShmMoves(p, w, shmOp[p], shmMode[p], want[p])
    BY <1>1, <2>1, <2>3 DEF ShmMoves
  <2>5. ShmFits(p, w, shmOp[p], shmMode[p])
    BY <1>0, <1>5, <2>1, <2>2, <2>3 DEF ShmFits, ShmOwn, ShmLocked
  <2>6. w \in ShmLocked
    BY DEF ShmLocked
  <2>7. QED
    BY <1>1, <2>4, <2>5, <2>6 DEF ShmMove
<1>6. CASE ShmCall(p)
  <2>1. PICK size \in Sizes : Call(p, "create", size) \/ Call(p, "read", size)
    BY <1>6 DEF ShmCall
  <2>2. PICK o \in {"create", "read"} : Call(p, o, size)
    BY <2>1
  <2>3. ShmMoves(p, "clean", o, shmMode[p], size)
    BY <1>1, <2>2 DEF Call, ShmGo, ShmMoves
  <2>4. ShmFits(p, "clean", o, shmMode[p])
    BY <1>0, <2>2 DEF Call, ShmFits, ShmOwn, ShmLocked
  <2>5. QED
    BY <1>1, <2>3, <2>4 DEF ShmMove, ShmOutside
<1>7. CASE CleanSem(p)
  <2>1. /\ shmPc[p] = "clean" /\ shmPc' = [shmPc EXCEPT ![p] = "key"]
        /\ UNCHANGED <<shmOp, want, shmMode, m_shmMutex>>
    BY <1>7 DEF CleanSem, ShmGo, SemOnly
  <2>2. QED
    BY <1>0, <1>1, <1>2, <2>1 DEF ShmOwn, ShmOutside
<1>8. CASE FindKey(p)
  <2>1. /\ shmPc[p] = "key" /\ shmPc' = [shmPc EXCEPT ![p] = "get"]
        /\ UNCHANGED <<shmOp, want, shmMode, m_shmMutex>>
    BY <1>8 DEF FindKey, ShmGo, SemOnly
  <2>2. QED
    BY <1>0, <1>1, <1>2, <2>1 DEF ShmOwn, ShmOutside
<1>9. CASE KeyFails(p)
  <2>1. shmPc[p] = "key" /\ UNCHANGED m_shmMutex
    BY <1>9 DEF KeyFails, SemOnly
  <2>2. Return(p) \/ (BehindHandle(p) /\ UNCHANGED <<shmOp, want>>)
    BY <1>9 DEF KeyFails
  <2>3. QED
    BY <1>3, <1>4, <2>1, <2>2
<1>10. CASE GetSem(p)
  <2>1. shmPc[p] = "get" /\ UNCHANGED <<shmOp, want, m_shmMutex>>
    BY <1>10 DEF GetSem, SemOnly
  <2>2. \/ shmPc' = [shmPc EXCEPT ![p] = "setval"] /\ UNCHANGED shmMode
        \/ BehindHandle(p)
    BY <1>10 DEF GetSem, ShmGo
  <2>3. CASE shmPc' = [shmPc EXCEPT ![p] = "setval"] /\ UNCHANGED shmMode
    BY <1>0, <1>1, <1>2, <2>1, <2>3 DEF ShmOwn, ShmOutside
  <2>4. QED
    BY <1>4, <2>1, <2>2, <2>3
<1>11. CASE GetFails(p)
  <2>1. /\ shmPc[p] = "get" /\ UNCHANGED <<shmOp, want, m_shmMutex>>
        /\ shmMode' = [shmMode EXCEPT ![p] = "Open"]
        /\ \/ shmPc' = [shmPc EXCEPT ![p] = "undo"]
           \/ shmMode[p] = "Regain" /\ shmPc' = [shmPc EXCEPT ![p] = "sem"]
    BY <1>11 DEF GetFails, ShmGo, SemOnly
  <2>2. CASE shmPc' = [shmPc EXCEPT ![p] = "undo"]
    BY <1>0, <1>1, <1>2, <2>1, <2>2 DEF ShmOutside
  <2>3. CASE shmMode[p] = "Regain" /\ shmPc' = [shmPc EXCEPT ![p] = "sem"]
    BY <1>0, <1>1, <1>2, <2>1, <2>3 DEF ShmOwn, ShmOutside
  <2>4. QED
    BY <2>1, <2>2, <2>3
<1>12. CASE SetSem(p)
  BY <1>4, <1>12 DEF SetSem, SemOnly
<1>13. CASE Undo(p)
  BY <1>3, <1>13 DEF Undo
<1>14. CASE DestructShm(p)
  <2>1. shmPc[p] = "idle" /\ UNCHANGED <<shmPc, shmOp, shmMode, want>>
    BY <1>14 DEF DestructShm
  <2>2. ShmMoves(p, "idle", shmOp[p], shmMode[p], want[p])
    BY <1>1, <2>1 DEF ShmMoves
  <2>3. ShmFits(p, "idle", shmOp[p], shmMode[p])
    BY <1>0, <2>1 DEF ShmFits, ShmOwn, ShmLocked
  <2>4. QED
    BY <1>1, <2>2, <2>3 DEF ShmMove, ShmOutside
<1>15. CASE Detach(p)
  <2>1. ShmMoves(p, "lock", "detach", shmMode[p], want[p])
    BY <1>1, <1>15 DEF Detach, ShmGo, LockOnly, ShmMoves
  <2>2. ShmFits(p, "lock", "detach", shmMode[p])
    BY <1>0, <1>15 DEF Detach, ShmFits, ShmOwn, ShmLocked, NoSeg
  <2>3. QED
    BY <1>1, <2>1, <2>2 DEF ShmMove, ShmOutside
<1>16. CASE LockMutex(p)
  <2>1. /\ shmPc[p] \in {"lock", "relock"} /\ shmPc' = [shmPc EXCEPT ![p] = "sem"]
        /\ UNCHANGED <<shmOp, want, shmMode>> /\ m_shmMutex' = [m_shmMutex EXCEPT ![p] = TRUE]
    BY <1>16 DEF LockMutex, ShmGo, LockOnly
  <2>2. m_shmMutex'[p]
    BY <1>0, <2>1
  <2>3. QED
    BY <1>0, <1>1, <1>2, <2>1, <2>2 DEF ShmOwn, ShmOutside
<1>17. CASE LockSem(p)
  BY <1>5, <1>17 DEF LockSem
<1>18. CASE RegainSem(p)
  <2>1. /\ shmPc[p] = "sem" /\ shmPc' = [shmPc EXCEPT ![p] = "get"]
        /\ UNCHANGED <<shmOp, want, m_shmMutex>> /\ shmMode' = [shmMode EXCEPT ![p] = "Regain"]
    BY <1>18 DEF RegainSem, ShmGo, SemOnly
  <2>2. QED
    BY <1>0, <1>2, <2>1 DEF ShmOwn, ShmOutside
<1>19. CASE NoSemaphore(p) \/ SemopFails(p)
  BY <1>5, <1>19 DEF NoSemaphore, SemopFails, NotLocked
<1>20. CASE Unlock(p)
  BY <1>3, <1>20 DEF Unlock
<1>21. QED
  BY <1>6, <1>7, <1>8, <1>9, <1>10, <1>11, <1>12, <1>13, <1>14, <1>15, <1>16, <1>17,
     <1>18, <1>19, <1>20 DEF ShmQuiet

\* A sum of Boolean values in one place of a function.
LEMMA ShmBooleans ==
  ASSUME NEW f, f \in [Users -> BOOLEAN], NEW g, NEW p \in Users, NEW b \in BOOLEAN,
         g = [f EXCEPT ![p] = b] \/ g = [f EXCEPT ![p] = f[p] \/ b]
  PROVE  g \in [Users -> BOOLEAN]
<1>1. f[p] \in BOOLEAN
  OBVIOUS
<1>2. (f[p] \/ b) \in BOOLEAN
  OBVIOUS
<1>3. QED
  BY <1>1, <1>2

LEMMA CleanTypes ==
  ASSUME ShmSemTypes, NEW p \in Users, NEW keeps \in BOOLEAN, Clean(p, keeps)
  PROVE  ShmSemTypes'
<1>1. semState' \in {"none", "raw", "set"}
  BY DEF Clean, ShmSemTypes
<1>2. opened' \in [Users -> {"none", "valid", "stale", "lost"}]
  BY DEF Clean, ShmSemTypes
<1>3. ownsSem' = [ownsSem EXCEPT ![p] = FALSE] /\ ownsFile' = [ownsFile EXCEPT ![p] = FALSE]
  BY DEF Clean
<1>4. ownsSem' \in [Users -> BOOLEAN] /\ ownsFile' \in [Users -> BOOLEAN]
  BY <1>3 DEF ShmSemTypes
<1>5. keyFile' = (keyFile /\ ~ownsFile[p])
  BY DEF Clean
<1>6. keyFile' \in BOOLEAN
  BY <1>5
<1>7. parted' \in BOOLEAN
  BY DEF Clean
<1>8. QED
  BY <1>1, <1>2, <1>4, <1>6, <1>7 DEF ShmSemTypes

LEMMA SemTypesNext ==
  ASSUME ShmSemTypes, NEW p \in Users, ShmAct(p)
  PROVE  ShmSemTypes'
<1>1. ASSUME UNCHANGED shmSemVars PROVE ShmSemTypes'
  BY <1>1 DEF ShmSemTypes, shmSemVars
<1>2. CASE ShmCall(p) \/ GetFails(p)
  BY <1>1, <1>2 DEF ShmCall, Call, GetFails
<1>3. CASE CleanSem(p) \/ Undo(p) \/ DestructShm(p)
  BY <1>3, CleanTypes DEF CleanSem, Undo, DestructShm
<1>4. CASE FindKey(p)
  <2>1. /\ keyFile' = TRUE /\ UNCHANGED <<semState, ownsSem, parted>>
        /\ ownsFile' = [ownsFile EXCEPT ![p] = ~keyFile]
        /\ opened' = [opened EXCEPT ![p] = IF @ = "lost" THEN "stale" ELSE @]
    BY <1>4 DEF FindKey
  <2>2. opened' \in [Users -> {"none", "valid", "stale", "lost"}]
    BY <2>1 DEF ShmSemTypes
  <2>3. ownsFile' \in [Users -> BOOLEAN]
    BY <2>1, ShmBooleans DEF ShmSemTypes
  <2>4. QED
    BY <2>1, <2>2, <2>3 DEF ShmSemTypes
<1>5. CASE KeyFails(p)
  <2>1. /\ UNCHANGED <<keyFile, semState, ownsSem, ownsFile, parted>>
        /\ opened' = [opened EXCEPT ![p] = IF @ = "stale" THEN "lost" ELSE @]
    BY <1>5 DEF KeyFails
  <2>2. opened' \in [Users -> {"none", "valid", "stale", "lost"}]
    BY <2>1 DEF ShmSemTypes
  <2>3. QED
    BY <2>1, <2>2 DEF ShmSemTypes
<1>6. CASE GetSem(p)
  <2>1. UNCHANGED <<keyFile, parted>> /\ semState' \in {semState, "raw"}
    BY <1>6 DEF GetSem
  <2>2. \E o \in {"valid", opened[p]} : opened' = [opened EXCEPT ![p] = o]
    BY <1>6 DEF GetSem
  <2>3. opened' \in [Users -> {"none", "valid", "stale", "lost"}]
    BY <2>2 DEF ShmSemTypes
  <2>4. PICK b \in BOOLEAN : ownsSem' = [ownsSem EXCEPT ![p] = ownsSem[p] \/ b]
    <3> DEFINE claims == opened[p] = "none" /\ (semState = "none" \/ shmMode[p] = "Create")
    <3>1. ownsSem' = [ownsSem EXCEPT ![p] = ownsSem[p] \/ claims]
      BY <1>6, Zenon DEF GetSem
    <3>2. claims \in BOOLEAN
      OBVIOUS
    <3>3. QED
      BY <3>1, <3>2
  <2>5. ownsSem' \in [Users -> BOOLEAN]
    BY <2>4, ShmBooleans DEF ShmSemTypes
  <2>6. PICK c \in BOOLEAN : ownsFile' = [ownsFile EXCEPT ![p] = ownsFile[p] \/ c]
    <3>1. ownsFile' = [ownsFile EXCEPT ![p] = ownsFile[p] \/ shmMode[p] = "Create"]
      BY <1>6, Zenon DEF GetSem
    <3>2. (shmMode[p] = "Create") \in BOOLEAN
      OBVIOUS
    <3>3. QED
      BY <3>1, <3>2
  <2>7. ownsFile' \in [Users -> BOOLEAN]
    BY <2>6, ShmBooleans DEF ShmSemTypes
  <2>8. QED
    BY <2>1, <2>3, <2>5, <2>7 DEF ShmSemTypes
<1>7. CASE SetSem(p)
  <2>1. /\ UNCHANGED <<keyFile, opened, ownsSem, ownsFile>> /\ semState' = "set"
        /\ parted' = (parted \/ sem # Free)
    BY <1>7 DEF SetSem
  <2>2. parted' \in BOOLEAN
    BY <2>1
  <2>3. QED
    BY <2>1, <2>2 DEF ShmSemTypes
<1>8. CASE Detach(p) \/ LockMutex(p)
  BY <1>1, <1>8 DEF Detach, LockMutex, LockOnly
<1>9. CASE LockSem(p) \/ NoSemaphore(p) \/ SemopFails(p)
  BY <1>1, <1>9 DEF LockSem, NoSemaphore, SemopFails, NotLocked, GoIn, LockOnly
<1>10. CASE RegainSem(p)
  <2>1. /\ UNCHANGED <<keyFile, semState, ownsFile, parted>>
        /\ opened' = [opened EXCEPT ![p] = "none"] /\ ownsSem' = [ownsSem EXCEPT ![p] = FALSE]
    BY <1>10 DEF RegainSem
  <2>2. QED
    BY <2>1 DEF ShmSemTypes
<1>11. CASE Unlock(p)
  BY <1>1, <1>11 DEF Unlock
<1>12. CASE ShmDie(p)
  <2>1. /\ UNCHANGED <<keyFile, semState, parted>>
        /\ opened' = [opened EXCEPT ![p] = "none"]
        /\ ownsSem' = [ownsSem EXCEPT ![p] = FALSE] /\ ownsFile' = [ownsFile EXCEPT ![p] = FALSE]
    BY <1>12 DEF ShmDie
  <2>2. QED
    BY <2>1 DEF ShmSemTypes
<1>13. CASE CreateShm(p) \/ Attach(p) \/ Shmdt(p) \/ RemoveShm(p)
  BY <1>1, <1>13 DEF CreateShm, Attach, Shmdt, RemoveShm, ShmOnly
<1>14. QED
  BY <1>2, <1>3, <1>4, <1>5, <1>6, <1>7, <1>8, <1>9, <1>10, <1>11, <1>12, <1>13
     DEF ShmAct, ShmQuiet

LEMMA ShmCounts ==
  /\ \A k \in 0 .. MaxCalls : k < MaxCalls => k + 1 \in 0 .. MaxCalls
  /\ \A k \in 0 .. MaxFaults : k < MaxFaults => k + 1 \in 0 .. MaxFaults
BY ShmAssumption

LEMMA RestNext ==
  ASSUME ShmRest, ShmPlaces, NEW p \in Users, ShmAct(p)
  PROVE  ShmRest'
<1>0. want[p] \in Sizes \cup {0}
  BY DEF ShmPlaces
<1> DEFINE Sem  == sem' \in {sem, p, "free"}
           Size == m_size' = m_size \/ \E n \in {want[p], 0} : m_size' = [m_size EXCEPT ![p] = n]
           Count == /\ calls' = calls \/ (calls < MaxCalls /\ calls' = calls + 1)
                    /\ faults' = faults \/ (faults < MaxFaults /\ faults' = faults + 1)
<1> USE DEF shmObjVars, Free, Fault
<1>1. CASE ShmCall(p)
  <2>1. Sem /\ Size /\ Count
    BY <1>1 DEF ShmCall, Call
  <2>2. QED
    BY <1>0, <2>1, ShmCounts DEF ShmRest
<1>2. CASE CleanSem(p) \/ FindKey(p) \/ KeyFails(p)
  <2>1. Sem /\ Size /\ Count
    BY <1>2 DEF CleanSem, FindKey, KeyFails, SemOnly
  <2>2. QED
    BY <1>0, <2>1, ShmCounts DEF ShmRest
<1>3. CASE GetSem(p) \/ GetFails(p) \/ SetSem(p) \/ Undo(p) \/ RegainSem(p)
  <2>1. Sem /\ Size /\ Count
    BY <1>3 DEF GetSem, GetFails, SetSem, Undo, RegainSem, SemOnly
  <2>2. QED
    BY <1>0, <2>1, ShmCounts DEF ShmRest
<1>4. CASE DestructShm(p) \/ Detach(p) \/ LockMutex(p)
  <2>1. Sem /\ Size /\ Count
    BY <1>4 DEF DestructShm, Detach, LockMutex, LockOnly
  <2>2. QED
    BY <1>0, <2>1, ShmCounts DEF ShmRest
<1>5. CASE LockSem(p) \/ NoSemaphore(p) \/ SemopFails(p)
  <2>1. Sem /\ Count
    BY <1>5 DEF LockSem, NoSemaphore, SemopFails, NotLocked, GoIn, LockOnly
  <2>2. GoIn(p)
    BY <1>5 DEF LockSem, NoSemaphore, SemopFails, NotLocked
  <2>3. Size
    BY <2>2 DEF GoIn
  <2>4. QED
    BY <1>0, <2>1, <2>3, ShmCounts DEF ShmRest
<1>6. CASE Unlock(p) \/ ShmDie(p)
  <2>1. Sem /\ Size /\ Count
    BY <1>6 DEF Unlock, ShmDie
  <2>2. QED
    BY <1>0, <2>1, ShmCounts DEF ShmRest
<1>7. CASE CreateShm(p) \/ Attach(p) \/ Shmdt(p) \/ RemoveShm(p)
  <2>1. Sem /\ Size /\ Count
    BY <1>7 DEF CreateShm, Attach, Shmdt, RemoveShm, ShmOnly
  <2>2. QED
    BY <1>0, <2>1, ShmCounts DEF ShmRest
<1>8. QED
  BY <1>1, <1>2, <1>3, <1>4, <1>5, <1>6, <1>7 DEF ShmAct, ShmQuiet

LEMMA ShmFlagsNext ==
  ASSUME ShmFlags, NEW p \in Users, ShmAct(p)
  PROVE  ShmFlags'
<1> DEFINE Mutex  == m_shmMutex' = m_shmMutex
                       \/ \E b \in BOOLEAN : m_shmMutex' = [m_shmMutex EXCEPT ![p] = b]
           Create == m_createShm' = m_createShm
                       \/ \E b \in BOOLEAN : m_createShm' = [m_createShm EXCEPT ![p] = b]
           Guard  == unguarded' = unguarded
                       \/ \E b \in BOOLEAN : unguarded' = [unguarded EXCEPT ![p] = b]
           Hist   == /\ trespassed' = trespassed \/ trespassed' = TRUE
                     /\ pulled' = pulled \/ pulled' \in BOOLEAN
                     /\ orphaned' = orphaned \/ orphaned' \in BOOLEAN
<1> USE DEF shmObjVars
<1>0. ASSUME Mutex, Create, Guard, Hist PROVE ShmFlags'
  BY <1>0 DEF ShmFlags
<1> HIDE DEF Mutex, Create, Guard, Hist
<1>1. CASE ShmCall(p)
  BY <1>0, <1>1 DEF ShmCall, Call, Mutex, Create, Guard, Hist
<1>2. CASE CleanSem(p) \/ FindKey(p) \/ KeyFails(p)
  BY <1>0, <1>2 DEF CleanSem, FindKey, KeyFails, SemOnly, Mutex, Create, Guard, Hist
<1>3. CASE GetSem(p) \/ GetFails(p) \/ SetSem(p) \/ Undo(p) \/ RegainSem(p)
  BY <1>0, <1>3
     DEF GetSem, GetFails, SetSem, Undo, RegainSem, SemOnly, Mutex, Create, Guard, Hist
<1>4. CASE DestructShm(p)
  BY <1>0, <1>4 DEF DestructShm, Mutex, Create, Guard, Hist
<1>5. CASE Detach(p) \/ LockMutex(p)
  BY <1>0, <1>5 DEF Detach, LockMutex, LockOnly, Mutex, Create, Guard, Hist
<1>6. CASE LockSem(p)
  BY <1>0, <1>6 DEF LockSem, GoIn, LockOnly, Mutex, Create, Guard, Hist
<1>7. CASE NoSemaphore(p) \/ SemopFails(p)
  BY <1>0, <1>7
     DEF NoSemaphore, SemopFails, NotLocked, GoIn, LockOnly, Mutex, Create, Guard, Hist
<1>8. CASE Unlock(p)
  BY <1>0, <1>8 DEF Unlock, MutexFreed, Mutex, Create, Guard, Hist
<1>9. CASE ShmDie(p)
  BY <1>0, <1>9 DEF ShmDie, Mutex, Create, Guard, Hist
<1>10. CASE CreateShm(p) \/ Shmdt(p)
  BY <1>0, <1>10 DEF CreateShm, Shmdt, ShmOnly, Mutex, Create, Guard, Hist
<1>11. CASE Attach(p)
  BY <1>0, <1>11 DEF Attach, ShmOnly, Mutex, Create, Guard, Hist
<1>12. CASE RemoveShm(p)
  BY <1>0, <1>12 DEF RemoveShm, ShmOnly, Mutex, Create, Guard, Hist
<1>13. QED
  BY <1>1, <1>2, <1>3, <1>4, <1>5, <1>6, <1>7, <1>8, <1>9, <1>10, <1>11, <1>12
     DEF ShmAct, ShmQuiet

-----------------------------------------------------------------------------
(* Places, segments, and what is true of each process.                     *)

LEMMA ShmPlacesNext ==
  ASSUME ShmInv, NEW p \in Users, ShmAct(p)
  PROVE  ShmPlaces'
<1>0. ShmPlaces
  BY DEF ShmInv, ShmTypes
<1>1. ASSUME NEW w \in ShmOutside \cup ShmLocked,
             NEW o \in {"none", "create", "read", "detach"},
             NEW md \in {"Open", "Create", "Regain"}, NEW sz \in Sizes \cup {0},
             /\ shmPc' = [shmPc EXCEPT ![p] = w]
             /\ shmOp' = shmOp \/ shmOp' = [shmOp EXCEPT ![p] = o]
             /\ shmMode' = shmMode \/ shmMode' = [shmMode EXCEPT ![p] = md]
             /\ want' = want \/ want' = [want EXCEPT ![p] = sz]
      PROVE  ShmPlaces'
  BY <1>0, <1>1 DEF ShmPlaces
<1>2. /\ 0 \in Sizes \cup {0} /\ "none" \in {"none", "create", "read", "detach"}
      /\ "detach" \in {"none", "create", "read", "detach"}
      /\ "Open" \in {"Open", "Create", "Regain"}
  OBVIOUS
<1>3. CASE ShmQuiet(p)
  <2>1. PICK w \in ShmOutside \cup ShmLocked, o \in {"none", "create", "read", "detach"},
             md \in {"Open", "Create", "Regain"}, sz \in Sizes \cup {0} :
               ShmMoves(p, w, o, md, sz)
    BY <1>3, QuietMoves DEF ShmMove
  <2>2. QED
    BY <1>1, <2>1 DEF ShmMoves
<1>4. CASE ShmDie(p)
  <2>1. /\ shmPc' = [shmPc EXCEPT ![p] = "idle"] /\ shmOp' = [shmOp EXCEPT ![p] = "none"]
        /\ shmMode' = [shmMode EXCEPT ![p] = "Open"] /\ want' = [want EXCEPT ![p] = 0]
    BY <1>4 DEF ShmDie, Return, ShmGo
  <2>2. "idle" \in ShmOutside \cup ShmLocked
    BY DEF ShmOutside
  <2>3. QED
    BY <1>1, <1>2, <2>1, <2>2
<1>5. CASE CreateShm(p) \/ Attach(p) \/ Shmdt(p) \/ RemoveShm(p)
  <2>1. /\ \E w \in ShmLocked : shmPc' = [shmPc EXCEPT ![p] = w]
        /\ shmOp' = shmOp \/ shmOp' = [shmOp EXCEPT ![p] = "detach"]
        /\ shmMode' = shmMode /\ want' = want
    BY <1>5 DEF CreateShm, Attach, Shmdt, RemoveShm, ShmOnly, ShmGo, ShmLocked
  <2>2. QED
    BY <1>1, <1>2, <2>1
<1>6. QED
  BY <1>3, <1>4, <1>5 DEF ShmAct

LEMMA ShmSizes ==
  ASSUME ShmPlaces, NEW p \in Users
  PROVE  want[p] \in Nat
<1>1. want[p] \in Sizes \cup {0}
  BY DEF ShmPlaces
<1>2. \A n : n \in Sizes => n \in Nat
  BY ShmAssumption
<1>3. QED
  BY <1>1, <1>2

LEMMA ShmKernelNext ==
  ASSUME ShmInv, NEW p \in Users, ShmAct(p)
  PROVE  ShmKernel'
<1> USE ShmAssumption DEF Segs, NoSeg
<1>0. ShmKernel /\ ShmPlaces /\ ShmOwn(p)
  BY DEF ShmInv, ShmTypes
<1>1. CASE ShmQuiet(p)
  <2>1. UNCHANGED <<current, segs, segSize, attached, m_memory>>
    BY <1>1, QuietKernel
  <2>2. QED
    BY <1>0, <2>1 DEF ShmKernel
<1>2. CASE ShmDie(p)
  <2>1. /\ attached' = [attached EXCEPT ![p] = [i \in 1 .. MaxSegs |-> 0]]
        /\ m_memory' = [m_memory EXCEPT ![p] = 0]
        /\ UNCHANGED <<current, segs, segSize>>
    BY <1>2 DEF ShmDie
  <2>2. QED
    BY <1>0, <2>1 DEF ShmKernel
<1>3. CASE CreateShm(p)
  <2>1. /\ UNCHANGED <<attached, m_memory>>
        /\ \/ UNCHANGED <<current, segs, segSize>>
           \/ /\ segs < MaxSegs /\ segs' = segs + 1 /\ current' = segs + 1
              /\ segSize' = [segSize EXCEPT ![segs + 1] = want[p]]
    BY <1>3 DEF CreateShm
  <2>2. CASE UNCHANGED <<current, segs, segSize>>
    BY <1>0, <2>1, <2>2 DEF ShmKernel
  <2>3. CASE /\ segs < MaxSegs /\ segs' = segs + 1 /\ current' = segs + 1
             /\ segSize' = [segSize EXCEPT ![segs + 1] = want[p]]
    <3>1. segs' \in 0 .. MaxSegs /\ current' \in 0 .. segs' /\ m_memory' \in [Users -> 0 .. segs']
      BY <1>0, <2>1, <2>3 DEF ShmKernel
    <3>2. want[p] \in Nat
      BY <1>0, ShmSizes
    <3>3. segSize' \in [1 .. MaxSegs -> Nat]
      BY <1>0, <2>3, <3>2 DEF ShmKernel
    <3>4. QED
      BY <1>0, <2>1, <3>1, <3>3 DEF ShmKernel
  <2>4. QED
    BY <2>1, <2>2, <2>3
<1>4. CASE Attach(p)
  <2>1. /\ UNCHANGED <<current, segs, segSize>>
        /\ \/ UNCHANGED <<attached, m_memory>>
           \/ /\ current # 0 /\ m_memory' = [m_memory EXCEPT ![p] = current]
              /\ attached' = [attached EXCEPT ![p][current] = @ + 1]
    BY <1>4 DEF Attach
  <2>2. CASE UNCHANGED <<attached, m_memory>>
    BY <1>0, <2>1, <2>2 DEF ShmKernel
  <2>3. CASE /\ current # 0 /\ m_memory' = [m_memory EXCEPT ![p] = current]
             /\ attached' = [attached EXCEPT ![p][current] = @ + 1]
    <3>1. current \in 1 .. MaxSegs /\ attached[p][current] + 1 \in Nat
      BY <1>0, <2>3 DEF ShmKernel
    <3>2. attached' \in [Users -> [1 .. MaxSegs -> Nat]]
      BY <1>0, <2>3, <3>1 DEF ShmKernel
    <3>3. QED
      BY <1>0, <2>1, <2>3, <3>2 DEF ShmKernel
  <2>4. QED
    BY <2>1, <2>2, <2>3
<1>5. CASE Shmdt(p)
  <2>1. m_memory[p] \in 1 .. MaxSegs /\ attached[p][m_memory[p]] > 0
    BY <1>0, <1>5 DEF Shmdt, ShmKernel, ShmOwn
  <2>2. attached \in [Users -> [1 .. MaxSegs -> Nat]]
    BY <1>0 DEF ShmKernel
  <2>3. attached[p][m_memory[p]] \in Nat
    BY <2>1, <2>2
  <2>4. attached[p][m_memory[p]] - 1 \in Nat
    BY <2>1, <2>3
  <2>5. attached' = [attached EXCEPT ![p] =
                       [attached[p] EXCEPT ![m_memory[p]] = attached[p][m_memory[p]] - 1]]
    BY <1>5 DEF Shmdt
  <2>6. attached' \in [Users -> [1 .. MaxSegs -> Nat]]
    BY <2>1, <2>2, <2>4, <2>5
  <2>7. UNCHANGED <<current, segs, segSize>> /\ m_memory' = [m_memory EXCEPT ![p] = 0]
    BY <1>5 DEF Shmdt
  <2>8. QED
    BY <1>0, <2>6, <2>7 DEF ShmKernel
<1>6. CASE RemoveShm(p)
  <2>1. UNCHANGED <<segs, segSize, attached, m_memory>> /\ current' \in {current, 0}
    BY <1>6 DEF RemoveShm
  <2>2. current' \in 0 .. segs
    BY <1>0, <2>1 DEF ShmKernel
  <2>3. QED
    BY <1>0, <2>1, <2>2 DEF ShmKernel
<1>7. QED
  BY <1>1, <1>2, <1>3, <1>4, <1>5, <1>6 DEF ShmAct

LEMMA ShmTypesNext ==
  ASSUME ShmInv, NEW p \in Users, ShmAct(p)
  PROVE  ShmTypes'
BY ShmKernelNext, SemTypesNext, ShmPlacesNext, RestNext, ShmFlagsNext DEF ShmInv, ShmTypes

\* A step of one process leaves the others where they are.
LEMMA ShmOthers ==
  ASSUME ShmInv, NEW p \in Users, ShmAct(p), NEW q \in Users, q # p
  PROVE  /\ shmPc'[q] = shmPc[q] /\ shmOp'[q] = shmOp[q] /\ shmMode'[q] = shmMode[q]
         /\ m_memory'[q] = m_memory[q] /\ attached'[q] = attached[q]
         /\ m_shmMutex'[q] = m_shmMutex[q]
         /\ sem = q => sem' = q
         /\ trespassed => trespassed'
<1> USE DEF shmObjVars
<1>0. ShmPlaces /\ ShmKernel /\ m_shmMutex \in [Users -> BOOLEAN]
  BY DEF ShmInv, ShmTypes, ShmFlags
<1>1. shmPc'[q] = shmPc[q] /\ shmOp'[q] = shmOp[q] /\ shmMode'[q] = shmMode[q]
  <2>1. CASE ShmQuiet(p)
    <3>1. PICK w \in ShmOutside \cup ShmLocked, o \in {"none", "create", "read", "detach"},
               md \in {"Open", "Create", "Regain"}, sz \in Sizes \cup {0} :
                 ShmMoves(p, w, o, md, sz)
      BY <2>1, QuietMoves DEF ShmMove
    <3>2. QED
      BY <1>0, <3>1 DEF ShmMoves, ShmPlaces
  <2>2. CASE ShmDie(p)
    BY <1>0, <2>2 DEF ShmDie, Return, ShmGo, ShmPlaces
  <2>3. CASE CreateShm(p) \/ Attach(p) \/ Shmdt(p) \/ RemoveShm(p)
    BY <1>0, <2>3 DEF CreateShm, Attach, Shmdt, RemoveShm, ShmOnly, ShmGo, ShmPlaces
  <2>4. QED
    BY <2>1, <2>2, <2>3 DEF ShmAct
<1>2. m_memory'[q] = m_memory[q] /\ attached'[q] = attached[q]
  <2>1. CASE ShmQuiet(p)
    BY <2>1, QuietKernel
  <2>2. CASE ShmDie(p)
    BY <1>0, <2>2 DEF ShmDie, ShmKernel
  <2>3. CASE CreateShm(p) \/ Attach(p) \/ Shmdt(p) \/ RemoveShm(p)
    BY <1>0, <2>3 DEF CreateShm, Attach, Shmdt, RemoveShm, ShmKernel
  <2>4. QED
    BY <2>1, <2>2, <2>3 DEF ShmAct
<1> DEFINE Mutex == m_shmMutex' = m_shmMutex
                      \/ \E b \in BOOLEAN : m_shmMutex' = [m_shmMutex EXCEPT ![p] = b]
           Sem   == sem' = sem \/ (sem = p /\ sem' = "free") \/ (sem = "free" /\ sem' = p)
           Hist  == trespassed' = trespassed \/ trespassed' = TRUE
<1>3. Mutex /\ Sem /\ Hist
  <2>1. CASE ShmCall(p) \/ CleanSem(p) \/ FindKey(p) \/ KeyFails(p)
    BY <2>1 DEF ShmCall, Call, CleanSem, FindKey, KeyFails, SemOnly
  <2>2. CASE GetSem(p) \/ GetFails(p) \/ SetSem(p) \/ Undo(p) \/ RegainSem(p)
    BY <2>2 DEF GetSem, GetFails, SetSem, Undo, RegainSem, SemOnly
  <2>3. CASE DestructShm(p) \/ Detach(p) \/ LockMutex(p)
    BY <2>3 DEF DestructShm, Detach, LockMutex, LockOnly
  <2>4. CASE LockSem(p)
    BY <2>4 DEF LockSem, MayLock, GoIn, LockOnly, Free
  <2>5. CASE NoSemaphore(p) \/ SemopFails(p)
    BY <2>5 DEF NoSemaphore, SemopFails, NotLocked, GoIn, LockOnly
  <2>6. CASE Unlock(p)
    BY <2>6 DEF Unlock, MutexFreed, Free
  <2>7. CASE ShmDie(p)
    BY <2>7 DEF ShmDie, Free
  <2>8. CASE CreateShm(p) \/ Attach(p) \/ Shmdt(p) \/ RemoveShm(p)
    BY <2>8 DEF CreateShm, Attach, Shmdt, RemoveShm, ShmOnly
  <2>9. QED
    BY <2>1, <2>2, <2>3, <2>4, <2>5, <2>6, <2>7, <2>8 DEF ShmAct, ShmQuiet
<1>4. m_shmMutex'[q] = m_shmMutex[q]
  BY <1>0, <1>3
<1>5. sem = q => sem' = q
  BY <1>3, ShmNames DEF Free
<1>6. trespassed => trespassed'
  BY <1>3
<1>7. QED
  BY <1>1, <1>2, <1>4, <1>5, <1>6

LEMMA OthersOwn ==
  ASSUME ShmInv, NEW p \in Users, ShmAct(p), NEW q \in Users, q # p
  PROVE  ShmOwn(q)'
<1>1. ShmOwn(q)
  BY DEF ShmInv
<1>2. QED
  BY <1>1, ShmOthers DEF ShmOwn

LEMMA OwnNext ==
  ASSUME ShmInv, NEW p \in Users, ShmAct(p)
  PROVE  ShmOwn(p)'
<1> USE DEF NoSeg
<1>0. ShmPlaces /\ ShmKernel /\ ShmOwn(p) /\ m_shmMutex \in [Users -> BOOLEAN]
  BY DEF ShmInv, ShmTypes, ShmFlags
<1>1. CASE ShmQuiet(p)
  <2>1. PICK w \in ShmOutside \cup ShmLocked, o \in {"none", "create", "read", "detach"},
             md \in {"Open", "Create", "Regain"}, sz \in Sizes \cup {0} :
               ShmMoves(p, w, o, md, sz) /\ ShmFits(p, w, o, md)
    BY <1>1, QuietMoves DEF ShmMove
  <2>2. shmPc'[p] = w /\ shmOp'[p] = o /\ shmMode'[p] = md
    BY <1>0, <2>1 DEF ShmMoves, ShmPlaces
  <2>3. UNCHANGED <<attached, m_memory>>
    BY <1>1, QuietKernel
  <2>4. QED
    BY <1>0, <2>1, <2>2, <2>3 DEF ShmFits, ShmOwn
<1>2. CASE ShmDie(p)
  <2>1. /\ shmPc' = [shmPc EXCEPT ![p] = "idle"] /\ shmOp' = [shmOp EXCEPT ![p] = "none"]
        /\ shmMode' = [shmMode EXCEPT ![p] = "Open"] /\ m_memory' = [m_memory EXCEPT ![p] = 0]
    BY <1>2 DEF ShmDie, Return, ShmGo
  <2>2. /\ shmPc'[p] = "idle" /\ shmOp'[p] = "none" /\ shmMode'[p] = "Open"
        /\ m_memory'[p] = 0
    BY <1>0, <2>1 DEF ShmPlaces, ShmKernel
  <2>3. QED
    BY <2>2 DEF ShmOwn, ShmLocked
\* Inside: both locks stay.
<1>3. ASSUME shmPc[p] \in ShmLocked, NEW w \in ShmLocked, NEW o, o \in {shmOp[p], "detach"},
             shmPc' = [shmPc EXCEPT ![p] = w], shmOp' = [shmOp EXCEPT ![p] = o],
             UNCHANGED <<shmMode, m_shmMutex, sem, trespassed>>,
             w = "detach" => o = "detach",
             o = "detach" /\ w \notin {"remove", "unlock"} => m_memory'[p] # 0,
             m_memory'[p] # 0 => attached'[p][m_memory'[p]] > 0
      PROVE  ShmOwn(p)'
  <2>1. shmPc'[p] = w /\ shmOp'[p] = o
    BY <1>0, <1>3 DEF ShmPlaces
  <2>2. o # "none" /\ shmMode[p] # "Regain" /\ m_shmMutex[p] /\ (~trespassed => sem = p)
    BY <1>0, <1>3 DEF ShmOwn, ShmLocked
  <2>3. QED
    BY <1>3, <2>1, <2>2 DEF ShmOwn
<1>4. shmOp = [shmOp EXCEPT ![p] = shmOp[p]]
  BY <1>0 DEF ShmPlaces
<1>5. CASE CreateShm(p)
  <2>1. /\ shmPc[p] = "create" /\ UNCHANGED <<shmOp, shmMode, m_shmMutex, sem, trespassed>>
        /\ UNCHANGED <<attached, m_memory>>
        /\ \E w \in {"attach", "unlock"} : shmPc' = [shmPc EXCEPT ![p] = w]
    BY <1>5 DEF CreateShm, ShmOnly, ShmGo
  <2>2. QED
    BY <1>0, <1>3, <1>4, <2>1 DEF ShmOwn, ShmLocked
<1>6. CASE Attach(p)
  <2>1. shmPc[p] = "attach" /\ UNCHANGED <<shmMode, m_shmMutex, sem, trespassed>>
    BY <1>6 DEF Attach, ShmOnly
  <2>2. CASE current = 0
    <3>1. UNCHANGED <<attached, m_memory, shmOp>> /\ shmPc' = [shmPc EXCEPT ![p] = "unlock"]
      BY <1>6, <2>2 DEF Attach, ShmGo
    <3>2. QED
      BY <1>0, <1>3, <1>4, <2>1, <3>1 DEF ShmOwn, ShmLocked
  <2>3. CASE current # 0
    <3>1. /\ m_memory' = [m_memory EXCEPT ![p] = current]
          /\ attached' = [attached EXCEPT ![p][current] = @ + 1]
          /\ \/ UNCHANGED shmOp /\ shmPc' = [shmPc EXCEPT ![p] = "unlock"]
             \/ shmOp' = [shmOp EXCEPT ![p] = "detach"] /\ shmPc' = [shmPc EXCEPT ![p] = "relock"]
      BY <1>6, <2>3 DEF Attach, ShmGo
    <3>2. current \in 1 .. MaxSegs /\ attached[p][current] \in Nat
      <4>1. /\ current \in 0 .. segs /\ segs \in 0 .. MaxSegs
            /\ attached \in [Users -> [1 .. MaxSegs -> Nat]]
        BY <1>0 DEF ShmKernel
      <4>2. current \in 1 .. MaxSegs
        BY <2>3, <4>1, ShmAssumption
      <4>3. QED
        BY <4>1, <4>2
    <3>3. m_memory'[p] = current /\ attached'[p][current] = attached[p][current] + 1
      BY <1>0, <3>1, <3>2 DEF ShmKernel
    <3>4. m_memory'[p] # 0 /\ attached'[p][m_memory'[p]] > 0
      BY <2>3, <3>2, <3>3
    <3>5. CASE UNCHANGED shmOp /\ shmPc' = [shmPc EXCEPT ![p] = "unlock"]
      BY <1>3, <1>4, <2>1, <3>4, <3>5 DEF ShmLocked
    <3>6. CASE /\ shmOp' = [shmOp EXCEPT ![p] = "detach"]
               /\ shmPc' = [shmPc EXCEPT ![p] = "relock"]
      BY <1>3, <2>1, <3>4, <3>6 DEF ShmLocked
    <3>7. QED
      BY <3>1, <3>5, <3>6
  <2>4. QED
    BY <2>2, <2>3
<1>7. CASE Shmdt(p)
  <2>1. /\ shmPc[p] = "detach" /\ UNCHANGED <<shmOp, shmMode, m_shmMutex, sem, trespassed>>
        /\ m_memory' = [m_memory EXCEPT ![p] = 0] /\ shmPc' = [shmPc EXCEPT ![p] = "remove"]
    BY <1>7 DEF Shmdt, ShmOnly, ShmGo
  <2>2. m_memory'[p] = 0
    BY <1>0, <2>1 DEF ShmKernel
  <2>3. QED
    BY <1>3, <1>4, <2>1, <2>2 DEF ShmLocked
<1>8. CASE RemoveShm(p)
  <2>1. /\ shmPc[p] = "remove" /\ UNCHANGED <<shmOp, shmMode, m_shmMutex, sem, trespassed>>
        /\ UNCHANGED <<attached, m_memory>> /\ shmPc' = [shmPc EXCEPT ![p] = "unlock"]
    BY <1>8 DEF RemoveShm, ShmOnly, ShmGo
  <2>2. QED
    BY <1>0, <1>3, <1>4, <2>1 DEF ShmOwn, ShmLocked
<1>9. QED
  BY <1>1, <1>2, <1>5, <1>6, <1>7, <1>8 DEF ShmAct

LEMMA ShmHeldNext ==
  ASSUME ShmInv, NEW p \in Users, ShmAct(p)
  PROVE  ShmHeldInv'
<1> USE DEF ShmGo, NoSeg
<1>0. /\ shmPc \in [Users -> ShmOutside \cup ShmLocked]
      /\ attached \in [Users -> [1 .. MaxSegs -> Nat]]
      /\ current \in 0 .. segs /\ segs \in 0 .. MaxSegs /\ MaxSegs \in Nat
  BY ShmAssumption DEF ShmInv, ShmTypes, ShmPlaces, ShmKernel
<1> DEFINE Held == \/ \E q \in Users : attached[q][current] > 0
                   \/ \E q \in Users : shmPc[q] \in {"attach", "remove"}
<1>1. SUFFICES ASSUME ~orphaned', current' # 0 PROVE Held'
  BY DEF ShmHeldInv, Attached
<1>2. ~orphaned /\ current # 0 => Held
  BY DEF ShmInv, ShmHeldInv, Attached
<1>3. ASSUME UNCHANGED <<current, attached, orphaned>>,
             shmPc[p] \notin {"attach", "remove"}
      PROVE  Held'
  <2>1. CASE \E q \in Users : attached[q][current] > 0
    BY <1>3, <2>1
  <2>2. CASE \E q \in Users : shmPc[q] \in {"attach", "remove"}
    <3>1. PICK q \in Users : shmPc[q] \in {"attach", "remove"}
      BY <2>2
    <3>2. shmPc'[q] = shmPc[q]
      BY <1>3, <3>1, ShmOthers
    <3>3. QED
      BY <3>1, <3>2
  <2>3. QED
    BY <1>1, <1>2, <1>3, <2>1, <2>2
<1>4. CASE ShmQuiet(p)
  BY <1>3, <1>4, QuietKernel
<1>5. CASE ShmDie(p)
  <2>1. PICK q \in Users \ {p} : attached[q][current] # 0
    BY <1>1, <1>5 DEF ShmDie
  <2>2. attached'[q] = attached[q] /\ current' = current
    BY <1>5, <2>1, ShmOthers DEF ShmDie
  <2>3. attached[q][current] \in Nat
    BY <1>0, <1>1, <2>2
  <2>4. QED
    BY <2>1, <2>2, <2>3
<1>6. CASE CreateShm(p)
  <2>1. CASE current' = current
    <3>1. UNCHANGED <<current, attached, orphaned>> /\ shmPc[p] \notin {"attach", "remove"}
      BY <1>6, <2>1 DEF CreateShm
    <3>2. QED
      BY <1>3, <3>1
  <2>2. CASE current' # current
    <3>1. shmPc' = [shmPc EXCEPT ![p] = "attach"]
      BY <1>6, <2>2 DEF CreateShm
    <3>2. QED
      BY <1>0, <3>1
  <2>3. QED
    BY <2>1, <2>2
<1>7. CASE Attach(p)
  <2>1. /\ attached' = [attached EXCEPT ![p][current] = @ + 1]
        /\ current' = current
    BY <1>1, <1>7 DEF Attach
  <2>2. current \in 1 .. MaxSegs
    BY <1>0, <1>1, <2>1
  <2>3. attached'[p][current'] > 0
    BY <1>0, <2>1, <2>2
  <2>4. QED
    BY <2>3
<1>8. CASE Shmdt(p)
  <2>1. shmPc' = [shmPc EXCEPT ![p] = "remove"]
    BY <1>8 DEF Shmdt
  <2>2. QED
    BY <1>0, <2>1
<1>9. CASE RemoveShm(p)
  <2>1. Attached(current) /\ UNCHANGED <<current, attached>>
    BY <1>1, <1>9 DEF RemoveShm, Unused
  <2>2. QED
    BY <2>1 DEF Attached
<1>10. QED
  BY <1>4, <1>5, <1>6, <1>7, <1>8, <1>9 DEF ShmAct

LEMMA ShmOneNext ==
  ASSUME ShmInv, NEW p \in Users, ShmAct(p)
  PROVE  ShmOneInv'
<1> USE DEF NoSeg
<1>0. m_memory \in [Users -> 0 .. segs]
  BY DEF ShmInv, ShmTypes, ShmKernel
<1>1. SUFFICES ASSUME ~pulled', NEW q \in Users, m_memory'[q] # 0
               PROVE  m_memory'[q] = current'
  BY DEF ShmOneInv
<1>2. ~pulled => \A r \in Users : m_memory[r] # 0 => m_memory[r] = current
  BY DEF ShmInv, ShmOneInv
<1>3. \A r \in Users : m_memory[r] # 0 => attached[r][m_memory[r]] > 0
  BY DEF ShmInv, ShmOwn
<1>4. ASSUME UNCHANGED <<current, pulled>>,
             \/ UNCHANGED m_memory
             \/ m_memory' = [m_memory EXCEPT ![p] = 0]
             \/ m_memory' = [m_memory EXCEPT ![p] = current]
      PROVE  m_memory'[q] = current'
  BY <1>0, <1>1, <1>2, <1>4
<1>5. CASE ShmQuiet(p)
  BY <1>4, <1>5, QuietKernel
<1>6. CASE ShmDie(p)
  <2>1. UNCHANGED <<current, pulled>> /\ m_memory' = [m_memory EXCEPT ![p] = 0]
    BY <1>6 DEF ShmDie
  <2>2. QED
    BY <1>4, <2>1
<1>7. CASE CreateShm(p)
  <2>1. UNCHANGED <<m_memory, pulled>> /\ (UNCHANGED current \/ current = 0)
    BY <1>7 DEF CreateShm, Exclusive
  <2>2. QED
    BY <1>1, <1>2, <2>1
<1>8. CASE Attach(p)
  <2>1. /\ UNCHANGED <<current, pulled>>
        /\ UNCHANGED m_memory \/ m_memory' = [m_memory EXCEPT ![p] = current]
    BY <1>8 DEF Attach
  <2>2. QED
    BY <1>4, <2>1
<1>9. CASE Shmdt(p)
  BY <1>4, <1>9 DEF Shmdt
<1>10. CASE RemoveShm(p)
  <2>1. CASE UNCHANGED <<current, pulled>>
    BY <1>4, <1>10, <2>1 DEF RemoveShm
  <2>2. CASE ~UNCHANGED <<current, pulled>>
    <3>1. /\ UNCHANGED m_memory
          /\ Unused \/ MayPull(p)
          /\ pulled' = (pulled \/ (m_createShm[p] /\ Attached(current)))
      BY <1>10, <2>2 DEF RemoveShm
    <3>2. ~pulled /\ ~Attached(current)
      BY <1>1, <3>1 DEF Unused, MayPull
    <3>3. m_memory[q] = current /\ attached[q][m_memory[q]] > 0
      BY <1>1, <1>2, <1>3, <3>1, <3>2
    <3>4. QED
      BY <3>2, <3>3 DEF Attached
  <2>3. QED
    BY <2>1, <2>2
<1>11. QED
  BY <1>5, <1>6, <1>7, <1>8, <1>9, <1>10 DEF ShmAct

LEMMA ShmInvNext ==
  ASSUME ShmInv, [ShmNext]_shmVars
  PROVE  ShmInv'
<1>1. CASE ShmNext
  <2>1. PICK p \in Users : ShmAct(p)
    BY <1>1, ShmNextActs
  <2>2. ASSUME NEW q \in Users PROVE ShmOwn(q)'
    BY <2>1, OwnNext, OthersOwn
  <2>3. QED
    BY <2>1, <2>2, ShmTypesNext, ShmHeldNext, ShmOneNext DEF ShmInv
<1>2. CASE UNCHANGED shmVars
  <2> USE <1>2 DEF ShmInv, shmVars, shmKernVars, shmSemVars, shmObjVars
  <2>1. ShmKernel' /\ ShmPlaces' /\ ShmRest'
    BY DEF ShmTypes, ShmKernel, ShmPlaces, ShmRest
  <2>2. ShmSemTypes'
    BY DEF ShmTypes, ShmSemTypes
  <2>3. ShmFlags'
    BY DEF ShmTypes, ShmFlags
  <2>4. ASSUME NEW q \in Users PROVE ShmOwn(q)'
    BY DEF ShmOwn
  <2>5. ShmHeldInv' /\ ShmOneInv'
    BY DEF ShmHeldInv, ShmOneInv, Attached
  <2>6. QED
    BY <2>1, <2>2, <2>3, <2>4, <2>5 DEF ShmTypes
<1>3. QED
  BY <1>1, <1>2

\* Processes that share a key share memory, until an object that called create
\* detaches before the others; and the last one to leave removes the segment,
\* as long as the semaphore keeps its users together and nobody goes in without.
THEOREM SegmentShared == ShmSpec => []OneSegment
<1>1. ShmInit => ShmInv
  BY ShmInvInit
<1>2. ShmInv /\ [ShmNext]_shmVars => ShmInv'
  BY ShmInvNext
<1>3. ShmInv => OneSegment
  <2>1. SUFFICES ASSUME ShmInv PROVE OneSegment
    OBVIOUS
  <2>2. ShmTypeOK
    <3>1. ShmKernel /\ ShmSemTypes /\ ShmPlaces /\ ShmRest /\ ShmFlags
      BY <2>1 DEF ShmInv, ShmTypes
    <3>2. /\ current \in 0 .. segs /\ segs \in 0 .. MaxSegs
          /\ segSize \in [Segs -> Nat] /\ attached \in [Users -> [Segs -> Nat]]
          /\ m_memory \in [Users -> 0 .. segs]
      BY <3>1 DEF ShmKernel, Segs
    <3>3. /\ shmPc \in [Users -> {"idle", "clean", "key", "get", "setval", "undo",
                                  "lock", "sem"} \cup ShmLocked]
          /\ shmOp \in [Users -> {"none", "create", "read", "detach"}]
          /\ shmMode \in [Users -> {"Open", "Create", "Regain"}]
          /\ want \in [Users -> Sizes \cup {0}]
      BY <3>1 DEF ShmPlaces, ShmOutside
    <3>4. /\ sem \in Users \cup {Free} /\ m_size \in [Users -> Sizes \cup {0}]
          /\ calls \in 0 .. MaxCalls /\ faults \in 0 .. MaxFaults
      BY <3>1 DEF ShmRest, Free
    <3>5. \A p \in Users : shmPc[p] \in ShmLocked =>
            m_shmMutex[p] /\ (~parted /\ ~trespassed => sem = p)
      BY <2>1 DEF ShmInv, ShmOwn
    <3>6. QED
      BY <3>1, <3>2, <3>3, <3>4, <3>5 DEF ShmTypeOK, ShmSemTypes, ShmFlags
  <2>3. ~trespassed => LastOneRemoves
    <3>1. SUFFICES ASSUME ~trespassed, sem = "free", current # 0, ~orphaned
                   PROVE  Attached(current)
      BY DEF LastOneRemoves, Free, NoSeg
    <3>2. ASSUME NEW q \in Users PROVE shmPc[q] \notin ShmLocked
      BY <2>1, <3>1, ShmNames DEF ShmInv, ShmOwn, Free
    <3>3. QED
      BY <2>1, <3>1, <3>2 DEF ShmInv, ShmHeldInv, ShmLocked
  <2>4. QED
    BY <2>1, <2>2, <2>3 DEF OneSegment, NoSeg, ShmInv, ShmOneInv
<1>4. QED
  BY <1>1, <1>2, <1>3, PTL DEF ShmSpec

-----------------------------------------------------------------------------
(* MsgQueue, for every set of objects and types, and every capacity and    *)
(* number of sends, queues and starts.  A step moves messages in one of    *)
(* seven ways (Moves); what the places of messages promise is shown once   *)
(* for each of these, and not for each action.                             *)

\* The thread exists while m_pid names it and running is only set then; Me
\* is opened while it has none.
ReceiverInv ==
  /\ m_pid = "live" <=> thr # "none"
  /\ own = "created" => m_pid = "live"
  /\ running = 1 => own = "idle" /\ m_pid = "live"
  /\ opening[Me] => own = "idle" /\ m_pid = "none" /\ stopping = "no"

\* No key, no messages; the queue is in the order of sending.
Emptied   == key = 0 => queue = <<>>
Ascending == \A i, j \in 1 .. Len(queue) : i < j => queue[i].n < queue[j].n

\* What was handled is older than what is in hand, and both than what waits
\* for the thread.
HandledFirst ==
  /\ \A i, j \in 1 .. Len(handled) : i < j => handled[i] < handled[j]
  /\ \A i \in 1 .. Len(handled) : \A m \in InHand : handled[i] < m
  /\ \A i \in 1 .. Len(queue) : queue[i].type = m_msgType =>
       /\ \A j \in 1 .. Len(handled) : handled[j] < queue[i].n
       /\ \A m \in InHand : m < queue[i].n

InQueue   == {queue[i].n : i \in 1 .. Len(queue)}
InHandled == {handled[i] : i \in 1 .. Len(handled)}

\* Every number of a send is in one place.
Accounted ==
  /\ InQueue \cup InHand \cup InHandled \cup polled \cup lost = 1 .. sends
  /\ InQueue \cap InHand = {} /\ InQueue \cap InHandled = {}
  /\ InQueue \cap polled = {} /\ InQueue \cap lost = {}
  /\ InHand \cap InHandled = {} /\ InHand \cap polled = {} /\ InHand \cap lost = {}
  /\ InHandled \cap polled = {} /\ InHandled \cap lost = {} /\ polled \cap lost = {}

ThreadTypes ==
  /\ m_pid \in {"none", "live", "stale"} /\ running \in {0, 1}
  /\ thr \in {"none", "born", "test", "work", "gone"} /\ starts \in Nat
  /\ own \in {"idle", "created", "cancel", "join", "dtorWake", "dtorJoin", "dead",
              "baseDtor", "baseCancel", "baseJoin"}
  /\ wpc \in {"receive", "copy", "call"} /\ stopping \in {"no", "release", "join"}

KernelTypes ==
  /\ key \in 0 .. ids /\ ids \in 0 .. MaxQueues
  /\ m_msgId \in [Objects -> 0 .. ids]

QueueFlags ==
  /\ m_msgCreated \in [Objects -> BOOLEAN] /\ opening \in [Objects -> BOOLEAN]
  /\ cancel \in BOOLEAN /\ orphan \in BOOLEAN

MessageTypes ==
  /\ queue \in Seq(Message) /\ Len(queue) <= Capacity
  /\ handled \in Seq(Nat) /\ polled \subseteq Nat /\ lost \subseteq Nat
  /\ sends \in 0 .. MaxSends

LocalTypes == m_msgDta \in Message /\ val \in Message

\* How messages move in a step: not at all, into the queue, to a peer, to the
\* thread, from there to the callback or away, and away with the queue.
Stays   == UNCHANGED <<queue, handled, polled, lost, sends>> /\ InHand' = InHand
Queued  == /\ \E t \in Types : queue' = Append(queue, [n |-> sends + 1, type |-> t])
           /\ Len(queue) < Capacity /\ sends < MaxSends /\ sends' = sends + 1
           /\ UNCHANGED <<handled, polled, lost>> /\ InHand' = InHand
Out(i)  == i \in 1 .. Len(queue) /\ queue' = RemoveAt(queue, i)
Polled(i) == /\ Out(i) /\ polled' = polled \cup {queue[i].n}
             /\ UNCHANGED <<handled, lost, sends>> /\ InHand' = InHand
Taken(i) == /\ Out(i) /\ queue[i].type = m_msgType
            /\ \A j \in 1 .. Len(queue) : queue[j].type = m_msgType => i <= j
            /\ InHand = {} /\ InHand' = {queue[i].n}
            /\ UNCHANGED <<handled, polled, lost, sends>>
Handed  == /\ InHand = {val.n} /\ InHand' = {} /\ handled' = Append(handled, val.n)
           /\ UNCHANGED <<queue, polled, lost, sends>>
Dropped == /\ InHand' = {} /\ lost' = lost \cup InHand
           /\ UNCHANGED <<queue, handled, polled, sends>>
Removed == /\ queue' = <<>> /\ lost' = lost \cup InQueue
           /\ UNCHANGED <<handled, polled, sends>> /\ InHand' = InHand

Moves == \/ Stays \/ Queued \/ Handed \/ Dropped \/ Removed
         \/ \E i \in 1 .. Len(queue) : Polled(i) \/ Taken(i)

QueueInv == /\ ThreadTypes /\ KernelTypes /\ QueueFlags /\ MessageTypes /\ LocalTypes
            /\ ReceiverInv /\ Emptied /\ Ascending /\ HandledFirst /\ Accounted
            /\ QueueHasCreator

\* Removing one element of a sequence.
LEMMA RemoveAtElements ==
  ASSUME NEW S, NEW s \in Seq(S), NEW i \in 1 .. Len(s)
  PROVE  /\ RemoveAt(s, i) \in Seq(S)
         /\ Len(RemoveAt(s, i)) = Len(s) - 1
         /\ \A j \in 1 .. Len(s) - 1 :
              RemoveAt(s, i)[j] = IF j < i THEN s[j] ELSE s[j + 1]
<1> DEFINE a == SubSeq(s, 1, i - 1)
           b == SubSeq(s, i + 1, Len(s))
<1>1. RemoveAt(s, i) = a \o b
  BY DEF RemoveAt
<1>2. a \in Seq(S) /\ Len(a) = i - 1 /\ \A j \in 1 .. i - 1 : a[j] = s[j]
  BY SubSeqProperties
<1>3. b \in Seq(S) /\ Len(b) = Len(s) - i /\ \A j \in 1 .. Len(s) - i : b[j] = s[i + j]
  BY SubSeqProperties
<1> HIDE DEF a, b
<1>4. /\ a \o b \in Seq(S) /\ Len(a \o b) = Len(a) + Len(b)
      /\ \A j \in 1 .. Len(a) + Len(b) :
           (a \o b)[j] = IF j <= Len(a) THEN a[j] ELSE b[j - Len(a)]
  BY <1>2, <1>3, ConcatProperties
<1>5. Len(a) + Len(b) = Len(s) - 1
  BY <1>2, <1>3
<1>6. ASSUME NEW j \in 1 .. Len(s) - 1
      PROVE  (a \o b)[j] = IF j < i THEN s[j] ELSE s[j + 1]
  <2>1. CASE j < i
    BY <1>2, <1>4, <1>5, <2>1
  <2>2. CASE ~(j < i)
    <3>1. j - Len(a) \in 1 .. Len(s) - i /\ i + (j - Len(a)) = j + 1 /\ ~(j <= Len(a))
      BY <1>2, <2>2
    <3>2. b[j - Len(a)] = s[j + 1]
      BY <1>3, <3>1
    <3>3. QED
      BY <1>4, <1>5, <2>2, <3>1, <3>2
  <2>3. QED
    BY <2>1, <2>2
<1>7. QED
  BY <1>1, <1>4, <1>5, <1>6

\* The least of a set of numbers.
LEMMA LeastOf ==
  ASSUME NEW T, T \subseteq Nat, T # {}
  PROVE  \E x \in T : \A y \in T : x <= y
<1>1. PICK x \in T : \A y \in T : ~(<<y, x>> \in OpToRel(<, Nat))
  BY NatLessThanWellFounded, WFMin, Zenon
<1>2. ASSUME NEW y \in T PROVE x <= y
  <2>1. ~(<<y, x>> \in OpToRel(<, Nat))
    BY <1>1
  <2>2. ~(y < x)
    BY <2>1, Zenon DEF OpToRel
  <2>3. QED
    BY <2>2
<1>3. QED
  BY <1>2

\* msgrcv takes the first message of its type.
LEMMA FirstOfType ==
  ASSUME queue \in Seq(Message), NEW t, Wanted(t) # {}
  PROVE  /\ FirstWanted(t) \in 1 .. Len(queue)
         /\ queue[FirstWanted(t)].type = t
         /\ \A j \in 1 .. Len(queue) : queue[j].type = t => FirstWanted(t) <= j
<1> DEFINE W == Wanted(t)
<1>1. W = {i \in 1 .. Len(queue) : queue[i].type = t}
  BY DEF Wanted
<1>2. W \subseteq Nat
  BY <1>1
<1>3. \E i \in W : \A j \in W : i <= j
  BY <1>2, LeastOf
<1>4. FirstWanted(t) = CHOOSE i \in W : \A j \in W : i <= j
  BY DEF FirstWanted
<1> HIDE DEF W
<1>5. FirstWanted(t) \in W /\ \A j \in W : FirstWanted(t) <= j
  BY <1>3, <1>4
<1>6. QED
  BY <1>1, <1>5

\* The numbers of what is in the queue.
LEMMA QueueNumbers ==
  ASSUME queue \in Seq(Message)
  PROVE  Numbers(queue) = InQueue
BY DEF Numbers, Range, InQueue

\* What is in hand, by the place of the thread.
LEMMA HandCases ==
  /\ thr # "work" \/ wpc = "receive" => InHand = {}
  /\ thr = "work" /\ wpc = "copy" => InHand = {m_msgDta.n}
  /\ thr = "work" /\ wpc = "call" => InHand = {val.n}
BY DEF InHand

\* The owner's calls do not start or end a round of the thread.
LEMMA OwnerEffect ==
  ASSUME ReceiverInv, OwnerCall \/ OwnerStep
  PROVE  thr' = "work" <=> thr = "work"
<1> USE DEF OwnIdle
<1>1. CASE StartCreate
  BY <1>1 DEF StartCreate, ReceiverInv
<1>2. CASE StartFail \/ Stop \/ WaitEnd \/ DtorBegin
  BY <1>2 DEF StartFail, Stop, WaitEnd, DtorBegin
<1>3. CASE Join
  BY <1>3 DEF Join
<1>4. CASE StartMark \/ PthreadCancel \/ BaseDtor
  BY <1>4 DEF StartMark, PthreadCancel, BaseDtor
<1>5. QED
  BY <1>1, <1>2, <1>3, <1>4 DEF OwnerCall, OwnerStep

\* Who stays in its round has the same in hand.
LEMMA SameHand ==
  ASSUME thr' = "work" <=> thr = "work", UNCHANGED <<wpc, val, m_msgDta>>
  PROVE  InHand' = InHand
<1>1. CASE thr = "work"
  <2>1. thr' = thr
    BY <1>1
  <2>2. QED
    BY <2>1 DEF InHand
<1>2. CASE thr # "work"
  BY <1>2 DEF InHand
<1>3. QED
  BY <1>1, <1>2

\* Delete and Rmid take the queue with all that is in it, or leave it.
LEMMA RmidEffect ==
  ASSUME MessageTypes, NEW o, Rmid(o)
  PROVE  \/ UNCHANGED <<key, queue, lost>>
         \/ /\ key' = 0 /\ queue' = <<>> /\ lost' = lost \cup InQueue
            /\ Reaches(o)
BY QueueNumbers DEF Rmid, NoQueue, MessageTypes

\* The worker of Me moves messages to the callback or loses them.
LEMMA WorkerMoves ==
  ASSUME QueueInv, WorkerStep \/ ReceiveInterrupted
  PROVE  Moves
<1> USE DEF pthVars, msgKernVars, msgObjVars, msgHistVars
<1>1. CASE WorkerEnter
  <2>1. (thr' = "work" <=> thr = "work") /\ UNCHANGED <<wpc, val, m_msgDta>>
    BY <1>1 DEF WorkerEnter, Enter
  <2>2. QED
    BY <1>1, <2>1, SameHand DEF WorkerEnter, Moves, Stays
<1>2. CASE WorkerLoop
  <2>1. InHand = {} /\ InHand' = {}
    BY <1>2 DEF WorkerLoop, LoopTest, InHand
  <2>2. QED
    BY <1>2, <2>1 DEF WorkerLoop, Moves, Stays
<1>3. CASE Receive
  <2>1. queue \in Seq(Message)
    BY DEF QueueInv, MessageTypes
  <2> DEFINE i == FirstWanted(m_msgType)
  <2>2. /\ i \in 1 .. Len(queue) /\ queue[i].type = m_msgType
        /\ \A j \in 1 .. Len(queue) : queue[j].type = m_msgType => i <= j
    BY <1>3, <2>1, FirstOfType DEF Receive, RecvType
  <2>3. m_msgDta' = queue[i] /\ queue' = RemoveAt(queue, i)
    BY <1>3 DEF Receive, RecvType
  <2>4. thr = "work" /\ wpc = "receive" /\ thr' = "work" /\ wpc' = "copy"
    BY <1>3 DEF Receive
  <2>5. InHand = {} /\ InHand' = {queue[i].n}
    BY <2>3, <2>4 DEF InHand
  <2>6. UNCHANGED <<handled, polled, lost, sends>>
    BY <1>3 DEF Receive
  <2> HIDE DEF i
  <2>7. Taken(i)
    BY <2>2, <2>3, <2>5, <2>6 DEF Taken, Out
  <2>8. QED
    BY <2>2, <2>7 DEF Moves
<1>4. CASE ReceiveFails \/ ReceiveInterrupted
  <2>1. InHand = {} /\ InHand' = {}
    BY <1>4 DEF ReceiveFails, ReceiveInterrupted, AfterSignal, InHand
  <2>2. UNCHANGED <<queue, handled, polled, lost, sends>>
    BY <1>4 DEF ReceiveFails, ReceiveInterrupted
  <2>3. QED
    BY <2>1, <2>2 DEF Moves, Stays
<1>5. CASE Copy
  <2>1. thr = "work" /\ wpc = "copy" /\ thr' = "work" /\ wpc' = "call" /\ val' = m_msgDta
    BY <1>5 DEF Copy, Copied
  <2>2. InHand' = InHand
    BY <2>1 DEF InHand
  <2>3. QED
    BY <1>5, <2>2 DEF Copy, Moves, Stays
<1>6. CASE Process
  <2>1. thr = "work" /\ wpc = "call" /\ thr' = "test"
    BY <1>6 DEF Process, WorkAgain
  <2>2. InHand = {val.n} /\ InHand' = {}
    BY <2>1 DEF InHand
  <2>3. UNCHANGED <<queue, polled, sends>>
    BY <1>6 DEF Process
  <2>4. \/ handled' = Append(handled, val.n) /\ UNCHANGED lost
        \/ lost' = lost \cup {val.n} /\ UNCHANGED handled
    BY <1>6 DEF Process
  <2>5. QED
    BY <2>2, <2>3, <2>4 DEF Moves, Handed, Dropped
<1>7. CASE WorkerCancelled
  <2>1. thr' = "gone" /\ (thr = "work" => wpc # "copy") /\ UNCHANGED <<queue, polled, sends>>
    BY <1>7 DEF WorkerCancelled, CancelHit
  <2>2. InHand' = {}
    BY <2>1 DEF InHand
  <2>3. CASE thr = "work" /\ wpc = "call"
    <3>1. InHand = {val.n}
      BY <2>3, HandCases
    <3>2. \/ handled' = Append(handled, val.n) /\ UNCHANGED lost
          \/ lost' = lost \cup {val.n} /\ UNCHANGED handled
      BY <1>7, <2>3 DEF WorkerCancelled
    <3>3. QED
      BY <2>1, <2>2, <3>1, <3>2 DEF Moves, Handed, Dropped
  <2>4. CASE ~(thr = "work" /\ wpc = "call")
    <3>1. InHand = {}
      BY <2>1, <2>4, HandCases DEF QueueInv, ThreadTypes
    <3>2. UNCHANGED <<handled, lost>>
      BY <1>7, <2>4 DEF WorkerCancelled
    <3>3. QED
      BY <2>1, <2>2, <3>1, <3>2 DEF Moves, Stays
  <2>5. QED
    BY <2>3, <2>4
<1>8. QED
  BY <1>1, <1>2, <1>3, <1>4, <1>5, <1>6, <1>7 DEF WorkerStep

\* The owner of Me and the calls of stopMsgRev.
LEMMA OwnerMoves ==
  ASSUME QueueInv,
         \/ Owner \/ OwnerWake \/ StopMsgRev
         \/ StopRelease \/ StopJoin \/ MyDestruct \/ MeKilled
  PROVE  Moves
<1> USE DEF pthVars, msgKernVars, msgObjVars, msgHistVars
<1>0. MessageTypes /\ ReceiverInv
  BY DEF QueueInv
<1>1. CASE Owner
  <2>1. (thr' = "work" <=> thr = "work") /\ UNCHANGED <<wpc, val, m_msgDta>>
    BY <1>0, <1>1, OwnerEffect DEF Owner
  <2>2. UNCHANGED <<queue, handled, polled, lost, sends>>
    BY <1>1 DEF Owner
  <2>3. QED
    BY <2>1, <2>2, SameHand DEF Moves, Stays
<1>2. ASSUME NEW o, Rmid(o) \/ UNCHANGED <<queue, lost>>,
             (thr' = "work" <=> thr = "work"),
             UNCHANGED <<wpc, val, m_msgDta, handled, polled, sends>>
      PROVE  Moves
  <2>1. InHand' = InHand
    BY <1>2, SameHand
  <2>2. \/ UNCHANGED <<queue, lost>>
        \/ queue' = <<>> /\ lost' = lost \cup InQueue
    BY <1>0, <1>2, RmidEffect
  <2>3. QED
    BY <1>2, <2>1, <2>2 DEF Moves, Stays, Removed
<1>3. CASE OwnerWake
  <2>1. Rmid(Me) /\ thr' = thr /\ UNCHANGED <<wpc, val, m_msgDta, handled, polled, sends>>
    BY <1>3 DEF OwnerWake, DtorWake, Delete
  <2>2. QED
    BY <1>2, <2>1
<1>4. CASE StopMsgRev
  <2>1. thr' = thr /\ UNCHANGED <<wpc, val, m_msgDta, queue, lost, handled, polled, sends>>
    BY <1>4 DEF StopMsgRev
  <2>2. QED
    BY <1>2, <2>1
<1>5. CASE StopRelease
  <2>1. Rmid(Me) /\ thr' = thr /\ UNCHANGED <<wpc, val, m_msgDta, handled, polled, sends>>
    BY <1>5 DEF StopRelease, StopWake, Delete
  <2>2. QED
    BY <1>2, <2>1
<1>6. CASE StopJoin
  <2>1. thr' = thr /\ UNCHANGED <<wpc, val, m_msgDta, queue, lost, handled, polled, sends>>
    BY <1>6 DEF StopJoin, WaitEnd
  <2>2. QED
    BY <1>2, <2>1
<1>7. CASE MyDestruct
  <2>1. Rmid(Me) \/ UNCHANGED <<queue, lost>>
    BY <1>7 DEF MyDestruct, MsgDestruct
  <2>2. thr' = thr /\ UNCHANGED <<wpc, val, m_msgDta, handled, polled, sends>>
    BY <1>7 DEF MyDestruct, MsgDestruct
  <2>3. QED
    BY <1>2, <2>1, <2>2
<1>8. CASE MeKilled
  <2>1. thr' = "none" /\ lost' = lost \cup InHand /\ UNCHANGED <<queue, handled, polled, sends>>
    BY <1>8 DEF MeKilled
  <2>2. InHand' = {}
    BY <2>1 DEF InHand
  <2>3. QED
    BY <2>1, <2>2 DEF Moves, Dropped
<1>9. QED
  BY <1>1, <1>3, <1>4, <1>5, <1>6, <1>7, <1>8

\* The calls that create, open and remove the queue, and those of the peers.
LEMMA ObjectMoves ==
  ASSUME QueueInv, NEW o \in Objects,
         \/ CreateExcl(o) \/ CreateOpen(o)
         \/ o \in Peers /\ \/ GetMsg(o) \/ ReleaseMsg(o) \/ PeerDestruct(o)
                           \/ PeerKilled(o)
                           \/ \E t \in Types : Send(o, t) \/ PeerReceive(o, t)
  PROVE  Moves
<1> USE DEF pthVars, msgKernVars, msgObjVars, msgHistVars
<1>0. MessageTypes /\ Emptied
  BY DEF QueueInv
<1>1. ASSUME Rmid(o) \/ UNCHANGED <<queue, lost>>,
             UNCHANGED <<thr, wpc, val, m_msgDta, handled, polled, sends>>
      PROVE  Moves
  <2>1. InHand' = InHand
    BY <1>1, SameHand
  <2>2. \/ UNCHANGED <<queue, lost>>
        \/ queue' = <<>> /\ lost' = lost \cup InQueue
    BY <1>0, <1>1, RmidEffect
  <2>3. QED
    BY <1>1, <2>1, <2>2 DEF Moves, Stays, Removed
<1>2. CASE CreateExcl(o) \/ CreateOpen(o)
  <2>1. UNCHANGED <<thr, wpc, val, m_msgDta, handled, polled, lost, sends>>
    BY <1>2 DEF CreateExcl, CreateOpen
  <2>2. queue' = queue \/ (key = 0 /\ queue' = <<>>)
    BY <1>2 DEF CreateExcl, CreateOpen, NewQueue, NoQueue
  <2>3. queue' = queue
    BY <1>0, <2>2 DEF Emptied
  <2>4. QED
    BY <1>1, <2>1, <2>3
<1>3. CASE GetMsg(o) \/ ReleaseMsg(o) \/ PeerDestruct(o)
  <2>1. Rmid(o) \/ UNCHANGED <<queue, lost>>
    BY <1>3 DEF GetMsg, ReleaseMsg, Delete, PeerDestruct, MsgDestruct
  <2>2. UNCHANGED <<thr, wpc, val, m_msgDta, handled, polled, sends>>
    BY <1>3 DEF GetMsg, ReleaseMsg, PeerDestruct, MsgDestruct
  <2>3. QED
    BY <1>1, <2>1, <2>2
<1>4. ASSUME NEW t \in Types, Send(o, t) PROVE Moves
  <2>1. InHand' = InHand
    BY <1>4, SameHand DEF Send
  <2>2. QED
    BY <1>4, <2>1 DEF Send, Sendable, Moves, Queued
<1>5. ASSUME NEW t \in Types, PeerReceive(o, t) PROVE Moves
  <2>1. InHand' = InHand
    BY <1>5, SameHand DEF PeerReceive
  <2> DEFINE i == FirstWanted(t)
  <2>2. i \in 1 .. Len(queue)
    BY <1>0, <1>5, FirstOfType DEF PeerReceive, MessageTypes
  <2>3. /\ queue' = RemoveAt(queue, i) /\ polled' = polled \cup {queue[i].n}
        /\ UNCHANGED <<handled, lost, sends>>
    BY <1>5 DEF PeerReceive
  <2> HIDE DEF i
  <2>4. QED
    BY <2>1, <2>2, <2>3 DEF Moves, Polled, Out
<1>6. CASE PeerKilled(o)
  BY <1>1, <1>6 DEF PeerKilled
<1>7. QED
  BY <1>2, <1>3, <1>4, <1>5, <1>6

\* Every step moves messages in one of these ways.
LEMMA NextMoves ==
  ASSUME QueueInv, MsgNext
  PROVE  Moves
<1>1. CASE \/ Owner \/ OwnerWake \/ StopMsgRev
           \/ StopRelease \/ StopJoin \/ MyDestruct \/ MeKilled
  BY <1>1, OwnerMoves
<1>2. CASE \E o \in Objects : CreateExcl(o) \/ CreateOpen(o)
  BY <1>2, ObjectMoves DEF Objects
<1>3. CASE \E p \in Peers : \/ GetMsg(p) \/ ReleaseMsg(p) \/ PeerDestruct(p)
                            \/ PeerKilled(p)
                            \/ \E t \in Types : Send(p, t) \/ PeerReceive(p, t)
  BY <1>3, ObjectMoves DEF Objects
<1>4. CASE WorkerStep \/ ReceiveInterrupted
  BY <1>4, WorkerMoves
<1>5. QED
  BY <1>1, <1>2, <1>3, <1>4 DEF MsgNext

\* A message has a number.
LEMMA MessageNumber == ASSUME NEW m \in Message PROVE m.n \in Nat
BY DEF Message, NoMsg

\* A queue without its i-th message.
LEMMA OutEffect ==
  ASSUME MessageTypes, Ascending, NEW i, Out(i)
  PROVE  /\ queue' \in Seq(Message) /\ Len(queue') = Len(queue) - 1
         /\ \A j \in 1 .. Len(queue') : queue'[j] = queue[IF j < i THEN j ELSE j + 1]
         /\ queue[i].n \in InQueue
         /\ InQueue' = InQueue \ {queue[i].n}
         /\ Ascending'
<1>1. queue \in Seq(Message) /\ i \in 1 .. Len(queue) /\ Len(queue) \in Nat
  BY DEF MessageTypes, Out
<1>2. /\ queue' \in Seq(Message) /\ Len(queue') = Len(queue) - 1
      /\ \A j \in 1 .. Len(queue) - 1 : queue'[j] = IF j < i THEN queue[j] ELSE queue[j + 1]
  BY <1>1, RemoveAtElements DEF Out
<1>3. \A j \in 1 .. Len(queue') : queue'[j] = queue[IF j < i THEN j ELSE j + 1]
  BY <1>2
<1>4. \A j \in 1 .. Len(queue) : queue[j].n \in Nat
  BY <1>1, MessageNumber
<1>5. Ascending'
  <2>1. SUFFICES ASSUME NEW j \in 1 .. Len(queue'), NEW k \in 1 .. Len(queue'), j < k
                 PROVE  queue'[j].n < queue'[k].n
    BY DEF Ascending
  <2> DEFINE a == IF j < i THEN j ELSE j + 1
             b == IF k < i THEN k ELSE k + 1
  <2>2. a \in 1 .. Len(queue) /\ b \in 1 .. Len(queue) /\ a < b
    BY <1>1, <1>2, <2>1
  <2>3. queue'[j] = queue[a] /\ queue'[k] = queue[b]
    BY <1>3
  <2> HIDE DEF a, b
  <2>4. QED
    BY <2>2, <2>3 DEF Ascending
<1>6. InQueue' = InQueue \ {queue[i].n}
  <2>1. ASSUME NEW j \in 1 .. Len(queue')
        PROVE  queue'[j].n \in InQueue \ {queue[i].n}
    <3> DEFINE a == IF j < i THEN j ELSE j + 1
    <3>1. a \in 1 .. Len(queue) /\ (a < i \/ i < a) /\ queue'[j] = queue[a]
      BY <1>1, <1>2, <1>3
    <3> HIDE DEF a
    <3>2. queue[a].n < queue[i].n \/ queue[i].n < queue[a].n
      BY <1>1, <3>1 DEF Ascending
    <3>3. queue[a].n # queue[i].n
      BY <1>1, <1>4, <3>1, <3>2
    <3>4. QED
      BY <3>1, <3>3 DEF InQueue
  <2>2. ASSUME NEW a \in 1 .. Len(queue), queue[a].n # queue[i].n
        PROVE  \E j \in 1 .. Len(queue') : queue'[j].n = queue[a].n
    <3> DEFINE j == IF a < i THEN a ELSE a - 1
    <3>1. a # i
      BY <2>2
    <3>2. j \in 1 .. Len(queue') /\ (IF j < i THEN j ELSE j + 1) = a
      BY <1>1, <1>2, <3>1
    <3>3. queue'[j] = queue[a]
      BY <1>3, <3>2
    <3> HIDE DEF j
    <3>4. QED
      BY <3>2, <3>3
  <2>3. QED
    BY <2>1, <2>2 DEF InQueue
<1>7. queue[i].n \in InQueue
  BY <1>1 DEF InQueue
<1>8. QED
  BY <1>2, <1>3, <1>5, <1>6, <1>7

\* A send puts the largest number at the end.
LEMMA QueuedEffect ==
  ASSUME MessageTypes, Ascending, Accounted, Queued
  PROVE  /\ queue' \in Seq(Message) /\ Len(queue') = Len(queue) + 1
         /\ \A j \in 1 .. Len(queue) : queue'[j] = queue[j] /\ queue[j].n < sends + 1
         /\ queue'[Len(queue) + 1].n = sends + 1
         /\ InQueue' = InQueue \cup {sends + 1}
         /\ Ascending'
<1>1. PICK t \in Types : queue' = Append(queue, [n |-> sends + 1, type |-> t])
  BY DEF Queued
<1>2. queue \in Seq(Message) /\ Len(queue) \in Nat /\ sends \in Nat
  BY DEF MessageTypes
<1> DEFINE m == [n |-> sends + 1, type |-> t]
<1>3. m \in Message /\ m.n = sends + 1
  BY <1>2 DEF Message, NoMsg
<1> HIDE DEF m
<1>4. /\ queue' \in Seq(Message) /\ Len(queue') = Len(queue) + 1
      /\ \A j \in 1 .. Len(queue) : queue'[j] = queue[j]
      /\ queue'[Len(queue) + 1] = m
  <2>1. queue' = Append(queue, m)
    BY <1>1 DEF m
  <2>2. QED
    BY <1>2, <1>3, <2>1, AppendProperties
<1>5. ASSUME NEW j \in 1 .. Len(queue) PROVE queue[j].n < sends + 1
  <2>1. queue[j].n \in 1 .. sends
    BY DEF Accounted, InQueue
  <2>2. QED
    BY <1>2, <2>1
<1>6. \A j \in 1 .. Len(queue') : j \in 1 .. Len(queue) \/ j = Len(queue) + 1
  BY <1>2, <1>4
<1>7. InQueue' = InQueue \cup {sends + 1}
  <2>1. ASSUME NEW j \in 1 .. Len(queue') PROVE queue'[j].n \in InQueue \cup {sends + 1}
    BY <1>3, <1>4, <1>6 DEF InQueue
  <2>2. ASSUME NEW j \in 1 .. Len(queue) PROVE j \in 1 .. Len(queue') /\ queue'[j].n = queue[j].n
    BY <1>2, <1>4
  <2>3. Len(queue) + 1 \in 1 .. Len(queue') /\ queue'[Len(queue) + 1].n = sends + 1
    BY <1>2, <1>3, <1>4
  <2>4. QED
    BY <2>1, <2>2, <2>3 DEF InQueue
<1>8. Ascending'
  <2>1. SUFFICES ASSUME NEW j \in 1 .. Len(queue'), NEW k \in 1 .. Len(queue'), j < k
                 PROVE  queue'[j].n < queue'[k].n
    BY DEF Ascending
  <2>2. j \in 1 .. Len(queue)
    BY <1>2, <1>4, <2>1
  <2>3. CASE k \in 1 .. Len(queue)
    BY <1>4, <2>1, <2>2, <2>3 DEF Ascending
  <2>4. CASE k = Len(queue) + 1
    BY <1>3, <1>4, <1>5, <2>2, <2>4
  <2>5. QED
    BY <1>6, <2>3, <2>4
<1>9. QED
  BY <1>3, <1>4, <1>5, <1>7, <1>8

\* The callback gets one message more.
LEMMA HandedEffect ==
  ASSUME MessageTypes, LocalTypes, Handed
  PROVE  /\ handled' \in Seq(Nat) /\ Len(handled') = Len(handled) + 1
         /\ \A j \in 1 .. Len(handled) : handled'[j] = handled[j]
         /\ handled'[Len(handled) + 1] = val.n
         /\ InHandled' = InHandled \cup {val.n}
         /\ \A j \in 1 .. Len(handled') : j \in 1 .. Len(handled) \/ j = Len(handled) + 1
<1>1. handled \in Seq(Nat) /\ Len(handled) \in Nat /\ val.n \in Nat
  BY MessageNumber DEF MessageTypes, LocalTypes
<1>2. handled' = Append(handled, val.n)
  BY DEF Handed
<1>3. /\ handled' \in Seq(Nat) /\ Len(handled') = Len(handled) + 1
      /\ \A j \in 1 .. Len(handled) : handled'[j] = handled[j]
      /\ handled'[Len(handled) + 1] = val.n
  BY <1>1, <1>2, AppendProperties
<1>4. \A j \in 1 .. Len(handled') : j \in 1 .. Len(handled) \/ j = Len(handled) + 1
  BY <1>1, <1>3
<1>5. InHandled' = InHandled \cup {val.n}
  <2>1. ASSUME NEW j \in 1 .. Len(handled') PROVE handled'[j] \in InHandled \cup {val.n}
    BY <1>3, <1>4 DEF InHandled
  <2>2. ASSUME NEW j \in 1 .. Len(handled)
        PROVE  j \in 1 .. Len(handled') /\ handled'[j] = handled[j]
    BY <1>1, <1>3
  <2>3. Len(handled) + 1 \in 1 .. Len(handled')
    BY <1>1, <1>3
  <2>4. QED
    BY <1>3, <2>1, <2>2, <2>3 DEF InHandled
<1>6. QED
  BY <1>3, <1>4, <1>5

\* The types of what moves.
LEMMA MovedTypes ==
  ASSUME QueueInv, Capacity \in Nat, MaxSends \in Nat, Moves
  PROVE  MessageTypes' /\ Ascending'
<1>0. MessageTypes /\ LocalTypes /\ Ascending /\ Accounted
  BY DEF QueueInv
<1>1. CASE Stays
  BY <1>0, <1>1 DEF Stays, MessageTypes, Ascending
<1>2. CASE Queued
  <2>1. Ascending' /\ queue' \in Seq(Message) /\ Len(queue') = Len(queue) + 1
    BY <1>0, <1>2, QueuedEffect
  <2>2. Len(queue) \in Nat /\ Len(queue') <= Capacity /\ sends' \in 0 .. MaxSends
    BY <1>0, <1>2, <2>1 DEF Queued, MessageTypes
  <2>3. QED
    BY <1>0, <1>2, <2>1, <2>2 DEF Queued, MessageTypes
<1>3. ASSUME NEW i, Polled(i) PROVE MessageTypes' /\ Ascending'
  <2>1. Ascending' /\ queue' \in Seq(Message) /\ Len(queue') = Len(queue) - 1
    BY <1>0, <1>3, OutEffect DEF Polled
  <2>2. Len(queue) \in Nat /\ Len(queue') <= Capacity
    BY <1>0, <2>1 DEF MessageTypes
  <2>3. queue[i].n \in Nat
    BY <1>0, <1>3, MessageNumber DEF Polled, Out, MessageTypes
  <2>4. QED
    BY <1>0, <1>3, <2>1, <2>2, <2>3 DEF Polled, MessageTypes
<1>4. ASSUME NEW i, Taken(i) PROVE MessageTypes' /\ Ascending'
  <2>1. Ascending' /\ queue' \in Seq(Message) /\ Len(queue') = Len(queue) - 1
    BY <1>0, <1>4, OutEffect DEF Taken
  <2>2. Len(queue) \in Nat /\ Len(queue') <= Capacity
    BY <1>0, <2>1 DEF MessageTypes
  <2>3. QED
    BY <1>0, <1>4, <2>1, <2>2 DEF Taken, MessageTypes
<1>5. CASE Handed
  <2>1. handled' \in Seq(Nat)
    BY <1>0, <1>5, HandedEffect
  <2>2. QED
    BY <1>0, <1>5, <2>1 DEF Handed, MessageTypes, Ascending
<1>6. CASE Dropped
  <2>1. InHand \subseteq 1 .. sends /\ sends \in Nat
    BY <1>0 DEF Accounted, MessageTypes
  <2>2. lost' \subseteq Nat
    BY <1>0, <1>6, <2>1 DEF Dropped, MessageTypes
  <2>3. QED
    BY <1>0, <1>6, <2>2 DEF Dropped, MessageTypes, Ascending
<1>7. CASE Removed
  <2>1. InQueue \subseteq Nat
    BY <1>0, MessageNumber DEF InQueue, MessageTypes
  <2>2. queue' = <<>> /\ lost' = lost \cup InQueue /\ UNCHANGED <<handled, polled, sends>>
    BY <1>7 DEF Removed
  <2>3. Len(queue') = 0 /\ queue' \in Seq(Message)
    BY <2>2
  <2>4. lost' \subseteq Nat
    BY <1>0, <2>1, <2>2 DEF MessageTypes
  <2>5. MessageTypes'
    BY <1>0, <2>2, <2>3, <2>4 DEF MessageTypes
  <2>6. QED
    BY <2>3, <2>5 DEF Ascending
<1>8. QED
  BY <1>1, <1>2, <1>3, <1>4, <1>5, <1>6, <1>7 DEF Moves

\* A message that moves leaves the place it was in.
LEMMA MovedAccounted ==
  ASSUME QueueInv, Moves
  PROVE  Accounted'
<1>0. MessageTypes /\ LocalTypes /\ Ascending /\ Accounted /\ sends \in Nat
  BY DEF QueueInv, MessageTypes
<1>1. CASE Stays
  <2>1. /\ InQueue' = InQueue /\ InHandled' = InHandled /\ InHand' = InHand
        /\ polled' = polled /\ lost' = lost /\ sends' = sends
    BY <1>1 DEF Stays, InQueue, InHandled
  <2>2. QED
    BY <1>0, <2>1 DEF Accounted
<1>2. CASE Queued
  <2>1. InQueue' = InQueue \cup {sends + 1}
    BY <1>0, <1>2, QueuedEffect
  <2>2. /\ InHandled' = InHandled /\ InHand' = InHand
        /\ polled' = polled /\ lost' = lost /\ sends' = sends + 1
    BY <1>2 DEF Queued, InHandled
  <2>3. 1 .. sends + 1 = (1 .. sends) \cup {sends + 1} /\ sends + 1 \notin 1 .. sends
    BY <1>0
  <2>4. QED
    BY <1>0, <2>1, <2>2, <2>3 DEF Accounted
<1>3. ASSUME NEW i, Polled(i) PROVE Accounted'
  <2>1. InQueue' = InQueue \ {queue[i].n} /\ queue[i].n \in InQueue
    BY <1>0, <1>3, OutEffect DEF Polled
  <2>2. /\ InHandled' = InHandled /\ InHand' = InHand
        /\ polled' = polled \cup {queue[i].n} /\ lost' = lost /\ sends' = sends
    BY <1>3 DEF Polled, InHandled
  <2>3. QED
    BY <1>0, <2>1, <2>2 DEF Accounted
<1>4. ASSUME NEW i, Taken(i) PROVE Accounted'
  <2>1. InQueue' = InQueue \ {queue[i].n} /\ queue[i].n \in InQueue
    BY <1>0, <1>4, OutEffect DEF Taken
  <2>2. /\ InHandled' = InHandled /\ InHand = {} /\ InHand' = {queue[i].n}
        /\ polled' = polled /\ lost' = lost /\ sends' = sends
    BY <1>4 DEF Taken, InHandled
  <2>3. QED
    BY <1>0, <2>1, <2>2 DEF Accounted
<1>5. CASE Handed
  <2>1. InHandled' = InHandled \cup {val.n}
    BY <1>0, <1>5, HandedEffect
  <2>2. /\ InQueue' = InQueue /\ InHand = {val.n} /\ InHand' = {}
        /\ polled' = polled /\ lost' = lost /\ sends' = sends
    BY <1>5 DEF Handed, InQueue
  <2>3. QED
    BY <1>0, <2>1, <2>2 DEF Accounted
<1>6. CASE Dropped
  <2>1. /\ InQueue' = InQueue /\ InHandled' = InHandled /\ InHand' = {}
        /\ polled' = polled /\ lost' = lost \cup InHand /\ sends' = sends
    BY <1>6 DEF Dropped, InQueue, InHandled
  <2>2. QED
    BY <1>0, <2>1 DEF Accounted
<1>7. CASE Removed
  <2>1. InQueue' = {}
    BY <1>7 DEF Removed, InQueue
  <2>2. /\ InHandled' = InHandled /\ InHand' = InHand
        /\ polled' = polled /\ lost' = lost \cup InQueue /\ sends' = sends
    BY <1>7 DEF Removed, InHandled
  <2>3. QED
    BY <1>0, <2>1, <2>2 DEF Accounted
<1>8. QED
  BY <1>1, <1>2, <1>3, <1>4, <1>5, <1>6, <1>7 DEF Moves

\* The thread handles messages in the order of sending.
LEMMA MovedOrder ==
  ASSUME QueueInv, Moves
  PROVE  HandledFirst'
<1>0. MessageTypes /\ LocalTypes /\ Ascending /\ Accounted /\ HandledFirst
  BY DEF QueueInv
<1>1. CASE Stays
  <2>1. UNCHANGED <<queue, handled>> /\ InHand' = InHand
    BY <1>1 DEF Stays
  <2>2. QED
    BY <1>0, <2>1 DEF HandledFirst
<1>2. CASE Queued
  <2>1. /\ Len(queue') = Len(queue) + 1 /\ Len(queue) \in Nat
        /\ \A j \in 1 .. Len(queue) : queue'[j] = queue[j]
        /\ queue'[Len(queue) + 1].n = sends + 1
    BY <1>0, <1>2, QueuedEffect DEF MessageTypes
  <2>2. handled' = handled /\ InHand' = InHand /\ sends \in Nat
    BY <1>0, <1>2 DEF Queued, MessageTypes
  <2>3. /\ \A j \in 1 .. Len(handled) : handled[j] < sends + 1
        /\ \A m \in InHand : m < sends + 1
    <3>1. /\ \A j \in 1 .. Len(handled) : handled[j] \in 1 .. sends
          /\ \A m \in InHand : m \in 1 .. sends
      BY <1>0 DEF Accounted, InHandled
    <3>2. QED
      BY <2>2, <3>1
  <2>4. ASSUME NEW i \in 1 .. Len(queue'), queue'[i].type = m_msgType
        PROVE  /\ \A j \in 1 .. Len(handled) : handled[j] < queue'[i].n
               /\ \A m \in InHand : m < queue'[i].n
    <3>1. CASE i \in 1 .. Len(queue)
      BY <1>0, <2>1, <2>4, <3>1 DEF HandledFirst
    <3>2. CASE i = Len(queue) + 1
      BY <2>1, <2>3, <3>2
    <3>3. QED
      BY <2>1, <3>1, <3>2
  <2>5. QED
    BY <1>0, <2>2, <2>4 DEF HandledFirst
<1>3. ASSUME NEW i, Polled(i) PROVE HandledFirst'
  <2>1. /\ Len(queue') = Len(queue) - 1 /\ Len(queue) \in Nat /\ i \in 1 .. Len(queue)
        /\ \A j \in 1 .. Len(queue') : queue'[j] = queue[IF j < i THEN j ELSE j + 1]
    <3>1. Out(i)
      BY <1>3 DEF Polled
    <3>2. i \in 1 .. Len(queue) /\ Len(queue) \in Nat
      BY <1>0, <3>1 DEF Out, MessageTypes
    <3>3. QED
      BY <1>0, <3>1, <3>2, OutEffect
  <2>2. handled' = handled /\ InHand' = InHand
    BY <1>3 DEF Polled
  <2>3. ASSUME NEW j \in 1 .. Len(queue')
        PROVE  \E a \in 1 .. Len(queue) : queue'[j] = queue[a]
    <3>1. (IF j < i THEN j ELSE j + 1) \in 1 .. Len(queue)
      BY <2>1
    <3>2. QED
      BY <2>1, <3>1
  <2>4. QED
    BY <1>0, <2>2, <2>3 DEF HandledFirst
<1>4. ASSUME NEW i, Taken(i) PROVE HandledFirst'
  <2>1. /\ Len(queue') = Len(queue) - 1 /\ Len(queue) \in Nat /\ i \in 1 .. Len(queue)
        /\ \A j \in 1 .. Len(queue') : queue'[j] = queue[IF j < i THEN j ELSE j + 1]
    <3>1. Out(i)
      BY <1>4 DEF Taken
    <3>2. i \in 1 .. Len(queue) /\ Len(queue) \in Nat
      BY <1>0, <3>1 DEF Out, MessageTypes
    <3>3. QED
      BY <1>0, <3>1, <3>2, OutEffect
  <2>2. /\ handled' = handled /\ InHand' = {queue[i].n} /\ queue[i].type = m_msgType
        /\ \A j \in 1 .. Len(queue) : queue[j].type = m_msgType => i <= j
    BY <1>4 DEF Taken
  <2>3. \A j \in 1 .. Len(handled) : handled[j] < queue[i].n
    BY <1>0, <2>1, <2>2 DEF HandledFirst
  <2>4. ASSUME NEW j \in 1 .. Len(queue'), queue'[j].type = m_msgType
        PROVE  /\ \A k \in 1 .. Len(handled) : handled[k] < queue'[j].n
               /\ queue[i].n < queue'[j].n
    <3> DEFINE a == IF j < i THEN j ELSE j + 1
    <3>1. a \in 1 .. Len(queue) /\ a # i /\ queue'[j] = queue[a]
      BY <2>1
    <3> HIDE DEF a
    <3>2. queue[a].type = m_msgType
      BY <2>4, <3>1
    <3>3. i < a
      BY <2>1, <2>2, <3>1, <3>2
    <3>4. queue[i].n < queue[a].n
      BY <1>0, <2>1, <3>1, <3>3 DEF Ascending
    <3>5. QED
      BY <1>0, <3>1, <3>2, <3>4 DEF HandledFirst
  <2>5. QED
    BY <1>0, <2>2, <2>3, <2>4 DEF HandledFirst
<1>5. CASE Handed
  <2>1. /\ Len(handled') = Len(handled) + 1 /\ Len(handled) \in Nat
        /\ \A j \in 1 .. Len(handled) : handled'[j] = handled[j]
        /\ handled'[Len(handled) + 1] = val.n
        /\ \A j \in 1 .. Len(handled') : j \in 1 .. Len(handled) \/ j = Len(handled) + 1
    BY <1>0, <1>5, HandedEffect DEF MessageTypes
  <2>2. queue' = queue /\ InHand = {val.n} /\ InHand' = {}
    BY <1>5 DEF Handed
  <2>3. \A j \in 1 .. Len(handled) : handled[j] < val.n
    BY <1>0, <2>2 DEF HandledFirst
  <2>4. ASSUME NEW j \in 1 .. Len(handled'), NEW k \in 1 .. Len(handled'), j < k
        PROVE  handled'[j] < handled'[k]
    <3>1. j \in 1 .. Len(handled)
      BY <2>1, <2>4
    <3>2. CASE k \in 1 .. Len(handled)
      BY <1>0, <2>1, <2>4, <3>1, <3>2 DEF HandledFirst
    <3>3. CASE k = Len(handled) + 1
      BY <2>1, <2>3, <3>1, <3>3
    <3>4. QED
      BY <2>1, <3>2, <3>3
  <2>5. ASSUME NEW i \in 1 .. Len(queue), queue[i].type = m_msgType,
               NEW j \in 1 .. Len(handled')
        PROVE  handled'[j] < queue[i].n
    BY <1>0, <2>1, <2>2, <2>5 DEF HandledFirst
  <2>6. QED
    BY <2>2, <2>4, <2>5 DEF HandledFirst
<1>6. CASE Dropped
  <2>1. queue' = queue /\ handled' = handled /\ InHand' = {}
    BY <1>6 DEF Dropped
  <2>2. QED
    BY <1>0, <2>1 DEF HandledFirst
<1>7. CASE Removed
  <2>1. queue' = <<>> /\ handled' = handled /\ InHand' = InHand
    BY <1>7 DEF Removed
  <2>2. 1 .. Len(queue') = {}
    BY <2>1
  <2>3. QED
    BY <1>0, <2>1, <2>2 DEF HandledFirst
<1>8. QED
  BY <1>1, <1>2, <1>3, <1>4, <1>5, <1>6, <1>7 DEF Moves

\* The thread is Me's, and nobody reopens Me while it has one.
LEMMA OwnerTypes ==
  ASSUME ThreadTypes, ReceiverInv, OwnerCall \/ OwnerStep
  PROVE  /\ m_pid' \in {"none", "live", "stale"} /\ running' \in {0, 1}
         /\ thr' \in {"none", "born", "test", "work", "gone"} /\ starts' \in Nat
         /\ own' \in {"idle", "created", "cancel", "join", "dtorWake", "dtorJoin", "dead",
                      "baseDtor", "baseCancel", "baseJoin"}
         /\ (m_pid' = "live" <=> thr' # "none")
         /\ (own' = "created" => m_pid' = "live")
         /\ (running' = 1 => own' = "idle" /\ m_pid' = "live")
<1> USE DEF OwnIdle, ThreadTypes, ReceiverInv
<1>1. CASE StartCreate
  BY <1>1 DEF StartCreate
<1>2. CASE StartFail
  BY <1>2 DEF StartFail
<1>3. CASE Stop \/ WaitEnd
  BY <1>3 DEF Stop, WaitEnd
<1>9. CASE DtorBegin
  BY <1>9 DEF DtorBegin
<1>4. CASE StartMark
  BY <1>4 DEF StartMark
<1>5. CASE PthreadCancel
  BY <1>5 DEF PthreadCancel
<1>6. CASE Join
  <2>1. m_pid' = "none" /\ UNCHANGED <<running, starts>>
    BY <1>6 DEF Join
  <2>2. thr' = "none"
    BY <1>6 DEF Join, Joinable
  <2>3. own' \in {"idle", "baseDtor", "dead"}
    BY <1>6 DEF Join
  <2>4. running = 0
    BY <1>6 DEF Join
  <2>5. QED
    BY <2>1, <2>2, <2>3, <2>4
<1>7. CASE BaseDtor
  BY <1>7 DEF BaseDtor
<1>8. QED
  BY <1>1, <1>2, <1>3, <1>4, <1>5, <1>6, <1>7, <1>9 DEF OwnerCall, OwnerStep

\* What does not concern the messages.
QueueRest == /\ ThreadTypes /\ KernelTypes /\ QueueFlags /\ LocalTypes
        /\ ReceiverInv /\ Emptied /\ QueueHasCreator

\* A step that leaves the objects and the key alone.
LEMMA SameObjects ==
  ASSUME QueueInv, UNCHANGED <<key, ids, m_msgId, m_msgCreated, opening, orphan>>,
         cancel' \in BOOLEAN, queue' = queue \/ key # 0
  PROVE  KernelTypes' /\ QueueFlags' /\ Emptied' /\ QueueHasCreator'
<1>1. KernelTypes'
  BY DEF QueueInv, KernelTypes
<1>2. QueueFlags'
  BY DEF QueueInv, QueueFlags
<1>3. Emptied'
  BY DEF QueueInv, Emptied
<1>4. QueueHasCreator'
  BY DEF QueueInv, QueueHasCreator, Removers, Objects, NoQueue
<1>5. QED
  BY <1>1, <1>2, <1>3, <1>4

\* The thread leaves the objects alone.
LEMMA WorkerRest ==
  ASSUME QueueInv, WorkerStep \/ ReceiveInterrupted
  PROVE  QueueRest'
<1> USE DEF pthVars, msgKernVars, msgObjVars, msgHistVars
<1>0. /\ ThreadTypes /\ LocalTypes /\ ReceiverInv /\ cancel \in BOOLEAN
      /\ queue \in Seq(Message)
  BY DEF QueueInv, QueueFlags, MessageTypes
<1>1. UNCHANGED <<key, ids, m_msgId, m_msgCreated, opening, orphan,
                  m_pid, running, cancel, own, starts, stopping>>
  BY DEF WorkerStep, WorkerEnter, Enter, WorkerLoop, LoopTest,
         Receive, ReceiveFails, ReceiveInterrupted, Copy, Process,
         WorkAgain, WorkerCancelled, CancelHit
<1>2. /\ thr # "none" /\ thr' \in {"test", "work", "gone"}
      /\ wpc' \in {"receive", "copy", "call"}
  BY <1>0 DEF WorkerStep, WorkerEnter, Enter, WorkerLoop, LoopTest,
         Receive, ReceiveFails, ReceiveInterrupted, AfterSignal, Copy,
         Process, WorkAgain, WorkerCancelled, CancelHit, ThreadTypes
<1>3. queue' = queue \/ key # 0
  BY DEF WorkerStep, WorkerEnter, WorkerLoop, Receive, Reaches,
         NoQueue, ReceiveFails, ReceiveInterrupted, Copy, Process,
         WorkerCancelled
<1>4. LocalTypes'
  <2>1. CASE Receive
    <3>1. m_msgDta' = queue[FirstWanted(m_msgType)] /\ val' = val
      BY <2>1 DEF Receive, RecvType
    <3>2. FirstWanted(m_msgType) \in 1 .. Len(queue)
      BY <1>0, <2>1, FirstOfType DEF Receive, RecvType
    <3>3. queue[FirstWanted(m_msgType)] \in Message
      BY <1>0, <3>2
    <3>4. QED
      BY <1>0, <3>1, <3>3 DEF LocalTypes
  <2>2. CASE Copy
    BY <1>0, <2>2 DEF Copy, Copied, LocalTypes
  <2>3. CASE ~Receive /\ ~Copy
    <3>1. UNCHANGED <<m_msgDta, val>>
      BY <2>3 DEF WorkerStep, WorkerEnter, WorkerLoop, ReceiveFails,
                  ReceiveInterrupted, Process, WorkerCancelled
    <3>2. QED
      BY <1>0, <3>1 DEF LocalTypes
  <2>4. QED
    BY <2>1, <2>2, <2>3
<1>5. ThreadTypes'
  BY <1>0, <1>1, <1>2 DEF ThreadTypes
<1>6. ReceiverInv'
  BY <1>0, <1>1, <1>2 DEF ReceiverInv
<1>7. cancel' \in BOOLEAN
  BY <1>0, <1>1
<1>8. QED
  BY <1>1, <1>3, <1>4, <1>5, <1>6, <1>7, SameObjects DEF QueueRest

\* Who removes the queue leaves none without its creator, and who does not
\* reach it leaves the creator its object.
LEMMA DeleteRest ==
  ASSUME QueueInv, NEW o \in Objects, Delete(o),
         UNCHANGED <<ids, m_msgCreated, opening, orphan>>
  PROVE  KernelTypes' /\ Emptied' /\ QueueHasCreator'
<1>0. KernelTypes /\ Emptied /\ QueueHasCreator /\ MessageTypes
  BY DEF QueueInv
<1>1. CASE Reaches(o)
  <2>1. key' = 0 /\ queue' = <<>> /\ m_msgId' = [m_msgId EXCEPT ![o] = 0]
    BY <1>1 DEF Delete, Rmid, NoQueue
  <2>2. ids \in Nat
    BY <1>0 DEF KernelTypes
  <2>3. KernelTypes'
    BY <1>0, <2>1, <2>2 DEF KernelTypes
  <2>4. QED
    BY <2>1, <2>3 DEF Emptied, QueueHasCreator, Removers, NoQueue
<1>2. CASE ~Reaches(o)
  <2>1. UNCHANGED <<key, queue, m_msgId>>
    BY <1>2 DEF Delete, Rmid
  <2>2. QED
    BY <1>0, <2>1 DEF KernelTypes, Emptied, QueueHasCreator, Removers
<1>3. QED
  BY <1>1, <1>2

\* A creator's destructor removes the queue if it still reaches it.
LEMMA DestructRest ==
  ASSUME QueueInv, NEW o \in Objects, MsgDestruct(o), ~opening[o]
  PROVE  KernelTypes' /\ QueueFlags' /\ Emptied' /\ QueueHasCreator'
<1> USE DEF pthVars, msgKernVars, msgObjVars, msgHistVars
<1>0. KernelTypes /\ QueueFlags /\ Emptied /\ QueueHasCreator /\ MessageTypes
  BY DEF QueueInv
<1>1. /\ m_msgId' = [m_msgId EXCEPT ![o] = 0]
      /\ m_msgCreated' = [m_msgCreated EXCEPT ![o] = FALSE]
      /\ UNCHANGED <<ids, opening, orphan, cancel>>
  BY DEF MsgDestruct, NoQueue
<1>2. QueueFlags'
  BY <1>0, <1>1 DEF QueueFlags
<1>3. CASE m_msgCreated[o] /\ Reaches(o)
  <2>1. key' = 0 /\ queue' = <<>>
    BY <1>3 DEF MsgDestruct, Rmid, NoQueue
  <2>2. KernelTypes'
    BY <1>0, <1>1, <2>1 DEF KernelTypes
  <2>3. QED
    BY <1>2, <2>1, <2>2 DEF Emptied, QueueHasCreator, Removers, NoQueue
<1>4. CASE ~(m_msgCreated[o] /\ Reaches(o))
  <2>1. UNCHANGED <<key, queue>>
    BY <1>4 DEF MsgDestruct, Rmid
  <2>2. KernelTypes' /\ Emptied'
    BY <1>0, <1>1, <2>1 DEF KernelTypes, Emptied
  <2>3. QueueHasCreator'
    <3>1. SUFFICES ASSUME key' # 0, ~orphan'
                   PROVE  \E q \in Objects :
                            m_msgCreated'[q] /\ (m_msgId'[q] = key' \/ opening'[q])
      BY DEF QueueHasCreator, Removers, NoQueue, Objects
    <3>2. PICK q \in Objects : m_msgCreated[q] /\ (m_msgId[q] = key \/ opening[q])
      BY <1>0, <1>1, <2>1, <3>1
         DEF QueueHasCreator, Removers, NoQueue, Objects
    <3>3. q # o
      BY <1>4, <2>1, <3>1, <3>2 DEF Reaches, NoQueue
    <3>4. m_msgCreated'[q] = m_msgCreated[q] /\ m_msgId'[q] = m_msgId[q]
      BY <1>0, <1>1, <3>3 DEF KernelTypes, QueueFlags
    <3>5. QED
      BY <1>1, <2>1, <3>2, <3>4
  <2>4. QED
    BY <1>2, <2>2, <2>3
<1>5. QED
  BY <1>3, <1>4

\* A creator that is killed leaves the queue to the next one, or to nobody.
LEMMA KilledRest ==
  ASSUME QueueInv, NEW o \in Objects, Killed(o), UNCHANGED <<key, ids, queue>>,
         cancel' \in BOOLEAN
  PROVE  KernelTypes' /\ QueueFlags' /\ Emptied' /\ QueueHasCreator'
<1>0. KernelTypes /\ QueueFlags /\ Emptied /\ QueueHasCreator
  BY DEF QueueInv
<1>1. /\ m_msgId' = [m_msgId EXCEPT ![o] = 0]
      /\ m_msgCreated' = [m_msgCreated EXCEPT ![o] = FALSE]
      /\ opening' = [opening EXCEPT ![o] = FALSE]
  BY DEF Killed, NoQueue
<1>2. orphan' = (orphan \/ Removers = {o})
  BY DEF Killed
<1>3. KernelTypes'
  BY <1>0, <1>1 DEF KernelTypes
<1>4. QueueFlags'
  <2>1. orphan' \in BOOLEAN
    BY <1>2
  <2>2. QED
    BY <1>0, <1>1, <2>1 DEF QueueFlags
<1>5. Emptied'
  BY <1>0 DEF Emptied
<1>6. ASSUME NEW q \in Removers, q # o PROVE q \in Removers'
  <2>1. /\ q \in Objects /\ m_msgCreated'[q] = m_msgCreated[q]
        /\ m_msgId'[q] = m_msgId[q] /\ opening'[q] = opening[q]
    BY <1>0, <1>1, <1>6 DEF Removers, KernelTypes, QueueFlags
  <2>2. QED
    BY <1>6, <2>1 DEF Removers
<1>7. QueueHasCreator'
  <2>1. SUFFICES ASSUME key # NoQueue, ~orphan' PROVE Removers' # {}
    BY DEF QueueHasCreator
  <2>2. ~orphan /\ Removers # {o}
    BY <1>2, <2>1
  <2>3. Removers # {}
    BY <1>0, <2>1, <2>2 DEF QueueHasCreator
  <2>4. PICK q \in Removers : q # o
    BY <2>2, <2>3
  <2>5. QED
    BY <1>6, <2>4
<1>8. QED
  BY <1>3, <1>4, <1>5, <1>7

\* The owner's calls and the destructor of Me.
LEMMA OwnerRest ==
  ASSUME QueueInv,
         \/ Owner \/ OwnerWake \/ StopMsgRev
         \/ StopRelease \/ StopJoin \/ MyDestruct \/ MeKilled
  PROVE  QueueRest'
<1> USE DEF pthVars, msgKernVars, msgObjVars, msgHistVars
<1>0. /\ ThreadTypes /\ LocalTypes /\ ReceiverInv /\ QueueFlags /\ cancel \in BOOLEAN
      /\ Me \in Objects
  BY DEF QueueInv, QueueFlags, Objects
<1>1. CASE Owner
  <2>1. OwnerCall \/ OwnerStep
    BY <1>1 DEF Owner
  <2>2. /\ UNCHANGED <<key, ids, m_msgId, m_msgCreated, opening, orphan, queue,
                       m_msgDta, val, wpc, stopping>>
        /\ ~opening[Me]
    BY <1>1 DEF Owner
  <2>3. cancel' \in BOOLEAN
    BY <1>0, <2>1 DEF OwnerCall, OwnerStep, StartCreate, StartFail,
       Stop, WaitEnd, DtorBegin, StartMark, PthreadCancel, Join,
       BaseDtor
  <2>4. ThreadTypes' /\ ReceiverInv'
    BY <1>0, <2>1, <2>2, OwnerTypes DEF ThreadTypes, ReceiverInv
  <2>5. LocalTypes'
    BY <1>0, <2>2 DEF LocalTypes
  <2>6. QED
    BY <2>2, <2>3, <2>4, <2>5, SameObjects DEF QueueRest
<1>2. CASE OwnerWake
  <2>1. /\ UNCHANGED <<ids, m_msgCreated, opening, orphan, cancel, m_msgDta, val, wpc,
                       stopping, m_pid, running, thr, starts>>
        /\ own = "dtorWake" /\ own' \in {"baseDtor", "dtorJoin"} /\ Delete(Me)
    BY <1>2 DEF OwnerWake, DtorWake
  <2>2. KernelTypes' /\ Emptied' /\ QueueHasCreator'
    BY <1>0, <2>1, DeleteRest
  <2>3. QueueFlags'
    BY <1>0, <2>1 DEF QueueFlags
  <2>4. ThreadTypes' /\ ReceiverInv' /\ LocalTypes'
    BY <1>0, <2>1 DEF ThreadTypes, ReceiverInv, LocalTypes
  <2>5. QED
    BY <2>2, <2>3, <2>4 DEF QueueRest
<1>3. CASE StopMsgRev
  <2>1. /\ UNCHANGED <<key, ids, m_msgId, m_msgCreated, opening, orphan, queue, cancel,
                       m_msgDta, val, wpc, m_pid, thr, own, starts>>
        /\ running = 1 /\ running' = 0 /\ stopping' = "release"
    BY <1>3 DEF StopMsgRev
  <2>2. ThreadTypes' /\ ReceiverInv' /\ LocalTypes'
    BY <1>0, <2>1 DEF ThreadTypes, ReceiverInv, LocalTypes
  <2>3. QED
    BY <1>0, <2>1, <2>2, SameObjects DEF QueueRest
<1>4. CASE StopRelease
  <2>1. /\ UNCHANGED <<ids, m_msgCreated, opening, orphan, cancel, m_msgDta, val, wpc,
                       m_pid, running, thr, own, starts>>
        /\ stopping = "release" /\ stopping' = "join" /\ Delete(Me)
    BY <1>4 DEF StopRelease, StopWake
  <2>2. KernelTypes' /\ Emptied' /\ QueueHasCreator'
    BY <1>0, <2>1, DeleteRest
  <2>3. QueueFlags'
    BY <1>0, <2>1 DEF QueueFlags
  <2>4. ThreadTypes' /\ ReceiverInv' /\ LocalTypes'
    BY <1>0, <2>1 DEF ThreadTypes, ReceiverInv, LocalTypes
  <2>5. QED
    BY <2>2, <2>3, <2>4 DEF QueueRest
<1>5. CASE StopJoin
  <2>1. /\ UNCHANGED <<key, ids, m_msgId, m_msgCreated, opening, orphan, queue, cancel,
                       m_msgDta, val, wpc, m_pid, thr, starts>>
        /\ stopping = "join" /\ stopping' = "no"
        /\ \/ running' = 0 /\ own' = "join"
           \/ UNCHANGED <<running, own>>
    BY <1>5 DEF StopJoin, WaitEnd
  <2>2. ThreadTypes' /\ ReceiverInv' /\ LocalTypes'
    BY <1>0, <2>1 DEF ThreadTypes, ReceiverInv, LocalTypes
  <2>3. QED
    BY <1>0, <2>1, <2>2, SameObjects DEF QueueRest
<1>6. CASE MyDestruct
  <2>1. /\ UNCHANGED <<m_msgDta, val, wpc, m_pid, running, thr, own, starts, stopping, opening>>
        /\ own = "dead" /\ MsgDestruct(Me)
    BY <1>6 DEF MyDestruct, MsgDestruct
  <2>2. ~opening[Me]
    BY <1>0, <2>1 DEF ReceiverInv
  <2>3. KernelTypes' /\ QueueFlags' /\ Emptied' /\ QueueHasCreator'
    BY <1>0, <2>1, <2>2, DestructRest
  <2>4. ThreadTypes' /\ ReceiverInv' /\ LocalTypes'
    BY <1>0, <2>1 DEF ThreadTypes, ReceiverInv, LocalTypes
  <2>5. QED
    BY <2>3, <2>4 DEF QueueRest
<1>7. CASE MeKilled
  <2>1. /\ Killed(Me) /\ UNCHANGED <<key, ids, queue, starts, m_msgDta, val, wpc>>
        /\ m_pid' = "none" /\ thr' = "none" /\ running' = 0 /\ cancel' = FALSE
        /\ own' = "dead" /\ stopping' = "no"
    BY <1>7 DEF MeKilled
  <2>2. KernelTypes' /\ QueueFlags' /\ Emptied' /\ QueueHasCreator'
    BY <1>0, <2>1, KilledRest
  <2>3. ~opening'[Me]
    BY <1>0, <2>1 DEF Killed, QueueFlags
  <2>4. ThreadTypes' /\ ReceiverInv' /\ LocalTypes'
    BY <1>0, <2>1, <2>3 DEF ThreadTypes, ReceiverInv, LocalTypes
  <2>5. QED
    BY <2>2, <2>4 DEF QueueRest
<1>8. QED
  BY <1>1, <1>2, <1>3, <1>4, <1>5, <1>6, <1>7

\* Both msgget calls of create_object.
LEMMA CreateRest ==
  ASSUME QueueInv, MaxQueues \in Nat, NEW o \in Objects,
         CreateExcl(o) \/ CreateOpen(o)
  PROVE  QueueRest'
<1> USE DEF pthVars, msgKernVars, msgObjVars, msgHistVars, NoQueue
<1>0. /\ ThreadTypes /\ LocalTypes /\ ReceiverInv /\ QueueFlags /\ KernelTypes
      /\ Emptied /\ QueueHasCreator
  BY DEF QueueInv
<1>1. /\ UNCHANGED <<m_msgDta, val, wpc, m_pid, running, thr, own, starts, stopping, cancel>>
      /\ opening' = [opening EXCEPT ![o] = FALSE] \/ opening' = opening
           \/ (opening' = [opening EXCEPT ![o] = TRUE] /\ Callable(o))
  BY DEF CreateExcl, CreateOpen
<1>2. ThreadTypes' /\ LocalTypes'
  BY <1>0, <1>1 DEF ThreadTypes, LocalTypes
<1>3. ReceiverInv'
  <2>1. opening'[Me] => opening[Me] \/ Callable(Me)
    BY <1>0, <1>1 DEF QueueFlags, Objects
  <2>2. opening'[Me] => own = "idle" /\ m_pid = "none" /\ stopping = "no"
    BY <1>0, <2>1 DEF ReceiverInv, Callable, OwnIdle
  <2>3. QED
    BY <1>0, <1>1, <2>2 DEF ReceiverInv
<1>4. CASE NewQueue(o)
  <2>1. /\ key = 0 /\ ids < MaxQueues /\ ids' = ids + 1 /\ key' = ids + 1 /\ queue' = <<>>
        /\ m_msgId' = [m_msgId EXCEPT ![o] = ids + 1]
    BY <1>4 DEF NewQueue
  <2>2. KernelTypes' /\ Emptied'
    <3>1. ids' \in 0 .. MaxQueues /\ key' \in 0 .. ids' /\ m_msgId' \in [Objects -> 0 .. ids']
      BY <1>0, <2>1 DEF KernelTypes
    <3>2. QED
      BY <2>1, <3>1 DEF KernelTypes, Emptied
  <2>3. CASE CreateExcl(o)
    <3>1. m_msgCreated' = [m_msgCreated EXCEPT ![o] = TRUE] /\ orphan' = FALSE /\ opening' = opening
      BY <2>1, <2>3 DEF CreateExcl, Claimed
    <3>2. QueueFlags'
      BY <1>0, <1>1, <3>1 DEF QueueFlags
    <3>3. m_msgCreated'[o] /\ m_msgId'[o] = key'
      BY <1>0, <2>1, <3>1 DEF QueueFlags, KernelTypes
    <3>4. QueueHasCreator'
      BY <3>3 DEF QueueHasCreator, Removers, Objects
    <3>5. QED
      BY <1>2, <1>3, <2>2, <3>2, <3>4 DEF QueueRest
  <2>4. CASE CreateOpen(o)
    <3>1. /\ m_msgCreated' = m_msgCreated /\ orphan' = TRUE
          /\ opening' = [opening EXCEPT ![o] = FALSE]
      BY <2>1, <2>4 DEF CreateOpen
    <3>2. QueueFlags'
      BY <1>0, <1>1, <3>1 DEF QueueFlags
    <3>3. QueueHasCreator'
      BY <3>1 DEF QueueHasCreator, Removers
    <3>4. QED
      BY <1>2, <1>3, <2>2, <3>2, <3>3 DEF QueueRest
  <2>5. QED
    BY <2>3, <2>4
<1>5. CASE ~NewQueue(o)
  <2>1. /\ key # 0 /\ UNCHANGED <<key, ids, queue, m_msgCreated, orphan>>
        /\ \/ /\ opening' = [opening EXCEPT ![o] = TRUE]
              /\ m_msgId' = [m_msgId EXCEPT ![o] = 0]
           \/ /\ opening' = [opening EXCEPT ![o] = FALSE]
              /\ m_msgId' = [m_msgId EXCEPT ![o] = key]
    BY <1>5 DEF CreateExcl, CreateOpen
  <2>2. KernelTypes' /\ Emptied'
    BY <1>0, <2>1 DEF KernelTypes, Emptied
  <2>3. QueueFlags'
    BY <1>0, <1>1, <2>1 DEF QueueFlags
  <2>4. QueueHasCreator'
    <3>1. SUFFICES ASSUME ~orphan
                   PROVE  \E q \in Objects :
                            m_msgCreated'[q] /\ (m_msgId'[q] = key' \/ opening'[q])
      BY <2>1 DEF QueueHasCreator, Removers, Objects
    <3>2. PICK q \in Objects : m_msgCreated[q] /\ (m_msgId[q] = key \/ opening[q])
      BY <1>0, <2>1, <3>1 DEF QueueHasCreator, Removers, Objects
    <3>3. m_msgCreated'[q]
      BY <2>1, <3>2
    <3>4. CASE q = o
      <4>1. m_msgId'[o] = key' \/ opening'[o]
        BY <1>0, <2>1 DEF KernelTypes, QueueFlags
      <4>2. QED
        BY <3>3, <3>4, <4>1
    <3>5. CASE q # o
      <4>1. m_msgId'[q] = m_msgId[q] /\ opening'[q] = opening[q]
        BY <1>0, <2>1, <3>5 DEF KernelTypes, QueueFlags
      <4>2. QED
        BY <2>1, <3>2, <3>3, <4>1
    <3>6. QED
      BY <3>4, <3>5
  <2>5. QED
    BY <1>2, <1>3, <2>2, <2>3, <2>4 DEF QueueRest
<1>6. QED
  BY <1>4, <1>5

\* The calls of the peers.
LEMMA PeerRest ==
  ASSUME QueueInv, NEW p \in Peers,
         \/ GetMsg(p) \/ ReleaseMsg(p) \/ PeerDestruct(p)
         \/ PeerKilled(p)
         \/ \E t \in Types : Send(p, t) \/ PeerReceive(p, t)
  PROVE  QueueRest'
<1> USE DEF pthVars, msgKernVars, msgObjVars, msgHistVars, NoQueue
<1>0. /\ ThreadTypes /\ LocalTypes /\ ReceiverInv /\ QueueFlags /\ KernelTypes
      /\ Emptied /\ QueueHasCreator /\ p \in Objects
  BY DEF QueueInv, Objects
<1>1. UNCHANGED <<m_msgDta, val, wpc, m_pid, running, thr, own, starts, stopping, cancel>>
  BY DEF GetMsg, ReleaseMsg, PeerDestruct, PeerKilled, MsgDestruct, Send, PeerReceive
<1>a. opening'[Me] => opening[Me]
  BY <1>0 DEF GetMsg, ReleaseMsg, PeerDestruct, PeerKilled, Killed, MsgDestruct, Send,
              PeerReceive, QueueFlags, Objects
<1>2. ThreadTypes' /\ LocalTypes' /\ ReceiverInv'
  BY <1>0, <1>1, <1>a DEF ThreadTypes, LocalTypes, ReceiverInv
<1>3. CASE GetMsg(p)
  <2>1. /\ UNCHANGED <<key, ids, queue, m_msgCreated, opening, orphan>>
        /\ m_msgId' = [m_msgId EXCEPT ![p] = key]
    BY <1>3 DEF GetMsg
  <2>2. KernelTypes' /\ Emptied'
    BY <1>0, <2>1 DEF KernelTypes, Emptied
  <2>3. QueueFlags'
    BY <1>0, <1>1, <2>1 DEF QueueFlags
  <2>4. \A q \in Objects : m_msgId[q] = key => m_msgId'[q] = key
    BY <1>0, <2>1 DEF KernelTypes
  <2>5. QueueHasCreator'
    BY <1>0, <1>1, <2>1, <2>4 DEF QueueHasCreator, Removers, Objects
  <2>6. QED
    BY <1>2, <2>2, <2>3, <2>5 DEF QueueRest
<1>4. CASE ReleaseMsg(p)
  <2>1. Delete(p) /\ UNCHANGED <<ids, m_msgCreated, opening, orphan, cancel>>
    BY <1>4 DEF ReleaseMsg
  <2>2. KernelTypes' /\ Emptied' /\ QueueHasCreator'
    BY <1>0, <2>1, DeleteRest
  <2>3. QueueFlags'
    BY <1>0, <2>1 DEF QueueFlags
  <2>4. QED
    BY <1>2, <2>2, <2>3 DEF QueueRest
<1>5. CASE PeerDestruct(p)
  <2>1. MsgDestruct(p) /\ ~opening[p]
    BY <1>5 DEF PeerDestruct
  <2>2. QED
    BY <1>0, <1>2, <2>1, DestructRest DEF QueueRest
<1>6. ASSUME NEW t \in Types, Send(p, t) \/ PeerReceive(p, t) PROVE QueueRest'
  <2>1. UNCHANGED <<key, ids, m_msgId, m_msgCreated, opening, orphan>> /\ key # 0
    BY <1>6 DEF Send, Sendable, PeerReceive, Reaches
  <2>2. cancel' \in BOOLEAN
    BY <1>0, <1>1 DEF QueueFlags
  <2>3. QED
    BY <1>2, <2>1, <2>2, SameObjects DEF QueueRest
<1>7. CASE PeerKilled(p)
  <2>1. Killed(p) /\ UNCHANGED <<key, ids, queue>> /\ cancel' \in BOOLEAN
    BY <1>0, <1>1, <1>7 DEF PeerKilled, QueueFlags
  <2>2. QED
    BY <1>0, <1>2, <2>1, KilledRest DEF QueueRest
<1>8. QED
  BY <1>3, <1>4, <1>5, <1>6, <1>7

\* Every step preserves the invariant.
LEMMA QueueNext ==
  ASSUME QueueInv, [MsgNext]_msgVars
  PROVE  QueueInv'
<1>1. Capacity \in Nat /\ MaxSends \in Nat /\ MaxQueues \in Nat
  BY MsgAssumption
<1>2. CASE MsgNext
  <2>1. MessageTypes' /\ Ascending' /\ Accounted' /\ HandledFirst'
    BY <1>1, <1>2, NextMoves, MovedTypes, MovedAccounted, MovedOrder
  <2>2. QueueRest'
    <3>1. CASE \/ Owner \/ OwnerWake \/ StopMsgRev
               \/ StopRelease \/ StopJoin \/ MyDestruct \/ MeKilled
      BY <3>1, OwnerRest
    <3>2. CASE \E o \in Objects : CreateExcl(o) \/ CreateOpen(o)
      BY <1>1, <3>2, CreateRest DEF Objects
    <3>3. CASE \E p \in Peers :
                 \/ GetMsg(p) \/ ReleaseMsg(p) \/ PeerDestruct(p)
                 \/ PeerKilled(p)
                 \/ \E t \in Types : Send(p, t) \/ PeerReceive(p, t)
      BY <3>3, PeerRest
    <3>4. CASE WorkerStep \/ ReceiveInterrupted
      BY <3>4, WorkerRest
    <3>5. QED
      BY <1>2, <3>1, <3>2, <3>3, <3>4 DEF MsgNext
  <2>3. QED
    BY <2>1, <2>2 DEF QueueInv, QueueRest
<1>3. CASE UNCHANGED msgVars
  <2>1. UNCHANGED <<m_pid, running, thr, cancel, own, starts, key, queue, ids, m_msgId,
                    m_msgCreated, opening, m_msgDta, wpc, val, stopping, handled, polled,
                    lost, orphan, sends>>
    BY <1>3 DEF msgVars, pthVars, msgKernVars, msgObjVars, msgHistVars
  <2>2. Stays
    BY <2>1, SameHand DEF Stays
  <2>3. MessageTypes' /\ Ascending' /\ Accounted' /\ HandledFirst'
    BY <1>1, <2>2, MovedTypes, MovedAccounted, MovedOrder DEF Moves
  <2>4. ThreadTypes' /\ LocalTypes' /\ ReceiverInv'
    BY <2>1 DEF QueueInv, ThreadTypes, LocalTypes, ReceiverInv
  <2>5. KernelTypes' /\ QueueFlags' /\ Emptied' /\ QueueHasCreator'
    BY <2>1, SameObjects DEF QueueInv, QueueFlags
  <2>6. QED
    BY <2>3, <2>4, <2>5 DEF QueueInv
<1>4. QED
  BY <1>2, <1>3

\* It holds at first ...
LEMMA QueueInit ==
  ASSUME MsgInit
  PROVE  QueueInv
<1> USE DEF MsgInit, PthInit, OwnIdle, NoQueue, Objects
<1>0. Capacity \in Nat /\ MaxSends \in Nat /\ MaxQueues \in Nat
  BY MsgAssumption
<1>1. ThreadTypes /\ ReceiverInv
  BY DEF ThreadTypes, ReceiverInv, Objects
<1>2. KernelTypes /\ QueueFlags
  <2>1. KernelTypes
    BY <1>0 DEF KernelTypes, Objects
  <2>2. QueueFlags
    BY DEF QueueFlags, Objects
  <2>3. QED
    BY <2>1, <2>2
<1>3. queue = <<>> /\ handled = <<>> /\ polled = {} /\ lost = {} /\ sends = 0
  OBVIOUS
<1>4. MessageTypes
  BY <1>0, <1>3 DEF MessageTypes
<1>5. LocalTypes
  BY DEF LocalTypes, Message, NoMsg
<1>6. InHand = {} /\ InQueue = {} /\ InHandled = {}
  BY DEF InHand, InQueue, InHandled
<1>7. Emptied /\ Ascending /\ HandledFirst
  BY <1>3, <1>6 DEF Emptied, Ascending, HandledFirst
<1>8. Accounted
  BY <1>3, <1>6 DEF Accounted
<1>9. QueueHasCreator
  BY DEF QueueHasCreator, Removers
<1>10. QED
  BY <1>1, <1>2, <1>4, <1>5, <1>7, <1>8, <1>9 DEF QueueInv

\* ... and always.
LEMMA QueueInductive == MsgSpec => []QueueInv
<1>1. MsgInit => QueueInv
  BY QueueInit
<1>2. QueueInv /\ [MsgNext]_msgVars => QueueInv'
  BY QueueNext
<1>3. QED
  BY <1>1, <1>2, PTL DEF MsgSpec

\* No message is dropped, delivered twice, or handled before an older one of
\* its type, whoever removes the queue, stops or kills the receiver or polls.
THEOREM MessagesAccounted == MsgSpec => []EveryMessageAccounted
<1>1. ASSUME QueueInv PROVE EveryMessageAccounted
  <2>0. /\ ThreadTypes /\ KernelTypes /\ QueueFlags /\ MessageTypes /\ LocalTypes
        /\ HandledFirst /\ Accounted
    BY <1>1 DEF QueueInv
  <2>1. MsgTypeOK
    <3>1. PthTypeOK
      BY <2>0 DEF ThreadTypes, QueueFlags, PthTypeOK, PidValues, ThrStates,
                  OwnStates, OwnIdle, OwnBase
    <3>3. KernelTypes /\ QueueFlags /\ MessageTypes /\ LocalTypes
      BY <2>0
    <3>4. wpc \in {"receive", "copy", "call"} /\ stopping \in {"no", "release", "join"}
      BY <2>0 DEF ThreadTypes
    <3>5. QED
      BY <3>1, <3>3, <3>4 DEF MsgTypeOK, KernelTypes, QueueFlags, MessageTypes, LocalTypes,
                  Objects
  <2>2. Numbers(queue) = InQueue /\ Range(handled) = InHandled
    BY <2>0, QueueNumbers DEF MessageTypes, Range, InHandled
  <2>3. Places = <<InQueue, InHand, InHandled, polled, lost>>
    BY <2>2 DEF Places, InHand
  <2>4. UNION Range(Places) = InQueue \cup InHand \cup InHandled \cup polled \cup lost
    <3>1. Range(Places) = {InQueue, InHand, InHandled, polled, lost}
      BY <2>3 DEF Range
    <3>2. QED
      BY <3>1
  <2>5. \A i, j \in DOMAIN Places : i # j => Places[i] \cap Places[j] = {}
    <3>1. DOMAIN Places = 1 .. 5
      BY <2>3
    <3>2. QED
      BY <2>0, <2>3, <3>1 DEF Accounted
  <2>6. \A i, j \in DOMAIN handled : i < j => handled[i] < handled[j]
    BY <2>0 DEF HandledFirst, MessageTypes
  <2>7. QED
    BY <2>0, <2>1, <2>4, <2>5, <2>6 DEF EveryMessageAccounted, Accounted
<1>2. QED
  BY <1>1, QueueInductive, PTL

\* A queue that exists has an object whose destructor will remove it, unless it
\* was created between the two msgget calls of create_object or the process of
\* the last object that would remove it was killed.
THEOREM CreatorKeepsQueue == MsgSpec => []QueueHasCreator
<1>1. QueueInv => QueueHasCreator
  BY DEF QueueInv
<1>2. QED
  BY <1>1, QueueInductive, PTL

=============================================================================
