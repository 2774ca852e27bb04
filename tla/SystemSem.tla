------------------------------ MODULE SystemSem -----------------------------
(***************************************************************************)
(* ZSystemSem (prodata/zsystemsem.cpp) on LSystemSem (lsystemsem.cpp): the *)
(* processes that use one name find a System V semaphore through a key     *)
(* file, create it when it is missing, use it as a lock with SEM_UNDO (as  *)
(* ZSysShmBase does, initial value 1) and remove file and semaphore in the *)
(* destructor of an object that created them.  Others use an LSystemSem    *)
(* alone, on one key given as a number.  Processes die at any step.        *)
(*                                                                         *)
(* A file is its inode number, which ftok makes the key: a file removed    *)
(* and created again leads to another key.  Files and semaphores are       *)
(* numbered in the order of creation, 0 stands for none and for -1.        *)
(***************************************************************************)
EXTENDS Integers, FiniteSets

CONSTANTS
  Procs,
  Names,      \* the names objects are keyed with
  MaxFiles,   \* bound: key files created
  MaxSems,    \* bound: semaphores created
  MaxDeaths   \* bound: processes that die

NoName == "no name"
Number == "number"      \* what stands for the name of an object on NumKey

ASSUME SemAssumption ==
  /\ NoName \notin Names /\ Number \notin Names
  /\ MaxFiles \in Nat /\ MaxSems \in Nat /\ MaxDeaths \in Nat /\ IsFiniteSet(Procs)

m_initVal == 1
NumKey == MaxFiles + 1
Keys == 1 .. NumKey
Sems == 1 .. MaxSems

VARIABLES
  file,          \* per name its key file, or 0
  files,         \* number of key files created
  semOf,         \* kernel: per key its semaphore, or 0
  sems,          \* number of semaphores created
  value,         \* kernel: value of each semaphore
  adj,           \* kernel: what the death of a process adds to a semaphore
  pc,            \* per process: where its object is in the operation
  op,            \* per process: what handle() is called for
  mode,          \* per process: the access mode of setKey
  m_key,         \* per process: the name setKey has set, or NoName
  newKey,        \* per process: the name setKey is about to set
  m_semKey, m_semId, m_created, m_createdFile,    \* per process
  inited,        \* history: how often each semaphore was set
  abandoned,     \* history: semaphores nobody is going to set
  disturbed,     \* history: a file or semaphore was removed, or one was
                 \* opened with Create, which sets it again
  kept,          \* history: processes whose object has taken the semaphore of
                 \* one name along to another
  deaths         \* bound

kernVars == <<file, files, semOf, sems, value, adj>>
objVars  == <<m_key, newKey, m_semKey, m_semId, m_created, m_createdFile>>
histVars == <<inited, abandoned, disturbed, kept, deaths>>
vars == <<kernVars, pc, op, mode, objVars, histVars>>

Init ==
  /\ file = [n \in Names |-> 0] /\ files = 0
  /\ semOf = [k \in Keys |-> 0] /\ sems = 0
  /\ value = [s \in Sems |-> 0] /\ adj = [s \in Sems |-> [p \in Procs |-> 0]]
  /\ pc = [p \in Procs |-> "idle"] /\ op = [p \in Procs |-> "open"]
  /\ mode = [p \in Procs |-> "Open"]
  /\ m_key = [p \in Procs |-> NoName] /\ newKey = [p \in Procs |-> NoName]
  /\ m_semKey = [p \in Procs |-> 0]
  /\ m_semId = [p \in Procs |-> 0]
  /\ m_created = [p \in Procs |-> FALSE]
  /\ m_createdFile = [p \in Procs |-> FALSE]
  /\ inited = [s \in Sems |-> 0] /\ abandoned = {} /\ disturbed = FALSE
  /\ kept = {} /\ deaths = 0

Go(p, where) == pc' = [pc EXCEPT ![p] = where]
Rest(p) == Go(p, "idle") /\ op' = [op EXCEPT ![p] = "open"]
Exists(s) == s # 0 /\ \E k \in Keys : semOf[k] = s

-----------------------------------------------------------------------------
(* setKey and semFileHandle: the key file, ftok.                           *)

\* The file is looked for first and, when it is missing, created O_EXCL.
LookForFile(p, n) ==
  IF file[n] # 0
  THEN Go(p, "ftok") /\ m_createdFile' = [m_createdFile EXCEPT ![p] = FALSE]
  ELSE Go(p, "mkfile") /\ m_createdFile' = [m_createdFile EXCEPT ![p] = FALSE]

\* The name set before is refused with Open, also after a failure.  The object
\* that created everything keeps it when its name is set again with Create:
\* only the key is computed anew.  Otherwise what it has is cleaned first,
\* which is nothing for an object without a name.
Keeps(p, n) == \/ n = m_key[p] /\ m_created[p] /\ m_createdFile[p]
               \/ m_key[p] = NoName

SetKey(p, n, md) ==
  /\ pc[p] = "idle" /\ m_key[p] # Number /\ (n = m_key[p] => md = "Create")
  /\ mode' = [mode EXCEPT ![p] = md]
  /\ IF Keeps(p, n)
     THEN /\ m_semKey' = [m_semKey EXCEPT ![p] = 0] /\ LookForFile(p, n)
          /\ m_key' = [m_key EXCEPT ![p] = n] /\ UNCHANGED newKey
     ELSE /\ newKey' = [newKey EXCEPT ![p] = n] /\ Go(p, "unfile")
          /\ UNCHANGED <<m_key, m_semKey, m_createdFile>>
  /\ UNCHANGED <<kernVars, op, m_semId, m_created, histVars>>

\* createUnixKeyFile: EEXIST is as good as success.
MakeFile(p) ==
  /\ pc[p] = "mkfile" /\ Go(p, "ftok")
  /\ \/ file[m_key[p]] = 0 /\ files < MaxFiles
        /\ file' = [file EXCEPT ![m_key[p]] = files + 1] /\ files' = files + 1
        /\ m_createdFile' = [m_createdFile EXCEPT ![p] = TRUE]
     \/ file[m_key[p]] # 0 /\ UNCHANGED <<file, files, m_createdFile>>
  /\ UNCHANGED <<semOf, sems, value, adj, op, mode, m_key, newKey, m_semKey,
                 m_semId, m_created, histVars>>

\* ftok fails when the file was removed meanwhile; setKey returns -1.
Ftok(p) ==
  /\ pc[p] = "ftok" /\ m_semKey' = [m_semKey EXCEPT ![p] = file[m_key[p]]]
  /\ IF file[m_key[p]] = 0
     THEN Go(p, "idle") /\ mode' = [mode EXCEPT ![p] = "Open"]
     ELSE Go(p, IF m_semId[p] # 0 THEN "done" ELSE "get") /\ UNCHANGED mode
  /\ UNCHANGED <<kernVars, op, m_key, newKey, m_semId, m_created, m_createdFile,
                 histVars>>

-----------------------------------------------------------------------------
(* handle: semget, semget, semctl.                                         *)

Key(p) == m_semKey[p]

NewSem(p, key) ==
  /\ semOf[key] = 0 /\ sems < MaxSems
  /\ sems' = sems + 1 /\ semOf' = [semOf EXCEPT ![key] = sems + 1]
  /\ m_semId' = [m_semId EXCEPT ![p] = sems + 1]
  /\ UNCHANGED <<file, files, value, adj>>

\* handle() inside modifySemaphore has the default mode.
Mode(p) == IF op[p] = "open" THEN mode[p] ELSE "Open"

\* An object whose ftok failed has no key any more: the operation fails.
NoKey(p) ==
  /\ pc[p] = "get" /\ Key(p) = 0 /\ Rest(p)
  /\ UNCHANGED <<kernVars, mode, objVars, histVars>>

AfterNew(p) == "setval"

GetExcl(p) ==
  /\ pc[p] = "get" /\ Key(p) # 0
  /\ \/ NewSem(p, Key(p)) /\ Go(p, AfterNew(p))
        /\ m_created' = [m_created EXCEPT ![p] = TRUE]
     \/ semOf[Key(p)] # 0 /\ Go(p, "get2")
        /\ UNCHANGED <<kernVars, m_semId, m_created>>
  /\ UNCHANGED <<op, mode, m_key, newKey, m_semKey, m_createdFile, histVars>>

\* Mutant of Claims: everybody who opens the semaphore also sets it.
Claims_always(p) == TRUE

Claims(p) == Mode(p) = "Create"

\* The second semget opens, or creates a semaphore (of value 0) that was
\* removed since the first: only with Create is it then set.
GetOpen(p) ==
  /\ pc[p] = "get2"
  /\ \/ semOf[Key(p)] # 0 /\ m_semId' = [m_semId EXCEPT ![p] = semOf[Key(p)]]
        /\ UNCHANGED <<kernVars, abandoned>>
     \/ NewSem(p, Key(p))
        /\ abandoned' = abandoned \cup (IF Claims(p) THEN {} ELSE {sems + 1})
  /\ m_created' = [m_created EXCEPT ![p] = @ \/ Claims(p)]
  /\ Go(p, IF m_created'[p] THEN "setval" ELSE "done")
  /\ disturbed' = (disturbed \/ Mode(p) = "Create")
  /\ UNCHANGED <<op, mode, m_key, newKey, m_semKey, m_createdFile, inited,
                 kept, deaths>>

\* An object that opened its semaphore by number never got an initial value.
InitVal(p) == IF m_key[p] = Number THEN 0 ELSE m_initVal

\* SETVAL also forgets what the kernel would undo; it fails on a semaphore
\* that was removed, and everything is given back.
SetVal(p) ==
  /\ pc[p] = "setval"
  /\ LET s == m_semId[p] IN
     IF Exists(s)
     THEN /\ value' = [value EXCEPT ![s] = InitVal(p)]
          /\ adj' = [adj EXCEPT ![s] = [q \in Procs |-> 0]]
          /\ inited' = [inited EXCEPT ![s] = 1]
          /\ Go(p, "done")
          /\ UNCHANGED <<m_semId, m_created>>
     ELSE /\ m_semId' = [m_semId EXCEPT ![p] = 0]
          /\ m_created' = [m_created EXCEPT ![p] = FALSE]
          /\ Go(p, IF op[p] = "open" THEN "unfile" ELSE "get")
          /\ UNCHANGED <<value, adj, inited>>
  /\ UNCHANGED <<file, files, semOf, sems, op, mode, m_key, newKey, m_semKey,
                 m_createdFile, abandoned, disturbed, kept, deaths>>

\* Back in semFileHandle, or in modifySemaphore for the semop.
Handled(p) ==
  /\ pc[p] = "done"
  /\ Go(p, CASE op[p] = "open" -> "idle" [] op[p] = "try" -> "take" [] OTHER -> op[p])
  /\ m_createdFile' = [m_createdFile EXCEPT ![p] = @ \/ Claims(p)]
  /\ mode' = [mode EXCEPT ![p] = "Open"]
  /\ UNCHANGED <<kernVars, op, m_key, newKey, m_semKey, m_semId, m_created,
                 histVars>>

-----------------------------------------------------------------------------
(* setKey of an LSystemSem: readSemKey, createSem.                         *)

\* Opening what is not there fails and leaves the object as it was.
ReadSemKey(p) ==
  /\ pc[p] = "idle" /\ m_key[p] = NoName /\ semOf[NumKey] # 0
  /\ m_semId' = [m_semId EXCEPT ![p] = semOf[NumKey]]
  /\ m_semKey' = [m_semKey EXCEPT ![p] = NumKey]
  /\ m_key' = [m_key EXCEPT ![p] = Number]
  /\ UNCHANGED <<kernVars, pc, op, mode, newKey, m_created, m_createdFile, histVars>>

\* So does creating what is there.  The key is not stored: a semaphore that
\* is removed later cannot be made again by this object.
CreateSem(p) ==
  /\ pc[p] = "idle" /\ m_key[p] = NoName /\ NewSem(p, NumKey)
  /\ m_created' = [m_created EXCEPT ![p] = TRUE]
  /\ m_key' = [m_key EXCEPT ![p] = Number] /\ Go(p, "setnum")
  /\ UNCHANGED <<op, mode, newKey, m_semKey, m_createdFile, histVars>>

\* A semctl that fails leaves the object with the id it has.
SetNum(p) ==
  /\ pc[p] = "setnum" /\ Go(p, "idle")
  /\ LET s == m_semId[p] IN
     IF Exists(s)
     THEN /\ value' = [value EXCEPT ![s] = m_initVal]
          /\ adj' = [adj EXCEPT ![s] = [q \in Procs |-> 0]]
          /\ inited' = [inited EXCEPT ![s] = 1]
     ELSE UNCHANGED <<value, adj, inited>>
  /\ UNCHANGED <<file, files, semOf, sems, op, mode, objVars, abandoned,
                 disturbed, kept, deaths>>

-----------------------------------------------------------------------------
(* modifySemaphore with -1 and +1; EIDRM and EINVAL lead through handle(). *)

\* Without a time limit, "take", or with one, "try".
Acquire(p, how) ==
  /\ pc[p] = "idle" /\ m_semId[p] # 0
  /\ Go(p, "take") /\ op' = [op EXCEPT ![p] = how]
  /\ UNCHANGED <<kernVars, mode, objVars, histVars>>

Release(p) ==
  /\ pc[p] = "locked" /\ Go(p, "give") /\ op' = [op EXCEPT ![p] = "give"]
  /\ UNCHANGED <<kernVars, mode, objVars, histVars>>

\* Mutant of UndoOf: SEM_UNDO is left out of the operation's flags.
UndoOf_none(s, p, count) == adj

UndoOf(s, p, count) == [adj EXCEPT ![s][p] = @ - count]

Semop(p, count) ==
  /\ Exists(m_semId[p]) /\ value[m_semId[p]] + count >= 0
  /\ value' = [value EXCEPT ![m_semId[p]] = @ + count]
  /\ adj' = UndoOf(m_semId[p], p, count)
  /\ UNCHANGED <<file, files, semOf, sems, mode, objVars, histVars>>

Take(p) == /\ pc[p] = "take" /\ Semop(p, -1)
           /\ Go(p, "locked") /\ op' = [op EXCEPT ![p] = "take"]
Give(p) == pc[p] = "give" /\ Semop(p, 1) /\ Rest(p)

\* semtimedop gives up with EAGAIN; the code waits for ETIMEDOUT and calls it
\* an error.  After EIDRM the whole time limit begins anew.
TimeOver(p) ==
  /\ pc[p] = "take" /\ op[p] = "try"
  /\ Exists(m_semId[p]) /\ value[m_semId[p]] = 0
  /\ Rest(p)
  /\ UNCHANGED <<kernVars, mode, objVars, histVars>>

\* m_semId is forgotten before cleanHandle(), so nothing is removed.
Disowned(p) == [m_created EXCEPT ![p] = FALSE]

Regain(p) ==
  /\ pc[p] \in {"take", "give"} /\ ~Exists(m_semId[p])
  /\ m_semId' = [m_semId EXCEPT ![p] = 0] /\ m_created' = Disowned(p)
  /\ Go(p, "get")
  /\ UNCHANGED <<kernVars, op, mode, m_key, newKey, m_semKey, m_createdFile,
                 histVars>>

-----------------------------------------------------------------------------
(* semFileCleanHandle: the destructor, the failed setKey; death.           *)

Destruct(p) ==
  /\ pc[p] = "idle" /\ m_key[p] # NoName
  /\ Go(p, IF m_key[p] = Number THEN "rmid" ELSE "unfile")
  /\ op' = [op EXCEPT ![p] = "close"]
  /\ UNCHANGED <<kernVars, mode, objVars, histVars>>

\* The file of this name is removed, whoever has created it since.
RemoveFile(p) ==
  /\ pc[p] = "unfile"
  /\ m_semKey' = [m_semKey EXCEPT ![p] = 0]
  /\ file' = IF m_createdFile[p] THEN [file EXCEPT ![m_key[p]] = 0] ELSE file
  /\ disturbed' = (disturbed \/ m_createdFile[p])
  /\ m_createdFile' = [m_createdFile EXCEPT ![p] = FALSE]
  /\ Go(p, "rmid")
  /\ UNCHANGED <<files, semOf, sems, value, adj, op, mode, m_key, newKey,
                 m_semId, m_created, inited, abandoned, kept, deaths>>

Removes(p) == m_created[p] /\ Exists(m_semId[p])

RemoveSem(p) ==
  /\ pc[p] = "rmid"
  /\ IF Removes(p)
     THEN /\ semOf' = [k \in Keys |->
                          IF semOf[k] = m_semId[p] THEN 0 ELSE semOf[k]]
          /\ value' = [value EXCEPT ![m_semId[p]] = 0]
          /\ adj' = [adj EXCEPT ![m_semId[p]] = [q \in Procs |-> 0]]
     ELSE UNCHANGED <<semOf, value, adj>>
  /\ disturbed' = (disturbed \/ (m_created[p] /\ Exists(m_semId[p])))
  /\ m_created' = [m_created EXCEPT ![p] = FALSE]
  /\ m_semId' = IF m_created[p] \/ op[p] = "close"
                  THEN [m_semId EXCEPT ![p] = 0] ELSE m_semId
  /\ kept' = IF m_semId'[p] = 0 THEN kept \ {p}
             ELSE IF newKey[p] \in {NoName, m_key[p]} THEN kept ELSE kept \cup {p}
  /\ IF newKey[p] # NoName
     THEN /\ m_key' = [m_key EXCEPT ![p] = newKey[p]]
          /\ newKey' = [newKey EXCEPT ![p] = NoName]
          /\ LookForFile(p, newKey[p]) /\ UNCHANGED <<op, mode>>
     ELSE /\ m_key' = [m_key EXCEPT ![p] = IF op[p] = "close" THEN NoName ELSE @]
          /\ Rest(p) /\ mode' = [mode EXCEPT ![p] = "Open"]
          /\ UNCHANGED <<newKey, m_createdFile>>
  /\ m_semKey' = [m_semKey EXCEPT ![p] = 0]
  /\ UNCHANGED <<file, files, sems, inited, abandoned, deaths>>

\* The kernel undoes what p has done; no value goes below 0.
Undone(s, p) == IF value[s] + adj[s][p] < 0 THEN 0 ELSE value[s] + adj[s][p]

Die(p) ==
  /\ m_key[p] # NoName /\ deaths < MaxDeaths /\ deaths' = deaths + 1
  /\ value' = [s \in Sems |-> Undone(s, p)]
  /\ adj' = [s \in Sems |-> [adj[s] EXCEPT ![p] = 0]]
  /\ abandoned' = abandoned \cup
       {s \in Sems : s = m_semId[p] /\ pc[p] \in {"setval", "setnum"} /\ Exists(s) /\ inited[s] = 0}
  /\ Rest(p) /\ mode' = [mode EXCEPT ![p] = "Open"]
  /\ m_key' = [m_key EXCEPT ![p] = NoName]
  /\ newKey' = [newKey EXCEPT ![p] = NoName]
  /\ m_semKey' = [m_semKey EXCEPT ![p] = 0]
  /\ m_semId' = [m_semId EXCEPT ![p] = 0]
  /\ m_created' = [m_created EXCEPT ![p] = FALSE]
  /\ m_createdFile' = [m_createdFile EXCEPT ![p] = FALSE] /\ kept' = kept \ {p}
  /\ UNCHANGED <<file, files, semOf, sems, inited, disturbed>>

Step(p) == \/ MakeFile(p) \/ Ftok(p) \/ NoKey(p) \/ GetExcl(p) \/ GetOpen(p)
           \/ SetVal(p) \/ SetNum(p) \/ Handled(p)
           \/ Release(p) \/ Take(p) \/ TimeOver(p) \/ Give(p) \/ Regain(p)
           \/ RemoveFile(p) \/ RemoveSem(p)

Next == \E p \in Procs :
          \/ \E n \in Names, md \in {"Open", "Create"} : SetKey(p, n, md)
          \/ ReadSemKey(p) \/ CreateSem(p)
          \/ Acquire(p, "take") \/ Acquire(p, "try") \/ Destruct(p) \/ Die(p) \/ Step(p)

\* Processes run, and the kernel serves the waiters of a semaphore in turn.
Fairness == \A p \in Procs : WF_vars(Step(p)) /\ SF_vars(Take(p))

Spec == Init /\ [][Next]_vars /\ Fairness

-----------------------------------------------------------------------------
(* Properties.                                                             *)

\* Types; an object that will remove a semaphore knows which one.
TypeOK ==
  /\ file \in [Names -> 0 .. files]
  /\ files \in 0 .. MaxFiles /\ sems \in 0 .. MaxSems
  /\ semOf \in [Keys -> 0 .. sems] /\ value \in [Sems -> Nat]
  /\ adj \in [Sems -> [Procs -> Int]]
  /\ pc \in [Procs -> {"idle", "mkfile", "ftok", "get", "get2", "setval", "setnum", "done",
                       "take", "locked", "give", "unfile", "rmid"}]
  /\ op \in [Procs -> {"open", "take", "try", "give", "close"}]
  /\ mode \in [Procs -> {"Open", "Create"}]
  /\ m_key \in [Procs -> Names \cup {NoName, Number}]
  /\ newKey \in [Procs -> Names \cup {NoName}]
  /\ m_semKey \in [Procs -> (0 .. files) \cup {NumKey}] /\ m_semId \in [Procs -> 0 .. sems]
  /\ m_created \in [Procs -> BOOLEAN] /\ m_createdFile \in [Procs -> BOOLEAN]
  /\ \A p \in Procs : m_created[p] => m_semId[p] # 0
  /\ inited \in [Sems -> {0, 1}] /\ abandoned \subseteq 1 .. sems
  /\ disturbed \in BOOLEAN /\ kept \subseteq Procs /\ deaths \in 0 .. MaxDeaths

\* As long as nothing is removed, nor reset by Create, the lock has one
\* holder, whoever opens it late, dies inside or finds it half created: the
\* users of a name meet in one semaphore, as do those of the number; but not an
\* object that opened one name and was then set to another: it keeps the first.
MutualExclusion ==
  ~disturbed =>
    \A p, q \in Procs \ kept :
      /\ pc[p] \in {"locked", "give"} /\ pc[q] \in {"locked", "give"}
      /\ m_key[p] = m_key[q]
      => p = q

\* A semaphore that exists and was never set is about to be set by someone,
\* unless its creator died or created it believing that it opened it.
SomeoneSetsIt ==
  \A s \in 1 .. sems :
    Exists(s) /\ inited[s] = 0 =>
      s \in abandoned \/ \E p \in Procs : pc[p] \in {"setval", "setnum"} /\ m_semId[p] = s

\* Those who the kernel knows to have taken a semaphore.
Takers(s) == {p \in Procs : adj[s][p] # 0}

\* The token of the lock comes into being with the semaphore, or its creator
\* is on the way, and then it is in the semaphore or one process has it, which
\* gives it back by its death: no death loses it or makes a second one (types).
TokenConserved ==
  /\ TypeOK /\ SomeoneSetsIt
  /\ ~disturbed =>
       \A s \in 1 .. sems :
         /\ \A p \in Procs : adj[s][p] \in {0, m_initVal}
         /\ value[s] + Cardinality(Takers(s)) = inited[s] * m_initVal

\* acquire returns while nothing is removed, nor reset by Create; only a
\* semaphore that was never set can keep it.
AcquireReturns ==
  \A p \in Procs :
    pc[p] = "take" ~> pc[p] # "take" \/ disturbed \/ m_semId[p] \in abandoned

=============================================================================
