---------------------------- MODULE FTimerProofs ----------------------------
(***************************************************************************)
(* Proofs about FTimer for every set of users and descriptors, every size  *)
(* of the event array and number of timers: the map and the kernel agree   *)
(* outside the critical sections, a callback runs only for a timer that is *)
(* open and in the map, and it starts only for one that has expired.       *)
(***************************************************************************)
EXTENDS FTimer, FiniteSetTheorems, TLAPS

\* The thread and the destructor: m_pid names a thread there is, an idle owner
\* has set running for it, and only a joined thread's map is to be cleared.
LifeInv ==
  /\ m_pid = "live" <=> thr # "none"
  /\ own = "created" => m_pid = "live"
  /\ own = OwnIdle => (m_pid = "live" <=> running = 1)
  /\ own \in {"cancel", "join"} => running = 0
  /\ own \in {"dtorWake", "dtorJoin"} => m_pid = "live"
  /\ own \in OwnBase \cup {"dead"} => m_pid # "live"
  /\ clear => own = "dtorJoin" \/ (own = "baseDtor" /\ m_pid = "none")

\* Who is in a critical section holds the mutex; the worker may also have been
\* cancelled with it.
LockInv ==
  /\ \A u \in Users : m_mutex = u <=> upc[u] \in {"arm", "erase"}
  /\ thr = "work" /\ wpc \in {"scan", "call"} => m_mutex = Worker
  /\ thr # "work" => wpc = "wait"
  /\ ~Usable => \A u \in Users : upc[u] = "idle"

At(u, f, where) == ufd[u] = f /\ upc[u] \in where

\* An open descriptor belongs to one user's call or is a handle; the number of
\* one that was closed may be opened again before its entry is erased.
FdInv ==
  /\ \A u \in Users : upc[u] # "idle" => ufd[u] \in Fds \ handles
  /\ \A u, v \in Users : \A f \in Fds :
       At(u, f, {"add", "arm", "del"}) /\ At(v, f, {"add", "arm", "del"}) => u = v
  /\ \A u, v \in Users : \A f \in Fds :
       ~(At(u, f, {"erase"}) /\ At(v, f, {"arm", "del"}))
  /\ \A u \in Users, f \in Fds : At(u, f, {"add", "arm", "del"}) => open[f] # None

\* The map is in use until the destructor has emptied it.
Mapped == own # "dead" /\ ~(own = "baseDtor" /\ ~clear /\ m_pid = "none")

\* Map and kernel for one descriptor: while its entry is being erased, it is
\* closed or already another timer's.
FdAgrees(f) ==
  /\ f \in handles => open[f] # None
  /\ IF \E u \in Users : At(u, f, {"erase"})
       THEN open[f] = None \/ \E u \in Users : At(u, f, {"add"})
       ELSE \/ open[f] = poll_map[f]
            \/ poll_map[f] = None /\ \E u \in Users : At(u, f, {"add"})

MapInv == Mapped => \A f \in Fds : FdAgrees(f)

CallInv == wpc = "call" => cur # None /\ CallbackOfLiveTimer

IInv == TypeOK /\ LifeInv /\ LockInv /\ FdInv /\ MapInv /\ CallInv

-----------------------------------------------------------------------------
(* Types.                                                                  *)

LEMMA InitIInv == Init => IInv
<1> SUFFICES ASSUME Init PROVE IInv
  OBVIOUS
<1> USE FTimerAssumption, FTimerNames DEF Init, PthInit, OwnIdle, OwnBase, Free, Worker
<1>1. TypeOK
  <2>1. Cardinality(evs) <= m_epSize
    BY FS_EmptySet
  <2>2. PthTypeOK
    BY DEF PthTypeOK, PidValues, ThrStates, OwnStates
  <2>3. expired \in [Timers -> BOOLEAN] /\ eventfd \in BOOLEAN /\ clear \in BOOLEAN
    OBVIOUS
  <2>4. made \in 0 .. MaxTimers
    OBVIOUS
  <2>5. QED
    BY <2>1, <2>2, <2>3, <2>4 DEF TypeOK
<1>2. LifeInv /\ LockInv /\ FdInv
  BY DEF LifeInv, LockInv, FdInv, At
<1>3. MapInv /\ CallInv
  BY DEF MapInv, FdAgrees, At, CallInv
<1>4. QED
  BY <1>1, <1>2, <1>3 DEF IInv

\* add_event and delete_event.
LEMMA UserTypes ==
  ASSUME TypeOK, FdInv, NEW u \in Users, NEW f \in Fds,
         UserStep(u) \/ NewTimer(u, f) \/ DelCall(u, f)
  PROVE  TypeOK'
<1> USE FTimerAssumption DEF pthVars, kernVars, userVars, workVars
<1>1. CASE NewTimer(u, f)
  <2>1. made + 1 \in Timers /\ made + 1 \in 0 .. MaxTimers
    BY <1>1 DEF NewTimer, TypeOK, Timers
  <2>2. QED
    BY <1>1, <2>1 DEF NewTimer, TypeOK, PthTypeOK
<1>2. CASE DelCall(u, f)
  BY <1>2 DEF DelCall, TypeOK, PthTypeOK
<1>3. CASE AddRegister(u)
  <2>1. interest' \subseteq Fds
    BY <1>3 DEF AddRegister, Watched, TypeOK, FdInv
  <2>2. QED
    BY <1>3, <2>1 DEF AddRegister, TypeOK, PthTypeOK
<1>4. CASE AddArm(u)
  <2>1. armed' \in [Timers -> {"off", "once", "repeat"}]
    BY <1>4 DEF AddArm, TypeOK
  <2>2. handles' \subseteq Fds
    BY <1>4 DEF AddArm, TypeOK, FdInv
  <2>3. QED
    BY <1>4, <2>1, <2>2 DEF AddArm, TypeOK, PthTypeOK
<1>5. CASE DelClose(u)
  <2>1. expired' \in [Timers -> BOOLEAN]
    BY <1>5 DEF DelClose, TypeOK
  <2>2. armed' \in [Timers -> {"off", "once", "repeat"}]
    BY <1>5 DEF DelClose, TypeOK
  <2>3. QED
    BY <1>5, <2>1, <2>2 DEF DelClose, TypeOK, PthTypeOK
<1>6. CASE DelErase(u)
  BY <1>6 DEF DelErase, Erased, TypeOK, PthTypeOK
<1>7. QED
  BY <1>1, <1>2, <1>3, <1>4, <1>5, <1>6 DEF UserStep

\* The clock and the worker.
LEMMA WorkerTypes ==
  ASSUME TypeOK,
         WorkerStep \/ EpollInterrupted \/ \E t \in Timers : Expire(t)
  PROVE  TypeOK'
<1> USE FTimerAssumption DEF pthVars, kernVars, userVars, workVars
<1>1. CASE WorkerEnter \/ WorkerLoop
  BY <1>1 DEF WorkerEnter, WorkerLoop, Enter, LoopTest, TypeOK, PthTypeOK, ThrStates
<1>2. CASE ScanLock \/ CallbackReturns \/ ScanEnd \/ EpollInterrupted
  BY <1>2 DEF ScanLock, CallbackReturns, ScanEnd, EpollInterrupted, WorkAgain,
              TypeOK, PthTypeOK, ThrStates
<1>3. CASE WorkerCancelled
  BY <1>3, FS_EmptySet DEF WorkerCancelled, CancelHit, TypeOK, PthTypeOK, ThrStates
<1>4. ASSUME NEW f \in Fds \cup {EventFd}, ScanSkip(f) \/ ScanRead(f) PROVE TypeOK'
  <2>1. evs' = evs \ {f} /\ f \in evs
    BY <1>4 DEF ScanSkip, ScanRead
  <2>2. IsFiniteSet(evs)
    <3>1. IsFiniteSet(Fds \cup {EventFd})
      BY FS_AddElement
    <3>2. QED
      BY <3>1, FS_Subset DEF TypeOK
  <2>3. evs' \subseteq Fds \cup {EventFd} /\ Cardinality(evs') <= m_epSize
    <3>1. Cardinality(evs') = Cardinality(evs) - 1 /\ Cardinality(evs) \in Nat
      BY <2>1, <2>2, FS_RemoveElement, FS_CardinalityType
    <3>2. \A k, l \in Nat : k <= l => k - 1 <= l
      OBVIOUS
    <3>3. Cardinality(evs') <= m_epSize
      BY <3>1, <3>2 DEF TypeOK
    <3>4. QED
      BY <2>1, <3>3 DEF TypeOK
  <2>4. CASE ScanSkip(f)
    BY <2>3, <2>4 DEF ScanSkip, TypeOK, PthTypeOK
  <2>5. CASE ScanRead(f)
    <3>1. expired' \in [Timers -> BOOLEAN]
      BY <2>5 DEF ScanRead, TypeOK
    <3>2. cur' \in Timers \cup {None}
      BY <2>5 DEF ScanRead, InMap, TypeOK
    <3>3. QED
      BY <2>3, <2>5, <3>1, <3>2 DEF ScanRead, TypeOK, PthTypeOK
  <2>6. QED
    BY <1>4, <2>4, <2>5
<1>5. ASSUME NEW S \in SUBSET (Fds \cup {EventFd}), EpollWait(S) PROVE TypeOK'
  <2>1. evs' \subseteq Fds \cup {EventFd} /\ Cardinality(evs') <= m_epSize
    BY <1>5 DEF EpollWait, MaxReport
  <2>2. QED
    BY <1>5, <2>1 DEF EpollWait, TypeOK, PthTypeOK
<1>6. ASSUME NEW t \in Timers, Expire(t) PROVE TypeOK'
  <2>1. expired' \in [Timers -> BOOLEAN]
    BY <1>6 DEF Expire, TypeOK
  <2>2. armed' \in [Timers -> {"off", "once", "repeat"}]
    BY <1>6 DEF Expire, TypeOK
  <2>3. QED
    BY <1>6, <2>1, <2>2 DEF Expire, TypeOK, PthTypeOK
<1>7. QED
  BY <1>1, <1>2, <1>3, <1>4, <1>5, <1>6 DEF WorkerStep

\* The owner: what its calls do to the thread, and that they do nothing else.
LEMMA OwnerLife ==
  ASSUME TypeOK, LifeInv, OwnerCall \/ OwnerStep \/ DtorWake
  PROVE  PthTypeOK' /\ (thr = "work" <=> thr' = "work")
<1> USE DEF TypeOK, PthTypeOK, PidValues, ThrStates, OwnStates, OwnIdle, OwnBase, LifeInv
<1>1. CASE StartCreate
  <2>1. m_pid' = "live" /\ thr' = "born" /\ own' = "created" /\ thr = "none"
    BY <1>1 DEF StartCreate
  <2>2. cancel' \in BOOLEAN
    BY <1>1, Zenon DEF StartCreate
  <2>3. QED
    BY <1>1, <2>1, <2>2 DEF StartCreate
<1>2. CASE StartFail
  BY <1>2 DEF StartFail
<1>3. CASE Stop \/ WaitEnd \/ DtorBegin
  BY <1>3 DEF Stop, WaitEnd, DtorBegin
<1>4. CASE StartMark \/ PthreadCancel \/ BaseDtor \/ DtorWake
  BY <1>4 DEF StartMark, PthreadCancel, BaseDtor, DtorWake
<1>5. CASE Join
  BY <1>5 DEF Join, Joinable
<1>6. QED
  BY <1>1, <1>2, <1>3, <1>4, <1>5 DEF OwnerCall, OwnerStep

LEMMA OwnerTypes ==
  ASSUME TypeOK, LifeInv, Owner \/ OwnerWake \/ DtorClear
  PROVE  TypeOK'
<1> USE DEF kernVars, userVars, workVars
<1>1. CASE Owner
  BY <1>1, OwnerLife DEF Owner, TypeOK
<1>2. CASE OwnerWake
  <2>1. PthTypeOK'
    BY <1>2, OwnerLife DEF OwnerWake
  <2>2. eventfd' \in BOOLEAN /\ clear' \in BOOLEAN
    BY <1>2 DEF OwnerWake, Stopped
  <2>3. QED
    BY <1>2, <2>1, <2>2 DEF OwnerWake, TypeOK
<1>3. CASE DtorClear
  <2>1. open' \in [Fds -> Timers \cup {None}] /\ interest' \subseteq Fds
    BY <1>3 DEF DtorClear, TypeOK
  <2>2. armed' \in [Timers -> {"off", "once", "repeat"}] /\ clear' \in BOOLEAN
    BY <1>3 DEF DtorClear
  <2>3. expired' \in [Timers -> BOOLEAN]
    BY <1>3 DEF DtorClear
  <2>4. QED
    BY <1>3, <2>1, <2>2, <2>3 DEF DtorClear, TypeOK, PthTypeOK, pthVars
<1>4. QED
  BY <1>1, <1>2, <1>3

-----------------------------------------------------------------------------
(* The thread, the lock and the worker's place in its loop.                *)

\* The calls of the users leave the threads alone.
LEMMA UserFrame ==
  ASSUME NEW u \in Users,
         UserStep(u) \/ \E f \in Fds : NewTimer(u, f) \/ DelCall(u, f)
  PROVE  UNCHANGED <<m_pid, running, thr, own, clear, wpc, evs, cur>>
BY DEF UserStep, NewTimer, DelCall, AddRegister, AddArm, DelClose, DelErase,
       pthVars, workVars

\* The worker and the clock leave the owner, the calls, the map and the
\* descriptors alone.
LEMMA WorkerFrame ==
  ASSUME WorkerStep \/ EpollInterrupted \/ \E t \in Timers : Expire(t)
  PROVE  /\ UNCHANGED <<m_pid, running, own, clear, poll_map, upc, ufd, handles, open>>
         /\ thr = "none" <=> thr' = "none"
<1>1. CASE WorkerEnter \/ WorkerLoop \/ ScanLock \/ CallbackReturns \/ EpollInterrupted
           \/ \E S \in SUBSET (Fds \cup {EventFd}) : EpollWait(S)
  BY <1>1 DEF WorkerEnter, WorkerLoop, ScanLock, CallbackReturns, EpollInterrupted,
              EpollWait, Enter, LoopTest, pthVars, userVars, kernVars
<1>2. CASE ScanEnd \/ WorkerCancelled
  BY <1>2 DEF ScanEnd, WorkerCancelled, WorkAgain, CancelHit, userVars, kernVars
<1>3. CASE \E f \in Fds \cup {EventFd} : ScanSkip(f) \/ ScanRead(f)
  BY <1>3 DEF ScanSkip, ScanRead, pthVars, userVars, kernVars
<1>4. CASE \E t \in Timers : Expire(t)
  BY <1>4 DEF Expire, pthVars, userVars
<1>5. QED
  BY <1>1, <1>2, <1>3, <1>4 DEF WorkerStep

LEMMA LifeNext ==
  ASSUME TypeOK, LifeInv, [Next]_vars
  PROVE  LifeInv'
<1>1. ASSUME NEW u \in Users,
             UserStep(u) \/ \E f \in Fds : NewTimer(u, f) \/ DelCall(u, f)
      PROVE  LifeInv'
  BY <1>1, UserFrame DEF LifeInv
<1>2. CASE UNCHANGED vars
  BY <1>2 DEF vars, pthVars, LifeInv
<1>3. CASE WorkerStep \/ EpollInterrupted \/ \E t \in Timers : Expire(t)
  BY <1>3, WorkerFrame DEF LifeInv
<1>4. CASE Owner
  <2> USE DEF TypeOK, PthTypeOK, ThrStates, OwnStates, OwnIdle, OwnBase, LifeInv
  <2>1. clear' = clear /\ (own = "baseDtor" => ~clear)
    BY <1>4 DEF Owner
  <2>2. CASE StartCreate \/ StartFail \/ StartMark
    BY <2>1, <2>2 DEF StartCreate, StartFail, StartMark
  <2>3. CASE Stop \/ WaitEnd \/ DtorBegin
    BY <2>1, <2>3 DEF Stop, WaitEnd, DtorBegin
  <2>4. CASE PthreadCancel \/ BaseDtor
    BY <2>1, <2>4 DEF PthreadCancel, BaseDtor
  <2>5. CASE Join
    <3>1. thr' = "none" /\ m_pid' = "none" /\ UNCHANGED running
      BY <2>5 DEF Join, Joinable
    <3>2. CASE own = "join"
      BY <2>1, <2>5, <3>1, <3>2 DEF Join
    <3>3. CASE own \in {"dtorJoin", "baseJoin"}
      BY <2>1, <2>5, <3>1, <3>3 DEF Join
    <3>4. QED
      BY <2>5, <3>2, <3>3 DEF Join
  <2>6. QED
    BY <1>4, <2>2, <2>3, <2>4, <2>5 DEF Owner, OwnerCall, OwnerStep
<1>5. CASE OwnerWake
  BY <1>5 DEF OwnerWake, DtorWake, LifeInv, OwnIdle, OwnBase
<1>6. CASE DtorClear
  BY <1>6 DEF DtorClear, pthVars, LifeInv
<1>7. QED
  BY <1>1, <1>2, <1>3, <1>4, <1>5, <1>6 DEF Next, NewTimerFails

\* The mutex: AddRegister and DelClose wait for it, and so does the scan.
LEMMA LockNext ==
  ASSUME TypeOK, LifeInv, LockInv, [Next]_vars
  PROVE  LockInv'
<1> USE FTimerNames
<1>1. ASSUME NEW u \in Users, AddRegister(u) \/ AddArm(u) \/ DelClose(u) \/ DelErase(u)
      PROVE  LockInv'
  <2>1. UNCHANGED <<thr, wpc, own>> /\ upc \in [Users -> {"idle", "add", "arm", "del", "erase"}]
    BY <1>1 DEF AddRegister, AddArm, DelClose, DelErase, pthVars, workVars, TypeOK
  <2>2. Usable' = Usable
    BY <2>1 DEF Usable
  <2>3. \/ m_mutex = Free /\ m_mutex' = u /\ upc[u] \in {"add", "del"}
           /\ (upc' = [upc EXCEPT ![u] = "arm"] \/ upc' = [upc EXCEPT ![u] = "erase"])
        \/ m_mutex' = Free /\ upc[u] \in {"arm", "erase"} /\ upc' = [upc EXCEPT ![u] = "idle"]
    BY <1>1 DEF AddRegister, AddArm, DelClose, DelErase, DelMayEnter
  <2>4. QED
    BY <2>1, <2>2, <2>3 DEF LockInv, Free, Worker
<1>2. ASSUME NEW u \in Users, NEW f \in Fds, NewTimer(u, f) \/ DelCall(u, f)
      PROVE  LockInv'
  <2>1. /\ UNCHANGED <<thr, wpc, own, m_mutex>> /\ Usable /\ upc[u] = "idle"
        /\ upc' = [upc EXCEPT ![u] = "add"] \/ upc' = [upc EXCEPT ![u] = "del"]
        /\ upc \in [Users -> {"idle", "add", "arm", "del", "erase"}]
    BY <1>2 DEF NewTimer, DelCall, pthVars, workVars, TypeOK
  <2>2. Usable' = Usable
    BY <2>1 DEF Usable
  <2>3. QED
    BY <2>1, <2>2 DEF LockInv
<1>3. CASE WorkerEnter \/ WorkerLoop \/ EpollInterrupted \/ \E t \in Timers : Expire(t)
  BY <1>3 DEF WorkerEnter, WorkerLoop, EpollInterrupted, Expire, Enter, LoopTest,
              LockInv, Usable, pthVars, userVars, workVars
<1>4. CASE ScanLock \/ ScanEnd
  BY <1>4 DEF ScanLock, ScanEnd, WorkAgain, LockInv, Usable, Free, Worker,
              pthVars, userVars, workVars, TypeOK
<1>5. CASE CallbackReturns \/ WorkerCancelled
           \/ \E S \in SUBSET (Fds \cup {EventFd}) : EpollWait(S)
  BY <1>5 DEF CallbackReturns, WorkerCancelled, CancelHit, EpollWait, LockInv,
              Usable, pthVars, userVars, workVars
<1>6. CASE \E f \in Fds \cup {EventFd} : ScanSkip(f) \/ ScanRead(f)
  BY <1>6 DEF ScanSkip, ScanRead, LockInv, Usable, pthVars, userVars
<1>7. CASE Owner
  <2>1. UNCHANGED <<m_mutex, upc, wpc>> /\ (thr = "work" <=> thr' = "work")
    BY <1>7, OwnerLife DEF Owner, userVars, workVars
  <2>2. ~Usable' => \A u \in Users : upc[u] = "idle"
    <3>1. CASE own = OwnIdle
      BY <1>7, <3>1
         DEF Owner, OwnerCall, OwnerStep, StartCreate, StartFail, Stop, WaitEnd,
             DtorBegin, StartMark, PthreadCancel, Join, BaseDtor, Usable, OwnIdle, OwnBase
    <3>2. CASE own # OwnIdle
      BY <1>7, <3>2
         DEF Owner, OwnerCall, OwnerStep, StartCreate, StartFail, Stop, WaitEnd,
             DtorBegin, StartMark, PthreadCancel, Join, BaseDtor, Usable, OwnIdle,
             OwnBase, LockInv
    <3>3. QED
      BY <3>1, <3>2
  <2>3. QED
    BY <2>1, <2>2 DEF LockInv
<1>8. CASE OwnerWake \/ DtorClear
  BY <1>8 DEF OwnerWake, DtorWake, DtorClear, LockInv, Usable, OwnBase, pthVars,
              userVars, workVars
<1>9. CASE UNCHANGED vars
  BY <1>9 DEF vars, pthVars, userVars, workVars, LockInv, Usable
<1>10. QED
  BY <1>1, <1>2, <1>3, <1>4, <1>5, <1>6, <1>7, <1>8, <1>9
     DEF Next, UserStep, WorkerStep, NewTimerFails

-----------------------------------------------------------------------------
(* The descriptors.                                                        *)

\* A user calls add_event and delete_event of an object nobody destroys.
LEMMA UsableMapped == Usable => Mapped
BY DEF Usable, Mapped, OwnBase

\* timerfd_create gives a number that is closed, delete_event takes a handle,
\* and who moves on in a call keeps its number or gives it back.
LEMMA FdNext ==
  ASSUME TypeOK, LifeInv, LockInv, FdInv, MapInv, [Next]_vars
  PROVE  FdInv'
<1> USE DEF FdInv, At
<1>1. ASSUME NEW u \in Users, NEW f \in Fds, NewTimer(u, f)
      PROVE  FdInv'
  <2>1. f \notin handles
    BY <1>1, UsableMapped DEF NewTimer, MapInv, FdAgrees
  <2>2. /\ upc' = [upc EXCEPT ![u] = "add"] /\ ufd' = [ufd EXCEPT ![u] = f]
        /\ open' = [open EXCEPT ![f] = made + 1] /\ open[f] = None
        /\ handles' = handles /\ upc[u] = "idle" /\ made + 1 # None
    BY <1>1 DEF NewTimer, TypeOK, None
  <2>3. QED
    BY <2>1, <2>2 DEF TypeOK
<1>2. ASSUME NEW u \in Users, NEW f \in Fds, DelCall(u, f)
      PROVE  FdInv'
  <2>1. open[f] # None
    BY <1>2, UsableMapped DEF DelCall, MapInv, FdAgrees
  <2>2. /\ upc' = [upc EXCEPT ![u] = "del"] /\ ufd' = [ufd EXCEPT ![u] = f]
        /\ open' = open /\ f \in handles /\ handles' = handles \ {f} /\ upc[u] = "idle"
    BY <1>2 DEF DelCall, kernVars
  <2>3. QED
    BY <2>1, <2>2 DEF TypeOK
<1>3. ASSUME NEW u \in Users, AddRegister(u)
      PROVE  FdInv'
  <2>1. \A v \in Users : upc[v] \notin {"arm", "erase"}
    BY <1>3, FTimerNames DEF AddRegister, LockInv
  <2>2. /\ upc' = [upc EXCEPT ![u] = "arm"] /\ ufd' = ufd /\ open' = open
        /\ handles' = handles /\ upc[u] = "add"
    BY <1>3 DEF AddRegister
  <2>3. QED
    BY <2>1, <2>2 DEF TypeOK
<1>4. ASSUME NEW u \in Users, AddArm(u)
      PROVE  FdInv'
  <2>1. /\ upc' = [upc EXCEPT ![u] = "idle"] /\ ufd' = [ufd EXCEPT ![u] = EventFd]
        /\ open' = open /\ handles' = handles \cup {ufd[u]} /\ upc[u] = "arm"
    BY <1>4 DEF AddArm
  <2>2. \A v \in Users : v # u /\ upc[v] # "idle" => ufd[v] # ufd[u]
    <3>1. \A v \in Users : upc[v] = "erase" => v = u
      BY <1>4 DEF AddArm, LockInv
    <3>2. QED
      BY <2>1, <3>1 DEF TypeOK
  <2>3. QED
    BY <2>1, <2>2 DEF TypeOK
<1>5. ASSUME NEW u \in Users, DelClose(u)
      PROVE  FdInv'
  <2>1. \A v \in Users : upc[v] \notin {"arm", "erase"}
    BY <1>5, FTimerNames DEF DelClose, DelMayEnter, LockInv
  <2>2. /\ upc' = [upc EXCEPT ![u] = "erase"] /\ ufd' = ufd
        /\ open' = [open EXCEPT ![ufd[u]] = None]
        /\ handles' = handles /\ upc[u] = "del"
    BY <1>5 DEF DelClose
  <2>3. QED
    BY <2>1, <2>2 DEF TypeOK
<1>6. ASSUME NEW u \in Users, DelErase(u)
      PROVE  FdInv'
  BY <1>6 DEF DelErase, TypeOK, kernVars
<1>7. CASE WorkerStep \/ EpollInterrupted \/ \E t \in Timers : Expire(t)
  BY <1>7, WorkerFrame
<1>8. CASE Owner \/ OwnerWake
  BY <1>8 DEF Owner, OwnerWake, userVars, kernVars
<1>9. CASE DtorClear
  <2>1. \A u \in Users : upc[u] = "idle"
    BY <1>9 DEF DtorClear, LockInv, Usable, OwnBase
  <2>2. QED
    BY <1>9, <2>1 DEF DtorClear, userVars
<1>10. CASE UNCHANGED vars
  BY <1>10 DEF vars, userVars, kernVars
<1>11. QED
  BY <1>1, <1>2, <1>3, <1>4, <1>5, <1>6, <1>7, <1>8, <1>9, <1>10
     DEF Next, UserStep, NewTimerFails

-----------------------------------------------------------------------------
(* The map and the kernel.                                                 *)

\* add_event: the entry appears with the descriptor, or a left-over entry
\* under the same number is erased before the lock is free.
LEMMA AddMap ==
  ASSUME TypeOK, LockInv, FdInv, MapInv, Mapped, NEW u \in Users,
         AddRegister(u) \/ AddArm(u) \/ \E f \in Fds : NewTimer(u, f),
         NEW g \in Fds
  PROVE  FdAgrees(g)'
<1>0. FdAgrees(g)
  BY DEF MapInv
<1> USE <1>0 DEF FdAgrees, At
<1>1. ASSUME NEW f \in Fds, NewTimer(u, f) PROVE FdAgrees(g)'
  <2>1. /\ upc' = [upc EXCEPT ![u] = "add"] /\ ufd' = [ufd EXCEPT ![u] = f]
        /\ open' = [open EXCEPT ![f] = made + 1] /\ open[f] = None
        /\ UNCHANGED <<handles, poll_map>> /\ upc[u] = "idle" /\ made + 1 # None
    BY <1>1 DEF NewTimer, TypeOK, None
  <2>2. CASE g = f
    BY <2>1, <2>2 DEF TypeOK
  <2>3. CASE g # f
    BY <2>1, <2>3 DEF TypeOK
  <2>4. QED
    BY <2>2, <2>3
<1>2. CASE AddRegister(u)
  <2>1. \A v \in Users : upc[v] \notin {"arm", "erase"}
    BY <1>2, FTimerNames DEF AddRegister, LockInv
  <2>2. /\ upc' = [upc EXCEPT ![u] = "arm"] /\ UNCHANGED <<ufd, open, handles>>
        /\ upc[u] = "add" /\ ufd[u] \in Fds
        /\ poll_map' = IF poll_map[ufd[u]] = None
                         THEN [poll_map EXCEPT ![ufd[u]] = open[ufd[u]]]
                         ELSE poll_map
    BY <1>2 DEF AddRegister, FdInv
  <2>3. CASE g = ufd[u]
    BY <2>1, <2>2, <2>3 DEF TypeOK
  <2>4. CASE g # ufd[u]
    BY <2>1, <2>2, <2>4 DEF TypeOK
  <2>5. QED
    BY <2>3, <2>4
<1>3. CASE AddArm(u)
  <2>1. \A v \in Users : upc[v] \in {"arm", "erase"} => v = u
    BY <1>3 DEF AddArm, LockInv
  <2>2. /\ upc' = [upc EXCEPT ![u] = "idle"] /\ ufd' = [ufd EXCEPT ![u] = EventFd]
        /\ UNCHANGED <<open, poll_map>> /\ handles' = handles \cup {ufd[u]}
        /\ upc[u] = "arm"
    BY <1>3 DEF AddArm
  <2>3. ufd[u] \in Fds /\ open[ufd[u]] # None
    BY <2>2 DEF FdInv
  <2>4. QED
    BY <2>1, <2>2, <2>3 DEF TypeOK
<1>4. QED
  BY <1>1, <1>2, <1>3

\* delete_event: between close and erase the entry is left over, and the
\* number may be a new timer's whose add_event waits for the lock.
LEMMA DelMap ==
  ASSUME TypeOK, LockInv, FdInv, MapInv, Mapped, NEW u \in Users,
         DelClose(u) \/ DelErase(u) \/ \E f \in Fds : DelCall(u, f),
         NEW g \in Fds
  PROVE  FdAgrees(g)'
<1>0. FdAgrees(g)
  BY DEF MapInv
<1> USE <1>0 DEF FdAgrees, At
<1>1. ASSUME NEW f \in Fds, DelCall(u, f) PROVE FdAgrees(g)'
  <2>1. /\ upc' = [upc EXCEPT ![u] = "del"] /\ ufd' = [ufd EXCEPT ![u] = f]
        /\ UNCHANGED <<open, poll_map>> /\ handles' = handles \ {f} /\ upc[u] = "idle"
    BY <1>1 DEF DelCall, kernVars
  <2>2. QED
    BY <2>1 DEF TypeOK
<1>2. CASE DelClose(u)
  <2>1. /\ upc' = [upc EXCEPT ![u] = "erase"] /\ UNCHANGED <<ufd, poll_map, handles>>
        /\ open' = [open EXCEPT ![ufd[u]] = None] /\ upc[u] = "del"
    BY <1>2 DEF DelClose
  <2>2. ufd[u] \in Fds \ handles
    BY <2>1 DEF FdInv
  <2>3. CASE g = ufd[u]
    BY <2>1, <2>2, <2>3 DEF TypeOK
  <2>4. CASE g # ufd[u]
    BY <2>1, <2>2, <2>4 DEF TypeOK
  <2>5. QED
    BY <2>3, <2>4
<1>3. CASE DelErase(u)
  <2>1. \A v \in Users : upc[v] = "erase" => v = u
    BY <1>3 DEF DelErase, LockInv
  <2>2. /\ upc' = [upc EXCEPT ![u] = "idle"] /\ ufd' = [ufd EXCEPT ![u] = EventFd]
        /\ UNCHANGED <<open, handles>> /\ poll_map' = [poll_map EXCEPT ![ufd[u]] = None]
        /\ upc[u] = "erase"
    BY <1>3 DEF DelErase, Erased, kernVars
  <2>3. ufd[u] \in Fds \ handles
    BY <2>2 DEF FdInv
  <2>4. CASE g = ufd[u]
    BY <2>1, <2>2, <2>3, <2>4 DEF TypeOK
  <2>5. CASE g # ufd[u]
    BY <2>1, <2>2, <2>3, <2>5 DEF TypeOK
  <2>6. QED
    BY <2>4, <2>5
<1>4. QED
  BY <1>1, <1>2, <1>3

LEMMA MapNext ==
  ASSUME TypeOK, LifeInv, LockInv, FdInv, MapInv, [Next]_vars
  PROVE  MapInv'
<1>1. ASSUME NEW u \in Users,
             UserStep(u) \/ \E f \in Fds : NewTimer(u, f) \/ DelCall(u, f)
      PROVE  MapInv'
  <2>1. Mapped' = Mapped
    BY <1>1, UserFrame DEF Mapped
  <2>2. ASSUME Mapped', NEW g \in Fds PROVE FdAgrees(g)'
    BY <1>1, <2>1, <2>2, AddMap, DelMap DEF UserStep
  <2>3. QED
    BY <2>2 DEF MapInv
<1>2. CASE WorkerStep \/ EpollInterrupted \/ \E t \in Timers : Expire(t)
  BY <1>2, WorkerFrame DEF MapInv, Mapped, FdAgrees, At
<1>3. CASE Owner \/ OwnerWake
  <2>1. UNCHANGED <<poll_map, upc, ufd, handles, open>>
    BY <1>3 DEF Owner, OwnerWake, userVars, kernVars
  <2>2. Mapped' => Mapped
    <3>1. CASE Owner
      BY <3>1
         DEF Owner, OwnerCall, OwnerStep, StartCreate, StartFail, Stop, WaitEnd,
             DtorBegin, StartMark, PthreadCancel, Join, BaseDtor, OwnIdle, Mapped
    <3>2. CASE OwnerWake
      BY <3>2 DEF OwnerWake, DtorWake, Mapped
    <3>3. QED
      BY <1>3, <3>1, <3>2
  <2>3. QED
    BY <2>1, <2>2 DEF MapInv, FdAgrees, At
<1>4. CASE DtorClear
  <2>1. ~Mapped'
    BY <1>4 DEF DtorClear, pthVars, LifeInv, Mapped
  <2>2. QED
    BY <2>1 DEF MapInv
<1>5. CASE UNCHANGED vars
  BY <1>5 DEF vars, pthVars, userVars, kernVars, MapInv, Mapped, FdAgrees, At
<1>6. QED
  BY <1>1, <1>2, <1>3, <1>4, <1>5 DEF Next, NewTimerFails

-----------------------------------------------------------------------------
(* The callback.                                                           *)

\* What the read under the lock finds is still the timer in the map: nobody
\* is between close and erase, whatever happened since epoll_wait.
LEMMA ReadIsOfMapped ==
  ASSUME TypeOK, LifeInv, LockInv, MapInv, NEW f \in Fds \cup {EventFd}, ScanRead(f)
  PROVE  f \in Fds /\ open[f] = poll_map[f] /\ poll_map[f] \in Timers /\ expired[poll_map[f]]
<1>1. m_mutex = Worker /\ thr = "work" /\ f \in Fds /\ poll_map[f] # None
      /\ expired[open[f]]
  BY DEF ScanRead, InMap, ReadOk, LockInv
<1>2. \A u \in Users : upc[u] # "erase"
  BY <1>1, FTimerNames DEF LockInv
<1>3. Mapped
  BY <1>1 DEF LifeInv, Mapped, OwnBase
<1>4. open[f] = poll_map[f]
  BY <1>1, <1>2, <1>3 DEF MapInv, FdAgrees, At
<1>5. QED
  BY <1>1, <1>4 DEF TypeOK

\* delete_event waits for the lock that the worker holds over the callback.
LEMMA CallNext ==
  ASSUME TypeOK, LifeInv, LockInv, FdInv, MapInv, CallInv, [Next]_vars
  PROVE  CallInv'
<1>1. ASSUME NEW u \in Users,
             UserStep(u) \/ \E f \in Fds : NewTimer(u, f) \/ DelCall(u, f)
      PROVE  CallInv'
  <2>1. UNCHANGED <<wpc, thr, cur>>
    BY <1>1, UserFrame
  <2>2. ASSUME wpc = "call"
        PROVE  \A g \in Fds : open[g] = cur /\ poll_map[g] = cur
                                => open'[g] = cur /\ poll_map'[g] = cur
    <3>1. m_mutex = Worker /\ cur # None
      BY <2>2 DEF LockInv, CallInv
    <3>2. ~UserStep(u)
      BY <3>1, FTimerNames
         DEF UserStep, AddRegister, AddArm, DelClose, DelErase, DelMayEnter,
             LockInv, Free, Worker
    <3>3. CASE \E f \in Fds : NewTimer(u, f)
      BY <3>1, <3>3 DEF NewTimer, TypeOK
    <3>4. CASE \E f \in Fds : DelCall(u, f)
      BY <3>4 DEF DelCall, kernVars
    <3>5. QED
      BY <1>1, <3>2, <3>3, <3>4
  <2>3. QED
    BY <2>1, <2>2 DEF CallInv, CallbackOfLiveTimer, LockInv
<1>2. ASSUME NEW f \in Fds \cup {EventFd}, ScanRead(f)
      PROVE  CallInv'
  <2>1. cur' = poll_map[f] /\ open' = open /\ poll_map' = poll_map
    BY <1>2 DEF ScanRead
  <2>2. f \in Fds /\ open'[f] = cur' /\ poll_map'[f] = cur' /\ cur' # None
    BY <1>2, <2>1, ReadIsOfMapped DEF Timers, None
  <2>3. QED
    BY <2>2 DEF CallInv, CallbackOfLiveTimer
<1>3. CASE WorkerEnter \/ WorkerLoop \/ ScanLock \/ CallbackReturns \/ ScanEnd
           \/ WorkerCancelled \/ EpollInterrupted
  <2>1. wpc' # "call"
    BY <1>3 DEF WorkerEnter, WorkerLoop, Enter, LoopTest, ScanLock, CallbackReturns,
                ScanEnd, WorkerCancelled, EpollInterrupted, workVars, LockInv
  <2>2. QED
    BY <2>1 DEF CallInv
<1>4. CASE \/ \E t \in Timers : Expire(t)
           \/ \E f \in Fds \cup {EventFd} : ScanSkip(f)
           \/ \E S \in SUBSET (Fds \cup {EventFd}) : EpollWait(S)
  <2>1. UNCHANGED <<thr, cur, open, poll_map>> /\ (wpc' = wpc \/ wpc' = "lock")
    BY <1>4 DEF Expire, ScanSkip, EpollWait, pthVars, workVars, kernVars
  <2>2. QED
    BY <2>1 DEF CallInv, CallbackOfLiveTimer
<1>5. CASE Owner \/ OwnerWake
  <2>1. UNCHANGED <<wpc, cur, open, poll_map>> /\ (thr = "work" <=> thr' = "work")
    BY <1>5, OwnerLife DEF Owner, OwnerWake, workVars, kernVars
  <2>2. QED
    BY <2>1 DEF CallInv, CallbackOfLiveTimer
<1>6. CASE DtorClear
  <2>1. wpc' # "call"
    BY <1>6 DEF DtorClear, workVars, LifeInv, LockInv
  <2>2. QED
    BY <2>1 DEF CallInv
<1>7. CASE UNCHANGED vars
  BY <1>7 DEF vars, pthVars, workVars, kernVars, CallInv, CallbackOfLiveTimer
<1>8. QED
  BY <1>1, <1>2, <1>3, <1>4, <1>5, <1>6, <1>7
     DEF Next, WorkerStep, NewTimerFails

-----------------------------------------------------------------------------
(* The theorems.                                                           *)

LEMMA NextIInv == IInv /\ [Next]_vars => IInv'
<1> SUFFICES ASSUME IInv, [Next]_vars PROVE IInv'
  OBVIOUS
<1> USE DEF IInv
<1>1. TypeOK'
  <2>1. CASE WorkerStep \/ EpollInterrupted \/ \E t \in Timers : Expire(t)
    BY <2>1, WorkerTypes
  <2>2. ASSUME NEW u \in Users, NEW f \in Fds,
               UserStep(u) \/ NewTimer(u, f) \/ DelCall(u, f)
        PROVE  TypeOK'
    BY <2>2, UserTypes
  <2>3. CASE Owner \/ OwnerWake \/ DtorClear
    BY <2>3, OwnerTypes
  <2>4. CASE UNCHANGED vars
    BY <2>4 DEF vars, pthVars, userVars, kernVars, workVars, TypeOK, PthTypeOK
  <2>5. \A u \in Users : UserStep(u) => ufd[u] \in Fds
    BY DEF UserStep, AddRegister, AddArm, DelClose, DelErase, FdInv
  <2>6. QED
    BY <2>1, <2>2, <2>3, <2>4, <2>5 DEF Next, NewTimerFails
<1>2. QED
  BY <1>1, LifeNext, LockNext, FdNext, MapNext, CallNext

\* The inductive invariant holds in every reachable state.
THEOREM Inductive == Spec => []IInv
<1>1. QED
  BY InitIInv, NextIInv, PTL DEF Spec

\* Between the critical sections the map and the kernel agree on every
\* descriptor, however often its number was closed and opened again, and a
\* running callback's timer is open and in the map.
THEOREM MapStaysAgreed == Spec => []MapAgrees
<1>1. IInv => MapAgrees
  <2> SUFFICES ASSUME IInv PROVE MapAgrees
    OBVIOUS
  <2> USE DEF IInv
  <2>1. CallbackOfLiveTimer
    BY DEF CallInv, CallbackOfLiveTimer
  <2>2. ASSUME m_mutex \notin Users, own # "dead", own # "baseDtor" \/ clear, NEW f \in Fds
        PROVE  \/ open[f] = poll_map[f]
               \/ poll_map[f] = None /\ \E u \in Users : upc[u] = "add" /\ ufd[u] = f
    <3>1. Mapped /\ \A u \in Users : upc[u] # "erase"
      BY <2>2 DEF Mapped, LockInv
    <3>2. QED
      BY <3>1 DEF MapInv, FdAgrees, At
  <2>3. QED
    BY <2>1, <2>2 DEF MapAgrees
<1>2. QED
  BY <1>1, Inductive, PTL

\* A callback starts only for a timer that has expired since its last one,
\* whatever became of the descriptor between epoll_wait and the lock.
THEOREM CallbackOnlyWhenDue == Spec => CallbackIsDue
<1>1. IInv /\ [Next]_vars
        => [wpc # "call" /\ wpc' = "call" => cur' \in Timers /\ expired[cur']]_vars
  <2> SUFFICES ASSUME IInv, [Next]_vars, wpc # "call", wpc' = "call"
               PROVE  cur' \in Timers /\ expired[cur']
    OBVIOUS
  <2> USE DEF IInv
  <2>1. PICK f \in Fds \cup {EventFd} : ScanRead(f)
    <3>1. Next
      BY DEF vars, workVars
    <3>2. ~Owner /\ ~OwnerWake /\ ~DtorClear /\ \A t \in Timers : ~Expire(t)
      BY DEF Owner, OwnerWake, DtorClear, Expire, workVars
    <3>3. \A u \in Users : ~UserStep(u) /\ ~NewTimerFails(u)
                           /\ \A f \in Fds : ~NewTimer(u, f) /\ ~DelCall(u, f)
      BY DEF UserStep, AddRegister, AddArm, DelClose, DelErase, NewTimerFails,
             NewTimer, DelCall, workVars, vars
    <3>4. ~WorkerEnter /\ ~WorkerLoop /\ ~ScanLock /\ ~CallbackReturns /\ ~ScanEnd
          /\ ~WorkerCancelled /\ ~EpollInterrupted
      BY DEF WorkerEnter, WorkerLoop, ScanLock, CallbackReturns, ScanEnd,
             WorkerCancelled, EpollInterrupted, workVars
    <3>5. /\ \A f \in Fds \cup {EventFd} : ~ScanSkip(f)
          /\ \A S \in SUBSET (Fds \cup {EventFd}) : ~EpollWait(S)
      BY DEF ScanSkip, EpollWait
    <3>6. QED
      BY <3>1, <3>2, <3>3, <3>4, <3>5 DEF Next, WorkerStep
  <2>2. QED
    BY <2>1, ReadIsOfMapped DEF ScanRead
<1>2. QED
  BY <1>1, Inductive, PTL DEF Spec, CallbackIsDue

=============================================================================
