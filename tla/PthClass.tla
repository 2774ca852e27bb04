------------------------------ MODULE PthClass ------------------------------
(***************************************************************************)
(* The life cycle of Pth_Class (epoll/pthclass.h, epoll/pthclass.cpp): an  *)
(* owner thread that calls start(), stop(), waitEnd() and the destructor,  *)
(* and the worker thread that executes the virtual run().  Every run() of  *)
(* the library has the shape  while(this->running) { work } , so the loop  *)
(* test is here and the body "work" belongs to the module that EXTENDS     *)
(* this one.  So does the wake-up every derived destructor sends between   *)
(* clearing running and joining (sem_post, release, msgctl, eventfd).      *)
(*                                                                         *)
(* One owner thread is assumed: m_pid is a plain field that the code never *)
(* protects, and every caller in the library drives it from one thread.    *)
(***************************************************************************)
EXTENDS Naturals

CONSTANT MaxStarts    \* bound: how often the owner calls pthread_create

ASSUME PthAssumption == MaxStarts \in Nat

VARIABLES
  m_pid,      \* 0 is "none"; "stale" is what a failed pthread_create left
  running,    \* the atomic flag, 0 or 1
  thr,        \* where the worker is in start_thread and run()
  cancel,     \* a pthread_cancel is pending for the worker
  own,        \* where the owner is in the call it is executing
  starts      \* number of pthread_create calls (bound only)

pthVars == <<m_pid, running, thr, cancel, own, starts>>

PidValues  == {"none", "live", "stale"}
ThrStates  == {"none", "born", "test", "work", "gone"}
OwnIdle    == "idle"
OwnBase    == {"baseDtor", "baseCancel", "baseJoin"}
OwnStates  == {OwnIdle, "created", "cancel", "join",
               "dtorWake", "dtorJoin", "dead"} \cup OwnBase

PthTypeOK ==
  /\ m_pid \in PidValues
  /\ running \in {0, 1}
  /\ thr \in ThrStates
  /\ cancel \in BOOLEAN
  /\ own \in OwnStates
  /\ starts \in Nat

PthInit ==
  /\ m_pid = "none" /\ running = 0 /\ thr = "none"
  /\ cancel = FALSE /\ own = OwnIdle /\ starts = 0

-----------------------------------------------------------------------------
(* start(): pthread_create, and only then running = 1.                     *)

StartCreate ==
  /\ own = OwnIdle /\ m_pid = "none" /\ starts < MaxStarts
  /\ m_pid' = "live" /\ thr' = "born" /\ cancel' = FALSE
  /\ own' = "created" /\ starts' = starts + 1
  /\ UNCHANGED running

\* A failed pthread_create leaves *thread undefined: 0 as before, or a value.
StartFail ==
  /\ own = OwnIdle /\ m_pid = "none" /\ starts < MaxStarts
  /\ m_pid' \in {"none", "stale"} /\ starts' = starts + 1
  /\ UNCHANGED <<running, thr, cancel, own>>

StartMark ==
  /\ own = "created" /\ running' = 1 /\ own' = OwnIdle
  /\ UNCHANGED <<m_pid, thr, cancel, starts>>

-----------------------------------------------------------------------------
(* stop(), waitEnd(): both only act when m_pid > 0.                        *)

Stop ==
  /\ own = OwnIdle /\ m_pid # "none"
  /\ running' = 0 /\ own' = "cancel"
  /\ UNCHANGED <<m_pid, thr, cancel, starts>>

WaitEnd ==
  /\ own = OwnIdle /\ m_pid # "none"
  /\ running' = 0 /\ own' = "join"
  /\ UNCHANGED <<m_pid, thr, cancel, starts>>

\* pthread_cancel marks a live worker; on a stale id it only fails.
PthreadCancel ==
  /\ own \in {"cancel", "baseCancel"}
  /\ cancel' = (cancel \/ m_pid = "live")
  /\ own' = IF own = "cancel" THEN "join" ELSE "baseJoin"
  /\ UNCHANGED <<m_pid, running, thr, starts>>

\* Mutant of Joinable: pthread_detach instead of pthread_join.
Joinable_detached == TRUE

\* pthread_join returns when the worker has ended, at once on a stale id.
Joinable == m_pid = "live" => thr = "gone"

\* The join that ends stop(), waitEnd() and both destructors; m_pid = 0.
Join ==
  /\ own \in {"join", "dtorJoin", "baseJoin"} /\ Joinable
  /\ m_pid' = "none"
  /\ thr' = IF thr = "gone" THEN "none" ELSE thr
  /\ own' = CASE own = "join"     -> OwnIdle
              [] own = "dtorJoin" -> "baseDtor"
              [] own = "baseJoin" -> "dead"
  /\ UNCHANGED <<running, cancel, starts>>

-----------------------------------------------------------------------------
(* Destruction: the derived destructor, then ~Pth_Class.                   *)

DtorBegin ==
  /\ own = OwnIdle
  /\ running' = 0
  /\ own' = IF running = 1 THEN "dtorWake" ELSE "baseDtor"
  /\ UNCHANGED <<m_pid, thr, cancel, starts>>

\* The wake-up; the module that composes this one adds what it wakes with.
DtorWake ==
  /\ own = "dtorWake"
  /\ own' = IF m_pid = "none" THEN "baseDtor" ELSE "dtorJoin"
  /\ UNCHANGED <<m_pid, running, thr, cancel, starts>>

BaseDtor ==
  /\ own = "baseDtor"
  /\ IF m_pid = "none" THEN own' = "dead" /\ UNCHANGED running
                       ELSE own' = "baseCancel" /\ running' = 0
  /\ UNCHANGED <<m_pid, thr, cancel, starts>>

-----------------------------------------------------------------------------
(* The worker: start_thread, the loop test of run(), its end.              *)

Enter ==
  /\ thr = "born" /\ thr' = "test"
  /\ UNCHANGED <<m_pid, running, cancel, own, starts>>

LoopTest ==
  /\ thr = "test"
  /\ thr' = IF running = 1 THEN "work" ELSE "gone"
  /\ UNCHANGED <<m_pid, running, cancel, own, starts>>

WorkAgain ==
  /\ thr = "work" /\ thr' = "test"
  /\ UNCHANGED <<m_pid, running, cancel, own, starts>>

\* Cancellation is deferred: it takes effect at a cancellation point, the
\* logging calls of start_thread or a blocking call of the body.
CancelHit ==
  /\ cancel /\ thr \in {"born", "work"}
  /\ thr' = "gone"
  /\ UNCHANGED <<m_pid, running, cancel, own, starts>>

OwnerCall == StartCreate \/ StartFail \/ Stop \/ WaitEnd \/ DtorBegin
OwnerStep == StartMark \/ PthreadCancel \/ Join \/ BaseDtor

=============================================================================
