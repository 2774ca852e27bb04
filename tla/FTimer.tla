------------------------------- MODULE FTimer -------------------------------
(***************************************************************************)
(* F_Timer (timer/timers.h) on z_poll (epoll/e_poll.cpp): threads add and  *)
(* delete timers, each a timerfd, while a worker (PthClass) waits in       *)
(* epoll_wait and runs the callbacks under the mutex.  epoll_wait is       *)
(* called without the mutex, so what it reported may be deleted, and the   *)
(* number of the descriptor given to another timer, before it is handled.  *)
(*                                                                         *)
(* The kernel's part (descriptors, timerfd, epoll, eventfd) is modelled    *)
(* from its use.  Users keep the contract of the class: a handle is        *)
(* deleted once, a callback calls neither add_event nor delete_event (the  *)
(* mutex is not recursive), nobody is inside a call at destruction.        *)
(***************************************************************************)
EXTENDS PthClass, FiniteSets

CONSTANTS
  Users,      \* the threads that call add_event and delete_event
  Fds,        \* descriptors the process has left for timers
  m_epSize,   \* how many events one epoll_wait may report
  MaxTimers   \* bound: how many timers are created

ASSUME FTimerAssumption ==
  m_epSize \in Nat \ {0} /\ MaxTimers \in Nat /\ IsFiniteSet(Fds)

Free    == "free"
Worker  == "worker"
EventFd == "m_eventFd"
None    == 0

ASSUME FTimerNames == Free \notin Users /\ Worker \notin Users /\ EventFd \notin Fds

Timers == 1 .. MaxTimers     \* the TimerEvent objects, in order of creation

VARIABLES
  poll_map,   \* descriptor -> the TimerEvent the map holds for it
  m_mutex,    \* who holds MUTEX_CLASS
  upc,        \* per user: where it is in add_event or delete_event
  ufd,        \* per user: the descriptor it is working on
  handles,    \* what add_event returned and nobody has deleted yet
  made,       \* number of TimerEvent objects created
  open,       \* kernel: descriptor -> the timer it refers to
  interest,   \* kernel: the descriptors epoll watches
  armed,      \* kernel: per timer "off", "once" or "repeat"
  expired,    \* kernel: per timer, there is an expiration to read
  eventfd,    \* kernel: stopPoll has written to m_eventFd
  wpc,        \* where the worker is in the body of its loop
  evs,        \* the events it still has to handle
  cur,        \* the timer whose callback it runs
  clear       \* the destructor still has to empty poll_map

kernVars == <<open, interest, armed, expired, eventfd>>
userVars == <<upc, ufd, handles, made>>
workVars == <<wpc, evs, cur>>
vars == <<pthVars, poll_map, m_mutex, userVars, kernVars, workVars, clear>>

Init ==
  /\ PthInit
  /\ poll_map = [f \in Fds |-> None] /\ m_mutex = Free
  /\ upc = [u \in Users |-> "idle"] /\ ufd = [u \in Users |-> EventFd]
  /\ handles = {} /\ made = 0
  /\ open = [f \in Fds |-> None] /\ interest = {}
  /\ armed = [t \in Timers |-> "off"] /\ expired = [t \in Timers |-> FALSE]
  /\ eventfd = FALSE
  /\ wpc = "wait" /\ evs = {} /\ cur = None /\ clear = FALSE

-----------------------------------------------------------------------------
(* add_event: the constructor takes a descriptor before the lock; under it *)
(* epoll, the map and the timer are set up.                                *)

Usable == own \notin {"dtorWake", "dtorJoin", "dead"} \cup OwnBase

NewTimer(u, f) ==
  /\ Usable /\ upc[u] = "idle" /\ made < MaxTimers /\ open[f] = None
  /\ made' = made + 1
  /\ open' = [open EXCEPT ![f] = made + 1]
  /\ upc' = [upc EXCEPT ![u] = "add"] /\ ufd' = [ufd EXCEPT ![u] = f]
  /\ UNCHANGED <<pthVars, poll_map, m_mutex, handles, interest, armed,
                 expired, eventfd, workVars, clear>>

\* timerfd_create fails: add_event returns -1, the object is not kept.
NewTimerFails(u) ==
  /\ Usable /\ upc[u] = "idle" /\ \A f \in Fds : open[f] # None
  /\ UNCHANGED vars

\* Mutant of Watched: the descriptor is not given to epoll.
Watched_forgotten(f) == interest

Watched(f) == interest \cup {f}

\* std::map::insert keeps an entry that is there already.
AddRegister(u) ==
  /\ upc[u] = "add" /\ m_mutex = Free
  /\ m_mutex' = u /\ upc' = [upc EXCEPT ![u] = "arm"]
  /\ interest' = Watched(ufd[u])
  /\ poll_map' = IF poll_map[ufd[u]] = None
                   THEN [poll_map EXCEPT ![ufd[u]] = open[ufd[u]]]
                   ELSE poll_map
  /\ UNCHANGED <<pthVars, ufd, handles, made, open, armed, expired, eventfd,
                 workVars, clear>>

AddArm(u) ==
  /\ upc[u] = "arm"
  /\ \E kind \in {"once", "repeat"} :
       armed' = [armed EXCEPT ![open[ufd[u]]] = kind]
  /\ m_mutex' = Free /\ upc' = [upc EXCEPT ![u] = "idle"]
  /\ handles' = handles \cup {ufd[u]} /\ ufd' = [ufd EXCEPT ![u] = EventFd]
  /\ UNCHANGED <<pthVars, poll_map, made, open, interest, expired, eventfd,
                 workVars, clear>>

-----------------------------------------------------------------------------
(* delete_event: under the lock out of epoll, close, out of the map.       *)

DelCall(u, f) ==
  /\ Usable /\ upc[u] = "idle" /\ f \in handles
  /\ handles' = handles \ {f}
  /\ upc' = [upc EXCEPT ![u] = "del"] /\ ufd' = [ufd EXCEPT ![u] = f]
  /\ UNCHANGED <<pthVars, poll_map, m_mutex, made, kernVars, workVars, clear>>

DelMayEnter == m_mutex = Free

\* From close on the number is free for any thread's next timerfd_create.
DelClose(u) ==
  /\ upc[u] = "del" /\ DelMayEnter
  /\ m_mutex' = u /\ upc' = [upc EXCEPT ![u] = "erase"]
  /\ interest' = interest \ {ufd[u]}
  /\ armed' = [armed EXCEPT ![open[ufd[u]]] = "off"]
  /\ expired' = [expired EXCEPT ![open[ufd[u]]] = FALSE]
  /\ open' = [open EXCEPT ![ufd[u]] = None]
  /\ UNCHANGED <<pthVars, poll_map, ufd, handles, made, eventfd, workVars, clear>>

\* Mutant of Erased: the entry stays in the map.
Erased_kept(f) == poll_map

Erased(f) == [poll_map EXCEPT ![f] = None]

DelErase(u) ==
  /\ upc[u] = "erase"
  /\ poll_map' = Erased(ufd[u])
  /\ m_mutex' = Free /\ upc' = [upc EXCEPT ![u] = "idle"]
  /\ ufd' = [ufd EXCEPT ![u] = EventFd]
  /\ UNCHANGED <<pthVars, handles, made, kernVars, workVars, clear>>

-----------------------------------------------------------------------------
(* The kernel's clock.                                                     *)

Expire(t) ==
  /\ armed[t] # "off" /\ ~expired[t]
  /\ expired' = [expired EXCEPT ![t] = TRUE]
  /\ armed' = [armed EXCEPT ![t] = IF @ = "once" THEN "off" ELSE @]
  /\ UNCHANGED <<pthVars, poll_map, m_mutex, userVars, open, interest, eventfd,
                 workVars, clear>>

-----------------------------------------------------------------------------
(* F_Timer::run.                                                           *)

WorkerEnter ==
  /\ Enter
  /\ UNCHANGED <<poll_map, m_mutex, userVars, kernVars, workVars, clear>>

WorkerLoop ==
  /\ LoopTest
  /\ UNCHANGED <<poll_map, m_mutex, userVars, kernVars, workVars, clear>>

\* Level-triggered: a descriptor is ready as long as there is something to
\* read.  Nobody reads m_eventFd, which stays ready once written.
Ready == {f \in interest : open[f] # None /\ expired[open[f]]}
           \cup (IF eventfd THEN {EventFd} ELSE {})

MaxReport == m_epSize

EpollWait(S) ==
  /\ thr = "work" /\ wpc = "wait"
  /\ S # {} /\ S \subseteq Ready /\ Cardinality(S) <= MaxReport
  /\ Cardinality(S) < MaxReport => S = Ready
  /\ evs' = S /\ wpc' = "lock"
  /\ UNCHANGED <<pthVars, poll_map, m_mutex, userVars, kernVars, cur, clear>>

\* epoll_wait returns -1 on a signal: the lock is taken for no event.
EpollInterrupted ==
  /\ thr = "work" /\ wpc = "wait"
  /\ wpc' = "lock"
  /\ UNCHANGED <<pthVars, poll_map, m_mutex, userVars, kernVars, evs, cur, clear>>

ScanLock ==
  /\ thr = "work" /\ wpc = "lock" /\ m_mutex = Free
  /\ m_mutex' = Worker /\ wpc' = "scan"
  /\ UNCHANGED <<pthVars, poll_map, userVars, kernVars, evs, cur, clear>>

\* Mutant of ReadOk: the length of the read is not looked at.
ReadOk_ignored(f) == open[f] # None

\* read() == sizeof(uint64_t): the timer behind f has an expiration.
ReadOk(f) == open[f] # None /\ expired[open[f]]

InMap(f) == f \in Fds /\ poll_map[f] # None

ScanSkip(f) ==
  /\ thr = "work" /\ wpc = "scan" /\ f \in evs
  /\ ~(InMap(f) /\ ReadOk(f))
  /\ evs' = evs \ {f}
  /\ UNCHANGED <<pthVars, poll_map, m_mutex, userVars, kernVars, wpc, cur, clear>>

ScanRead(f) ==
  /\ thr = "work" /\ wpc = "scan" /\ f \in evs
  /\ InMap(f) /\ ReadOk(f)
  /\ evs' = evs \ {f}
  /\ expired' = [expired EXCEPT ![open[f]] = FALSE]
  /\ cur' = poll_map[f] /\ wpc' = "call"
  /\ UNCHANGED <<pthVars, poll_map, m_mutex, userVars, open, interest, armed,
                 eventfd, clear>>

CallbackReturns ==
  /\ thr = "work" /\ wpc = "call"
  /\ wpc' = "scan" /\ cur' = None
  /\ UNCHANGED <<pthVars, poll_map, m_mutex, userVars, kernVars, evs, clear>>

ScanEnd ==
  /\ wpc = "scan" /\ evs = {} /\ WorkAgain
  /\ m_mutex' = Free /\ wpc' = "wait"
  /\ UNCHANGED <<poll_map, userVars, kernVars, evs, cur, clear>>

\* epoll_wait, read and what the callback calls are cancellation points; the
\* mutex, taken with a plain lock(), stays with the cancelled thread.
WorkerCancelled ==
  /\ CancelHit /\ (thr = "work" => wpc # "lock")
  /\ wpc' = "wait" /\ evs' = {} /\ cur' = None
  /\ UNCHANGED <<poll_map, m_mutex, userVars, kernVars, clear>>

-----------------------------------------------------------------------------
(* The owner and the destructor.                                           *)

Owner ==
  /\ OwnerCall \/ OwnerStep
  /\ own = OwnIdle /\ own' \in {"dtorWake", "baseDtor"}
       => \A u \in Users : upc[u] = "idle"
  /\ own = "baseDtor" => ~clear
  /\ UNCHANGED <<poll_map, m_mutex, userVars, kernVars, workVars, clear>>

\* Mutant of Stopped: stopPoll is not called before waitEnd().
Stopped_notPolled == eventfd

Stopped == TRUE

\* ~F_Timer: stopPoll between running = 0 and waitEnd().
OwnerWake ==
  /\ DtorWake
  /\ eventfd' = Stopped /\ clear' = TRUE
  /\ UNCHANGED <<poll_map, m_mutex, userVars, open, interest, armed, expired,
                 workVars>>

\* ~F_Timer after the join: lock, every timer out of epoll and closed, unlock.
DtorClear ==
  /\ own = "baseDtor" /\ clear /\ m_mutex = Free
  /\ interest' = {f \in interest : poll_map[f] = None}
  /\ open' = [f \in Fds |-> IF poll_map[f] = None THEN open[f] ELSE None]
  /\ armed' = [t \in Timers |-> "off"]
  /\ expired' = [t \in Timers |-> FALSE]
  /\ clear' = FALSE
  /\ UNCHANGED <<pthVars, poll_map, m_mutex, userVars, eventfd, workVars>>

WorkerStep == \/ WorkerEnter \/ WorkerLoop \/ ScanLock \/ CallbackReturns
              \/ ScanEnd \/ WorkerCancelled
              \/ \E f \in Fds \cup {EventFd} : ScanSkip(f) \/ ScanRead(f)
              \/ \E S \in SUBSET (Fds \cup {EventFd}) : EpollWait(S)

UserStep(u) == AddRegister(u) \/ AddArm(u) \/ DelClose(u) \/ DelErase(u)

Next ==
  \/ Owner \/ OwnerWake \/ DtorClear
  \/ \E u \in Users : \/ UserStep(u) \/ NewTimerFails(u)
                      \/ \E f \in Fds : NewTimer(u, f) \/ DelCall(u, f)
  \/ \E t \in Timers : Expire(t)
  \/ WorkerStep \/ EpollInterrupted

Reports(f) == \E S \in SUBSET (Fds \cup {EventFd}) : f \in S /\ EpollWait(S)

\* Threads that can run do run.  epoll moves what it reported to the tail of
\* its ready list: a descriptor that keeps being ready is reported.
Fairness ==
  /\ WF_vars(WorkerStep)
  /\ WF_vars((OwnerStep /\ Owner) \/ OwnerWake \/ DtorClear)
  /\ \A u \in Users : WF_vars(UserStep(u))
  /\ \A f \in Fds : SF_vars(Reports(f))

Spec == Init /\ [][Next]_vars /\ Fairness

-----------------------------------------------------------------------------
(* Properties.                                                             *)

TypeOK ==
  /\ PthTypeOK
  /\ poll_map \in [Fds -> Timers \cup {None}]
  /\ m_mutex \in Users \cup {Free, Worker}
  /\ upc \in [Users -> {"idle", "add", "arm", "del", "erase"}]
  /\ ufd \in [Users -> Fds \cup {EventFd}]
  /\ handles \subseteq Fds /\ made \in 0 .. MaxTimers
  /\ open \in [Fds -> Timers \cup {None}]
  /\ interest \subseteq Fds
  /\ armed \in [Timers -> {"off", "once", "repeat"}]
  /\ expired \in [Timers -> BOOLEAN] /\ eventfd \in BOOLEAN
  /\ wpc \in {"wait", "lock", "scan", "call"}
  /\ evs \subseteq Fds \cup {EventFd} /\ Cardinality(evs) <= m_epSize
  /\ cur \in Timers \cup {None} /\ clear \in BOOLEAN

\* A callback runs only while its timer is open and in the map: delete_event
\* does not return, nor close the descriptor, under a running callback.
CallbackOfLiveTimer ==
  wpc = "call" /\ thr = "work" =>
    \E f \in Fds : open[f] = cur /\ poll_map[f] = cur

\* While no user is in its critical section the map and the kernel agree
\* (add_event, delete_event, the reuse of a closed descriptor's number): an
\* entry is the timer its descriptor refers to, and an open timer is in the
\* map unless its add_event is still waiting for the lock.  What holds at
\* every moment, also inside them: types, and a running callback's timer.
MapAgrees ==
  /\ TypeOK /\ CallbackOfLiveTimer
  /\ m_mutex \notin Users /\ own # "dead" /\ (own # "baseDtor" \/ clear) =>
       \A f \in Fds :
         \/ open[f] = poll_map[f]
         \/ poll_map[f] = None /\ \E u \in Users : upc[u] = "add" /\ ufd[u] = f

\* A callback starts only for a timer that has expired since its last one,
\* whatever became of the descriptor between epoll_wait and lock().
CallbackIsDue ==
  [][wpc # "call" /\ wpc' = "call" => cur' \in Timers /\ expired[cur']]_vars

\* The mutex went down with a worker that stop() cancelled under it.
LockLost == m_mutex = Worker /\ ~(thr = "work" /\ wpc \in {"scan", "call"})

\* An expired timer is read, or deleted, as long as the worker serves.
Serving == running = 1 /\ thr \in {"test", "work"} /\ own = OwnIdle
ExpiryIsServed ==
  \A t \in Timers :
    expired[t] ~> ~expired[t] \/ ~Serving \/ LockLost

\* The destructor returns: stopPoll wakes a worker blocked in epoll_wait.
\* Only a lock lost to stop() can keep it, at the join or at its own lock().
DestructorReturns == own = "dtorWake" ~> own = "dead" \/ LockLost

=============================================================================
