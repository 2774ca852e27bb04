------------------------------ MODULE SemShare ------------------------------
(***************************************************************************)
(* Sem_Share_Data and Sem_Pth_Data (prodata/semshare.h), Sem_Qt_Data and   *)
(* Sem_QtPth_Data (prodata/qtsemshare.h): a ring of N elements in shared   *)
(* memory with its two indices and its count, written by several processes *)
(* and read by the thread of one, which sleeps on a System V semaphore     *)
(* (LSystemSem through ZSharememRW).  lock() is a second System V          *)
(* semaphore, so the kernel frees it when its holder dies.  The signal     *)
(* semaphore is also used with SEM_UNDO: the kernel keeps for each process *)
(* the sum of its operations, applies the opposite when the process ends,  *)
(* and refuses an operation that takes the sum out of its range.           *)
(*                                                                         *)
(* The ring and the semaphore exist; processes come, go and die.  A value  *)
(* is the number of the write that sent it.                                *)
(***************************************************************************)
EXTENDS Integers, Sequences

CONSTANTS
  N,           \* elements of the ring (m_bufSize)
  Producers, Consumer,
  SEMAEM,      \* kernel: largest sum of operations it undoes (32767)
  MaxWrites,   \* bound: accepted writes
  MaxEnds      \* bound: processes that exit, die or fail to join

ASSUME SemShareAssumption ==
  /\ N \in Nat \ {0} /\ SEMAEM \in Nat
  /\ MaxWrites \in Nat /\ MaxEnds \in Nat
  /\ Consumer \notin Producers

Free == "free"
Joiner == "joiner"   \* a process that is in creat_sem_data and not yet alive
ASSUME SemShareNames == /\ Free \notin Producers \cup {Consumer}
                        /\ Joiner \notin Producers \cup {Consumer}

VARIABLES
  ring, pRd, pWr, pSize,    \* shared memory
  lock,                     \* the process inside the lock, Joiner or Free
  semval, semadj,           \* the signal semaphore; sum of each process
  alive,                    \* which processes exist
  ppc,                      \* where each producer is in write_send_data
  rpc,                      \* where the joiner is in creat_sem_data
  wpc, running, val,        \* the consumer's thread
  delivered,                \* history: what the callback was given
  torn,                     \* history: "torn" when a death left indices and
                            \* count apart, "was" when that is repaired
  lost,                     \* history: tokens undone or refused
  writes, ends              \* bounds

ringVars == <<ring, pRd, pWr, pSize>>
semVars  == <<semval, semadj>>
thrVars  == <<wpc, running, val, delivered>>
vars == <<ringVars, lock, semVars, alive, ppc, rpc, thrVars, torn, lost,
          writes, ends>>

Procs == Producers \cup {Consumer}
Slots == 0 .. N - 1

Init ==
  /\ ring = [s \in Slots |-> 0] /\ pRd = 0 /\ pWr = 0 /\ pSize = 0
  /\ lock = Free /\ semval = 0 /\ semadj = [p \in Procs |-> 0]
  /\ alive = Procs /\ ppc = [p \in Producers |-> "idle"] /\ rpc = "no"
  /\ wpc = "wait" /\ running = 1 /\ val = 0 /\ delivered = <<>>
  /\ torn = "no" /\ lost = 0 /\ writes = 0 /\ ends = 0

-----------------------------------------------------------------------------
(* The semaphore: LSystemSem::release and acquire with SEM_UNDO.           *)

CanPost(p) == semadj[p] - 1 >= -(SEMAEM + 1)
CanTake(p) == semadj[p] + 1 <= SEMAEM

\* A refused release only returns false, which no caller looks at.
Release(p) ==
  IF CanPost(p)
  THEN /\ semval' = semval + 1 /\ UNCHANGED lost
       /\ semadj' = [semadj EXCEPT ![p] = @ - 1]
  ELSE lost' = lost + 1 /\ UNCHANGED semVars

-----------------------------------------------------------------------------
(* write_send_data, all of it under the lock.                              *)

HasRoom == pSize < N

WriteSlot(p) ==
  /\ p \in alive /\ ppc[p] = "idle" /\ lock = Free
  /\ HasRoom /\ writes < MaxWrites
  /\ lock' = p /\ ppc' = [ppc EXCEPT ![p] = "slot"]
  /\ ring' = [ring EXCEPT ![pWr] = writes + 1] /\ writes' = writes + 1
  /\ UNCHANGED <<pRd, pWr, pSize, semVars, alive, rpc, thrVars, torn, lost,
                 ends>>

WriteIndex(p) ==
  /\ ppc[p] = "slot" /\ ppc' = [ppc EXCEPT ![p] = "index"]
  /\ pWr' = (pWr + 1) % N
  /\ UNCHANGED <<ring, pRd, pSize, lock, semVars, alive, rpc, thrVars, torn,
                 lost, writes, ends>>

WriteCount(p) ==
  /\ ppc[p] = "index" /\ ppc' = [ppc EXCEPT ![p] = "count"]
  /\ pSize' = pSize + 1
  /\ UNCHANGED <<ring, pRd, pWr, lock, semVars, alive, rpc, thrVars, torn,
                 lost, writes, ends>>

\* Mutant of Signal: release only for the first element of the ring.
Signal_onlyFirst(p) == IF pSize = 1 THEN Release(p) ELSE UNCHANGED <<semVars, lost>>

Signal(p) == Release(p)

WriteEnd(p) ==
  /\ ppc[p] = "count" /\ ppc' = [ppc EXCEPT ![p] = "idle"]
  /\ Signal(p) /\ lock' = Free
  /\ UNCHANGED <<ringVars, alive, rpc, thrVars, torn, writes, ends>>

-----------------------------------------------------------------------------
(* The thread of the consumer: run(), read_send_data, the callback.        *)

\* A refused acquire ends the loop: "Sem_Pth_Data error!".
Acquire ==
  /\ wpc = "wait" /\ semval > 0
  /\ IF CanTake(Consumer)
     THEN /\ wpc' = "read" /\ semval' = semval - 1
          /\ semadj' = [semadj EXCEPT ![Consumer] = @ + 1]
     ELSE wpc' = "gone" /\ UNCHANGED semVars
  /\ UNCHANGED <<ringVars, lock, alive, ppc, rpc, running, val, delivered,
                 torn, lost, writes, ends>>

AfterLoopTest == IF running = 1 THEN "wait" ELSE "gone"

ReadEmpty ==
  /\ wpc = "read" /\ lock = Free /\ pSize <= 0
  /\ wpc' = AfterLoopTest
  /\ UNCHANGED <<ringVars, lock, semVars, alive, ppc, rpc, running, val,
                 delivered, torn, lost, writes, ends>>

\* Sem_QtPth_Data tests running again before it reads (Sem_Pth_Data does not):
\* the thread may leave with the token it took.
LeaveUnread ==
  /\ wpc = "read" /\ running = 0 /\ wpc' = "left"
  /\ UNCHANGED <<ringVars, lock, semVars, alive, ppc, rpc, running, val,
                 delivered, torn, lost, writes, ends>>

\* Mutant of Oldest: the element is taken at the write index.
Oldest_atWrite == ring[pWr]

Oldest == ring[pRd]

\* The value is copied and the index is moved ...
ReadIndex ==
  /\ wpc = "read" /\ lock = Free /\ pSize > 0
  /\ lock' = Consumer /\ wpc' = "index"
  /\ val' = Oldest /\ pRd' = (pRd + 1) % N
  /\ UNCHANGED <<ring, pWr, pSize, semVars, alive, ppc, rpc, running, delivered,
                 torn, lost, writes, ends>>

\* ... then the count, and the lock is left.
ReadCount ==
  /\ wpc = "index" /\ wpc' = "call"
  /\ pSize' = pSize - 1 /\ lock' = Free
  /\ UNCHANGED <<ring, pRd, pWr, semVars, alive, ppc, rpc, running, val,
                 delivered, torn, lost, writes, ends>>

Callback ==
  /\ wpc = "call" /\ wpc' = AfterLoopTest
  /\ delivered' = Append(delivered, val)
  /\ UNCHANGED <<ringVars, lock, semVars, alive, ppc, rpc, running, val, torn,
                 lost, writes, ends>>

\* Mutant of StopSignal: the destructor joins without a release.
StopSignal_missing == UNCHANGED <<semVars, lost>>

StopSignal == Release(Consumer)

\* ~Sem_Pth_Data: running = 0, realeseSem(), waitEnd() (which waits for Ended).
Stop ==
  /\ Consumer \in alive /\ running = 1
  /\ running' = 0 /\ StopSignal
  /\ UNCHANGED <<ringVars, lock, alive, ppc, rpc, wpc, val, delivered, torn,
                 writes, ends>>

-----------------------------------------------------------------------------
(* Processes end, by exit or by death at any step, and come back.          *)

\* What undoing the operations of p leaves of the semaphore: never below 0.
Undone(p) == IF semval + semadj[p] < 0 THEN 0 ELSE semval + semadj[p]

\* unsignalled: elements p has counted and not yet released a token for.
EndOf(p, unsignalled) ==
  /\ p \in alive /\ ends < MaxEnds
  /\ alive' = alive \ {p} /\ ends' = ends + 1
  /\ semval' = Undone(p) /\ semadj' = [semadj EXCEPT ![p] = 0]
  /\ lost' = lost + unsignalled
              + (IF Undone(p) < semval THEN semval - Undone(p) ELSE 0)
  /\ lock' = IF lock = p THEN Free ELSE lock
  /\ UNCHANGED <<ringVars, rpc, val, delivered, writes>>

ProducerEnds(p) ==
  /\ EndOf(p, IF ppc[p] = "count" THEN 1 ELSE 0)
  /\ ppc' = [ppc EXCEPT ![p] = "idle"]
  /\ torn' = IF ppc[p] = "index" THEN "torn" ELSE torn
  /\ UNCHANGED <<wpc, running>>

ConsumerEnds ==
  /\ EndOf(Consumer, 0)
  /\ wpc' = "gone" /\ torn' = IF wpc = "index" THEN "torn" ELSE torn
  /\ UNCHANGED <<ppc, running>>

-----------------------------------------------------------------------------
(* creat_sem_data, Open as well as Create: three stores under the lock, any *)
(* of which the process may not survive.  The semaphore keeps its value.   *)

joinVars == <<ring, semVars, ppc, val, delivered, lost, writes>>

ResetRead ==
  /\ alive # Procs /\ lock = Free
  /\ lock' = Joiner /\ rpc' = "write" /\ pRd' = 0
  /\ UNCHANGED <<joinVars, pWr, pSize, alive, wpc, running, torn, ends>>

ResetWrite ==
  /\ rpc = "write" /\ rpc' = "count" /\ pWr' = 0
  /\ UNCHANGED <<joinVars, pRd, pSize, lock, alive, wpc, running, torn, ends>>

ResetCount == 0

ResetSize ==
  /\ rpc = "count" /\ rpc' = "key" /\ pSize' = ResetCount
  /\ torn' = IF torn = "torn" THEN "was" ELSE torn
  /\ UNCHANGED <<joinVars, pRd, pWr, lock, alive, wpc, running, ends>>

LeaveReset == lock' = Free /\ rpc' = "no" /\ UNCHANGED <<joinVars, pRd, pWr, pSize>>

\* setKey under the lock: Open finds the semaphore and the process is there,
\* with its thread if it is the consumer ...
OpenSem(p) ==
  /\ rpc = "key" /\ p \notin alive
  /\ alive' = alive \cup {p} /\ LeaveReset
  /\ IF p = Consumer THEN wpc' = "wait" /\ running' = 1
                     ELSE UNCHANGED <<wpc, running>>
  /\ UNCHANGED <<torn, ends>>

\* ... and Create fails because it exists: -2, after the reset.
CreateSemFails ==
  /\ rpc = "key" /\ ends < MaxEnds /\ ends' = ends + 1
  /\ LeaveReset /\ UNCHANGED <<alive, wpc, running, torn>>

JoinerDies ==
  /\ lock = Joiner /\ ends < MaxEnds /\ ends' = ends + 1
  /\ torn' = IF rpc \in {"write", "count"} THEN "torn" ELSE torn
  /\ LeaveReset /\ UNCHANGED <<alive, wpc, running>>

WriteStep(p) == WriteIndex(p) \/ WriteCount(p) \/ WriteEnd(p)
ThreadStep == Acquire \/ ReadEmpty \/ LeaveUnread \/ ReadIndex \/ ReadCount \/ Callback
JoinStep == ResetWrite \/ ResetSize \/ \E p \in Procs : OpenSem(p)

Next ==
  \/ \E p \in Producers : WriteSlot(p) \/ WriteStep(p) \/ ProducerEnds(p)
  \/ ThreadStep \/ Stop \/ ConsumerEnds
  \/ ResetRead \/ JoinStep \/ CreateSemFails \/ JoinerDies

Fairness ==
  /\ WF_vars(ThreadStep) /\ WF_vars(JoinStep)
  /\ \A p \in Producers : WF_vars(WriteStep(p))

Spec == Init /\ [][Next]_vars /\ Fairness

-----------------------------------------------------------------------------
(* Properties.                                                             *)

\* Types; the count stays within the ring although it lives in memory that a
\* dying process leaves half written.
TypeOK ==
  /\ ring \in [Slots -> Nat] /\ pRd \in Slots /\ pWr \in Slots
  /\ pSize \in 0 .. N
  /\ lock \in Procs \cup {Free, Joiner} /\ rpc \in {"no", "write", "count", "key"}
  /\ semval \in Nat /\ semadj \in [Procs -> -(SEMAEM + 1) .. SEMAEM]
  /\ alive \subseteq Procs
  /\ ppc \in [Producers -> {"idle", "slot", "index", "count"}]
  /\ wpc \in {"wait", "read", "index", "call", "left", "gone"}
  /\ running \in {0, 1} /\ val \in Nat /\ delivered \in Seq(Nat)
  /\ torn \in {"no", "torn", "was"} /\ lost \in Nat /\ writes \in Nat /\ ends \in Nat

Committed == IF wpc \in {"read", "index", "left"} THEN 1 ELSE 0
Unsignalled == IF \E p \in Producers : ppc[p] = "count" THEN 1 ELSE 0

\* Every element in the ring has a token, or the thread on its way to it (or
\* stopped on it), or its writer about to release one, or its token was lost by SEM_UNDO: there
\* is no other way to miss a wake-up, whoever dies or joins in between.
TokensCoverRing == pSize <= semval + Committed + Unsignalled + lost

\* Between two critical sections the count tells the distance of the indices,
\* unless a process died between its stores, the three of a reset included; a
\* process that completes a reset repairs that too.
RingConsistent ==
  TypeOK /\ (lock = Free /\ torn # "torn" => (pRd + pSize) % N = pWr)

\* The ring stays a queue across processes that exit, die or reset it: its
\* indices and count agree, and each write reaches the callback at most once
\* and in the order of writing.
DeliveredInOrder ==
  /\ RingConsistent
  /\ torn = "no" => \A i, j \in DOMAIN delivered : i < j => delivered[i] < delivered[j]

Ended == wpc \in {"left", "gone"}
Serving == Consumer \in alive /\ running = 1 /\ ~Ended

\* The thread empties the ring, while no token was lost.
RingIsDrained == [](lost = 0) => []<>(pSize = 0 \/ ~Serving)

\* The destructor's join returns, while no token was lost.
StopReturns == [](lost = 0) => (running = 0 ~> Ended)

=============================================================================
