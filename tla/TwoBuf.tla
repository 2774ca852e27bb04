------------------------------- MODULE TwoBuf -------------------------------
(***************************************************************************)
(* The rings with a callback thread: TwoBufT and TwoBufPthT                *)
(* (bufmodel/TwoBufPthT.h), which carry the asynchronous log of            *)
(* CPrintfClass, and Z_Buf_T and Pth_Buf_T (prodata/zbufT.h).  N slots     *)
(* under a mutex, a POSIX semaphore that counts what was written, and a    *)
(* worker thread (PthClass) that hands every message to a callback.        *)
(*                                                                         *)
(* The two classes differ in little: Z_Buf_T knows no sizes, has a write   *)
(* that does not post, and takes an interrupted sem_wait for a token.  A   *)
(* message is a model value with a size; m_maxNum, which is only logged,   *)
(* is left out.  The callback is set before start().                       *)
(***************************************************************************)
EXTENDS PthClass, Sequences

CONSTANTS
  N,          \* slots of the ring (template parameter)
  SIZE,       \* bytes of a slot (template parameter)
  Messages,   \* what is written
  SizeOf,     \* the size of each message
  Writers,    \* the threads that call writeBufData
  Classes,    \* the classes the object may be of
  MaxWrites   \* bound: how many messages are accepted

TwoBufT == "TwoBufT"
Z_Buf_T == "Z_Buf_T"

ASSUME TwoBufAssumption ==
  /\ N \in Nat \ {0} /\ SIZE \in Nat /\ MaxWrites \in Nat
  /\ SizeOf \in [Messages -> Nat]
  /\ Classes \subseteq {TwoBufT, Z_Buf_T}

Free   == "free"
Worker == "worker"
None   == "none"

ASSUME TwoBufNames ==
  /\ Free \notin Writers /\ Worker \notin Writers /\ None \notin Messages

VARIABLES
  cls,        \* the class of the object
  m_buf, m_wr, m_rd, m_num,   \* the ring
  m_sem,      \* the semaphore
  m_mutex,    \* who holds the mutex
  copying,    \* what the writer in the critical section is copying
  wpc,        \* where the worker is in the body of its loop
  val,        \* the worker's local copy
  called,     \* history: the messages the callback was given
  silent,     \* history: number of writes that did not post
  writes      \* number of accepted messages (bound only)

ringVars == <<m_buf, m_wr, m_rd, m_num>>
workVars == <<wpc, val, called>>
vars == <<cls, pthVars, ringVars, m_sem, m_mutex, copying, workVars, silent, writes>>

Slots == 0 .. N - 1

Init ==
  /\ PthInit /\ cls \in Classes
  /\ m_buf = [s \in Slots |-> None] /\ m_wr = 0 /\ m_rd = 0 /\ m_num = 0
  /\ m_sem = 0 /\ m_mutex = Free /\ copying = None
  /\ wpc = "wait" /\ val = None /\ called = <<>>
  /\ silent = 0 /\ writes = 0

-----------------------------------------------------------------------------
(* writeBufData, buf_write_data: the lock, the refusals, the copy, the     *)
(* indices.                                                                *)

\* The object may be used until the owner destroys it.
Usable == own \notin {"dtorWake", "dtorJoin", "dead"} \cup OwnBase

\* Mutant of HasRoom: the bound of the ring is off by one.
HasRoom_offByOne(n) == n <= N

HasRoom(n) == n < N

\* Only TwoBufT looks at the size.
Fits(m) == cls = TwoBufT => SizeOf[m] <= SIZE

WriteBegin(w, m) ==
  /\ Usable /\ writes < MaxWrites
  /\ m_mutex = Free
  /\ HasRoom(m_num) /\ Fits(m)
  /\ m_mutex' = w /\ copying' = m
  /\ m_buf' = [m_buf EXCEPT ![m_wr] = m]
  /\ UNCHANGED <<cls, pthVars, m_wr, m_rd, m_num, m_sem, workVars, silent, writes>>

\* Returns -1 or -2 and leaves everything as it was.
WriteRefused(w, m) ==
  /\ Usable /\ m_mutex = Free
  /\ ~HasRoom(m_num) \/ ~Fits(m)
  /\ UNCHANGED vars

\* Mutant of Posted: sem_post only when the ring was empty.
Posted_onlyFirst == IF m_num = 0 THEN m_sem + 1 ELSE m_sem

Posted == m_sem + 1

WriteEnd(w) ==
  /\ m_mutex = w
  /\ m_wr' = (m_wr + 1) % N /\ m_num' = m_num + 1
  /\ m_sem' = Posted
  /\ m_mutex' = Free /\ copying' = None /\ writes' = writes + 1
  /\ UNCHANGED <<cls, pthVars, m_buf, m_rd, workVars, silent>>

\* buf_wr_data: the message is in the ring and nobody is told.
SilentEnd(w) ==
  /\ cls = Z_Buf_T /\ m_mutex = w
  /\ m_wr' = (m_wr + 1) % N /\ m_num' = m_num + 1
  /\ m_mutex' = Free /\ copying' = None
  /\ silent' = silent + 1 /\ writes' = writes + 1
  /\ UNCHANGED <<cls, pthVars, m_buf, m_rd, m_sem, workVars>>

-----------------------------------------------------------------------------
(* run(): sem_wait, readBufData or buf_read_data, the callback.            *)

WorkerLoop ==
  /\ LoopTest
  /\ wpc' = "wait"
  /\ UNCHANGED <<cls, ringVars, m_sem, m_mutex, copying, val, called, silent, writes>>

SemWait ==
  /\ thr = "work" /\ wpc = "wait" /\ m_sem > 0
  /\ m_sem' = m_sem - 1 /\ wpc' = "read"
  /\ UNCHANGED <<cls, pthVars, ringVars, m_mutex, copying, val, called, silent, writes>>

\* A blocked sem_wait is interrupted: back to the loop test, nothing read.
SemInterrupted ==
  /\ cls = TwoBufT /\ wpc = "wait" /\ m_sem = 0 /\ WorkAgain
  /\ UNCHANGED <<cls, ringVars, m_sem, m_mutex, copying, workVars, silent, writes>>

\* wait_buf_sem returns 0 whatever sem_wait said: a read without a token.
SemIgnored ==
  /\ cls = Z_Buf_T /\ thr = "work" /\ wpc = "wait" /\ m_sem = 0
  /\ wpc' = "read"
  /\ UNCHANGED <<cls, pthVars, ringVars, m_sem, m_mutex, copying, val, called, silent, writes>>

ReadBegin ==
  /\ thr = "work" /\ wpc = "read" /\ m_mutex = Free /\ m_num > 0
  /\ m_mutex' = Worker /\ val' = m_buf[m_rd] /\ wpc' = "copy"
  /\ UNCHANGED <<cls, pthVars, ringVars, m_sem, copying, called, silent, writes>>

\* readBufData returns 0: a post without a message (the destructor's).
ReadEmpty ==
  /\ wpc = "read" /\ m_mutex = Free /\ m_num = 0 /\ WorkAgain
  /\ UNCHANGED <<cls, ringVars, m_sem, m_mutex, copying, workVars, silent, writes>>

\* Mutant of NextRead: the read index is not wrapped on the last slot.
NextRead_stuck == IF m_rd + 1 = N THEN m_rd ELSE m_rd + 1

NextRead == (m_rd + 1) % N

\* The indices move and the lock is released; TwoBufT's size 0 skips the callback.
ReadEnd ==
  /\ thr = "work" /\ wpc = "copy"
  /\ m_rd' = NextRead /\ m_num' = m_num - 1 /\ m_mutex' = Free
  /\ IF cls = Z_Buf_T \/ SizeOf[val] > 0 THEN wpc' = "call" /\ UNCHANGED thr
     ELSE wpc' = "wait" /\ thr' = "test"
  /\ UNCHANGED <<cls, m_pid, running, cancel, own, starts,
                 m_buf, m_wr, m_sem, copying, val, called, silent, writes>>

Callback ==
  /\ wpc = "call" /\ WorkAgain
  /\ called' = Append(called, val) /\ wpc' = "wait"
  /\ UNCHANGED <<cls, ringVars, m_sem, m_mutex, copying, val, silent, writes>>

\* lock_guard, memcpy and the mutex are no cancellation points.
CancelPoint == wpc \in {"wait", "call"}

\* Cancelled in the callback, the message may have been handled or not.
WorkerCancelled ==
  /\ CancelHit
  /\ thr = "work" => CancelPoint
  /\ \/ UNCHANGED called
     \/ thr = "work" /\ wpc = "call" /\ called' = Append(called, val)
  /\ wpc' = "wait"
  /\ UNCHANGED <<cls, ringVars, m_sem, m_mutex, copying, val, silent, writes>>

WorkerEnter ==
  /\ Enter
  /\ UNCHANGED <<cls, ringVars, m_sem, m_mutex, copying, workVars, silent, writes>>

-----------------------------------------------------------------------------
(* The owner.  It destroys the object when no write is in progress.        *)

Owner ==
  /\ OwnerCall \/ OwnerStep
  /\ own' \in {"dtorWake", "baseDtor"} /\ own = OwnIdle => m_mutex \notin Writers
  /\ UNCHANGED <<cls, ringVars, m_sem, m_mutex, copying, workVars, silent, writes>>

\* Mutant of WakePost: the destructor clears running and joins, no sem_post.
WakePost_missing == m_sem

WakePost == m_sem + 1

\* ~TwoBufPthT: sem_post between running = 0 and waitEnd().
OwnerWake ==
  /\ DtorWake
  /\ m_sem' = WakePost
  /\ UNCHANGED <<cls, ringVars, m_mutex, copying, workVars, silent, writes>>

WorkerStep == \/ WorkerEnter \/ WorkerLoop \/ SemWait \/ ReadBegin \/ ReadEmpty
              \/ ReadEnd \/ Callback \/ WorkerCancelled

Next ==
  \/ Owner \/ OwnerWake
  \/ \E w \in Writers, m \in Messages : WriteBegin(w, m) \/ WriteRefused(w, m)
  \/ \E w \in Writers : WriteEnd(w) \/ SilentEnd(w)
  \/ WorkerStep \/ SemInterrupted \/ SemIgnored

\* The operating system runs every thread that can run; whether anyone calls
\* writeBufData, stop() or the destructor is the caller's affair.
Fairness ==
  /\ WF_vars(WorkerStep)
  /\ WF_vars((OwnerStep /\ Owner) \/ OwnerWake)
  /\ \A w \in Writers : WF_vars(WriteEnd(w) \/ SilentEnd(w))

Spec == Init /\ [][Next]_vars /\ Fairness

-----------------------------------------------------------------------------
(* Properties.                                                             *)

TypeOK ==
  /\ PthTypeOK /\ cls \in Classes
  /\ m_buf \in [Slots -> Messages \cup {None}]
  /\ m_wr \in Slots /\ m_rd \in Slots /\ m_num \in 0 .. N
  /\ m_sem \in Nat
  /\ m_mutex \in Writers \cup {Free, Worker}
  /\ copying \in Messages \cup {None}
  /\ wpc \in {"wait", "read", "copy", "call"}
  /\ val \in Messages \cup {None}
  /\ called \in Seq(Messages \cup {None})
  /\ silent \in Nat /\ writes \in Nat

\* The worker is on its way to a message.
Committed == thr = "work" /\ wpc \in {"read", "copy"}

\* No lost wake-up: through cancels, restarts and spurious posts every message
\* in the ring is covered by a token of the semaphore or by a worker that is
\* already on its way to read (the sem_post of a write, the sem_wait of run());
\* a silent write of Z_Buf_T leaves one message without a token.
TokensCoverRing == m_num <= m_sem + silent + (IF Committed THEN 1 ELSE 0)

\* When ~Pth_Class runs, no worker is left that could call the virtual run()
\* or use the ring of the derived object already destroyed.
NoWorkerInBaseDtor == own \in OwnBase \cup {"dead"} => thr = "none"

\* The messages accepted and not yet handed to the callback, oldest first.
RingContents == [i \in 1 .. m_num |-> m_buf[(m_rd + i - 1) % N]]
InHand == IF thr = "work" /\ wpc = "call" THEN <<val>> ELSE <<>>

Queue == INSTANCE CallbackQueue
           WITH Capacity <- N + 1, pending <- InHand \o RingContents

\* Bounded, in order, at most once: the ring implements the callback queue.
ImplementsQueue == Queue!Spec

\* A worker that entered run() and is not told to stop empties the ring, as
\* long as every write told it.
Serving == running = 1 /\ thr \in {"test", "work"} /\ own = OwnIdle
RingIsDrained == []<>(m_num = 0 \/ ~Serving \/ silent > 0)

\* The destructor returns: its sem_post wakes a worker blocked in sem_wait.
DestructorReturns == own = "dtorWake" ~> own = "dead"

=============================================================================
