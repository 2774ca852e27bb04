---------------------------- MODULE TwoBufProofs ----------------------------
(***************************************************************************)
(* Proofs about TwoBuf for both classes, every ring size, message set,     *)
(* number of writers and number of starts: types, no lost wake-up, no      *)
(* worker left when the base destructor runs, and the refinement of        *)
(* CallbackQueue.  All follow from the inductive IInv; the refinement also *)
(* needs IndexInv and what the modulo of the indices does to the messages  *)
(* between them.                                                           *)
(*                                                                         *)
(* Then about CPrintfClass, which is composed of TwoBuf and PrintfClass:   *)
(* every step of the log is a step of its ring or leaves the ring alone    *)
(* (StepsOfTwoBuf), so the theorems about the ring hold of the log; and    *)
(* from the inductive CInv, lines stay whole and no FILE is used after     *)
(* fclose.                                                                 *)
(***************************************************************************)
EXTENDS CPrintfClass, ArithmeticProofs, SequenceTheorems, TLAPS

\* The mutex is held by the one thread whose critical section is open; a
\* writer in it still has room, a reader in it still has its message.
MutexInv ==
  /\ m_mutex = Worker <=> thr = "work" /\ wpc = "copy"
  /\ m_mutex \in Writers => m_num < N
  /\ m_mutex = Worker => m_num > 0

\* m_pid and the thread it names; an idle owner with a thread has set running,
\* and the base destructor is only reached with the thread joined.
LifeInv ==
  /\ m_pid = "live" <=> thr # "none"
  /\ own = "created" => m_pid = "live"
  /\ own = OwnIdle /\ m_pid = "live" => running = 1
  /\ own \in OwnBase \cup {"dead"} => m_pid # "live"

\* The indices are m_num slots apart; a writer or a reader in its critical
\* section works on the slot its index names.
IndexInv ==
  /\ (m_rd + m_num) % N = m_wr
  /\ m_mutex \in Writers => copying \in Messages /\ m_buf[m_wr] = copying
  /\ m_mutex = Worker => val = m_buf[m_rd]

IInv == TypeOK /\ MutexInv /\ LifeInv /\ TokensCoverRing

-----------------------------------------------------------------------------

\* The initial state satisfies the inductive invariant.
LEMMA InitIInv == Init => IInv
<1> SUFFICES ASSUME Init PROVE IInv
  OBVIOUS
<1> USE DEF Init, PthInit, OwnIdle, OwnBase
<1>1. TypeOK
  BY TwoBufAssumption, EmptySeq
     DEF TypeOK, PthTypeOK, Slots, PidValues, ThrStates, OwnStates
<1>2. MutexInv
  BY TwoBufNames DEF MutexInv, Free, Worker
<1>3. LifeInv /\ TokensCoverRing
  BY DEF LifeInv, TokensCoverRing, Committed
<1>4. QED
  BY <1>1, <1>2, <1>3 DEF IInv

-----------------------------------------------------------------------------
(* One lemma per actor: its steps preserve the inductive invariant.        *)

\* The first half of an accepted write: the lock is taken, the slot written.
LEMMA WriteBeginIInv ==
  ASSUME IInv, NEW w \in Writers, NEW m \in Messages, WriteBegin(w, m)
  PROVE  IInv'
<1> USE TwoBufAssumption, TwoBufNames DEF IInv, WriteBegin, pthVars, workVars
<1>1. TypeOK'
  BY DEF TypeOK, PthTypeOK
<1>2. MutexInv' /\ LifeInv' /\ TokensCoverRing'
  BY DEF HasRoom, TypeOK, MutexInv, LifeInv, TokensCoverRing, Committed,
         Worker, Free
<1>3. QED
  BY <1>1, <1>2

\* The second half: the indices move, and the semaphore is posted or the
\* message counted as silent.
LEMMA WriteEndIInv ==
  ASSUME IInv, NEW w \in Writers, WriteEnd(w) \/ SilentEnd(w)
  PROVE  IInv'
<1> USE TwoBufAssumption, TwoBufNames
    DEF IInv, WriteEnd, SilentEnd, Posted, pthVars, workVars
<1>1. (m_wr + 1) % N \in Slots
  BY SlotStep, TwoBufAssumption DEF TypeOK, Slots
<1>2. m_num < N
  BY DEF MutexInv
<1>3. TypeOK'
  BY <1>1, <1>2 DEF TypeOK, PthTypeOK
<1>4. MutexInv' /\ LifeInv' /\ TokensCoverRing'
  BY DEF TypeOK, MutexInv, LifeInv, TokensCoverRing, Committed, Worker, Free
<1>5. QED
  BY <1>3, <1>4

\* The worker's steps outside readBufData: none touches ring or mutex.
LEMMA WorkerOutsideIInv ==
  ASSUME IInv,
         WorkerEnter \/ WorkerLoop \/ SemWait \/ SemInterrupted \/ SemIgnored
           \/ ReadEmpty \/ Callback \/ WorkerCancelled
  PROVE  IInv'
<1> USE DEF IInv, ringVars, workVars, pthVars, WorkAgain
<1>1. CASE WorkerEnter
  <2>1. TypeOK'
    BY <1>1 DEF WorkerEnter, Enter, TypeOK, PthTypeOK, ThrStates
  <2>2. MutexInv' /\ LifeInv' /\ TokensCoverRing'
    BY <1>1 DEF WorkerEnter, Enter, TypeOK, MutexInv, LifeInv,
                TokensCoverRing, Committed
  <2>3. QED
    BY <2>1, <2>2
<1>2. CASE WorkerLoop
  <2>1. TypeOK'
    BY <1>2 DEF WorkerLoop, LoopTest, TypeOK, PthTypeOK, ThrStates
  <2>2. MutexInv' /\ LifeInv' /\ TokensCoverRing'
    BY <1>2 DEF WorkerLoop, LoopTest, TypeOK, PthTypeOK, MutexInv, LifeInv,
                TokensCoverRing, Committed
  <2>3. QED
    BY <2>1, <2>2
<1>3. CASE SemWait
  <2>1. TypeOK'
    BY <1>3 DEF SemWait, TypeOK, PthTypeOK
  <2>2. MutexInv' /\ LifeInv' /\ TokensCoverRing'
    BY <1>3 DEF SemWait, TypeOK, MutexInv, LifeInv, TokensCoverRing, Committed
  <2>3. QED
    BY <2>1, <2>2
<1>4. CASE SemInterrupted
  <2>1. TypeOK'
    BY <1>4 DEF SemInterrupted, TypeOK, PthTypeOK, ThrStates
  <2>2. MutexInv' /\ LifeInv' /\ TokensCoverRing'
    BY <1>4 DEF SemInterrupted, TypeOK, MutexInv, LifeInv, TokensCoverRing,
                Committed
  <2>3. QED
    BY <2>1, <2>2
<1>5. CASE ReadEmpty
  <2>1. TypeOK'
    BY <1>5 DEF ReadEmpty, TypeOK, PthTypeOK, ThrStates
  <2>2. MutexInv' /\ LifeInv' /\ TokensCoverRing'
    BY <1>5 DEF ReadEmpty, TypeOK, MutexInv, LifeInv, TokensCoverRing,
                Committed
  <2>3. QED
    BY <2>1, <2>2
<1>6. CASE Callback
  <2>1. called' \in Seq(Messages \cup {None})
    BY <1>6, AppendProperties DEF Callback, TypeOK
  <2>2. TypeOK'
    BY <1>6, <2>1 DEF Callback, TypeOK, PthTypeOK, ThrStates
  <2>3. MutexInv' /\ LifeInv' /\ TokensCoverRing'
    BY <1>6 DEF Callback, TypeOK, MutexInv, LifeInv, TokensCoverRing, Committed
  <2>4. QED
    BY <2>2, <2>3
<1>7. CASE WorkerCancelled
  <2>1. called' \in Seq(Messages \cup {None})
    BY <1>7, AppendProperties DEF WorkerCancelled, TypeOK
  <2>2. TypeOK'
    BY <1>7, <2>1 DEF WorkerCancelled, CancelHit, TypeOK, PthTypeOK, ThrStates
  <2>3. MutexInv' /\ LifeInv' /\ TokensCoverRing'
    BY <1>7 DEF WorkerCancelled, CancelHit, CancelPoint, TypeOK, MutexInv,
                LifeInv, TokensCoverRing, Committed
  <2>4. QED
    BY <2>2, <2>3
<1>8. CASE SemIgnored
  <2>1. TypeOK'
    BY <1>8 DEF SemIgnored, TypeOK, PthTypeOK
  <2>2. MutexInv' /\ LifeInv' /\ TokensCoverRing'
    BY <1>8 DEF SemIgnored, TypeOK, MutexInv, LifeInv, TokensCoverRing, Committed
  <2>3. QED
    BY <2>1, <2>2
<1>9. QED
  BY <1>1, <1>2, <1>3, <1>4, <1>5, <1>6, <1>7, <1>8

\* The two halves of readBufData's critical section.
LEMMA ReaderIInv ==
  ASSUME IInv, ReadBegin \/ ReadEnd
  PROVE  IInv'
<1> USE TwoBufAssumption, TwoBufNames
    DEF IInv, ringVars, workVars, pthVars, NextRead
<1>1. CASE ReadBegin
  <2>1. TypeOK'
    BY <1>1 DEF ReadBegin, TypeOK, PthTypeOK
  <2>2. MutexInv' /\ LifeInv' /\ TokensCoverRing'
    BY <1>1 DEF ReadBegin, TypeOK, MutexInv, LifeInv, TokensCoverRing,
                Committed, Free, Worker
  <2>3. QED
    BY <2>1, <2>2
<1>2. CASE ReadEnd
  <2>1. (m_rd + 1) % N \in Slots
    BY SlotStep, TwoBufAssumption DEF TypeOK, Slots
  <2>2. m_mutex = Worker /\ m_num > 0
    BY <1>2 DEF ReadEnd, MutexInv
  <2>3. TypeOK'
    BY <1>2, <2>1, <2>2 DEF ReadEnd, TypeOK, PthTypeOK, ThrStates
  <2>4. MutexInv' /\ LifeInv' /\ TokensCoverRing'
    BY <1>2, <2>2 DEF ReadEnd, TypeOK, MutexInv, LifeInv, TokensCoverRing,
                      Committed, Free, Worker
  <2>5. QED
    BY <2>3, <2>4
<1>3. QED
  BY <1>1, <1>2

\* The owner's calls change no ring and leave the worker's place alone, except
\* that a new thread is born and a joined one is forgotten.
LEMMA OwnerIInv ==
  ASSUME IInv, Owner \/ OwnerWake
  PROVE  IInv'
<1> USE DEF IInv, ringVars, workVars, pthVars
<1>1. CASE OwnerWake
  <2>1. TypeOK'
    BY <1>1 DEF OwnerWake, DtorWake, WakePost, TypeOK, PthTypeOK, OwnStates,
                OwnBase
  <2>2. MutexInv' /\ LifeInv' /\ TokensCoverRing'
    BY <1>1 DEF OwnerWake, DtorWake, WakePost, TypeOK, PthTypeOK, MutexInv,
                LifeInv, TokensCoverRing, Committed, OwnBase, OwnIdle
  <2>3. QED
    BY <2>1, <2>2
<1>2. CASE Owner
  <2> USE <1>2 DEF Owner
  <2>1. m_buf' = m_buf /\ m_wr' = m_wr /\ m_rd' = m_rd /\ m_num' = m_num
        /\ m_sem' = m_sem /\ m_mutex' = m_mutex /\ copying' = copying
        /\ wpc' = wpc /\ val' = val /\ called' = called /\ writes' = writes
        /\ cls' = cls /\ silent' = silent
    OBVIOUS
  <2>2. PthTypeOK' /\ LifeInv' /\ (thr = "work" <=> thr' = "work")
    <3> USE DEF TypeOK, PthTypeOK, PidValues, ThrStates, OwnStates, OwnIdle,
                OwnBase, LifeInv
    <3>1. CASE StartCreate
      <4>1. m_pid' = "live" /\ thr' = "born" /\ own' = "created" /\ thr = "none"
        BY <3>1 DEF StartCreate
      <4>2. cancel' \in BOOLEAN
        BY <3>1, Zenon DEF StartCreate
      <4>3. PthTypeOK'
        BY <3>1, <4>1, <4>2 DEF StartCreate
      <4>4. QED
        BY <4>1, <4>3
    <3>2. CASE StartFail
      BY <3>2 DEF StartFail
    <3>3. CASE Stop \/ WaitEnd \/ DtorBegin
      BY <3>3 DEF Stop, WaitEnd, DtorBegin
    <3>4. CASE StartMark \/ PthreadCancel \/ BaseDtor
      BY <3>4 DEF StartMark, PthreadCancel, BaseDtor
    <3>5. CASE Join
      BY <3>5 DEF Join, Joinable
    <3>6. QED
      BY <3>1, <3>2, <3>3, <3>4, <3>5 DEF OwnerCall, OwnerStep
  <2>3. TypeOK'
    BY <2>1, <2>2 DEF TypeOK
  <2>4. MutexInv' /\ TokensCoverRing'
    BY <2>1, <2>2 DEF MutexInv, TokensCoverRing, Committed
  <2>5. QED
    BY <2>2, <2>3, <2>4
<1>3. QED
  BY <1>1, <1>2

\* Every step of the system preserves the inductive invariant.
LEMMA NextIInv == IInv /\ [Next]_vars => IInv'
<1> SUFFICES ASSUME IInv, [Next]_vars PROVE IInv'
  OBVIOUS
<1>1. CASE Owner \/ OwnerWake
  BY <1>1, OwnerIInv
<1>2. ASSUME NEW w \in Writers, NEW m \in Messages, WriteBegin(w, m)
      PROVE  IInv'
  BY <1>2, WriteBeginIInv
<1>3. ASSUME NEW w \in Writers, WriteEnd(w) \/ SilentEnd(w)
      PROVE  IInv'
  BY <1>3, WriteEndIInv
<1>4. CASE WorkerStep \/ SemInterrupted \/ SemIgnored
  BY <1>4, WorkerOutsideIInv, ReaderIInv DEF WorkerStep
<1>5. CASE UNCHANGED vars
  BY <1>5 DEF vars, pthVars, ringVars, workVars, IInv, TypeOK, PthTypeOK,
              MutexInv, LifeInv, TokensCoverRing, Committed
<1>6. QED
  BY <1>1, <1>2, <1>3, <1>4, <1>5 DEF Next, WriteRefused

-----------------------------------------------------------------------------
(* The theorems.                                                           *)

\* Every reachable state satisfies the inductive invariant.
THEOREM Inductive == Spec => []IInv
BY InitIInv, NextIInv, PTL DEF Spec

\* The ring, the semaphore and both threads stay in their types.
THEOREM TypeCorrect == Spec => []TypeOK
<1>1. IInv => TypeOK
  BY DEF IInv
<1>2. QED
  BY Inductive, <1>1, PTL

\* No lost wake-up: every message in the ring that was announced is covered by
\* a token of the semaphore or by a worker on its way to it, for every N and every history
\* of starts, stops, cancels and writes.
THEOREM NoLostWakeup == Spec => []TokensCoverRing
<1>1. IInv => TokensCoverRing
  BY DEF IInv
<1>2. QED
  BY Inductive, <1>1, PTL

\* No worker thread is left once ~Pth_Class runs.
THEOREM BaseDtorAlone == Spec => []NoWorkerInBaseDtor
<1>1. IInv => NoWorkerInBaseDtor
  BY DEF IInv, LifeInv, NoWorkerInBaseDtor
<1>2. QED
  BY Inductive, <1>1, PTL

-----------------------------------------------------------------------------
(* The ring as a sequence: what the modulo arithmetic of the indices does  *)
(* to the messages between them.                                           *)

Window(buf, rd, n) == [i \in 1 .. n |-> buf[(rd + i - 1) % N]]

\* A function on 1 .. n is a sequence of n elements.
LEMMA FunctionIsSeq ==
  ASSUME NEW S, NEW n \in Nat, NEW f \in [1 .. n -> S]
  PROVE  f \in Seq(S) /\ Len(f) = n
OBVIOUS

\* A window is a sequence of n elements.
LEMMA WindowIsSeq ==
  ASSUME NEW S, NEW n \in Nat, NEW buf \in [Slots -> S], NEW rd \in Slots
  PROVE  Window(buf, rd, n) \in Seq(S) /\ Len(Window(buf, rd, n)) = n
<1>1. \A i \in 1 .. n : (rd + i - 1) % N \in Slots
  BY TwoBufAssumption DEF Slots
<1>2. Window(buf, rd, n) \in [1 .. n -> S]
  BY <1>1 DEF Window
<1>3. QED
  BY <1>2, FunctionIsSeq

\* Counting one slot more appends the slot behind the window.
LEMMA WindowAppend ==
  ASSUME NEW S, NEW n \in 0 .. N - 1, NEW buf \in [Slots -> S], NEW rd \in Slots
  PROVE  Window(buf, rd, n + 1) = Append(Window(buf, rd, n), buf[(rd + n) % N])
<1> DEFINE W == Window(buf, rd, n)
           m == buf[(rd + n) % N]
<1>1. m \in S
  BY TwoBufAssumption DEF Slots
<1>2. /\ W \in Seq(S) /\ Len(W) = n
      /\ Window(buf, rd, n + 1) \in Seq(S) /\ Len(Window(buf, rd, n + 1)) = n + 1
  BY WindowIsSeq, TwoBufAssumption
<1>3. /\ Append(W, m) \in Seq(S) /\ Len(Append(W, m)) = n + 1
      /\ \A i \in 1 .. n : Append(W, m)[i] = W[i]
      /\ Append(W, m)[n + 1] = m
  BY <1>1, <1>2, AppendProperties
<1>4. \A i \in 1 .. n + 1 : Window(buf, rd, n + 1)[i] = Append(W, m)[i]
  BY <1>3, TwoBufAssumption DEF Window
<1>5. QED
  BY <1>2, <1>3, <1>4, SeqEqual

\* Taking the oldest slot leaves the window behind it.
LEMMA WindowTail ==
  ASSUME NEW S, NEW n \in 1 .. N, NEW buf \in [Slots -> S], NEW rd \in Slots
  PROVE  /\ Window(buf, rd, n) # <<>>
         /\ Head(Window(buf, rd, n)) = buf[rd]
         /\ Tail(Window(buf, rd, n)) = Window(buf, (rd + 1) % N, n - 1)
<1> DEFINE W == Window(buf, rd, n)
           T == Window(buf, (rd + 1) % N, n - 1)
<1>1. (rd + 1) % N \in Slots /\ n \in Nat /\ n - 1 \in Nat
  BY TwoBufAssumption DEF Slots
<1>2. W \in Seq(S) /\ Len(W) = n /\ T \in Seq(S) /\ Len(T) = n - 1
  BY WindowIsSeq, <1>1
<1>3. W # <<>>
  BY <1>2, EmptySeq
<1>4. Head(W) = buf[rd]
  <2>1. rd + 1 - 1 = rd /\ rd % N = rd
    BY TwoBufAssumption DEF Slots
  <2>2. W[1] = buf[rd]
    BY <2>1, TwoBufAssumption DEF Window
  <2>3. QED
    BY <1>2, <1>3, <2>2
<1>5. /\ Tail(W) \in Seq(S) /\ Len(Tail(W)) = n - 1
      /\ \A i \in 1 .. n - 1 : Tail(W)[i] = W[i + 1]
  BY <1>2, <1>3, HeadTailProperties
<1>6. \A i \in 1 .. n - 1 : Tail(W)[i] = T[i]
  <2> SUFFICES ASSUME NEW i \in 1 .. n - 1 PROVE Tail(W)[i] = T[i]
    OBVIOUS
  <2>1. (rd + (i + 1) - 1) % N = (((rd + 1) % N) + i - 1) % N
    BY WrapShift, TwoBufAssumption DEF Slots
  <2>2. QED
    BY <2>1, <1>5 DEF Window
<1>7. QED
  BY <1>2, <1>3, <1>4, <1>5, <1>6, SeqEqual

\* A sequence with an element in front.
LEMMA InFront ==
  ASSUME NEW S, NEW e \in S, NEW s \in Seq(S)
  PROVE  /\ <<e>> \o s \in Seq(S) /\ <<e>> \o s # <<>>
         /\ Head(<<e>> \o s) = e /\ Tail(<<e>> \o s) = s
         /\ Len(<<e>> \o s) = Len(s) + 1
<1> DEFINE c == <<e>> \o s
<1>1. <<e>> \in Seq(S) /\ Len(<<e>>) = 1 /\ <<e>>[1] = e
  OBVIOUS
<1>2. /\ c \in Seq(S) /\ Len(c) = 1 + Len(s)
      /\ \A i \in 1 .. 1 + Len(s) : c[i] = IF i <= 1 THEN <<e>>[i] ELSE s[i - 1]
  BY <1>1, ConcatProperties
<1>3. Len(s) \in Nat
  BY LenProperties
<1>4. c # <<>>
  BY <1>2, <1>3, EmptySeq
<1>5. Head(c) = e
  BY <1>1, <1>2, <1>3, <1>4
<1>6. /\ Tail(c) \in Seq(S) /\ Len(Tail(c)) = Len(s)
      /\ \A i \in 1 .. Len(s) : Tail(c)[i] = c[i + 1]
  BY <1>2, <1>3, <1>4, HeadTailProperties
<1>7. \A i \in 1 .. Len(s) : Tail(c)[i] = s[i]
  BY <1>2, <1>3, <1>6
<1>8. Tail(c) = s
  BY <1>6, <1>7, SeqEqual
<1>9. QED
  BY <1>2, <1>3, <1>4, <1>5, <1>8

-----------------------------------------------------------------------------
(* The refinement of CallbackQueue.                                        *)

\* The indices stay as far apart as the count says.
LEMMA IndexStep ==
  ASSUME IInv, IndexInv, [Next]_vars
  PROVE  IndexInv'
<1> USE TwoBufAssumption, TwoBufNames DEF IInv, TypeOK, MutexInv, Slots, Free, Worker
<1>1. ASSUME NEW w \in Writers, NEW m \in Messages, WriteBegin(w, m)
      PROVE  IndexInv'
  BY <1>1 DEF WriteBegin, IndexInv
<1>2. ASSUME NEW w \in Writers, WriteEnd(w) \/ SilentEnd(w)
      PROVE  IndexInv'
  <2>1. m_rd' = m_rd /\ m_wr' = (m_wr + 1) % N /\ m_num' = m_num + 1 /\ m_mutex' = Free
    BY <1>2 DEF WriteEnd, SilentEnd
  <2>2. m_rd + m_num \in 0 .. 2 * N - 2
    BY <1>2 DEF WriteEnd, SilentEnd
  <2>3. (m_rd + m_num + 1) % N = (m_wr + 1) % N
    BY <2>2, WrapNext DEF IndexInv
  <2>4. QED
    BY <2>1, <2>3 DEF IndexInv
<1>3. CASE ReadBegin
  BY <1>3 DEF ReadBegin, ringVars, IndexInv
<1>4. CASE ReadEnd
  <2>1. /\ m_rd' = (m_rd + 1) % N /\ m_wr' = m_wr /\ m_num' = m_num - 1 /\ m_mutex' = Free
        /\ m_num > 0
    BY <1>4 DEF ReadEnd, NextRead
  <2>2. (((m_rd + 1) % N) + m_num - 1) % N = (m_rd + m_num) % N
    <3>1. m_num \in 1 .. N /\ m_rd \in 0 .. N - 1
      BY <2>1
    <3>2. QED
      BY <3>1, WrapRead
  <2>3. QED
    BY <2>1, <2>2 DEF IndexInv
<1>5. ASSUME UNCHANGED <<ringVars, m_mutex, copying, val>>
      PROVE  IndexInv'
  BY <1>5 DEF ringVars, IndexInv
<1>6. CASE \/ Owner \/ OwnerWake \/ SemInterrupted \/ SemIgnored \/ UNCHANGED vars
           \/ WorkerEnter \/ WorkerLoop \/ SemWait \/ ReadEmpty \/ Callback \/ WorkerCancelled
  BY <1>5, <1>6 DEF Owner, OwnerWake, SemInterrupted, SemIgnored, vars, WorkerEnter, WorkerLoop,
                    SemWait, ReadEmpty, Callback, WorkerCancelled, workVars
<1>7. QED
  BY <1>1, <1>2, <1>3, <1>4, <1>6 DEF Next, WorkerStep, WriteRefused

\* Initially both indices are zero and nothing is counted.
LEMMA InitIndexInv == Init => IndexInv
BY TwoBufAssumption, TwoBufNames DEF Init, IndexInv, Free, Worker

\* Filling the slot behind the window leaves the window as it is.
LEMMA WindowKept ==
  ASSUME NEW S, NEW n \in 0 .. N - 1, NEW buf \in [Slots -> S], NEW rd \in Slots, NEW m
  PROVE  Window([buf EXCEPT ![(rd + n) % N] = m], rd, n) = Window(buf, rd, n)
<1>1. \A i \in 1 .. n : /\ (rd + i - 1) % N # (rd + n) % N
                        /\ (rd + i - 1) % N \in Slots
  BY SlotAhead, TwoBufAssumption DEF Slots
<1>2. QED
  BY <1>1 DEF Window

\* What the slots of the ring hold.
Items == Messages \cup {None}

\* The pending messages are a sequence of at most one element more than the ring has.
LEMMA PendingIsSeq ==
  ASSUME IInv
  PROVE  /\ RingContents = Window(m_buf, m_rd, m_num)
         /\ RingContents \in Seq(Items) /\ Len(RingContents) = m_num
         /\ InHand \in Seq(Items) /\ Len(InHand) \in {0, 1}
         /\ InHand \o RingContents \in Seq(Items)
         /\ Len(InHand \o RingContents) <= m_num + 1
<1>1. RingContents = Window(m_buf, m_rd, m_num)
  BY DEF RingContents, Window
<1>2. RingContents \in Seq(Items) /\ Len(RingContents) = m_num
  <2>1. m_num \in Nat /\ m_rd \in Slots /\ m_buf \in [Slots -> Items]
    BY TwoBufAssumption DEF IInv, TypeOK, Items
  <2>2. QED
    BY <1>1, <2>1, WindowIsSeq
<1>3. InHand \in Seq(Items) /\ Len(InHand) \in {0, 1}
  <2>1. \A e \in Items : <<e>> \in Seq(Items) /\ Len(<<e>>) = 1
    OBVIOUS
  <2>2. <<>> \in Seq(Items) /\ Len(<<>>) = 0
    BY EmptySeq
  <2>3. val \in Items
    BY DEF IInv, TypeOK, Items
  <2>4. QED
    BY <2>1, <2>2, <2>3 DEF InHand
<1>4. /\ InHand \o RingContents \in Seq(Items)
      /\ Len(InHand \o RingContents) = Len(InHand) + Len(RingContents)
  BY <1>2, <1>3, ConcatProperties
<1>5. Len(InHand \o RingContents) <= m_num + 1
  <2>1. m_num \in Nat
    BY TwoBufAssumption DEF IInv, TypeOK
  <2>2. \A k \in {0, 1}, n \in Nat : k + n <= n + 1
    OBVIOUS
  <2>3. QED
    BY <1>2, <1>3, <1>4, <2>1, <2>2, Zenon
<1>6. QED
  BY <1>1, <1>2, <1>3, <1>4, <1>5

\* What one step of the ring is to the users of the queue.
QueueStep == [Queue!Next]_<<InHand \o RingContents, called>>

\* Steps that touch neither ring, hand nor callbacks stutter.
LEMMA Stutters ==
  ASSUME UNCHANGED <<m_buf, m_rd, m_num, called>>, InHand' = InHand
  PROVE  QueueStep
BY DEF QueueStep, RingContents

\* WriteBegin only fills a slot nobody reads.
LEMMA WriteBeginQueue ==
  ASSUME IInv, IndexInv, NEW w \in Writers, NEW m \in Messages, WriteBegin(w, m)
  PROVE  QueueStep
<1>1. /\ m_buf' = [m_buf EXCEPT ![(m_rd + m_num) % N] = m]
      /\ m_num \in 0 .. N - 1 /\ m_rd \in Slots
      /\ m_buf \in [Slots -> Items]
      /\ m_rd' = m_rd /\ m_num' = m_num /\ called' = called /\ InHand' = InHand
  <2>1. m_num \in 0 .. N - 1 /\ m_rd \in Slots /\ m_buf \in [Slots -> Items]
    BY TwoBufAssumption DEF WriteBegin, HasRoom, IInv, TypeOK, Items
  <2>2. (m_rd + m_num) % N = m_wr
    BY DEF IndexInv
  <2>3. QED
    BY <2>1, <2>2 DEF WriteBegin, InHand, workVars, pthVars
<1>2. Window(m_buf', m_rd, m_num) = Window(m_buf, m_rd, m_num)
  BY <1>1, WindowKept
<1>3. RingContents' = RingContents
  BY <1>1, <1>2 DEF RingContents, Window
<1>4. QED
  BY <1>1, <1>3 DEF QueueStep

\* The end of a write, posted or silent, is the acceptance of the message.
LEMMA WriteEndQueue ==
  ASSUME IInv, IndexInv, NEW w \in Writers, WriteEnd(w) \/ SilentEnd(w)
  PROVE  QueueStep
<1> USE DEF Items
<1>1. /\ m_buf' = m_buf /\ m_rd' = m_rd /\ m_num' = m_num + 1
      /\ called' = called /\ InHand' = InHand /\ m_mutex = w
  BY DEF WriteEnd, SilentEnd, InHand, workVars, pthVars
<1>2. m_num \in 0 .. N - 1 /\ copying \in Messages /\ m_buf[(m_rd + m_num) % N] = copying
  BY <1>1, TwoBufAssumption DEF IInv, TypeOK, MutexInv, IndexInv
<1>3. RingContents' = Append(RingContents, copying)
  <2>1. Window(m_buf, m_rd, m_num + 1) = Append(Window(m_buf, m_rd, m_num), copying)
    BY <1>2, WindowAppend DEF IInv, TypeOK
  <2>2. QED
    BY <1>1, <2>1 DEF RingContents, Window
<1>4. /\ RingContents \in Seq(Items) /\ InHand \in Seq(Items)
      /\ InHand \o RingContents \in Seq(Items)
      /\ Len(InHand \o RingContents) <= m_num + 1 /\ copying \in Items
  BY <1>2, PendingIsSeq
<1>5. <<copying>> \in Seq(Items)
  BY <1>4
<1>6. InHand \o Append(RingContents, copying) = Append(InHand \o RingContents, copying)
  BY <1>4, <1>5, AppendIsConcat, ConcatAssociative
<1>7. Len(InHand \o RingContents) < N + 1
  <2>1. Len(InHand \o RingContents) \in Nat
    BY <1>4, LenProperties
  <2>2. QED
    BY <1>2, <1>4, <2>1, TwoBufAssumption
<1>8. Queue!Accept(copying)
  BY <1>1, <1>3, <1>6, <1>7 DEF Queue!Accept
<1>9. QED
  BY <1>2, <1>8 DEF QueueStep, Queue!Next

\* Two sequences with the same head and the same tail are the same.
LEMMA SameHeadTail ==
  ASSUME NEW S, NEW s \in Seq(S), NEW t \in Seq(S), s # <<>>, t # <<>>,
         Head(s) = Head(t), Tail(s) = Tail(t)
  PROVE  s = t
<1> DEFINE l == Len(s)
           k == Len(t)
<1>1. l \in Nat \ {0} /\ k \in Nat \ {0}
  BY EmptySeq
<1>2. Len(Tail(s)) = l - 1 /\ Len(Tail(t)) = k - 1
  BY HeadTailProperties
<1>3. /\ \A i \in 1 .. l - 1 : Tail(s)[i] = s[i + 1]
      /\ \A i \in 1 .. k - 1 : Tail(t)[i] = t[i + 1]
  BY <1>2, HeadTailProperties
<1> HIDE DEF l, k
<1>4. l = k
  <2>1. l - 1 = k - 1
    BY <1>2
  <2>2. QED
    BY <1>1, <2>1
<1>5. s[1] = t[1]
  OBVIOUS
<1>6. ASSUME NEW i \in 1 .. l PROVE s[i] = t[i]
  <2>1. i = 1 \/ \E j \in 1 .. l - 1 : i = j + 1
    <3>1. CASE i # 1
      <4>1. i - 1 \in 1 .. l - 1 /\ i = (i - 1) + 1
        BY <3>1, <1>1
      <4>2. QED
        BY <4>1
    <3>2. QED
      BY <3>1
  <2>2. \A j \in 1 .. l - 1 : s[j + 1] = t[j + 1]
    BY <1>3, <1>4
  <2>3. QED
    BY <1>5, <2>1, <2>2
<1>7. QED
  BY <1>4, <1>6, SeqEqual DEF l, k

\* readBufData takes the oldest message into the hand of the worker, or loses
\* it when TwoBufT finds it empty.
LEMMA ReadEndQueue ==
  ASSUME IInv, IndexInv, ReadEnd
  PROVE  QueueStep
<1>1. /\ thr = "work" /\ wpc = "copy" /\ m_buf' = m_buf /\ called' = called
      /\ m_rd' = (m_rd + 1) % N /\ m_num' = m_num - 1 /\ val' = val
      /\ m_mutex = Worker /\ m_num > 0 /\ val = m_buf[m_rd]
  BY DEF ReadEnd, NextRead, IInv, MutexInv, IndexInv
<1>2. InHand = <<>> /\ InHand' \in {<<>>, <<val>>}
  BY <1>1 DEF InHand
<1>3. m_num \in 1 .. N /\ m_rd \in Slots /\ m_buf \in [Slots -> Items] /\ val \in Items
  BY <1>1, TwoBufAssumption DEF IInv, TypeOK, Items
<1>4. /\ RingContents \in Seq(Items) /\ RingContents # <<>>
      /\ Head(RingContents) = val /\ Tail(RingContents) = RingContents'
  <2>1. /\ Window(m_buf, m_rd, m_num) # <<>>
        /\ Head(Window(m_buf, m_rd, m_num)) = m_buf[m_rd]
        /\ Tail(Window(m_buf, m_rd, m_num)) = Window(m_buf, (m_rd + 1) % N, m_num - 1)
    BY <1>3, WindowTail
  <2>2. RingContents' = Window(m_buf, (m_rd + 1) % N, m_num - 1)
    BY <1>1 DEF RingContents, Window
  <2>3. QED
    BY <1>1, <2>1, <2>2, PendingIsSeq
<1>5. RingContents' \in Seq(Items)
  BY <1>4, HeadTailProperties
<1>6. InHand \o RingContents = RingContents
  BY <1>2, <1>4, ConcatEmptySeq
<1>7. CASE InHand' = <<>>
  <2>1. (InHand \o RingContents)' = RingContents'
    BY <1>5, <1>7, ConcatEmptySeq
  <2>2. Queue!Lose
    BY <1>1, <1>4, <1>6, <2>1 DEF Queue!Lose
  <2>3. QED
    BY <2>2 DEF QueueStep, Queue!Next
<1>8. CASE InHand' = <<val>>
  <2>1. RingContents = <<val>> \o RingContents'
    <3>1. <<val>> \o RingContents' \in Seq(Items) /\ <<val>> \o RingContents' # <<>>
          /\ Head(<<val>> \o RingContents') = val
          /\ Tail(<<val>> \o RingContents') = RingContents'
      BY <1>3, <1>5, InFront
    <3>2. QED
      BY <1>4, <3>1, SameHeadTail
  <2>2. QED
    BY <1>1, <1>6, <1>8, <2>1 DEF QueueStep
<1>9. QED
  BY <1>2, <1>7, <1>8

\* The callback delivers the message in hand; a worker cancelled inside it
\* has delivered or lost it.
LEMMA HandQueue ==
  ASSUME IInv, thr = "work", wpc = "call", thr' # "work",
         called' \in {called, Append(called, val)},
         UNCHANGED <<m_buf, m_rd, m_num>>
  PROVE  QueueStep
<1>1. InHand = <<val>> /\ InHand' = <<>> /\ RingContents' = RingContents
  BY DEF InHand, RingContents
<1>2. val \in Items /\ RingContents \in Seq(Items)
  BY PendingIsSeq DEF IInv, TypeOK, Items
<1>3. /\ InHand \o RingContents # <<>>
      /\ Head(InHand \o RingContents) = val
      /\ Tail(InHand \o RingContents) = RingContents
  BY <1>1, <1>2, InFront
<1>4. (InHand \o RingContents)' = Tail(InHand \o RingContents)
  BY <1>1, <1>2, <1>3, ConcatEmptySeq
<1>5. Queue!Deliver \/ Queue!Lose
  BY <1>3, <1>4 DEF Queue!Deliver, Queue!Lose
<1>6. QED
  BY <1>5 DEF QueueStep, Queue!Next

\* No call of the owner takes a message out of the worker's hand: a thread is
\* only created where none is, and only forgotten when it has ended.
LEMMA OwnerQueue ==
  ASSUME IInv, Owner \/ OwnerWake
  PROVE  QueueStep
<1>1. UNCHANGED <<m_buf, m_rd, m_num, called, wpc, val>>
  BY DEF Owner, OwnerWake, ringVars, workVars
<1>2. thr = "work" <=> thr' = "work"
  <2>1. CASE StartCreate
    BY <2>1 DEF StartCreate, IInv, LifeInv
  <2>2. CASE Join
    BY <2>2 DEF Join
  <2>3. CASE OwnerCall \/ OwnerStep \/ DtorWake
    BY <2>1, <2>2, <2>3
       DEF OwnerCall, OwnerStep, DtorWake, StartFail, Stop, WaitEnd, DtorBegin,
           StartMark, PthreadCancel, BaseDtor
  <2>4. QED
    BY <2>3 DEF Owner, OwnerWake
<1>3. QED
  BY <1>1, <1>2, Stutters DEF InHand

\* Every step of the ring is a step of the queue, or a stutter.
LEMMA NextQueue == IInv /\ IndexInv /\ [Next]_vars => QueueStep
<1> SUFFICES ASSUME IInv, IndexInv, [Next]_vars PROVE QueueStep
  OBVIOUS
<1>1. ASSUME NEW w \in Writers, NEW m \in Messages, WriteBegin(w, m)
      PROVE  QueueStep
  BY <1>1, WriteBeginQueue
<1>2. ASSUME NEW w \in Writers, WriteEnd(w) \/ SilentEnd(w)
      PROVE  QueueStep
  BY <1>2, WriteEndQueue
<1>3. CASE ReadEnd
  BY <1>3, ReadEndQueue
<1>4. CASE Callback
  BY <1>4, HandQueue DEF Callback, WorkAgain, ringVars
<1>5. CASE WorkerCancelled
  <2>1. /\ thr # "work" \/ wpc \in {"wait", "call"}
        /\ thr' = "gone" /\ UNCHANGED <<m_buf, m_rd, m_num>>
        /\ \/ called' = called
           \/ thr = "work" /\ wpc = "call" /\ called' = Append(called, val)
    BY <1>5 DEF WorkerCancelled, CancelHit, CancelPoint, ringVars
  <2>2. CASE thr = "work" /\ wpc = "call"
    BY <2>1, <2>2, HandQueue
  <2>3. CASE ~(thr = "work" /\ wpc = "call")
    BY <2>1, <2>3, Stutters DEF InHand
  <2>4. QED
    BY <2>2, <2>3
<1>6. CASE SemWait \/ SemInterrupted \/ SemIgnored \/ ReadBegin \/ ReadEmpty
  <2>1. UNCHANGED <<m_buf, m_rd, m_num, called>> /\ wpc # "call"
    BY <1>6 DEF SemWait, SemInterrupted, SemIgnored, ReadBegin, ReadEmpty,
                ringVars, workVars
  <2>2. thr' # "work" \/ wpc' # "call"
    BY <1>6 DEF SemWait, SemInterrupted, SemIgnored, ReadBegin, ReadEmpty, WorkAgain
  <2>3. QED
    BY <2>1, <2>2, Stutters DEF InHand
<1>7. CASE WorkerEnter \/ WorkerLoop
  BY <1>7, Stutters DEF WorkerEnter, WorkerLoop, Enter, LoopTest, InHand,
                        ringVars, workVars
<1>8. CASE Owner \/ OwnerWake
  BY <1>8, OwnerQueue
<1>9. CASE UNCHANGED vars
  BY <1>9, Stutters DEF vars, pthVars, ringVars, workVars, InHand
<1>10. QED
  BY <1>1, <1>2, <1>3, <1>4, <1>5, <1>6, <1>7, <1>8, <1>9
     DEF Next, WorkerStep, WriteRefused

\* Initially nothing is pending and nothing was called.
LEMMA InitQueue == Init => Queue!Init
<1> SUFFICES ASSUME Init PROVE Queue!Init
  OBVIOUS
<1>1. InHand = <<>> /\ m_num = 0 /\ called = <<>>
  BY DEF Init, PthInit, InHand
<1>2. RingContents \in Seq(Items) /\ Len(RingContents) = 0
  BY <1>1, InitIInv, PendingIsSeq
<1>3. RingContents = <<>>
  BY <1>2, EmptySeq
<1>4. InHand \o RingContents = <<>>
  BY <1>1, <1>2, <1>3, ConcatEmptySeq
<1>5. QED
  BY <1>1, <1>4 DEF Queue!Init

\* The indices of the ring are as far apart as its count, always.
THEOREM IndicesAgree == Spec => []IndexInv
<1>1. IInv /\ IndexInv /\ [Next]_vars => IndexInv'
  BY IndexStep
<1>2. QED
  BY Inductive, InitIndexInv, <1>1, PTL DEF Spec

\* Ring, mutex and worker implement the bounded callback queue: every message
\* accepted is handed over at most once and in the order of acceptance, and
\* only the oldest one can be lost, for every ring size and every interleaving
\* of writers, worker and owner.
THEOREM RingImplementsQueue == Spec => ImplementsQueue
BY Inductive, IndicesAgree, InitQueue, NextQueue, PTL
   DEF Spec, ImplementsQueue, Queue!Spec, QueueStep

-----------------------------------------------------------------------------
(* CPrintfClass, which is composed of TwoBuf and PrintfClass.              *)

LogInside == {"head", "body", "unlock"}

\* Who is between lock and unlock has m_printMut, the worker while it is in
\* the callback; the mutex is only destroyed with the object of the ring.
PrintMutInv ==
  /\ \A t \in Loggers : lpc[t] \in LogInside <=> m_printMut = t
  /\ wcb # "lock" => InCallback /\ m_printMut = Worker
  /\ m_printMut = Destroyed => own = "dead"

\* What a line has tested of m_pfd stays true until it is written.
PfdInv ==
  /\ ~broken /\ m_pfd \in open \cup {NULL}
  /\ m_pfd = Stdout => log = <<>>
  /\ \A t \in Loggers : lpc[t] \notin {"close", "clear", "open"}
  /\ \A t \in Loggers : lpc[t] \in {"lockPlain", "body"} => m_pfd # NULL
  /\ wcb = "write" => m_pfd # NULL

CTypes ==
  /\ PrintTypeOK /\ c_pfd \in BOOLEAN /\ c_mark \in {0, 1}
  /\ m_printMut \in Loggers \cup {Nobody, Worker, Destroyed}
  /\ wcb \in {"lock", "seek", "write", "unlock"}
  /\ log \in Seq((Loggers \cup {Worker}) \X {"head", "body", "line"})

CInv == /\ IInv /\ CTypes /\ PrintMutInv
        /\ ~reopened => PfdInv
        /\ LinesWhole

\* Every step of the asynchronous log is one of its ring or does not touch it.
LEMMA StepsOfTwoBuf == CNext => [Next]_vars
<1> SUFFICES ASSUME CNext PROVE [Next]_vars
  OBVIOUS
<1>1. ASSUME NEW w \in Writers, CPrintfEnd(w) \/ CHprintf(w) PROVE [Next]_vars
  BY <1>1 DEF CPrintfEnd, CHprintf, allVars, Next
<1>2. ASSUME NEW w \in Writers, NEW m \in Messages, CPrintf(w, m) PROVE [Next]_vars
  BY <1>2 DEF CPrintf, Next
<1>3. CASE CPrintfInit
  <2>1. OwnerCall \/ UNCHANGED pthVars
    BY <1>3 DEF CPrintfInit, OwnerCall
  <2>2. own' = "created" \/ own' = own
    BY <1>3 DEF CPrintfInit, StartCreate, StartFail, pthVars
  <2>3. QED
    BY <1>3, <2>1, <2>2 DEF CPrintfInit, bufVars, OwnIdle, Next, Owner, vars, ringVars, workVars
<1>4. CASE COwner
  BY <1>4 DEF COwner, bufVars, Next, Owner, OwnerCall, ringVars, workVars
<1>5. CASE COwnerWake \/ CWorker \/ CInterrupted
  BY <1>5 DEF COwnerWake, CWorker, CInterrupted, Next, WorkerStep
<1>6. CASE WriteDone \/ CWorkerCancelled
  BY <1>6 DEF WriteDone, CWorkerCancelled, Next, WorkerStep
<1>7. CASE PrintfDtor \/ WriteData \/ Seek \/ Fwrite
  BY <1>7 DEF PrintfDtor, WriteData, Seek, Fwrite
<1>8. ASSUME NEW t \in Loggers, LoggerCalls(t) \/ LoggerSteps(t) PROVE [Next]_vars
  BY <1>8 DEF LoggerCalls, LoggerSteps
<1>9. QED
  BY <1>1, <1>2, <1>3, <1>4, <1>5, <1>6, <1>7, <1>8 DEF CNext, CWorkerStep

LEMMA InitCInv == CInit => CInv
<1> SUFFICES ASSUME CInit PROVE CInv
  OBVIOUS
<1> USE PrintfAssumption, PrintfNames, CPrintfNames DEF CInit, PrintInit
<1>1. IInv
  BY InitIInv
<1>2. CTypes
  <2>1. files \in {1, 2} /\ m_pfd \in 0 .. files /\ open \subseteq 1 .. files /\ m_mark \in {0, 1}
    BY DEF NULL, Stdout
  <2>2. files \in 1 .. MaxFiles /\ lines \in 0 .. MaxLines
    BY <2>1
  <2>3. log \in Seq((Loggers \cup {Worker}) \X {"head", "body", "line"})
    BY EmptySeq
  <2>4. PrintTypeOK
    BY <2>1, <2>2 DEF PrintTypeOK
  <2>5. QED
    BY <2>3, <2>4 DEF CTypes
<1>3. PrintMutInv
  BY DEF PrintMutInv, LogInside, Nobody, Destroyed
<1>4. PfdInv /\ LinesWhole
  BY DEF PfdInv, LinesWhole, NULL, Stdout
<1>5. QED
  BY <1>1, <1>2, <1>3, <1>4 DEF CInv

\* PrintfClass's own types, without its Boolean ones where arithmetic is done.
LEMMA FileNumbers ==
  ASSUME NEW n \in 1 .. MaxFiles, n < MaxFiles
  PROVE  n + 1 \in 1 .. MaxFiles /\ n + 1 \in 0 .. n + 1 /\ 1 .. n \subseteq 1 .. n + 1
         /\ n + 1 \in 1 .. n + 1 /\ n + 1 # 0 /\ 0 .. n \subseteq 0 .. n + 1 /\ n + 1 # 1
BY PrintfAssumption

LEMMA LineCount ==
  ASSUME NEW n \in 0 .. MaxLines, n < MaxLines
  PROVE  n + 1 \in 0 .. MaxLines
BY PrintfAssumption

\* A call of stdio adds a piece to the log, or nothing.
LEMMA PieceTypes ==
  ASSUME CTypes, NEW t \in Loggers \cup {Worker}, NEW part \in {"head", "body", "line"},
         Piece(t, part)
  PROVE  log' \in Seq((Loggers \cup {Worker}) \X {"head", "body", "line"}) /\ broken' \in BOOLEAN
<1>1. <<t, part>> \in (Loggers \cup {Worker}) \X {"head", "body", "line"}
  OBVIOUS
<1>2. log' = log \/ log' = Append(log, <<t, part>>)
  BY DEF Piece
<1>3. log' \in Seq((Loggers \cup {Worker}) \X {"head", "body", "line"})
  BY <1>1, <1>2, AppendProperties DEF CTypes
<1>4. broken' \in BOOLEAN
  BY DEF Piece, CTypes, PrintTypeOK
<1>5. QED
  BY <1>3, <1>4

LEMMA CallTypes ==
  ASSUME CTypes, NEW t \in Loggers, LoggerCall(t)
  PROVE  /\ files' \in 1 .. MaxFiles /\ lines' \in 0 .. MaxLines /\ m_pfd' \in 0 .. files'
         /\ open' \subseteq 1 .. files' /\ m_mark' \in {0, 1} /\ reopened' \in BOOLEAN
         /\ \E where \in {"idle", "lockPlain", "lockTime", "lockStdout", "close"} : LGo(t, where)
         /\ UNCHANGED <<m_printMut, log, broken>>
<1>0. /\ m_pfd \in 0 .. files /\ m_mark \in {0, 1} /\ open \subseteq 1 .. files
      /\ files \in 1 .. MaxFiles /\ reopened \in BOOLEAN /\ lines \in 0 .. MaxLines
  BY DEF CTypes, PrintTypeOK
<1>1. /\ \E where \in {"idle", "lockPlain", "lockTime", "lockStdout", "close"} : LGo(t, where)
      /\ UNCHANGED <<m_printMut, log, broken>> /\ lines < MaxLines /\ lines' = lines + 1
  BY DEF LoggerCall, Zprintf, Timeprintf, Hprintf, PrintfInit, PrintfClassInit, LCall
<1>2. lines' \in 0 .. MaxLines
  BY <1>0, <1>1, LineCount
<1>3. Stdout \in 0 .. files /\ NULL \in 0 .. files
  BY <1>0, PrintfAssumption DEF Stdout, NULL
<1>4. /\ reopened' \in BOOLEAN /\ m_mark' \in {0, 1}
      /\ \/ UNCHANGED <<open, files>> /\ m_pfd' \in {m_pfd, Stdout, NULL}
         \/ NewFile
  BY <1>0 DEF LoggerCall, Zprintf, Timeprintf, Hprintf, PrintfInit, PrintfClassInit, fileVars
<1>5. CASE UNCHANGED <<open, files>> /\ m_pfd' \in {m_pfd, Stdout, NULL}
  BY <1>0, <1>1, <1>2, <1>3, <1>4, <1>5
<1>6. CASE NewFile
  BY <1>0, <1>1, <1>2, <1>4, <1>6, FileNumbers DEF NewFile
<1>7. QED
  BY <1>4, <1>5, <1>6

LEMMA StepTypes ==
  ASSUME CTypes, NEW t \in Loggers, LoggerStep(t)
  PROVE  /\ files' \in 1 .. MaxFiles /\ m_pfd' \in 0 .. files' /\ open' \subseteq 1 .. files'
         /\ broken' \in BOOLEAN
         /\ log' \in Seq((Loggers \cup {Worker}) \X {"head", "body", "line"})
         /\ \E where \in {"idle", "head", "body", "unlock", "clear", "open"} : LGo(t, where)
         /\ m_printMut' \in {m_printMut, t, Nobody} /\ UNCHANGED <<m_mark, reopened, lines>>
<1>0. /\ m_pfd \in 0 .. files /\ open \subseteq 1 .. files /\ files \in 1 .. MaxFiles
      /\ log \in Seq((Loggers \cup {Worker}) \X {"head", "body", "line"})
  BY DEF CTypes, PrintTypeOK
<1>1. /\ \E where \in {"idle", "head", "body", "unlock", "clear", "open"} : LGo(t, where)
      /\ m_printMut' \in {m_printMut, t, Nobody} /\ UNCHANGED <<m_mark, reopened, lines>>
  BY DEF LoggerStep, LogLock, LogHead, LogBody, LogUnlock, Unlocked, CloseOld, ClearOld, OpenNew, fileVars
<1>2. log' \in Seq((Loggers \cup {Worker}) \X {"head", "body", "line"}) /\ broken' \in BOOLEAN
  <2>1. \/ Piece(t, "head") \/ Piece(t, "body")
        \/ UNCHANGED log /\ (UNCHANGED broken \/ broken' = (m_pfd # NULL /\ ~Writable))
    BY DEF LoggerStep, LogLock, LogHead, LogBody, LogUnlock, CloseOld, ClearOld, OpenNew
  <2>2. broken \in BOOLEAN
    BY DEF CTypes, PrintTypeOK
  <2>3. QED
    BY <1>0, <2>1, <2>2, PieceTypes
<1>3. NULL \in 0 .. files
  BY <1>0, PrintfAssumption DEF NULL
<1>4. \/ files' = files /\ open' \subseteq open /\ m_pfd' \in {m_pfd, NULL}
      \/ NewFile
  BY DEF LoggerStep, LogLock, LogHead, LogBody, LogUnlock, CloseOld, ClearOld, OpenNew, fileVars
<1>5. CASE files' = files /\ open' \subseteq open /\ m_pfd' \in {m_pfd, NULL}
  BY <1>0, <1>1, <1>2, <1>3, <1>5
<1>6. CASE NewFile
  BY <1>0, <1>1, <1>2, <1>6, FileNumbers DEF NewFile
<1>7. QED
  BY <1>4, <1>5, <1>6

\* The steps of the log that are only steps of its ring.
RingStep ==
  \/ CPrintfInit \/ COwner \/ COwnerWake \/ CWorker \/ CInterrupted
  \/ \E w \in Writers : CPrintfEnd(w) \/ CHprintf(w) \/ \E m \in Messages : CPrintf(w, m)

LEMMA RingEffect ==
  ASSUME RingStep
  PROVE  /\ UNCHANGED <<m_pfd, m_mark, open, files, m_printMut, lpc, log, broken, reopened, lines>>
         /\ wcb' = wcb /\ (c_pfd \in BOOLEAN => c_pfd' \in BOOLEAN) /\ c_mark' \in {c_mark, 0, 1}
<1> USE DEF printVars, fileVars, cVars
<1>1. CASE CPrintfInit
  <2>1. c_pfd' = TRUE \/ c_pfd' = FALSE \/ c_pfd' = c_pfd
    BY <1>1 DEF CPrintfInit
  <2>2. c_pfd \in BOOLEAN => c_pfd' \in BOOLEAN
    BY <2>1
  <2>3. c_mark' \in {c_mark, 0, 1}
    BY <1>1 DEF CPrintfInit
  <2>4. QED
    BY <1>1, <2>2, <2>3 DEF CPrintfInit
<1>2. CASE COwner \/ COwnerWake \/ CWorker \/ CInterrupted
  BY <1>2 DEF COwner, COwnerWake, CWorker, CInterrupted
<1>3. ASSUME NEW w \in Writers, NEW m \in Messages, CPrintf(w, m)
      PROVE  UNCHANGED <<printVars, cVars>>
  BY <1>3 DEF CPrintf
<1>4. ASSUME NEW w \in Writers, CPrintfEnd(w) \/ CHprintf(w)
      PROVE  UNCHANGED <<printVars, cVars>>
  BY <1>4 DEF CPrintfEnd, CHprintf, allVars
<1>5. QED
  BY <1>1, <1>2, <1>3, <1>4 DEF RingStep

\* None of them begins or ends the callback; a thread that is there is not
\* started again.
LEMMA CallbackStays ==
  ASSUME IInv, RingStep, InCallback
  PROVE  InCallback'
<1> USE DEF InCallback, vars, pthVars, workVars, bufVars
<1>1. m_pid # "none"
  BY DEF IInv, LifeInv
<1>2. CASE CPrintfInit
  BY <1>1, <1>2 DEF CPrintfInit, StartCreate, StartFail
<1>3. CASE COwner
  BY <1>3 DEF COwner, Stop, WaitEnd, DtorBegin, OwnerStep, StartMark, PthreadCancel, Join, BaseDtor
<1>4. CASE COwnerWake \/ CInterrupted
  BY <1>4 DEF COwnerWake, OwnerWake, DtorWake, CInterrupted, SemInterrupted
<1>5. CASE CWorker
  BY <1>5 DEF CWorker, WorkerEnter, Enter, WorkerLoop, LoopTest, SemWait, ReadBegin, ReadEmpty, ReadEnd
<1>6. ASSUME NEW w \in Writers, NEW m \in Messages, CPrintf(w, m) PROVE InCallback'
  BY <1>6 DEF CPrintf, WriteBegin, WriteRefused
<1>7. ASSUME NEW w \in Writers, CPrintfEnd(w) \/ CHprintf(w) PROVE InCallback'
  BY <1>7 DEF CPrintfEnd, WriteEnd, CHprintf, allVars
<1>8. QED
  BY <1>2, <1>3, <1>4, <1>5, <1>6, <1>7 DEF RingStep

LEMMA CNextCases ==
  ASSUME CNext
  PROVE  \/ RingStep \/ PrintfDtor \/ WriteData \/ Seek \/ Fwrite \/ WriteDone \/ CWorkerCancelled
         \/ \E t \in Loggers : LoggerCalls(t) \/ LoggerSteps(t)
BY DEF CNext, CWorkerStep, RingStep

LEMMA CTypesNext ==
  ASSUME CTypes, CNext
  PROVE  CTypes'
<1>0. /\ m_pfd \in 0 .. files /\ m_mark \in {0, 1} /\ open \subseteq 1 .. files
      /\ files \in 1 .. MaxFiles /\ lines \in 0 .. MaxLines
      /\ lpc \in [Loggers -> {"idle", "lockPlain", "lockTime", "lockStdout", "head",
                              "body", "unlock", "close", "clear", "open"}]
      /\ broken \in BOOLEAN /\ reopened \in BOOLEAN
      /\ c_pfd \in BOOLEAN /\ c_mark \in {0, 1}
      /\ m_printMut \in Loggers \cup {Nobody, Worker, Destroyed}
      /\ wcb \in {"lock", "seek", "write", "unlock"}
      /\ log \in Seq((Loggers \cup {Worker}) \X {"head", "body", "line"})
  BY DEF CTypes, PrintTypeOK
<1>1. CASE RingStep
  <2>1. /\ UNCHANGED <<m_pfd, m_mark, open, files, m_printMut, lpc, log, broken, reopened, lines>>
        /\ wcb' = wcb /\ c_pfd' \in BOOLEAN /\ c_mark' \in {0, 1}
    BY <1>0, <1>1, RingEffect
  <2>2. PrintTypeOK'
    BY <2>1 DEF CTypes, PrintTypeOK
  <2>3. QED
    BY <1>0, <2>1, <2>2 DEF CTypes
<1>2. CASE PrintfDtor
  <2>1. open' \subseteq 1 .. files /\ m_pfd' \in 0 .. files
    BY <1>0, <1>2, PrintfAssumption DEF PrintfDtor, NULL
  <2>2. QED
    BY <1>0, <1>2, <2>1 DEF PrintfDtor, CTypes, PrintTypeOK, cVars
<1>3. CASE WriteData \/ Seek
  <2>1. UNCHANGED <<m_pfd, m_mark, open, files, lpc, log, reopened, lines, c_pfd, c_mark>>
    BY <1>3 DEF WriteData, Seek, fileVars
  <2>2. broken' \in BOOLEAN /\ wcb' \in {"lock", "seek", "write", "unlock"}
        /\ m_printMut' \in {m_printMut, Worker}
    BY <1>3 DEF WriteData, Seek, WriteLock
  <2>3. QED
    BY <1>0, <2>1, <2>2 DEF CTypes, PrintTypeOK
<1>4. CASE Fwrite
  <2>1. UNCHANGED <<m_pfd, m_mark, open, files, lpc, m_printMut, reopened, lines, c_pfd, c_mark>>
        /\ wcb' = "unlock"
    BY <1>4 DEF Fwrite, fileVars
  <2>2. log' \in Seq((Loggers \cup {Worker}) \X {"head", "body", "line"}) /\ broken' \in BOOLEAN
    BY <1>4, PieceTypes DEF Fwrite
  <2>3. QED
    BY <1>0, <2>1, <2>2 DEF CTypes, PrintTypeOK
<1>5. CASE WriteDone \/ CWorkerCancelled
  <2>1. UNCHANGED <<m_pfd, m_mark, open, files, lpc, log, broken, reopened, lines, c_pfd, c_mark>>
        /\ wcb' = "lock" /\ m_printMut' \in {m_printMut, Nobody, Worker}
    BY <1>5 DEF WriteDone, CWorkerCancelled, WriteUnlock, fileVars
  <2>2. QED
    BY <1>0, <2>1 DEF CTypes, PrintTypeOK
<1>6. ASSUME NEW t \in Loggers, LoggerCalls(t) \/ LoggerSteps(t) PROVE CTypes'
  <2>1. UNCHANGED <<c_pfd, c_mark, wcb>>
    BY <1>6 DEF LoggerCalls, LoggerSteps, cVars
  <2>2. \E where \in {"idle", "lockPlain", "lockTime", "lockStdout", "head",
                      "body", "unlock", "close", "clear", "open"} : LGo(t, where)
    BY <1>6, CallTypes, StepTypes DEF LoggerCalls, LoggerSteps
  <2>3. lpc' \in [Loggers -> {"idle", "lockPlain", "lockTime", "lockStdout", "head",
                              "body", "unlock", "close", "clear", "open"}]
    BY <1>0, <2>2 DEF LGo
  <2>4. CASE LoggerCalls(t)
    BY <1>0, <2>1, <2>3, <2>4, CallTypes DEF LoggerCalls, CTypes, PrintTypeOK
  <2>5. CASE LoggerSteps(t)
    BY <1>0, <2>1, <2>3, <2>5, StepTypes DEF LoggerSteps, CTypes, PrintTypeOK
  <2>6. QED
    BY <1>6, <2>4, <2>5
<1>7. QED
  BY <1>1, <1>2, <1>3, <1>4, <1>5, <1>6, CNextCases

LEMMA PrintMutNext ==
  ASSUME IInv, CTypes, PrintMutInv, CNext
  PROVE  PrintMutInv'
<1>0. /\ lpc \in [Loggers -> {"idle", "lockPlain", "lockTime", "lockStdout", "head",
                              "body", "unlock", "close", "clear", "open"}]
      /\ \A t \in Loggers : lpc[t] \in LogInside <=> m_printMut = t
      /\ wcb # "lock" => InCallback /\ m_printMut = Worker
      /\ m_printMut = Destroyed => own = "dead"
      /\ m_printMut \in Loggers \cup {Nobody, Worker, Destroyed}
      /\ \A t \in Loggers : t \notin {Nobody, Worker, Destroyed}
      /\ Nobody # Worker /\ Nobody # Destroyed /\ Worker # Destroyed
  BY PrintfNames, CPrintfNames DEF CTypes, PrintTypeOK, PrintMutInv, Nobody, Worker, Destroyed
<1>1. own = "dead" => own' = "dead" /\ thr = "none"
  <2>1. own = "dead" => thr = "none"
    BY DEF IInv, LifeInv, TypeOK, PthTypeOK, PidValues
  <2>2. [Next]_vars
    BY StepsOfTwoBuf
  <2>3. own = "dead" => own' = "dead"
    BY <2>2 DEF Next, Owner, OwnerCall, OwnerStep, StartCreate, StartFail, Stop, WaitEnd, DtorBegin,
      StartMark, PthreadCancel, Join, BaseDtor, OwnerWake, DtorWake, OwnIdle, WriteBegin, WriteRefused,
      WriteEnd, SilentEnd, WorkerStep, WorkerEnter, Enter, WorkerLoop, LoopTest, SemWait, ReadBegin,
      ReadEmpty, WorkAgain, ReadEnd, Callback, WorkerCancelled, CancelHit, SemInterrupted, SemIgnored,
      vars, pthVars
  <2>4. QED
    BY <2>1, <2>3
<1>2. CASE RingStep
  BY <1>0, <1>1, <1>2, RingEffect, CallbackStays DEF PrintMutInv
<1>3. CASE PrintfDtor
  <2>1. m_printMut' = Destroyed /\ UNCHANGED <<lpc, wcb>> /\ own = "dead"
        /\ \A t \in Loggers : lpc[t] = "idle"
    BY <1>3 DEF PrintfDtor, cVars
  <2>2. wcb = "lock"
    BY <1>0, <1>1, <2>1 DEF InCallback
  <2>3. QED
    BY <1>0, <1>1, <2>1, <2>2 DEF PrintMutInv, LogInside
<1>4. CASE WriteData \/ Seek \/ Fwrite
  <2>1. InCallback /\ UNCHANGED <<thr, wpc, own, lpc>> /\ wcb' \in {"seek", "write", "unlock"}
    BY <1>4 DEF WriteData, Seek, Fwrite, vars, pthVars, workVars
  <2>2. m_printMut # Destroyed
    BY <1>0, <1>1, <2>1 DEF InCallback
  <2>3. CASE WriteData
    BY <1>0, <2>1, <2>2, <2>3 DEF WriteData, WriteLock, PrintMutInv, InCallback
  <2>4. CASE Seek \/ Fwrite
    <3>1. m_printMut' = m_printMut /\ m_printMut = Worker
      BY <1>0, <2>4 DEF Seek, Fwrite
    <3>2. QED
      BY <1>0, <2>1, <3>1 DEF PrintMutInv, InCallback
  <2>5. QED
    BY <1>4, <2>3, <2>4
<1>5. CASE WriteDone
  <2>1. wcb' = "lock" /\ lpc' = lpc /\ m_printMut = Worker /\ m_printMut' = Nobody
    BY <1>0, <1>5 DEF WriteDone, WriteUnlock
  <2>2. QED
    BY <1>0, <2>1 DEF PrintMutInv
<1>6. CASE CWorkerCancelled
  <2>1. wcb' = "lock" /\ lpc' = lpc
        /\ (m_printMut' = m_printMut \/ (m_printMut = Nobody /\ m_printMut' \in {Nobody, Worker}))
    BY <1>6 DEF CWorkerCancelled
  <2>2. QED
    BY <1>0, <1>1, <2>1 DEF PrintMutInv
<1>7. ASSUME NEW t \in Loggers, LoggerCalls(t) \/ LoggerSteps(t) PROVE PrintMutInv'
  <2>1. UNCHANGED <<thr, wpc, own, wcb>>
    BY <1>7 DEF LoggerCalls, LoggerSteps, vars, pthVars, workVars, cVars
  <2>2. PICK where : LGo(t, where)
    BY <1>7, CallTypes, StepTypes DEF LoggerCalls, LoggerSteps
  <2>3. lpc'[t] = where /\ \A u \in Loggers : u # t => lpc'[u] = lpc[u]
    BY <1>0, <2>2 DEF LGo
  <2>4. CASE LoggerCalls(t)
    <3>1. m_printMut' = m_printMut /\ lpc[t] \notin LogInside
          /\ lpc'[t] \in {"idle", "lockPlain", "lockTime", "lockStdout", "close"}
      BY <1>0, <2>4 DEF LoggerCalls, LoggerCall, Zprintf, Timeprintf, Hprintf, PrintfInit,
        PrintfClassInit, LCall, LGo, LogInside
    <3>2. QED
      BY <1>0, <2>1, <2>3, <3>1 DEF PrintMutInv, InCallback, LogInside
  <2>5. CASE LoggerSteps(t)
    <3>1. \/ m_printMut = Nobody /\ m_printMut' = t /\ lpc'[t] \in LogInside
          \/ m_printMut' = m_printMut /\ (lpc[t] \in LogInside <=> lpc'[t] \in LogInside)
          \/ m_printMut' = Nobody /\ lpc[t] \in LogInside /\ lpc'[t] \notin LogInside
      BY <1>0, <2>5 DEF LoggerSteps, LoggerStep, LogLock, LogHead, LogBody, LogUnlock, Unlocked,
        CloseOld, ClearOld, OpenNew, LGo, LogInside
    <3>2. QED
      BY <1>0, <2>1, <2>3, <3>1 DEF PrintMutInv, InCallback
  <2>6. QED
    BY <1>7, <2>4, <2>5
<1>8. QED
  BY <1>2, <1>3, <1>4, <1>5, <1>6, <1>7, CNextCases

LEMMA WritableNow ==
  ASSUME PfdInv, m_pfd # NULL
  PROVE  Writable
BY DEF PfdInv, Writable

\* A piece reaches the FILE that m_pfd names, and stdout leaves no trace.
LEMMA PieceLogged ==
  ASSUME PfdInv, m_pfd # NULL, NEW t, NEW part, Piece(t, part)
  PROVE  /\ ~broken'
         /\ log' = IF m_pfd = Stdout THEN log ELSE Append(log, <<t, part>>)
<1>1. Writable
  BY WritableNow
<1>2. broken' = broken
  BY <1>1 DEF Piece
<1>3. QED
  BY <1>1, <1>2 DEF Piece, PfdInv

\* As long as m_pfd is not replaced, a logger calls and steps as follows.
LEMMA LoggerEffect ==
  ASSUME CTypes, PfdInv, ~reopened', NEW t \in Loggers, LoggerCalls(t) \/ LoggerSteps(t)
  PROVE  /\ m_pfd' = m_pfd /\ open \subseteq open' /\ ~broken'
         /\ \E where \in {"idle", "lockPlain", "lockTime", "lockStdout", "head", "body", "unlock"} :
              LGo(t, where) /\ (where \in {"lockPlain", "body"} => m_pfd # NULL)
         /\ \/ log' = log /\ (lpc'[t] = "body" => lpc[t] = "lockPlain") /\ lpc[t] # "body"
            \/ lpc[t] = "head" /\ lpc'[t] = "body" /\ m_pfd # NULL
                 /\ log' = IF m_pfd = Stdout THEN log ELSE Append(log, <<t, "head">>)
            \/ lpc[t] = "body" /\ lpc'[t] = "unlock" /\ m_pfd # NULL
                 /\ log' = IF m_pfd = Stdout THEN log ELSE Append(log, <<t, "body">>)
<1>0. /\ lpc \in [Loggers -> {"idle", "lockPlain", "lockTime", "lockStdout", "head",
                              "body", "unlock", "close", "clear", "open"}]
      /\ lpc[t] \notin {"close", "clear", "open"}
      /\ lpc[t] \in {"lockPlain", "body"} => m_pfd # NULL
      /\ ~broken
  BY DEF CTypes, PrintTypeOK, PfdInv
<1>1. CASE LoggerCalls(t)
  <2>1. /\ m_pfd' = m_pfd /\ open' = open /\ log' = log /\ broken' = broken /\ lpc[t] = "idle"
        /\ \E where \in {"idle", "lockPlain", "lockTime", "lockStdout"} :
             LGo(t, where) /\ (where = "lockPlain" => m_pfd # NULL)
    BY <1>1 DEF LoggerCalls, LoggerCall, Zprintf, Timeprintf, Hprintf, PrintfInit,
      PrintfClassInit, LCall, fileVars
  <2>2. ~broken'
    BY <1>0, <2>1
  <2>3. lpc'[t] # "body"
    BY <1>0, <2>1 DEF LGo
  <2>4. QED
    BY <2>1, <2>2, <2>3
<1>2. CASE LogLock(t)
  BY <1>0, <1>2 DEF LogLock, LGo, fileVars
<1>3. CASE LogUnlock(t)
  BY <1>0, <1>3 DEF LogUnlock, LGo, fileVars
<1>4. CASE LogHead(t)
  <2>1. CASE m_pfd = NULL
    BY <1>0, <1>4, <2>1 DEF LogHead, LGo, fileVars
  <2>2. CASE m_pfd # NULL
    <3>1. ~broken' /\ log' = IF m_pfd = Stdout THEN log ELSE Append(log, <<t, "head">>)
      BY <1>4, <2>2, PieceLogged DEF LogHead
    <3>2. QED
      BY <1>0, <1>4, <2>2, <3>1 DEF LogHead, LGo, fileVars
  <2>3. QED
    BY <2>1, <2>2
<1>5. CASE LogBody(t)
  <2>1. ~broken' /\ log' = IF m_pfd = Stdout THEN log ELSE Append(log, <<t, "body">>)
    BY <1>0, <1>5, PieceLogged DEF LogBody
  <2>2. QED
    BY <1>0, <1>5, <2>1 DEF LogBody, LGo, fileVars
<1>6. QED
  BY <1>0, <1>1, <1>2, <1>3, <1>4, <1>5 DEF LoggerSteps, LoggerStep, CloseOld, ClearOld, OpenNew

LEMMA StaysClosed ==
  ASSUME CTypes, CNext, ~reopened'
  PROVE  ~reopened
<1>1. reopened' = reopened \/ reopened' = TRUE
  BY CNextCases, RingEffect DEF PrintfDtor, WriteData, Seek, Fwrite, WriteDone, CWorkerCancelled,
    LoggerCalls, LoggerSteps, LoggerCall, LoggerStep, Zprintf, Timeprintf, Hprintf, PrintfInit,
    PrintfClassInit, LogLock, LogHead, LogBody, LogUnlock, CloseOld, ClearOld, OpenNew
<1>2. QED
  BY <1>1

LEMMA PfdNext ==
  ASSUME IInv, CTypes, PrintMutInv, PfdInv, CNext, ~reopened'
  PROVE  PfdInv'
<1>0. /\ ~broken /\ m_pfd \in open \cup {NULL} /\ (m_pfd = Stdout => log = <<>>)
      /\ \A t \in Loggers : lpc[t] \notin {"close", "clear", "open"}
      /\ \A t \in Loggers : lpc[t] \in {"lockPlain", "body"} => m_pfd # NULL
      /\ wcb = "write" => m_pfd # NULL
      /\ lpc \in [Loggers -> {"idle", "lockPlain", "lockTime", "lockStdout", "head",
                              "body", "unlock", "close", "clear", "open"}]
      /\ NULL # Stdout
  BY DEF PfdInv, CTypes, PrintTypeOK, NULL, Stdout
<1>1. m_printMut = Destroyed => ~InCallback
  BY DEF PrintMutInv, InCallback, IInv, LifeInv, TypeOK, PthTypeOK, PidValues
<1>2. CASE RingStep
  <2>1. UNCHANGED <<m_pfd, open, lpc, log, wcb>> /\ broken' = broken
    BY <1>2, RingEffect
  <2>2. QED
    BY <2>1 DEF PfdInv
<1>3. CASE PrintfDtor
  <2>1. /\ m_pfd' = NULL /\ UNCHANGED <<lpc, log, wcb>> /\ broken' = broken
        /\ \A t \in Loggers : lpc[t] = "idle"
    BY <1>3 DEF PrintfDtor, cVars
  <2>2. wcb = "lock"
    BY <1>3 DEF PrintfDtor, PrintMutInv, InCallback, IInv, LifeInv, TypeOK, PthTypeOK, PidValues
  <2>3. QED
    BY <1>0, <2>1, <2>2 DEF PfdInv
<1>4. CASE WriteData \/ Seek
  <2>1. UNCHANGED <<m_pfd, open, lpc, log>> /\ (wcb' = "write" => m_pfd # NULL)
    BY <1>4 DEF WriteData, Seek, fileVars
  <2>2. ~broken'
    BY <1>0, <1>1, <1>4 DEF WriteData, WriteLock, Seek, Writable
  <2>3. QED
    BY <1>0, <2>1, <2>2 DEF PfdInv
<1>5. CASE Fwrite
  <2>1. UNCHANGED <<m_pfd, open, lpc>> /\ wcb' = "unlock" /\ m_pfd # NULL
    BY <1>0, <1>5 DEF Fwrite, fileVars
  <2>2. ~broken' /\ log' = IF m_pfd = Stdout THEN log ELSE Append(log, <<Worker, "line">>)
    BY <1>5, <2>1, PieceLogged DEF Fwrite
  <2>3. QED
    BY <1>0, <2>1, <2>2 DEF PfdInv
<1>6. CASE WriteDone \/ CWorkerCancelled
  <2>1. UNCHANGED <<m_pfd, open, lpc, log>> /\ wcb' = "lock" /\ broken' = broken
    BY <1>6 DEF WriteDone, CWorkerCancelled, fileVars
  <2>2. QED
    BY <1>0, <2>1 DEF PfdInv
<1>7. ASSUME NEW t \in Loggers, LoggerCalls(t) \/ LoggerSteps(t) PROVE PfdInv'
  <2>1. /\ m_pfd' = m_pfd /\ open \subseteq open' /\ ~broken' /\ wcb' = wcb
        /\ m_pfd = Stdout => log' = log
    BY <1>7, LoggerEffect DEF LoggerCalls, LoggerSteps, cVars
  <2>2. PICK where \in {"idle", "lockPlain", "lockTime", "lockStdout", "head", "body", "unlock"} :
          LGo(t, where) /\ (where \in {"lockPlain", "body"} => m_pfd # NULL)
    BY <1>7, LoggerEffect
  <2>3. lpc'[t] = where /\ \A u \in Loggers : u # t => lpc'[u] = lpc[u]
    BY <1>0, <2>2 DEF LGo
  <2>4. QED
    BY <1>0, <2>1, <2>2, <2>3 DEF PfdInv
<1>8. QED
  BY <1>2, <1>3, <1>4, <1>5, <1>6, <1>7, CNextCases

\* The stamp of a line is followed by its text, or waits for it.
Paired == \A i \in DOMAIN log : log[i][2] = "head" => LineOf(i)

LEMMA SameLines ==
  ASSUME Paired, log' = log, \A u \in Loggers : lpc[u] = "body" => lpc'[u] = "body"
  PROVE  Paired'
BY DEF Paired, LineOf

LEMMA NoLines ==
  ASSUME log' = <<>>
  PROVE  Paired'
<1>1. DOMAIN log' = {}
  OBVIOUS
<1>2. QED
  BY <1>1 DEF Paired

\* What is written between stamp and text is the text.
LEMMA NextPiece ==
  ASSUME CTypes, Paired, NEW t \in Loggers \cup {Worker}, NEW part \in {"head", "body", "line"},
         log' = Append(log, <<t, part>>),
         \A u \in Loggers : lpc[u] = "body" => u = t /\ part = "body",
         part = "head" => t \in Loggers /\ lpc'[t] = "body"
  PROVE  Paired'
<1> DEFINE S == (Loggers \cup {Worker}) \X {"head", "body", "line"}
<1>0. log \in Seq(S) /\ <<t, part>> \in S
  BY DEF CTypes
<1>1. /\ Len(log') = Len(log) + 1 /\ Len(log) \in Nat
      /\ \A i \in 1 .. Len(log) : log'[i] = log[i]
      /\ log'[Len(log) + 1] = <<t, part>>
      /\ DOMAIN log = 1 .. Len(log) /\ DOMAIN log' = 1 .. Len(log) + 1
  BY <1>0, AppendProperties, LenProperties
<1>2. SUFFICES ASSUME NEW i \in DOMAIN log', log'[i][2] = "head"
               PROVE  LineOf(i)'
  BY DEF Paired
<1>3. CASE i \in 1 .. Len(log)
  <2>1. log[i][2] = "head" /\ log'[i] = log[i] /\ LineOf(i)
    BY <1>1, <1>2, <1>3 DEF Paired
  <2>2. CASE i < Len(log) /\ log[i + 1] = <<log[i][1], "body">>
    <3>1. i + 1 \in 1 .. Len(log) /\ i < Len(log')
      BY <1>1, <1>3, <2>2
    <3>2. QED
      BY <1>1, <2>1, <2>2, <3>1 DEF LineOf
  <2>3. CASE i = Len(log) /\ log[i][1] \in Loggers /\ lpc[log[i][1]] = "body"
    <3>1. log[i][1] = t /\ part = "body"
      BY <2>3
    <3>2. i < Len(log') /\ log'[i + 1] = <<t, "body">>
      BY <1>1, <2>3, <3>1
    <3>3. QED
      BY <2>1, <3>1, <3>2 DEF LineOf
  <2>4. QED
    BY <2>1, <2>2, <2>3 DEF LineOf
<1>4. CASE i = Len(log) + 1
  <2>1. log'[i] = <<t, part>> /\ i = Len(log')
    BY <1>1, <1>4
  <2>2. part = "head"
    BY <1>2, <2>1
  <2>3. QED
    BY <2>1, <2>2 DEF LineOf
<1>5. i \in 1 .. Len(log) \/ i = Len(log) + 1
  BY <1>1
<1>6. QED
  BY <1>3, <1>4, <1>5

LEMMA PairedNext ==
  ASSUME IInv, CTypes, PrintMutInv, PfdInv, Paired, CNext, ~reopened'
  PROVE  Paired'
<1>0. /\ \A t \in Loggers : lpc[t] \in LogInside <=> m_printMut = t
      /\ wcb # "lock" => m_printMut = Worker
      /\ m_pfd = Stdout => log = <<>>
      /\ lpc \in [Loggers -> {"idle", "lockPlain", "lockTime", "lockStdout", "head",
                              "body", "unlock", "close", "clear", "open"}]
      /\ Worker \notin Loggers
  BY CPrintfNames DEF PrintMutInv, PfdInv, CTypes, PrintTypeOK
<1>1. CASE RingStep
  BY <1>1, RingEffect, SameLines
<1>2. CASE PrintfDtor \/ WriteData \/ Seek \/ WriteDone \/ CWorkerCancelled
  <2>1. log' = log /\ lpc' = lpc
    BY <1>2 DEF PrintfDtor, WriteData, Seek, WriteDone, CWorkerCancelled
  <2>2. QED
    BY <2>1, SameLines
<1>3. CASE Fwrite
  <2>1. lpc' = lpc /\ m_pfd # NULL /\ m_printMut = Worker
    BY <1>0, <1>3 DEF Fwrite, PfdInv
  <2>2. log' = IF m_pfd = Stdout THEN log ELSE Append(log, <<Worker, "line">>)
    BY <1>3, <2>1, PieceLogged DEF Fwrite
  <2>3. \A u \in Loggers : lpc[u] # "body"
    BY <1>0, <2>1 DEF LogInside
  <2>4. CASE m_pfd = Stdout
    BY <1>0, <2>2, <2>4, NoLines
  <2>5. CASE m_pfd # Stdout
    BY <2>2, <2>3, <2>5, NextPiece
  <2>6. QED
    BY <2>4, <2>5
<1>4. ASSUME NEW t \in Loggers, LoggerCalls(t) \/ LoggerSteps(t) PROVE Paired'
  <2>0. \A u \in Loggers : u # t => lpc'[u] = lpc[u]
    <3>1. PICK where : LGo(t, where)
      BY <1>4, LoggerEffect
    <3>2. QED
      BY <1>0, <3>1 DEF LGo
  <2>1. CASE log' = log /\ lpc[t] # "body"
    BY <2>0, <2>1, SameLines
  <2>2. CASE m_pfd = Stdout /\ log' = log
    BY <1>0, <2>2, NoLines
  <2>3. ASSUME NEW part \in {"head", "body"}, lpc[t] = part, part = "head" => lpc'[t] = "body",
               log' = Append(log, <<t, part>>)
        PROVE  Paired'
    <3>1. \A u \in Loggers : lpc[u] = "body" => u = t /\ part = "body"
      BY <1>0, <2>3 DEF LogInside
    <3>2. QED
      BY <2>3, <3>1, NextPiece
  <2>4. QED
    BY <1>4, <2>1, <2>2, <2>3, LoggerEffect
<1>5. QED
  BY <1>1, <1>2, <1>3, <1>4, CNextCases

LEMMA NextCInv == CInv /\ [CNext]_allVars => CInv'
<1> SUFFICES ASSUME CInv, [CNext]_allVars PROVE CInv'
  OBVIOUS
<1>1. CASE CNext
  <2>1. IInv'
    BY <1>1, StepsOfTwoBuf, NextIInv DEF CInv
  <2>2. CTypes' /\ PrintMutInv'
    BY <1>1, CTypesNext, PrintMutNext DEF CInv
  <2>3. ASSUME ~reopened' PROVE PfdInv' /\ Paired'
    BY <1>1, <2>3, StaysClosed, PfdNext, PairedNext DEF CInv, LinesWhole, Paired
  <2>4. QED
    BY <2>1, <2>2, <2>3 DEF CInv, LinesWhole, Paired
<1>2. CASE UNCHANGED allVars
  <2>1. UNCHANGED vars /\ UNCHANGED <<thr, wpc, own>>
    BY <1>2 DEF allVars, vars, pthVars, workVars
  <2>2. IInv'
    BY <2>1, NextIInv DEF CInv
  <2>3. UNCHANGED <<m_pfd, m_mark, open, files, m_printMut, lpc, log, broken, reopened, lines>>
        /\ UNCHANGED <<c_pfd, c_mark, wcb>>
    BY <1>2 DEF allVars, printVars, fileVars, cVars
  <2>4. CTypes' /\ PrintMutInv'
    BY <2>1, <2>3 DEF CInv, CTypes, PrintTypeOK, PrintMutInv, InCallback
  <2>5. (~reopened => PfdInv) => (~reopened' => PfdInv')
    BY <2>3 DEF PfdInv
  <2>6. LinesWhole => LinesWhole'
    BY <2>3 DEF LinesWhole, LineOf
  <2>7. QED
    BY <2>2, <2>4, <2>5, <2>6 DEF CInv
<1>3. QED
  BY <1>1, <1>2

\* Every reachable state of the asynchronous log satisfies its invariant.
THEOREM LogInductive == CSpec => []CInv
BY InitCInv, NextCInv, PTL DEF CSpec

\* No other line comes between the stamp and the text of a line, whoever writes
\* through the ring and whoever directly, until m_pfd is replaced.
THEOREM LinesStayWhole == CSpec => []LogWhole
<1>1. CInv => LogWhole
  BY DEF CInv, CTypes, IInv, LogWhole
<1>2. QED
  BY LogInductive, <1>1, PTL

\* Nobody uses a FILE after fclose or m_printMut after its destruction, the
\* worker included when the process ends, until m_pfd is replaced.
THEOREM FileOutlivesLines == CSpec => []NoUseAfterClose
<1>1. CInv => NoUseAfterClose
  BY DEF CInv, PfdInv, NoUseAfterClose
<1>2. QED
  BY LogInductive, <1>1, PTL

\* What TwoBuf promises of its ring holds of the asynchronous log, whose worker
\* has four steps in place of the callback's one and whose owner may have to
\* wait for the direct log: no lost wake-up, no worker in the base destructor,
\* and lines that come out in order, each at most once.
THEOREM LogKeepsRing ==
  CSpec => []TokensCoverRing /\ []NoWorkerInBaseDtor /\ ImplementsQueue
<1>1. CInit => Init
  BY DEF CInit
<1>2. [CNext]_allVars => [Next]_vars
  <2>1. UNCHANGED allVars => UNCHANGED vars
    BY DEF allVars
  <2>2. QED
    BY <2>1, StepsOfTwoBuf
<1>3. CSpec => []IInv
  <2>1. CInv => IInv
    BY DEF CInv
  <2>2. QED
    BY LogInductive, <2>1, PTL
<1>4. IInv /\ IndexInv /\ [Next]_vars => IndexInv'
  BY IndexStep
<1>5. CSpec => []IndexInv
  BY <1>1, <1>2, <1>3, <1>4, InitIndexInv, PTL DEF CSpec
<1>6. IInv => TokensCoverRing /\ NoWorkerInBaseDtor
  BY DEF IInv, LifeInv, NoWorkerInBaseDtor
<1>7. CSpec => ImplementsQueue
  BY <1>1, <1>2, <1>3, <1>5, InitQueue, NextQueue, PTL
     DEF CSpec, ImplementsQueue, Queue!Spec, QueueStep
<1>8. QED
  BY <1>3, <1>6, <1>7, PTL

=============================================================================
