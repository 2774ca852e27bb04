--------------------------- MODULE SemShareProofs ---------------------------
(***************************************************************************)
(* Proofs about SemShare for every ring size, set of producers, kernel     *)
(* limit SEMAEM and number of writes and deaths: no wake-up is missed but  *)
(* through SEM_UNDO, indices and count agree outside the critical          *)
(* sections, and each write is delivered at most once and in order, though *)
(* a process may die between any two stores, those of a reset included.    *)
(***************************************************************************)
EXTENDS SemShare, ArithmeticProofs, SequenceTheorems, TLAPS

\* The lock is held by the one process whose critical section is open; a
\* writer in it has room until it counts, a reader has still its element.
LockInv ==
  /\ \A p \in Producers : (lock = p <=> ppc[p] # "idle")
  /\ lock = Consumer <=> wpc = "index"
  /\ lock = Joiner <=> rpc # "no"
  /\ lock \in alive \cup {Free, Joiner}
  /\ \A p \in Producers : ppc[p] \in {"slot", "index"} => pSize < N
  /\ wpc = "index" => pSize > 0
  /\ wpc # "gone" => Consumer \in alive

\* What the semaphore would hold if the consumer's own operations were undone,
\* with the tokens lost: that covers the ring too, which is why the end of the
\* consumer, between taking a token and reading, loses no wake-up.
Balance == semval + lost + semadj[Consumer]

UndoInv == pSize <= Balance + Unsignalled /\ Balance >= 0

\* A reset in progress has set the first index, then the second, then the count.
ResetInv ==
  /\ rpc # "no" => pRd = 0
  /\ rpc \in {"count", "key"} => pWr = 0
  /\ rpc = "key" => pSize = 0

SafeInv == TypeOK /\ LockInv /\ ResetInv /\ TokensCoverRing /\ UndoInv

\* The elements written and not yet taken, from the read index on; inside a
\* critical section the count lags behind them, and inside a reset the ring
\* holds nothing any more.
Resetting == rpc \in {"write", "count"}
Filling == lock \in Producers /\ ppc[lock] = "slot"
Writing == lock \in Producers /\ ppc[lock] \in {"slot", "index"}
Held == IF Resetting THEN 0
        ELSE IF Writing THEN pSize + 1 ELSE IF wpc = "index" THEN pSize - 1 ELSE pSize

Entries == [i \in 1 .. N |-> ring[(pRd + i - 1) % N]]

\* The write index is behind the elements held, or on the one being written.
IndexInv ==
  torn # "torn" /\ ~Resetting =>
    pWr = IF Filling THEN (pRd + pSize) % N ELSE (pRd + Held) % N

\* What was delivered, then what the thread has in hand, then what the ring
\* holds, are numbers of writes in ascending order.
OrderInv ==
  torn = "no" =>
    /\ \A i, j \in DOMAIN delivered : i < j => delivered[i] < delivered[j]
    /\ \A i \in DOMAIN delivered : delivered[i] <= writes
    /\ \A i, j \in 1 .. Held : i < j => Entries[i] < Entries[j]
    /\ \A i \in 1 .. Held : Entries[i] <= writes
    /\ \A i \in DOMAIN delivered, j \in 1 .. Held : delivered[i] < Entries[j]
    /\ wpc \in {"index", "call"} =>
         /\ val <= writes
         /\ \A i \in DOMAIN delivered : delivered[i] < val
         /\ \A j \in 1 .. Held : val < Entries[j]

IInv == SafeInv /\ IndexInv /\ OrderInv

-----------------------------------------------------------------------------
(* The semaphore.                                                          *)

\* A bound kept: the sum b + u of two parts moves to c + v, of which one may
\* take over d of the other.
LEMMA Covers ==
  ASSUME NEW s \in Int, NEW t \in Int, NEW b \in Int, NEW c \in Int,
         NEW u \in Nat, NEW v \in Nat, NEW d \in Nat,
         c >= b + d, u <= v + d, t <= s, s <= b + u
  PROVE  t <= c + v
OBVIOUS

\* A release leaves a token or counts one as lost; only the consumer's own
\* releases are undone with it.
LEMMA ReleaseCounts ==
  ASSUME TypeOK, NEW p \in Procs, Release(p)
  PROVE  /\ semval' \in Nat /\ lost' \in Nat
         /\ semadj' \in [Procs -> -(SEMAEM + 1) .. SEMAEM]
         /\ semval' + lost' = semval + lost + 1
         /\ Balance' >= Balance
         /\ p # Consumer => Balance' = Balance + 1
<1> USE SemShareAssumption DEF TypeOK, Release, CanPost, semVars, Balance, Procs
<1>1. /\ semval \in Nat /\ lost \in Nat /\ semadj[Consumer] \in Int /\ semadj[p] \in Int
      /\ Consumer \in Procs
  OBVIOUS
<1>2. CASE CanPost(p)
  <2>1. /\ semval' = semval + 1 /\ lost' = lost
        /\ semadj' = [semadj EXCEPT ![p] = @ - 1]
    BY <1>2
  <2>2. semadj' \in [Procs -> -(SEMAEM + 1) .. SEMAEM]
    <3>1. semadj[p] - 1 \in -(SEMAEM + 1) .. SEMAEM
      BY <1>2
    <3>2. QED
      BY <2>1, <3>1
  <2>3. semadj'[Consumer] = IF p = Consumer THEN semadj[Consumer] - 1 ELSE semadj[Consumer]
    BY <2>1
  <2> HIDE DEF TypeOK, Release
  <2>4. QED
    BY <1>1, <2>1, <2>2, <2>3
<1>3. CASE ~CanPost(p)
  BY <1>3
<1>4. QED
  BY <1>2, <1>3

\* The kernel's undo at the end of a process loses as many tokens as it says.
LEMMA UndoCounts ==
  ASSUME TypeOK, NEW p \in Procs, NEW n \in Nat, EndOf(p, n)
  PROVE  /\ semval' \in Nat /\ lost' \in Nat
         /\ semadj' \in [Procs -> -(SEMAEM + 1) .. SEMAEM]
         /\ semval' + lost' >= semval + lost + n
         /\ p # Consumer => semadj'[Consumer] = semadj[Consumer]
         /\ p = Consumer => semadj'[Consumer] = 0 /\ semval' + lost' >= Balance + n
<1>1. semadj[p] \in Int /\ semval \in Nat /\ lost \in Nat /\ Consumer \in Procs
  BY SemShareAssumption DEF TypeOK, Procs
<1>2. Undone(p) \in Nat /\ Undone(p) >= semval + semadj[p]
  BY <1>1 DEF Undone
<1>3. semval' = Undone(p) /\ semadj' = [semadj EXCEPT ![p] = 0]
  BY DEF EndOf
<1>4. /\ semadj' \in [Procs -> -(SEMAEM + 1) .. SEMAEM]
      /\ semadj'[p] = 0 /\ \A q \in Procs \ {p} : semadj'[q] = semadj[q]
  BY <1>3, SemShareAssumption DEF TypeOK
<1>5. lost' = lost + n + (IF Undone(p) < semval THEN semval - Undone(p) ELSE 0)
  BY DEF EndOf
<1>6. /\ lost' \in Nat /\ semval' + lost' >= semval + lost + n
      /\ semval' + lost' >= semval + semadj[p] + lost + n
  BY <1>1, <1>2, <1>3, <1>5
<1>7. p = Consumer => semval' + lost' >= Balance + n
  BY <1>1, <1>6 DEF Balance
<1>8. QED
  BY <1>1, <1>2, <1>3, <1>4, <1>6, <1>7

-----------------------------------------------------------------------------
(* Types, the lock and the tokens: one lemma per actor.                    *)

LEMMA InitSafe == Init => SafeInv
<1> SUFFICES ASSUME Init PROVE SafeInv
  OBVIOUS
<1> USE SemShareAssumption, SemShareNames DEF Init
<1>1. TypeOK
  BY EmptySeq DEF TypeOK, Slots, Procs
<1>2. LockInv
  BY DEF LockInv, Procs, Free, Joiner
<1>3. TokensCoverRing
  BY DEF TokensCoverRing, Committed, Unsignalled
<1>4. UndoInv
  BY DEF UndoInv, Balance, Unsignalled, Procs
<1>5. ResetInv
  BY DEF ResetInv
<1>6. QED
  BY <1>1, <1>2, <1>3, <1>4, <1>5 DEF SafeInv

\* write_send_data up to the count.
LEMMA WriterSafe ==
  ASSUME SafeInv, NEW p \in Producers, WriteSlot(p) \/ WriteIndex(p) \/ WriteCount(p)
  PROVE  TypeOK' /\ LockInv' /\ TokensCoverRing'
<1> USE SemShareAssumption, SemShareNames
    DEF Free, Joiner, SafeInv, ringVars, semVars, thrVars, Procs
<1>1. CASE WriteSlot(p)
  <2>1. TypeOK'
    BY <1>1 DEF WriteSlot, HasRoom, TypeOK
  <2>2. LockInv'
    BY <1>1 DEF WriteSlot, HasRoom, TypeOK, LockInv
  <2>3. TokensCoverRing'
    BY <1>1 DEF WriteSlot, TypeOK, LockInv, TokensCoverRing, Committed, Unsignalled
  <2>4. QED
    BY <2>1, <2>2, <2>3
<1>2. CASE WriteIndex(p)
  <2>1. (pWr + 1) % N \in Slots
    BY SlotStep DEF TypeOK, Slots
  <2>2. TypeOK'
    BY <1>2, <2>1 DEF WriteIndex, TypeOK
  <2>3. LockInv'
    BY <1>2 DEF WriteIndex, TypeOK, LockInv
  <2>4. TokensCoverRing'
    BY <1>2 DEF WriteIndex, TypeOK, LockInv, TokensCoverRing, Committed, Unsignalled
  <2>5. QED
    BY <2>2, <2>3, <2>4
<1>3. CASE WriteCount(p)
  <2>1. pSize < N
    BY <1>3 DEF WriteCount, LockInv
  <2>2. TypeOK'
    BY <1>3, <2>1 DEF WriteCount, TypeOK
  <2>3. LockInv'
    BY <1>3 DEF WriteCount, TypeOK, LockInv
  <2>4. TokensCoverRing'
    <3>1. Unsignalled' = 1 /\ Unsignalled = 0 /\ Committed' = Committed
      BY <1>3 DEF WriteCount, TypeOK, LockInv, Committed, Unsignalled
    <3>2. QED
      BY <1>3, <3>1 DEF WriteCount, TypeOK, TokensCoverRing, Committed
  <2>5. QED
    BY <2>2, <2>3, <2>4
<1>4. QED
  BY <1>1, <1>2, <1>3

\* The release at the end of write_send_data covers the element just counted.
LEMMA WriteEndSafe ==
  ASSUME SafeInv, NEW p \in Producers, WriteEnd(p)
  PROVE  TypeOK' /\ LockInv' /\ TokensCoverRing'
<1> USE SemShareAssumption, SemShareNames
    DEF Free, Joiner, SafeInv, WriteEnd, Signal, ringVars, thrVars, Procs
<1>1. /\ semval' \in Nat /\ lost' \in Nat
      /\ semadj' \in [Procs -> -(SEMAEM + 1) .. SEMAEM]
      /\ semval' + lost' = semval + lost + 1
  BY ReleaseCounts
<1>2. TypeOK'
  BY <1>1 DEF TypeOK
<1>3. LockInv'
  BY DEF TypeOK, LockInv
<1>4. TokensCoverRing'
  <2>1. Unsignalled' = 0 /\ Unsignalled = 1 /\ Committed' = Committed
    BY DEF TypeOK, LockInv, Committed, Unsignalled
  <2>2. pSize' = pSize /\ pSize \in Nat /\ semval \in Nat /\ lost \in Nat
        /\ Committed \in Nat
    BY DEF TypeOK, Committed
  <2> HIDE DEF SafeInv, WriteEnd
  <2>3. pSize <= semval + Committed + Unsignalled + lost
    BY DEF SafeInv, TokensCoverRing
  <2>4. \A n, v, c, l, v2, l2 \in Nat :
          n <= v + c + 1 + l /\ v2 + l2 = v + l + 1 => n <= v2 + c + 0 + l2
    OBVIOUS
  <2>5. pSize <= semval' + Committed + 0 + lost'
    BY <1>1, <2>1, <2>2, <2>3, <2>4
  <2>6. QED
    BY <2>1, <2>2, <2>5 DEF TokensCoverRing
<1>5. QED
  BY <1>2, <1>3, <1>4

\* The thread of the consumer: a token taken is a read to come, and a read
\* that finds nothing needs none.
LEMMA ThreadSafe ==
  ASSUME SafeInv, ThreadStep
  PROVE  TypeOK' /\ LockInv' /\ TokensCoverRing'
<1> USE SemShareAssumption, SemShareNames
    DEF Free, Joiner, SafeInv, ringVars, semVars, AfterLoopTest, Procs
<1>1. CASE Acquire
  <2>1. TypeOK'
    <3>1. semval > 0 /\ semval \in Nat
      BY <1>1 DEF Acquire, TypeOK
    <3>2. semval' \in Nat
      BY <1>1, <3>1 DEF Acquire
    <3>3. semadj' \in [Procs -> -(SEMAEM + 1) .. SEMAEM]
      BY <1>1 DEF Acquire, CanTake, TypeOK
    <3>4. QED
      BY <1>1, <3>2, <3>3 DEF Acquire, TypeOK
  <2>2. LockInv'
    BY <1>1 DEF Acquire, TypeOK, LockInv
  <2>3. TokensCoverRing'
    <3>1. Unsignalled' = Unsignalled
      BY <1>1 DEF Acquire, Unsignalled
    <3>2. QED
      BY <1>1, <3>1 DEF Acquire, TypeOK, TokensCoverRing, Committed
  <2>4. QED
    BY <2>1, <2>2, <2>3
<1>2. CASE ReadEmpty
  <2>1. TypeOK' /\ LockInv'
    BY <1>2 DEF ReadEmpty, TypeOK, LockInv
  <2>2. TokensCoverRing'
    BY <1>2 DEF ReadEmpty, TypeOK, TokensCoverRing, Committed, Unsignalled
  <2>3. QED
    BY <2>1, <2>2
<1>3. CASE ReadIndex
  <2>1. (pRd + 1) % N \in Slots /\ Oldest \in Nat
    BY SlotStep DEF TypeOK, Slots, Oldest
  <2>2. TypeOK'
    BY <1>3, <2>1 DEF ReadIndex, TypeOK
  <2>3. LockInv'
    BY <1>3 DEF ReadIndex, TypeOK, LockInv
  <2>4. TokensCoverRing'
    BY <1>3 DEF ReadIndex, TypeOK, TokensCoverRing, Committed, Unsignalled
  <2>5. QED
    BY <2>2, <2>3, <2>4
<1>4. CASE ReadCount
  <2>1. pSize > 0
    BY <1>4 DEF ReadCount, LockInv
  <2>2. TypeOK'
    BY <1>4, <2>1 DEF ReadCount, TypeOK
  <2>3. LockInv'
    BY <1>4 DEF ReadCount, TypeOK, LockInv
  <2>4. TokensCoverRing'
    <3>1. Unsignalled' = Unsignalled /\ Committed = 1 /\ Committed' = 0
      BY <1>4 DEF ReadCount, Committed, Unsignalled
    <3>2. Unsignalled \in Nat
      BY DEF Unsignalled
    <3>3. QED
      BY <1>4, <3>1, <3>2 DEF ReadCount, TypeOK, TokensCoverRing
  <2>5. QED
    BY <2>2, <2>3, <2>4
<1>5. CASE Callback
  <2>1. delivered' \in Seq(Nat)
    BY <1>5, AppendProperties DEF Callback, TypeOK
  <2>2. TypeOK'
    BY <1>5, <2>1 DEF Callback, TypeOK
  <2>3. LockInv'
    BY <1>5 DEF Callback, TypeOK, LockInv
  <2>4. TokensCoverRing'
    BY <1>5 DEF Callback, TypeOK, TokensCoverRing, Committed, Unsignalled
  <2>5. QED
    BY <2>2, <2>3, <2>4
<1>6. CASE LeaveUnread
  <2>1. TypeOK' /\ LockInv'
    BY <1>6 DEF LeaveUnread, TypeOK, LockInv
  <2>2. TokensCoverRing'
    BY <1>6 DEF LeaveUnread, TypeOK, TokensCoverRing, Committed, Unsignalled
  <2>3. QED
    BY <2>1, <2>2
<1>7. QED
  BY <1>1, <1>2, <1>3, <1>4, <1>5, <1>6 DEF ThreadStep

\* The release of the destructor adds a token that covers nothing.
LEMMA StopSafe ==
  ASSUME SafeInv, Stop
  PROVE  TypeOK' /\ LockInv' /\ TokensCoverRing'
<1> USE SemShareAssumption, SemShareNames
    DEF Free, Joiner, SafeInv, Stop, StopSignal, ringVars, Procs
<1>1. /\ semval' \in Nat /\ lost' \in Nat
      /\ semadj' \in [Procs -> -(SEMAEM + 1) .. SEMAEM]
      /\ semval' + lost' = semval + lost + 1
  BY ReleaseCounts
<1>2. TypeOK' /\ LockInv'
  BY <1>1 DEF TypeOK, LockInv
<1>3. TokensCoverRing'
  <2>1. Unsignalled' = Unsignalled /\ Committed' = Committed /\ pSize' = pSize
    BY DEF Committed, Unsignalled
  <2>2. /\ pSize \in Nat /\ semval \in Nat /\ lost \in Nat
        /\ Committed \in Nat /\ Unsignalled \in Nat
    BY DEF TypeOK, Committed, Unsignalled
  <2> HIDE DEF SafeInv, Stop
  <2>3. pSize <= semval + Committed + Unsignalled + lost
    BY DEF SafeInv, TokensCoverRing
  <2>4. \A n, v, c, u, l, v2, l2 \in Nat :
          n <= v + c + u + l /\ v2 + l2 = v + l + 1 => n <= v2 + c + u + l2
    OBVIOUS
  <2>5. pSize <= semval' + Committed + Unsignalled + lost'
    BY <1>1, <2>2, <2>3, <2>4
  <2>6. QED
    BY <2>1, <2>5 DEF TokensCoverRing
<1>4. QED
  BY <1>2, <1>3

\* A process that ends takes back what it released, and an element it had
\* counted without releasing is lost too.
LEMMA EndSafe ==
  ASSUME SafeInv, ConsumerEnds \/ \E p \in Producers : ProducerEnds(p)
  PROVE  TypeOK' /\ LockInv' /\ TokensCoverRing'
<1> USE SemShareAssumption, SemShareNames DEF Free, Joiner, SafeInv, ringVars, Procs
<1>1. CASE ConsumerEnds
  <2>1. /\ semval' \in Nat /\ lost' \in Nat
        /\ semadj' \in [Procs -> -(SEMAEM + 1) .. SEMAEM]
        /\ semval' + lost' >= semval + lost + 0
    BY <1>1, UndoCounts DEF ConsumerEnds
  <2>2. TypeOK'
    <3>1. ends' \in Nat /\ lock' \in Procs \cup {Free, Joiner} /\ alive' \subseteq Procs
      BY <1>1 DEF ConsumerEnds, EndOf, TypeOK
    <3>2. UNCHANGED <<ring, pRd, pWr, pSize, ppc, rpc, running, val, delivered, writes>>
      BY <1>1 DEF ConsumerEnds, EndOf
    <3>3. torn' \in {"no", "torn", "was"} /\ wpc' = "gone"
      BY <1>1 DEF ConsumerEnds, TypeOK
    <3>4. QED
      BY <2>1, <3>1, <3>2, <3>3 DEF TypeOK
  <2>3. LockInv'
    BY <1>1 DEF ConsumerEnds, EndOf, TypeOK, LockInv
  <2>4. TokensCoverRing'
    <3>1. Unsignalled' = Unsignalled /\ Committed' = 0 /\ pSize' = pSize
          /\ semadj'[Consumer] = 0
      BY <1>1 DEF ConsumerEnds, EndOf, Committed, Unsignalled, TypeOK
    <3>2. semval' + lost' >= Balance + 0
      BY <1>1, UndoCounts DEF ConsumerEnds
    <3>3. /\ pSize \in Nat /\ Balance \in Int /\ Unsignalled \in Nat
      BY DEF TypeOK, Balance, Unsignalled
    <3> HIDE DEF SafeInv
    <3>4. pSize <= Balance + Unsignalled
      BY DEF SafeInv, UndoInv
    <3>5. \A n, u, v, l \in Nat, b \in Int :
            n <= b + u /\ v + l >= b + 0 => n <= v + 0 + u + l
      OBVIOUS
    <3>6. pSize <= semval' + 0 + Unsignalled + lost'
      BY <2>1, <3>2, <3>3, <3>4, <3>5
    <3>7. QED
      BY <3>1, <3>6 DEF TokensCoverRing
  <2>5. QED
    BY <2>2, <2>3, <2>4
<1>2. ASSUME NEW p \in Producers, ProducerEnds(p)
      PROVE  TypeOK' /\ LockInv' /\ TokensCoverRing'
  <2> DEFINE n == IF ppc[p] = "count" THEN 1 ELSE 0
  <2>1. /\ semval' \in Nat /\ lost' \in Nat
        /\ semadj' \in [Procs -> -(SEMAEM + 1) .. SEMAEM]
        /\ semval' + lost' >= semval + lost + n
    BY <1>2, UndoCounts DEF ProducerEnds
  <2>2. TypeOK'
    <3>1. ends' \in Nat /\ lock' \in Procs \cup {Free, Joiner} /\ alive' \subseteq Procs
      BY <1>2 DEF ProducerEnds, EndOf, TypeOK
    <3>2. UNCHANGED <<ring, pRd, pWr, pSize, wpc, rpc, running, val, delivered, writes>>
      BY <1>2 DEF ProducerEnds, EndOf
    <3>3. torn' \in {"no", "torn", "was"}
      BY <1>2 DEF ProducerEnds, TypeOK
    <3>4. ppc' \in [Producers -> {"idle", "slot", "index", "count"}]
      BY <1>2 DEF ProducerEnds, TypeOK
    <3>5. QED
      BY <2>1, <3>1, <3>2, <3>3, <3>4 DEF TypeOK
  <2>3. LockInv'
    BY <1>2 DEF ProducerEnds, EndOf, TypeOK, LockInv
  <2>4. TokensCoverRing'
    <3>1. Unsignalled <= Unsignalled' + n /\ Committed' = Committed /\ pSize' = pSize
      BY <1>2 DEF ProducerEnds, EndOf, TypeOK, LockInv, Committed, Unsignalled
    <3>2. /\ pSize \in Nat /\ semval \in Nat /\ lost \in Nat /\ n \in Nat
          /\ Committed \in Nat /\ Unsignalled \in Nat /\ Unsignalled' \in Nat
      BY DEF TypeOK, Committed, Unsignalled
    <3> HIDE DEF SafeInv, n
    <3>3. pSize <= semval + Committed + Unsignalled + lost
      BY DEF SafeInv, TokensCoverRing
    <3>4. \A a, v, c, u, l, v2, u2, l2, k \in Nat :
            a <= v + c + u + l /\ v2 + l2 >= v + l + k /\ u <= u2 + k
              => a <= v2 + c + u2 + l2
      OBVIOUS
    <3>5. pSize <= semval' + Committed + Unsignalled' + lost'
      BY <2>1, <3>1, <3>2, <3>3, <3>4
    <3>6. QED
      BY <3>1, <3>5 DEF TokensCoverRing
  <2>5. QED
    BY <2>2, <2>3, <2>4
<1>3. QED
  BY <1>1, <1>2

\* Who is in creat_sem_data.
JoinerMoves ==
  ResetRead \/ ResetWrite \/ ResetSize \/ CreateSemFails \/ JoinerDies
    \/ \E p \in Procs : OpenSem(p)

\* What they share: ring, semaphore, producers and history are left alone, the
\* count is kept or 0, and the consumer's thread stays or starts.
LEMMA JoinerFrame ==
  ASSUME SafeInv, JoinerMoves
  PROVE  /\ UNCHANGED <<ring, semval, semadj, ppc, val, delivered, lost, writes>>
         /\ pSize' \in {pSize, 0} /\ alive \subseteq alive' /\ alive' \subseteq Procs
         /\ wpc' = wpc \/ (wpc = "gone" /\ wpc' = "wait" /\ Consumer \in alive')
         /\ lock \in {Free, Joiner} /\ lock' \in {Free, Joiner}
<1>1. UNCHANGED <<ring, semval, semadj, ppc, val, delivered, lost, writes>>
  BY DEF JoinerMoves, ResetRead, ResetWrite, ResetSize, CreateSemFails, JoinerDies,
         OpenSem, LeaveReset, joinVars, semVars
<1>2. pSize' \in {pSize, 0}
  BY DEF JoinerMoves, ResetRead, ResetWrite, ResetSize, CreateSemFails, JoinerDies,
         OpenSem, LeaveReset, ResetCount
<1>3. lock \in {Free, Joiner} /\ lock' \in {Free, Joiner}
  BY DEF JoinerMoves, ResetRead, ResetWrite, ResetSize, CreateSemFails, JoinerDies,
         OpenSem, LeaveReset, SafeInv, LockInv
<1>4. /\ alive \subseteq alive' /\ alive' \subseteq Procs
      /\ wpc' = wpc \/ (wpc = "gone" /\ wpc' = "wait" /\ Consumer \in alive')
  <2>1. ASSUME NEW p \in Procs, OpenSem(p)
        PROVE  /\ alive \subseteq alive' /\ alive' \subseteq Procs
               /\ wpc' = wpc \/ (wpc = "gone" /\ wpc' = "wait" /\ Consumer \in alive')
    BY <2>1 DEF OpenSem, SafeInv, LockInv, TypeOK
  <2>2. CASE ResetRead \/ ResetWrite \/ ResetSize \/ CreateSemFails \/ JoinerDies
    BY <2>2 DEF ResetRead, ResetWrite, ResetSize, CreateSemFails, JoinerDies, SafeInv, TypeOK
  <2>3. QED
    BY <2>1, <2>2 DEF JoinerMoves
<1>5. QED
  BY <1>1, <1>2, <1>3, <1>4

\* A process that joins, whether it survives or not, leaves types and lock in
\* order and empties the ring or leaves it alone.
LEMMA JoinSafe ==
  ASSUME SafeInv, JoinerMoves
  PROVE  TypeOK' /\ LockInv' /\ TokensCoverRing'
<1> USE SemShareAssumption, SemShareNames DEF Free, Joiner, SafeInv, Procs
<1>0. SafeInv
  OBVIOUS
<1>1. /\ UNCHANGED <<ring, semval, semadj, ppc, val, delivered, lost, writes>>
      /\ pSize' \in {pSize, 0} /\ alive \subseteq alive' /\ alive' \subseteq Procs
      /\ wpc' = wpc \/ (wpc = "gone" /\ wpc' = "wait" /\ Consumer \in alive')
      /\ lock \in {Free, Joiner} /\ lock' \in {Free, Joiner}
  BY <1>0, JoinerFrame
<1>2. /\ pRd' \in Slots /\ pWr' \in Slots /\ rpc' \in {"no", "write", "count", "key"}
      /\ running' \in {0, 1} /\ torn' \in {"no", "torn", "was"} /\ ends' \in Nat
  <2>1. TypeOK /\ 0 \in Slots
    BY DEF Slots
  <2>2. /\ pRd' \in {pRd, 0} /\ pWr' \in {pWr, 0} /\ running' \in {running, 1}
        /\ torn' \in {torn, "torn", "was"} /\ ends' \in {ends, ends + 1}
        /\ rpc' \in {"no", "write", "count", "key"}
    BY DEF JoinerMoves, ResetRead, ResetWrite, ResetSize, CreateSemFails, JoinerDies,
           OpenSem, LeaveReset
  <2>3. QED
    BY <2>1, <2>2 DEF TypeOK
<1>3. lock' = Joiner <=> rpc' # "no"
  <2>1. \/ lock' = Joiner /\ rpc' \in {"write", "count", "key"}
        \/ lock' = Free /\ rpc' = "no"
    BY DEF JoinerMoves, ResetRead, ResetWrite, ResetSize, CreateSemFails, JoinerDies,
           OpenSem, LeaveReset, LockInv
  <2>2. QED
    BY <2>1
<1>4. pSize' \in 0 .. N
  BY <1>1 DEF TypeOK
<1> HIDE DEF SafeInv
<1>5. TypeOK'
  <2>1. TypeOK
    BY <1>0 DEF SafeInv
  <2>2. lock' \in Procs \cup {Free, Joiner}
    BY <1>1
  <2>3. wpc' \in {"wait", "read", "index", "call", "left", "gone"}
    BY <1>1, <2>1 DEF TypeOK
  <2>4. QED
    BY <1>1, <1>2, <1>4, <2>1, <2>2, <2>3 DEF TypeOK
<1>6. LockInv'
  BY <1>0, <1>1, <1>3 DEF SafeInv, LockInv
<1>7. TokensCoverRing'
  <2>1. Unsignalled' = Unsignalled /\ Committed' = Committed
    BY <1>1 DEF Unsignalled, Committed
  <2>2. /\ pSize \in Nat /\ semval \in Nat /\ lost \in Nat
        /\ Committed \in Nat /\ Unsignalled \in Nat
    BY <1>0 DEF SafeInv, TypeOK, Committed, Unsignalled
  <2>3. pSize <= semval + Committed + Unsignalled + lost
    BY <1>0 DEF SafeInv, TokensCoverRing
  <2>4. pSize' <= semval + Committed + Unsignalled + lost
    BY <1>1, <2>2, <2>3
  <2>5. QED
    BY <1>1, <2>1, <2>4 DEF TokensCoverRing
<1>8. QED
  BY <1>5, <1>6, <1>7

\* The stores of a reset come one after the other, and nobody else moves the
\* ring meanwhile.
LEMMA NextReset ==
  ASSUME SafeInv, [Next]_vars
  PROVE  ResetInv'
<1> USE DEF SafeInv, ResetInv
<1>1. CASE JoinerMoves
  BY <1>1 DEF JoinerMoves, ResetRead, ResetWrite, ResetSize, CreateSemFails, JoinerDies,
              OpenSem, LeaveReset, ResetCount, LockInv
<1>2. ASSUME NEW p \in Producers, WriteSlot(p) \/ WriteStep(p) PROVE ResetInv'
  <2>1. rpc = "no" /\ rpc' = rpc
    BY <1>2, SemShareNames
       DEF WriteSlot, WriteStep, WriteIndex, WriteCount, WriteEnd, LockInv,
           Free, Joiner
  <2>2. QED
    BY <2>1
<1>3. CASE ReadIndex \/ ReadCount
  <2>1. rpc = "no" /\ rpc' = rpc
    BY <1>3, SemShareNames DEF ReadIndex, ReadCount, LockInv, Free, Joiner
  <2>2. QED
    BY <2>1
<1>4. CASE UNCHANGED <<ringVars, rpc>>
  BY <1>4 DEF ringVars
<1>5. QED
  BY <1>1, <1>2, <1>3, <1>4
     DEF Next, ThreadStep, JoinStep, JoinerMoves, Acquire, ReadEmpty, LeaveUnread,
         Callback, Stop, ProducerEnds, ConsumerEnds, EndOf, vars

\* The balance only falls with the consumer's read, which takes the element
\* away with it, and what is counted without a release stays covered.
LEMMA NextUndo ==
  ASSUME SafeInv, [Next]_vars
  PROVE  UndoInv'
<1>1. /\ pSize \in Nat /\ Balance \in Int /\ Balance >= 0
      /\ Unsignalled \in Nat /\ Unsignalled' \in Nat
      /\ pSize <= Balance + Unsignalled
  BY SemShareAssumption DEF SafeInv, UndoInv, Balance, TypeOK, Unsignalled, Procs
<1>2. ASSUME NEW d \in Nat, Balance' \in Int, Balance' >= Balance + d, pSize' \in Int,
             pSize' <= pSize, Unsignalled <= Unsignalled' + d
      PROVE  UndoInv'
  <2>1. Balance' >= 0
    BY <1>1, <1>2
  <2>2. pSize \in Int /\ d \in Nat
    BY <1>1, <1>2
  <2>3. pSize' <= Balance' + Unsignalled'
    BY <1>1, <1>2, <2>2, Covers, Zenon
  <2>4. QED
    BY <2>1, <2>3 DEF UndoInv
<1>3. ASSUME UNCHANGED <<semVars, lost>>, pSize' \in Int, pSize' <= pSize, UNCHANGED ppc
      PROVE  UndoInv'
  <2>1. Balance' = Balance /\ Unsignalled' = Unsignalled
    BY <1>3 DEF semVars, Balance, Unsignalled
  <2> HIDE DEF Balance
  <2>2. QED
    BY <1>1, <1>3, <2>1 DEF UndoInv
<1>4. ASSUME NEW p \in Producers, WriteSlot(p) \/ WriteIndex(p) PROVE UndoInv'
  <2>1. Balance' = Balance /\ pSize' = pSize
    BY <1>4 DEF WriteSlot, WriteIndex, semVars, Balance
  <2>2. Unsignalled' = Unsignalled
    BY <1>4 DEF WriteSlot, WriteIndex, SafeInv, TypeOK, Unsignalled
  <2>3. QED
    BY <1>1, <2>1, <2>2 DEF UndoInv
<1>5. ASSUME NEW p \in Producers, WriteCount(p) PROVE UndoInv'
  <2>1. Balance' = Balance /\ pSize' = pSize + 1
    BY <1>5 DEF WriteCount, semVars, Balance
  <2>2. Unsignalled' = 1 /\ Unsignalled = 0
    BY <1>5, SemShareNames
       DEF WriteCount, SafeInv, TypeOK, LockInv, Unsignalled
  <2>3. QED
    BY <1>1, <2>1, <2>2 DEF UndoInv
<1>6. ASSUME NEW p \in Producers, WriteEnd(p) PROVE UndoInv'
  <2>1. Balance' = Balance + 1
    BY <1>6, ReleaseCounts, SemShareAssumption DEF WriteEnd, Signal, SafeInv, Procs
  <2>2. pSize' = pSize /\ Unsignalled <= Unsignalled' + 1
    BY <1>6 DEF WriteEnd, ringVars, Unsignalled
  <2>3. Balance' \in Int /\ Balance' >= Balance + 1 /\ pSize' \in Int /\ pSize' <= pSize
    BY <1>1, <2>1, <2>2
  <2>4. QED
    BY <1>2, <2>2, <2>3
<1>7. CASE Acquire
  <2>1. Balance' = Balance /\ pSize' = pSize /\ Unsignalled' = Unsignalled
    BY <1>7, SemShareAssumption
       DEF Acquire, SafeInv, TypeOK, semVars, ringVars, Balance, Unsignalled, Procs
  <2>2. QED
    BY <1>1, <2>1 DEF UndoInv
<1>8. CASE ReadEmpty \/ LeaveUnread \/ ReadIndex \/ ReadCount \/ Callback
  BY <1>1, <1>3, <1>8 DEF ReadEmpty, LeaveUnread, ReadIndex, ReadCount, Callback, ringVars
<1>9. CASE Stop
  <2>1. Balance' >= Balance /\ Balance' \in Int
    <3>1. /\ semval' \in Nat /\ lost' \in Nat
          /\ semadj' \in [Procs -> -(SEMAEM + 1) .. SEMAEM]
          /\ Balance' >= Balance
      BY <1>9, ReleaseCounts DEF Stop, StopSignal, SafeInv, Procs
    <3>2. semadj'[Consumer] \in Int
      BY <3>1, SemShareAssumption DEF Procs
    <3>3. QED
      BY <3>1, <3>2 DEF Balance
  <2>2. pSize' = pSize /\ Unsignalled' = Unsignalled
    BY <1>9 DEF Stop, ringVars, Unsignalled
  <2>3. QED
    BY <1>1, <1>2, <2>1, <2>2
<1>10. ASSUME NEW p \in Producers, ProducerEnds(p) PROVE UndoInv'
  <2> DEFINE n == IF ppc[p] = "count" THEN 1 ELSE 0
  <2>1. /\ semval' \in Nat /\ lost' \in Nat
        /\ semval' + lost' >= semval + lost + n
        /\ semadj'[Consumer] = semadj[Consumer]
    BY <1>10, UndoCounts, SemShareAssumption DEF ProducerEnds, SafeInv, Procs
  <2>2. semadj[Consumer] \in Int /\ semval \in Nat /\ lost \in Nat /\ n \in Nat
    BY SemShareAssumption DEF SafeInv, TypeOK, Procs
  <2>3. pSize' = pSize /\ Unsignalled <= Unsignalled' + n
    BY <1>10 DEF ProducerEnds, EndOf, ringVars, SafeInv, TypeOK, Unsignalled
  <2> HIDE DEF n
  <2>4. \A v, l, v2, l2, k \in Nat, a \in Int :
          v2 + l2 >= v + l + k => v2 + l2 + a \in Int /\ v2 + l2 + a >= v + l + a + k
    OBVIOUS
  <2>5. Balance' \in Int /\ Balance' >= Balance + n
    BY <2>1, <2>2, <2>4 DEF Balance
  <2>6. pSize' \in Int /\ pSize' <= pSize
    BY <1>1, <2>3
  <2>7. QED
    BY <1>2, <2>2, <2>3, <2>5, <2>6
<1>11. CASE ConsumerEnds
  <2>1. /\ semval' \in Nat /\ lost' \in Nat /\ semadj'[Consumer] = 0
        /\ semval' + lost' >= Balance + 0
    BY <1>11, UndoCounts DEF ConsumerEnds, SafeInv, Procs
  <2>2. pSize' = pSize /\ Unsignalled' = Unsignalled
    BY <1>11 DEF ConsumerEnds, EndOf, ringVars, Unsignalled
  <2>3. Balance' \in Int /\ Balance' >= Balance
    BY <1>1, <2>1 DEF Balance
  <2>4. QED
    BY <1>1, <1>2, <2>2, <2>3
<1>12. CASE JoinerMoves
  <2>1. UNCHANGED <<semVars, lost>> /\ UNCHANGED ppc /\ pSize' \in {pSize, 0}
    BY <1>12, JoinerFrame DEF semVars
  <2>2. pSize' \in Int /\ pSize' <= pSize
    BY <1>1, <2>1
  <2>3. QED
    BY <1>3, <2>1, <2>2
<1>13. CASE UNCHANGED vars
  BY <1>1, <1>3, <1>13 DEF vars, ringVars
<1>14. QED
  BY <1>4, <1>5, <1>6, <1>7, <1>8, <1>9, <1>10, <1>11, <1>12, <1>13
     DEF Next, WriteStep, ThreadStep, JoinStep, JoinerMoves

\* Every step keeps types, lock, tokens and balance.
LEMMA NextSafe == SafeInv /\ [Next]_vars => SafeInv'
<1> SUFFICES ASSUME SafeInv, [Next]_vars
             PROVE  TypeOK' /\ LockInv' /\ TokensCoverRing'
  BY NextUndo, NextReset DEF SafeInv
<1>1. ASSUME NEW p \in Producers, WriteSlot(p) \/ WriteStep(p)
      PROVE  TypeOK' /\ LockInv' /\ TokensCoverRing'
  BY <1>1, WriterSafe, WriteEndSafe DEF WriteStep
<1>2. CASE UNCHANGED vars
  <2>1. TypeOK' /\ LockInv'
    BY <1>2 DEF vars, ringVars, semVars, thrVars, SafeInv, TypeOK, LockInv
  <2>2. TokensCoverRing'
    BY <1>2 DEF vars, ringVars, semVars, thrVars, SafeInv, TokensCoverRing,
                Committed, Unsignalled
  <2>3. QED
    BY <2>1, <2>2
<1>3. QED
  BY <1>1, <1>2, ThreadSafe, StopSafe, EndSafe, JoinSafe DEF Next, JoinStep, JoinerMoves

\* Types of the ring in shared memory, the lock, the semaphore and the
\* processes, whoever dies where.
THEOREM SafeAlways == Spec => []SafeInv
BY InitSafe, NextSafe, PTL DEF Spec

\* No lost wake-up: an element in the ring has a token, or the thread on its
\* way, or its writer about to release; every other token was lost by SEM_UNDO.
THEOREM NoLostWakeup == Spec => []TokensCoverRing
<1>1. SafeInv => TokensCoverRing
  BY DEF SafeInv
<1>2. QED
  BY SafeAlways, <1>1, PTL

-----------------------------------------------------------------------------
(* The indices.                                                            *)

\* What is held fits in the ring, and is what is counted outside the lock.
LEMMA HeldFacts ==
  ASSUME SafeInv
  PROVE  /\ Held \in 0 .. N /\ N \in Nat \ {0} /\ pSize \in 0 .. N
         /\ pRd \in 0 .. N - 1 /\ pWr \in 0 .. N - 1
         /\ (lock \notin Producers /\ wpc # "index" /\ ~Resetting => Held = pSize)
         /\ (lock # Joiner => ~Resetting)
<1>1. pSize \in 0 .. N /\ N \in Nat \ {0} /\ pRd \in 0 .. N - 1 /\ pWr \in 0 .. N - 1
  BY SemShareAssumption DEF SafeInv, TypeOK, Slots
<1>2. Writing => pSize < N
  BY DEF Writing, SafeInv, LockInv
<1>3. wpc = "index" => pSize > 0
  BY DEF SafeInv, LockInv
<1>4. lock # Joiner => ~Resetting
  BY DEF Resetting, SafeInv, LockInv
<1>5. QED
  BY <1>1, <1>2, <1>3, <1>4 DEF Held, Writing

\* A writer's slot lies behind the elements, and its steps leave it there.
LEMMA WriterIndex ==
  ASSUME SafeInv, IndexInv, NEW p \in Producers, WriteSlot(p) \/ WriteStep(p)
  PROVE  IndexInv'
<1> USE SemShareAssumption, SemShareNames DEF Free, Joiner, SafeInv, LockInv
<1>0. SafeInv
  OBVIOUS
<1>1. ppc \in [Producers -> {"idle", "slot", "index", "count"}]
  BY DEF TypeOK
<1>r. ~Resetting /\ ~Resetting'
  BY DEF WriteSlot, WriteStep, WriteIndex, WriteCount, WriteEnd, Resetting
<1>2. CASE WriteSlot(p)
  <2>1. lock = Free /\ lock' = p /\ ppc'[p] = "slot" /\ wpc # "index"
        /\ UNCHANGED <<pRd, pWr, pSize, torn>>
    BY <1>1, <1>2 DEF WriteSlot
  <2>2. Held = pSize /\ ~Filling /\ Filling'
    BY <1>0, <1>r, <2>1, HeldFacts DEF Filling
  <2>3. QED
    BY <1>r, <2>1, <2>2 DEF IndexInv
<1>3. CASE WriteIndex(p)
  <2>1. lock = p /\ lock' = p /\ ppc[p] = "slot" /\ ppc'[p] = "index"
        /\ pWr' = (pWr + 1) % N /\ UNCHANGED <<pRd, pSize, torn>>
    BY <1>1, <1>3 DEF WriteIndex
  <2>2. Filling /\ ~Filling' /\ Held' = pSize + 1
    BY <1>r, <2>1 DEF Filling, Writing, Held
  <2>3. pSize < N /\ pSize \in 0 .. N /\ pRd \in 0 .. N - 1
    BY <1>0, <2>1, HeldFacts
  <2>4. (pRd + pSize + 1) % N = (((pRd + pSize) % N) + 1) % N
    <3>1. pRd + pSize \in 0 .. 2 * N - 2
      BY <2>3
    <3>2. QED
      BY <3>1, WrapNext
  <2>5. pRd + pSize + 1 = pRd + (pSize + 1)
    BY <2>3
  <2>6. QED
    BY <1>r, <2>1, <2>2, <2>4, <2>5 DEF IndexInv
<1>4. CASE WriteCount(p)
  <2>1. lock = p /\ lock' = p /\ ppc[p] = "index" /\ ppc'[p] = "count"
        /\ pSize' = pSize + 1 /\ UNCHANGED <<pRd, pWr, torn, wpc>> /\ wpc # "index"
    BY <1>1, <1>4 DEF WriteCount, thrVars
  <2>2. ~Filling /\ ~Filling' /\ Held = pSize + 1 /\ Held' = pSize + 1
    BY <1>r, <2>1 DEF Filling, Writing, Held
  <2>3. QED
    BY <1>r, <2>1, <2>2 DEF IndexInv
<1>5. CASE WriteEnd(p)
  <2>1. lock = p /\ lock' = Free /\ ppc[p] = "count" /\ wpc # "index"
        /\ UNCHANGED <<pRd, pWr, pSize, torn, wpc>>
    BY <1>1, <1>5 DEF WriteEnd, thrVars, ringVars
  <2>2. ~Filling /\ ~Filling' /\ Held = pSize /\ Held' = pSize
    BY <1>r, <2>1 DEF Filling, Writing, Held
  <2>3. QED
    BY <1>r, <2>1, <2>2 DEF IndexInv
<1>6. QED
  BY <1>2, <1>3, <1>4, <1>5 DEF WriteStep

\* Every other step: the reader moves index and count, a process that dies
\* between two stores leaves the ring torn, one that joins resets all three.
LEMMA NextIndex ==
  ASSUME SafeInv, IndexInv, [Next]_vars
  PROVE  IndexInv'
<1> USE SemShareAssumption, SemShareNames DEF Free, Joiner, SafeInv, LockInv
<1>0. SafeInv
  OBVIOUS
<1>1. CASE ReadIndex
  <2>0. ~Resetting /\ ~Resetting'
    BY <1>1 DEF ReadIndex, Resetting
  <2>1. lock = Free /\ lock' = Consumer /\ wpc = "read" /\ wpc' = "index" /\ pSize > 0
        /\ pRd' = (pRd + 1) % N /\ UNCHANGED <<pWr, pSize, torn>>
    BY <1>1 DEF ReadIndex
  <2>2. ~Filling /\ ~Filling' /\ Held = pSize /\ Held' = pSize - 1
    BY <2>0, <2>1 DEF Filling, Writing, Held
  <2>3. pSize \in 1 .. N /\ pRd \in 0 .. N - 1
    BY <1>0, <2>1, HeldFacts
  <2>4. (((pRd + 1) % N) + pSize - 1) % N = (pRd + pSize) % N
    BY <2>3, WrapRead
  <2>5. ((pRd + 1) % N) + (pSize - 1) = ((pRd + 1) % N) + pSize - 1
    BY <2>3
  <2>6. QED
    BY <2>0, <2>1, <2>2, <2>4, <2>5 DEF IndexInv
<1>2. CASE ReadCount
  <2>0. ~Resetting /\ ~Resetting'
    BY <1>2 DEF ReadCount, Resetting
  <2>1. lock = Consumer /\ lock' = Free /\ wpc = "index" /\ wpc' = "call"
        /\ pSize' = pSize - 1 /\ UNCHANGED <<pRd, pWr, torn>>
    BY <1>2 DEF ReadCount
  <2>2. ~Filling /\ ~Filling' /\ Held = pSize - 1 /\ Held' = pSize - 1
    BY <2>0, <2>1 DEF Filling, Writing, Held
  <2>3. QED
    BY <2>0, <2>1, <2>2 DEF IndexInv
<1>3. CASE Acquire \/ ReadEmpty \/ LeaveUnread \/ Callback \/ Stop \/ UNCHANGED vars
  <2>1. UNCHANGED <<pRd, pWr, pSize, torn, lock, ppc, rpc>>
    BY <1>3 DEF Acquire, ReadEmpty, LeaveUnread, Callback, Stop, vars, ringVars
  <2>2. wpc = "index" <=> wpc' = "index"
    BY <1>3 DEF Acquire, ReadEmpty, LeaveUnread, Callback, Stop, vars, thrVars,
                AfterLoopTest
  <2>3. Filling' = Filling /\ Held' = Held /\ Resetting' = Resetting
    BY <2>1, <2>2 DEF Filling, Writing, Held, Resetting
  <2>4. QED
    BY <2>1, <2>3 DEF IndexInv
<1>4. ASSUME NEW p \in Producers, ProducerEnds(p) PROVE IndexInv'
  <2>1. /\ ppc \in [Producers -> {"idle", "slot", "index", "count"}]
        /\ ppc' = [ppc EXCEPT ![p] = "idle"]
        /\ lock' = IF lock = p THEN Free ELSE lock
        /\ torn' = IF ppc[p] = "index" THEN "torn" ELSE torn
        /\ UNCHANGED <<pRd, pWr, pSize, wpc, rpc>>
    BY <1>4 DEF ProducerEnds, EndOf, ringVars, TypeOK
  <2>r. Resetting' = Resetting /\ (lock = p => ~Resetting)
    BY <2>1 DEF Resetting
  <2>2. CASE ppc[p] = "idle"
    <3>1. lock # p /\ lock' = lock /\ torn' = torn
      BY <2>1, <2>2
    <3>2. Filling' = Filling /\ Held' = Held
      BY <2>1, <2>r, <3>1 DEF Filling, Writing, Held
    <3>3. QED
      BY <2>1, <2>r, <3>1, <3>2 DEF IndexInv
  <2>3. CASE ppc[p] = "slot"
    <3>1. lock = p /\ lock' = Free /\ torn' = torn /\ wpc # "index"
      BY <2>1, <2>3
    <3>2. Filling /\ ~Filling' /\ Held' = pSize
      BY <2>1, <2>r, <2>3, <3>1 DEF Filling, Writing, Held
    <3>3. QED
      BY <2>1, <2>r, <3>1, <3>2 DEF IndexInv
  <2>4. CASE ppc[p] = "count"
    <3>1. lock = p /\ lock' = Free /\ torn' = torn /\ wpc # "index"
      BY <2>1, <2>4
    <3>2. ~Filling /\ ~Filling' /\ Held = pSize /\ Held' = pSize
      BY <2>1, <2>r, <2>4, <3>1 DEF Filling, Writing, Held
    <3>3. QED
      BY <2>1, <2>r, <3>1, <3>2 DEF IndexInv
  <2>5. CASE ppc[p] = "index"
    BY <2>1, <2>5 DEF IndexInv
  <2>6. QED
    BY <2>1, <2>2, <2>3, <2>4, <2>5
<1>5. CASE ConsumerEnds
  <2>1. /\ lock' = (IF lock = Consumer THEN Free ELSE lock) /\ wpc' = "gone"
        /\ torn' = IF wpc = "index" THEN "torn" ELSE torn
        /\ UNCHANGED <<pRd, pWr, pSize, ppc, rpc>>
    BY <1>5 DEF ConsumerEnds, EndOf, ringVars
  <2>2. CASE wpc = "index"
    BY <2>1, <2>2 DEF IndexInv
  <2>3. CASE wpc # "index"
    <3>1. lock' = lock /\ torn' = torn
      BY <2>1, <2>3
    <3>2. Filling' = Filling /\ Held' = Held /\ Resetting' = Resetting
      BY <2>1, <2>3, <3>1 DEF Filling, Writing, Held, Resetting
    <3>3. QED
      BY <2>1, <3>1, <3>2 DEF IndexInv
  <2>4. QED
    BY <2>2, <2>3
<1>6. CASE JoinerMoves
  <2>1. lock' \in {Free, Joiner} /\ wpc' # "index"
    BY <1>0, <1>6, JoinerFrame
  <2>2. ~Filling' /\ (~Resetting' => Held' = pSize')
    BY <2>1 DEF Filling, Writing, Held
  <2>3. CASE ResetRead \/ ResetWrite
    BY <2>3 DEF ResetRead, ResetWrite, Resetting, IndexInv
  <2>4. CASE ResetSize
    <3>1. pRd' = 0 /\ pWr' = 0 /\ pSize' = 0 /\ ~Resetting'
      BY <2>4 DEF ResetSize, ResetCount, Resetting, ResetInv
    <3>2. QED
      BY <2>2, <3>1 DEF IndexInv
  <2>5. CASE CreateSemFails \/ \E p \in Procs : OpenSem(p)
    <3>1. pRd' = 0 /\ pWr' = 0 /\ pSize' = 0 /\ ~Resetting'
      BY <2>5 DEF CreateSemFails, OpenSem, LeaveReset, Resetting, ResetInv
    <3>2. QED
      BY <2>2, <3>1 DEF IndexInv
  <2>6. CASE JoinerDies
    <3>1. CASE Resetting
      BY <2>6, <3>1 DEF JoinerDies, Resetting, IndexInv
    <3>2. CASE ~Resetting
      <4>1. rpc = "key"
        BY <2>6, <3>2 DEF JoinerDies, Resetting, TypeOK
      <4>2. pRd' = 0 /\ pWr' = 0 /\ pSize' = 0 /\ ~Resetting'
        BY <2>6, <4>1 DEF JoinerDies, LeaveReset, Resetting, ResetInv
      <4>3. QED
        BY <2>2, <4>2 DEF IndexInv
    <3>3. QED
      BY <3>1, <3>2
  <2>7. QED
    BY <1>6, <2>3, <2>4, <2>5, <2>6 DEF JoinerMoves
<1>7. QED
  BY <1>0, <1>1, <1>2, <1>3, <1>4, <1>5, <1>6, WriterIndex
     DEF Next, ThreadStep, JoinStep, JoinerMoves

-----------------------------------------------------------------------------
(* The order.                                                              *)

\* Steps that leave ring, deliveries and hand alone, and hold no more than
\* before, keep the order.
LEMMA OrderKept ==
  ASSUME SafeInv, OrderInv, UNCHANGED <<ring, pRd, delivered, val, writes>>,
         Held' \in 0 .. Held, torn' = "no" => torn = "no",
         wpc' \in {"index", "call"} => wpc \in {"index", "call"}
  PROVE  OrderInv'
<1>1. Entries' = Entries
  BY DEF Entries
<1>2. \A i \in 1 .. Held' : i \in 1 .. Held
  BY HeldFacts
<1> HIDE DEF Held
<1>3. QED
  BY <1>1, <1>2 DEF OrderInv

\* A new element is the highest number and stands in a slot of its own.
LEMMA WriteSlotOrder ==
  ASSUME SafeInv, IndexInv, OrderInv, NEW p \in Producers, WriteSlot(p)
  PROVE  OrderInv'
<1> USE SemShareAssumption, SemShareNames
<1>1. /\ lock = Free /\ lock' = p /\ ppc' = [ppc EXCEPT ![p] = "slot"]
      /\ ring' = [ring EXCEPT ![pWr] = writes + 1] /\ writes' = writes + 1
      /\ pSize < N /\ UNCHANGED <<pRd, pSize, delivered, val, torn, wpc>>
  BY DEF WriteSlot, HasRoom, thrVars
<1>2. /\ ring \in [Slots -> Nat] /\ writes \in Nat /\ ppc'[p] = "slot"
      /\ wpc # "index" /\ pSize \in 0 .. N - 1 /\ pRd \in 0 .. N - 1 /\ pWr \in Slots
  BY <1>1 DEF SafeInv, TypeOK, LockInv, Slots
<1>r. ~Resetting /\ ~Resetting'
  BY DEF WriteSlot, Resetting, SafeInv, LockInv, Free, Joiner
<1>3. Held = pSize /\ Held' = pSize + 1 /\ ~Filling
  BY <1>1, <1>2, <1>r DEF Held, Writing, Filling
<1> SUFFICES ASSUME torn = "no" PROVE OrderInv'
  BY <1>1 DEF OrderInv
<1>4. pWr = (pRd + pSize) % N
  BY <1>3, <1>r DEF IndexInv
<1>5. \A i \in 1 .. pSize : Entries'[i] = Entries[i]
  <2> SUFFICES ASSUME NEW i \in 1 .. pSize PROVE Entries'[i] = Entries[i]
    OBVIOUS
  <2>1. (pRd + i - 1) % N # pWr
    BY <1>2, <1>4, SlotAhead
  <2>2. QED
    BY <1>1, <1>2, <2>1 DEF Entries
<1>6. Entries'[pSize + 1] = writes + 1
  <2>1. pRd + (pSize + 1) - 1 = pRd + pSize
    BY <1>2
  <2>2. QED
    BY <1>1, <1>2, <1>4, <2>1 DEF Entries
<1>7. \A i \in 1 .. pSize : Entries[i] \in Nat
  <2>1. \A i \in 1 .. pSize : (pRd + i - 1) % N \in Slots
    BY <1>2 DEF Slots
  <2>2. QED
    BY <1>2, <2>1 DEF Entries
<1>8. delivered \in Seq(Nat) /\ val \in Nat
  BY DEF SafeInv, TypeOK
<1>9. \A i \in DOMAIN delivered : delivered[i] \in Nat
  BY <1>8
<1>10. \A x \in Nat : x <= writes => x < writes + 1 /\ x <= writes + 1
  BY <1>2
<1>11. /\ \A i \in DOMAIN delivered : delivered[i] <= writes
       /\ \A i, j \in 1 .. pSize : i < j => Entries[i] < Entries[j]
       /\ \A i \in 1 .. pSize : Entries[i] <= writes
       /\ \A i \in DOMAIN delivered, j \in 1 .. pSize : delivered[i] < Entries[j]
       /\ wpc = "call" => val <= writes /\ \A j \in 1 .. pSize : val < Entries[j]
  BY <1>3 DEF OrderInv
<1>12. \A i \in 1 .. pSize + 1 : i \in 1 .. pSize \/ i = pSize + 1
  BY <1>2
<1> DEFINE n == pSize + 1
<1> HIDE DEF n
<1>13. /\ \A i \in 1 .. n : i \in 1 .. pSize \/ i = n
       /\ \A i, j \in 1 .. n : i < j => i \in 1 .. pSize
       /\ Entries'[n] = writes + 1 /\ Held' = n
  BY <1>2, <1>3, <1>6, <1>12 DEF n
<1>14. \A i \in 1 .. n : Entries'[i] <= writes + 1
  <2> SUFFICES ASSUME NEW i \in 1 .. n PROVE Entries'[i] <= writes + 1
    OBVIOUS
  <2>1. CASE i \in 1 .. pSize
    BY <1>5, <1>7, <1>10, <1>11, <2>1
  <2>2. CASE i = n
    BY <1>2, <1>13, <2>2
  <2>3. QED
    BY <1>13, <2>1, <2>2
<1>15. \A i, j \in 1 .. n : i < j => Entries'[i] < Entries'[j]
  <2> SUFFICES ASSUME NEW i \in 1 .. n, NEW j \in 1 .. n, i < j
               PROVE  Entries'[i] < Entries'[j]
    OBVIOUS
  <2>1. i \in 1 .. pSize
    BY <1>13
  <2>2. CASE j \in 1 .. pSize
    BY <1>5, <1>11, <2>1, <2>2
  <2>3. CASE j = n
    BY <1>5, <1>7, <1>10, <1>11, <1>13, <2>1, <2>3
  <2>4. QED
    BY <1>13, <2>2, <2>3
<1>16. ASSUME NEW x \in Nat, x <= writes, \A j \in 1 .. pSize : x < Entries[j]
       PROVE  x <= writes + 1 /\ \A j \in 1 .. n : x < Entries'[j]
  <2>1. x <= writes + 1 /\ x < writes + 1
    BY <1>10, <1>16
  <2>2. ASSUME NEW j \in 1 .. n PROVE x < Entries'[j]
    <3>1. CASE j \in 1 .. pSize
      BY <1>5, <1>16, <3>1
    <3>2. CASE j = n
      BY <1>13, <2>1, <3>2
    <3>3. QED
      BY <1>13, <3>1, <3>2
  <2>3. QED
    BY <2>1, <2>2
<1>17. \A i \in DOMAIN delivered : /\ delivered[i] <= writes + 1
                                  /\ \A j \in 1 .. n : delivered[i] < Entries'[j]
  BY <1>9, <1>11, <1>16
<1>18. wpc = "call" => val <= writes + 1 /\ \A j \in 1 .. n : val < Entries'[j]
  BY <1>8, <1>11, <1>16
<1>19. QED
  BY <1>1, <1>2, <1>13, <1>14, <1>15, <1>17, <1>18 DEF OrderInv

\* The reader takes the lowest number; the others follow it.
LEMMA ReadIndexOrder ==
  ASSUME SafeInv, OrderInv, ReadIndex
  PROVE  OrderInv'
<1> USE SemShareAssumption, SemShareNames
<1>1. /\ lock = Free /\ lock' = Consumer /\ wpc = "read" /\ wpc' = "index"
      /\ val' = ring[pRd] /\ pRd' = (pRd + 1) % N /\ pSize > 0
      /\ UNCHANGED <<ring, pSize, delivered, torn, writes>>
  BY DEF ReadIndex, Oldest
<1>2. ring \in [Slots -> Nat] /\ pSize \in 1 .. N /\ pRd \in 0 .. N - 1
  BY <1>1 DEF SafeInv, TypeOK, Slots
<1>r. ~Resetting /\ ~Resetting'
  BY DEF ReadIndex, Resetting, SafeInv, LockInv, Free, Joiner
<1>3. Held = pSize /\ Held' = pSize - 1
  BY <1>1, <1>r DEF Held, Writing
<1> SUFFICES ASSUME torn = "no" PROVE OrderInv'
  BY <1>1 DEF OrderInv
<1>4. \A i \in 1 .. pSize - 1 : Entries'[i] = Entries[i + 1]
  <2> SUFFICES ASSUME NEW i \in 1 .. pSize - 1 PROVE Entries'[i] = Entries[i + 1]
    OBVIOUS
  <2>1. i \in 1 .. N - 1 /\ i \in 1 .. N /\ i + 1 \in 1 .. N
    BY <1>2
  <2>2. (pRd + (i + 1) - 1) % N = (((pRd + 1) % N) + i - 1) % N
    BY <1>2, <2>1, WrapShift
  <2>3. QED
    BY <1>1, <2>1, <2>2 DEF Entries
<1>5. val' = Entries[1]
  <2>1. pRd + 1 - 1 = pRd /\ pRd % N = pRd /\ 1 \in 1 .. N
    BY <1>2
  <2>2. Entries[1] = ring[(pRd + 1 - 1) % N]
    BY <2>1 DEF Entries
  <2>3. QED
    BY <1>1, <2>1, <2>2
<1>6. /\ \A i \in DOMAIN delivered : delivered[i] <= writes
      /\ \A i, j \in DOMAIN delivered : i < j => delivered[i] < delivered[j]
      /\ \A i, j \in 1 .. pSize : i < j => Entries[i] < Entries[j]
      /\ \A i \in 1 .. pSize : Entries[i] <= writes
      /\ \A i \in DOMAIN delivered, j \in 1 .. pSize : delivered[i] < Entries[j]
  BY <1>3 DEF OrderInv
<1>7. /\ \A i \in 1 .. pSize - 1 : i + 1 \in 1 .. pSize /\ 1 < i + 1
      /\ \A i, j \in 1 .. pSize - 1 : i < j => i + 1 < j + 1
      /\ 1 \in 1 .. pSize
  BY <1>2
<1>8. /\ \A i, j \in 1 .. Held' : i < j => Entries'[i] < Entries'[j]
      /\ \A i \in 1 .. Held' : Entries'[i] <= writes
      /\ \A i \in DOMAIN delivered, j \in 1 .. Held' : delivered[i] < Entries'[j]
  BY <1>3, <1>4, <1>6, <1>7
<1>9. /\ val' <= writes
      /\ \A i \in DOMAIN delivered : delivered[i] < val'
      /\ \A j \in 1 .. Held' : val' < Entries'[j]
  BY <1>3, <1>4, <1>5, <1>6, <1>7
<1>10. QED
  BY <1>1, <1>6, <1>8, <1>9 DEF OrderInv

\* The callback appends what the thread has in hand to what was delivered.
LEMMA CallbackOrder ==
  ASSUME SafeInv, OrderInv, Callback
  PROVE  OrderInv'
<1>1. /\ wpc = "call" /\ wpc' \in {"wait", "gone"} /\ delivered' = Append(delivered, val)
      /\ UNCHANGED <<ring, pRd, pSize, lock, ppc, rpc, val, torn, writes>>
  BY DEF Callback, AfterLoopTest, ringVars
<1>2. Entries' = Entries /\ Held' = Held
  BY <1>1 DEF Entries, Held, Writing, Resetting
<1>3. delivered \in Seq(Nat) /\ val \in Nat
  BY DEF SafeInv, TypeOK
<1> DEFINE n == Len(delivered)
<1>4. /\ n \in Nat /\ DOMAIN delivered = 1 .. n /\ DOMAIN delivered' = 1 .. n + 1
      /\ \A i \in 1 .. n : delivered'[i] = delivered[i]
      /\ delivered'[n + 1] = val
  <2>1. /\ Append(delivered, val) \in Seq(Nat) /\ Len(Append(delivered, val)) = n + 1
        /\ \A i \in 1 .. n : Append(delivered, val)[i] = delivered[i]
        /\ Append(delivered, val)[n + 1] = val
    BY <1>3, AppendProperties
  <2>2. n \in Nat /\ DOMAIN delivered = 1 .. n
        /\ DOMAIN Append(delivered, val) = 1 .. Len(Append(delivered, val))
    BY <1>3, <2>1, LenProperties
  <2>3. QED
    BY <1>1, <2>1, <2>2
<1> HIDE DEF n
<1> SUFFICES ASSUME torn = "no" PROVE OrderInv'
  BY <1>1 DEF OrderInv
<1>5. \A i \in 1 .. n + 1 : i \in 1 .. n \/ i = n + 1
  BY <1>4
<1>6. \A i, j \in 1 .. n + 1 : i < j => i \in 1 .. n
  BY <1>4
<1>7. /\ \A i, j \in 1 .. n : i < j => delivered[i] < delivered[j]
      /\ \A i \in 1 .. n : delivered[i] <= writes
      /\ \A i \in 1 .. n, j \in 1 .. Held : delivered[i] < Entries[j]
      /\ val <= writes /\ \A i \in 1 .. n : delivered[i] < val
      /\ \A j \in 1 .. Held : val < Entries[j]
  BY <1>1, <1>4 DEF OrderInv
<1>8. \A i, j \in 1 .. n + 1 : i < j => delivered'[i] < delivered'[j]
  BY <1>4, <1>5, <1>6, <1>7
<1>9. \A i \in 1 .. n + 1 : /\ delivered'[i] <= writes
                           /\ \A j \in 1 .. Held : delivered'[i] < Entries[j]
  BY <1>4, <1>5, <1>7
<1>10. QED
  BY <1>1, <1>2, <1>4, <1>8, <1>9 DEF OrderInv

\* Every step keeps the order of delivery.
LEMMA NextOrder ==
  ASSUME SafeInv, IndexInv, OrderInv, [Next]_vars
  PROVE  OrderInv'
<1> USE SemShareAssumption, SemShareNames
<1>1. /\ Held \in 0 .. N /\ pSize \in 0 .. N /\ (lock # Joiner => ~Resetting)
      /\ (wpc # "index" /\ lock \notin Producers /\ ~Resetting => Held = pSize)
  BY HeldFacts
<1>2. ppc \in [Producers -> {"idle", "slot", "index", "count"}]
  BY DEF SafeInv, TypeOK
<1>3. ASSUME NEW p \in Producers, WriteStep(p) PROVE OrderInv'
  <2>1. lock = p /\ ppc[p] # "idle" /\ wpc # "index"
    BY <1>3 DEF WriteStep, WriteIndex, WriteCount, WriteEnd, SafeInv, LockInv
  <2>2. UNCHANGED <<ring, pRd, delivered, val, writes, torn, wpc>>
    BY <1>3 DEF WriteStep, WriteIndex, WriteCount, WriteEnd, ringVars, thrVars
  <2>r. ~Resetting /\ ~Resetting'
    BY <1>1, <1>3, <2>1 DEF WriteStep, WriteIndex, WriteCount, WriteEnd, Resetting
  <2>3. Held' = Held
    BY <1>1, <1>2, <1>3, <2>1, <2>2, <2>r
       DEF WriteStep, WriteIndex, WriteCount, WriteEnd, ringVars, Held, Writing
  <2>4. QED
    BY <1>1, <2>2, <2>3, OrderKept
<1>4. CASE Acquire \/ ReadEmpty \/ LeaveUnread \/ Stop \/ UNCHANGED vars
  <2>1. UNCHANGED <<ring, pRd, pSize, lock, ppc, rpc, delivered, val, writes, torn>>
    BY <1>4 DEF Acquire, ReadEmpty, LeaveUnread, Stop, vars, ringVars, thrVars
  <2>2. /\ wpc = "index" <=> wpc' = "index"
        /\ wpc' \in {"index", "call"} => wpc \in {"index", "call"}
    BY <1>4 DEF Acquire, ReadEmpty, LeaveUnread, Stop, vars, thrVars, AfterLoopTest
  <2>3. Held' = Held
    BY <2>1, <2>2 DEF Held, Writing, Resetting
  <2>4. QED
    BY <1>1, <2>1, <2>2, <2>3, OrderKept
<1>5. CASE ReadCount
  <2>1. /\ wpc = "index" /\ wpc' = "call" /\ lock = Consumer /\ lock' = Free
        /\ pSize' = pSize - 1 /\ UNCHANGED <<ring, pRd, delivered, val, writes, torn>>
    BY <1>5 DEF ReadCount, SafeInv, LockInv
  <2>2. Held' = Held
    BY <1>5, <2>1 DEF ReadCount, Held, Writing, Resetting
  <2>3. QED
    BY <1>1, <2>1, <2>2, OrderKept
<1>6. ASSUME NEW p \in Producers, ProducerEnds(p) PROVE OrderInv'
  <2>1. /\ ppc' = [ppc EXCEPT ![p] = "idle"]
        /\ lock' = IF lock = p THEN Free ELSE lock
        /\ torn' = IF ppc[p] = "index" THEN "torn" ELSE torn
        /\ UNCHANGED <<ring, pRd, pSize, delivered, val, writes, wpc, rpc>>
    BY <1>6 DEF ProducerEnds, EndOf, ringVars
  <2>2. lock = p => wpc # "index" /\ ~Resetting
    BY <1>1 DEF SafeInv, LockInv
  <2>3. CASE lock # p
    BY <1>1, <1>2, <2>1, <2>3, OrderKept DEF Held, Writing, Resetting
  <2>4. CASE lock = p
    <3>1. Held' = pSize
      BY <2>1, <2>2, <2>4 DEF Held, Writing, Resetting
    <3>2. Held \in {pSize, pSize + 1}
      BY <2>2, <2>4 DEF Held, Writing
    <3>3. Held' \in 0 .. Held
      BY <1>1, <3>1, <3>2
    <3>4. QED
      BY <2>1, <3>3, OrderKept
  <2>5. QED
    BY <2>3, <2>4
<1>7. CASE ConsumerEnds
  <2>1. /\ lock' = (IF lock = Consumer THEN Free ELSE lock) /\ wpc' = "gone"
        /\ torn' = (IF wpc = "index" THEN "torn" ELSE torn)
        /\ UNCHANGED <<ring, pRd, pSize, ppc, rpc, delivered, val, writes>>
    BY <1>7 DEF ConsumerEnds, EndOf, ringVars
  <2>2. CASE wpc = "index"
    BY <2>1, <2>2 DEF OrderInv
  <2>3. CASE wpc # "index"
    <3>1. lock' = lock /\ torn' = torn
      BY <2>1, <2>3 DEF SafeInv, LockInv
    <3>2. Held' = Held
      BY <2>1, <2>3, <3>1 DEF Held, Writing, Resetting
    <3>3. QED
      BY <1>1, <2>1, <3>1, <3>2, OrderKept
  <2>4. QED
    BY <2>2, <2>3
<1>8. CASE JoinerMoves
  <2>1. /\ lock' \in {Free, Joiner} /\ UNCHANGED <<ring, delivered, val, writes>>
        /\ wpc' # "index" /\ (wpc' = "call" => wpc = "call")
        /\ torn' = "no" => torn = "no"
    BY <1>8, JoinerFrame
       DEF JoinerMoves, ResetRead, ResetWrite, ResetSize, CreateSemFails, JoinerDies,
           OpenSem, SafeInv, LockInv
  <2>2. CASE torn' = "no"
    <3>1. Resetting' \/ pSize' = 0
      BY <1>8, <2>2
         DEF JoinerMoves, ResetRead, ResetWrite, ResetSize, CreateSemFails, JoinerDies,
             OpenSem, LeaveReset, ResetCount, Resetting, SafeInv, TypeOK, LockInv, ResetInv
    <3>2. Held' = 0
      BY <2>1, <3>1 DEF Held, Writing
    <3>3. 1 .. Held' = {}
      BY <3>2
    <3>4. QED
      BY <2>1, <3>3 DEF OrderInv
  <2>3. QED
    BY <2>2 DEF OrderInv
<1>9. QED
  BY <1>3, <1>4, <1>5, <1>6, <1>7, <1>8, WriteSlotOrder, ReadIndexOrder, CallbackOrder
     DEF Next, ThreadStep, JoinStep, JoinerMoves

-----------------------------------------------------------------------------
(* The theorems about the ring as a queue.                                 *)

\* Nothing is held and nothing delivered at the start.
LEMMA InitRing == Init => IndexInv /\ OrderInv
<1> SUFFICES ASSUME Init PROVE IndexInv /\ OrderInv
  OBVIOUS
<1> USE SemShareAssumption, SemShareNames DEF Init
<1>1. Held = 0 /\ ~Filling /\ 1 .. Held = {}
  BY DEF Held, Writing, Filling, Resetting
<1>2. IndexInv
  BY <1>1 DEF IndexInv
<1>3. delivered = <<>> /\ DOMAIN delivered = {}
  OBVIOUS
<1>4. OrderInv
  BY <1>1, <1>3 DEF OrderInv
<1>5. QED
  BY <1>2, <1>4

\* Every reachable state satisfies the inductive invariant.
THEOREM Inductive == Spec => []IInv
<1>1. Init => IInv
  BY InitSafe, InitRing DEF IInv
<1>2. IInv /\ [Next]_vars => IInv'
  BY NextSafe, NextIndex, NextOrder DEF IInv
<1>3. QED
  BY <1>1, <1>2, PTL DEF Spec

\* The ring stays a queue across processes that exit, die between any two stores
\* of write_send_data, read_send_data or a reset, or reset it by joining: indices
\* and count agree once they are repaired, and each write is delivered at most
\* once and, until a death leaves them apart, in the order of writing.
THEOREM RingStaysQueue == Spec => []DeliveredInOrder
<1>1. IInv => DeliveredInOrder
  <2> SUFFICES ASSUME IInv PROVE DeliveredInOrder
    OBVIOUS
  <2>1. lock = Free => lock \notin Producers /\ wpc # "index"
    BY SemShareNames DEF IInv, SafeInv, LockInv
  <2>2. lock = Free => Held = pSize /\ ~Filling /\ ~Resetting
    BY <2>1, HeldFacts, SemShareNames DEF IInv, Filling, Free, Joiner
  <2>3. RingConsistent
    BY <2>2 DEF RingConsistent, IInv, SafeInv, IndexInv
  <2>4. QED
    BY <2>3 DEF DeliveredInOrder, IInv, OrderInv
<1>2. QED
  BY Inductive, <1>1, PTL

=============================================================================
