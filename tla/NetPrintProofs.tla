--------------------------- MODULE NetPrintProofs ---------------------------
(***************************************************************************)
(* Proofs about NetPrint for every number of writers, stamps, lines and    *)
(* signals: where each line is, and what the wake-ups add up to.           *)
(***************************************************************************)
EXTENDS NetPrint, FiniteSetTheorems, TLAPS

\* m_pid and the thread; the object runs only between two calls of its owner,
\* and the loop body of a living object has seen it run.  Nobody calls stop(),
\* so the owner never comes back from a destructor.
LifeInv ==
  /\ own \notin {"cancel", "join"}
  /\ m_pid = "live" <=> thr # "none"
  /\ own = "created" => m_pid = "live"
  /\ running = 1 => own = OwnIdle /\ m_pid = "live"
  /\ Alive /\ thr = "work" => running = 1
  /\ Alive /\ thr # "work" => wpc = "wait"

\* A stamp and a number each name one line, and the numbers are used once.
NumberInv ==
  /\ \A a, b \in info : a[1] = b[1] \/ a[2] = b[2] => a = b
  /\ \A v, w \in Writers :
       npc[v] = "insert" /\ npc[w] = "insert" /\ hand[v][2] = hand[w][2] => v = w

\* The four places of a line.
PlaceInv ==
  /\ calls \in Nat /\ mg \in sent \cup {0}
  /\ hand \in [Writers -> Nat \X Nat]
  /\ Lines = Inserting \cup Queued \cup (sent \ {0}) \cup replaced
  /\ Inserting \cap Queued = {} /\ Inserting \cap sent = {} /\ Inserting \cap replaced = {}
  /\ Queued \cap sent = {} /\ Queued \cap replaced = {} /\ sent \cap replaced = {}
  /\ 0 \notin Inserting \cup Queued \cup replaced

FiniteInv ==
  /\ IsFiniteSet(info) /\ IsFiniteSet(replaced) /\ IsFiniteSet(Posting)
  /\ repeats \in Nat /\ signals \in Nat

\* The balance of wake-ups and lines, what is left of it once the destructor
\* has begun (a worker about to take must still have a reason), and the line
\* the worker holds when there was one to replace.
CountInv ==
  /\ Alive => WakeUps + repeats = Cardinality(info) + Cardinality(replaced) + signals
  /\ thr = "work" /\ wpc = "take" /\ info = {} => repeats < Cardinality(replaced) + signals
  /\ repeats <= Cardinality(replaced) + signals
  /\ replaced # {} /\ info = {} => mg # 0
  /\ 0 \in sent => signals > 0

LineInv == NetTypeOK /\ NumberInv /\ PlaceInv
WakeInv == LifeInv /\ FiniteInv /\ CountInv
IInv == LineInv /\ WakeInv

-----------------------------------------------------------------------------

\* The initial state satisfies the inductive invariant.
LEMMA InitIInv == Init => IInv
<1> SUFFICES ASSUME Init PROVE IInv
  OBVIOUS
<1> USE NetAssumption, FS_EmptySet DEF Init, PthInit, OwnIdle
<1>1. Posting = {} /\ Inserting = {} /\ Queued = {} /\ Lines = {}
  BY DEF Posting, Inserting, Queued, Lines
<1>2. NetTypeOK
  BY DEF NetTypeOK, PthTypeOK, PidValues, ThrStates, OwnStates, OwnBase
<1>3. NumberInv /\ PlaceInv
  BY <1>1 DEF NumberInv, PlaceInv
<1>4. LifeInv /\ FiniteInv /\ CountInv
  BY <1>1 DEF LifeInv, FiniteInv, CountInv, WakeUps, Alive
<1>5. QED
  BY <1>2, <1>3, <1>4 DEF IInv, LineInv, WakeInv

\* A stamp is used by at most one line of the map: QMap::insert replaces one
\* line or none.
LEMMA SameKeyIsOne ==
  ASSUME NumberInv, NEW line, SameKey(line) # {}
  PROVE  \E old \in info : SameKey(line) = {old} /\ old[1] = line[1]
<1>1. PICK old \in info : old[1] = line[1]
  BY DEF SameKey
<1>2. SameKey(line) = {old}
  BY <1>1 DEF SameKey, NumberInv
<1>3. QED
  BY <1>1, <1>2

\* An insertion into the map, in the two forms it has.
LEMMA InsertCases ==
  ASSUME NumberInv, NEW w \in Writers, Insert(w)
  PROVE  \/ info' = info \cup {hand[w]} /\ replaced' = replaced
         \/ \E old \in info : /\ old[1] = hand[w][1]
                              /\ info' = (info \ {old}) \cup {hand[w]}
                              /\ replaced' = replaced \cup {old[2]}
<1>1. CASE SameKey(hand[w]) = {}
  BY <1>1 DEF Insert
<1>2. CASE SameKey(hand[w]) # {}
  <2>1. PICK old \in info : SameKey(hand[w]) = {old} /\ old[1] = hand[w][1]
    BY <1>2, SameKeyIsOne
  <2>2. {o[2] : o \in SameKey(hand[w])} = {old[2]}
    BY <2>1
  <2>3. QED
    BY <2>1, <2>2 DEF Insert
<1>3. QED
  BY <1>1, <1>2

-----------------------------------------------------------------------------
(* Where the lines are: LineInv.                                           *)

\* The steps of the owner and of the worker outside Take move no line.
LEMMA QuietLineInv ==
  ASSUME LineInv,
         PthTypeOK', constate' \in {0, 1}, psem' \in Nat, wpc' \in {"wait", "woken", "take"},
         UNCHANGED <<info, writerVars, mg, sent>>
  PROVE  LineInv'
<1>1. NetTypeOK'
  BY DEF LineInv, NetTypeOK, writerVars, Lines
<1>2. NumberInv'
  BY DEF LineInv, NumberInv, writerVars
<1>3. Inserting' = Inserting /\ Queued' = Queued /\ Lines' = Lines
  BY DEF writerVars, Inserting, Queued, Lines
<1>4. PlaceInv'
  BY <1>3 DEF LineInv, PlaceInv, writerVars
<1>5. QED
  BY <1>1, <1>2, <1>4 DEF LineInv

\* A new line takes a number no line has had.
LEMMA NetprintfLineInv ==
  ASSUME LineInv, NEW w \in Writers, Netprintf(w)
  PROVE  LineInv'
<1> USE NetAssumption DEF LineInv, Netprintf, workerVars, pthVars
<1>1. PICK t \in Times : hand' = [hand EXCEPT ![w] = <<t, calls + 1>>]
  OBVIOUS
<1>2. calls \in Nat /\ Lines' = Lines \cup {calls + 1} /\ calls + 1 \notin Lines
      /\ calls + 1 # 0
  BY DEF PlaceInv, Lines
<1>3. hand'[w] = <<t, calls + 1>> /\ \A v \in Writers \ {w} : hand'[v] = hand[v]
  BY <1>1 DEF PlaceInv
<1>4. npc'[w] = "insert" /\ \A v \in Writers \ {w} : npc'[v] = npc[v]
  BY DEF NetTypeOK
<1>5. Inserting' = Inserting \cup {calls + 1} /\ Queued' = Queued
  BY <1>3, <1>4 DEF Inserting, Queued, NetTypeOK
<1>6. NetTypeOK'
  BY <1>1, <1>2, <1>3, <1>4 DEF NetTypeOK, PthTypeOK, Lines
<1>7. \A v \in Writers : npc[v] = "insert" => hand[v][2] \in Lines
  BY DEF NetTypeOK
<1>8. NumberInv'
  BY <1>2, <1>3, <1>4, <1>7 DEF NumberInv
<1>9. hand' \in [Writers -> Nat \X Nat]
  BY <1>1, <1>2 DEF PlaceInv
<1>10. PlaceInv'
  BY <1>2, <1>5, <1>9 DEF PlaceInv
<1>11. QED
  BY <1>6, <1>8, <1>10

\* An insertion moves one line into the map, and the line of its stamp, if there
\* is one, to the replaced.
LEMMA InsertLineInv ==
  ASSUME LineInv, NEW w \in Writers, Insert(w)
  PROVE  LineInv'
<1> DEFINE new == hand[w]
<1> USE DEF LineInv, workerVars, pthVars
<1>1. /\ calls' = calls /\ mg' = mg /\ sent' = sent /\ npc[w] = "insert"
      /\ UNCHANGED <<m_pid, running, thr, cancel, own, starts, constate, psem, wpc>>
      /\ hand' = [hand EXCEPT ![w] = <<0, 0>>] /\ npc' = [npc EXCEPT ![w] = "post"]
  BY DEF Insert
<1>2. new \in Times \X Lines /\ new[2] \in Inserting /\ new[2] # 0
  BY <1>1 DEF NetTypeOK, Inserting, PlaceInv
<1>3. hand' \in [Writers -> Nat \X Nat]
  BY <1>1 DEF PlaceInv
<1>4. npc'[w] = "post" /\ \A v \in Writers \ {w} : npc'[v] = npc[v] /\ hand'[v] = hand[v]
  BY <1>1 DEF NetTypeOK, PlaceInv
<1>5. Inserting' = Inserting \ {new[2]} /\ Lines' = Lines
  BY <1>1, <1>4 DEF Inserting, Lines, NumberInv
<1>6. \A l \in info : l[2] \in Queued
  BY DEF Queued
<1>7. \A l \in info : l[2] # new[2]
  BY <1>2, <1>6 DEF PlaceInv
<1>8. npc' \in [Writers -> {"idle", "insert", "post"}]
      /\ \A v \in Writers : npc'[v] = "insert" => hand'[v] \in Times \X Lines'
  BY <1>1, <1>4, <1>5 DEF NetTypeOK
<1>9. \A u, v \in Writers : npc'[u] = "insert" /\ npc'[v] = "insert"
                            /\ hand'[u][2] = hand'[v][2] => u = v
  BY <1>4 DEF NumberInv
<1>10. info' = {l \in info : l[1] # new[1]} \cup {new}
  BY DEF Insert, SameKey
<1>11. info' \subseteq Times \X Lines'
       /\ \A a, b \in info' : a[1] = b[1] \/ a[2] = b[2] => a = b
  BY <1>2, <1>5, <1>7, <1>10 DEF NumberInv, NetTypeOK
<1>12. NetTypeOK' /\ NumberInv'
  BY <1>1, <1>8, <1>9, <1>11 DEF NetTypeOK, PthTypeOK, NumberInv
<1>13. CASE info' = info \cup {new} /\ replaced' = replaced
  <2>1. Queued' = Queued \cup {new[2]}
    BY <1>13 DEF Queued
  <2>2. PlaceInv'
    BY <1>1, <1>2, <1>3, <1>5, <1>13, <2>1 DEF PlaceInv
  <2>3. QED
    BY <1>12, <2>2
<1>14. ASSUME NEW old \in info, info' = (info \ {old}) \cup {new},
              replaced' = replaced \cup {old[2]}
       PROVE  LineInv'
  <2>1. Queued' = (Queued \ {old[2]}) \cup {new[2]} /\ old[2] \in Queued
    BY <1>14, <1>7 DEF Queued, NumberInv
  <2>2. PlaceInv'
    BY <1>1, <1>2, <1>3, <1>5, <1>14, <2>1 DEF PlaceInv
  <2>3. QED
    BY <1>12, <2>2
<1>15. QED
  BY <1>13, <1>14, InsertCases

\* After its insertion a writer only posts.
LEMMA PostLineInv ==
  ASSUME LineInv, NEW w \in Writers, Post(w)
  PROVE  LineInv'
<1> USE DEF LineInv, Post, Posted, workerVars, pthVars
<1>1. \A v \in Writers : npc'[v] = "insert" <=> npc[v] = "insert"
  BY DEF NetTypeOK
<1>2. NetTypeOK' /\ NumberInv'
  BY <1>1 DEF NetTypeOK, PthTypeOK, NumberInv, Lines
<1>3. Inserting' = Inserting /\ Queued' = Queued /\ Lines' = Lines
  BY <1>1 DEF Inserting, Queued, Lines
<1>4. PlaceInv'
  BY <1>3 DEF PlaceInv
<1>5. QED
  BY <1>2, <1>4

\* The worker sends the line it takes, or once more what it holds.
LEMMA TakeLineInv ==
  ASSUME LineInv, Take
  PROVE  LineInv'
<1> USE DEF LineInv, Take, WorkAgain, Taken, writerVars
<1>1. Inserting' = Inserting /\ Lines' = Lines
  BY DEF Inserting, Lines
<1>2. CASE info = {} /\ UNCHANGED <<info, mg>>
  <2>1. NetTypeOK' /\ NumberInv'
    BY <1>1, <1>2 DEF NetTypeOK, PthTypeOK, ThrStates, NumberInv
  <2>2. Queued' = Queued /\ sent' = sent \cup {mg}
    BY <1>2 DEF Queued
  <2>3. PlaceInv'
    BY <1>1, <1>2, <2>2 DEF PlaceInv
  <2>4. QED
    BY <2>1, <2>3
<1>3. ASSUME NEW line \in info, info' = info \ {line}, mg' = line[2]
      PROVE  LineInv'
  <2>1. NetTypeOK' /\ NumberInv'
    BY <1>1, <1>3 DEF NetTypeOK, PthTypeOK, ThrStates, NumberInv
  <2>2. Queued' = Queued \ {line[2]} /\ line[2] \in Queued
    BY <1>3 DEF Queued, NumberInv
  <2>3. PlaceInv'
    BY <1>1, <1>3, <2>2 DEF PlaceInv
  <2>4. QED
    BY <2>1, <2>3
<1>4. QED
  BY <1>2, <1>3

\* The owner's steps and the worker's other steps keep their types and move no
\* line.
LEMMA OtherLineInv ==
  ASSUME LineInv,
         StartPrintf \/ StopPrintf \/ Destroy \/ DestroyWake \/ QtStep
           \/ EnterRun \/ SemWait \/ Woken \/ SemInterrupted
  PROVE  LineInv'
<1> USE DEF LineInv, NetTypeOK, PthTypeOK, PidValues, ThrStates, OwnStates, OwnIdle, OwnBase,
            pthVars, netVars, writerVars, workerVars
<1>1. CASE StartPrintf
  <2>1. m_pid' \in PidValues /\ thr' \in ThrStates /\ own' \in OwnStates /\ starts' \in Nat
        /\ running' \in {0, 1}
    BY <1>1 DEF StartPrintf, StartCreate, StartFail
  <2>2. cancel' \in BOOLEAN
    <3>1. CASE StartCreate
      BY <3>1, Zenon DEF StartCreate
    <3>2. CASE StartFail \/ UNCHANGED pthVars
      BY <3>2 DEF StartFail
    <3>3. QED
      BY <1>1, <3>1, <3>2 DEF StartPrintf
  <2>3. QED
    BY <1>1, <2>1, <2>2, QuietLineInv DEF StartPrintf
<1>2. CASE StopPrintf \/ Destroy \/ DestroyWake
  BY <1>2, QuietLineInv DEF StopPrintf, Destroy, DtorBegin, DestroyWake, DtorWake, WakePost
<1>3. CASE QtStep
  <2>1. cancel' \in BOOLEAN
    BY <1>3, Zenon DEF QtStep, OwnerStep, StartMark, PthreadCancel, Join, BaseDtor
  <2>2. m_pid' \in PidValues /\ thr' \in ThrStates /\ own' \in OwnStates /\ starts' \in Nat
        /\ running' \in {0, 1}
    BY <1>3 DEF QtStep, OwnerStep, StartMark, PthreadCancel, Join, BaseDtor
  <2>3. QED
    BY <1>3, <2>1, <2>2, QuietLineInv DEF QtStep
<1>4. CASE EnterRun \/ SemWait \/ Woken \/ SemInterrupted
  BY <1>4, QuietLineInv DEF EnterRun, Enter, LoopTest, SemWait, Woken, SemInterrupted
<1>5. QED
  BY <1>1, <1>2, <1>3, <1>4

\* Every step preserves LineInv.
LEMMA NextLineInv == LineInv /\ [Next]_vars => LineInv'
<1> SUFFICES ASSUME LineInv, [Next]_vars PROVE LineInv'
  OBVIOUS
<1>1. CASE UNCHANGED vars
  BY <1>1, QuietLineInv DEF LineInv, NetTypeOK, PthTypeOK, vars, pthVars, netVars, writerVars, workerVars
<1>2. ASSUME NEW w \in Writers, Netprintf(w) \/ WriterStep(w)
      PROVE  LineInv'
  BY <1>2, NetprintfLineInv, InsertLineInv, PostLineInv DEF WriterStep
<1>3. CASE StartPrintf \/ StopPrintf \/ Destroy \/ DestroyWake \/ QtStep
             \/ WorkerStep \/ SemInterrupted
  BY <1>3, TakeLineInv, OtherLineInv DEF WorkerStep
<1>4. QED
  BY <1>1, <1>2, <1>3 DEF Next

-----------------------------------------------------------------------------
(* What the wake-ups add up to: WakeInv.                                   *)

\* Owner and worker keep the relation of running, m_pid and the thread.
LEMMA LifeInvStep ==
  ASSUME NetTypeOK, LifeInv, [Next]_vars
  PROVE  LifeInv'
<1> USE DEF LifeInv, Alive, OwnIdle, NetTypeOK, PthTypeOK, PidValues, ThrStates, OwnStates, OwnBase,
            pthVars, netVars, writerVars, workerVars
<1>1. CASE StartPrintf
  BY <1>1 DEF StartPrintf, StartCreate, StartFail
<1>2. CASE StopPrintf \/ Destroy \/ DestroyWake
  BY <1>2 DEF StopPrintf, Destroy, DtorBegin, DestroyWake, DtorWake
<1>3. CASE QtStep
  <2>1. CASE StartMark
    BY <1>3, <2>1 DEF QtStep, StartMark
  <2>2. CASE PthreadCancel
    BY <1>3, <2>2 DEF QtStep, PthreadCancel
  <2>3. CASE Join
    BY <1>3, <2>3 DEF QtStep, Join, Joinable
  <2>4. CASE BaseDtor
    BY <1>3, <2>4 DEF QtStep, BaseDtor
  <2>5. QED
    BY <1>3, <2>1, <2>2, <2>3, <2>4 DEF QtStep, OwnerStep
<1>4. CASE EnterRun \/ SemWait \/ Woken \/ SemInterrupted
  BY <1>4 DEF EnterRun, Enter, LoopTest, SemWait, Woken, SemInterrupted
<1>5. CASE Take
  BY <1>5 DEF Take, WorkAgain
<1>6. ASSUME NEW w \in Writers, Netprintf(w) \/ WriterStep(w)
      PROVE  LifeInv'
  BY <1>6 DEF Netprintf, WriterStep, Insert, Post
<1>7. CASE UNCHANGED vars
  BY <1>7 DEF vars
<1>8. QED
  BY <1>1, <1>2, <1>3, <1>4, <1>5, <1>6, <1>7 DEF Next, WorkerStep

\* The quantities of the balance are natural numbers.
LEMMA Numbers ==
  ASSUME IInv
  PROVE  /\ Cardinality(info) \in Nat /\ Cardinality(replaced) \in Nat
         /\ Cardinality(Posting) \in Nat /\ WakeUps \in Nat
         /\ psem \in Nat /\ repeats \in Nat /\ signals \in Nat
         /\ (info = {} <=> Cardinality(info) = 0)
         /\ (replaced = {} <=> Cardinality(replaced) = 0)
<1>1. /\ Cardinality(info) \in Nat /\ Cardinality(replaced) \in Nat
      /\ Cardinality(Posting) \in Nat
      /\ (info = {} <=> Cardinality(info) = 0)
      /\ (replaced = {} <=> Cardinality(replaced) = 0)
  BY FS_CardinalityType, FS_EmptySet DEF IInv, WakeInv, FiniteInv
<1>2. psem \in Nat /\ repeats \in Nat /\ signals \in Nat
  BY DEF IInv, LineInv, NetTypeOK, WakeInv, FiniteInv
<1>3. QED
  BY <1>1, <1>2 DEF WakeUps

\* A step that moves no line keeps the balance if it adds as many wake-ups as
\* interruptions, and if a worker about to take has seen a living object.
LEMMA QuietCount ==
  ASSUME IInv, NetTypeOK',
         UNCHANGED <<info, replaced, sent, mg, repeats>>, Posting' = Posting,
         signals' \in Nat, signals' >= signals,
         Alive' => Alive /\ WakeUps' + signals = WakeUps + signals',
         thr' = "work" /\ wpc' = "take" =>
           (Alive /\ WakeUps > 0) \/ (thr = "work" /\ wpc = "take")
  PROVE  FiniteInv' /\ CountInv'
<1> USE DEF IInv, LineInv, WakeInv
<1>1. WakeUps' \in Nat
  BY Numbers DEF WakeUps, NetTypeOK
<1>2. FiniteInv'
  BY DEF FiniteInv
<1>3. ASSUME Alive'
      PROVE  WakeUps' + repeats' = Cardinality(info') + Cardinality(replaced') + signals'
  <2>1. Alive /\ WakeUps' + signals = WakeUps + signals'
    BY <1>3
  <2>2. WakeUps + repeats = Cardinality(info) + Cardinality(replaced) + signals
    BY <2>1 DEF CountInv
  <2>3. /\ Cardinality(info') = Cardinality(info)
        /\ Cardinality(replaced') = Cardinality(replaced) /\ repeats' = repeats
    OBVIOUS
  <2>4. QED
    <3>1. \A w, x, c, d, r, a, b \in Nat :
             x + a = w + b /\ w + r = c + d + a => x + r = c + d + b
      OBVIOUS
    <3>2. QED
      BY <3>1, <1>1, Numbers, <2>1, <2>2, <2>3
<1>4. thr' = "work" /\ wpc' = "take" /\ info' = {}
        => repeats' < Cardinality(replaced') + signals'
  BY Numbers DEF CountInv
<1>5. CountInv'
  BY Numbers, <1>3, <1>4 DEF CountInv
<1>6. QED
  BY <1>2, <1>5

\* Owner, worker outside Take, and a writer that gets its stamp.
LEMMA OtherCount ==
  ASSUME IInv, NetTypeOK',
         \/ StartPrintf \/ StopPrintf \/ Destroy \/ DestroyWake \/ QtStep
         \/ EnterRun \/ SemWait \/ Woken \/ SemInterrupted
         \/ \E w \in Writers : Netprintf(w)
         \/ UNCHANGED vars
  PROVE  FiniteInv' /\ CountInv'
<1> USE Numbers DEF Alive, OwnIdle, WakeUps, pthVars, netVars, writerVars, workerVars
<1>1. LifeInv /\ NetTypeOK
  BY DEF IInv, LineInv, WakeInv
<1>2. CASE StartPrintf
  <2>1. /\ UNCHANGED <<info, replaced, sent, mg, repeats, signals, wpc, psem, npc>>
        /\ own = OwnIdle /\ ((m_pid = "none" /\ thr' = "born") \/ UNCHANGED thr)
    BY <1>2 DEF StartPrintf, StartCreate, StartFail
  <2>2. Posting' = Posting
    BY <2>1 DEF Posting
  <2>3. thr' = thr \/ (thr # "work" /\ thr' # "work")
    BY <1>1, <2>1 DEF LifeInv
  <2>4. QED
    BY <2>1, <2>2, <2>3, QuietCount
<1>3. CASE StopPrintf \/ Destroy \/ DestroyWake \/ UNCHANGED vars
  <2>1. Posting' = Posting
    BY <1>3 DEF Posting, StopPrintf, Destroy, DestroyWake, vars
  <2>2. QED
    BY <1>3, <2>1, QuietCount
       DEF StopPrintf, Destroy, DtorBegin, DestroyWake, DtorWake, vars
<1>4. CASE QtStep
  <2>1. UNCHANGED netVars /\ (thr' = thr \/ (thr = "gone" /\ thr' = "none"))
        /\ (Alive' => Alive)
    BY <1>1, <1>4 DEF QtStep, OwnerStep, StartMark, PthreadCancel, Join, BaseDtor, LifeInv
  <2>2. Posting' = Posting
    BY <2>1 DEF Posting
  <2>3. QED
    BY <2>1, <2>2, QuietCount
<1>5. CASE EnterRun
  <2>1. Posting' = Posting
    BY <1>5 DEF Posting, EnterRun
  <2>2. QED
    BY <1>1, <1>5, <2>1, QuietCount DEF EnterRun, Enter, LoopTest, LifeInv
<1>6. CASE SemWait \/ SemInterrupted
  <2>1. Posting' = Posting
    BY <1>6 DEF Posting, SemWait, SemInterrupted
  <2>2. QED
    BY <1>1, <1>6, <2>1, QuietCount DEF SemWait, SemInterrupted
<1>7. CASE Woken
  <2>1. Posting' = Posting
    BY <1>7 DEF Posting, Woken
  <2>2. running # 0 => running = 1 /\ Alive
    BY <1>1 DEF NetTypeOK, PthTypeOK, LifeInv
  <2>3. QED
    BY <1>1, <1>7, <2>1, <2>2, QuietCount DEF Woken, LifeInv
<1>8. ASSUME NEW w \in Writers, Netprintf(w)
      PROVE  FiniteInv' /\ CountInv'
  <2>1. Posting' = Posting
    BY <1>1, <1>8 DEF Posting, Netprintf, NetTypeOK
  <2>2. QED
    BY <1>8, <2>1, QuietCount DEF Netprintf
<1>9. QED
  BY <1>2, <1>3, <1>4, <1>5, <1>6, <1>7, <1>8

\* A line put into the map will have one post; a line replaced keeps its own.
LEMMA InsertCount ==
  ASSUME IInv, NEW w \in Writers, Insert(w)
  PROVE  FiniteInv' /\ CountInv'
<1> DEFINE new == hand[w]
           Balanced ==
             /\ info' # {} /\ IsFiniteSet(info') /\ IsFiniteSet(replaced')
             /\ Cardinality(info') \in Nat /\ Cardinality(replaced') \in Nat
             /\ Cardinality(info') + Cardinality(replaced')
                = Cardinality(info) + Cardinality(replaced) + 1
             /\ Cardinality(replaced') >= Cardinality(replaced)
<1> USE Numbers
<1>1. NetTypeOK /\ NumberInv /\ PlaceInv /\ FiniteInv /\ CountInv
  BY DEF IInv, LineInv, WakeInv
<1>2. /\ npc[w] = "insert" /\ npc' = [npc EXCEPT ![w] = "post"]
      /\ UNCHANGED <<thr, own, wpc, psem, mg, sent, repeats, signals>>
  BY DEF Insert, pthVars, workerVars
<1>3. Posting' = Posting \cup {w} /\ w \notin Posting
  BY <1>1, <1>2 DEF Posting, NetTypeOK
<1>4. IsFiniteSet(Posting') /\ Cardinality(Posting') = Cardinality(Posting) + 1
  BY <1>1, <1>3, FS_AddElement DEF FiniteInv
<1>5. WakeUps' = WakeUps + 1
  BY <1>2, <1>4 DEF WakeUps
<1>6. new[2] \notin Queued
  BY <1>1, <1>2 DEF PlaceInv, Inserting
<1>7. new \notin info /\ \A l \in info : l[2] \in Queued
  BY <1>6 DEF Queued
<1>8. Balanced
  <2>1. CASE info' = info \cup {new} /\ replaced' = replaced
    <3>1. IsFiniteSet(info') /\ Cardinality(info') = Cardinality(info) + 1
      BY <1>1, <1>7, <2>1, FS_AddElement DEF FiniteInv
    <3>2. IsFiniteSet(replaced') /\ Cardinality(replaced') = Cardinality(replaced)
      BY <1>1, <2>1 DEF FiniteInv
    <3>3. info' # {}
      BY <2>1
    <3>4. QED
      BY <3>1, <3>2, <3>3
  <2>2. ASSUME NEW old \in info, info' = (info \ {old}) \cup {new},
               replaced' = replaced \cup {old[2]}
        PROVE  Balanced
    <3>1. IsFiniteSet(info \ {old}) /\ Cardinality(info \ {old}) = Cardinality(info) - 1
      BY <1>1, FS_RemoveElement DEF FiniteInv
    <3>2. new \notin info \ {old}
      BY <1>7
    <3>3. IsFiniteSet(info') /\ Cardinality(info') = Cardinality(info)
      BY <2>2, <3>1, <3>2, FS_AddElement
    <3>4. old[2] \notin replaced
      BY <1>1, <1>7 DEF PlaceInv
    <3>5. IsFiniteSet(replaced') /\ Cardinality(replaced') = Cardinality(replaced) + 1
      BY <1>1, <2>2, <3>4, FS_AddElement DEF FiniteInv
    <3>6. info' # {}
      BY <2>2
    <3>7. Cardinality(info') \in Nat /\ Cardinality(replaced') \in Nat
          /\ Cardinality(info') + Cardinality(replaced')
             = Cardinality(info) + Cardinality(replaced) + 1
          /\ Cardinality(replaced') >= Cardinality(replaced)
      BY <3>3, <3>5
    <3>8. QED
      BY <3>3, <3>5, <3>6, <3>7
  <2>3. QED
    BY <1>1, <2>1, <2>2, InsertCases
<1>9. FiniteInv'
  BY <1>1, <1>2, <1>4, <1>8 DEF FiniteInv
<1>10. CountInv'
  BY <1>1, <1>2, <1>5, <1>8 DEF CountInv, Alive
<1>11. QED
  BY <1>9, <1>10

\* A writer's post turns the post it owes into a token.
LEMMA PostCount ==
  ASSUME IInv, NEW w \in Writers, Post(w)
  PROVE  FiniteInv' /\ CountInv'
<1> USE Numbers
<1>1. NetTypeOK /\ FiniteInv /\ CountInv
  BY DEF IInv, LineInv, WakeInv
<1>2. /\ npc[w] = "post" /\ npc' = [npc EXCEPT ![w] = "idle"] /\ psem' = psem + 1
      /\ UNCHANGED <<info, replaced, thr, own, wpc, mg, sent, repeats, signals>>
  BY DEF Post, Posted, pthVars, workerVars
<1>3. Posting' = Posting \ {w} /\ w \in Posting
  BY <1>1, <1>2 DEF Posting, NetTypeOK
<1>4. IsFiniteSet(Posting') /\ Cardinality(Posting') = Cardinality(Posting) - 1
  BY <1>1, <1>3, FS_RemoveElement DEF FiniteInv
<1>5. WakeUps' = WakeUps
  BY <1>2, <1>4 DEF WakeUps
<1>6. QED
  BY <1>1, <1>2, <1>4, <1>5 DEF FiniteInv, CountInv, Alive

\* The worker spends a wake-up on a line, or on nothing if one was in excess.
LEMMA TakeCount ==
  ASSUME IInv, Take
  PROVE  FiniteInv' /\ CountInv'
<1> USE Numbers
<1>1. NetTypeOK /\ PlaceInv /\ FiniteInv /\ CountInv
  BY DEF IInv, LineInv, WakeInv
<1>2. /\ thr = "work" /\ thr' = "test" /\ wpc = "take" /\ wpc' = "wait"
      /\ sent' = sent \cup {mg'}
      /\ UNCHANGED <<own, psem, npc, replaced, signals>>
  BY DEF Take, WorkAgain, writerVars
<1>3. Posting' = Posting
  BY <1>2 DEF Posting
<1>4. WakeUps = WakeUps' + 1 /\ WakeUps' \in Nat
  BY <1>2, <1>3 DEF WakeUps
<1>5. ASSUME NEW line \in info, info' = info \ {line}, mg' = line[2], repeats' = repeats
      PROVE  FiniteInv' /\ CountInv'
  <2>1. IsFiniteSet(info') /\ Cardinality(info') = Cardinality(info) - 1
    BY <1>1, <1>5, FS_RemoveElement DEF FiniteInv
  <2>2. mg' # 0
    BY <1>1, <1>5 DEF PlaceInv, Queued
  <2>3. QED
    BY <1>1, <1>2, <1>3, <1>4, <1>5, <2>1, <2>2 DEF FiniteInv, CountInv, Alive
<1>6. CASE info = {} /\ repeats' = repeats + 1 /\ UNCHANGED <<info, mg>>
  <2>1. repeats < Cardinality(replaced) + signals
    BY <1>1, <1>2, <1>6 DEF CountInv
  <2>2. mg = 0 => signals > 0
    BY <1>1, <1>6, <2>1 DEF CountInv
  <2>3. QED
    BY <1>1, <1>2, <1>3, <1>4, <1>6, <2>1, <2>2 DEF FiniteInv, CountInv, Alive
<1>7. QED
  BY <1>5, <1>6 DEF Take, Taken

\* Every step preserves the inductive invariant.
LEMMA NextIInv == IInv /\ [Next]_vars => IInv'
<1> SUFFICES ASSUME IInv, [Next]_vars PROVE IInv'
  OBVIOUS
<1>1. LineInv' /\ NetTypeOK'
  BY NextLineInv DEF IInv, LineInv
<1>2. LifeInv'
  BY LifeInvStep DEF IInv, LineInv, WakeInv
<1>3. FiniteInv' /\ CountInv'
  BY <1>1, OtherCount, InsertCount, PostCount, TakeCount DEF Next, WorkerStep, WriterStep
<1>4. QED
  BY <1>1, <1>2, <1>3 DEF IInv, WakeInv

-----------------------------------------------------------------------------
(* The theorems.                                                           *)

\* Every reachable state satisfies the inductive invariant.
THEOREM Inductive == Spec => []IInv
<1>1. QED
  BY InitIInv, NextIInv, PTL DEF Spec

\* No line of the network log disappears but by another of the same stamp.
THEOREM NoLineDisappears == Spec => []LinesAccounted
<1>1. ASSUME IInv PROVE LinesAccounted
  <2>1. NetTypeOK /\ PlaceInv
    BY <1>1 DEF IInv, LineInv
  <2>2. \A i, j \in 1 .. 4 : i # j => Places[i] \cap Places[j] = {}
    BY <2>1 DEF PlaceInv, Places
  <2>3. QED
    BY <2>1, <2>2 DEF LinesAccounted, PlaceInv
<1>2. QED
  BY Inductive, <1>1, PTL

\* The wake-ups of the worker are those of the lines, and it repeats a line or
\* sends an empty one only for a line replaced or a signal.
THEOREM WakeUpsBalance == Spec => []WakeUpsExact
<1>1. IInv => WakeUpsExact
  BY DEF IInv, WakeInv, CountInv, WakeUpsExact
<1>2. QED
  BY Inductive, <1>1, PTL

=============================================================================
