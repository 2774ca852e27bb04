------------------------------ MODULE NetPrint ------------------------------
(***************************************************************************)
(* Print_Server (zprint/netprint.cpp): the log over the network.  The Qt   *)
(* thread receives "start printf!" and "stop printf!" and destroys the     *)
(* object: it is the owner of PthClass.  Writers put lines into the QMap   *)
(* info, whose key is the time stamp, and post psem once for each; the     *)
(* worker takes the line with the smallest key once for each token.  Two   *)
(* lines of the same microsecond share a key: the second replaces the      *)
(* first, its token stays, and the worker that finds info empty sends the  *)
(* line it still holds once more.                                          *)
(*                                                                         *)
(* The clock is gettimeofday: a stamp may equal or precede an earlier one. *)
(* The destructor is called when no call of a writer is in progress.       *)
(***************************************************************************)
EXTENDS PthClass, FiniteSets

CONSTANTS
  Writers,      \* threads that call netprintf
  Times,        \* the values of struct timeval
  MaxLines,     \* bound: lines queued or about to be
  MaxSignals    \* bound: signals that interrupt sem_wait

ASSUME NetAssumption == Times \subseteq Nat /\ MaxLines \in Nat /\ MaxSignals \in Nat

VARIABLES
  constate,
  info,         \* the QMap: pairs of a time and the number of a line
  psem,
  npc,          \* per writer: "idle", "insert", "post"
  hand,         \* per writer: the pair it inserts
  wpc,          \* the worker in the loop body: "wait", "woken", "take"
  mg,           \* the line the worker holds; 0 is the empty QString
  sent,         \* history: the lines handed to send_data
  replaced,     \* history: the lines whose key was used again
  repeats,      \* history: how often the worker found nothing to take
  signals,      \* number of interrupted sem_wait (bound only)
  calls         \* number of lines (bound, and source of their numbers)

writerVars == <<npc, hand, calls, replaced>>
workerVars == <<wpc, mg, sent, repeats, signals>>
netVars == <<constate, info, psem, writerVars, workerVars>>
vars == <<pthVars, netVars>>

Init ==
  /\ PthInit
  /\ constate = 0 /\ info = {} /\ psem = 0 /\ npc = [w \in Writers |-> "idle"]
  /\ hand = [w \in Writers |-> <<0, 0>>]
  /\ wpc = "wait" /\ mg = 0 /\ sent = {} /\ replaced = {}
  /\ repeats = 0 /\ signals = 0 /\ calls = 0

-----------------------------------------------------------------------------
(* up_data_process and the destructor: the Qt thread.                      *)

StartPrintf ==
  /\ own = OwnIdle /\ constate' = 1
  /\ StartCreate \/ StartFail \/ (m_pid # "none" /\ UNCHANGED pthVars)
  /\ UNCHANGED <<info, psem, writerVars, workerVars>>

StopPrintf ==
  /\ own = OwnIdle /\ constate' = 0
  /\ UNCHANGED <<pthVars, info, psem, writerVars, workerVars>>

Destroy ==
  /\ DtorBegin /\ \A w \in Writers : npc[w] = "idle"
  /\ constate' = IF running = 1 THEN 0 ELSE constate
  /\ UNCHANGED <<info, psem, writerVars, workerVars>>

\* Mutant of WakePost: running = 0 is not followed by sem_post.
WakePost_missing == psem

WakePost == psem + 1

DestroyWake ==
  /\ DtorWake /\ psem' = WakePost
  /\ UNCHANGED <<constate, info, writerVars, workerVars>>

QtStep == OwnerStep /\ UNCHANGED netVars

-----------------------------------------------------------------------------
(* netprintf.                                                              *)

\* constate is read without the lock, and the stamp is taken before it.
Netprintf(w) ==
  /\ npc[w] = "idle" /\ own \in {OwnIdle, "created"} /\ constate = 1 /\ calls < MaxLines
  /\ calls' = calls + 1
  /\ \E t \in Times : hand' = [hand EXCEPT ![w] = <<t, calls + 1>>]
  /\ npc' = [npc EXCEPT ![w] = "insert"]
  /\ UNCHANGED <<pthVars, constate, info, psem, replaced, workerVars>>

SameKey(line) == {old \in info : old[1] = line[1]}

\* lock, QMap::insert, unlock: an equal key gets the new value.
Insert(w) ==
  /\ npc[w] = "insert"
  /\ info' = (info \ SameKey(hand[w])) \cup {hand[w]}
  /\ replaced' = replaced \cup {old[2] : old \in SameKey(hand[w])}
  /\ npc' = [npc EXCEPT ![w] = "post"] /\ hand' = [hand EXCEPT ![w] = <<0, 0>>]
  /\ UNCHANGED <<pthVars, constate, psem, calls, workerVars>>

\* Mutant of Posted: only the line that finds the map empty posts.
Posted_onlyFirst == IF Cardinality(info) = 1 THEN psem + 1 ELSE psem

Posted == psem + 1

Post(w) ==
  /\ npc[w] = "post" /\ psem' = Posted /\ npc' = [npc EXCEPT ![w] = "idle"]
  /\ UNCHANGED <<pthVars, constate, info, hand, calls, replaced, workerVars>>

-----------------------------------------------------------------------------
(* run.                                                                    *)

EnterRun == (Enter \/ LoopTest) /\ UNCHANGED netVars

SemWait ==
  /\ thr = "work" /\ wpc = "wait" /\ psem > 0 /\ psem' = psem - 1 /\ wpc' = "woken"
  /\ UNCHANGED <<pthVars, constate, info, writerVars, mg, sent, repeats, signals>>

\* A blocked sem_wait is interrupted; its result is not looked at.
SemInterrupted ==
  /\ thr = "work" /\ wpc = "wait" /\ psem = 0 /\ signals < MaxSignals
  /\ signals' = signals + 1 /\ wpc' = "woken"
  /\ UNCHANGED <<pthVars, constate, info, psem, writerVars, mg, sent, repeats>>

Woken ==
  /\ thr = "work" /\ wpc = "woken"
  /\ IF running = 0 THEN thr' = "gone" /\ UNCHANGED wpc ELSE wpc' = "take" /\ UNCHANGED thr
  /\ UNCHANGED <<m_pid, running, cancel, own, starts, constate, info, psem, writerVars,
                 mg, sent, repeats, signals>>

\* Mutant of Taken: the line is sent and stays in the map.
Taken_kept(line) == info

Taken(line) == info \ {line}

\* The line with the smallest key, if there is one; what mg holds is handed to
\* send_data.  run() does not look at its result: no state depends on whether
\* the datagram left.
Take ==
  /\ WorkAgain /\ wpc = "take" /\ wpc' = "wait"
  /\ \/ \E line \in info :
          /\ \A other \in info : line[1] <= other[1]
          /\ info' = Taken(line) /\ mg' = line[2] /\ UNCHANGED repeats
     \/ info = {} /\ repeats' = repeats + 1 /\ UNCHANGED <<info, mg>>
  /\ sent' = sent \cup {mg'}
  /\ UNCHANGED <<constate, psem, writerVars, signals>>

WorkerStep == EnterRun \/ SemWait \/ Woken \/ Take
WriterStep(w) == Insert(w) \/ Post(w)

Next ==
  \/ StartPrintf \/ StopPrintf \/ Destroy \/ DestroyWake \/ QtStep
  \/ WorkerStep \/ SemInterrupted
  \/ \E w \in Writers : Netprintf(w) \/ WriterStep(w)

\* Threads that can run do; datagrams and signals need not arrive.
Fairness ==
  /\ WF_vars(WorkerStep)
  /\ WF_vars(QtStep \/ DestroyWake)
  /\ \A w \in Writers : WF_vars(WriterStep(w))

Spec == Init /\ [][Next]_vars /\ Fairness

-----------------------------------------------------------------------------
(* Properties.                                                             *)

Lines == 1 .. calls
Inserting == {hand[w][2] : w \in {v \in Writers : npc[v] = "insert"}}
Posting == {w \in Writers : npc[w] = "post"}
Queued == {line[2] : line \in info}
Alive == own \in {OwnIdle, "created"}

NetTypeOK ==
  /\ PthTypeOK /\ constate \in {0, 1} /\ psem \in Nat
  /\ info \subseteq Times \X Lines /\ wpc \in {"wait", "woken", "take"}
  /\ npc \in [Writers -> {"idle", "insert", "post"}]
  /\ \A w \in Writers : npc[w] = "insert" => hand[w] \in Times \X Lines

\* No line disappears but by another of the same microsecond: each is on its
\* way into the map, in it, sent, or replaced, and in one of them only (types).
Places == <<Inserting, Queued, sent, replaced>>
LinesAccounted ==
  /\ NetTypeOK
  /\ Lines = Inserting \cup Queued \cup (sent \ {0}) \cup replaced
  /\ \A i, j \in 1 .. 4 : i # j => Places[i] \cap Places[j] = {}

\* While the object lives the wake-ups are those of the lines in the map and of
\* the lines replaced.  So the worker repeats a line, or sends an empty one
\* with a stamp it never set, only for a line replaced or a signal.
WakeUps == psem + Cardinality(Posting) + (IF thr = "work" /\ wpc # "wait" THEN 1 ELSE 0)
WakeUpsExact ==
  /\ Alive => WakeUps + repeats = Cardinality(info) + Cardinality(replaced) + signals
  /\ repeats <= Cardinality(replaced) + signals
  /\ 0 \in sent => signals > 0

\* A queued line is sent or replaced while the worker serves, and the
\* destructor of a server that was started returns.
Serving == Alive /\ thr \in {"born", "test", "work"}
NetProgress ==
  /\ \A l \in 1 .. MaxLines : l \in Queued /\ Serving ~> l \in sent \cup replaced \/ ~Serving
  /\ own = "dtorWake" ~> own = "dead"

=============================================================================
