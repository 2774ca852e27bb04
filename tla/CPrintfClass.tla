---------------------------- MODULE CPrintfClass ----------------------------
(***************************************************************************)
(* CPrintfClass (zprint/cprintfclass.cpp): the asynchronous log.  Writers  *)
(* put lines into the ring of TwoBuf; its worker hands each to             *)
(* writePrintfCallBack, which writes it through PrintfClass beside the     *)
(* threads that log directly.  Pth_Class itself logs directly.  The        *)
(* singletons are destroyed when main is over: first CPrintfClass, then    *)
(* PrintfClass, which was constructed before it.                           *)
(*                                                                         *)
(* The version line of printfInit is one of the writers' lines; the lines  *)
(* of Pth_Class only wait for m_printMut.                                  *)
(***************************************************************************)
EXTENDS TwoBuf, PrintfClass

ASSUME CPrintfNames == Worker \notin Loggers

VARIABLES
  c_pfd,      \* whether CPrintfClass's own m_pfd is not NULL: it is only tested
  c_mark,     \* its own m_mark; its m_level is Level
  wcb,        \* the worker in writeData: "lock", "seek", "write", "unlock"
  killed      \* history: the worker was cancelled with m_printMut in its hand

cVars == <<c_pfd, c_mark, wcb, killed>>
bufVars == <<cls, ringVars, m_sem, m_mutex, copying, workVars, silent, writes>>
allVars == <<vars, printVars, cVars>>

CInit ==
  /\ Init /\ PrintInit
  /\ c_pfd = TRUE /\ c_mark = 0 /\ wcb = "lock" /\ killed = FALSE

-----------------------------------------------------------------------------
(* The writers.                                                            *)

\* zprintf, timeprintf, timemsprintf: vsnprintf tells the length of the whole
\* line, also when that is more than the buffer; the ring then refuses it.
CPrintf(w, m) ==
  /\ c_mark = 1 /\ Level >= 1 /\ c_pfd /\ SizeOf[m] > 0
  /\ WriteBegin(w, m) \/ WriteRefused(w, m)
  /\ UNCHANGED <<printVars, cVars>>

CPrintfEnd(w) == WriteEnd(w) /\ UNCHANGED <<printVars, cVars>>

\* hprintf writes to stdout under the mutex of the ring.
CHprintf(w) ==
  /\ c_mark = 1 /\ Level >= 4 /\ Usable /\ m_mutex = Free
  /\ UNCHANGED allVars

-----------------------------------------------------------------------------
(* printfInit, and the owner's calls of Pth_Class.                         *)

\* What Pth_Class logs about its calls: it gets the mutex, or it waits.
Logged == m_printMut = Nobody \/ m_mark = 0 \/ Level < 3

\* printfInit with a directory: start() if the thread is not there.
CPrintfInit ==
  /\ own = OwnIdle /\ Logged
  /\ \/ m_pfd # NULL /\ c_pfd' = TRUE /\ c_mark' = 1
        /\ IF m_pid = "none" THEN StartCreate \/ StartFail ELSE UNCHANGED pthVars
     \/ m_pfd = NULL /\ c_pfd' = FALSE /\ UNCHANGED <<c_mark, pthVars>>
     \/ c_mark' \in {0, 1} /\ UNCHANGED <<c_pfd, pthVars>>
  /\ UNCHANGED <<bufVars, printVars, wcb, killed>>

\* stop, waitEnd, ~CPrintfClass: ~TwoBufPthT finds running at 0 after it.
COwner ==
  /\ Stop \/ WaitEnd \/ DtorBegin \/ OwnerStep
  /\ own \in {OwnIdle, "join", "dtorJoin", "baseDtor", "baseJoin"} => Logged
  /\ own' \in {"dtorWake", "baseDtor"} /\ own = OwnIdle => m_mutex \notin Writers
  /\ UNCHANGED <<bufVars, printVars, cVars>>

COwnerWake == OwnerWake /\ UNCHANGED <<printVars, cVars>>

\* ~PrintfClass; by then nobody logs directly.
PrintfDtor ==
  /\ own = "dead" /\ m_printMut # Destroyed
  /\ \A t \in Loggers : lpc[t] = "idle"
  /\ m_pfd \notin {NULL, Stdout}
  /\ open' = open \ {m_pfd} /\ m_pfd' = NULL /\ m_printMut' = Destroyed
  /\ UNCHANGED <<vars, m_mark, files, lpc, log, broken, reopened, lines, cVars>>

-----------------------------------------------------------------------------
(* The worker: TwoBuf's, with writePrintfCallBack in place of Callback.    *)

CWorker ==
  /\ \/ WorkerEnter /\ Logged
     \/ WorkerLoop \/ SemWait \/ ReadBegin \/ ReadEmpty \/ ReadEnd
  /\ UNCHANGED <<printVars, cVars>>

CInterrupted == SemInterrupted /\ UNCHANGED <<printVars, cVars>>

InCallback == thr = "work" /\ wpc = "call"

\* Mutant of WriteLock: writeData does not lock.
WriteLock_none == UNCHANGED <<m_printMut, broken>>

WriteLock ==
  /\ m_printMut \in {Nobody, Destroyed}
  /\ m_printMut' = IF m_printMut = Nobody THEN Worker ELSE m_printMut
  /\ broken' = (m_printMut = Destroyed)

WriteData ==
  /\ InCallback /\ wcb = "lock" /\ wcb' = "seek" /\ WriteLock
  /\ UNCHANGED <<vars, fileVars, lpc, log, reopened, lines,
                 c_pfd, c_mark, killed>>

\* Without a file the answer is -1.
Seek ==
  /\ InCallback /\ wcb = "seek" /\ wcb' = IF m_pfd = NULL THEN "unlock" ELSE "write"
  /\ broken' = (m_pfd # NULL /\ ~Writable)
  /\ UNCHANGED <<vars, fileVars, m_printMut, lpc, log, reopened, lines,
                 c_pfd, c_mark, killed>>

Fwrite ==
  /\ InCallback /\ wcb = "write" /\ wcb' = "unlock" /\ Piece(Worker, "line")
  /\ UNCHANGED <<vars, fileVars, m_printMut, lpc, reopened, lines,
                 c_pfd, c_mark, killed>>

\* Mutant of WriteUnlock: the answer -1 is given with the mutex held.
WriteUnlock_ifFile == IF m_pfd = NULL THEN m_printMut ELSE Nobody

WriteUnlock == Nobody

\* The mutex is given back and the callback returns.
WriteDone ==
  /\ wcb = "unlock" /\ Callback /\ wcb' = "lock"
  /\ m_printMut' = IF m_printMut = Worker THEN WriteUnlock ELSE m_printMut
  /\ UNCHANGED <<fileVars, lpc, log, broken, reopened, lines, c_pfd, c_mark, killed>>

\* The lock and the unlock are no cancellation points, the calls of stdio are:
\* cancelled there, or in the line of start_thread, the worker keeps m_printMut.
CWorkerCancelled ==
  /\ WorkerCancelled /\ (InCallback => wcb \in {"seek", "write"})
  /\ wcb' = "lock"
  /\ m_printMut' \in IF thr = "born" /\ m_printMut = Nobody THEN {Nobody, Worker}
                                                            ELSE {m_printMut}
  /\ killed' = (m_printMut' = Worker)
  /\ UNCHANGED <<fileVars, lpc, log, broken, reopened, lines, c_pfd, c_mark>>

CWorkerStep == CWorker \/ WriteData \/ Seek \/ Fwrite \/ WriteDone \/ CWorkerCancelled

LoggerCalls(t) == LoggerCall(t) /\ own # "dead" /\ UNCHANGED <<vars, cVars>>
LoggerSteps(t) == LoggerStep(t) /\ UNCHANGED <<vars, cVars>>

CNext ==
  /\ ~broken
  /\ \/ \E w \in Writers : CPrintfEnd(w) \/ CHprintf(w) \/ \E m \in Messages : CPrintf(w, m)
     \/ CPrintfInit \/ COwner \/ COwnerWake \/ PrintfDtor
     \/ CWorkerStep \/ CInterrupted
     \/ \E t \in Loggers : LoggerCalls(t) \/ LoggerSteps(t)

\* As in TwoBuf: threads that can run do, calls need not be made.
CFairness ==
  /\ WF_allVars(~broken /\ CWorkerStep)
  /\ WF_allVars(~broken /\ ((OwnerStep /\ COwner) \/ COwnerWake))
  /\ \A w \in Writers : WF_allVars(~broken /\ CPrintfEnd(w))
  /\ \A t \in Loggers : SF_allVars(~broken /\ LoggerSteps(t))

CSpec == CInit /\ [][CNext]_allVars /\ CFairness

-----------------------------------------------------------------------------
(* Properties.                                                             *)

\* Lines stand whole in the file, the worker's and the loggers' (and types).
LogWhole ==
  /\ TypeOK /\ PrintTypeOK /\ LinesWhole
  /\ m_printMut \in Loggers \cup {Nobody, Worker, Destroyed}
  /\ c_pfd \in BOOLEAN /\ c_mark \in {0, 1}
  /\ wcb \in {"lock", "seek", "write", "unlock"}

\* Until somebody replaces m_pfd no thread uses a FILE after fclose or a mutex
\* after its destruction, the worker included when the process ends.
NoUseAfterClose == broken => reopened

\* Every direct call returns, whoever replaces the file, unless a worker was
\* cancelled in the middle of a line: it keeps m_printMut, and no thread of the
\* process logs directly again, nor starts or stops a thread.
LogReturns ==
  \A t \in Loggers : lpc[t] # "idle" ~> lpc[t] = "idle" \/ killed \/ broken

=============================================================================
