----------------------------- MODULE PrintfClass ----------------------------
(***************************************************************************)
(* PrintfClass (zprint/printfclass.cpp): the direct log.  Threads write    *)
(* lines to the FILE m_pfd under m_printMut, a raw mutex that nobody       *)
(* unlocks for a thread that is cancelled, while printfInit and            *)
(* printfClassInit replace m_pfd without it.  A line with a time stamp is  *)
(* two calls of stdio, any other is one.  What is written to stdout leaves *)
(* no trace here.  A FILE used after fclose, or NULL used as one, is       *)
(* undefined behaviour: the process is broken and nothing is said of it    *)
(* any more.                                                               *)
(***************************************************************************)
EXTENDS Naturals, Sequences

CONSTANTS
  Loggers,    \* the threads that log directly
  Level,      \* m_level: PRINT_PRO, or what the file "m_level" says
  MaxLines,   \* bound: calls of the loggers
  MaxFiles    \* bound: FILEs opened, stdout and the constructor's included

ASSUME PrintfAssumption == Level \in Nat /\ MaxLines \in Nat /\ MaxFiles \in Nat \ {0, 1}

NULL      == 0            \* FILEs are numbers, in the order they are opened
Stdout    == 1
Nobody    == "nobody"
Destroyed == "destroyed"

ASSUME PrintfNames == Nobody \notin Loggers /\ Destroyed \notin Loggers

VARIABLES
  m_pfd, m_mark,
  m_printMut,   \* who holds it, or Destroyed
  open,         \* the FILEs that are open
  files,        \* number of FILEs ever opened (bound, and source of numbers)
  lpc,          \* per logger: where it is in the call
  log,          \* history: the pieces of lines that reached m_pfd
  broken,       \* undefined behaviour was met
  reopened,     \* history: m_pfd was replaced after the constructor
  lines         \* number of calls (bound only)

fileVars == <<m_pfd, m_mark, open, files>>
printVars == <<fileVars, m_printMut, lpc, log, broken, reopened, lines>>

\* The constructor: no directory; a file; a file that fopen refuses.
PrintInit ==
  /\ \/ m_pfd = Stdout /\ m_mark = 0 /\ open = {Stdout} /\ files = 1
     \/ m_pfd = 2 /\ m_mark = 1 /\ open = {Stdout, 2} /\ files = 2
     \/ m_pfd = NULL /\ m_mark = 0 /\ open = {Stdout} /\ files = 1
  /\ m_printMut = Nobody /\ lpc = [t \in Loggers |-> "idle"] /\ log = <<>>
  /\ broken = FALSE /\ reopened = FALSE /\ lines = 0

LGo(t, where) == lpc' = [lpc EXCEPT ![t] = where]

LCall(t, where) ==
  /\ lpc[t] = "idle" /\ lines < MaxLines /\ m_printMut # Destroyed
  /\ lines' = lines + 1 /\ LGo(t, where)
  /\ UNCHANGED <<m_printMut, log, broken>>

-----------------------------------------------------------------------------
(* The four kinds of lines.                                                *)

\* zprintf tests m_pfd before it locks.
Zprintf(t) ==
  /\ m_mark = 1 /\ Level >= 3 /\ m_pfd # NULL
  /\ LCall(t, "lockPlain") /\ UNCHANGED <<fileVars, reopened>>

\* timeprintf and timemsprintf test it afterwards.
Timeprintf(t) ==
  /\ m_mark = 1 /\ Level >= 1
  /\ LCall(t, "lockTime") /\ UNCHANGED <<fileVars, reopened>>

Hprintf(t) ==
  /\ m_mark = 1 /\ Level >= 4
  /\ LCall(t, "lockStdout") /\ UNCHANGED <<fileVars, reopened>>

LogLock(t) ==
  /\ lpc[t] \in {"lockPlain", "lockTime", "lockStdout"} /\ m_printMut = Nobody
  /\ m_printMut' = t
  /\ LGo(t, CASE lpc[t] = "lockPlain"  -> "body"
              [] lpc[t] = "lockTime"   -> "head"
              [] lpc[t] = "lockStdout" -> "unlock")
  /\ UNCHANGED <<fileVars, log, broken, reopened, lines>>

Writable == m_pfd \in open

\* One call of stdio on m_pfd, as it is now.
Piece(t, part) ==
  IF Writable
  THEN /\ log' = IF m_pfd = Stdout THEN log ELSE Append(log, <<t, part>>)
       /\ UNCHANGED broken
  ELSE broken' = TRUE /\ UNCHANGED log

LogHead(t) ==
  /\ lpc[t] = "head"
  /\ IF m_pfd = NULL THEN LGo(t, "unlock") /\ UNCHANGED <<log, broken>>
                     ELSE LGo(t, "body") /\ Piece(t, "head")
  /\ UNCHANGED <<fileVars, m_printMut, reopened, lines>>

LogBody(t) ==
  /\ lpc[t] = "body" /\ LGo(t, "unlock") /\ Piece(t, "body")
  /\ UNCHANGED <<fileVars, m_printMut, reopened, lines>>

Unlocked(t) == Nobody

LogUnlock(t) ==
  /\ lpc[t] = "unlock" /\ LGo(t, "idle") /\ m_printMut' = Unlocked(t)
  /\ UNCHANGED <<fileVars, log, broken, reopened, lines>>

-----------------------------------------------------------------------------
(* Replacing m_pfd.                                                        *)

NewFile ==
  /\ files < MaxFiles /\ files' = files + 1
  /\ open' = open \cup {files + 1} /\ m_pfd' = files + 1

\* printfInit: stdout at once; a file in three steps.
PrintfInit(t) ==
  /\ \/ LCall(t, "idle") /\ m_pfd' = Stdout
     \/ LCall(t, "close") /\ UNCHANGED m_pfd
  /\ reopened' = TRUE /\ UNCHANGED <<m_mark, open, files>>

CloseOld(t) ==
  /\ lpc[t] = "close" /\ LGo(t, "clear")
  /\ broken' = (m_pfd # NULL /\ ~Writable) /\ open' = open \ ({m_pfd} \ {Stdout})
  /\ UNCHANGED <<m_pfd, m_mark, files, m_printMut, log, reopened, lines>>

ClearOld(t) ==
  /\ lpc[t] = "clear" /\ LGo(t, "open") /\ m_pfd' = NULL
  /\ UNCHANGED <<m_mark, open, files, m_printMut, log, broken, reopened, lines>>

OpenNew(t) ==
  /\ lpc[t] = "open" /\ LGo(t, "idle")
  /\ \/ NewFile
     \/ m_pfd' = NULL /\ UNCHANGED <<open, files>>
  /\ UNCHANGED <<m_mark, m_printMut, log, broken, reopened, lines>>

\* printfClassInit: the old FILE stays open, and a line tells the version.
PrintfClassInit(t) ==
  \/ /\ LCall(t, "idle") /\ m_mark' \in {0, 1}
     /\ UNCHANGED <<m_pfd, open, files, reopened>>
  \/ /\ LCall(t, "lockTime") /\ NewFile /\ m_mark' = 1 /\ reopened' = TRUE
  \/ /\ LCall(t, "idle") /\ m_pfd' = NULL /\ reopened' = TRUE
     /\ UNCHANGED <<m_mark, open, files>>

LoggerCall(t) == Zprintf(t) \/ Timeprintf(t) \/ Hprintf(t) \/ PrintfInit(t) \/ PrintfClassInit(t)
LoggerStep(t) == \/ LogLock(t) \/ LogHead(t) \/ LogBody(t) \/ LogUnlock(t)
                 \/ CloseOld(t) \/ ClearOld(t) \/ OpenNew(t)

-----------------------------------------------------------------------------

PrintTypeOK ==
  /\ m_pfd \in 0 .. files /\ m_mark \in {0, 1}
  /\ open \subseteq 1 .. files /\ files \in 1 .. MaxFiles
  /\ lpc \in [Loggers -> {"idle", "lockPlain", "lockTime", "lockStdout", "head",
                          "body", "unlock", "close", "clear", "open"}]
  /\ broken \in BOOLEAN /\ reopened \in BOOLEAN /\ lines \in 0 .. MaxLines

\* The time stamp and the text of a line stand together: no other thread's
\* line comes between them.
LineOf(i) ==
  \/ i < Len(log) /\ log[i + 1] = <<log[i][1], "body">>
  \/ i = Len(log) /\ log[i][1] \in Loggers /\ lpc[log[i][1]] = "body"
LinesWhole == ~reopened => \A i \in DOMAIN log : log[i][2] = "head" => LineOf(i)

=============================================================================
