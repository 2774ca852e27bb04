------------------------------ MODULE MsgQueue ------------------------------
(***************************************************************************)
(* Z_Msg (prodata/zmsg.h), MsgSendClass, MsgRevClass and MsgRevBackClass   *)
(* (msgpro/msgprocess.h): objects of several processes that open, create,  *)
(* use and remove the System V message queue of one key, and one of them,  *)
(* Me, whose thread (PthClass) blocks in msgrcv and calls back.            *)
(*                                                                         *)
(* A message is the number of the send that queued it and its type.  The   *)
(* kernel's queue is modelled from its use: one queue at most has the key, *)
(* a queue removed is never found again under its id, msgrcv takes the     *)
(* first message of the type asked for, and a queue outlives the processes *)
(* that use it.  Every send is IPC_NOWAIT, and no thread sends through Me, *)
(* whose sends and receives share one m_msgDta without a lock.             *)
(***************************************************************************)
EXTENDS PthClass, SequencesExt

CONSTANTS
  Peers, Me,      \* the objects: senders and pollers, and the receiver
  Types,          \* the types messages are sent with
  m_msgType,      \* the type Me receives
  Capacity,       \* messages that fit in the queue (msg_qbytes)
  MaxSends,       \* bound: messages queued
  MaxQueues       \* bound: queues created

ASSUME MsgAssumption ==
  /\ Me \notin Peers /\ m_msgType \in Types
  /\ Capacity \in Nat /\ MaxSends \in Nat /\ MaxQueues \in Nat

Objects == Peers \cup {Me}
NoQueue == 0                     \* m_msgId = -1, or no queue has the key
NoMsg   == [n |-> 0, type |-> 0]

VARIABLES
  key,        \* the id of the queue the key leads to
  queue,      \* what is in it, oldest first
  ids,        \* number of queues created (bound, and source of fresh ids)
  m_msgId,    \* per object
  m_msgCreated,   \* per object: m_created of Z_Msg
  opening,    \* per object: create_object is between its two msgget calls
  m_msgDta,   \* Me's buffer
  wpc, val,   \* the worker: where in run(), and its local copy
  stopping,   \* where stopMsgRev is: "no", "release", "join"
  handled,    \* history: what the callback was given
  polled,     \* history: what the peers received
  lost,       \* history: gone with a removed queue or a dying receiver
  orphan,     \* history: the queue was created by an object that believes
              \* it has opened it, or its last creator was killed
  sends       \* messages queued (bound, and source of numbers)

msgKernVars == <<key, queue, ids>>
msgObjVars  == <<m_msgId, m_msgCreated, opening>>
msgHistVars == <<handled, polled, lost, orphan, sends>>
msgVars == <<pthVars, msgKernVars, msgObjVars, m_msgDta, wpc, val, stopping,
             msgHistVars>>

MsgInit ==
  /\ PthInit
  /\ key = NoQueue /\ queue = <<>> /\ ids = 0
  /\ m_msgId = [o \in Objects |-> NoQueue]
  /\ m_msgCreated = [o \in Objects |-> FALSE]
  /\ opening = [o \in Objects |-> FALSE]
  /\ m_msgDta = NoMsg
  /\ wpc = "receive" /\ val = NoMsg /\ stopping = "no"
  /\ handled = <<>> /\ polled = {} /\ lost = {} /\ orphan = FALSE /\ sends = 0

-----------------------------------------------------------------------------
(* Creating, opening and removing the queue.                               *)

Numbers(msgs) == {m.n : m \in Range(msgs)}
Reaches(o) == key # NoQueue /\ m_msgId[o] = key

\* Me is (re)opened by its owner while it has no thread.
Callable(o) == ~opening[o] /\ (o = Me => own = OwnIdle /\ m_pid = "none" /\ stopping = "no")

\* Mutant of Claimed: create_object does not note that it created the queue.
Claimed_forgotten(o) == m_msgCreated

Claimed(o) == [m_msgCreated EXCEPT ![o] = TRUE]

NewQueue(o) ==
  /\ key = NoQueue /\ ids < MaxQueues
  /\ ids' = ids + 1 /\ key' = ids + 1 /\ queue' = <<>>
  /\ m_msgId' = [m_msgId EXCEPT ![o] = ids + 1]

\* create_object: IPC_CREAT | IPC_EXCL creates, or fails with EEXIST ...
CreateExcl(o) ==
  /\ Callable(o)
  /\ \/ NewQueue(o) /\ m_msgCreated' = Claimed(o) /\ orphan' = FALSE
        /\ UNCHANGED opening
     \/ key # NoQueue /\ opening' = [opening EXCEPT ![o] = TRUE]
        /\ m_msgId' = [m_msgId EXCEPT ![o] = NoQueue]
        /\ UNCHANGED <<msgKernVars, m_msgCreated, orphan>>
  /\ UNCHANGED <<pthVars, m_msgDta, wpc, val, stopping, handled, polled, lost,
                 sends>>

\* ... and then IPC_CREAT alone opens, or creates if it was removed meanwhile.
CreateOpen(o) ==
  /\ opening[o] /\ opening' = [opening EXCEPT ![o] = FALSE]
  /\ \/ key # NoQueue /\ m_msgId' = [m_msgId EXCEPT ![o] = key]
        /\ UNCHANGED <<msgKernVars, orphan>>
     \/ NewQueue(o) /\ orphan' = TRUE
  /\ UNCHANGED <<pthVars, m_msgCreated, m_msgDta, wpc, val, stopping, handled,
                 polled, lost, sends>>

\* get_msg, also in the constructor of a sender.
GetMsg(p) ==
  /\ Callable(p) /\ m_msgId' = [m_msgId EXCEPT ![p] = key]
  /\ UNCHANGED <<pthVars, msgKernVars, m_msgCreated, opening, m_msgDta, wpc,
                 val, stopping, msgHistVars>>

\* IPC_RMID by id: everything in the queue is gone with it.
Rmid(o) ==
  IF Reaches(o)
  THEN key' = NoQueue /\ queue' = <<>> /\ lost' = lost \cup Numbers(queue)
  ELSE UNCHANGED <<key, queue, lost>>

\* delete_object: a failure leaves m_msgId.
Delete(o) ==
  /\ Rmid(o)
  /\ m_msgId' = IF Reaches(o) THEN [m_msgId EXCEPT ![o] = NoQueue] ELSE m_msgId

ReleaseMsg(p) ==
  /\ Callable(p) /\ Delete(p)
  /\ UNCHANGED <<pthVars, ids, m_msgCreated, opening, m_msgDta, wpc, val,
                 stopping, handled, polled, orphan, sends>>

\* ~Z_Msg; a peer's place is then taken by a new object.
MsgDestruct(o) ==
  /\ IF m_msgCreated[o] THEN Rmid(o) ELSE UNCHANGED <<key, queue, lost>>
  /\ m_msgId' = [m_msgId EXCEPT ![o] = NoQueue]
  /\ m_msgCreated' = [m_msgCreated EXCEPT ![o] = FALSE]
  /\ UNCHANGED <<pthVars, ids, opening, m_msgDta, wpc, val, stopping, handled,
                 polled, orphan, sends>>

PeerDestruct(p) == ~opening[p] /\ MsgDestruct(p)

-----------------------------------------------------------------------------
(* A process killed: no destructor runs, and the queue stays.              *)

\* The objects whose destructor removes the queue the key leads to.
Removers == {o \in Objects : /\ key # NoQueue /\ m_msgCreated[o]
                             /\ m_msgId[o] = key \/ opening[o]}

Killed(o) ==
  /\ m_msgId' = [m_msgId EXCEPT ![o] = NoQueue]
  /\ m_msgCreated' = [m_msgCreated EXCEPT ![o] = FALSE]
  /\ opening' = [opening EXCEPT ![o] = FALSE]
  /\ orphan' = (orphan \/ Removers = {o})

\* A peer's place is taken by a new object ...
PeerKilled(p) ==
  /\ m_msgId[p] # NoQueue \/ m_msgCreated[p] \/ opening[p]
  /\ Killed(p)
  /\ UNCHANGED <<pthVars, msgKernVars, m_msgDta, wpc, val, stopping, handled,
                 polled, lost, sends>>

-----------------------------------------------------------------------------
(* Sending and polling.                                                    *)

\* msgsnd with IPC_NOWAIT by the object o; otherwise the send returns false.
Sendable(o) == Reaches(o) /\ Len(queue) < Capacity

Send(p, t) ==
  /\ Sendable(p) /\ ~opening[p] /\ sends < MaxSends
  /\ queue' = Append(queue, [n |-> sends + 1, type |-> t])
  /\ sends' = sends + 1
  /\ UNCHANGED <<pthVars, key, ids, msgObjVars, m_msgDta, wpc, val, stopping,
                 handled, polled, lost, orphan>>

\* The first message of the type asked for, if there is one.
Wanted(t) == {i \in DOMAIN queue : queue[i].type = t}
FirstWanted(t) == CHOOSE i \in Wanted(t) : \A j \in Wanted(t) : i <= j

\* msgReceiveObject and receive_object with IPC_NOWAIT: until the time is over
\* it tries again; what it does not get stays where it is.
PeerReceive(p, t) ==
  /\ ~opening[p] /\ Reaches(p) /\ Wanted(t) # {}
  /\ polled' = polled \cup {queue[FirstWanted(t)].n}
  /\ queue' = RemoveAt(queue, FirstWanted(t))
  /\ UNCHANGED <<pthVars, key, ids, msgObjVars, m_msgDta, wpc, val, stopping,
                 handled, lost, orphan, sends>>

-----------------------------------------------------------------------------
(* MsgRevClass::run.                                                       *)

WorkerEnter ==
  /\ Enter
  /\ UNCHANGED <<msgKernVars, msgObjVars, m_msgDta, wpc, val, stopping,
                 msgHistVars>>

WorkerLoop ==
  /\ LoopTest /\ wpc' = "receive"
  /\ UNCHANGED <<msgKernVars, msgObjVars, m_msgDta, val, stopping, msgHistVars>>

\* Mutant of RecvType: the thread waits for the type after its own.
RecvType_next == m_msgType + 1

RecvType == m_msgType

Receive ==
  /\ thr = "work" /\ wpc = "receive" /\ Reaches(Me) /\ Wanted(RecvType) # {}
  /\ m_msgDta' = queue[FirstWanted(RecvType)]
  /\ queue' = RemoveAt(queue, FirstWanted(RecvType))
  /\ wpc' = "copy"
  /\ UNCHANGED <<pthVars, key, ids, msgObjVars, val, stopping, msgHistVars>>

\* EIDRM or EINVAL: the loop is left, running is not touched.
ReceiveFails ==
  /\ thr = "work" /\ wpc = "receive" /\ ~Reaches(Me)
  /\ thr' = "gone"
  /\ UNCHANGED <<m_pid, running, cancel, own, starts, msgKernVars, msgObjVars,
                 m_msgDta, wpc, val, stopping, msgHistVars>>

AfterSignal == "test"

ReceiveInterrupted ==
  /\ thr = "work" /\ wpc = "receive" /\ Reaches(Me) /\ Wanted(RecvType) = {}
  /\ thr' = AfterSignal
  /\ UNCHANGED <<m_pid, running, cancel, own, starts, msgKernVars, msgObjVars,
                 m_msgDta, wpc, val, stopping, msgHistVars>>

\* Mutant of Copied: the local value of the round before is passed on.
Copied_stale == val

Copied == m_msgDta

Copy ==
  /\ thr = "work" /\ wpc = "copy"
  /\ val' = Copied /\ wpc' = "call"
  /\ UNCHANGED <<pthVars, msgKernVars, msgObjVars, m_msgDta, stopping,
                 msgHistVars>>

\* Once ~MsgRevBackClass is over, msgRecvProcess is that of the base class,
\* which drops the message.
Derived == own \notin {"dtorWake", "dtorJoin"} \cup OwnBase

Process ==
  /\ wpc = "call" /\ WorkAgain /\ wpc' = "receive"
  /\ IF Derived THEN handled' = Append(handled, val.n) /\ UNCHANGED lost
                ELSE lost' = lost \cup {val.n} /\ UNCHANGED handled
  /\ UNCHANGED <<msgKernVars, msgObjVars, m_msgDta, val, stopping, polled,
                 orphan, sends>>

\* msgrcv and what the callback calls are cancellation points; the message of
\* a callback that is cancelled counts as lost or as handled.
WorkerCancelled ==
  /\ CancelHit /\ (thr = "work" => wpc # "copy")
  /\ IF thr = "work" /\ wpc = "call"
     THEN \/ handled' = Append(handled, val.n) /\ UNCHANGED lost
          \/ lost' = lost \cup {val.n} /\ UNCHANGED handled
     ELSE UNCHANGED <<handled, lost>>
  /\ UNCHANGED <<msgKernVars, msgObjVars, m_msgDta, wpc, val, stopping, polled,
                 orphan, sends>>

InHand == IF thr # "work" THEN {}
          ELSE CASE wpc = "copy" -> {m_msgDta.n} [] wpc = "call" -> {val.n}
                 [] OTHER -> {}

\* ... and Me's thread goes with its process, and the message it had received.
MeKilled ==
  /\ own # "dead" \/ m_msgCreated[Me]
  /\ Killed(Me)
  /\ m_pid' = "none" /\ thr' = "none" /\ running' = 0 /\ cancel' = FALSE
  /\ own' = "dead" /\ stopping' = "no"
  /\ lost' = lost \cup InHand
  /\ UNCHANGED <<starts, msgKernVars, m_msgDta, wpc, val, handled, polled, sends>>

-----------------------------------------------------------------------------
(* The owner: Pth_Class, stopMsgRev, the destructors.                      *)

Owner ==
  /\ OwnerCall \/ OwnerStep
  /\ stopping = "no" /\ ~opening[Me]
  /\ UNCHANGED <<msgKernVars, msgObjVars, m_msgDta, wpc, val, stopping,
                 msgHistVars>>

\* stopMsgRev: if running, running = 0, releaseMsg(), waitEnd().
StopMsgRev ==
  /\ own = OwnIdle /\ stopping = "no" /\ running = 1
  /\ running' = 0 /\ stopping' = "release"
  /\ UNCHANGED <<m_pid, thr, cancel, own, starts, msgKernVars, msgObjVars,
                 m_msgDta, wpc, val, msgHistVars>>

\* Mutant of StopWake: stopMsgRev does not remove the queue.
StopWake_missing == UNCHANGED <<key, queue, lost, m_msgId>>

StopWake == Delete(Me)

StopRelease ==
  /\ stopping = "release" /\ stopping' = "join" /\ StopWake
  /\ UNCHANGED <<pthVars, ids, m_msgCreated, opening, m_msgDta, wpc, val,
                 handled, polled, orphan, sends>>

StopJoin ==
  /\ stopping = "join" /\ stopping' = "no"
  /\ IF m_pid # "none" THEN WaitEnd ELSE UNCHANGED pthVars
  /\ UNCHANGED <<msgKernVars, msgObjVars, m_msgDta, wpc, val, msgHistVars>>

\* ~MsgRevClass: releaseMsg() between running = 0 and waitEnd().
OwnerWake ==
  /\ DtorWake /\ Delete(Me)
  /\ UNCHANGED <<ids, m_msgCreated, opening, m_msgDta, wpc, val, stopping,
                 handled, polled, orphan, sends>>

MyDestruct == own = "dead" /\ m_msgCreated[Me] /\ MsgDestruct(Me)

WorkerStep == \/ WorkerEnter \/ WorkerLoop \/ Receive \/ ReceiveFails \/ Copy
              \/ Process \/ WorkerCancelled
OwnerWork == \/ OwnerStep /\ Owner
             \/ OwnerWake \/ StopRelease \/ StopJoin \/ MyDestruct

MsgNext ==
  \/ Owner \/ OwnerWake \/ StopMsgRev \/ StopRelease \/ StopJoin \/ MyDestruct
  \/ \E o \in Objects : CreateExcl(o) \/ CreateOpen(o)
  \/ \E p \in Peers : \/ GetMsg(p) \/ ReleaseMsg(p) \/ PeerDestruct(p)
                      \/ \E t \in Types : Send(p, t) \/ PeerReceive(p, t)
                      \/ PeerKilled(p)
  \/ WorkerStep \/ ReceiveInterrupted \/ MeKilled

\* The threads of the receiver's process run when they can.
MsgFairness == WF_msgVars(WorkerStep) /\ WF_msgVars(OwnerWork)

MsgSpec == MsgInit /\ [][MsgNext]_msgVars /\ MsgFairness

-----------------------------------------------------------------------------
(* Properties.                                                             *)

Message == [n : Nat, type : Types] \cup {NoMsg}

\* Types; the queue stays within its limit.
MsgTypeOK ==
  /\ PthTypeOK
  /\ key \in 0 .. ids /\ ids \in 0 .. MaxQueues
  /\ queue \in Seq(Message) /\ Len(queue) <= Capacity
  /\ m_msgId \in [Objects -> 0 .. ids]
  /\ m_msgCreated \in [Objects -> BOOLEAN] /\ opening \in [Objects -> BOOLEAN]
  /\ m_msgDta \in Message
  /\ wpc \in {"receive", "copy", "call"} /\ val \in Message
  /\ stopping \in {"no", "release", "join"}
  /\ handled \in Seq(Nat) /\ polled \subseteq Nat /\ lost \subseteq Nat
  /\ orphan \in BOOLEAN /\ sends \in 0 .. MaxSends

\* Where every message is that some msgsnd accepted.
Places == <<Numbers(queue), InHand, Range(handled), polled, lost>>

\* No message is dropped or delivered twice, nor late ones before early ones,
\* by any mix of removals, stops, restarts and pollers: each is in exactly one
\* place, and only a removed queue or a receiver that is stopped or killed loses
\* it (types).
EveryMessageAccounted ==
  /\ MsgTypeOK
  /\ UNION Range(Places) = 1 .. sends
  /\ \A i, j \in DOMAIN Places : i # j => Places[i] \cap Places[j] = {}
  /\ \A i, j \in DOMAIN handled : i < j => handled[i] < handled[j]

\* A queue that exists has an object whose destructor will remove it: there are
\* two ways only to lose it, a queue recreated between the two msgget calls of
\* create_object and the death of the last object that would remove it.
QueueHasCreator == key # NoQueue /\ ~orphan => Removers # {}

\* A message of its type does not stay in the queue of a serving thread.
Serving == running = 1 /\ thr \in {"test", "work"} /\ own = OwnIdle
QueueIsServed ==
  []<>(Wanted(m_msgType) = {} \/ ~Reaches(Me) \/ ~Serving)

\* stopMsgRev returns: removing the queue wakes the thread, also when another
\* process removed it first (or the process is killed in the call).
StopReturns ==
  stopping = "release" ~> own \in {OwnIdle, "dead"} /\ stopping = "no"

=============================================================================
