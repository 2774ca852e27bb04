----------------------------- MODULE DiffShare ------------------------------
(***************************************************************************)
(* DiffQTShareDataT (prodata/diffqtsharedataT.h): a table of Size bytes in *)
(* shared memory, cut in units of UnitSize bytes, with one dirty bit for   *)
(* each unit behind it.  Processes write bytes with set_data; one of them  *)
(* collects the units that changed with getDiffData and hands them to a    *)
(* copy of the table, where setDiffData applies them.  The transport       *)
(* between the two is outside the library: one batch at a time, delivered  *)
(* or lost.                                                                *)
(*                                                                         *)
(* lock() is the system semaphore of QSharedMemory; the kernel releases it *)
(* when its holder dies.  An element is a byte (m_data is a char pointer   *)
(* that set_data indexes with the element's number).  A dirty bit is named *)
(* by its unit: byte unit \div 8 of the region, bit unit % 8.              *)
(***************************************************************************)
EXTENDS Naturals

CONSTANTS
  Size, UnitSize,  \* the arguments of creat_data
  Values,          \* what a byte holds
  Initial,         \* ... and holds first
  Setters,         \* the processes that call set_data
  Drainer,         \* the process that calls getDiffData
  Touched,         \* bound: the bytes set_data is called for
  MaxSets,         \* bound: calls of set_data that write
  MaxTroubles      \* bound: crashes, lost batches, resets, flags disabled

ASSUME DiffAssumption ==
  /\ Size \in Nat /\ UnitSize \in Nat \ {0}
  /\ Initial \in Values /\ Touched \subseteq 0 .. Size - 1
  /\ MaxSets \in Nat /\ MaxTroubles \in Nat

Free == "free"
ASSUME DiffNames == Free \notin Setters /\ Drainer \notin Setters

VARIABLES
  m_data, dirty,   \* shared memory: the table and the units marked dirty
  m_isDirtyEn,     \* the flag of each process's object
  lock,            \* the setter inside lock() .. unlock(), or Free
  target,          \* the byte that setter has written
  phase,           \* getDiffData: idle, copy, and sent while a batch travels
  todo,            \* bytes of the snapshot's units not copied yet
  out,             \* bytes copied, from their address
  replica,         \* the table on the other side
  forgotten,       \* history: units that changed and were told to nobody
  sets, troubles   \* bounds only

shared == <<m_data, dirty>>
drain  == <<phase, todo, out>>
vars == <<shared, m_isDirtyEn, lock, target, drain, replica, forgotten,
          sets, troubles>>

Procs == Setters \cup {Drainer}
Addrs == 0 .. Size - 1

-----------------------------------------------------------------------------
(* creat_data: how the dirty region is laid out.                           *)

\* A last unit that is not whole is not counted.
unitcount == Size \div UnitSize

m_dirtySize == IF unitcount % 8 # 0 THEN unitcount \div 8 + 1
                                    ELSE unitcount \div 8

Unit(add) == add \div UnitSize
InRegion(unit) == unit \div 8 < m_dirtySize
BytesOf(units) == {a \in Addrs : Unit(a) \in units}

\* The constructor disables the mark.
Init ==
  /\ m_data = [a \in Addrs |-> Initial] /\ dirty = {}
  /\ m_isDirtyEn = [p \in Procs |-> FALSE]
  /\ lock = Free /\ target = 0
  /\ phase = "idle" /\ todo = {} /\ out = [a \in {} |-> Initial]
  /\ replica = m_data /\ forgotten = {}
  /\ sets = 0 /\ troubles = 0

-----------------------------------------------------------------------------
(* set_data: lock, write the byte, mark its unit, unlock.                  *)

SetWrite(p, add, val) ==
  /\ sets < MaxSets /\ lock = Free
  /\ lock' = p /\ target' = add
  /\ m_data' = [m_data EXCEPT ![add] = val]
  /\ sets' = sets + 1
  /\ UNCHANGED <<dirty, m_isDirtyEn, drain, replica, forgotten, troubles>>

\* Mutant of Marked: no mark while a collection is under way.
Marked_unlessCopying(add) == IF phase = "idle" THEN {Unit(add)} ELSE {}

Marked(add) == {Unit(add)}

SetMark(p) ==
  /\ lock = p
  /\ IF m_isDirtyEn[p]
     THEN dirty' = dirty \cup Marked(target) /\ UNCHANGED forgotten
     ELSE forgotten' = forgotten \cup {Unit(target)} /\ UNCHANGED dirty
  /\ lock' = Free
  /\ UNCHANGED <<m_data, m_isDirtyEn, target, drain, replica, sets, troubles>>

\* The process dies inside set_data; the semaphore is undone.
SetterCrash(p) ==
  /\ lock = p /\ troubles < MaxTroubles
  /\ lock' = Free /\ forgotten' = forgotten \cup {Unit(target)}
  /\ troubles' = troubles + 1
  /\ UNCHANGED <<shared, m_isDirtyEn, target, drain, replica, sets>>

-----------------------------------------------------------------------------
(* getDiffData: the bits are taken and cleared under the lock, the units   *)
(* are then copied without it, byte by byte.                               *)

\* The region is cleared; a bit that was set behind it stays where it is.
KeptDirty == {u \in dirty : ~InRegion(u)}

\* Mutant of Taken: memset before memcpy, the snapshot is all zero.
Taken_cleared == {}

Taken == dirty \ KeptDirty

Snapshot ==
  /\ phase = "idle" /\ m_isDirtyEn[Drainer] /\ lock = Free /\ dirty # {}
  /\ todo' = BytesOf(Taken) /\ forgotten' = forgotten \ Taken
  /\ dirty' = KeptDirty
  /\ out' = [a \in {} |-> Initial] /\ phase' = "copy"
  /\ UNCHANGED <<m_data, m_isDirtyEn, lock, target, replica, sets, troubles>>

CopyByte(a) ==
  /\ phase = "copy" /\ a \in todo /\ \A b \in todo : a <= b
  /\ out' = [b \in DOMAIN out \cup {a} |->
               IF b = a THEN m_data[a] ELSE out[b]]
  /\ todo' = todo \ {a}
  /\ UNCHANGED <<shared, m_isDirtyEn, lock, target, phase, replica, forgotten,
                 sets, troubles>>

Send ==
  /\ phase = "copy" /\ todo = {} /\ phase' = "sent"
  /\ UNCHANGED <<shared, m_isDirtyEn, lock, target, todo, out, replica,
                 forgotten, sets, troubles>>

\* The caller dies while it copies, or the batch is lost: nobody sets the
\* bits again.
BatchLost ==
  /\ phase # "idle" /\ troubles < MaxTroubles
  /\ phase' = "idle" /\ todo' = {} /\ out' = [a \in {} |-> Initial]
  /\ forgotten' = forgotten \cup {Unit(a) : a \in todo \cup DOMAIN out}
  /\ troubles' = troubles + 1
  /\ UNCHANGED <<shared, m_isDirtyEn, lock, target, replica, sets>>

-----------------------------------------------------------------------------
(* setDiffData at the other side; clearDirtyData; setDirtyEn.              *)

Apply ==
  /\ phase = "sent"
  /\ replica' = [a \in Addrs |-> IF a \in DOMAIN out THEN out[a]
                                                      ELSE replica[a]]
  /\ phase' = "idle" /\ out' = [a \in {} |-> Initial]
  /\ UNCHANGED <<shared, m_isDirtyEn, lock, target, todo, forgotten, sets,
                 troubles>>

ClearDirtyData(p) ==
  /\ m_isDirtyEn[p] /\ lock = Free /\ dirty # {} /\ troubles < MaxTroubles
  /\ dirty' = KeptDirty /\ forgotten' = forgotten \cup Taken
  /\ troubles' = troubles + 1
  /\ UNCHANGED <<m_data, m_isDirtyEn, lock, target, drain, replica, sets>>

SetDirtyEn(p, enable) ==
  /\ lock # p /\ m_isDirtyEn[p] # enable
  /\ m_isDirtyEn' = [m_isDirtyEn EXCEPT ![p] = enable]
  /\ \/ enable /\ UNCHANGED troubles
     \/ ~enable /\ troubles < MaxTroubles /\ troubles' = troubles + 1
  /\ UNCHANGED <<shared, lock, target, drain, replica, forgotten, sets>>

SetStep(p) == \/ \E add \in Touched, val \in Values : SetWrite(p, add, val)
              \/ SetMark(p) \/ SetterCrash(p)
DrainStep == Snapshot \/ (\E a \in Addrs : CopyByte(a)) \/ Send \/ Apply
AdminStep(p) == \/ ClearDirtyData(p)
                \/ \E enable \in BOOLEAN : SetDirtyEn(p, enable)

Next == \/ \E p \in Setters : SetStep(p)
        \/ DrainStep \/ BatchLost
        \/ \E p \in Procs : AdminStep(p)

\* The collector keeps calling getDiffData and the transport keeps going; a
\* setter inside the lock leaves it.  Nobody has to call set_data.
Fairness == WF_vars(DrainStep) /\ \A p \in Setters : WF_vars(SetMark(p))

Spec == Init /\ [][Next]_vars /\ Fairness

-----------------------------------------------------------------------------
(* Properties.                                                             *)

Units == {Unit(a) : a \in Addrs}

\* The type of every variable; a batch never travels half copied.
TypeOK ==
  /\ m_data \in [Addrs -> Values] /\ replica \in [Addrs -> Values]
  /\ dirty \subseteq Units /\ forgotten \subseteq Units
  /\ m_isDirtyEn \in [Procs -> BOOLEAN]
  /\ lock \in Setters \cup {Free}
  /\ lock # Free => target \in Addrs
  /\ phase \in {"idle", "copy", "sent"}
  /\ todo \subseteq Addrs /\ (phase # "copy" => todo = {})
  /\ DOMAIN out \subseteq Addrs /\ \A a \in DOMAIN out : out[a] \in Values
  /\ phase = "idle" => DOMAIN out = {}
  /\ sets \in Nat /\ troubles \in Nat

\* The bytes behind the last whole unit, when the whole units fill their bytes
\* of the region: the bit of this rest lies behind it.
Behind(a) == Unit(a) = unitcount /\ unitcount % 8 = 0

\* The write of a will be told: getDiffData sees the mark of its unit, or the
\* marking is still to come inside the lock, or a crash or a disabled flag
\* lost it.
Announced(a) == \/ Unit(a) \in dirty /\ InRegion(Unit(a))
                \/ Unit(a) \in forgotten
                \/ lock # Free /\ Unit(target) = Unit(a)

\* No update is lost outside a rest behind the region, whatever the sizes: a
\* byte that differs on the two sides is announced, or waits to be copied, or
\* is in the batch with its present value; although getDiffData copies outside
\* the lock and takes torn units.
NoLostUpdate ==
  \A a \in Addrs : replica[a] # m_data[a] =>
    \/ Announced(a) \/ Behind(a)
    \/ a \in todo
    \/ a \in DOMAIN out /\ out[a] = m_data[a]

\* A byte of the batch that is out of date is announced again, so applying
\* the batch never leaves an old value behind for good.
StaleIsAnnounced ==
  \A a \in DOMAIN out : out[a] # m_data[a] => Announced(a)

\* When the writers stop, the copy becomes equal and stays so, except in a rest
\* behind the region and where a write was told to nobody.
Converges ==
  <>[](m_isDirtyEn[Drainer]) =>
    <>[](\A a \in Addrs :
           replica[a] = m_data[a] \/ Unit(a) \in forgotten \/ Behind(a))

=============================================================================
