---------------------------- MODULE StoreProofs -----------------------------
(***************************************************************************)
(* Proofs about what keeps its data in place: the two stores of prodata    *)
(* and the members of reflected structs.                                   *)
(*                                                                         *)
(* DiffShare, for every table size, unit size, set of values and number of *)
(* processes.  The inductive invariant is the conjunction of the types,    *)
(* which say in which phase a snapshot exists, and the two properties: the *)
(* lost update needs the stale batch, for Apply overwrites a good byte     *)
(* with a stale one.  Both need that a batch never has a unit behind the   *)
(* dirty region, and RegionCovers, that only a rest of the table is there. *)
(*                                                                         *)
(* CList, for every number of nodes and threads and every set of values    *)
(* and conditions.  The inductive invariant ListInv says that both walks   *)
(* end at NULL and have every node in one place between them.  A write and *)
(* a delete are two facts about walks (WriteWalks, DeleteWalks), that they *)
(* are a step of ListStore two facts about the values on them              *)
(* (ContentWritten, ContentRemoved).                                       *)
(*                                                                         *)
(* Reflect, for every width of the integer types, every set of structs     *)
(* that are declared as C++ and the macros have it, and every set of       *)
(* texts.  The inductive invariant ReflectInv adds to MembersHold that the *)
(* containers are words of their type and the elements copies of members.  *)
(* The arguments are the bits of a number (BitsDiffer, BitsMade,           *)
(* BitsModulo), one number and one field (FieldTakes, FieldRefuses,        *)
(* LowerKept and two theorems of ArithmeticProofs), one text and one       *)
(* member (ReadHolds, OthersHold), and the members in turn (ReadAllHolds). *)
(***************************************************************************)
EXTENDS DiffShare, CList, Reflect, ArithmeticProofs, SequenceTheorems, WellFoundedInduction,
        TLAPS

BatchInRegion == \A a \in todo \cup DOMAIN out : InRegion(Unit(a))

IInv == TypeOK /\ NoLostUpdate /\ StaleIsAnnounced /\ BatchInRegion

-----------------------------------------------------------------------------
(* DiffShare: the dirty region.                                            *)

\* A number of bits rounded up to whole bytes has a bit for every smaller number.
LEMMA BitsForUnits ==
  ASSUME NEW count \in Nat, NEW u \in Nat, u < count
  PROVE  u \div 8 < IF count % 8 # 0 THEN count \div 8 + 1 ELSE count \div 8
OBVIOUS

\* No byte lies behind the unit that follows the whole ones.
LEMMA UnitBelow ==
  ASSUME NEW a \in Addrs
  PROVE  Unit(a) \in Nat /\ unitcount \in Nat /\ Unit(a) <= unitcount
<1>1. a \in Nat /\ Size \in Nat /\ a < Size /\ UnitSize \in Nat \ {0}
  BY DiffAssumption DEF Addrs
<1>2. \A m, n \in Nat, u \in Nat \ {0} : m < n => m \div u <= n \div u
  BY Z3
<1>3. QED
  BY <1>1, <1>2 DEF Unit, unitcount

\* The bit of every byte lies in the region, whatever the sizes, except that of
\* a rest that follows as many whole units as fill their bytes.
LEMMA RegionCovers ==
  ASSUME NEW a \in Addrs
  PROVE  InRegion(Unit(a)) \/ Behind(a)
<1>1. Unit(a) \in Nat /\ unitcount \in Nat /\ Unit(a) <= unitcount
  BY UnitBelow
<1>2. CASE Unit(a) < unitcount
  BY <1>1, <1>2, BitsForUnits DEF InRegion, m_dirtySize
<1>3. CASE Unit(a) = unitcount
  <2>1. unitcount \div 8 \in Nat
    BY <1>1
  <2>2. QED
    BY <1>1, <1>3, <2>1 DEF InRegion, m_dirtySize, Behind
<1>4. QED
  BY <1>1, <1>2, <1>3

-----------------------------------------------------------------------------
(* DiffShare: the steps.                                                   *)

\* At the start the two tables are equal.
LEMMA InitIInv == Init => IInv
<1> SUFFICES ASSUME Init PROVE IInv
  OBVIOUS
<1>1. TypeOK
  BY DiffAssumption, DiffNames DEF Init, TypeOK
<1>2. NoLostUpdate /\ StaleIsAnnounced /\ BatchInRegion
  BY DEF Init, NoLostUpdate, StaleIsAnnounced, BatchInRegion
<1>3. QED
  BY <1>1, <1>2 DEF IInv

\* set_data, its two halves and its crash.
LEMMA SetStepIInv ==
  ASSUME IInv, NEW p \in Setters, SetStep(p)
  PROVE  IInv'
<1> USE DEF IInv, drain, shared, Announced
<1>1. ASSUME NEW add \in Addrs, NEW val \in Values, SetWrite(p, add, val)
      PROVE  IInv'
  <2> USE <1>1 DEF SetWrite
  <2>1. TypeOK'
    BY DiffNames DEF TypeOK
  <2>2. \A a \in Addrs : a # add => m_data'[a] = m_data[a]
    BY DEF TypeOK
  <2>3. lock' # Free /\ target' = add /\ lock = Free
    BY DiffNames
  <2>4. NoLostUpdate' /\ StaleIsAnnounced'
    BY <2>2, <2>3 DEF TypeOK, NoLostUpdate, StaleIsAnnounced
  <2>5. BatchInRegion'
    BY DEF BatchInRegion
  <2>6. QED
    BY <2>1, <2>4, <2>5
<1>2. ASSUME SetMark(p) \/ SetterCrash(p)
      PROVE  IInv'
  <2>1. lock # Free /\ target \in Addrs /\ Unit(target) \in Units
    BY <1>2, DiffNames DEF SetMark, SetterCrash, TypeOK, Units
  <2>2. lock' = Free /\ Unit(target) \in dirty' \cup forgotten'
        /\ dirty \subseteq dirty' /\ forgotten \subseteq forgotten'
    BY <1>2 DEF SetMark, SetterCrash, Marked
  <2>3. TypeOK'
    BY <1>2, <2>1 DEF SetMark, SetterCrash, TypeOK, Marked
  <2>4. UNCHANGED <<m_data, target, todo, out, replica>>
    BY <1>2 DEF SetMark, SetterCrash
  <2>5. \A a \in Addrs : InRegion(Unit(a)) \/ Behind(a)
    BY RegionCovers
  <2>6. NoLostUpdate'
    BY <2>2, <2>4, <2>5 DEF NoLostUpdate
  <2>7. \A a \in DOMAIN out : InRegion(Unit(a))
    BY DEF BatchInRegion
  <2>8. StaleIsAnnounced'
    BY <2>2, <2>4, <2>7 DEF StaleIsAnnounced
  <2>9. BatchInRegion'
    BY <2>4 DEF BatchInRegion
  <2>10. QED
    BY <2>3, <2>6, <2>8, <2>9
<1>3. Touched \subseteq Addrs
  BY DiffAssumption DEF Addrs
<1>4. QED
  BY <1>1, <1>2, <1>3 DEF SetStep

\* getDiffData, step by step, and setDiffData.
LEMMA DrainStepIInv ==
  ASSUME IInv, DrainStep
  PROVE  IInv'
<1> USE DEF IInv, shared, Announced, BatchInRegion
<1>1. CASE Snapshot
  <2> USE <1>1 DEF Snapshot, KeptDirty, Taken
  <2>1. TypeOK'
    BY DEF TypeOK, BytesOf
  <2>2. \A a \in todo' : Unit(a) \in dirty /\ InRegion(Unit(a))
    BY DEF BytesOf
  <2>3. \A a \in Addrs : Unit(a) \in dirty /\ InRegion(Unit(a)) => a \in todo'
    BY DEF BytesOf
  <2>4. DOMAIN out' = {} /\ DOMAIN out = {} /\ todo = {}
    BY DEF TypeOK
  <2>5. forgotten \subseteq forgotten' \cup Taken
    OBVIOUS
  <2>6. NoLostUpdate'
    BY <2>3, <2>4, <2>5 DEF NoLostUpdate
  <2>7. StaleIsAnnounced' /\ BatchInRegion'
    BY <2>2, <2>4 DEF StaleIsAnnounced
  <2>8. QED
    BY <2>1, <2>6, <2>7
<1>2. ASSUME NEW a \in Addrs, CopyByte(a)
      PROVE  IInv'
  <2> USE <1>2 DEF CopyByte
  <2>1. TypeOK'
    BY DEF TypeOK
  <2>2. NoLostUpdate' /\ StaleIsAnnounced' /\ BatchInRegion'
    BY DEF TypeOK, NoLostUpdate, StaleIsAnnounced
  <2>3. QED
    BY <2>1, <2>2
<1>3. CASE Send
  BY <1>3 DEF Send, TypeOK, NoLostUpdate, StaleIsAnnounced
<1>4. CASE Apply
  <2> USE <1>4 DEF Apply
  <2>1. TypeOK'
    BY DEF TypeOK
  <2>2. NoLostUpdate' /\ StaleIsAnnounced' /\ BatchInRegion'
    BY DEF TypeOK, NoLostUpdate, StaleIsAnnounced
  <2>3. QED
    BY <2>1, <2>2
<1>5. QED
  BY <1>1, <1>2, <1>3, <1>4 DEF DrainStep

\* A lost batch, clearDirtyData and setDirtyEn.
LEMMA TroubleIInv ==
  ASSUME IInv, BatchLost \/ \E p \in Procs : AdminStep(p)
  PROVE  IInv'
<1> USE DEF IInv, shared, drain, Announced, BatchInRegion
<1>1. CASE BatchLost
  <2> USE <1>1 DEF BatchLost
  <2>1. TypeOK'
    BY DEF TypeOK, Units
  <2>2. NoLostUpdate' /\ StaleIsAnnounced' /\ BatchInRegion'
    BY DEF TypeOK, NoLostUpdate, StaleIsAnnounced
  <2>3. QED
    BY <2>1, <2>2
<1>2. ASSUME NEW p \in Procs, ClearDirtyData(p)
      PROVE  IInv'
  <2> USE <1>2 DEF ClearDirtyData, KeptDirty, Taken
  <2>1. TypeOK'
    BY DEF TypeOK
  <2>2. NoLostUpdate' /\ StaleIsAnnounced' /\ BatchInRegion'
    BY DEF TypeOK, NoLostUpdate, StaleIsAnnounced
  <2>3. QED
    BY <2>1, <2>2
<1>3. ASSUME NEW p \in Procs, NEW enable \in BOOLEAN, SetDirtyEn(p, enable)
      PROVE  IInv'
  <2> USE <1>3 DEF SetDirtyEn
  <2>1. TypeOK'
    BY DEF TypeOK
  <2>2. NoLostUpdate' /\ StaleIsAnnounced' /\ BatchInRegion'
    BY DEF NoLostUpdate, StaleIsAnnounced
  <2>3. QED
    BY <2>1, <2>2
<1>4. QED
  BY <1>1, <1>2, <1>3 DEF AdminStep

\* Every reachable state satisfies the inductive invariant.
THEOREM Inductive == Spec => []IInv
<1>1. IInv /\ [Next]_vars => IInv'
  <2> SUFFICES ASSUME IInv, [Next]_vars PROVE IInv'
    OBVIOUS
  <2>1. CASE Next
    BY <2>1, SetStepIInv, DrainStepIInv, TroubleIInv DEF Next
  <2>2. CASE UNCHANGED vars
    BY <2>2 DEF vars, shared, drain, IInv, TypeOK, NoLostUpdate,
                StaleIsAnnounced, Announced, BatchInRegion
  <2>3. QED
    BY <2>1, <2>2
<1>2. QED
  BY InitIInv, <1>1, PTL DEF Spec

\* The table, the dirty bits and the batch keep their types.
THEOREM TypeCorrect == Spec => []TypeOK
<1>1. IInv => TypeOK
  BY DEF IInv
<1>2. QED
  BY Inductive, <1>1, PTL

\* No write of set_data is lost on its way to the copy, although getDiffData
\* reads the units after it has cleared their bits and released the lock.  This
\* holds for every size and unit size, the ones that leave a rest included: only
\* in a rest that Behind describes may an update stay unannounced.
THEOREM UpdatesReachTheCopy == Spec => []NoLostUpdate
<1>1. IInv => NoLostUpdate
  BY DEF IInv
<1>2. QED
  BY Inductive, <1>1, PTL

\* Whatever old value a batch carries is marked to be sent again.
THEOREM StaleBatchIsRepaired == Spec => []StaleIsAnnounced
<1>1. IInv => StaleIsAnnounced
  BY DEF IInv
<1>2. QED
  BY Inductive, <1>1, PTL

-----------------------------------------------------------------------------
(* CList.  Sequences and numbers.                                          *)

\* The least and the greatest of a set of numbers.
LEMMA LeastOf ==
  ASSUME NEW T, T \subseteq Nat, T # {}
  PROVE  \E x \in T : \A y \in T : x <= y
<1>1. PICK x \in T : \A y \in T : ~(<<y, x>> \in OpToRel(<, Nat))
  BY NatLessThanWellFounded, WFMin, Zenon
<1>2. ASSUME NEW y \in T PROVE x <= y
  <2>1. ~(<<y, x>> \in OpToRel(<, Nat))
    BY <1>1
  <2>2. ~(y < x)
    BY <2>1, Zenon DEF OpToRel
  <2>3. QED
    BY <2>2
<1>3. QED
  BY <1>2

LEMMA GreatestOf ==
  ASSUME NEW b \in Nat, NEW T, T \subseteq 0 .. b, T # {}
  PROVE  \E x \in T : \A y \in T : y <= x
<1> DEFINE D == {d \in Nat : b - d \in T}
<1>1. PICK e \in T : TRUE
  OBVIOUS
<1>2. b - e \in D
  OBVIOUS
<1>3. PICK d \in D : \A c \in D : d <= c
  BY <1>2, LeastOf
<1>4. ASSUME NEW y \in T PROVE y <= b - d
  <2>1. y \in 0 .. b /\ b - y \in Nat /\ b - (b - y) = y
    OBVIOUS
  <2>2. b - y \in D
    BY <2>1
  <2>3. QED
    BY <1>3, <2>1, <2>2
<1>5. QED
  BY <1>3, <1>4

\* What RemoveAt leaves.
LEMMA RemovedAt ==
  ASSUME NEW S, NEW s \in Seq(S), NEW i \in 1 .. Len(s)
  PROVE  LET r == Store!RemoveAt(s, i)
         IN  /\ r \in Seq(S) /\ Len(r) = Len(s) - 1
             /\ \A j \in 1 .. Len(s) - 1 : r[j] = IF j < i THEN s[j] ELSE s[j + 1]
<1> DEFINE a == SubSeq(s, 1, i - 1)
           b == SubSeq(s, i + 1, Len(s))
<1>1. /\ Store!RemoveAt(s, i) = a \o b /\ Len(s) \in Nat /\ i \in Nat
      /\ \A j \in 1 .. Len(s) : s[j] \in S
  BY DEF Store!RemoveAt
<1>2. /\ a \in Seq(S) /\ Len(a) = i - 1
      /\ \A j \in 1 .. i - 1 : a[j] = s[j]
  BY <1>1, SubSeqProperties
<1>3. /\ b \in Seq(S) /\ Len(b) = Len(s) - i
      /\ \A j \in 1 .. Len(s) - i : b[j] = s[i + j]
  <2>1. /\ b \in Seq(S) /\ Len(b) = IF i + 1 <= Len(s) THEN Len(s) - (i + 1) + 1 ELSE 0
        /\ \A j \in 1 .. Len(s) - (i + 1) + 1 : b[j] = s[i + 1 + j - 1]
    BY <1>1, SubSeqProperties
  <2>2. QED
    BY <1>1, <2>1
<1> HIDE DEF a, b
<1>4. /\ a \o b \in Seq(S) /\ Len(a \o b) = Len(s) - 1
      /\ \A j \in 1 .. Len(s) - 1 :
           (a \o b)[j] = IF j <= i - 1 THEN a[j] ELSE b[j - (i - 1)]
  <2>1. /\ a \o b \in Seq(S) /\ Len(a \o b) = Len(a) + Len(b)
        /\ \A j \in 1 .. Len(a) + Len(b) :
             (a \o b)[j] = IF j <= Len(a) THEN a[j] ELSE b[j - Len(a)]
    BY <1>2, <1>3, ConcatProperties
  <2>2. Len(a) = i - 1 /\ Len(a) + Len(b) = Len(s) - 1
    BY <1>1, <1>2, <1>3
  <2>3. QED
    BY <2>1, <2>2
<1>5. ASSUME NEW j \in 1 .. Len(s) - 1
      PROVE  (a \o b)[j] = IF j < i THEN s[j] ELSE s[j + 1]
  <2>1. CASE j < i
    BY <1>1, <1>2, <1>4, <2>1
  <2>2. CASE ~(j < i)
    <3>1. j - (i - 1) \in 1 .. Len(s) - i /\ i + (j - (i - 1)) = j + 1 /\ ~(j <= i - 1)
      BY <1>1, <2>2
    <3>2. b[j - (i - 1)] = s[j + 1]
      BY <1>3, <3>1
    <3>3. QED
      BY <1>4, <2>2, <3>1, <3>2
  <2>3. QED
    BY <2>1, <2>2
<1>6. QED
  BY <1>1, <1>4, <1>5

LEMMA Prefixed ==
  ASSUME NEW S, NEW s \in Seq(S), NEW e \in S
  PROVE  LET r == <<e>> \o s
         IN  /\ r \in Seq(S) /\ Len(r) = Len(s) + 1 /\ r[1] = e
             /\ \A j \in 1 .. Len(s) : r[j + 1] = s[j]
<1>1. <<e>> \in Seq(S) /\ Len(<<e>>) = 1 /\ <<e>>[1] = e /\ Len(s) \in Nat
  OBVIOUS
<1>2. /\ <<e>> \o s \in Seq(S) /\ Len(<<e>> \o s) = 1 + Len(s)
      /\ \A i \in 1 .. 1 + Len(s) :
           (<<e>> \o s)[i] = IF i <= 1 THEN <<e>>[i] ELSE s[i - 1]
  BY <1>1, ConcatProperties
<1>3. (<<e>> \o s)[1] = e
  BY <1>1, <1>2
<1>4. ASSUME NEW j \in 1 .. Len(s) PROVE (<<e>> \o s)[j + 1] = s[j]
  BY <1>1, <1>2
<1>5. QED
  BY <1>1, <1>2, <1>3, <1>4

-----------------------------------------------------------------------------
(* Walks.                                                                  *)

\* A walk that ends.
Chain(s, links, head) ==
  /\ s \in Seq(Nodes)
  /\ s = <<>> <=> head = NULL
  /\ s # <<>> => s[1] = head /\ links[s[Len(s)]] = NULL
  /\ \A k \in 1 .. Len(s) - 1 : links[s[k]] = s[k + 1]

\* The links lead one way.
LEMMA SameWalk ==
  ASSUME NEW links, NEW head, NEW s \in Seq(Nodes), NEW t \in Seq(Nodes),
         Len(s) <= N, Len(t) <= N, Follows(s, links, head), Follows(t, links, head)
  PROVE  \A k \in 1 .. Len(s) : k <= Len(t) /\ s[k] = t[k]
<1> DEFINE Bad == {k \in 1 .. Len(s) : ~(k <= Len(t) /\ s[k] = t[k])}
<1> SUFFICES ASSUME Bad # {} PROVE FALSE
  OBVIOUS
<1>0. /\ N \in Nat /\ Len(s) \in Nat /\ Len(t) \in Nat
      /\ \A k \in 1 .. Len(s) : s[k] \in Nodes
      /\ \A k \in 1 .. Len(t) : t[k] \in Nodes
  BY ListAssumption
<1>1. PICK k \in Bad : \A j \in Bad : k <= j
  <2>1. Bad \subseteq Nat
    OBVIOUS
  <2>2. QED
    BY <2>1, LeastOf
<1>2. k \in 1 .. Len(s) /\ ~(k <= Len(t) /\ s[k] = t[k])
  OBVIOUS
<1>3. CASE k = 1
  <2>1. s # <<>> /\ s[1] = head /\ head # NULL
    BY <1>0, <1>2, <1>3 DEF Follows, NULL, Nodes
  <2>2. t # <<>> /\ t[1] = head
    BY <2>1 DEF Follows
  <2>3. Len(t) # 0
    BY <2>2
  <2>4. QED
    BY <1>0, <1>2, <1>3, <2>1, <2>2, <2>3
<1>4. CASE k # 1
  <2> DEFINE j == k - 1
  <2>1. j \in 1 .. Len(s) /\ j < Len(s) /\ k = j + 1 /\ j # N
    BY <1>0, <1>2, <1>4
  <2>2. j \notin Bad
    BY <1>1, <2>1
  <2>3. j <= Len(t) /\ s[j] = t[j]
    BY <2>1, <2>2
  <2>4. s[k] = links[s[j]] /\ s[k] \in Nodes
    BY <1>0, <1>2, <2>1 DEF Follows
  <2>5. links[t[j]] # NULL
    BY <2>3, <2>4 DEF NULL, Nodes
  <2>6. j < Len(t) /\ t[k] = links[t[j]]
    BY <1>0, <2>1, <2>3, <2>5 DEF Follows
  <2>7. QED
    BY <1>0, <1>2, <2>1, <2>3, <2>4, <2>6
<1>5. QED
  BY <1>3, <1>4

\* So a walk that ends is the walk.
LEMMA WalkIs ==
  ASSUME NEW links, NEW head, NEW s, Chain(s, links, head), Len(s) <= N
  PROVE  Walk(links, head) = s
<1> DEFINE All == UNION {[1 .. k -> Nodes] : k \in 0 .. N}
<1>0. N \in Nat /\ Len(s) \in Nat /\ s \in Seq(Nodes)
  BY ListAssumption DEF Chain
<1>1. s \in All
  <2>1. s \in [1 .. Len(s) -> Nodes] /\ Len(s) \in 0 .. N
    BY <1>0
  <2>2. QED
    BY <2>1
<1>2. Follows(s, links, head)
  BY <1>0 DEF Chain, Follows
<1>3. ASSUME NEW t \in All, Follows(t, links, head) PROVE t = s
  <2>1. PICK k \in 0 .. N : t \in [1 .. k -> Nodes]
    OBVIOUS
  <2>2. t \in Seq(Nodes) /\ Len(t) = k
    BY <1>0, <2>1
  <2>3. \A j \in 1 .. Len(s) : j <= Len(t) /\ s[j] = t[j]
    BY <1>0, <1>2, <1>3, <2>2, SameWalk
  <2>4. \A j \in 1 .. Len(t) : j <= Len(s) /\ t[j] = s[j]
    BY <1>0, <1>2, <1>3, <2>2, SameWalk
  <2>5. Len(t) = Len(s)
    BY <1>0, <2>2, <2>3, <2>4
  <2>6. QED
    BY <1>0, <2>2, <2>3, <2>5, SeqEqual
<1>4. QED
  BY <1>1, <1>2, <1>3 DEF Walk

-----------------------------------------------------------------------------
(* What a write and a delete do to the two walks.                          *)

Distinct(s) == \A i, j \in 1 .. Len(s) : s[i] = s[j] => i = j

\* Every node is in one place of one list.
Placed(u, v) ==
  /\ Len(u) + Len(v) = N
  /\ Distinct(u) /\ Distinct(v)
  /\ \A i \in 1 .. Len(u), j \in 1 .. Len(v) : u[i] # v[j]
  /\ \A n \in Nodes : \/ \E i \in 1 .. Len(u) : u[i] = n
                      \/ \E j \in 1 .. Len(v) : v[j] = n

Links == [Nodes -> Nodes \cup {NULL}]

\* A link that is not on a walk may change.
LEMMA ChainKept ==
  ASSUME NEW links \in Links, NEW head, NEW s, Chain(s, links, head),
         NEW other, \A k \in 1 .. Len(s) : other[s[k]] = links[s[k]]
  PROVE  Chain(s, other, head)
<1>1. s \in Seq(Nodes) /\ Len(s) \in Nat
  BY DEF Chain
<1>2. s # <<>> => Len(s) \in 1 .. Len(s)
  BY <1>1, EmptySeq
<1>3. QED
  BY <1>1, <1>2 DEF Chain

\* A walk that begins at n goes on with another one.
LEMMA ChainPrefixed ==
  ASSUME NEW links \in Links, NEW head, NEW s, Chain(s, links, head),
         NEW n \in Nodes, links[n] = head
  PROVE  Chain(<<n>> \o s, links, n)
<1> DEFINE r == <<n>> \o s
<1>1. s \in Seq(Nodes) /\ Len(s) \in Nat
  BY DEF Chain
<1>2. /\ r \in Seq(Nodes) /\ Len(r) = Len(s) + 1 /\ r[1] = n
      /\ \A j \in 1 .. Len(s) : r[j + 1] = s[j]
  BY <1>1, Prefixed
<1> HIDE DEF r
<1>3. r # <<>> /\ n # NULL
  <2>1. Len(r) # 0
    BY <1>1, <1>2
  <2>2. QED
    BY <2>1 DEF Nodes, NULL
<1>4. links[r[Len(r)]] = NULL
  <2>1. CASE s = <<>>
    <3>1. Len(s) = 0 /\ head = NULL
      BY <2>1 DEF Chain
    <3>2. QED
      BY <1>2, <3>1
  <2>2. CASE s # <<>>
    <3>1. Len(s) \in 1 .. Len(s)
      BY <1>1, <2>2, EmptySeq
    <3>2. r[Len(r)] = s[Len(s)]
      BY <1>2, <3>1
    <3>3. QED
      BY <2>2, <3>2 DEF Chain
  <2>3. QED
    BY <2>1, <2>2
<1>5. ASSUME NEW k \in 1 .. Len(r) - 1 PROVE links[r[k]] = r[k + 1]
  <2>1. k \in 1 .. Len(s) /\ r[k + 1] = s[k]
    BY <1>1, <1>2
  <2>2. CASE k = 1
    <3>1. s # <<>>
      BY <2>1
    <3>2. s[1] = head
      BY <3>1 DEF Chain
    <3>3. QED
      BY <1>2, <2>1, <2>2, <3>2
  <2>3. CASE k # 1
    <3>1. k - 1 \in 1 .. Len(s) - 1 /\ (k - 1) + 1 = k
      BY <1>1, <2>1, <2>3
    <3>2. r[k] = s[k - 1]
      BY <1>1, <1>2, <3>1
    <3>3. links[s[k - 1]] = s[k]
      BY <3>1 DEF Chain
    <3>4. QED
      BY <2>1, <3>2, <3>3
  <2>4. QED
    BY <2>2, <2>3
<1>6. QED
  BY <1>2, <1>3, <1>4, <1>5 DEF Chain, r

\* A walk without its first node begins behind it.
LEMMA ChainTail ==
  ASSUME NEW links \in Links, NEW head, NEW s, Chain(s, links, head), head # NULL
  PROVE  /\ Chain(Tail(s), links, links[head])
         /\ head \in Nodes /\ head = s[1]
         /\ Len(Tail(s)) = Len(s) - 1
         /\ \A i \in 1 .. Len(s) - 1 : Tail(s)[i] = s[i + 1]
<1>1. s \in Seq(Nodes) /\ Len(s) \in Nat /\ s # <<>> /\ s[1] = head
  BY DEF Chain
<1>2. Len(s) \in Nat \ {0}
  BY <1>1, EmptySeq
<1>3. /\ Tail(s) \in Seq(Nodes) /\ Len(Tail(s)) = Len(s) - 1
      /\ \A i \in 1 .. Len(s) - 1 : Tail(s)[i] = s[i + 1]
  BY <1>1, HeadTailProperties
<1>4. head \in Nodes
  BY <1>1, <1>2
<1> DEFINE t == Tail(s)
<1>0. /\ t \in Seq(Nodes) /\ Len(t) = Len(s) - 1
      /\ \A i \in 1 .. Len(s) - 1 : t[i] = s[i + 1]
  BY <1>3
<1> HIDE DEF t
<1>5. t = <<>> <=> links[head] = NULL
  <2>1. CASE Len(s) = 1
    <3>1. t = <<>>
      BY <1>0, <2>1, EmptySeq
    <3>2. links[head] = NULL
      BY <1>1, <2>1 DEF Chain
    <3>3. QED
      BY <3>1, <3>2
  <2>2. CASE Len(s) # 1
    <3>1. 1 \in 1 .. Len(s) - 1 /\ 2 \in 1 .. Len(s)
      <4>1. Len(s) \in Nat /\ Len(s) # 0 /\ Len(s) # 1
        BY <1>2, <2>2
      <4>2. \A m \in Nat : m # 0 /\ m # 1 => 1 \in 1 .. m - 1 /\ 2 \in 1 .. m
        OBVIOUS
      <4>3. QED
        BY <4>1, <4>2
    <3>2. links[head] = s[2] /\ s[2] \in Nodes
      BY <1>1, <3>1 DEF Chain
    <3>3. Len(t) # 0
      BY <1>2, <1>0, <2>2
    <3>4. t # <<>>
      BY <3>3
    <3>5. links[head] # NULL
      BY <3>2 DEF Nodes, NULL
    <3>6. QED
      BY <3>4, <3>5
  <2>3. QED
    BY <2>1, <2>2
<1>6. ASSUME t # <<>> PROVE t[1] = links[head] /\ links[t[Len(t)]] = NULL
  <2>1. Len(t) \in Nat \ {0}
    BY <1>0, <1>6, EmptySeq
  <2>2. 1 \in 1 .. Len(s) - 1 /\ Len(t) \in 1 .. Len(s) - 1 /\ Len(t) + 1 = Len(s)
    BY <1>2, <1>0, <2>1
  <2>3. t[1] = s[2] /\ t[Len(t)] = s[Len(s)]
    BY <1>0, <2>2
  <2>4. links[s[1]] = s[2] /\ links[s[Len(s)]] = NULL
    BY <1>1, <2>2 DEF Chain
  <2>5. QED
    BY <1>1, <2>3, <2>4
<1>7. ASSUME NEW k \in 1 .. Len(t) - 1 PROVE links[t[k]] = t[k + 1]
  <2>1. k \in 1 .. Len(s) - 1 /\ k + 1 \in 1 .. Len(s) - 1
    BY <1>2, <1>0
  <2>2. t[k] = s[k + 1] /\ t[k + 1] = s[(k + 1) + 1]
    BY <1>0, <2>1
  <2>3. links[s[k + 1]] = s[(k + 1) + 1]
    BY <2>1 DEF Chain
  <2>4. QED
    BY <2>2, <2>3
<1>8. Chain(t, links, links[head])
  BY <1>0, <1>5, <1>6, <1>7 DEF Chain
<1>9. QED
  BY <1>1, <1>3, <1>4, <1>8 DEF t

\* buf_write_data: the first free node goes before the used ones.
LEMMA WriteWalks ==
  ASSUME NEW links \in Links, NEW h, NEW f, NEW u, NEW v,
         Chain(u, links, h), Chain(v, links, f), Placed(u, v), f # NULL
  PROVE  LET links2 == [links EXCEPT ![f] = h]
         IN  /\ Chain(<<f>> \o u, links2, f) /\ Chain(Tail(v), links2, links[f])
             /\ Placed(<<f>> \o u, Tail(v))
<1> DEFINE links2 == [links EXCEPT ![f] = h]
           u2 == <<f>> \o u
           v2 == Tail(v)
<1>1. /\ Chain(v2, links, links[f]) /\ f \in Nodes /\ f = v[1]
      /\ Len(v2) = Len(v) - 1
      /\ \A i \in 1 .. Len(v) - 1 : v2[i] = v[i + 1]
  BY ChainTail
<1>2. /\ u \in Seq(Nodes) /\ Len(u) \in Nat /\ v \in Seq(Nodes)
      /\ \A i \in 1 .. Len(u) : u[i] \in Nodes
      /\ \A i \in 1 .. Len(v) : v[i] \in Nodes
  BY DEF Chain
<1>3. Len(v) \in Nat \ {0}
  <2>1. v # <<>>
    BY DEF Chain
  <2>2. QED
    BY <1>2, <2>1, EmptySeq
<1>4. /\ u2 \in Seq(Nodes) /\ Len(u2) = Len(u) + 1 /\ u2[1] = f
      /\ \A j \in 1 .. Len(u) : u2[j + 1] = u[j]
  BY <1>1, <1>2, Prefixed
<1> HIDE DEF u2, v2
<1>5. \A n \in Nodes : n # f => links2[n] = links[n]
  BY DEF Links
<1>6. Chain(u2, links2, f)
  <2>1. \A k \in 1 .. Len(u) : u[k] # f
    BY <1>1, <1>3 DEF Placed
  <2>2. Chain(u, links2, h)
    BY <1>2, <1>5, <2>1, ChainKept
  <2>3. links2[f] = h /\ h \in Nodes \cup {NULL}
    <3>1. CASE u = <<>>
      BY <1>1, <3>1 DEF Chain, Links
    <3>2. CASE u # <<>>
      <4>1. 1 \in 1 .. Len(u)
        BY <1>2, <3>2, EmptySeq
      <4>2. QED
        BY <1>1, <1>2, <3>2, <4>1 DEF Chain, Links
    <3>3. QED
      BY <3>1, <3>2
  <2>4. links2 \in Links
    BY <2>3 DEF Links
  <2> HIDE DEF links2
  <2>5. QED
    BY <1>1, <2>2, <2>3, <2>4, ChainPrefixed DEF u2
<1>7. Chain(v2, links2, links[f])
  <2>1. ASSUME NEW k \in 1 .. Len(v2) PROVE links2[v2[k]] = links[v2[k]]
    <3>1. k + 1 \in 1 .. Len(v) /\ k \in 1 .. Len(v) - 1 /\ k + 1 # 1 /\ 1 \in 1 .. Len(v)
      BY <1>1, <1>3
    <3>2. v2[k] = v[k + 1] /\ v[k + 1] \in Nodes
      BY <1>1, <1>2, <3>1
    <3>3. v[k + 1] # v[1]
      BY <3>1 DEF Placed, Distinct
    <3>4. QED
      BY <1>1, <1>5, <3>2, <3>3
  <2> HIDE DEF links2
  <2>2. QED
    BY <1>1, <2>1, ChainKept
<1>8. Placed(u2, v2)
  <2>1. Len(u2) + Len(v2) = N
    BY <1>1, <1>2, <1>3, <1>4 DEF Placed
  <2>2. \A i \in 1 .. Len(v2) : i + 1 \in 2 .. Len(v) /\ v2[i] = v[i + 1]
    BY <1>1, <1>3
  <2>3. \A i \in 2 .. Len(u2) : i - 1 \in 1 .. Len(u) /\ u2[i] = u[i - 1]
    <3>1. ASSUME NEW i \in 2 .. Len(u2) PROVE i - 1 \in 1 .. Len(u) /\ u2[i] = u[i - 1]
      <4>1. i - 1 \in 1 .. Len(u) /\ (i - 1) + 1 = i
        BY <1>2, <1>4
      <4>2. QED
        BY <1>4, <4>1
    <3>2. QED
      BY <3>1
  <2>4. \A i \in 1 .. Len(u) : u[i] # f
    BY <1>1, <1>3 DEF Placed
  <2>5. Distinct(u2)
    <3>1. SUFFICES ASSUME NEW i \in 1 .. Len(u2), NEW j \in 1 .. Len(u2), u2[i] = u2[j]
                   PROVE  i = j
      BY DEF Distinct
    <3>2. CASE i = 1
      <4>1. j \notin 2 .. Len(u2)
        BY <1>4, <2>3, <2>4, <3>1, <3>2
      <4>2. QED
        BY <1>2, <1>4, <3>2, <4>1
    <3>3. CASE j = 1
      <4>1. i \notin 2 .. Len(u2)
        BY <1>4, <2>3, <2>4, <3>1, <3>3
      <4>2. QED
        BY <1>2, <1>4, <3>3, <4>1
    <3>4. CASE i # 1 /\ j # 1
      <4>1. i \in 2 .. Len(u2) /\ j \in 2 .. Len(u2)
        BY <1>2, <1>4, <3>4
      <4>2. i - 1 \in 1 .. Len(u) /\ j - 1 \in 1 .. Len(u) /\ u[i - 1] = u[j - 1]
        BY <2>3, <3>1, <4>1
      <4>3. i - 1 = j - 1
        BY <4>2 DEF Placed, Distinct
      <4>4. QED
        BY <4>1, <4>3
    <3>5. QED
      BY <3>2, <3>3, <3>4
  <2>6. Distinct(v2)
    BY <1>1, <1>3, <2>2 DEF Placed, Distinct
  <2>7. ASSUME NEW i \in 1 .. Len(u2), NEW j \in 1 .. Len(v2) PROVE u2[i] # v2[j]
    <3>1. j + 1 \in 1 .. Len(v) /\ j + 1 # 1 /\ 1 \in 1 .. Len(v) /\ v2[j] = v[j + 1]
      BY <1>1, <1>3, <2>2
    <3>2. CASE i = 1
      <4>1. v[j + 1] # v[1]
        BY <3>1 DEF Placed, Distinct
      <4>2. QED
        BY <1>1, <1>4, <3>1, <3>2, <4>1
    <3>3. CASE i # 1
      <4>1. i \in 2 .. Len(u2)
        BY <1>2, <1>4, <3>3
      <4>2. i - 1 \in 1 .. Len(u) /\ u2[i] = u[i - 1]
        BY <2>3, <4>1
      <4>3. u[i - 1] # v[j + 1]
        BY <3>1, <4>2 DEF Placed
      <4>4. QED
        BY <3>1, <4>2, <4>3
    <3>4. QED
      BY <3>2, <3>3
  <2>8. ASSUME NEW n \in Nodes
        PROVE  \/ \E i \in 1 .. Len(u2) : u2[i] = n
               \/ \E j \in 1 .. Len(v2) : v2[j] = n
    <3>1. CASE \E i \in 1 .. Len(u) : u[i] = n
      <4>1. PICK i \in 1 .. Len(u) : u[i] = n
        BY <3>1
      <4>2. i + 1 \in 1 .. Len(u2) /\ u2[i + 1] = n
        BY <1>2, <1>4, <4>1
      <4>3. QED
        BY <4>2
    <3>2. CASE \E j \in 1 .. Len(v) : v[j] = n
      <4>1. PICK j \in 1 .. Len(v) : v[j] = n
        BY <3>2
      <4>2. CASE j = 1
        <5>1. 1 \in 1 .. Len(u2) /\ u2[1] = n
          BY <1>1, <1>2, <1>4, <4>1, <4>2
        <5>2. QED
          BY <5>1
      <4>3. CASE j # 1
        <5>1. j - 1 \in 1 .. Len(v2) /\ j - 1 \in 1 .. Len(v) - 1 /\ (j - 1) + 1 = j
          BY <1>1, <1>3, <4>3
        <5>2. v2[j - 1] = n
          BY <1>1, <4>1, <5>1
        <5>3. QED
          BY <5>1, <5>2
      <4>4. QED
        BY <4>2, <4>3
    <3>3. QED
      BY <3>1, <3>2 DEF Placed
  <2>9. QED
    BY <2>1, <2>5, <2>6, <2>7, <2>8 DEF Placed
<1>9. QED
  BY <1>6, <1>7, <1>8 DEF u2, v2

\* The links and the head after the k-th node of u left u for f.
Cut(links, u, k, f) ==
  LET first == [links EXCEPT ![u[k]] = f]
  IN  IF k = 1 THEN first ELSE [first EXCEPT ![u[k - 1]] = links[u[k]]]

LEMMA CutLinks ==
  ASSUME NEW links \in Links, NEW u \in Seq(Nodes), Distinct(u),
         NEW k \in 1 .. Len(u), NEW f \in Nodes \cup {NULL}
  PROVE  /\ Cut(links, u, k, f) \in Links /\ Cut(links, u, k, f)[u[k]] = f
         /\ k # 1 => Cut(links, u, k, f)[u[k - 1]] = links[u[k]]
         /\ \A n \in Nodes : n # u[k] /\ (k # 1 => n # u[k - 1]) =>
              Cut(links, u, k, f)[n] = links[n]
<1>1. u[k] \in Nodes /\ links[u[k]] \in Nodes \cup {NULL}
  BY DEF Links
<1>2. CASE k = 1
  BY <1>1, <1>2 DEF Cut, Links
<1>3. CASE k # 1
  <2>1. k - 1 \in 1 .. Len(u) /\ k - 1 # k
    BY <1>3
  <2>2. u[k - 1] \in Nodes /\ u[k - 1] # u[k]
    BY <2>1 DEF Distinct
  <2>3. QED
    BY <1>1, <1>3, <2>2 DEF Cut, Links
<1>4. QED
  BY <1>2, <1>3

LEMMA CutWalk ==
  ASSUME NEW links \in Links, NEW h, NEW u, Chain(u, links, h), Distinct(u),
         NEW k \in 1 .. Len(u), NEW f \in Nodes \cup {NULL}
  PROVE  Chain(Store!RemoveAt(u, k), Cut(links, u, k, f), IF k = 1 THEN links[u[1]] ELSE h)
<1> DEFINE u2 == Store!RemoveAt(u, k)
           links2 == Cut(links, u, k, f)
           h2 == IF k = 1 THEN links[u[1]] ELSE h
           L == Len(u)
<1>1. u \in Seq(Nodes) /\ L \in Nat /\ k \in 1 .. L /\ (\A i \in 1 .. L : u[i] \in Nodes)
  BY DEF Chain
<1>2. /\ u2 \in Seq(Nodes) /\ Len(u2) = L - 1
      /\ \A j \in 1 .. L - 1 : u2[j] = IF j < k THEN u[j] ELSE u[j + 1]
  BY <1>1, RemovedAt
<1>3. /\ k # 1 => links2[u[k - 1]] = links[u[k]]
      /\ \A n \in Nodes : n # u[k] /\ (k # 1 => n # u[k - 1]) => links2[n] = links[n]
  BY <1>1, CutLinks
<1>4. ASSUME NEW j \in 1 .. L, j # k, j # k - 1 PROVE links2[u[j]] = links[u[j]]
  <2>1. u[j] # u[k]
    BY <1>4 DEF Distinct
  <2>2. k # 1 => u[j] # u[k - 1]
    <3>1. k # 1 => k - 1 \in 1 .. L
      BY <1>1
    <3>2. QED
      BY <1>4, <3>1 DEF Distinct
  <2>3. QED
    BY <1>1, <1>3, <2>1, <2>2
<1>5. \A j \in 1 .. L - 1 : links[u[j]] = u[j + 1] /\ u[j + 1] # NULL
  <2>1. ASSUME NEW j \in 1 .. L - 1 PROVE links[u[j]] = u[j + 1] /\ u[j + 1] # NULL
    <3>1. j + 1 \in 1 .. L
      BY <1>1
    <3>2. u[j + 1] \in Nodes
      BY <1>1, <3>1
    <3>3. QED
      BY <3>2 DEF Chain, Nodes, NULL
  <2>2. QED
    BY <2>1
<1>6. u[1] = h /\ links[u[L]] = NULL /\ h # NULL
  <2>1. u # <<>>
    BY <1>1, EmptySeq
  <2>2. QED
    BY <2>1 DEF Chain
<1> HIDE DEF u2, links2, L
<1>7. CASE L = 1
  <2>1. k = 1 /\ h2 = NULL
    BY <1>1, <1>6, <1>7
  <2>2. Len(u2) = 0
    BY <1>2, <1>7
  <2>3. u2 = <<>>
    BY <1>2, <2>2, EmptySeq
  <2>4. \A j \in 1 .. Len(u2) - 1 : links2[u2[j]] = u2[j + 1]
    BY <2>2
  <2> HIDE DEF h2
  <2>5. Chain(u2, links2, h2)
    BY <1>2, <2>1, <2>3, <2>4 DEF Chain
  <2>6. QED
    BY <2>5 DEF u2, links2, h2
<1>8. CASE L # 1
  <2>1. L - 1 \in 1 .. L - 1 /\ 1 \in 1 .. L - 1
    BY <1>1, <1>8
  <2>2. u2 # <<>>
    BY <1>2, <2>1
  <2>3. u2[1] = h2 /\ h2 # NULL
    <3>1. CASE k = 1
      <4>1. u2[1] = u[2] /\ links[u[1]] = u[2] /\ u[2] # NULL
        BY <1>2, <1>5, <2>1, <3>1
      <4>2. QED
        BY <3>1, <4>1
    <3>2. CASE k # 1
      BY <1>1, <1>2, <1>6, <2>1, <3>2
    <3>3. QED
      BY <3>1, <3>2
  <2>4. links2[u2[L - 1]] = NULL
    <3>1. CASE k = L
      <4>1. u2[L - 1] = u[k - 1]
        BY <1>1, <1>2, <2>1, <3>1
      <4>2. QED
        BY <1>3, <1>6, <1>8, <3>1, <4>1
    <3>2. CASE k # L
      <4>1. ~(L - 1 < k) /\ (L - 1) + 1 = L /\ L \in 1 .. L /\ L # k /\ L # k - 1
        BY <1>1, <3>2
      <4>2. u2[L - 1] = u[L]
        BY <1>2, <2>1, <4>1
      <4>3. QED
        BY <1>4, <1>6, <4>1, <4>2
    <3>3. QED
      BY <3>1, <3>2
  <2>5. ASSUME NEW j \in 1 .. (L - 1) - 1 PROVE links2[u2[j]] = u2[j + 1]
    <3>1. j \in 1 .. L - 1 /\ j + 1 \in 1 .. L - 1 /\ j \in 1 .. L /\ j + 1 \in 1 .. L
      BY <1>1
    <3>2. CASE j < k - 1
      <4>1. u2[j] = u[j] /\ u2[j + 1] = u[j + 1] /\ j # k /\ j # k - 1
        BY <1>1, <1>2, <3>1, <3>2
      <4>2. QED
        BY <1>4, <1>5, <3>1, <4>1
    <3>3. CASE j = k - 1
      <4>1. u2[j] = u[k - 1] /\ u2[j + 1] = u[k + 1] /\ k # 1 /\ k \in 1 .. L - 1
        BY <1>1, <1>2, <3>1, <3>3
      <4>2. QED
        BY <1>3, <1>5, <4>1
    <3>4. CASE j > k - 1
      <4>1. u2[j] = u[j + 1] /\ u2[j + 1] = u[(j + 1) + 1] /\ j + 1 # k /\ j + 1 # k - 1
        BY <1>1, <1>2, <3>1, <3>4
      <4>2. QED
        BY <1>4, <1>5, <3>1, <4>1
    <3>5. QED
      BY <1>1, <3>1, <3>2, <3>3, <3>4
  <2>6. /\ links2[u2[Len(u2)]] = NULL
        /\ \A j \in 1 .. Len(u2) - 1 : links2[u2[j]] = u2[j + 1]
    BY <1>2, <2>4, <2>5
  <2> HIDE DEF h2
  <2>7. Chain(u2, links2, h2)
    BY <1>2, <2>2, <2>3, <2>6 DEF Chain
  <2>8. QED
    BY <2>7 DEF u2, links2, h2
<1>9. QED
  BY <1>7, <1>8

\* A delete: the k-th used node goes before the free ones.
LEMMA DeleteWalks ==
  ASSUME NEW links \in Links, NEW h, NEW f, NEW u, NEW v,
         Chain(u, links, h), Chain(v, links, f), Placed(u, v), NEW k \in 1 .. Len(u)
  PROVE  LET u2 == Store!RemoveAt(u, k)
             v2 == <<u[k]>> \o v
         IN  /\ Chain(u2, Cut(links, u, k, f), IF k = 1 THEN links[u[1]] ELSE h)
             /\ Chain(v2, Cut(links, u, k, f), u[k])
             /\ Placed(u2, v2)
<1> DEFINE links2 == Cut(links, u, k, f)
           u2 == Store!RemoveAt(u, k)
           v2 == <<u[k]>> \o v
           L == Len(u)
<1>1. /\ u \in Seq(Nodes) /\ L \in Nat /\ k \in 1 .. L /\ u[k] \in Nodes
      /\ v \in Seq(Nodes) /\ Len(v) \in Nat
      /\ \A i \in 1 .. L : u[i] \in Nodes
      /\ \A i \in 1 .. Len(v) : v[i] \in Nodes
  BY DEF Chain
<1>2. f \in Nodes \cup {NULL}
  <2>1. CASE v = <<>>
    BY <2>1 DEF Chain
  <2>2. CASE v # <<>>
    <3>1. 1 \in 1 .. Len(v)
      BY <1>1, <2>2, EmptySeq
    <3>2. QED
      BY <1>1, <2>2, <3>1 DEF Chain
  <2>3. QED
    BY <2>1, <2>2
<1>3. Distinct(u) /\ Distinct(v) /\ \A i \in 1 .. L, j \in 1 .. Len(v) : u[i] # v[j]
  BY DEF Placed
<1>4. /\ u2 \in Seq(Nodes) /\ Len(u2) = L - 1
      /\ \A j \in 1 .. L - 1 : u2[j] = IF j < k THEN u[j] ELSE u[j + 1]
  BY <1>1, RemovedAt
<1>5. /\ v2 \in Seq(Nodes) /\ Len(v2) = Len(v) + 1 /\ v2[1] = u[k]
      /\ \A j \in 1 .. Len(v) : v2[j + 1] = v[j]
  BY <1>1, Prefixed
<1>6. /\ links2 \in Links /\ links2[u[k]] = f
      /\ \A n \in Nodes : n # u[k] /\ (k # 1 => n # u[k - 1]) => links2[n] = links[n]
  BY <1>1, <1>2, <1>3, CutLinks
<1>7. Chain(u2, links2, IF k = 1 THEN links[u[1]] ELSE h)
  BY <1>2, <1>3, CutWalk
<1>8. Chain(v2, links2, u[k])
  <2>1. ASSUME NEW j \in 1 .. Len(v) PROVE links2[v[j]] = links[v[j]]
    <3>1. v[j] \in Nodes /\ v[j] # u[k]
      BY <1>1, <1>3
    <3>2. k # 1 => v[j] # u[k - 1]
      <4>1. k # 1 => k - 1 \in 1 .. L
        BY <1>1
      <4>2. QED
        BY <1>3, <4>1
    <3>3. QED
      BY <1>6, <3>1, <3>2
  <2> HIDE DEF links2
  <2>2. Chain(v, links2, f)
    BY <2>1, ChainKept
  <2>3. QED
    BY <1>1, <1>6, <2>2, ChainPrefixed
<1> HIDE DEF u2, v2, links2, L
\* Where the nodes of u2 and v2 were.
<1>9. \A j \in 1 .. L - 1 : \E i \in 1 .. L : i # k /\ u2[j] = u[i] /\ i = IF j < k THEN j ELSE j + 1
  <2>1. ASSUME NEW j \in 1 .. L - 1
        PROVE  \E i \in 1 .. L : i # k /\ u2[j] = u[i] /\ i = IF j < k THEN j ELSE j + 1
    <3>1. CASE j < k
      <4>1. j \in 1 .. L /\ j # k /\ u2[j] = u[j]
        BY <1>1, <1>4, <3>1
      <4>2. QED
        BY <3>1, <4>1
    <3>2. CASE ~(j < k)
      <4>1. j + 1 \in 1 .. L /\ j + 1 # k /\ u2[j] = u[j + 1]
        BY <1>1, <1>4, <3>2
      <4>2. QED
        BY <3>2, <4>1
    <3>3. QED
      BY <3>1, <3>2
  <2>2. QED
    BY <2>1
<1>10. \A j \in 2 .. Len(v2) : j - 1 \in 1 .. Len(v) /\ v2[j] = v[j - 1]
  <2>1. ASSUME NEW j \in 2 .. Len(v2) PROVE j - 1 \in 1 .. Len(v) /\ v2[j] = v[j - 1]
    <3>1. j - 1 \in 1 .. Len(v) /\ (j - 1) + 1 = j
      BY <1>1, <1>5
    <3>2. QED
      BY <1>5, <3>1
  <2>2. QED
    BY <2>1
<1>11. Placed(u2, v2)
  <2>1. Len(u2) + Len(v2) = N
    BY <1>1, <1>4, <1>5 DEF Placed, L
  <2>2. Distinct(u2)
    <3>1. SUFFICES ASSUME NEW a \in 1 .. L - 1, NEW b \in 1 .. L - 1, u2[a] = u2[b]
                   PROVE  a = b
      BY <1>4 DEF Distinct
    <3>2. PICK i \in 1 .. L : u2[a] = u[i] /\ i = IF a < k THEN a ELSE a + 1
      BY <1>9
    <3>3. PICK j \in 1 .. L : u2[b] = u[j] /\ j = IF b < k THEN b ELSE b + 1
      BY <1>9
    <3>4. i = j
      BY <1>3, <3>1, <3>2, <3>3 DEF Distinct, L
    <3>5. QED
      BY <1>1, <3>2, <3>3, <3>4
  <2>3. Distinct(v2)
    <3>1. SUFFICES ASSUME NEW a \in 1 .. Len(v2), NEW b \in 1 .. Len(v2), v2[a] = v2[b]
                   PROVE  a = b
      BY DEF Distinct
    <3>2. ASSUME NEW c \in 2 .. Len(v2) PROVE v2[c] # u[k]
      BY <1>1, <1>3, <1>10
    <3>3. CASE a = 1
      <4>1. b \notin 2 .. Len(v2)
        BY <1>5, <3>1, <3>2, <3>3
      <4>2. QED
        BY <1>1, <1>5, <3>3, <4>1
    <3>4. CASE b = 1
      <4>1. a \notin 2 .. Len(v2)
        BY <1>5, <3>1, <3>2, <3>4
      <4>2. QED
        BY <1>1, <1>5, <3>4, <4>1
    <3>5. CASE a # 1 /\ b # 1
      <4>1. a \in 2 .. Len(v2) /\ b \in 2 .. Len(v2)
        BY <1>1, <1>5, <3>5
      <4>2. a - 1 \in 1 .. Len(v) /\ b - 1 \in 1 .. Len(v) /\ v[a - 1] = v[b - 1]
        BY <1>10, <3>1, <4>1
      <4>3. a - 1 = b - 1
        BY <1>3, <4>2 DEF Distinct
      <4>4. QED
        BY <4>1, <4>3
    <3>6. QED
      BY <3>3, <3>4, <3>5
  <2>4. ASSUME NEW a \in 1 .. Len(u2), NEW b \in 1 .. Len(v2) PROVE u2[a] # v2[b]
    <3>1. PICK i \in 1 .. L : i # k /\ u2[a] = u[i]
      BY <1>4, <1>9
    <3>2. CASE b = 1
      BY <1>1, <1>3, <1>5, <3>1, <3>2 DEF Distinct, L
    <3>3. CASE b # 1
      <4>1. b \in 2 .. Len(v2)
        BY <1>1, <1>5, <3>3
      <4>2. QED
        BY <1>3, <1>10, <3>1, <4>1
    <3>4. QED
      BY <3>2, <3>3
  <2>5. ASSUME NEW n \in Nodes
        PROVE  \/ \E i \in 1 .. Len(u2) : u2[i] = n
               \/ \E j \in 1 .. Len(v2) : v2[j] = n
    <3>1. CASE \E i \in 1 .. L : u[i] = n
      <4>1. PICK i \in 1 .. L : u[i] = n
        BY <3>1
      <4>2. CASE i = k
        <5>1. 1 \in 1 .. Len(v2) /\ v2[1] = n
          BY <1>1, <1>5, <4>1, <4>2
        <5>2. QED
          BY <5>1
      <4>3. CASE i < k
        <5>1. i \in 1 .. L - 1 /\ u2[i] = n
          BY <1>1, <1>4, <4>1, <4>3
        <5>2. QED
          BY <1>4, <5>1
      <4>4. CASE i > k
        <5>1. i - 1 \in 1 .. L - 1 /\ ~(i - 1 < k) /\ (i - 1) + 1 = i
          BY <1>1, <4>4
        <5>2. u2[i - 1] = n
          BY <1>4, <4>1, <5>1
        <5>3. QED
          BY <1>4, <5>1, <5>2
      <4>5. QED
        BY <1>1, <4>2, <4>3, <4>4
    <3>2. CASE \E j \in 1 .. Len(v) : v[j] = n
      <4>1. PICK j \in 1 .. Len(v) : v[j] = n
        BY <3>2
      <4>2. j + 1 \in 1 .. Len(v2) /\ v2[j + 1] = n
        BY <1>1, <1>5, <4>1
      <4>3. QED
        BY <4>2
    <3>3. QED
      BY <3>1, <3>2 DEF Placed, L
  <2>6. QED
    BY <2>1, <2>2, <2>3, <2>4, <2>5 DEF Placed
<1>12. QED
  BY <1>7, <1>8, <1>11 DEF u2, v2, links2

-----------------------------------------------------------------------------
(* What the lists hold.                                                    *)

Held == Elements \cup {Unset}

\* The values of the nodes of u.
Content(u, b) == [k \in DOMAIN u |-> b[u[k]]]

LEMMA ContentIs ==
  ASSUME NEW b \in [Nodes -> Held], NEW u \in Seq(Nodes)
  PROVE  /\ Content(u, b) \in Seq(Held) /\ Len(Content(u, b)) = Len(u)
         /\ \A k \in 1 .. Len(u) : Content(u, b)[k] = b[u[k]]
<1> DEFINE c == Content(u, b)
<1>1. Len(u) \in Nat /\ DOMAIN u = 1 .. Len(u) /\ \A k \in 1 .. Len(u) : u[k] \in Nodes
  OBVIOUS
<1>2. c = [k \in 1 .. Len(u) |-> b[u[k]]]
  BY <1>1 DEF Content
<1>3. c \in [1 .. Len(u) -> Held] /\ \A k \in 1 .. Len(u) : c[k] = b[u[k]]
  BY <1>1, <1>2
<1> HIDE DEF c
<1>4. c \in Seq(Held) /\ Len(c) = Len(u)
  BY <1>1, <1>3
<1>5. QED
  BY <1>3, <1>4 DEF c

LEMMA ContentWritten ==
  ASSUME NEW b \in [Nodes -> Held], NEW u \in Seq(Nodes), NEW f \in Nodes,
         \A k \in 1 .. Len(u) : u[k] # f, NEW val \in Held
  PROVE  Content(<<f>> \o u, [b EXCEPT ![f] = val]) = <<val>> \o Content(u, b)
<1> DEFINE b2 == [b EXCEPT ![f] = val]
           u2 == <<f>> \o u
           c2 == Content(u2, b2)
           c == Content(u, b)
           d == <<val>> \o c
<1>1. b2 \in [Nodes -> Held] /\ b2[f] = val /\ \A n \in Nodes : n # f => b2[n] = b[n]
  OBVIOUS
<1> HIDE DEF b2
<1>2. /\ u2 \in Seq(Nodes) /\ Len(u2) = Len(u) + 1 /\ u2[1] = f
      /\ \A j \in 1 .. Len(u) : u2[j + 1] = u[j]
  BY Prefixed
<1> HIDE DEF u2
<1>3. /\ c2 \in Seq(Held) /\ Len(c2) = Len(u2)
      /\ \A k \in 1 .. Len(u2) : c2[k] = b2[u2[k]]
  BY <1>1, <1>2, ContentIs
<1>4. /\ c \in Seq(Held) /\ Len(c) = Len(u)
      /\ \A k \in 1 .. Len(u) : c[k] = b[u[k]]
  BY ContentIs
<1> HIDE DEF c, c2
<1>5. /\ d \in Seq(Held) /\ Len(d) = Len(c) + 1 /\ d[1] = val
      /\ \A j \in 1 .. Len(c) : d[j + 1] = c[j]
  BY <1>4, Prefixed
<1> HIDE DEF d
<1>6. ASSUME NEW k \in 1 .. Len(c2) PROVE c2[k] = d[k]
  <2>1. Len(u) \in Nat /\ k \in 1 .. Len(u) + 1
    BY <1>2, <1>3
  <2>2. CASE k = 1
    BY <1>1, <1>2, <1>3, <1>5, <2>2
  <2>3. CASE k # 1
    <3>1. k - 1 \in 1 .. Len(u) /\ (k - 1) + 1 = k
      BY <2>1, <2>3
    <3>2. u2[k] = u[k - 1] /\ d[k] = b[u[k - 1]]
      BY <1>2, <1>4, <1>5, <3>1
    <3>3. u[k - 1] \in Nodes /\ u[k - 1] # f
      BY <3>1
    <3>4. QED
      BY <1>1, <1>3, <3>2, <3>3
  <2>4. QED
    BY <2>2, <2>3
<1>7. c2 = d
  BY <1>2, <1>3, <1>4, <1>5, <1>6, SeqEqual
<1>8. QED
  BY <1>7 DEF c2, d, c, u2, b2

LEMMA ContentRemoved ==
  ASSUME NEW b \in [Nodes -> Held], NEW u \in Seq(Nodes), NEW k \in 1 .. Len(u)
  PROVE  Content(Store!RemoveAt(u, k), b) = Store!RemoveAt(Content(u, b), k)
<1> DEFINE u2 == Store!RemoveAt(u, k)
           c2 == Content(u2, b)
           c == Content(u, b)
           d == Store!RemoveAt(c, k)
<1>1. /\ u2 \in Seq(Nodes) /\ Len(u2) = Len(u) - 1
      /\ \A j \in 1 .. Len(u) - 1 : u2[j] = IF j < k THEN u[j] ELSE u[j + 1]
  BY RemovedAt
<1> HIDE DEF u2
<1>2. /\ c2 \in Seq(Held) /\ Len(c2) = Len(u2)
      /\ \A j \in 1 .. Len(u2) : c2[j] = b[u2[j]]
  BY <1>1, ContentIs
<1>3. /\ c \in Seq(Held) /\ Len(c) = Len(u)
      /\ \A j \in 1 .. Len(u) : c[j] = b[u[j]]
  BY ContentIs
<1> HIDE DEF c, c2
<1>4. /\ d \in Seq(Held) /\ Len(d) = Len(c) - 1
      /\ \A j \in 1 .. Len(c) - 1 : d[j] = IF j < k THEN c[j] ELSE c[j + 1]
  BY <1>3, RemovedAt
<1> HIDE DEF d
<1>5. ASSUME NEW j \in 1 .. Len(u) - 1 PROVE c2[j] = d[j]
  <2>1. Len(u) \in Nat /\ j \in 1 .. Len(u) /\ j + 1 \in 1 .. Len(u)
    OBVIOUS
  <2>2. CASE j < k
    BY <1>1, <1>2, <1>3, <1>4, <2>1, <2>2
  <2>3. CASE ~(j < k)
    BY <1>1, <1>2, <1>3, <1>4, <2>1, <2>3
  <2>4. QED
    BY <2>2, <2>3
<1>6. c2 = d
  BY <1>1, <1>2, <1>3, <1>4, <1>5, SeqEqual
<1>7. QED
  BY <1>6 DEF c2, d, c, u2

-----------------------------------------------------------------------------
(* The steps of the list.                                                  *)

\* Both lists end at NULL, and every node is in one place of one of them.
ListInv ==
  /\ ListTypeOK
  /\ Chain(Used, next, rw_P) /\ Chain(Unused, next, free_P) /\ Placed(Used, Unused)

\* Two walks from the new heads are the two new lists.
LEMMA Rewalked ==
  ASSUME NEW u, NEW v, Chain(u, next', rw_P'), Chain(v, next', free_P'), Placed(u, v)
  PROVE  /\ Used' = u /\ Unused' = v
         /\ Chain(Used', next', rw_P') /\ Chain(Unused', next', free_P')
         /\ Placed(Used', Unused')
<1>1. Len(u) \in Nat /\ Len(v) \in Nat /\ Len(u) + Len(v) = N
  BY DEF Chain, Placed
<1>2. Len(u) <= N /\ Len(v) <= N
  BY <1>1
<1>3. Walk(next', rw_P') = u /\ Walk(next', free_P') = v
  BY <1>2, WalkIs
<1>4. Used' = u /\ Unused' = v
  BY <1>3 DEF Used, Unused
<1>5. QED
  BY <1>4

\* At the start every node is free, in the order of the array.
LEMMA ListStart == ListInit => ListInv /\ Used = <<>>
<1> SUFFICES ASSUME ListInit PROVE ListInv /\ Used = <<>>
  OBVIOUS
<1> USE DEF ListInit
<1> DEFINE u == <<>>
           v == [n \in Nodes |-> n]
<1>1. N \in Nat /\ N > 0
  BY ListAssumption
<1>2. ListTypeOK
  BY <1>1 DEF ListTypeOK, FirstLinks, Nodes, NULL
<1>3. /\ v \in Seq(Nodes) /\ Len(v) = N /\ \A k \in 1 .. N : v[k] = k
  BY <1>1 DEF Nodes
<1>4. u \in Seq(Nodes) /\ Len(u) = 0
  OBVIOUS
<1>5. Chain(u, next, rw_P)
  BY <1>4 DEF Chain
<1> HIDE DEF v
<1>6. Chain(v, next, free_P)
  <2>1. Len(v) # 0
    BY <1>1, <1>3
  <2>2. v # <<>>
    BY <2>1
  <2>3. v[1] = 1 /\ free_P = 1 /\ free_P # NULL
    BY <1>1, <1>3 DEF NULL
  <2>4. next[v[Len(v)]] = NULL
    BY <1>1, <1>3 DEF FirstLinks, Nodes
  <2>5. \A k \in 1 .. Len(v) - 1 : next[v[k]] = v[k + 1]
    BY <1>1, <1>3 DEF FirstLinks, Nodes
  <2>6. QED
    BY <1>3, <2>2, <2>3, <2>4, <2>5 DEF Chain
<1>7. Placed(u, v)
  <2>1. Len(u) + Len(v) = N
    BY <1>1, <1>3, <1>4
  <2>2. Distinct(u) /\ Distinct(v)
    BY <1>3, <1>4 DEF Distinct
  <2>3. \A n \in Nodes : \E j \in 1 .. Len(v) : v[j] = n
    BY <1>3 DEF Nodes
  <2>4. QED
    BY <1>4, <2>1, <2>2, <2>3 DEF Placed
<1>8. Used = u /\ Unused = v
  BY <1>1, <1>3, <1>4, <1>5, <1>6, WalkIs DEF Used, Unused
<1>9. QED
  BY <1>2, <1>5, <1>6, <1>7, <1>8 DEF ListInv

LEMMA HeadIn ==
  ASSUME NEW s, NEW links, NEW head, Chain(s, links, head)
  PROVE  head \in Nodes \cup {NULL}
<1>1. CASE s = <<>>
  BY <1>1 DEF Chain
<1>2. CASE s # <<>>
  <2>1. s \in Seq(Nodes) /\ Len(s) \in Nat /\ s[1] = head
    BY <1>2 DEF Chain
  <2>2. 1 \in 1 .. Len(s)
    BY <1>2, <2>1, EmptySeq
  <2>3. QED
    BY <2>1, <2>2
<1>3. QED
  BY <1>1, <1>2

\* What the invariant says of the used list and its content.
LEMMA UsedFacts ==
  ASSUME ListInv
  PROVE  /\ N \in Nat /\ next \in Links /\ buf \in [Nodes -> Held]
         /\ Used \in Seq(Nodes) /\ Len(Used) \in Nat /\ DOMAIN Used = 1 .. Len(Used)
         /\ Unused \in Seq(Nodes) /\ Len(Unused) \in Nat
         /\ Len(Used) + Len(Unused) = N
         /\ Content(Used, buf) \in Seq(Held) /\ Len(Content(Used, buf)) = Len(Used)
         /\ DOMAIN Content(Used, buf) = 1 .. Len(Used)
         /\ \A k \in 1 .. Len(Used) : Used[k] \in Nodes
         /\ \A k \in 1 .. Len(Used) : Content(Used, buf)[k] = buf[Used[k]]
<1>1. /\ Used \in Seq(Nodes) /\ Unused \in Seq(Nodes)
      /\ Len(Used) + Len(Unused) = N /\ N \in Nat
      /\ next \in Links /\ buf \in [Nodes -> Held]
  BY ListAssumption DEF ListInv, ListTypeOK, Chain, Placed, Links, Held
<1>2. /\ Content(Used, buf) \in Seq(Held) /\ Len(Content(Used, buf)) = Len(Used)
      /\ \A k \in 1 .. Len(Used) : Content(Used, buf)[k] = buf[Used[k]]
  BY <1>1, ContentIs
<1>3. Len(Used) \in Nat /\ Len(Unused) \in Nat
  BY <1>1
<1>4. DOMAIN Content(Used, buf) = 1 .. Len(Used) /\ DOMAIN Used = 1 .. Len(Used)
  BY <1>1, <1>2
<1>5. \A k \in 1 .. Len(Used) : Used[k] \in Nodes
  BY <1>1
<1>6. QED
  BY <1>1, <1>2, <1>3, <1>4, <1>5

\* The value goes to the node that leaves the free list.
LEMMA AfterWrite ==
  ASSUME ListInv, NEW val \in Elements, free_P # NULL,
         buf' = [buf EXCEPT ![free_P] = val],
         next' = [next EXCEPT ![free_P] = rw_P],
         rw_P' = free_P, free_P' = next[free_P]
  PROVE  /\ buf' \in [Nodes -> Held] /\ next' \in Links
         /\ Len(Used) < N
         /\ Chain(Used', next', rw_P') /\ Chain(Unused', next', free_P')
         /\ Placed(Used', Unused')
         /\ Content(Used', buf') = <<val>> \o Content(Used, buf)
<1> DEFINE u == <<free_P>> \o Used
           v == Tail(Unused)
<1>1. Chain(Used, next, rw_P) /\ Chain(Unused, next, free_P) /\ Placed(Used, Unused)
  BY DEF ListInv
<1>2. Chain(u, next', free_P) /\ Chain(v, next', next[free_P]) /\ Placed(u, v)
  BY <1>1, UsedFacts, WriteWalks
<1>3. /\ Used' = u
      /\ Chain(Used', next', rw_P') /\ Chain(Unused', next', free_P')
      /\ Placed(Used', Unused')
  <2> HIDE DEF u, v
  <2>1. Chain(u, next', rw_P') /\ Chain(v, next', free_P')
    BY <1>2
  <2>2. QED
    BY <1>2, <2>1, Rewalked
<1>4. free_P \in Nodes /\ rw_P \in Nodes \cup {NULL}
  BY <1>1, HeadIn
<1>5. 1 \in 1 .. Len(Unused) /\ Unused[1] = free_P
  <2>1. Unused # <<>> /\ Unused[1] = free_P
    BY <1>1 DEF Chain
  <2>2. QED
    BY <2>1, UsedFacts, EmptySeq
<1>6. \A k \in 1 .. Len(Used) : Used[k] # free_P
  BY <1>1, <1>5 DEF Placed
<1>7. Content(u, buf') = <<val>> \o Content(Used, buf)
  <2>1. val \in Held
    BY DEF Held
  <2>2. QED
    BY <1>4, <1>6, <2>1, UsedFacts, ContentWritten
<1>8. Len(Used) < N
  BY <1>5, UsedFacts
<1>9. buf' \in [Nodes -> Held] /\ next' \in Links
  BY <1>4, UsedFacts DEF Links, Held
<1>10. QED
  BY <1>3, <1>7, <1>8, <1>9

\* The k-th used node goes to the free list and takes its value away.
LEMMA Released ==
  ASSUME ListInv, NEW k \in 1 .. Len(Used), Release(k)
  PROVE  /\ next' \in Links
         /\ Chain(Used', next', rw_P') /\ Chain(Unused', next', free_P')
         /\ Placed(Used', Unused')
         /\ Content(Used', buf') = Store!RemoveAt(Content(Used, buf), k)
<1> DEFINE u == Store!RemoveAt(Used, k)
           v == <<Used[k]>> \o Unused
           links2 == Cut(next, Used, k, free_P)
           h2 == IF k = 1 THEN next[Used[1]] ELSE rw_P
<1>1. Chain(Used, next, rw_P) /\ Chain(Unused, next, free_P) /\ Placed(Used, Unused)
  BY DEF ListInv
<1>2. next' = links2 /\ rw_P' = h2 /\ free_P' = Used[k] /\ buf' = buf
  BY DEF Release, Unlinked, Cut
<1>3. Chain(u, links2, h2) /\ Chain(v, links2, Used[k]) /\ Placed(u, v)
  BY <1>1, UsedFacts, DeleteWalks
<1>4. free_P \in Nodes \cup {NULL} /\ Distinct(Used)
  BY <1>1, HeadIn DEF Placed
<1>5. links2 \in Links
  BY <1>4, UsedFacts, CutLinks
<1>6. Content(u, buf) = Store!RemoveAt(Content(Used, buf), k)
  BY UsedFacts, ContentRemoved
<1> HIDE DEF u, v, links2, h2
<1>7. Chain(u, next', rw_P') /\ Chain(v, next', free_P')
  BY <1>2, <1>3
<1>8. /\ Used' = u
      /\ Chain(Used', next', rw_P') /\ Chain(Unused', next', free_P')
      /\ Placed(Used', Unused')
  BY <1>3, <1>7, Rewalked
<1>9. QED
  BY <1>2, <1>5, <1>6, <1>8

\* Nothing moves.
LEMMA Unmoved ==
  ASSUME ListInv, UNCHANGED nodeVars
  PROVE  /\ Used' = Used /\ Unused' = Unused
         /\ Content(Used', buf') = Content(Used, buf)
         /\ Chain(Used', next', rw_P') /\ Chain(Unused', next', free_P')
         /\ Placed(Used', Unused')
<1>1. buf' = buf /\ next' = next /\ rw_P' = rw_P /\ free_P' = free_P
  BY DEF nodeVars
<1>2. Used' = Used /\ Unused' = Unused
  BY <1>1 DEF Used, Unused
<1>3. QED
  BY <1>1, <1>2 DEF ListInv

\* The two searches look at the same places of the list and of the store.
LEMMA Searches ==
  ASSUME ListInv, NEW cond
  PROVE  /\ Accepted(cond) \subseteq 1 .. Len(Used)
         /\ Store!Accepted(cond) = Accepted(cond)
         /\ Accepted(cond) # {} =>
              /\ FirstMatch(cond) \in Accepted(cond) /\ LastMatch(cond) \in Accepted(cond)
              /\ Store!Newest(cond) = FirstMatch(cond)
              /\ Store!Oldest(cond) = LastMatch(cond)
<1>1. Accepted(cond) \subseteq 1 .. Len(Used)
  BY UsedFacts DEF Accepted
<1>2. Store!Accepted(cond) = Accepted(cond)
  <2>1. Store!Accepted(cond) = {i \in DOMAIN Content(Used, buf) : Content(Used, buf)[i] \in cond}
    BY DEF Store!Accepted, Content
  <2>2. \A i \in 1 .. Len(Used) : Content(Used, buf)[i] = buf[Used[i]]
    BY UsedFacts
  <2>3. QED
    BY <2>1, <2>2, UsedFacts DEF Accepted
<1>3. ASSUME Accepted(cond) # {}
      PROVE  /\ FirstMatch(cond) \in Accepted(cond) /\ LastMatch(cond) \in Accepted(cond)
             /\ Store!Newest(cond) = FirstMatch(cond)
             /\ Store!Oldest(cond) = LastMatch(cond)
  <2> DEFINE A == Accepted(cond)
             B == Store!Accepted(cond)
  <2>1. A \subseteq Nat /\ A \subseteq 0 .. Len(Used) /\ B = A /\ A # {}
    BY <1>1, <1>2, <1>3, UsedFacts
  <2> HIDE DEF A, B
  <2>2. (\E i \in A : \A j \in A : i <= j) /\ (\E i \in A : \A j \in A : j <= i)
    BY <2>1, LeastOf, GreatestOf, UsedFacts
  <2>3. /\ FirstMatch(cond) \in A /\ \A j \in A : FirstMatch(cond) <= j
        /\ LastMatch(cond) \in A /\ \A j \in A : j <= LastMatch(cond)
    BY <2>2 DEF FirstMatch, LastMatch, A
  <2>4. /\ Store!Newest(cond) \in B /\ \A j \in B : Store!Newest(cond) <= j
        /\ Store!Oldest(cond) \in B /\ \A j \in B : j <= Store!Oldest(cond)
    <3>1. (\E i \in B : \A j \in B : i <= j) /\ (\E i \in B : \A j \in B : j <= i)
      BY <2>1, <2>2
    <3>2. QED
      BY <3>1 DEF Store!Newest, Store!Oldest, B
  <2>5. Store!Newest(cond) = FirstMatch(cond) /\ Store!Oldest(cond) = LastMatch(cond)
    <3>1. \A i, j \in A : i <= j /\ j <= i => i = j
      BY <2>1
    <3>2. Store!Newest(cond) \in A /\ Store!Oldest(cond) \in A
      BY <2>1, <2>4
    <3>3. /\ FirstMatch(cond) <= Store!Newest(cond) /\ Store!Newest(cond) <= FirstMatch(cond)
          /\ LastMatch(cond) <= Store!Oldest(cond) /\ Store!Oldest(cond) <= LastMatch(cond)
      BY <2>1, <2>3, <2>4, <3>2
    <3>4. QED
      BY <2>3, <3>1, <3>2, <3>3
  <2>6. QED
    BY <2>3, <2>5 DEF A
<1>4. QED
  BY <1>1, <1>2, <1>3

\* The type and the shape of the next state.
LEMMA InvAfter ==
  ASSUME buf' \in [Nodes -> Held], next' \in Links, held' \in [Threads -> Nodes \cup {NULL}],
         answer' \in {"init", "write", "match", "read", "pointer"}
                     \X ({"0", "-1", "-2", "NULL", "crash", Unset} \cup Elements),
         Chain(Used', next', rw_P'), Chain(Unused', next', free_P'),
         Placed(Used', Unused')
  PROVE  ListInv'
<1>1. {rw_P', free_P'} \subseteq Nodes \cup {NULL}
  <2>1. rw_P' \in Nodes \cup {NULL} /\ free_P' \in Nodes \cup {NULL}
    BY HeadIn
  <2>2. QED
    BY <2>1
<1>2. ListTypeOK'
  BY <1>1 DEF ListTypeOK, Held, Links
<1>3. QED
  BY <1>2 DEF ListInv, Chain, Placed, Distinct

\* buf_write_data.
LEMMA WriteStep ==
  ASSUME ListInv, NEW val \in Elements, WriteData(val)
  PROVE  ListInv' /\ Store!Write(val)
<1>1. /\ held \in [Threads -> Nodes \cup {NULL}] /\ held' = held
      /\ Placed(Used, Unused) /\ Chain(Unused, next, free_P)
  BY DEF WriteData, ListInv, ListTypeOK
<1>2. CASE free_P # NULL
  <2>1. /\ buf' = [buf EXCEPT ![free_P] = val]
        /\ next' = [next EXCEPT ![free_P] = rw_P]
        /\ rw_P' = free_P /\ free_P' = next[free_P]
        /\ answer' = <<"write", "0">>
    BY <1>2 DEF WriteData
  <2>2. /\ buf' \in [Nodes -> Held] /\ next' \in Links /\ Len(Used) < N
        /\ Chain(Used', next', rw_P') /\ Chain(Unused', next', free_P')
        /\ Placed(Used', Unused')
        /\ Content(Used', buf') = <<val>> \o Content(Used, buf)
    BY <1>2, <2>1, AfterWrite
  <2>3. ListInv'
    BY <1>1, <2>1, <2>2, InvAfter
  <2>4. Len(Content(Used, buf)) < N
    BY <2>2, UsedFacts
  <2>5. Store!Write(val)
    BY <2>1, <2>2, <2>4 DEF Store!Write, Content
  <2>6. QED
    BY <2>3, <2>5
<1>3. CASE free_P = NULL
  <2>1. UNCHANGED nodeVars /\ answer' = <<"write", "-1">>
    BY <1>3 DEF WriteData
  <2>2. buf' = buf /\ next' = next
    BY <2>1 DEF nodeVars
  <2>3. ListInv'
    BY <1>1, <2>1, <2>2, Unmoved, UsedFacts, InvAfter
  <2>4. Content(Used', buf') = Content(Used, buf)
    BY <2>1, Unmoved
  <2>5. ~(Len(Content(Used, buf)) < N)
    <3>1. Unused = <<>>
      BY <1>1, <1>3 DEF Chain
    <3>2. Len(Unused) = 0
      BY <3>1
    <3>3. QED
      BY <3>2, UsedFacts
  <2>6. Store!Write(val)
    BY <2>1, <2>4, <2>5 DEF Store!Write, Content
  <2>7. QED
    BY <2>3, <2>6
<1>4. QED
  BY <1>2, <1>3

\* condition_delete_list_data.
LEMMA DeleteStep ==
  ASSUME ListInv, NEW cond \in Conditions, ConditionDelete(cond)
  PROVE  ListInv' /\ Store!DeleteMatch(cond)
<1>1. held \in [Threads -> Nodes \cup {NULL}] /\ held' = held
  BY DEF ConditionDelete, ListInv, ListTypeOK
<1>2. CASE Accepted(cond) # {}
  <2>1. Release(FirstMatch(cond)) /\ answer' = <<"match", "0">>
    BY <1>2 DEF ConditionDelete
  <2>2. FirstMatch(cond) \in 1 .. Len(Used)
    BY <1>2, Searches
  <2>3. /\ next' \in Links
        /\ Chain(Used', next', rw_P') /\ Chain(Unused', next', free_P')
        /\ Placed(Used', Unused')
        /\ Content(Used', buf') = Store!RemoveAt(Content(Used, buf), FirstMatch(cond))
    BY <2>1, <2>2, Released
  <2>4. buf' = buf
    BY <2>1 DEF Release
  <2>5. ListInv'
    BY <1>1, <2>1, <2>3, <2>4, UsedFacts, InvAfter
  <2>6. /\ Store!Accepted(cond) # {}
        /\ Content(Used', buf') = Store!RemoveAt(Content(Used, buf), Store!Newest(cond))
    BY <1>2, <2>3, Searches
  <2>7. Store!DeleteMatch(cond)
    BY <2>1, <2>6 DEF Store!DeleteMatch, Content
  <2>8. QED
    BY <2>5, <2>7
<1>3. CASE Accepted(cond) = {}
  <2>1. UNCHANGED nodeVars /\ answer' = <<"match", "-2">>
    BY <1>3 DEF ConditionDelete
  <2>2. buf' = buf /\ next' = next
    BY <2>1 DEF nodeVars
  <2>3. ListInv'
    BY <1>1, <2>1, <2>2, Unmoved, UsedFacts, InvAfter
  <2>4. Content(Used', buf') = Content(Used, buf) /\ Store!Accepted(cond) = {}
    BY <1>3, <2>1, Unmoved, Searches
  <2>5. Store!DeleteMatch(cond)
    BY <2>1, <2>4 DEF Store!DeleteMatch, Content
  <2>6. QED
    BY <2>3, <2>5
<1>4. QED
  BY <1>2, <1>3

\* buf_read_data.
LEMMA ReadStep ==
  ASSUME ListInv, NEW t \in Threads, NEW cond \in Conditions, ReadData(t, cond)
  PROVE  ListInv' /\ Store!Read(cond)
<1> DEFINE node == IF Accepted(cond) # {} THEN Used[LastMatch(cond)] ELSE NULL
           found == IF node = NULL THEN "NULL" ELSE buf[node]
<1>1. /\ held' = [held EXCEPT ![t] = node] /\ answer' = <<"read", found>>
      /\ UNCHANGED nodeVars
  BY DEF ReadData
<1>2. buf' = buf /\ next' = next
  BY <1>1 DEF nodeVars
<1>3. /\ node \in Nodes \cup {NULL} /\ found \in {"NULL"} \cup Held
      /\ found = IF Store!Accepted(cond) # {}
                 THEN Content(Used, buf)[Store!Oldest(cond)] ELSE "NULL"
  <2>1. CASE Accepted(cond) # {}
    <3> DEFINE last == LastMatch(cond)
    <3>1. last \in 1 .. Len(Used) /\ Store!Accepted(cond) # {} /\ Store!Oldest(cond) = last
      BY <2>1, Searches
    <3> HIDE DEF last
    <3>2. /\ Used[last] \in Nodes /\ Used[last] # NULL
          /\ buf[Used[last]] \in Held /\ Content(Used, buf)[last] = buf[Used[last]]
      BY <3>1, UsedFacts DEF Nodes, NULL
    <3>3. node = Used[last] /\ found = buf[Used[last]]
      BY <2>1, <3>2 DEF last
    <3> HIDE DEF node, found
    <3>4. QED
      BY <3>1, <3>2, <3>3
  <2>2. CASE Accepted(cond) = {}
    BY <2>2, Searches
  <2>3. QED
    BY <2>1, <2>2
<1> HIDE DEF node, found
<1>4. ListInv'
  <2>1. held' \in [Threads -> Nodes \cup {NULL}]
    BY <1>1, <1>3 DEF ListInv, ListTypeOK
  <2>2. answer' \in {"init", "write", "match", "read", "pointer"}
                    \X ({"0", "-1", "-2", "NULL", "crash", Unset} \cup Elements)
    BY <1>1, <1>3 DEF Held
  <2>3. QED
    BY <1>1, <1>2, <2>1, <2>2, Unmoved, UsedFacts, InvAfter
<1>5. Store!Read(cond)
  <2>1. Content(Used', buf') = Content(Used, buf)
    BY <1>1, Unmoved
  <2>2. QED
    BY <1>1, <1>3, <2>1 DEF Store!Read, Content
<1>6. QED
  BY <1>4, <1>5

\* delete_list_data.
LEMMA PointerStep ==
  ASSUME ListInv, NEW t \in Threads, DeletePointer(t)
  PROVE  ListInv' /\ (Store!DeletePointer \/ Store!Crash)
<1>1. held \in [Threads -> Nodes \cup {NULL}] /\ held' = held
  BY DEF DeletePointer, ListInv, ListTypeOK
<1>2. ASSUME UNCHANGED nodeVars, NEW code \in {"-1", "crash"}, answer' = <<"pointer", code>>
      PROVE  ListInv' /\ Content(Used', buf') = Content(Used, buf)
  <2>1. buf' = buf /\ next' = next
    BY <1>2 DEF nodeVars
  <2>2. QED
    BY <1>1, <1>2, <2>1, Unmoved, UsedFacts, InvAfter
<1>3. CASE held[t] = NULL \/ rw_P = NULL
  <2>1. UNCHANGED nodeVars /\ answer' = <<"pointer", "-1">>
    BY <1>3 DEF DeletePointer
  <2>2. ListInv' /\ Content(Used', buf') = Content(Used, buf)
    BY <1>2, <2>1
  <2>3. Store!DeletePointer
    BY <2>1, <2>2 DEF Store!DeletePointer, Content
  <2>4. QED
    BY <2>2, <2>3
<1>4. CASE ~(held[t] = NULL \/ rw_P = NULL) /\ Missing(held[t])
  <2>1. UNCHANGED nodeVars /\ answer' = <<"pointer", "crash">>
    BY <1>4 DEF DeletePointer
  <2>2. ListInv' /\ Content(Used', buf') = Content(Used, buf)
    BY <1>2, <2>1
  <2>3. Store!Crash
    BY <2>1, <2>2 DEF Store!Crash, Content
  <2>4. QED
    BY <2>2, <2>3
<1>5. CASE ~(held[t] = NULL \/ rw_P = NULL) /\ ~Missing(held[t])
  <2> DEFINE place == CHOOSE k \in DOMAIN Used : Used[k] = held[t]
  <2>1. Release(place) /\ answer' = <<"pointer", "0">>
    BY <1>5 DEF DeletePointer
  <2>2. \E k \in DOMAIN Used : Used[k] = held[t]
    BY <1>5 DEF Missing
  <2>3. place \in 1 .. Len(Used)
    BY <2>2, UsedFacts
  <2> HIDE DEF place
  <2>4. /\ next' \in Links
        /\ Chain(Used', next', rw_P') /\ Chain(Unused', next', free_P')
        /\ Placed(Used', Unused')
        /\ Content(Used', buf') = Store!RemoveAt(Content(Used, buf), place)
    BY <2>1, <2>3, Released
  <2>5. buf' = buf
    BY <2>1 DEF Release
  <2>6. ListInv'
    BY <1>1, <2>1, <2>4, <2>5, UsedFacts, InvAfter
  <2>7. place \in DOMAIN Content(Used, buf)
    BY <2>3, UsedFacts
  <2>8. Store!DeletePointer
    BY <2>1, <2>4, <2>7 DEF Store!DeletePointer, Content
  <2>9. QED
    BY <2>6, <2>8
<1>6. QED
  BY <1>3, <1>4, <1>5

-----------------------------------------------------------------------------

\* Every step keeps the invariant and is a step of the store.
LEMMA ListStep ==
  ASSUME ListInv, [ListNext]_listVars
  PROVE  ListInv' /\ (Store!Next \/ UNCHANGED <<Content(Used, buf), answer>>)
<1>1. CASE ListNext
  <2>1. ASSUME NEW val \in Elements, WriteData(val) PROVE ListInv' /\ Store!Next
    <3>1. ListInv' /\ Store!Write(val)
      BY <2>1, WriteStep
    <3>2. QED
      BY <3>1, Zenon DEF Store!Next
  <2>2. ASSUME NEW cond \in Conditions, ConditionDelete(cond) PROVE ListInv' /\ Store!Next
    <3>1. ListInv' /\ Store!DeleteMatch(cond)
      BY <2>2, DeleteStep
    <3>2. QED
      BY <3>1, Zenon DEF Store!Next
  <2>3. ASSUME NEW t \in Threads, NEW cond \in Conditions, ReadData(t, cond)
        PROVE  ListInv' /\ Store!Next
    <3>1. ListInv' /\ Store!Read(cond)
      BY <2>3, ReadStep
    <3>2. QED
      BY <3>1, Zenon DEF Store!Next
  <2>4. ASSUME NEW t \in Threads, DeletePointer(t) PROVE ListInv' /\ Store!Next
    <3>1. ListInv' /\ (Store!DeletePointer \/ Store!Crash)
      BY <2>4, PointerStep
    <3>2. QED
      BY <3>1, Zenon DEF Store!Next
  <2>5. QED
    BY <1>1, <2>1, <2>2, <2>3, <2>4, Zenon DEF ListNext
<1>2. CASE UNCHANGED listVars
  <2>1. UNCHANGED nodeVars /\ held' = held /\ answer' = answer
    BY <1>2 DEF listVars
  <2>2. buf' = buf /\ next' = next
    BY <2>1 DEF nodeVars
  <2>3. ListInv'
    <3>1. /\ held \in [Threads -> Nodes \cup {NULL}]
          /\ answer \in {"init", "write", "match", "read", "pointer"}
                        \X ({"0", "-1", "-2", "NULL", "crash", Unset} \cup Elements)
      BY DEF ListInv, ListTypeOK
    <3>2. QED
      BY <2>1, <2>2, <3>1, Unmoved, UsedFacts, InvAfter
  <2>4. Content(Used', buf') = Content(Used, buf)
    BY <2>1, Unmoved
  <2>5. QED
    BY <2>1, <2>3, <2>4
<1>3. QED
  BY <1>1, <1>2

LEMMA ListReaches == ListSpec => []ListInv
<1>1. ListInit => ListInv
  BY ListStart
<1>2. ListInv /\ [ListNext]_listVars => ListInv'
  BY ListStep
<1>3. QED
  BY <1>1, <1>2, PTL DEF ListSpec

\* No node of C_LIST_T is lost, shared or looped by any sequence of writes and
\* deletes, for every number of nodes.
THEOREM NodesStayPartitioned == ListSpec => []NodesPartitioned
<1>1. ListInv => NodesPartitioned
  <2> SUFFICES ASSUME ListInv PROVE NodesPartitioned
    OBVIOUS
  <2> DEFINE u == Used
             v == Unused
             both == u \o v
  <2>1. /\ u \in Seq(Nodes) /\ v \in Seq(Nodes) /\ Placed(u, v)
        /\ Len(u) \in Nat /\ Len(v) \in Nat /\ Len(u) + Len(v) = N
    BY UsedFacts DEF ListInv
  <2> HIDE DEF u, v
  <2>2. /\ Len(both) = N /\ DOMAIN both = 1 .. N
        /\ \A i \in 1 .. N : both[i] = IF i <= Len(u) THEN u[i] ELSE v[i - Len(u)]
    BY <2>1, ConcatProperties
  <2> HIDE DEF both
  <2>3. ASSUME NEW n \in Nodes PROVE \E k \in DOMAIN both : both[k] = n
    <3>1. CASE \E i \in 1 .. Len(u) : u[i] = n
      BY <2>1, <2>2, <3>1
    <3>2. CASE \E j \in 1 .. Len(v) : v[j] = n
      <4>1. PICK j \in 1 .. Len(v) : v[j] = n
        BY <3>2
      <4>2. /\ j + Len(u) \in 1 .. N /\ ~(j + Len(u) <= Len(u))
            /\ (j + Len(u)) - Len(u) = j
        BY <2>1
      <4>3. QED
        BY <2>2, <4>1, <4>2
    <3>3. QED
      BY <2>1, <3>1, <3>2 DEF Placed
  <2>4. QED
    BY <2>2, <2>3 DEF NodesPartitioned, ListInv, both, u, v
<1>2. QED
  BY ListReaches, <1>1, PTL

\* The linked lists do what the bounded store promises, with its return codes:
\* every operation is one step of the store, or of a crash that changes nothing.
THEOREM ListImplementsStore == ListSpec => ImplementsStore
<1>1. ListInit => Store!Init
  <2> SUFFICES ASSUME ListInit PROVE Store!Init
    OBVIOUS
  <2>1. Used = <<>> /\ answer = <<"init", "0">>
    BY ListStart DEF ListInit
  <2>2. [k \in DOMAIN Used |-> buf[Used[k]]] = <<>>
    BY <2>1
  <2>3. QED
    BY <2>1, <2>2 DEF Store!Init
<1>2. ListInv /\ [ListNext]_listVars =>
        [Store!Next]_<<[k \in DOMAIN Used |-> buf[Used[k]]], answer>>
  BY ListStep DEF Content
<1>3. QED
  BY <1>1, <1>2, ListReaches, PTL DEF ImplementsStore, Store!Spec, ListSpec

-----------------------------------------------------------------------------
(* Reflect.  The bits of a number.                                         *)

\* The first n + 1 powers.
PowerUpTo(n, f) == f = [i \in 0 .. n |-> IF i = 0 THEN 1 ELSE 2 * f[i - 1]]

LEMMA PowerExists ==
  ASSUME NEW n \in Nat
  PROVE  \E f : PowerUpTo(n, f)
<1> DEFINE Bad == {k \in Nat : ~ \E f : PowerUpTo(k, f)}
<1> SUFFICES ASSUME Bad # {} PROVE FALSE
  OBVIOUS
<1>1. PICK k \in Bad : \A j \in Bad : k <= j
  BY LeastOf
<1>2. CASE k = 0
  <2> DEFINE f == [i \in 0 .. 0 |-> 1]
  <2>1. f = [i \in 0 .. 0 |-> IF i = 0 THEN 1 ELSE 2 * f[i - 1]]
    OBVIOUS
  <2>2. PowerUpTo(0, f)
    BY <2>1 DEF PowerUpTo
  <2>3. QED
    BY <1>2, <2>2
<1>3. CASE k # 0
  <2>1. k - 1 \in Nat /\ k - 1 \notin Bad
    BY <1>1, <1>3
  <2>2. PICK f : PowerUpTo(k - 1, f)
    BY <2>1
  <2> DEFINE g == [i \in 0 .. k |-> IF i < k THEN f[i] ELSE 2 * f[k - 1]]
  <2>3. ASSUME NEW i \in 0 .. k PROVE g[i] = IF i = 0 THEN 1 ELSE 2 * g[i - 1]
    <3>1. \A j \in 0 .. k - 1 : f[j] = IF j = 0 THEN 1 ELSE 2 * f[j - 1]
      BY <2>2 DEF PowerUpTo
    <3>2. CASE i = 0
      BY <1>3, <3>1, <3>2
    <3>3. CASE i # 0 /\ i < k
      <4>1. i - 1 \in 0 .. k /\ i - 1 < k /\ i \in 0 .. k - 1
        BY <3>3
      <4>2. g[i] = f[i] /\ g[i - 1] = f[i - 1]
        BY <3>3, <4>1
      <4>3. QED
        BY <3>1, <3>3, <4>1, <4>2
    <3>4. CASE i = k
      <4>1. i - 1 \in 0 .. k /\ i - 1 < k
        BY <1>3, <3>4
      <4>2. g[i] = 2 * f[i - 1] /\ g[i - 1] = f[i - 1]
        BY <3>4, <4>1
      <4>3. QED
        BY <1>3, <3>4, <4>2
    <3>5. QED
      BY <3>2, <3>3, <3>4
  <2>4. g = [i \in 0 .. k |-> IF i = 0 THEN 1 ELSE 2 * g[i - 1]]
    <3>1. g = [i \in 0 .. k |-> g[i]]
      OBVIOUS
    <3> HIDE DEF g
    <3>2. QED
      BY <2>3, <3>1
  <2>5. PowerUpTo(k, g)
    BY <2>4 DEF PowerUpTo
  <2>6. QED
    BY <2>5
<1>4. QED
  BY <1>2, <1>3

LEMMA PowerUnique ==
  ASSUME NEW n \in Nat, NEW f, PowerUpTo(n, f), NEW m \in Nat, NEW g, PowerUpTo(m, g), n <= m
  PROVE  \A i \in 0 .. n : f[i] = g[i]
<1> DEFINE Bad == {k \in 0 .. n : f[k] # g[k]}
<1> SUFFICES ASSUME Bad # {} PROVE FALSE
  OBVIOUS
<1>1. PICK k \in Bad : \A j \in Bad : k <= j
  <2>1. Bad \subseteq Nat
    OBVIOUS
  <2>2. QED
    BY <2>1, LeastOf
<1>2. /\ \A i \in 0 .. n : f[i] = IF i = 0 THEN 1 ELSE 2 * f[i - 1]
      /\ \A i \in 0 .. m : g[i] = IF i = 0 THEN 1 ELSE 2 * g[i - 1]
  BY DEF PowerUpTo
<1>3. k # 0
  BY <1>2
<1>4. k - 1 \in 0 .. n /\ k - 1 \notin Bad
  BY <1>1, <1>3
<1>5. QED
  BY <1>2, <1>3, <1>4

LEMMA PowerIs == Power[0] = 1 /\ \A n \in Nat : Power[n + 1] = 2 * Power[n]
<1> DEFINE F(n) == CHOOSE f : PowerUpTo(n, f)
           P == [n \in Nat |-> F(n)[n]]
<1>1. ASSUME NEW n \in Nat PROVE PowerUpTo(n, F(n))
  BY PowerExists
<1> HIDE DEF F
<1>2. ASSUME NEW n \in Nat PROVE P[n] = IF n = 0 THEN 1 ELSE 2 * P[n - 1]
  <2>1. \A i \in 0 .. n : F(n)[i] = IF i = 0 THEN 1 ELSE 2 * F(n)[i - 1]
    <3>1. F(n) = [i \in 0 .. n |-> IF i = 0 THEN 1 ELSE 2 * F(n)[i - 1]]
      BY <1>1 DEF PowerUpTo
    <3>2. QED
      BY <3>1
  <2>2. CASE n = 0
    BY <2>1, <2>2
  <2>3. CASE n # 0
    <3>1. n - 1 \in Nat /\ n - 1 <= n /\ n - 1 \in 0 .. n - 1
      BY <2>3
    <3>2. F(n - 1)[n - 1] = F(n)[n - 1]
      BY <1>1, <3>1, PowerUnique
    <3>3. QED
      BY <2>1, <2>3, <3>1, <3>2
  <2>4. QED
    BY <2>2, <2>3
<1>3. P = [n \in Nat |-> IF n = 0 THEN 1 ELSE 2 * P[n - 1]]
  <2>1. P = [n \in Nat |-> P[n]]
    OBVIOUS
  <2> HIDE DEF P
  <2>2. QED
    BY <1>2, <2>1
<1> HIDE DEF P
<1>4. Power = [n \in Nat |-> IF n = 0 THEN 1 ELSE 2 * Power[n - 1]]
  BY <1>3 DEF Power
<1>5. ASSUME NEW n \in Nat PROVE Power[n] = IF n = 0 THEN 1 ELSE 2 * Power[n - 1]
  BY <1>4
<1>6. ASSUME NEW n \in Nat PROVE Power[n + 1] = 2 * Power[n]
  <2>1. n + 1 \in Nat /\ n + 1 # 0 /\ (n + 1) - 1 = n
    OBVIOUS
  <2>2. QED
    BY <1>5, <2>1
<1>7. QED
  BY <1>5, <1>6

LEMMA PowerNat == \A n \in Nat : Power[n] \in Nat \ {0}
<1> DEFINE Bad == {n \in Nat : Power[n] \notin Nat \ {0}}
<1> SUFFICES ASSUME Bad # {} PROVE FALSE
  OBVIOUS
<1>1. PICK k \in Bad : \A j \in Bad : k <= j
  BY LeastOf
<1>2. k # 0
  BY PowerIs
<1>3. k - 1 \in Nat /\ k - 1 \notin Bad /\ (k - 1) + 1 = k
  BY <1>1, <1>2
<1>4. Power[k] = 2 * Power[k - 1] /\ Power[k - 1] \in Nat \ {0}
  BY <1>3, PowerIs
<1>5. QED
  BY <1>4

LEMMA PowerMono ==
  ASSUME NEW a \in Nat, NEW b \in Nat, a <= b
  PROVE  Power[a] <= Power[b]
<1> DEFINE Bad == {n \in Nat : a <= n /\ ~(Power[a] <= Power[n])}
<1> SUFFICES ASSUME Bad # {} PROVE FALSE
  OBVIOUS
<1>1. PICK k \in Bad : \A j \in Bad : k <= j
  BY LeastOf
<1>2. k # a
  BY PowerNat
<1>3. k - 1 \in Nat /\ a <= k - 1 /\ k - 1 \notin Bad /\ (k - 1) + 1 = k
  BY <1>1, <1>2
<1>4. Power[k] = 2 * Power[k - 1] /\ Power[k - 1] \in Nat /\ Power[a] <= Power[k - 1]
  BY <1>3, PowerIs, PowerNat
<1>5. QED
  BY <1>4, PowerNat

\* The i-th bit of a number.
Bit(n, i) == (n \div Power[i]) % 2

LEMMA HalfOf ==
  ASSUME NEW n \in Int, NEW d \in Nat \ {0}
  PROVE  n \div (2 * d) = (n \div 2) \div d
OBVIOUS

LEMMA LowBit ==
  ASSUME NEW n \in Int
  PROVE  Bit(n, 0) = n % 2
<1>1. n \div 1 = n
  OBVIOUS
<1>2. QED
  BY <1>1, PowerIs DEF Bit

LEMMA HalfBit ==
  ASSUME NEW n \in Int, NEW i \in Nat
  PROVE  Bit(n, i + 1) = Bit(n \div 2, i)
<1>1. Power[i + 1] = 2 * Power[i] /\ Power[i] \in Nat \ {0}
  BY PowerIs, PowerNat
<1>2. n \div (2 * Power[i]) = (n \div 2) \div Power[i]
  BY <1>1, HalfOf
<1>3. QED
  BY <1>1, <1>2 DEF Bit

LEMMA BitIn ==
  ASSUME NEW n \in Int, NEW i \in Nat
  PROVE  Bit(n, i) \in {0, 1}
<1>1. \A p \in Nat \ {0} : (n \div p) \in Int
  OBVIOUS
<1>2. \A x \in Int : x % 2 \in {0, 1}
  OBVIOUS
<1>3. QED
  BY <1>1, <1>2, PowerNat DEF Bit

\* Half of a number of W + 1 bits has W.
LEMMA HalfBelow ==
  ASSUME NEW W \in Nat, NEW n \in 0 .. Power[W + 1] - 1
  PROVE  n \in Nat /\ n \div 2 \in 0 .. Power[W] - 1
<1>1. Power[W + 1] = 2 * Power[W] /\ Power[W] \in Nat
  BY PowerIs, PowerNat
<1>2. \A p \in Nat : \A x \in 0 .. 2 * p - 1 : x \in Nat /\ x \div 2 \in 0 .. p - 1
  OBVIOUS
<1>3. QED
  BY <1>1, <1>2

\* A number has its bits to itself.
LEMMA BitsDiffer ==
  \A W \in Nat : \A n, m \in 0 .. Power[W] - 1 :
    (\A i \in 0 .. W - 1 : Bit(n, i) = Bit(m, i)) => n = m
<1> DEFINE Same(W, n, m) == \A i \in 0 .. W - 1 : Bit(n, i) = Bit(m, i)
           Bad == {W \in Nat : \E n, m \in 0 .. Power[W] - 1 : Same(W, n, m) /\ n # m}
<1> SUFFICES ASSUME Bad # {} PROVE FALSE
  OBVIOUS
<1>1. PICK k \in Bad : \A j \in Bad : k <= j
  BY LeastOf
<1>2. PICK n \in 0 .. Power[k] - 1, m \in 0 .. Power[k] - 1 : Same(k, n, m) /\ n # m
  BY <1>1
<1>3. k # 0
  BY <1>2, PowerIs
<1> DEFINE W == k - 1
<1>4. W \in Nat /\ k = W + 1 /\ W \notin Bad
  BY <1>1, <1>3
<1>5. /\ n \in Nat /\ n \div 2 \in 0 .. Power[W] - 1
      /\ m \in Nat /\ m \div 2 \in 0 .. Power[W] - 1
  BY <1>2, <1>4, HalfBelow
<1>6. ASSUME NEW i \in 0 .. W - 1 PROVE Bit(n \div 2, i) = Bit(m \div 2, i)
  <2>1. i \in Nat /\ i + 1 \in 0 .. k - 1
    BY <1>4
  <2>2. Bit(n, i + 1) = Bit(m, i + 1)
    BY <1>2, <2>1
  <2>3. QED
    BY <1>5, <2>1, <2>2, HalfBit
<1>7. n \div 2 = m \div 2
  BY <1>4, <1>5, <1>6
<1>8. n % 2 = m % 2
  <2>1. 0 \in 0 .. k - 1
    BY <1>4
  <2>2. QED
    BY <1>2, <1>5, <2>1, LowBit
<1>9. \A x, y \in Nat : x \div 2 = y \div 2 /\ x % 2 = y % 2 => x = y
  OBVIOUS
<1>10. QED
  BY <1>2, <1>5, <1>7, <1>8, <1>9

\* A number below 2 to the s has no bits from s on.
LEMMA NoBitsAbove ==
  ASSUME NEW s \in Nat, NEW n \in 0 .. Power[s] - 1, NEW i \in Nat, s <= i
  PROVE  Bit(n, i) = 0
<1>1. Power[s] <= Power[i] /\ Power[s] \in Nat /\ Power[i] \in Nat \ {0}
  BY PowerMono, PowerNat
<1>2. \A p \in Nat \ {0} : \A x \in 0 .. p - 1 : (x \div p) % 2 = 0
  OBVIOUS
<1>3. n \in 0 .. Power[i] - 1
  BY <1>1
<1>4. QED
  BY <1>1, <1>2, <1>3 DEF Bit

\* A number of W bits without any from s on is below 2 to the s.
LEMMA BelowByBits ==
  \A W \in Nat : \A s \in 0 .. W : \A n \in 0 .. Power[W] - 1 :
    (\A i \in s .. W - 1 : Bit(n, i) = 0) => n < Power[s]
<1> DEFINE Clear(W, s, n) == \A i \in s .. W - 1 : Bit(n, i) = 0
           Bad == {W \in Nat : \E s \in 0 .. W : \E n \in 0 .. Power[W] - 1 :
                                 Clear(W, s, n) /\ ~(n < Power[s])}
<1> SUFFICES ASSUME Bad # {} PROVE FALSE
  OBVIOUS
<1>1. PICK k \in Bad : \A j \in Bad : k <= j
  BY LeastOf
<1>2. PICK s \in 0 .. k, n \in 0 .. Power[k] - 1 : Clear(k, s, n) /\ ~(n < Power[s])
  BY <1>1
<1>3. Power[k] \in Nat /\ s # k
  BY <1>2, PowerNat
<1> DEFINE W == k - 1
           t == IF s = 0 THEN 0 ELSE s - 1
<1>4. W \in Nat /\ k = W + 1 /\ W \notin Bad /\ t \in 0 .. W
  BY <1>1, <1>3
<1>5. n \in Nat /\ n \div 2 \in 0 .. Power[W] - 1
  BY <1>2, <1>4, HalfBelow
<1>6. ASSUME NEW i \in t .. W - 1 PROVE Bit(n \div 2, i) = 0
  <2>1. i \in Nat /\ i + 1 \in s .. k - 1
    BY <1>4
  <2>2. Bit(n, i + 1) = 0
    BY <1>2, <2>1
  <2>3. QED
    BY <1>5, <2>1, <2>2, HalfBit
<1>7. n \div 2 < Power[t]
  BY <1>4, <1>5, <1>6
<1>8. CASE s = 0
  <2>1. n \div 2 < 1 /\ Power[s] = 1
    BY <1>7, <1>8, PowerIs
  <2>2. n % 2 = 0
    <3>1. 0 \in s .. k - 1
      BY <1>4, <1>8
    <3>2. QED
      BY <1>2, <1>5, <3>1, LowBit
  <2>3. \A x \in Nat : x \div 2 < 1 /\ x % 2 = 0 => x < 1
    OBVIOUS
  <2>4. QED
    BY <1>2, <1>5, <2>1, <2>2, <2>3
<1>9. CASE s # 0
  <2>1. t \in Nat /\ s = t + 1
    BY <1>9
  <2>2. Power[s] = 2 * Power[t] /\ Power[t] \in Nat
    BY <2>1, PowerIs, PowerNat
  <2>3. \A p \in Nat : \A x \in Nat : x \div 2 < p => x < 2 * p
    OBVIOUS
  <2>4. QED
    BY <1>2, <1>5, <1>7, <2>2, <2>3
<1>10. QED
  BY <1>8, <1>9

\* Every word has a number.
LEMMA BitsMade ==
  \A W \in Nat : \A w \in Word(W) :
    \E n \in 0 .. Power[W] - 1 : \A i \in 0 .. W - 1 : w[i] = Bit(n, i)
<1> DEFINE Made(W, w, n) == \A i \in 0 .. W - 1 : w[i] = Bit(n, i)
           Bad == {W \in Nat : \E w \in Word(W) : ~ \E n \in 0 .. Power[W] - 1 : Made(W, w, n)}
<1> SUFFICES ASSUME Bad # {} PROVE FALSE
  OBVIOUS
<1>1. PICK k \in Bad : \A j \in Bad : k <= j
  BY LeastOf
<1>2. PICK w \in Word(k) : ~ \E n \in 0 .. Power[k] - 1 : Made(k, w, n)
  BY <1>1
<1>3. k # 0
  <2>1. CASE k = 0
    <3>1. 0 \in 0 .. Power[0] - 1 /\ Made(0, w, 0)
      BY PowerIs
    <3>2. QED
      BY <1>2, <2>1, <3>1
  <2>2. QED
    BY <2>1
<1> DEFINE W == k - 1
           v == [i \in 0 .. W - 1 |-> w[i + 1]]
<1>4. W \in Nat /\ k = W + 1 /\ W \notin Bad
  BY <1>1, <1>3
<1>5. w[0] \in {0, 1} /\ v \in Word(W)
  BY <1>2, <1>4 DEF Word
<1>6. PICK m \in 0 .. Power[W] - 1 : Made(W, v, m)
  BY <1>4, <1>5
<1> DEFINE n == 2 * m + w[0]
<1>7. m \in Nat /\ n \in Nat /\ n % 2 = w[0] /\ n \div 2 = m
  BY <1>5, <1>6
<1>8. n \in 0 .. Power[k] - 1
  <2>1. Power[k] = 2 * Power[W] /\ Power[W] \in Nat
    BY <1>4, PowerIs, PowerNat
  <2>2. QED
    BY <1>5, <1>6, <2>1
<1>9. ASSUME NEW i \in 0 .. k - 1 PROVE w[i] = Bit(n, i)
  <2> HIDE DEF n
  <2>1. CASE i = 0
    BY <1>7, <2>1, LowBit
  <2>2. CASE i # 0
    <3> DEFINE j == i - 1
    <3>1. j \in Nat /\ j \in 0 .. W - 1 /\ i = j + 1
      BY <1>4, <2>2
    <3>2. w[i] = v[j]
      BY <3>1
    <3>3. v[j] = Bit(m, j)
      BY <1>6, <3>1
    <3> HIDE DEF j
    <3>4. Bit(n, j + 1) = Bit(n \div 2, j)
      BY <1>7, <3>1, HalfBit
    <3>5. Bit(n, i) = Bit(m, j)
      BY <1>7, <3>1, <3>4
    <3>6. QED
      BY <3>2, <3>3, <3>5
  <2>3. QED
    BY <2>1, <2>2
<1>10. QED
  BY <1>2, <1>8, <1>9

\* Whole multiples of 2 to the W leave the W lowest bits alone.
LEMMA BitsModulo ==
  \A i \in Nat : \A W \in Nat : i < W =>
    \A n, q \in Int : Bit(n + q * Power[W], i) = Bit(n, i)
<1> DEFINE Good(i, W) == \A n, q \in Int : Bit(n + q * Power[W], i) = Bit(n, i)
           Bad == {i \in Nat : \E W \in Nat : i < W /\ ~Good(i, W)}
<1> SUFFICES ASSUME Bad # {} PROVE FALSE
  OBVIOUS
<1>1. PICK k \in Bad : \A j \in Bad : k <= j
  BY LeastOf
<1>2. PICK W \in Nat : k < W /\ ~Good(k, W)
  BY <1>1
<1>3. PICK n \in Int, q \in Int : Bit(n + q * Power[W], k) # Bit(n, k)
  BY <1>2
<1> DEFINE V == W - 1
           p == q * Power[V]
           x == n + q * Power[W]
<1>4. V \in Nat /\ W = V + 1 /\ k \in Nat
  BY <1>2
<1>5. Power[W] = 2 * Power[V] /\ Power[V] \in Int /\ p \in Int
  BY <1>4, PowerIs, PowerNat
<1>6. x = n + 2 * p
  <2>1. \A a, b \in Int : a * (2 * b) = 2 * (a * b)
    OBVIOUS
  <2>2. q * Power[W] = 2 * p
    BY <1>5, <2>1
  <2>3. QED
    BY <2>2
<1> HIDE DEF p
<1>7. x \in Int /\ x % 2 = n % 2 /\ x \div 2 = (n \div 2) + p /\ (n \div 2) \in Int
  <2> HIDE DEF x
  <2>1. QED
    BY <1>5, <1>6
<1> HIDE DEF x
<1>8. CASE k = 0
  <2>1. Bit(x, k) = Bit(n, k)
    BY <1>7, <1>8, LowBit
  <2>2. QED
    BY <1>3, <2>1 DEF x
<1>9. CASE k # 0
  <2> DEFINE j == k - 1
  <2>1. j \in Nat /\ k = j + 1 /\ j < V /\ j \notin Bad
    <3> HIDE DEF Good
    <3>1. QED
      BY <1>1, <1>2, <1>4, <1>9
  <2>2. Good(j, V)
    <3> HIDE DEF Good
    <3>1. QED
      BY <1>4, <2>1
  <2>3. Bit((n \div 2) + p, j) = Bit(n \div 2, j)
    BY <1>3, <1>7, <2>2 DEF p
  <2> HIDE DEF j
  <2>4. Bit(x, j + 1) = Bit(x \div 2, j) /\ Bit(n, j + 1) = Bit(n \div 2, j)
    BY <1>7, <2>1, HalfBit
  <2>5. Bit(x, k) = Bit(n, k)
    BY <1>7, <2>1, <2>3, <2>4
  <2>6. QED
    BY <1>3, <2>5 DEF x
<1>10. QED
  BY <1>8, <1>9

-----------------------------------------------------------------------------
(* The numbers of a type and their words.                                  *)

LEMMA TypeFacts ==
  ASSUME NEW type \in IntTypes
  PROVE  /\ Bits[type] \in Nat \ {0} /\ Bits[type] - 1 \in Nat
         /\ Power[Bits[type]] = 2 * Power[Bits[type] - 1]
         /\ Power[Bits[type] - 1] \in Nat \ {0}
         /\ type # "double" /\ type # "string" /\ type \in DOMAIN Bits
         /\ Numbers(type) = IF Signed(type)
                            THEN -Power[Bits[type] - 1] .. Power[Bits[type] - 1] - 1
                            ELSE 0 .. Power[Bits[type]] - 1
<1>1. Bits[type] \in Nat \ {0} /\ DOMAIN Bits = IntTypes
  BY ReflectAssumption
<1> DEFINE V == Bits[type] - 1
<1>2. V \in Nat /\ Bits[type] = V + 1
  BY <1>1
<1>3. Power[V + 1] = 2 * Power[V] /\ Power[V] \in Nat \ {0}
  BY <1>2, PowerIs, PowerNat
<1>4. type # "double" /\ type # "string"
  BY DEF IntTypes
<1>5. QED
  BY <1>1, <1>2, <1>3, <1>4 DEF Numbers

LEMMA TruncatedWord ==
  ASSUME NEW type \in IntTypes, NEW n \in Int
  PROVE  /\ Truncated(type, n) \in Word(Bits[type])
         /\ \A i \in 0 .. Bits[type] - 1 : Truncated(type, n)[i] = Bit(n, i)
<1>1. Truncated(type, n) = [i \in 0 .. Bits[type] - 1 |-> Bit(n, i)]
  BY DEF Truncated, Bit
<1>2. \A i \in 0 .. Bits[type] - 1 : Bit(n, i) \in {0, 1}
  BY BitIn, TypeFacts
<1>3. QED
  BY <1>1, <1>2 DEF Word

\* The number of the same bits that is not negative.
Plain(type, n) == IF n < 0 THEN n + Power[Bits[type]] ELSE n

LEMMA PlainIs ==
  ASSUME NEW type \in IntTypes, NEW n \in Numbers(type)
  PROVE  /\ n \in Int /\ Plain(type, n) \in 0 .. Power[Bits[type]] - 1
         /\ \A i \in 0 .. Bits[type] - 1 : Bit(Plain(type, n), i) = Bit(n, i)
<1> DEFINE W == Bits[type]
           V == Bits[type] - 1
<1>1. /\ W \in Nat /\ V \in Nat /\ Power[W] = 2 * Power[V] /\ Power[V] \in Nat \ {0}
      /\ n \in IF Signed(type) THEN -Power[V] .. Power[V] - 1 ELSE 0 .. Power[W] - 1
  BY TypeFacts
<1>2. n \in Int /\ Plain(type, n) \in 0 .. Power[W] - 1
  BY <1>1 DEF Plain
<1>3. ASSUME NEW i \in 0 .. W - 1 PROVE Bit(Plain(type, n), i) = Bit(n, i)
  <2>1. Bit(n + 1 * Power[W], i) = Bit(n, i)
    <3>1. i \in Nat /\ i < W /\ 1 \in Int
      BY <1>1
    <3> HIDE DEF W
    <3>2. QED
      BY <1>1, <1>2, <3>1, BitsModulo
  <2>2. 1 * Power[W] = Power[W]
    BY <1>1
  <2>3. QED
    BY <2>1, <2>2 DEF Plain
<1>4. QED
  BY <1>2, <1>3

\* A number of the type comes back from its word.
LEMMA NumberBack ==
  ASSUME NEW type \in IntTypes, NEW n \in Numbers(type)
  PROVE  NumberIn(type, Truncated(type, n)) = n
<1> DEFINE W == Bits[type]
           w == Truncated(type, n)
<1>1. ASSUME NEW k \in Numbers(type), Truncated(type, k) = w PROVE k = n
  <2>1. /\ n \in Int /\ Plain(type, n) \in 0 .. Power[W] - 1
        /\ \A i \in 0 .. W - 1 : Bit(Plain(type, n), i) = Bit(n, i)
    BY PlainIs
  <2>2. /\ k \in Int /\ Plain(type, k) \in 0 .. Power[W] - 1
        /\ \A i \in 0 .. W - 1 : Bit(Plain(type, k), i) = Bit(k, i)
    BY PlainIs
  <2>3. \A i \in 0 .. W - 1 : Bit(k, i) = Bit(n, i)
    BY <1>1, <2>1, <2>2, TruncatedWord
  <2>4. Plain(type, k) = Plain(type, n)
    <3>1. W \in Nat
      BY TypeFacts
    <3>2. \A i \in 0 .. W - 1 : Bit(Plain(type, k), i) = Bit(Plain(type, n), i)
      BY <2>1, <2>2, <2>3
    <3> HIDE DEF W
    <3>3. QED
      BY <2>1, <2>2, <3>1, <3>2, BitsDiffer
  <2>5. \A p \in Nat \ {0} : \A x, y \in Int :
          /\ x \in -p .. p - 1 /\ y \in -p .. p - 1
          /\ (IF x < 0 THEN x + 2 * p ELSE x) = (IF y < 0 THEN y + 2 * p ELSE y)
          => x = y
    OBVIOUS
  <2>6. CASE Signed(type)
    <3> DEFINE p == Power[Bits[type] - 1]
    <3>1. n \in -p .. p - 1 /\ k \in -p .. p - 1 /\ p \in Nat \ {0} /\ Power[W] = 2 * p
      BY <2>6, TypeFacts
    <3>2. (IF k < 0 THEN k + 2 * p ELSE k) = (IF n < 0 THEN n + 2 * p ELSE n)
      BY <2>4, <3>1 DEF Plain
    <3> HIDE DEF p
    <3>3. QED
      BY <2>1, <2>2, <2>5, <3>1, <3>2
  <2>7. CASE ~Signed(type)
    <3>1. ~(n < 0) /\ ~(k < 0)
      BY <2>7, TypeFacts
    <3>2. QED
      BY <2>4, <3>1 DEF Plain
  <2>8. QED
    BY <2>6, <2>7
<1>2. w = Truncated(type, n)
  OBVIOUS
<1> HIDE DEF w
<1>3. QED
  BY <1>1, <1>2 DEF NumberIn

\* Every word has a number of the type.
LEMMA WordBack ==
  ASSUME NEW type \in IntTypes, NEW w \in Word(Bits[type])
  PROVE  NumberIn(type, w) \in Numbers(type) /\ Truncated(type, NumberIn(type, w)) = w
<1> DEFINE W == Bits[type]
           V == Bits[type] - 1
<1>1. /\ W \in Nat /\ V \in Nat /\ Power[W] = 2 * Power[V] /\ Power[V] \in Nat \ {0}
      /\ Numbers(type) = IF Signed(type) THEN -Power[V] .. Power[V] - 1
                                         ELSE 0 .. Power[W] - 1
  BY TypeFacts
<1>2. PICK n \in 0 .. Power[W] - 1 : \A i \in 0 .. W - 1 : w[i] = Bit(n, i)
  <2>1. W \in Nat /\ w \in Word(W)
    BY <1>1
  <2> HIDE DEF W
  <2>2. QED
    BY <2>1, BitsMade
<1> DEFINE k == IF Signed(type) /\ n >= Power[V] THEN n - Power[W] ELSE n
<1>3. k \in Numbers(type) /\ k \in Int /\ n \in Int /\ (k = n \/ n = k + 1 * Power[W])
  BY <1>1, <1>2
<1> HIDE DEF k
<1>4. ASSUME NEW i \in 0 .. W - 1 PROVE Bit(k, i) = w[i]
  <2>1. Bit(k + 1 * Power[W], i) = Bit(k, i)
    <3>1. i \in Nat /\ i < W /\ 1 \in Int
      BY <1>1
    <3> HIDE DEF W
    <3>2. QED
      BY <1>1, <1>3, <3>1, BitsModulo
  <2>2. QED
    BY <1>2, <1>3, <2>1
<1>5. Truncated(type, k) = w
  <2>1. w = [i \in 0 .. W - 1 |-> w[i]]
    BY DEF Word
  <2>2. Truncated(type, k) = [i \in 0 .. W - 1 |-> Bit(k, i)]
    BY DEF Truncated, Bit
  <2>3. QED
    BY <1>4, <2>1, <2>2
<1>6. QED
  BY <1>3, <1>5 DEF NumberIn

\* The sign is set in the word of a number whose remainder has it.
LEMMA SignIs ==
  ASSUME NEW type \in IntTypes, NEW n \in Int,
         ~(Signed(type) /\ n % Power[Bits[type]] >= Power[Bits[type] - 1])
  PROVE  ~Negative(Bits[type], Truncated(type, n), Signed(type))
<1> DEFINE W == Bits[type]
           V == Bits[type] - 1
           r == n % Power[W]
           q == n \div Power[W]
<1> SUFFICES ASSUME Signed(type) PROVE Truncated(type, n)[V] # 1
  BY DEF Negative
<1>1. /\ W \in Nat /\ V \in Nat /\ V \in 0 .. W - 1
      /\ Power[W] = 2 * Power[V] /\ Power[V] \in Nat \ {0} /\ Power[W] \in Nat \ {0}
  BY TypeFacts
<1>2. r \in 0 .. Power[V] - 1 /\ q \in Int /\ n = r + q * Power[W]
  <2>1. \A p \in Nat \ {0} : \A x \in Int :
          /\ x % p \in 0 .. p - 1 /\ x \div p \in Int
          /\ x = (x % p) + (x \div p) * p
    OBVIOUS
  <2>2. /\ r \in 0 .. Power[W] - 1 /\ q \in Int
        /\ n = r + q * Power[W]
    BY <1>1, <2>1
  <2>3. ~(r >= Power[V])
    OBVIOUS
  <2> HIDE DEF r, q
  <2>4. QED
    BY <1>1, <2>2, <2>3
<1> HIDE DEF r, q
<1>3. Bit(n, V) = Bit(r, V)
  <2>1. V < W /\ r \in Int
    BY <1>1, <1>2
  <2> HIDE DEF V, W
  <2>2. Bit(r + q * Power[W], V) = Bit(r, V)
    BY <1>1, <1>2, <2>1, BitsModulo
  <2>3. QED
    BY <1>2, <2>2
<1>4. Bit(r, V) = 0
  <2> HIDE DEF V
  <2>1. QED
    BY <1>1, <1>2, NoBitsAbove
<1>5. QED
  BY <1>1, <1>3, <1>4, TruncatedWord

-----------------------------------------------------------------------------
(* A number and a bit field.                                               *)

\* The bits below the field stay, whatever the number.
LEMMA LowerKept ==
  ASSUME NEW W \in Nat \ {0}, NEW w \in Word(W), NEW val \in Word(W),
         NEW bit \in Nat, NEW size \in Nat, NEW signed \in BOOLEAN,
         NEW i \in 0 .. W - 1, i < bit
  PROVE  BitOpcSet(W, w, bit, size, val, signed)[i] = w[i]
<1>1. ShiftLeft(W, val, bit)[i] = 0
  BY DEF ShiftLeft
<1>2. BitOpclear(W, w, bit, size)[i] = w[i]
  BY DEF BitOpclear, Field
<1>3. w[i] \in {0, 1}
  BY DEF Word
<1>4. CASE TooBig(W, val, size, signed)
  BY <1>4 DEF BitOpcSet
<1>5. CASE ~TooBig(W, val, size, signed)
  BY <1>1, <1>2, <1>3, <1>5 DEF BitOpcSet, BitOr
<1>6. QED
  BY <1>4, <1>5

\* A number of the type that is not negative, as bit_opc_set sees it.
LEMMA PositiveIs ==
  ASSUME NEW type \in IntTypes, NEW n \in Numbers(type), n >= 0
  PROVE  /\ n \in 0 .. Power[Bits[type]] - 1
         /\ ~Negative(Bits[type], Truncated(type, n), Signed(type))
<1>1. n \in 0 .. Power[Bits[type]] - 1
  BY PlainIs DEF Plain
<1>2. \A p \in Nat \ {0} : \A x \in 0 .. p - 1 : x % p = x
  OBVIOUS
<1>3. n % Power[Bits[type]] = n
  BY <1>1, <1>2, PowerNat, TypeFacts
<1>4. Signed(type) => n < Power[Bits[type] - 1]
  BY TypeFacts
<1>5. ~(Signed(type) /\ n % Power[Bits[type]] >= Power[Bits[type] - 1])
  BY <1>3, <1>4, TypeFacts, PlainIs
<1>6. QED
  BY <1>1, <1>5, SignIs, PlainIs

\* A field takes a number that fits.
LEMMA FieldTakes ==
  ASSUME NEW type \in IntTypes, NEW n \in Numbers(type), n >= 0,
         NEW w \in Word(Bits[type]), NEW bit \in Nat, NEW size \in Nat \ {0},
         bit + size <= Bits[type], n < Power[size],
         size < Bits[type] - IF Signed(type) THEN 1 ELSE 0,
         NEW i \in 0 .. size - 1
  PROVE  BitOpcSet(Bits[type], w, bit, size, Truncated(type, n), Signed(type))[bit + i]
           = Bit(n, i)
<1> DEFINE W == Bits[type]
           val == Truncated(type, n)
<1>1. W \in Nat \ {0} /\ n \in 0 .. Power[W] - 1 /\ ~Negative(W, val, Signed(type))
  BY TypeFacts, PositiveIs
<1>2. val \in Word(W) /\ \A j \in 0 .. W - 1 : val[j] = Bit(n, j)
  BY <1>1, TruncatedWord
<1>3. ASSUME NEW j \in size .. W - 1 PROVE val[j] = 0
  <2>1. j \in Nat /\ size <= j /\ n \in 0 .. Power[size] - 1 /\ j \in 0 .. W - 1
    BY <1>1, PowerNat
  <2>2. Bit(n, j) = 0
    BY <2>1, NoBitsAbove
  <2>3. QED
    BY <1>2, <2>1, <2>2
<1>4. ~TooBig(W, val, size, Signed(type))
  <2> HIDE DEF W, val
  <2>1. ~(size >= W) /\ ~(size = W - 1 /\ Signed(type))
    BY <1>1 DEF W
  <2>2. ~ \E j \in size .. W - 1 : val[j] = 1
    BY <1>3
  <2>3. QED
    BY <2>1, <2>2 DEF TooBig
<1>5. bit + i \in Field(bit, size) /\ (bit + i) - bit = i /\ i \in 0 .. W - 1
  BY <1>1 DEF Field
<1>6. Signed(type) \in BOOLEAN
  BY DEF Signed
<1> HIDE DEF W, val
<1>7. BitOpcSet(W, w, bit, size, val, Signed(type))[bit + i] = val[(bit + i) - bit]
  BY <1>1, <1>2, <1>4, <1>5, <1>6, FieldHoldsValue DEF W
<1>8. QED
  BY <1>2, <1>5, <1>7 DEF W, val

\* It is left alone by one that does not.
LEMMA FieldRefuses ==
  ASSUME NEW type \in IntTypes, NEW n \in Numbers(type), n >= 0,
         NEW w \in Word(Bits[type]), NEW bit \in Nat, NEW size \in Nat \ {0},
         bit + size <= Bits[type],
         ~(/\ n < Power[size]
           /\ size < Bits[type] - IF Signed(type) THEN 1 ELSE 0)
  PROVE  BitOpcSet(Bits[type], w, bit, size, Truncated(type, n), Signed(type)) = w
<1> DEFINE W == Bits[type]
           val == Truncated(type, n)
<1>1. W \in Nat \ {0} /\ n \in 0 .. Power[W] - 1 /\ ~Negative(W, val, Signed(type))
  BY TypeFacts, PositiveIs
<1>2. \A j \in 0 .. W - 1 : val[j] = Bit(n, j)
  BY <1>1, TruncatedWord
<1>3. TooBig(W, val, size, Signed(type))
  <2>1. CASE size >= W
    BY <1>1, <2>1 DEF TooBig
  <2>2. CASE size = W - 1 /\ Signed(type)
    BY <2>2 DEF TooBig
  <2>3. CASE size < W /\ ~(n < Power[size])
    <3>1. size \in 0 .. W /\ ~(n < Power[size]) /\ W \in Nat
      BY <1>1, <2>3
    <3> HIDE DEF W
    <3>2. PICK j \in size .. W - 1 : Bit(n, j) # 0
      BY <1>1, <3>1, BelowByBits
    <3>3. j \in 0 .. W - 1 /\ j \in Nat /\ n \in Int
      BY <1>1, <3>1
    <3>4. Bit(n, j) = 1
      BY <3>2, <3>3, BitIn
    <3>5. val[j] = 1
      BY <1>2, <3>3, <3>4
    <3> HIDE DEF val
    <3>6. QED
      BY <1>1, <3>5 DEF TooBig
  <2>4. QED
    <3>1. size >= W \/ (size = W - 1 /\ Signed(type)) \/ (size < W /\ ~(n < Power[size]))
      BY <1>1
    <3>2. QED
      BY <2>1, <2>2, <2>3, <3>1
<1>4. QED
  BY <1>3 DEF BitOpcSet

-----------------------------------------------------------------------------
(* The declarations of a struct.                                           *)

Enums == {struct.enuminfo[k] : k \in DOMAIN struct.enuminfo}

LEMMA FieldsOf ==
  ASSUME struct \in Structs
  PROVE  /\ Len(struct.fieldinfo) \in Nat
         /\ DOMAIN struct.fieldinfo = 1 .. Len(struct.fieldinfo)
         /\ \A k \in DOMAIN struct.fieldinfo : struct.fieldinfo[k] \in Members
         /\ \A m \in Members : \E k \in DOMAIN struct.fieldinfo : struct.fieldinfo[k] = m
         /\ \A j, k \in DOMAIN struct.fieldinfo :
              struct.fieldinfo[j].m_name = struct.fieldinfo[k].m_name => j = k
<1>1. WellFormed(struct)
  BY StructAssumption
<1>2. struct.fieldinfo \in Seq(Members)
  BY <1>1 DEF WellFormed, Members
<1>3. QED
  BY <1>1, <1>2 DEF WellFormed, Members

LEMMA NamedApart ==
  ASSUME struct \in Structs, NEW g \in Members, NEW m \in Members, g.m_name = m.m_name
  PROVE  g = m
BY FieldsOf

LEMMA MemberIs ==
  ASSUME struct \in Structs, NEW m \in Members
  PROVE  /\ m.m_type \in IntTypes \cup {"double", "string"}
         /\ m.m_offset \in Nat
         /\ IsBit(m) => /\ m.m_type \in IntTypes
                        /\ m.m_bit \in Nat /\ m.m_bitSize \in Nat \ {0}
                        /\ m.m_bit + m.m_bitSize <= Bits[m.m_type]
         /\ IsEnum(m) => m.m_type # "string"
<1>1. WellFormed(struct)
  BY StructAssumption
<1>2. QED
  BY <1>1 DEF WellFormed, Members

LEMMA Apart ==
  ASSUME struct \in Structs, NEW g \in Members, NEW m \in Members,
         g # m, g.m_offset = m.m_offset
  PROVE  IsBit(g) /\ IsBit(m) /\ g.m_type = m.m_type /\ Fields(g) \cap Fields(m) = {}
<1>1. WellFormed(struct)
  BY StructAssumption
<1>2. QED
  BY <1>1 DEF WellFormed, Members

LEMMA EnumIs ==
  ASSUME struct \in Structs
  PROVE  /\ DOMAIN struct.enuminfo \subseteq Nat
         /\ \A e \in Enums :
              /\ e.m_val \in Nat
              /\ \A m \in Members : IsEnum(m) /\ e.m_node = m.node => e.m_val \in Numbers(m.m_type)
              /\ \A f \in Enums : e.m_node = f.m_node /\ e.m_name = f.m_name => e = f
<1>1. WellFormed(struct)
  BY StructAssumption
<1>2. struct.enuminfo \in Seq(Enums)
  BY <1>1 DEF WellFormed, Enums
<1>3. DOMAIN struct.enuminfo \subseteq Nat
  BY <1>2
<1>4. QED
  BY <1>1, <1>3 DEF WellFormed, Members, Enums

-----------------------------------------------------------------------------
(* The number of a text.                                                   *)

LEMMA NumbersIn ==
  /\ Doubles \subseteq Int /\ Numbers("double") = Doubles
  /\ \A type \in IntTypes : Numbers(type) \subseteq Doubles
  /\ \A type \in IntTypes \cup {"double"} : 0 \in Numbers(type)
  /\ 0 \in Doubles /\ 1 \in Doubles
<1>1. Doubles \subseteq Int /\ \A type \in IntTypes : Numbers(type) \subseteq Doubles
  BY ReflectAssumption
<1>2. Numbers("double") = Doubles
  BY DEF Numbers
<1>3. ASSUME NEW type \in IntTypes PROVE 0 \in Numbers(type)
  BY TypeFacts
<1>4. "uint" \in IntTypes /\ ~Signed("uint") /\ "int" \in IntTypes
  BY DEF IntTypes, Signed
<1>5. 0 \in Numbers("uint") /\ 1 \in Numbers("uint")
  BY <1>4, TypeFacts
<1>6. QED
  BY <1>1, <1>2, <1>3, <1>4, <1>5

LEMMA NumberOfIs ==
  ASSUME NEW n \in Doubles
  PROVE  Digits(n) \in DOMAIN NumberOf /\ NumberOf[Digits(n)] = n
<1> DEFINE S == {Digits(k) : k \in Doubles}
<1>1. NumberOf = [s \in S |-> CHOOSE k \in Doubles : Digits(k) = s]
  BY DEF NumberOf
<1>2. Digits(n) \in S
  OBVIOUS
<1>3. NumberOf[Digits(n)] = CHOOSE k \in Doubles : Digits(k) = Digits(n)
  BY <1>1, <1>2
<1>4. \A k \in Doubles : Digits(k) = Digits(n) => k = n
  BY ReflectAssumption
<1>5. QED
  BY <1>1, <1>2, <1>3, <1>4

LEMMA ToNumberIn ==
  ASSUME NEW type \in IntTypes \cup {"double"}, NEW text
  PROVE  ToNumber(type, text) \in Numbers(type) /\ ToNumber(type, text) \in Doubles
BY NumbersIn DEF ToNumber

\* A type is read as one that has all its numbers.
LEMMA ReadAsWider ==
  ASSUME NEW type \in IntTypes \cup {"double"}
  PROVE  ReadAs(type) \in IntTypes \cup {"double"} /\ Numbers(type) \subseteq Numbers(ReadAs(type))
<1>1. CASE type = "int8_t"
  <2>1. /\ "short" \in IntTypes /\ "int8_t" \in IntTypes /\ Signed("short") /\ Signed("int8_t")
        /\ Bits["int8_t"] <= Bits["short"] /\ ReadAs(type) = "short"
    BY <1>1, ReflectAssumption DEF IntTypes, Signed, ReadAs
  <2>2. /\ Bits["int8_t"] - 1 \in Nat /\ Bits["short"] - 1 \in Nat
        /\ Bits["int8_t"] - 1 <= Bits["short"] - 1
    BY <2>1, TypeFacts
  <2>3. Power[Bits["int8_t"] - 1] <= Power[Bits["short"] - 1]
    BY <2>2, PowerMono
  <2>4. /\ Numbers("int8_t") = -Power[Bits["int8_t"] - 1] .. Power[Bits["int8_t"] - 1] - 1
        /\ Numbers("short") = -Power[Bits["short"] - 1] .. Power[Bits["short"] - 1] - 1
        /\ Power[Bits["int8_t"] - 1] \in Nat /\ Power[Bits["short"] - 1] \in Nat
    BY <2>1, TypeFacts
  <2>5. QED
    BY <1>1, <2>1, <2>3, <2>4
<1>2. CASE type = "uchar"
  <2>1. /\ "ushort" \in IntTypes /\ "uchar" \in IntTypes /\ ~Signed("ushort") /\ ~Signed("uchar")
        /\ Bits["uchar"] <= Bits["ushort"] /\ ReadAs(type) = "ushort"
    BY <1>2, ReflectAssumption DEF IntTypes, Signed, ReadAs
  <2>2. /\ Bits["uchar"] \in Nat /\ Bits["ushort"] \in Nat
    BY <2>1, TypeFacts
  <2>3. Power[Bits["uchar"]] <= Power[Bits["ushort"]]
    BY <2>1, <2>2, PowerMono
  <2>4. /\ Numbers("uchar") = 0 .. Power[Bits["uchar"]] - 1
        /\ Numbers("ushort") = 0 .. Power[Bits["ushort"]] - 1
        /\ Power[Bits["uchar"]] \in Nat /\ Power[Bits["ushort"]] \in Nat
    BY <2>1, <2>2, TypeFacts, PowerNat
  <2>5. QED
    BY <1>2, <2>1, <2>3, <2>4
<1>3. CASE type # "int8_t" /\ type # "uchar"
  BY <1>3 DEF ReadAs
<1>4. QED
  BY <1>1, <1>2, <1>3

\* The enumerator GetEnumData takes is one of that name.
LEMMA EnumFound ==
  ASSUME struct \in Structs, NEW text
  PROVE  \/ GetEnumData(text) = 0 /\ \A e \in Enums : text # <<e.m_name>>
         \/ \E e \in Enums : text = <<e.m_name>> /\ GetEnumData(text) = e.m_val
<1> DEFINE found == {k \in DOMAIN struct.enuminfo : text = <<struct.enuminfo[k].m_name>>}
<1>1. CASE found = {}
  <2>1. GetEnumData(text) = 0
    BY <1>1 DEF GetEnumData
  <2>2. \A e \in Enums : text # <<e.m_name>>
    BY <1>1 DEF Enums
  <2>3. QED
    BY <2>1, <2>2
<1>2. CASE found # {}
  <2> DEFINE f == CHOOSE k \in found : \A j \in found : k <= j
  <2>1. f \in found
    <3>1. found \subseteq Nat
      BY EnumIs
    <3>2. \E k \in found : \A j \in found : k <= j
      BY <1>2, <3>1, LeastOf
    <3> HIDE DEF found
    <3>3. QED
      BY <3>2
  <2>2. GetEnumData(text) = struct.enuminfo[f].m_val
    BY <1>2 DEF GetEnumData
  <2> HIDE DEF f
  <2>3. struct.enuminfo[f] \in Enums /\ text = <<struct.enuminfo[f].m_name>>
    BY <2>1 DEF Enums
  <2>4. QED
    BY <2>2, <2>3
<1>3. QED
  BY <1>1, <1>2

\* What is read is a number, and the one that is meant if there is one.
LEMMA ReadIsMeant ==
  ASSUME struct \in Structs, NEW m \in Members, m.m_type # "string", NEW text
  PROVE  /\ NumberRead(m, text) \in Int
         /\ ~IsEnum(m) => NumberRead(m, text) \in Doubles
         /\ Meant(m, text) # Unknown => /\ Meant(m, text) = NumberRead(m, text)
                                        /\ NumberRead(m, text) \in Numbers(m.m_type)
<1>1. m.m_type \in IntTypes \cup {"double"}
  BY MemberIs
<1>2. CASE IsEnum(m)
  <2> DEFINE named == {e \in Enums : text = <<e.m_name>>}
  <2>1. /\ NumberRead(m, text) = GetEnumData(text)
        /\ Meant(m, text) = IF named = {} THEN 0
                            ELSE IF \E e \in named : e.m_node # m.node THEN Unknown
                            ELSE (CHOOSE e \in named : TRUE).m_val
    BY <1>2 DEF NumberRead, Meant, Enums
  <2>2. CASE named = {}
    BY <1>1, <1>2, <2>1, <2>2, EnumFound, NumbersIn
  <2>3. CASE named # {}
    <3>1. PICK e \in Enums : text = <<e.m_name>> /\ GetEnumData(text) = e.m_val
      BY <2>3, EnumFound
    <3>2. e \in named /\ e.m_val \in Nat
      BY <3>1, EnumIs
    <3>3. ASSUME Meant(m, text) # Unknown
          PROVE  Meant(m, text) = e.m_val /\ e.m_val \in Numbers(m.m_type)
      <4>1. \A f \in named : f.m_node = m.node
        BY <2>1, <2>3, <3>3
      <4>2. \A f \in named : f \in Enums /\ f.m_name = e.m_name
        BY <3>1
      <4>3. \A f \in named : f = e
        BY <3>2, <4>1, <4>2, EnumIs
      <4> HIDE DEF named
      <4>4. (CHOOSE f \in named : TRUE) = e
        BY <3>2, <4>3
      <4>5. Meant(m, text) = e.m_val
        BY <2>1, <2>3, <4>1, <4>4
      <4>6. e.m_val \in Numbers(m.m_type)
        BY <1>2, <3>1, <3>2, <4>1, EnumIs
      <4>7. QED
        BY <4>5, <4>6
    <3>4. QED
      BY <1>2, <2>1, <3>1, <3>2, <3>3
  <2>4. QED
    BY <2>2, <2>3
<1>3. CASE ~IsEnum(m)
  <2>1. /\ NumberRead(m, text) = ToNumber(ReadAs(m.m_type), text)
        /\ Meant(m, text) = IF IsNumber(text) /\ NumberOf[text[1]] \notin Numbers(m.m_type)
                            THEN Unknown ELSE ToNumber("double", text)
    BY <1>3 DEF NumberRead, Meant, NumberMeant
  <2>2. NumberRead(m, text) \in Doubles /\ NumberRead(m, text) \in Int
    <3>1. ReadAs(m.m_type) \in IntTypes \cup {"double"}
      BY <1>1, ReadAsWider
    <3>2. ToNumber(ReadAs(m.m_type), text) \in Doubles
      BY <3>1, ToNumberIn
    <3>3. QED
      BY <2>1, <3>2, NumbersIn
  <2>3. ASSUME Meant(m, text) # Unknown
        PROVE  Meant(m, text) = NumberRead(m, text) /\ NumberRead(m, text) \in Numbers(m.m_type)
    <3>1. Meant(m, text) = ToNumber("double", text)
      BY <2>1, <2>3
    <3>2. CASE IsNumber(text)
      <4> DEFINE n == NumberOf[text[1]]
      <4>1. n \in Numbers(m.m_type)
        BY <2>1, <2>3, <3>2
      <4>2. n \in Numbers(ReadAs(m.m_type)) /\ n \in Numbers("double")
        BY <1>1, <4>1, ReadAsWider, NumbersIn
      <4>3. QED
        BY <2>1, <3>1, <3>2, <4>1, <4>2 DEF ToNumber
    <3>3. CASE ~IsNumber(text)
      BY <1>1, <2>1, <3>1, <3>3, NumbersIn DEF ToNumber
    <3>4. QED
      BY <3>2, <3>3
  <2>4. QED
    BY <1>3, <2>2, <2>3
<1>4. QED
  BY <1>2, <1>3

-----------------------------------------------------------------------------
(* A text read into one member.                                            *)

\* What a container of a member holds; an enumerator may be a number a
\* double has no digits of.
CellIs(m, cell) ==
  /\ m.m_type \in IntTypes => cell \in Word(Bits[m.m_type])
  /\ m.m_type = "double" /\ ~IsEnum(m) => cell \in Doubles

CellsOK(cells) ==
  /\ DOMAIN cells = {m.m_offset : m \in Members}
  /\ \A m \in Members : CellIs(m, cells[m.m_offset])

Stored(cells, m, text) ==
  [cells EXCEPT ![m.m_offset] = StringData(m, text, @)]

\* StringData by the kind of member.
LEMMA DataIs ==
  ASSUME struct \in Structs, NEW m \in Members, NEW text, NEW old
  PROVE  /\ m.m_type \in IntTypes => StringData(m, text, old) = StringToData(m, text, old)
         /\ m.m_type = "double" => StringData(m, text, old) = NumberRead(m, text)
         /\ m.m_type = "string" => StringData(m, text, old) = text
<1>1. DOMAIN Bits = IntTypes
  BY ReflectAssumption
<1>2. "double" \notin IntTypes /\ "string" \notin IntTypes
  BY DEF IntTypes
<1>3. m.m_type = "double" => ~IsBit(m)
  BY <1>2, MemberIs
<1>4. QED
  BY <1>1, <1>2, <1>3 DEF StringData, StringToDouble

LEMMA DataIn ==
  ASSUME struct \in Structs, NEW m \in Members, NEW text, NEW old, CellIs(m, old)
  PROVE  CellIs(m, StringData(m, text, old))
<1>1. CASE m.m_type \in IntTypes
  <2>1. m.m_type # "double" /\ m.m_type # "string" /\ Bits[m.m_type] \in Nat \ {0}
    BY <1>1, TypeFacts
  <2>2. NumberRead(m, text) \in Int /\ old \in Word(Bits[m.m_type]) /\ Signed(m.m_type) \in BOOLEAN
    BY <1>1, <2>1, ReadIsMeant DEF CellIs, Signed
  <2>3. Truncated(m.m_type, NumberRead(m, text)) \in Word(Bits[m.m_type])
    BY <1>1, <2>2, TruncatedWord
  <2>4. StringToData(m, text, old) \in Word(Bits[m.m_type])
    <3>1. CASE IsBit(m)
      BY <2>1, <2>2, <2>3, <3>1, MemberIs, SetGivesWord DEF StringToData
    <3>2. CASE ~IsBit(m)
      BY <2>3, <3>2 DEF StringToData
    <3>3. QED
      BY <3>1, <3>2
  <2>5. QED
    BY <1>1, <2>1, <2>4, DataIs DEF CellIs
<1>2. CASE m.m_type = "double"
  <2>1. m.m_type \notin IntTypes /\ m.m_type # "string"
    BY <1>2 DEF IntTypes
  <2>2. ~IsEnum(m) => NumberRead(m, text) \in Doubles
    BY <2>1, ReadIsMeant
  <2>3. QED
    BY <1>2, <2>1, <2>2, DataIs DEF CellIs
<1>3. CASE m.m_type = "string"
  <2>1. m.m_type \notin IntTypes /\ m.m_type # "double"
    BY <1>3 DEF IntTypes
  <2>2. QED
    BY <2>1 DEF CellIs
<1>4. QED
  BY <1>1, <1>2, <1>3, MemberIs

LEMMA StoredOK ==
  ASSUME struct \in Structs, NEW m \in Members, NEW text, NEW cells, CellsOK(cells)
  PROVE  /\ CellsOK(Stored(cells, m, text))
         /\ Stored(cells, m, text)[m.m_offset] = StringData(m, text, cells[m.m_offset])
         /\ \A o \in DOMAIN cells : o # m.m_offset => Stored(cells, m, text)[o] = cells[o]
<1> DEFINE after == Stored(cells, m, text)
<1>1. m.m_offset \in DOMAIN cells
  BY DEF CellsOK
<1>2. /\ DOMAIN after = DOMAIN cells
      /\ after[m.m_offset] = StringData(m, text, cells[m.m_offset])
      /\ \A o \in DOMAIN cells : o # m.m_offset => after[o] = cells[o]
  BY <1>1 DEF Stored
<1>3. CellIs(m, after[m.m_offset])
  BY <1>2, DataIn DEF CellsOK
<1> HIDE DEF after
<1>4. ASSUME NEW g \in Members PROVE CellIs(g, after[g.m_offset])
  <2>1. CASE g.m_offset # m.m_offset
    BY <1>2, <2>1 DEF CellsOK
  <2>2. CASE g = m
    BY <1>3, <2>2
  <2>3. CASE g # m /\ g.m_offset = m.m_offset
    <3>1. g.m_type = m.m_type /\ m.m_type \in IntTypes
      BY <2>3, Apart, MemberIs
    <3>2. g.m_type # "double"
      BY <3>1 DEF IntTypes
    <3>3. QED
      BY <1>3, <2>3, <3>1, <3>2 DEF CellIs
  <2>4. QED
    BY <2>1, <2>2, <2>3
<1>5. QED
  BY <1>2, <1>4 DEF CellsOK, after

\* The number of the value of a member without bits is its word's.
LEMMA ValueIs ==
  ASSUME struct \in Structs, NEW m \in Members, NEW cells
  PROVE  Value(cells, m) =
           IF IsBit(m)
           THEN [i \in 0 .. m.m_bitSize - 1 |-> cells[m.m_offset][m.m_bit + i]]
           ELSE IF m.m_type \in IntTypes THEN NumberIn(m.m_type, cells[m.m_offset])
           ELSE cells[m.m_offset]
<1>1. DOMAIN Bits = IntTypes
  BY ReflectAssumption
<1>2. QED
  BY <1>1 DEF Value

\* The member read holds what is wanted.
LEMMA ReadHolds ==
  ASSUME struct \in Structs, NEW m \in Members, NEW text, NEW cells, CellsOK(cells),
         NEW old, old # Unknown => Value(cells, m) = old,
         Wanted(m, text, old) # Unknown
  PROVE  Value(Stored(cells, m, text), m) = Wanted(m, text, old)
<1> DEFINE after == Stored(cells, m, text)
           o == m.m_offset
           n == NumberRead(m, text)
           mean == Meant(m, text)
<1>1. after[o] = StringData(m, text, cells[o])
  BY StoredOK
<1>2. CASE m.m_type = "string"
  <2>1. m.m_type \notin IntTypes /\ ~IsBit(m)
    BY <1>2, MemberIs DEF IntTypes
  <2>2. QED
    BY <1>1, <1>2, <2>1, DataIs, ValueIs DEF Wanted
<1>3. CASE m.m_type # "string"
  <2>1. /\ mean # Unknown
        /\ mean = n /\ n \in Numbers(m.m_type) /\ n \in Int
    BY <1>3, ReadIsMeant DEF Wanted
  <2>2. CASE ~IsBit(m)
    <3>1. Wanted(m, text, old) = n
      BY <1>3, <2>1, <2>2 DEF Wanted
    <3>2. CASE m.m_type \in IntTypes
      <4>1. after[o] = Truncated(m.m_type, n)
        BY <1>1, <2>2, <3>2, DataIs DEF StringToData
      <4>2. Value(after, m) = NumberIn(m.m_type, after[o])
        BY <2>2, <3>2, ValueIs
      <4>3. QED
        BY <2>1, <3>1, <3>2, <4>1, <4>2, NumberBack
    <3>3. CASE m.m_type \notin IntTypes
      <4>1. m.m_type = "double"
        BY <1>3, <3>3, MemberIs
      <4>2. Value(after, m) = after[o]
        BY <2>2, <3>3, ValueIs
      <4>3. QED
        BY <1>1, <3>1, <4>1, <4>2, DataIs
    <3>4. QED
      BY <3>2, <3>3
  <2>3. CASE IsBit(m)
    <3>1. /\ m.m_type \in IntTypes /\ m.m_bit \in Nat /\ m.m_bitSize \in Nat \ {0}
          /\ m.m_bit + m.m_bitSize <= Bits[m.m_type]
      BY <2>3, MemberIs
    <3>2. cells[o] \in Word(Bits[m.m_type])
      BY <3>1 DEF CellsOK, CellIs
    <3>3. after[o] = BitOpcSet(Bits[m.m_type], cells[o], m.m_bit, m.m_bitSize,
                               Truncated(m.m_type, n), Signed(m.m_type))
      BY <1>1, <2>3, <3>1, DataIs DEF StringToData
    <3>4. n >= 0
      BY <1>3, <2>1, <2>3 DEF Wanted
    <3>5. Value(after, m) = [i \in 0 .. m.m_bitSize - 1 |-> after[o][m.m_bit + i]]
      BY <2>3, ValueIs
    <3>6. CASE Fits(m, n)
      <4>1. Wanted(m, text, old) = [i \in 0 .. m.m_bitSize - 1 |-> Bit(n, i)]
        BY <1>3, <2>1, <2>3, <3>4, <3>6 DEF Wanted, Bit
      <4>2. /\ n < Power[m.m_bitSize]
            /\ m.m_bitSize < Bits[m.m_type] - IF Signed(m.m_type) THEN 1 ELSE 0
        BY <3>6 DEF Fits
      <4> HIDE DEF n, o, after
      <4>3. ASSUME NEW i \in 0 .. m.m_bitSize - 1 PROVE after[o][m.m_bit + i] = Bit(n, i)
        BY <2>1, <3>1, <3>2, <3>3, <3>4, <4>2, FieldTakes
      <4>4. QED
        BY <3>5, <4>1, <4>3 DEF after
    <3>7. CASE ~Fits(m, n)
      <4>1. Wanted(m, text, old) = old
        BY <1>3, <2>1, <2>3, <3>4, <3>7 DEF Wanted
      <4>2. ~(/\ n < Power[m.m_bitSize]
              /\ m.m_bitSize < Bits[m.m_type] - IF Signed(m.m_type) THEN 1 ELSE 0)
        BY <3>7 DEF Fits
      <4>3. Value(cells, m) = [i \in 0 .. m.m_bitSize - 1 |-> cells[o][m.m_bit + i]]
        BY <2>3, ValueIs
      <4> HIDE DEF n, o, after
      <4>4. after[o] = cells[o]
        BY <2>1, <3>1, <3>2, <3>3, <3>4, <4>2, FieldRefuses
      <4>5. QED
        BY <3>5, <4>1, <4>3, <4>4 DEF after
    <3>8. QED
      BY <3>6, <3>7
  <2>4. QED
    BY <2>2, <2>3
<1>4. QED
  BY <1>2, <1>3

\* The others hold what they held, but for a number that spills.
LEMMA OthersHold ==
  ASSUME struct \in Structs, NEW g \in Members, NEW m \in Members, g # m,
         NEW text, NEW cells, CellsOK(cells), ~(IsBit(m) /\ SpillsOn(g, m, text))
  PROVE  Value(Stored(cells, g, text), m) = Value(cells, m)
<1> DEFINE after == Stored(cells, g, text)
           o == m.m_offset
<1>1. CASE g.m_offset # o
  <2>1. after[o] = cells[o]
    BY <1>1, StoredOK DEF CellsOK
  <2>2. QED
    BY <2>1 DEF Value
<1>2. CASE g.m_offset = o
  <2>1. IsBit(g) /\ IsBit(m) /\ g.m_type = m.m_type /\ Fields(g) \cap Fields(m) = {}
    BY <1>2, Apart
  <2> DEFINE type == g.m_type
             n == NumberRead(g, text)
  <2>2. /\ type \in IntTypes /\ g.m_bit \in Nat /\ g.m_bitSize \in Nat \ {0}
        /\ g.m_bit + g.m_bitSize <= Bits[type]
        /\ m.m_bit \in Nat /\ m.m_bitSize \in Nat \ {0}
        /\ m.m_bit + m.m_bitSize <= Bits[type]
    BY <2>1, MemberIs
  <2>3. type # "string" /\ Bits[type] \in Nat \ {0} /\ Signed(type) \in BOOLEAN
    BY <2>2, TypeFacts DEF Signed
  <2>4. n \in Int /\ cells[o] \in Word(Bits[type]) /\ Truncated(type, n) \in Word(Bits[type])
    BY <1>2, <2>2, <2>3, ReadIsMeant, TruncatedWord DEF CellsOK, CellIs
  <2>5. after[o] = BitOpcSet(Bits[type], cells[o], g.m_bit, g.m_bitSize,
                             Truncated(type, n), Signed(type))
    BY <1>2, <2>1, <2>2, StoredOK, DataIs DEF StringToData
  <2>6. ASSUME NEW i \in 0 .. m.m_bitSize - 1
        PROVE  after[o][m.m_bit + i] = cells[o][m.m_bit + i]
    <3> DEFINE b == m.m_bit + i
    <3>1. /\ b \in 0 .. Bits[type] - 1 /\ b \in Fields(m) /\ b \notin Fields(g)
          /\ m.m_bit \in Fields(m) /\ g.m_bit \in Fields(g)
      BY <2>1, <2>2, <2>3 DEF Fields, Field
    <3>2. CASE m.m_bit < g.m_bit
      <4>1. b < g.m_bit
        BY <2>1, <2>2, <3>1, <3>2 DEF Fields, Field
      <4> HIDE DEF b, type, n, o, after
      <4>2. after[o][b] = cells[o][b]
        BY <2>2, <2>3, <2>4, <2>5, <3>1, <4>1, LowerKept
      <4>3. QED
        BY <4>2 DEF b
    <3>3. CASE ~(m.m_bit < g.m_bit)
      <4>1. g.m_bit < m.m_bit
        BY <2>1, <2>2, <3>1, <3>3
      <4>2. ~(Signed(type) /\ n % Power[Bits[type]] >= Power[Bits[type] - 1])
        BY <1>2, <2>1, <4>1 DEF SpillsOn
      <4>3. ~Negative(Bits[type], Truncated(type, n), Signed(type))
        BY <2>2, <2>4, <4>2, SignIs
      <4>4. b \in (0 .. Bits[type] - 1) \ Field(g.m_bit, g.m_bitSize)
        BY <3>1 DEF Fields
      <4> HIDE DEF b, type, n, o, after
      <4>5. after[o][b] = cells[o][b]
        BY <2>2, <2>3, <2>4, <2>5, <4>3, <4>4, NeighboursKept
      <4>6. QED
        BY <4>5 DEF b
    <3>4. QED
      BY <3>2, <3>3
  <2>7. /\ Value(after, m) = [i \in 0 .. m.m_bitSize - 1 |-> after[o][m.m_bit + i]]
        /\ Value(cells, m) = [i \in 0 .. m.m_bitSize - 1 |-> cells[o][m.m_bit + i]]
    BY <2>1, ValueIs
  <2> HIDE DEF type, n, o, after
  <2>8. QED
    BY <2>6, <2>7 DEF after
<1>3. QED
  BY <1>1, <1>2

-----------------------------------------------------------------------------
(* The members read in their order.                                        *)

\* A member read or passed over.
Passed(cells, given, k) ==
  LET m == struct.fieldinfo[k]
  IN  IF m.m_name \in DOMAIN given THEN Stored(cells, m, given[m.m_name]) ELSE cells

ReadUpTo(n, f, cells, given) ==
  f = [k \in 0 .. n |-> IF k = 0 THEN cells ELSE Passed(f[k - 1], given, k)]

LEMMA ReadExists ==
  ASSUME NEW n \in Nat, NEW cells, NEW given
  PROVE  \E f : ReadUpTo(n, f, cells, given)
<1> DEFINE Bad == {k \in Nat : ~ \E f : ReadUpTo(k, f, cells, given)}
<1> SUFFICES ASSUME Bad # {} PROVE FALSE
  OBVIOUS
<1>1. PICK k \in Bad : \A j \in Bad : k <= j
  BY LeastOf
<1>2. CASE k = 0
  <2> DEFINE f == [i \in 0 .. 0 |-> cells]
  <2>1. f = [i \in 0 .. 0 |-> IF i = 0 THEN cells ELSE Passed(f[i - 1], given, i)]
    OBVIOUS
  <2>2. ReadUpTo(0, f, cells, given)
    BY <2>1 DEF ReadUpTo
  <2>3. QED
    BY <1>2, <2>2
<1>3. CASE k # 0
  <2>1. k - 1 \in Nat /\ k - 1 \notin Bad
    BY <1>1, <1>3
  <2>2. PICK f : ReadUpTo(k - 1, f, cells, given)
    BY <2>1
  <2> DEFINE g == [i \in 0 .. k |-> IF i < k THEN f[i] ELSE Passed(f[k - 1], given, k)]
  <2>3. ASSUME NEW i \in 0 .. k PROVE g[i] = IF i = 0 THEN cells ELSE Passed(g[i - 1], given, i)
    <3>1. \A j \in 0 .. k - 1 : f[j] = IF j = 0 THEN cells ELSE Passed(f[j - 1], given, j)
      BY <2>2 DEF ReadUpTo
    <3>2. CASE i = 0
      BY <1>3, <3>1, <3>2
    <3>3. CASE i # 0 /\ i < k
      <4>1. i - 1 \in 0 .. k /\ i - 1 < k /\ i \in 0 .. k - 1
        BY <3>3
      <4>2. g[i] = f[i] /\ g[i - 1] = f[i - 1]
        BY <3>3, <4>1
      <4>3. QED
        BY <3>1, <3>3, <4>1, <4>2
    <3>4. CASE i = k
      <4>1. i - 1 \in 0 .. k /\ i - 1 < k
        BY <1>3, <3>4
      <4>2. g[i] = Passed(f[i - 1], given, i) /\ g[i - 1] = f[i - 1]
        BY <3>4, <4>1
      <4>3. QED
        BY <1>3, <3>4, <4>2
    <3>5. QED
      BY <3>2, <3>3, <3>4
  <2>4. g = [i \in 0 .. k |-> IF i = 0 THEN cells ELSE Passed(g[i - 1], given, i)]
    <3>1. g = [i \in 0 .. k |-> g[i]]
      OBVIOUS
    <3> HIDE DEF g
    <3>2. QED
      BY <2>3, <3>1
  <2>5. ReadUpTo(k, g, cells, given)
    BY <2>4 DEF ReadUpTo
  <2>6. QED
    BY <2>5
<1>4. QED
  BY <1>2, <1>3

LEMMA ReadAllIs ==
  ASSUME struct \in Structs, NEW cells, NEW given
  PROVE  \E f : /\ f[Len(struct.fieldinfo)] = ReadAll(cells, given)
                /\ f[0] = cells
                /\ \A k \in 1 .. Len(struct.fieldinfo) : f[k] = Passed(f[k - 1], given, k)
<1> DEFINE Count == Len(struct.fieldinfo)
           f == CHOOSE f : ReadUpTo(Count, f, cells, given)
<1>1. Count \in Nat
  BY FieldsOf
<1>2. ReadUpTo(Count, f, cells, given)
  BY <1>1, ReadExists
<1>3. f[Count] = ReadAll(cells, given)
  BY Zenon DEF ReadAll, ReadUpTo, Passed, Stored
<1> HIDE DEF f
<1>4. \A k \in 0 .. Count : f[k] = IF k = 0 THEN cells ELSE Passed(f[k - 1], given, k)
  BY <1>2 DEF ReadUpTo
<1> HIDE DEF Count
<1>5. f[0] = cells
  BY <1>1, <1>4
<1>6. \A k \in 1 .. Count : f[k] = Passed(f[k - 1], given, k)
  BY <1>1, <1>4
<1>7. QED
  BY <1>3, <1>5, <1>6 DEF Count

\* A member holds what is wanted unless that is open.
Holds(cells, m, wanted) == wanted # Unknown => Value(cells, m) = wanted

LEMMA ReadAllHolds ==
  ASSUME struct \in Structs, NEW cells, NEW given, NEW wanted, CellsOK(cells),
         \A m \in Members : Holds(cells, m, wanted[m])
  PROVE  /\ CellsOK(ReadAll(cells, given))
         /\ \A m \in Members : Holds(ReadAll(cells, given), m, WantAfter(wanted, given)[m])
<1> DEFINE Count == Len(struct.fieldinfo)
           F(j) == struct.fieldinfo[j]
           Want(j, k) == IF j <= k /\ F(j).m_name \in DOMAIN given
                         THEN Wanted(F(j), given[F(j).m_name], wanted[F(j)])
                         ELSE wanted[F(j)]
<1>1. Count \in Nat /\ \A j \in 1 .. Count : F(j) \in Members
  BY FieldsOf
<1>2. PICK f : /\ f[Count] = ReadAll(cells, given) /\ f[0] = cells
               /\ \A k \in 1 .. Count : f[k] = Passed(f[k - 1], given, k)
  <2>1. \E f : /\ f[Len(struct.fieldinfo)] = ReadAll(cells, given)
                /\ f[0] = cells
                /\ \A k \in 1 .. Len(struct.fieldinfo) : f[k] = Passed(f[k - 1], given, k)
    BY ONLY struct \in Structs, ReadAllIs
  <2>2. QED
    BY <2>1
<1> DEFINE Good(k) == /\ CellsOK(f[k])
                      /\ \A j \in 1 .. Count :
                           ~Spilled(F(j), given) => Holds(f[k], F(j), Want(j, k))
           Bad == {k \in 0 .. Count : ~Good(k)}
<1>3. Good(0)
  BY <1>1, <1>2
<1>4. ASSUME NEW k \in 1 .. Count, Good(k - 1) PROVE Good(k)
  <2> DEFINE before == f[k - 1]
             after == f[k]
             m == F(k)
  <2>1. after = Passed(before, given, k) /\ m \in Members /\ CellsOK(before)
    BY <1>1, <1>2, <1>4
  <2>2. ASSUME NEW j \in 1 .. Count, ~Spilled(F(j), given)
        PROVE  Holds(before, F(j), Want(j, k - 1))
    BY <1>4, <2>2
  <2>3. CASE m.m_name \notin DOMAIN given
    <3>1. after = before
      BY <2>1, <2>3 DEF Passed
    <3>2. ASSUME NEW j \in 1 .. Count PROVE Want(j, k) = Want(j, k - 1)
      <4>1. CASE j = k
        BY <2>3, <4>1
      <4>2. CASE j # k
        <5>1. j <= k <=> j <= k - 1
          BY <4>2
        <5>2. QED
          BY <5>1
      <4>3. QED
        BY <4>1, <4>2
    <3> HIDE DEF Want, F, before, after
    <3>3. QED
      BY <2>1, <2>2, <3>1, <3>2 DEF before, after
  <2>4. CASE m.m_name \in DOMAIN given
    <3> DEFINE text == given[m.m_name]
    <3>1. after = Stored(before, m, text)
      BY <2>1, <2>4 DEF Passed
    <3>2. CellsOK(after)
      BY <2>1, <3>1, StoredOK
    <3>3. ASSUME NEW j \in 1 .. Count, ~Spilled(F(j), given)
          PROVE  Holds(after, F(j), Want(j, k))
      <4>1. CASE j = k
        <5>1. Want(j, k - 1) = wanted[m] /\ Want(j, k) = Wanted(m, text, wanted[m])
          <6>1. ~(j <= k - 1) /\ j <= k
            BY <4>1
          <6>2. QED
            BY <2>4, <4>1, <6>1
        <5>2. Holds(before, m, wanted[m])
          BY <2>2, <3>3, <4>1, <5>1
        <5> HIDE DEF Want, m, before, after, text
        <5>3. Holds(after, m, Wanted(m, text, wanted[m]))
          BY <2>1, <3>1, <5>2, ReadHolds DEF Holds
        <5>4. QED
          BY <4>1, <5>1, <5>3 DEF m
      <4>2. CASE j # k
        <5> DEFINE g == F(j)
        <5>1. g \in Members /\ g # m
          BY <1>1, <4>2, FieldsOf
        <5>2. Want(j, k) = Want(j, k - 1)
          <6>1. j <= k <=> j <= k - 1
            BY <4>2
          <6>2. QED
            BY <6>1
        <5>3. Holds(before, g, Want(j, k))
          BY <2>2, <3>3, <5>2
        <5>4. ~(IsBit(g) /\ SpillsOn(m, g, text))
          BY <2>1, <2>4, <3>3 DEF Spilled
        <5> HIDE DEF Want, m, g, before, after, text
        <5>5. Value(after, g) = Value(before, g)
          BY <2>1, <3>1, <5>1, <5>4, OthersHold
        <5>6. Holds(after, g, Want(j, k))
          BY <5>3, <5>5 DEF Holds
        <5>7. QED
          BY <5>6 DEF g
      <4>3. QED
        BY <4>1, <4>2
    <3>4. QED
      BY <3>2, <3>3
  <2>5. QED
    BY <2>3, <2>4
<1>5. Good(Count)
  <2> HIDE DEF Good
  <2>1. Bad = {}
    <3> SUFFICES ASSUME Bad # {} PROVE FALSE
      OBVIOUS
    <3>1. Bad \subseteq Nat
      BY <1>1
    <3>2. PICK k \in Bad : \A j \in Bad : k <= j
      BY <3>1, LeastOf
    <3>3. k # 0 /\ k \in 0 .. Count /\ ~Good(k)
      BY <1>3, <3>2
    <3>4. k \in 1 .. Count /\ k - 1 \in 0 .. Count /\ k - 1 < k
      BY <1>1, <3>3
    <3>5. Good(k - 1)
      BY <3>2, <3>4
    <3>6. QED
      BY <1>4, <3>3, <3>4, <3>5
  <2>2. QED
    BY <1>1, <2>1
<1>6. ASSUME NEW m \in Members, WantAfter(wanted, given)[m] # Unknown
      PROVE  Value(ReadAll(cells, given), m) = WantAfter(wanted, given)[m]
  <2>1. PICK j \in 1 .. Count : F(j) = m
    BY FieldsOf
  <2>2. /\ ~Spilled(m, given)
        /\ WantAfter(wanted, given)[m] = Want(j, Count)
    <3>1. j <= Count
      BY <1>1
    <3>2. WantAfter(wanted, given)[m] = IF Spilled(m, given) THEN Unknown
                     ELSE IF m.m_name \in DOMAIN given
                     THEN Wanted(m, given[m.m_name], wanted[m])
                     ELSE wanted[m]
      BY DEF WantAfter
    <3>3. QED
      BY <1>6, <2>1, <3>1, <3>2
  <2> HIDE DEF Want
  <2>3. QED
    BY <1>2, <1>5, <1>6, <2>1, <2>2 DEF Holds
<1>7. QED
  BY <1>2, <1>5, <1>6 DEF Holds

-----------------------------------------------------------------------------
(* The invariant and the calls.                                            *)

\* An element was written from the members saved with it.
Copied(d) ==
  /\ CellsOK(d.saved)
  /\ \A m \in Members : d.attr[m.m_name] = Attribute(m, d.saved[m.m_offset])

ReflectInv ==
  /\ struct \in Structs
  /\ DOMAIN mem = Objects /\ \A x \in Objects : CellsOK(mem[x])
  /\ DOMAIN want = Objects
  /\ MembersHold
  /\ \A k \in DOMAIN doc : Copied(doc[k])

LEMMA ReflectAfter ==
  ASSUME struct \in Structs, UNCHANGED struct,
         DOMAIN mem' = Objects, DOMAIN want' = Objects,
         \A x \in Objects : CellsOK(mem'[x]),
         \A x \in Objects : \A m \in Members : Holds(mem'[x], m, want'[x][m]),
         \A k \in DOMAIN doc' : Copied(doc'[k])
  PROVE  ReflectInv'
<1>1. Members' = Members
  BY DEF Members
<1>2. \A x \in Objects : CellsOK(mem[x])'
  BY <1>1 DEF CellsOK
<1>3. MembersHold'
  BY <1>1 DEF MembersHold, Holds
<1>4. \A k \in DOMAIN doc' : Copied(doc[k])'
  BY <1>1 DEF Copied, CellsOK
<1>5. QED
  BY <1>2, <1>3, <1>4 DEF ReflectInv

LEMMA InvHolds ==
  ASSUME ReflectInv, NEW x \in Objects, NEW m \in Members
  PROVE  Holds(mem[x], m, want[x][m])
BY DEF ReflectInv, MembersHold, Holds

LEMMA BlankOK ==
  ASSUME struct \in Structs, NEW u \in {0, 1}
  PROVE  /\ CellsOK(Blank(u))
         /\ \A m \in Members : m.m_type = "string" => Blank(u)[m.m_offset] = <<>>
<1>1. DOMAIN Blank(u) = {m.m_offset : m \in Members} /\ DOMAIN Bits = IntTypes
  BY ReflectAssumption DEF Blank
<1>2. ASSUME NEW m \in Members
      PROVE  /\ CellIs(m, Blank(u)[m.m_offset])
             /\ m.m_type = "string" => Blank(u)[m.m_offset] = <<>>
  <2> DEFINE g == CHOOSE g \in Members : g.m_offset = m.m_offset
             cell == CASE g.m_type \in DOMAIN Bits -> [i \in 0 .. Bits[g.m_type] - 1 |-> u]
                       [] g.m_type = "double"      -> u
                       [] g.m_type = "string"      -> <<>>
  <2>1. g \in Members /\ g.m_offset = m.m_offset
    OBVIOUS
  <2>2. Blank(u)[m.m_offset] = cell
    BY DEF Blank
  <2> HIDE DEF g
  <2>3. g.m_type = m.m_type
    BY <2>1, Apart
  <2>4. CASE m.m_type \in IntTypes
    <3>1. m.m_type # "double" /\ m.m_type # "string"
      BY <2>4, TypeFacts
    <3>2. cell = [i \in 0 .. Bits[m.m_type] - 1 |-> u]
      BY <1>1, <2>3, <2>4, <3>1
    <3> HIDE DEF cell
    <3>3. cell \in Word(Bits[m.m_type])
      BY <3>2 DEF Word
    <3>4. QED
      BY <2>2, <3>1, <3>3 DEF CellIs
  <2>5. CASE m.m_type = "double"
    <3>1. m.m_type \notin IntTypes /\ m.m_type # "string"
      BY <2>5 DEF IntTypes
    <3>2. cell = u
      BY <1>1, <2>3, <2>5, <3>1
    <3>3. QED
      BY <2>2, <3>1, <3>2, NumbersIn DEF CellIs
  <2>6. CASE m.m_type = "string"
    <3>1. m.m_type \notin IntTypes /\ m.m_type # "double"
      BY <2>6 DEF IntTypes
    <3>2. cell = <<>>
      BY <1>1, <2>3, <2>6, <3>1
    <3>3. QED
      BY <2>2, <3>1, <3>2 DEF CellIs
  <2>7. QED
    BY <2>4, <2>5, <2>6, MemberIs
<1>3. QED
  BY <1>1, <1>2 DEF CellsOK

LEMMA ReflectStart == ReflectInit => ReflectInv
<1> SUFFICES ASSUME ReflectInit PROVE ReflectInv
  OBVIOUS
<1>1. struct \in Structs
  BY DEF ReflectInit
<1>2. PICK u \in {0, 1} : mem = [x \in Objects |-> Blank(u)]
  BY DEF ReflectInit
<1>3. want = [x \in Objects |-> [m \in Members |-> IF m.m_type = "string" THEN <<>> ELSE Unknown]]
  BY DEF ReflectInit
<1>4. MembersHold
  <2> SUFFICES ASSUME NEW x \in Objects, NEW m \in Members, want[x][m] # Unknown
               PROVE  Value(mem[x], m) = want[x][m]
    BY DEF MembersHold
  <2>1. m.m_type = "string" /\ want[x][m] = <<>>
    BY <1>3
  <2>2. m.m_type \notin IntTypes /\ ~IsBit(m)
    BY <1>1, <2>1, MemberIs DEF IntTypes
  <2>3. Value(mem[x], m) = mem[x][m.m_offset]
    BY <1>1, <2>2, ValueIs
  <2>4. QED
    BY <1>1, <1>2, <2>1, <2>3, BlankOK
<1>5. DOMAIN doc = {}
  BY DEF ReflectInit
<1>6. \A x \in Objects : CellsOK(mem[x])
  BY <1>1, <1>2, BlankOK
<1>7. QED
  BY <1>1, <1>2, <1>3, <1>4, <1>5, <1>6 DEF ReflectInv

\* read_xml_data in place and set_bundle.
LEMMA ReadIntoStep ==
  ASSUME ReflectInv, UNCHANGED struct, NEW x \in Objects, NEW given, ReadInto(x, given)
  PROVE  ReflectInv'
<1>1. /\ mem' = [mem EXCEPT ![x] = ReadAll(mem[x], given)]
      /\ want' = [want EXCEPT ![x] = WantAfter(want[x], given)]
      /\ doc' = doc
  BY DEF ReadInto
<1>2. /\ struct \in Structs /\ DOMAIN mem = Objects /\ DOMAIN want = Objects
      /\ \A y \in Objects : CellsOK(mem[y])
      /\ \A k \in DOMAIN doc : Copied(doc[k])
  BY DEF ReflectInv
<1>3. /\ CellsOK(ReadAll(mem[x], given))
      /\ \A m \in Members : Holds(ReadAll(mem[x], given), m, WantAfter(want[x], given)[m])
  <2>1. \A m \in Members : Holds(mem[x], m, want[x][m])
    BY InvHolds
  <2>2. QED
    BY <1>2, <2>1, ReadAllHolds
<1>4. ASSUME NEW y \in Objects
      PROVE  CellsOK(mem'[y]) /\ \A m \in Members : Holds(mem'[y], m, want'[y][m])
  <2>1. CASE y = x
    BY <1>1, <1>2, <1>3, <2>1
  <2>2. CASE y # x
    <3>1. mem'[y] = mem[y] /\ want'[y] = want[y]
      BY <1>1, <1>2, <2>2
    <3>2. QED
      BY <1>2, <3>1, InvHolds
  <2>3. QED
    BY <2>1, <2>2
<1>5. DOMAIN mem' = Objects /\ DOMAIN want' = Objects
  BY <1>1, <1>2
<1>6. QED
  BY <1>1, <1>2, <1>4, <1>5, ReflectAfter

\* read_xml_data into an object of its own, whose first bytes are copied.
LEMMA ReadCopyStep ==
  ASSUME ReflectInv, NEW present, NEW val, NEW u \in {0, 1}, NEW size,
         ReadCopy(present, val, u, size)
  PROVE  ReflectInv'
<1> DEFINE given == Attributes(present, val)
           none == [m \in Members |-> Unknown]
           read == ReadAll(Blank(u), given)
           fresh == WantAfter(none, given)
           cells == [o \in DOMAIN mem["add"] |-> IF o <= size THEN read[o] ELSE mem["add"][o]]
           wanted == [m \in Members |-> IF m.m_offset <= size THEN fresh[m] ELSE want["add"][m]]
<1>1. /\ mem' = [mem EXCEPT !["add"] = cells] /\ want' = [want EXCEPT !["add"] = wanted]
      /\ doc' = doc /\ UNCHANGED struct
  BY DEF ReadCopy, Call
<1>2. /\ struct \in Structs /\ DOMAIN mem = Objects /\ DOMAIN want = Objects
      /\ \A y \in Objects : CellsOK(mem[y])
      /\ \A k \in DOMAIN doc : Copied(doc[k])
      /\ "add" \in Objects
  BY DEF ReflectInv, Objects
<1>3. CellsOK(read) /\ \A m \in Members : Holds(read, m, fresh[m])
  <2>1. \A m \in Members : Holds(Blank(u), m, none[m])
    BY DEF Holds
  <2> HIDE DEF none
  <2>2. QED
    BY <1>2, <2>1, BlankOK, ReadAllHolds
<1> HIDE DEF fresh, read
<1>4. ASSUME NEW m \in Members
      PROVE  CellIs(m, cells[m.m_offset]) /\ Holds(cells, m, wanted[m])
  <2>1. /\ m.m_offset \in DOMAIN mem["add"]
        /\ CellIs(m, mem["add"][m.m_offset]) /\ CellIs(m, read[m.m_offset])
    BY <1>2, <1>3 DEF CellsOK
  <2>2. Holds(mem["add"], m, want["add"][m])
    BY <1>2, InvHolds
  <2>3. CASE m.m_offset <= size
    <3>1. cells[m.m_offset] = read[m.m_offset] /\ wanted[m] = fresh[m]
      BY <2>1, <2>3
    <3> HIDE DEF cells, wanted
    <3>2. QED
      BY <1>3, <2>1, <3>1 DEF Holds, Value
  <2>4. CASE ~(m.m_offset <= size)
    <3>1. cells[m.m_offset] = mem["add"][m.m_offset] /\ wanted[m] = want["add"][m]
      BY <2>1, <2>4
    <3> HIDE DEF cells, wanted
    <3>2. QED
      BY <2>1, <2>2, <3>1 DEF Holds, Value
  <2>5. QED
    BY <2>3, <2>4
<1>5. DOMAIN cells = {m.m_offset : m \in Members}
  BY <1>2 DEF CellsOK
<1> HIDE DEF cells, wanted
<1>6. CellsOK(cells)
  BY <1>4, <1>5 DEF CellsOK
<1>7. ASSUME NEW y \in Objects
      PROVE  CellsOK(mem'[y]) /\ \A m \in Members : Holds(mem'[y], m, want'[y][m])
  <2>1. CASE y = "add"
    BY <1>1, <1>2, <1>4, <1>6, <2>1
  <2>2. CASE y # "add"
    <3>1. mem'[y] = mem[y] /\ want'[y] = want[y]
      BY <1>1, <1>2, <2>2
    <3>2. QED
      BY <1>2, <3>1, InvHolds
  <2>3. QED
    BY <2>1, <2>2
<1>8. DOMAIN mem' = Objects /\ DOMAIN want' = Objects
  BY <1>1, <1>2
<1>9. QED
  BY <1>1, <1>2, <1>7, <1>8, ReflectAfter

\* The last member at an offset is of the type of all of them, and the
\* only one if it is no bit field.
LEMMA LastIs ==
  ASSUME struct \in Structs, NEW m \in Members
  PROVE  /\ LastAt(m.m_offset) \in Members
         /\ LastAt(m.m_offset).m_type = m.m_type
         /\ ~IsBit(m) => LastAt(m.m_offset) = m
<1> DEFINE at == {k \in DOMAIN struct.fieldinfo : struct.fieldinfo[k].m_offset = m.m_offset}
           f == CHOOSE k \in at : \A j \in at : j <= k
           g == struct.fieldinfo[f]
<1>1. LastAt(m.m_offset) = g
  BY DEF LastAt
<1>2. f \in at
  <2>1. at # {} /\ at \subseteq 0 .. Len(struct.fieldinfo) /\ Len(struct.fieldinfo) \in Nat
    BY FieldsOf
  <2> HIDE DEF at
  <2>2. \E k \in at : \A j \in at : j <= k
    BY <2>1, GreatestOf
  <2>3. QED
    BY <2>2
<1> HIDE DEF f
<1>3. g \in Members /\ g.m_offset = m.m_offset
  BY <1>2, FieldsOf
<1>4. g # m => IsBit(m) /\ g.m_type = m.m_type
  BY <1>3, Apart
<1>5. QED
  BY <1>1, <1>3, <1>4

LEMMA IndexIs ==
  ASSUME struct \in Structs, NEW m \in Members
  PROVE  Index(m) \in 1 .. Len(struct.fieldinfo) /\ struct.fieldinfo[Index(m)] = m
BY FieldsOf DEF Index

\* The first round of segments.
LEMMA FirstRound ==
  ASSUME NEW n \in Nat \ {0}, NEW S, NEW segs \in [1 .. n -> S], NEW k \in 1 .. n
  PROVE  Segment(segs, k) = segs[k] /\ Len(segs) = n
<1>1. Len(segs) = n
  <2>1. segs \in Seq(S)
    OBVIOUS
  <2>2. QED
    BY <2>1
<1>2. \A p \in Nat \ {0} : \A i \in 1 .. p : ((i - 1) % p) + 1 = i
  OBVIOUS
<1>3. ((k - 1) % n) + 1 = k
  BY <1>2
<1>4. QED
  BY <1>1, <1>3 DEF Segment

\* The number a word or a double gets from a segment.
LEMMA CopiedNumber ==
  ASSUME NEW m, NEW text, NEW old, m.m_type \in {"int", "double", "string"}
  PROVE  /\ CellIs(m, CopyValueOnMemory(m, text, old))
         /\ m.m_type = "string" => CopyValueOnMemory(m, text, old) = old \o text
         /\ m.m_type = "double" => CopyValueOnMemory(m, text, old) = ToNumber("double", text)
         /\ m.m_type = "int" =>
              CopyValueOnMemory(m, text, old) = Truncated("int", ToNumber("double", text))
<1>1. "int" \in IntTypes /\ "double" \notin IntTypes /\ "string" \notin IntTypes
  BY DEF IntTypes
<1>2. ToNumber("double", text) \in Doubles /\ ToNumber("double", text) \in Int
  BY ToNumberIn, NumbersIn
<1>3. /\ m.m_type = "string" => CopyValueOnMemory(m, text, old) = old \o text
      /\ m.m_type = "double" => CopyValueOnMemory(m, text, old) = ToNumber("double", text)
      /\ m.m_type = "int" =>
           CopyValueOnMemory(m, text, old) = Truncated("int", ToNumber("double", text))
  BY DEF CopyValueOnMemory
<1>4. Truncated("int", ToNumber("double", text)) \in Word(Bits["int"])
  BY <1>1, <1>2, TruncatedWord
<1>5. CellIs(m, CopyValueOnMemory(m, text, old))
  BY <1>1, <1>2, <1>3, <1>4 DEF CellIs
<1>6. QED
  BY <1>3, <1>5

\* Parase: the last member at an offset leaves its number there.
LEMMA ParaseStep ==
  ASSUME ReflectInv, NEW n \in Nat \ {0}, NEW segs \in [1 .. n -> Segments], Parase(segs)
  PROVE  ReflectInv'
<1> DEFINE old == mem["t"]
           cells == [o \in DOMAIN old |->
                       CopyValueOnMemory(LastAt(o), Segment(segs, Index(LastAt(o))), old[o])]
           wanted == [m \in Members |->
             IF Index(m) > Len(segs) \/ IsBit(m) THEN Unknown
             ELSE IF m.m_type # "string" THEN NumberMeant(m.m_type, segs[Index(m)])
             ELSE IF want["t"][m] = Unknown THEN Unknown ELSE want["t"][m] \o segs[Index(m)]]
<1>1. /\ mem' = [mem EXCEPT !["t"] = cells] /\ want' = [want EXCEPT !["t"] = wanted]
      /\ doc' = doc /\ UNCHANGED struct /\ Simple
  BY DEF Parase, Call
<1>2. /\ struct \in Structs /\ DOMAIN mem = Objects /\ DOMAIN want = Objects
      /\ \A y \in Objects : CellsOK(mem[y])
      /\ \A k \in DOMAIN doc : Copied(doc[k])
      /\ "t" \in Objects
  BY DEF ReflectInv, Objects
<1>3. DOMAIN old = {m.m_offset : m \in Members}
  BY <1>2 DEF CellsOK
<1>4. ASSUME NEW m \in Members
      PROVE  CellIs(m, cells[m.m_offset]) /\ Holds(cells, m, wanted[m])
  <2> DEFINE g == LastAt(m.m_offset)
             text == Segment(segs, Index(g))
             cell == CopyValueOnMemory(g, text, old[m.m_offset])
  <2>1. cells[m.m_offset] = cell
    BY <1>3
  <2>2. g \in Members /\ g.m_type = m.m_type /\ (~IsBit(m) => g = m)
    BY <1>2, LastIs
  <2>3. m.m_type \in {"int", "double", "string"} /\ g.m_type \in {"int", "double", "string"}
    BY <1>1, <2>2 DEF Simple
  <2>4. CellIs(g, cell)
    BY <2>3, CopiedNumber
  <2>5. CellIs(m, cell)
    <3> HIDE DEF cell, g
    <3>1. m.m_type = "double" => ~IsBit(m)
      BY <1>2, MemberIs DEF IntTypes
    <3>2. QED
      BY <2>2, <2>4, <3>1 DEF CellIs
  <2>6. ASSUME wanted[m] # Unknown PROVE Value(cells, m) = wanted[m]
    <3>1. ~IsBit(m) /\ ~(Index(m) > Len(segs))
      BY <2>6
    <3>2. g = m /\ Index(m) \in 1 .. Len(struct.fieldinfo) /\ Len(struct.fieldinfo) \in Nat
      BY <1>2, <2>2, <3>1, IndexIs, FieldsOf
    <3>3. Len(segs) = n
      <4>1. 1 \in 1 .. n
        OBVIOUS
      <4>2. QED
        BY <4>1, FirstRound
    <3>4. Index(m) \in 1 .. n
      BY <3>1, <3>2, <3>3
    <3>5. text = segs[Index(m)]
      BY <3>2, <3>4, FirstRound
    <3>6. CASE m.m_type = "string"
      <4>1. m.m_type \notin IntTypes
        BY <3>6 DEF IntTypes
      <4>2. wanted[m] = want["t"][m] \o text /\ want["t"][m] # Unknown
        BY <2>6, <3>1, <3>5, <3>6
      <4>3. Value(old, m) = old[m.m_offset] /\ Value(cells, m) = cells[m.m_offset]
        BY <1>2, <3>1, <4>1, ValueIs
      <4>4. Value(old, m) = want["t"][m]
        BY <1>2, <4>2, InvHolds DEF Holds
      <4>5. cell = old[m.m_offset] \o text
        <5>1. cell = CopyValueOnMemory(m, text, old[m.m_offset])
          BY <3>2
        <5> HIDE DEF cell, text, old
        <5>2. QED
          BY <3>6, <5>1, Zenon DEF CopyValueOnMemory
      <4> HIDE DEF cells, wanted, text, cell, old
      <4>6. QED
        BY <2>1, <4>2, <4>3, <4>4, <4>5
    <3>7. CASE m.m_type # "string"
      <4>1. wanted[m] = NumberMeant(m.m_type, text)
        BY <3>1, <3>5, <3>7
      <4>2. wanted[m] = ToNumber("double", text) /\ ToNumber("double", text) \in Numbers(m.m_type)
        <5>1. wanted[m] = ToNumber("double", text)
          BY <2>6, <4>1 DEF NumberMeant
        <5>2. IsNumber(text) => NumberOf[text[1]] \in Numbers(m.m_type)
          BY <2>6, <4>1 DEF NumberMeant
        <5>3. 0 \in Numbers(m.m_type) /\ Numbers("double") = Doubles
          BY <2>3, <3>7, NumbersIn DEF IntTypes
        <5> HIDE DEF text, wanted
        <5>4. CASE IsNumber(text) /\ NumberOf[text[1]] \in Numbers("double")
          BY <5>1, <5>2, <5>4 DEF ToNumber
        <5>5. CASE ~(IsNumber(text) /\ NumberOf[text[1]] \in Numbers("double"))
          BY <5>1, <5>3, <5>5 DEF ToNumber
        <5>6. QED
          BY <5>1, <5>4, <5>5
      <4>3. CASE m.m_type = "int"
        <5>1. m.m_type \in IntTypes
          BY <4>3 DEF IntTypes
        <5>2. Value(cells, m) = NumberIn(m.m_type, cells[m.m_offset])
          BY <1>2, <3>1, <5>1, ValueIs
        <5>3. cell = Truncated(m.m_type, ToNumber("double", text))
          BY <2>3, <3>2, <4>3, CopiedNumber
        <5> HIDE DEF cells, wanted, text, cell
        <5>4. QED
          BY <2>1, <4>2, <5>1, <5>2, <5>3, NumberBack
      <4>4. CASE m.m_type = "double"
        <5>1. m.m_type \notin IntTypes
          BY <4>4 DEF IntTypes
        <5>2. Value(cells, m) = cells[m.m_offset]
          BY <1>2, <3>1, <5>1, ValueIs
        <5>3. cell = ToNumber("double", text)
          BY <2>3, <3>2, <4>4, CopiedNumber
        <5> HIDE DEF cells, wanted, text, cell
        <5>4. QED
          BY <2>1, <4>2, <5>2, <5>3
      <4>5. QED
        BY <2>3, <3>7, <4>3, <4>4
    <3>8. QED
      BY <3>6, <3>7
  <2>7. QED
    BY <2>1, <2>5, <2>6 DEF Holds
<1>5. DOMAIN cells = {m.m_offset : m \in Members}
  BY <1>3
<1> HIDE DEF cells, wanted
<1>6. CellsOK(cells)
  BY <1>4, <1>5 DEF CellsOK
<1>7. ASSUME NEW y \in Objects
      PROVE  CellsOK(mem'[y]) /\ \A m \in Members : Holds(mem'[y], m, want'[y][m])
  <2>1. CASE y = "t"
    BY <1>1, <1>2, <1>4, <1>6, <2>1
  <2>2. CASE y # "t"
    <3>1. mem'[y] = mem[y] /\ want'[y] = want[y]
      BY <1>1, <1>2, <2>2
    <3>2. QED
      BY <1>2, <3>1, InvHolds
  <2>3. QED
    BY <2>1, <2>2
<1>8. DOMAIN mem' = Objects /\ DOMAIN want' = Objects
  BY <1>1, <1>2
<1>9. QED
  BY <1>1, <1>2, <1>7, <1>8, ReflectAfter

\* set_val and get_val.
LEMMA CopyValStep ==
  ASSUME ReflectInv, NEW from \in Objects, NEW to \in Objects, CopyVal(from, to)
  PROVE  ReflectInv'
<1> DEFINE added(m, old, new) == IF m.m_type # "string" THEN new ELSE old \o new
           cells == [o \in DOMAIN mem[to] |-> added(LastAt(o), mem[to][o], mem[from][o])]
           wanted == [m \in Members |->
             IF Unknown \in {want[to][m], want[from][m]} /\ m.m_type = "string"
             THEN Unknown ELSE added(m, want[to][m], want[from][m])]
<1>1. /\ mem' = [mem EXCEPT ![to] = cells] /\ want' = [want EXCEPT ![to] = wanted]
      /\ doc' = doc /\ UNCHANGED struct
  BY DEF CopyVal, Call
<1>2. /\ struct \in Structs /\ DOMAIN mem = Objects /\ DOMAIN want = Objects
      /\ \A y \in Objects : CellsOK(mem[y])
      /\ \A k \in DOMAIN doc : Copied(doc[k])
  BY DEF ReflectInv
<1>3. DOMAIN mem[to] = {m.m_offset : m \in Members}
  BY <1>2 DEF CellsOK
<1>4. ASSUME NEW m \in Members
      PROVE  CellIs(m, cells[m.m_offset]) /\ Holds(cells, m, wanted[m])
  <2> DEFINE g == LastAt(m.m_offset)
             o == m.m_offset
  <2>1. cells[o] = added(g, mem[to][o], mem[from][o])
    BY <1>3
  <2>2. g \in Members /\ g.m_type = m.m_type
    BY <1>2, LastIs
  <2>3. Holds(mem[from], m, want[from][m]) /\ Holds(mem[to], m, want[to][m])
    BY InvHolds
  <2>4. CASE m.m_type # "string"
    <3>1. cells[o] = mem[from][o] /\ wanted[m] = want[from][m]
      BY <2>1, <2>2, <2>4
    <3>2. CellIs(m, mem[from][o])
      BY <1>2 DEF CellsOK
    <3> HIDE DEF cells, wanted
    <3>3. QED
      BY <2>3, <3>1, <3>2 DEF Holds, Value
  <2>5. CASE m.m_type = "string"
    <3>1. m.m_type \notin IntTypes /\ m.m_type # "double" /\ ~IsBit(m)
      BY <1>2, <2>5, MemberIs DEF IntTypes
    <3>2. cells[o] = mem[to][o] \o mem[from][o]
      BY <2>1, <2>2, <2>5
    <3>3. CellIs(m, cells[o])
      BY <3>1 DEF CellIs
    <3>4. ASSUME wanted[m] # Unknown PROVE Value(cells, m) = wanted[m]
      <4>1. /\ want[to][m] # Unknown /\ want[from][m] # Unknown
            /\ wanted[m] = want[to][m] \o want[from][m]
        BY <2>5, <3>4
      <4>2. Value(mem[to], m) = want[to][m] /\ Value(mem[from], m) = want[from][m]
        BY <2>3, <4>1 DEF Holds
      <4>3. /\ Value(mem[to], m) = mem[to][o] /\ Value(mem[from], m) = mem[from][o]
            /\ Value(cells, m) = cells[o]
        BY <1>2, <3>1, ValueIs
      <4> HIDE DEF cells, wanted
      <4>4. QED
        BY <3>2, <4>1, <4>2, <4>3
    <3>5. QED
      BY <3>3, <3>4 DEF Holds
  <2>6. QED
    BY <2>4, <2>5
<1>5. DOMAIN cells = {m.m_offset : m \in Members}
  BY <1>3
<1> HIDE DEF cells, wanted
<1>6. CellsOK(cells)
  BY <1>4, <1>5 DEF CellsOK
<1>7. ASSUME NEW y \in Objects
      PROVE  CellsOK(mem'[y]) /\ \A m \in Members : Holds(mem'[y], m, want'[y][m])
  <2>1. CASE y = to
    BY <1>1, <1>2, <1>4, <1>6, <2>1
  <2>2. CASE y # to
    <3>1. mem'[y] = mem[y] /\ want'[y] = want[y]
      BY <1>1, <1>2, <2>2
    <3>2. QED
      BY <1>2, <3>1, InvHolds
  <2>3. QED
    BY <2>1, <2>2
<1>8. DOMAIN mem' = Objects /\ DOMAIN want' = Objects
  BY <1>1, <1>2
<1>9. QED
  BY <1>1, <1>2, <1>7, <1>8, ReflectAfter

\* write_xml_doc: every member by its name.
LEMMA WriteDocStep ==
  ASSUME ReflectInv, NEW n \in Nat, NEW xs \in [1 .. n -> Objects], WriteDoc(xs)
  PROVE  ReflectInv'
<1>1. /\ mem' = mem /\ want' = want /\ UNCHANGED struct
      /\ doc' = [k \in DOMAIN xs |-> Written(xs[k])]
  BY DEF WriteDoc, Call
<1>2. /\ struct \in Structs /\ DOMAIN mem = Objects /\ DOMAIN want = Objects
      /\ \A y \in Objects : CellsOK(mem[y])
  BY DEF ReflectInv
<1>3. ASSUME NEW x \in Objects PROVE Copied(Written(x))
  <2>1. Written(x).saved = mem[x]
    BY DEF Written
  <2>2. ASSUME NEW m \in Members
        PROVE  Written(x).attr[m.m_name] = Attribute(m, mem[x][m.m_offset])
    <3> DEFINE g == CHOOSE g \in Members : g.m_name = m.m_name
    <3>1. m.m_name \in Names
      BY DEF Names
    <3>2. Written(x).attr[m.m_name] = Attribute(g, mem[x][g.m_offset])
      BY <3>1 DEF Written
    <3>3. g \in Members /\ g.m_name = m.m_name
      OBVIOUS
    <3> HIDE DEF g
    <3>4. g = m
      BY <1>2, <3>3, NamedApart
    <3>5. QED
      BY <3>2, <3>4
  <2>3. QED
    BY <1>2, <2>1, <2>2 DEF Copied
<1>4. ASSUME NEW k \in DOMAIN doc' PROVE Copied(doc'[k])
  <2>1. k \in 1 .. n /\ doc'[k] = Written(xs[k]) /\ xs[k] \in Objects
    BY <1>1
  <2>2. QED
    BY <1>3, <2>1
<1>5. \A y \in Objects : CellsOK(mem'[y]) /\ \A m \in Members : Holds(mem'[y], m, want'[y][m])
  BY <1>1, <1>2, InvHolds
<1>6. QED
  BY <1>1, <1>2, <1>4, <1>5, ReflectAfter

LEMMA ReflectUnchanged ==
  ASSUME ReflectInv, UNCHANGED <<struct, mem, doc, want>>
  PROVE  ReflectInv'
<1>1. /\ struct \in Structs /\ DOMAIN mem = Objects /\ DOMAIN want = Objects
      /\ \A y \in Objects : CellsOK(mem[y])
      /\ \A k \in DOMAIN doc : Copied(doc[k])
  BY DEF ReflectInv
<1>2. \A y \in Objects : \A m \in Members : Holds(mem[y], m, want[y][m])
  BY InvHolds
<1>3. QED
  BY <1>1, <1>2, ReflectAfter

LEMMA ReflectStep == ReflectInv /\ [ReflectNext]_reflectVars => ReflectInv'
<1> SUFFICES ASSUME ReflectInv, [ReflectNext]_reflectVars PROVE ReflectInv'
  OBVIOUS
<1>1. ASSUME NEW n, NEW v, ReadMember(n, v) PROVE ReflectInv'
  BY <1>1, ReadIntoStep DEF ReadMember, Call, Objects
<1>2. ASSUME NEW n, NEW v, Put(n, v) PROVE ReflectInv'
  BY <1>2, ReflectUnchanged DEF Put, Call
<1>3. ASSUME NEW D, NEW v, ReadElement(D, v) PROVE ReflectInv'
  BY <1>3, ReadIntoStep DEF ReadElement, Call, Objects
<1>4. ASSUME NEW k, ReadWritten(k) PROVE ReflectInv'
  BY <1>4, ReadIntoStep DEF ReadWritten, Call, Objects
<1>5. ASSUME NEW D, NEW v, NEW u \in {0, 1}, NEW size, ReadCopy(D, v, u, size) PROVE ReflectInv'
  BY <1>5, ReadCopyStep
<1>6. ASSUME SetBundle PROVE ReflectInv'
  BY <1>6, ReadIntoStep DEF SetBundle, Call, Objects
<1>7. ASSUME NEW n \in DOMAIN struct.fieldinfo, NEW segs \in [1 .. n -> Segments], Parase(segs)
      PROVE  ReflectInv'
  <2>1. n \in Nat \ {0}
    BY FieldsOf DEF ReflectInv
  <2>2. QED
    BY <1>7, <2>1, ParaseStep
<1>8. ASSUME CopyVal("t", "add") \/ CopyVal("add", "t") PROVE ReflectInv'
  BY <1>8, CopyValStep DEF Objects
<1>9. ASSUME NEW xs \in {<<"t">>, <<"t", "add">>}, WriteDoc(xs) PROVE ReflectInv'
  <2>1. xs \in [1 .. 1 -> Objects] \/ xs \in [1 .. 2 -> Objects]
    BY DEF Objects
  <2>2. QED
    BY <1>9, <2>1, WriteDocStep
<1>10. CASE UNCHANGED reflectVars
  BY <1>10, ReflectUnchanged DEF reflectVars
<1>11. QED
  BY <1>1, <1>2, <1>3, <1>4, <1>5, <1>6, <1>7, <1>8, <1>9, <1>10 DEF ReflectNext

LEMMA ReflectReaches == ReflectSpec => []ReflectInv
<1>1. QED
  BY ReflectStart, ReflectStep, PTL DEF ReflectSpec

\* read_xml_data, set_bundle, Parase, set_val and get_val, in any order and
\* of any texts: each member of each struct holds what the calls since
\* should have made of it, whatever the other fields of its word got.
THEOREM MembersKeepValues == ReflectSpec => []MembersHold
<1>1. ReflectInv => MembersHold
  BY DEF ReflectInv
<1>2. QED
  BY <1>1, ReflectReaches, PTL

\* What write_xml_attribute writes, read_xml_data reads back as it was.
THEOREM SavedReadsBack == ReflectSpec => []SavedComesBack
<1>1. ASSUME ReflectInv PROVE SavedComesBack
  <2> SUFFICES ASSUME NEW k \in DOMAIN doc, NEW m \in Members,
                      ~IsBit(m) /\ ~IsEnum(m),
                      m.m_type = "double" => Shown(doc[k].saved[m.m_offset])
                                               = doc[k].saved[m.m_offset]
               PROVE  StringData(m, doc[k].attr[m.m_name], doc[k].saved[m.m_offset])
                        = doc[k].saved[m.m_offset]
    BY DEF SavedComesBack
  <2> DEFINE saved == doc[k].saved[m.m_offset]
             text == doc[k].attr[m.m_name]
  <2>1. struct \in Structs /\ CellIs(m, saved) /\ text = Attribute(m, saved)
    BY <1>1 DEF ReflectInv, Copied, CellsOK
  <2>2. DOMAIN Bits = IntTypes
    BY ReflectAssumption
  <2>3. m.m_type # "string" => NumberRead(m, text) = ToNumber(ReadAs(m.m_type), text)
    BY DEF NumberRead
  <2> HIDE DEF text, saved
  <2>4. ASSUME NEW type \in IntTypes \cup {"double"}, NEW n \in Numbers(type)
        PROVE  ToNumber(type, <<Digits(n)>>) = n
    <3>1. n \in Doubles
      BY NumbersIn
    <3>2. Digits(n) \in DOMAIN NumberOf /\ NumberOf[Digits(n)] = n
      BY <3>1, NumberOfIs
    <3>3. IsNumber(<<Digits(n)>>) /\ <<Digits(n)>>[1] = Digits(n)
      BY <3>2 DEF IsNumber
    <3>4. QED
      BY <3>2, <3>3 DEF ToNumber
  <2>5. CASE m.m_type \in IntTypes
    <3> DEFINE n == NumberIn(m.m_type, saved)
    <3>1. n \in Numbers(m.m_type) /\ Truncated(m.m_type, n) = saved
      BY <2>1, <2>5, WordBack DEF CellIs
    <3>2. text = <<Digits(n)>>
      BY <2>1, <2>2, <2>5, TypeFacts DEF Attribute
    <3>3. ReadAs(m.m_type) \in IntTypes \cup {"double"} /\ n \in Numbers(ReadAs(m.m_type))
      BY <2>5, <3>1, ReadAsWider
    <3> HIDE DEF n
    <3>4. ToNumber(ReadAs(m.m_type), text) = n
      BY <2>4, <3>2, <3>3
    <3>5. m.m_type # "string"
      BY <2>5, TypeFacts
    <3>6. StringData(m, text, saved) = Truncated(m.m_type, n)
      BY <2>1, <2>3, <2>5, <3>4, <3>5, DataIs DEF StringToData
    <3>7. QED
      BY <3>1, <3>6 DEF text, saved
  <2>6. CASE m.m_type = "double"
    <3>1. m.m_type \notin IntTypes /\ m.m_type # "string" /\ ReadAs(m.m_type) = "double"
      BY <2>6 DEF IntTypes, ReadAs
    <3>2. saved \in Doubles /\ Shown(saved) = saved
      BY <2>1, <2>6 DEF CellIs, saved
    <3>3. text = <<Digits(saved)>>
      BY <2>1, <2>2, <2>6, <3>1, <3>2 DEF Attribute
    <3>4. ToNumber("double", text) = saved
      BY <2>4, <3>2, <3>3, NumbersIn
    <3>5. StringData(m, text, saved) = saved
      BY <2>1, <2>3, <2>6, <3>1, <3>4, DataIs
    <3>6. QED
      BY <3>5 DEF text, saved
  <2>7. CASE m.m_type = "string"
    <3>1. m.m_type \notin IntTypes /\ m.m_type # "double"
      BY <2>7 DEF IntTypes
    <3>2. text = saved
      BY <2>1, <2>2, <2>7, <3>1 DEF Attribute
    <3>3. StringData(m, text, saved) = text
      BY <2>1, <2>7, DataIs
    <3>4. QED
      BY <3>2, <3>3 DEF text, saved
  <2>8. QED
    BY <2>1, <2>5, <2>6, <2>7, MemberIs DEF text, saved
<1>2. QED
  BY <1>1, ReflectReaches, PTL

=============================================================================
