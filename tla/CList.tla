------------------------------- MODULE CList --------------------------------
(***************************************************************************)
(* C_LIST_T (prodata/clist.h): N nodes on two singly linked lists, the     *)
(* used one (rw_P) and the free one (free_P).  Every operation runs under  *)
(* the mutex, so it is one action; what leaves the lock is the pointer     *)
(* that buf_read_data returns, and a thread may hand it to                 *)
(* delete_list_data(DTYPE* ) at any later moment.  A condition function is *)
(* the set of values it accepts.  delete_list_data(DTYPE& ) passes a       *)
(* member function where a plain one is needed and cannot be compiled.     *)
(* The names have a prefix where DiffShare, with which StoreProofs reads   *)
(* this module, has the same ones.                                         *)
(***************************************************************************)
EXTENDS Integers, Sequences

CONSTANTS N, Elements, Conditions, Threads

ASSUME ListAssumption ==
  /\ N \in Nat \ {0} /\ Conditions \subseteq SUBSET Elements

VARIABLES
  buf,            \* the value of each node
  next,           \* its successor, or NULL
  rw_P, free_P,   \* the heads of the two lists
  held,           \* the pointer each thread got from buf_read_data
  answer          \* the last operation and what it returned, or "crash"

nodeVars == <<buf, next, rw_P, free_P>>
listVars == <<nodeVars, held, answer>>

Nodes == 1 .. N
NULL == 0
Unset == "unset"    \* the zeroes of the constructor

FirstLinks == [n \in Nodes |-> IF n < N THEN n + 1 ELSE NULL]

ListInit ==
  /\ buf = [n \in Nodes |-> Unset]
  /\ next = FirstLinks
  /\ free_P = 1 /\ rw_P = NULL
  /\ held = [t \in Threads |-> NULL]
  /\ answer = <<"init", "0">>

Alive == answer[2] # "crash"

\* s is what is met on the links from a head up to their end, or in N steps.
Follows(s, links, head) ==
  /\ IF s = <<>> THEN head = NULL ELSE s[1] = head
  /\ \A k \in DOMAIN s :
       IF k < Len(s) THEN s[k + 1] = links[s[k]] ELSE links[s[k]] = NULL \/ k = N

Walk(links, head) ==
  CHOOSE s \in UNION {[1 .. k -> Nodes] : k \in 0 .. N} : Follows(s, links, head)

Used   == Walk(next, rw_P)
Unused == Walk(next, free_P)
Accepted(cond) == {k \in DOMAIN Used : buf[Used[k]] \in cond}

-----------------------------------------------------------------------------

\* buf_write_data: the first free node becomes the head of the used list.
WriteData(val) ==
  /\ Alive
  /\ IF free_P # NULL
     THEN /\ buf' = [buf EXCEPT ![free_P] = val]
          /\ next' = [next EXCEPT ![free_P] = rw_P]
          /\ rw_P' = free_P /\ free_P' = next[free_P]
          /\ answer' = <<"write", "0">>
     ELSE answer' = <<"write", "-1">> /\ UNCHANGED nodeVars
  /\ UNCHANGED held

\* Mutant of Unlinked: the predecessor keeps its link to the node.
Unlinked_kept(k) == [next EXCEPT ![Used[k]] = free_P]

\* The links after the k-th used node went to the head of the free list.
Unlinked(k) ==
  LET links == [next EXCEPT ![Used[k]] = free_P]
  IN  IF k = 1 THEN links ELSE [links EXCEPT ![Used[k - 1]] = next[Used[k]]]

Release(k) ==
  /\ rw_P' = IF k = 1 THEN next[Used[1]] ELSE rw_P
  /\ next' = Unlinked(k) /\ free_P' = Used[k]
  /\ UNCHANGED buf

\* Mutant of FirstMatch: the search runs on to the last match.
FirstMatch_last(cond) == CHOOSE k \in Accepted(cond) :
                           \A j \in Accepted(cond) : j <= k

FirstMatch(cond) == CHOOSE k \in Accepted(cond) : \A j \in Accepted(cond) : k <= j

\* condition_delete_list_data: -2 when nothing matches; the -3 of an empty
\* list is overwritten.
ConditionDelete(cond) ==
  /\ Alive
  /\ IF Accepted(cond) # {}
     THEN Release(FirstMatch(cond)) /\ answer' = <<"match", "0">>
     ELSE answer' = <<"match", "-2">> /\ UNCHANGED nodeVars
  /\ UNCHANGED held

\* buf_read_data does not stop at a match: the last one's address returns.
LastMatch(cond) == CHOOSE k \in Accepted(cond) : \A j \in Accepted(cond) : j <= k

ReadData(t, cond) ==
  /\ Alive
  /\ LET node == IF Accepted(cond) # {} THEN Used[LastMatch(cond)] ELSE NULL
     IN  /\ held' = [held EXCEPT ![t] = node]
         /\ answer' = <<"read", IF node = NULL THEN "NULL" ELSE buf[node]>>
  /\ UNCHANGED nodeVars

\* delete_list_data(DTYPE* ) with a pointer that is not in the list runs to
\* the end and reads through NULL.
Missing(node) == node \notin {Used[k] : k \in DOMAIN Used}

DeletePointer(t) ==
  /\ Alive
  /\ IF held[t] = NULL \/ rw_P = NULL
     THEN answer' = <<"pointer", "-1">> /\ UNCHANGED nodeVars
     ELSE IF Missing(held[t])
          THEN answer' = <<"pointer", "crash">> /\ UNCHANGED nodeVars
          ELSE /\ Release(CHOOSE k \in DOMAIN Used : Used[k] = held[t])
               /\ answer' = <<"pointer", "0">>
  /\ UNCHANGED held

ListNext ==
  \/ \E val \in Elements : WriteData(val)
  \/ \E cond \in Conditions : ConditionDelete(cond)
  \/ \E t \in Threads, cond \in Conditions : ReadData(t, cond)
  \/ \E t \in Threads : DeletePointer(t)

ListSpec == ListInit /\ [][ListNext]_listVars

-----------------------------------------------------------------------------
(* Properties.                                                             *)

\* Types of the nodes, the heads and the pointers of the threads.
ListTypeOK ==
  /\ buf \in [Nodes -> Elements \cup {Unset}]
  /\ next \in [Nodes -> Nodes \cup {NULL}]
  /\ {rw_P, free_P} \subseteq Nodes \cup {NULL}
  /\ held \in [Threads -> Nodes \cup {NULL}]
  /\ answer \in {"init", "write", "match", "read", "pointer"}
               \X ({"0", "-1", "-2", "NULL", "crash", Unset} \cup Elements)

\* No node is lost, shared or looped, however long the sequence of writes and
\* deletes: the two lists end, and between them hold every node once (types).
NodesPartitioned ==
  LET both == Used \o Unused
  IN  /\ ListTypeOK
      /\ Len(both) = N
      /\ \A n \in Nodes : \E k \in DOMAIN both : both[k] = n

Store == INSTANCE ListStore
           WITH Values <- Elements, items <- [k \in DOMAIN Used |-> buf[Used[k]]]

\* The two linked lists implement a bounded store that deletes the newest
\* match and reads the oldest one, with these return codes.
ImplementsStore == Store!Spec

=============================================================================
