----------------------------- MODULE ListStore ------------------------------
(***************************************************************************)
(* What C_LIST_T promises, without its nodes: at most N values, the newest *)
(* first.  A condition deletes the newest value it accepts and reads the   *)
(* oldest one; a pointer deletes one value.  answer is the last operation  *)
(* and what it returned.                                                   *)
(***************************************************************************)
EXTENDS Integers, SequencesExt

CONSTANTS N, Values, Conditions

VARIABLES items, answer

Init == items = <<>> /\ answer = <<"init", "0">>

Accepted(cond) == {i \in DOMAIN items : items[i] \in cond}
Newest(cond) == CHOOSE i \in Accepted(cond) : \A j \in Accepted(cond) : i <= j
Oldest(cond) == CHOOSE i \in Accepted(cond) : \A j \in Accepted(cond) : j <= i

Write(val) ==
  IF Len(items) < N THEN items' = <<val>> \o items /\ answer' = <<"write", "0">>
                    ELSE UNCHANGED items /\ answer' = <<"write", "-1">>

DeleteMatch(cond) ==
  IF Accepted(cond) # {}
  THEN items' = RemoveAt(items, Newest(cond)) /\ answer' = <<"match", "0">>
  ELSE UNCHANGED items /\ answer' = <<"match", "-2">>

Read(cond) ==
  /\ UNCHANGED items
  /\ answer' = <<"read", IF Accepted(cond) # {} THEN items[Oldest(cond)] ELSE "NULL">>

DeletePointer ==
  \/ answer' = <<"pointer", "0">> /\ \E i \in DOMAIN items : items' = RemoveAt(items, i)
  \/ answer' = <<"pointer", "-1">> /\ UNCHANGED items

Crash == answer' = <<"pointer", "crash">> /\ UNCHANGED items

Next == \/ \E val \in Values : Write(val)
        \/ \E cond \in Conditions : DeleteMatch(cond) \/ Read(cond)
        \/ DeletePointer \/ Crash

Spec == Init /\ [][Next]_<<items, answer>>

=============================================================================
