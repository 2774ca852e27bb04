--------------------------- MODULE CallbackQueue ----------------------------
(***************************************************************************)
(* What a buffer with a callback thread promises its users, whatever its   *)
(* ring, mutex and semaphore look like: of the messages it accepted it     *)
(* keeps at most Capacity, hands each to the callback at most once and in  *)
(* the order of acceptance, and only the oldest one may be lost instead    *)
(* (an empty message, or a worker cancelled inside the callback).          *)
(***************************************************************************)
EXTENDS Naturals, Sequences

CONSTANTS Messages, Capacity

VARIABLES pending, called

Init == pending = <<>> /\ called = <<>>

Accept(m) ==
  /\ Len(pending) < Capacity
  /\ pending' = Append(pending, m)
  /\ UNCHANGED called

Deliver ==
  /\ pending # <<>>
  /\ called' = Append(called, Head(pending))
  /\ pending' = Tail(pending)

Lose ==
  /\ pending # <<>>
  /\ pending' = Tail(pending)
  /\ UNCHANGED called

Next == (\E m \in Messages : Accept(m)) \/ Deliver \/ Lose

Spec == Init /\ [][Next]_<<pending, called>>

=============================================================================
