------------------------------ MODULE OrderCustody ------------------------------
(***************************************************************************)
(* What captain dispatch promises, with offers, handoffs, admission and    *)
(* the outbox left out: an order is in the hands of at most one captain, a *)
(* captain serves one order at a time, an order can be taken back from its *)
(* captain only before pickup, and once it has been picked up the same     *)
(* captain carries it to the customer, failed attempts included.  Dispatch *)
(* implements this specification (Dispatch!CustodyChain).                  *)
(***************************************************************************)
CONSTANTS Orders, Captains, None

VARIABLES
  holder,    \* holder[o]: the captain serving or having delivered o
  stage      \* stage[o]: how far o has come

vars == <<holder, stage>>

Init ==
  /\ holder = [o \in Orders |-> None]
  /\ stage = [o \in Orders |-> "waiting"]

Free(c) == \A o \in Orders : holder[o] = c => stage[o] = "done"

Assign(o, c) ==
  /\ stage[o] = "waiting" /\ Free(c)
  /\ holder' = [holder EXCEPT ![o] = c]
  /\ stage' = [stage EXCEPT ![o] = "assigned"]

TakeBack(o) ==
  /\ stage[o] = "assigned"
  /\ holder' = [holder EXCEPT ![o] = None]
  /\ stage' = [stage EXCEPT ![o] = "waiting"]

Move(o, from, to) ==
  /\ stage[o] = from
  /\ stage' = [stage EXCEPT ![o] = to]
  /\ UNCHANGED holder

Next == \E o \in Orders :
  \/ \E c \in Captains : Assign(o, c)
  \/ TakeBack(o)
  \/ Move(o, "assigned", "carried")
  \/ Move(o, "carried", "failed")
  \/ Move(o, "failed", "carried")
  \/ Move(o, "carried", "done")

Spec == Init /\ [][Next]_vars
=============================================================================
