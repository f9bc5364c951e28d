-------------------------------- MODULE OrderMap --------------------------------
(***************************************************************************)
(* What the order book relies on in its order store: a map from order ids  *)
(* to records that holds at most Capacity different ids and, as single     *)
(* entries are never removed, refuses a new id once it holds that many.    *)
(***************************************************************************)
EXTENDS Naturals, FiniteSets

CONSTANTS OrderIds, Values,   \* ids, and what is stored besides the cancelled mark
          Capacity,           \* entries there is room for
          NoOrder             \* the value of an id never inserted

VARIABLE orders   \* orders[id] is NoOrder or [val, cancelled]

Records == [val : Values, cancelled : BOOLEAN]
Known == {id \in OrderIds : orders[id] # NoOrder}

Init == orders = [id \in OrderIds |-> NoOrder]

Put(id, v) ==
  /\ id \in Known \/ Cardinality(Known) < Capacity
  /\ orders' = [orders EXCEPT ![id] = [val |-> v, cancelled |-> FALSE]]

\* A live record changes in place or is cancelled.  A cancelled one keeps its entry,
\* and only Put revives it.
Amend(id, r) ==
  /\ id \in Known /\ ~orders[id].cancelled
  /\ orders' = [orders EXCEPT ![id] = r]

Clear == orders' = [id \in OrderIds |-> NoOrder]

Next ==
  \/ \E id \in OrderIds :
       \/ \E v \in Values : Put(id, v)
       \/ \E r \in Records : Amend(id, r)
  \/ Clear

Spec == Init /\ [][Next]_orders

================================================================================
