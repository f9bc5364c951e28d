------------------------------ MODULE MCOrderTable ------------------------------
(* Four slots and five ids, one more than fits; hashes that collide and wrap. *)
EXTENDS OrderTable, TLC

CONSTANTS o1, o2, o3, o4, o5

MCHash ==
  (o1 :> 3) @@ (o2 :> 3) @@ (o3 :> 0) @@ (o4 :> 3) @@ (o5 :> 2)

================================================================================
