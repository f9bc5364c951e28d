----------------------------- MODULE MCSPSCBenchmark -----------------------------
(* A feed of six messages, three times the ring of two slots. *)
EXTENDS SPSCBenchmark

CONSTANTS m1, m2

MCFeed == <<m1, m2, m2, m1, m1, m2>>

================================================================================
