----------------------------- MODULE MCStreamServer -----------------------------
(* The messages: every number, before and after each RESET. *)
EXTENDS StreamServer

MCMsgs == [seqNo : 1 .. MaxSeqNo, epoch : 0 .. MaxCommands]

================================================================================
