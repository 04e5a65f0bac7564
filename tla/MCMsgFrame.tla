----------------------------- MODULE MCMsgFrame -----------------------------
(* MsgFrame with two byte values and a delimiter of two bytes, "\r\n" say. *)
EXTENDS MsgFrame

MCDelimiter == <<0, 1>>
=============================================================================
