----------------------------- MODULE EvBufferMC -----------------------------
(* Two buffers that are given strings of one byte.                         *)
EXTENDS EvBuffer

CONSTANTS byte1, byte2

MCInput == {<<byte1>>, <<byte2>>}
=============================================================================
