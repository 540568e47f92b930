------------------------------- MODULE MCPipe -------------------------------
(* Pipe with a pipe of two bytes and counters that wrap around after four: *)
(* the bytes of a write do not fit at once.                                *)
EXTENDS Pipe

MCWrites == {<<1, 2, 1>>}
=============================================================================
