----------------------------- MODULE ByteStream -----------------------------
(***************************************************************************)
(* What a pipe promises: the bytes of a write go into one queue, in order  *)
(* and each once; a read takes bytes from its front; a read finds the end  *)
(* of the stream only when the queue is empty and nobody can write.        *)
(***************************************************************************)
EXTENDS Integers, Sequences

CONSTANTS Proc, Capacity, None

VARIABLES
  queue,  \* bytes in the pipe
  out,    \* out[p]: bytes that p's write has still to put
  got,    \* got[p]: what p's read returns, or None
  wopen   \* somebody may still write

bsVars == <<queue, out, got, wopen>>

BSInit ==
  /\ queue = <<>>
  /\ out = [p \in Proc |-> <<>>]
  /\ got = [p \in Proc |-> None]
  /\ wopen = FALSE

BSWrite(p) ==
  /\ wopen
  /\ out[p] = <<>>
  /\ out' = [out EXCEPT ![p] = out'[p]]
  /\ UNCHANGED <<queue, got, wopen>>

(* Part of a write; the writer may give up when the pipe is full then. *)
BSPut(p) ==
  \E k \in 0..Len(out[p]) :
    /\ Len(queue) + k <= Capacity
    /\ queue' = queue \o SubSeq(out[p], 1, k)
    /\ \/ out' = [out EXCEPT ![p] = SubSeq(@, k + 1, Len(@))]
       \/ out' = [out EXCEPT ![p] = <<>>] /\ Len(queue) + k = Capacity
    /\ UNCHANGED <<got, wopen>>

BSGet(p) ==
  \E k \in 1..Len(queue) :
    /\ got' = [got EXCEPT ![p] = SubSeq(queue, 1, k)]
    /\ queue' = SubSeq(queue, k + 1, Len(queue))
    /\ UNCHANGED <<out, wopen>>

BSEnd(p) ==
  /\ queue = <<>>
  /\ ~wopen
  /\ got' = [got EXCEPT ![p] = <<>>]
  /\ UNCHANGED <<queue, out, wopen>>

(* The caller has its bytes. *)
BSReturn(p) ==
  /\ got' = [got EXCEPT ![p] = None]
  /\ UNCHANGED <<queue, out, wopen>>

(* Closing the last end throws away what nobody can read any more. *)
BSClose ==
  /\ wopen' = FALSE
  /\ queue' \in {queue, <<>>}
  /\ UNCHANGED <<out, got>>

BSOpen ==
  /\ ~wopen
  /\ queue = <<>>
  /\ wopen' = TRUE
  /\ UNCHANGED <<queue, out, got>>

BSNext ==
  \/ \E p \in Proc : BSWrite(p) \/ BSPut(p) \/ BSGet(p) \/ BSEnd(p) \/ BSReturn(p)
  \/ BSClose \/ BSOpen

BSSpec == BSInit /\ [][BSNext]_bsVars
=============================================================================
