----------------------------- MODULE LineInput ------------------------------
(* What the console promises its readers: keys collect in a line that can  *)
(* still be edited; a newline, an end of file or a full buffer commits it; *)
(* readers take committed characters in order, a call never reads past the *)
(* end of a line, and an end of file is taken only by a call that has read *)
(* nothing, which so returns 0 bytes.  Nobody waits while characters are   *)
(* committed.                                                              *)
EXTENDS Integers, Sequences

CONSTANTS Users, Chars, Newline, EndOfFile, Capacity

VARIABLES done, edit, got, waiting

vars == <<done, edit, got, waiting>>

Init == done = <<>> /\ edit = <<>> /\ got = [u \in Users |-> <<>>] /\ waiting = {}

Type(c) ==
  LET l == Append(edit, c)
      commits == c \in {Newline, EndOfFile} \/ Len(done) + Len(l) = Capacity
  IN /\ Len(done) + Len(edit) < Capacity
     /\ done' = IF commits THEN done \o l ELSE done
     /\ edit' = IF commits THEN <<>> ELSE l
     /\ waiting' = IF commits THEN {} ELSE waiting
     /\ UNCHANGED got

Erase == edit # <<>> /\ \E n \in 1..Len(edit) :
           /\ edit' = SubSeq(edit, 1, Len(edit) - n)
           /\ n \in {1, Len(edit)}
           /\ UNCHANGED <<done, got, waiting>>

Call(u) == got' = [got EXCEPT ![u] = <<>>] /\ UNCHANGED <<done, edit, waiting>>

\* u takes k characters; it may then wait, if it has taken them all.
Take(u, k) ==
  LET t == SubSeq(done, 1, k)
      last == k > 0 /\ t[k] \in {Newline, EndOfFile}
  IN /\ \A i \in 1..k - 1 : t[i] \notin {Newline, EndOfFile}
     /\ got[u] # <<>> => got[u][Len(got[u])] # Newline
     /\ IF last /\ t[k] = EndOfFile
        THEN k = 1 /\ got[u] = <<>> /\ UNCHANGED got
        ELSE got' = [got EXCEPT ![u] = @ \o t]
     /\ done' = SubSeq(done, k + 1, Len(done))
     /\ waiting' \in {waiting} \cup (IF done' = <<>> /\ ~last THEN {waiting \cup {u}} ELSE {})
     /\ UNCHANGED edit

Stir == waiting' \in SUBSET waiting /\ UNCHANGED <<done, edit, got>>

Next ==
  \/ \E c \in Chars \cup {Newline, EndOfFile} : Type(c)
  \/ Erase
  \/ \E u \in Users : Call(u) \/ \E k \in 0..Len(done) : Take(u, k)
  \/ Stir

Spec == Init /\ [][Next]_vars
=============================================================================
