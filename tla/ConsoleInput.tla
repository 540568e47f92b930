---------------------------- MODULE ConsoleInput ----------------------------
(* The console's input side (console.c): the keyboard interrupt fills a    *)
(* ring of INPUT_BUF characters and edits the line in it, processes read   *)
(* it under cons.lock.  Both sides hold the lock from their first look at  *)
(* the ring to the last, the reader up to its sleep, so each is one step.  *)
(* The indices only grow; UINT is the number of values of a uint.  Output  *)
(* (consputc, the CGA screen) is not modelled.                             *)
EXTENDS Integers, FiniteSetsExt, Sequences

CONSTANTS
  Reader,     \* processes that read the console
  Char,       \* ordinary characters
  INPUT_BUF,  \* size of the ring
  UINT,       \* number of values of an index, a multiple of INPUT_BUF
  MaxRead     \* most bytes a read asks for

ASSUME RingDivides == UINT % INPUT_BUF = 0 /\ INPUT_BUF < UINT

VARIABLES
  input,      \* the ring and its indices r, w and e
  rd          \* reader -> where it is in consoleread

consoleVars == <<input, rd>>

NL == "\n"

CtrlD == "^D"

plus(i, k) == (i + k) % UINT

from(i, j) == (j - i) % UINT

slotOf(i) == i % INPUT_BUF

held(i, j) == [k \in 1..from(i, j) |-> input.buf[slotOf(plus(i, k - 1))]]

\* wakeup(&input.r)
woken == [p \in Reader |-> IF rd[p].pc = "asleep" THEN [rd[p] EXCEPT !.pc = "read"] ELSE rd[p]]

-----------------------------------------------------------------------------
(* consoleintr, one key a step.                                            *)

CtrlU ==
  LET back == {k \in 0..from(input.w, input.e) :
                 \A j \in 1..k : input.buf[slotOf(plus(input.e, -j))] # NL}
  IN input' = [input EXCEPT !.e = plus(@, -Max(back))] /\ UNCHANGED rd

mayEraseAny == input.e # input.r

mayErase == input.e # input.w

Backspace ==
  /\ mayErase
  /\ input' = [input EXCEPT !.e = plus(@, -1)]
  /\ UNCHANGED rd

Key(c) ==
  LET e == plus(input.e, 1)
      commits == c \in {NL, CtrlD} \/ from(input.r, e) = INPUT_BUF
  IN /\ from(input.r, input.e) < INPUT_BUF
     /\ input' = [input EXCEPT !.buf[slotOf(input.e)] = c, !.e = e,
                               !.w = IF commits THEN e ELSE @]
     /\ rd' = IF commits THEN woken ELSE rd

-----------------------------------------------------------------------------
(* consoleread.                                                            *)

Idle == [pc |-> "user", n |-> 0, target |-> 0, dst |-> <<>>, killed |-> FALSE]

Read(p) ==
  /\ rd[p].pc = "user"
  /\ \E n \in 1..MaxRead :
       rd' = [rd EXCEPT ![p] = [Idle EXCEPT !.pc = "read", !.n = n, !.target = n]]
  /\ UNCHANGED input

\* The characters the loop takes before it sleeps or breaks out.
ReadLoop(p) ==
  LET c == held(input.r, input.w)
      ends == {i \in DOMAIN c : c[i] \in {NL, CtrlD} \/ i = rd[p].n}
      i == IF ends = {} THEN Len(c) ELSE Min(ends)
      eof == ends # {} /\ c[i] = CtrlD
      copied == IF eof THEN i - 1 ELSE i
      kept == eof /\ rd[p].n - copied < rd[p].target   \* ^D saved for next time
  IN /\ rd[p].pc = "read"
     /\ input' = [input EXCEPT !.r = plus(@, IF kept THEN copied ELSE i)]
     /\ LET dst == rd[p].dst \o SubSeq(c, 1, copied)
        IN rd' = [rd EXCEPT ![p] =
                    IF ends # {} \/ rd[p].killed
                    THEN [Idle EXCEPT !.dst = dst]
                    ELSE [@ EXCEPT !.pc = "asleep", !.n = @ - copied, !.dst = dst]]

\* kill sets killed and wakes its victim.  A killed reader leaves when it finds
\* no input, and its slot goes to another process.
KillReader(p) ==
  /\ rd[p].pc # "user"
  /\ rd' = [rd EXCEPT ![p].killed = TRUE, ![p].pc = "read"]
  /\ UNCHANGED input

ConsoleInit ==
  /\ input = [buf |-> [i \in 0..INPUT_BUF - 1 |-> NL], r |-> 0, w |-> 0, e |-> 0]
  /\ rd = [p \in Reader |-> Idle]

ConsoleNext ==
  \/ CtrlU \/ Backspace
  \/ \E c \in Char \cup {NL, CtrlD} : Key(c)
  \/ \E p \in Reader : Read(p) \/ ReadLoop(p) \/ KillReader(p)

-----------------------------------------------------------------------------
LI == INSTANCE LineInput WITH
        Users <- Reader, Chars <- Char, Newline <- NL, EndOfFile <- CtrlD,
        Capacity <- INPUT_BUF,
        done <- held(input.r, input.w), edit <- held(input.w, input.e),
        got <- [p \in Reader |-> rd[p].dst],
        waiting <- {p \in Reader : rd[p].pc = "asleep"}

\* The ring with its three wrapping indices behaves as an editable line and a
\* queue of committed characters: nothing committed is erased or overwritten,
\* readers get it in order, never past a line's end, a ^D after data is saved
\* for the next call, and nobody sleeps on committed input (console.c:191-271).
LinesAreExact == LI!Spec
=============================================================================
