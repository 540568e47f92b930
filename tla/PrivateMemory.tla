--------------------------- MODULE PrivateMemory ---------------------------
(***************************************************************************)
(* What the address spaces of xv6 promise to user programs: every live     *)
(* process has a memory of its own.  Only the process itself changes it,   *)
(* by a store, by moving its break, by exec or by exiting, and fork gives  *)
(* the child a copy of the parent's pages at the moment of the call.       *)
(* There are no frames, no reference counts and no shared pages here:      *)
(* module CopyOnWrite is shown to implement this specification.            *)
(***************************************************************************)
CONSTANTS
  Proc,      \* process slots
  InitProc,  \* the first process
  Page,      \* user page numbers
  Value,     \* contents of a page
  Zero,      \* contents of a page nobody has stored to
  Text,      \* contents of a page loaded from a program file
  TextPage,  \* the pages exec loads from the program file
  StackPage  \* the page exec gives to the user stack

VARIABLES
  live,      \* the processes that exist for user programs
  region,    \* region[p]: the pages of p's heap and stack
  space      \* space[p][a]: what p reads at page a

pmVars == <<live, region, space>>

Blank == [a \in Page |-> Zero]

Image == [a \in Page |-> IF a \in TextPage THEN Text ELSE Zero]

(* The first process starts with some image. *)
PMInit ==
  /\ live = {InitProc}
  /\ \A p \in Proc \ {InitProc} : region[p] = {} /\ space[p] = Blank
  /\ region[InitProc] \in SUBSET Page
  /\ space[InitProc] \in [Page -> Value]

(* A store by p changes one page of p. *)
PMStore(p, a, v) ==
  /\ p \in live
  /\ space' = [space EXCEPT ![p][a] = v]
  /\ UNCHANGED <<live, region>>

(* p's heap or stack changes; pages outside the old or the new region may  *)
(* be lost.                                                                *)
PMResize(p) ==
  /\ p \in live
  /\ \A q \in Proc \ {p} : region'[q] = region[q] /\ space'[q] = space[q]
  /\ \A a \in Page : \/ space'[p][a] = space[p][a]
                     \/ space'[p][a] = Zero /\ a \notin region[p] \cap region'[p]
  /\ UNCHANGED live

(* The child starts with the parent's heap and stack, page for page. *)
PMFork(p, c) ==
  /\ p \in live
  /\ c \notin live
  /\ live' = live \cup {c}
  /\ region' = [region EXCEPT ![c] = region[p]]
  /\ space' = [space EXCEPT ![c] = [a \in Page |->
                 IF a \in region[p] THEN space[p][a] ELSE Zero]]

PMExec(p) ==
  /\ p \in live
  /\ region' = [region EXCEPT ![p] = TextPage \cup {StackPage}]
  /\ space' = [space EXCEPT ![p] = Image]
  /\ UNCHANGED live

PMExit(p) ==
  /\ p \in live
  /\ live' = live \ {p}
  /\ region' = [region EXCEPT ![p] = {}]
  /\ space' = [space EXCEPT ![p] = Blank]

PMNext ==
  \E p \in Proc :
    \/ \E a \in Page, v \in Value : PMStore(p, a, v)
    \/ PMResize(p)
    \/ \E c \in Proc : PMFork(p, c)
    \/ PMExec(p)
    \/ PMExit(p)

PMSpec == PMInit /\ [][PMNext]_pmVars
=============================================================================
