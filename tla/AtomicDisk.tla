----------------------------- MODULE AtomicDisk -----------------------------
(***************************************************************************)
(* What the log promises to the file system: the blocks change in groups   *)
(* of whole operations.  A crash takes the blocks back to the last commit, *)
(* and a commit never falls inside an operation.  There is no log, no      *)
(* header and no buffer cache here; module Log is shown to implement this  *)
(* specification.                                                          *)
(***************************************************************************)
CONSTANTS
  Proc,     \* processes that execute file system calls
  Block,    \* blocks of the file system
  Value     \* contents of a block

VARIABLES
  current,  \* contents of the blocks as the operations see them
  stable,   \* contents a crash would leave
  open      \* processes between begin_op and end_op

adVars == <<current, stable, open>>

ADInit ==
  /\ stable \in [Block -> Value]
  /\ current = stable
  /\ open = {}

ADBegin(p) ==
  /\ open' = open \cup {p}
  /\ UNCHANGED <<current, stable>>

ADWrite(p, b, v) ==
  /\ p \in open
  /\ current' = [current EXCEPT ![b] = v]
  /\ UNCHANGED <<stable, open>>

ADEnd(p) ==
  /\ p \in open
  /\ open' = open \ {p}
  /\ UNCHANGED <<current, stable>>

ADCommit ==
  /\ open = {}
  /\ stable' = current
  /\ UNCHANGED <<current, open>>

ADCrash ==
  /\ current' = stable
  /\ open' = {}
  /\ UNCHANGED stable

ADNext ==
  \/ \E p \in Proc : \/ ADBegin(p) \/ ADEnd(p)
                     \/ \E b \in Block, v \in Value : ADWrite(p, b, v)
  \/ ADCommit
  \/ ADCrash

ADSpec == ADInit /\ [][ADNext]_adVars
=============================================================================
