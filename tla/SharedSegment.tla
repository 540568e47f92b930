--------------------------- MODULE SharedSegment ---------------------------
(***************************************************************************)
(* What the shared memory calls promise: a signature names one segment,    *)
(* common to the processes attached to it.  A read returns what the        *)
(* segment holds, a write changes that segment and no other, only attached *)
(* processes do either, and the contents last until the last one detaches. *)
(* A write is not atomic: a read that meets one may return a mixture.      *)
(***************************************************************************)
CONSTANTS
  Proc,
  Signature,  \* names of segments
  Value,      \* contents of a segment
  Torn,       \* contents while a write is in progress
  Nothing     \* contents of a segment that does not exist

VARIABLES
  owners,     \* owners[s]: the processes attached to s
  segment,    \* segment[s]: its contents
  got         \* got[p]: what p read last

ssVars == <<owners, segment, got>>

SSInit ==
  /\ owners = [s \in Signature |-> {}]
  /\ segment = [s \in Signature |-> Nothing]
  /\ got \in [Proc -> Value \cup {Nothing}]

(* The first process to attach finds whatever the page contained, or no    *)
(* page at all when memory has run out.                                    *)
Attach(p, s) ==
  /\ p \notin owners[s]
  /\ owners' = [owners EXCEPT ![s] = @ \cup {p}]
  /\ IF owners[s] = {}
     THEN \E v \in Value \cup {Torn, Nothing} : segment' = [segment EXCEPT ![s] = v]
     ELSE UNCHANGED segment
  /\ UNCHANGED got

Detach(p, s) ==
  /\ p \in owners[s]
  /\ owners' = [owners EXCEPT ![s] = @ \ {p}]
  /\ segment' = [segment EXCEPT ![s] = IF owners[s] = {p} THEN Nothing ELSE @]
  /\ UNCHANGED got

ReadSegment(p, s) ==
  /\ p \in owners[s]
  /\ got' = [got EXCEPT ![p] = segment[s]]
  /\ UNCHANGED <<owners, segment>>

WriteSegment(p, s, v) ==
  /\ p \in owners[s]
  /\ segment[s] # Nothing
  /\ segment' = [segment EXCEPT ![s] = v]
  /\ UNCHANGED <<owners, got>>
=============================================================================
