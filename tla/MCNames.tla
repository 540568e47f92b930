------------------------------- MODULE MCNames -------------------------------
(* Two processes, the names a and b and a few inodes.  The second process  *)
(* also exits, execs and is forked again.  Three pairs of programs: hard   *)
(* links; directories, ".." and a current directory that goes away; and a  *)
(* first swap file that another process removes.                           *)
EXTENDS Names

CONSTANTS p1, p2, a, b, s0, s1, MaxLost

C(k, path) == [kind |-> k, abs |-> FALSE, path |-> path, to |-> <<>>]

Pair(c1, c2) == p1 :> c1 @@ p2 :> c2

MCPrograms ==
  {Pair({C("create", <<a>>), C("unlink", <<a>>), C("unlink", <<b>>),
         [C("link", <<a>>) EXCEPT !.to = <<b>>]},
        {C("mkdir", <<a>>), C("unlink", <<a>>), C("exec", <<>>)}),
   Pair({C("mkdir", <<a>>), C("unlink", <<a>>), C("create", <<a, b>>)},
        {C("mkdir", <<a>>), C("unlink", <<a>>), C("chdir", <<a>>), C("chdir", <<"..">>),
         C("exit", <<>>)}),
   Pair({C("mkdir", <<a>>), C("unlink", <<a>>), C("unlink", <<s0>>)},
        {C("openw", <<a>>), C("chdir", <<a>>), C("exec", <<>>)})}

MCSwapName == [h \in SwapUsers \X File |-> IF h[2] = 0 THEN s0 ELSE s1]

(* exec may lose files again and again; this many of an inode are followed. *)
FewLost == \A i \in Ino : lost[i] <= MaxLost
=============================================================================
