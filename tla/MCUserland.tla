---------------------------- MODULE MCUserland ------------------------------
(* The sequential parts side by side: a run is about one of them, chosen   *)
(* at the start, so that their state spaces add up and do not multiply.    *)
EXTENDS Shell, ConsoleInput, Heap, Text

VARIABLE part     \* the part this behaviour is about

MCWord == {"a", "cd"}

Token == {"a", "|", "&", ";", "<", ">", "(", ")"}

\* Every line of at most three tokens, and longer ones that nest.
MCLine ==
  SeqOf(Token, 3) \cup
  {<<"cd", "a">>, <<"a", "|", "a", "|", "a">>, <<"(", "a", ";", "a", ")", "|", "a">>,
   <<"a", "&", ";", "a", "|", "a">>, <<"a", "<", "a", ">>", "a">>,
   <<"(", "a", "|", "a", ")", "&">>, <<"(", "a", "&", ")", "|", "a">>}

MCAgain == {<<"cd", "a">>, <<"a", "|", "a">>, <<"a", "&">>}

MCPidOf == {1, 2, 9, 10, 11, 12, 100, 111, 112, 99999999,
            12345678, 123456780, 123456789, 214748364, 2147483647}

Init ==
  /\ part \in {"shell", "console", "heap", "text"}
  /\ ShellInit /\ ConsoleInit /\ HeapInit /\ TextInit

Next ==
  \/ part = "shell" /\ ShellNext /\ UNCHANGED <<part, consoleVars, heapVars, textVars>>
  \/ part = "console" /\ ConsoleNext /\ UNCHANGED <<part, shellVars, heapVars, textVars>>
  \/ part = "heap" /\ HeapNext /\ UNCHANGED <<part, shellVars, consoleVars, textVars>>
  \/ part = "text" /\ TextNext /\ UNCHANGED <<part, shellVars, consoleVars, heapVars>>

Spec == Init /\ [][Next]_<<part, shellVars, consoleVars, heapVars, textVars>> /\ ShellFair
=============================================================================
