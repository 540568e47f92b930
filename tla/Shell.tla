------------------------------- MODULE Shell --------------------------------
(* The shell (sh.c) and the loop of init that restarts it (init.c).        *)
(*                                                                         *)
(* A line is a sequence of tokens: gettoken and peek skip white space and  *)
(* cut words, so what the parser sees is words and symbols.  parsecmd is   *)
(* the recursive-descent parser, a pure operator from a line to a command  *)
(* tree; runcmd is a state machine over processes with their descriptor    *)
(* tables.  A program that was exec'd is external: it ends when it likes,  *)
(* but one whose standard input is a pipe reads it to the end of file, so  *)
(* it ends only when no process holds the pipe's write end.                *)
(* The descriptor rules of the kernel that runcmd relies on are kept: open *)
(* and dup take the lowest free descriptor, fork copies the table, exit    *)
(* closes it and hands the children to init.                               *)
EXTENDS Integers, FiniteSets, SequencesExt

CONSTANTS
  Word,       \* words of the command language
  Line,       \* the token sequences a user may type, the empty one too
  Again,      \* those it may be followed by, to bound the search
  MaxLines,   \* bound on the lines typed
  MAXARGS,    \* bound on a command's argument vector (sh.c:14)
  PID,        \* the slots of the process table, the shell's is 1
  NOFILE      \* descriptors per process

VARIABLES
  proc,       \* slot -> the process in it
  line,       \* the line in the shell's buffer, and its tree
  lines,      \* how many lines were typed
  short       \* history: some fork failed

shellVars == <<proc, line, lines, short>>

-----------------------------------------------------------------------------
(* Parsing.  A command tree is a record with the fields of the struct its  *)
(* type names; Panic stands for the exit of the parsing process.           *)

Redir == {"<", ">", ">>"}

Panic == [cmd |-> [type |-> "panic"], rest |-> <<>>]

execcmd == [type |-> "EXEC", argv |-> <<>>]

redircmd(c, tok, file) ==
  [type |-> "REDIR", cmd |-> c, file |-> file, fd |-> IF tok = "<" THEN 0 ELSE 1]

pipecmd(l, r) == [type |-> "PIPE", left |-> l, right |-> r]

listcmd(l, r) == [type |-> "LIST", left |-> l, right |-> r]

backcmd(c) == [type |-> "BACK", cmd |-> c]

peek(ts, toks) == ts # <<>> /\ Head(ts) \in toks

fails(r) == r.cmd.type = "panic"

RECURSIVE parseline(_), parsepipe(_), parseexec(_), parseargs(_, _, _),
          parseredirs(_, _), parsebacks(_), addArg(_, _)

\* argv belongs to the innermost command, whatever redirections wrap it.
addArg(c, w) ==
  IF c.type = "REDIR" THEN [c EXCEPT !.cmd = addArg(@, w)]
                      ELSE [c EXCEPT !.argv = Append(@, w)]

parseredirs(c, ts) ==
  IF ~peek(ts, Redir) THEN [cmd |-> c, rest |-> ts]
  ELSE IF ~peek(Tail(ts), Word) THEN Panic
  ELSE parseredirs(redircmd(c, ts[1], ts[2]), Tail(Tail(ts)))

parseargsWide(c, argc, ts) ==
  IF ts = <<>> \/ peek(ts, {"|", ")", "&", ";"}) THEN [cmd |-> c, rest |-> ts]
  ELSE IF ~peek(ts, Word) \/ argc + 1 > MAXARGS THEN Panic
  ELSE LET r == parseredirs(addArg(c, Head(ts)), Tail(ts))
       IN IF fails(r) THEN Panic ELSE parseargs(r.cmd, argc + 1, r.rest)

\* The loop of parseexec, with argc arguments behind it.
parseargs(c, argc, ts) ==
  IF ts = <<>> \/ peek(ts, {"|", ")", "&", ";"}) THEN [cmd |-> c, rest |-> ts]
  ELSE IF ~peek(ts, Word) \/ argc + 1 >= MAXARGS THEN Panic
  ELSE LET r == parseredirs(addArg(c, Head(ts)), Tail(ts))
       IN IF fails(r) THEN Panic ELSE parseargs(r.cmd, argc + 1, r.rest)

parseblock(ts) ==
  LET r == parseline(Tail(ts))
  IN IF fails(r) \/ ~peek(r.rest, {")"}) THEN Panic
     ELSE parseredirs(r.cmd, Tail(r.rest))

parseexec(ts) ==
  LET r == parseredirs(execcmd, ts)
  IN IF peek(ts, {"("}) THEN parseblock(ts)
     ELSE IF fails(r) THEN Panic
     ELSE parseargs(r.cmd, 0, r.rest)

parsepipe(ts) ==
  LET l == parseexec(ts)
      r == parsepipe(Tail(l.rest))
  IN IF fails(l) \/ ~peek(l.rest, {"|"}) THEN l
     ELSE IF fails(r) THEN Panic
     ELSE [cmd |-> pipecmd(l.cmd, r.cmd), rest |-> r.rest]

parsebacks(r) ==
  IF peek(r.rest, {"&"})
  THEN parsebacks([cmd |-> backcmd(r.cmd), rest |-> Tail(r.rest)])
  ELSE r

parseline(ts) ==
  LET l == parsebacks(parsepipe(ts))
      r == parseline(Tail(l.rest))
  IN IF fails(l) \/ ~peek(l.rest, {";"}) THEN l
     ELSE IF fails(r) THEN Panic
     ELSE [cmd |-> listcmd(l.cmd, r.cmd), rest |-> r.rest]

parsecmd(ts) ==
  LET r == parseline(ts) IN IF r.rest # <<>> THEN Panic.cmd ELSE r.cmd

\* A line with the tree that parsecmd returns to main's child for it; the words
\* in it are cut off where they end (nulterminate).
buf(l) == [text |-> l, tree |-> parsecmd(l)]

-----------------------------------------------------------------------------
(* The grammar of the command language, as the trees that derive a line by *)
(* splitting it.                                                           *)

RECURSIVE Lists(_), Backs(_), Pipes(_)

Part(ts, i, j) == SubSeq(ts, i, j)

\* ts from place i on is a sequence of redirections.
OnlyRedirs(ts, i) ==
  \A j \in i..Len(ts) : IF (j - i) % 2 = 0 THEN ts[j] \in Redir /\ j < Len(ts)
                                           ELSE ts[j] \in Word

Redirected(c, ts, at) ==
  FoldLeft(LAMBDA d, i : redircmd(d, ts[i], ts[i + 1]), c,
           SetToSortSeq(at, LAMBDA i, j : i < j))

\* Words and redirections in any order, at least one argument place free.
Simples(ts) ==
  LET at == {i \in DOMAIN ts : ts[i] \in Redir}
      args == {i \in DOMAIN ts : i - 1 \notin at} \ at
      argv == [k \in 1..Cardinality(args) |->
                 ts[SetToSortSeq(args, LAMBDA i, j : i < j)[k]]]
  IN IF /\ \A i \in at : i < Len(ts) /\ ts[i + 1] \in Word
        /\ \A i \in args : ts[i] \in Word
        /\ Cardinality(args) < MAXARGS
     THEN {Redirected([execcmd EXCEPT !.argv = argv], ts, at)}
     ELSE {}

Groups(ts) ==
  UNION {{Redirected(c, ts, {i \in j + 1..Len(ts) : ts[i] \in Redir}) :
            c \in Lists(Part(ts, 2, j - 1))} :
           j \in {k \in 2..Len(ts) : ts[1] = "(" /\ ts[k] = ")" /\ OnlyRedirs(ts, k + 1)}}

Execs(ts) == Simples(ts) \cup Groups(ts)

Pipes(ts) ==
  Execs(ts) \cup
  UNION {{pipecmd(l, r) : l \in Execs(Part(ts, 1, i - 1)), r \in Pipes(Part(ts, i + 1, Len(ts)))} :
           i \in {j \in DOMAIN ts : ts[j] = "|"}}

Backs(ts) ==
  Pipes(ts) \cup
  IF ts # <<>> /\ Last(ts) = "&" THEN {backcmd(c) : c \in Backs(Front(ts))} ELSE {}

Lists(ts) ==
  Backs(ts) \cup
  UNION {{listcmd(l, r) : l \in Backs(Part(ts, 1, i - 1)), r \in Lists(Part(ts, i + 1, Len(ts)))} :
           i \in {j \in DOMAIN ts : ts[j] = ";"}}

Derived == [l \in Line |-> Lists(l)]

-----------------------------------------------------------------------------
(* Processes and their descriptors.                                        *)

SH == 1

INIT == 0

FD == 0..NOFILE - 1

Closed == [type |-> "closed"]

Console == [type |-> "console"]

File(name) == [type |-> "file", name |-> name]

End(k, side) == [type |-> "pipe", id |-> k, side |-> side]

close(fd, d) == [fd EXCEPT ![d] = Closed]

\* fdalloc, for open and dup: the lowest descriptor that is free.
opened(fd, f) == [fd EXCEPT ![Min({d \in FD : fd[d] = Closed})] = f]

\* History: where the command tree says standard input and output go.
Env(in, out) == [in |-> in, out |-> out]

Unused ==
  [pc |-> "unused", cmd |-> execcmd, fd |-> [d \in FD |-> Closed], parent |-> INIT,
   ends |-> <<0, 0>>, env |-> Env(Console, Console), bg |-> FALSE]

\* main's loop: descriptors 0, 1 and 2 are open on the console.
Prompt ==
  [Unused EXCEPT !.pc = "prompt", !.fd = [d \in FD |-> IF d <= 2 THEN Console ELSE Closed]]

Live == {p \in PID : proc[p].pc \notin {"unused", "zombie"}}

writeOpen(P, k) == \E p \in PID, d \in FD : P[p].fd[d] = End(k, "w")

\* The lowest pipe no descriptor refers to.
freshPipe ==
  Min({k \in PID : \A p \in PID, d \in FD : proc[p].fd[d] \notin {End(k, "r"), End(k, "w")}})

\* exit: the table is closed, the parent may reap, init adopts the children
\* and reaps those that have ended already.
exit(p) ==
  proc' = [q \in PID |->
             IF q = p
             THEN IF proc[p].parent = INIT THEN Unused
                  ELSE [Unused EXCEPT !.pc = "zombie", !.parent = proc[p].parent]
             ELSE IF proc[q].parent # p \/ proc[q].pc = "unused" THEN proc[q]
             ELSE IF proc[q].pc = "zombie" THEN Unused
             ELSE [proc[q] EXCEPT !.parent = INIT]]

\* fork1: the child starts from what the parent hands it; with no slot left
\* the caller panics, that is it exits.  next is the caller after the call.
fork1(p, child, next) ==
  LET free == {q \in PID \ {SH} : proc[q].pc = "unused"}
  IN IF free = {}
     THEN exit(p) /\ short' = TRUE
     ELSE /\ proc' = [proc EXCEPT ![p] = next,
                                  ![Min(free)] = [child EXCEPT !.parent = p, !.ends = <<0, 0>>]]
          /\ UNCHANGED short

\* wait: reap a child that has ended, or return at once when there is none.
wait(p, next) ==
  LET kids == {q \in PID : proc[q].pc # "unused" /\ proc[q].parent = p}
  IN IF kids = {}
     THEN proc' = [proc EXCEPT ![p] = next]
     ELSE \E q \in kids :
            /\ proc[q].pc = "zombie"
            /\ proc' = [proc EXCEPT ![q] = Unused, ![p] = next]

at(p, pc) == proc[p].pc = pc

to(p, pc) == [proc[p] EXCEPT !.pc = pc]

runs(p, c) == [proc[p] EXCEPT !.pc = "run", !.cmd = c]

-----------------------------------------------------------------------------
(* main: read a line; cd is run by the shell itself; else fork and wait.   *)

GetCmd ==
  /\ at(SH, "prompt")
  /\ lines < MaxLines
  /\ \E l \in IF lines = 0 THEN Line ELSE Again :
       IF Len(l) > 1 /\ l[1] = "cd"
       THEN UNCHANGED <<proc, line>>
       ELSE proc' = [proc EXCEPT ![SH] = to(SH, "fork")] /\ line' = buf(l)
  /\ lines' = lines + 1
  /\ UNCHANGED short

GetEof ==
  /\ at(SH, "prompt")
  /\ exit(SH)
  /\ UNCHANGED <<line, lines, short>>

ForkCommand ==
  /\ at(SH, "fork")
  /\ fork1(SH, to(SH, "parse"), to(SH, "wait"))
  /\ UNCHANGED <<line, lines>>

WaitCommand ==
  /\ at(SH, "wait")
  /\ wait(SH, to(SH, "prompt"))
  /\ UNCHANGED <<line, lines, short>>

\* init's loop starts another shell when the last one has exited.
Restart ==
  /\ at(SH, "unused")
  /\ proc' = [proc EXCEPT ![SH] = Prompt]
  /\ UNCHANGED <<line, lines, short>>

-----------------------------------------------------------------------------
(* runcmd, one action per case and per system call that can block or fail. *)

Parse(p) ==
  /\ at(p, "parse")
  /\ IF line.tree.type = "panic"
     THEN exit(p)
     ELSE proc' = [proc EXCEPT ![p] = runs(p, line.tree)]
  /\ line' = buf(<<>>)
  /\ UNCHANGED <<lines, short>>

isCmd(p, type) == at(p, "run") /\ proc[p].cmd.type = type

RunExec(p) ==
  /\ isCmd(p, "EXEC")
  /\ \/ exit(p)                               \* no argument, or exec failed
     \/ /\ proc[p].cmd.argv # <<>>
        /\ proc' = [proc EXCEPT ![p] = [to(p, "program") EXCEPT !.cmd = execcmd]]
  /\ UNCHANGED <<line, lines, short>>

redirected(p, c) ==
  LET f == File(c.file)
  IN [runs(p, c.cmd) EXCEPT !.fd = opened(close(@, c.fd), f),
                            !.env = IF c.fd = 0 THEN Env(f, @.out) ELSE Env(@.in, f)]

RunRedir(p) ==
  /\ isCmd(p, "REDIR")
  /\ \/ exit(p)                               \* open failed
     \/ proc' = [proc EXCEPT ![p] = redirected(p, proc[p].cmd)]
  /\ UNCHANGED <<line, lines, short>>

RunList(p) ==
  /\ isCmd(p, "LIST")
  /\ fork1(p, runs(p, proc[p].cmd.left), to(p, "list"))
  /\ UNCHANGED <<line, lines>>

ListWait(p) ==
  /\ at(p, "list")
  /\ wait(p, runs(p, proc[p].cmd.right))
  /\ UNCHANGED <<line, lines, short>>

\* pipe(p) fills the two lowest descriptors; it may fail for want of memory.
RunPipe(p) ==
  LET k == freshPipe
      r == Min({d \in FD : proc[p].fd[d] = Closed})
      w == Min({d \in FD \ {r} : proc[p].fd[d] = Closed})
  IN /\ isCmd(p, "PIPE")
     /\ \/ exit(p)
        \/ proc' = [proc EXCEPT ![p] =
                      [to(p, "left") EXCEPT !.fd = [@ EXCEPT ![r] = End(k, "r"), ![w] = End(k, "w")],
                                            !.ends = <<r, w>>]]
     /\ UNCHANGED <<line, lines, short>>

\* close(p[0]); close(p[1])
endsClosed(p, fd) == close(close(fd, proc[p].ends[1]), proc[p].ends[2])

sideOpen(p, d, e) == opened(close(proc[p].fd, d), proc[p].fd[e])

\* A child's descriptors: end e of the pipe becomes descriptor d.
side(p, d, e) == endsClosed(p, opened(close(proc[p].fd, d), proc[p].fd[e]))

PipeLeft(p) ==
  /\ at(p, "left")
  /\ LET w == proc[p].ends[2]
     IN fork1(p, [runs(p, proc[p].cmd.left) EXCEPT !.fd = side(p, 1, w),
                                                   !.env.out = proc[p].fd[w]],
              to(p, "right"))
  /\ UNCHANGED <<line, lines>>

pipeParentOpen(p) == to(p, "wait1")

pipeParentOnce(p) == [to(p, "wait2") EXCEPT !.fd = endsClosed(p, @)]

pipeParent(p) == [to(p, "wait1") EXCEPT !.fd = endsClosed(p, @)]

PipeRight(p) ==
  /\ at(p, "right")
  /\ LET r == proc[p].ends[1]
     IN fork1(p, [runs(p, proc[p].cmd.right) EXCEPT !.fd = side(p, 0, r),
                                                    !.env.in = proc[p].fd[r]],
              to(p, "close"))
  /\ UNCHANGED <<line, lines>>

PipeClose(p) ==
  /\ at(p, "close")
  /\ proc' = [proc EXCEPT ![p] = pipeParent(p)]
  /\ UNCHANGED <<line, lines, short>>

PipeWait(p) ==
  /\ \/ at(p, "wait1") /\ wait(p, to(p, "wait2"))
     \/ at(p, "wait2") /\ wait(p, to(p, "done"))
  /\ UNCHANGED <<line, lines, short>>

RunBack(p) ==
  /\ isCmd(p, "BACK")
  /\ fork1(p, [runs(p, proc[p].cmd.cmd) EXCEPT !.bg = TRUE], to(p, "done"))
  /\ UNCHANGED <<line, lines>>

\* The exit at the end of runcmd.
Done(p) ==
  /\ at(p, "done")
  /\ exit(p)
  /\ UNCHANGED <<line, lines, short>>

\* External: the program ends, at end of file when it reads from a pipe.
Program(p) ==
  /\ at(p, "program")
  /\ proc[p].fd[0].type = "pipe" => ~writeOpen(proc, proc[p].fd[0].id)
  /\ exit(p)
  /\ UNCHANGED <<line, lines, short>>

Step(p) ==
  \/ Parse(p) \/ RunExec(p) \/ RunRedir(p) \/ RunList(p) \/ ListWait(p)
  \/ RunPipe(p) \/ PipeLeft(p) \/ PipeRight(p) \/ PipeClose(p) \/ PipeWait(p)
  \/ RunBack(p) \/ Done(p) \/ Program(p)

ShellInit ==
  /\ proc = [p \in PID |-> IF p = SH THEN Prompt ELSE Unused]
  /\ line = buf(<<>>)
  /\ lines = 0
  /\ short = FALSE

ShellNext ==
  \/ GetCmd \/ GetEof \/ ForkCommand \/ WaitCommand \/ Restart
  \/ \E p \in PID : Step(p)

ShellFair ==
  /\ WF_shellVars(ForkCommand) /\ WF_shellVars(WaitCommand) /\ WF_shellVars(Restart)
  /\ \A p \in PID : WF_shellVars(Step(p))

-----------------------------------------------------------------------------
(* Properties.                                                             *)

\* parsecmd accepts exactly the lines of the grammar, and the tree it builds
\* is the only one that derives the line: &, ; and | associate and bind as the
\* grammar says, redirections wrap the command in the order they were written,
\* and no argument vector outgrows MAXARGS (sh.c parsecmd .. parseexec).
ParseIsGrammar ==
  Derived[line.text] = IF line.tree.type = "panic" THEN {} ELSE {line.tree}

\* When runcmd execs a program its descriptors are what the command tree says
\* and no more: 0 and 1 are the innermost redirection, else the pipe on its
\* side, else the console; 2 is the console; nothing else is open, so no pipe
\* end leaks into a program that would keep its neighbour from end of file.
DescriptorsAreExact ==
  \A p \in PID :
    at(p, "program") =>
      proc[p].fd = [d \in FD |-> CASE d = 0 -> proc[p].env.in
                                   [] d = 1 -> proc[p].env.out
                                   [] d = 2 -> Console
                                   [] OTHER -> Closed]

\* The shell prompts again only when every process of the foreground command
\* has ended: what still runs was put in the background (sh.c main, runcmd's
\* waits).  A fork that fails abandons what was already started.
ForegroundIsDone ==
  at(SH, "prompt") /\ ~short => \A p \in Live \ {SH} : proc[p].bg

\* A command that was typed does not hang the shell: with programs that end
\* once their input does, main's wait returns and the prompt comes back.
PromptReturns == at(SH, "wait") ~> at(SH, "prompt")
=============================================================================
