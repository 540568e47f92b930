-------------------------------- MODULE Text --------------------------------
(* The string routines other parts rest on (string.c, ulib.c), the pattern *)
(* matcher of grep (grep.c), the names of the swap files (fs.c) and the    *)
(* numbers GetMemoryInfo hands to a user program (proc.c,                  *)
(* MemoryInfoTest.c).  Each is a pure operator; the state is the question  *)
(* put to one of them, so that every bounded input is one state.           *)
(* A string is a sequence without its terminator; a memory is a function   *)
(* from addresses.                                                         *)
EXTENDS Integers, FiniteSets, SequencesExt

CONSTANTS
  Letter,     \* characters of texts
  MaxText,    \* longest text and pattern
  MEM,        \* size of the memory that is copied in
  DIRSIZ,     \* longest name in a directory
  FIELD,      \* a shorter field, to compare all names in
  NSWAP,      \* SWAP_FILE_MAX_NUM
  PidOf,      \* process ids
  BYTE        \* number of values of a char

VARIABLE ask

textVars == <<ask>>

-----------------------------------------------------------------------------
(* Copies.                                                                 *)

Count(n) == [i \in 1..n |-> i - 1]

copied(m, d, s, order) == FoldLeft(LAMBDA a, i : [a EXCEPT ![d + i] = a[s + i]], m, order)

ulibMemmove(m, d, s, n) == copied(m, d, s, Count(n))

memmove(m, d, s, n) ==
  IF s < d /\ s + n > d THEN copied(m, d, s, Reverse(Count(n)))
                        ELSE copied(m, d, s, Count(n))

-----------------------------------------------------------------------------
(* Names.  NUL pads what is shorter than a field.                          *)

NUL == "0"

charAt(s, i) == IF i <= Len(s) THEN s[i] ELSE NUL

strncpy(t, n) == [i \in 1..n |-> charAt(t, i)]

RECURSIVE strncmpFrom(_, _, _, _), itoa(_), matchhere(_, _), matchstar(_, _, _), match(_, _)

strncmpFrom(p, q, i, n) ==
  IF i <= n /\ charAt(p, i) # NUL /\ charAt(p, i) = charAt(q, i)
  THEN strncmpFrom(p, q, i + 1, n)
  ELSE i > n \/ charAt(p, i) = charAt(q, i)

\* namecmp: strncmp(s, t, n) == 0, for a field of n characters.
namecmp(s, t, n) == strncmpFrom(s, t, 1, n)

Digit == <<"0d", "1d", "2d", "3d", "4d", "5d", "6d", "7d", "8d", "9d">>

itoa(i) == IF i < 10 THEN <<Digit[i + 1]>> ELSE Append(itoa(i \div 10), Digit[(i % 10) + 1])

pathOver(i, pid) == <<".", "s", "w", "a", "p">> \o itoa(pid)

\* The path after "./": itoa(i) at offset 7, then itoa(pid) over it from 8.
path(i, pid) == <<".", "s", "w", "a", "p">> \o SubSeq(itoa(i), 1, 1) \o itoa(pid)

\* The name dirlink stores, and dirlookup compares with.
entry(i, pid) == strncpy(path(i, pid), DIRSIZ)

-----------------------------------------------------------------------------
(* grep's matcher.                                                         *)

from1(s, i) == SubSeq(s, i, Len(s))

matchhere(re, text) ==
  CASE re = <<>> -> TRUE
    [] re # <<>> /\ charAt(re, 2) = "*" -> matchstar(re[1], from1(re, 3), text)
    [] re = <<"$">> -> text = <<>>
    [] OTHER -> /\ text # <<>>
                /\ re[1] \in {".", text[1]}
                /\ matchhere(Tail(re), Tail(text))

matchstar(c, re, text) ==
  \/ matchhere(re, text)
  \/ text # <<>> /\ c \in {".", text[1]} /\ matchstar(c, re, Tail(text))

match(re, text) ==
  IF charAt(re, 1) = "^" THEN matchhere(Tail(re), text)
  ELSE matchhere(re, text) \/ (text # <<>> /\ match(re, Tail(text)))

-----------------------------------------------------------------------------
(* Numbers in four chars.  A char is signed where the program reads it.    *)

IntToChar(num) == [k \in 1..4 |-> (num \div BYTE ^ (4 - k)) % BYTE]

signed(c) == IF c >= BYTE \div 2 THEN c - BYTE ELSE c

CharToInt(r) ==
  (signed(r[1]) * BYTE ^ 3 + signed(r[2]) * BYTE ^ 2 + signed(r[3]) * BYTE + signed(r[4]))
    % BYTE ^ 4

-----------------------------------------------------------------------------
String == UNION {[1..k -> Letter] : k \in 0..MaxText}

Pattern == UNION {[1..k -> Letter \cup {".", "*", "^", "$"}] : k \in 0..MaxText}

Question ==
  [fn : {"match"}, re : Pattern, text : String]
  \cup [fn : {"move", "ulibmove"}, d : 0..MEM - 1, s : 0..MEM - 1, n : 0..MEM]
  \cup [fn : {"name"}, s : String, t : String]
  \cup [fn : {"swap"}, i : 0..NSWAP - 1, pid : PidOf, j : 0..NSWAP - 1, of : PidOf]
  \cup [fn : {"info"}, num : 0..BYTE ^ 4 - 1]

Nothing == [fn |-> "none"]

Ask == ask = Nothing /\ ask' \in Question

Answer == ask # Nothing /\ ask' = Nothing

TextInit == ask = Nothing

TextNext == Ask \/ Answer

-----------------------------------------------------------------------------
(* What the answers should be.                                             *)

\* The items of a pattern: a character, any or many of it, or the end of line.
RECURSIVE Items(_)

Items(re) ==
  CASE re = <<>> -> <<>>
    [] re # <<>> /\ charAt(re, 2) = "*" -> <<[c |-> re[1], many |-> TRUE]>> \o Items(from1(re, 3))
    [] OTHER -> <<[c |-> re[1], many |-> FALSE]>> \o Items(Tail(re))

\* Some way of cutting text into one part per item, from a place the pattern
\* allows to start at, to the end of the text if the last item says so.
Matches(re, text) ==
  LET bound == charAt(re, 1) = "^"
      its == Items(IF bound THEN Tail(re) ELSE re)
      toEnd == its # <<>> /\ Last(its) = [c |-> "$", many |-> FALSE]
      its0 == IF toEnd THEN Front(its) ELSE its
  IN \E cut \in [0..Len(its0) -> 0..Len(text)] :
       /\ bound => cut[0] = 0
       /\ toEnd => cut[Len(its0)] = Len(text)
       /\ \A k \in 1..Len(its0) :
            /\ cut[k - 1] <= cut[k]
            /\ its0[k].many \/ cut[k] = cut[k - 1] + 1
            /\ \A i \in cut[k - 1] + 1..cut[k] : its0[k].c \in {".", text[i]}

\* What a directory entry keeps of a process id, after ".swap" and a digit.
RECURSIVE Kept(_)

Kept(pid) == IF pid < 10 ^ (DIRSIZ - 6) THEN pid ELSE Kept(pid \div 10)

Memory == [x \in 0..MEM - 1 |-> x]

Moved(m, d, s, n) == [x \in 0..MEM - 1 |-> IF x \in d..d + n - 1 THEN m[x - d + s] ELSE m[x]]

\* match finds exactly the texts a pattern describes; the kernel's memmove
\* copies as if at once however the areas overlap, the user library's when it
\* copies downwards as grep does; namecmp tells names apart by their first
\* DIRSIZ characters; two swap files share a directory entry only when they
\* have the same number and the process ids agree in the digits the entry
\* keeps, so never while ids are below 10 ^ 8; and a number survives
\* IntToChar and CharToInt while its bytes are in the positive half of a char.
AnswersAreExact ==
  CASE ask.fn = "match" -> match(ask.re, ask.text) = Matches(ask.re, ask.text)
    [] ask.fn = "move" ->
         ask.d + ask.n <= MEM /\ ask.s + ask.n <= MEM =>
           memmove(Memory, ask.d, ask.s, ask.n) = Moved(Memory, ask.d, ask.s, ask.n)
    [] ask.fn = "ulibmove" ->
         ask.d <= ask.s /\ ask.s + ask.n <= MEM =>
           ulibMemmove(Memory, ask.d, ask.s, ask.n) = Moved(Memory, ask.d, ask.s, ask.n)
    [] ask.fn = "name" ->
         namecmp(ask.s, strncpy(ask.t, FIELD), FIELD) <=>
           SubSeq(ask.s, 1, Min({FIELD, Len(ask.s)})) = SubSeq(ask.t, 1, Min({FIELD, Len(ask.t)}))
    [] ask.fn = "swap" ->
         namecmp(path(ask.i, ask.pid), entry(ask.j, ask.of), DIRSIZ) <=>
           ask.i = ask.j /\ Kept(ask.pid) = Kept(ask.of)
    [] ask.fn = "info" ->
         (\A k \in 1..4 : IntToChar(ask.num)[k] < BYTE \div 2) =>
           CharToInt(IntToChar(ask.num)) = ask.num
    [] OTHER -> TRUE

\* What README 2.1.1 asks of the conversion: the number that IntToChar wrote is
\* the number that MemoryInfoTest reads back.
InfoIsReadBack == ask.fn = "info" => CharToInt(IntToChar(ask.num)) = ask.num
=============================================================================
