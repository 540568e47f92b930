-------------------------------- MODULE Heap --------------------------------
(* The user-level allocator (umalloc.c): a circular list of free blocks in *)
(* address order, with the header base at address 0, below every block the *)
(* kernel gives.  An address counts headers.  h is the allocator's memory: *)
(* the ptr and size words of the headers (0 where no header stands, as the *)
(* code never reads such a word), freep, and what sbrk has handed out.     *)
(* Requests are below 2 ^ 31 bytes, so that nunits and the bytes that      *)
(* morecore asks sbrk for (an int) do not wrap.                            *)
EXTENDS Integers, FiniteSetsExt

CONSTANTS
  UNITS,      \* headers that fit in the address space
  HEADER,     \* sizeof(Header)
  MINUNITS,   \* least units morecore asks for (umalloc.c:52)
  Request     \* numbers of bytes asked of malloc

VARIABLES
  h,          \* ptr, size, freep, brk; history: core, the units morecore got
  asked       \* history: block -> bytes malloc was asked for, -1 if not held

heapVars == <<h, asked>>

ADDR == 0..UNITS

BASE == 0

NULL == -1

-----------------------------------------------------------------------------
RECURSIVE place(_, _, _), search(_, _, _, _)

\* The loop of free: the block after which bp belongs.
place(m, bp, p) ==
  IF \/ bp > p /\ bp < m.ptr[p]
     \/ p >= m.ptr[p] /\ (bp > p \/ bp < m.ptr[p])
  THEN p
  ELSE place(m, bp, m.ptr[p])

\* Join b to the block that starts where it ends.
joined(m, b, next) ==
  [m EXCEPT !.size = [@ EXCEPT ![b] = @ + m.size[next], ![next] = 0],
            !.ptr = [@ EXCEPT ![b] = m.ptr[next], ![next] = 0]]

free(m, bp) ==
  LET p == place(m, bp, m.freep)
      next == m.ptr[p]
      linked == [m EXCEPT !.ptr = [@ EXCEPT ![p] = bp, ![bp] = next]]
      upper == IF bp + m.size[bp] = next THEN joined(linked, bp, next) ELSE linked
      lower == IF p + upper.size[p] = bp THEN joined(upper, p, bp) ELSE upper
  IN [lower EXCEPT !.freep = p]

units(nbytes) == (nbytes + HEADER - 1) \div HEADER + 1

\* sys_sbrk by n units: growproc moves the break, and if as much room again is
\* left the break is moved a second time; else the call fails, the break moved.
sbrk(m, n) ==
  LET fits(k) == m.brk + k * n <= UNITS + 1
  IN [ok |-> fits(2), brk |-> m.brk + n * Cardinality({k \in {1, 2} : fits(k)})]

\* morecore: NULL for freep when sbrk fails.
morecore(m, nu) ==
  LET n == Max({nu, MINUNITS})
      hp == m.brk
      r == sbrk(m, n)
  IN IF ~r.ok THEN [m EXCEPT !.freep = NULL, !.brk = r.brk]
     ELSE free([m EXCEPT !.size[hp] = n, !.brk = r.brk, !.core = @ \cup hp..hp + n - 1], hp)

takenLow(m, prevp, p, nu) ==
  [mem |-> [m EXCEPT !.size = [@ EXCEPT ![p + m.size[p] - nu] = nu], !.freep = prevp],
   at |-> p + m.size[p] - nu]

\* Take nu units of p, which follows prevp: all of it, or its tail end.
taken(m, prevp, p, nu) ==
  IF m.size[p] = nu
  THEN [mem |-> [m EXCEPT !.ptr = [@ EXCEPT ![prevp] = m.ptr[p], ![p] = 0], !.freep = prevp],
        at |-> p]
  ELSE LET q == p + m.size[p] - nu
       IN [mem |-> [m EXCEPT !.size = [@ EXCEPT ![p] = @ - nu, ![q] = nu], !.freep = prevp],
           at |-> q]

\* The loop of malloc, first fit from freep on.
search(m, nu, prevp, p) ==
  IF m.size[p] >= nu THEN taken(m, prevp, p, nu)
  ELSE IF p # m.freep THEN search(m, nu, p, m.ptr[p])
  ELSE LET more == morecore(m, nu)
       IN IF more.freep = NULL THEN [mem |-> [more EXCEPT !.freep = m.freep], at |-> NULL]
          ELSE search(more, nu, more.freep, more.ptr[more.freep])

malloc(nbytes) ==
  LET first == IF h.freep = NULL
               THEN [h EXCEPT !.freep = BASE, !.ptr[BASE] = BASE, !.size[BASE] = 0]
               ELSE h
  IN search(first, units(nbytes), first.freep, first.ptr[first.freep])

-----------------------------------------------------------------------------
Malloc ==
  \E nbytes \in Request :
    LET r == malloc(nbytes)
    IN /\ h' = r.mem
       /\ asked' = IF r.at = NULL THEN asked ELSE [asked EXCEPT ![r.at] = nbytes]

Free ==
  \E bp \in ADDR :
    /\ asked[bp] >= 0
    /\ h' = free(h, bp)
    /\ asked' = [asked EXCEPT ![bp] = -1]

\* The program, or a library it uses, may call sbrk itself.
Sbrk ==
  /\ h' = [h EXCEPT !.brk = sbrk(h, 1).brk]
  /\ UNCHANGED asked

HeapInit ==
  /\ h = [ptr |-> [a \in ADDR |-> 0], size |-> [a \in ADDR |-> 0],
          freep |-> NULL, brk |-> 1, core |-> {}]
  /\ asked = [a \in ADDR |-> -1]

HeapNext == Malloc \/ Free \/ Sbrk

-----------------------------------------------------------------------------
Header == {a \in ADDR : h.size[a] > 0}

Held == {a \in ADDR : asked[a] >= 0}

Covers(a) == a..a + h.size[a] - 1

\* Free and held blocks together tile exactly the memory got from the kernel,
\* a held block is large enough for what was asked, the free list runs through
\* every free block once in address order and back to base, freep is on it,
\* and no two free blocks touch, whatever the order of malloc, free and sbrk
\* (umalloc.c free, morecore, malloc).
HeapIsExact ==
  LET loose == Header \ Held
      list == loose \cup {BASE}
  IN /\ Held \subseteq Header
     /\ UNION {Covers(a) : a \in Header} = h.core
     /\ \A a, b \in Header : a < b => a + h.size[a] <= b
     /\ \A a \in Held : (h.size[a] - 1) * HEADER >= asked[a]
     /\ h.freep # NULL =>
          /\ h.freep \in list
          /\ \A a \in list :
               LET above == {b \in list : b > a}
               IN h.ptr[a] = IF above = {} THEN BASE ELSE Min(above)
          /\ \A a \in loose : a + h.size[a] \notin loose
=============================================================================
