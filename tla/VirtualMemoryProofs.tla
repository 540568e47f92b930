------------------------ MODULE VirtualMemoryProofs -------------------------
(***************************************************************************)
(* Proofs about demand paging, for any number of table entries, any size   *)
(* of the address space and of a page of the swap table, and any contents: *)
(* the tables of module VirtualMemory stay exact, the oldest page is the   *)
(* one that is evicted, and a program whose break only grows cannot tell   *)
(* its memory from the one of module PrivateMemory.                        *)
(***************************************************************************)
EXTENDS VirtualMemory, FiniteSetTheorems, TLAPS

-----------------------------------------------------------------------------
(* The list of the memory table. exchange.c and vm.c follow Next from the  *)
(* head and Last from the tail. An exact list is a sequence of entries on  *)
(* which both directions agree.                                            *)
N == MEMORY_TABLE_TOTAL_ENTRYS

(* The memory table as a record of tables. *)
Table == [va : [Entry -> Page \cup {SLOT_USABLE}],
          next : [Entry -> 0..N], last : [Entry -> 0..N],
          head : 0..N, tail : 0..N, num : Nat]

(* q has the k entries of T's list, from the head to the tail. *)
IsList(T, k, q) ==
  /\ k \in 2..N /\ q \in [1..k -> Entry]
  /\ \A i, j \in 1..k : q[i] = q[j] => i = j
  /\ \A e \in Entry : T.va[e] # SLOT_USABLE <=> \E i \in 1..k : q[i] = e
  /\ T.head = q[1] /\ T.tail = q[k] /\ T.num = k
  /\ \A i \in 1..(k - 1) : T.next[q[i]] = q[i + 1] /\ T.last[q[i + 1]] = q[i]
  /\ T.next[q[k]] = 0 /\ T.last[q[1]] = 0
  /\ \A e \in Entry : T.va[e] = SLOT_USABLE => T.last[e] = 0

(* The constants, spelled out. *)
LEMMA Sizes ==
  /\ N \in Nat /\ SWAP_TABLE_ENTRY_NUM \in Nat /\ SWAP_TABLE_ENTRY_NUM > 0
  /\ SWAP_FILE_PAGES \in Nat /\ USERTOP \in Nat /\ TextPages \in Nat /\ TextPages > 0
  /\ TextPages + 2 <= N /\ TextPages + 4 <= USERTOP
  /\ Zero \in Value /\ Text \in Value /\ LeftPage \subseteq Page
BY PagingAssumption DEF N

(* A set of natural numbers has a least element. *)
LEMMA Least ==
  ASSUME NEW S, S \subseteq Nat, S # {}
  PROVE  \E n \in S : \A m \in S : n <= m
<1>1. PICK n \in S : \A m \in S : ~ (<<m, n>> \in OpToRel(<, Nat))
  BY WFMin, NatLessThanWellFounded, Zenon
<1>2. ASSUME NEW m \in S PROVE n <= m
  <2>1. <<m, n>> \notin {ss \in Nat \X Nat : ss[1] < ss[2]}
    BY <1>1, Zenon DEF OpToRel
  <2>2. m \in Nat /\ n \in Nat
    OBVIOUS
  <2>3. QED
    BY <2>1, <2>2
<1>3. QED
  BY <1>2, Zenon

(* The recursion of Follow has one solution. *)
LEMMA FollowIs ==
  ASSUME NEW T, NEW g,
         g = [n \in 0..N |->
                IF n = 0 THEN T.head ELSE IF g[n - 1] = 0 THEN 0 ELSE T.next[g[n - 1]]]
  PROVE  Follow(T) = g
<1> DEFINE B(h) == [n \in 0..N |->
              IF n = 0 THEN T.head ELSE IF h[n - 1] = 0 THEN 0 ELSE T.next[h[n - 1]]]
<1>1. Follow(T) = CHOOSE h : h = B(h)
  BY DEF Follow, N
<1>2. PICK f : f = Follow(T)
  BY Zenon
<1>3. f = B(f) /\ g = B(g)
  <2>1. g = B(g)
    BY Zenon
  <2> HIDE DEF B
  <2>2. (CHOOSE h : h = B(h)) = B(CHOOSE h : h = B(h))
    BY <2>1, Zenon
  <2>3. QED
    BY <1>1, <1>2, <2>1, <2>2, Zenon
<1>4. ASSUME {n \in 0..N : f[n] # g[n]} # {} PROVE FALSE
  <2>0. PICK S : S = {n \in 0..N : f[n] # g[n]}
    BY Zenon
  <2>1. PICK n \in S : \A m \in S : n <= m
    <3>1. S \subseteq Nat /\ S # {}
      BY <1>4, <2>0
    <3>2. QED
      BY <3>1, Least, Zenon
  <2>2. n \in 0..N /\ f[n] # g[n]
    BY <2>0, <2>1, Zenon
  <2>3. CASE n = 0
    BY <1>3, <2>2, <2>3
  <2>4. CASE n # 0
    <3>1. n - 1 \in 0..N /\ ~(n <= n - 1)
      BY <2>2, <2>4, Sizes
    <3>2. f[n - 1] = g[n - 1]
      BY <2>0, <2>1, <3>1, Zenon
    <3>3. /\ f[n] = IF f[n - 1] = 0 THEN 0 ELSE T.next[f[n - 1]]
          /\ g[n] = IF g[n - 1] = 0 THEN 0 ELSE T.next[g[n - 1]]
      BY <1>3, <2>2, <2>4, Zenon
    <3>4. QED
      BY <2>2, <3>2, <3>3, Zenon
  <2>5. QED
    BY <2>3, <2>4, Zenon
<1>5. \A n \in 0..N : f[n] = g[n]
  BY <1>4, Zenon
<1>6. f = [n \in 0..N |-> f[n]] /\ g = [n \in 0..N |-> g[n]]
  BY <1>3, Zenon
<1>7. QED
  BY <1>2, <1>5, <1>6, Zenon

(* Follow gives the entries of the list one after the other. *)
LEMMA FollowList ==
  ASSUME NEW T, NEW k, NEW q, IsList(T, k, q)
  PROVE  Follow(T) = [n \in 0..N |-> IF n < k THEN q[n + 1] ELSE 0]
<1>1. PICK g : g = [n \in 0..N |-> IF n < k THEN q[n + 1] ELSE 0]
  BY Zenon
<1>2. k \in Nat /\ 2 <= k /\ k <= N /\ \A i \in 1..k : q[i] \in Nat /\ q[i] # 0
  BY Sizes DEF IsList, Entry, N
<1>3. ASSUME NEW n \in 0..N
      PROVE  g[n] = IF n = 0 THEN T.head ELSE IF g[n - 1] = 0 THEN 0 ELSE T.next[g[n - 1]]
  <2>0. n \in Nat /\ g[n] = IF n < k THEN q[n + 1] ELSE 0
    BY <1>1
  <2>1. CASE n = 0
    BY <1>2, <2>0, <2>1 DEF IsList
  <2>2. CASE n # 0
    <3>1. n - 1 \in 0..N
      BY <2>2, Sizes
    <3>2. g[n - 1] = IF n - 1 < k THEN q[n - 1 + 1] ELSE 0
      BY <1>1, <3>1, Zenon
    <3>3. n - 1 + 1 = n
      OBVIOUS
    <3>4. CASE n < k
      <4>1. n \in 1..(k - 1) /\ n - 1 < k /\ n \in 1..k
        BY <1>2, <2>2, <3>4
      <4>2. g[n - 1] = q[n] /\ g[n] = q[n + 1]
        BY <2>0, <3>2, <3>3, <3>4, <4>1
      <4>3. T.next[q[n]] = q[n + 1]
        BY <4>1 DEF IsList
      <4>4. QED
        BY <1>2, <2>2, <4>1, <4>2, <4>3, Zenon
    <3>5. CASE n = k
      <4>1. n - 1 < k /\ n \in 1..k /\ ~(n < k)
        BY <1>2, <3>5
      <4>2. g[n - 1] = q[n] /\ g[n] = 0
        BY <2>0, <3>2, <3>3, <4>1
      <4>3. T.next[q[n]] = 0
        BY <3>5 DEF IsList
      <4>4. QED
        BY <1>2, <2>2, <4>1, <4>2, <4>3, Zenon
    <3>6. CASE n > k
      <4>1. g[n - 1] = 0 /\ g[n] = 0
        BY <1>2, <2>0, <3>2, <3>6
      <4>2. QED
        BY <2>2, <4>1, Zenon
    <3>7. QED
      BY <1>2, <3>4, <3>5, <3>6
  <2>3. QED
    BY <2>1, <2>2, Zenon
<1>4. g = [n \in 0..N |->
             IF n = 0 THEN T.head ELSE IF g[n - 1] = 0 THEN 0 ELSE T.next[g[n - 1]]]
  <2>1. g = [n \in 0..N |-> g[n]]
    BY <1>1, Zenon
  <2>2. QED
    BY <1>3, <2>1, Zenon
<1>5. Follow(T) = g
  BY <1>4, FollowIs, ZenonT(40)
<1>6. QED
  BY <1>1, <1>5, Zenon

(* The list has every used entry. *)
LEMMA UsedEntries ==
  ASSUME NEW T, NEW k, NEW q, IsList(T, k, q)
  PROVE  Cardinality({e \in Entry : T.va[e] # SLOT_USABLE}) = k
<1>1. PICK S : S = {e \in Entry : T.va[e] # SLOT_USABLE}
  BY Zenon
<1>2. k \in Nat /\ q \in [1..k -> Entry] /\ \A e \in Entry : e \in S <=> \E i \in 1..k : q[i] = e
  BY <1>1 DEF IsList
<1>3. S \subseteq Entry /\ \A i, j \in 1..k : q[i] = q[j] => i = j
  BY <1>1, Zenon DEF IsList
<1>4. q \in [1..k -> S] /\ \A e \in S : \E i \in 1..k : q[i] = e
  BY <1>2, <1>3
<1>5. q \in Bijection(1..k, S)
  BY <1>3, <1>4, Zenon DEF Bijection, Injection, Surjection, IsInjective
<1>6. ExistsBijection(1..k, S)
  BY <1>5, Zenon DEF ExistsBijection
<1>7. QED
  BY <1>1, <1>2, <1>6, FS_CountingElements, Zenon

(* The queue of pages, read off the list. *)
LEMMA QueueOf ==
  ASSUME NEW T, NEW k, NEW q, IsList(T, k, q)
  PROVE  [i \in 1..k |-> T.va[Follow(T)[k - i]]] = [i \in 1..k |-> T.va[q[k - i + 1]]]
<1>1. k \in Nat /\ k <= N
  BY Sizes DEF IsList
<1>2. ASSUME NEW i \in 1..k PROVE Follow(T)[k - i] = q[k - i + 1]
  <2>1. k - i \in 0..N /\ k - i < k
    BY <1>1, Sizes
  <2>2. PICK f : f = Follow(T)
    BY Zenon
  <2>3. f = [n \in 0..N |-> IF n < k THEN q[n + 1] ELSE 0]
    BY <2>2, FollowList
  <2>4. QED
    BY <2>1, <2>2, <2>3
<1>3. QED
  BY <1>2, Zenon

(* An exact list is a queue. *)
LEMMA ListQueue ==
  ASSUME NEW k, NEW q, IsList(table, k, q)
  PROVE  ListIsQueue /\ Queue = [i \in 1..k |-> table.va[q[k - i + 1]]]
<1>1. Used = k
  BY UsedEntries, Zenon DEF Used
<1>2. Queue = [i \in 1..k |-> table.va[q[k - i + 1]]]
  BY <1>1, QueueOf DEF Queue
<1>3. k \in Nat /\ 2 <= k /\ k <= N
  BY Sizes DEF IsList
<1>4. /\ \A n \in 0..(k - 1) : Follow(table)[n] = q[n + 1]
      /\ Follow(table)[k] = 0
  BY <1>3, FollowList, Sizes
<1>5. ASSUME NEW e \in Entry, table.va[e] # SLOT_USABLE
      PROVE  \E n \in 0..(k - 1) : Follow(table)[n] = e
  <2>1. PICK i \in 1..k : q[i] = e
    BY <1>5, Zenon DEF IsList
  <2>2. i - 1 \in 0..(k - 1) /\ i - 1 + 1 = i
    BY <1>3
  <2>3. QED
    BY <1>4, <2>1, <2>2
<1>6. ASSUME NEW n \in 1..(k - 1)
      PROVE  table.last[Follow(table)[n]] = Follow(table)[n - 1]
  <2>1. n \in 0..(k - 1) /\ n - 1 \in 0..(k - 1) /\ n - 1 + 1 = n
    BY <1>3
  <2>2. Follow(table)[n] = q[n + 1] /\ Follow(table)[n - 1] = q[n]
    BY <1>4, <2>1
  <2>3. QED
    BY <2>2 DEF IsList
<1>7. table.last[table.head] = 0 /\ table.num = k
  BY Zenon DEF IsList
<1>8. table.tail = Follow(table)[k - 1]
  <2>1. k - 1 \in 0..(k - 1) /\ k - 1 + 1 = k
    BY <1>3
  <2>2. Follow(table)[k - 1] = q[k]
    BY <1>4, <2>1
  <2>3. QED
    BY <2>2, Zenon DEF IsList
<1>9. QED
  BY <1>1, <1>2, <1>4, <1>5, <1>6, <1>7, <1>8, Zenon DEF ListIsQueue

-----------------------------------------------------------------------------
(* RecordPage: a page enters the table before the list.                    *)
(* A non-empty set of entries, or of numbers, has a first one. *)
LEMMA FirstOne ==
  ASSUME NEW S, NEW D, S \subseteq D, D \subseteq Nat, S # {}
  PROVE  \E i \in D : IsFirst(i, S)
<1>1. S \subseteq Nat
  BY Zenon
<1>2. QED
  BY <1>1, Least, Zenon DEF IsFirst

(* Sequences are functions. *)
LEMMA SequenceIs ==
  ASSUME NEW S, NEW w \in Seq(S), NEW m \in Nat, Len(w) = m
  PROVE  w \in [1..m -> S]
OBVIOUS

(* Functions on 1..m are sequences. *)
LEMMA FunctionIs ==
  ASSUME NEW S, NEW m \in Nat, NEW w \in [1..m -> S]
  PROVE  w \in Seq(S) /\ Len(w) = m
OBVIOUS

(* A table with one entry changed. *)
LEMMA OneEntry ==
  ASSUME NEW D, NEW S, NEW f \in [D -> S], NEW x, NEW y \in S
  PROVE  [f EXCEPT ![x] = y] \in [D -> S]
BY Zenon

(* RecordPage, field by field. *)
LEMMA RecordFields ==
  ASSUME NEW T \in Table, NEW a \in Page, UsableEntry(T) # {}
  PROVE  \E e \in Entry :
           /\ T.va[e] = SLOT_USABLE /\ IsFirst(e, UsableEntry(T))
           /\ RecordPage(T, a) =
                [va |-> [T.va EXCEPT ![e] = a], next |-> [T.next EXCEPT ![e] = T.head],
                 last |-> IF T.head = 0 THEN T.last ELSE [T.last EXCEPT ![T.head] = e],
                 head |-> e, tail |-> IF T.head = 0 THEN e ELSE T.tail, num |-> T.num + 1]
<1>1. PICK e : e = CHOOSE i \in Entry : IsFirst(i, UsableEntry(T))
  BY Zenon
<1>2. IsFirst(e, UsableEntry(T))
  <2>1. UsableEntry(T) \subseteq Entry /\ Entry \subseteq Nat
    BY Sizes DEF UsableEntry, Entry, N
  <2>2. QED
    <3>1. \E i \in Entry : IsFirst(i, UsableEntry(T))
      BY <2>1, FirstOne, Zenon
    <3>2. QED
      BY <1>1, <3>1, Zenon
<1>3. e \in Entry /\ T.va[e] = SLOT_USABLE
  BY <1>2, Zenon DEF IsFirst, UsableEntry
<1>4. RecordPage(T, a) =
        [T EXCEPT !.va[e] = a, !.next[e] = T.head,
                  !.last = IF T.head = 0 THEN @ ELSE [@ EXCEPT ![T.head] = e],
                  !.head = e, !.tail = IF T.head = 0 THEN e ELSE @, !.num = @ + 1]
  BY <1>1 DEF RecordPage
<1>5. RecordPage(T, a) =
        [va |-> [T.va EXCEPT ![e] = a], next |-> [T.next EXCEPT ![e] = T.head],
         last |-> IF T.head = 0 THEN T.last ELSE [T.last EXCEPT ![T.head] = e],
         head |-> e, tail |-> IF T.head = 0 THEN e ELSE T.tail, num |-> T.num + 1]
  BY <1>4, Zenon DEF Table
<1>6. QED
  BY <1>2, <1>3, <1>5, Zenon

(* R is T with page a in entry e, which comes before the list q. *)
Recorded(T, k, q, a, e, R) ==
  /\ R \in Table
  /\ T.va[e] = SLOT_USABLE /\ R.va = [T.va EXCEPT ![e] = a]
  /\ IsList(R, k + 1, [i \in 1..(k + 1) |-> IF i = 1 THEN e ELSE q[i - 1]])

(* RecordPage puts a new entry before the list. *)
LEMMA RecordList ==
  ASSUME NEW T \in Table, NEW a \in Page, UsableEntry(T) # {}, NEW k, NEW q, IsList(T, k, q),
         k < N
  PROVE  \E e \in Entry : Recorded(T, k, q, a, e, RecordPage(T, a))
<1>1. PICK e \in Entry :
           /\ T.va[e] = SLOT_USABLE
           /\ RecordPage(T, a) =
                [va |-> [T.va EXCEPT ![e] = a], next |-> [T.next EXCEPT ![e] = T.head],
                 last |-> IF T.head = 0 THEN T.last ELSE [T.last EXCEPT ![T.head] = e],
                 head |-> e, tail |-> IF T.head = 0 THEN e ELSE T.tail, num |-> T.num + 1]
  BY RecordFields, Zenon
<1>2. PICK R : R = RecordPage(T, a)
  BY Zenon
<1>3. k \in Nat /\ 2 <= k /\ k < N /\ q \in [1..k -> Entry] /\ T.head = q[1] /\ T.head # 0
      /\ T.head \in Entry /\ T.num = k /\ T.tail = q[k]
  BY Sizes DEF IsList, Entry, N
<1>4. /\ R.va = [T.va EXCEPT ![e] = a] /\ R.next = [T.next EXCEPT ![e] = q[1]]
      /\ R.last = [T.last EXCEPT ![q[1]] = e]
      /\ R.head = e /\ R.tail = q[k] /\ R.num = k + 1
  BY <1>1, <1>2, <1>3
<1>5. \A i \in 1..k : q[i] # e /\ q[i] \in Entry
  BY <1>1, <1>3, Zenon DEF IsList
<1>6. R \in Table
  <2>1. /\ T.va \in [Entry -> Page \cup {SLOT_USABLE}] /\ T.next \in [Entry -> 0..N]
        /\ T.last \in [Entry -> 0..N]
    BY DEF Table
  <2>2. R = [va |-> R.va, next |-> R.next, last |-> R.last,
             head |-> R.head, tail |-> R.tail, num |-> R.num]
    BY <1>1, <1>2
  <2>3. e \in 0..N /\ q[1] \in 0..N /\ q[k] \in 0..N /\ k + 1 \in Nat
    BY <1>3, Sizes DEF Entry, N
  <2>4. R.va \in [Entry -> Page \cup {SLOT_USABLE}] /\ R.next \in [Entry -> 0..N]
        /\ R.last \in [Entry -> 0..N]
    <3>1. R.va = [T.va EXCEPT ![e] = a] /\ a \in Page \cup {SLOT_USABLE}
      BY <1>4, Zenon
    <3>2. R.va \in [Entry -> Page \cup {SLOT_USABLE}]
      BY <2>1, <3>1, OneEntry, Zenon
    <3>3. R.next = [T.next EXCEPT ![e] = q[1]] /\ T.next \in [Entry -> 0..N] /\ q[1] \in 0..N
      BY <1>4, <2>1, <2>3, Zenon
    <3>4. R.next \in [Entry -> 0..N]
      BY <3>3, OneEntry, Zenon
    <3>5. R.last = [T.last EXCEPT ![q[1]] = e] /\ T.last \in [Entry -> 0..N] /\ e \in 0..N
      BY <1>4, <2>1, <2>3, Zenon
    <3>6. R.last \in [Entry -> 0..N]
      BY <3>5, OneEntry, Zenon
    <3>7. QED
      BY <3>2, <3>4, <3>6, Zenon
  <2>5. QED
    BY <1>4, <2>2, <2>3, <2>4 DEF Table
<1>7. PICK r : r = [i \in 1..(k + 1) |-> IF i = 1 THEN e ELSE q[i - 1]]
  BY Zenon
<1>8. /\ r \in [1..(k + 1) -> Entry] /\ r[1] = e
      /\ \A i \in 1..k : r[i + 1] = q[i]
      /\ \A i \in 1..(k + 1) : i = 1 \/ (i - 1 \in 1..k /\ r[i] = q[i - 1])
  <2>1. ASSUME NEW i \in 1..(k + 1)
        PROVE  r[i] \in Entry /\ (i = 1 \/ (i - 1 \in 1..k /\ r[i] = q[i - 1]))
    BY <1>3, <1>7
  <2>2. ASSUME NEW i \in 1..k PROVE r[i + 1] = q[i]
    BY <1>3, <1>7
  <2>3. r[1] = e
    BY <1>3, <1>7
  <2>4. QED
    BY <1>7, <2>1, <2>2, <2>3, Zenon
<1>9. IsList(R, k + 1, r)
  <2>1. k + 1 \in 2..N
    BY <1>3, Sizes
  <2>2. ASSUME NEW i \in 1..(k + 1), NEW j \in 1..(k + 1), r[i] = r[j] PROVE i = j
    BY <1>3, <1>5, <1>8, <2>2 DEF IsList
  <2>3. ASSUME NEW d \in Entry
        PROVE  R.va[d] # SLOT_USABLE <=> \E i \in 1..(k + 1) : r[i] = d
    <3>1. CASE d = e
      <4>1. R.va[d] = a /\ a # SLOT_USABLE /\ 1 \in 1..(k + 1)
        BY <1>3, <1>4, <3>1 DEF Table, Page, SLOT_USABLE
      <4>2. QED
        BY <1>8, <3>1, <4>1, Zenon
    <3>2. CASE d # e
      <4>1. R.va[d] = T.va[d]
        BY <1>4, <3>2 DEF Table
      <4>2. T.va[d] # SLOT_USABLE <=> \E i \in 1..k : q[i] = d
        BY Zenon DEF IsList
      <4>3. ASSUME NEW i \in 1..k, q[i] = d PROVE \E j \in 1..(k + 1) : r[j] = d
        BY <1>3, <1>8, <4>3
      <4>4. ASSUME NEW i \in 1..(k + 1), r[i] = d PROVE \E j \in 1..k : q[j] = d
        BY <1>8, <3>2, <4>4, Zenon
      <4>5. QED
        BY <4>1, <4>2, <4>3, <4>4, Zenon
    <3>3. QED
      BY <3>1, <3>2, Zenon
  <2>4. R.head = r[1] /\ R.tail = r[k + 1] /\ R.num = k + 1
    <3>1. k \in 1..k
      BY <1>3
    <3>2. QED
      BY <1>4, <1>8, <3>1, Zenon
  <2>5. ASSUME NEW i \in 1..k
        PROVE  R.next[r[i]] = r[i + 1] /\ R.last[r[i + 1]] = r[i]
    <3>1. r[i + 1] = q[i] /\ q[i] \in Entry /\ q[i] # e
      BY <1>5, <1>8, Zenon
    <3>2. CASE i = 1
      BY <1>3, <1>4, <1>8, <3>1, <3>2 DEF Table
    <3>3. CASE i # 1
      <4>1. i - 1 \in 1..(k - 1) /\ i - 1 \in 1..k /\ i - 1 + 1 = i /\ r[i] = q[i - 1]
            /\ 1 \in 1..k
        BY <1>3, <1>8, <3>3
      <4>2. T.next[q[i - 1]] = q[i] /\ T.last[q[i]] = q[i - 1]
        BY <4>1 DEF IsList
      <4>3. q[i] # q[1] /\ q[i - 1] # e /\ q[i - 1] \in Entry
        BY <1>5, <3>3, <4>1 DEF IsList
      <4>4. R.next[q[i - 1]] = T.next[q[i - 1]] /\ R.last[q[i]] = T.last[q[i]]
        BY <1>3, <1>4, <3>1, <4>3 DEF Table
      <4>5. QED
        BY <3>1, <4>1, <4>2, <4>4, Zenon
    <3>4. QED
      BY <3>2, <3>3, Zenon
  <2>6. R.next[r[k + 1]] = 0 /\ R.last[r[1]] = 0
    <3>1. k \in 1..k /\ r[k + 1] = q[k] /\ q[k] # e /\ q[k] \in Entry /\ q[1] # e
      BY <1>3, <1>5, <1>8
    <3>2. R.next[q[k]] = T.next[q[k]] /\ R.last[e] = T.last[e]
      BY <1>3, <1>4, <3>1 DEF Table
    <3>3. QED
      BY <1>1, <1>8, <3>1, <3>2 DEF IsList
  <2>7. \A i \in 1..(k + 1 - 1) : R.next[r[i]] = r[i + 1] /\ R.last[r[i + 1]] = r[i]
    <3>1. k + 1 - 1 = k
      BY <1>3
    <3>2. QED
      BY <2>5, <3>1, Zenon
  <2>8. ASSUME NEW d \in Entry, R.va[d] = SLOT_USABLE PROVE R.last[d] = 0
    <3>1. d # e
      BY <1>4, <2>8 DEF Table, Page, SLOT_USABLE
    <3>2. T.va[d] = SLOT_USABLE
      BY <1>4, <2>8, <3>1 DEF Table
    <3>3. d # q[1] /\ T.last[d] = 0
      BY <1>3, <3>2 DEF IsList
    <3>4. QED
      BY <1>3, <1>4, <3>3 DEF Table
  <2>9. QED
    BY <1>8, <2>1, <2>2, <2>3, <2>4, <2>6, <2>7, <2>8 DEF IsList
<1>10. Recorded(T, k, q, a, e, R)
  BY <1>1, <1>4, <1>6, <1>7, <1>9, Zenon DEF Recorded
<1>11. QED
  BY <1>2, <1>10, Zenon

-----------------------------------------------------------------------------
(* Rotate: the last entry is given to a new page and comes first.          *)
(* R is T with page a in the last entry of the list q, now the first. *)
Rotated(T, k, q, a, R) ==
  /\ ~TailPanics(T)
  /\ R \in Table
  /\ T.tail \in Entry /\ T.va[T.tail] # SLOT_USABLE /\ T.va[T.tail] \in Page
  /\ R.va = [T.va EXCEPT ![T.tail] = a]
  /\ IsList(R, k, [i \in 1..k |-> IF i = 1 THEN q[k] ELSE q[i - 1]])

(* Rotate takes the last entry of the list to its front. *)
LEMMA RotateList ==
  ASSUME NEW T \in Table, NEW a \in Page, NEW k, NEW q, IsList(T, k, q)
  PROVE  Rotated(T, k, q, a, Rotate(T, a))
<1>1. /\ k \in Nat /\ 2 <= k /\ k <= N /\ q \in [1..k -> Entry]
      /\ 1 \in 1..k /\ k \in 1..k /\ k - 1 \in 1..k /\ k - 1 \in 1..(k - 1) /\ k - 1 + 1 = k
      /\ 1 \in 1..(k - 1) /\ 2 \in 1..k
  BY Sizes DEF IsList
<1>2. /\ T.head = q[1] /\ T.tail = q[k] /\ T.num = k /\ T.last[q[k]] = q[k - 1]
      /\ T.next[q[k]] = 0 /\ T.last[q[1]] = 0 /\ T.next[q[1]] = q[2]
      /\ \A i, j \in 1..k : q[i] = q[j] => i = j
  BY <1>1 DEF IsList
<1>0. /\ \A i, j \in 1..k : q[i] = q[j] => i = j
      /\ 1 \in 1..k /\ k \in 1..k /\ k - 1 \in 1..k
  BY <1>1, <1>2, Zenon
<1>3. \A i \in 1..k : q[i] \in Entry /\ q[i] # 0 /\ q[i] \in 0..N
  BY <1>1, Sizes DEF Entry, N
<1>4. ~TailPanics(T)
  <2>1. q[1] # 0 /\ q[2] # 0 /\ q[k] # 0 /\ q[k - 1] # 0
    BY <1>1, <1>3, Zenon
  <2>2. QED
    BY <1>2, <2>1, ZenonT(40) DEF TailPanics
<1>5. T.tail \in Entry /\ T.va[T.tail] # SLOT_USABLE /\ T.va[T.tail] \in Page
  <2>1. T.tail \in Entry /\ T.va[T.tail] # SLOT_USABLE
    BY <1>1, <1>2, <1>3, Zenon DEF IsList
  <2>2. QED
    BY <2>1 DEF Table
<1>6. PICK R : R = Rotate(T, a)
  BY Zenon
<1>7. /\ R = [va |-> R.va, next |-> R.next, last |-> R.last,
              head |-> R.head, tail |-> R.tail, num |-> R.num]
      /\ R.va = [T.va EXCEPT ![q[k]] = a]
      /\ R.next = [[T.next EXCEPT ![q[k - 1]] = 0] EXCEPT ![q[k]] = q[1]]
      /\ R.last = [[T.last EXCEPT ![q[k]] = 0] EXCEPT ![q[1]] = q[k]]
      /\ R.head = q[k] /\ R.tail = q[k - 1] /\ R.num = k
  <2>1. PICK G : G = GetMemoryListTail(T)
    BY Zenon
  <2>2. G = [va |-> T.va, next |-> [T.next EXCEPT ![q[k - 1]] = 0],
             last |-> [T.last EXCEPT ![q[k]] = 0],
             head |-> q[1], tail |-> q[k - 1], num |-> k]
    BY <1>2, <2>1, Zenon DEF GetMemoryListTail, Table
  <2>3. R = [G EXCEPT !.next[q[k]] = G.head, !.last[G.head] = q[k], !.head = q[k],
                      !.va[q[k]] = a]
    BY <1>2, <1>6, <2>1, Zenon DEF Rotate, SetMemoryListHead
  <2>4. QED
    BY <2>2, <2>3, Zenon
<1>8. T.va \in [Entry -> Page \cup {SLOT_USABLE}] /\ T.next \in [Entry -> 0..N]
      /\ T.last \in [Entry -> 0..N]
  BY DEF Table
<1>9. R \in Table
  <2>1. R.va = [T.va EXCEPT ![q[k]] = a] /\ a \in Page \cup {SLOT_USABLE}
    BY <1>7, Zenon
  <2>2. R.va \in [Entry -> Page \cup {SLOT_USABLE}]
    BY <1>8, <2>1, OneEntry, Zenon
  <2>3. 0 \in 0..N /\ q[1] \in 0..N /\ q[k] \in 0..N /\ q[k - 1] \in 0..N
    BY <1>1, <1>3, Sizes
  <2>4. [T.next EXCEPT ![q[k - 1]] = 0] \in [Entry -> 0..N]
    BY <1>8, <2>3, OneEntry, Zenon
  <2>5. R.next = [[T.next EXCEPT ![q[k - 1]] = 0] EXCEPT ![q[k]] = q[1]]
    BY <1>7, Zenon
  <2>6. R.next \in [Entry -> 0..N]
    BY <2>3, <2>4, <2>5, OneEntry, Zenon
  <2>7. [T.last EXCEPT ![q[k]] = 0] \in [Entry -> 0..N]
    BY <1>8, <2>3, OneEntry, Zenon
  <2>8. R.last = [[T.last EXCEPT ![q[k]] = 0] EXCEPT ![q[1]] = q[k]]
    BY <1>7, Zenon
  <2>9. R.last \in [Entry -> 0..N]
    BY <2>3, <2>7, <2>8, OneEntry, Zenon
  <2>10. QED
    BY <1>1, <1>7, <2>2, <2>3, <2>6, <2>9, Zenon DEF Table
<1>10. PICK r : r = [i \in 1..k |-> IF i = 1 THEN q[k] ELSE q[i - 1]]
  BY Zenon
<1>11. /\ r \in [1..k -> Entry] /\ r[1] = q[k]
       /\ \A i \in 1..k : i = 1 \/ (i - 1 \in 1..k /\ i - 1 # k /\ r[i] = q[i - 1])
       /\ \A i \in 1..(k - 1) : i \in 1..k /\ i + 1 \in 1..k /\ r[i + 1] = q[i]
  <2>1. ASSUME NEW i \in 1..k
        PROVE  r[i] \in Entry /\ (i = 1 \/ (i - 1 \in 1..k /\ i - 1 # k /\ r[i] = q[i - 1]))
    BY <1>1, <1>10
  <2>2. ASSUME NEW i \in 1..(k - 1) PROVE i \in 1..k /\ i + 1 \in 1..k /\ r[i + 1] = q[i]
    BY <1>1, <1>10
  <2>3. r[1] = q[k]
    BY <1>1, <1>10, Zenon
  <2>4. QED
    BY <1>10, <2>1, <2>2, <2>3, Zenon
<1>12. IsList(R, k, r)
  <2>1. ASSUME NEW i \in 1..k, NEW j \in 1..k, r[i] = r[j] PROVE i = j
    <3>1. ASSUME NEW h \in 1..k, h # 1 PROVE r[h] # q[k]
      <4>1. h - 1 \in 1..k /\ h - 1 # k /\ r[h] = q[h - 1]
        BY <1>11, <3>1, Zenon
      <4>2. QED
        BY <1>0, <4>1, Zenon
    <3>2. CASE i = 1 \/ j = 1
      BY <1>11, <2>1, <3>1, <3>2, Zenon
    <3>3. CASE i # 1 /\ j # 1
      <4>1. i - 1 \in 1..k /\ j - 1 \in 1..k /\ q[i - 1] = q[j - 1]
        BY <1>11, <2>1, <3>3, Zenon
      <4>2. i - 1 = j - 1
        BY <1>2, <4>1, ZenonT(40)
      <4>3. QED
        BY <4>2
    <3>4. QED
      BY <3>2, <3>3, Zenon
  <2>2. ASSUME NEW d \in Entry PROVE R.va[d] # SLOT_USABLE <=> T.va[d] # SLOT_USABLE
    <3>1. R.va[d] = IF d = q[k] THEN a ELSE T.va[d]
      BY <1>7, <1>8, Zenon
    <3>2. a # SLOT_USABLE
      BY DEF Page, SLOT_USABLE
    <3>3. QED
      BY <1>2, <1>5, <3>1, <3>2, ZenonT(40)
  <2>3. ASSUME NEW d \in Entry
        PROVE  (\E i \in 1..k : q[i] = d) <=> \E i \in 1..k : r[i] = d
    <3>1. ASSUME NEW i \in 1..k, q[i] = d PROVE \E j \in 1..k : r[j] = d
      <4>1. CASE i = k
        BY <1>1, <1>11, <3>1, <4>1, Zenon
      <4>2. CASE i # k
        <5>1. i \in 1..(k - 1)
          BY <1>1, <4>2
        <5>2. QED
          BY <1>11, <3>1, <5>1, Zenon
      <4>3. QED
        BY <4>1, <4>2, Zenon
    <3>2. ASSUME NEW i \in 1..k, r[i] = d PROVE \E j \in 1..k : q[j] = d
      BY <1>1, <1>11, <3>2, Zenon
    <3>3. QED
      BY <3>1, <3>2, Zenon
  <2>4. \A d \in Entry : R.va[d] # SLOT_USABLE <=> \E i \in 1..k : r[i] = d
    BY <2>2, <2>3, Zenon DEF IsList
  <2>5. R.head = r[1] /\ R.tail = r[k] /\ R.num = k
    <3>1. k # 1
      BY <1>1
    <3>2. QED
      BY <1>1, <1>7, <1>11, <3>1, Zenon
  <2>6. ASSUME NEW i \in 1..(k - 1)
        PROVE  R.next[r[i]] = r[i + 1] /\ R.last[r[i + 1]] = r[i]
    <3>0. r[i + 1] = q[i] /\ q[i] \in Entry /\ q[i] # q[k] /\ i \in 1..k /\ i # k
      BY <1>1, <1>2, <1>3, <1>11
    <3>1. CASE i = 1
      <4>1. R.next[q[k]] = q[1] /\ R.last[q[1]] = q[k]
        BY <1>1, <1>3, <1>7, <1>8, Zenon
      <4>2. QED
        BY <1>11, <3>0, <3>1, <4>1, Zenon
    <3>2. CASE i # 1
      <4>1. i - 1 \in 1..(k - 1) /\ i - 1 \in 1..k /\ i - 1 # k /\ i - 1 # k - 1
            /\ i - 1 + 1 = i
        BY <1>1, <3>2
      <4>2. r[i] = q[i - 1] /\ q[i - 1] # q[k] /\ q[i - 1] # q[k - 1] /\ q[i] # q[1]
        <5>1. r[i] = q[i - 1]
          BY <1>11, <3>0, <3>2, Zenon
        <5>2. q[i - 1] # q[k] /\ q[i - 1] # q[k - 1] /\ q[i] # q[1]
          BY <1>0, <3>0, <3>2, <4>1, Zenon
        <5>3. QED
          BY <5>1, <5>2, Zenon
      <4>3. T.next[q[i - 1]] = q[i] /\ T.last[q[i]] = q[i - 1]
        BY <4>1 DEF IsList
      <4>4. R.next[q[i - 1]] = T.next[q[i - 1]] /\ R.last[q[i]] = T.last[q[i]]
        BY <1>3, <1>7, <1>8, <3>0, <4>1, <4>2
      <4>5. QED
        BY <3>0, <4>2, <4>3, <4>4, Zenon
    <3>3. QED
      BY <3>1, <3>2, Zenon
  <2>7. R.next[r[k]] = 0 /\ R.last[r[1]] = 0
    <3>1. k # 1 /\ k # k - 1
      BY <1>1
    <3>2. r[k] = q[k - 1] /\ r[1] = q[k] /\ q[k] # q[k - 1] /\ q[k] # q[1]
      BY <1>1, <1>2, <1>11, <3>1, ZenonT(40)
    <3>3. R.next[q[k - 1]] = 0 /\ R.last[q[k]] = 0
      BY <1>1, <1>3, <1>7, <1>8, <3>2
    <3>4. QED
      BY <3>2, <3>3, Zenon
  <2>8. ASSUME NEW d \in Entry, R.va[d] = SLOT_USABLE PROVE R.last[d] = 0
    <3>1. T.va[d] = SLOT_USABLE
      BY <2>2, <2>8, Zenon
    <3>2. T.last[d] = 0 /\ d # q[1] /\ d # q[k]
      <4>1. T.last[d] = 0
        BY <3>1, Zenon DEF IsList
      <4>2. \A i \in 1..k : T.va[q[i]] # SLOT_USABLE
        BY <1>3, Zenon DEF IsList
      <4>3. QED
        BY <1>0, <3>1, <4>1, <4>2, Zenon
    <3>3. R.last = [[T.last EXCEPT ![q[k]] = 0] EXCEPT ![q[1]] = q[k]]
      BY <1>7, Zenon
    <3>4. QED
      BY <1>8, <3>2, <3>3, Zenon
  <2>9. k \in 2..N
    BY Zenon DEF IsList
  <2>10. QED
    BY <1>11, <2>1, <2>4, <2>5, <2>6, <2>7, <2>8, <2>9 DEF IsList
<1>13. QED
  BY <1>2, <1>4, <1>5, <1>6, <1>7, <1>9, <1>10, <1>12, Zenon DEF Rotated

-----------------------------------------------------------------------------
(* CopyList: fork copies the list into the first entries of the child.     *)
(* R has the pages of T's list q in its first entries, in order. *)
Copied(T, k, q, R) ==
  /\ R \in Table
  /\ IsList(R, k, [i \in 1..k |-> i])
  /\ \A i \in 1..k : i \in Entry /\ R.va[i] = T.va[q[i]]

(* CopyVirtualMemoryData keeps the list and puts its entries in order. *)
LEMMA CopyListIs ==
  ASSUME NEW T \in Table, NEW k, NEW q, IsList(T, k, q)
  PROVE  Copied(T, k, q, CopyList(T))
<1>1. /\ k \in Nat /\ 2 <= k /\ k <= N /\ q \in [1..k -> Entry] /\ T.num = k
      /\ \A i \in 1..k : i \in Entry /\ T.va[q[i]] # SLOT_USABLE /\ T.va[q[i]] \in Page
  <2>1. k \in Nat /\ 2 <= k /\ k <= N /\ q \in [1..k -> Entry] /\ T.num = k
    BY Sizes DEF IsList
  <2>2. ASSUME NEW i \in 1..k
        PROVE  i \in Entry /\ T.va[q[i]] # SLOT_USABLE /\ T.va[q[i]] \in Page
    <3>1. q[i] \in Entry /\ T.va[q[i]] # SLOT_USABLE
      BY <2>1, Zenon DEF IsList
    <3>2. T.va[q[i]] \in Page
      BY <3>1 DEF Table
    <3>3. i \in Entry
      BY <2>1, Sizes DEF Entry, N
    <3>4. QED
      BY <3>1, <3>2, <3>3, Zenon
  <2>3. QED
    BY <2>1, <2>2, Zenon
<1>2. PICK f : f = Follow(T)
  BY Zenon
<1>3. f = [n \in 0..N |-> IF n < k THEN q[n + 1] ELSE 0]
  BY <1>2, FollowList
<1>4. Cardinality({n \in DOMAIN f : f[n] # 0}) = k
  <2>1. \A n : n \in DOMAIN f /\ f[n] # 0 <=> n \in 0..(k - 1)
    BY <1>1, <1>3, Sizes DEF Entry, N
  <2>2. {n \in DOMAIN f : f[n] # 0} = 0..(k - 1)
    BY <2>1, Zenon
  <2>3. Cardinality(0..(k - 1)) = k
    BY <1>1, FS_Interval
  <2>4. QED
    BY <2>2, <2>3, Zenon
<1>5. PICK R : R = CopyList(T)
  BY Zenon
<1>6. R = [va   |-> [e \in Entry |-> IF e <= k THEN T.va[f[e - 1]] ELSE SLOT_USABLE],
           next |-> [e \in Entry |-> IF e < k THEN e + 1 ELSE 0],
           last |-> [e \in Entry |-> IF e <= k THEN e - 1 ELSE 0],
           head |-> IF k = 0 THEN 0 ELSE 1, tail |-> k, num |-> T.num]
  BY <1>2, <1>4, <1>5 DEF CopyList
<1>7. /\ R.va = [e \in Entry |-> IF e <= k THEN T.va[f[e - 1]] ELSE SLOT_USABLE]
      /\ R.next = [e \in Entry |-> IF e < k THEN e + 1 ELSE 0]
      /\ R.last = [e \in Entry |-> IF e <= k THEN e - 1 ELSE 0]
      /\ R.head = 1 /\ R.tail = k /\ R.num = k
      /\ R = [va |-> R.va, next |-> R.next, last |-> R.last,
              head |-> R.head, tail |-> R.tail, num |-> R.num]
  BY <1>1, <1>6
<1>8. ASSUME NEW e \in Entry
      PROVE  /\ e \in Nat /\ e >= 1 /\ e <= N
             /\ e <= k => e \in 1..k /\ R.va[e] = T.va[q[e]]
             /\ ~(e <= k) => R.va[e] = SLOT_USABLE
  <2>1. e \in Nat /\ e >= 1 /\ e <= N
    BY Sizes DEF Entry, N
  <2>2. R.va[e] = IF e <= k THEN T.va[f[e - 1]] ELSE SLOT_USABLE
    BY <1>7, Zenon
  <2>3. ASSUME e <= k PROVE e \in 1..k /\ f[e - 1] = q[e]
    BY <1>1, <1>3, <2>1, <2>3, Sizes
  <2>4. QED
    BY <2>1, <2>2, <2>3, Zenon
<1>9. R \in Table
  <2>1. R.va \in [Entry -> Page \cup {SLOT_USABLE}]
    <3>1. \A e \in Entry : R.va[e] \in Page \cup {SLOT_USABLE}
      BY <1>1, <1>8, Zenon
    <3>2. R.va = [e \in Entry |-> R.va[e]]
      BY <1>7, Zenon
    <3>3. QED
      BY <3>1, <3>2, Zenon
  <2>2. R.next \in [Entry -> 0..N] /\ R.last \in [Entry -> 0..N]
    <3>1. ASSUME NEW e \in Entry
          PROVE  (IF e < k THEN e + 1 ELSE 0) \in 0..N /\ (IF e <= k THEN e - 1 ELSE 0) \in 0..N
      BY <1>1, <1>8, Sizes
    <3>2. QED
      BY <1>7, <3>1, ZenonT(40)
  <2>3. R.head \in 0..N /\ R.tail \in 0..N /\ R.num \in Nat
    BY <1>1, <1>7, Sizes
  <2>4. QED
    BY <1>7, <2>1, <2>2, <2>3 DEF Table
<1>10. PICK r : r = [i \in 1..k |-> i]
  BY Zenon
<1>11. r \in [1..k -> Entry] /\ \A i \in 1..k : r[i] = i
  BY <1>1, <1>10, Zenon
<1>12. IsList(R, k, r)
  <2>1. \A i, j \in 1..k : r[i] = r[j] => i = j
    BY <1>11, Zenon
  <2>2. ASSUME NEW e \in Entry
        PROVE  R.va[e] # SLOT_USABLE <=> \E i \in 1..k : r[i] = e
    <3>1. CASE e <= k
      <4>1. e \in 1..k /\ R.va[e] = T.va[q[e]]
        BY <1>8, <3>1, Zenon
      <4>2. T.va[q[e]] # SLOT_USABLE
        BY <1>1, <4>1, ZenonT(40)
      <4>3. r[e] = e
        BY <1>11, <4>1, Zenon
      <4>4. QED
        BY <4>1, <4>2, <4>3, Zenon
    <3>2. CASE ~(e <= k)
      <4>1. \A i \in 1..k : i # e
        BY <1>1, <1>8, <3>2
      <4>2. QED
        BY <1>8, <1>11, <3>2, <4>1, Zenon
    <3>3. QED
      BY <3>1, <3>2, Zenon
  <2>3. R.head = r[1] /\ R.tail = r[k] /\ R.num = k
    BY <1>1, <1>7, <1>11
  <2>4. ASSUME NEW i \in 1..(k - 1)
        PROVE  R.next[r[i]] = r[i + 1] /\ R.last[r[i + 1]] = r[i]
    <3>1. i \in 1..k /\ i + 1 \in 1..k /\ i \in Entry /\ i + 1 \in Entry /\ i < k /\ i + 1 <= k
          /\ i + 1 - 1 = i
      BY <1>1
    <3>2. R.next[i] = i + 1 /\ R.last[i + 1] = i
      BY <1>7, <3>1
    <3>3. QED
      BY <1>11, <3>1, <3>2, Zenon
  <2>5. R.next[r[k]] = 0 /\ R.last[r[1]] = 0
    <3>1. k \in 1..k /\ 1 \in 1..k /\ k \in Entry /\ 1 \in Entry
      BY <1>1
    <3>2. R.next[k] = 0 /\ R.last[1] = 0
      BY <1>1, <1>7, <3>1
    <3>3. QED
      BY <1>11, <3>1, <3>2, Zenon
  <2>6. ASSUME NEW e \in Entry, R.va[e] = SLOT_USABLE PROVE R.last[e] = 0
    <3>1. ~(e <= k)
      BY <1>1, <1>8, <2>6, Zenon
    <3>2. QED
      BY <1>7, <3>1, Zenon
  <2>7. k \in 2..N
    BY Zenon DEF IsList
  <2>8. QED
    BY <1>11, <2>1, <2>2, <2>3, <2>4, <2>5, <2>6, <2>7 DEF IsList
<1>13. ASSUME NEW i \in 1..k PROVE i \in Entry /\ R.va[i] = T.va[q[i]]
  <2>1. i <= k
    BY <1>1
  <2>2. QED
    BY <1>1, <1>8, <2>1, Zenon
<1>14. QED
  BY <1>5, <1>9, <1>10, <1>12, <1>13, Zenon DEF Copied

(* The table after exec has recorded n pages of text. *)
Loaded(n) ==
  [va   |-> [e \in Entry |-> IF e <= n THEN e ELSE SLOT_USABLE],
   next |-> [e \in Entry |-> IF e <= n THEN e - 1 ELSE 0],
   last |-> [e \in Entry |-> IF e < n THEN e + 1 ELSE 0],
   head |-> n, tail |-> IF n = 0 THEN 0 ELSE 1, num |-> n]

(* Recording one more page takes the next entry. *)
LEMMA LoadOne ==
  ASSUME NEW n \in Nat, n <= TextPages, NEW a \in Page
  PROVE  /\ Loaded(n) \in Table
         /\ RecordPage(Loaded(n), a) =
              [va |-> [Loaded(n).va EXCEPT ![n + 1] = a],
               next |-> [Loaded(n).next EXCEPT ![n + 1] = n],
               last |-> IF n = 0 THEN Loaded(n).last ELSE [Loaded(n).last EXCEPT ![n] = n + 1],
               head |-> n + 1, tail |-> IF n = 0 THEN n + 1 ELSE 1, num |-> n + 1]
<1>1. PICK T : T = Loaded(n)
  BY Zenon
<1>2. /\ T.va = [e \in Entry |-> IF e <= n THEN e ELSE SLOT_USABLE]
      /\ T.next = [e \in Entry |-> IF e <= n THEN e - 1 ELSE 0]
      /\ T.last = [e \in Entry |-> IF e < n THEN e + 1 ELSE 0]
      /\ T.head = n /\ T.tail = (IF n = 0 THEN 0 ELSE 1) /\ T.num = n
      /\ T = [va |-> T.va, next |-> T.next, last |-> T.last,
              head |-> T.head, tail |-> T.tail, num |-> T.num]
  BY <1>1 DEF Loaded
<1>3. \A e \in Entry : e \in Nat /\ e >= 1 /\ e <= N /\ (e <= n => e \in Page)
  BY Sizes DEF Entry, N, Page
<1>4. T \in Table
  <2>1. T.va \in [Entry -> Page \cup {SLOT_USABLE}]
    BY <1>2, <1>3, ZenonT(40)
  <2>2. T.next \in [Entry -> 0..N] /\ T.last \in [Entry -> 0..N]
    BY <1>2, <1>3, Sizes
  <2>3. T.head \in 0..N /\ T.tail \in 0..N /\ T.num \in Nat
    BY <1>2, Sizes
  <2>4. QED
    BY <1>2, <2>1, <2>2, <2>3 DEF Table
<1>5. n + 1 \in Entry /\ T.va[n + 1] = SLOT_USABLE
  <2>1. n + 1 \in Entry /\ ~(n + 1 <= n)
    BY Sizes DEF Entry, N
  <2>2. QED
    BY <1>2, <2>1, Zenon
<1>6. PICK e \in Entry :
           /\ T.va[e] = SLOT_USABLE /\ IsFirst(e, UsableEntry(T))
           /\ RecordPage(T, a) =
                [va |-> [T.va EXCEPT ![e] = a], next |-> [T.next EXCEPT ![e] = T.head],
                 last |-> IF T.head = 0 THEN T.last ELSE [T.last EXCEPT ![T.head] = e],
                 head |-> e, tail |-> IF T.head = 0 THEN e ELSE T.tail, num |-> T.num + 1]
  <2>1. UsableEntry(T) # {}
    BY <1>5, Zenon DEF UsableEntry
  <2>2. QED
    BY <1>4, <2>1, RecordFields, Zenon
<1>7. e = n + 1
  <2>1. e <= n + 1
    BY <1>5, <1>6, Zenon DEF IsFirst, UsableEntry
  <2>2. ~(e <= n)
    <3>1. ASSUME e <= n PROVE FALSE
      <4>1. T.va[e] = e
        BY <1>2, <3>1, Zenon
      <4>2. QED
        BY <1>3, <1>6, <4>1 DEF SLOT_USABLE
    <3>2. QED
      BY <3>1, Zenon
  <2>3. QED
    BY <1>3, <2>1, <2>2
<1>8. RecordPage(T, a) =
        [va |-> [T.va EXCEPT ![n + 1] = a], next |-> [T.next EXCEPT ![n + 1] = n],
         last |-> IF n = 0 THEN T.last ELSE [T.last EXCEPT ![n] = n + 1],
         head |-> n + 1, tail |-> IF n = 0 THEN n + 1 ELSE 1, num |-> n + 1]
  BY <1>2, <1>6, <1>7
<1>9. QED
  BY <1>1, <1>4, <1>8, Zenon

-----------------------------------------------------------------------------
(* ExecTable: exec records the pages of text one by one, then the stack.   *)
Same(m, f, g) == \A n \in 0..m : f[n] = g[n]
SameStart(m, f, g) ==
  f[0] = g[0] /\ \A n \in 1..m : f[n - 1] = g[n - 1] => f[n] = g[n]

(* Two functions on 0..m that start with the same value and go on alike    *)
(* are the same.                                                           *)
LEMMA SameValues ==
  ASSUME NEW m \in Nat, NEW f, NEW g, SameStart(m, f, g)
  PROVE  Same(m, f, g)
<1>0. f[0] = g[0] /\ \A n \in 1..m : f[n - 1] = g[n - 1] => f[n] = g[n]
  BY Zenon DEF SameStart
<1>1. ASSUME {n \in 0..m : f[n] # g[n]} # {} PROVE FALSE
  <2>0. PICK S : S = {n \in 0..m : f[n] # g[n]}
    BY Zenon
  <2>1. PICK n \in S : \A i \in S : n <= i
    <3>1. S \subseteq Nat /\ S # {}
      BY <1>1, <2>0
    <3>2. QED
      BY <3>1, Least, Zenon
  <2>2. n \in 0..m /\ f[n] # g[n]
    BY <2>0, <2>1, Zenon
  <2>3. n # 0
    BY <1>0, <2>2, Zenon
  <2>4. n \in 1..m /\ n - 1 \in 0..m /\ ~(n <= n - 1)
    BY <2>2, <2>3
  <2>5. f[n - 1] = g[n - 1]
    BY <2>0, <2>1, <2>4, Zenon
  <2>6. QED
    BY <1>0, <2>2, <2>4, <2>5, Zenon
<1>2. \A n \in 0..m : f[n] = g[n]
  BY <1>1, Zenon
<1>3. QED
  BY <1>2, Zenon DEF Same

(* exec's loop records the pages of text in order. *)
LEMMA LoadNext ==
  ASSUME NEW n \in Nat, n < TextPages
  PROVE  RecordPage(Loaded(n), n + 1) = Loaded(n + 1)
<1>1. PICK R : R = RecordPage(Loaded(n), n + 1)
  BY Zenon
<1>2. PICK T : T = Loaded(n)
  BY Zenon
<1>3. n + 1 \in Page /\ n + 1 \in Nat /\ n <= TextPages
  BY Sizes DEF Page
<1>4. /\ T.va = [e \in Entry |-> IF e <= n THEN e ELSE SLOT_USABLE]
      /\ T.next = [e \in Entry |-> IF e <= n THEN e - 1 ELSE 0]
      /\ T.last = [e \in Entry |-> IF e < n THEN e + 1 ELSE 0]
  BY <1>2 DEF Loaded
<1>5. R = [va |-> [T.va EXCEPT ![n + 1] = n + 1],
           next |-> [T.next EXCEPT ![n + 1] = n],
           last |-> IF n = 0 THEN T.last ELSE [T.last EXCEPT ![n] = n + 1],
           head |-> n + 1, tail |-> IF n = 0 THEN n + 1 ELSE 1, num |-> n + 1]
  BY <1>1, <1>2, <1>3, LoadOne
<1>6. \A e \in Entry : e \in Nat /\ e >= 1
  BY Sizes DEF Entry, N
<1>7. [T.va EXCEPT ![n + 1] = n + 1] = [e \in Entry |-> IF e <= n + 1 THEN e ELSE SLOT_USABLE]
  <2>1. ASSUME NEW e \in Entry
        PROVE  [T.va EXCEPT ![n + 1] = n + 1][e] = IF e <= n + 1 THEN e ELSE SLOT_USABLE
    BY <1>4, <1>6
  <2>2. QED
    BY <1>4, <2>1
<1>8. [T.next EXCEPT ![n + 1] = n] = [e \in Entry |-> IF e <= n + 1 THEN e - 1 ELSE 0]
  <2>1. ASSUME NEW e \in Entry
        PROVE  [T.next EXCEPT ![n + 1] = n][e] = IF e <= n + 1 THEN e - 1 ELSE 0
    BY <1>4, <1>6
  <2>2. QED
    BY <1>4, <2>1
<1>9. (IF n = 0 THEN T.last ELSE [T.last EXCEPT ![n] = n + 1])
        = [e \in Entry |-> IF e < n + 1 THEN e + 1 ELSE 0]
  <2>1. ASSUME NEW e \in Entry
        PROVE  (IF n = 0 THEN T.last ELSE [T.last EXCEPT ![n] = n + 1])[e]
                 = IF e < n + 1 THEN e + 1 ELSE 0
    BY <1>4, <1>6
  <2>2. QED
    BY <1>4, <2>1
<1>10. (IF n = 0 THEN n + 1 ELSE 1) = IF n + 1 = 0 THEN 0 ELSE 1
  OBVIOUS
<1>11. R = Loaded(n + 1)
  BY <1>5, <1>7, <1>8, <1>9, <1>10, Zenon DEF Loaded
<1>12. QED
  BY <1>1, <1>11, Zenon

(* What exec's loop computes. *)
LEMMA ExecIs ==
  ExecTable = RecordPage(Loaded(TextPages), USERTOP - 1)
<1> DEFINE B(h) == [n \in 0..TextPages |-> IF n = 0 THEN EmptyTable ELSE RecordPage(h[n - 1], n)]
<1>1. PICK f : f = CHOOSE h : h = B(h)
  BY Zenon
<1>2. ExecTable = RecordPage(f[TextPages], USERTOP - 1)
  BY <1>1 DEF ExecTable, Loading
<1>3. PICK g : g = [n \in 0..TextPages |-> Loaded(n)]
  BY Zenon
<1>4. g[0] = EmptyTable
  <2>1. \A e \in Entry : ~(e <= 0) /\ ~(e < 0)
    BY Sizes DEF Entry, N
  <2>2. Loaded(0) = EmptyTable
    BY <2>1, Zenon DEF Loaded, EmptyTable
  <2>3. QED
    BY <1>3, <2>2, Sizes
<1>5. ASSUME NEW n \in 1..TextPages PROVE g[n] = RecordPage(g[n - 1], n)
  <2>1. n - 1 \in Nat /\ n - 1 < TextPages /\ n - 1 + 1 = n
        /\ n - 1 \in 0..TextPages /\ n \in 0..TextPages
    BY Sizes
  <2>2. RecordPage(Loaded(n - 1), n - 1 + 1) = Loaded(n - 1 + 1)
    BY <2>1, LoadNext, Zenon
  <2>3. g[n - 1] = Loaded(n - 1) /\ g[n] = Loaded(n)
    BY <1>3, <2>1, Zenon
  <2>4. QED
    BY <2>1, <2>2, <2>3, Zenon
<1>6. g = B(g)
  <2>1. ASSUME NEW n \in 0..TextPages
        PROVE  g[n] = IF n = 0 THEN EmptyTable ELSE RecordPage(g[n - 1], n)
    <3>1. n = 0 \/ n \in 1..TextPages
      BY Sizes
    <3>2. n \in 1..TextPages => n # 0
      OBVIOUS
    <3>3. QED
      BY <1>4, <1>5, <3>1, <3>2, Zenon
  <2>2. g = [n \in 0..TextPages |-> g[n]]
    BY <1>3, Zenon
  <2>3. QED
    BY <2>1, <2>2, Zenon
<1>7. f = B(f)
  <2> HIDE DEF B
  <2>1. QED
    BY <1>1, <1>6, Zenon
<1>8. f[0] = g[0]
  <2>1. 0 \in 0..TextPages
    BY Sizes
  <2>2. QED
    BY <1>4, <1>7, <2>1, Zenon
<1>9. ASSUME NEW n \in 1..TextPages, f[n - 1] = g[n - 1] PROVE f[n] = g[n]
  <2>1. n \in 0..TextPages /\ n # 0
    BY Sizes
  <2>2. f[n] = RecordPage(f[n - 1], n)
    BY <1>7, <2>1, Zenon
  <2>3. QED
    BY <1>5, <1>9, <2>2, Zenon
<1>11. Same(TextPages, f, g)
  <2>1. TextPages \in Nat
    BY Sizes
  <2>2. SameStart(TextPages, f, g)
    BY <1>8, <1>9, Zenon DEF SameStart
  <2>3. QED
    BY <2>1, <2>2, SameValues, Zenon
<1>12. f[TextPages] = Loaded(TextPages)
  <2>1. TextPages \in 0..TextPages
    BY Sizes
  <2>2. QED
    BY <1>3, <1>11, <2>1, Zenon DEF Same
<1>13. QED
  BY <1>2, <1>12, Zenon

(* exec leaves an exact list of the pages of its image. *)
LEMMA ExecList ==
  /\ ExecTable \in Table
  /\ IsList(ExecTable, TextPages + 1, [i \in 1..(TextPages + 1) |-> TextPages + 2 - i])
  /\ ExecTable.va = [e \in Entry |-> IF e <= TextPages THEN e
                                     ELSE IF e = TextPages + 1 THEN USERTOP - 1 ELSE SLOT_USABLE]
<1>1. PICK R : R = ExecTable
  BY Zenon
<1>2. PICK T : T = Loaded(TextPages)
  BY Zenon
<1>3. PICK k : k = TextPages + 1
  BY Zenon
<1>4. /\ k \in Nat /\ 2 <= k /\ k <= N /\ USERTOP - 1 \in Page /\ TextPages \in Nat
      /\ TextPages # 0 /\ TextPages <= TextPages /\ USERTOP - 1 # SLOT_USABLE
  BY <1>3, Sizes DEF Page, SLOT_USABLE
<1>5. /\ T.va = [e \in Entry |-> IF e <= TextPages THEN e ELSE SLOT_USABLE]
      /\ T.next = [e \in Entry |-> IF e <= TextPages THEN e - 1 ELSE 0]
      /\ T.last = [e \in Entry |-> IF e < TextPages THEN e + 1 ELSE 0]
  BY <1>2 DEF Loaded
<1>6. R = [va |-> [T.va EXCEPT ![k] = USERTOP - 1],
           next |-> [T.next EXCEPT ![k] = TextPages],
           last |-> [T.last EXCEPT ![TextPages] = k],
           head |-> k, tail |-> 1, num |-> k]
  <2>1. R = RecordPage(T, USERTOP - 1)
    BY <1>1, <1>2, ExecIs, Zenon
  <2>2. RecordPage(T, USERTOP - 1) =
          [va |-> [T.va EXCEPT ![TextPages + 1] = USERTOP - 1],
           next |-> [T.next EXCEPT ![TextPages + 1] = TextPages],
           last |-> IF TextPages = 0 THEN T.last
                    ELSE [T.last EXCEPT ![TextPages] = TextPages + 1],
           head |-> TextPages + 1, tail |-> IF TextPages = 0 THEN TextPages + 1 ELSE 1,
           num |-> TextPages + 1]
    BY <1>2, <1>4, LoadOne
  <2>3. QED
    BY <1>3, <1>4, <2>1, <2>2
<1>7. \A e \in Entry : e \in Nat /\ e >= 1 /\ e <= N /\ (e <= TextPages => e \in Page)
  BY Sizes DEF Entry, N, Page
<1>8. /\ R.va = [T.va EXCEPT ![k] = USERTOP - 1] /\ R.next = [T.next EXCEPT ![k] = TextPages]
      /\ R.last = [T.last EXCEPT ![TextPages] = k]
      /\ R.head = k /\ R.tail = 1 /\ R.num = k
      /\ R = [va |-> R.va, next |-> R.next, last |-> R.last,
              head |-> R.head, tail |-> R.tail, num |-> R.num]
  BY <1>6
<1>9. ASSUME NEW e \in Entry
      PROVE  /\ R.va[e] = IF e <= TextPages THEN e ELSE IF e = k THEN USERTOP - 1 ELSE SLOT_USABLE
             /\ R.next[e] = IF e <= k THEN e - 1 ELSE 0
             /\ R.last[e] = IF e < k THEN e + 1 ELSE 0
  <2>1. R.va[e] = IF e <= TextPages THEN e ELSE IF e = k THEN USERTOP - 1 ELSE SLOT_USABLE
    BY <1>3, <1>4, <1>5, <1>7, <1>8
  <2>2. R.next[e] = IF e <= k THEN e - 1 ELSE 0
    BY <1>3, <1>4, <1>5, <1>7, <1>8
  <2>3. R.last[e] = IF e < k THEN e + 1 ELSE 0
    BY <1>3, <1>4, <1>5, <1>7, <1>8
  <2>4. QED
    BY <2>1, <2>2, <2>3, Zenon
<1>10. /\ R.va = [e \in Entry |-> R.va[e]] /\ R.next = [e \in Entry |-> R.next[e]]
       /\ R.last = [e \in Entry |-> R.last[e]]
  BY <1>5, <1>8
<1>11. R \in Table
  <2>1. \A e \in Entry : R.va[e] \in Page \cup {SLOT_USABLE}
    BY <1>4, <1>7, <1>9, Zenon
  <2>2. \A e \in Entry : R.next[e] \in 0..N /\ R.last[e] \in 0..N
    BY <1>4, <1>7, <1>9, Sizes
  <2>3. /\ R.va \in [Entry -> Page \cup {SLOT_USABLE}] /\ R.next \in [Entry -> 0..N]
        /\ R.last \in [Entry -> 0..N]
    BY <1>10, <2>1, <2>2, Zenon
  <2>4. R.head \in 0..N /\ R.tail \in 0..N /\ R.num \in Nat
    BY <1>4, <1>8, Sizes
  <2>5. QED
    BY <1>8, <2>3, <2>4 DEF Table
<1>12. PICK q : q = [i \in 1..k |-> TextPages + 2 - i]
  BY Zenon
<1>13. ASSUME NEW i \in 1..k
       PROVE  q[i] = k + 1 - i /\ q[i] \in Entry /\ k + 1 - i \in 1..k
  BY <1>3, <1>4, <1>12, Sizes DEF Entry, N
<1>14. IsList(R, k, q)
  <2>1. q \in [1..k -> Entry] /\ k \in 2..N
    BY <1>4, <1>12, <1>13, Sizes
  <2>2. ASSUME NEW i \in 1..k, NEW j \in 1..k, q[i] = q[j] PROVE i = j
    BY <1>4, <1>13, <2>2
  <2>3. ASSUME NEW e \in Entry PROVE R.va[e] # SLOT_USABLE <=> \E i \in 1..k : q[i] = e
    <3>1. R.va[e] # SLOT_USABLE <=> e <= k
      <4>1. e \in Nat /\ e # SLOT_USABLE
        BY <1>7 DEF SLOT_USABLE
      <4>2. e <= k <=> e <= TextPages \/ e = k
        BY <1>3, <1>4, <4>1
      <4>3. R.va[e] = IF e <= TextPages THEN e ELSE IF e = k THEN USERTOP - 1 ELSE SLOT_USABLE
        BY <1>9, Zenon
      <4>4. QED
        BY <1>4, <4>1, <4>2, <4>3, Zenon
    <3>2. ASSUME e <= k PROVE k + 1 - e \in 1..k /\ q[k + 1 - e] = e
      <4>1. k + 1 - e \in 1..k /\ k + 1 - (k + 1 - e) = e
        BY <1>4, <1>7, <3>2
      <4>2. QED
        BY <1>13, <4>1, Zenon
    <3>3. ASSUME NEW i \in 1..k, q[i] = e PROVE e <= k
      BY <1>4, <1>13, <3>3
    <3>4. QED
      BY <3>1, <3>2, <3>3, Zenon
  <2>4. R.head = q[1] /\ R.tail = q[k] /\ R.num = k
    BY <1>4, <1>8, <1>13
  <2>5. ASSUME NEW i \in 1..(k - 1)
        PROVE  R.next[q[i]] = q[i + 1] /\ R.last[q[i + 1]] = q[i]
    <3>1. i \in 1..k /\ i + 1 \in 1..k
      BY <1>4
    <3>2. q[i] = k + 1 - i /\ q[i + 1] = k + 1 - (i + 1) /\ q[i] \in Entry /\ q[i + 1] \in Entry
      BY <1>13, <3>1, Zenon
    <3>3. q[i] <= k /\ q[i] - 1 = q[i + 1] /\ q[i + 1] < k /\ q[i + 1] + 1 = q[i]
      BY <1>4, <3>2
    <3>4. QED
      BY <1>9, <3>2, <3>3, Zenon
  <2>6. R.next[q[k]] = 0 /\ R.last[q[1]] = 0
    <3>1. k \in 1..k /\ 1 \in 1..k /\ 1 <= k /\ 1 - 1 = 0 /\ ~(k < k) /\ k + 1 - k = 1
          /\ k + 1 - 1 = k
      BY <1>4
    <3>2. q[k] = 1 /\ q[1] = k /\ 1 \in Entry /\ k \in Entry
      BY <1>13, <3>1, Zenon
    <3>3. QED
      BY <1>9, <3>1, <3>2, Zenon
  <2>7. ASSUME NEW e \in Entry, R.va[e] = SLOT_USABLE PROVE R.last[e] = 0
    BY <1>3, <1>4, <1>7, <1>9, <2>7 DEF SLOT_USABLE
  <2>8. QED
    BY <2>1, <2>2, <2>3, <2>4, <2>5, <2>6, <2>7 DEF IsList
<1>15. R.va = [e \in Entry |-> IF e <= TextPages THEN e
                               ELSE IF e = TextPages + 1 THEN USERTOP - 1 ELSE SLOT_USABLE]
  BY <1>3, <1>9, <1>10, Zenon
<1>16. QED
  BY <1>1, <1>3, <1>11, <1>12, <1>14, <1>15, Zenon

-----------------------------------------------------------------------------
(* The invariant, and the two ways in which a table changes.               *)
(* The page table. *)
PagesOK == pte \in [Page -> {"none", "present", "PG"}] /\ mem \in [Page -> Value]

(* The heap ends at least a page before the stack. *)
SizesOK ==
  /\ sz \in Nat /\ 1 <= sz /\ stackSize \in Nat /\ 1 <= stackSize /\ sz + stackSize < USERTOP

(* The memory table has an exact list, and what it records are pages of    *)
(* the program that are present, once each.                                *)
MemoryOK ==
  /\ table \in Table /\ \E k, q : IsList(table, k, q)
  /\ \A e \in Entry : table.va[e] # SLOT_USABLE =>
       table.va[e] \in Region /\ pte[table.va[e]] = "present"
  /\ \A d, e \in Entry : table.va[d] = table.va[e] /\ table.va[e] # SLOT_USABLE => d = e

(* The swap table names the pages of the program that are on disk, once    *)
(* each.                                                                   *)
SwapOK ==
  /\ \E n \in Nat : swapVA \in [1..n -> Page \cup {SLOT_USABLE}] /\ disk \in [1..n -> Value]
  /\ \A s \in DOMAIN swapVA : swapVA[s] # SLOT_USABLE =>
       swapVA[s] \in Region /\ pte[swapVA[s]] = "PG"
  /\ \A s, t \in DOMAIN swapVA : swapVA[s] = swapVA[t] /\ swapVA[s] # SLOT_USABLE => s = t
  /\ \A a \in Page : pte[a] = "PG" => \E s \in DOMAIN swapVA : swapVA[s] = a

VInv == PagesOK /\ SizesOK /\ MemoryOK /\ SwapOK

(* The region, as a predicate of a page. *)
LEMMA RegionIs ==
  /\ Region \subseteq Page
  /\ \A a \in Page : a \in Region <=> (1 <= a /\ a < sz) \/ USERTOP - stackSize <= a
BY Zenon DEF Region

(* The same after a step. *)
LEMMA RegionIsNext ==
  /\ Region' \subseteq Page
  /\ \A a \in Page : a \in Region' <=> (1 <= a /\ a < sz') \/ USERTOP - stackSize' <= a
BY Zenon DEF Region

(* What becomes of the pages recorded when page a takes entry e. *)
LEMMA NewEntry ==
  ASSUME MemoryOK, NEW a \in Page, NEW e \in Entry,
         table' \in Table, \E k, q : IsList(table', k, q),
         table'.va = [table.va EXCEPT ![e] = a],
         \A d \in Entry : d # e => table.va[d] # a,
         Region \subseteq Region', a \in Region', pte'[a] = "present",
         \A d \in Entry : d # e /\ table.va[d] # SLOT_USABLE =>
           pte'[table.va[d]] = pte[table.va[d]]
  PROVE  MemoryOK'
<1>1. table.va \in [Entry -> Page \cup {SLOT_USABLE}]
  BY DEF MemoryOK, Table
<1>2. \A d \in Entry : table'.va[d] = IF d = e THEN a ELSE table.va[d]
  BY <1>1, Zenon
<1>3. ASSUME NEW d \in Entry, table'.va[d] # SLOT_USABLE
      PROVE  table'.va[d] \in Region' /\ pte'[table'.va[d]] = "present"
  BY <1>2, <1>3, Zenon DEF MemoryOK
<1>4. ASSUME NEW c \in Entry, NEW d \in Entry, table'.va[c] = table'.va[d],
             table'.va[d] # SLOT_USABLE
      PROVE  c = d
  BY <1>2, <1>4, ZenonT(40) DEF MemoryOK
<1>5. QED
  BY <1>3, <1>4, Zenon DEF MemoryOK

(* Recording a page that is not in the table. *)
LEMMA RecordKeeps ==
  ASSUME MemoryOK, NEW a \in Page, table.num < N, UsableEntry(table) # {},
         table' = RecordPage(table, a), pte[a] # "present", PagesOK,
         pte' = [pte EXCEPT ![a] = "present"], Region \subseteq Region', a \in Region'
  PROVE  MemoryOK'
<1>1. PICK k, q : IsList(table, k, q)
  BY Zenon DEF MemoryOK
<1>2. table \in Table /\ k < N
  BY <1>1, Zenon DEF MemoryOK, IsList
<1>3. PICK e \in Entry :
        /\ table' \in Table /\ table.va[e] = SLOT_USABLE /\ table'.va = [table.va EXCEPT ![e] = a]
        /\ IsList(table', k + 1, [i \in 1..(k + 1) |-> IF i = 1 THEN e ELSE q[i - 1]])
  <2>1. \E e \in Entry : Recorded(table, k, q, a, e, table')
    BY <1>1, <1>2, RecordList, Zenon
  <2>2. QED
    BY <2>1, Zenon DEF Recorded
<1>4. pte \in [Page -> {"none", "present", "PG"}]
  BY Zenon DEF PagesOK
<1>5. \A d \in Entry : table.va[d] # a
  <2>1. a # SLOT_USABLE
    BY DEF Page, SLOT_USABLE
  <2>2. QED
    BY <2>1, Zenon DEF MemoryOK
<1>6. pte'[a] = "present" /\ \A b \in Page : b # a => pte'[b] = pte[b]
  BY <1>4, Zenon
<1>7. \A d \in Entry : table.va[d] # SLOT_USABLE => table.va[d] \in Page
  BY RegionIs, Zenon DEF MemoryOK
<1>8. \E j, r : IsList(table', j, r)
  BY <1>3, Zenon
<1>9. QED
  <2>1. \A d \in Entry : d # e => table.va[d] # a
    BY <1>5, Zenon
  <2>2. \A d \in Entry : d # e /\ table.va[d] # SLOT_USABLE =>
          pte'[table.va[d]] = pte[table.va[d]]
    BY <1>5, <1>6, <1>7, Zenon
  <2>3. QED
    BY <1>3, <1>6, <1>8, <2>1, <2>2, NewEntry, Zenon

(* Replacing the page in the last entry of the list. *)
LEMMA RotateKeeps ==
  ASSUME MemoryOK, PagesOK, NEW a \in Page, pte[a] # "present", table' = Rotate(table, a),
         pte' = [pte EXCEPT ![a] = "present", ![table.va[table.tail]] = "PG"],
         Region \subseteq Region', a \in Region'
  PROVE  MemoryOK'
<1>1. PICK k, q : IsList(table, k, q)
  BY Zenon DEF MemoryOK
<1>2. table \in Table
  BY Zenon DEF MemoryOK
<1>3. PICK b : b = table.va[table.tail]
  BY Zenon
<1>4. /\ table' \in Table /\ table.tail \in Entry /\ b # SLOT_USABLE /\ b \in Page
      /\ table'.va = [table.va EXCEPT ![table.tail] = a]
      /\ IsList(table', k, [i \in 1..k |-> IF i = 1 THEN q[k] ELSE q[i - 1]])
  <2>1. Rotated(table, k, q, a, table')
    BY <1>1, <1>2, RotateList, Zenon
  <2>2. QED
    BY <1>3, <2>1, Zenon DEF Rotated
<1>5. pte \in [Page -> {"none", "present", "PG"}]
  BY Zenon DEF PagesOK
<1>6. pte[b] = "present" /\ b # a
  BY <1>3, <1>4, Zenon DEF MemoryOK
<1>7. pte' = [[pte EXCEPT ![a] = "present"] EXCEPT ![b] = "PG"]
  BY <1>3
<1>8. pte'[a] = "present" /\ \A c \in Page : c # a /\ c # b => pte'[c] = pte[c]
  BY <1>5, <1>6, <1>7
<1>9. \A d \in Entry : table.va[d] # a
  <2>1. a # SLOT_USABLE
    BY DEF Page, SLOT_USABLE
  <2>2. QED
    BY <2>1, Zenon DEF MemoryOK
<1>10. ASSUME NEW d \in Entry, d # table.tail, table.va[d] # SLOT_USABLE
       PROVE  pte'[table.va[d]] = pte[table.va[d]]
  <2>1. table.va[d] \in Page /\ table.va[d] # b /\ table.va[d] # a
    BY <1>3, <1>4, <1>9, <1>10, RegionIs, Zenon DEF MemoryOK
  <2>2. QED
    BY <1>8, <2>1, Zenon
<1>11. \E j, r : IsList(table', j, r)
  BY <1>4, Zenon
<1>12. QED
  <2>1. \A d \in Entry : d # table.tail => table.va[d] # a
    BY <1>9, Zenon
  <2>2. \A d \in Entry : d # table.tail /\ table.va[d] # SLOT_USABLE =>
          pte'[table.va[d]] = pte[table.va[d]]
    BY <1>10, Zenon
  <2>3. QED
    BY <1>4, <1>8, <1>11, <2>1, <2>2, NewEntry, ZenonT(40)

-----------------------------------------------------------------------------
(* The swap table: a page that leaves memory takes a slot.                 *)
(* Page b has gone to disk with its contents, and what else is on disk is  *)
(* still there.                                                            *)
OnDisk(b) ==
  /\ \E s \in DOMAIN swapVA' : swapVA'[s] = b /\ disk'[s] = mem[b]
  /\ \A t \in DOMAIN swapVA : swapVA[t] # SLOT_USABLE /\ pte'[swapVA[t]] = "PG" =>
       t \in DOMAIN swapVA' /\ swapVA'[t] = swapVA[t] /\ disk'[t] = disk[t]

(* Page b takes slot s of the swap table, which is free or had page a;     *)
(* W and D are the table and the files with slot s in them.                *)
Takes(a, b, m, W, D, s) ==
  /\ W \in [1..m -> Page \cup {SLOT_USABLE}] /\ D \in [1..m -> Value] /\ s \in 1..m
  /\ swapVA' = [W EXCEPT ![s] = b] /\ disk' = [D EXCEPT ![s] = mem[b]]
  /\ \A t \in 1..m : t # s /\ W[t] # SLOT_USABLE => t \in DOMAIN swapVA
  /\ \A t \in DOMAIN swapVA : t \in 1..m /\ W[t] = swapVA[t] /\ D[t] = disk[t]
  /\ s \in DOMAIN swapVA => swapVA[s] \in {SLOT_USABLE, a}
  /\ \A t \in DOMAIN swapVA : swapVA[t] = a => t = s

(* The swap table stays exact. *)
LEMMA TakeSlot ==
  ASSUME SwapOK, PagesOK, NEW a \in Page, NEW b \in Region, pte[b] = "present", pte[a] # "present",
         NEW m \in Nat, NEW W, NEW D, NEW s, Takes(a, b, m, W, D, s),
         pte' = [pte EXCEPT ![a] = "present", ![b] = "PG"], Region \subseteq Region'
  PROVE  SwapOK' /\ OnDisk(b)
<1>0. /\ W \in [1..m -> Page \cup {SLOT_USABLE}] /\ D \in [1..m -> Value] /\ s \in 1..m
      /\ swapVA' = [W EXCEPT ![s] = b] /\ disk' = [D EXCEPT ![s] = mem[b]]
  BY Zenon DEF Takes
<1>15. /\ \A t \in 1..m : t # s /\ W[t] # SLOT_USABLE => t \in DOMAIN swapVA
       /\ \A t \in DOMAIN swapVA : t \in 1..m /\ W[t] = swapVA[t] /\ D[t] = disk[t]
       /\ s \in DOMAIN swapVA => swapVA[s] \in {SLOT_USABLE, a}
       /\ \A t \in DOMAIN swapVA : swapVA[t] = a => t = s
  BY Zenon DEF Takes
<1>1. /\ b \in Page /\ b # a /\ b # SLOT_USABLE /\ a # SLOT_USABLE
      /\ pte \in [Page -> {"none", "present", "PG"}] /\ mem[b] \in Value
  <2>1. b \in Page /\ b # a
    BY RegionIs, Zenon
  <2>2. b # SLOT_USABLE /\ a # SLOT_USABLE
    BY <2>1 DEF Page, SLOT_USABLE
  <2>3. QED
    BY <2>1, <2>2, Zenon DEF PagesOK
<1>2. pte' = [[pte EXCEPT ![a] = "present"] EXCEPT ![b] = "PG"]
  OBVIOUS
<1>3. pte'[a] = "present" /\ pte'[b] = "PG" /\ \A c \in Page : c # a /\ c # b => pte'[c] = pte[c]
  BY <1>1, <1>2
<1>4. /\ swapVA' \in [1..m -> Page \cup {SLOT_USABLE}] /\ disk' \in [1..m -> Value]
  BY <1>0, <1>1, OneEntry, Zenon
<1>5. /\ swapVA'[s] = b /\ disk'[s] = mem[b]
      /\ \A t \in 1..m : t # s => swapVA'[t] = W[t] /\ disk'[t] = D[t]
  BY <1>0, Zenon
<1>6. DOMAIN swapVA' = 1..m
  BY <1>4, Zenon
<1>7. ASSUME NEW t \in DOMAIN swapVA', swapVA'[t] # SLOT_USABLE
      PROVE  swapVA'[t] \in Region' /\ pte'[swapVA'[t]] = "PG"
  <2>1. CASE t = s
    BY <1>3, <1>5, <2>1, Zenon
  <2>2. CASE t # s
    <3>1. t \in DOMAIN swapVA /\ swapVA'[t] = swapVA[t]
      BY <1>15, <1>5, <1>6, <1>7, <2>2, Zenon
    <3>2. swapVA[t] \in Region /\ pte[swapVA[t]] = "PG" /\ swapVA[t] # a
      BY <1>15, <1>7, <2>2, <3>1, Zenon DEF SwapOK
    <3>3. swapVA[t] \in Page /\ swapVA[t] # b
      BY <3>2, RegionIs, Zenon
    <3>4. QED
      BY <1>3, <3>1, <3>2, <3>3, Zenon
  <2>3. QED
    BY <2>1, <2>2, Zenon
<1>8. ASSUME NEW t \in DOMAIN swapVA', t # s PROVE swapVA'[t] # b
  <2>1. ASSUME swapVA'[t] = b PROVE FALSE
    <3>1. t \in DOMAIN swapVA /\ swapVA[t] = b
      BY <1>15, <1>1, <1>5, <1>6, <1>8, <2>1, Zenon
    <3>2. QED
      BY <1>1, <3>1, Zenon DEF SwapOK
  <2>2. QED
    BY <2>1, Zenon
<1>9. ASSUME NEW t \in DOMAIN swapVA', NEW u \in DOMAIN swapVA', swapVA'[t] = swapVA'[u],
             swapVA'[t] # SLOT_USABLE
      PROVE  t = u
  <2>1. CASE t = s \/ u = s
    BY <1>5, <1>8, <1>9, <2>1, Zenon
  <2>2. CASE t # s /\ u # s
    <3>1. t \in DOMAIN swapVA /\ u \in DOMAIN swapVA /\ swapVA'[t] = swapVA[t]
          /\ swapVA'[u] = swapVA[u]
      BY <1>15, <1>5, <1>6, <1>9, <2>2, Zenon
    <3>2. QED
      <4>1. swapVA[t] = swapVA[u] /\ swapVA[t] # SLOT_USABLE
        BY <1>9, <3>1, Zenon
      <4>2. QED
        BY <3>1, <4>1, Zenon DEF SwapOK
  <2>3. QED
    BY <2>1, <2>2, Zenon
<1>10. ASSUME NEW t \in DOMAIN swapVA, swapVA[t] # SLOT_USABLE, swapVA[t] # a
       PROVE  t \in DOMAIN swapVA' /\ swapVA'[t] = swapVA[t] /\ disk'[t] = disk[t]
  BY <1>15, <1>5, <1>6, <1>10, Zenon
<1>11. ASSUME NEW c \in Page, pte'[c] = "PG"
       PROVE  \E t \in DOMAIN swapVA' : swapVA'[t] = c
  <2>1. CASE c = b
    BY <1>0, <1>5, <1>6, <2>1, Zenon
  <2>2. CASE c # b
    <3>1. pte[c] = "PG" /\ c # a
      BY <1>3, <1>11, <2>2, Zenon
    <3>2. PICK t \in DOMAIN swapVA : swapVA[t] = c
      BY <3>1, Zenon DEF SwapOK
    <3>3. c # SLOT_USABLE
      BY DEF Page, SLOT_USABLE
    <3>4. QED
      BY <1>10, <3>1, <3>2, <3>3, Zenon
  <2>3. QED
    BY <2>1, <2>2, Zenon
<1>12. SwapOK'
  BY <1>4, <1>7, <1>9, <1>11, Zenon DEF SwapOK
<1>13. OnDisk(b)
  <2>1. \E t \in DOMAIN swapVA' : swapVA'[t] = b /\ disk'[t] = mem[b]
    BY <1>0, <1>5, <1>6, Zenon
  <2>2. ASSUME NEW t \in DOMAIN swapVA, swapVA[t] # SLOT_USABLE, pte'[swapVA[t]] = "PG"
        PROVE  t \in DOMAIN swapVA' /\ swapVA'[t] = swapVA[t] /\ disk'[t] = disk[t]
    BY <1>3, <1>10, <2>2, Zenon
  <2>3. QED
    BY <2>1, <2>2, Zenon DEF OnDisk
<1>14. QED
  BY <1>12, <1>13, Zenon

(* GetEmptyInSwapTable gives a free slot, the first of a new page of the   *)
(* table when there is none.                                               *)
LEMMA EmptySlot ==
  ASSUME NEW n \in Nat, swapVA \in [1..n -> Page \cup {SLOT_USABLE}]
  PROVE  \/ GetEmptyInSwapTable \in 1..n /\ swapVA[GetEmptyInSwapTable] = SLOT_USABLE
         \/ GetEmptyInSwapTable = n + 1
<1>1. DOMAIN swapVA = 1..n
  BY Zenon
<1>2. CASE InSwapTable(SLOT_USABLE) = {}
  <2>1. Len(swapVA) = n
    OBVIOUS
  <2>2. QED
    BY <1>2, <2>1, Zenon DEF GetEmptyInSwapTable
<1>3. CASE InSwapTable(SLOT_USABLE) # {}
  <2>1. InSwapTable(SLOT_USABLE) \subseteq DOMAIN swapVA
    BY Zenon DEF InSwapTable
  <2>2. DOMAIN swapVA \subseteq Nat
    BY <1>1
  <2>3. IsFirst(GetEmptyInSwapTable, InSwapTable(SLOT_USABLE))
    <3>1. PICK f : f = CHOOSE i \in DOMAIN swapVA : IsFirst(i, InSwapTable(SLOT_USABLE))
      BY Zenon
    <3>2. IsFirst(f, InSwapTable(SLOT_USABLE))
      <4>1. \E i \in DOMAIN swapVA : IsFirst(i, InSwapTable(SLOT_USABLE))
        BY <1>3, <2>1, <2>2, FirstOne, Zenon
      <4>2. QED
        BY <3>1, <4>1, Zenon
    <3>3. QED
      BY <1>3, <3>1, <3>2, Zenon DEF GetEmptyInSwapTable
  <2>4. QED
    BY <1>1, <2>3, Zenon DEF IsFirst, InSwapTable
<1>4. QED
  BY <1>2, <1>3, Zenon

(* W is the table q of n values made m long with blank ones. *)
Grown(n, m, S, q, blank, W) ==
  W \in [1..m -> S] /\ \A i \in 1..m : W[i] = IF i \in 1..n THEN q[i] ELSE blank

(* A new page of the swap table is blank. *)
LEMMA GrowIs ==
  ASSUME NEW n \in Nat, NEW S, NEW q \in [1..n -> S], NEW blank \in S, NEW s,
         NEW m, m = IF s \in 1..n THEN n ELSE n + SWAP_TABLE_ENTRY_NUM
  PROVE  Grown(n, m, S, q, blank, GrowSwapTable(s, q, blank))
<1>1. DOMAIN q = 1..n
  BY Zenon
<1>2. CASE s \in 1..n
  BY <1>1, <1>2, Zenon DEF GrowSwapTable, Grown
<1>3. CASE s \notin 1..n
  <2>1. PICK z : z = [i \in 1..SWAP_TABLE_ENTRY_NUM |-> blank]
    BY Zenon
  <2>2. GrowSwapTable(s, q, blank) = q \o z
    BY <1>1, <1>3, <2>1, Zenon DEF GrowSwapTable
  <2>3. q \in Seq(S) /\ z \in Seq(S) /\ Len(q) = n /\ Len(z) = SWAP_TABLE_ENTRY_NUM
    BY <2>1, Sizes
  <2>4. Len(q \o z) = m /\ q \o z \in Seq(S)
    BY <1>3, <2>3
  <2>5. ASSUME NEW i \in 1..m PROVE (q \o z)[i] = IF i \in 1..n THEN q[i] ELSE blank
    BY <1>3, <2>1, <2>3, Sizes
  <2>6. q \o z \in [1..m -> S]
    <3>1. m \in Nat
      BY <1>3, Sizes
    <3>2. QED
      BY <2>4, <3>1, SequenceIs, Zenon
  <2>7. QED
    BY <2>2, <2>5, <2>6, Zenon DEF Grown
<1>4. QED
  BY <1>2, <1>3, Zenon

-----------------------------------------------------------------------------
(* What the program reads: the refinement mapping.                         *)
(* What the program reads, by where the page is. *)
Reads ==
  \A a \in Page :
    /\ pte[a] = "present" => View[Self][a] = mem[a]
    /\ pte[a] = "none" => View[Self][a] = Zero
    /\ \A s \in DOMAIN swapVA : pte[a] = "PG" /\ swapVA[s] = a => View[Self][a] = disk[s]

(* Exact tables make the view what the tables say. *)
LEMMA ViewReads == VInv => Reads
<1> SUFFICES ASSUME VInv, NEW a \in Page
             PROVE  /\ pte[a] = "present" => View[Self][a] = mem[a]
                    /\ pte[a] = "none" => View[Self][a] = Zero
                    /\ \A s \in DOMAIN swapVA :
                         pte[a] = "PG" /\ swapVA[s] = a => View[Self][a] = disk[s]
  BY Zenon DEF Reads
<1>1. View[Self][a] = CASE pte[a] = "present" -> mem[a]
                        [] pte[a] = "PG" /\ InSwapTable(a) # {} ->
                             disk[CHOOSE s \in DOMAIN swapVA : IsFirst(s, InSwapTable(a))]
                        [] OTHER -> Zero
  BY Zenon DEF View
<1>2. pte[a] = "present" => View[Self][a] = mem[a]
  BY <1>1, Zenon
<1>3. pte[a] = "none" => View[Self][a] = Zero
  BY <1>1, Zenon
<1>4. ASSUME NEW s \in DOMAIN swapVA, pte[a] = "PG", swapVA[s] = a
      PROVE  View[Self][a] = disk[s]
  <2>1. PICK f : f = CHOOSE i \in DOMAIN swapVA : IsFirst(i, InSwapTable(a))
    BY Zenon
  <2>2. InSwapTable(a) # {} /\ InSwapTable(a) \subseteq DOMAIN swapVA
    BY <1>4, Zenon DEF InSwapTable
  <2>3. DOMAIN swapVA \subseteq Nat
    BY DEF VInv, SwapOK
  <2>4. IsFirst(f, InSwapTable(a))
    <3>1. \E i \in DOMAIN swapVA : IsFirst(i, InSwapTable(a))
      BY <2>2, <2>3, FirstOne, Zenon
    <3>2. QED
      BY <2>1, <3>1, Zenon
  <2>5. f \in DOMAIN swapVA /\ swapVA[f] = a
    BY <2>4, Zenon DEF IsFirst, InSwapTable
  <2>6. a # SLOT_USABLE
    BY DEF Page, SLOT_USABLE
  <2>7. f = s
    BY <1>4, <2>5, <2>6, Zenon DEF VInv, SwapOK
  <2>8. QED
    BY <1>1, <1>4, <2>1, <2>2, <2>7, Zenon
<1>5. QED
  BY <1>2, <1>3, <1>4, Zenon

(* The same after a step. *)
LEMMA ViewReadsNext == VInv' => Reads'
BY ViewReads, PTL

(* The view is a function. *)
ViewShape ==
  /\ View = [p \in {Self} |-> [a \in Page |-> View[Self][a]]]
  /\ View[Self] = [a \in Page |-> View[Self][a]]

(* So it is. *)
LEMMA ViewIs == VInv => ViewShape
<1>1. PICK f : f = [a \in Page |->
                     CASE pte[a] = "present" -> mem[a]
                       [] pte[a] = "PG" /\ InSwapTable(a) # {} ->
                            disk[CHOOSE s \in DOMAIN swapVA : IsFirst(s, InSwapTable(a))]
                       [] OTHER -> Zero]
  BY Zenon
<1>2. View = [p \in {Self} |-> f]
  BY <1>1, Zenon DEF View
<1>3. f = [a \in Page |-> f[a]]
  BY <1>1
<1>4. View[Self] = f
  BY <1>2, Zenon
<1>5. [a \in Page |-> View[Self][a]] = f
  BY <1>3, <1>4, Zenon
<1>6. QED
  BY <1>2, <1>4, <1>5, Zenon DEF ViewShape

(* The same after a step. *)
LEMMA ViewIsNext == VInv' => ViewShape'
BY ViewIs, PTL

(* Two views are the same when they show the same on every page. *)
LEMMA ViewsAgree ==
  ASSUME NEW V, NEW W, V = [p \in {Self} |-> [a \in Page |-> V[Self][a]]],
         W = [p \in {Self} |-> [a \in Page |-> W[Self][a]]],
         \A a \in Page : W[Self][a] = V[Self][a]
  PROVE  W = V
<1>1. [a \in Page |-> V[Self][a]] = [a \in Page |-> W[Self][a]]
  OBVIOUS
<1>2. QED
  BY <1>1

(* One view is another with one page written. *)
LEMMA ViewStored ==
  ASSUME NEW V, NEW W, V = [p \in {Self} |-> [c \in Page |-> V[Self][c]]],
         W = [p \in {Self} |-> [c \in Page |-> W[Self][c]]], NEW a \in Page, NEW v,
         \A c \in Page : W[Self][c] = IF c = a THEN v ELSE V[Self][c]
  PROVE  W = [V EXCEPT ![Self][a] = v]
<1>1. PICK f, g : f = V[Self] /\ g = W[Self]
  BY Zenon
<1>2. f = [c \in Page |-> f[c]] /\ g = [c \in Page |-> g[c]]
  BY <1>1
<1>3. \A c \in Page : g[c] = IF c = a THEN v ELSE f[c]
  BY <1>1, Zenon
<1>4. g = [f EXCEPT ![a] = v]
  BY <1>2, <1>3
<1>5. V = [p \in {Self} |-> f] /\ W = [p \in {Self} |-> g]
  BY <1>1, <1>2
<1>6. QED
  BY <1>4, <1>5

(* The view stays when every page reads as before. *)
LEMMA ViewSame ==
  ASSUME VInv, VInv', \A c \in Page :
           /\ pte'[c] = "present" => View[Self][c] = mem'[c]
           /\ pte'[c] = "none" => View[Self][c] = Zero
           /\ pte'[c] = "PG" =>
                \E s \in DOMAIN swapVA' : swapVA'[s] = c /\ disk'[s] = View[Self][c]
  PROVE  View' = View
<1>1. \A c \in Page : pte'[c] \in {"none", "present", "PG"}
  BY Zenon DEF VInv, PagesOK
<1>2. Reads'
  BY ViewReadsNext, Zenon
<1>3. ASSUME NEW c \in Page PROVE View'[Self][c] = View[Self][c]
  <2>1. CASE pte'[c] = "present"
    BY <1>2, <2>1, Zenon DEF Reads
  <2>2. CASE pte'[c] = "none"
    BY <1>2, <2>2, Zenon DEF Reads
  <2>3. CASE pte'[c] = "PG"
    BY <1>2, <2>3, Zenon DEF Reads
  <2>4. QED
    BY <1>1, <2>1, <2>2, <2>3, Zenon
<1>4. PICK V, W : V = View /\ W = View'
  BY Zenon
<1>5. ViewShape /\ ViewShape'
  BY ViewIs, ViewIsNext, Zenon
<1>6. /\ V = [p \in {Self} |-> [a \in Page |-> V[Self][a]]]
      /\ W = [p \in {Self} |-> [a \in Page |-> W[Self][a]]]
      /\ \A a \in Page : W[Self][a] = V[Self][a]
  BY <1>3, <1>4, <1>5 DEF ViewShape
<1>7. W = V
  BY <1>6, ViewsAgree
<1>8. QED
  BY <1>4, <1>7, Zenon

(* The view stays when tables and pages do. *)
LEMMA ViewUnchanged ==
  ASSUME VInv, VInv', UNCHANGED <<swapVA, disk, pte, mem>>
  PROVE  View' = View
<1>1. Reads
  BY ViewReads, Zenon
<1>2. ASSUME NEW c \in Page, pte[c] = "PG"
      PROVE  \E s \in DOMAIN swapVA : swapVA[s] = c /\ disk[s] = View[Self][c]
  <2>1. PICK s \in DOMAIN swapVA : swapVA[s] = c
    BY <1>2, Zenon DEF VInv, SwapOK
  <2>2. View[Self][c] = disk[s]
    BY <1>1, <1>2, <2>1, Zenon DEF Reads
  <2>3. QED
    BY <2>1, <2>2, Zenon
<1>3. \A c \in Page :
        (pte[c] = "present" => View[Self][c] = mem[c]) /\ (pte[c] = "none" => View[Self][c] = Zero)
  BY <1>1, Zenon DEF Reads
<1>4. swapVA' = swapVA /\ disk' = disk /\ pte' = pte /\ mem' = mem
  BY Zenon
<1>5. \A c \in Page :
        /\ pte'[c] = "present" => View[Self][c] = mem'[c]
        /\ pte'[c] = "none" => View[Self][c] = Zero
        /\ pte'[c] = "PG" =>
             \E s \in DOMAIN swapVA' : swapVA'[s] = c /\ disk'[s] = View[Self][c]
  <2> SUFFICES ASSUME NEW c \in Page
               PROVE  /\ pte'[c] = "present" => View[Self][c] = mem'[c]
                      /\ pte'[c] = "none" => View[Self][c] = Zero
                      /\ pte'[c] = "PG" =>
                           \E s \in DOMAIN swapVA' : swapVA'[s] = c /\ disk'[s] = View[Self][c]
    BY Zenon
  <2>1. ASSUME pte'[c] = "PG"
        PROVE  \E s \in DOMAIN swapVA' : swapVA'[s] = c /\ disk'[s] = View[Self][c]
    <3>1. PICK s \in DOMAIN swapVA : swapVA[s] = c /\ disk[s] = View[Self][c]
      BY <1>2, <1>4, <2>1, Zenon
    <3>2. QED
      BY <1>4, <3>1, Zenon
  <2>2. QED
    BY <1>3, <1>4, <2>1, Zenon
<1>6. QED
  BY <1>5, ViewSame, Zenon

(* Bringing a page in and taking another one out is not seen. *)
LEMMA EvictView ==
  ASSUME VInv, VInv', NEW a \in Page, NEW b \in Page, a # b, pte[b] = "present",
         pte'[a] = "present", pte'[b] = "PG", \A c \in Page : c # a /\ c # b => pte'[c] = pte[c],
         mem'[a] = View[Self][a], \A c \in Page : c # a /\ c # b => mem'[c] = mem[c], OnDisk(b)
  PROVE  View' = View
<1>1. Reads
  BY ViewReads, Zenon
<1>2. ASSUME NEW c \in Page, pte'[c] = "present" PROVE View[Self][c] = mem'[c]
  <2>1. CASE c = a
    BY <2>1, Zenon
  <2>2. CASE c # a
    <3>1. c # b /\ pte[c] = "present" /\ mem'[c] = mem[c]
      BY <1>2, <2>2, Zenon
    <3>2. QED
      BY <1>1, <3>1, Zenon DEF Reads
  <2>3. QED
    BY <2>1, <2>2, Zenon
<1>3. ASSUME NEW c \in Page, pte'[c] = "none" PROVE View[Self][c] = Zero
  <2>1. pte[c] = "none"
    BY <1>3, Zenon
  <2>2. QED
    BY <1>1, <2>1, Zenon DEF Reads
<1>4. ASSUME NEW c \in Page, pte'[c] = "PG"
      PROVE  \E s \in DOMAIN swapVA' : swapVA'[s] = c /\ disk'[s] = View[Self][c]
  <2>1. CASE c = b
    <3>1. View[Self][c] = mem[b]
      BY <1>1, <2>1, Zenon DEF Reads
    <3>2. QED
      BY <2>1, <3>1, Zenon DEF OnDisk
  <2>2. CASE c # b
    <3>1. pte[c] = "PG"
      BY <1>4, <2>2, Zenon
    <3>2. PICK t \in DOMAIN swapVA : swapVA[t] = c
      BY <3>1, Zenon DEF VInv, SwapOK
    <3>3. c # SLOT_USABLE
      BY DEF Page, SLOT_USABLE
    <3>4. View[Self][c] = disk[t]
      BY <1>1, <3>1, <3>2, Zenon DEF Reads
    <3>5. t \in DOMAIN swapVA' /\ swapVA'[t] = swapVA[t] /\ disk'[t] = disk[t]
      BY <1>4, <3>2, <3>3, Zenon DEF OnDisk
    <3>6. QED
      BY <3>2, <3>4, <3>5, Zenon
  <2>3. QED
    BY <2>1, <2>2, Zenon
<1>5. QED
  BY <1>2, <1>3, <1>4, ViewSame, Zenon

-----------------------------------------------------------------------------
(* The queue of recorded pages.                                            *)
(* The pages recorded in T, oldest first. *)
Pages(T, k, q) == [i \in 1..k |-> T.va[q[k - i + 1]]]

(* The same, page by page. *)
ArePages(T, k, q, u) ==
  u = [i \in 1..k |-> u[i]] /\ \A i \in 1..k : u[i] = T.va[q[k - i + 1]]

(* And so they are. *)
LEMMA PagesAre ==
  ASSUME NEW T, NEW k, NEW q
  PROVE  ArePages(T, k, q, Pages(T, k, q))
BY DEF Pages, ArePages

(* r is the list q with entry e before it. *)
OneBefore(k, q, e, r) == r[1] = e /\ \A i \in 1..k : r[i + 1] = q[i]

(* The queue is the pages of the list. *)
QueueIsPages(k, q) == Queue = Pages(table, k, q)

(* The queue, read off the list. *)
LEMMA QueueIs ==
  ASSUME NEW k, NEW q, IsList(table, k, q)
  PROVE  QueueIsPages(k, q)
<1>1. Queue = [i \in 1..k |-> table.va[q[k - i + 1]]]
  BY ListQueue, Zenon
<1>2. QED
  BY <1>1, Zenon DEF Pages, QueueIsPages

(* The same after a step. *)
LEMMA QueueIsNext ==
  ASSUME NEW k, NEW q, IsList(table', k, q)
  PROVE  Queue' = Pages(table', k, q)
<1>1. Cardinality({e \in Entry : table'.va[e] # SLOT_USABLE}) = k
  BY UsedEntries, Zenon
<1>2. Used' = k
  BY <1>1, Zenon DEF Used
<1>3. Queue' = [i \in 1..k |-> table'.va[Follow(table')[k - i]]]
  BY <1>2 DEF Queue, Follow
<1>4. PICK T : T = table'
  BY Zenon
<1>5. [i \in 1..k |-> T.va[Follow(T)[k - i]]] = [i \in 1..k |-> T.va[q[k - i + 1]]]
  BY <1>4, QueueOf
<1>6. QED
  BY <1>3, <1>4, <1>5, Zenon DEF Pages

(* The queue stays when the table does. *)
LEMMA SameQueue ==
  ASSUME MemoryOK, table' = table
  PROVE  Queue' = Queue
<1>1. PICK k, q : IsList(table, k, q)
  BY Zenon DEF MemoryOK
<1>2. IsList(table', k, q)
  BY <1>1, Zenon
<1>3. PICK u : u = Pages(table, k, q)
  BY Zenon
<1>4. Queue = u /\ Queue' = u
  BY <1>1, <1>2, <1>3, QueueIs, QueueIsNext, Zenon DEF QueueIsPages
<1>5. QED
  BY <1>4, Zenon

(* v is the table u of k values with value a put after them ... *)
Appended(k, u, v, a) ==
  /\ u = [i \in 1..k |-> u[i]] /\ v = [i \in 1..(k + 1) |-> v[i]]
  /\ v[k + 1] = a /\ \A i \in 1..k : v[i] = u[i]

(* ... or with the first one dropped as well. *)
Shifted(k, u, v, a) ==
  /\ u = [i \in 1..k |-> u[i]] /\ v = [i \in 1..k |-> v[i]]
  /\ v[k] = a /\ \A i \in 1..(k - 1) : v[i] = u[i + 1]

Appends(u, v, a) == v = Append(u, a)
Shifts(u, v, a) == v = Append(Tail(u), a) /\ Head(u) = u[1]

(* What Append is on a table of k values. *)
LEMMA SeqAppend ==
  ASSUME NEW k \in Nat, NEW u, NEW v, NEW a, Appended(k, u, v, a)
  PROVE  Appends(u, v, a)
<1>0. /\ u = [i \in 1..k |-> u[i]] /\ v = [i \in 1..(k + 1) |-> v[i]]
      /\ v[k + 1] = a /\ \A i \in 1..k : v[i] = u[i]
  BY Zenon DEF Appended
<1>1. PICK S : S = {u[i] : i \in 1..k} \cup {a}
  BY Zenon
<1>2. u \in [1..k -> S] /\ a \in S
  BY <1>0, <1>1, Zenon
<1>3. u \in Seq(S) /\ Len(u) = k
  BY <1>2, FunctionIs, Zenon
<1>4. PICK w : w = Append(u, a)
  BY Zenon
<1>5. w \in Seq(S) /\ Len(w) = k + 1 /\ w[k + 1] = a /\ \A i \in 1..k : w[i] = u[i]
  BY <1>2, <1>3, <1>4
<1>6. w \in [1..(k + 1) -> S]
  <2>1. k + 1 \in Nat
    OBVIOUS
  <2>2. QED
    BY <1>5, <2>1, SequenceIs, Zenon
<1>7. \A i \in 1..(k + 1) : v[i] = w[i]
  <2>1. \A i \in 1..(k + 1) : i = k + 1 \/ i \in 1..k
    OBVIOUS
  <2>2. QED
    BY <1>0, <1>5, <2>1, Zenon
<1>8. v = w
  BY <1>0, <1>6, <1>7
<1>9. QED
  BY <1>4, <1>8, Zenon DEF Appends

(* The first value dropped and one put at the end. *)
LEMMA SeqShift ==
  ASSUME NEW k \in Nat, k > 0, NEW u, NEW v, NEW a, Shifted(k, u, v, a)
  PROVE  Shifts(u, v, a)
<1>0. /\ u = [i \in 1..k |-> u[i]] /\ v = [i \in 1..k |-> v[i]]
      /\ v[k] = a /\ \A i \in 1..(k - 1) : v[i] = u[i + 1]
  BY Zenon DEF Shifted
<1>1. PICK S : S = {u[i] : i \in 1..k}
  BY Zenon
<1>2. u \in [1..k -> S]
  BY <1>0, <1>1, Zenon
<1>3. u \in Seq(S) /\ Len(u) = k
  BY <1>2, FunctionIs, Zenon
<1>4. PICK w : w = Tail(u)
  BY Zenon
<1>5. w \in Seq(S) /\ Len(w) = k - 1 /\ \A i \in 1..(k - 1) : w[i] = u[i + 1]
  BY <1>3, <1>4
<1>6. k - 1 \in Nat /\ k - 1 + 1 = k
  OBVIOUS
<1>7. w \in [1..(k - 1) -> S]
  BY <1>5, <1>6, SequenceIs, Zenon
<1>8. w = [i \in 1..(k - 1) |-> w[i]] /\ \A i \in 1..(k - 1) : v[i] = w[i]
  BY <1>0, <1>5, <1>7, Zenon
<1>9. Appended(k - 1, w, v, a)
  BY <1>0, <1>6, <1>8, Zenon DEF Appended
<1>10. v = Append(w, a)
  BY <1>6, <1>9, SeqAppend, Zenon DEF Appends
<1>11. Head(u) = u[1]
  BY <1>3
<1>12. QED
  BY <1>4, <1>10, <1>11, Zenon DEF Shifts

(* A recorded page comes after the others. *)
LEMMA RecordPages ==
  ASSUME NEW T \in Table, NEW k, NEW q, IsList(T, k, q), NEW a, NEW e \in Entry, NEW R,
         Recorded(T, k, q, a, e, R), NEW r, OneBefore(k, q, e, r)
  PROVE  Appended(k, Pages(T, k, q), Pages(R, k + 1, r), a) /\ k \in Nat
<1>1. k \in Nat /\ q \in [1..k -> Entry] /\ T.va \in [Entry -> Page \cup {SLOT_USABLE}]
  BY DEF IsList, Table
<1>2. T.va[e] = SLOT_USABLE /\ R.va = [T.va EXCEPT ![e] = a]
  BY Zenon DEF Recorded
<1>3. R.va[e] = a /\ \A d \in Entry : d # e => R.va[d] = T.va[d]
  BY <1>1, <1>2, Zenon
<1>4. ASSUME NEW i \in 1..k PROVE q[i] \in Entry /\ q[i] # e
  <2>1. q[i] \in Entry
    BY <1>1, Zenon
  <2>2. T.va[q[i]] # SLOT_USABLE
    BY <2>1, Zenon DEF IsList
  <2>3. QED
    BY <1>2, <2>1, <2>2, Zenon
<1>5. PICK u, v : u = Pages(T, k, q) /\ v = Pages(R, k + 1, r)
  BY Zenon
<1>11. ArePages(T, k, q, u) /\ ArePages(R, k + 1, r, v)
  BY <1>5, PagesAre, Zenon
<1>12. \A i \in 1..(k + 1) : v[i] = R.va[r[(k + 1) - i + 1]]
  BY <1>11, Zenon DEF ArePages
<1>6. ASSUME NEW i \in 1..k PROVE v[i] = u[i]
  <2>1. PICK j : j = k - i + 1
    BY Zenon
  <2>2. j \in 1..k /\ i \in 1..(k + 1) /\ (k + 1) - i + 1 = j + 1
        /\ j + 1 \in 1..(k + 1) /\ j + 1 # 1 /\ j + 1 - 1 = j
    BY <1>1, <2>1
  <2>3. r[j + 1] = q[j]
    BY <2>2, Zenon DEF OneBefore
  <2>4. u[i] = T.va[q[j]]
    BY <1>11, <2>1, Zenon DEF ArePages
  <2>5. v[i] = R.va[r[(k + 1) - i + 1]]
    BY <1>12, <2>2, Zenon
  <2>6. v[i] = R.va[q[j]]
    BY <2>2, <2>3, <2>5, Zenon
  <2>7. QED
    BY <1>3, <1>4, <2>2, <2>4, <2>6, Zenon
<1>7. v[k + 1] = a
  <2>1. (k + 1) - (k + 1) + 1 = 1 /\ k + 1 \in 1..(k + 1) /\ 1 \in 1..(k + 1)
    BY <1>1
  <2>2. v[k + 1] = R.va[r[(k + 1) - (k + 1) + 1]]
    BY <1>12, <2>1, Zenon
  <2>3. r[1] = e
    BY Zenon DEF OneBefore
  <2>4. QED
    BY <1>3, <2>1, <2>2, <2>3, Zenon
<1>8. u = [i \in 1..k |-> u[i]] /\ v = [i \in 1..(k + 1) |-> v[i]]
  BY <1>11, Zenon DEF ArePages
<1>9. Appended(k, u, v, a)
  BY <1>6, <1>7, <1>8, Zenon DEF Appended
<1>10. QED
  BY <1>1, <1>5, <1>9, Zenon

(* A recorded page enters at the end of the queue. *)
LEMMA RecordQueue ==
  ASSUME MemoryOK, NEW a \in Page, table.num < N, UsableEntry(table) # {},
         table' = RecordPage(table, a)
  PROVE  Queue' = Append(Queue, a)
<1>1. PICK k, q : IsList(table, k, q)
  BY Zenon DEF MemoryOK
<1>2. table \in Table /\ k < N
  BY <1>1, Zenon DEF MemoryOK, IsList
<1>3. PICK e \in Entry : Recorded(table, k, q, a, e, table')
  BY <1>1, <1>2, RecordList, Zenon
<1>4. PICK r : r = [i \in 1..(k + 1) |-> IF i = 1 THEN e ELSE q[i - 1]]
  BY Zenon
<1>5. IsList(table', k + 1, r)
  BY <1>3, <1>4, Zenon DEF Recorded
<1>6. PICK u, v : u = Pages(table, k, q) /\ v = Pages(table', k + 1, r)
  BY Zenon
<1>7. Queue = u /\ Queue' = v
  BY <1>1, <1>5, <1>6, QueueIs, QueueIsNext, Zenon DEF QueueIsPages
<1>8. Appended(k, u, v, a) /\ k \in Nat
  <2>1. k \in Nat
    BY <1>1 DEF IsList
  <2>2. OneBefore(k, q, e, r)
    BY <1>4, <2>1 DEF OneBefore
  <2>3. QED
    BY <1>1, <1>2, <1>3, <1>6, <2>2, RecordPages, ZenonT(40)
<1>9. v = Append(u, a)
  BY <1>8, SeqAppend, Zenon DEF Appends
<1>10. QED
  BY <1>7, <1>9, Zenon

(* r is the list q with its last entry brought to the front. *)
LastBefore(k, q, r) == r[1] = q[k] /\ \A i \in 1..(k - 1) : r[i + 1] = q[i]

(* The oldest page is replaced by one after the others. *)
LEMMA RotatePages ==
  ASSUME NEW T \in Table, NEW k, NEW q, IsList(T, k, q), NEW a, NEW R, Rotated(T, k, q, a, R),
         NEW r, LastBefore(k, q, r)
  PROVE  /\ Shifted(k, Pages(T, k, q), Pages(R, k, r), a) /\ k \in Nat /\ k > 0
         /\ Pages(T, k, q)[1] = T.va[T.tail]
<1>1. /\ k \in Nat /\ k > 0 /\ q \in [1..k -> Entry]
      /\ T.va \in [Entry -> Page \cup {SLOT_USABLE}]
  BY Sizes DEF IsList, Table
<1>2. T.tail = q[k] /\ \A i, j \in 1..k : q[i] = q[j] => i = j
  BY Zenon DEF IsList
<1>3. R.va = [T.va EXCEPT ![q[k]] = a] /\ q[k] \in Entry
  BY <1>2, Zenon DEF Rotated
<1>4. R.va[q[k]] = a /\ \A d \in Entry : d # q[k] => R.va[d] = T.va[d]
  BY <1>1, <1>3, Zenon
<1>5. PICK u, v : u = Pages(T, k, q) /\ v = Pages(R, k, r)
  BY Zenon
<1>6. ArePages(T, k, q, u) /\ ArePages(R, k, r, v)
  BY <1>5, PagesAre, Zenon
<1>7. /\ \A i \in 1..k : u[i] = T.va[q[k - i + 1]]
      /\ \A i \in 1..k : v[i] = R.va[r[k - i + 1]]
  BY <1>6, Zenon DEF ArePages
<1>8. ASSUME NEW i \in 1..(k - 1) PROVE v[i] = u[i + 1]
  <2>1. PICK j : j = k - i
    BY Zenon
  <2>2. /\ j \in 1..(k - 1) /\ j \in 1..k /\ j # k /\ k \in 1..k /\ i \in 1..k /\ i + 1 \in 1..k
        /\ k - i + 1 = j + 1 /\ k - (i + 1) + 1 = j
    BY <1>1, <2>1
  <2>3. r[j + 1] = q[j]
    BY <2>2, Zenon DEF LastBefore
  <2>4. q[j] \in Entry /\ q[j] # q[k]
    BY <1>1, <1>2, <2>2, Zenon
  <2>5. u[i + 1] = T.va[q[k - (i + 1) + 1]] /\ v[i] = R.va[r[k - i + 1]]
    BY <1>7, <2>2, Zenon
  <2>6. u[i + 1] = T.va[q[j]] /\ v[i] = R.va[q[j]]
    BY <2>2, <2>3, <2>5, Zenon
  <2>7. QED
    BY <1>4, <2>4, <2>6, Zenon
<1>9. v[k] = a /\ u[1] = T.va[T.tail]
  <2>1. k - k + 1 = 1 /\ k \in 1..k /\ 1 \in 1..k /\ k - 1 + 1 = k
    BY <1>1
  <2>2. u[1] = T.va[q[k - 1 + 1]] /\ v[k] = R.va[r[k - k + 1]]
    BY <1>7, <2>1, Zenon
  <2>3. u[1] = T.va[q[k]] /\ v[k] = R.va[q[k]]
    BY <2>1, <2>2, Zenon DEF LastBefore
  <2>4. QED
    BY <1>2, <1>4, <2>3, Zenon
<1>10. u = [i \in 1..k |-> u[i]] /\ v = [i \in 1..k |-> v[i]]
  BY <1>6, Zenon DEF ArePages
<1>11. Shifted(k, u, v, a)
  BY <1>8, <1>9, <1>10, Zenon DEF Shifted
<1>12. QED
  BY <1>1, <1>5, <1>9, <1>11, Zenon

(* Rotate drops the oldest page and puts the new one at the end. *)
LEMMA RotateQueue ==
  ASSUME MemoryOK, NEW a \in Page, table' = Rotate(table, a)
  PROVE  Queue' = Append(Tail(Queue), a) /\ Head(Queue) = table.va[table.tail]
<1>1. PICK k, q : IsList(table, k, q)
  BY Zenon DEF MemoryOK
<1>2. table \in Table
  BY Zenon DEF MemoryOK
<1>3. Rotated(table, k, q, a, table')
  BY <1>1, <1>2, RotateList, Zenon
<1>4. PICK r : r = [i \in 1..k |-> IF i = 1 THEN q[k] ELSE q[i - 1]]
  BY Zenon
<1>5. IsList(table', k, r)
  BY <1>3, <1>4, Zenon DEF Rotated
<1>6. PICK u, v : u = Pages(table, k, q) /\ v = Pages(table', k, r)
  BY Zenon
<1>7. Queue = u /\ Queue' = v
  BY <1>1, <1>5, <1>6, QueueIs, QueueIsNext, Zenon DEF QueueIsPages
<1>8. Shifted(k, u, v, a) /\ k \in Nat /\ k > 0 /\ u[1] = table.va[table.tail]
  <2>1. k \in Nat /\ k > 0
    BY <1>1, Sizes DEF IsList
  <2>2. LastBefore(k, q, r)
    BY <1>4, <2>1 DEF LastBefore
  <2>3. QED
    BY <1>1, <1>2, <1>3, <1>6, <2>2, RotatePages, ZenonT(40)
<1>9. v = Append(Tail(u), a) /\ Head(u) = u[1]
  BY <1>8, SeqShift, Zenon DEF Shifts
<1>10. QED
  BY <1>7, <1>8, <1>9, Zenon

(* A copied list has the same queue. *)
LEMMA CopyQueue ==
  ASSUME MemoryOK, table' = CopyList(table)
  PROVE  Queue' = Queue
<1>1. PICK k, q : IsList(table, k, q)
  BY Zenon DEF MemoryOK
<1>2. PICK r : r = [i \in 1..k |-> i]
  BY Zenon
<1>3. IsList(table', k, r) /\ \A i \in 1..k : table'.va[i] = table.va[q[i]]
  <2>1. Copied(table, k, q, table')
    BY <1>1, CopyListIs, Zenon DEF MemoryOK
  <2>2. QED
    BY <1>2, <2>1, Zenon DEF Copied
<1>4. Queue = Pages(table, k, q) /\ Queue' = Pages(table', k, r)
  BY <1>1, <1>3, QueueIs, QueueIsNext, Zenon DEF QueueIsPages
<1>5. ASSUME NEW i \in 1..k PROVE table'.va[r[k - i + 1]] = table.va[q[k - i + 1]]
  <2>1. k - i + 1 \in 1..k
    BY <1>1 DEF IsList
  <2>2. QED
    BY <1>2, <1>3, <2>1, Zenon
<1>6. QED
  BY <1>4, <1>5, Zenon DEF Pages

-----------------------------------------------------------------------------
(* A page mapped afresh. *)

(* A page of zeroes where nothing was mapped is not seen. *)
LEMMA FreshPage ==
  ASSUME VInv, SizesOK', MemoryOK', NEW a \in Page, pte[a] = "none",
         pte' = [pte EXCEPT ![a] = "present"], mem' = [mem EXCEPT ![a] = Zero],
         UNCHANGED <<swapVA, disk>>, Region \subseteq Region'
  PROVE  VInv' /\ View' = View /\ pte'[a] = "present"
<1>1. /\ pte \in [Page -> {"none", "present", "PG"}] /\ mem \in [Page -> Value] /\ Zero \in Value
      /\ SwapOK /\ a # SLOT_USABLE
  <2>1. a # SLOT_USABLE
    BY DEF Page, SLOT_USABLE
  <2>2. QED
    BY <2>1, Sizes, Zenon DEF VInv, PagesOK
<1>2. PagesOK'
  <2>1. "present" \in {"none", "present", "PG"}
    BY Zenon
  <2>2. pte' \in [Page -> {"none", "present", "PG"}]
    BY <1>1, <2>1, OneEntry, Zenon
  <2>3. mem' \in [Page -> Value]
    BY <1>1, OneEntry, Zenon
  <2>4. QED
    BY <2>2, <2>3, Zenon DEF PagesOK
<1>3. /\ pte'[a] = "present" /\ \A c \in Page : c # a => pte'[c] = pte[c]
      /\ mem'[a] = Zero /\ \A c \in Page : c # a => mem'[c] = mem[c]
  BY <1>1, Zenon
<1>4. SwapOK'
  <2>1. \A s \in DOMAIN swapVA : swapVA[s] # SLOT_USABLE =>
          swapVA[s] \in Region' /\ pte'[swapVA[s]] = "PG"
    BY <1>1, <1>3, RegionIs, Zenon DEF SwapOK
  <2>2. \A c \in Page : pte'[c] = "PG" => \E s \in DOMAIN swapVA : swapVA[s] = c
    BY <1>1, <1>3, Zenon DEF SwapOK
  <2>3. QED
    BY <1>1, <2>1, <2>2, Zenon DEF SwapOK
<1>5. VInv'
  BY <1>2, <1>4, Zenon DEF VInv
<1>6. Reads
  BY ViewReads, Zenon
<1>7. ASSUME NEW c \in Page
      PROVE  /\ pte'[c] = "present" => View[Self][c] = mem'[c]
             /\ pte'[c] = "none" => View[Self][c] = Zero
             /\ pte'[c] = "PG" =>
                  \E s \in DOMAIN swapVA' : swapVA'[s] = c /\ disk'[s] = View[Self][c]
  <2>1. CASE c = a
    BY <1>3, <1>6, <2>1, Zenon DEF Reads
  <2>2. CASE c # a
    <3>1. pte'[c] = pte[c] /\ mem'[c] = mem[c]
      BY <1>3, <2>2, Zenon
    <3>2. ASSUME pte[c] = "PG"
          PROVE  \E s \in DOMAIN swapVA : swapVA[s] = c /\ disk[s] = View[Self][c]
      BY <1>1, <1>6, <3>2, Zenon DEF Reads, SwapOK
    <3>3. QED
      BY <1>6, <3>1, <3>2, Zenon DEF Reads
  <2>3. QED
    BY <2>1, <2>2, Zenon
<1>8. View' = View
  BY <1>5, <1>7, ViewSame, Zenon
<1>9. QED
  BY <1>3, <1>5, <1>8, Zenon

(* What a step that maps page a does to the tables and to the queue. *)
LEMMA MapStep ==
  ASSUME VInv, SizesOK', NEW a \in Page, pte[a] = "none", MapAndRecord(a),
         Region \subseteq Region', a \in Region'
  PROVE  /\ VInv' /\ View' = View /\ pte'[a] = "present"
         /\ \/ Queue' = Append(Queue, a)
            \/ Queue' = Append(Tail(Queue), a) /\ pte'[Head(Queue)] = "PG"
<1>0. /\ pte \in [Page -> {"none", "present", "PG"}] /\ mem \in [Page -> Value] /\ Zero \in Value
      /\ PagesOK /\ MemoryOK /\ SwapOK /\ pte[a] # "present" /\ a # SLOT_USABLE
  <2>1. a # SLOT_USABLE
    BY DEF Page, SLOT_USABLE
  <2>2. QED
    BY <2>1, Sizes, Zenon DEF VInv, PagesOK
<1>1. ASSUME table.num < N, UsableEntry(table) # {}, table' = RecordPage(table, a),
             pte' = [pte EXCEPT ![a] = "present"], mem' = [mem EXCEPT ![a] = Zero],
             UNCHANGED <<swapVA, disk>>
      PROVE  VInv' /\ View' = View /\ pte'[a] = "present" /\ Queue' = Append(Queue, a)
  <2>1. MemoryOK' /\ Queue' = Append(Queue, a)
    BY <1>0, <1>1, RecordKeeps, RecordQueue, Zenon
  <2>2. QED
    BY <1>0, <1>1, <2>1, FreshPage, Zenon
<1>2. ASSUME NEW b, b = table.va[table.tail], NEW s, s = GetEmptyInSwapTable,
             table' = Rotate(table, a),
             swapVA' = [GrowSwapTable(s, swapVA, SLOT_USABLE) EXCEPT ![s] = b],
             disk' = [GrowSwapTable(s, disk, Zero) EXCEPT ![s] = mem[b]],
             pte' = [pte EXCEPT ![a] = "present", ![b] = "PG"],
             mem' = [mem EXCEPT ![a] = Zero, ![b] = Zero]
      PROVE  /\ VInv' /\ View' = View /\ pte'[a] = "present"
             /\ Queue' = Append(Tail(Queue), a) /\ pte'[Head(Queue)] = "PG"
  <2>1. b \in Region /\ b \in Page /\ pte[b] = "present" /\ b # a
    <3>1. PICK k, q : IsList(table, k, q)
      BY <1>0, Zenon DEF MemoryOK
    <3>2. table.tail \in Entry /\ b # SLOT_USABLE
      BY <1>0, <1>2, <3>1, RotateList, Zenon DEF MemoryOK, Rotated
    <3>3. QED
      BY <1>0, <1>2, <3>2, RegionIs, Zenon DEF MemoryOK
  <2>2. MemoryOK'
    BY <1>0, <1>2, RotateKeeps, Zenon
  <2>3. Queue' = Append(Tail(Queue), a) /\ Head(Queue) = b
    BY <1>0, <1>2, RotateQueue, ZenonT(40)
  <2>4. /\ pte' = [[pte EXCEPT ![a] = "present"] EXCEPT ![b] = "PG"]
        /\ mem' = [[mem EXCEPT ![a] = Zero] EXCEPT ![b] = Zero]
    BY <1>2
  <2>5. /\ pte'[a] = "present" /\ pte'[b] = "PG"
        /\ \A c \in Page : c # a /\ c # b => pte'[c] = pte[c]
    BY <1>0, <2>1, <2>4
  <2>6. mem'[a] = Zero /\ \A c \in Page : c # a /\ c # b => mem'[c] = mem[c]
    BY <1>0, <2>1, <2>4
  <2>7. PagesOK'
    <3>1. "present" \in {"none", "present", "PG"} /\ "PG" \in {"none", "present", "PG"}
      BY Zenon
    <3>2. [pte EXCEPT ![a] = "present"] \in [Page -> {"none", "present", "PG"}]
      BY <1>0, <3>1, OneEntry, Zenon
    <3>3. pte' \in [Page -> {"none", "present", "PG"}]
      BY <2>4, <3>1, <3>2, OneEntry, Zenon
    <3>4. [mem EXCEPT ![a] = Zero] \in [Page -> Value]
      BY <1>0, OneEntry, Zenon
    <3>5. mem' \in [Page -> Value]
      BY <1>0, <2>4, <3>4, OneEntry, Zenon
    <3>6. QED
      BY <3>3, <3>5, Zenon DEF PagesOK
  <2>8. SwapOK' /\ OnDisk(b)
    <3>1. PICK n \in Nat : swapVA \in [1..n -> Page \cup {SLOT_USABLE}] /\ disk \in [1..n -> Value]
      BY <1>0, Zenon DEF SwapOK
    <3>2. (s \in 1..n /\ swapVA[s] = SLOT_USABLE) \/ s = n + 1
      BY <1>2, <3>1, EmptySlot, Zenon
    <3>3. PICK m : m = IF s \in 1..n THEN n ELSE n + SWAP_TABLE_ENTRY_NUM
      BY Zenon
    <3>4. m \in Nat /\ s \in 1..m /\ \A t \in 1..n : t \in 1..m
      BY <3>2, <3>3, Sizes
    <3>5. PICK W, D : W = GrowSwapTable(s, swapVA, SLOT_USABLE) /\ D = GrowSwapTable(s, disk, Zero)
      BY Zenon
    <3>6. /\ W \in [1..m -> Page \cup {SLOT_USABLE}]
          /\ \A i \in 1..m : W[i] = IF i \in 1..n THEN swapVA[i] ELSE SLOT_USABLE
      <4>1. SLOT_USABLE \in Page \cup {SLOT_USABLE}
        BY Zenon
      <4>2. Grown(n, m, Page \cup {SLOT_USABLE}, swapVA, SLOT_USABLE, W)
        BY <3>1, <3>3, <3>5, <4>1, GrowIs, Zenon
      <4>3. QED
        BY <4>2, Zenon DEF Grown
    <3>7. /\ D \in [1..m -> Value]
          /\ \A i \in 1..m : D[i] = IF i \in 1..n THEN disk[i] ELSE Zero
      <4>1. Grown(n, m, Value, disk, Zero, D)
        BY <1>0, <3>1, <3>3, <3>5, GrowIs, Zenon
      <4>2. QED
        BY <4>1, Zenon DEF Grown
    <3>8. DOMAIN swapVA = 1..n
      BY <3>1, Zenon
    <3>9. \A t \in 1..m : t # s /\ W[t] # SLOT_USABLE => t \in DOMAIN swapVA
      BY <3>6, <3>8, Zenon
    <3>10. \A t \in DOMAIN swapVA : t \in 1..m /\ W[t] = swapVA[t] /\ D[t] = disk[t]
      BY <3>4, <3>6, <3>7, <3>8, Zenon
    <3>11. s \in DOMAIN swapVA => swapVA[s] \in {SLOT_USABLE, a}
      <4>1. n + 1 \notin 1..n
        OBVIOUS
      <4>2. QED
        BY <3>2, <3>8, <4>1, Zenon
    <3>12. \A t \in DOMAIN swapVA : swapVA[t] = a => t = s
      BY <1>0, Zenon DEF SwapOK
    <3>13. swapVA' = [W EXCEPT ![s] = b] /\ disk' = [D EXCEPT ![s] = mem[b]]
      BY <1>2, <3>5, Zenon
    <3>14. QED
      <4>1. Takes(a, b, m, W, D, s)
        BY <3>4, <3>6, <3>7, <3>9, <3>10, <3>11, <3>12, <3>13, ZenonT(40) DEF Takes
      <4>2. QED
        BY <1>0, <1>2, <2>1, <3>4, <4>1, TakeSlot, Zenon
  <2>9. VInv'
    BY <2>2, <2>7, <2>8, Zenon DEF VInv
  <2>10. View[Self][a] = Zero
    BY ViewReads, Zenon DEF Reads
  <2>11. View' = View
    BY <2>1, <2>5, <2>6, <2>8, <2>9, <2>10, EvictView, ZenonT(40)
  <2>12. QED
    BY <2>3, <2>5, <2>9, <2>11, Zenon
<1>3. QED
  BY <1>1, <1>2, Zenon DEF MapAndRecord, swapVars, N

-----------------------------------------------------------------------------
(* The steps of the program.                                               *)
(* A step that changes nothing of the program's memory. *)
LEMMA IdleStep ==
  ASSUME VInv, UNCHANGED <<table, swapVA, disk, pte, mem, sz, stackSize>>
  PROVE  VInv' /\ View' = View /\ Queue' = Queue /\ Region' = Region
<1>1. Region' = Region
  BY Zenon DEF Region
<1>3. Queue' = Queue
  BY SameQueue, Zenon DEF VInv
<1>4. PagesOK' /\ SizesOK'
  BY Zenon DEF VInv, PagesOK, SizesOK
<1>5. MemoryOK'
  BY <1>1, Zenon DEF VInv, MemoryOK
<1>6. SwapOK'
  BY <1>1, Zenon DEF VInv, SwapOK
<1>7. VInv'
  BY <1>4, <1>5, <1>6, Zenon DEF VInv
<1>8. QED
  BY <1>1, <1>3, <1>7, ViewUnchanged, Zenon

(* A store changes one page of the view. *)
LEMMA StoreStep ==
  ASSUME VInv, NEW a \in Page, NEW v \in Value, Store(a, v)
  PROVE  VInv' /\ View' = [View EXCEPT ![Self][a] = v] /\ Queue' = Queue /\ Region' = Region
<1>1. /\ pte[a] = "present" /\ mem' = [mem EXCEPT ![a] = v]
      /\ UNCHANGED <<table, swapVA, disk, pte, sz, stackSize>>
  BY Zenon DEF Store, swapVars
<1>2. Region' = Region
  BY <1>1, Zenon DEF Region
<1>3. Queue' = Queue
  BY <1>1, SameQueue, Zenon DEF VInv
<1>4. PagesOK'
  BY <1>1, OneEntry, Zenon DEF VInv, PagesOK
<1>5. SizesOK' /\ MemoryOK' /\ SwapOK'
  BY <1>1, <1>2, Zenon DEF VInv, SizesOK, MemoryOK, SwapOK
<1>6. VInv'
  BY <1>4, <1>5, Zenon DEF VInv
<1>7. Reads /\ Reads'
  BY <1>6, ViewReads, ViewReadsNext, Zenon
<1>8. mem'[a] = v /\ \A c \in Page : c # a => mem'[c] = mem[c]
  BY <1>1, Zenon DEF VInv, PagesOK
<1>9. ASSUME NEW c \in Page PROVE View'[Self][c] = IF c = a THEN v ELSE View[Self][c]
  <2>0. pte[c] \in {"none", "present", "PG"} /\ pte' = pte
    BY <1>1, Zenon DEF VInv, PagesOK
  <2>1. CASE c = a
    <3>1. View'[Self][c] = mem'[c]
      <4>1. pte'[c] = "present" /\ Reads'
        BY <1>1, <1>7, <2>0, <2>1, Zenon
      <4>2. QED
        BY <4>1, Zenon DEF Reads
    <3>2. QED
      BY <1>8, <2>1, <3>1, Zenon
  <2>2. CASE c # a /\ pte[c] # "PG"
    BY <1>7, <1>8, <2>0, <2>2, Zenon DEF Reads
  <2>3. CASE c # a /\ pte[c] = "PG"
    <3>1. PICK s \in DOMAIN swapVA : swapVA[s] = c
      BY <2>3, Zenon DEF VInv, SwapOK
    <3>2. QED
      <4>1. View[Self][c] = disk[s]
        BY <1>7, <2>3, <3>1, Zenon DEF Reads
      <4>2. s \in DOMAIN swapVA' /\ swapVA'[s] = c /\ pte'[c] = "PG" /\ disk'[s] = disk[s] /\ Reads'
        BY <1>1, <1>7, <2>3, <3>1, Zenon
      <4>3. View'[Self][c] = disk'[s]
        BY <4>2, Zenon DEF Reads
      <4>4. QED
        BY <2>3, <4>1, <4>2, <4>3, Zenon
  <2>4. QED
    BY <2>1, <2>2, <2>3, Zenon
<1>10. View' = [View EXCEPT ![Self][a] = v]
  <2>1. PICK V, W : V = View /\ W = View'
    BY Zenon
  <2>2. ViewShape /\ ViewShape'
    BY <1>6, ViewIs, ViewIsNext, Zenon
  <2>3. /\ V = [p \in {Self} |-> [c \in Page |-> V[Self][c]]]
        /\ W = [p \in {Self} |-> [c \in Page |-> W[Self][c]]]
    BY <2>1, <2>2 DEF ViewShape
  <2>4. \A c \in Page : W[Self][c] = IF c = a THEN v ELSE V[Self][c]
    BY <1>9, <2>1, Zenon
  <2>5. W = [V EXCEPT ![Self][a] = v]
    BY <2>3, <2>4, ViewStored
  <2>6. QED
    BY <2>1, <2>5, Zenon
<1>11. QED
  BY <1>2, <1>3, <1>6, <1>10, Zenon

(* A page allocated when it is touched is not seen. *)
LEMMA LazyStep ==
  ASSUME VInv, NEW a \in Page, LazyFault(a)
  PROVE  VInv' /\ View' = View /\ Queue' = Queue /\ Region' = Region
<1>1. /\ pte[a] = "none" /\ pte' = [pte EXCEPT ![a] = "present"]
      /\ mem' = [mem EXCEPT ![a] = Zero]
      /\ UNCHANGED <<table, swapVA, disk, sz, stackSize>>
  BY Zenon DEF LazyFault, swapVars
<1>2. Region' = Region
  BY <1>1, Zenon DEF Region
<1>3. Queue' = Queue
  BY <1>1, SameQueue, Zenon DEF VInv
<1>4. SizesOK'
  BY <1>1, Zenon DEF VInv, SizesOK
<1>5. \A c \in Page : pte[c] = "present" => pte'[c] = "present"
  BY <1>1, Zenon DEF VInv, PagesOK
<1>6. MemoryOK'
  <2>1. \A e \in Entry : table.va[e] # SLOT_USABLE =>
          table.va[e] \in Region /\ pte'[table.va[e]] = "present"
    BY <1>5, RegionIs, Zenon DEF VInv, MemoryOK
  <2>2. QED
    BY <1>1, <1>2, <2>1, Zenon DEF VInv, MemoryOK
<1>7. VInv' /\ View' = View
  BY <1>1, <1>2, <1>4, <1>6, FreshPage, Zenon
<1>8. QED
  BY <1>2, <1>3, <1>7, Zenon

(* Two pages change places, and the program reads what it read. *)
LEMMA SwapInStep ==
  ASSUME VInv, NEW a \in Page, SwapIn(a)
  PROVE  /\ VInv' /\ View' = View /\ Region' = Region
         /\ \/ Queue' = Queue
            \/ /\ Queue' = Append(Tail(Queue), a)
               /\ pte'[a] = "present" /\ pte'[Head(Queue)] = "PG"
<1>0. /\ PagesOK /\ MemoryOK /\ SwapOK /\ SizesOK /\ pte[a] = "PG" /\ pte[a] # "present"
      /\ pte \in [Page -> {"none", "present", "PG"}] /\ mem \in [Page -> Value]
      /\ a # SLOT_USABLE
  <2>1. a # SLOT_USABLE
    BY DEF Page, SLOT_USABLE
  <2>2. QED
    BY <2>1, Zenon DEF VInv, PagesOK, SwapIn
<1>1. CASE stop("panic")
  BY <1>1, IdleStep, Zenon DEF stop, swapVars, frameVars
<1>2. ASSUME NEW b, b = table.va[table.tail], NEW s,
             s = CHOOSE i \in DOMAIN swapVA : IsFirst(i, InSwapTable(a)),
             InSwapTable(a) # {}, table' = Rotate(table, a),
             pte' = [pte EXCEPT ![a] = "present", ![b] = "PG"],
             mem' = [mem EXCEPT ![b] = Zero, ![a] = disk[s]],
             disk' = [disk EXCEPT ![s] = mem[b]], swapVA' = [swapVA EXCEPT ![s] = b],
             UNCHANGED <<sz, stackSize>>
      PROVE  /\ VInv' /\ View' = View /\ Region' = Region
             /\ Queue' = Append(Tail(Queue), a)
             /\ pte'[a] = "present" /\ pte'[Head(Queue)] = "PG"
  <2>1. b \in Region /\ b \in Page /\ pte[b] = "present" /\ b # a
    <3>1. PICK k, q : IsList(table, k, q)
      BY <1>0, Zenon DEF MemoryOK
    <3>2. table.tail \in Entry /\ b # SLOT_USABLE
      BY <1>0, <1>2, <3>1, RotateList, Zenon DEF MemoryOK, Rotated
    <3>3. QED
      BY <1>0, <1>2, <3>2, RegionIs, Zenon DEF MemoryOK
  <2>2. PICK n \in Nat : swapVA \in [1..n -> Page \cup {SLOT_USABLE}] /\ disk \in [1..n -> Value]
    BY <1>0, Zenon DEF SwapOK
  <2>3. DOMAIN swapVA = 1..n /\ 1..n \subseteq Nat
    BY <2>2
  <2>4. s \in 1..n /\ swapVA[s] = a
    <3>1. InSwapTable(a) \subseteq 1..n
      BY <2>3, Zenon DEF InSwapTable
    <3>2. IsFirst(s, InSwapTable(a))
      <4>1. \E i \in DOMAIN swapVA : IsFirst(i, InSwapTable(a))
        BY <1>2, <2>3, <3>1, FirstOne, Zenon
      <4>2. QED
        BY <1>2, <4>1, Zenon
    <3>3. QED
      BY <2>3, <3>2, Zenon DEF IsFirst, InSwapTable
  <2>5. a \in Region /\ Region' = Region /\ Region \subseteq Region'
    <3>1. a \in Region
      BY <1>0, <2>3, <2>4, Zenon DEF SwapOK
    <3>2. Region' = Region
      BY <1>2, Zenon DEF Region
    <3>3. QED
      BY <3>1, <3>2, Zenon
  <2>6. MemoryOK' /\ Queue' = Append(Tail(Queue), a) /\ Head(Queue) = b
    BY <1>0, <1>2, <2>5, RotateKeeps, RotateQueue, ZenonT(40)
  <2>7. /\ pte' = [[pte EXCEPT ![a] = "present"] EXCEPT ![b] = "PG"]
        /\ mem' = [[mem EXCEPT ![b] = Zero] EXCEPT ![a] = disk[s]]
    BY <1>2
  <2>8. /\ pte'[a] = "present" /\ pte'[b] = "PG"
        /\ \A c \in Page : c # a /\ c # b => pte'[c] = pte[c]
    BY <1>0, <2>1, <2>7
  <2>9. mem'[a] = disk[s] /\ \A c \in Page : c # a /\ c # b => mem'[c] = mem[c]
    BY <1>0, <2>1, <2>7
  <2>10. PagesOK' /\ SizesOK'
    <3>1. "present" \in {"none", "present", "PG"} /\ "PG" \in {"none", "present", "PG"}
          /\ Zero \in Value /\ disk[s] \in Value
      BY <2>2, <2>4, Sizes, Zenon
    <3>2. [pte EXCEPT ![a] = "present"] \in [Page -> {"none", "present", "PG"}]
      BY <1>0, <3>1, OneEntry, Zenon
    <3>3. pte' \in [Page -> {"none", "present", "PG"}]
      BY <2>7, <3>1, <3>2, OneEntry, Zenon
    <3>4. [mem EXCEPT ![b] = Zero] \in [Page -> Value]
      BY <1>0, <3>1, OneEntry, Zenon
    <3>5. mem' \in [Page -> Value]
      BY <2>7, <3>1, <3>4, OneEntry, Zenon
    <3>6. QED
      BY <1>0, <1>2, <3>3, <3>5, Zenon DEF PagesOK, SizesOK
  <2>11. SwapOK' /\ OnDisk(b)
    <3>1. \A t \in DOMAIN swapVA : swapVA[t] = a => t = s
      BY <1>0, <2>3, <2>4, Zenon DEF SwapOK
    <3>2. /\ \A t \in 1..n : t # s /\ swapVA[t] # SLOT_USABLE => t \in DOMAIN swapVA
          /\ \A t \in DOMAIN swapVA : t \in 1..n /\ swapVA[t] = swapVA[t] /\ disk[t] = disk[t]
          /\ s \in DOMAIN swapVA => swapVA[s] \in {SLOT_USABLE, a}
      BY <2>3, <2>4, Zenon
    <3>3. QED
      <4>1. Takes(a, b, n, swapVA, disk, s)
        BY <1>2, <2>2, <2>4, <3>1, <3>2, ZenonT(40) DEF Takes
      <4>2. QED
        BY <1>0, <1>2, <2>1, <2>2, <2>5, <4>1, TakeSlot, ZenonT(40)
  <2>12. VInv'
    BY <2>6, <2>10, <2>11, Zenon DEF VInv
  <2>13. View[Self][a] = disk[s]
    BY <1>0, <2>3, <2>4, ViewReads, Zenon DEF Reads
  <2>14. View' = View
    BY <2>1, <2>8, <2>9, <2>11, <2>12, <2>13, EvictView, ZenonT(40)
  <2>15. QED
    BY <2>5, <2>6, <2>8, <2>12, <2>14, Zenon
<1>3. QED
  BY <1>1, <1>2, Zenon DEF SwapIn, ReadSwapFile

(* A page outside heap and stack is not on disk. *)
LEMMA OutsideIsNew ==
  ASSUME VInv, NEW a \in Page, a \notin Region, pte[a] # "present"
  PROVE  pte[a] = "none"
<1>1. pte[a] # "PG"
  <2>1. ASSUME pte[a] = "PG" PROVE FALSE
    <3>1. PICK s \in DOMAIN swapVA : swapVA[s] = a
      BY <2>1, Zenon DEF VInv, SwapOK
    <3>2. a # SLOT_USABLE
      BY DEF Page, SLOT_USABLE
    <3>3. QED
      BY <3>1, <3>2, Zenon DEF VInv, SwapOK
  <2>2. QED
    BY <2>1, Zenon
<1>2. QED
  BY <1>1, Zenon DEF VInv, PagesOK

(* The stack grows by the page below it. *)
LEMMA StackStep ==
  ASSUME VInv, NEW a \in Page, StackFault(a)
  PROVE  VInv' /\ View' = View /\ FifoStep
<1>1. CASE stop("panic")
  BY <1>1, IdleStep, Zenon DEF stop, swapVars, frameVars, FifoStep
<1>2. ASSUME NEW top, top = USERTOP - stackSize - 1, pte[top] # "present", MapAndRecord(top),
             stackSize' = stackSize + 1, UNCHANGED sz, isLackOfStackCapacity(a)
      PROVE  VInv' /\ View' = View /\ FifoStep
  <2>1. /\ sz \in Nat /\ stackSize \in Nat /\ 1 <= sz /\ 1 <= stackSize /\ USERTOP \in Nat
        /\ sz + 1 <= a /\ a < USERTOP - stackSize /\ a \in Nat /\ sz' = sz
    BY <1>2, Sizes DEF VInv, SizesOK, isLackOfStackCapacity, Page
  <2>2. top \in Page /\ ~((1 <= top /\ top < sz) \/ USERTOP - stackSize <= top)
        /\ USERTOP - stackSize' <= top
    BY <1>2, <2>1 DEF Page
  <2>3. SizesOK'
    BY <1>2, <2>1 DEF SizesOK
  <2>4. \A c \in Page : USERTOP - stackSize <= c => USERTOP - stackSize' <= c
    BY <1>2, <2>1 DEF Page
  <2>5. Region \subseteq Region'
    BY <2>1, <2>4, RegionIs, RegionIsNext, Zenon
  <2>6. top \in Region' /\ top \notin Region
    BY <2>2, RegionIs, RegionIsNext, Zenon
  <2>7. pte[top] = "none"
    BY <1>2, <2>2, <2>6, OutsideIsNew, Zenon
  <2>8. QED
    BY <1>2, <2>2, <2>3, <2>5, <2>6, <2>7, MapStep, ZenonT(40) DEF FifoStep
<1>3. QED
  BY <1>1, <1>2, Zenon DEF StackFault

(* The heap grows by a page or two, of which one is mapped. *)
LEMMA SbrkStep ==
  ASSUME VInv, SbrkGrow
  PROVE  VInv' /\ View' = View /\ FifoStep
<1>1. CASE stop("panic")
  BY <1>1, IdleStep, Zenon DEF stop, swapVars, frameVars, FifoStep
<1>2. ASSUME sz + 1 <= heapLimit, pte[sz] # "present", MapAndRecord(sz),
             sz' = IF sz + 2 > heapLimit THEN sz + 1 ELSE sz + 2, UNCHANGED stackSize
      PROVE  VInv' /\ View' = View /\ FifoStep
  <2>1. /\ sz \in Nat /\ stackSize \in Nat /\ 1 <= sz /\ 1 <= stackSize /\ USERTOP \in Nat
        /\ stackSize' = stackSize /\ heapLimit = USERTOP - stackSize - 1
    BY <1>2, Sizes DEF VInv, SizesOK, heapLimit
  <2>2. sz \in Page /\ ~((1 <= sz /\ sz < sz) \/ USERTOP - stackSize <= sz)
        /\ 1 <= sz /\ sz < sz'
    BY <1>2, <2>1 DEF Page
  <2>3. SizesOK'
    BY <1>2, <2>1 DEF SizesOK
  <2>4. \A c \in Page : c < sz => c < sz'
    BY <1>2, <2>1 DEF Page
  <2>5. Region \subseteq Region'
    BY <2>1, <2>4, RegionIs, RegionIsNext, Zenon
  <2>6. sz \in Region' /\ sz \notin Region
    BY <2>2, RegionIs, RegionIsNext, Zenon
  <2>7. pte[sz] = "none"
    BY <1>2, <2>2, <2>6, OutsideIsNew, Zenon
  <2>8. QED
    BY <1>2, <2>2, <2>3, <2>5, <2>6, <2>7, MapStep, ZenonT(40) DEF FifoStep
<1>3. QED
  BY <1>1, <1>2, Zenon DEF SbrkGrow

(* The swap table left in a slot is a sequence of addresses. *)
LEMMA LeftTable ==
  ASSUME NEW left \in SwapTable
  PROVE  \E n \in Nat : DOMAIN left = 1..n /\ left \in [1..n -> LeftPage \cup {SLOT_USABLE}]
<1>1. PICK n \in 0..(SWAP_FILE_PAGES + SWAP_TABLE_ENTRY_NUM - 1) :
        left \in [1..n -> LeftPage \cup {SLOT_USABLE}]
  BY Zenon DEF SwapTable
<1>2. n \in Nat
  BY Sizes
<1>3. DOMAIN left = 1..n
  BY <1>1, Zenon
<1>4. QED
  BY <1>1, <1>2, <1>3, Zenon

(* The parent goes on as before; the child has a copy of heap and stack,   *)
(* and what else was mapped is lost.  All of heap and stack is present, so *)
(* nothing of the parent is on disk.                                       *)
LEMMA ForkStep ==
  ASSUME VInv, Fork, ~stray'
  PROVE  /\ VInv' /\ Queue' = Queue /\ Region' = Region
         /\ \A c \in Page : \/ View'[Self][c] = View[Self][c]
                            \/ View'[Self][c] = Zero /\ c \notin Region
<1>1. CASE stop("panic")
  BY <1>1, IdleStep, Zenon DEF stop, swapVars, frameVars
<1>2. CASE UNCHANGED <<table, pte, mem>> /\ UNCHANGED <<swapVA, disk, sz, stackSize>>
  BY <1>2, IdleStep, Zenon
<1>3. ASSUME \A a \in Region : pte[a] = "present", NEW left \in SwapTable,
             table' = CopyList(table), swapVA' = CopySwap(left, swapVA, left),
             disk' = CopySwap(left, disk, [s \in DOMAIN left |-> Zero]),
             pte' = [a \in Page |-> IF a \in Region THEN "present" ELSE "none"],
             mem' = [a \in Page |-> IF a \in Region THEN mem[a] ELSE Zero],
             ~\E s \in DOMAIN left \ DOMAIN swapVA : left[s] # SLOT_USABLE,
             UNCHANGED <<sz, stackSize>>
      PROVE  /\ VInv' /\ Queue' = Queue /\ Region' = Region
             /\ \A c \in Page : \/ View'[Self][c] = View[Self][c]
                                \/ View'[Self][c] = Zero /\ c \notin Region
  <2>1. Region' = Region
    BY <1>3, Zenon DEF Region
  <2>2. Queue' = Queue
    BY <1>3, CopyQueue, Zenon DEF VInv
  <2>3. PagesOK' /\ SizesOK'
    BY <1>3, Sizes, Zenon DEF VInv, PagesOK, SizesOK
  <2>4. MemoryOK'
    <3>1. PICK k, q : IsList(table, k, q)
      BY Zenon DEF VInv, MemoryOK
    <3>2. PICK r : r = [i \in 1..k |-> i]
      BY Zenon
    <3>3. /\ table' \in Table /\ IsList(table', k, r)
          /\ \A i \in 1..k : i \in Entry /\ table'.va[i] = table.va[q[i]]
      <4>1. Copied(table, k, q, table')
        BY <1>3, <3>1, CopyListIs, Zenon DEF VInv, MemoryOK
      <4>2. QED
        BY <3>2, <4>1, Zenon DEF Copied
    <3>4. ASSUME NEW e \in Entry, table'.va[e] # SLOT_USABLE
          PROVE  /\ e \in 1..k /\ table'.va[e] = table.va[q[e]] /\ q[e] \in Entry
                 /\ table.va[q[e]] # SLOT_USABLE
      <4>1. PICK i \in 1..k : r[i] = e
        BY <3>3, <3>4, Zenon DEF IsList
      <4>2. e \in 1..k
        BY <3>2, <4>1, Zenon
      <4>3. q[e] \in Entry
        BY <3>1, <4>2, ZenonT(40) DEF IsList
      <4>4. QED
        BY <3>3, <3>4, <4>2, <4>3, Zenon
    <3>5. ASSUME NEW e \in Entry, table'.va[e] # SLOT_USABLE
          PROVE  table'.va[e] \in Region' /\ pte'[table'.va[e]] = "present"
      <4>1. table'.va[e] \in Region
        BY <3>4, <3>5, Zenon DEF VInv, MemoryOK
      <4>2. QED
        BY <1>3, <2>1, <4>1, RegionIs, Zenon
    <3>6. ASSUME NEW d \in Entry, NEW e \in Entry, table'.va[d] = table'.va[e],
                 table'.va[e] # SLOT_USABLE
          PROVE  d = e
      <4>1. /\ d \in 1..k /\ e \in 1..k /\ q[d] \in Entry /\ q[e] \in Entry
            /\ table.va[q[d]] = table.va[q[e]] /\ table.va[q[e]] # SLOT_USABLE
        BY <3>4, <3>6, Zenon
      <4>2. q[d] = q[e]
        BY <4>1, Zenon DEF VInv, MemoryOK
      <4>3. QED
        <5>1. \A i, j \in 1..k : q[i] = q[j] => i = j
          BY <3>1, Zenon DEF IsList
        <5>2. QED
          BY <4>1, <4>2, <5>1, Zenon
    <3>7. QED
      BY <3>3, <3>5, <3>6, Zenon DEF MemoryOK
  <2>5. \A c \in Page : pte'[c] = IF c \in Region THEN "present" ELSE "none"
    BY <1>3, Zenon
  <2>6. SwapOK'
    <3>1. PICK n \in Nat : DOMAIN left = 1..n /\ left \in [1..n -> LeftPage \cup {SLOT_USABLE}]
      BY <1>3, LeftTable, Zenon
    <3>2. PICK m \in Nat : /\ swapVA \in [1..m -> Page \cup {SLOT_USABLE}]
                           /\ disk \in [1..m -> Value]
      BY Zenon DEF VInv, SwapOK
    <3>3. \A s \in DOMAIN swapVA : swapVA[s] = SLOT_USABLE
      BY <1>3, Zenon DEF VInv, SwapOK
    <3>4. swapVA' = [s \in 1..n |-> IF s \in DOMAIN swapVA THEN swapVA[s] ELSE left[s]]
      BY <1>3, <3>1, Zenon DEF CopySwap
    <3>5. \A s \in 1..n : s \notin DOMAIN swapVA => left[s] = SLOT_USABLE
      BY <1>3, <3>1, Zenon
    <3>6. \A s \in 1..n : swapVA'[s] = SLOT_USABLE
      BY <3>3, <3>4, <3>5, Zenon
    <3>7. DOMAIN swapVA' = 1..n
      BY <3>4, Zenon
    <3>8. swapVA' \in [1..n -> Page \cup {SLOT_USABLE}]
      BY <3>4, <3>6, Zenon
    <3>9. disk' = [s \in 1..n |-> IF s \in DOMAIN disk THEN disk[s]
                                  ELSE [t \in 1..n |-> Zero][s]]
      BY <1>3, <3>1, Zenon DEF CopySwap
    <3>10. disk' \in [1..n -> Value]
      BY <3>2, <3>9, Sizes, Zenon
    <3>11. \A c \in Page : pte'[c] # "PG"
      BY <2>5, Zenon
    <3>12. QED
      BY <3>6, <3>7, <3>8, <3>10, <3>11, Zenon DEF SwapOK
  <2>7. VInv'
    BY <2>3, <2>4, <2>6, Zenon DEF VInv
  <2>8. Reads /\ Reads'
    BY <2>7, ViewReads, ViewReadsNext, Zenon
  <2>9. ASSUME NEW c \in Page
        PROVE  \/ View'[Self][c] = View[Self][c]
               \/ View'[Self][c] = Zero /\ c \notin Region
    <3>1. CASE c \in Region
      <4>1. pte[c] = "present" /\ pte'[c] = "present" /\ mem'[c] = mem[c]
        BY <1>3, <2>5, <3>1, Zenon
      <4>2. QED
        BY <2>8, <4>1, Zenon DEF Reads
    <3>2. CASE c \notin Region
      BY <2>5, <2>8, <3>2, Zenon DEF Reads
    <3>3. QED
      BY <3>1, <3>2, Zenon
  <2>10. QED
    BY <2>1, <2>2, <2>7, <2>9, Zenon
<1>4. QED
  BY <1>1, <1>2, <1>3, Zenon DEF Fork, swapVars

-----------------------------------------------------------------------------
(* exec, and every step.                                                   *)
(* A program as exec leaves it. *)
Started ==
  /\ table = ExecTable
  /\ \E n \in Nat : swapVA \in [1..n -> {SLOT_USABLE}] /\ disk \in [1..n -> Value]
  /\ pte = [a \in Page |-> IF a \in Image THEN "present" ELSE "none"]
  /\ mem = [a \in Page |-> IF a \in TextPage THEN Text ELSE Zero]
  /\ sz = TextPages + 1 /\ stackSize = 1

(* Its tables are exact, and it sees the image. *)
StartOK ==
  /\ VInv /\ Region = Image
  /\ \A a \in Page : View[Self][a] = IF a \in TextPage THEN Text ELSE Zero

(* What exec leaves is in order. *)
LEMMA StartedOK == Started => StartOK
<1> SUFFICES ASSUME Started PROVE StartOK
  BY Zenon
<1>0. sz = TextPages + 1 /\ stackSize = 1
  BY Zenon DEF Started
<1>1. Region = Image
  <2>1. Image \subseteq Page
    BY Sizes DEF Image, TextPage, Page
  <2>2. ASSUME NEW a \in Page PROVE a \in Region <=> a \in Image
    <3>1. a \in Nat /\ a <= USERTOP - 1 /\ USERTOP \in Nat /\ TextPages \in Nat
      BY Sizes DEF Page
    <3>2. (1 <= a /\ a < sz) \/ USERTOP - stackSize <= a <=> a \in 1..TextPages \/ a = USERTOP - 1
      BY <1>0, <3>1
    <3>3. a \in Image <=> a \in 1..TextPages \/ a = USERTOP - 1
      BY Zenon DEF Image, TextPage
    <3>4. QED
      BY <3>2, <3>3, RegionIs, Zenon
  <2>3. QED
    BY <2>1, <2>2, RegionIs, Zenon
<1>2. SizesOK
  BY Sizes DEF Started, SizesOK
<1>3. PagesOK
  BY Sizes, Zenon DEF Started, PagesOK
<1>4. /\ table \in Table /\ \E k, q : IsList(table, k, q)
      /\ table.va = [e \in Entry |-> IF e <= TextPages THEN e
                                     ELSE IF e = TextPages + 1 THEN USERTOP - 1 ELSE SLOT_USABLE]
  BY ExecList, Zenon DEF Started
<1>5. ASSUME NEW e \in Entry
      PROVE  table.va[e] = IF e <= TextPages THEN e
                           ELSE IF e = TextPages + 1 THEN USERTOP - 1 ELSE SLOT_USABLE
  BY <1>4, Zenon
<1>6. \A e \in Entry : e \in Nat /\ e >= 1
  BY Sizes DEF Entry, N
<1>7. Image \subseteq Page
  BY Sizes DEF Image, TextPage, Page
<1>8. ASSUME NEW e \in Entry, table.va[e] # SLOT_USABLE
      PROVE  table.va[e] \in Region /\ pte[table.va[e]] = "present"
  <2>1. table.va[e] \in Image
    <3>1. CASE e <= TextPages
      <4>1. table.va[e] = e /\ e \in TextPage
        BY <1>5, <1>6, <3>1, Sizes DEF TextPage
      <4>2. QED
        BY <4>1, Zenon DEF Image
    <3>2. CASE ~(e <= TextPages)
      BY <1>5, <1>8, <3>2, Zenon DEF Image
    <3>3. QED
      BY <3>1, <3>2, Zenon
  <2>2. QED
    BY <1>1, <1>7, <2>1, Zenon DEF Started
<1>9. ASSUME NEW d \in Entry, NEW e \in Entry, table.va[d] = table.va[e],
             table.va[e] # SLOT_USABLE
      PROVE  d = e
  BY <1>5, <1>6, <1>9, Sizes
<1>10. MemoryOK
  BY <1>4, <1>8, <1>9, Zenon DEF MemoryOK
<1>11. \A a \in Page : pte[a] = "present" \/ pte[a] = "none"
  BY Zenon DEF Started
<1>12. SwapOK
  <2>1. PICK n \in Nat : swapVA \in [1..n -> {SLOT_USABLE}] /\ disk \in [1..n -> Value]
    BY Zenon DEF Started
  <2>2. swapVA \in [1..n -> Page \cup {SLOT_USABLE}]
    BY <2>1, Zenon
  <2>3. \A s \in DOMAIN swapVA : swapVA[s] = SLOT_USABLE
    BY <2>1, Zenon
  <2>4. \A a \in Page : pte[a] # "PG"
    BY <1>11, Zenon
  <2>5. QED
    BY <2>1, <2>2, <2>3, <2>4, Zenon DEF SwapOK
<1>13. VInv
  BY <1>2, <1>3, <1>10, <1>12, Zenon DEF VInv
<1>14. ASSUME NEW a \in Page PROVE View[Self][a] = IF a \in TextPage THEN Text ELSE Zero
  <2>1. Reads /\ mem[a] = IF a \in TextPage THEN Text ELSE Zero
    BY <1>13, ViewReads, Zenon DEF Started
  <2>2. pte[a] = "none" => a \notin TextPage
    BY Zenon DEF Started, Image
  <2>3. QED
    BY <1>11, <2>1, <2>2, Zenon DEF Reads
<1>15. QED
  BY <1>1, <1>13, <1>14, Zenon DEF StartOK

(* The same after a step. *)
LEMMA StartedOKNext == Started' => StartOK'
BY StartedOK, PTL

(* The first program. *)
LEMMA InitStarted ==
  ASSUME Init PROVE Started
<1>1. <<>> \in [1..0 -> {SLOT_USABLE}] /\ <<>> \in [1..0 -> Value] /\ 0 \in Nat
  OBVIOUS
<1>2. \E n \in Nat : swapVA \in [1..n -> {SLOT_USABLE}] /\ disk \in [1..n -> Value]
  BY <1>1, Zenon DEF Init
<1>3. QED
  BY <1>2, Zenon DEF Init, Started

(* The swap table is a sequence of addresses, whoever wrote them. *)
SwapShape == \E n \in Nat : swapVA \in [1..n -> Page \cup {SLOT_USABLE}]

(* exec starts anew, from whatever tables it finds. *)
LEMMA ExecStarted ==
  ASSUME SwapShape, Exec PROVE Started'
<1>1. PICK n \in Nat : swapVA \in [1..n -> Page \cup {SLOT_USABLE}]
  BY Zenon DEF SwapShape
<1>2. DOMAIN swapVA = 1..n
  BY <1>1, Zenon
<1>3. swapVA' = [s \in 1..n |-> SLOT_USABLE] /\ disk' = [s \in 1..n |-> Zero]
  BY <1>2, Zenon DEF Exec
<1>4. swapVA' \in [1..n -> {SLOT_USABLE}] /\ disk' \in [1..n -> Value]
  BY <1>3, Sizes, Zenon
<1>5. QED
  BY <1>4, Zenon DEF Exec, Started

(* No step spoils the shape of the swap table, even where the tables are   *)
(* not the program's own.                                                  *)
LEMMA MapShape ==
  ASSUME SwapShape, NEW a, MapAndRecord(a)
  PROVE  SwapShape'
<1>1. CASE UNCHANGED swapVA
  BY <1>1, Zenon DEF SwapShape
<1>2. ASSUME NEW s, s = GetEmptyInSwapTable, CanEvict,
             swapVA' = [GrowSwapTable(s, swapVA, SLOT_USABLE) EXCEPT ![s] = table.va[table.tail]]
      PROVE  SwapShape'
  <2>1. PICK n \in Nat : swapVA \in [1..n -> Page \cup {SLOT_USABLE}]
    BY Zenon DEF SwapShape
  <2>2. PICK m : m = IF s \in 1..n THEN n ELSE n + SWAP_TABLE_ENTRY_NUM
    BY Zenon
  <2>3. m \in Nat
    BY <2>2, Sizes
  <2>4. PICK W : W = GrowSwapTable(s, swapVA, SLOT_USABLE)
    BY Zenon
  <2>5. W \in [1..m -> Page \cup {SLOT_USABLE}]
    <3>1. SLOT_USABLE \in Page \cup {SLOT_USABLE}
      BY Zenon
    <3>2. Grown(n, m, Page \cup {SLOT_USABLE}, swapVA, SLOT_USABLE, W)
      BY <2>1, <2>2, <2>4, <3>1, GrowIs, Zenon
    <3>3. QED
      BY <3>2, Zenon DEF Grown
  <2>6. table.va[table.tail] \in Page \cup {SLOT_USABLE}
    BY <1>2, Zenon DEF CanEvict
  <2>7. swapVA' \in [1..m -> Page \cup {SLOT_USABLE}]
    BY <1>2, <2>4, <2>5, <2>6, OneEntry, Zenon
  <2>8. QED
    BY <2>3, <2>7, Zenon DEF SwapShape
<1>3. QED
  BY <1>1, <1>2, Zenon DEF MapAndRecord, swapVars

(* The child's swap table. *)
LEMMA CopyShape ==
  ASSUME SwapShape, NEW left \in SwapTable, swapVA' = CopySwap(left, swapVA, left)
  PROVE  SwapShape'
<1>1. PICK n \in Nat : DOMAIN left = 1..n /\ left \in [1..n -> LeftPage \cup {SLOT_USABLE}]
  BY LeftTable, Zenon
<1>2. PICK m \in Nat : swapVA \in [1..m -> Page \cup {SLOT_USABLE}]
  BY Zenon DEF SwapShape
<1>3. swapVA' = [s \in 1..n |-> IF s \in DOMAIN swapVA THEN swapVA[s] ELSE left[s]]
  BY <1>1, Zenon DEF CopySwap
<1>4. \A s \in 1..n : left[s] \in Page \cup {SLOT_USABLE}
  BY <1>1, Sizes, Zenon
<1>5. \A s \in DOMAIN swapVA : swapVA[s] \in Page \cup {SLOT_USABLE}
  BY <1>2, Zenon
<1>6. swapVA' \in [1..n -> Page \cup {SLOT_USABLE}]
  BY <1>3, <1>4, <1>5, Zenon
<1>7. QED
  BY <1>6, Zenon DEF SwapShape

(* Every step. *)
LEMMA ShapeStep ==
  ASSUME SwapShape, GrowNext
  PROVE  SwapShape'
<1>1. CASE UNCHANGED swapVA
  BY <1>1, Zenon DEF SwapShape
<1>2. ASSUME NEW a \in Page, SwapIn(a), swapVA' # swapVA PROVE SwapShape'
  <2>1. PICK s : CanEvict /\ swapVA' = [swapVA EXCEPT ![s] = table.va[table.tail]]
    BY <1>2, Zenon DEF SwapIn, stop, swapVars
  <2>2. PICK n \in Nat : swapVA \in [1..n -> Page \cup {SLOT_USABLE}]
    BY Zenon DEF SwapShape
  <2>3. table.va[table.tail] \in Page \cup {SLOT_USABLE}
    BY <2>1, Zenon DEF CanEvict
  <2>4. swapVA' \in [1..n -> Page \cup {SLOT_USABLE}]
    BY <2>1, <2>2, <2>3, OneEntry, Zenon
  <2>5. QED
    BY <2>4, Zenon DEF SwapShape
<1>3. ASSUME NEW a \in Page, StackFault(a), swapVA' # swapVA PROVE SwapShape'
  BY <1>3, MapShape, Zenon DEF StackFault, stop, swapVars
<1>4. ASSUME SbrkGrow, swapVA' # swapVA PROVE SwapShape'
  BY <1>4, MapShape, Zenon DEF SbrkGrow, stop, swapVars
<1>5. ASSUME Fork, swapVA' # swapVA PROVE SwapShape'
  BY <1>5, CopyShape, Zenon DEF Fork, stop, swapVars
<1>6. ASSUME Exec \/ ExecFails PROVE SwapShape'
  <2>1. PICK n \in Nat : swapVA \in [1..n -> Page \cup {SLOT_USABLE}]
    BY Zenon DEF SwapShape
  <2>2. DOMAIN swapVA = 1..n
    BY <2>1, Zenon
  <2>3. swapVA' = [s \in 1..n |-> SLOT_USABLE]
    BY <1>6, <2>2, Zenon DEF Exec, ExecFails
  <2>4. swapVA' \in [1..n -> Page \cup {SLOT_USABLE}]
    BY <2>3, Zenon
  <2>5. QED
    BY <2>4, Zenon DEF SwapShape
<1>7. ASSUME NEW a \in Page, NEW v \in Value, Store(a, v) PROVE UNCHANGED swapVA
  BY <1>7, Zenon DEF Store, swapVars
<1>8. ASSUME NEW a \in Page, LazyFault(a) PROVE UNCHANGED swapVA
  BY <1>8, Zenon DEF LazyFault, swapVars
<1>9. ASSUME NullFault PROVE UNCHANGED swapVA
  BY <1>9, Zenon DEF NullFault, stop, swapVars
<1>10. QED
  BY <1>1, <1>2, <1>3, <1>4, <1>5, <1>6, <1>7, <1>8, <1>9, ZenonT(40) DEF GrowNext

(* Only a successful exec ends the reign of somebody else's tables. *)
LEMMA StrayEnds ==
  ASSUME GrowNext, stray, ~stray'
  PROVE  Exec
<1>1. ASSUME NEW a \in Page, NEW v \in Value, Store(a, v) PROVE UNCHANGED stray
  BY <1>1, Zenon DEF Store
<1>2. ASSUME NEW a \in Page, SwapIn(a) \/ StackFault(a) \/ LazyFault(a) PROVE UNCHANGED stray
  BY <1>2, Zenon DEF SwapIn, StackFault, LazyFault, stop
<1>3. ASSUME NullFault \/ SbrkGrow PROVE UNCHANGED stray
  BY <1>3, Zenon DEF NullFault, SbrkGrow, stop
<1>4. ASSUME Fork \/ ExecFails PROVE stray'
  BY <1>4, Zenon DEF Fork, ExecFails, stop
<1>5. QED
  BY <1>1, <1>2, <1>3, <1>4, Zenon DEF GrowNext

(* exec gives the program a new image with tables of its own. *)
LEMMA ExecStep ==
  ASSUME SwapShape, Exec
  PROVE  VInv' /\ table' = ExecTable /\ PM!PMExec(Self)
<1>1. StartOK' /\ table' = ExecTable
  BY ExecStarted, StartedOKNext, Zenon DEF Exec
<1>2. View'[Self] = [a \in Page |-> IF a \in TextPage THEN Text ELSE Zero]
  <2>1. View'[Self] = [a \in Page |-> View'[Self][a]]
    BY <1>1, ViewIsNext, Zenon DEF StartOK, ViewShape
  <2>2. QED
    BY <1>1, <2>1, Zenon DEF StartOK
<1>3. View \in [{Self} -> {View[Self], View'[Self]}] /\ View' \in [{Self} -> {View'[Self]}]
  BY Zenon DEF View
<1>4. View' = [View EXCEPT ![Self] = View'[Self]]
  BY <1>3
<1>5. View' = [View EXCEPT ![Self] = PM!Image]
  BY <1>2, <1>4, Zenon DEF PM!Image
<1>6. Region' = TextPage \cup {USERTOP - 1}
  BY <1>1, Zenon DEF StartOK, Image
<1>7. [p \in {Self} |-> Region'] =
        [[p \in {Self} |-> Region] EXCEPT ![Self] = TextPage \cup {USERTOP - 1}]
  BY <1>6
<1>8. PM!PMExec(Self)
  BY <1>5, <1>7, Zenon DEF PM!PMExec
<1>9. QED
  BY <1>1, <1>8, Zenon DEF StartOK

(* A step that is not seen, or by which only pages outside heap and stack  *)
(* are lost, is one the abstract memory allows to sbrk.                    *)
LEMMA Resizes ==
  ASSUME \A c \in Page : \/ View'[Self][c] = View[Self][c]
                         \/ View'[Self][c] = Zero /\ c \notin Region
  PROVE  PM!PMResize(Self)
BY Zenon DEF PM!PMResize

(* A step of a program with tables of its own, after which they still are, *)
(* keeps them exact, evicts in order and shows the program nothing but its *)
(* own stores.                                                             *)
LEMMA OwnStep ==
  ASSUME VInv, GrowNext, ~stray'
  PROVE  /\ VInv' /\ PagingStep
         /\ FifoStep \/ table' = ExecTable
<1>1. ASSUME NEW a \in Page, NEW v \in Value, Store(a, v)
      PROVE  VInv' /\ PagingStep /\ FifoStep
  <2>1. VInv' /\ View' = [View EXCEPT ![Self][a] = v] /\ Queue' = Queue /\ Region' = Region
    BY <1>1, StoreStep, Zenon
  <2>2. PM!PMStore(Self, a, v)
    BY <2>1, Zenon DEF PM!PMStore
  <2>3. QED
    BY <1>1, <2>1, <2>2, Zenon DEF PagingStep, FifoStep
<1>2. ASSUME VInv', View' = View, Region' = Region, FifoStep
      PROVE  VInv' /\ PagingStep /\ FifoStep
  <2>1. UNCHANGED PM!pmVars
    BY <1>2, Zenon DEF PM!pmVars
  <2>2. QED
    BY <1>2, <2>1, Zenon DEF PagingStep
<1>3. ASSUME NEW a \in Page, SwapIn(a) \/ LazyFault(a)
      PROVE  VInv' /\ PagingStep /\ FifoStep
  <2>1. VInv' /\ View' = View /\ Region' = Region /\ FifoStep
    BY <1>3, SwapInStep, LazyStep, Zenon DEF FifoStep
  <2>2. QED
    BY <1>2, <2>1, Zenon
<1>4. CASE NullFault
  <2>1. VInv' /\ View' = View /\ Region' = Region /\ FifoStep
    BY <1>4, IdleStep, Zenon DEF NullFault, stop, swapVars, frameVars, FifoStep
  <2>2. QED
    BY <1>2, <2>1, Zenon
<1>5. ASSUME SbrkGrow \/ \E a \in Page : StackFault(a)
      PROVE  VInv' /\ PagingStep /\ FifoStep
  <2>1. VInv' /\ View' = View /\ FifoStep
    BY <1>5, SbrkStep, StackStep, Zenon
  <2>2. PM!PMResize(Self)
    BY <2>1, Resizes, Zenon
  <2>3. QED
    BY <1>5, <2>1, <2>2, Zenon DEF PagingStep
<1>6. CASE Fork
  <2>1. VInv' /\ FifoStep
    BY <1>6, ForkStep, Zenon DEF FifoStep
  <2>2. PM!PMResize(Self)
    BY <1>6, ForkStep, Resizes, Zenon
  <2>3. QED
    BY <1>6, <2>1, <2>2, Zenon DEF PagingStep
<1>7. CASE Exec
  <2>1. SwapShape
    BY Zenon DEF VInv, SwapOK, SwapShape
  <2>2. QED
    BY <1>7, <2>1, ExecStep, Zenon DEF PagingStep
<1>8. ~ExecFails
  BY Zenon DEF ExecFails
<1>9. QED
  BY <1>1, <1>3, <1>4, <1>5, <1>6, <1>7, <1>8, ZenonT(40) DEF GrowNext

(* The invariant: the tables are exact while they are the program's own,   *)
(* and the swap table can be cleared whoever wrote it.                     *)
IInv == SwapShape /\ (~stray => VInv)

(* Every step of a program whose break only grows. *)
LEMMA Step ==
  ASSUME IInv, GrowNext
  PROVE  /\ IInv'
         /\ ~stray' => PagingStep /\ (FifoStep \/ table' = ExecTable)
<1>1. SwapShape'
  BY ShapeStep, Zenon DEF IInv
<1>2. ASSUME ~stray' PROVE VInv' /\ PagingStep /\ (FifoStep \/ table' = ExecTable)
  <2>1. CASE stray
    BY <1>2, <2>1, StrayEnds, ExecStep, Zenon DEF IInv, PagingStep
  <2>2. CASE ~stray
    BY <1>2, <2>2, OwnStep, Zenon DEF IInv
  <2>3. QED
    BY <2>1, <2>2, Zenon
<1>3. QED
  BY <1>1, <1>2, Zenon DEF IInv

-----------------------------------------------------------------------------
(* The theorems.                                                           *)
(* The invariant gives the tables TLC checks. *)
LEMMA ExactTables ==
  ASSUME VInv PROVE ListIsQueue /\ SwapIsExact
<1>1. ListIsQueue
  BY ListQueue, Zenon DEF VInv, MemoryOK
<1>2. ASSUME NEW a \in Page
      PROVE  Cardinality(InSwapTable(a)) = IF pte[a] = "PG" THEN 1 ELSE 0
  <2>0. a # SLOT_USABLE
    BY DEF Page, SLOT_USABLE
  <2>1. CASE pte[a] = "PG"
    <3>1. PICK s \in DOMAIN swapVA : swapVA[s] = a
      BY <2>1, Zenon DEF VInv, SwapOK
    <3>2. \A t \in DOMAIN swapVA : swapVA[t] = a => t = s
      BY <2>0, <3>1, Zenon DEF VInv, SwapOK
    <3>3. InSwapTable(a) = {s}
      BY <3>1, <3>2, Zenon DEF InSwapTable
    <3>4. Cardinality(InSwapTable(a)) = 1
      BY <3>3, FS_Singleton, Zenon
    <3>5. QED
      BY <2>1, <3>4, Zenon
  <2>2. CASE pte[a] # "PG"
    <3>1. InSwapTable(a) = {}
      BY <2>0, <2>2, ZenonT(40) DEF VInv, SwapOK, InSwapTable
    <3>2. QED
      BY <2>2, <3>1, FS_EmptySet, Zenon
  <2>3. QED
    BY <2>1, <2>2, Zenon
<1>3. QED
  BY <1>1, <1>2, Zenon DEF SwapIsExact

(* A step that changes nothing. *)
LEMMA Stutter ==
  ASSUME IInv, UNCHANGED vars
  PROVE  IInv'
<1>1. SwapShape' /\ stray' = stray
  BY Zenon DEF IInv, SwapShape, vars, swapVars
<1>2. VInv => VInv'
  BY IdleStep, Zenon DEF vars, swapVars, frameVars
<1>3. QED
  BY <1>1, <1>2, Zenon DEF IInv

(* The memory of the first program is one the abstract memory may have. *)
LEMMA InitMemory ==
  ASSUME Init PROVE IInv /\ PM!PMInit
<1>1. StartOK
  BY InitStarted, StartedOK, Zenon
<1>2. View[Self] = [a \in Page |-> View[Self][a]]
  BY <1>1, ViewIs, Zenon DEF StartOK, ViewShape
<1>3. \A a \in Page : View[Self][a] \in Value
  BY <1>1, Sizes, Zenon DEF StartOK
<1>4. View[Self] \in [Page -> Value]
  BY <1>2, <1>3, Zenon
<1>5. Region \in SUBSET Page
  BY RegionIs, Zenon
<1>6. PM!PMInit
  BY <1>4, <1>5, Zenon DEF PM!PMInit
<1>7. SwapShape
  BY <1>1, Zenon DEF StartOK, VInv, SwapOK, SwapShape
<1>8. QED
  BY <1>1, <1>6, <1>7, Zenon DEF StartOK, IInv

(* The invariant holds in every state of a program whose break only grows, *)
(* through every fork and every exec, failed ones included.                *)
THEOREM Invariant == GrowSpec => []IInv
<1>1. Init => IInv
  BY InitMemory, Zenon
<1>2. IInv /\ [GrowNext]_vars => IInv'
  BY Step, Stutter, Zenon
<1>3. QED
  BY <1>1, <1>2, PTL DEF GrowSpec

(* TablesAreAlwaysExact: while a program's break only grows and its tables *)
(* are its own, its memory table is a queue of the recorded pages and its  *)
(* swap table has exactly the pages on disk, for tables and address spaces *)
(* of any size.                                                            *)
THEOREM TablesAreAlwaysExact == GrowSpec => []TablesAreExact
<1>1. IInv => TablesAreExact
  BY ExactTables, Zenon DEF IInv, TablesAreExact
<1>2. QED
  BY <1>1, Invariant, PTL

(* OldestIsEvicted: pages leave memory in the order in which they came. *)
THEOREM OldestIsEvicted == GrowSpec => EvictsOldest
<1>1. IInv /\ [GrowNext]_vars => [~stray' => table' = ExecTable \/ FifoStep]_vars
  BY Step, Zenon
<1>2. QED
  BY <1>1, Invariant, PTL DEF GrowSpec, EvictsOldest

(* PagingIsNeverSeen: a program whose break only grows cannot tell paging  *)
(* from a memory of its own that changes only by its own stores.           *)
THEOREM PagingIsNeverSeen == GrowSpec => PagingIsInvisible
<1>1. Init => PM!PMInit
  BY InitMemory, Zenon
<1>2. IInv /\ [GrowNext]_vars => [~stray' => PagingStep]_vars
  BY Step, Zenon
<1>3. QED
  BY <1>1, <1>2, Invariant, PTL DEF GrowSpec, PagingIsInvisible
=============================================================================
