----------------------------- MODULE Containers -----------------------------
(***************************************************************************)
(* The priority queue of lib/ngtcp2_pq.c (retransmissions by expiry) and   *)
(* the hash map of lib/ngtcp2_map.c (streams by ID) as operators.          *)
(*                                                                         *)
(* The queue is a heap in an array, counted from 0 as in C: q is a         *)
(* sequence whose element i + 1 is pq->q[i].  Each item remembers its      *)
(* place in "index", which ngtcp2_pq_remove relies on; the index of an     *)
(* item that is not queued is never read, and 0 stands for it.             *)
(***************************************************************************)
EXTENDS Integers, Sequences, SequencesExt, FiniteSets

\* key: the sort key of each item.
At(pq, i)         == pq.q[i + 1]
less(key, pq, i, j) == key[At(pq, i)] < key[At(pq, j)]

pq_init(items) == [q |-> << >>, index |-> [x \in items |-> 0]]

pq_swap(pq, i, j) ==
    LET a == At(pq, i)
        b == At(pq, j)
    IN  [ q     |-> [pq.q EXCEPT ![i + 1] = b, ![j + 1] = a],
          index |-> [pq.index EXCEPT ![b] = i, ![a] = j] ]

\* As many rounds as a loop over the heap can have.
Rounds(pq) == [i \in 1 .. Len(pq.q) |-> i]

bubble_up(key, pq, index) ==
    FoldLeft(LAMBDA s, r :
               LET parent == (s.i - 1) \div 2
               IN  IF s.i = 0 \/ ~ less(key, s.pq, s.i, parent) THEN s
                   ELSE [pq |-> pq_swap(s.pq, parent, s.i), i |-> parent],
             [pq |-> pq, i |-> index], Rounds(pq)).pq

\* The smaller child, the left one if they are equal, if it is smaller.
bubble_down(key, pq, index) ==
    FoldLeft(LAMBDA s, r :
               LET Smaller(m, j) ==
                       IF j < Len(s.pq.q) /\ less(key, s.pq, j, m) THEN j ELSE m
                   min == Smaller(Smaller(s.i, 2 * s.i + 1), 2 * s.i + 2)
               IN  IF min = s.i THEN s
                   ELSE [pq |-> pq_swap(s.pq, s.i, min), i |-> min],
             [pq |-> pq, i |-> index], Rounds(pq)).pq

pq_push(key, pq, item) ==
    LET n == Len(pq.q)
    IN  bubble_up(key, [ q     |-> Append(pq.q, item),
                         index |-> [pq.index EXCEPT ![item] = n] ], n)

pq_top(pq) == Head(pq.q)

\* The last item takes place i, and the array is shorter by one.
MoveLast(pq, i) ==
    LET last == At(pq, Len(pq.q) - 1)
    IN  [ q     |-> Front([pq.q EXCEPT ![i + 1] = last]),
          index |-> [pq.index EXCEPT ![last] = i, ![At(pq, i)] = 0] ]

pq_pop(key, pq) ==
    IF pq.q = << >> THEN pq ELSE bubble_down(key, MoveLast(pq, 0), 0)

\* Mutant of pq_remove: what takes the place never has to move up.
pq_removeDown(key, pq, item) ==
    LET i == pq.index[item]
    IN  IF i = 0 THEN pq_pop(key, pq)
        ELSE IF i = Len(pq.q) - 1 THEN [pq EXCEPT !.q = Front(@), !.index[item] = 0]
        ELSE bubble_down(key, MoveLast(pq, i), i)

pq_remove(key, pq, item) ==
    LET i == pq.index[item]
        m == MoveLast(pq, i)
    IN  IF i = 0 THEN pq_pop(key, pq)
        ELSE IF i = Len(pq.q) - 1 THEN [pq EXCEPT !.q = Front(@), !.index[item] = 0]
        ELSE IF key[item] < key[At(m, i)] THEN bubble_down(key, m, i)
        ELSE bubble_up(key, m, i)

-----------------------------------------------------------------------------
\* The hash map: a power of two of chains.  FNV-1a is a function of the key
\* given as "fnv", of which the low bits choose the chain.

map_init(len) == [table |-> [h \in 1 .. len |-> << >>], size |-> 0]

tablelen(map) == Len(map.table)

\* The place of the chain, counted from 1.
hash(fnv, key, mod) == (fnv[key] % mod) + 1

\* The table with the key in front of its chain; unchanged if it is there.
insert(fnv, table, key) ==
    LET h == hash(fnv, key, Len(table))
    IN  IF Contains(table[h], key) THEN table
        ELSE [table EXCEPT ![h] = << key >> \o @]

\* Every chain, in order, is inserted into a new table.
resize(fnv, map, len) ==
    [map EXCEPT !.table =
        FoldLeft(LAMBDA t, key : insert(fnv, t, key), map_init(len).table,
                 FlattenSeq(map.table))]

map_find(fnv, map, key) ==
    Contains(map.table[hash(fnv, key, tablelen(map))], key)

\* A load factor above 0.75 doubles the table.
map_insert(fnv, map, key) ==
    LET big == 4 * (map.size + 1) > 3 * tablelen(map)
        m   == IF big THEN resize(fnv, map, 2 * tablelen(map)) ELSE map
    IN  IF map_find(fnv, m, key) THEN [rv |-> -1, map |-> m]
        ELSE [rv |-> 0, map |-> [table |-> insert(fnv, m.table, key), size |-> m.size + 1]]

map_remove(fnv, map, key) ==
    LET h == hash(fnv, key, tablelen(map))
    IN  IF ~ map_find(fnv, map, key) THEN [rv |-> -1, map |-> map]
        ELSE [rv |-> 0, map |-> [ table |-> [map.table EXCEPT
                                               ![h] = SelectSeq(@, LAMBDA k : k # key)],
                                  size  |-> map.size - 1 ]]
=============================================================================
