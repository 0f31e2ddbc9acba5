------------------------------- MODULE HList -------------------------------
(***************************************************************************)
(* hlist.h: the lists of a hash table.  A head is one pointer; a node has  *)
(* the next node and pprev, the address of the pointer that points to it,  *)
(* which is the first of a head or the next of a node.  slab.c keeps its   *)
(* caches in such lists by the hash of their names.                        *)
(*                                                                         *)
(* Memory is a record m.  m.next gives first or next, so that an address   *)
(* of such a pointer is that of its head or node; m.pprev is of nodes.     *)
(***************************************************************************)
CONSTANT NULL

hlist_init_head(m, h) == [m EXCEPT !.next[h] = NULL]
hlist_init_node(m, n) == [m EXCEPT !.next[n] = NULL, !.pprev[n] = NULL]

\* A pointer at p, of a head or a node, is made to lead to n, and n to what it
\* led to: hlist_add_head for a head, hlist_add_after for a node.
hlist_add_head(m, p, n) ==
    LET first == m.next[p]
    IN  [m EXCEPT !.next = [@ EXCEPT ![n] = first, ![p] = n],
                  !.pprev = [x \in DOMAIN @ |-> IF x = n THEN p
                                                ELSE IF x = first THEN n ELSE @[x]]]
hlist_add_after(m, node, n) == hlist_add_head(m, node, n)

hlist_add_before(m, b, n) ==
    [m EXCEPT !.next = [@ EXCEPT ![n] = b, ![m.pprev[b]] = n],
              !.pprev = [@ EXCEPT ![n] = m.pprev[b], ![b] = n]]

\* Of a node that is in the list of head h, or in none.
hlist_del(m, h, n) ==
    [m EXCEPT !.next = [x \in DOMAIN @ |->
                           IF x = n THEN NULL
                           ELSE IF x = m.pprev[n] \/ (x = h /\ @[h] = n) THEN m.next[n]
                           ELSE @[x]],
              !.pprev = [x \in DOMAIN @ |->
                            IF x = n THEN NULL
                            ELSE IF x = m.next[n] THEN m.pprev[n] ELSE @[x]]]

hlist_head(m, h, n) == m.next[h] = n
hlist_empty(m, h) == m.next[h] = NULL

\* Every pointer of these heads and nodes that leads to a node is the one which
\* that node's pprev names, and each of the nodes has one.
Chained(m, heads, nodes) ==
    /\ \A p \in heads \cup nodes :
          m.next[p] # NULL => m.next[p] \in nodes /\ m.pprev[m.next[p]] = p
    /\ \A n \in nodes : m.pprev[n] \in heads \cup nodes /\ m.next[m.pprev[n]] = n
=============================================================================
