----------------------------- MODULE LinkedList -----------------------------
(***************************************************************************)
(* list.h: circular doubly linked lists threaded through the objects they  *)
(* link.  A list head and a node are the same struct, and an unlinked one  *)
(* points to itself.                                                       *)
(*                                                                         *)
(* Memory is a record m; m.next and m.prev give the two fields of the node *)
(* at an address, and its other fields are left alone.                     *)
(***************************************************************************)
EXTENDS Naturals

list_init(m, n) == [m EXCEPT !.next[n] = n, !.prev[n] = n]

\* _list_add, after any node of a list.
list_add_head(m, head, n) ==
    [m EXCEPT !.prev[m.next[head]] = n, !.next[n] = m.next[head],
              !.prev[n] = head, !.next[head] = n]

list_add_tail(m, head, n) == list_add_head(m, m.prev[head], n)

\* Faulty: the way forward still leads to the node.
list_delBack(m, head, n) ==
    IF head = n THEN m ELSE [m EXCEPT !.prev[m.next[n]] = head]

list_del(m, head, n) ==
    IF head = n THEN m
    ELSE [m EXCEPT !.prev[m.next[n]] = head, !.next[head] = m.next[n]]

list_del_element(m, n) == list_init(list_del(m, m.prev[n], n), n)

\* Faulty: the node is not taken out of the list it was in.
list_moveAdds(m, dest, src) == list_add_tail(m, dest, src)

list_move(m, dest, src) == list_add_tail(list_del_element(m, src), dest, src)

list_empty(m, head) == m.next[head] = head

\* list_for_each_entry: the k-th node after a head, and the nodes that the loop
\* visits if the list is whole and has at most bound of them.
Successor(m, head, bound) ==
    LET after[k \in 0..bound] == IF k = 0 THEN head ELSE m.next[after[k - 1]]
    IN  after
Visited(m, head, bound) ==
    {Successor(m, head, bound)[k] : k \in 0..bound} \ {head}

\* A set of nodes each of which is between its neighbours.
Linked(m, nodes) ==
    \A n \in nodes :
        /\ m.next[n] \in nodes /\ m.prev[n] \in nodes
        /\ m.prev[m.next[n]] = n /\ m.next[m.prev[n]] = n
=============================================================================
