----------------------------- MODULE LinkedList -----------------------------
(***************************************************************************)
(* The doubly linked list of util/linked_list.c at the level of its        *)
(* pointers.  A node is the address that os_malloc handed out; node[n] is  *)
(* what the memory there holds, also after the node was freed.             *)
(*                                                                         *)
(* The list keeps tail NULL while it has fewer than two nodes, so every    *)
(* operation tells apart "no node", "only the head" and "head and tail".   *)
(***************************************************************************)
EXTENDS Integers, Sequences

CONSTANTS
    Item,       \* the items that may be stored
    NULL,       \* the null pointer, as an item and as a node
    Node        \* the addresses of the heap: 1 .. bound on the list's length

ASSUME ListAssumption == NULL \notin Item /\ NULL \notin Node /\ Node # {} /\ Node \subseteq Nat

VARIABLES
    head, tail, size,   \* the linked_list
    node,               \* the heap
    live,               \* the nodes that are allocated
    item,               \* what the last operation returned
    call                \* history: the operation, its position and the item it was given

listVars == <<head, tail, size, node, live, item, call>>

\* A list under construction; every operation maps one to the next.
list == [head |-> head, tail |-> tail, size |-> size, node |-> node, live |-> live, item |-> item]

Becomes(l, op, position, i) ==
    /\ call' = <<op, position, i>>
    /\ head' = l.head
    /\ tail' = l.tail
    /\ size' = l.size
    /\ node' = l.node
    /\ live' = l.live
    /\ item' = l.item

\* init_linked_list on memory of which nothing is known.
ListInit ==
    /\ head = NULL /\ tail = NULL /\ size = 0
    /\ node = [n \in Node |-> [item |-> NULL, prev |-> NULL, next |-> NULL]]
    /\ live = {}
    /\ item = NULL
    /\ call = <<"none", 0, NULL>>

\* The node list_create_node allocates.
Fresh(l) == CHOOSE n \in Node \ l.live : \A m \in Node \ l.live : n <= m

list_create_node(l, i) ==
    [l EXCEPT !.node[Fresh(l)] = [item |-> i, prev |-> NULL, next |-> NULL],
              !.live = @ \cup {Fresh(l)},
              !.item = NULL]

os_free(l, n) == [l EXCEPT !.live = @ \ {n}]

-----------------------------------------------------------------------------

list_add_first(l, i) ==
    LET n == Fresh(l)
        new == [list_create_node(l, i) EXCEPT !.head = n, !.size = @ + 1]
    IN  IF l.head = NULL THEN new
        ELSE [new EXCEPT !.node[n].next = l.head,
                         !.node[l.head].prev = n,
                         !.tail = IF l.tail = NULL THEN l.head ELSE l.tail]

list_add_last(l, i) ==
    LET n == Fresh(l)
        new == [list_create_node(l, i) EXCEPT !.size = @ + 1]
        lastNode == IF l.tail = NULL THEN l.head ELSE l.tail
    IN  IF l.head = NULL THEN [new EXCEPT !.head = n]
        ELSE [new EXCEPT !.node[lastNode].next = n,
                         !.node[n].prev = lastNode,
                         !.tail = n]

\* The node at a position, by following next from the head.
At(l, position) ==
    LET walk[k \in 0 .. position] == IF k = 0 THEN l.head ELSE l.node[walk[k - 1]].next
    IN  walk[position]

list_insert_before(l, n, new) ==
    LET prev == l.node[n].prev
    IN  [l EXCEPT !.node[n].prev = new,
                  !.node[prev].next = new,
                  !.node[new].next = n,
                  !.node[new].prev = prev]

list_add(l, i, position) ==
    IF position > l.size THEN [l EXCEPT !.item = NULL]
    ELSE IF position = 0 THEN list_add_first(l, i)
    ELSE IF position = l.size THEN list_add_last(l, i)
    ELSE [list_insert_before(list_create_node(l, i), At(l, position), Fresh(l)) EXCEPT !.size = @ + 1]

\* With one node, or none, there is no tail.
ClearTail(l) == IF l.size <= 1 THEN [l EXCEPT !.tail = NULL] ELSE l

list_remove_first(l) ==
    LET n == l.head
        next == l.node[n].next
        cut == [l EXCEPT !.head = next, !.size = @ - 1, !.item = l.node[n].item]
    IN  IF n = NULL THEN [l EXCEPT !.item = NULL]
        ELSE ClearTail(os_free(IF next = NULL THEN cut ELSE [cut EXCEPT !.node[next].prev = NULL], n))

list_remove_last(l) ==
    LET n == l.tail
        prev == l.node[n].prev
    IN  CASE l.size = 0 -> [l EXCEPT !.item = NULL]
          [] l.size = 1 -> list_remove_first(l)
          [] OTHER -> ClearTail(os_free([l EXCEPT !.node[prev].next = NULL,
                                                  !.tail = prev,
                                                  !.size = @ - 1,
                                                  !.item = l.node[n].item], n))

list_remove(l, position) ==
    LET n == At(l, position)
        prev == l.node[n].prev
        next == l.node[n].next
    IN  IF l.size = 0 \/ position >= l.size THEN [l EXCEPT !.item = NULL]
        ELSE IF position = 0 THEN list_remove_first(l)
        ELSE IF position + 1 = l.size THEN list_remove_last(l)
        ELSE os_free([l EXCEPT !.node[prev].next = next,
                               !.node[next].prev = prev,
                               !.size = @ - 1,
                               !.item = l.node[n].item], n)

list_get_first(l) == IF l.size = 0 THEN NULL ELSE l.node[l.head].item

\* Mutant: the head is taken for the last node of a list of two.
Mut_list_get_last(l) == IF l.size <= 2 THEN list_get_first(l) ELSE l.node[l.tail].item
list_get_last(l) ==
    CASE l.size = 0 -> NULL
      [] l.size = 1 -> list_get_first(l)
      [] OTHER      -> l.node[l.tail].item

list_get(l, position) ==
    IF l.size = 0 \/ position >= l.size THEN NULL
    ELSE IF position = 0 THEN list_get_first(l)
    ELSE IF position + 1 = l.size THEN list_get_last(l)
    ELSE l.node[At(l, position)].item

-----------------------------------------------------------------------------

Positions == 0 .. size + 1
Room == live # Node     \* bound: the heap has a node left

Last0 == IF size = 0 THEN 0 ELSE size - 1     \* where the last item is, if there is one

AddItem  == Room /\ \E i \in Item, p \in Positions : Becomes(list_add(list, i, p), "add", p, i)
AddFirst == Room /\ \E i \in Item : Becomes(list_add_first(list, i), "add", 0, i)
AddLast  == Room /\ \E i \in Item : Becomes(list_add_last(list, i), "add", size, i)

TakeItem  == \E p \in Positions : Becomes(list_remove(list, p), "take", p, NULL)
TakeFirst == Becomes(list_remove_first(list), "take", 0, NULL)
TakeLast  == Becomes(list_remove_last(list), "take", Last0, NULL)

GetItem  == \E p \in Positions : Becomes([list EXCEPT !.item = list_get(list, p)], "get", p, NULL)
GetFirst == Becomes([list EXCEPT !.item = list_get_first(list)], "get", 0, NULL)
GetLast  == Becomes([list EXCEPT !.item = list_get_last(list)], "get", Last0, NULL)

ListNext ==
    \/ AddItem \/ AddFirst \/ AddLast
    \/ TakeItem \/ TakeFirst \/ TakeLast
    \/ GetItem \/ GetFirst \/ GetLast

ListSpec == ListInit /\ [][ListNext]_listVars

-----------------------------------------------------------------------------
(* Properties                                                              *)

\* The chain of nodes from the head, as long as size says.
Chain == [k \in 1 .. size |-> At(list, k - 1)]

\* Whatever the order of operations: size counts the nodes from the head to
\* the one whose next is NULL, prev is the way back, tail is the last node or
\* NULL with fewer than two, and exactly these nodes are allocated (none is
\* leaked, none that was freed is reachable).
WellLinked ==
    /\ {Chain[k] : k \in 1 .. size} = live
    /\ \A k \in 1 .. size :
         /\ node[Chain[k]].next = IF k = size THEN NULL ELSE Chain[k + 1]
         /\ node[Chain[k]].prev = IF k = 1 THEN NULL ELSE Chain[k - 1]
    /\ tail = IF size < 2 THEN NULL ELSE Chain[size]
    /\ size = 0 => head = NULL

\* The pointers implement a sequence of items.
Sequence == INSTANCE ItemSeq WITH
    items <- [k \in 1 .. size |-> node[Chain[k]].item], got <- item

ImplementsSequence == Sequence!Spec
==============================================================================
