------------------------------- MODULE ItemSeq -------------------------------
(***************************************************************************)
(* What util/linked_list.h promises: a sequence of items that is read,     *)
(* extended and shortened at any position.  NULL stands for no item.       *)
(***************************************************************************)
EXTENDS Integers, Sequences, SequencesExt

CONSTANTS Item, NULL

VARIABLES
    items,  \* the list
    got,    \* what the last operation returned; NULL if it returns nothing
    call    \* the operation, the position it was called for and the item it was given

Init == items = << >> /\ got = NULL /\ call = <<"none", 0, NULL>>

Add(position, item) ==
    /\ call' = <<"add", position, item>>
    /\ items' = IF position > Len(items) THEN items ELSE InsertAt(items, position + 1, item)
    /\ got' = NULL

Get(position) ==
    /\ call' = <<"get", position, NULL>>
    /\ got' = IF position < Len(items) THEN items[position + 1] ELSE NULL
    /\ items' = items

Take(position) ==
    /\ call' = <<"take", position, NULL>>
    /\ IF position < Len(items)
       THEN items' = RemoveAt(items, position + 1) /\ got' = items[position + 1]
       ELSE items' = items /\ got' = NULL

Next ==
    \E position \in 0 .. Len(items) + 1 :
        Get(position) \/ Take(position) \/ \E item \in Item : Add(position, item)

Spec == Init /\ [][Next]_<<items, got, call>>
==============================================================================
