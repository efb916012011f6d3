-------------------------------- MODULE List --------------------------------
(***************************************************************************)
(* FreeRTOS-Kernel/list.c and include/list.h.                              *)
(*                                                                         *)
(* A List_t is a circular doubly linked list through the marker xListEnd,  *)
(* with a walking pointer pxIndex.  Two representations are used:          *)
(*   - a ring, for lists that are walked (the ready lists): the sequence   *)
(*     of the items met from pxIndex on, the marker included;              *)
(*   - a plain sequence from the head entry to the last one, for lists     *)
(*     whose pxIndex never leaves the marker (all the others).             *)
(***************************************************************************)
EXTENDS Naturals, Sequences, SequencesExt

CONSTANT xListEnd

\* Ring operations ---------------------------------------------------------

vListInitialise == <<xListEnd>>

\* The new item goes just before pxIndex: it is the last one the walk meets.
listINSERT_END(ring, item) == Append(ring, item)

vListInsertEnd(ring, item) == listINSERT_END(ring, item)

\* The list without the item, which is in it at most once.
Unlink(list, item) ==
    IF Contains(list, item)
    THEN RemoveAt(list, CHOOSE i \in DOMAIN list : list[i] = item)
    ELSE list

\* Removing the item under pxIndex steps pxIndex back to the previous item.
uxListRemove(ring, item) ==
    IF Head(ring) = item
    THEN <<Last(ring)>> \o Tail(Front(ring))
    ELSE Unlink(ring, item)

Step(ring) == Append(Tail(ring), Head(ring))

\* pxIndex moves to the next item, over the marker; the item is then Head.
listGET_OWNER_OF_NEXT_ENTRY(ring) ==
    LET next == Step(ring)
    IN  IF Head(next) = xListEnd THEN Step(next) ELSE next

listCURRENT_LIST_LENGTH(ring) == Len(ring) - 1

listLIST_IS_EMPTY(ring) == listCURRENT_LIST_LENGTH(ring) = 0

Items(ring) == ToSet(ring) \ {xListEnd}

\* Sorted lists ------------------------------------------------------------

\* The iterator passes every leading item whose value is not larger.
vListInsert(list, item, value) ==
    LET passed == {i \in 1..Len(list) : \A j \in 1..i : value[list[j]] <= value[item]}
    IN  InsertAt(list, Cardinality(passed) + 1, item)
=============================================================================
