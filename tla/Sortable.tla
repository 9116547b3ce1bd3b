------------------------------ MODULE Sortable ------------------------------
(***************************************************************************)
(* Sortable and SortableObserver of dragdrop.js: lists whose items are     *)
(* moved while one of them is dragged, by the drop they hover over, and    *)
(* what their pages are told.  The drag itself is DragDrop's; here one is  *)
(* begun and ended, and its onHover is called in between, or a press is    *)
(* escaped from before it moves.  Lists are flat (tree: false), and each   *)
(* takes the items of all (containment).                                   *)
(***************************************************************************)
EXTENDS Naturals, Sequences, FiniteSets, SequencesExt

CONSTANTS
    Items,    \* the elements of the lists
    Lists,    \* the sortables, in the order they are created
    Lost      \* bound: how many items setSequence may drop

VARIABLES
    order,      \* [Lists -> Seq(Items)]: the children of each list
    observers,  \* lists with a SortableObserver; destroy removes it
    lastValue,  \* [Lists -> Seq(Items)]: lastValue of the observer
    dragged,    \* the item that is dragged, or "none"
    last,       \* history: the last onHover, <<item, dropon, side>>, or <<>>
    atStart,    \* history: order when the last drag began
    told,       \* history: lists whose onUpdate the step that ended a drag or
                \* a press has called
    recreated,  \* history: lists destroyed or created since the last drag began
    gone        \* history: items setSequence has left out

vars == <<order, observers, lastValue, dragged, last, atStart, told, recreated, gone>>

None == "none"
OfList(l) == ToSet(order[l])
ListOf(i) == {l \in Lists : i \in OfList(l)}
PlaceOf(i, s) == SelectInSeq(s, LAMBDA x : x = i)

TypeOK ==
    /\ order \in [Lists -> Seq(Items)] /\ lastValue \in [Lists -> Seq(Items)]
    /\ \A l \in Lists : Len(order[l]) <= Cardinality(Items)
    /\ observers \subseteq Lists /\ told \subseteq Lists /\ recreated \subseteq Lists
    /\ dragged \in Items \union {None} /\ gone \subseteq Items

\* The page puts the items into one list
Init ==
    /\ \E l \in Lists :
        order \in {[k \in Lists |-> IF k = l THEN s ELSE <<>>] : s \in SetToSeqs(Items)}
    /\ observers = Lists /\ lastValue = order /\ atStart = order
    /\ dragged = None /\ last = <<>>
    /\ told = {} /\ recreated = {} /\ gone = {}
-----------------------------------------------------------------------------
\* Sortable.serialize
Serialized(l) == order[l]

\* Faulty: the value of the last drag is kept
ValueKept(l) == lastValue[l]

\* SortableObserver.onStart
StartValue(l) == IF l \in observers THEN Serialized(l) ELSE lastValue[l]

\* onStart of the observers, before the first move
onStart ==
    /\ dragged = None
    /\ \E i \in Items \ gone : dragged' = i
    /\ lastValue' = [l \in Lists |-> StartValue(l)]
    /\ atStart' = order /\ told' = {} /\ recreated' = {}
    /\ UNCHANGED <<order, observers, last, gone>>

Without(i) == [l \in Lists |-> RemoveFirst(order[l], i)]

\* Faulty: the place is counted before the item is taken out of the list
InsertCounted(i, l, before) ==
    LET n == IF before = None THEN Len(order[l]) + 1
                              ELSE PlaceOf(before, order[l])
    IN [Without(i) EXCEPT ![l] = InsertAt(@, IF n > Len(@) THEN Len(@) + 1 ELSE n, i)]

\* Faulty: a copy is inserted
InsertCopied(i, l, before) == [order EXCEPT ![l] = Append(@, i)]

\* l.insertBefore(i, before): i leaves the list it is in
InsertBefore(i, l, before) ==
    LET rest == Without(i)
        n == IF before = None THEN Len(rest[l]) + 1
                              ELSE PlaceOf(before, rest[l])
    IN [rest EXCEPT ![l] = InsertAt(@, n, i)]

NextSibling(i, l) ==
    LET n == PlaceOf(i, order[l])
    IN IF n < Len(order[l]) THEN order[l][n + 1] ELSE None

\* The pointer is over the upper or the lower half of another item
onHover ==
    /\ dragged # None
    /\ \E l \in Lists, side \in {"before", "after"} : \E dropon \in OfList(l) \ {dragged} :
        LET before == IF side = "before" THEN dropon ELSE NextSibling(dropon, l)
            there == IF side = "before"
                     THEN dragged \in OfList(l) /\ NextSibling(dragged, l) = dropon
                     ELSE before = dragged
        IN /\ order' = IF there THEN order ELSE InsertBefore(dragged, l, before)
           /\ last' = <<dragged, dropon, side>>
    /\ UNCHANGED <<observers, lastValue, dragged, atStart, told, recreated, gone>>

\* The pointer is over a list itself (dropOnEmpty)
onEmptyHover ==
    /\ dragged # None
    /\ \E l \in Lists : \E child \in (OfList(l) \ {dragged}) \union {None} :
        order' = InsertBefore(dragged, l, child)
    /\ last' = <<>>
    /\ UNCHANGED <<observers, lastValue, dragged, atStart, told, recreated, gone>>

\* SortableObserver.onEnd
TellChanged == told' = {l \in observers : lastValue[l] # Serialized(l)}

\* finishDrag, also when the drag was escaped from
onEnd ==
    /\ dragged # None /\ dragged' = None
    /\ TellChanged
    /\ last' = <<>>
    /\ UNCHANGED <<order, observers, lastValue, atStart, recreated, gone>>

\* An item is pressed, and Escape comes before it is moved: finishDrag, with no
\* onStart before
onEscape ==
    /\ dragged = None /\ gone # Items
    /\ TellChanged
    /\ UNCHANGED <<order, observers, lastValue, dragged, last, atStart, recreated, gone>>
-----------------------------------------------------------------------------
(* The page.                                                               *)

\* setSequence: all items are taken out of the list, and those that are named
\* are put back
setSequence ==
    /\ \E l \in Lists : \E named \in SUBSET OfList(l) :
        /\ dragged \notin OfList(l) \ named
        /\ Cardinality(gone \union (OfList(l) \ named)) <= Lost
        /\ gone' = gone \union (OfList(l) \ named)
        /\ \E s \in SetToSeqs(named) : order' = [order EXCEPT ![l] = s]
    /\ last' = <<>> /\ told' = {}
    /\ UNCHANGED <<observers, lastValue, dragged, atStart, recreated>>

Recreated(l) == recreated' = recreated \union {l}

destroy ==
    /\ \E l \in observers : observers' = observers \ {l} /\ Recreated(l)
    /\ told' = {}
    /\ UNCHANGED <<order, lastValue, dragged, last, atStart, gone>>

\* create destroys a sortable of the same element
create ==
    /\ \E l \in Lists :
        /\ observers' = observers \union {l}
        /\ lastValue' = [lastValue EXCEPT ![l] = Serialized(l)]
        /\ Recreated(l)
    /\ told' = {}
    /\ UNCHANGED <<order, dragged, last, atStart, gone>>

Next ==
    \/ onStart \/ onHover \/ onEmptyHover \/ onEnd \/ onEscape
    \/ setSequence \/ destroy \/ create

Spec == Init /\ [][Next]_vars
-----------------------------------------------------------------------------
(* Properties.                                                             *)

\* However items are dragged between the lists, each is in one of them, once,
\* but for those a call of setSequence did not name.
ItemsKept ==
    /\ \A i \in Items : Cardinality(ListOf(i)) = IF i \in gone THEN 0 ELSE 1
    /\ \A l \in Lists : IsInjective(order[l])

\* When a drag ends, onUpdate has been called for the lists that differ from
\* when it began: a move that was taken back is not told, a move between lists is
\* told to both, and what the page did to the lists between drags is not mistaken
\* for a move.  No other lists are told, with one exception: a press that Escape
\* ends before it moves tells of those that differ from when the last drag began,
\* though it moved nothing.  Nothing is said of a list that was created or
\* destroyed since a drag began.
ChangesAreTold ==
    /\ \A l \in told' \ recreated : order[l] # atStart[l]
    /\ dragged # None /\ dragged' = None =>
            \A l \in observers \ recreated : order[l] # atStart[l] => l \in told'
TellsChangedLists == [][ChangesAreTold]_vars

\* The dragged item is next to the one it hovers over, on the side of the
\* pointer, so hovering on does not move it again.
HoverPlaces ==
    last # <<>> => \E l \in Lists :
        /\ {last[1], last[2]} \subseteq OfList(l)
        /\ IF last[3] = "before" THEN NextSibling(last[1], l) = last[2]
                                 ELSE NextSibling(last[2], l) = last[1]
=============================================================================
