----------------------------- MODULE MCWidgets ------------------------------
(***************************************************************************)
(* What the user drags, what moves and what is lit on the pages, one       *)
(* component at a time: they share no state here, so a behaviour is one of *)
(* one component, chosen at the start, whose variables take the slots v1,  *)
(* v2, ...                                                                 *)
(***************************************************************************)
EXTENDS Integers, Sequences, ShadowScenes
VARIABLES
    component,  \* the component of this behaviour
    v1, v2, v3, v4, v5, v6, v7, v8, v9, v10, v11, v12, v13

vars == <<component,
          v1, v2, v3, v4, v5, v6, v7, v8, v9, v10, v11, v12, v13>>

\* The slots from the one named on, for the components that use fewer
From12 == <<v12, v13>>
From11 == <<v11, From12>>
From10 == <<v10, From11>>
From9 == <<v9, From10>>
Idle12 == v12 = 0 /\ v13 = 0
Idle11 == v11 = 0 /\ Idle12
Idle10 == v10 = 0 /\ Idle11
Idle9 == v9 = 0 /\ Idle10

\* Four pages: what they write inline, what is blank when it is written, and
\* whether the element and the one within it are static
Everything == {"opacity", "size", "font", "place", "position", "clip", "background",
               "innerPlace", "innerPosition"}
Placed == {"position", "innerPosition"}
StyledPages ==
    {[inline |-> {}, blank |-> {<<"clip", "sheet">>, <<"place", "sheet">>},
      static |-> Placed \X {"sheet"}],
     [inline |-> {}, blank |-> {<<"innerPlace", "sheet">>}, static |-> {}],
     [inline |-> Everything, blank |-> {<<"place", "page">>},
      static |-> Placed \X {"sheet"}],
     [inline |-> Everything, blank |-> {<<"opacity", "page">>, <<"clip", "page">>},
      static |-> Placed \X {"page"}]}

Element == INSTANCE ElementEffects WITH
    MaxEffects <- 2, FollowMixed <- FALSE, Pages <- StyledPages,
    page <- v1, style <- v2, made <- v3, overflow <- v4, visible <- v5, effects <-
    v6, dropped <- v7, mixed <- v8, asked <- v9, appeared <- v10

Drag == INSTANCE DragDrop WITH
    Draggable <- {"a", "b"}, Drops <- {"outer", "inner"}, Points <- {1, 2, 3},
    Area <- [x \in {"outer", "inner"} |-> IF x = "outer" THEN {2, 3} ELSE {3}],
    Inside <- {<<"inner", "outer">>},
    Accept <- [x \in {"outer", "inner"} |-> IF x = "outer" THEN {"a", "b"} ELSE {"a"}],
    Delayed <- {"b"}, Edge <- {3},
    Revert <- [d \in {"a", "b"} |-> IF d = "a" THEN "yes" ELSE "no"], MaxSettling <- 1,
    mouse <- v1, drags <- v2, drops <- v3, active <- v4, timeouts <- v5, timeout <-
    v6, lastPointer <- v7, lastActive <- v8, drag <- v9, settling <- v10, busy <-
    v11, fired <- v12, mishaps <- v13

Sort == INSTANCE Sortable WITH
    Items <- {"x", "y", "z"}, Lists <- {"k", "l"}, Lost <- 1,
    order <- v1, observers <- v2, lastValue <- v3, dragged <- v4, last <- v5,
    atStart <- v6, told <- v7, recreated <- v8, gone <- v9

Slide == INSTANCE Slider WITH
    Handles <- 3, Wanted <- -1 .. 3, Allowed <- {{0, 1, 2}, {0, 2}},
    allowed <- v1, restricted <- v2, values <- v3, activeHandleIdx <- v4, active <-
    v5, dragging <- v6, disabled <- v7, event <- v8, listening <- v9, reported <-
    v10, asked <- v11

Light == INSTANCE Shadow WITH
    Width <- 10, Height <- 10, Scenes <- BoxScenes, Lights <- BoxLights,
    light <- v1, edges <- v2, order <- v3, pass <- v4, pos <- v5, stack <- v6,
    polygon <- v7, thrown <- v8

-----------------------------------------------------------------------------
Init ==
    \/ component = "ElementEffects" /\ Element!Init /\ Idle11
    \/ component = "DragDrop" /\ Drag!Init
    \/ component = "Sortable" /\ Sort!Init /\ Idle10
    \/ component = "Slider" /\ Slide!Init /\ Idle12
    \/ component = "Shadow" /\ Light!Init /\ Idle9

IsElement == component = "ElementEffects" /\ UNCHANGED <<component, From11>>
IsDrag == component = "DragDrop" /\ UNCHANGED <<component>>
IsSort == component = "Sortable" /\ UNCHANGED <<component, From10>>
IsSlide == component = "Slider" /\ UNCHANGED <<component, From12>>
IsLight == component = "Shadow" /\ UNCHANGED <<component, From9>>

Next ==
    \/ IsElement /\ Element!Next
    \/ IsDrag /\ Drag!Next
    \/ IsSort /\ Sort!Next
    \/ IsSlide /\ Slide!Next
    \/ IsLight /\ Light!Next

Spec == Init /\ [][Next]_vars
-----------------------------------------------------------------------------
(* Properties: what each component promises, in parts that are explained    *)
(* in its module.                                                           *)

\* effects.js: what effects do to an element is what the page asked for, and
\* nothing is left over of them.
ElementEffectsPromise ==
    component = "ElementEffects" =>
        /\ Element!TypeOK
        \* Effects one after the other leave nothing of theirs in
        \* the style of an element, and lose what its page wrote only
        \* in the cases Loses names.
        /\ Element!RestIsWhole
        \* The element ends shown or hidden, as the effect that was
        \* accepted set out to.
        /\ Element!RestIsAsAsked
        \* Toggling never starts an effect beside another toggle of the
        \* element.
        /\ Element!TogglesTakeTurns

\* dragdrop.js: a drag is the only one, ends for good wherever the button is
\* released or an escape comes, and delivers what it dropped.
DragDropPromise ==
    /\ [](component = "DragDrop" =>
            /\ Drag!TypeOK
            \* A draggable is active only while the button is down.
            /\ Drag!ActiveIsPressed
            \* Without a drag nothing is raised, hovered over or
            \* scrolling.
            /\ Drag!QuietWithoutDrag
            \* No second drag begins while an element is dragged.
            /\ Drag!DragIsBusy
            \* An element comes to rest at home or where it was
            \* left.
            /\ Drag!RestsAtDelta)
    \* What is dropped goes to the innermost drop that takes it.
    /\ [][component = "DragDrop" => Drag!DropIsInnermost]_vars

\* dragdrop.js: sorting moves items about, loses none, and tells the page.
SortablePromise ==
    /\ [](component = "Sortable" =>
            /\ Sort!TypeOK
            \* Each item of the sortables stays in one list, once.
            /\ Sort!ItemsKept
            \* The dragged item lies beside the one it hovers over.
            /\ Sort!HoverPlaces)
    \* onUpdate is called for the lists a drag has changed, and
    \* for others only by a press that Escape ends before it moves.
    /\ [][component = "Sortable" => Sort!ChangesAreTold]_vars

\* slider.js: the handles stay in order, and the page knows where they are.
SliderPromise ==
    /\ [](component = "Slider" =>
            /\ Slide!TypeOK
            \* Restricted handles never pass each other.
            /\ Slide!HandlesInOrder
            \* onChange has told of every change once no drag is
            \* on.
            /\ Slide!ReportedUnlessDragging)
    \* A call for one handle, but for handle 0, never moves another.
    /\ [][component = "Slider" => Slide!OnlyAsked]_vars

\* EdgeSorter.js, EdgeStack.js: the sweep visits the end points in their order
\* and keeps a sorted stack, unless end points lie in line with the light and
\* the point nearest to it.
ShadowPromise ==
    component = "Shadow" =>
        /\ Light!TypeOK
        \* The sweep turns counter-clockwise, but in the aligned case.
        /\ Light!SortedUnlessAligned
        \* No method of null is called, but in the aligned case.
        /\ Light!ThrowsOnlyAligned
        \* The stack is sorted by the distance from the light.
        /\ Light!StackSorted

\* LightCalculator.js: the polygon of a calculation that ends covers exactly what
\* the light sees.
PolygonIsLit == component = "Shadow" => Light!PolygonIsLit
=============================================================================
