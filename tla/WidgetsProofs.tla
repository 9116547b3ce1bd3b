---------------------------- MODULE WidgetsProofs ----------------------------
(***************************************************************************)
(* The promises MCWidgets states of the effects of an element, of dragging,  *)
(* of sorting, of a slider and of the light, from the invariants proved about *)
(* each of them for every value of its constants.                          *)
(***************************************************************************)
EXTENDS MCWidgets, FiniteSetTheorems, TLAPS

PageP == INSTANCE PageProofs WITH
    Draggable <- {"a", "b"}, Drops <- {"outer", "inner"}, Points <- {1, 2, 3},
    Area <- [x \in {"outer", "inner"} |-> IF x = "outer" THEN {2, 3} ELSE {3}],
    Inside <- {<<"inner", "outer">>},
    Accept <- [x \in {"outer", "inner"} |-> IF x = "outer" THEN {"a", "b"} ELSE {"a"}],
    Delayed <- {"b"}, Edge <- {3},
    Revert <- [d \in {"a", "b"} |-> IF d = "a" THEN "yes" ELSE "no"], MaxSettling <- 1,
    mouse <- v1, drags <- v2, drops <- v3, active <- v4, timeouts <- v5, timeout <- v6,
    lastPointer <- v7, lastActive <- v8, drag <- v9, settling <- v10, busy <- v11,
    fired <- v12, mishaps <- v13,
    Items <- {"x", "y", "z"}, Lists <- {"k", "l"}, Lost <- 1,
    order <- v1, observers <- v2, lastValue <- v3, dragged <- v4, last <- v5,
    atStart <- v6, told <- v7, recreated <- v8, gone <- v9,
    MaxEffects <- 2, FollowMixed <- FALSE, Pages <- StyledPages,
    page <- v1, style <- v2, made <- v3, overflow <- v4, visible <- v5, effects <- v6,
    lost <- v7, mixed <- v8, asked <- v9, appeared <- v10,
    Handles <- 3, Wanted <- -1 .. 3, Allowed <- {{0, 1, 2}, {0, 2}},
    allowed <- v1, restricted <- v2, values <- v3, activeHandleIdx <- v4,
    handleActive <- v5, handleDragging <- v6, disabled <- v7, event <- v8,
    listening <- v9, reported <- v10, askedHandle <- v11

LightP == INSTANCE ShadowProofs WITH
    Width <- 10, Height <- 10, Scenes <- BoxScenes, Lights <- BoxLights,
    light <- v1, edges <- v2, order <- v3, pass <- v4, pos <- v5, stack <- v6,
    polygon <- v7, thrown <- v8

-----------------------------------------------------------------------------
(* The two instances of ElementEffects, that of the run and that of the      *)
(* proofs, are the same: their tables,                                     *)
LEMMA SameTables ==
    \A k : /\ Element!NextPart(k) = PageP!Style!NextPart(k)
           /\ Element!Constructed(k) = PageP!Style!Constructed(k)
           /\ Element!SetUp(k) = PageP!Style!SetUp(k)
           /\ Element!Absolutized(k) = PageP!Style!Absolutized(k)
           /\ Element!Updated(k) = PageP!Style!Updated(k)
           /\ Element!Undone(k) = PageP!Style!Undone(k)
           /\ Element!OldStyle(k) = PageP!Style!OldStyle(k)
           /\ Element!OldLook(k) = PageP!Style!OldLook(k)
           /\ Element!Original(k) = PageP!Style!Original(k)
           /\ Element!Outcome(k) = PageP!Style!Outcome(k)
           /\ Element!Seen(k) = PageP!Style!Seen(k)
  <1> TAKE k
  <1>1. Element!NextPart(k) = PageP!Style!NextPart(k)
    BY DEF Element!NextPart, PageP!Style!NextPart
  <1>2. Element!Constructed(k) = PageP!Style!Constructed(k)
    BY DEF Element!Constructed, PageP!Style!Constructed
  <1>3. Element!SetUp(k) = PageP!Style!SetUp(k)
    BY DEF Element!SetUp, PageP!Style!SetUp
  <1>4. Element!Absolutized(k) = PageP!Style!Absolutized(k)
    BY DEF Element!Absolutized, PageP!Style!Absolutized
  <1>5. Element!Updated(k) = PageP!Style!Updated(k)
    BY DEF Element!Updated, PageP!Style!Updated
  <1>6. Element!Undone(k) = PageP!Style!Undone(k)
    BY DEF Element!Undone, PageP!Style!Undone
  <1>7. Element!OldStyle(k) = PageP!Style!OldStyle(k)
    BY DEF Element!OldStyle, PageP!Style!OldStyle
  <1>8. Element!OldLook(k) = PageP!Style!OldLook(k)
    BY DEF Element!OldLook, PageP!Style!OldLook
  <1>9. Element!Original(k) = PageP!Style!Original(k)
    BY DEF Element!Original, PageP!Style!Original
  <1>10. Element!Outcome(k) = PageP!Style!Outcome(k)
    BY DEF Element!Outcome, PageP!Style!Outcome, Element!HiddenAtFinish,
           PageP!Style!HiddenAtFinish, Element!ShownAtSetUp, PageP!Style!ShownAtSetUp
  <1>11. Element!Seen(k) = PageP!Style!Seen(k)
    BY DEF Element!Seen, PageP!Style!Seen, Element!HiddenAtFinish, PageP!Style!HiddenAtFinish
  <1> QED BY <1>1, <1>2, <1>3, <1>4, <1>5, <1>6, <1>7, <1>8, <1>9, <1>10, <1>11

(* what they make of the style of an element,                              *)
LEMMA SameStyles ==
    /\ \A k, t, s : Element!Effect(k, t, s) = PageP!Style!Effect(k, t, s)
    /\ \A x : Element!SetUpEffect(x) = PageP!Style!SetUpEffect(x)
    /\ \A x : Element!NothingToLight(x) <=> PageP!Style!NothingToLight(x)
    /\ \A w, t : Element!Change(w, t) <=> PageP!Style!Change(w, t)
    /\ \A x : Element!Finished(x) = PageP!Style!Finished(x)
  <1>1. \A s, t : Element!Look(s, t) = PageP!Style!Look(s, t)
    BY DEF Element!Look, PageP!Style!Look
  <1>2. \A t, v : Element!PutBack(t, v) = PageP!Style!PutBack(t, v)
    BY DEF Element!PutBack, PageP!Style!PutBack
  <1>3. \A p : Element!Static(p) <=> PageP!Style!Static(p)
    BY <1>1 DEF Element!Static, PageP!Style!Static
  <1>4. Element!Things = PageP!Style!Things
    BY DEF Element!Things, PageP!Style!Things
  <1>5. \A u : Element!Erased(u) = PageP!Style!Erased(u)
    BY DEF Element!Erased, PageP!Style!Erased
  <1>6. \A w, t : Element!Change(w, t) <=> PageP!Style!Change(w, t)
    BY <1>1, <1>3, <1>4 DEF Element!Change, PageP!Style!Change
  <1>7. \A x : Element!Finished(x) = PageP!Style!Finished(x)
    BY <1>1, <1>2, <1>4, <1>5, SameTables DEF Element!Finished, PageP!Style!Finished
  <1> QED
    BY <1>6, <1>7 DEF Element!Effect, PageP!Style!Effect, Element!SetUpEffect,
                      PageP!Style!SetUpEffect, Element!NothingToLight,
                      PageP!Style!NothingToLight

(* how effects begin                                                       *)
LEMMA SameBegin ==
    /\ \A k, t : Element!Begin(k, t) <=> PageP!Style!Begin(k, t)
    /\ Element!Visual <=> PageP!Style!Visual
    /\ Element!toggle <=> PageP!Style!toggle
  <1>1. \A S : Element!Cardinality(S) = PageP!Style!Cardinality(S)
    BY DEF Element!Cardinality, PageP!Style!Cardinality
  <1>2. \A k, t : Element!Begin(k, t) <=> PageP!Style!Begin(k, t)
    BY <1>1, SameTables, SameStyles DEF Element!Begin, PageP!Style!Begin
  <1>3. Element!Visual <=> PageP!Style!Visual
    BY <1>2 DEF Element!Visual, PageP!Style!Visual, Element!Visuals, PageP!Style!Visuals
  <1>4. Element!PAIRS = PageP!Style!PAIRS
    BY DEF Element!PAIRS, PageP!Style!PAIRS
  <1>5. Element!toggle <=> PageP!Style!toggle
    BY <1>2, <1>4, SameTables, SameStyles DEF Element!toggle, PageP!Style!toggle,
                                              Element!Limits, PageP!Style!Limits
  <1> QED BY <1>2, <1>3, <1>5

(* and how they go on and end.                                             *)
LEMMA SameFrames ==
    /\ Element!Frame <=> PageP!Style!Frame
    /\ Element!HighlightHidden <=> PageP!Style!HighlightHidden
    /\ Element!Finish <=> PageP!Style!Finish
    /\ Element!cancel <=> PageP!Style!cancel
  <1>1. Element!Frame <=> PageP!Style!Frame
    BY SameTables, SameStyles DEF Element!Frame, PageP!Style!Frame, Element!HiddenAtSetUp,
                                  PageP!Style!HiddenAtSetUp, Element!ShownAtSetUp,
                                  PageP!Style!ShownAtSetUp
  <1>2. Element!HighlightHidden <=> PageP!Style!HighlightHidden
    BY SameStyles DEF Element!HighlightHidden, PageP!Style!HighlightHidden
  <1>3. Element!Finish <=> PageP!Style!Finish
    BY SameTables, SameStyles DEF Element!Finish, PageP!Style!Finish
  <1>4. Element!cancel <=> PageP!Style!cancel
    BY DEF Element!cancel, PageP!Style!cancel
  <1> QED BY <1>1, <1>2, <1>3, <1>4

(* What may be left of them is the same too,                               *)
LEMMA SameRest == Element!RestIsWhole <=> PageP!Style!RestIsWhole
  <1>1. \A t : Element!Own(t) = PageP!Style!Own(t)
    BY DEF Element!Own, PageP!Style!Own
  <1>2. \A t : Element!Loses(t) <=> PageP!Style!Loses(t)
    BY DEF Element!Loses, PageP!Style!Loses, Element!OwnStatic, PageP!Style!OwnStatic
  <1>3. \A t : Element!Kept(t) = PageP!Style!Kept(t)
    BY <1>1, <1>2 DEF Element!Kept, PageP!Style!Kept, Element!WrittenBack,
                      PageP!Style!WrittenBack
  <1> QED
    BY <1>3 DEF Element!RestIsWhole, PageP!Style!RestIsWhole, Element!Things,
                PageP!Style!Things

(* so their states, steps and promises are.                                *)
LEMMA SameElement ==
    /\ Element!Init <=> PageP!Style!Init
    /\ Element!Next <=> PageP!Style!Next
    /\ Element!vars = PageP!Style!vars
    /\ Element!TypeOK <=> PageP!Style!TypeOK
    /\ Element!RestIsWhole <=> PageP!Style!RestIsWhole
    /\ Element!RestIsAsAsked <=> PageP!Style!RestIsAsAsked
    /\ Element!TogglesTakeTurns <=> PageP!Style!TogglesTakeTurns
  <1>1. \A S : Element!Cardinality(S) = PageP!Style!Cardinality(S)
    BY DEF Element!Cardinality, PageP!Style!Cardinality
  <1>2. Element!Things = PageP!Style!Things
    BY DEF Element!Things, PageP!Style!Things
  <1>3. Element!Init <=> PageP!Style!Init
    BY <1>2 DEF Element!Init, PageP!Style!Init, Element!Own, PageP!Style!Own
  <1>4. Element!Next <=> PageP!Style!Next
    BY SameBegin, SameFrames DEF Element!Next, PageP!Style!Next
  <1>5. Element!TypeOK <=> PageP!Style!TypeOK
    BY <1>1, <1>2 DEF Element!TypeOK, PageP!Style!TypeOK, Element!Values, PageP!Style!Values,
                      Element!Positions, PageP!Style!Positions, Element!Kinds,
                      PageP!Style!Kinds, Element!Visuals, PageP!Style!Visuals, Element!Parts,
                      PageP!Style!Parts
  <1>6. Element!TogglesTakeTurns <=> PageP!Style!TogglesTakeTurns
    BY <1>1 DEF Element!TogglesTakeTurns, PageP!Style!TogglesTakeTurns
  <1> QED
    BY <1>3, <1>4, <1>5, <1>6, SameRest DEF Element!vars, PageP!Style!vars,
                                            Element!RestIsAsAsked, PageP!Style!RestIsAsAsked

(* The pages of the run are of the kind the proofs assume.                 *)
LEMMA PagesOfRun == PageP!StyleFacts
  <1> DEFINE Blank == {"opacity", "clip", "place", "innerPlace"} \X {"page", "sheet"}
  <1>1. /\ {<<"clip", "sheet">>, <<"place", "sheet">>} \subseteq Blank
        /\ {<<"innerPlace", "sheet">>} \subseteq Blank
        /\ {<<"place", "page">>} \subseteq Blank
        /\ {<<"opacity", "page">>, <<"clip", "page">>} \subseteq Blank
    OBVIOUS
  <1>2. ASSUME NEW p \in StyledPages PROVE p.blank \subseteq Blank
    <2> HIDE DEF Blank
    <2>1. \/ p.blank = {<<"clip", "sheet">>, <<"place", "sheet">>}
          \/ p.blank = {<<"innerPlace", "sheet">>}
          \/ p.blank = {<<"place", "page">>}
          \/ p.blank = {<<"opacity", "page">>, <<"clip", "page">>}
      BY DEF StyledPages
    <2> QED BY <1>1, <2>1
  <1>3. PageP!Style!PageFacts
    BY <1>2 DEF PageP!Style!PageFacts
  <1> QED BY <1>3 DEF PageP!StyleFacts

(* The two instances of Slider are the same.                                *)
LEMMA SameSetHandle ==
    \A h, value, ongoing :
        Slide!SetHandle(h, value, ongoing) <=> PageP!Sliding!SetHandle(h, value, ongoing)
  <1>1. \A S : Slide!Max(S) = PageP!Sliding!Max(S)
    BY DEF Slide!Max, PageP!Sliding!Max
  <1>2. \A a, b : Slide!Distance(a, b) = PageP!Sliding!Distance(a, b)
    BY DEF Slide!Distance, PageP!Sliding!Distance
  <1>3. \A value : Slide!getNearestValue(value) = PageP!Sliding!getNearestValue(value)
    BY <1>1, <1>2 DEF Slide!getNearestValue, PageP!Sliding!getNearestValue
  <1>4. \A h, value : Slide!Held(h, value) = PageP!Sliding!Held(h, value)
    BY DEF Slide!Held, PageP!Sliding!Held, Slide!AtMost, PageP!Sliding!AtMost,
           Slide!AtLeast, PageP!Sliding!AtLeast
  <1> QED BY <1>3, <1>4 DEF Slide!SetHandle, PageP!Sliding!SetHandle

(* They set values                                                         *)
LEMMA SameSetValue ==
    \A value, idx : Slide!setValue(value, idx) <=> PageP!Sliding!setValue(value, idx)
  <1>1. \A idx : Slide!Target(idx) = PageP!Sliding!Target(idx)
    BY DEF Slide!Target, PageP!Sliding!Target
  <1>2. Slide!Ongoing = PageP!Sliding!Ongoing
    BY DEF Slide!Ongoing, PageP!Sliding!Ongoing
  <1> QED BY <1>1, <1>2, SameSetHandle
    DEF Slide!setValue, PageP!Sliding!setValue, Slide!options, PageP!Sliding!options

(* and move handles in the same way.                                       *)
LEMMA SameSlide ==
    /\ Slide!Init <=> PageP!Sliding!Init
    /\ Slide!Next <=> PageP!Sliding!Next
    /\ Slide!vars = PageP!Sliding!vars
    /\ Slide!TypeOK <=> PageP!Sliding!TypeOK
    /\ Slide!HandlesInOrder <=> PageP!Sliding!HandlesInOrder
    /\ Slide!ReportedUnlessDragging <=> PageP!Sliding!ReportedUnlessDragging
    /\ Slide!OnlyAsked <=> PageP!Sliding!OnlyAsked
  <1> USE DEF Slide!options, PageP!Sliding!options
  <1>1. Slide!Index = PageP!Sliding!Index
    BY DEF Slide!Index, PageP!Sliding!Index
  <1>2. \A v : Slide!Ordered(v) <=> PageP!Sliding!Ordered(v)
    BY <1>1 DEF Slide!Ordered, PageP!Sliding!Ordered
  <1>3. Slide!PageSets <=> PageP!Sliding!PageSets
    BY <1>1, SameSetValue DEF Slide!PageSets, PageP!Sliding!PageSets
  <1>4. Slide!setValueBy <=> PageP!Sliding!setValueBy
    BY <1>1, SameSetValue DEF Slide!setValueBy, PageP!Sliding!setValueBy
  <1>5. Slide!StartOnTrack <=> PageP!Sliding!StartOnTrack
    BY <1>1, SameSetHandle DEF Slide!StartOnTrack, PageP!Sliding!StartOnTrack
  <1>6. Slide!StartOnHandle <=> PageP!Sliding!StartOnHandle
    BY <1>1 DEF Slide!StartOnHandle, PageP!Sliding!StartOnHandle
  <1>7. Slide!Move <=> PageP!Sliding!Move
    BY <1>1, SameSetHandle DEF Slide!Move, PageP!Sliding!Move
  <1>8. /\ Slide!endDrag <=> PageP!Sliding!endDrag
        /\ Slide!setDisabled <=> PageP!Sliding!setDisabled
        /\ Slide!dispose <=> PageP!Sliding!dispose
    BY <1>1 DEF Slide!endDrag, PageP!Sliding!endDrag, Slide!setDisabled,
                PageP!Sliding!setDisabled,
       Slide!dispose, PageP!Sliding!dispose
  <1>9. Slide!Next <=> PageP!Sliding!Next
    BY <1>3, <1>4, <1>5, <1>6, <1>7, <1>8 DEF Slide!Next, PageP!Sliding!Next
  <1>10. Slide!TypeOK <=> PageP!Sliding!TypeOK
    BY <1>1 DEF Slide!TypeOK, PageP!Sliding!TypeOK
  <1>11. Slide!vars = PageP!Sliding!vars
    BY DEF Slide!vars, PageP!Sliding!vars
  <1>12. Slide!Init <=> PageP!Sliding!Init
    BY <1>1, <1>2 DEF Slide!Init, PageP!Sliding!Init
  <1> QED BY <1>1, <1>2, <1>9, <1>10, <1>11, <1>12
    DEF Slide!HandlesInOrder, PageP!Sliding!HandlesInOrder, Slide!ReportedUnlessDragging,
        PageP!Sliding!ReportedUnlessDragging, Slide!OnlyAsked, PageP!Sliding!OnlyAsked

(* The two instances of DragDrop are the same.                              *)
LEMMA SameShow ==
    \A p, d : Drag!Show(p, d) = PageP!Show(p, d)
  <1>1. \A p, d, x : Drag!isAffected(p, d, x) <=> PageP!isAffected(p, d, x)
    BY DEF Drag!isAffected, PageP!isAffected
  <1>2. \A S : Drag!findDeepestChild(S) = PageP!findDeepestChild(S)
    BY DEF Drag!findDeepestChild, PageP!findDeepestChild
  <1> QED BY <1>1, <1>2 DEF Drag!Show, PageP!Show, Drag!None, PageP!None

(* They end a drag                                                         *)
LEMMA SameFinishDrag ==
    \A d, x, success, throws :
        Drag!finishDrag(d, x, success, throws) <=> PageP!finishDrag(d, x, success, throws)
  <1>1. \A d, success : Drag!Dropped(d, success) = PageP!Dropped(d, success)
    BY DEF Drag!Dropped, PageP!Dropped, Drag!isAffected, PageP!isAffected, Drag!None,
           PageP!None
  <1>2. \A d, dropped : Drag!Reverts(d, dropped) = PageP!Reverts(d, dropped)
    BY DEF Drag!Reverts, PageP!Reverts
  <1>3. \A d, x, dropped : Drag!Finished(d, x, dropped) <=> PageP!Finished(d, x, dropped)
    BY <1>2
    DEF Drag!Finished, PageP!Finished, Drag!LastActiveReset, PageP!LastActiveReset,
        Drag!None,
        PageP!None
  <1> QED BY <1>1, <1>3 DEF Drag!finishDrag, PageP!finishDrag

(* and do everything else in the same way.                                 *)
LEMMA SameDrag ==
    /\ Drag!Init <=> PageP!Init
    /\ Drag!Next <=> PageP!Next
    /\ Drag!TypeOK <=> PageP!TypeOK
    /\ Drag!ActiveIsPressed <=> PageP!ActiveIsPressed
    /\ Drag!QuietWithoutDrag <=> PageP!QuietWithoutDrag
    /\ Drag!DragIsBusy <=> PageP!DragIsBusy
    /\ Drag!RestsAtDelta <=> PageP!RestsAtDelta
    /\ Drag!DropIsInnermost <=> PageP!DropIsInnermost
  <1> USE DEF Drag!None, PageP!None
  <1>1. Drag!MouseDown <=> PageP!MouseDown
    BY DEF Drag!MouseDown, PageP!MouseDown, Drag!MayInit, PageP!MayInit
  <1>2. Drag!DelayOver <=> PageP!DelayOver
    BY DEF Drag!DelayOver, PageP!DelayOver
  <1>3. \A x : Drag!Started(x) = PageP!Started(x)
    BY DEF Drag!Started, PageP!Started
  <1>4. Drag!MouseMove <=> PageP!MouseMove
    BY <1>3, SameShow DEF Drag!MouseMove, PageP!MouseMove
  <1>5. Drag!ScrollTick <=> PageP!ScrollTick
    BY SameShow DEF Drag!ScrollTick, PageP!ScrollTick
  <1>6. Drag!MayThrow = PageP!MayThrow /\ Drag!TimerCleared = PageP!TimerCleared
    BY DEF Drag!MayThrow, PageP!MayThrow, Drag!TimerCleared, PageP!TimerCleared
  <1>7. Drag!MouseUp <=> PageP!MouseUp
    BY <1>6, SameFinishDrag DEF Drag!MouseUp, PageP!MouseUp
  <1>8. Drag!Escape <=> PageP!Escape
    BY <1>6, SameFinishDrag DEF Drag!Escape, PageP!Escape
  <1>9. Drag!Settle <=> PageP!Settle
    BY DEF Drag!Settle, PageP!Settle
  <1>10. /\ Drag!LostRelease <=> PageP!LostRelease
         /\ Drag!Destroy <=> PageP!Destroy
         /\ Drag!RemoveDrop <=> PageP!RemoveDrop
    BY DEF Drag!LostRelease, PageP!LostRelease, Drag!Destroy, PageP!Destroy,
           Drag!RemoveDrop,
           PageP!RemoveDrop
  <1>11. Drag!Next <=> PageP!Next
    BY <1>1, <1>2, <1>4, <1>5, <1>7, <1>8, <1>9, <1>10 DEF Drag!Next, PageP!Next
  <1>12. Drag!Init <=> PageP!Init
    BY DEF Drag!Init, PageP!Init
  <1>13. Drag!TypeOK <=> PageP!TypeOK
    BY DEF Drag!TypeOK, PageP!TypeOK
  <1>14. \A m : Drag!Survived(m) <=> PageP!Survived(m)
    BY DEF Drag!Survived, PageP!Survived
  <1>15. /\ Drag!ActiveIsPressed <=> PageP!ActiveIsPressed
         /\ Drag!QuietWithoutDrag <=> PageP!QuietWithoutDrag
         /\ Drag!DragIsBusy <=> PageP!DragIsBusy
         /\ Drag!RestsAtDelta <=> PageP!RestsAtDelta
    BY <1>14 DEF Drag!ActiveIsPressed, PageP!ActiveIsPressed, Drag!QuietWithoutDrag,
       PageP!QuietWithoutDrag, Drag!DragIsBusy, PageP!DragIsBusy, Drag!RestsAtDelta,
       PageP!RestsAtDelta
  <1>16. Drag!DropIsInnermost <=> PageP!DropIsInnermost
    BY <1>14 DEF Drag!DropIsInnermost, PageP!DropIsInnermost, Drag!isAffected,
                 PageP!isAffected
  <1> QED BY <1>11, <1>12, <1>13, <1>15, <1>16

(* The two instances of Sortable are the same.                             *)
LEMMA SameSort ==
    /\ Sort!Init <=> PageP!Sort!Init
    /\ Sort!Next <=> PageP!Sort!Next
    /\ Sort!TypeOK <=> PageP!Sort!TypeOK
    /\ Sort!ItemsKept <=> PageP!Sort!ItemsKept
    /\ Sort!HoverPlaces <=> PageP!Sort!HoverPlaces
    /\ Sort!ChangesAreTold <=> PageP!Sort!ChangesAreTold
  <1>1. /\ \A S : Sort!Cardinality(S) = PageP!Sort!Cardinality(S)
        /\ \A s : Sort!ToSet(s) = PageP!Sort!ToSet(s)
        /\ \A s : Sort!IsInjective(s) <=> PageP!Sort!IsInjective(s)
    BY DEF Sort!Cardinality, PageP!Sort!Cardinality, Sort!ToSet, PageP!Sort!ToSet,
           Sort!IsInjective, PageP!Sort!IsInjective
  <1>2. /\ \A s, d : Sort!RemoveFirst(s, d) = PageP!Sort!RemoveFirst(s, d)
        /\ \A s, i, e : Sort!InsertAt(s, i, e) = PageP!Sort!InsertAt(s, i, e)
        /\ \A S : Sort!SetToSeqs(S) = PageP!Sort!SetToSeqs(S)
    BY <1>1 DEF Sort!RemoveFirst, PageP!Sort!RemoveFirst, Sort!RemoveAt,
                PageP!Sort!RemoveAt,
           Sort!SelectInSeq, PageP!Sort!SelectInSeq, Sort!Min, PageP!Sort!Min,
           Sort!InsertAt, PageP!Sort!InsertAt, Sort!SetToSeqs, PageP!Sort!SetToSeqs
  <1>3. /\ \A x, s : Sort!PlaceOf(x, s) = PageP!Sort!PlaceOf(x, s)
        /\ Sort!None = PageP!Sort!None
        /\ \A l : Sort!OfList(l) = PageP!Sort!OfList(l)
    BY <1>1 DEF Sort!PlaceOf, PageP!Sort!PlaceOf, Sort!SelectInSeq, PageP!Sort!SelectInSeq,
           Sort!Min, PageP!Sort!Min, Sort!None, PageP!Sort!None, Sort!OfList,
           PageP!Sort!OfList
  <1>4. \A i, l : Sort!NextSibling(i, l) = PageP!Sort!NextSibling(i, l)
    BY <1>3 DEF Sort!NextSibling, PageP!Sort!NextSibling
  <1>5. \A i : Sort!Without(i) = PageP!Sort!Without(i)
    BY <1>2 DEF Sort!Without, PageP!Sort!Without
  <1>6. \A i, l, b : Sort!InsertBefore(i, l, b) = PageP!Sort!InsertBefore(i, l, b)
    BY <1>2, <1>3, <1>5 DEF Sort!InsertBefore, PageP!Sort!InsertBefore
  <1>7. Sort!Init <=> PageP!Sort!Init
    BY <1>2, <1>3 DEF Sort!Init, PageP!Sort!Init
  <1>8. Sort!onStart <=> PageP!Sort!onStart
    BY DEF Sort!onStart, PageP!Sort!onStart, Sort!StartValue, PageP!Sort!StartValue,
           Sort!Serialized, PageP!Sort!Serialized, Sort!None, PageP!Sort!None
  <1>9. Sort!onHover <=> PageP!Sort!onHover
    BY <1>3, <1>4, <1>6 DEF Sort!onHover, PageP!Sort!onHover
  <1>10. Sort!onEmptyHover <=> PageP!Sort!onEmptyHover
    BY <1>3, <1>6 DEF Sort!onEmptyHover, PageP!Sort!onEmptyHover
  <1>11. /\ Sort!onEnd <=> PageP!Sort!onEnd
         /\ Sort!onEscape <=> PageP!Sort!onEscape
    BY <1>3 DEF Sort!onEnd, PageP!Sort!onEnd, Sort!onEscape, PageP!Sort!onEscape,
           Sort!TellChanged, PageP!Sort!TellChanged, Sort!Serialized, PageP!Sort!Serialized
  <1>12. Sort!setSequence <=> PageP!Sort!setSequence
    BY <1>1, <1>2, <1>3 DEF Sort!setSequence, PageP!Sort!setSequence
  <1>13. Sort!destroy <=> PageP!Sort!destroy
    BY <1>3 DEF Sort!destroy, PageP!Sort!destroy, Sort!Recreated, PageP!Sort!Recreated
  <1>14. Sort!create <=> PageP!Sort!create
    BY <1>3 DEF Sort!create, PageP!Sort!create, Sort!Recreated, PageP!Sort!Recreated,
           Sort!Serialized, PageP!Sort!Serialized
  <1>15. Sort!Next <=> PageP!Sort!Next
    BY <1>8, <1>9, <1>10, <1>11, <1>12, <1>13, <1>14 DEF Sort!Next, PageP!Sort!Next
  <1>16. Sort!TypeOK <=> PageP!Sort!TypeOK
    BY <1>1, <1>3 DEF Sort!TypeOK, PageP!Sort!TypeOK
  <1>17. Sort!ItemsKept <=> PageP!Sort!ItemsKept
    BY <1>1, <1>3 DEF Sort!ItemsKept, PageP!Sort!ItemsKept, Sort!ListOf, PageP!Sort!ListOf
  <1>18. Sort!HoverPlaces <=> PageP!Sort!HoverPlaces
    BY <1>3, <1>4 DEF Sort!HoverPlaces, PageP!Sort!HoverPlaces
  <1>19. Sort!ChangesAreTold <=> PageP!Sort!ChangesAreTold
    BY <1>3 DEF Sort!ChangesAreTold, PageP!Sort!ChangesAreTold
  <1> QED BY <1>7, <1>15, <1>16, <1>17, <1>18, <1>19

(* The two instances of Shadow are the same: their lists,                  *)
LEMMA SameLists ==
    /\ \A S : Light!Max(S) = LightP!Max(S)
    /\ \A S : Light!Min(S) = LightP!Min(S)
    /\ \A s : Light!ToSet(s) = LightP!ToSet(s)
    /\ \A s, i, e : Light!InsertAt(s, i, e) = LightP!InsertAt(s, i, e)
    /\ \A s, i : Light!RemoveAt(s, i) = LightP!RemoveAt(s, i)
    /\ \A s : Light!Last(s) = LightP!Last(s)
    /\ \A s, W : Light!Without(s, W) = LightP!Without(s, W)
  <1>1. \A S : Light!Max(S) = LightP!Max(S)
    BY DEF Light!Max, LightP!Max
  <1>2. \A S : Light!Min(S) = LightP!Min(S)
    BY DEF Light!Min, LightP!Min
  <1>3. \A s : Light!ToSet(s) = LightP!ToSet(s)
    BY DEF Light!ToSet, LightP!ToSet
  <1>4. \A s, i, e : Light!InsertAt(s, i, e) = LightP!InsertAt(s, i, e)
    BY DEF Light!InsertAt, LightP!InsertAt
  <1>5. \A s, i : Light!RemoveAt(s, i) = LightP!RemoveAt(s, i)
    BY DEF Light!RemoveAt, LightP!RemoveAt
  <1>6. \A s : Light!Last(s) = LightP!Last(s)
    BY DEF Light!Last, LightP!Last
  <1>7. \A s, W : Light!Without(s, W) = LightP!Without(s, W)
    BY DEF Light!Without, LightP!Without, Light!Lefts, LightP!Lefts
  <1> QED BY <1>1, <1>2, <1>3, <1>4, <1>5, <1>6, <1>7

(* points,                                                                 *)
LEMMA SamePoints ==
    /\ Light!Null = LightP!Null
    /\ \A x, y : Light!Point(x, y) = LightP!Point(x, y)
    /\ \A p, q : Light!EdgeBetween(p, q) = LightP!EdgeBetween(p, q)
    /\ \A p, a, b : Light!leftOfRaw(p, a, b) = LightP!leftOfRaw(p, a, b)
    /\ \A p, a, b : Light!leftOf(p, a, b) <=> LightP!leftOf(p, a, b)
    /\ \A p, q : Light!SamePoint(p, q) <=> LightP!SamePoint(p, q)
    /\ \A p, q : Light!ScaledDistance(p, q) = LightP!ScaledDistance(p, q)
    /\ \A p, q, l : Light!NoFarther(p, q, l) <=> LightP!NoFarther(p, q, l)
    /\ \A e : Light!lengthSquared(e) = LightP!lengthSquared(e)
  <1>1. Light!Null = LightP!Null
    BY DEF Light!Null, LightP!Null
  <1>2. \A x, y : Light!Point(x, y) = LightP!Point(x, y)
    BY DEF Light!Point, LightP!Point
  <1>3. \A p, q : Light!EdgeBetween(p, q) = LightP!EdgeBetween(p, q)
    BY DEF Light!EdgeBetween, LightP!EdgeBetween
  <1>4. \A p, a, b : Light!leftOfRaw(p, a, b) = LightP!leftOfRaw(p, a, b)
    BY DEF Light!leftOfRaw, LightP!leftOfRaw
  <1>5. \A p, a, b : Light!leftOf(p, a, b) <=> LightP!leftOf(p, a, b)
    BY <1>4 DEF Light!leftOf, LightP!leftOf
  <1>6. \A p, q : Light!SamePoint(p, q) <=> LightP!SamePoint(p, q)
    BY DEF Light!SamePoint, LightP!SamePoint
  <1>7. \A p, q : Light!ScaledDistance(p, q) = LightP!ScaledDistance(p, q)
    BY DEF Light!ScaledDistance, LightP!ScaledDistance, Light!Square, LightP!Square
  <1>8. \A p, q, l : Light!NoFarther(p, q, l) <=> LightP!NoFarther(p, q, l)
    BY <1>7 DEF Light!NoFarther, LightP!NoFarther, Light!Square, LightP!Square
  <1>9. \A e : Light!lengthSquared(e) = LightP!lengthSquared(e)
    BY DEF Light!lengthSquared, LightP!lengthSquared, Light!Square, LightP!Square
  <1> QED BY <1>1, <1>2, <1>3, <1>4, <1>5, <1>6, <1>7, <1>8, <1>9

(* edges,                                                                  *)
LEMMA SameEdges ==
    /\ \A e, p : Light!nearestPoint(e, p) = LightP!nearestPoint(e, p)
    /\ \A e, p3, p4 : Light!intersection(e, p3, p4) = LightP!intersection(e, p3, p4)
    /\ Light!LightBoundingBox = LightP!LightBoundingBox
    /\ \A x, y, w, h : Light!Rectangle(x, y, w, h) = LightP!Rectangle(x, y, w, h)
    /\ \A scene : Light!SceneEdges(scene) = LightP!SceneEdges(scene)
    /\ \A e, l : Light!isVisible(e, l) <=> LightP!isVisible(e, l)
    /\ \A scene, l : Light!visibleEdges(scene, l) = LightP!visibleEdges(scene, l)
    /\ \A e, l : Light!EdgeDistance(e, l) = LightP!EdgeDistance(e, l)
    /\ \A es, l : Light!findNearestEdge(es, l) = LightP!findNearestEdge(es, l)
    /\ \A es, l : Light!SplitEdges(es, l) = LightP!SplitEdges(es, l)
  <1>1. \A e, p : Light!nearestPoint(e, p) = LightP!nearestPoint(e, p)
    BY SameLists, SamePoints DEF Light!nearestPoint, LightP!nearestPoint
  <1>2. \A e, p3, p4 : Light!intersection(e, p3, p4) = LightP!intersection(e, p3, p4)
    BY DEF Light!intersection, LightP!intersection, Light!Max, LightP!Max, Light!Null,
           LightP!Null
  <1>3. Light!LightBoundingBox = LightP!LightBoundingBox
    BY SamePoints DEF Light!LightBoundingBox, LightP!LightBoundingBox
  <1>4. \A x, y, w, h : Light!Rectangle(x, y, w, h) = LightP!Rectangle(x, y, w, h)
    BY SamePoints DEF Light!Rectangle, LightP!Rectangle
  <1>5. \A scene : Light!SceneEdges(scene) = LightP!SceneEdges(scene)
    BY <1>3, <1>4 DEF Light!SceneEdges, LightP!SceneEdges
  <1>6. \A e, l : Light!isVisible(e, l) <=> LightP!isVisible(e, l)
    BY SamePoints DEF Light!isVisible, LightP!isVisible
  <1>7. \A scene, l : Light!visibleEdges(scene, l) = LightP!visibleEdges(scene, l)
    BY SameLists, <1>5, <1>6 DEF Light!visibleEdges, LightP!visibleEdges
  <1>8. \A e, l : Light!EdgeDistance(e, l) = LightP!EdgeDistance(e, l)
    BY <1>1, SamePoints DEF Light!EdgeDistance, LightP!EdgeDistance
  <1>9. \A es, l : Light!findNearestEdge(es, l) = LightP!findNearestEdge(es, l)
    BY <1>8, SameLists DEF Light!findNearestEdge, LightP!findNearestEdge
  <1>10. \A es, l : Light!SplitEdges(es, l) = LightP!SplitEdges(es, l)
    BY <1>1, <1>9, SamePoints DEF Light!SplitEdges, LightP!SplitEdges
  <1> QED BY <1>1, <1>2, <1>3, <1>4, <1>5, <1>6, <1>7, <1>8, <1>9, <1>10

(* order of the end points,                                                *)
LEMMA SameOrder ==
    /\ \A p, q, l, start :
            Light!ComparePoints(p, q, l, start) = LightP!ComparePoints(p, q, l, start)
    /\ \A i, w : Light!End(i, w) = LightP!End(i, w)
    /\ \A es, q : Light!PointOf(es, q) = LightP!PointOf(es, q)
    /\ \A es, l, start, sorted, p :
            Light!InsertPoint(es, l, start, sorted, p) = LightP!InsertPoint(es, l, start, sorted, p)
    /\ \A es, l, start, points :
            Light!InsertedPoints(es, l, start, points) = LightP!InsertedPoints(es, l, start, points)
    /\ \A n, nearest : Light!OtherEnds(n, nearest) = LightP!OtherEnds(n, nearest)
    /\ \A es, n, l : Light!InnerEnds(es, n, l) = LightP!InnerEnds(es, n, l)
    /\ \A es, n, l : Light!sortEdgePoints(es, n, l) = LightP!sortEdgePoints(es, n, l)
  <1>1. \A p, q, l, start :
            Light!ComparePoints(p, q, l, start) = LightP!ComparePoints(p, q, l, start)
    BY SamePoints DEF Light!ComparePoints, LightP!ComparePoints
  <1>2. \A i, w : Light!End(i, w) = LightP!End(i, w)
    BY DEF Light!End, LightP!End
  <1>3. \A es, q : Light!PointOf(es, q) = LightP!PointOf(es, q)
    BY DEF Light!PointOf, LightP!PointOf
  <1>4. \A es, l, start, sorted, p :
            Light!InsertPoint(es, l, start, sorted, p) = LightP!InsertPoint(es, l, start, sorted, p)
    BY <1>1, <1>3, SameLists DEF Light!InsertPoint, LightP!InsertPoint
  <1>5. \A es, l, start, points :
            Light!InsertedPoints(es, l, start, points) = LightP!InsertedPoints(es, l, start, points)
    BY <1>4 DEF Light!InsertedPoints, LightP!InsertedPoints
  <1>6. \A n, nearest : Light!OtherEnds(n, nearest) = LightP!OtherEnds(n, nearest)
    BY <1>2, SameLists DEF Light!OtherEnds, LightP!OtherEnds
  <1>7. \A es, n, l : Light!InnerEnds(es, n, l) = LightP!InnerEnds(es, n, l)
    BY <1>2, <1>6, SamePoints, SameEdges DEF Light!InnerEnds, LightP!InnerEnds
  <1>8. \A es, n, l : Light!sortEdgePoints(es, n, l) = LightP!sortEdgePoints(es, n, l)
    BY <1>2, <1>7, <1>5, SamePoints DEF Light!sortEdgePoints, LightP!sortEdgePoints
  <1> QED BY <1>1, <1>2, <1>3, <1>4, <1>5, <1>6, <1>7, <1>8

(* stack,                                                                  *)
LEMMA SameStack ==
    /\ \A poly, p : Light!addPoint(poly, p) = LightP!addPoint(poly, p)
    /\ \A poly, p, q : Light!addPoints(poly, p, q) = LightP!addPoints(poly, p, q)
    /\ Light!CurrentPoint = LightP!CurrentPoint
    /\ \A i : Light!Hit(i) = LightP!Hit(i)
    /\ Light!InsertIndex = LightP!InsertIndex
    /\ \A poly : Light!Emit(poly) <=> LightP!Emit(poly)
    /\ Light!Advance <=> LightP!Advance
    /\ Light!Sweeping <=> LightP!Sweeping
    /\ Light!Places = LightP!Places
  <1>1. \A poly, p : Light!addPoint(poly, p) = LightP!addPoint(poly, p)
    BY SamePoints, SameLists DEF Light!addPoint, LightP!addPoint
  <1>2. \A poly, p, q : Light!addPoints(poly, p, q) = LightP!addPoints(poly, p, q)
    BY <1>1 DEF Light!addPoints, LightP!addPoints
  <1>3. Light!CurrentPoint = LightP!CurrentPoint
    BY SameOrder DEF Light!CurrentPoint, LightP!CurrentPoint, Light!Current, LightP!Current
  <1>4. \A i : Light!Hit(i) = LightP!Hit(i)
    BY <1>3, SameEdges DEF Light!Hit, LightP!Hit
  <1>5. Light!InsertIndex = LightP!InsertIndex
    BY <1>3, <1>4, SameLists, SamePoints DEF Light!InsertIndex, LightP!InsertIndex
  <1>6. \A poly : Light!Emit(poly) <=> LightP!Emit(poly)
    BY DEF Light!Emit, LightP!Emit
  <1>7. Light!Advance <=> LightP!Advance
    BY DEF Light!Advance, LightP!Advance
  <1>8. Light!Sweeping <=> LightP!Sweeping
    BY DEF Light!Sweeping, LightP!Sweeping
  <1>9. Light!Places = LightP!Places
    BY DEF Light!Places, LightP!Places, Light!Current, LightP!Current
  <1> QED BY <1>1, <1>2, <1>3, <1>4, <1>5, <1>6, <1>7, <1>8, <1>9

(* steps                                                                   *)
LEMMA SameSweep ==
    /\ Light!AddEdge <=> LightP!AddEdge
    /\ Light!RemoveEdge <=> LightP!RemoveEdge
    /\ Light!MissedEdge <=> LightP!MissedEdge
    /\ Light!Next <=> LightP!Next
    /\ Light!vars = LightP!vars
    /\ Light!Init <=> LightP!Init
  <1>1. Light!AddEdge <=> LightP!AddEdge
    BY SameLists, SamePoints, SameStack DEF Light!AddEdge, LightP!AddEdge, Light!Current,
          LightP!Current
  <1>2. Light!RemoveEdge <=> LightP!RemoveEdge
    BY SameLists, SamePoints, SameStack DEF Light!RemoveEdge, LightP!RemoveEdge,
          Light!Current, LightP!Current, Light!NextHit, LightP!NextHit
  <1>3. Light!MissedEdge <=> LightP!MissedEdge
    BY SamePoints, SameStack DEF Light!MissedEdge, LightP!MissedEdge, Light!Current,
                                 LightP!Current, Light!NextHit, LightP!NextHit
  <1>4. Light!Next <=> LightP!Next
    BY <1>1, <1>2, <1>3 DEF Light!Next, LightP!Next
  <1>5. Light!vars = LightP!vars
    BY DEF Light!vars, LightP!vars
  <1>6. Light!Init <=> LightP!Init
    BY SamePoints, SameEdges, SameOrder DEF Light!Init, LightP!Init
  <1> QED BY <1>1, <1>2, <1>3, <1>4, <1>5, <1>6

(* and promises.                                                           *)
LEMMA SameLight ==
    /\ Light!Start = LightP!Start
    /\ \A p : Light!Ahead(p) = LightP!Ahead(p)
    /\ \A p : Light!Beside(p) = LightP!Beside(p)
    /\ \A p : Light!OnStartRay(p) <=> LightP!OnStartRay(p)
    /\ Light!Aligned <=> LightP!Aligned
    /\ \A p, q : Light!Later(p, q) <=> LightP!Later(p, q)
    /\ Light!SortedCounterClockwise <=> LightP!SortedCounterClockwise
    /\ Light!SortedUnlessAligned <=> LightP!SortedUnlessAligned
    /\ Light!ThrowsOnlyAligned <=> LightP!ThrowsOnlyAligned
    /\ Light!StackSorted <=> LightP!StackSorted
    /\ Light!TypeOK <=> LightP!TypeOK
  <1>1. Light!Start = LightP!Start
    BY DEF Light!Start, LightP!Start
  <1>2. \A p : Light!Ahead(p) = LightP!Ahead(p)
    BY <1>1 DEF Light!Ahead, LightP!Ahead
  <1>3. \A p : Light!Beside(p) = LightP!Beside(p)
    BY <1>1, SamePoints DEF Light!Beside, LightP!Beside
  <1>4. \A p : Light!OnStartRay(p) <=> LightP!OnStartRay(p)
    BY <1>2, <1>3 DEF Light!OnStartRay, LightP!OnStartRay
  <1>5. Light!Aligned <=> LightP!Aligned
    BY <1>2, <1>3, <1>4 DEF Light!Aligned, LightP!Aligned, Light!Faces, LightP!Faces
  <1>6. \A p, q : Light!Later(p, q) <=> LightP!Later(p, q)
    BY <1>3, SamePoints DEF Light!Later, LightP!Later
  <1>7. Light!SortedCounterClockwise <=> LightP!SortedCounterClockwise
    BY SameOrder, <1>4, <1>6 DEF Light!SortedCounterClockwise, LightP!SortedCounterClockwise
  <1>8. Light!SortedUnlessAligned <=> LightP!SortedUnlessAligned
    BY <1>5, <1>7 DEF Light!SortedUnlessAligned, LightP!SortedUnlessAligned
  <1>9. Light!ThrowsOnlyAligned <=> LightP!ThrowsOnlyAligned
    BY <1>5 DEF Light!ThrowsOnlyAligned, LightP!ThrowsOnlyAligned
  <1>10. Light!StackSorted <=> LightP!StackSorted
    BY <1>5, SameStack, SamePoints DEF Light!StackSorted, LightP!StackSorted
  <1>11. Light!TypeOK <=> LightP!TypeOK
    BY DEF Light!TypeOK, LightP!TypeOK
  <1> QED BY <1>1, <1>2, <1>3, <1>4, <1>5, <1>6, <1>7, <1>8, <1>9, <1>10, <1>11

-----------------------------------------------------------------------------
(* The invariant holds of the component that a behaviour is one of.          *)
WidgetsInv ==
    /\ component = "ElementEffects" => PageP!StyleInv
    /\ component = "DragDrop" => PageP!DragInv
    /\ component = "Slider" => PageP!SliderInv
    /\ component = "Sortable" => PageP!SortInv
    /\ component = "Shadow" => LightP!StackInv

(* The constants are what the theorems ask for: the drops of the page,     *)
LEMMA DragPage == PageP!Page
  <1>1. \A S \in SUBSET {"outer", "inner"} : S # {} =>
            \E x \in S : \A y \in S : <<y, x>> \notin {<<"inner", "outer">>}
    <2> TAKE S \in SUBSET {"outer", "inner"}
    <2>1. CASE "inner" \in S
      BY <2>1
    <2>2. CASE "inner" \notin S
      BY <2>2
    <2> QED BY <2>1, <2>2
  <1> QED BY <1>1 DEF PageP!Page, PageP!None

(* the options of the sliders,                                             *)
LEMMA SlideOptions == PageP!Options
  <1>1. -1 .. 3 \subseteq Int
    OBVIOUS
  <1>2. \A a \in {{0, 1, 2}, {0, 2}} : a # {} /\ a \subseteq Int
    OBVIOUS
  <1> QED BY <1>1, <1>2 DEF PageP!Options

(* the items,                                                              *)
LEMMA SortElements == PageP!Elements
  <1>1. IsFiniteSet({"x", "y", "z"})
    <2>1. {"x", "y", "z"} = ({} \union {"x"} \union {"y"}) \union {"z"}
      OBVIOUS
    <2>2. IsFiniteSet({} \union {"x"})
      BY FS_EmptySet, FS_AddElement
    <2>3. IsFiniteSet({} \union {"x"} \union {"y"})
      BY <2>2, FS_AddElement
    <2>4. IsFiniteSet(({} \union {"x"} \union {"y"}) \union {"z"})
      BY <2>3, FS_AddElement
    <2> QED BY <2>1, <2>4
  <1> QED BY <1>1 DEF PageP!Elements, PageP!Sort!None, PageP!IsFiniteSet, IsFiniteSet

(* The boxes of the scenes lie inside the border, and no two of them meet.    *)
LEMMA BoxesApart ==
    /\ Boxes \subseteq Int \X Int \X Int \X Int
    /\ \A a \in Boxes :
        /\ a[1] > 0 /\ a[2] > 0 /\ a[3] >= 0 /\ a[4] >= 0
        /\ a[1] + a[3] < 10 /\ a[2] + a[4] < 10
    /\ \A a, b \in Boxes :
        \/ a = b
        \/ a[1] + a[3] < b[1] \/ b[1] + b[3] < a[1]
        \/ a[2] + a[4] < b[2] \/ b[2] + b[4] < a[2]
  BY DEF Boxes

(* There are finitely many.                                                *)
LEMMA BoxesFinite == IsFiniteSet(Boxes)
  <1> DEFINE S == {<<2, 2, 2, 2>>, <<2, 6, 5, 1>>, <<6, 1, 2, 4>>}
  <1>1. IsFiniteSet({})
    BY FS_EmptySet
  <1>2. IsFiniteSet({<<2, 2, 2, 2>>})
    BY FS_Singleton
  <1>3. IsFiniteSet({<<2, 2, 2, 2>>} \union {<<2, 6, 5, 1>>})
    BY <1>2, FS_AddElement
  <1>4. IsFiniteSet(({<<2, 2, 2, 2>>} \union {<<2, 6, 5, 1>>}) \union {<<6, 1, 2, 4>>})
    BY <1>3, FS_AddElement
  <1>5. S = ({<<2, 2, 2, 2>>} \union {<<2, 6, 5, 1>>}) \union {<<6, 1, 2, 4>>}
    OBVIOUS
  <1>6. IsFiniteSet(S)
    BY <1>4, <1>5
  <1> HIDE DEF S
  <1>7. IsFiniteSet(S \union {<<5, 8, 4, 1>>})
    BY <1>6, FS_AddElement
  <1>8. IsFiniteSet((S \union {<<5, 8, 4, 1>>}) \union {<<1, 8, 1, 1>>})
    BY <1>7, FS_AddElement
  <1>9. Boxes = (S \union {<<5, 8, 4, 1>>}) \union {<<1, 8, 1, 1>>}
    BY DEF Boxes, S
  <1> QED BY <1>8, <1>9

(* Each scene lists some of them, each once.                                *)
LEMMA ScenesAre ==
    ASSUME NEW scene \in BoxScenes
    PROVE  scene \in Seq(Boxes) /\ IsInjective(scene)
  <1>1. PICK s \in SUBSET Boxes : scene = SetToSeq(s)
    BY DEF BoxScenes
  <1>2. IsFiniteSet(s)
    BY BoxesFinite, FS_Subset
  <1>3. Cardinality(s) \in Nat /\ ExistsBijection(1 .. Cardinality(s), s)
    BY <1>2, FS_CardinalityType
  <1>4. \E f \in [1 .. Cardinality(s) -> s] : IsInjective(f)
    BY <1>3 DEF ExistsBijection, Bijection, Injection, IsInjective
  <1>5. scene \in [1 .. Cardinality(s) -> s] /\ IsInjective(scene)
    BY <1>1, <1>4 DEF SetToSeq
  <1>6. scene \in Seq(s)
    BY <1>3, <1>5
  <1> QED BY <1>1, <1>5, <1>6

(* So the scenes are what the theorems ask for.                            *)
LEMMA LightScenes == LightP!Scenery /\ LightP!RectanglesApart
  <1>1. BoxScenes \subseteq Seq(Int \X Int \X Int \X Int)
    BY ScenesAre, BoxesApart
  <1>2. BoxLights \subseteq (1 .. 10 - 1) \X (1 .. 10 - 1)
    BY DEF BoxLights
  <1>3. LightP!Scenery
    BY <1>1, <1>2 DEF LightP!Scenery
  <1>4. ASSUME NEW scene \in BoxScenes, NEW i \in 1 .. Len(scene)
        PROVE  scene[i] \in Boxes
    BY ScenesAre
  <1>5. ASSUME NEW scene \in BoxScenes, NEW i \in 1 .. Len(scene), NEW j \in 1 .. Len(scene)
        PROVE  i = j \/ scene[i] # scene[j]
    BY ScenesAre DEF IsInjective
  <1>6. LightP!RectanglesApart
    BY <1>4, <1>5, BoxesApart DEF LightP!RectanglesApart
  <1> QED BY <1>3, <1>6

(* The invariant holds at the beginning.                                   *)
LEMMA WidgetsInit == Init => WidgetsInv
  <1> SUFFICES ASSUME Init PROVE WidgetsInv
    OBVIOUS
  <1>1. ASSUME component = "ElementEffects" PROVE PageP!StyleInv
    <2>1. PageP!Style!Init
      BY <1>1, SameElement DEF Init
    <2> QED BY <2>1, PagesOfRun, PageP!StyleInit
  <1>2. ASSUME component = "Slider" PROVE PageP!SliderInv
    <2>1. PageP!Sliding!Init
      BY <1>2, SameSlide DEF Init
    <2> QED BY <2>1, SlideOptions, PageP!SliderInit
  <1>3. ASSUME component = "DragDrop" PROVE PageP!DragInv
    <2>1. PageP!Init
      BY <1>3, SameDrag DEF Init
    <2> QED BY <2>1, DragPage, PageP!DragInit
  <1>4. ASSUME component = "Sortable" PROVE PageP!SortInv
    <2>1. PageP!Sort!Init
      BY <1>4, SameSort DEF Init
    <2> QED BY <2>1, SortElements, PageP!SortStarts
  <1>5. ASSUME component = "Shadow" PROVE LightP!StackInv
    <2>1. LightP!Init
      BY <1>5, SameSweep DEF Init
    <2> QED BY <2>1, LightScenes, LightP!StackBegins
  <1> QED BY <1>1, <1>2, <1>3, <1>4, <1>5 DEF WidgetsInv

(* A step of the pages is a step, or none, of the component of the           *)
(* behaviour.                                                              *)
LEMMA StepOfComponent ==
    ASSUME [Next]_vars
    PROVE  /\ component' = component
           /\ component = "ElementEffects" => [PageP!Style!Next]_(PageP!Style!vars)
           /\ component = "DragDrop" => [PageP!Next]_(PageP!vars)
           /\ component = "Slider" => [PageP!Sliding!Next]_(PageP!Sliding!vars)
           /\ component = "Sortable" => [PageP!Sort!Next]_(PageP!Sort!vars)
           /\ component = "Shadow" => [LightP!Next]_(LightP!vars)
  <1>1. CASE Next
    <2>1. component' = component
      BY <1>1 DEF Next, IsElement, IsDrag, IsSort, IsSlide, IsLight
    <2>2. ASSUME component = "ElementEffects" PROVE Element!Next
      BY <1>1, <2>2 DEF Next, IsElement, IsDrag, IsSort, IsSlide, IsLight
    <2>3. ASSUME component = "Slider" PROVE Slide!Next
      BY <1>1, <2>3 DEF Next, IsElement, IsDrag, IsSort, IsSlide, IsLight
    <2>4. ASSUME component = "DragDrop" PROVE Drag!Next
      BY <1>1, <2>4 DEF Next, IsElement, IsDrag, IsSort, IsSlide, IsLight
    <2>5. ASSUME component = "Sortable" PROVE Sort!Next
      BY <1>1, <2>5 DEF Next, IsElement, IsDrag, IsSort, IsSlide, IsLight
    <2>6. ASSUME component = "Shadow" PROVE Light!Next
      BY <1>1, <2>6 DEF Next, IsElement, IsDrag, IsSort, IsSlide, IsLight
    <2> QED BY <2>1, <2>2, <2>3, <2>4, <2>5, <2>6, SameElement, SameDrag, SameSort,
               SameSlide,
               SameSweep
  <1>2. CASE UNCHANGED vars
    BY <1>2 DEF vars, PageP!Style!vars, PageP!vars, PageP!Sort!vars, PageP!Sliding!vars,
                LightP!vars
  <1> QED BY <1>1, <1>2

(* Every step keeps it, and what is promised of steps.                     *)
LEMMA WidgetsStep ==
    ASSUME WidgetsInv, [Next]_vars
    PROVE  /\ WidgetsInv'
           /\ component = "Slider" => Slide!OnlyAsked \/ UNCHANGED vars
           /\ component = "DragDrop" => Drag!DropIsInnermost
           /\ component = "Sortable" => Sort!ChangesAreTold
  <1>1. ASSUME component = "ElementEffects" PROVE PageP!StyleInv'
    <2>1. PageP!StyleInv /\ [PageP!Style!Next]_(PageP!Style!vars)
      BY <1>1, StepOfComponent DEF WidgetsInv
    <2> QED BY <2>1, PagesOfRun, PageP!StyleStep
  <1>2. ASSUME component = "Slider"
        PROVE  PageP!SliderInv' /\ (PageP!Sliding!OnlyAsked \/ UNCHANGED PageP!Sliding!vars)
    <2>1. PageP!SliderInv /\ [PageP!Sliding!Next]_(PageP!Sliding!vars)
      BY <1>2, StepOfComponent DEF WidgetsInv
    <2> QED BY <2>1, SlideOptions, PageP!SliderStep
  <1>3. UNCHANGED PageP!Sliding!vars => PageP!Sliding!OnlyAsked
    BY DEF PageP!Sliding!vars, PageP!Sliding!OnlyAsked
  <1>4. ASSUME component = "DragDrop" PROVE PageP!DragInv' /\ PageP!DropIsInnermost
    <2>1. PageP!DragInv /\ [PageP!Next]_(PageP!vars)
      BY <1>4, StepOfComponent DEF WidgetsInv
    <2> QED BY <2>1, DragPage, PageP!DragStep, PageP!DropStep
  <1>5. ASSUME component = "Sortable" PROVE PageP!SortInv' /\ PageP!Sort!ChangesAreTold
    <2>1. PageP!SortInv /\ [PageP!Sort!Next]_(PageP!Sort!vars)
      BY <1>5, StepOfComponent DEF WidgetsInv
    <2> QED BY <2>1, SortElements, PageP!SortStep
  <1>6. ASSUME component = "Shadow" PROVE LightP!StackInv'
    <2>1. LightP!StackInv /\ [LightP!Next]_(LightP!vars)
      BY <1>6, StepOfComponent DEF WidgetsInv
    <2> QED BY <2>1, LightP!StackKeeps
  <1> QED BY <1>1, <1>2, <1>3, <1>4, <1>5, <1>6, StepOfComponent, SameDrag, SameSort,
             SameSlide
          DEF WidgetsInv

(* So it always holds.                                                     *)
LEMMA WidgetsKept == Spec => []WidgetsInv
  <1>1. WidgetsInv /\ [Next]_vars => WidgetsInv'
    BY WidgetsStep
  <1> QED BY <1>1, WidgetsInit, PTL DEF Spec

-----------------------------------------------------------------------------
(* Effects one after the other leave nothing of theirs in the style of an    *)
(* element, lose of the page's own only what Loses names, and leave the       *)
(* element shown or hidden as the accepted effect set out to; toggles take    *)
(* turns.                                                                  *)
THEOREM EffectsKeepPromise == Spec => []ElementEffectsPromise
  <1>1. WidgetsInv => ElementEffectsPromise
    BY PageP!StyleInvImplies, SameElement DEF WidgetsInv, ElementEffectsPromise
  <1> QED BY <1>1, WidgetsKept, PTL

(* A drag is the only one and ends for good, whatever the order of presses,   *)
(* moves, escapes and timers, and what is dropped goes to the innermost drop  *)
(* that takes it.                                                          *)
THEOREM DragDropKeepsPromise == Spec => DragDropPromise
  <1>1. WidgetsInv => (component = "DragDrop" =>
            /\ Drag!TypeOK /\ Drag!ActiveIsPressed /\ Drag!QuietWithoutDrag
            /\ Drag!DragIsBusy /\ Drag!RestsAtDelta)
    BY DragPage, PageP!DragInvImplies, SameDrag DEF WidgetsInv
  <1>2. WidgetsInv /\ [Next]_vars => [component = "DragDrop" => Drag!DropIsInnermost]_vars
    BY WidgetsStep
  <1> QED BY <1>1, <1>2, WidgetsKept, PTL DEF Spec, DragDropPromise

(* Dragging items loses none and puts each beside the one it hovers over; the *)
(* page is told of the lists that a drag has changed, and of others only by a *)
(* press that Escape ends before it moves.                                  *)
THEOREM SortableKeepsPromise == Spec => SortablePromise
  <1>1. WidgetsInv => (component = "Sortable" =>
            Sort!TypeOK /\ Sort!ItemsKept /\ Sort!HoverPlaces)
    BY SortElements, PageP!SortInvImplies, SameSort DEF WidgetsInv
  <1>2. WidgetsInv /\ [Next]_vars => [component = "Sortable" => Sort!ChangesAreTold]_vars
    BY WidgetsStep
  <1> QED BY <1>1, <1>2, WidgetsKept, PTL DEF Spec, SortablePromise

(* Restricted handles of a slider stay in order, the page has been told of    *)
(* every change once no drag is on, and only the handle asked for moves.      *)
THEOREM SliderKeepsPromise == Spec => SliderPromise
  <1>1. WidgetsInv => (component = "Slider" =>
            Slide!TypeOK /\ Slide!HandlesInOrder /\ Slide!ReportedUnlessDragging)
    BY SameSlide DEF WidgetsInv, PageP!SliderInv
  <1>2. WidgetsInv /\ [Next]_vars => [component = "Slider" => Slide!OnlyAsked]_vars
    BY WidgetsStep
  <1> QED BY <1>1, <1>2, WidgetsKept, PTL DEF Spec, SliderPromise

(* The sweep visits the end points counter-clockwise, finds a hit wherever it *)
(* compares distances and keeps its stack sorted, but in the aligned case.    *)
THEOREM ShadowKeepsPromise == Spec => []ShadowPromise
  <1>1. WidgetsInv => ShadowPromise
    <2> SUFFICES ASSUME component = "Shadow", LightP!StackInv
                 PROVE  Light!TypeOK /\ Light!SortedUnlessAligned /\ Light!ThrowsOnlyAligned
                        /\ Light!StackSorted
      BY DEF WidgetsInv, ShadowPromise
    <2>1. LightP!SweepInv
      BY DEF LightP!StackInv
    <2>2. LightP!TypeOK /\ LightP!SortedUnlessAligned /\ LightP!ThrowsOnlyAligned
      BY <2>1, LightP!SweepImplies
    <2>3. LightP!StackSorted
      BY LightP!StackImplies
    <2> QED BY <2>2, <2>3, SameLight
  <1> QED BY <1>1, WidgetsKept, PTL
=============================================================================
