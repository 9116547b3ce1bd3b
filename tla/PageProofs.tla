------------------------------ MODULE PageProofs ------------------------------
(***************************************************************************)
(* Theorems about what moves and changes on the page: about DragDrop, for any *)
(* draggables, drops and points; about Sortable, for any lists and finitely   *)
(* many items; about ElementEffects, for any number of effects at a time; and *)
(* about Slider, for any number of handles and any values: whole numbers, of  *)
(* which every slider allows at least one.                                 *)
(***************************************************************************)
EXTENDS DragDrop, QueueFacts, FiniteSetTheorems, TLAPS

CONSTANTS
    Items, Lists, Lost,         \* of Sortable
    MaxEffects, FollowMixed, Pages,  \* of ElementEffects
    Handles, Wanted, Allowed    \* of Slider
VARIABLES
    order, observers, lastValue, dragged, last, atStart, told, recreated, gone,
    page, style, made, overflow, visible, effects, lost, mixed, asked, appeared,
    allowed, restricted, values, activeHandleIdx, handleActive, handleDragging,
    disabled, event, listening, reported, askedHandle

Sort == INSTANCE Sortable

Style == INSTANCE ElementEffects WITH dropped <- lost

Sliding == INSTANCE Slider WITH
    active <- handleActive, dragging <- handleDragging, asked <- askedHandle

-----------------------------------------------------------------------------
(* DragDrop.                                                               *)
(* What the constants stand for: "none" and 0 stand for null, and among any   *)
(* drops there is one that none of the others is inside of, as in a document. *)
Page ==
    /\ None \notin Draggable \union Drops
    /\ 1 \in Points /\ Points \subseteq Int \ {0}
    /\ \A S \in SUBSET Drops : S # {} => \E x \in S : \A y \in S : <<y, x>> \notin Inside

Ends == {<<"end", d>> : d \in Draggable}
Returns == {<<"revert", d, n>> : d \in {e \in Draggable : Revert[e] # "no"}, n \in Int}

DragRecord ==
    [dragging : BOOLEAN, at : Int, delta : Points \union {0}, z : {"own", "top"},
     scroll : BOOLEAN]

Typed ==
    /\ mouse \in [down : BOOLEAN, at : Points]
    /\ drags \subseteq Draggable /\ drops \subseteq Drops
    /\ active \in Draggable \union {None} /\ timeouts \subseteq Draggable
    /\ timeout \in Draggable \union {None}
    /\ lastPointer \in Points \union {0} /\ lastActive \in Drops \union {None}
    /\ drag \in [Draggable -> DragRecord]
    /\ settling \in Seq(Ends \union Returns)
    /\ busy \in BOOLEAN

(* An element that was ever dragged has a delta, and only such elements are   *)
(* moved back; the others are where the pointer may be.                      *)
Placed ==
    /\ \A d \in Draggable :
        /\ drag[d].dragging \/ drag[d].scroll => drag[d].delta # 0
        /\ Revert[d] = "no" \/ drag[d].delta = 0 => drag[d].at \in Points
    /\ \A i \in 1 .. Len(settling) :
        settling[i][1] # "end" => drag[settling[i][2]].delta # 0

(* Only what is dragged is raised, scrolls and hovers.                       *)
Quiet ==
    Survived({"threw", "scrolling"}) =>
        /\ \A d \in Draggable :
            drag[d].dragging \/ (drag[d].z = "own" /\ ~drag[d].scroll)
        /\ lastActive # None => \E d \in Draggable : drag[d].dragging

(* A callback threw at the end of a drag, and left the flag that keeps every  *)
(* other drag from beginning.                                              *)
Stuck == busy /\ settling = <<>> /\ timeouts = {}

(* At most one draggable is active or about to be, and only it is dragged.    *)
Pressed ==
    /\ \/ timeouts = {}
       \/ active = None /\ timeouts = {timeout} /\ (mouse.down \/ drags = {})
    /\ active # None /\ ~mouse.down => drags = {} \/ ("threw" \in mishaps /\ Stuck)
    /\ drags = {} /\ "destroyed" \notin mishaps => active = None /\ timeouts = {}
    /\ \A d \in Draggable : drag[d].dragging => active = d

(* An element is where its delta says, or the first effect takes it there.    *)
Rests(d) ==
    \/ Revert[d] = "failure" \/ drag[d].dragging
    \/ drag[d].delta \in {0, drag[d].at}
    \/ /\ settling # <<>>
       /\ settling[1] = <<"revert", d, drag[d].at - drag[d].delta>>

(* The effects of a drag are over before the next one begins.                *)
OneAtATime ==
    /\ active # None \/ timeouts # {} => settling = <<>>
    /\ \A d \in Draggable : drag[d].dragging => busy
    /\ settling # <<>> =>
        /\ busy
        /\ \/ Len(settling) = 1 /\ settling[1] \in Ends
           \/ Len(settling) = 2 /\ settling[1] \in Returns /\ settling[2] \in Ends
        /\ settling[1] \in Returns =>
            LET x == drag[settling[1][2]] IN settling[1][3] = x.at - x.delta

Settles ==
    Survived({"threw", "early"}) =>
        OneAtATime /\ \A d \in Draggable : Rests(d)

Innermost(x, p, d) ==
    /\ x \in drops /\ isAffected(p, d, x)
    /\ \A y \in drops : isAffected(p, d, y) => <<y, x>> \notin Inside

(* What is hovered over is the innermost drop under the pointer, unless the   *)
(* drag was cut short by a callback that threw.                             *)
HoversAt ==
    \/ drags = {}
    \/ /\ active # None /\ lastPointer = mouse.at
       /\ Innermost(lastActive, mouse.at, active)
       /\ drag[active].dragging \/ Stuck
    \/ active # None /\ ~drag[active].dragging /\ lastPointer = 0 /\ Stuck
    \/ active = None /\ Stuck

Hovers ==
    Survived({"removed", "scrolling"}) =>
        /\ lastActive # None => lastActive \in drops /\ HoversAt
        /\ \A d \in Draggable : drag[d].scroll =>
            (active = d /\ drag[d].dragging) \/ (active \in {d, None} /\ Stuck)
        /\ active # None /\ (drag[active].dragging \/ drag[active].scroll) =>
            lastPointer \in {0, mouse.at} \/ drags = {}

DragInv ==
    /\ Typed /\ Placed /\ Quiet
    /\ "lost" \notin mishaps => Pressed /\ Settles /\ Hovers

-----------------------------------------------------------------------------
(* What show finds: no drop, or the innermost of those that take the       *)
(* element.                                                                *)
LEMMA ShowIs ==
    ASSUME Page, Typed, NEW p, NEW d
    PROVE  /\ Show(p, d) \in Drops \union {None}
           /\ Show(p, d) # None => drops = {} \/ Innermost(Show(p, d), p, d)
  <1> DEFINE affected == {x \in drops : isAffected(p, d, x)}
  <1>1. affected \in SUBSET Drops
    BY DEF Typed
  <1>2. ASSUME affected # {}
        PROVE  /\ findDeepestChild(affected) \in affected
               /\ \A y \in affected : <<y, findDeepestChild(affected)>> \notin Inside
    <2>1. \E x \in affected : \A y \in affected : <<y, x>> \notin Inside
      BY <1>1, <1>2 DEF Page
    <2> HIDE DEF affected
    <2> QED BY <2>1 DEF findDeepestChild
  <1>3. CASE drops = {}
    BY <1>3 DEF Show, Typed
  <1>4. CASE drops # {} /\ affected = {}
    BY <1>4 DEF Show
  <1>5. CASE drops # {} /\ affected # {}
    <2>1. Show(p, d) = findDeepestChild(affected)
      BY <1>5 DEF Show
    <2> QED BY <1>1, <1>2, <1>5, <2>1 DEF Innermost
  <1> QED BY <1>3, <1>4, <1>5

(* What waits in the queue of effects.                                     *)
LEMMA EntryIs ==
    ASSUME NEW e \in Ends \union Returns
    PROVE  /\ e \in Ends => e[1] = "end" /\ e[2] \in Draggable /\ e \notin Returns
           /\ e \in Returns => /\ e[1] = "revert" /\ e[2] \in Draggable
                               /\ Revert[e[2]] # "no" /\ e[3] \in Int
  BY DEF Ends, Returns

(* No point is 0.                                                          *)
LEMMA PointsAre == Page => Points \union {0} \subseteq Int /\ 0 \notin Points
  BY DEF Page

(* The invariant at the beginning.                                         *)
LEMMA DragInit == Page /\ Init => DragInv
  <1> SUFFICES ASSUME Page, Init PROVE DragInv
    OBVIOUS
  <1>1. \A d \in Draggable : drag[d] = [dragging |-> FALSE, at |-> 1, delta |-> 0,
                                        z |-> "own", scroll |-> FALSE]
    BY DEF Init
  <1>2. drag \in [Draggable -> DragRecord]
    BY DEF Init, Page, DragRecord
  <1>3. Typed
    <2>1. settling \in Seq(Ends \union Returns)
      BY DEF Init
    <2>2. mouse \in [down : BOOLEAN, at : Points]
      BY DEF Init, Page
    <2> QED BY <1>2, <2>1, <2>2 DEF Init, Typed
  <1>4. Placed
    BY <1>1 DEF Init, Page, Placed
  <1>5. Quiet
    BY <1>1 DEF Init, Quiet
  <1>6. Pressed
    BY <1>1 DEF Init, Pressed
  <1>7. Settles
    BY <1>1 DEF Init, Settles, OneAtATime, Rests
  <1>8. Hovers
    BY <1>1 DEF Init, Hovers
  <1> QED BY <1>3, <1>4, <1>5, <1>6, <1>7, <1>8 DEF DragInv

-----------------------------------------------------------------------------
(* Steps that leave every element as it is.                                 *)
LEMMA MouseDownStep ==
    ASSUME Page, DragInv, MouseDown
    PROVE  DragInv'
  <1>1. /\ ~mouse.down /\ mouse'.down /\ mouse'.at = mouse.at
        /\ mouse' \in [down : BOOLEAN, at : Points]
        /\ UNCHANGED <<drags, drops, lastPointer, lastActive, drag, settling, busy, mishaps>>
    BY DEF MouseDown, DragInv, Typed
  <1>2. PICK d \in drags :
            \/ UNCHANGED <<active, timeouts, timeout>>
            \/ ~busy /\ timeouts' = timeouts \union {d} /\ timeout' = d /\ UNCHANGED active
            \/ ~busy /\ active' = d /\ UNCHANGED <<timeouts, timeout>>
    BY DEF MouseDown, MayInit
  <1>3. Typed'
    BY <1>1, <1>2 DEF DragInv, Typed
  <1>4. Placed' /\ Quiet'
    BY <1>1 DEF DragInv, Placed, Quiet, Survived
  <1>5. ASSUME "lost" \notin mishaps PROVE Pressed' /\ Settles' /\ Hovers'
    <2>1. /\ Pressed /\ Settles /\ Hovers /\ drags # {} /\ d \in Draggable
          /\ None \notin Draggable
      BY <1>5, <1>2 DEF DragInv, Typed, Page
    <2>2. \/ UNCHANGED <<active, timeouts, timeout>>
          \/ /\ ~busy /\ active = None /\ timeouts = {}
             /\ \/ timeouts' = {d} /\ timeout' = d /\ active' = None
                \/ active' = d /\ timeouts' = {}
      BY <1>1, <1>2, <2>1 DEF Pressed, Stuck
    <2>3. Pressed'
      BY <1>1, <2>1, <2>2 DEF Pressed
    <2>4. Settles'
      BY <1>1, <2>1, <2>2 DEF Settles, OneAtATime, Rests, Survived
    <2>5. Hovers'
      <3>1. HoversAt' \/ lastActive = None \/ ~Survived({"removed", "scrolling"})
        BY <1>1, <2>1, <2>2 DEF Hovers, HoversAt, Innermost, isAffected, Stuck
      <3>2. ASSUME NEW e \in Draggable, drag[e].scroll, Survived({"removed", "scrolling"})
            PROVE  (active' = e /\ drag[e].dragging) \/ (active' \in {e, None} /\ Stuck')
        BY <1>1, <2>1, <2>2, <3>2 DEF Hovers, Stuck
      <3>3. ASSUME active' # None, drag[active'].dragging \/ drag[active'].scroll,
                   Survived({"removed", "scrolling"})
            PROVE  lastPointer \in {0, mouse.at}
        <4>1. UNCHANGED active
          BY <2>1, <2>2, <3>3 DEF Hovers, Stuck, Pressed
        <4> QED BY <2>1, <3>3, <4>1 DEF Hovers
      <3> QED BY <1>1, <2>1, <3>1, <3>2, <3>3 DEF Hovers, Survived
    <2> QED BY <2>3, <2>4, <2>5
  <1> QED BY <1>1, <1>3, <1>4, <1>5 DEF DragInv

(* The delay of a press is over.                                           *)
LEMMA DelayOverStep ==
    ASSUME Page, DragInv, DelayOver
    PROVE  DragInv'
  <1>1. PICK d \in timeouts : active' = d /\ timeouts' = timeouts \ {d}
    BY DEF DelayOver
  <1>2. /\ timeout' = None
        /\ UNCHANGED <<mouse, drags, drops, lastPointer, lastActive, drag, settling, busy,
                       mishaps>>
    BY DEF DelayOver
  <1>3. Typed'
    BY <1>1, <1>2 DEF DragInv, Typed
  <1>4. Placed' /\ Quiet'
    BY <1>2 DEF DragInv, Placed, Quiet, Survived
  <1>5. ASSUME "lost" \notin mishaps PROVE Pressed' /\ Settles' /\ Hovers'
    <2>1. /\ Pressed /\ Settles /\ Hovers /\ d \in Draggable /\ d # None
          /\ active = None /\ timeouts = {d} /\ timeouts' = {} /\ ~Stuck
          /\ mouse.down \/ drags = {}
      BY <1>5, <1>1 DEF DragInv, Typed, Page, Pressed, Stuck
    <2>2. \A e \in Draggable : ~drag[e].dragging
      BY <2>1 DEF Pressed, Page
    <2>3. Pressed'
      BY <1>1, <1>2, <2>1, <2>2 DEF Pressed
    <2>4. Settles'
      BY <1>1, <1>2, <2>1, <2>2 DEF Settles, OneAtATime, Rests, Survived
    <2>5. Hovers'
      BY <1>1, <1>2, <2>1, <2>2 DEF Hovers, HoversAt, Survived, Page
    <2> QED BY <2>3, <2>4, <2>5
  <1> QED BY <1>2, <1>3, <1>4, <1>5 DEF DragInv

(* The page scrolls under the pointer.                                     *)
LEMMA ScrollTickStep ==
    ASSUME Page, DragInv, ScrollTick
    PROVE  DragInv'
  <1>1. PICK d \in Draggable :
            drag[d].scroll /\ lastPointer # 0 /\ lastActive' = Show(lastPointer, d)
    BY DEF ScrollTick
  <1>2. UNCHANGED <<mouse, drags, drops, active, timeouts, timeout, lastPointer, drag,
                    settling, busy, mishaps>>
    BY DEF ScrollTick
  <1>3. PICK x : x = Show(lastPointer, d)
    OBVIOUS
  <1>4. /\ x \in Drops \union {None}
        /\ x # None => drops = {} \/ Innermost(x, lastPointer, d)
    BY <1>3, ShowIs DEF DragInv
  <1>5. lastActive' = x
    BY <1>1, <1>3
  <1>6. Typed'
    BY <1>2, <1>4, <1>5 DEF DragInv, Typed
  <1>7. Placed' /\ Quiet'
    BY <1>1, <1>2, <1>5 DEF DragInv, Placed, Quiet, Survived
  <1>8. ASSUME "lost" \notin mishaps PROVE Pressed' /\ Settles' /\ Hovers'
    <2>1. Pressed /\ Settles /\ Hovers
      BY <1>8 DEF DragInv
    <2>2. Pressed'
      BY <1>2, <2>1 DEF Pressed, Stuck
    <2>3. Settles'
      BY <1>2, <2>1 DEF Settles, OneAtATime, Rests, Survived
    <2>4. ASSUME Survived({"removed", "scrolling"}), x # None
          PROVE  x \in drops /\ HoversAt'
      <3>1. CASE drops = {}
        <4>1. lastActive = x
          BY <1>3, <3>1 DEF Show
        <4> QED BY <2>1, <2>4, <3>1, <4>1 DEF Hovers
      <3>2. CASE Innermost(x, lastPointer, d)
        <4>1. d # None
          BY DEF Page
        <4>2. (active = d /\ drag[d].dragging) \/ (active \in {d, None} /\ Stuck)
          BY <1>1, <2>1, <2>4 DEF Hovers
        <4>3. active = d => lastPointer = mouse.at \/ drags = {}
          BY <1>1, <2>1, <2>4, <4>1 DEF Hovers
        <4> QED BY <1>2, <1>5, <3>2, <4>1, <4>2, <4>3 DEF HoversAt, Innermost, isAffected, Stuck
      <3> QED BY <1>4, <2>4, <3>1, <3>2
    <2>5. Hovers'
      BY <1>2, <1>5, <2>1, <2>4 DEF Hovers, Stuck, Survived
    <2> QED BY <2>2, <2>3, <2>5
  <1> QED BY <1>2, <1>6, <1>7, <1>8 DEF DragInv

(* The release of the button is lost.                                      *)
LEMMA LostReleaseStep ==
    ASSUME Page, DragInv, LostRelease
    PROVE  DragInv'
  <1>1. /\ mouse' \in [down : BOOLEAN, at : Points] /\ mishaps' = mishaps \union {"lost"}
        /\ UNCHANGED <<drags, drops, active, timeouts, timeout, lastPointer, lastActive, drag,
                       settling, busy>>
    BY DEF LostRelease, DragInv, Typed
  <1>2. Typed'
    BY <1>1 DEF DragInv, Typed
  <1>3. Placed' /\ Quiet'
    BY <1>1 DEF DragInv, Placed, Quiet, Survived
  <1> QED BY <1>1, <1>2, <1>3 DEF DragInv

(* A draggable is destroyed.                                               *)
LEMMA DestroyStep ==
    ASSUME Page, DragInv, Destroy
    PROVE  DragInv'
  <1>1. /\ drags' \subseteq drags
        /\ mishaps' = mishaps \union
                (IF active # None \/ timeouts # {} THEN {"destroyed"} ELSE {})
        /\ UNCHANGED <<mouse, drops, active, timeouts, timeout, lastPointer, lastActive, drag,
                       settling, busy>>
    BY DEF Destroy
  <1>2. Typed'
    BY <1>1 DEF DragInv, Typed
  <1>3. Placed' /\ Quiet'
    BY <1>1 DEF DragInv, Placed, Quiet, Survived
  <1>4. ASSUME "lost" \notin mishaps PROVE Pressed' /\ Settles' /\ Hovers'
    <2>1. Pressed /\ Settles /\ Hovers
      BY <1>4 DEF DragInv
    <2>2. drags = {} => drags' = {}
      BY <1>1
    <2>3. Pressed'
      BY <1>1, <2>1, <2>2 DEF Pressed, Stuck
    <2>4. Settles'
      BY <1>1, <2>1 DEF Settles, OneAtATime, Rests, Survived
    <2>5. Hovers'
      BY <1>1, <2>1, <2>2 DEF Hovers, HoversAt, Innermost, isAffected, Stuck, Survived
    <2> QED BY <2>3, <2>4, <2>5
  <1> QED BY <1>1, <1>2, <1>3, <1>4 DEF DragInv

(* A drop is removed.                                                      *)
LEMMA RemoveDropStep ==
    ASSUME Page, DragInv, RemoveDrop
    PROVE  DragInv'
  <1>1. PICK x \in drops :
            /\ drops' = drops \ {x}
            /\ mishaps' = mishaps \union (IF lastActive = x THEN {"removed"} ELSE {})
    BY DEF RemoveDrop
  <1>2. UNCHANGED <<mouse, drags, active, timeouts, timeout, lastPointer, lastActive, drag,
                    settling, busy>>
    BY DEF RemoveDrop
  <1>3. Typed'
    BY <1>1, <1>2 DEF DragInv, Typed
  <1>4. Placed' /\ Quiet'
    BY <1>1, <1>2 DEF DragInv, Placed, Quiet, Survived
  <1>5. ASSUME "lost" \notin mishaps PROVE Pressed' /\ Settles' /\ Hovers'
    <2>1. Pressed /\ Settles /\ Hovers
      BY <1>5 DEF DragInv
    <2>2. Pressed'
      BY <1>1, <1>2, <2>1 DEF Pressed, Stuck
    <2>3. Settles'
      BY <1>1, <1>2, <2>1 DEF Settles, OneAtATime, Rests, Survived
    <2>4. Hovers'
      BY <1>1, <1>2, <2>1 DEF Hovers, HoversAt, Innermost, isAffected, Stuck, Survived
    <2> QED BY <2>2, <2>3, <2>4
  <1> QED BY <1>1, <1>2, <1>3, <1>4, <1>5 DEF DragInv

(* The first effect of the queue is over.                                   *)
LEMMA SettleStep ==
    ASSUME Page, DragInv, Settle
    PROVE  DragInv'
  <1> DEFINE s == settling[1]
             E == Ends \union Returns
  <1>1. /\ settling # <<>> /\ settling' = Tail(settling)
        /\ IF s[1] = "end" THEN busy' = FALSE /\ UNCHANGED drag
           ELSE drag' = [drag EXCEPT ![s[2]].at = @ - s[3]] /\ UNCHANGED busy
    BY DEF Settle
  <1>2. UNCHANGED <<mouse, drags, drops, active, timeouts, timeout, lastPointer, lastActive,
                    mishaps>>
    BY DEF Settle
  <1>3. settling \in Seq(E) /\ drag \in [Draggable -> DragRecord] /\ busy \in BOOLEAN
    BY DEF DragInv, Typed
  <1>4. /\ s \in E /\ settling' \in Seq(E)
        /\ Len(settling) \in Nat \ {0} /\ Len(settling') = Len(settling) - 1
        /\ \A i \in 1 .. Len(settling') : settling'[i] = settling[i + 1]
    <2> HIDE DEF E
    <2> QED BY <1>1, <1>3
  <1>5. /\ s \in Ends => s[1] = "end"
        /\ s \in Returns => /\ s[1] = "revert" /\ s[2] \in Draggable
                            /\ Revert[s[2]] # "no" /\ s[3] \in Int
    BY <1>4, EntryIs
  <1> HIDE DEF E, s
  <1>6. /\ drag' \in [Draggable -> DragRecord] /\ busy' \in BOOLEAN
        /\ \A d \in Draggable :
            /\ drag'[d].dragging = drag[d].dragging /\ drag'[d].delta = drag[d].delta
            /\ drag'[d].z = drag[d].z /\ drag'[d].scroll = drag[d].scroll
            /\ drag'[d].at = IF s \in Returns /\ d = s[2] THEN drag[d].at - s[3]
                             ELSE drag[d].at
        /\ s \in Returns => busy' = busy
    <2>1. CASE s \in Ends
      <3>1. s \notin Returns
        BY <1>4, <2>1, EntryIs DEF E
      <3> QED BY <1>1, <1>3, <1>5, <2>1, <3>1
    <2>2. CASE s \in Returns
      <3>1. drag' = [drag EXCEPT ![s[2]].at = @ - s[3]] /\ busy' = busy
        BY <1>1, <1>5, <2>2
      <3>2. [drag[s[2]] EXCEPT !.at = @ - s[3]] \in DragRecord
        <4>1. PICK r : r = drag[s[2]]
          OBVIOUS
        <4>2. r \in DragRecord /\ s[3] \in Int
          BY <1>3, <1>5, <2>2, <4>1
        <4>3. [r EXCEPT !.at = @ - s[3]] \in DragRecord
          BY <4>2 DEF DragRecord
        <4> QED BY <4>1, <4>3
      <3>3. drag' = [drag EXCEPT ![s[2]] = [drag[s[2]] EXCEPT !.at = @ - s[3]]]
        BY <1>3, <1>5, <2>2, <3>1
      <3>4. drag' \in [Draggable -> DragRecord]
        BY <1>3, <1>5, <2>2, <3>2, <3>3
      <3>5. \A d \in Draggable : drag'[d] =
                IF d = s[2] THEN [drag[d] EXCEPT !.at = @ - s[3]] ELSE drag[d]
        BY <1>3, <1>5, <2>2, <3>3
      <3>6. \A d \in Draggable : drag[d] \in DragRecord
        BY <1>3
      <3> QED BY <1>3, <2>2, <3>1, <3>4, <3>5, <3>6 DEF DragRecord
    <2> QED BY <1>4, <2>1, <2>2 DEF E
  <1>7. Typed'
    BY <1>2, <1>4, <1>6 DEF DragInv, Typed, E
  <1>8. Placed'
    <2>1. Placed
      BY DEF DragInv
    <2>2. s \in Returns => drag[s[2]].delta # 0 /\ Revert[s[2]] # "no"
      BY <1>4, <1>5, <2>1 DEF Placed, s
    <2>3. \A i \in 1 .. Len(settling') : settling'[i][1] # "end" =>
              drag'[settling'[i][2]].delta # 0
      <3> TAKE i \in 1 .. Len(settling')
      <3>1. /\ i + 1 \in 1 .. Len(settling) /\ settling'[i] = settling[i + 1]
            /\ settling[i + 1] \in E
        BY <1>3, <1>4
      <3>2. settling[i + 1][2] \in Draggable
        BY <3>1, EntryIs DEF E
      <3> QED BY <1>6, <2>1, <3>1, <3>2 DEF Placed
    <2> QED BY <1>6, <2>1, <2>2, <2>3 DEF Placed
  <1>9. Quiet'
    BY <1>2, <1>6 DEF DragInv, Quiet, Survived
  <1>10. ASSUME "lost" \notin mishaps PROVE Pressed' /\ Settles' /\ Hovers'
    <2>1. Pressed /\ Settles /\ Hovers /\ ~Stuck /\ active \in Draggable \union {None}
      BY <1>1, <1>10 DEF DragInv, Stuck, Typed
    <2>2. Pressed'
      BY <1>2, <1>6, <2>1 DEF Pressed
    <2>3. Settles'
      <3>1. ASSUME Survived({"threw", "early"}) PROVE OneAtATime' /\ \A d \in Draggable : Rests(d)'
        <4>1. /\ OneAtATime /\ (\A d \in Draggable : Rests(d))
              /\ active = None /\ timeouts = {}
              /\ \A d \in Draggable : ~drag[d].dragging
          BY <1>1, <2>1, <3>1 DEF Settles, OneAtATime, Pressed, Page
        <4>2. CASE Len(settling) = 1 /\ s \in Ends
          <5>1. settling' = <<>>
            BY <1>4, <4>2
          <5>2. \A d \in Draggable : settling[1] # <<"revert", d, drag[d].at - drag[d].delta>>
            BY <1>5, <4>2 DEF s
          <5>3. s \notin Returns
            BY <1>4, <4>2, EntryIs DEF E
          <5> QED BY <1>2, <1>6, <4>1, <5>1, <5>2, <5>3 DEF OneAtATime, Rests
        <4>3. CASE Len(settling) = 2 /\ s \in Returns /\ settling[2] \in Ends
          <5>1. Len(settling') = 1 /\ settling' # <<>>
            BY <1>4, <4>3
          <5>2. settling'[1] \in Ends
            <6>1. settling'[1] = settling[1 + 1]
              BY <1>4, <5>1
            <6> QED BY <4>3, <6>1
          <5>3. s[3] = drag[s[2]].at - drag[s[2]].delta
            BY <1>1, <4>1, <4>3 DEF OneAtATime, s
          <5>4. ASSUME NEW d \in Draggable PROVE Rests(d)'
            <6>1. CASE d = s[2]
              <7>1. PICK r : r = drag[d]
                OBVIOUS
              <7>2. r \in DragRecord
                BY <1>3, <7>1
              <7>3. r.at \in Int /\ r.delta \in Int
                <8>1. r.at \in Int /\ r.delta \in Points \union {0}
                  BY <7>2 DEF DragRecord
                <8>2. Points \union {0} \subseteq Int
                  BY PointsAre
                <8> QED BY <8>1, <8>2
              <7>4. r.at - (r.at - r.delta) = r.delta
                BY <7>3
              <7>5. drag'[d].at = drag'[d].delta
                BY <1>6, <4>3, <5>3, <6>1, <7>1, <7>4
              <7> QED BY <7>5 DEF Rests
            <6>2. CASE d # s[2]
              <7>1. settling[1] # <<"revert", d, drag[d].at - drag[d].delta>>
                BY <6>2 DEF s
              <7> QED BY <1>6, <4>1, <6>2, <7>1 DEF Rests
            <6> QED BY <6>1, <6>2
          <5>5. settling'[1] \notin Returns
            BY <5>2, EntryIs
          <5>6. OneAtATime'
            BY <1>2, <1>6, <4>1, <4>3, <5>1, <5>2, <5>5 DEF OneAtATime
          <5> QED BY <5>4, <5>6
        <4> QED BY <1>1, <4>1, <4>2, <4>3 DEF OneAtATime, s
      <3> QED BY <1>2, <3>1 DEF Settles, Survived
    <2>4. Hovers'
      BY <1>2, <1>6, <2>1 DEF Hovers, HoversAt, Innermost, isAffected, Survived
    <2> QED BY <2>2, <2>3, <2>4
  <1> QED BY <1>2, <1>7, <1>8, <1>9, <1>10 DEF DragInv

-----------------------------------------------------------------------------
(* The pointer moves: the active element, if there is one, goes along.       *)
LEMMA MovedIs ==
    ASSUME Page, NEW r \in DragRecord, NEW p \in Points,
           r.dragging => r.delta # 0, r.delta = 0 => r.at \in Points
    PROVE  LET x == [Started(r) EXCEPT !.at = p, !.scroll = p \in Edge]
           IN  x \in DragRecord /\ x.dragging /\ x.at = p /\ x.delta # 0
  <1>1. /\ r.dragging \in BOOLEAN /\ r.at \in Int /\ r.delta \in Points \union {0}
        /\ r.z \in {"own", "top"} /\ r.scroll \in BOOLEAN
        /\ r = [dragging |-> r.dragging, at |-> r.at, delta |-> r.delta, z |-> r.z,
                scroll |-> r.scroll]
    BY DEF DragRecord
  <1>2. PICK u : u = IF r.dragging THEN r.delta ELSE IF r.delta = 0 THEN r.at ELSE r.delta
    OBVIOUS
  <1>3. PICK t : t = IF r.dragging THEN r.z ELSE "top"
    OBVIOUS
  <1>4. u \in Points /\ u # 0 /\ t \in {"own", "top"} /\ p \in Int
    BY <1>1, <1>2, <1>3, PointsAre
  <1>5. Started(r) = [dragging |-> TRUE, at |-> r.at, delta |-> u, z |-> t, scroll |-> r.scroll]
    BY <1>1, <1>2, <1>3 DEF Started
  <1>6. PICK s : s = Started(r)
    OBVIOUS
  <1>7. s \in DragRecord /\ s.dragging /\ s.delta # 0
    BY <1>1, <1>4, <1>5, <1>6 DEF DragRecord
  <1> DEFINE w == p \in Edge
  <1>8. w \in BOOLEAN
    OBVIOUS
  <1> HIDE DEF w
  <1>9. PICK x : x = [s EXCEPT !.at = p, !.scroll = w]
    OBVIOUS
  <1>10. x \in DragRecord /\ x.dragging /\ x.at = p /\ x.delta # 0
    BY <1>4, <1>7, <1>8, <1>9 DEF DragRecord
  <1>11. x = [Started(r) EXCEPT !.at = p, !.scroll = p \in Edge]
    BY <1>6, <1>9, Zenon DEF w
  <1> QED BY <1>10, <1>11

(* The pointer moves.                                                      *)
LEMMA MouseMoveStep ==
    ASSUME Page, DragInv, MouseMove
    PROVE  DragInv'
  <1>1. PICK p \in Points \ {mouse.at} :
            /\ mouse' = [mouse EXCEPT !.at = p]
            /\ IF drags = {} \/ active = None \/ lastPointer = p
               THEN UNCHANGED <<lastPointer, lastActive, drag, busy>>
               ELSE /\ lastPointer' = p
                    /\ lastActive' = Show(p, active)
                    /\ drag' = [drag EXCEPT ![active] =
                                    [Started(@) EXCEPT !.at = p, !.scroll = p \in Edge]]
                    /\ busy' = (busy \/ ~drag[active].dragging)
    BY DEF MouseMove
  <1>2. UNCHANGED <<drags, drops, active, timeouts, timeout, settling, mishaps>>
    BY DEF MouseMove
  <1>3. /\ mouse' \in [down : BOOLEAN, at : Points]
        /\ mouse'.at = p /\ mouse'.down = mouse.down /\ p # 0
    BY <1>1, PointsAre DEF DragInv, Typed
  <1>4. Typed /\ Placed /\ Quiet /\ None \notin Draggable
    BY DEF DragInv, Page
  <1>5. CASE drags = {} \/ active = None \/ lastPointer = p
    <2>1. UNCHANGED <<lastPointer, lastActive, drag, busy>>
      BY <1>1, <1>5
    <2>2. Typed'
      BY <1>2, <1>3, <1>4, <2>1 DEF Typed
    <2>3. Placed' /\ Quiet'
      BY <1>2, <1>4, <2>1 DEF Placed, Quiet, Survived
    <2>4. ASSUME "lost" \notin mishaps PROVE Pressed' /\ Settles' /\ Hovers'
      <3>1. Pressed /\ Settles /\ Hovers
        BY <2>4 DEF DragInv
      <3>2. Pressed'
        BY <1>2, <1>3, <2>1, <3>1 DEF Pressed, Stuck
      <3>3. Settles'
        BY <1>2, <2>1, <3>1 DEF Settles, OneAtATime, Rests, Survived
      <3>4. Hovers'
        BY <1>1, <1>2, <1>3, <1>5, <2>1, <3>1 DEF Hovers, HoversAt, Stuck, Survived
      <3> QED BY <3>2, <3>3, <3>4
    <2> QED BY <1>2, <2>2, <2>3, <2>4 DEF DragInv
  <1>6. CASE drags # {} /\ active # None /\ lastPointer # p
    <2>1. PICK a \in Draggable : a = active
      BY <1>4, <1>6 DEF Typed
    <2>2. PICK x : x = [Started(drag[a]) EXCEPT !.at = p, !.scroll = p \in Edge]
      OBVIOUS
    <2>3. /\ drag \in [Draggable -> DragRecord] /\ busy \in BOOLEAN
          /\ drag[a].dragging => drag[a].delta # 0
          /\ drag[a].delta = 0 => drag[a].at \in Points
      BY <1>4 DEF Typed, Placed
    <2>4. x \in DragRecord /\ x.dragging /\ x.at = p /\ x.delta # 0
      <3>1. drag[a] \in DragRecord
        BY <2>3
      <3> QED BY <2>2, <2>3, <3>1, MovedIs
    <2>5. /\ lastPointer' = p /\ lastActive' = Show(p, a)
          /\ drag' = [drag EXCEPT ![a] = x]
          /\ busy' = (busy \/ ~drag[a].dragging)
      BY <1>1, <1>6, <2>1, <2>2
    <2>6. PICK y : y = Show(p, a)
      OBVIOUS
    <2>7. /\ y \in Drops \union {None}
          /\ y # None => drops = {} \/ Innermost(y, p, a)
          /\ drops = {} => y = lastActive
      BY <1>4, <2>6, ShowIs DEF Show
    <2>8. /\ drag' \in [Draggable -> DragRecord] /\ drag'[a] = x
          /\ \A d \in Draggable \ {a} : drag'[d] = drag[d]
          /\ busy' \in BOOLEAN
      BY <2>3, <2>4, <2>5
    <2>9. Typed'
      BY <1>2, <1>3, <1>4, <2>5, <2>6, <2>7, <2>8 DEF Typed
    <2>10. Placed'
      <3>1. \A d \in Draggable : /\ drag[d].delta # 0 => drag'[d].delta # 0
                                 /\ drag'[d].dragging \/ drag'[d].scroll => drag'[d].delta # 0
                                 /\ Revert[d] = "no" \/ drag'[d].delta = 0 => drag'[d].at \in Points
        BY <1>4, <2>4, <2>8 DEF Placed
      <3>2. \A i \in 1 .. Len(settling) : settling[i][2] \in Draggable
        <4>1. ASSUME NEW i \in 1 .. Len(settling) PROVE settling[i] \in Ends \union Returns
          <5> DEFINE E == Ends \union Returns
          <5>1. settling \in Seq(E)
            BY <1>4 DEF Typed
          <5> HIDE DEF E
          <5>2. settling[i] \in E
            BY <4>1, <5>1
          <5> QED BY <5>2 DEF E
        <4> QED BY <4>1, EntryIs
      <3> QED BY <1>2, <1>4, <3>1, <3>2 DEF Placed
    <2>11. Quiet'
      BY <1>2, <1>4, <2>4, <2>8 DEF Quiet, Survived
    <2>12. ASSUME "lost" \notin mishaps PROVE Pressed' /\ Settles' /\ Hovers'
      <3>1. Pressed /\ Settles /\ Hovers
        BY <2>12 DEF DragInv
      <3>2. \A d \in Draggable \ {a} : ~drag'[d].dragging
        BY <2>1, <2>8, <3>1 DEF Pressed
      <3>3. Pressed'
        BY <1>2, <1>3, <2>1, <2>5, <2>8, <3>1, <3>2 DEF Pressed, Stuck
      <3>4. Settles'
        <4>1. ASSUME Survived({"threw", "early"}) PROVE OneAtATime' /\ \A d \in Draggable : Rests(d)'
          <5>1. OneAtATime /\ (\A d \in Draggable : Rests(d)) /\ settling = <<>>
            BY <1>6, <3>1, <4>1 DEF Settles, OneAtATime
          <5>2. busy'
            BY <2>5, <5>1 DEF OneAtATime
          <5> QED BY <1>2, <2>4, <2>8, <3>2, <5>1, <5>2 DEF OneAtATime, Rests
        <4> QED BY <1>2, <4>1 DEF Settles, Survived
      <3>5. ASSUME Survived({"removed", "scrolling"})
            PROVE  /\ y # None => y \in drops /\ Innermost(y, p, a)
                   /\ \A d \in Draggable \ {a} : ~drag'[d].scroll
        <4>1. drops = {} => y = None
          BY <2>7, <3>1, <3>5 DEF Hovers
        <4>2. \A d \in Draggable \ {a} : ~drag[d].scroll
          BY <1>6, <2>1, <3>1, <3>5 DEF Hovers
        <4> QED BY <2>7, <2>8, <4>1, <4>2 DEF Innermost
      <3>6. Hovers'
        BY <1>2, <1>3, <1>6, <2>1, <2>4, <2>5, <2>6, <2>8, <3>5
        DEF Hovers, HoversAt, Innermost, isAffected, Survived
      <3> QED BY <3>3, <3>4, <3>6
    <2> QED BY <1>2, <2>9, <2>10, <2>11, <2>12 DEF DragInv
  <1> QED BY <1>5, <1>6

-----------------------------------------------------------------------------
(* The end of a drag.  The effects that it queues come last.                 *)
LastIs(t, q, r, e) ==
    /\ \A i \in 1 .. Len(t) :
        t[i] = e \/ r = <<t[i]>> \/ \E j \in 1 .. Len(q) : t[i] = q[j]
    /\ q = <<>> => t = r \o <<e>>

(* Of two lists and an element, one after the other, the element comes     *)
(* last.                                                                   *)
LEMMA QueuedIs ==
    ASSUME NEW E, NEW q \in Seq(E), NEW e \in E, NEW r, r = <<>> \/ \E f \in E : r = <<f>>
    PROVE  q \o r \o <<e>> \in Seq(E) /\ LastIs(q \o r \o <<e>>, q, r, e)
  <1>1. r \in Seq(E) /\ Len(r) \in {0, 1} /\ (Len(r) = 1 => r = <<r[1]>>)
    <2>1. CASE r = <<>>
      BY <2>1
    <2>2. CASE \E f \in E : r = <<f>>
      BY <2>2
    <2> QED BY <2>1, <2>2
  <1>2. PICK m : m = q \o r
    OBVIOUS
  <1>3. /\ m \in Seq(E) /\ Len(m) = Len(q) + Len(r)
        /\ \A i \in 1 .. Len(m) : m[i] = IF i <= Len(q) THEN q[i] ELSE r[i - Len(q)]
    BY <1>1, <1>2
  <1>4. PICK t : t = m \o <<e>>
    OBVIOUS
  <1>5. /\ t \in Seq(E) /\ Len(t) = Len(m) + 1
        /\ \A i \in 1 .. Len(t) : t[i] = IF i <= Len(m) THEN m[i] ELSE e
    BY <1>3, <1>4
  <1>6. ASSUME NEW i \in 1 .. Len(t)
        PROVE  t[i] = e \/ r = <<t[i]>> \/ \E j \in 1 .. Len(q) : t[i] = q[j]
    <2>1. CASE i <= Len(q)
      BY <1>1, <1>3, <1>5, <1>6, <2>1
    <2>2. CASE i > Len(q) /\ i <= Len(m)
      <3>1. i - Len(q) = 1 /\ Len(r) = 1
        BY <1>1, <1>3, <1>6, <2>2
      <3> QED BY <1>1, <1>3, <1>5, <1>6, <2>2, <3>1
    <2>3. CASE i > Len(m)
      BY <1>3, <1>5, <1>6, <2>3
    <2> QED BY <1>1, <1>3, <1>5, <1>6, <2>1, <2>2, <2>3
  <1>7. q = <<>> => m = r
    BY <1>1, <1>2
  <1>8. q \o r \o <<e>> = t
    BY <1>2, <1>4
  <1>9. LastIs(t, q, r, e)
    BY <1>4, <1>6, <1>7 DEF LastIs
  <1> QED BY <1>5, <1>8, <1>9

(* What finishDrag does, when nothing is thrown and when something is.       *)
Over(d, x) ==
    /\ drag'[d].dragging = FALSE /\ drag'[d].at = x.at /\ drag'[d].scroll = x.scroll
    /\ \A e \in Draggable \ {d} : drag'[e] = drag[e]

Threw(d, x, throws) ==
    /\ throws \/ (Revert[d] # "no" /\ x.delta = 0)
    /\ drag'[d].delta = x.delta
    /\ mishaps' = mishaps \union {"threw"}
    /\ UNCHANGED <<settling, active, lastActive>>

Ended(d, x) ==
    /\ drag'[d].z = "own"
    /\ drag'[d].delta = IF Revert[d] = "no" THEN x.at ELSE x.delta
    /\ Revert[d] # "no" => x.delta # 0
    /\ \A i \in 1 .. Len(settling') :
        \/ settling'[i] = <<"end", d>>
        \/ settling'[i] = <<"revert", d, x.at - x.delta>> /\ Revert[d] # "no"
        \/ \E j \in 1 .. Len(settling) : settling'[i] = settling[j]
    /\ settling = <<>> =>
        \/ settling' = << <<"end", d>> >> /\ Revert[d] \in {"no", "failure"}
        \/ /\ settling' = << <<"revert", d, x.at - x.delta>>, <<"end", d>> >>
           /\ Revert[d] # "no"
    /\ active' = None /\ lastActive' = None
    /\ mishaps' = mishaps \union (IF x.dragging THEN {} ELSE {"early"})
                          \union (IF x.scroll THEN {"scrolling"} ELSE {})

(* What the end of a drag does.                                            *)
LEMMA FinishIs ==
    ASSUME Page, Typed, NEW d \in Draggable, NEW x \in DragRecord, NEW success, NEW throws,
           Revert[d] = "no" => x.at \in Points, finishDrag(d, x, success, throws)
    PROVE  /\ drag' \in [Draggable -> DragRecord]
           /\ settling' \in Seq(Ends \union Returns)
           /\ Over(d, x)
           /\ Threw(d, x, throws) \/ Ended(d, x)
  <1>0. drag \in [Draggable -> DragRecord] /\ settling \in Seq(Ends \union Returns)
    BY DEF Typed
  <1>1. PICK dropped : dropped = Dropped(d, success)
    OBVIOUS
  <1>2. PICK off : off = [x EXCEPT !.dragging = FALSE]
    OBVIOUS
  <1>3. /\ off \in DragRecord /\ off.dragging = FALSE /\ off.at = x.at /\ off.delta = x.delta
        /\ off.scroll = x.scroll
    BY <1>2 DEF DragRecord
  <1>4. IF throws \/ (Revert[d] # "no" /\ x.delta = 0)
        THEN /\ drag' = [drag EXCEPT ![d] = off]
             /\ mishaps' = mishaps \union {"threw"}
             /\ UNCHANGED <<settling, active, lastActive>>
        ELSE /\ Finished(d, off, dropped)
             /\ mishaps' = mishaps \union
                    (IF x.dragging THEN {} ELSE {"early"}) \union
                    (IF x.scroll THEN {"scrolling"} ELSE {})
    BY <1>1, <1>2 DEF finishDrag
  <1>5. CASE throws \/ (Revert[d] # "no" /\ x.delta = 0)
    <2>1. /\ drag' = [drag EXCEPT ![d] = off] /\ mishaps' = mishaps \union {"threw"}
          /\ UNCHANGED <<settling, active, lastActive>>
      BY <1>4, <1>5
    <2>2. /\ drag' \in [Draggable -> DragRecord] /\ drag'[d] = off
          /\ \A e \in Draggable \ {d} : drag'[e] = drag[e]
      BY <1>0, <1>3, <2>1
    <2> QED BY <1>0, <1>3, <1>5, <2>1, <2>2 DEF Over, Threw
  <1>6. CASE ~(throws \/ (Revert[d] # "no" /\ x.delta = 0))
    <2>1. Finished(d, off, dropped)
      BY <1>4, <1>6
    <2>2. PICK y : y = [off EXCEPT !.z = "own",
                                   !.delta = IF Revert[d] = "no" THEN off.at ELSE @]
      OBVIOUS
    <2>3. PICK u : u = IF Revert[d] = "no" THEN off.at ELSE off.delta
      OBVIOUS
    <2>4. u \in Points \union {0}
      BY <1>3, <2>3 DEF DragRecord
    <2>5. /\ y \in DragRecord /\ y.dragging = FALSE /\ y.at = x.at /\ y.scroll = x.scroll
          /\ y.z = "own" /\ y.delta = u
      <3>1. y = [off EXCEPT !.z = "own", !.delta = u]
        BY <1>3, <2>2, <2>3 DEF DragRecord
      <3> QED BY <1>3, <2>4, <3>1 DEF DragRecord
    <2>6. drag' = [drag EXCEPT ![d] = y]
      BY <2>1, <2>2 DEF Finished
    <2>7. /\ drag' \in [Draggable -> DragRecord] /\ drag'[d] = y
          /\ \A e \in Draggable \ {d} : drag'[e] = drag[e]
      BY <1>0, <2>5, <2>6
    <2>8. PICK r : r = IF Reverts(d, dropped) THEN << <<"revert", d, off.at - off.delta>> >>
                       ELSE <<>>
      OBVIOUS
    <2>9. PICK n : n = x.at - x.delta
      OBVIOUS
    <2>10. n \in Int
      BY <2>9, PointsAre DEF DragRecord
    <2>11. \/ r = <<>> /\ Revert[d] \in {"no", "failure"}
           \/ r = << <<"revert", d, n>> >> /\ Revert[d] # "no"
      BY <1>3, <2>8, <2>9 DEF Reverts
    <2>12. PICK E : E = Ends \union Returns
      OBVIOUS
    <2>13. <<"end", d>> \in E /\ (Revert[d] # "no" => <<"revert", d, n>> \in E)
      BY <2>10, <2>12 DEF Ends, Returns
    <2>14. settling' = settling \o r \o << <<"end", d>> >>
      BY <2>1, <2>8 DEF Finished
    <2>15. /\ settling' \in Seq(E)
           /\ \A i \in 1 .. Len(settling') :
                \/ settling'[i] = <<"end", d>> \/ r = <<settling'[i]>>
                \/ \E j \in 1 .. Len(settling) : settling'[i] = settling[j]
           /\ settling = <<>> => settling' = r \o << <<"end", d>> >>
      <3>1. settling \in Seq(E) /\ (r = <<>> \/ \E f \in E : r = <<f>>)
        BY <1>0, <2>11, <2>12, <2>13
      <3>2. PICK e : e = <<"end", d>>
        OBVIOUS
      <3>4. e \in E
        BY <2>13, <3>2
      <3>3. settling \o r \o <<e>> \in Seq(E) /\ LastIs(settling \o r \o <<e>>, settling, r, e)
        BY <3>1, <3>4, QueuedIs
      <3>5. settling' = settling \o r \o <<e>>
        BY <2>14, <3>2
      <3>6. settling' \in Seq(E) /\ LastIs(settling', settling, r, e)
        BY <3>3, <3>5
      <3> QED BY <3>2, <3>6 DEF LastIs
    <2>16. \A i \in 1 .. Len(settling') : r = <<settling'[i]>> =>
               settling'[i] = <<"revert", d, n>> /\ Revert[d] # "no"
      BY <2>11
    <2>17. settling = <<>> =>
            \/ settling' = << <<"end", d>> >> /\ Revert[d] \in {"no", "failure"}
            \/ settling' = << <<"revert", d, n>>, <<"end", d>> >> /\ Revert[d] # "no"
      BY <2>11, <2>15
    <2>18. active' = None /\ lastActive' = None
      BY <2>1 DEF Finished, LastActiveReset
    <2>19. Ended(d, x)
      BY <1>3, <1>4, <1>6, <2>3, <2>5, <2>7, <2>9, <2>15, <2>16, <2>17, <2>18 DEF Ended
    <2> QED BY <2>5, <2>7, <2>12, <2>15, <2>19 DEF Over
  <1> QED BY <1>5, <1>6

(* The button released at the end of a drag, or an escape.                   *)
Release(x) ==
    lastPointer' = 0 /\ ~mouse'.down /\ mouse.down /\ x.dragging /\ ~x.scroll

Escaped(a, x) ==
    UNCHANGED <<lastPointer, mouse, timeouts>> /\ x.scroll = drag[a].scroll

(* It keeps the invariant,                                                 *)
LEMMA FinishStep ==
    ASSUME Page, DragInv, drags # {},
           NEW a \in Draggable, a = active, NEW x \in DragRecord, NEW throws \in BOOLEAN,
           x.dragging = drag[a].dragging, x.at = drag[a].at, x.delta = drag[a].delta,
           throws => mishaps = {},
           drag' \in [Draggable -> DragRecord], settling' \in Seq(Ends \union Returns),
           Over(a, x), Threw(a, x, throws) \/ Ended(a, x),
           UNCHANGED <<drags, drops, busy>>, mouse' \in [down : BOOLEAN, at : Points],
           mouse'.at = mouse.at, timeouts' \subseteq timeouts,
           timeout' \in Draggable \union {None}, Release(x) \/ Escaped(a, x)
    PROVE  DragInv'
  <1>1. Typed /\ Placed /\ Quiet /\ a # None /\ active # None
    BY DEF DragInv, Page
  <1>2. (x.dragging \/ x.scroll => x.delta # 0) /\ (Revert[a] = "no" \/ x.delta = 0 => x.at \in Points)
    BY <1>1 DEF Placed, Release, Escaped
  <1>3. \A e \in Draggable \ {a} : drag'[e] = drag[e]
    BY DEF Over
  <1>4. /\ drag'[a].dragging = FALSE /\ drag'[a].at = x.at /\ drag'[a].scroll = x.scroll
        /\ drag'[a].delta = IF Ended(a, x) /\ Revert[a] = "no" THEN x.at ELSE x.delta
    BY DEF Over, Threw, Ended
  <1>5. active' \in {a, None} /\ lastActive' \in {lastActive, None}
    BY DEF Threw, Ended
  <1>6. mishaps \subseteq mishaps'
    BY DEF Threw, Ended
  <1>7. Typed'
    <2>1. lastPointer' \in Points \union {0} /\ timeouts' \subseteq Draggable
      BY <1>1 DEF Typed, Release, Escaped
    <2> QED BY <1>1, <1>5, <2>1 DEF Typed
  <1>8. Placed'
    <2>1. \A d \in Draggable : /\ drag[d].delta # 0 => drag'[d].delta # 0
                               /\ drag'[d].dragging \/ drag'[d].scroll => drag'[d].delta # 0
                               /\ Revert[d] = "no" \/ drag'[d].delta = 0 => drag'[d].at \in Points
      <3>1. 0 \notin Points
        BY PointsAre
      <3> QED BY <1>1, <1>2, <1>3, <1>4, <3>1 DEF Placed
    <2>2. ASSUME NEW i \in 1 .. Len(settling), settling[i][1] # "end"
          PROVE  drag'[settling[i][2]].delta # 0
      <3> DEFINE E == Ends \union Returns
      <3>1. settling \in Seq(E)
        BY <1>1 DEF Typed
      <3> HIDE DEF E
      <3>2. settling[i] \in E
        BY <3>1
      <3>3. settling[i][2] \in Draggable
        BY <3>2, EntryIs DEF E
      <3> QED BY <1>1, <2>1, <2>2, <3>3 DEF Placed
    <2>3. ASSUME NEW i \in 1 .. Len(settling'), settling'[i][1] # "end"
          PROVE  drag'[settling'[i][2]].delta # 0
      <3>1. CASE Threw(a, x, throws)
        BY <2>2, <2>3, <3>1 DEF Threw
      <3>2. CASE Ended(a, x)
        <4>1. CASE settling'[i] = <<"end", a>>
          BY <2>3, <4>1
        <4>2. CASE settling'[i] = <<"revert", a, x.at - x.delta>> /\ Revert[a] # "no"
          <5>1. drag'[a].delta # 0
            BY <3>2, <4>2 DEF Ended
          <5> QED BY <4>2, <5>1
        <4>3. CASE \E j \in 1 .. Len(settling) : settling'[i] = settling[j]
          BY <2>2, <2>3, <4>3
        <4> QED BY <3>2, <4>1, <4>2, <4>3 DEF Ended
      <3> QED BY <3>1, <3>2
    <2> QED BY <2>1, <2>3 DEF Placed
  <1>9. Quiet'
    <2>1. CASE Threw(a, x, throws)
      BY <2>1 DEF Threw, Quiet, Survived
    <2>2. CASE Ended(a, x)
      BY <1>1, <1>3, <1>4, <1>6, <2>2 DEF Ended, Quiet, Survived
    <2> QED BY <2>1, <2>2
  <1>10. ASSUME "lost" \notin mishaps PROVE Pressed' /\ Settles' /\ Hovers'
    <2>1. Pressed /\ Settles /\ Hovers /\ timeouts = {} /\ timeouts' = {}
      BY <1>1, <1>10 DEF DragInv, Pressed
    <2>2. \A d \in Draggable : ~drag'[d].dragging
      BY <1>3, <1>4, <2>1 DEF Pressed
    <2>3. ASSUME x.dragging, Survived({"threw", "early"})
          PROVE  Stuck /\ OneAtATime /\ \A d \in Draggable : Rests(d)
      BY <1>1, <2>1, <2>3 DEF Settles, OneAtATime, Stuck
    <2>4. CASE Threw(a, x, throws)
      <3>1. /\ "threw" \in mishaps' /\ UNCHANGED <<settling, active, lastActive>>
            /\ mishaps' = mishaps \union {"threw"}
        BY <2>4 DEF Threw
      <3>2. x.dragging => Stuck
        <4>1. x.dragging => throws
          BY <1>2, <2>4 DEF Threw
        <4> QED BY <2>3, <4>1 DEF Survived
      <3>3. Stuck => Stuck'
        BY <2>1, <3>1 DEF Stuck
      <3>4. Pressed'
        BY <1>1, <2>1, <2>2, <3>1, <3>2, <3>3 DEF Pressed, Release, Escaped
      <3>5. Settles'
        BY <3>1 DEF Settles, Survived
      <3>6. ASSUME Survived({"removed", "scrolling"}) PROVE
              /\ lastActive # None => lastActive \in drops /\ HoversAt'
              /\ \A d \in Draggable : drag'[d].scroll => active' \in {d, None} /\ Stuck'
              /\ active' # None /\ drag'[active'].scroll => lastPointer' \in {0, mouse'.at}
        <4>1. ASSUME lastActive # None PROVE lastActive \in drops /\ HoversAt'
          <5>1. lastActive \in drops /\ HoversAt
            BY <2>1, <3>6, <4>1 DEF Hovers
          <5>2. Stuck
            BY <1>1, <3>2, <5>1 DEF HoversAt
          <5> QED BY <1>1, <1>4, <3>1, <3>3, <5>1, <5>2
              DEF HoversAt, Innermost, isAffected, Release, Escaped
        <4>2. ASSUME NEW d \in Draggable, drag'[d].scroll
              PROVE  active' \in {d, None} /\ Stuck'
          <5>1. drag[d].scroll
            BY <1>3, <1>4, <4>2 DEF Release, Escaped
          <5>2. (active = d /\ drag[d].dragging) \/ (active \in {d, None} /\ Stuck)
            BY <2>1, <3>6, <5>1 DEF Hovers
          <5> QED BY <3>1, <3>2, <3>3, <5>2
        <4>3. ASSUME active' # None, drag'[active'].scroll PROVE lastPointer' \in {0, mouse'.at}
          <5>1. active' = a /\ x.scroll
            BY <1>4, <3>1, <4>3
          <5>2. lastPointer' = lastPointer /\ drag[a].scroll
            BY <5>1 DEF Release, Escaped
          <5> QED BY <1>1, <2>1, <3>6, <5>2 DEF Hovers
        <4> QED BY <4>1, <4>2, <4>3
      <3>7. Hovers'
        BY <1>1, <2>2, <3>1, <3>6 DEF Hovers, Survived
      <3> QED BY <3>4, <3>5, <3>7
    <2>5. CASE Ended(a, x)
      <3>1. active' = None /\ lastActive' = None
        BY <2>5 DEF Ended
      <3>2. Pressed'
        BY <2>1, <2>2, <3>1 DEF Pressed
      <3>3. ASSUME Survived({"threw", "early"})' PROVE OneAtATime' /\ \A d \in Draggable : Rests(d)'
        <4>1. x.dragging /\ Survived({"threw", "early"})
          BY <1>6, <2>5, <3>3 DEF Survived, Ended
        <4>2. Stuck /\ OneAtATime /\ \A d \in Draggable : Rests(d)
          BY <2>3, <4>1
        <4>3. PICK n : n = x.at - x.delta
          OBVIOUS
        <4>4. \/ settling' = << <<"end", a>> >> /\ Revert[a] \in {"no", "failure"}
              \/ settling' = << <<"revert", a, n>>, <<"end", a>> >> /\ Revert[a] # "no"
          BY <2>5, <4>2, <4>3 DEF Ended, Stuck
        <4>5. busy'
          BY <4>2 DEF Stuck
        <4>6. Rests(a)'
          BY <1>4, <2>5, <4>3, <4>4 DEF Rests
        <4>7. ASSUME NEW d \in Draggable, d # a PROVE Rests(d)'
          BY <1>3, <4>2, <4>7 DEF Rests, Stuck
        <4>8. <<"end", a>> \in Ends
          BY DEF Ends
        <4>9. CASE settling' = << <<"end", a>> >>
          <5>1. Len(settling') = 1 /\ settling'[1] \in Ends /\ settling'[1] \notin Returns
            BY <4>8, <4>9, EntryIs
          <5> QED BY <2>2, <3>1, <2>1, <4>5, <4>6, <4>7, <5>1 DEF OneAtATime
        <4>10. CASE settling' = << <<"revert", a, n>>, <<"end", a>> >> /\ Revert[a] # "no"
          <5>1. n \in Int
            BY <4>3, PointsAre DEF DragRecord
          <5>2. /\ Len(settling') = 2 /\ settling'[1] \in Returns /\ settling'[2] \in Ends
                /\ settling'[1][2] = a /\ settling'[1][3] = n
            BY <4>8, <4>10, <5>1 DEF Returns
          <5>3. n = drag'[a].at - drag'[a].delta
            BY <1>4, <4>3, <4>10
          <5> QED BY <2>2, <3>1, <2>1, <4>5, <4>6, <4>7, <5>2, <5>3 DEF OneAtATime
        <4> QED BY <4>4, <4>9, <4>10
      <3>4. Settles'
        BY <3>3 DEF Settles
      <3>5. ASSUME Survived({"removed", "scrolling"})', NEW d \in Draggable PROVE ~drag'[d].scroll
        <4>1. Survived({"removed", "scrolling"}) /\ ~x.scroll
          BY <1>6, <2>5, <3>5 DEF Survived, Ended
        <4>2. d # a => ~drag[d].scroll
          BY <1>1, <2>1, <4>1 DEF Hovers
        <4> QED BY <1>3, <1>4, <4>1, <4>2
      <3>6. Hovers'
        BY <3>1, <3>5 DEF Hovers
      <3> QED BY <3>2, <3>4, <3>6
    <2> QED BY <2>4, <2>5
  <1> QED BY <1>6, <1>7, <1>8, <1>9, <1>10 DEF DragInv

(* at a release                                                            *)
LEMMA MouseUpStep ==
    ASSUME Page, DragInv, MouseUp
    PROVE  DragInv'
  <1>1. /\ mouse.down /\ mouse' = [mouse EXCEPT !.down = FALSE]
        /\ IF drags = {} THEN UNCHANGED <<timeouts, timeout>>
           ELSE timeouts' = timeouts \ {timeout} /\ timeout' = None
        /\ UNCHANGED <<drags, drops, busy>>
    BY DEF MouseUp, TimerCleared
  <1>2. Typed /\ Placed /\ Quiet /\ None \notin Draggable
    BY DEF DragInv, Page
  <1>3. /\ mouse' \in [down : BOOLEAN, at : Points] /\ mouse'.at = mouse.at /\ ~mouse'.down
        /\ timeouts' \subseteq timeouts /\ timeout' \in Draggable \union {None}
    BY <1>1, <1>2 DEF Typed
  <1>4. CASE drags = {} \/ active = None
    <2>1. UNCHANGED <<active, lastPointer, lastActive, drag, settling, mishaps>>
      BY <1>4 DEF MouseUp
    <2>2. Typed'
      BY <1>1, <1>2, <1>3, <2>1 DEF Typed
    <2>3. Placed' /\ Quiet'
      BY <1>2, <2>1 DEF Placed, Quiet, Survived
    <2>4. ASSUME "lost" \notin mishaps PROVE Pressed' /\ Settles' /\ Hovers'
      <3>1. Pressed /\ Settles /\ Hovers
        BY <2>4 DEF DragInv
      <3>2. Pressed'
        BY <1>1, <1>3, <1>4, <2>1, <3>1 DEF Pressed, Stuck
      <3>3. Settles'
        BY <1>1, <1>3, <2>1, <3>1 DEF Settles, OneAtATime, Rests, Survived
      <3>4. Stuck => Stuck'
        BY <1>1, <1>3, <2>1 DEF Stuck
      <3>5. Hovers'
        BY <1>1, <1>3, <1>4, <2>1, <3>1, <3>4
        DEF Hovers, HoversAt, Innermost, isAffected, Survived
      <3> QED BY <3>2, <3>3, <3>5
    <2> QED BY <2>1, <2>2, <2>3, <2>4 DEF DragInv
  <1>5. CASE drags # {} /\ active # None /\ ~drag[active].dragging
    <2>1. /\ active' = None /\ lastPointer' = 0
          /\ UNCHANGED <<lastActive, drag, settling, mishaps>>
      BY <1>5 DEF MouseUp
    <2>2. Typed'
      BY <1>1, <1>2, <1>3, <2>1 DEF Typed
    <2>3. Placed' /\ Quiet'
      BY <1>2, <2>1 DEF Placed, Quiet, Survived
    <2>4. ASSUME "lost" \notin mishaps PROVE Pressed' /\ Settles' /\ Hovers'
      <3>1. Pressed /\ Settles /\ Hovers /\ timeouts' = {}
        BY <1>3, <1>5, <2>4 DEF DragInv, Pressed
      <3>2. \A d \in Draggable : ~drag[d].dragging
        BY <1>5, <3>1 DEF Pressed
      <3>3. Pressed'
        BY <2>1, <3>1, <3>2 DEF Pressed
      <3>4. Settles'
        BY <1>1, <1>3, <2>1, <3>1, <3>2 DEF Settles, OneAtATime, Rests, Survived
      <3>5. Stuck => Stuck'
        BY <1>1, <2>1, <3>1 DEF Stuck
      <3>6. Hovers'
        BY <1>1, <1>5, <2>1, <3>1, <3>2, <3>5 DEF Hovers, HoversAt, Survived
      <3> QED BY <3>3, <3>4, <3>6
    <2> QED BY <2>1, <2>2, <2>3, <2>4 DEF DragInv
  <1>6. CASE drags # {} /\ active # None /\ drag[active].dragging
    <2>1. PICK a \in Draggable : a = active
      BY <1>2, <1>6 DEF Typed
    <2>2. PICK x : x = [drag[a] EXCEPT !.scroll = FALSE]
      OBVIOUS
    <2>3. PICK throws \in MayThrow : finishDrag(a, x, TRUE, throws)
      BY <1>6, <2>1, <2>2 DEF MouseUp
    <2>4. throws \in BOOLEAN /\ (throws => mishaps = {})
      BY <2>3 DEF MayThrow
    <2>5. /\ x \in DragRecord /\ x.dragging = drag[a].dragging /\ x.at = drag[a].at
          /\ x.delta = drag[a].delta /\ ~x.scroll
      <3>1. drag[a] \in DragRecord
        BY <1>2 DEF Typed
      <3> QED BY <2>2, <3>1 DEF DragRecord
    <2>6. Revert[a] = "no" => x.at \in Points
      BY <1>2, <2>5 DEF Placed
    <2>7. /\ drag' \in [Draggable -> DragRecord] /\ settling' \in Seq(Ends \union Returns)
          /\ Over(a, x) /\ (Threw(a, x, throws) \/ Ended(a, x))
      BY <1>2, <2>3, <2>5, <2>6, FinishIs
    <2>8. lastPointer' = 0
      BY <1>6 DEF MouseUp
    <2>9. Release(x)
      BY <1>1, <1>3, <1>6, <2>1, <2>5, <2>8 DEF Release
    <2> QED BY <1>1, <1>3, <1>6, <2>1, <2>4, <2>5, <2>7, <2>9, FinishStep
  <1> QED BY <1>4, <1>5, <1>6

(* and at an escape.                                                       *)
LEMMA EscapeStep ==
    ASSUME Page, DragInv, Escape
    PROVE  DragInv'
  <1>1. /\ drags # {} /\ active # None
        /\ UNCHANGED <<mouse, drags, drops, timeouts, timeout, lastPointer, busy>>
    BY DEF Escape
  <1>2. Typed /\ Placed
    BY DEF DragInv
  <1>3. PICK a \in Draggable : a = active
    BY <1>1, <1>2 DEF Typed
  <1>4. PICK x : x = drag[a]
    OBVIOUS
  <1>5. PICK throws \in MayThrow : finishDrag(a, x, FALSE, throws)
    BY <1>3, <1>4 DEF Escape
  <1>6. throws \in BOOLEAN /\ (throws => mishaps = {})
    BY <1>5 DEF MayThrow
  <1>7. x \in DragRecord /\ (Revert[a] = "no" => x.at \in Points)
    BY <1>2, <1>4 DEF Typed, Placed
  <1>8. /\ drag' \in [Draggable -> DragRecord] /\ settling' \in Seq(Ends \union Returns)
        /\ Over(a, x) /\ (Threw(a, x, throws) \/ Ended(a, x))
    BY <1>2, <1>5, <1>7, FinishIs
  <1>9. Escaped(a, x)
    BY <1>1, <1>4 DEF Escaped
  <1>10. /\ x.dragging = drag[a].dragging /\ x.at = drag[a].at /\ x.delta = drag[a].delta
         /\ mouse' \in [down : BOOLEAN, at : Points] /\ mouse'.at = mouse.at
         /\ timeouts' \subseteq timeouts /\ timeout' \in Draggable \union {None}
    BY <1>1, <1>2, <1>4 DEF Typed
  <1> QED BY <1>1, <1>3, <1>6, <1>7, <1>8, <1>9, <1>10, FinishStep

-----------------------------------------------------------------------------
(* Every step keeps the invariant.                                         *)
LEMMA DragStep ==
    ASSUME Page, DragInv, [Next]_vars
    PROVE  DragInv'
  <1>1. CASE UNCHANGED vars
    BY <1>1 DEF vars, DragInv, Typed, Placed, Quiet, Pressed, Settles, OneAtATime, Rests, Hovers,
       HoversAt, Innermost, isAffected, Stuck, Survived
  <1> QED BY <1>1, MouseDownStep, DelayOverStep, MouseMoveStep, ScrollTickStep, MouseUpStep,
             EscapeStep, SettleStep, LostReleaseStep, DestroyStep, RemoveDropStep DEF Next

(* So it always holds,                                                     *)
LEMMA DragKept ==
    ASSUME Page
    PROVE  Spec => []DragInv
  <1>1. Init => DragInv
    BY DragInit
  <1>2. DragInv /\ [Next]_vars => DragInv'
    BY DragStep
  <1> QED BY <1>1, <1>2, PTL DEF Spec

(* and implies what is promised.                                           *)
LEMMA DragInvImplies ==
    ASSUME Page, DragInv
    PROVE  TypeOK /\ ActiveIsPressed /\ QuietWithoutDrag /\ DragIsBusy /\ RestsAtDelta
  <1>1. Typed /\ Quiet /\ ("lost" \notin mishaps => Pressed /\ Settles)
    BY DEF DragInv
  <1>2. TypeOK
    <2>1. \A d \in Draggable : drag[d] \in DragRecord
      BY <1>1 DEF Typed
    <2> QED BY <1>1, <2>1 DEF Typed, TypeOK, DragRecord
  <1>3. ActiveIsPressed
    BY <1>1 DEF Pressed, ActiveIsPressed, Survived
  <1>4. QuietWithoutDrag
    BY <1>1 DEF Quiet, QuietWithoutDrag, Survived
  <1>5. DragIsBusy
    BY <1>1 DEF Settles, OneAtATime, DragIsBusy, Survived
  <1>6. RestsAtDelta
    BY <1>1 DEF Settles, Rests, RestsAtDelta, Survived
  <1> QED BY <1>2, <1>3, <1>4, <1>5, <1>6

(* Only a release at the end of a drag drops anything.                       *)
LEMMA DropStep ==
    ASSUME Page, DragInv, [Next]_vars
    PROVE  DropIsInnermost
  <1> SUFFICES ASSUME fired' # fired, fired' # <<>>,
                      Survived({"lost", "removed", "scrolling"})
               PROVE  DropIsInnermost
    BY DEF DropIsInnermost
  <1>1. MouseUp \/ Escape
    BY DEF Next, vars, MouseDown, DelayOver, MouseMove, ScrollTick, Settle, LostRelease, Destroy,
           RemoveDrop
  <1>2. ~Escape
    BY DEF Escape, finishDrag, Dropped
  <1>3. /\ drags # {} /\ active # None /\ drag[active].dragging /\ mouse.down
        /\ mouse' = [mouse EXCEPT !.down = FALSE]
        /\ fired' = IF Dropped(active, TRUE) THEN <<active, lastActive>> ELSE <<>>
    BY <1>1, <1>2 DEF MouseUp, finishDrag
  <1>4. /\ fired' = <<active, lastActive>> /\ lastActive # None
        /\ isAffected(mouse.at, active, lastActive)
    BY <1>3 DEF Dropped
  <1>5. Typed /\ Hovers
    BY DEF DragInv, Survived
  <1>6. mouse.down /\ ~mouse'.down
    BY <1>3, <1>5 DEF Typed
  <1>7. /\ lastActive \in drops
        /\ \A y \in drops : isAffected(mouse.at, active, y) => <<y, lastActive>> \notin Inside
    BY <1>3, <1>4, <1>5 DEF Hovers, HoversAt, Innermost, Survived
  <1>8. mouse.at \in Area[lastActive] /\ active \in Accept[lastActive]
    BY <1>4 DEF isAffected
  <1>9. fired'[1] = active /\ fired'[2] = lastActive
    BY <1>4
  <1> QED BY <1>6, <1>7, <1>8, <1>9 DEF DropIsInnermost

-----------------------------------------------------------------------------
(* A draggable is active only while the button is down, unless its release    *)
(* was lost, a callback threw or the element was destroyed in the drag.       *)
THEOREM ActiveWhilePressed ==
    ASSUME Page
    PROVE  Spec => [](TypeOK /\ ActiveIsPressed)
  <1>1. DragInv => TypeOK /\ ActiveIsPressed
    BY DragInvImplies
  <1> QED BY <1>1, DragKept, PTL

(* When nothing is dragged, nothing is raised, hovered over or scrolling.     *)
THEOREM QuietAfterDrags ==
    ASSUME Page
    PROVE  Spec => []QuietWithoutDrag
  <1>1. DragInv => QuietWithoutDrag
    BY DragInvImplies
  <1> QED BY <1>1, DragKept, PTL

(* No second drag begins while an element is dragged, and what has settled is *)
(* where its delta says.                                                    *)
THEOREM DragsSettle ==
    ASSUME Page
    PROVE  Spec => [](DragIsBusy /\ RestsAtDelta)
  <1>1. DragInv => DragIsBusy /\ RestsAtDelta
    BY DragInvImplies
  <1> QED BY <1>1, DragKept, PTL

(* What is dropped goes to the innermost drop under the pointer that takes    *)
(* it, even if callbacks threw before.                                      *)
THEOREM InnermostTakesDrop ==
    ASSUME Page
    PROVE  Spec => DropsOnInnermost
  <1>1. DragInv /\ [Next]_vars => [DropIsInnermost]_vars
    BY DropStep
  <1> QED BY <1>1, DragKept, PTL DEF Spec, DropsOnInnermost

-----------------------------------------------------------------------------
(* Sortable.  "none" is not an item, and a page has finitely many.           *)
Elements == IsFiniteSet(Items) /\ Sort!None \notin Items

(* Places in a list, and the lists that can be.                              *)
Follows(x, y, s) == \E n \in 1 .. Len(s) - 1 : s[n] = x /\ s[n + 1] = y
EndsIn(x, s) == s # <<>> /\ s[Len(s)] = x
Arranged(s) == s \in Seq(Items) /\ IsInjective(s)

-----------------------------------------------------------------------------
(* The instance has the library's operators under names of its own.         *)
LEMMA SameLibrary ==
    /\ \A S : Sort!Cardinality(S) = Cardinality(S)
    /\ \A S : Sort!SetToSeqs(S) = SetToSeqs(S)
    /\ \A s : Sort!ToSet(s) = ToSet(s)
    /\ \A s : Sort!IsInjective(s) <=> IsInjective(s)
    /\ \A s, i, e : Sort!InsertAt(s, i, e) = InsertAt(s, i, e)
    /\ \A s, e : Sort!RemoveFirst(s, e) = RemoveFirst(s, e)
  <1>1. \A S : Sort!Cardinality(S) = Cardinality(S)
    BY DEF Sort!Cardinality, Cardinality
  <1>2. \A S : Sort!SetToSeqs(S) = SetToSeqs(S)
    BY <1>1 DEF Sort!SetToSeqs, SetToSeqs
  <1>3. \A s : Sort!ToSet(s) = ToSet(s)
    BY DEF Sort!ToSet, ToSet
  <1>4. \A s : Sort!IsInjective(s) <=> IsInjective(s)
    BY DEF Sort!IsInjective, IsInjective
  <1>5. \A s, i, e : Sort!InsertAt(s, i, e) = InsertAt(s, i, e)
    BY DEF Sort!InsertAt, InsertAt
  <1>6. \A s, e : Sort!RemoveFirst(s, e) = RemoveFirst(s, e)
    BY DEF Sort!RemoveFirst, RemoveFirst, Sort!RemoveAt, RemoveAt, Sort!SelectInSeq,
           SelectInSeq, Sort!Min, Min
  <1> QED BY <1>1, <1>2, <1>3, <1>4, <1>5, <1>6

-----------------------------------------------------------------------------
(* An item is in one place of a list.                                        *)
LEMMA PlaceIs ==
    ASSUME NEW s, Arranged(s), NEW k \in 1 .. Len(s)
    PROVE  Sort!PlaceOf(s[k], s) = k
  <1>1. {i \in 1 .. Len(s) : s[i] = s[k]} = {k}
    BY DEF Arranged, IsInjective
  <1>2. Min({k}) = k
    BY DEF Min
  <1> QED BY <1>1, <1>2 DEF Sort!PlaceOf, Sort!SelectInSeq, Sort!Min, Min

(* An arranged list has each of its elements at one place.                 *)
LEMMA Members ==
    ASSUME NEW s, Arranged(s)
    PROVE  /\ Len(s) \in Nat /\ DOMAIN s = 1 .. Len(s)
           /\ \A x : x \in ToSet(s) <=> \E k \in 1 .. Len(s) : s[k] = x
           /\ \A i, j \in 1 .. Len(s) : s[i] = s[j] => i = j
  BY DEF Arranged, ToSet, IsInjective

(* An item is taken out of a list, and the others stay in their order.        *)
LEMMA Taken ==
    ASSUME NEW s, Arranged(s), NEW d
    PROVE  LET r == RemoveFirst(s, d)
           IN  /\ Arranged(r) /\ ToSet(r) = ToSet(s) \ {d}
               /\ \A x, y : x # d /\ y # d /\ Follows(x, y, s) => Follows(x, y, r)
               /\ \A x : x # d /\ EndsIn(x, s) => EndsIn(x, r)
  <1> DEFINE r == RemoveFirst(s, d)
  <1>1. CASE d \notin ToSet(s)
    <2>1. r = s
      BY <1>1, Members DEF RemoveFirst
    <2> QED BY <1>1, <2>1
  <1>2. CASE d \in ToSet(s)
    <2>1. PICK k \in 1 .. Len(s) : s[k] = d
      BY <1>2, Members
    <2>2. r = RemoveAt(s, k)
      <3>1. SelectInSeq(s, LAMBDA v : v = d) = k
        <4>1. {i \in 1 .. Len(s) : s[i] = d} = {k}
          BY <2>1, Members
        <4> QED BY <4>1 DEF SelectInSeq, Min
      <3> QED BY <2>1, <3>1 DEF RemoveFirst
    <2>3. /\ r \in Seq(Items) /\ Len(s) \in Nat /\ Len(r) = Len(s) - 1
          /\ \A j \in 1 .. Len(s) - 1 : r[j] = s[IF j < k THEN j ELSE j + 1]
      BY <2>2, Removed DEF Arranged
    <2> HIDE DEF r
    <2>4. \A j \in 1 .. Len(s) : j # k =>
            \E i \in 1 .. Len(r) : r[i] = s[j] /\ i = IF j < k THEN j ELSE j - 1
      <3> SUFFICES ASSUME NEW j \in 1 .. Len(s), j # k
                   PROVE  \E i \in 1 .. Len(r) : r[i] = s[j] /\ i = IF j < k THEN j ELSE j - 1
        OBVIOUS
      <3>1. CASE j < k
        BY <2>3, <3>1
      <3>2. CASE ~(j < k)
        <4>1. j - 1 \in 1 .. Len(s) - 1 /\ ~(j - 1 < k) /\ (j - 1) + 1 = j
          BY <2>3, <3>2
        <4> QED BY <2>3, <3>2, <4>1
      <3> QED BY <3>1, <3>2
    <2>5. IsInjective(r)
      <3> SUFFICES ASSUME NEW a \in 1 .. Len(r), NEW b \in 1 .. Len(r), r[a] = r[b]
                   PROVE  a = b
        BY <2>3 DEF IsInjective
      <3> DEFINE f(j) == IF j < k THEN j ELSE j + 1
      <3>1. f(a) \in 1 .. Len(s) /\ f(b) \in 1 .. Len(s) /\ s[f(a)] = s[f(b)]
        BY <2>3
      <3>2. f(a) = f(b)
        BY <3>1, Members
      <3> QED BY <2>3, <3>2
    <2>6. Arranged(r)
      BY <2>3, <2>5 DEF Arranged
    <2>7. ToSet(r) = ToSet(s) \ {d}
      <3>1. ASSUME NEW x \in ToSet(r) PROVE x \in ToSet(s) /\ x # d
        <4>1. PICK j \in 1 .. Len(r) : r[j] = x
          BY <2>6, Members
        <4>2. PICK i \in 1 .. Len(s) : i = (IF j < k THEN j ELSE j + 1) /\ s[i] = x
          BY <2>3, <4>1
        <4>3. i # k
          BY <2>3, <4>2
        <4> QED BY <2>1, <4>2, <4>3, Members
      <3>2. ASSUME NEW x \in ToSet(s), x # d PROVE x \in ToSet(r)
        BY <2>1, <2>4, <2>6, <3>2, Members
      <3> QED BY <3>1, <3>2
    <2>8. ASSUME NEW x, NEW y, x # d, y # d, Follows(x, y, s) PROVE Follows(x, y, r)
      <3>1. PICK n \in 1 .. Len(s) - 1 : s[n] = x /\ s[n + 1] = y
        BY <2>8 DEF Follows
      <3>2. n # k /\ n + 1 # k /\ n \in 1 .. Len(s) /\ n + 1 \in 1 .. Len(s)
        BY <2>1, <2>3, <2>8, <3>1
      <3>3. PICK i \in 1 .. Len(r) : r[i] = x /\ i = IF n < k THEN n ELSE n - 1
        BY <2>4, <3>1, <3>2
      <3>4. PICK j \in 1 .. Len(r) : r[j] = y /\ j = IF n + 1 < k THEN n + 1 ELSE n
        <4>1. PICK j \in 1 .. Len(r) :
                 r[j] = s[n + 1] /\ j = IF n + 1 < k THEN n + 1 ELSE (n + 1) - 1
          BY <2>4, <3>2
        <4> QED BY <2>3, <3>1, <4>1
      <3>5. j = i + 1
        BY <2>3, <3>2, <3>3, <3>4
      <3> QED BY <2>3, <3>3, <3>4, <3>5 DEF Follows
    <2>9. ASSUME NEW x, x # d, EndsIn(x, s) PROVE EndsIn(x, r)
      <3>1. Len(s) \in 1 .. Len(s) /\ s[Len(s)] = x /\ Len(s) # k
        BY <2>1, <2>3, <2>9 DEF EndsIn
      <3>2. PICK i \in 1 .. Len(r) :
              r[i] = x /\ i = IF Len(s) < k THEN Len(s) ELSE Len(s) - 1
        BY <2>4, <3>1
      <3>3. i = Len(r)
        BY <2>3, <3>1, <3>2
      <3> QED BY <2>3, <3>2, <3>3 DEF EndsIn
    <2> QED BY <2>6, <2>7, <2>8, <2>9 DEF r
  <1> QED BY <1>1, <1>2

(* An item is put into a list that does not have it.                         *)
LEMMA PutIn ==
    ASSUME NEW q, Arranged(q), NEW d \in Items, d \notin ToSet(q),
           NEW n \in 1 .. Len(q) + 1
    PROVE  LET r == InsertAt(q, n, d)
           IN  /\ Arranged(r) /\ ToSet(r) = ToSet(q) \union {d}
               /\ n <= Len(q) => Follows(d, q[n], r)
               /\ n > 1 => Follows(q[n - 1], d, r)
  <1> DEFINE r == InsertAt(q, n, d)
  <1>1. /\ r \in Seq(Items) /\ Len(q) \in Nat /\ Len(r) = Len(q) + 1 /\ r[n] = d
        /\ \A j \in 1 .. Len(q) : r[IF j < n THEN j ELSE j + 1] = q[j]
    <2>1. q \in Seq(Items)
      BY DEF Arranged
    <2>2. /\ r \in Seq(Items) /\ Len(q) \in Nat /\ Len(r) = Len(q) + 1
          /\ r[n] = d
      BY <2>1, Inserted, SMTT(30)
    <2>3. \A j \in 1 .. Len(q) : r[IF j < n THEN j ELSE j + 1] = q[j]
      BY <2>1, Inserted, SMTT(30)
    <2> QED BY <2>2, <2>3
  <1> HIDE DEF r
  <1>2. \A a \in 1 .. Len(r) : a # n =>
            \E j \in 1 .. Len(q) : r[a] = q[j] /\ j = IF a < n THEN a ELSE a - 1
    <2> SUFFICES ASSUME NEW a \in 1 .. Len(r), a # n
                 PROVE  \E j \in 1 .. Len(q) : r[a] = q[j] /\ j = IF a < n THEN a ELSE a - 1
      OBVIOUS
    <2>1. CASE a < n
      BY <1>1, <2>1
    <2>2. CASE ~(a < n)
      <3>1. a - 1 \in 1 .. Len(q) /\ ~(a - 1 < n) /\ (a - 1) + 1 = a
        BY <1>1, <2>2
      <3> QED BY <1>1, <2>2, <3>1
    <2> QED BY <2>1, <2>2
  <1>3. \A a \in 1 .. Len(r) : r[a] = d => a = n
    BY <1>2, Members
  <1>4. IsInjective(r)
    <2> SUFFICES ASSUME NEW a \in 1 .. Len(r), NEW b \in 1 .. Len(r), r[a] = r[b]
                 PROVE  a = b
      BY <1>1 DEF IsInjective
    <2>1. CASE a = n \/ b = n
      BY <1>1, <1>3, <2>1
    <2>2. CASE a # n /\ b # n
      <3>1. PICK i \in 1 .. Len(q) : r[a] = q[i] /\ i = IF a < n THEN a ELSE a - 1
        BY <1>2, <2>2
      <3>2. PICK j \in 1 .. Len(q) : r[b] = q[j] /\ j = IF b < n THEN b ELSE b - 1
        BY <1>2, <2>2
      <3>3. i = j
        <4>1. q[i] = q[j]
          BY <3>1, <3>2
        <4> QED BY <4>1, Members
      <3> QED BY <1>1, <2>2, <3>1, <3>2, <3>3
    <2> QED BY <2>1, <2>2
  <1>5. Arranged(r)
    BY <1>1, <1>4 DEF Arranged
  <1>6. ToSet(r) = ToSet(q) \union {d}
    <2>1. n \in 1 .. Len(r)
      BY <1>1
    <2>2. d \in ToSet(r)
      BY <1>1, <1>5, <2>1, Members
    <2>3. ASSUME NEW x \in ToSet(r), x # d PROVE x \in ToSet(q)
      BY <1>1, <1>2, <1>5, <2>3, Members
    <2>4. ASSUME NEW x \in ToSet(q) PROVE x \in ToSet(r)
      <3>1. PICK j \in 1 .. Len(q) : q[j] = x
        BY Members
      <3>2. PICK a \in 1 .. Len(r) : a = (IF j < n THEN j ELSE j + 1) /\ r[a] = x
        BY <1>1, <3>1
      <3> QED BY <1>5, <3>2, Members
    <2> QED BY <2>2, <2>3, <2>4
  <1>7. ASSUME n <= Len(q) PROVE Follows(d, q[n], r)
    <2>1. r[n + 1] = q[n] /\ n \in 1 .. Len(r) - 1
      BY <1>1, <1>7
    <2> QED BY <1>1, <2>1 DEF Follows
  <1>8. ASSUME n > 1 PROVE Follows(q[n - 1], d, r)
    <2>1. r[n - 1] = q[n - 1] /\ n - 1 \in 1 .. Len(r) - 1 /\ (n - 1) + 1 = n
      BY <1>1, <1>8
    <2> QED BY <1>1, <2>1 DEF Follows
  <1> QED BY <1>5, <1>6, <1>7, <1>8 DEF r

(* What setSequence puts into a list, and the page at first.                 *)
LEMMA SeqsOf ==
    ASSUME Elements, NEW T \in SUBSET Items, NEW s \in SetToSeqs(T)
    PROVE  Arranged(s) /\ ToSet(s) = T
  <1> DEFINE n == Cardinality(T)
  <1>1. IsFiniteSet(T) /\ n \in Nat
    BY FS_Subset, FS_CardinalityType DEF Elements
  <1>2. s \in [1 .. n -> T] /\ \A i, j \in 1 .. n : i # j => s[i] # s[j]
    BY DEF SetToSeqs
  <1>3. n = Cardinality(T)
    OBVIOUS
  <1> HIDE DEF n
  <1>4. s \in Injection(1 .. n, T)
    BY <1>2 DEF Injection, IsInjective
  <1>5. s \in Surjection(1 .. n, T)
    <2>1. Cardinality(1 .. n) = n
      BY <1>1, FS_Interval
    <2> QED BY <1>1, <1>3, <1>4, <2>1, FS_Injection
  <1>6. Arranged(s)
    BY <1>1, <1>2 DEF Arranged, IsInjective
  <1>7. \A x \in T : \E k \in 1 .. n : s[k] = x
    BY <1>5 DEF Surjection
  <1>8. ToSet(s) = T
    BY <1>2, <1>7 DEF ToSet
  <1> QED BY <1>6, <1>8

(* No list is longer than there are items.                                   *)
LEMMA LengthIs ==
    ASSUME Elements, NEW s, Arranged(s)
    PROVE  Len(s) <= Cardinality(Items)
  <1>1. s \in Injection(1 .. Len(s), Items)
    BY DEF Injection, IsInjective, Arranged
  <1>2. PICK n \in Nat : n = Len(s)
    BY DEF Arranged
  <1>3. Cardinality(1 .. n) = n
    BY FS_Interval
  <1>4. Cardinality(1 .. n) <= Cardinality(Items)
    BY <1>1, <1>2, FS_Injection DEF Elements
  <1> QED BY <1>2, <1>3, <1>4

-----------------------------------------------------------------------------
ListsTyped ==
    /\ order \in [Lists -> Seq(Items)] /\ lastValue \in [Lists -> Seq(Items)]
    /\ observers \subseteq Lists /\ told \subseteq Lists /\ recreated \subseteq Lists
    /\ dragged \in Items \union {Sort!None} /\ gone \subseteq Items

(* ItemsKept, by where each item is.                                         *)
EachInOne ==
    /\ \A l \in Lists : Arranged(order[l])
    /\ \A i \in gone : Sort!ListOf(i) = {}
    /\ \A i \in Items \ gone : \E l \in Lists : Sort!ListOf(i) = {l}

(* HoverPlaces, by the places in the list.                                   *)
HoveredBeside ==
    last # <<>> => \E l \in Lists :
        IF last[3] = "before" THEN Follows(last[1], last[2], order[l])
                              ELSE Follows(last[2], last[1], order[l])

(* An observer that saw the last drag begin remembers its list, and the lists *)
(* told of are told nothing while another drag goes on.                       *)
StartKnown == \A l \in observers \ recreated : lastValue[l] = atStart[l]
ToldDiffer ==
    /\ dragged # Sort!None => told = {}
    /\ \A l \in told \ recreated : order[l] # atStart[l]

SortInv == /\ ListsTyped /\ EachInOne /\ dragged \notin gone /\ HoveredBeside
           /\ StartKnown /\ ToldDiffer

(* NextSibling is what follows, if anything does.                            *)
LEMMA NextIs ==
    ASSUME Elements, NEW l, Arranged(order[l]), NEW x \in Sort!OfList(l)
    PROVE  /\ Sort!NextSibling(x, l) = Sort!None => EndsIn(x, order[l])
           /\ Sort!NextSibling(x, l) # Sort!None =>
                /\ Sort!NextSibling(x, l) \in Sort!OfList(l)
                /\ Follows(x, Sort!NextSibling(x, l), order[l])
           /\ \A y : Follows(x, y, order[l]) => Sort!NextSibling(x, l) = y
  <1> DEFINE s == order[l]
  <1>1. Sort!OfList(l) = ToSet(s) /\ Arranged(s)
    BY SameLibrary DEF Sort!OfList
  <1>2. Sort!NextSibling(x, l) =
            IF Sort!PlaceOf(x, s) < Len(s) THEN s[Sort!PlaceOf(x, s) + 1] ELSE Sort!None
    BY DEF Sort!NextSibling
  <1>3. s \in Seq(Items)
    BY DEF Arranged
  <1> HIDE DEF s
  <1>4. PICK k \in 1 .. Len(s) : s[k] = x
    BY <1>1, Members
  <1>5. Sort!PlaceOf(x, s) = k
    BY <1>1, <1>4, PlaceIs
  <1>6. Len(s) \in Nat /\ \A i \in 1 .. Len(s) : s[i] \in Items /\ s[i] \in ToSet(s)
    BY <1>1, <1>3, Members
  <1>7. CASE k < Len(s)
    <2>1. Sort!NextSibling(x, l) = s[k + 1] /\ k + 1 \in 1 .. Len(s) /\ k \in 1 .. Len(s) - 1
      BY <1>2, <1>5, <1>6, <1>7
    <2>2. /\ Sort!NextSibling(x, l) # Sort!None
          /\ Sort!NextSibling(x, l) \in Sort!OfList(l)
      BY <1>1, <1>6, <2>1 DEF Elements
    <2>3. Follows(x, Sort!NextSibling(x, l), s)
      BY <1>4, <2>1 DEF Follows
    <2>4. ASSUME NEW y, Follows(x, y, s) PROVE Sort!NextSibling(x, l) = y
      <3>1. PICK n \in 1 .. Len(s) - 1 : s[n] = x /\ s[n + 1] = y
        BY <2>4 DEF Follows
      <3>2. n \in 1 .. Len(s)
        BY <1>6, <3>1
      <3>3. n = k
        BY <1>1, <1>4, <3>1, <3>2, Members
      <3> QED BY <2>1, <3>1, <3>3
    <2> QED BY <2>2, <2>3, <2>4 DEF s
  <1>8. CASE ~(k < Len(s))
    <2>1. Sort!NextSibling(x, l) = Sort!None /\ k = Len(s)
      BY <1>2, <1>5, <1>6, <1>8
    <2>2. EndsIn(x, s)
      BY <1>3, <1>4, <2>1 DEF EndsIn
    <2>3. ASSUME NEW y, Follows(x, y, s) PROVE FALSE
      <3>1. PICK n \in 1 .. Len(s) - 1 : s[n] = x /\ s[n + 1] = y
        BY <2>3 DEF Follows
      <3>2. n \in 1 .. Len(s) /\ n # k
        BY <1>6, <2>1, <3>1
      <3> QED BY <1>1, <1>4, <3>1, <3>2, Members
    <2> QED BY <2>1, <2>2, <2>3 DEF s
  <1> QED BY <1>7, <1>8

(* Items that follow each other in a list have places next to each other.  *)
LEMMA HoveredImplies ==
    ASSUME Elements, ListsTyped, EachInOne
    PROVE  HoveredBeside => Sort!HoverPlaces
  <1> SUFFICES ASSUME HoveredBeside, last # <<>> PROVE Sort!HoverPlaces
    BY DEF Sort!HoverPlaces
  <1>1. PICK l \in Lists :
        IF last[3] = "before" THEN Follows(last[1], last[2], order[l])
                              ELSE Follows(last[2], last[1], order[l])
    BY DEF HoveredBeside
  <1>2. Arranged(order[l]) /\ Sort!OfList(l) = ToSet(order[l])
    BY SameLibrary DEF EachInOne, Sort!OfList
  <1>3. \A x, y : Follows(x, y, order[l]) =>
            {x, y} \subseteq Sort!OfList(l) /\ Sort!NextSibling(x, l) = y
    <2> SUFFICES ASSUME NEW x, NEW y, Follows(x, y, order[l])
                 PROVE  {x, y} \subseteq Sort!OfList(l) /\ Sort!NextSibling(x, l) = y
      OBVIOUS
    <2>1. PICK n \in 1 .. Len(order[l]) - 1 : order[l][n] = x /\ order[l][n + 1] = y
      BY DEF Follows
    <2>2. n \in 1 .. Len(order[l]) /\ n + 1 \in 1 .. Len(order[l])
      BY <1>2, <2>1, Members
    <2>3. x \in Sort!OfList(l) /\ y \in Sort!OfList(l)
      BY <1>2, <2>1, <2>2, Members
    <2> QED BY <1>2, <2>3, NextIs
  <1> QED BY <1>1, <1>3 DEF Sort!HoverPlaces

(* insertBefore moves an item, and no other.                                 *)
LEMMA InsertedBefore ==
    ASSUME Elements, ListsTyped, EachInOne, NEW d \in Items, NEW l \in Lists,
           NEW before \in (Sort!OfList(l) \ {d}) \union {Sort!None}
    PROVE  LET o == Sort!InsertBefore(d, l, before)
           IN  /\ o \in [Lists -> Seq(Items)]
               /\ \A k \in Lists : Arranged(o[k])
               /\ \A k \in Lists :
                    ToSet(o[k]) =
                        IF k = l THEN Sort!OfList(k) \union {d} ELSE Sort!OfList(k) \ {d}
               /\ before # Sort!None => Follows(d, before, o[l])
               /\ \A x \in Sort!OfList(l) \ {d} :
                    (before = Sort!None /\ EndsIn(x, order[l])) \/ Follows(x, before, order[l])
                        => Follows(x, d, o[l])
  <1> DEFINE q == RemoveFirst(order[l], d)
             n == IF before = Sort!None THEN Len(q) + 1 ELSE Sort!PlaceOf(before, q)
             r == InsertAt(q, n, d)
             o == Sort!InsertBefore(d, l, before)
  <1>1. o = [k \in Lists |-> IF k = l THEN r ELSE RemoveFirst(order[k], d)]
    BY SameLibrary DEF Sort!InsertBefore, Sort!Without
  <1>2. \A k \in Lists :
            /\ Arranged(RemoveFirst(order[k], d))
            /\ ToSet(RemoveFirst(order[k], d)) = Sort!OfList(k) \ {d}
    BY Taken, SameLibrary DEF EachInOne, Sort!OfList
  <1>3. /\ Arranged(q) /\ ToSet(q) = Sort!OfList(l) \ {d}
        /\ \A x, y : x # d /\ y # d /\ Follows(x, y, order[l]) => Follows(x, y, q)
        /\ \A x : x # d /\ EndsIn(x, order[l]) => EndsIn(x, q)
    BY Taken, SameLibrary DEF EachInOne, Sort!OfList
  <1>4. Sort!None \notin ToSet(q) /\ Sort!None \notin Items
    BY <1>3, Members DEF Elements, Arranged
  <1> HIDE DEF q, o
  <1>5. Len(q) \in Nat
    BY <1>3, Members
  <1>6. n \in 1 .. Len(q) + 1 /\ (before # Sort!None => n <= Len(q) /\ q[n] = before)
    <2>1. CASE before = Sort!None
      BY <1>5, <2>1
    <2>2. CASE before # Sort!None
      <3>1. before \in ToSet(q)
        BY <1>3, <2>2
      <3>2. PICK k \in 1 .. Len(q) : q[k] = before
        BY <1>3, <3>1, Members
      <3>3. n = k
        BY <1>3, <2>2, <3>2, PlaceIs
      <3> QED BY <1>5, <3>2, <3>3
    <2> QED BY <2>1, <2>2
  <1>7. before = Sort!None => n = Len(q) + 1
    OBVIOUS
  <1> HIDE DEF n
  <1>8. /\ Arranged(r) /\ ToSet(r) = ToSet(q) \union {d}
        /\ n <= Len(q) => Follows(d, q[n], r)
        /\ n > 1 => Follows(q[n - 1], d, r)
    <2>1. d \notin ToSet(q)
      BY <1>3
    <2> QED BY <1>3, <1>6, <2>1, PutIn
  <1> HIDE DEF r
  <1>9. \A k \in Lists : o[k] = IF k = l THEN r ELSE RemoveFirst(order[k], d)
    BY <1>1
  <1>10. \A k \in Lists :
            /\ Arranged(o[k])
            /\ ToSet(o[k]) =
                 IF k = l THEN Sort!OfList(k) \union {d} ELSE Sort!OfList(k) \ {d}
    BY <1>2, <1>3, <1>8, <1>9
  <1>11. o \in [Lists -> Seq(Items)]
    BY <1>1, <1>2, <1>8 DEF Arranged
  <1>12. before # Sort!None => Follows(d, before, o[l])
    BY <1>6, <1>8, <1>9
  <1>13. ASSUME NEW x \in Sort!OfList(l) \ {d}, before = Sort!None, EndsIn(x, order[l])
         PROVE  Follows(x, d, o[l])
    <2>1. EndsIn(x, q) /\ n = Len(q) + 1
      BY <1>3, <1>7, <1>13
    <2>2. n > 1 /\ q[n - 1] = x
      BY <1>3, <1>5, <2>1 DEF EndsIn, Arranged
    <2> QED BY <1>8, <1>9, <2>2
  <1>14. ASSUME NEW x \in Sort!OfList(l) \ {d}, Follows(x, before, order[l])
         PROVE  Follows(x, d, o[l])
    <2>1. before # Sort!None
      <3>1. Arranged(order[l])
        BY DEF EachInOne
      <3> QED BY <1>4, <1>14, <3>1 DEF Follows, Arranged
    <2>2. PICK m \in 1 .. Len(q) - 1 : q[m] = x /\ q[m + 1] = before
      <3>1. Follows(x, before, q)
        BY <1>3, <1>14, <2>1
      <3> QED BY <3>1 DEF Follows
    <2>3. m + 1 \in 1 .. Len(q) /\ n \in 1 .. Len(q) /\ q[n] = before
      BY <1>5, <1>6, <2>1, <2>2
    <2>4. n = m + 1
      BY <1>3, <2>2, <2>3, Members
    <2>5. n > 1 /\ q[n - 1] = x
      BY <1>5, <2>2, <2>4
    <2> QED BY <1>8, <1>9, <2>5
  <1>15. \A x \in Sort!OfList(l) \ {d} :
            (before = Sort!None /\ EndsIn(x, order[l])) \/ Follows(x, before, order[l])
                => Follows(x, d, o[l])
    BY <1>13, <1>14
  <1> QED BY <1>10, <1>11, <1>12, <1>15 DEF o

-----------------------------------------------------------------------------
(* The invariant at the beginning.                                         *)
LEMMA SortStarts ==
    ASSUME Elements
    PROVE  Sort!Init => SortInv
  <1> SUFFICES ASSUME Sort!Init PROVE SortInv
    OBVIOUS
  <1>1. PICK l \in Lists, s \in SetToSeqs(Items) :
            order = [k \in Lists |-> IF k = l THEN s ELSE <<>>]
    BY SameLibrary DEF Sort!Init
  <1>2. Arranged(s) /\ ToSet(s) = Items
    BY SeqsOf
  <1>3. Arranged(<<>>) /\ ToSet(<<>>) = {}
    BY DEF Arranged, IsInjective, ToSet
  <1>4. \A k \in Lists : order[k] = IF k = l THEN s ELSE <<>>
    BY <1>1
  <1>5. order \in [Lists -> Seq(Items)]
    BY <1>1, <1>2, <1>3 DEF Arranged
  <1>6. \A k \in Lists : Arranged(order[k])
    BY <1>2, <1>3, <1>4
  <1>7. \A i \in Items : Sort!ListOf(i) = {l}
    <2>1. \A k \in Lists : Sort!OfList(k) = IF k = l THEN Items ELSE {}
      BY <1>2, <1>3, <1>4, SameLibrary DEF Sort!OfList
    <2> QED BY <2>1 DEF Sort!ListOf
  <1>8. ListsTyped
    BY <1>5 DEF Sort!Init, ListsTyped
  <1>9. EachInOne
    BY <1>6, <1>7 DEF EachInOne, Sort!Init
  <1>10. dragged \notin gone /\ HoveredBeside /\ StartKnown /\ ToldDiffer
    BY DEF Sort!Init, HoveredBeside, StartKnown, ToldDiffer
  <1> QED BY <1>8, <1>9, <1>10 DEF SortInv

(* What a hover leaves of the lists.                                        *)
LEMMA StillKept ==
    ASSUME Elements, SortInv, dragged # Sort!None, gone' = gone, NEW l \in Lists,
           NEW before \in (Sort!OfList(l) \ {dragged}) \union {Sort!None},
           order' = Sort!InsertBefore(dragged, l, before)
    PROVE  EachInOne' /\ order' \in [Lists -> Seq(Items)]
  <1>1. ListsTyped /\ EachInOne
    BY DEF SortInv
  <1>2. PICK d \in Items \ gone : d = dragged
    BY DEF SortInv, ListsTyped
  <1>3. /\ order' = Sort!InsertBefore(d, l, before)
        /\ before \in (Sort!OfList(l) \ {d}) \union {Sort!None}
    BY <1>2
  <1>4. /\ Sort!InsertBefore(d, l, before) \in [Lists -> Seq(Items)]
        /\ \A k \in Lists : Arranged(Sort!InsertBefore(d, l, before)[k])
        /\ \A k \in Lists : ToSet(Sort!InsertBefore(d, l, before)[k]) =
             IF k = l THEN Sort!OfList(k) \union {d} ELSE Sort!OfList(k) \ {d}
    BY <1>1, <1>3, InsertedBefore, ZenonT(40)
  <1>5. order' \in [Lists -> Seq(Items)] /\ \A k \in Lists : Arranged(order'[k])
    BY <1>3, <1>4
  <1>6. \A k \in Lists : Sort!OfList(k)' =
            IF k = l THEN Sort!OfList(k) \union {d} ELSE Sort!OfList(k) \ {d}
    BY <1>3, <1>4, SameLibrary DEF Sort!OfList
  <1>7. Sort!ListOf(d)' = {l}
    BY <1>6 DEF Sort!ListOf
  <1>8. \A i : i # d => Sort!ListOf(i)' = Sort!ListOf(i)
    BY <1>6 DEF Sort!ListOf
  <1>9. \A i \in gone' : Sort!ListOf(i)' = {}
    BY <1>1, <1>8 DEF EachInOne
  <1>10. \A i \in Items \ gone' : \E k \in Lists : Sort!ListOf(i)' = {k}
    BY <1>1, <1>7, <1>8 DEF EachInOne
  <1> QED BY <1>5, <1>9, <1>10 DEF EachInOne

(* The dragged item hovers over another one,                               *)
LEMMA onHoverKeeps ==
    ASSUME Elements, SortInv, Sort!onHover
    PROVE  SortInv'
  <1>1. PICK l \in Lists, side \in {"before", "after"} :
        \E dropon \in Sort!OfList(l) \ {dragged} :
        LET before == IF side = "before" THEN dropon ELSE Sort!NextSibling(dropon, l)
            there == IF side = "before"
                     THEN dragged \in Sort!OfList(l) /\ Sort!NextSibling(dragged, l) = dropon
                     ELSE before = dragged
        IN /\ order' = IF there THEN order ELSE Sort!InsertBefore(dragged, l, before)
           /\ last' = <<dragged, dropon, side>>
    BY DEF Sort!onHover
  <1>2. PICK dropon \in Sort!OfList(l) \ {dragged} :
        LET before == IF side = "before" THEN dropon ELSE Sort!NextSibling(dropon, l)
            there == IF side = "before"
                     THEN dragged \in Sort!OfList(l) /\ Sort!NextSibling(dragged, l) = dropon
                     ELSE before = dragged
        IN /\ order' = IF there THEN order ELSE Sort!InsertBefore(dragged, l, before)
           /\ last' = <<dragged, dropon, side>>
    BY <1>1
  <1> DEFINE before == IF side = "before" THEN dropon ELSE Sort!NextSibling(dropon, l)
             there == IF side = "before"
                      THEN dragged \in Sort!OfList(l) /\ Sort!NextSibling(dragged, l) = dropon
                      ELSE before = dragged
  <1>3. /\ order' = IF there THEN order ELSE Sort!InsertBefore(dragged, l, before)
        /\ last' = <<dragged, dropon, side>>
    BY <1>2
  <1>4. /\ dragged # Sort!None
        /\ UNCHANGED <<observers, lastValue, dragged, atStart, told, recreated, gone>>
    BY DEF Sort!onHover
  <1>5. /\ dragged \in Items \ gone /\ ListsTyped /\ EachInOne /\ StartKnown
        /\ dragged \notin gone /\ told = {}
    BY <1>4 DEF SortInv, ListsTyped, ToldDiffer
  <1>6. Arranged(order[l]) /\ dropon \in Sort!OfList(l)
    BY <1>5 DEF EachInOne
  <1>7. /\ Sort!NextSibling(dropon, l) = Sort!None => EndsIn(dropon, order[l])
        /\ Sort!NextSibling(dropon, l) # Sort!None =>
             /\ Sort!NextSibling(dropon, l) \in Sort!OfList(l)
             /\ Follows(dropon, Sort!NextSibling(dropon, l), order[l])
    BY <1>6, NextIs
  <1>8. dragged \in Sort!OfList(l) /\ Sort!NextSibling(dragged, l) # Sort!None =>
            Follows(dragged, Sort!NextSibling(dragged, l), order[l])
    BY <1>6, NextIs
  <1>9. dropon # Sort!None
    <2>1. dropon \in Items
      BY <1>6, Members, SameLibrary DEF Sort!OfList, Arranged
    <2> QED BY <2>1 DEF Elements
  <1>10. /\ EachInOne' /\ order' \in [Lists -> Seq(Items)]
        /\ IF side = "before" THEN Follows(dragged, dropon, order'[l])
                              ELSE Follows(dropon, dragged, order'[l])
    <2>1. CASE there
      <3>1. order' = order
        BY <1>3, <2>1
      <3>2. EachInOne' /\ order' \in [Lists -> Seq(Items)]
        <4>1. \A i : Sort!ListOf(i)' = Sort!ListOf(i)
          BY <3>1 DEF Sort!ListOf, Sort!OfList
        <4>2. gone' = gone
          BY <1>4
        <4>3. EachInOne'
          BY <1>5, <3>1, <4>1, <4>2, Zenon DEF EachInOne
        <4> QED BY <1>5, <3>1, <4>3 DEF ListsTyped
      <3>3. CASE side = "before"
        BY <1>8, <1>9, <2>1, <3>1, <3>2, <3>3
      <3>4. CASE side # "before"
        <4>1. Sort!NextSibling(dropon, l) = dragged
          BY <2>1, <3>4
        <4> QED BY <1>4, <1>7, <3>1, <3>2, <3>4, <4>1
      <3> QED BY <3>3, <3>4
    <2>2. CASE ~there
      <3>1. order' = Sort!InsertBefore(dragged, l, before)
        BY <1>3, <2>2
      <3>2. before \in (Sort!OfList(l) \ {dragged}) \union {Sort!None}
        BY <1>6, <1>7, <2>2
      <3>3. side = "before" => before = dropon
        OBVIOUS
      <3>4. side # "before" => before = Sort!NextSibling(dropon, l)
        OBVIOUS
      <3> HIDE DEF before, there
      <3>5. EachInOne' /\ order' \in [Lists -> Seq(Items)]
        BY <1>4, <3>1, <3>2, StillKept
      <3>6. /\ before # Sort!None => Follows(dragged, before, order'[l])
            /\ \A x \in Sort!OfList(l) \ {dragged} :
                 (before = Sort!None /\ EndsIn(x, order[l])) \/ Follows(x, before, order[l])
                    => Follows(x, dragged, order'[l])
        BY <1>5, <3>1, <3>2, InsertedBefore
      <3>7. CASE side = "before"
        BY <1>9, <3>3, <3>5, <3>6, <3>7
      <3>8. CASE side # "before"
        BY <1>6, <1>7, <3>4, <3>5, <3>6, <3>8
      <3> QED BY <3>7, <3>8
    <2> QED BY <2>1, <2>2
  <1> HIDE DEF before, there
  <1>11. ListsTyped'
    BY <1>4, <1>5, <1>10 DEF ListsTyped
  <1>12. HoveredBeside'
    BY <1>3, <1>10 DEF HoveredBeside
  <1>13. StartKnown' /\ ToldDiffer' /\ (dragged \notin gone)'
    BY <1>4, <1>5 DEF StartKnown, ToldDiffer
  <1> QED BY <1>10, <1>11, <1>12, <1>13 DEF SortInv

(* over an empty list,                                                     *)
LEMMA onEmptyHoverKeeps ==
    ASSUME Elements, SortInv, Sort!onEmptyHover
    PROVE  SortInv'
  <1>1. PICK l \in Lists : \E child \in (Sort!OfList(l) \ {dragged}) \union {Sort!None} :
            order' = Sort!InsertBefore(dragged, l, child)
    BY DEF Sort!onEmptyHover
  <1>2. PICK child \in (Sort!OfList(l) \ {dragged}) \union {Sort!None} :
            order' = Sort!InsertBefore(dragged, l, child)
    BY <1>1
  <1>3. /\ dragged # Sort!None /\ last' = <<>>
        /\ UNCHANGED <<observers, lastValue, dragged, atStart, told, recreated, gone>>
    BY DEF Sort!onEmptyHover
  <1>4. EachInOne' /\ order' \in [Lists -> Seq(Items)]
    BY <1>2, <1>3, StillKept
  <1>5. ListsTyped'
    BY <1>3, <1>4 DEF SortInv, ListsTyped
  <1>6. HoveredBeside' /\ StartKnown' /\ ToldDiffer' /\ (dragged \notin gone)'
    BY <1>3 DEF SortInv, HoveredBeside, StartKnown, ToldDiffer
  <1> QED BY <1>4, <1>5, <1>6 DEF SortInv

(* or the page sets the sequence.                                          *)
LEMMA setSequenceKeeps ==
    ASSUME Elements, SortInv, Sort!setSequence
    PROVE  SortInv'
  <1>1. PICK l \in Lists : \E named \in SUBSET Sort!OfList(l) :
        /\ dragged \notin Sort!OfList(l) \ named
        /\ gone' = gone \union (Sort!OfList(l) \ named)
        /\ \E s \in SetToSeqs(named) : order' = [order EXCEPT ![l] = s]
    BY SameLibrary DEF Sort!setSequence
  <1>2. PICK named \in SUBSET Sort!OfList(l) :
        /\ dragged \notin Sort!OfList(l) \ named
        /\ gone' = gone \union (Sort!OfList(l) \ named)
        /\ \E s \in SetToSeqs(named) : order' = [order EXCEPT ![l] = s]
    BY <1>1
  <1>3. PICK s \in SetToSeqs(named) : order' = [order EXCEPT ![l] = s]
    BY <1>2
  <1>4. /\ last' = <<>> /\ told' = {}
        /\ UNCHANGED <<observers, lastValue, dragged, atStart, recreated>>
    BY DEF Sort!setSequence
  <1>5. ListsTyped /\ EachInOne /\ StartKnown /\ dragged \notin gone
    BY DEF SortInv
  <1>6. Sort!OfList(l) \subseteq Items
    <2>1. Arranged(order[l])
      BY <1>5 DEF EachInOne
    <2> QED BY <2>1, Members, SameLibrary DEF Sort!OfList, Arranged
  <1>7. Arranged(s) /\ ToSet(s) = named
    BY <1>6, SeqsOf
  <1>8. /\ order' \in [Lists -> Seq(Items)]
        /\ \A k \in Lists : order'[k] = IF k = l THEN s ELSE order[k]
    BY <1>3, <1>5, <1>7 DEF ListsTyped, Arranged
  <1>9. \A k \in Lists : /\ Arranged(order'[k])
                         /\ Sort!OfList(k)' = IF k = l THEN named ELSE Sort!OfList(k)
    BY <1>5, <1>7, <1>8, SameLibrary DEF EachInOne, Sort!OfList
  <1>10. ASSUME NEW i \in Sort!OfList(l) \ named PROVE Sort!ListOf(i)' = {}
    <2>1. l \in Sort!ListOf(i) /\ i \in Items
      BY <1>6 DEF Sort!ListOf
    <2>2. Sort!ListOf(i) = {l}
      BY <1>5, <2>1 DEF EachInOne
    <2> QED BY <1>9, <2>2 DEF Sort!ListOf
  <1>11. ASSUME NEW i, i \notin Sort!OfList(l) \ named
         PROVE  Sort!ListOf(i)' = Sort!ListOf(i)
    BY <1>9, <1>11 DEF Sort!ListOf
  <1>12. \A i \in gone' : Sort!ListOf(i)' = {}
    <2>1. \A i \in gone : Sort!ListOf(i) = {}
      BY <1>5 DEF EachInOne
    <2> QED BY <1>2, <1>10, <1>11, <2>1
  <1>13. \A i \in Items \ gone' : \E k \in Lists : Sort!ListOf(i)' = {k}
    <2>1. \A i \in Items \ gone : \E k \in Lists : Sort!ListOf(i) = {k}
      BY <1>5 DEF EachInOne
    <2> QED BY <1>2, <1>11, <2>1
  <1>14. EachInOne'
    BY <1>9, <1>12, <1>13 DEF EachInOne
  <1>15. ListsTyped'
    BY <1>2, <1>4, <1>5, <1>6, <1>8 DEF ListsTyped
  <1>16. HoveredBeside' /\ StartKnown' /\ ToldDiffer' /\ (dragged \notin gone)'
    BY <1>2, <1>4, <1>5 DEF HoveredBeside, StartKnown, ToldDiffer
  <1> QED BY <1>14, <1>15, <1>16 DEF SortInv

(* Every step keeps the invariant and tells of changed lists.              *)
LEMMA SortStep ==
    ASSUME Elements, SortInv, [Sort!Next]_(Sort!vars)
    PROVE  SortInv' /\ Sort!ChangesAreTold
  <1>1. ASSUME UNCHANGED order, UNCHANGED gone PROVE EachInOne'
    BY <1>1 DEF SortInv, EachInOne, Sort!ListOf, Sort!OfList
  <1>2. CASE Sort!onStart
    <2>1. PICK i \in Items \ gone : dragged' = i
      BY <1>2 DEF Sort!onStart
    <2>2. /\ dragged = Sort!None /\ atStart' = order /\ told' = {}
          /\ lastValue' = [l \in Lists |-> Sort!StartValue(l)] /\ recreated' = {}
          /\ UNCHANGED <<order, observers, last, gone>>
      BY <1>2 DEF Sort!onStart
    <2>3. \A l \in Lists : lastValue'[l] = IF l \in observers THEN order[l] ELSE lastValue[l]
      BY <2>2 DEF Sort!StartValue, Sort!Serialized
    <2>4. ListsTyped'
      <3>1. \A l \in Lists : Sort!StartValue(l) \in Seq(Items)
        BY DEF SortInv, ListsTyped, Sort!StartValue, Sort!Serialized
      <3> QED BY <2>1, <2>2, <3>1 DEF SortInv, ListsTyped
    <2>5. StartKnown' /\ ToldDiffer'
      BY <2>2, <2>3 DEF SortInv, ListsTyped, StartKnown, ToldDiffer
    <2>6. HoveredBeside' /\ EachInOne' /\ (dragged \notin gone)'
      BY <1>1, <2>1, <2>2 DEF SortInv, HoveredBeside
    <2>7. Sort!ChangesAreTold
      BY <2>2 DEF Sort!ChangesAreTold
    <2> QED BY <2>4, <2>5, <2>6, <2>7 DEF SortInv
  <1>3. CASE Sort!onHover
    BY <1>3, onHoverKeeps DEF Sort!onHover, Sort!ChangesAreTold, SortInv, ToldDiffer
  <1>4. CASE Sort!onEmptyHover
    BY <1>4, onEmptyHoverKeeps
       DEF Sort!onEmptyHover, Sort!ChangesAreTold, SortInv, ToldDiffer
  <1>5. CASE Sort!onEnd
    <2>1. /\ dragged # Sort!None /\ dragged' = Sort!None
          /\ told' = {l \in observers : lastValue[l] # order[l]}
          /\ last' = <<>>
          /\ UNCHANGED <<order, observers, lastValue, atStart, recreated, gone>>
      BY <1>5 DEF Sort!onEnd, Sort!TellChanged, Sort!Serialized
    <2>2. ListsTyped' /\ EachInOne' /\ (dragged \notin gone)'
      BY <1>1, <2>1 DEF SortInv, ListsTyped, Elements
    <2>3. HoveredBeside' /\ StartKnown' /\ ToldDiffer'
      BY <2>1 DEF SortInv, HoveredBeside, StartKnown, ToldDiffer
    <2>4. Sort!ChangesAreTold
      BY <2>1 DEF Sort!ChangesAreTold, SortInv, StartKnown
    <2> QED BY <2>2, <2>3, <2>4 DEF SortInv
  <1>10. CASE Sort!onEscape
    <2>1. /\ dragged = Sort!None
          /\ told' = {l \in observers : lastValue[l] # order[l]}
          /\ UNCHANGED <<order, observers, lastValue, dragged, last, atStart, recreated,
                         gone>>
      BY <1>10 DEF Sort!onEscape, Sort!TellChanged, Sort!Serialized
    <2>2. ListsTyped' /\ EachInOne' /\ (dragged \notin gone)'
      BY <1>1, <2>1 DEF SortInv, ListsTyped
    <2>3. HoveredBeside' /\ StartKnown' /\ ToldDiffer'
      BY <2>1 DEF SortInv, HoveredBeside, StartKnown, ToldDiffer
    <2>4. Sort!ChangesAreTold
      BY <2>1 DEF Sort!ChangesAreTold, SortInv, StartKnown
    <2> QED BY <2>2, <2>3, <2>4 DEF SortInv
  <1>6. CASE Sort!setSequence
    BY <1>6, setSequenceKeeps DEF Sort!setSequence, Sort!ChangesAreTold
  <1>7. CASE Sort!destroy
    <2>1. PICK l \in observers : observers' = observers \ {l} /\ Sort!Recreated(l)
      BY <1>7 DEF Sort!destroy
    <2>2. told' = {} /\ UNCHANGED <<order, lastValue, dragged, last, atStart, gone>>
      BY <1>7 DEF Sort!destroy
    <2>3. ListsTyped' /\ EachInOne' /\ (dragged \notin gone)'
      BY <1>1, <2>1, <2>2 DEF SortInv, ListsTyped, Sort!Recreated
    <2>4. HoveredBeside' /\ StartKnown' /\ ToldDiffer'
      BY <2>1, <2>2 DEF SortInv, HoveredBeside, StartKnown, ToldDiffer, Sort!Recreated
    <2> QED BY <2>2, <2>3, <2>4 DEF SortInv, Sort!ChangesAreTold
  <1>8. CASE Sort!create
    <2>1. PICK l \in Lists :
            /\ observers' = observers \union {l}
            /\ lastValue' = [lastValue EXCEPT ![l] = Sort!Serialized(l)]
            /\ Sort!Recreated(l)
      BY <1>8 DEF Sort!create
    <2>2. told' = {} /\ UNCHANGED <<order, dragged, last, atStart, gone>>
      BY <1>8 DEF Sort!create
    <2>3. ListsTyped' /\ EachInOne' /\ (dragged \notin gone)'
      BY <1>1, <2>1, <2>2 DEF SortInv, ListsTyped, Sort!Recreated, Sort!Serialized
    <2>4. HoveredBeside' /\ StartKnown' /\ ToldDiffer'
      BY <2>1, <2>2 DEF SortInv, ListsTyped, HoveredBeside, StartKnown, ToldDiffer,
                        Sort!Recreated
    <2> QED BY <2>2, <2>3, <2>4 DEF SortInv, Sort!ChangesAreTold
  <1>9. CASE UNCHANGED Sort!vars
    <2>1. UNCHANGED <<order, observers, lastValue, dragged, last, atStart, told,
                      recreated, gone>>
      BY <1>9 DEF Sort!vars
    <2>2. ListsTyped' /\ EachInOne' /\ (dragged \notin gone)'
      BY <1>1, <2>1 DEF SortInv, ListsTyped
    <2>3. HoveredBeside' /\ StartKnown' /\ ToldDiffer'
      BY <2>1 DEF SortInv, HoveredBeside, StartKnown, ToldDiffer
    <2> QED BY <2>1, <2>2, <2>3 DEF SortInv, ToldDiffer, Sort!ChangesAreTold
  <1> QED BY <1>2, <1>3, <1>4, <1>5, <1>6, <1>7, <1>8, <1>9, <1>10 DEF Sort!Next

(* It implies what is promised,                                            *)
LEMMA SortInvImplies ==
    ASSUME Elements, SortInv
    PROVE  Sort!TypeOK /\ Sort!ItemsKept /\ Sort!HoverPlaces
  <1>1. \A l \in Lists : Len(order[l]) <= Cardinality(Items)
    BY LengthIs DEF SortInv, EachInOne
  <1>2. Sort!TypeOK
    BY <1>1, SameLibrary DEF SortInv, ListsTyped, Sort!TypeOK
  <1>3. ASSUME NEW i \in Items
        PROVE  Cardinality(Sort!ListOf(i)) = IF i \in gone THEN 0 ELSE 1
    BY FS_EmptySet, FS_Singleton DEF SortInv, EachInOne
  <1>4. Sort!ItemsKept
    BY <1>3, SameLibrary DEF Sort!ItemsKept, SortInv, EachInOne, Arranged
  <1>5. Sort!HoverPlaces
    BY HoveredImplies DEF SortInv
  <1> QED BY <1>2, <1>4, <1>5

(* and always holds.                                                       *)
LEMMA SortKept ==
    ASSUME Elements
    PROVE  Sort!Spec => []SortInv
  <1>1. SortInv /\ [Sort!Next]_(Sort!vars) => SortInv'
    BY SortStep
  <1> QED BY <1>1, SortStarts, PTL DEF Sort!Spec

-----------------------------------------------------------------------------
(* Dragged from list to list, no item is lost or doubled, and it lies beside  *)
(* the item it hovers over.                                                *)
THEOREM ItemsStayInLists ==
    ASSUME Elements
    PROVE  Sort!Spec => [](Sort!TypeOK /\ Sort!ItemsKept /\ Sort!HoverPlaces)
  <1>1. SortInv => Sort!TypeOK /\ Sort!ItemsKept /\ Sort!HoverPlaces
    BY SortInvImplies
  <1> QED BY <1>1, SortKept, PTL

(* When a drag ends, onUpdate has been called for exactly the lists that      *)
(* differ from when it began, those created or destroyed since apart; and a    *)
(* press that Escape ends tells of those that differ from when the last drag   *)
(* began.                                                                  *)
THEOREM ChangedListsAreTold ==
    ASSUME Elements
    PROVE  Sort!Spec => Sort!TellsChangedLists
  <1>1. SortInv /\ [Sort!Next]_(Sort!vars) => [Sort!ChangesAreTold]_(Sort!vars)
    BY SortStep
  <1> QED BY <1>1, SortKept, PTL DEF Sort!Spec, Sort!TellsChangedLists

-----------------------------------------------------------------------------
(* ElementEffects.                                                         *)
(* The instance has the library's operator under a name of its own.         *)
LEMMA SameStyle == \A S : Style!Cardinality(S) = Cardinality(S)
  BY DEF Style!Cardinality, Cardinality

(* What makeClipping and makePositioned may write.                          *)
Makeable == {"clip"} \union Style!Positions

(* What an effect finds changed because the parts before it changed it and   *)
(* have not put it back: what they made, and what else they wrote.           *)
InheritedMade(k) ==
    CASE k = "Grow2" -> {"clip", "position"}
      [] k = "Fold2" -> {"clip"}
      [] k \in {"Shake2", "Shake3"} -> {"position"}
      [] OTHER -> {}

Inherited(k) ==
    CASE k \in {"Grow2", "Shake2", "Shake3"} -> {"place"}
      [] k = "SwitchOff2" -> {"opacity"}
      [] k = "Fold2" -> {"size"}
      [] OTHER -> {}

MadeAtStart(k) == InheritedMade(k) \union Style!Constructed(k)
MadeInAll(k) == MadeAtStart(k) \union Style!SetUp(k)
WrittenInAll(k) == Inherited(k) \union Style!Updated(k) \union Style!Absolutized(k)

(* What an effect that finishes gives a value, whatever it was.               *)
GivenBack(k) ==
    Style!OldStyle(k) \union Style!OldLook(k) \union Style!Original(k)
        \union (IF k \in {"Appear", "SwitchOff"} THEN {"opacity"} ELSE {})

(* The tables agree: whatever an effect does not undo or give back, its next  *)
(* part takes over.                                                        *)
TidiedUp(k) ==
    /\ MadeInAll(k) \ Style!Undone(k) \subseteq UNION {InheritedMade(n) : n \in Style!NextPart(k)}
    /\ WrittenInAll(k) \ GivenBack(k) \subseteq UNION {Inherited(n) : n \in Style!NextPart(k)}
    /\ k = "SwitchOff" => "opacity" \in UNION {Inherited(n) : n \in Style!NextPart(k)}
    /\ "innerPosition" \in Style!Undone(k) => "innerPlace" \in Style!OldLook(k)
    /\ Style!Original(k) \intersect (Inherited(k) \union Makeable) = {}
    /\ Style!OldLook(k) \subseteq Style!WrittenBack \ {"clip"}
    /\ "clip" \notin Style!OldStyle(k)

LEMMA PartsTidyUp ==
    ASSUME NEW k \in Style!Kinds
    PROVE  TidiedUp(k)
  <1> USE DEF TidiedUp, MadeInAll, WrittenInAll, GivenBack, MadeAtStart, InheritedMade,
              Inherited, Makeable, Style!Positions, Style!WrittenBack, Style!Constructed,
              Style!SetUp, Style!Absolutized, Style!Updated, Style!Undone, Style!OldStyle,
              Style!OldLook, Style!Original, Style!NextPart
  <1>1. CASE k = "Fade"
    BY <1>1
  <1>2. CASE k = "Appear"
    BY <1>2
  <1>3. CASE k = "Puff"
    BY <1>3
  <1>4. CASE k = "BlindUp"
    BY <1>4
  <1>5. CASE k = "BlindDown"
    BY <1>5
  <1>6. CASE k = "SwitchOff"
    BY <1>6
  <1>7. CASE k = "DropOut"
    BY <1>7
  <1>8. CASE k = "Shake"
    BY <1>8
  <1>9. CASE k = "SlideDown"
    BY <1>9
  <1>10. CASE k = "SlideUp"
    BY <1>10
  <1>11. CASE k = "Squish"
    BY <1>11
  <1>12. CASE k = "Grow"
    BY <1>12
  <1>13. CASE k = "Shrink"
    BY <1>13
  <1>14. CASE k = "Pulsate"
    BY <1>14
  <1>15. CASE k = "Fold"
    BY <1>15
  <1>16. CASE k = "Highlight"
    BY <1>16
  <1>17. CASE k = "Grow2"
    BY <1>17
  <1>18. CASE k = "SwitchOff2"
    BY <1>18
  <1>19. CASE k = "Fold2"
    BY <1>19
  <1>20. CASE k = "Shake2"
    BY <1>20
  <1>21. CASE k = "Shake3"
    BY <1>21
  <1> QED BY <1>1, <1>2, <1>3, <1>4, <1>5, <1>6, <1>7, <1>8, <1>9, <1>10, <1>11,
             <1>12, <1>13, <1>14, <1>15, <1>16, <1>17, <1>18, <1>19, <1>20, <1>21
          DEF Style!Kinds, Style!Visuals, Style!Parts

(* The tables change things, and have one next part at most.               *)
LEMMA TablesTyped ==
    ASSUME NEW k \in Style!Kinds
    PROVE  /\ Style!Constructed(k) \subseteq Makeable /\ Style!SetUp(k) \subseteq Makeable
           /\ Style!Updated(k) \subseteq Style!Things /\ Style!Absolutized(k) \subseteq Style!Things
           /\ Inherited(k) \intersect Makeable = {}
           /\ Style!NextPart(k) \subseteq Style!Parts
           /\ \A m, n \in Style!NextPart(k) : m = n
  <1>1. Style!Constructed(k) \subseteq Makeable /\ Style!SetUp(k) \subseteq Makeable
    BY DEF Style!SetUp, Style!Constructed, Makeable, Style!Positions
  <1>2. Style!Updated(k) \subseteq Style!Things
    BY DEF Style!Updated, Style!Things, Style!Kinds, Style!Visuals, Style!Parts
  <1>3. Style!Absolutized(k) \subseteq Style!Things
    BY DEF Style!Absolutized, Style!Things
  <1>4. Inherited(k) \intersect Makeable = {}
    BY DEF Inherited, Makeable, Style!Positions
  <1>5. Style!NextPart(k) \subseteq Style!Parts
    BY DEF Style!NextPart, Style!Parts
  <1>6. \A m, n \in Style!NextPart(k) : m = n
    BY DEF Style!NextPart
  <1> QED BY <1>1, <1>2, <1>3, <1>4, <1>5, <1>6

(* Parts construct nothing, visuals inherit nothing, and those of toggle only  *)
(* clip.                                                                   *)
LEMMA PartsAndVisuals ==
    /\ \A k \in Style!Parts : Style!Constructed(k) = {}
    /\ \A k \in Style!Visuals : Inherited(k) = {} /\ InheritedMade(k) = {}
    /\ \A p \in DOMAIN Style!PAIRS, i \in {1, 2} :
          /\ Style!PAIRS[p][i] \in Style!Visuals
          /\ Style!Constructed(Style!PAIRS[p][i]) \subseteq {"clip"}
  <1>1. \A k \in Style!Parts : Style!Constructed(k) = {}
    BY DEF Style!Parts, Style!Constructed
  <1>2. \A k \in Style!Visuals : Inherited(k) = {} /\ InheritedMade(k) = {}
    BY DEF Style!Visuals, Inherited, InheritedMade
  <1>3. \A p \in DOMAIN Style!PAIRS, i \in {1, 2} :
          /\ Style!PAIRS[p][i] \in Style!Visuals
          /\ Style!PAIRS[p][i] \notin {"Fold", "Shrink"}
    BY DEF Style!PAIRS, Style!Visuals
  <1>4. \A k : k \notin {"Fold", "Shrink"} => Style!Constructed(k) \subseteq {"clip"}
    BY DEF Style!Constructed
  <1> QED BY <1>1, <1>2, <1>3, <1>4

EffectRecord ==
    [kind : Style!Kinds, toggled : BOOLEAN, state : {"idle", "running"},
     old : [Style!Things -> Style!Values], original : [Style!Things -> Style!Values]]

StyleTyped ==
    /\ page \in Pages /\ style \in [Style!Things -> Style!Values] /\ overflow \in Style!Values
    /\ made \subseteq Makeable /\ lost \subseteq {"clip"}
    /\ {visible, asked, mixed, appeared} \subseteq BOOLEAN
    /\ effects \subseteq EffectRecord
    /\ IsFiniteSet(effects) /\ Cardinality(effects) <= MaxEffects

(* Only one of the effects under way came from toggle.                       *)
Turns == \A x, y \in effects : x.toggled /\ y.toggled => x = y

(* Whether the element is seen once x is over.                              *)
Destined(x) ==
    IF x.state = "idle" THEN Style!Outcome(x.kind)
    ELSE x.kind \notin Style!HiddenAtFinish \union {"SwitchOff", "Fold"}
             /\ (x.kind = "Grow" \/ visible)

(* What x may have made, and what else it may have written.                  *)
Makes(x) == IF x.state = "idle" THEN MadeAtStart(x.kind) ELSE MadeInAll(x.kind)
Writes(x) == IF x.state = "idle" THEN Inherited(x.kind) ELSE WrittenInAll(x.kind)

(* A thing that is neither made nor of the set W has a value it may rest with. *)
WholeBut(W) == \A t \in Style!Things \ lost : t \in made \/ t \in W \/ style[t] \in Style!Kept(t)

(* What is undone then may rest as undoing leaves it.                        *)
MadeRight ==
    /\ \A p \in made \intersect Style!Positions : Style!OwnStatic(p)
    /\ "clip" \in made \ lost => Style!PutBack("clip", overflow) \in Style!Kept("clip")

(* What the only effect under way has changed so far, and what it remembers. *)
Remembers(x) ==
    /\ \A t \in Style!Things \ lost : x.old[t] \in Style!Kept(t)
    /\ x.state = "running" => \A t \in Style!Original(x.kind) : x.original[t] \in Style!Kept(t)

Accounts(x) ==
    /\ made \subseteq lost \union Makes(x)
    /\ WholeBut(Writes(x))
    /\ Remembers(x)
    /\ asked = Destined(x)

OneByOne ==
    ~mixed =>
        /\ MadeRight
        /\ \A x, y \in effects : x = y
        /\ \A x \in effects : Accounts(x)
        /\ effects = {} => made \subseteq lost /\ WholeBut({}) /\ asked = visible

StyleInv == StyleTyped /\ Turns /\ OneByOne

(* What the theorems assume of the constants.                                *)
StyleFacts == MaxEffects \in Nat /\ Style!PageFacts

-----------------------------------------------------------------------------
(* One effect more.                                                        *)
LEMMA OneMore ==
    ASSUME NEW E, IsFiniteSet(E), NEW e
    PROVE  /\ IsFiniteSet(E \union {e})
           /\ Cardinality(E) \in Nat
           /\ Cardinality(E \union {e}) \in Nat
           /\ Cardinality(E \union {e}) <= Cardinality(E) + 1
  BY FS_AddElement, FS_CardinalityType

(* One effect for another.                                                 *)
LEMMA OneForOne ==
    ASSUME NEW E, IsFiniteSet(E), NEW x \in E, NEW F, F = {} \/ \E e : F = {e}
    PROVE  /\ IsFiniteSet((E \ {x}) \union F)
           /\ Cardinality(E) \in Nat
           /\ Cardinality((E \ {x}) \union F) \in Nat
           /\ Cardinality((E \ {x}) \union F) <= Cardinality(E)
  <1> DEFINE D == E \ {x}
  <1>1. IsFiniteSet(D) /\ Cardinality(D) = Cardinality(E) - 1 /\ Cardinality(E) \in Nat
        /\ Cardinality(D) \in Nat
    BY FS_RemoveElement, FS_CardinalityType
  <1> HIDE DEF D
  <1>2. CASE F = {}
    <2>1. D \union F = D
      BY <1>2
    <2> QED BY <1>1, <2>1 DEF D
  <1>3. CASE \E e : F = {e}
    <2>1. PICK e : F = {e}
      BY <1>3
    <2>2. /\ IsFiniteSet(D \union {e})
          /\ Cardinality(D \union {e}) \in Nat
          /\ Cardinality(D \union {e}) <= Cardinality(D) + 1
      BY <1>1, OneMore
    <2> QED BY <1>1, <2>1, <2>2 DEF D
  <1> QED BY <1>2, <1>3

(* One effect less.                                                        *)
LEMMA OneLess ==
    ASSUME NEW E, IsFiniteSet(E), NEW x \in E, NEW n \in Nat, Cardinality(E) <= n
    PROVE  IsFiniteSet(E \ {x}) /\ Cardinality(E \ {x}) <= n
  <1>1. /\ IsFiniteSet(E \ {x}) /\ Cardinality(E \ {x}) = Cardinality(E) - 1
        /\ Cardinality(E) \in Nat
    BY FS_RemoveElement, FS_CardinalityType
  <1> QED BY <1>1

(* What may rest in the style may be put back, as it was or as it looked.     *)
LEMMA PutBackIsKept ==
    ASSUME NEW t \in Style!Things, NEW v \in Style!Kept(t)
    PROVE  /\ Style!PutBack(t, v) \in Style!Kept(t)
           /\ t \in Style!WrittenBack =>
                 Style!PutBack(t, IF v = "none" THEN "sheet" ELSE v) \in Style!Kept(t)
  <1>1. v \in {"none", "page", "sheet"}
    BY DEF Style!Kept, Style!Own
  <1>2. CASE v = "none"
    BY <1>2 DEF Style!PutBack, Style!Kept, Style!Own, Style!Loses
  <1>3. CASE v = "page"
    BY <1>3 DEF Style!PutBack, Style!Kept, Style!Own, Style!Loses
  <1>4. CASE v = "sheet"
    BY <1>4 DEF Style!PutBack, Style!Kept, Style!Own, Style!Loses
  <1> QED BY <1>1, <1>2, <1>3, <1>4

(* It may rest there for good.                                             *)
LEMMA KeptStays ==
    ASSUME page' = page, appeared => appeared'
    PROVE  /\ \A t : Style!Kept(t) \subseteq Style!Kept(t)'
           /\ \A p : Style!OwnStatic(p)' = Style!OwnStatic(p)
           /\ \A t, v : Style!PutBack(t, v)' = Style!PutBack(t, v)
  <1>1. \A p : Style!OwnStatic(p)' = Style!OwnStatic(p)
    BY DEF Style!OwnStatic
  <1>2. \A t : Style!Own(t)' = Style!Own(t)
    BY DEF Style!Own
  <1>3. \A t : Style!Loses(t) => Style!Loses(t)'
    BY <1>1 DEF Style!Loses
  <1>4. \A t : Style!Kept(t) \subseteq Style!Kept(t)'
    BY <1>2, <1>3 DEF Style!Kept
  <1>5. \A t, v : Style!PutBack(t, v)' = Style!PutBack(t, v)
    BY DEF Style!PutBack
  <1> QED BY <1>1, <1>4, <1>5

(* What is positioned now was static before any effect.                     *)
LEMMA StaticIsOwn ==
    ASSUME StyleFacts, StyleTyped, NEW p \in Style!Positions, style[p] \in Style!Kept(p),
           Style!Static(p)
    PROVE  Style!OwnStatic(p)
  <1>1. <<p, "page">> \notin page.blank /\ p # "opacity"
    <2>1. page.blank \subseteq {"opacity", "clip", "place", "innerPlace"} \X {"page", "sheet"}
      BY DEF StyleFacts, Style!PageFacts, StyleTyped
    <2>2. p \notin {"opacity", "clip", "place", "innerPlace"}
      BY DEF Style!Positions
    <2> QED BY <2>1, <2>2
  <1>2. p \in {"position", "innerPosition"}
    BY DEF Style!Positions
  <1>3. CASE Style!Loses(p)
    BY <1>1, <1>2, <1>3 DEF Style!Loses
  <1>4. CASE ~Style!Loses(p)
    BY <1>4 DEF Style!Kept, Style!Own, Style!Static, Style!Look, Style!OwnStatic
  <1> QED BY <1>3, <1>4

(* What a change makes,                                                    *)
LEMMA ChangeTyped ==
    ASSUME StyleTyped, NEW wanted \in SUBSET Makeable, NEW written, Style!Change(wanted, written)
    PROVE  /\ style' \in [Style!Things -> Style!Values] /\ overflow' \in Style!Values
           /\ made' \subseteq Makeable /\ made' \subseteq made \union wanted
  <1> DEFINE taken == {t \in wanted : IF t = "clip" THEN "clip" \notin made ELSE Style!Static(t)}
  <1>1. /\ style' = [t \in Style!Things |->
                        IF t \in taken \union written THEN "effect" ELSE style[t]]
        /\ made' = made \union taken
        /\ overflow' = IF "clip" \in taken THEN Style!Look(style, "clip") ELSE overflow
    BY DEF Style!Change
  <1>2. taken \subseteq wanted
    OBVIOUS
  <1> HIDE DEF taken
  <1>3. "clip" \in Style!Things /\ {"effect", "sheet"} \subseteq Style!Values
    BY DEF Style!Things, Style!Values
  <1>4. style' \in [Style!Things -> Style!Values]
    BY <1>1, <1>3 DEF StyleTyped
  <1>5. overflow' \in Style!Values
    BY <1>1, <1>3 DEF StyleTyped, Style!Look
  <1> QED BY <1>1, <1>2, <1>4, <1>5 DEF StyleTyped

(* and what it may write.                                                  *)
LEMMA ChangeKeeps ==
    ASSUME StyleFacts, StyleTyped, NEW wanted \in SUBSET Makeable, NEW written, NEW W,
           Style!Change(wanted, written), wanted \intersect W = {},
           MadeRight, WholeBut(W), UNCHANGED <<page, appeared>>, lost \subseteq lost'
    PROVE  MadeRight' /\ WholeBut(W \union written)'
  <1> DEFINE taken == {t \in wanted : IF t = "clip" THEN "clip" \notin made ELSE Style!Static(t)}
  <1>1. /\ style' = [t \in Style!Things |->
                        IF t \in taken \union written THEN "effect" ELSE style[t]]
        /\ made' = made \union taken
        /\ overflow' = IF "clip" \in taken THEN Style!Look(style, "clip") ELSE overflow
    BY DEF Style!Change
  <1>2. /\ \A t : Style!Kept(t) \subseteq Style!Kept(t)'
        /\ \A p : Style!OwnStatic(p)' = Style!OwnStatic(p)
        /\ \A t, v : Style!PutBack(t, v)' = Style!PutBack(t, v)
    BY KeptStays
  <1>3. "clip" \in Style!Things /\ Style!Positions \subseteq Style!Things
        /\ "clip" \notin Style!Positions /\ "clip" \in Style!WrittenBack
    BY DEF Style!Things, Style!Positions, Style!WrittenBack
  <1>4. ASSUME NEW p \in made' \intersect Style!Positions PROVE Style!OwnStatic(p)'
    <2>1. CASE p \in made
      BY <1>2, <1>4, <2>1 DEF MadeRight
    <2>2. CASE p \notin made
      <3>1. p \in wanted /\ Style!Static(p) /\ p \notin W /\ p \in Style!Things \ lost
        BY <1>1, <1>3, <1>4, <2>2 DEF StyleTyped
      <3>2. style[p] \in Style!Kept(p)
        BY <2>2, <3>1 DEF WholeBut
      <3> QED BY <1>2, <1>4, <3>1, <3>2, StaticIsOwn
    <2> QED BY <2>1, <2>2
  <1>5. ASSUME "clip" \in made' \ lost'
        PROVE  Style!PutBack("clip", overflow)' \in Style!Kept("clip")'
    <2>1. CASE "clip" \in taken
      <3>1. "clip" \in wanted /\ "clip" \notin made /\ "clip" \in Style!Things \ lost
        BY <1>3, <1>5, <2>1
      <3>2. style["clip"] \in Style!Kept("clip")
        BY <3>1 DEF WholeBut
      <3>3. Style!PutBack("clip", Style!Look(style, "clip")) \in Style!Kept("clip")
        BY <1>3, <3>2, PutBackIsKept DEF Style!Look
      <3> QED BY <1>1, <1>2, <2>1, <3>3 DEF Style!PutBack
    <2>2. CASE "clip" \notin taken
      <3>1. "clip" \in made \ lost /\ overflow' = overflow
        BY <1>1, <1>5, <2>2
      <3>2. Style!PutBack("clip", overflow)' = Style!PutBack("clip", overflow)
        BY <3>1 DEF Style!PutBack
      <3> QED BY <1>2, <3>1, <3>2 DEF MadeRight
    <2> QED BY <2>1, <2>2
  <1>6. MadeRight'
    BY <1>4, <1>5 DEF MadeRight
  <1>7. ASSUME NEW t \in Style!Things \ lost', t \notin made', t \notin W \union written
        PROVE  style'[t] \in Style!Kept(t)'
    <2>1. style'[t] = style[t] /\ t \notin made /\ t \in Style!Things \ lost
      BY <1>1, <1>7
    <2>2. style[t] \in Style!Kept(t)
      BY <1>7, <2>1 DEF WholeBut
    <2> QED BY <1>2, <2>1, <2>2
  <1>8. WholeBut(W \union written)'
    BY <1>7 DEF WholeBut
  <1> QED BY <1>6, <1>8

(* What an effect remembers and where it leads, while nothing it needs changes. *)
LEMMA RemembersStays ==
    ASSUME page' = page, appeared => appeared', lost \subseteq lost', NEW x, Remembers(x)
    PROVE  Remembers(x)'
  <1>1. \A t : Style!Kept(t) \subseteq Style!Kept(t)'
    BY KeptStays
  <1> QED BY <1>1 DEF Remembers

(* The invariant at the beginning.                                         *)
LEMMA StyleInit == StyleFacts /\ Style!Init => StyleInv
  <1> SUFFICES ASSUME StyleFacts, Style!Init PROVE StyleInv
    OBVIOUS
  <1>1. IsFiniteSet({}) /\ Cardinality({}) = 0
    BY FS_EmptySet
  <1>2. /\ page \in Pages /\ style = [t \in Style!Things |-> Style!Own(t)]
        /\ made = {} /\ overflow = "none" /\ visible \in BOOLEAN /\ asked = visible
        /\ effects = {} /\ lost = {} /\ mixed = FALSE /\ appeared = FALSE
    BY DEF Style!Init
  <1>3. StyleTyped
    <2>1. style \in [Style!Things -> Style!Values] /\ overflow \in Style!Values
      BY <1>2 DEF Style!Own, Style!Values
    <2>2. Cardinality(effects) <= MaxEffects /\ IsFiniteSet(effects)
      BY <1>1, <1>2 DEF StyleFacts
    <2>3. {visible, asked, mixed, appeared} \subseteq BOOLEAN
      BY <1>2
    <2> QED BY <1>2, <2>1, <2>2, <2>3 DEF StyleTyped
  <1>4. WholeBut({})
    BY <1>2 DEF WholeBut, Style!Kept
  <1>5. Turns /\ OneByOne
    BY <1>2, <1>4 DEF Turns, OneByOne, MadeRight
  <1> QED BY <1>3, <1>5 DEF StyleInv

(* Visual and toggle, when the effect is taken.                             *)
LEMMA BeginStep ==
    ASSUME StyleFacts, StyleInv, NEW k \in Style!Visuals, NEW toggled \in BOOLEAN,
           Style!Begin(k, toggled), toggled => \A x \in effects : ~x.toggled
    PROVE  StyleInv'
  <1>0. PICK e : e = Style!Effect(k, toggled, style)
    OBVIOUS
  <1>1. /\ Cardinality(effects) < MaxEffects
        /\ Style!Change(Style!Constructed(k), {})
        /\ effects' = effects \union {e}
        /\ mixed' = (mixed \/ effects # {})
        /\ asked' = Style!Outcome(k)
        /\ UNCHANGED <<page, visible, lost, appeared>>
    BY <1>0, SameStyle DEF Style!Begin
  <1>2. StyleTyped
    BY DEF StyleInv
  <1>3. k \in Style!Kinds /\ Style!Constructed(k) \subseteq Makeable
    BY TablesTyped DEF Style!Kinds
  <1>4. /\ e \in EffectRecord /\ e.kind = k /\ e.toggled = toggled /\ e.state = "idle"
        /\ e.old = style
    BY <1>0, <1>2, <1>3 DEF Style!Effect, EffectRecord, StyleTyped
  <1>5. Style!Outcome(k) \in BOOLEAN
    BY <1>2, <1>3 DEF Style!Outcome, StyleTyped
  <1>6. /\ IsFiniteSet(effects') /\ Cardinality(effects') <= MaxEffects
    <2>1. /\ IsFiniteSet(effects \union {e})
          /\ Cardinality(effects) \in Nat
          /\ Cardinality(effects \union {e}) \in Nat
          /\ Cardinality(effects \union {e}) <= Cardinality(effects) + 1
      BY <1>2, OneMore DEF StyleTyped
    <2> QED BY <1>1, <2>1 DEF StyleFacts
  <1>7. /\ style' \in [Style!Things -> Style!Values] /\ overflow' \in Style!Values
        /\ made' \subseteq Makeable /\ made' \subseteq made \union Style!Constructed(k)
    BY <1>1, <1>2, <1>3, ChangeTyped
  <1>8. StyleTyped'
    <2>1. {visible', asked', mixed', appeared'} \subseteq BOOLEAN
      BY <1>1, <1>2, <1>5 DEF StyleTyped
    <2>2. effects' \subseteq EffectRecord
      BY <1>1, <1>2, <1>4 DEF StyleTyped
    <2> QED BY <1>1, <1>2, <1>6, <1>7, <2>1, <2>2 DEF StyleTyped
  <1>9. Turns'
    <2> SUFFICES ASSUME NEW x \in effects', NEW y \in effects', x.toggled, y.toggled
                 PROVE  x = y
      BY DEF Turns
    <2>1. x \in effects \/ x = e
      BY <1>1
    <2>2. y \in effects \/ y = e
      BY <1>1
    <2> QED BY <1>4, <2>1, <2>2 DEF StyleInv, Turns
  <1>10. ASSUME ~mixed' PROVE OneByOne'
    <2>1. effects = {} /\ ~mixed
      BY <1>1, <1>10
    <2>2. MadeRight /\ made \subseteq lost /\ WholeBut({})
      BY <2>1 DEF StyleInv, OneByOne
    <2>3. MadeRight' /\ WholeBut({})'
      BY <1>1, <1>2, <1>3, <2>2, ChangeKeeps
    <2>4. effects' = {e}
      BY <1>1, <2>1
    <2>5. WholeBut(Writes(e))'
      BY <2>3 DEF WholeBut
    <2>6. made' \subseteq lost' \union Makes(e)
      BY <1>1, <1>4, <1>7, <2>2 DEF Makes, MadeAtStart
    <2>7. Remembers(e)
      BY <1>4, <2>2 DEF Remembers, WholeBut
    <2>8. Remembers(e)'
      BY <1>1, <2>7, RemembersStays
    <2>9. asked' = Destined(e)'
      <3>1. Destined(e)' = Style!Outcome(k)'
        BY <1>4 DEF Destined
      <3>2. Style!Outcome(k)' = Style!Outcome(k)
        BY <1>1 DEF Style!Outcome
      <3> QED BY <1>1, <3>1, <3>2
    <2>10. Accounts(e)'
      BY <2>5, <2>6, <2>8, <2>9 DEF Accounts
    <2> QED BY <2>3, <2>4, <2>10 DEF OneByOne
  <1>11. OneByOne'
    BY <1>10 DEF OneByOne
  <1> QED BY <1>8, <1>9, <1>11 DEF StyleInv

(* toggle, when an effect of the element is under way already.               *)
LEMMA StyleDropStep ==
    ASSUME StyleFacts, StyleInv, NEW C \in SUBSET {"clip"}, Style!Change(C, {}),
           lost' = lost \union C, effects # {},
           UNCHANGED <<page, visible, effects, mixed, asked, appeared>>
    PROVE  StyleInv'
  <1>1. StyleTyped /\ C \subseteq Makeable
    BY DEF StyleInv, Makeable
  <1>2. /\ style' \in [Style!Things -> Style!Values] /\ overflow' \in Style!Values
        /\ made' \subseteq Makeable /\ made' \subseteq made \union C
    BY <1>1, ChangeTyped
  <1>3. StyleTyped'
    BY <1>1, <1>2 DEF StyleTyped
  <1>4. Turns'
    BY DEF StyleInv, Turns
  <1>5. ASSUME ~mixed PROVE OneByOne'
    <2>0. PICK x : x \in effects
      OBVIOUS
    <2>1. effects = {x}
      BY <1>5, <2>0 DEF StyleInv, OneByOne
    <2>2. MadeRight /\ Accounts(x)
      BY <1>5, <2>1 DEF StyleInv, OneByOne
    <2>3. x.kind \in Style!Kinds
      BY <1>1, <2>1 DEF StyleTyped, EffectRecord
    <2>4. "clip" \notin Writes(x)
      <3>1. "clip" \notin WrittenInAll(x.kind)
        BY <2>3 DEF WrittenInAll, Inherited, Style!Updated, Style!Absolutized, Style!Kinds,
                    Style!Visuals, Style!Parts
      <3> QED BY <3>1 DEF Writes, WrittenInAll
    <2>5. MadeRight' /\ WholeBut(Writes(x) \union {})'
      BY <1>1, <2>2, <2>4, ChangeKeeps DEF Accounts
    <2>6. WholeBut(Writes(x))'
      BY <2>5
    <2>7. Remembers(x)'
      BY <2>2, RemembersStays DEF Accounts
    <2>8. asked' = Destined(x)'
      BY <2>2 DEF Accounts, Destined, Style!Outcome
    <2>9. made' \subseteq lost' \union Makes(x)
      BY <1>2, <2>2 DEF Accounts
    <2>10. Accounts(x)'
      BY <2>6, <2>7, <2>8, <2>9 DEF Accounts
    <2> QED BY <2>1, <2>5, <2>10 DEF OneByOne
  <1>6. OneByOne'
    BY <1>5 DEF OneByOne
  <1> QED BY <1>3, <1>4, <1>6 DEF StyleInv

(* Highlight finds the element hidden.                                     *)
LEMMA HighlightHiddenStep ==
    ASSUME StyleFacts, StyleInv, Style!HighlightHidden
    PROVE  StyleInv'
  <1>1. PICK x \in effects : Style!NothingToLight(x) /\ effects' = effects \ {x}
    BY DEF Style!HighlightHidden
  <1>2. UNCHANGED <<page, style, made, overflow, visible, lost, mixed, asked, appeared>>
    BY DEF Style!HighlightHidden
  <1>3. IsFiniteSet(effects') /\ Cardinality(effects') <= MaxEffects
    BY <1>1, OneLess DEF StyleInv, StyleTyped, StyleFacts
  <1>4. StyleTyped'
    BY <1>1, <1>2, <1>3 DEF StyleInv, StyleTyped
  <1>5. Turns'
    BY <1>1 DEF StyleInv, Turns
  <1>6. ASSUME ~mixed PROVE OneByOne'
    <2>1. effects' = {} /\ MadeRight /\ Accounts(x)
      BY <1>1, <1>6 DEF StyleInv, OneByOne
    <2>2. x.kind = "Highlight" /\ x.state = "idle" /\ ~visible
      BY <1>1 DEF Style!NothingToLight
    <2>3. Makes(x) = {} /\ Writes(x) = {}
      BY <2>2 DEF Makes, Writes, MadeAtStart, InheritedMade, Inherited, Style!Constructed
    <2>4. visible = FALSE
      BY <2>2 DEF StyleInv, StyleTyped
    <2>5. asked = visible
      BY <2>1, <2>2, <2>4 DEF Accounts, Destined, Style!Outcome, Style!ShownAtSetUp
    <2>6. made \subseteq lost /\ WholeBut({})
      BY <2>1, <2>3 DEF Accounts
    <2>7. MadeRight' /\ WholeBut({})' /\ made' \subseteq lost'
      <3>1. /\ \A t : Style!Kept(t) \subseteq Style!Kept(t)'
            /\ \A p : Style!OwnStatic(p)' = Style!OwnStatic(p)
            /\ \A t, v : Style!PutBack(t, v)' = Style!PutBack(t, v)
        BY <1>2, KeptStays
      <3>2. Style!PutBack("clip", overflow)' = Style!PutBack("clip", overflow)
        BY <1>2 DEF Style!PutBack
      <3> QED BY <1>2, <2>1, <2>6, <3>1, <3>2 DEF MadeRight, WholeBut
    <2> QED BY <1>2, <2>1, <2>5, <2>7 DEF OneByOne
  <1>7. OneByOne'
    BY <1>2, <1>6 DEF OneByOne
  <1> QED BY <1>4, <1>5, <1>7 DEF StyleInv

(* A frame of effect x.                                                    *)
LEMMA FrameStep ==
    ASSUME StyleFacts, StyleInv, Style!Frame
    PROVE  StyleInv'
  <1>1. PICK x \in effects :
           LET k == x.kind
               first == x.state = "idle"
           IN  /\ ~Style!NothingToLight(x)
               /\ IF first THEN Style!Change(Style!SetUp(k), Style!Updated(k) \union Style!Absolutized(k))
                           ELSE Style!Change({}, Style!Updated(k))
               /\ effects' = IF first THEN (effects \ {x}) \union {Style!SetUpEffect(x)} ELSE effects
               /\ visible' = IF ~first THEN visible
                             ELSE (visible /\ k \notin Style!HiddenAtSetUp) \/ k \in Style!ShownAtSetUp
    BY DEF Style!Frame
  <1> DEFINE k == x.kind
             first == x.state = "idle"
             wanted == IF first THEN Style!SetUp(k) ELSE {}
             written == IF first THEN Style!Updated(k) \union Style!Absolutized(k)
                                 ELSE Style!Updated(k)
  <1>0. PICK y : y = IF first THEN Style!SetUpEffect(x) ELSE x
    OBVIOUS
  <1>2. /\ Style!Change(wanted, written)
        /\ effects' = (effects \ {x}) \union {y}
        /\ visible' = IF ~first THEN visible
                      ELSE (visible /\ k \notin Style!HiddenAtSetUp) \/ k \in Style!ShownAtSetUp
        /\ UNCHANGED <<page, lost, mixed, asked, appeared>>
    BY <1>0, <1>1 DEF Style!Frame
  <1>3. StyleTyped /\ x \in EffectRecord /\ k \in Style!Kinds /\ x.state \in {"idle", "running"}
    BY DEF StyleInv, StyleTyped, EffectRecord
  <1>4. /\ y \in EffectRecord /\ y.kind = k /\ y.toggled = x.toggled /\ y.state = "running"
        /\ y.old = IF first /\ k = "Highlight" THEN style ELSE x.old
        /\ y.original = IF first THEN style ELSE x.original
    BY <1>0, <1>3 DEF EffectRecord, StyleTyped, Style!SetUpEffect
  <1>5. wanted \in SUBSET Makeable /\ written \subseteq Style!Things
    BY <1>3, TablesTyped
  <1>6. /\ style' \in [Style!Things -> Style!Values] /\ overflow' \in Style!Values
        /\ made' \subseteq Makeable /\ made' \subseteq made \union wanted
    <2> HIDE DEF wanted, written
    <2> QED BY <1>2, <1>3, <1>5, ChangeTyped
  <1>7. StyleTyped'
    <2>1. visible' \in BOOLEAN
      BY <1>2, <1>3 DEF StyleTyped
    <2>2. effects' \subseteq EffectRecord
      BY <1>2, <1>3, <1>4 DEF StyleTyped
    <2>3. IsFiniteSet(effects') /\ Cardinality(effects') <= MaxEffects
      <3> DEFINE F == {y}
      <3>1. \E e : F = {e}
        OBVIOUS
      <3> HIDE DEF F
      <3>2. /\ IsFiniteSet((effects \ {x}) \union F)
            /\ Cardinality(effects) \in Nat
            /\ Cardinality((effects \ {x}) \union F) \in Nat
            /\ Cardinality((effects \ {x}) \union F) <= Cardinality(effects)
        BY <1>3, <3>1, OneForOne DEF StyleTyped
      <3>3. effects' = (effects \ {x}) \union F
        BY <1>2 DEF F
      <3>4. Cardinality(effects) <= MaxEffects
        BY <1>3 DEF StyleTyped
      <3> QED BY <3>2, <3>3, <3>4 DEF StyleFacts
    <2> QED BY <1>2, <1>3, <1>6, <2>1, <2>2, <2>3 DEF StyleTyped
  <1>8. Turns'
    <2> SUFFICES ASSUME NEW u \in effects', NEW v \in effects', u.toggled, v.toggled
                 PROVE  u = v
      BY DEF Turns
    <2>1. (u \in effects /\ u # x) \/ u = y
      BY <1>2
    <2>2. (v \in effects /\ v # x) \/ v = y
      BY <1>2
    <2> QED BY <1>4, <2>1, <2>2 DEF StyleInv, Turns
  <1>9. ASSUME ~mixed PROVE MadeRight' /\ Accounts(y)'
    <2>1. Accounts(x) /\ MadeRight
      BY <1>9 DEF StyleInv, OneByOne
    <2>2. /\ ~first => Makes(x) = MadeInAll(k) /\ Writes(x) = WrittenInAll(k)
          /\ first => Makes(x) = MadeAtStart(k) /\ Writes(x) = Inherited(k)
          /\ Makes(y) = MadeInAll(k) /\ Writes(y) = WrittenInAll(k)
      BY <1>3, <1>4 DEF Makes, Writes
    <2>3. wanted \intersect Writes(x) = {}
      BY <1>3, <2>2, TablesTyped
    <2>4. MadeRight' /\ WholeBut(Writes(x) \union written)'
      <3> HIDE DEF wanted, written
      <3> QED BY <1>2, <1>3, <1>5, <2>1, <2>3, ChangeKeeps DEF Accounts
    <2>5. Writes(x) \union written \subseteq Writes(y)
      BY <2>2 DEF WrittenInAll
    <2>6. WholeBut(Writes(y))'
      <3> HIDE DEF written
      <3> QED BY <2>4, <2>5 DEF WholeBut
    <2>7. made' \subseteq lost' \union Makes(y)
      BY <1>2, <1>6, <2>1, <2>2 DEF Accounts, MadeInAll
    <2>8. Remembers(y)
      <3>1. CASE ~first
        BY <1>0, <2>1, <3>1 DEF Accounts
      <3>2. CASE first
        <4>1. ASSUME k = "Highlight", NEW t \in Style!Things \ lost
              PROVE  style[t] \in Style!Kept(t)
          <5>1. Makes(x) = {} /\ Writes(x) = {}
            BY <2>2, <3>2, <4>1
               DEF MadeAtStart, InheritedMade, Inherited, Style!Constructed
          <5> QED BY <2>1, <4>1, <5>1 DEF Accounts, WholeBut
        <4>2. \A t \in Style!Things \ lost : y.old[t] \in Style!Kept(t)
          BY <1>4, <2>1, <4>1 DEF Accounts, Remembers
        <4>3. ASSUME NEW t \in Style!Original(k) PROVE style[t] \in Style!Kept(t)
          <5>1. t \notin Inherited(k) \union Makeable
            BY <1>3, <4>3, PartsTidyUp DEF TidiedUp
          <5>2. t \notin made /\ t \notin lost /\ t \notin Writes(x)
            BY <1>3, <2>2, <3>2, <5>1 DEF StyleTyped, Makeable
          <5>3. t \in Style!Things
            BY DEF Style!Original, Style!Things
          <5> QED BY <2>1, <5>2, <5>3 DEF Accounts, WholeBut
        <4> QED BY <1>4, <3>2, <4>2, <4>3 DEF Remembers
      <3> QED BY <3>1, <3>2
    <2>9. Remembers(y)'
      BY <1>2, <2>8, RemembersStays
    <2>10. asked' = Destined(y)'
      <3>5. asked = Destined(x)
        BY <2>1 DEF Accounts
      <3>6. Destined(y)' = (k \notin Style!HiddenAtFinish \union {"SwitchOff", "Fold"} /\ (k = "Grow" \/ visible'))
        BY <1>4 DEF Destined
      <3>1. CASE first
        <4>1. asked = Style!Outcome(k)
          BY <3>5, <3>1 DEF Destined
        <4>2. visible' = ((visible /\ k # "Grow") \/ k \in Style!ShownAtSetUp)
          BY <1>2, <3>1 DEF Style!HiddenAtSetUp
        <4>3. visible \in BOOLEAN
          BY <1>3 DEF StyleTyped
        <4>4. CASE k \in Style!HiddenAtFinish \union {"SwitchOff", "Fold"}
          BY <1>2, <3>6, <4>1, <4>4 DEF Style!Outcome
        <4>5. CASE k \in Style!ShownAtSetUp \union {"Grow"} /\ k \notin Style!HiddenAtFinish \union {"SwitchOff", "Fold"}
          BY <1>2, <3>6, <4>1, <4>2, <4>5 DEF Style!Outcome
        <4>6. CASE k \notin Style!HiddenAtFinish \union {"SwitchOff", "Fold"} \union Style!ShownAtSetUp \union {"Grow"}
          BY <1>2, <3>6, <4>1, <4>2, <4>3, <4>6 DEF Style!Outcome
        <4> QED BY <4>4, <4>5, <4>6
      <3>2. CASE ~first
        BY <1>2, <3>5, <3>6, <3>2 DEF Destined
      <3> QED BY <3>1, <3>2
    <2> QED BY <2>4, <2>6, <2>7, <2>9, <2>10 DEF Accounts
  <1>10. OneByOne'
    <2>1. ASSUME ~mixed' PROVE effects' = {y} /\ Accounts(y)' /\ MadeRight'
      BY <1>2, <1>9, <2>1 DEF StyleInv, OneByOne
    <2>2. ASSUME ~mixed', NEW u \in effects' PROVE Accounts(u)'
      BY <2>1, <2>2
    <2> QED BY <2>1, <2>2 DEF OneByOne
  <1> QED BY <1>7, <1>8, <1>10 DEF StyleInv

(* The style when x is finished.                                           *)
LEMMA FinishedTyped ==
    ASSUME StyleTyped, NEW x \in EffectRecord
    PROVE  Style!Finished(x) \in [Style!Things -> Style!Values]
  <1>1. \A t : \A v \in Style!Values : Style!PutBack(t, v) \in Style!Values
    BY DEF Style!PutBack, Style!Values
  <1>2. \A t \in Style!Things : x.old[t] \in Style!Values /\ x.original[t] \in Style!Values
                           /\ style[t] \in Style!Values
    BY DEF EffectRecord, StyleTyped
  <1>3. \A t \in Style!Things : Style!Look(x.old, t) \in Style!Values
    BY <1>2 DEF Style!Look, Style!Values
  <1>4. overflow \in Style!Values /\ "none" \in Style!Values
    BY DEF StyleTyped, Style!Values
  <1> QED BY <1>1, <1>2, <1>3, <1>4 DEF Style!Finished

LEMMA FinishedIsWhole ==
    ASSUME StyleTyped, MadeRight, NEW x \in EffectRecord, x.state = "running", Accounts(x),
           style' = Style!Finished(x), made' = made \ Style!Undone(x.kind),
           appeared' = (appeared \/ x.kind = "Appear"), page' = page, lost' = lost
    PROVE  WholeBut(UNION {Inherited(n) : n \in Style!NextPart(x.kind)})'
  <1> DEFINE k == x.kind
             undone == Style!Undone(k) \intersect made
             W == UNION {Inherited(n) : n \in Style!NextPart(k)}
  <1>1. k \in Style!Kinds /\ TidiedUp(k)
    BY PartsTidyUp DEF EffectRecord
  <1>2. /\ \A t : Style!Kept(t) \subseteq Style!Kept(t)'
    BY KeptStays
  <1>3. Remembers(x) /\ WholeBut(WrittenInAll(k))
    BY DEF Accounts, Writes
  <1> HIDE DEF W
  <1> SUFFICES ASSUME NEW t \in Style!Things \ lost, t \notin made', t \notin W
               PROVE  style'[t] \in Style!Kept(t)'
    BY DEF WholeBut, W
  <1>4. style'[t] =
            IF t \in Style!OldStyle(k) THEN Style!PutBack(t, x.old[t])
            ELSE IF t \in Style!OldLook(k) THEN Style!PutBack(t, Style!Look(x.old, t))
            ELSE IF t \in Style!Erased(undone) THEN "none"
            ELSE IF t \in undone THEN Style!PutBack(t, overflow)
            ELSE IF t \in Style!Original(k) THEN x.original[t]
            ELSE IF t = "opacity" /\ k \in {"Appear", "SwitchOff"} THEN "none"
            ELSE style[t]
    BY DEF Style!Finished
  <1>5. x.old[t] \in Style!Kept(t)
    BY <1>3 DEF Remembers
  <1> HIDE DEF k
  <1>6. CASE t \in Style!OldStyle(k)
    BY <1>2, <1>4, <1>5, <1>6, PutBackIsKept
  <1>7. CASE t \in Style!OldLook(k) \ Style!OldStyle(k)
    <2>1. t \in Style!WrittenBack
      BY <1>1, <1>7 DEF TidiedUp
    <2>2. Style!PutBack(t, Style!Look(x.old, t)) \in Style!Kept(t)
      BY <1>5, <2>1, PutBackIsKept DEF Style!Look
    <2> QED BY <1>2, <1>4, <1>7, <2>2
  <1>8. CASE t \in Style!Erased(undone) \ (Style!OldStyle(k) \union Style!OldLook(k))
    <2>1. style'[t] = "none"
      BY <1>4, <1>8
    <2>2. \/ t \in {"position", "place"} /\ "position" \in undone
          \/ t \in {"innerPosition", "innerPlace"} /\ "innerPosition" \in undone
      BY <1>8 DEF Style!Erased
    <2>3. t # "innerPlace"
      BY <1>1, <1>8, <2>2 DEF TidiedUp
    <2>4. \A p \in undone \intersect Style!Positions : Style!OwnStatic(p)
      BY DEF MadeRight
    <2>5. Style!Loses(t)
      BY <2>2, <2>3, <2>4 DEF Style!Loses, Style!Positions
    <2>6. "none" \in Style!Kept(t)
      BY <2>5 DEF Style!Kept
    <2> QED BY <1>2, <2>1, <2>6
  <1>9. CASE t \in undone \ (Style!OldStyle(k) \union Style!OldLook(k) \union Style!Erased(undone))
    <2>1. t = "clip"
      BY <1>9 DEF Style!Erased, StyleTyped, Makeable, Style!Positions
    <2>2. style'[t] = Style!PutBack("clip", overflow)
      BY <1>4, <1>9, <2>1
    <2>3. Style!PutBack("clip", overflow) \in Style!Kept("clip")
      BY <1>9, <2>1 DEF MadeRight
    <2> QED BY <1>2, <2>1, <2>2, <2>3
  <1>10. CASE t \notin Style!OldStyle(k) \union Style!OldLook(k) \union Style!Erased(undone) \union undone
    <2>1. CASE t \in Style!Original(k)
      <3>1. x.original[t] \in Style!Kept(t)
        BY <1>3, <2>1 DEF Remembers, k
      <3> QED BY <1>2, <1>4, <1>10, <2>1, <3>1
    <2>2. CASE t \notin Style!Original(k) /\ t = "opacity" /\ k \in {"Appear", "SwitchOff"}
      <3>1. style'[t] = "none"
        BY <1>4, <1>10, <2>2
      <3>2. k = "Appear"
        BY <1>1, <2>2 DEF TidiedUp, W, k
      <3>3. Style!Loses(t)'
        BY <2>2, <3>2 DEF Style!Loses, k
      <3> QED BY <3>1, <3>3 DEF Style!Kept
    <2>3. CASE t \notin Style!Original(k) /\ ~(t = "opacity" /\ k \in {"Appear", "SwitchOff"})
      <3>1. style'[t] = style[t]
        BY <1>4, <1>10, <2>3
      <3>2. t \notin made
        BY <1>10 DEF k
      <3>3. t \notin GivenBack(k)
        BY <1>10, <2>3 DEF GivenBack
      <3>4. t \notin WrittenInAll(k)
        BY <1>1, <3>3 DEF TidiedUp, W, k
      <3>5. style[t] \in Style!Kept(t)
        BY <1>3, <3>2, <3>4 DEF WholeBut, k
      <3> QED BY <1>2, <3>1, <3>5
    <2> QED BY <2>1, <2>2, <2>3
  <1> QED BY <1>6, <1>7, <1>8, <1>9, <1>10

(* Effect x finishes; its next part begins.                                 *)
LEMMA StyleFinishStep ==
    ASSUME StyleFacts, StyleInv, Style!Finish
    PROVE  StyleInv'
  <1>1. PICK x \in effects :
           LET k == x.kind
           IN  /\ x.state = "running"
               /\ style' = Style!Finished(x)
               /\ made' = made \ Style!Undone(k)
               /\ overflow' = IF "clip" \in Style!Undone(k) THEN "none" ELSE overflow
               /\ visible' = Style!Seen(k)
               /\ effects' = (effects \ {x}) \union {Style!Effect(n, FALSE, x.old) : n \in Style!NextPart(k)}
               /\ appeared' = (appeared \/ k = "Appear")
    BY DEF Style!Finish
  <1> DEFINE k == x.kind
             F == {Style!Effect(n, FALSE, x.old) : n \in Style!NextPart(k)}
             W == UNION {Inherited(n) : n \in Style!NextPart(k)}
             M == UNION {InheritedMade(n) : n \in Style!NextPart(k)}
  <1>2. /\ x.state = "running"
        /\ style' = Style!Finished(x)
        /\ made' = made \ Style!Undone(k)
        /\ overflow' = IF "clip" \in Style!Undone(k) THEN "none" ELSE overflow
        /\ visible' = (visible /\ k \notin Style!HiddenAtFinish)
        /\ effects' = (effects \ {x}) \union F
        /\ appeared' = (appeared \/ k = "Appear")
        /\ UNCHANGED <<page, lost, mixed, asked>>
    BY <1>1 DEF Style!Finish, Style!Seen
  <1>3. /\ StyleTyped /\ x \in EffectRecord /\ k \in Style!Kinds
        /\ x.old \in [Style!Things -> Style!Values]
    BY DEF StyleInv, StyleTyped, EffectRecord
  <1>4. /\ Style!NextPart(k) \subseteq Style!Parts
        /\ \A m, n \in Style!NextPart(k) : m = n
    BY <1>3, TablesTyped
  <1>5. \A n \in Style!NextPart(k) :
           /\ Style!Effect(n, FALSE, x.old) \in EffectRecord
           /\ Style!Effect(n, FALSE, x.old).kind = n
           /\ Style!Effect(n, FALSE, x.old).toggled = FALSE
           /\ Style!Effect(n, FALSE, x.old).state = "idle"
           /\ Style!Effect(n, FALSE, x.old).old = x.old
    BY <1>3, <1>4 DEF Style!Effect, EffectRecord, Style!Kinds
  <1>6. F = {} \/ \E e : F = {e}
    <2>1. CASE Style!NextPart(k) = {}
      BY <2>1
    <2>2. CASE Style!NextPart(k) # {}
      <3>1. PICK n : n \in Style!NextPart(k)
        BY <2>2
      <3>2. Style!NextPart(k) = {n}
        BY <1>4, <3>1
      <3>3. F = {Style!Effect(n, FALSE, x.old)}
        BY <3>2
      <3> QED BY <3>3
    <2> QED BY <2>1, <2>2
  <1>7. StyleTyped'
    <2>1. style' \in [Style!Things -> Style!Values]
      BY <1>2, <1>3, FinishedTyped
    <2>2. {visible', appeared'} \subseteq BOOLEAN
      BY <1>2, <1>3 DEF StyleTyped
    <2>3. effects' \subseteq EffectRecord
      <3>1. F \subseteq EffectRecord
        BY <1>5
      <3> HIDE DEF F
      <3> QED BY <1>2, <1>3, <3>1 DEF StyleTyped
    <2>4. IsFiniteSet(effects') /\ Cardinality(effects') <= MaxEffects
      <3> HIDE DEF F
      <3>1. /\ IsFiniteSet((effects \ {x}) \union F)
            /\ Cardinality(effects) \in Nat
            /\ Cardinality((effects \ {x}) \union F) \in Nat
            /\ Cardinality((effects \ {x}) \union F) <= Cardinality(effects)
        BY <1>3, <1>6, OneForOne DEF StyleTyped
      <3>2. Cardinality(effects) <= MaxEffects
        BY <1>3 DEF StyleTyped
      <3> QED BY <1>2, <3>1, <3>2 DEF StyleFacts
    <2>5. overflow' \in Style!Values /\ made' \subseteq Makeable
      BY <1>2, <1>3 DEF StyleTyped, Style!Values
    <2>6. /\ page' \in Pages /\ lost' \subseteq {"clip"}
          /\ {visible', asked', mixed', appeared'} \subseteq BOOLEAN
      BY <1>2, <1>3, <2>2 DEF StyleTyped
    <2> HIDE DEF F, k
    <2> QED BY <2>1, <2>3, <2>4, <2>5, <2>6 DEF StyleTyped
  <1>8. Turns'
    <2> SUFFICES ASSUME NEW u \in effects', NEW v \in effects', u.toggled, v.toggled
                 PROVE  u = v
      BY DEF Turns
    <2>1. \A e \in F : ~e.toggled
      BY <1>5
    <2> HIDE DEF F
    <2>2. u \in effects /\ v \in effects
      BY <1>2, <2>1
    <2> QED BY <2>2 DEF StyleInv, Turns
  <1>9. ASSUME ~mixed
        PROVE  /\ effects' = F
               /\ MadeRight' /\ WholeBut(W)' /\ made' \subseteq lost' \union M
               /\ Remembers(x)
               /\ asked = (k \notin Style!HiddenAtFinish \union {"SwitchOff", "Fold"}
                              /\ (k = "Grow" \/ visible))
    <2>1. Accounts(x) /\ MadeRight /\ \A y \in effects : y = x
      BY <1>9 DEF StyleInv, OneByOne
    <2>2. effects' = F
      BY <1>2, <2>1
    <2>3. WholeBut(W)'
      BY <1>2, <1>3, <2>1, FinishedIsWhole
    <2>4. made' \subseteq lost' \union M
      <3>1. made \subseteq lost \union MadeInAll(k)
        BY <1>2, <2>1 DEF Accounts, Makes
      <3>2. MadeInAll(k) \ Style!Undone(k) \subseteq M
        BY <1>3, PartsTidyUp DEF TidiedUp
      <3> HIDE DEF M, k
      <3> QED BY <1>2, <3>1, <3>2
    <2>5. MadeRight'
      <3>1. /\ \A t : Style!Kept(t) \subseteq Style!Kept(t)'
            /\ \A p : Style!OwnStatic(p)' = Style!OwnStatic(p)
        BY <1>2, KeptStays
      <3>2. \A p \in made' \intersect Style!Positions : Style!OwnStatic(p)'
        BY <1>2, <2>1, <3>1 DEF MadeRight
      <3>3. ASSUME "clip" \in made' \ lost'
            PROVE  Style!PutBack("clip", overflow)' \in Style!Kept("clip")'
        <4>1. overflow' = overflow /\ "clip" \in made \ lost
          BY <1>2, <3>3
        <4>2. Style!PutBack("clip", overflow)' = Style!PutBack("clip", overflow)
          BY <1>2, <4>1 DEF Style!PutBack
        <4> QED BY <2>1, <3>1, <4>1, <4>2 DEF MadeRight
      <3> QED BY <3>2, <3>3 DEF MadeRight
    <2>6. Remembers(x) /\ asked = Destined(x)
      BY <2>1 DEF Accounts
    <2> QED BY <1>2, <2>2, <2>3, <2>4, <2>5, <2>6 DEF Destined
  <1>10. CASE Style!NextPart(k) = {}
    <2>1. F = {} /\ W = {} /\ M = {}
      BY <1>10
    <2>2. k \notin {"SwitchOff", "Fold", "Grow"}
      BY <1>10 DEF Style!NextPart
    <2>3. ASSUME ~mixed
          PROVE  effects' = {} /\ MadeRight' /\ made' \subseteq lost' /\ WholeBut({})'
                 /\ asked' = visible'
      <3>1. asked = (k \notin Style!HiddenAtFinish /\ visible)
        BY <1>9, <2>2, <2>3
      <3> QED BY <1>2, <1>9, <2>1, <2>3, <3>1
    <2>4. OneByOne'
      BY <1>2, <2>3 DEF OneByOne
    <2> QED BY <1>7, <1>8, <2>4 DEF StyleInv
  <1>11. CASE Style!NextPart(k) # {}
    <2>1. PICK n : n \in Style!NextPart(k)
      BY <1>11
    <2>2. PICK e : e = Style!Effect(n, FALSE, x.old)
      OBVIOUS
    <2>3. Style!NextPart(k) = {n}
      BY <1>4, <2>1
    <2>4. F = {e} /\ W = Inherited(n) /\ M = InheritedMade(n)
      BY <2>2, <2>3
    <2>5. e.kind = n /\ e.state = "idle" /\ e.old = x.old
      BY <1>5, <2>1, <2>2
    <2>6. ASSUME ~mixed PROVE asked = Style!Outcome(n)'
      <3>1. /\ asked = (k \notin Style!HiddenAtFinish \union {"SwitchOff", "Fold"}
                           /\ (k = "Grow" \/ visible))
        BY <1>9, <2>6
      <3>2. Style!Outcome(n)' = (n \notin Style!HiddenAtFinish \union {"SwitchOff", "Fold"}
                              /\ (visible' \/ n \in Style!ShownAtSetUp \union {"Grow"}))
        BY DEF Style!Outcome
      <3>3. <<k, n>> \in {<<"Grow", "Grow2">>, <<"SwitchOff", "SwitchOff2">>,
                          <<"Fold", "Fold2">>, <<"Shake", "Shake2">>, <<"Shake2", "Shake3">>}
        BY <2>1 DEF Style!NextPart
      <3> QED BY <1>2, <3>1, <3>2, <3>3 DEF Style!HiddenAtFinish, Style!ShownAtSetUp
    <2> HIDE DEF W, M, F
    <2>7. ASSUME ~mixed PROVE effects' = {e} /\ MadeRight' /\ Accounts(e)'
      <3>1. made' \subseteq lost' \union Makes(e)
        BY <1>9, <2>4, <2>5, <2>7 DEF Makes, MadeAtStart
      <3>2. WholeBut(Writes(e))'
        BY <1>9, <2>4, <2>5, <2>7 DEF Writes
      <3>3. asked' = Destined(e)'
        BY <1>2, <2>5, <2>6, <2>7 DEF Destined
      <3>4. Remembers(e)
        BY <1>9, <2>5, <2>7 DEF Remembers
      <3>5. Remembers(e)'
        BY <1>2, <3>4, RemembersStays
      <3> QED BY <1>9, <2>4, <2>7, <3>1, <3>2, <3>3, <3>5 DEF Accounts
    <2>8. ASSUME ~mixed', NEW u \in effects' PROVE Accounts(u)' /\ u = e
      BY <1>2, <2>7, <2>8
    <2>9. OneByOne'
      BY <1>2, <2>7, <2>8 DEF OneByOne
    <2> QED BY <1>7, <1>8, <2>9 DEF StyleInv
  <1> QED BY <1>10, <1>11

(* An effect is cancelled.                                                 *)
LEMMA CancelStep ==
    ASSUME StyleFacts, StyleInv, Style!cancel
    PROVE  StyleInv'
  <1>1. PICK x \in effects : effects' = effects \ {x}
    BY DEF Style!cancel
  <1>2. mixed' = TRUE /\ UNCHANGED <<page, style, made, overflow, visible, lost, asked, appeared>>
    BY DEF Style!cancel
  <1>3. IsFiniteSet(effects') /\ Cardinality(effects') <= MaxEffects
    BY <1>1, OneLess DEF StyleInv, StyleTyped, StyleFacts
  <1>4. StyleTyped'
    BY <1>1, <1>2, <1>3 DEF StyleInv, StyleTyped
  <1>5. Turns' /\ OneByOne'
    BY <1>1, <1>2 DEF StyleInv, Turns, OneByOne
  <1> QED BY <1>4, <1>5 DEF StyleInv

(* Every step keeps the invariant.                                         *)
LEMMA StyleStep ==
    ASSUME StyleFacts, StyleInv, [Style!Next]_(Style!vars)
    PROVE  StyleInv'
  <1>1. CASE Style!Visual
    <2>1. PICK k \in Style!Visuals : Style!Begin(k, FALSE)
      BY <1>1 DEF Style!Visual
    <2> QED BY <2>1, BeginStep
  <1>2. CASE Style!toggle
    <2>1. PICK p \in DOMAIN Style!PAIRS :
             LET k == Style!PAIRS[p][IF visible THEN 2 ELSE 1]
             IN  IF \E x \in effects : Style!Limits(x)
                 THEN /\ Style!Change(Style!Constructed(k), {})
                      /\ lost' = lost \union Style!Constructed(k)
                      /\ UNCHANGED <<page, visible, effects, mixed, asked, appeared>>
                 ELSE Style!Begin(k, TRUE)
      BY <1>2 DEF Style!toggle
    <2>2. PICK k : k = Style!PAIRS[p][IF visible THEN 2 ELSE 1]
      OBVIOUS
    <2>3. k \in Style!Visuals /\ Style!Constructed(k) \in SUBSET {"clip"}
      <3>1. (IF visible THEN 2 ELSE 1) \in {1, 2}
        OBVIOUS
      <3> QED BY <2>2, <3>1, PartsAndVisuals
    <2>4. CASE \E x \in effects : Style!Limits(x)
      <3>1. effects # {} /\ Style!Change(Style!Constructed(k), {})
            /\ lost' = lost \union Style!Constructed(k)
            /\ UNCHANGED <<page, visible, effects, mixed, asked, appeared>>
        BY <2>1, <2>2, <2>4
      <3> QED BY <2>3, <3>1, StyleDropStep
    <2>5. CASE ~\E x \in effects : Style!Limits(x)
      BY <2>1, <2>2, <2>3, <2>5, BeginStep DEF Style!Limits
    <2> QED BY <2>4, <2>5
  <1>3. CASE UNCHANGED Style!vars
    <2>1. UNCHANGED <<page, style, made, overflow, visible, effects, lost, mixed, asked, appeared>>
      BY <1>3 DEF Style!vars
    <2>2. StyleTyped' /\ Turns'
      BY <2>1 DEF StyleInv, StyleTyped, Turns
    <2>3. \A t : Style!Kept(t)' = Style!Kept(t)
      BY <2>1 DEF Style!Kept, Style!Own, Style!Loses, Style!OwnStatic
    <2>4. MadeRight' <=> MadeRight
      <3>1. \A p : Style!OwnStatic(p)' = Style!OwnStatic(p)
        BY <2>1 DEF Style!OwnStatic
      <3>2. Style!PutBack("clip", overflow)' = Style!PutBack("clip", overflow)
        BY <2>1 DEF Style!PutBack
      <3> QED BY <2>1, <2>3, <3>1, <3>2 DEF MadeRight
    <2>5. \A W : WholeBut(W)' <=> WholeBut(W)
      BY <2>1, <2>3 DEF WholeBut
    <2>6. ASSUME NEW x, Accounts(x) PROVE Accounts(x)'
      <3>1. Destined(x)' = Destined(x)
        BY <2>1 DEF Destined, Style!Outcome
      <3>2. Remembers(x)'
        BY <2>1, <2>6, RemembersStays DEF Accounts
      <3>3. WholeBut(Writes(x))'
        BY <2>5, <2>6 DEF Accounts
      <3> QED BY <2>1, <2>6, <3>1, <3>2, <3>3 DEF Accounts
    <2>7. WholeBut({})' <=> WholeBut({})
      BY <2>5
    <2>8. OneByOne'
      BY <2>1, <2>4, <2>6, <2>7 DEF StyleInv, OneByOne
    <2> QED BY <2>2, <2>8 DEF StyleInv
  <1> QED BY <1>1, <1>2, <1>3, HighlightHiddenStep, FrameStep, StyleFinishStep, CancelStep
          DEF Style!Next

(* So it always holds.                                                     *)
LEMMA StylesKept ==
    ASSUME StyleFacts
    PROVE  Style!Spec => []StyleInv
  <1>1. Style!Init => StyleInv
    BY StyleInit
  <1>2. StyleInv /\ [Style!Next]_(Style!vars) => StyleInv'
    BY StyleStep
  <1> QED BY <1>1, <1>2, PTL DEF Style!Spec

(* What the invariant says of an element at rest.                            *)
LEMMA StyleInvImplies ==
    ASSUME StyleInv
    PROVE  Style!TypeOK /\ Style!RestIsWhole /\ Style!RestIsAsAsked /\ Style!TogglesTakeTurns
  <1>1. Style!TypeOK
    BY SameStyle DEF StyleInv, StyleTyped, Style!TypeOK, EffectRecord, Makeable
  <1>2. Style!RestIsWhole /\ Style!RestIsAsAsked
    BY DEF StyleInv, OneByOne, WholeBut, Style!RestIsWhole, Style!RestIsAsAsked
  <1>3. Style!TogglesTakeTurns
    <2> DEFINE T == {x \in effects : x.toggled}
    <2>1. \A x, y \in T : x = y
      BY DEF StyleInv, Turns
    <2> HIDE DEF T
    <2>2. CASE T = {}
      BY <2>2, FS_EmptySet, SameStyle DEF Style!TogglesTakeTurns, T
    <2>3. CASE T # {}
      <3>1. PICK x : T = {x}
        BY <2>1, <2>3
      <3>2. Cardinality(T) = 1
        BY <3>1, FS_Singleton
      <3> QED BY <3>2, SameStyle DEF Style!TogglesTakeTurns, T
    <2> QED BY <2>2, <2>3
  <1> QED BY <1>1, <1>2, <1>3

-----------------------------------------------------------------------------
(* Each effect with all its parts, one after the other, leaves nothing of     *)
(* itself in the inline style: each thing has the page's value or what the    *)
(* style sheets gave it, and the page's is only lost where Loses says so.      *)
THEOREM StyleIsRestored ==
    ASSUME StyleFacts
    PROVE  Style!Spec => [](Style!TypeOK /\ Style!RestIsWhole)
  <1>1. StyleInv => Style!TypeOK /\ Style!RestIsWhole
    BY StyleInvImplies
  <1> QED BY <1>1, StylesKept, PTL

(* The element ends shown or hidden as the effect that was accepted set out   *)
(* to, however often it is toggled meanwhile.                               *)
THEOREM ShownAsAsked ==
    ASSUME StyleFacts
    PROVE  Style!Spec => []Style!RestIsAsAsked
  <1>1. StyleInv => Style!RestIsAsAsked
    BY StyleInvImplies
  <1> QED BY <1>1, StylesKept, PTL

(* Toggling never starts an effect beside another toggle of the element.      *)
THEOREM TogglesInTurn ==
    ASSUME StyleFacts
    PROVE  Style!Spec => []Style!TogglesTakeTurns
  <1>1. StyleInv => Style!TogglesTakeTurns
    BY StyleInvImplies
  <1> QED BY <1>1, StylesKept, PTL

-----------------------------------------------------------------------------
(* Slider.                                                                 *)
(* The instance has the library's operator under a name of its own.          *)
LEMMA SameMax == \A S : Sliding!Max(S) = Max(S)
  BY DEF Sliding!Max, Max

Options ==
    /\ Handles \in Nat \ {0}
    /\ Wanted \subseteq Int
    /\ \A a \in Allowed : a # {} /\ a \subseteq Int

-----------------------------------------------------------------------------
(* getNearestValue returns a value that is allowed, and none is nearer.      *)
LEMMA NearestIs ==
    ASSUME allowed \subseteq Int, allowed # {}, NEW value \in Int
    PROVE  /\ Sliding!getNearestValue(value) \in allowed
           /\ \A w \in allowed : Sliding!Distance(Sliding!getNearestValue(value), value) <= Sliding!Distance(w, value)
  <1> DEFINE N == {v \in allowed : \A w \in allowed : Sliding!Distance(v, value) <= Sliding!Distance(w, value)}
             T == {Sliding!Distance(v, value) : v \in allowed}
  <1>1. \A v \in allowed : v \in Int /\ Sliding!Distance(v, value) \in Nat
    BY DEF Sliding!Distance
  <1>2. T \in SUBSET Nat /\ T # {}
    BY <1>1
  <1>3. PICK d \in T : \A e \in T : d <= e
    BY <1>2, LeastOf
  <1>4. PICK u \in allowed : Sliding!Distance(u, value) = d
    BY <1>3
  <1>5. u \in N
    BY <1>3, <1>4
  <1>6. \A v \in N : Sliding!Distance(v, value) <= d /\ v \in Int
    BY <1>1, <1>4
  <1>7. \A v \in N : Sliding!Distance(v, value) = d
    <2>1. \A v \in N : d <= Sliding!Distance(v, value) /\ Sliding!Distance(v, value) \in Nat
      BY <1>1, <1>3
    <2>2. d \in Nat
      BY <1>2
    <2> QED BY <1>6, <2>1, <2>2
  <1>8. d \in Nat /\ \A v \in N : v = value - d \/ v = value + d
    <2>1. d \in Nat
      BY <1>2
    <2> QED BY <1>6, <1>7, <2>1 DEF Sliding!Distance
  <1>9. \E m \in N : \A v \in N : m >= v
    <2> HIDE DEF N
    <2>1. CASE value + d \in N
      BY <1>8, <2>1
    <2>2. CASE value + d \notin N
      <3>1. \A v \in N : v = value - d
        BY <1>8, <2>2
      <3> QED BY <1>5, <1>6, <3>1
    <2> QED BY <2>1, <2>2
  <1>10. Max(N) \in N
    <2> HIDE DEF N
    <2> QED BY <1>9 DEF Max
  <1> QED BY <1>10, SameMax DEF Sliding!getNearestValue

(* An allowed value on one side of what is asked for is on that side of what *)
(* is set, too.                                                            *)
LEMMA NearestKeepsSides ==
    ASSUME allowed \subseteq Int, NEW value \in Int, NEW u \in allowed
    PROVE  /\ u <= value => u <= Sliding!getNearestValue(value)
           /\ value <= u => Sliding!getNearestValue(value) <= u
  <1> DEFINE n == Sliding!getNearestValue(value)
  <1>1. n \in Int /\ u \in Int /\ Sliding!Distance(n, value) <= Sliding!Distance(u, value)
    BY NearestIs
  <1> HIDE DEF n
  <1>2. /\ u <= value => u <= n
        /\ value <= u => n <= u
    BY <1>1 DEF Sliding!Distance
  <1> QED BY <1>2 DEF n

-----------------------------------------------------------------------------
(* The invariant: a drag is on only while the slider is active.              *)
SliderInv ==
    /\ allowed \in Allowed
    /\ Sliding!TypeOK
    /\ handleDragging => handleActive
    /\ Sliding!HandlesInOrder
    /\ Sliding!ReportedUnlessDragging

(* What is set for a handle keeps the order.                               *)
LEMMA HandleStays ==
    ASSUME allowed \subseteq Int, allowed # {}, Handles \in Nat \ {0},
           values \in [Sliding!Index -> allowed], Sliding!HandlesInOrder,
           NEW h \in Sliding!Index, NEW value \in Int
    PROVE  LET n == Sliding!getNearestValue(Sliding!Held(h, value))
           IN  /\ n \in allowed
               /\ restricted => Sliding!Ordered([values EXCEPT ![h] = n])
  <1> DEFINE x == Sliding!Held(h, value)
             n == Sliding!getNearestValue(x)
             v == [values EXCEPT ![h] = n]
  <1>1. \A i \in Sliding!Index : values[i] \in allowed /\ values[i] \in Int /\ i \in Int
    <2>1. \A i \in Sliding!Index : values[i] \in allowed
      OBVIOUS
    <2>2. \A i \in Sliding!Index : i \in Int
      BY DEF Sliding!Index
    <2> QED BY <2>1, <2>2
  <1>2. h \in Int /\ (h > 0 => h - 1 \in Sliding!Index) /\ (h < Handles - 1 => h + 1 \in Sliding!Index)
    BY DEF Sliding!Index
  <1>3. Sliding!AtLeast(h, value) \in Int
    BY <1>1, <1>2 DEF Sliding!AtLeast
  <1>4. x \in Int
    BY <1>1, <1>2, <1>3 DEF Sliding!Held, Sliding!AtMost
  <1>5. n \in allowed /\ n \in Int
    BY <1>4, NearestIs
  <1>6. ASSUME restricted
        PROVE  /\ h > 0 => values[h - 1] <= x
               /\ h < Handles - 1 => x <= values[h + 1]
    <2>1. h > 0 /\ h < Handles - 1 => values[h - 1] <= values[h + 1]
      BY <1>2, <1>6 DEF Sliding!HandlesInOrder, Sliding!Ordered
    <2>2. h > 0 => values[h - 1] <= Sliding!AtLeast(h, value)
      BY <1>1, <1>2, <1>6 DEF Sliding!AtLeast
    <2>3. x = Sliding!AtLeast(h, value) \/ (h < Handles - 1 /\ x = values[h + 1])
      BY DEF Sliding!Held, Sliding!AtMost
    <2>4. h < Handles - 1 => x <= values[h + 1]
      BY <1>1, <1>2, <1>3, <1>6 DEF Sliding!Held, Sliding!AtMost
    <2> QED BY <2>1, <2>2, <2>3, <2>4
  <1> HIDE DEF x
  <1>7. ASSUME restricted, NEW i \in Sliding!Index, i < h PROVE values[i] <= n
    <2>1. h > 0 /\ h - 1 \in Sliding!Index /\ (i = h - 1 \/ i < h - 1)
      BY <1>2, <1>7 DEF Sliding!Index
    <2>2. values[i] <= values[h - 1]
      BY <1>1, <1>7, <2>1 DEF Sliding!HandlesInOrder, Sliding!Ordered
    <2>3. values[h - 1] <= n
      BY <1>1, <1>4, <1>6, <1>7, <2>1, NearestKeepsSides
    <2> HIDE DEF n
    <2> QED BY <1>1, <1>5, <2>1, <2>2, <2>3
  <1>8. ASSUME restricted, NEW i \in Sliding!Index, h < i PROVE n <= values[i]
    <2>1. h < Handles - 1 /\ h + 1 \in Sliding!Index /\ (i = h + 1 \/ h + 1 < i)
      BY <1>2, <1>8 DEF Sliding!Index
    <2>2. values[h + 1] <= values[i]
      BY <1>1, <1>8, <2>1 DEF Sliding!HandlesInOrder, Sliding!Ordered
    <2>3. n <= values[h + 1]
      BY <1>1, <1>4, <1>6, <1>8, <2>1, NearestKeepsSides
    <2> HIDE DEF n
    <2> QED BY <1>1, <1>5, <2>1, <2>2, <2>3
  <1> HIDE DEF n
  <1>9. \A i \in Sliding!Index : v[i] = IF i = h THEN n ELSE values[i]
    OBVIOUS
  <1>10. ASSUME restricted, NEW i \in Sliding!Index, NEW j \in Sliding!Index, i < j PROVE v[i] <= v[j]
    <2>1. CASE i = h
      BY <1>1, <1>8, <1>9, <1>10, <2>1
    <2>2. CASE j = h
      BY <1>1, <1>7, <1>9, <1>10, <2>2
    <2>3. CASE i # h /\ j # h
      BY <1>9, <1>10, <2>3 DEF Sliding!HandlesInOrder, Sliding!Ordered
    <2> QED BY <2>1, <2>2, <2>3
  <1> QED BY <1>5, <1>10 DEF Sliding!Ordered, n, x

(* The end of setValue: whoever asked.                                     *)
LEMMA SetHandleKeeps ==
    ASSUME Options, SliderInv, NEW h \in Sliding!Index, NEW value \in Int, NEW ongoing \in BOOLEAN,
           Sliding!SetHandle(h, value, ongoing), UNCHANGED Sliding!options
    PROVE  /\ allowed' \in Allowed
           /\ values' \in [Sliding!Index -> allowed'] /\ reported' \in [Sliding!Index -> allowed']
           /\ event' \in BOOLEAN
           /\ Sliding!HandlesInOrder'
           /\ ~ongoing => reported' = values'
           /\ \A i \in Sliding!Index : values'[i] # values[i] => i = h
  <1> DEFINE n == Sliding!getNearestValue(Sliding!Held(h, value))
  <1>1. /\ allowed' = allowed /\ restricted' = restricted
        /\ values' = [values EXCEPT ![h] = n]
        /\ event' = ongoing
        /\ reported' = IF ongoing THEN reported ELSE values'
    BY DEF Sliding!SetHandle, Sliding!options
  <1>2. /\ allowed \in Allowed /\ allowed \subseteq Int /\ allowed # {}
        /\ Handles \in Nat \ {0}
        /\ values \in [Sliding!Index -> allowed] /\ reported \in [Sliding!Index -> allowed]
        /\ Sliding!HandlesInOrder
    BY DEF Options, SliderInv, Sliding!TypeOK
  <1>3. /\ n \in allowed
        /\ restricted => Sliding!Ordered([values EXCEPT ![h] = n])
    BY <1>2, HandleStays
  <1> HIDE DEF n
  <1>4. values' \in [Sliding!Index -> allowed']
    BY <1>1, <1>2, <1>3
  <1>5. Sliding!HandlesInOrder'
    BY <1>1, <1>3 DEF Sliding!HandlesInOrder, Sliding!Ordered, Sliding!Index
  <1>6. \A i \in Sliding!Index : values'[i] # values[i] => i = h
    BY <1>1, <1>2
  <1> QED BY <1>1, <1>2, <1>4, <1>5, <1>6

(* setValue, as the page calls it.                                         *)
LEMMA SetValueKeeps ==
    ASSUME Options, SliderInv, NEW h \in Sliding!Index, NEW value \in Int, Sliding!setValue(value, h),
           askedHandle' \in Sliding!Index
    PROVE  /\ SliderInv'
           /\ \A i \in Sliding!Index : values'[i] # values[i] => i = Sliding!Target(h)
  <1> DEFINE t == Sliding!Target(h)
  <1>1. /\ activeHandleIdx' = IF handleActive THEN activeHandleIdx ELSE h
        /\ Sliding!SetHandle(t, value, Sliding!Ongoing)
        /\ UNCHANGED Sliding!options /\ UNCHANGED <<handleActive, handleDragging, disabled, listening>>
    BY DEF Sliding!setValue
  <1>2. t \in Sliding!Index /\ activeHandleIdx' \in Sliding!Index /\ Sliding!Ongoing \in BOOLEAN
    <2>1. activeHandleIdx \in Sliding!Index /\ handleDragging \in BOOLEAN /\ event \in BOOLEAN
      BY DEF SliderInv, Sliding!TypeOK
    <2> QED BY <1>1, <2>1 DEF Sliding!Target, Sliding!Ongoing
  <1> HIDE DEF t
  <1>3. /\ allowed' \in Allowed
        /\ values' \in [Sliding!Index -> allowed'] /\ reported' \in [Sliding!Index -> allowed']
        /\ event' \in BOOLEAN
        /\ Sliding!HandlesInOrder'
        /\ ~Sliding!Ongoing => reported' = values'
        /\ \A i \in Sliding!Index : values'[i] # values[i] => i = t
    BY <1>1, <1>2, SetHandleKeeps
  <1>4. restricted' \in BOOLEAN
    BY <1>1 DEF Sliding!options, SliderInv, Sliding!TypeOK
  <1>5. Sliding!TypeOK'
    BY <1>1, <1>2, <1>3, <1>4 DEF SliderInv, Sliding!TypeOK, Sliding!Index
  <1>6. Sliding!ReportedUnlessDragging'
    BY <1>1, <1>3 DEF Sliding!ReportedUnlessDragging, Sliding!Ongoing
  <1>7. handleDragging' => handleActive'
    BY <1>1 DEF SliderInv
  <1> QED BY <1>3, <1>5, <1>6, <1>7 DEF SliderInv, t

(* The invariant at the beginning.                                         *)
LEMMA SliderInit == Options /\ Sliding!Init => SliderInv
  <1> SUFFICES ASSUME Options, Sliding!Init PROVE SliderInv
    OBVIOUS
  <1>1. 0 \in Sliding!Index
    BY DEF Options, Sliding!Index
  <1>2. Sliding!TypeOK
    BY <1>1 DEF Sliding!Init, Sliding!TypeOK
  <1> QED BY <1>2 DEF Sliding!Init, SliderInv, Sliding!HandlesInOrder,
                      Sliding!ReportedUnlessDragging

(* Every step keeps the invariant, and what a step asks for moves no handle  *)
(* but its own.                                                            *)
LEMMA SliderStep ==
    ASSUME Options, SliderInv, [Sliding!Next]_(Sliding!vars)
    PROVE  SliderInv' /\ (Sliding!OnlyAsked \/ UNCHANGED Sliding!vars)
  <1>1. /\ activeHandleIdx \in Sliding!Index /\ askedHandle \in Sliding!Index
        /\ {handleActive, handleDragging, disabled, event, listening, restricted} \subseteq BOOLEAN
        /\ values \in [Sliding!Index -> allowed] /\ reported \in [Sliding!Index -> allowed]
        /\ allowed \in Allowed /\ allowed \subseteq Int
        /\ (handleDragging => handleActive) /\ Sliding!HandlesInOrder /\ Sliding!ReportedUnlessDragging
    BY DEF SliderInv, Sliding!TypeOK, Options
  <1>2. Wanted \subseteq Int
    BY DEF Options
  <1>3. CASE Sliding!PageSets
    <2>1. PICK value \in Wanted, i \in Sliding!Index : Sliding!setValue(value, i) /\ askedHandle' = i
      BY <1>3 DEF Sliding!PageSets
    <2>2. SliderInv' /\ \A h \in Sliding!Index : values'[h] # values[h] => h = Sliding!Target(i)
      BY <1>2, <2>1, SetValueKeeps
    <2> QED BY <2>1, <2>2 DEF Sliding!OnlyAsked, Sliding!Target
  <1>4. CASE Sliding!setValueBy
    <2>1. PICK delta \in {-1, 1}, i \in Sliding!Index :
             LET h == IF i = 0 THEN activeHandleIdx ELSE i
             IN  Sliding!setValue(values[h] + delta, h) /\ askedHandle' = i
      BY <1>4 DEF Sliding!setValueBy
    <2> DEFINE h == IF i = 0 THEN activeHandleIdx ELSE i
    <2>2. h \in Sliding!Index /\ values[h] + delta \in Int
      <3>1. h \in Sliding!Index
        BY <1>1
      <3> HIDE DEF h
      <3>2. values[h] \in Int
        BY <1>1, <3>1
      <3> QED BY <3>1, <3>2
    <2>3. Sliding!setValue(values[h] + delta, h) /\ askedHandle' = i
      BY <2>1
    <2> HIDE DEF h
    <2>4. SliderInv' /\ \A j \in Sliding!Index : values'[j] # values[j] => j = Sliding!Target(h)
      BY <2>2, <2>3, SetValueKeeps
    <2> QED BY <2>3, <2>4 DEF Sliding!OnlyAsked, Sliding!Target, h
  <1>5. CASE Sliding!StartOnTrack
    <2>1. PICK value \in Wanted : Sliding!SetHandle(activeHandleIdx, value, handleDragging)
      BY <1>5 DEF Sliding!StartOnTrack
    <2>2. /\ handleActive' = TRUE /\ askedHandle' = activeHandleIdx
          /\ UNCHANGED Sliding!options /\ UNCHANGED <<activeHandleIdx, handleDragging, disabled, listening>>
      BY <1>5 DEF Sliding!StartOnTrack
    <2>3. /\ allowed' \in Allowed
          /\ values' \in [Sliding!Index -> allowed'] /\ reported' \in [Sliding!Index -> allowed']
          /\ event' \in BOOLEAN
          /\ Sliding!HandlesInOrder'
          /\ ~handleDragging => reported' = values'
          /\ \A i \in Sliding!Index : values'[i] # values[i] => i = activeHandleIdx
      BY <1>1, <1>2, <2>1, <2>2, SetHandleKeeps
    <2>4. restricted' \in BOOLEAN
      BY <1>1, <2>2 DEF Sliding!options
    <2>5. Sliding!TypeOK'
      BY <1>1, <2>2, <2>3, <2>4 DEF Sliding!TypeOK, Sliding!Index
    <2> QED BY <2>2, <2>3, <2>5 DEF SliderInv, Sliding!OnlyAsked,
                                    Sliding!ReportedUnlessDragging
  <1>6. CASE Sliding!StartOnHandle
    <2>1. Sliding!TypeOK'
      BY <1>1, <1>6 DEF Sliding!StartOnHandle, Sliding!TypeOK, Sliding!options,
                        Sliding!Index
    <2> QED BY <1>1, <1>6, <2>1
      DEF Sliding!StartOnHandle, SliderInv, Sliding!HandlesInOrder, Sliding!Ordered,
          Sliding!Index, Sliding!ReportedUnlessDragging, Sliding!OnlyAsked,
          Sliding!options
  <1>7. CASE Sliding!Move
    <2>1. PICK value \in Wanted : Sliding!SetHandle(activeHandleIdx, value, TRUE)
      BY <1>7 DEF Sliding!Move
    <2>2. /\ handleActive /\ handleDragging' = TRUE /\ askedHandle' = activeHandleIdx
          /\ UNCHANGED Sliding!options /\ UNCHANGED <<activeHandleIdx, handleActive, disabled, listening>>
      BY <1>7 DEF Sliding!Move
    <2>3. /\ allowed' \in Allowed
          /\ values' \in [Sliding!Index -> allowed'] /\ reported' \in [Sliding!Index -> allowed']
          /\ event' \in BOOLEAN
          /\ Sliding!HandlesInOrder'
          /\ \A i \in Sliding!Index : values'[i] # values[i] => i = activeHandleIdx
      BY <1>1, <1>2, <2>1, <2>2, SetHandleKeeps
    <2>4. restricted' \in BOOLEAN
      BY <1>1, <2>2 DEF Sliding!options
    <2>5. Sliding!TypeOK'
      BY <1>1, <2>2, <2>3, <2>4 DEF Sliding!TypeOK, Sliding!Index
    <2> QED BY <2>2, <2>3, <2>5 DEF SliderInv, Sliding!OnlyAsked,
                                    Sliding!ReportedUnlessDragging
  <1>8. CASE Sliding!endDrag
    <2>1. Sliding!TypeOK'
      BY <1>1, <1>8 DEF Sliding!endDrag, Sliding!TypeOK, Sliding!options, Sliding!Index
    <2>2. Sliding!HandlesInOrder' /\ Sliding!OnlyAsked
      BY <1>1, <1>8 DEF Sliding!endDrag, Sliding!HandlesInOrder, Sliding!Ordered,
                        Sliding!Index, Sliding!OnlyAsked, Sliding!options
    <2>3. Sliding!ReportedUnlessDragging'
      BY <1>1, <1>8 DEF Sliding!endDrag, Sliding!ReportedUnlessDragging
    <2> QED BY <1>1, <1>8, <2>1, <2>2, <2>3 DEF Sliding!endDrag, SliderInv, Sliding!options
  <1>9. CASE Sliding!setDisabled
    <2>1. Sliding!TypeOK'
      BY <1>1, <1>9 DEF Sliding!setDisabled, Sliding!TypeOK, Sliding!options, Sliding!Index
    <2> QED BY <1>1, <1>9, <2>1
      DEF Sliding!setDisabled, SliderInv, Sliding!HandlesInOrder, Sliding!Ordered,
          Sliding!Index, Sliding!ReportedUnlessDragging, Sliding!OnlyAsked,
          Sliding!options
  <1>10. CASE Sliding!dispose
    <2>1. Sliding!TypeOK'
      BY <1>1, <1>10 DEF Sliding!dispose, Sliding!TypeOK, Sliding!options, Sliding!Index
    <2> QED BY <1>1, <1>10, <2>1
      DEF Sliding!dispose, SliderInv, Sliding!HandlesInOrder, Sliding!Ordered,
          Sliding!Index, Sliding!ReportedUnlessDragging, Sliding!OnlyAsked,
          Sliding!options
  <1>11. CASE UNCHANGED Sliding!vars
    <2>1. Sliding!TypeOK'
      BY <1>1, <1>11 DEF Sliding!vars, Sliding!TypeOK, Sliding!Index
    <2> QED BY <1>1, <1>11, <2>1
      DEF Sliding!vars, SliderInv, Sliding!HandlesInOrder, Sliding!Ordered, Sliding!Index,
          Sliding!ReportedUnlessDragging
  <1> QED BY <1>3, <1>4, <1>5, <1>6, <1>7, <1>8, <1>9, <1>10, <1>11 DEF Sliding!Next

(* It always holds.                                                        *)
LEMMA SliderKept ==
    ASSUME Options
    PROVE  Sliding!Spec => []SliderInv
  <1>1. Sliding!Init => SliderInv
    BY SliderInit
  <1>2. SliderInv /\ [Sliding!Next]_(Sliding!vars) => SliderInv'
    BY SliderStep
  <1> QED BY <1>1, <1>2, PTL DEF Sliding!Spec

-----------------------------------------------------------------------------
(* Handles that are restricted stay in order through every order of drags,   *)
(* presses and calls of the page, although the nearest allowed value may lie *)
(* beyond what was asked for.                                              *)
THEOREM HandlesStayInOrder ==
    ASSUME Options
    PROVE  Sliding!Spec => [](Sliding!TypeOK /\ Sliding!HandlesInOrder)
  <1>1. SliderInv => Sliding!TypeOK /\ Sliding!HandlesInOrder
    BY DEF SliderInv
  <1> QED BY <1>1, SliderKept, PTL

(* Whatever is set, onChange has been called with it once no drag is on.      *)
THEOREM ChangesAreReported ==
    ASSUME Options
    PROVE  Sliding!Spec => []Sliding!ReportedUnlessDragging
  <1>1. SliderInv => Sliding!ReportedUnlessDragging
    BY DEF SliderInv
  <1> QED BY <1>1, SliderKept, PTL

(* A step moves no handle but the one that was asked for, handle 0 aside.     *)
THEOREM AskedHandleMoves ==
    ASSUME Options
    PROVE  Sliding!Spec => Sliding!SetsAskedHandle
  <1>1. SliderInv /\ [Sliding!Next]_(Sliding!vars) => [Sliding!OnlyAsked]_(Sliding!vars)
    BY SliderStep
  <1> QED BY <1>1, SliderKept, PTL DEF Sliding!Spec, Sliding!SetsAskedHandle
=============================================================================
