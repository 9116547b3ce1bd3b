------------------------------ MODULE DragDrop ------------------------------
(***************************************************************************)
(* Droppables, Draggables and Draggable of dragdrop.js: what the mouse,    *)
(* the escape key, timers and the page may do to a drag, in any order.     *)
(* A handler of the browser is one step.                                   *)
(*                                                                         *)
(* A place on the page is a point; an element is where its left and top    *)
(* are.  The effects that end a drag are the queue '_draggable', all at    *)
(* its end.  The default starteffect and endeffect are used; ghosting,     *)
(* snapping, constraint and quiet change how a drag looks and are left out.*)
(***************************************************************************)
EXTENDS Integers, Sequences, FiniteSets, SequencesExt

CONSTANTS
    Draggable,  \* elements that can be dragged
    Drops,      \* elements that can be dropped on
    Points,     \* where the pointer may be; 1 is where elements are at first
    Area,       \* [Drops -> SUBSET Points]
    Inside,     \* pairs <<x, y>> of drops, x a descendant of y
    Accept,     \* [Drops -> SUBSET Draggable]: accept and containment
    Delayed,    \* draggables with options.delay
    Edge,       \* points at which the window scrolls (options.scroll)
    Revert,     \* [Draggable -> {"no", "yes", "failure"}]: options.revert
    MaxSettling \* bound: no press while more effects than this are queued

None == "none"

VARIABLES
    mouse,      \* [down, at]: the button and the pointer
    drags,      \* Draggables.drags
    drops,      \* Droppables.drops
    active,     \* Draggables.activeDraggable
    timeouts,   \* timers of activate() that are set
    timeout,    \* Draggables._timeout, the last of them
    lastPointer,\* Draggables._lastPointer, 0 when null
    lastActive, \* Droppables.last_active
    drag,       \* [Draggable -> [dragging, at, delta, z, scroll]]
    settling,   \* the '_draggable' queue: <<"revert", d, by>> and <<"end", d>>
    busy,       \* Draggable._dragging[element]: elements of a kind share the key
    fired,      \* history: what was dropped last, <<element, drop>>
    mishaps     \* history: what went wrong for a drag, see below

vars == <<mouse, drags, drops, active, timeouts, timeout, lastPointer,
          lastActive, drag, settling, busy, fired, mishaps>>

TypeOK ==
    /\ mouse.at \in Points /\ drags \subseteq Draggable /\ drops \subseteq Drops
    /\ active \in Draggable \union {None} /\ timeouts \subseteq Draggable
    /\ timeout \in Draggable \union {None}
    /\ lastPointer \in Points \union {0} /\ lastActive \in Drops \union {None}
    /\ \A d \in Draggable : drag[d].at \in Int /\ drag[d].delta \in Points \union {0}

Init ==
    /\ mouse = [down |-> FALSE, at |-> 1]
    /\ drags = Draggable /\ drops = Drops
    /\ active = None /\ timeouts = {} /\ timeout = None
    /\ lastPointer = 0 /\ lastActive = None
    /\ drag = [d \in Draggable |-> [dragging |-> FALSE, at |-> 1, delta |-> 0,
                                    z |-> "own", scroll |-> FALSE]]
    /\ settling = <<>> /\ busy = FALSE
    /\ fired = <<>> /\ mishaps = {}
-----------------------------------------------------------------------------
(* Droppables.                                                             *)

isAffected(p, d, x) == d \in Accept[x] /\ p \in Area[x]

\* Faulty: the outermost
findFirst(affected) ==
    CHOOSE x \in affected : \A y \in affected : <<x, y>> \notin Inside

\* Drops that overlap are nested
findDeepestChild(affected) ==
    CHOOSE x \in affected : \A y \in affected : <<y, x>> \notin Inside

\* Droppables.show, as the new value of last_active
Show(p, d) ==
    LET affected == {x \in drops : isAffected(p, d, x)}
    IN IF drops = {} THEN lastActive
       ELSE IF affected = {} THEN None ELSE findDeepestChild(affected)
-----------------------------------------------------------------------------
(* Pressing the button.                                                    *)

\* Faulty: a drag begins while the last one settles
MayInitAlways == TRUE

\* initDrag returns when an element of this kind is being dragged, or settles
MayInit == ~busy

MouseDown ==
    /\ ~mouse.down /\ Len(settling) <= MaxSettling
    /\ mouse' = [mouse EXCEPT !.down = TRUE]
    /\ \E d \in drags :
        /\ drag[d].at = mouse.at
        /\ IF ~MayInit THEN UNCHANGED <<active, timeouts, timeout>>
           ELSE IF d \in Delayed
           THEN /\ timeouts' = timeouts \union {d} /\ timeout' = d
                /\ UNCHANGED active
           ELSE active' = d /\ UNCHANGED <<timeouts, timeout>>
    /\ fired' = <<>>
    /\ UNCHANGED <<drags, drops, lastPointer, lastActive, drag, settling, busy,
                   mishaps>>

DelayOver ==
    /\ \E d \in timeouts : active' = d /\ timeouts' = timeouts \ {d}
    /\ timeout' = None
    /\ UNCHANGED <<mouse, drags, drops, lastPointer, lastActive, drag, settling,
                   busy, fired, mishaps>>
-----------------------------------------------------------------------------
(* Moving.  The handlers are observed while some draggable is registered.  *)

\* startDrag, when this is the first move
Started(x) ==
    IF x.dragging THEN x
    ELSE [x EXCEPT !.dragging = TRUE, !.delta = IF @ = 0 THEN x.at ELSE @, !.z = "top"]

MouseMove ==
    /\ \E p \in Points \ {mouse.at} :
        /\ mouse' = [mouse EXCEPT !.at = p]
        /\ IF drags = {} \/ active = None \/ lastPointer = p
           THEN UNCHANGED <<lastPointer, lastActive, drag, busy>>
           ELSE /\ lastPointer' = p
                /\ lastActive' = Show(p, active)
                /\ drag' = [drag EXCEPT ![active] =
                                [Started(@) EXCEPT !.at = p, !.scroll = p \in Edge]]
                /\ busy' = (busy \/ ~drag[active].dragging)
    /\ UNCHANGED <<drags, drops, active, timeouts, timeout, settling, fired, mishaps>>

\* scroll(), by its interval; without a last pointer show() throws
ScrollTick ==
    /\ \E d \in Draggable :
        drag[d].scroll /\ lastPointer # 0 /\ lastActive' = Show(lastPointer, d)
    /\ UNCHANGED <<mouse, drags, drops, active, timeouts, timeout, lastPointer,
                   drag, settling, busy, fired, mishaps>>
-----------------------------------------------------------------------------
(* Ending a drag.                                                          *)

\* Droppables.fire
Dropped(d, success) ==
    success /\ lastActive # None /\ isAffected(mouse.at, d, lastActive)

\* Faulty: an element that was dropped stays, whatever revert says
RevertsUndropped(d, dropped) == Revert[d] # "no" /\ ~dropped

Reverts(d, dropped) == Revert[d] # "no" /\ (~dropped \/ Revert[d] # "failure")

\* Faulty: the drop that was hovered over is forgotten about
LastActiveKept == lastActive

\* Droppables.reset
LastActiveReset == None

\* The end of finishDrag, with what it has done to the element so far
Finished(d, x, dropped) ==
    /\ drag' = [drag EXCEPT ![d] =
            [x EXCEPT !.z = "own", !.delta = IF Revert[d] = "no" THEN x.at ELSE @]]
    /\ settling' = settling
            \o (IF Reverts(d, dropped) THEN << <<"revert", d, x.at - x.delta>> >> ELSE <<>>)
            \o << <<"end", d>> >>
    /\ active' = None
    /\ lastActive' = LastActiveReset

\* finishDrag.  A callback that throws (onDrop, onEnd), or a revert without
\* delta, ends the handler: the draggable stays active.
finishDrag(d, x, success, throws) ==
    LET dropped == Dropped(d, success)
        off == [x EXCEPT !.dragging = FALSE]
    IN /\ fired' = IF dropped THEN <<d, lastActive>> ELSE <<>>
       /\ IF throws \/ (Revert[d] # "no" /\ x.delta = 0)
          THEN /\ drag' = [drag EXCEPT ![d] = off]
               /\ mishaps' = mishaps \union {"threw"}
               /\ UNCHANGED <<settling, active, lastActive>>
          ELSE /\ Finished(d, off, dropped)
               /\ mishaps' = mishaps \union
                    (IF x.dragging THEN {} ELSE {"early"}) \union
                    (IF x.scroll THEN {"scrolling"} ELSE {})

\* Bound: callbacks throw, releases are lost and elements are taken away only
\* while nothing has gone wrong yet
MayThrow == IF mishaps = {} THEN BOOLEAN ELSE {FALSE}

\* Faulty: the timer of a press that was too short is left running
TimerLeft == timeouts

\* Faulty: the timer is set again
TimerAgain == timeouts \union {timeout}

\* clearTimeout(this._timeout)
TimerCleared == timeouts \ {timeout}

MouseUp ==
    /\ mouse.down /\ mouse' = [mouse EXCEPT !.down = FALSE]
    /\ IF drags = {} THEN UNCHANGED <<timeouts, timeout>>
       ELSE timeouts' = TimerCleared /\ timeout' = None
    /\ IF drags = {} \/ active = None
       THEN UNCHANGED <<active, lastPointer, lastActive, drag, settling, fired, mishaps>>
       ELSE /\ lastPointer' = 0
            /\ IF ~drag[active].dragging
               THEN /\ active' = None
                    /\ UNCHANGED <<lastActive, drag, settling, fired, mishaps>>
               ELSE \E throws \in MayThrow :
                    finishDrag(active, [drag[active] EXCEPT !.scroll = FALSE], TRUE, throws)
    /\ UNCHANGED <<drags, drops, busy>>

\* keyPress: it does not ask whether a drag has begun, nor stop the scrolling
Escape ==
    /\ drags # {} /\ active # None
    /\ \E throws \in MayThrow : finishDrag(active, drag[active], FALSE, throws)
    /\ UNCHANGED <<mouse, drags, drops, timeouts, timeout, lastPointer, busy>>

\* The first effect of the '_draggable' queue finishes
Settle ==
    /\ settling # <<>> /\ settling' = Tail(settling)
    /\ LET s == Head(settling)
       IN IF s[1] = "end"
          THEN busy' = FALSE /\ UNCHANGED drag
          ELSE drag' = [drag EXCEPT ![s[2]].at = @ - s[3]] /\ UNCHANGED busy
    /\ UNCHANGED <<mouse, drags, drops, active, timeouts, timeout, lastPointer,
                   lastActive, fired, mishaps>>
-----------------------------------------------------------------------------
(* The page and the world around it.                                       *)

\* The button is released where the page does not see it
LostRelease ==
    /\ mouse.down /\ mouse' = [mouse EXCEPT !.down = FALSE]
    /\ mishaps = {} /\ mishaps' = mishaps \union {"lost"}
    /\ UNCHANGED <<drags, drops, active, timeouts, timeout, lastPointer,
                   lastActive, drag, settling, busy, fired>>

\* draggable.destroy()
Destroy ==
    /\ \E d \in drags :
        /\ mishaps = {} /\ drags' = drags \ {d}
        /\ mishaps' = mishaps \union
                (IF active # None \/ timeouts # {} THEN {"destroyed"} ELSE {})
    /\ UNCHANGED <<mouse, drops, active, timeouts, timeout, lastPointer,
                   lastActive, drag, settling, busy, fired>>

\* Droppables.remove
RemoveDrop ==
    /\ \E x \in drops :
        /\ mishaps = {} /\ drops' = drops \ {x}
        /\ mishaps' = mishaps \union (IF lastActive = x THEN {"removed"} ELSE {})
    /\ UNCHANGED <<mouse, drags, active, timeouts, timeout, lastPointer,
                   lastActive, drag, settling, busy, fired>>

Next ==
    \/ MouseDown \/ DelayOver \/ MouseMove \/ ScrollTick \/ MouseUp \/ Escape
    \/ Settle \/ LostRelease \/ Destroy \/ RemoveDrop

Spec == Init /\ [][Next]_vars
-----------------------------------------------------------------------------
(* Properties.  Each says which mishaps it does not survive: "lost", a     *)
(* release nobody saw; "threw", a callback that threw at the end of a drag;*)
(* "early", an escape before the first move; "scrolling", an escape that   *)
(* leaves the scroll timer behind; "destroyed" and "removed", an element   *)
(* taken away under the drag.                                              *)

Survived(m) == m \cap mishaps = {}

\* A draggable is active only while the button is down, however short the
\* press was and whatever timers are still to come.
ActiveIsPressed ==
    active # None /\ Survived({"lost", "threw", "destroyed"}) => mouse.down

\* When nothing is dragged, no element is raised, no drop shows that something
\* hovers over it, and no window scrolls.
QuietWithoutDrag ==
    /\ Survived({"threw", "removed", "scrolling"})
    /\ \A d \in Draggable : ~drag[d].dragging
    => /\ lastActive = None
       /\ \A d \in Draggable : drag[d].z = "own" /\ ~drag[d].scroll

\* While an element is dragged, no other drag may begin: the effects of an
\* earlier drag are over and do not clear the flag under it.
DragIsBusy ==
    Survived({"lost", "threw", "early"}) =>
        \A d \in Draggable : drag[d].dragging => busy

\* Once everything has settled, an element is where its delta says: back home
\* when it reverts, and where it was left when not.
RestsAtDelta ==
    /\ Survived({"lost", "threw", "early"}) /\ active = None /\ settling = <<>>
    => \A d \in Draggable :
        Revert[d] = "failure" \/ drag[d].dragging \/ drag[d].delta \in {0, drag[d].at}

\* What is dropped goes to the innermost drop under the pointer that takes it,
\* never because of an escape, and to nothing else.
DropIsInnermost ==
    fired' # fired /\ fired' # <<>> /\ Survived({"lost", "removed", "scrolling"}) =>
        LET d == fired'[1]
            x == fired'[2]
        IN /\ mouse.down /\ ~mouse'.down /\ active = d
           /\ x \in drops /\ mouse.at \in Area[x] /\ d \in Accept[x]
           /\ \A y \in drops : isAffected(mouse.at, d, y) => <<y, x>> \notin Inside
DropsOnInnermost == [][DropIsInnermost]_vars
=============================================================================
