------------------------------- MODULE Slider -------------------------------
(***************************************************************************)
(* Control.Slider of slider.js: handles moved by the mouse, by the page,   *)
(* or by both at a time.  Offsets and the range of the track are left out: *)
(* the pointer stands for the value translateToValue gives.                *)
(***************************************************************************)
EXTENDS Integers, FiniteSetsExt

CONSTANTS
    Handles,  \* how many handles the slider has
    Wanted,   \* values the pointer or the page asks for
    Allowed   \* sets of values to choose options.values or the range from

VARIABLES
    allowed,     \* allowedValues, or the values of the range
    restricted,  \* options.restricted
    values,      \* the value of each handle, from 0 as in the code
    activeHandleIdx, active, dragging, disabled,
    event,       \* an event of the mouse is kept in this.event
    listening,   \* not disposed
    reported,    \* history: values at the last onChange
    asked        \* history: the handle the last change was asked for

vars == <<allowed, restricted, values, activeHandleIdx, active, dragging, disabled,
          event, listening, reported, asked>>
options == <<allowed, restricted>>

Index == 0 .. Handles - 1

TypeOK ==
    /\ values \in [Index -> allowed] /\ reported \in [Index -> allowed]
    /\ activeHandleIdx \in Index /\ asked \in Index
    /\ {restricted, active, dragging, disabled, event, listening} \subseteq BOOLEAN

Ordered(v) == \A i, j \in Index : i < j => v[i] <= v[j]

\* A page that restricts the handles gives them ordered values
Init ==
    /\ allowed \in Allowed /\ restricted \in BOOLEAN
    /\ values \in [Index -> allowed] /\ (restricted => Ordered(values))
    /\ activeHandleIdx = 0 /\ active = FALSE /\ dragging = FALSE
    /\ disabled \in BOOLEAN /\ event = FALSE /\ listening = TRUE
    /\ reported = values /\ asked = 0
-----------------------------------------------------------------------------
Distance(a, b) == IF a < b THEN b - a ELSE a - b

\* The later of two values that are equally near
getNearestValue(value) ==
    Max({v \in allowed : \A w \in allowed : Distance(v, value) <= Distance(w, value)})

AtLeast(h, value) ==
    IF restricted /\ h > 0 /\ value < values[h - 1] THEN values[h - 1] ELSE value

\* Faulty: the last handle but one is not held back by the last
AtMostLeft(h, value) ==
    IF restricted /\ h < Handles - 2 /\ value > values[h + 1] THEN values[h + 1] ELSE value

AtMost(h, value) ==
    IF restricted /\ h < Handles - 1 /\ value > values[h + 1] THEN values[h + 1] ELSE value

\* A restricted handle stays between its neighbours
Held(h, value) == AtMost(h, AtLeast(h, value))

\* Faulty: the handle that was moved last
TargetLast(idx) == activeHandleIdx

\* handleIdx || this.activeHandleIdx || 0, where 0 counts as none; a slider
\* that is not active has just made idx the active one
Target(idx) == IF active /\ idx = 0 THEN activeHandleIdx ELSE idx

\* Faulty: a press counts as a drag
OngoingPressed == active

\* !(!this.dragging || !this.event)
Ongoing == dragging /\ event

\* The end of setValue, for handle h: updateFinished unless a drag goes on
SetHandle(h, value, ongoing) ==
    /\ values' = [values EXCEPT ![h] = getNearestValue(Held(h, value))]
    /\ event' = ongoing
    /\ reported' = IF ongoing THEN reported ELSE values'

\* setValue as the page calls it, maybe in the midst of a drag
setValue(value, idx) ==
    /\ activeHandleIdx' = IF active THEN activeHandleIdx ELSE idx
    /\ SetHandle(Target(idx), value, Ongoing)
    /\ UNCHANGED <<options, active, dragging, disabled, listening>>

PageSets == \E value \in Wanted, i \in Index : setValue(value, i) /\ asked' = i

\* setValueBy takes a 0 for the active handle, even when no drag is on
setValueBy ==
    \E delta \in {-1, 1}, i \in Index :
        LET h == IF i = 0 THEN activeHandleIdx ELSE i
        IN  setValue(values[h] + delta, h) /\ asked' = i

\* startDrag on the track: the handle that was active last jumps there
StartOnTrack ==
    /\ listening /\ ~disabled
    /\ active' = TRUE
    /\ \E value \in Wanted : SetHandle(activeHandleIdx, value, dragging)
    /\ asked' = activeHandleIdx
    /\ UNCHANGED <<options, activeHandleIdx, dragging, disabled, listening>>

\* startDrag on a handle, or on something else that is in the track
StartOnHandle ==
    /\ listening /\ ~disabled
    /\ active' = TRUE
    /\ activeHandleIdx' \in Index
    /\ UNCHANGED <<options, values, dragging, disabled, event, listening, reported, asked>>

\* update and draw; a drag that is on goes on when the slider is disabled
Move ==
    /\ listening /\ active
    /\ dragging' = TRUE
    /\ \E value \in Wanted : SetHandle(activeHandleIdx, value, TRUE)
    /\ asked' = activeHandleIdx
    /\ UNCHANGED <<options, activeHandleIdx, active, disabled, listening>>

\* endDrag; a press without a move changes nothing else
endDrag ==
    /\ listening
    /\ active' = FALSE /\ dragging' = FALSE
    /\ IF active /\ dragging
       THEN reported' = values /\ event' = FALSE
       ELSE UNCHANGED <<reported, event>>
    /\ UNCHANGED <<options, values, activeHandleIdx, disabled, listening, asked>>

\* setDisabled and setEnabled
setDisabled ==
    /\ disabled' = ~disabled
    /\ UNCHANGED <<options, values, activeHandleIdx, active, dragging, event, listening,
                   reported, asked>>

dispose ==
    /\ listening /\ listening' = FALSE
    /\ UNCHANGED <<options, values, activeHandleIdx, active, dragging, disabled, event,
                   reported, asked>>

Next ==
    \/ PageSets \/ setValueBy \/ StartOnTrack \/ StartOnHandle \/ Move \/ endDrag
    \/ setDisabled \/ dispose

Spec == Init /\ [][Next]_vars
-----------------------------------------------------------------------------
(* Properties.                                                             *)

\* Whoever moves them, and in whichever order, restricted handles never pass
\* each other.
HandlesInOrder == restricted => Ordered(values)

\* onChange has told the page of every change once no drag is on: what is set
\* during a press or a drag is told at its end at the latest.
ReportedUnlessDragging == ~dragging => reported = values

\* A call for one handle never moves another.  It does for handle 0, which the
\* code takes for no handle at all.
OnlyAsked == \A h \in Index : values'[h] # values[h] => asked' \in {h, 0}
SetsAskedHandle == [][OnlyAsked]_vars
=============================================================================
