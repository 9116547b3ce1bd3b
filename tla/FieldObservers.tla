---------------------------- MODULE FieldObservers ----------------------------
(***************************************************************************)
(* The observers of form fields in prototype.js and controls.js: by the    *)
(* interval of a PeriodicalExecuter (Form.Observer), by the change and     *)
(* click events (Form.EventObserver), and by key and delay                 *)
(* (Form.Element.DelayedObserver).  Each calls back with a value that      *)
(* differs from the last one.                                              *)
(***************************************************************************)
EXTENDS Naturals, Sequences, FiniteSets, SequencesExt

CONSTANTS
    Values,     \* values of the field
    MaxChanges  \* bound: changes of the field and callbacks that throw

VARIABLES
    kind,      \* "timed", "event" or "delayed"
    running,   \* the interval has not been stopped
    field,     \* the value of the field
    lastValue, \* of the observer
    calls,     \* values of the callbacks that run, the innermost last
    pending,   \* the browser still has to fire the event of a change
    timer,     \* the timer of a DelayedObserver is set
    told,      \* history: the value of the last call, at first the initial one
    changes,   \* history: counts what MaxChanges bounds
    mishaps    \* history: "silent", a change no event tells of; "nested", an
               \* event in a callback; "threw", a callback that threw;
               \* "early", a delay that ends between key and keyup

vars == <<kind, running, field, lastValue, calls, pending, timer, told, changes, mishaps>>
history == <<told, changes, mishaps>>

TypeOK ==
    /\ kind \in {"timed", "event", "delayed"}
    /\ field \in Values /\ lastValue \in Values /\ told \in Values
    /\ calls \in Seq(Values)
    /\ Len(calls) <= IF kind = "timed" THEN 1 ELSE Cardinality(Values)

Init ==
    /\ kind \in {"timed", "event", "delayed"} /\ running = TRUE
    /\ field \in Values /\ lastValue = field /\ told = field
    /\ calls = <<>> /\ pending = FALSE /\ timer = FALSE
    /\ changes = 0 /\ mishaps = {}

Counted == changes < MaxChanges /\ changes' = changes + 1
-----------------------------------------------------------------------------
\* The user, by a key or by leaving the field
Edit ==
    /\ Counted /\ calls = <<>>
    /\ field' \in Values \ {field} /\ pending' = TRUE
    /\ UNCHANGED <<kind, running, lastValue, calls, timer, told, mishaps>>

\* The page or a callback sets the value, or the user pastes it with the mouse
SilentEdit ==
    /\ Counted
    /\ field' \in Values \ {field}
    /\ mishaps' = mishaps \union {"silent"}
    /\ UNCHANGED <<kind, running, lastValue, calls, pending, timer, told>>

CallBack == calls' = Append(calls, field) /\ told' = field

\* Faulty: a tick is not dropped while the callback runs
MayExecuteAlways == running

\* PeriodicalExecuter.onTimerEvent; a callback that opens a dialogue lets the
\* interval go on
MayExecute == running /\ calls = <<>>

\* Abstract.TimedObserver.execute
Tick ==
    /\ kind = "timed" /\ MayExecute
    /\ field # lastValue /\ CallBack
    /\ UNCHANGED <<kind, running, field, lastValue, pending, timer, changes, mishaps>>

\* Abstract.EventObserver.onElementEvent
onElementEvent ==
    /\ kind = "event" /\ pending /\ pending' = FALSE
    /\ IF field # lastValue THEN CallBack ELSE UNCHANGED <<calls, told>>
    /\ UNCHANGED <<kind, running, field, lastValue, timer, changes, mishaps>>

\* The callback clicks a box of the form it observes
NestedEvent ==
    /\ kind = "event" /\ calls # <<>> /\ Len(calls) < Cardinality(Values)
    /\ field # lastValue /\ CallBack
    /\ mishaps' = mishaps \union {"nested"}
    /\ UNCHANGED <<kind, running, field, lastValue, pending, timer, changes>>

\* The callback returns, and the value it was called with becomes the last
Return ==
    /\ calls # <<>>
    /\ calls' = Front(calls) /\ lastValue' = Last(calls)
    /\ UNCHANGED <<kind, running, field, pending, timer, history>>

Throw ==
    /\ calls # <<>> /\ Counted
    /\ calls' = Front(calls)
    /\ mishaps' = mishaps \union {"threw"}
    /\ UNCHANGED <<kind, running, field, lastValue, pending, timer, told>>

stop ==
    /\ kind = "timed" /\ running /\ running' = FALSE
    /\ UNCHANGED <<kind, field, lastValue, calls, pending, timer, history>>

\* A timer that is set is cleared, and set again
TimerSet == TRUE

delayedListener ==
    /\ kind = "delayed" /\ pending /\ pending' = FALSE
    /\ IF field # lastValue
       THEN timer' = TimerSet /\ lastValue' = field
       ELSE UNCHANGED <<timer, lastValue>>
    /\ UNCHANGED <<kind, running, field, calls, history>>

onTimerEvent ==
    /\ kind = "delayed" /\ timer /\ timer' = FALSE
    /\ told' = field
    /\ mishaps' = IF pending THEN mishaps \union {"early"} ELSE mishaps
    /\ UNCHANGED <<kind, running, field, lastValue, calls, pending, changes>>

Next ==
    \/ Edit \/ SilentEdit \/ Tick \/ onElementEvent \/ NestedEvent \/ Return \/ Throw
    \/ stop \/ delayedListener \/ onTimerEvent

Spec == Init /\ [][Next]_vars

\* Events come, timers fire and callbacks return
Prompt == Tick \/ onElementEvent \/ Return \/ delayedListener \/ onTimerEvent
FairSpec == Spec /\ WF_vars(Prompt)
-----------------------------------------------------------------------------
(* Properties.                                                             *)

\* What the observers do not survive: a callback that throws, and for those
\* that hear of events a change without one, an event within the callback, or a
\* delay that is over before the event of the last change has come.
Excused ==
    LET bad == CASE kind = "timed" -> {"threw"}
                 [] kind = "event" -> {"threw", "nested", "silent"}
                 [] kind = "delayed" -> {"silent", "early"}
    IN  bad \cap mishaps # {}

\* Between callbacks, what the observer compares with is what the page was told
\* last: if not, a change back to the former is never told.
LastIsTold == calls = <<>> /\ ~timer /\ ~Excused => lastValue = told

\* In the end the page has been told the value of the field, unless it stopped
\* the observer.
Told == told = field \/ ~running \/ Excused
ToldInTheEnd == <>[]Told
=============================================================================
