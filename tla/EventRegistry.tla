---------------------------- MODULE EventRegistry ----------------------------
(***************************************************************************)
(* Event.observe, stopObserving and fire of prototype.js, for one element: *)
(* the registry of wrappers kept beside the listeners of the browser.      *)
(* Custom events, with a colon in their names, share one event of the      *)
(* browser.  Handlers observe, stop observing and fire while an event is   *)
(* dispatched.  "dom:loaded" is fired by whoever finds the page loaded.    *)
(***************************************************************************)
EXTENDS Naturals, Sequences, FiniteSets, SequencesExt, Lists

CONSTANTS
    Handlers,    \* functions the page registers
    Custom,      \* custom events; "dom:loaded" is one
    Native,      \* events of the browser
    MaxWrappers, \* bound: wrappers ever made
    MaxFired,    \* bound: events fired
    MaxNested    \* bound: dispatches within dispatches

Events == Custom \union Native

VARIABLES
    cache,     \* [Events -> Seq(wrapper)], a wrapper is [id, event, handler]
    listeners, \* what the browser calls: a sequence of wrappers
    dispatch,  \* the events under way, the innermost last: [event,
               \* load, due]; load for fireContentLoadedEvent
    loaded,    \* document.loaded
    poll,      \* the timer that looks at document.readyState
    made, fired, \* history: wrappers made, events fired
    called,    \* history: the last call, [wrapper, event]
    loadEvent, \* the load event of the window is still to come
    loadings,  \* history: how often "dom:loaded" was fired by prototype
    reentered  \* history: a load event came while "dom:loaded" was dispatched

vars == <<cache, listeners, dispatch, loaded, poll, made, fired, called, loadEvent, loadings,
          reentered>>
loadVars == <<loaded, poll, loadEvent, loadings, reentered>>

TypeOK ==
    /\ \A e \in Events : \A i \in DOMAIN cache[e] :
        cache[e][i].event = e /\ cache[e][i].handler \in Handlers
    /\ Len(listeners) <= MaxWrappers /\ Len(dispatch) <= MaxNested
    /\ loaded \in BOOLEAN /\ poll \in BOOLEAN

Init ==
    /\ cache = [e \in Events |-> <<>>] /\ listeners = <<>> /\ dispatch = <<>>
    /\ loaded = FALSE /\ poll = TRUE
    /\ made = 0 /\ fired = 0 /\ called = <<>> /\ loadEvent = TRUE /\ loadings = 0 /\ reentered = FALSE
-----------------------------------------------------------------------------
\* getDOMEventName
getDOMEventName(e) == IF e \in Custom THEN "dataavailable" ELSE e

\* c.pluck("handler").include(handler)
Known(e, h) == \E i \in DOMAIN cache[e] : cache[e][i].handler = h

\* observe and createWrapper
observe ==
    \E e \in Events, h \in Handlers :
        LET w == [id |-> made, event |-> e, handler |-> h]
        IN  /\ ~Known(e, h)
            /\ made < MaxWrappers /\ made' = made + 1
            /\ cache' = [cache EXCEPT ![e] = Append(@, w)]
            /\ listeners' = Append(listeners, w)
            /\ UNCHANGED <<dispatch, fired, called, loadVars>>

\* findWrapper; a name the registry does not know finds nothing
findWrapper(e, h) == {w \in ToSet(cache[e]) : w.handler = h}

\* destroyWrapper
Destroyed(e, found) == Without(cache[e], found)

\* The end of stopObserving, for each of the wrappers found
Forget(found) ==
    /\ found # {}
    /\ listeners' = Without(listeners, found)
    /\ cache' = [e \in Events |-> Destroyed(e, found)]
    /\ UNCHANGED <<dispatch, made, fired, called, loadVars>>

stopObserving ==
    \/ \E e \in Events, h \in Handlers : Forget(findWrapper(e, h))
    \/ \E e \in Events : Forget(UNION {findWrapper(e, h) : h \in Handlers})
    \/ Forget(UNION {findWrapper(e, h) : e \in Events, h \in Handlers})

\* The browser calls those that listened when the event was fired
Dispatch(e, load) ==
    /\ Len(dispatch) < MaxNested
    /\ dispatch' = Append(dispatch, [event |-> e, load |-> load,
            due |-> Without(listeners, {w \in ToSet(listeners) :
                                getDOMEventName(w.event) # getDOMEventName(e)})])

\* Event.fire, from the page or from a handler; native events come from the user
fire ==
    /\ fired < MaxFired /\ fired' = fired + 1
    /\ \E e \in Events \ {"dom:loaded"} : Dispatch(e, FALSE)
    /\ UNCHANGED <<cache, listeners, made, called, loadVars>>

\* Faulty: custom events are not told apart
MeantAny(w, e) == TRUE

\* The test in the wrapper of createWrapper
Meant(w, e) == w.event = e

\* The browser goes on to the next wrapper, unless it has been removed since
Call ==
    /\ dispatch # <<>> /\ Last(dispatch).due # <<>>
    /\ LET d == Last(dispatch)
           w == Head(d.due)
       IN  /\ dispatch' = Append(Front(dispatch), [d EXCEPT !.due = Tail(@)])
           /\ called' = IF w \in ToSet(listeners) /\ Meant(w, d.event)
                        THEN [wrapper |-> w, event |-> d.event] ELSE called
    /\ UNCHANGED <<cache, listeners, made, fired, loadVars>>
-----------------------------------------------------------------------------
(* fireContentLoadedEvent, where the page polls document.readyState.       *)

\* if (document.loaded) return
MayFire == ~loaded

\* Handlers run within the call, before document.loaded is set
fireContentLoadedEvent ==
    /\ MayFire
    /\ Dispatch("dom:loaded", TRUE)
    /\ poll' = FALSE
    /\ loadings' = loadings + 1
    /\ UNCHANGED <<cache, listeners, made, fired, called, loaded>>

\* No timer fires during a dispatch
PollTimer ==
    /\ poll /\ dispatch = <<>>
    /\ fireContentLoadedEvent
    /\ UNCHANGED <<loadEvent, reentered>>

\* The load event of the window; a handler that opens a dialogue lets it in
LoadEvent ==
    /\ loadEvent /\ loadEvent' = FALSE
    /\ IF MayFire THEN fireContentLoadedEvent
       ELSE UNCHANGED <<cache, listeners, dispatch, made, fired, called, loaded, poll, loadings>>
    /\ reentered' = (dispatch # <<>>)

LoadedAfter == loaded \/ Last(dispatch).load

\* A dispatch is over
Over ==
    /\ dispatch # <<>> /\ Last(dispatch).due = <<>>
    /\ dispatch' = Front(dispatch)
    /\ loaded' = LoadedAfter
    /\ UNCHANGED <<cache, listeners, made, fired, called, poll, loadEvent, loadings, reentered>>

Next ==
    \/ observe \/ stopObserving \/ fire \/ Call
    \/ PollTimer \/ LoadEvent \/ Over

Spec == Init /\ [][Next]_vars

\* The browser goes on with the events that were fired, and timers fire
FairSpec == Spec /\ WF_vars(PollTimer) /\ WF_vars(Call \/ Over)
-----------------------------------------------------------------------------
(* Properties.                                                             *)

\* The registry holds exactly the wrappers the browser would call, in the same
\* order: what it has lost nobody can take away from the browser again.
RegistryMatches ==
    \A e \in Events : cache[e] = Without(listeners, {w \in ToSet(listeners) : w.event # e})

\* A handler is called for the event it was registered for, and no more once it
\* was stopped, be it while that event is dispatched.
CallIsMeant ==
    called' # called =>
        /\ called'.wrapper.event = called'.event
        /\ called'.wrapper \in ToSet(listeners)
CallsAsMeant == [][CallIsMeant]_vars

\* A function is called once for an event, though it was registered twice.
CalledOnce ==
    \A e \in Events, h \in Handlers : Cardinality(findWrapper(e, h)) <= 1

\* "dom:loaded" is fired once, though a timer and an event wait for it, unless
\* the event comes while the first one is dispatched.
LoadedOnce == ~reentered => loadings <= 1

\* A page that is polled is declared loaded.
Loaded == loaded
PageLoads == <>Loaded
=============================================================================
