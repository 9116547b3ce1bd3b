------------------------------ MODULE MCEvents ------------------------------
(***************************************************************************)
(* What timers, answers and other events drive on the page and in the      *)
(* network menu, one component at a time: they share no state here, so a   *)
(* behaviour is one of one component, chosen at the start, whose variables *)
(* take the slots v1, v2, ...                                              *)
(***************************************************************************)
EXTENDS Integers, Sequences, FiniteSets

CONSTANTS
    Effects, Queues, Durations, CreateBy,                     \* EffectQueue
    Tokens, MaxEntries, MaxKeys, MaxBlurs, MaxFades, AutoSelect, \* Autocompleter
    Texts, MaxEdits,                                          \* InPlaceEditor
    Values, MaxChanges,                                       \* FieldObservers
    Handlers, Custom, Native, MaxWrappers, MaxFired, MaxNested, \* EventRegistry
    NumTests, MaxWaits, MaxLate,                              \* TestRunner
    Networks, MaxRetests,                                     \* MasterServerGui
    MaxRequests, Decay, MaxDecay                              \* Ajax

VARIABLES
    component,  \* the component that is driven in this behaviour
    queue, effect, now, loop, before, ended,
    text, changed, hasFocus, active, index, entryCount, observer, blurTimers, requests,
    display, appear, fades, keys, chosen, reopened, raced,
    stages, isList, ownFailure, htmlResponse, listening, editing, saving, form, formField,
    disabled, html, oldInnerHTML, loads, saves, edits, typed, escaped, formReopened, spoilt,
    observerKind, observing, field, lastValue, callbacks, pending, delay, told, changes,
    mishaps,
    cache, listeners, dispatch, loaded, poll, made, fired, called, loadEvent, loadings,
    reentered,
    tests, currentTest, testing, timers, result, log, setups, teardowns, late,
    waitedAside, waits, lates,
    network, probe, answered, filterNATHosts, probingPublicIP, doneTesting, timedOut,
    useNat, peerType, sessionNat, retests, incapable, connected,
    kind, ready, sent, complete, loading, answers, threw, silenced, activeRequests, calls,
    callID, polling, updater, timer, decay, lastText, content

queueVars == <<queue, effect, now, loop, before, ended>>
completerVars == <<text, changed, hasFocus, active, index, entryCount, observer, blurTimers,
              requests, display, appear, fades, keys, chosen, reopened, raced>>
editorVars == <<stages, isList, ownFailure, htmlResponse, listening, editing, saving, form,
                formField, disabled, html, oldInnerHTML, loads, saves, edits, typed, escaped,
                formReopened, spoilt>>
fieldVars == <<observerKind, observing, field, lastValue, callbacks, pending, delay, told,
               changes, mishaps>>
registryVars == <<cache, listeners, dispatch, loaded, poll, made, fired, called,
                  loadEvent, loadings, reentered>>
runnerVars == <<tests, currentTest, testing, timers, result, log, setups, teardowns, late,
                waitedAside, waits, lates>>
guiVars == <<network, probe, answered, filterNATHosts, probingPublicIP, doneTesting,
             timedOut, useNat, peerType, sessionNat, retests, incapable, connected>>
requestVars == <<kind, ready, sent, complete, loading, answers, threw, silenced,
                 activeRequests, calls, callID, polling, updater, timer, decay, lastText,
                 content>>

Queue == INSTANCE EffectQueue
Completer == INSTANCE Autocompleter
Editor == INSTANCE InPlaceEditor WITH field <- formField, reopened <- formReopened
Field == INSTANCE FieldObservers WITH
    kind <- observerKind, running <- observing, calls <- callbacks, timer <- delay
Registry == INSTANCE EventRegistry
Runner == INSTANCE TestRunner WITH running <- testing
Gui == INSTANCE MasterServerGui
Requests == INSTANCE Ajax WITH active <- activeRequests, running <- polling

vars == <<component, queueVars, completerVars, editorVars, fieldVars, registryVars,
          runnerVars, guiVars, requestVars>>

\* What is assumed of the constants
QueueBounds ==
    /\ IsFiniteSet(Effects) /\ IsFiniteSet(Durations)
    /\ Durations \subseteq Nat /\ Durations # {}
EntriesBounded == MaxEntries \in Nat /\ MaxFades \in Nat
\* What the server and the user send is none of the placeholders
TextsAreEntered == Texts \cap {Editor!savingText, Editor!loadingText, "null"} = {}
FieldValues == Values # {} /\ IsFiniteSet(Values)
RegistryBounds == MaxWrappers \in Nat /\ MaxNested \in Nat /\ "dom:loaded" \in Custom
TestsCounted == NumTests \in Nat
KnownNetworks ==
    Networks \subseteq {"private", "private, closed", "public", "firewall",
                        "firewall, closed", "broken"}
RequestBounds ==
    MaxRequests \in Nat /\ Decay \in Nat \ {0} /\ MaxDecay \in Nat \ {0}

ASSUME BoundsAssumption ==
    /\ QueueBounds /\ EntriesBounded /\ TextsAreEntered /\ FieldValues
    /\ RegistryBounds /\ TestsCounted /\ KnownNetworks /\ RequestBounds
-----------------------------------------------------------------------------
\* A component that is not driven is in its initial state, the first of several
Init ==
    /\ Queue!Init /\ Completer!Init /\ Editor!Init /\ Field!Init
    /\ Registry!Init /\ Runner!Init /\ Gui!Init /\ Requests!Init
    /\ component \in {"EffectQueue", "Autocompleter", "InPlaceEditor", "FieldObservers",
                      "EventRegistry", "TestRunner", "MasterServerGui", "Ajax"}
    /\ component # "InPlaceEditor" =>
        /\ stages = <<>> /\ ~isList /\ ~ownFailure /\ ~htmlResponse
        /\ html = CHOOSE t \in Texts : TRUE
    /\ component # "FieldObservers" =>
        observerKind = "timed" /\ field = CHOOSE v \in Values : TRUE
    /\ component # "MasterServerGui" => network = CHOOSE n \in Networks : TRUE

\* The component that is driven
IsQueue == component = "EffectQueue"
IsCompleter == component = "Autocompleter"
IsEditor == component = "InPlaceEditor"
IsField == component = "FieldObservers"
IsRegistry == component = "EventRegistry"
IsRunner == component = "TestRunner"
IsGui == component = "MasterServerGui"
IsRequests == component = "Ajax"

\* Nothing else changes
OnlyQueue ==
    UNCHANGED <<component, completerVars, editorVars, fieldVars, registryVars, runnerVars,
                guiVars, requestVars>>
OnlyCompleter ==
    UNCHANGED <<component, queueVars, editorVars, fieldVars, registryVars, runnerVars,
                guiVars, requestVars>>
OnlyEditor ==
    UNCHANGED <<component, queueVars, completerVars, fieldVars, registryVars, runnerVars,
                guiVars, requestVars>>
OnlyField ==
    UNCHANGED <<component, queueVars, completerVars, editorVars, registryVars, runnerVars,
                guiVars, requestVars>>
OnlyRegistry ==
    UNCHANGED <<component, queueVars, completerVars, editorVars, fieldVars, runnerVars,
                guiVars, requestVars>>
OnlyRunner ==
    UNCHANGED <<component, queueVars, completerVars, editorVars, fieldVars, registryVars,
                guiVars, requestVars>>
OnlyGui ==
    UNCHANGED <<component, queueVars, completerVars, editorVars, fieldVars, registryVars,
                runnerVars, requestVars>>
OnlyRequests ==
    UNCHANGED <<component, queueVars, completerVars, editorVars, fieldVars, registryVars,
                runnerVars, guiVars>>

Next ==
    \/ IsQueue /\ Queue!Next /\ OnlyQueue
    \/ IsCompleter /\ Completer!Next /\ OnlyCompleter
    \/ IsEditor /\ Editor!Next /\ OnlyEditor
    \/ IsField /\ Field!Next /\ OnlyField
    \/ IsRegistry /\ Registry!Next /\ OnlyRegistry
    \/ IsRunner /\ Runner!Next /\ OnlyRunner
    \/ IsGui /\ Gui!Next /\ OnlyGui
    \/ IsRequests /\ Requests!Next /\ OnlyRequests

\* The fairness each component states in its FairSpec
Spec ==
    /\ Init /\ [][Next]_vars
    /\ SF_queueVars(IsQueue /\ Queue!TimePasses)
    /\ WF_queueVars(IsQueue /\ Queue!Tick)
    /\ WF_queueVars(IsQueue /\ (Queue!VisitNothing \/ Queue!VisitFrame \/ Queue!VisitLast))
    /\ WF_completerVars(IsCompleter /\ Completer!onObserverEvent)
    /\ WF_editorVars(IsEditor /\ (Editor!SaveSucceeds \/ Editor!SaveFails))
    /\ WF_fieldVars(IsField /\ Field!Prompt)
    /\ WF_registryVars(IsRegistry /\ Registry!PollTimer)
    /\ WF_registryVars(IsRegistry /\ (Registry!Call \/ Registry!Over))
    /\ WF_runnerVars(IsRunner /\ Runner!Timer)
    /\ WF_runnerVars(IsRunner /\ (Runner!RunTest \/ Runner!Finish))
    /\ WF_guiVars(IsGui /\ Gui!Answer)
    /\ WF_guiVars(IsGui /\ Gui!Update)
    /\ WF_guiVars(IsGui /\ Gui!TimePasses)
    /\ WF_requestVars(IsRequests /\ Requests!Progress)
    /\ WF_requestVars(IsRequests /\ Requests!CompleteCall)
    /\ WF_requestVars(IsRequests /\ (Requests!CompleteUpdate \/ Requests!UpdateThrows))
    /\ WF_requestVars(IsRequests /\ Requests!PollTimer)
-----------------------------------------------------------------------------
(* Properties: what each component promises, in parts that are explained    *)
(* in its module, and what it must come to in the end.                     *)

\* effects.js: the effects of a queue run one interval long, in their order and
\* once each.
EffectQueuePromise ==
    IsQueue =>
        /\ Queue!TypeOK
        \* The interval of a queue runs as long as there is an
        \* effect to drive, and no longer.
        /\ Queue!IntervalWhileQueued
        \* An effect that runs is in the queue, once, and a
        \* finished one is not.
        /\ Queue!RunningIsQueued
        \* What waits at the end of a queue is due no earlier
        \* than what it was put behind is over.
        /\ Queue!EndIsDueLast
        \* afterFinish is called at most once for an effect.
        /\ Queue!FinishedOnce

\* controls.js: the list of suggestions follows the field whatever the order of
\* keys, timers and answers.
AutocompleterPromise ==
    IsCompleter =>
        /\ Completer!TypeOK
        \* An autocompleter whose field was left is not active.
        /\ Completer!ActiveHasFocus
        \* The marked entry is in the list.
        /\ Completer!IndexInList
        \* An active autocompleter shows its list.
        /\ Completer!ActiveIsShown
        \* The list stays closed after a choice, until a key is
        \* pressed.
        /\ Completer!ChoiceIsFinal

\* controls.js: an in-place editor loses nothing that was typed.
InPlaceEditorPromise ==
    /\ [](IsEditor =>
            /\ Editor!TypeOK
            \* No save is under way while the form of an in-place
            \* editor is open.
            /\ Editor!SavedBeforeReopened
            \* The saving text is shown only while saving, but for the
            \* cases the property names.
            /\ Editor!SavingTextGoes
            \* A placeholder is never saved as the text.
            /\ Editor!PlaceholdersNotSaved)
    \* What the user entered is not replaced by something loaded.
    /\ [][IsEditor => Editor!EntryKept]_editorVars

\* prototype.js, controls.js: an observer compares with what the page was told
\* last.
FieldObserversPromise == IsField => Field!TypeOK /\ Field!LastIsTold

\* prototype.js: a handler is called for what it was registered for, and the
\* page is declared loaded once.
EventRegistryPromise ==
    /\ [](IsRegistry =>
            /\ Registry!TypeOK
            \* The registry of handlers is what the browser would
            \* call.
            /\ Registry!RegistryMatches
            \* A function is registered once for an event.
            /\ Registry!CalledOnce
            \* "dom:loaded" is fired once.
            /\ Registry!LoadedOnce)
    \* A handler is called for its own event, and not after it was stopped.
    /\ [][IsRegistry => Registry!CallIsMeant]_registryVars

\* unittest.js: every test runs with its setup and teardown, and the result is
\* right.
TestRunnerPromise ==
    IsRunner =>
        /\ Runner!TypeOK
        \* Each test is set up once and torn down once.
        /\ Runner!SetupsAndTeardownsPair
        \* There is one loop of runTests until the result is
        \* there.
        /\ Runner!OneLoop
        \* The result agrees with the log.
        /\ Runner!ResultMatchesLog

\* ConnectGuiMasterServer.js: a server that is started follows what the connection
\* test found.
MasterServerGuiPromise ==
    /\ [](IsGui =>
            /\ Gui!TypeOK
            \* An answer is taken for one to the test that was
            \* asked for.
            /\ Gui!ProbesMatch)
    \* A server uses NAT as the test found it must, unless a game
    \* was joined since.
    /\ [][IsGui => Gui!StartUsesTest]_guiVars

\* prototype.js, rpc.js: requests are counted and answered once, and a stopped
\* updater is quiet.
AjaxPromise ==
    /\ [](IsRequests =>
            /\ Requests!TypeOK
            \* activeRequestCount counts the requests under way and
            \* those that threw.
            /\ Requests!CountsOpenRequests
            \* A call calls back once, or with a result and an
            \* error when the callback threw.
            /\ Requests!AnsweredOnce
            \* A periodical updater has one loop of requests and
            \* timers.
            /\ Requests!OneLoop)
    \* A stopped updater changes nothing.
    /\ [][IsRequests => Requests!StoppedStays]_requestVars
    \* The container never goes back to an earlier answer.
    /\ [][IsRequests => Requests!ContentIsNewer]_requestVars

\* effects.js, controls.js, prototype.js, unittest.js: timers bring what waits for
\* them to its end.
TimersEnd ==
    \* Each effect that was put in the queue finishes.
    /\ []<>(IsQueue => Queue!Drained)
    \* What was typed is noticed.
    /\ (IsCompleter /\ Completer!Unnoticed) ~> (IsCompleter => Completer!Noticed)
    \* The page is told the last value of a field.
    /\ <>[](IsField => Field!Told)
    \* A page that is polled is declared loaded.
    /\ <>(IsRegistry => Registry!Loaded)
    \* The result of the tests arrives.
    /\ <>(IsRunner => Runner!Arrived)

\* controls.js, ConnectGuiMasterServer.js, prototype.js, rpc.js: what waits for an
\* answer ends, whatever the answer is.
AnswersEnd ==
    \* A save of an in-place editor ends.
    /\ (IsEditor /\ Editor!Saving) ~> (IsEditor => Editor!Saved)
    \* Every connection test ends.
    /\ (IsGui /\ Gui!Testing) ~> (IsGui => Gui!Ended)
    \* Every call that was sent is answered.
    /\ []<>(IsRequests => Requests!NoCallWaits)
=============================================================================
