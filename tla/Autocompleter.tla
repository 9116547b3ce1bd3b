---------------------------- MODULE Autocompleter ----------------------------
(***************************************************************************)
(* Autocompleter.Base and Ajax.Autocompleter of controls.js: keys, the     *)
(* mouse, the timers for typing and for leaving the field, answers of the  *)
(* server in any order, and the effects that show and hide the list.       *)
(*                                                                         *)
(* The text is the token at the cursor; "short" is one that is shorter than *)
(* minChars and "chosen" an entry that was put in.                         *)
(***************************************************************************)
EXTENDS Naturals, Sequences, FiniteSets, SequencesExt

CONSTANTS
    Tokens,      \* what the user may type
    MaxEntries,  \* bound: entries of an answer
    MaxKeys,     \* bound: keys pressed
    MaxBlurs,    \* bound: timers of onBlur that are set
    MaxFades,    \* bound: fades under way; one more is not counted
    AutoSelect   \* options.autoSelect

VARIABLES
    text, changed, hasFocus, active, index, entryCount,
    observer,   \* the timer of onKeyPress is set
    blurTimers, \* timers of onBlur that are set; nothing clears them
    requests,   \* tokens that were asked for and not answered
    display,    \* the list is displayed
    appear,     \* Effect.Appear before its first frame
    fades,      \* how many Effect.Fade are under way
    keys,       \* history: keys pressed
    chosen,     \* history: an entry was chosen and no key pressed since
    reopened,   \* history: then something was under way that may open the list
    raced       \* history: the list was shown while it was being hidden

vars == <<text, changed, hasFocus, active, index, entryCount, observer, blurTimers,
          requests, display, appear, fades, keys, chosen, reopened, raced>>
listVars == <<display, appear, fades, raced>>
entryVars == <<index, entryCount>>

TypeOK ==
    /\ text \in Tokens \union {"short", "chosen"}
    /\ index \in 0 .. MaxEntries /\ entryCount \in 0 .. MaxEntries
    /\ blurTimers \in Nat /\ fades \in Nat /\ requests \in Seq(Tokens \union {"short", "chosen"})

Init ==
    /\ text = "short" /\ changed = FALSE /\ hasFocus = FALSE /\ active = FALSE
    /\ index = 0 /\ entryCount = 0 /\ observer = FALSE /\ blurTimers = 0
    /\ requests = <<>> /\ display = FALSE /\ appear = FALSE /\ fades = 0
    /\ keys = 0 /\ chosen = FALSE /\ reopened = FALSE /\ raced = FALSE
-----------------------------------------------------------------------------
(* The list.                                                               *)

\* show() does nothing while the list is displayed, be it on its way out
Show ==
    /\ appear' = (appear \/ ~display)
    /\ raced' = (raced \/ fades > 0)
    /\ UNCHANGED <<display, fades>>

\* Another Effect.Fade begins, whether or not one is under way
FadesAfter == IF fades < MaxFades THEN fades + 1 ELSE fades

\* hide() does nothing before the list is displayed
Hide ==
    /\ fades' = IF display THEN FadesAfter ELSE fades
    /\ raced' = (raced \/ appear)
    /\ UNCHANGED <<display, appear>>

AppearFrame ==
    /\ appear /\ appear' = FALSE /\ display' = TRUE
    /\ UNCHANGED <<text, changed, hasFocus, active, entryVars, observer, blurTimers,
                   requests, fades, keys, chosen, reopened, raced>>

FadeEnds ==
    /\ fades > 0 /\ fades' = fades - 1 /\ display' = FALSE
    /\ UNCHANGED <<text, changed, hasFocus, active, entryVars, observer, blurTimers,
                   requests, appear, keys, chosen, reopened, raced>>

\* Faulty: the list is shown to a field that was left
RenderAlways(n) ==
    IF n > 0 THEN Show /\ active' = TRUE ELSE active' = FALSE /\ Hide

\* render, with n entries
Render(n) ==
    IF n = 0 THEN active' = FALSE /\ Hide
    ELSE IF hasFocus THEN Show /\ active' = TRUE
    ELSE UNCHANGED <<active, listVars>>

\* selectEntry and updateElement
SelectEntry ==
    /\ text' = "chosen" /\ chosen' = TRUE
    /\ reopened' = (observer \/ requests # <<>>)
    /\ active' = FALSE
-----------------------------------------------------------------------------
(* Keys.                                                                   *)

Press == keys < MaxKeys /\ keys' = keys + 1

\* A key that is typed; the value changes after the handler
KeyTyped ==
    /\ Press
    /\ text' \in Tokens \union {"short"}
    /\ changed' = TRUE /\ hasFocus' = TRUE /\ observer' = TRUE
    /\ chosen' = FALSE
    /\ UNCHANGED <<active, entryVars, blurTimers, requests, listVars, reopened>>

\* The cursor keys and escape count as typing while there is no list
KeyInactive ==
    /\ Press /\ ~active
    /\ changed' = TRUE /\ hasFocus' = TRUE /\ observer' = TRUE
    /\ chosen' = FALSE
    /\ UNCHANGED <<text, active, entryVars, blurTimers, requests, listVars, reopened>>

KeySelect ==
    /\ Press /\ active
    /\ SelectEntry /\ Hide
    /\ UNCHANGED <<changed, hasFocus, entryVars, observer, blurTimers, requests>>

KeyEscape ==
    /\ Press /\ active
    /\ active' = FALSE /\ Hide
    /\ UNCHANGED <<text, changed, hasFocus, entryVars, observer, blurTimers, requests,
                   chosen, reopened>>

markPrevious == IF index > 0 THEN index - 1 ELSE entryCount - 1

markNext == IF index < entryCount - 1 THEN index + 1 ELSE 0

KeyUpDown ==
    /\ Press /\ active
    /\ index' \in {markPrevious, markNext}
    /\ Render(entryCount)
    /\ UNCHANGED <<text, changed, hasFocus, entryCount, observer, blurTimers, requests,
                   chosen, reopened>>
-----------------------------------------------------------------------------
(* The mouse and the focus.                                                *)

\* The pointer may find the list while it fades
onHover ==
    /\ display
    /\ \E i \in 0 .. entryCount - 1 : i # index /\ index' = i
    /\ Render(entryCount)
    /\ reopened' = (reopened \/ chosen)
    /\ UNCHANGED <<text, changed, hasFocus, entryCount, observer, blurTimers, requests,
                   keys, chosen>>

onClick ==
    /\ display
    /\ \E i \in 0 .. entryCount - 1 : index' = i
    /\ SelectEntry /\ Hide
    /\ UNCHANGED <<changed, hasFocus, entryCount, observer, blurTimers, requests, keys>>

onBlur ==
    /\ hasFocus' = FALSE /\ active' = FALSE
    /\ blurTimers < MaxBlurs /\ blurTimers' = blurTimers + 1
    /\ UNCHANGED <<text, changed, entryVars, observer, requests, listVars, keys,
                   chosen, reopened>>

\* The timer of a blur hides the list, whoever has opened it since
BlurTimer ==
    /\ blurTimers > 0 /\ blurTimers' = blurTimers - 1
    /\ fades' = IF display THEN FadesAfter ELSE fades
    /\ raced' = (raced \/ appear \/ active)
    /\ UNCHANGED <<text, changed, hasFocus, active, entryVars, observer, requests,
                   display, appear, keys, chosen, reopened>>
-----------------------------------------------------------------------------
(* Asking for choices.                                                     *)

\* onObserverEvent: this.changed = false
ChangedAfter == FALSE

onObserverEvent ==
    /\ observer /\ observer' = FALSE
    /\ changed' = ChangedAfter
    /\ IF text # "short"
       THEN requests' = Append(requests, text) /\ UNCHANGED <<active, listVars>>
       ELSE active' = FALSE /\ Hide /\ UNCHANGED requests
    /\ UNCHANGED <<text, hasFocus, entryVars, blurTimers, keys, chosen, reopened>>

\* The page asks for choices without a key
activate ==
    /\ Press
    /\ changed' = FALSE /\ hasFocus' = TRUE /\ chosen' = FALSE
    /\ requests' = Append(requests, text)
    /\ UNCHANGED <<text, active, entryVars, observer, blurTimers, listVars, reopened>>

\* updateChoices: an answer comes while the user types, or has left, is dropped
onComplete ==
    /\ \E i \in DOMAIN requests, n \in 0 .. MaxEntries :
        /\ requests' = RemoveAt(requests, i)
        /\ IF changed \/ ~hasFocus
           THEN UNCHANGED <<text, active, entryVars, listVars, chosen, reopened>>
           ELSE /\ entryCount' = n /\ index' = 0
                /\ IF n = 1 /\ AutoSelect
                   THEN SelectEntry /\ Hide
                   ELSE Render(n) /\ UNCHANGED <<text, chosen, reopened>>
    /\ UNCHANGED <<changed, hasFocus, observer, blurTimers, keys>>

Next ==
    \/ AppearFrame \/ FadeEnds
    \/ KeyTyped \/ KeyInactive \/ KeySelect \/ KeyEscape \/ KeyUpDown
    \/ onHover \/ onClick \/ onBlur \/ BlurTimer
    \/ activate \/ onObserverEvent \/ onComplete

Spec == Init /\ [][Next]_vars

\* Timers fire; there are finitely many keys to set them again
FairSpec == Spec /\ WF_vars(onObserverEvent)
-----------------------------------------------------------------------------
(* Properties.                                                             *)

\* A completer whose field was left is not active: no late answer and no
\* pointer over the list takes keys from the next field.
ActiveHasFocus == active => hasFocus

\* The marked entry is in the list, so selecting finds one.
IndexInList == active => index < entryCount

\* An active completer shows its list; it may lose it only to a hide that was
\* still under way when the list was opened.
ActiveIsShown == active /\ ~raced => display \/ appear

\* After an entry was chosen the list stays closed until a key is pressed,
\* unless a timer or an answer was still to come, or the pointer went over the
\* fading list.
ChoiceIsFinal == chosen /\ ~reopened => ~active

\* What was typed is noticed: answers are not dropped for ever.
Unnoticed == changed
Noticed == ~changed
TypingIsNoticed == Unnoticed ~> Noticed
=============================================================================
