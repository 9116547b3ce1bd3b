---------------------------- MODULE InPlaceEditor ----------------------------
(***************************************************************************)
(* Ajax.InPlaceEditor and Ajax.InPlaceCollectionEditor of controls.js: an  *)
(* element that turns into a form, loads what the form needs, saves what   *)
(* the user entered and turns back.  Answers come late, in any order, or   *)
(* as failures; the user cancels, submits and reopens meanwhile.           *)
(***************************************************************************)
EXTENDS Naturals, Sequences, SequencesExt

CONSTANTS
    Texts,    \* what the user enters and the server sends, "" among them or not
    MaxEdits  \* bound: times the form is opened

VARIABLES
    stages,     \* what is loaded before the form is of use (options of the page)
    isList,     \* an InPlaceCollectionEditor
    ownFailure, \* options.onFailure is the page's; the default always throws
    htmlResponse, \* the answer to a save is the text; else the page sees to it
    listening,  \* not destroyed
    editing, saving, form,
    field, disabled, \* the editor of the form
    html, oldInnerHTML, \* the text of the element, and what it was before saving
    loads,      \* requests to load, by the stage they are for
    saves,      \* requests to save, by the text they carry
    edits,      \* history: times the form was opened
    typed,      \* history: the user entered what is in the form
    escaped,    \* history: Escape ended the editing while a save was under way
    reopened,   \* history: the form was opened while loads were under way
    spoilt      \* history: nothing is left that will replace the saving text

vars == <<stages, isList, ownFailure, htmlResponse, listening, editing, saving, form, field,
          disabled, html, oldInnerHTML, loads, saves, edits, typed, escaped,
          reopened, spoilt>>
options == <<stages, isList, ownFailure, htmlResponse>>
history == <<edits, typed, escaped, reopened, spoilt>>
fieldVars == <<field, disabled>>

savingText == "Saving..."
loadingText == "Loading..."

TypeOK ==
    /\ stages \in Seq({"collection", "text"})
    /\ {isList, ownFailure, htmlResponse} \subseteq BOOLEAN
    /\ {listening, editing, saving, form, disabled} \subseteq BOOLEAN
    /\ field \in Texts \union {savingText, loadingText, "nothing"}
    /\ html \in Texts \union {savingText}
    /\ oldInnerHTML \in Texts \union {savingText, "null"}
    /\ loads \in Seq(1 .. Len(stages))
    /\ saves \in Seq(Texts \union {savingText, loadingText, "nothing"})

Init ==
    /\ isList \in BOOLEAN /\ ownFailure \in BOOLEAN /\ htmlResponse \in BOOLEAN
    /\ stages \in {<<>>, <<"text">>}
              \union (IF isList THEN {<<"collection">>, <<"collection", "text">>} ELSE {})
    /\ listening = TRUE
    /\ editing = FALSE /\ saving = FALSE /\ form = FALSE
    /\ field = "nothing" /\ disabled = FALSE
    /\ html \in Texts /\ oldInnerHTML = "null"
    /\ loads = <<>> /\ saves = <<>>
    /\ edits = 0 /\ typed = FALSE
    /\ escaped = FALSE /\ reopened = FALSE /\ spoilt = FALSE
-----------------------------------------------------------------------------
\* Faulty: a click counts while the form is open or being saved
MayEnterAlways == listening

\* enterEditMode returns while editing or saving
MayEnter == listening /\ ~saving /\ ~editing

\* loadExternalText and loadCollection: ask for stage s, with the field disabled
LoadStage(s) ==
    /\ loads' = Append(loads, s)
    /\ field' = loadingText /\ disabled' = TRUE

\* enterEditMode, createForm, createEditField
enterEditMode ==
    /\ MayEnter
    /\ edits < MaxEdits /\ edits' = edits + 1
    /\ editing' = TRUE /\ form' = TRUE
    /\ IF stages = <<>>
       THEN field' = html /\ disabled' = FALSE /\ UNCHANGED loads
       ELSE LoadStage(1)
    /\ typed' = FALSE
    /\ reopened' = (reopened \/ loads # <<>>)
    /\ UNCHANGED <<options, listening, saving, html, oldInnerHTML, saves, escaped, spoilt>>

Type ==
    /\ form /\ ~disabled
    /\ field' \in Texts /\ typed' = TRUE
    /\ UNCHANGED <<options, listening, editing, saving, form, disabled, html,
                   oldInnerHTML, loads, saves, edits, escaped, reopened, spoilt>>

\* Form.serialize leaves out what is disabled
Serialized == IF disabled THEN "nothing" ELSE field

\* prepareSubmission and the request; nothing disables the button while loading
handleFormSubmission ==
    /\ form /\ form' = FALSE
    /\ saves' = Append(saves, Serialized)
    /\ saving' = TRUE
    /\ oldInnerHTML' = html /\ html' = savingText
    /\ field' = "nothing" /\ disabled' = FALSE
    /\ UNCHANGED <<options, listening, editing, loads, history>>

\* leaveEditMode
Leave ==
    /\ editing' = FALSE /\ form' = FALSE /\ saving' = FALSE
    /\ oldInnerHTML' = "null"
    /\ field' = "nothing" /\ disabled' = FALSE

\* handleFormCancellation by the link of the form, or by the Escape key, which
\* is taken while saving as well
Cancel ==
    /\ form \/ (listening /\ editing)
    /\ Leave
    /\ escaped' = (escaped \/ saving)
    /\ spoilt' = (spoilt \/ saving)
    /\ UNCHANGED <<options, listening, html, loads, saves, edits, typed, reopened>>

\* if (this._oldInnerHTML): an empty text does not count
HasOldText == oldInnerHTML \notin {"null", ""}

destroy ==
    /\ listening /\ listening' = FALSE
    /\ html' = IF HasOldText THEN oldInnerHTML ELSE html
    /\ Leave
    /\ spoilt' = (spoilt \/ oldInnerHTML = "")
    /\ UNCHANGED <<options, loads, saves, edits, typed, escaped, reopened>>
-----------------------------------------------------------------------------
(* Answers.                                                                *)

\* Ajax.Updater shows the answer, or a script in it may when htmlResponse is
\* false; then onComplete wraps up
SaveSucceeds ==
    \E i \in DOMAIN saves :
        /\ saves' = RemoveAt(saves, i)
        /\ \/ html' \in Texts /\ spoilt' = FALSE
           \/ ~htmlResponse /\ html' = html /\ spoilt' = TRUE
        /\ Leave
        /\ UNCHANGED <<options, listening, loads, edits, typed, escaped, reopened>>

\* handleAJAXFailure.  The default onFailure reads responseText of its first
\* argument, the editor, and throws; what follows is skipped.
AfterFailure == IF ownFailure /\ HasOldText THEN oldInnerHTML ELSE html

\* onFailure, then onComplete wraps up
SaveFails ==
    \E i \in DOMAIN saves :
        /\ saves' = RemoveAt(saves, i)
        /\ html' = AfterFailure
        /\ Leave
        /\ spoilt' = (spoilt \/ ~ownFailure \/ oldInnerHTML = "")
        /\ UNCHANGED <<options, listening, loads, edits, typed, escaped, reopened>>

\* Without a form the callback throws.  The last stage fills and enables the
\* field; the one before asks for the next.
LoadSucceeds ==
    \E i \in DOMAIN loads :
        LET left == RemoveAt(loads, i)
            s == loads[i]
        IN  /\ IF ~form THEN loads' = left /\ UNCHANGED fieldVars
               ELSE IF s = Len(stages)
               THEN loads' = left /\ field' \in Texts /\ disabled' = FALSE
               ELSE /\ loads' = Append(left, s + 1)
                    /\ field' = loadingText /\ disabled' = TRUE
            /\ UNCHANGED <<options, listening, editing, saving, form, html,
                           oldInnerHTML, saves, history>>

\* The collection editor passes a method that does not exist
LoadFails ==
    \E i \in DOMAIN loads :
        /\ loads' = RemoveAt(loads, i)
        /\ IF isList \/ ~ownFailure \/ ~HasOldText
           THEN UNCHANGED <<html, oldInnerHTML>>
           ELSE html' = oldInnerHTML /\ oldInnerHTML' = "null"
        /\ UNCHANGED <<options, listening, editing, saving, form, fieldVars, saves,
                       history>>

Next ==
    \/ enterEditMode \/ Type \/ handleFormSubmission \/ Cancel \/ destroy
    \/ SaveSucceeds \/ SaveFails \/ LoadSucceeds \/ LoadFails

Spec == Init /\ [][Next]_vars

\* Every request is answered in the end, if only by the browser
FairSpec == Spec /\ WF_vars(SaveSucceeds \/ SaveFails)
-----------------------------------------------------------------------------
(* Properties.                                                             *)

\* No save is under way while the form is open, so no answer takes the form
\* from the user, unless Escape was pressed while saving.
SavedBeforeReopened == form /\ ~escaped => saves = <<>>

\* The saving text is shown only while saving.  It stays when Escape ends the
\* editing; when the save fails and the default onFailure throws, or the text
\* before was empty; when the editor of an empty text is destroyed; and when
\* htmlResponse is false and the page writes no text.
SavingTextGoes == html = savingText /\ ~spoilt => saving

\* A placeholder is never saved as the text, unless the saving text stayed and
\* was edited.
PlaceholdersNotSaved ==
    \A i \in DOMAIN saves : saves[i] \in Texts \union {"nothing"} \/ escaped \/ spoilt

\* What the user entered is not replaced by something loaded, unless the form
\* was opened again before the loads of the last time were answered.
EntryKept == typed /\ form /\ form' /\ ~reopened => field' = field \/ Type
TypedTextKept == [][EntryKept]_vars

\* A save ends, whatever its outcome.
Saving == saving
Saved == ~saving
SavingEnds == Saving ~> Saved
=============================================================================
