-------------------------------- MODULE Ajax --------------------------------
(***************************************************************************)
(* The requests of the web page: Ajax.Request with its responders,         *)
(* Ajax.Updater and Ajax.PeriodicalUpdater of prototype.js, and the        *)
(* RPCManager and RPCCall of rpc.js, which is a Request.                   *)
(*                                                                         *)
(* The browser runs one handler at a time.  A handler is a step: creating  *)
(* a request, a change of readyState, a timer.  The server, the network    *)
(* and the callbacks of the page, which may throw, are the environment.    *)
(***************************************************************************)
EXTENDS Naturals, Sequences, FiniteSets

CONSTANTS
    MaxRequests,  \* bound: requests that are created
    Decay,        \* options.decay of the PeriodicalUpdater
    MaxDecay      \* bound: a delay that has grown this far grows no more

Requests == 1 .. MaxRequests

\* What the server answers: a JSON value; something else or nothing; an error
\* status; "lost" is a connection that ends without a status
Replies == {"json", "other", "error", "lost"}

VARIABLES
    kind,      \* [Requests -> {"none", "rpc", "update"}]
    ready,     \* transport.readyState
    sent,      \* transport.send has returned
    complete,  \* _complete
    loading,   \* respondToReadyState(1) is deferred
    answers,   \* what an RPCCall called its callback with, in order
    threw,     \* requests whose handler threw: the callback, or onComplete
    silenced,  \* updaters whose options.onComplete has been removed
    active,    \* Ajax.activeRequestCount
    calls,     \* RPCManager.calls
    callID,    \* RPCManager.callID
    running,   \* the page has started the PeriodicalUpdater and not stopped it
    updater,   \* its current request, or 0
    timer,     \* its timer is set
    decay, lastText,
    content    \* the request whose answer the container shows, or 0

vars == <<kind, ready, sent, complete, loading, answers, threw,
          silenced, active, calls, callID, running, updater, timer, decay,
          lastText, content>>

requestVars == <<kind, ready, sent, loading, active>>
answerVars  == <<complete, answers, threw>>
rpcVars     == <<calls, callID>>
pollVars    == <<running, updater, timer, decay, lastText, content>>

TypeOK ==
    /\ kind \in [Requests -> {"none", "rpc", "update"}]
    /\ ready \in [Requests -> 0 .. 4]
    /\ sent \in [Requests -> BOOLEAN] /\ complete \in [Requests -> BOOLEAN]
    /\ loading \in [Requests -> BOOLEAN]
    /\ answers \in [Requests -> Seq({"result", "error"})]
    /\ threw \subseteq Requests /\ silenced \subseteq Requests
    /\ active \in Nat
    /\ calls \subseteq Requests /\ callID \in Nat
    /\ running \in BOOLEAN /\ updater \in Requests \union {0}
    /\ timer \in BOOLEAN /\ decay \in 1 .. MaxDecay * Decay
    /\ lastText \in Replies \union {"none"}
    /\ content \in Requests \union {0}

Init ==
    /\ kind = [r \in Requests |-> "none"]
    /\ ready = [r \in Requests |-> 0]
    /\ sent = [r \in Requests |-> FALSE]
    /\ complete = [r \in Requests |-> FALSE]
    /\ loading = [r \in Requests |-> FALSE]
    /\ answers = [r \in Requests |-> <<>>]
    /\ threw = {} /\ silenced = {}
    /\ active = 0 /\ calls = {} /\ callID = 0
    /\ running = FALSE /\ updater = 0 /\ timer = FALSE
    /\ decay = Decay /\ lastText = "none" /\ content = 0
-----------------------------------------------------------------------------
(* Creating a request.                                                     *)

Free(r) == kind[r] = "none" /\ \A q \in Requests : q < r => kind[q] # "none"

\* How far request() comes before something throws: the responders have been
\* told, the transport is open and the deferred call is queued, it is sent.
\* The exception goes to onException, which the page does not define.
Outcomes == {"not opened", "not sent", "sent"}

\* Faulty: the responders hear of a request only when it completes
CreateUncounted(r, k, outcome) ==
    /\ Free(r)
    /\ kind' = [kind EXCEPT ![r] = k]
    /\ active' = active
    /\ ready' = [ready EXCEPT ![r] = IF outcome = "not opened" THEN 0 ELSE 1]
    /\ loading' = [loading EXCEPT ![r] = outcome # "not opened"]
    /\ sent' = [sent EXCEPT ![r] = outcome = "sent"]

CreateRequest(r, k, outcome) ==
    /\ Free(r)
    /\ kind' = [kind EXCEPT ![r] = k]
    /\ active' = active + 1
    /\ ready' = [ready EXCEPT ![r] = IF outcome = "not opened" THEN 0 ELSE 1]
    /\ loading' = [loading EXCEPT ![r] = outcome # "not opened"]
    /\ sent' = [sent EXCEPT ![r] = outcome = "sent"]

BeginCall ==
    /\ \E r \in Requests, o \in Outcomes :
        /\ CreateRequest(r, "rpc", o)
        /\ calls' = calls \union {r}
    /\ callID' = callID + 1
    /\ UNCHANGED <<answerVars, silenced, pollVars>>

\* The arguments have no JSON form: the callback is told at once, endCall
\* throws, and beginCall with it, before the call is entered in calls.
BeginBadCall ==
    /\ \E r \in Requests :
        /\ Free(r)
        /\ kind' = [kind EXCEPT ![r] = "rpc"]
        /\ answers' = [answers EXCEPT ![r] = <<"error">>]
    /\ callID' = callID + 1
    /\ UNCHANGED <<ready, sent, loading, active, complete, threw,
                   silenced, calls, pollVars>>
-----------------------------------------------------------------------------
(* Answers.                                                                *)

\* A status of 0 counts as success
success(reply) == reply # "error"

\* Faulty: an error status is not told
ResultsOnly(reply, throws) == IF reply = "json" THEN <<"result">> ELSE <<>>

\* What RPCCall passes to its callback, one value per call.  A callback that
\* throws on a result is called again with an error.
RpcAnswers(reply, throws) ==
    IF success(reply) /\ reply = "json"
    THEN IF throws THEN <<"result", "error">> ELSE <<"result">>
    ELSE <<"error">>

\* The deferred respondToReadyState(1): it does not look at what has happened
\* in the meantime, and may come after the answer.  The page has no onLoading.
DeferredLoading ==
    \E r \in Requests :
        /\ loading[r]
        /\ loading' = [loading EXCEPT ![r] = FALSE]
        /\ UNCHANGED <<kind, ready, sent, active, complete, answers, threw,
                       silenced, rpcVars, pollVars>>

\* onStateChange for the states between open and complete
Progress ==
    \E r \in Requests :
        /\ sent[r] /\ ready[r] \in 1 .. 2
        /\ ready' = [ready EXCEPT ![r] = @ + 1]
        /\ UNCHANGED <<kind, sent, loading, active, complete, answers, threw,
                       silenced, rpcVars, pollVars>>

\* The transport reaches state 4, from any state when the connection is lost
Finish(r, reply) ==
    /\ sent[r] /\ ready[r] \in 1 .. 3
    /\ ready[r] = 3 \/ reply = "lost"
    /\ ready' = [ready EXCEPT ![r] = 4]
    /\ complete' = [complete EXCEPT ![r] = TRUE]

\* onSuccess or onFailure of the RPCCall.  endCall(request.id) throws: there is
\* no request and calls has no remove.  respondToReadyState catches it, and
\* goes on to tell the responders.
CompleteCall ==
    \E r \in Requests, reply \in Replies, throws \in BOOLEAN :
        /\ kind[r] = "rpc"
        /\ Finish(r, reply)
        /\ answers' = [answers EXCEPT ![r] = @ \o RpcAnswers(reply, throws)]
        /\ threw' = IF throws THEN threw \union {r} ELSE threw
        /\ active' = active - 1
        /\ UNCHANGED <<kind, sent, loading, silenced, rpcVars, pollVars>>

\* updateComplete: the delay grows while the answers are the same
NextDecay(reply) ==
    IF reply # lastText THEN 1
    ELSE IF decay > MaxDecay THEN decay ELSE decay * Decay

\* onComplete of an Updater that was created by the PeriodicalUpdater: the
\* container is updated, also with an error page, then the timer is set
CompleteUpdate ==
    \E r \in Requests, reply \in Replies :
        /\ kind[r] = "update" /\ r \notin silenced
        /\ Finish(r, reply)
        /\ content' = r
        /\ decay' = NextDecay(reply)
        /\ lastText' = reply
        /\ timer' = TRUE
        /\ active' = active - 1
        /\ UNCHANGED <<kind, sent, loading, answers, threw, silenced, rpcVars,
                       running, updater>>

\* The container cannot be updated: onComplete throws, and neither
\* updateComplete nor the responders are reached
UpdateThrows ==
    \E r \in Requests, reply \in Replies :
        /\ kind[r] = "update" /\ r \notin silenced
        /\ Finish(r, reply)
        /\ threw' = threw \union {r}
        /\ UNCHANGED <<kind, sent, loading, active, answers, silenced, rpcVars,
                       pollVars>>

CompleteSilenced ==
    \E r \in silenced, reply \in Replies :
        /\ Finish(r, reply)
        /\ active' = active - 1
        /\ UNCHANGED <<kind, sent, loading, answers, threw, silenced, rpcVars,
                       pollVars>>
-----------------------------------------------------------------------------
(* PeriodicalUpdater.                                                      *)

\* onTimerEvent
NewUpdater ==
    \E r \in Requests, o \in Outcomes :
        CreateRequest(r, "update", o) /\ updater' = r

\* The page starts it when it does not run
StartPolling ==
    /\ ~running
    /\ running' = TRUE
    /\ NewUpdater
    /\ UNCHANGED <<answerVars, silenced, rpcVars, timer, decay, lastText, content>>

PollTimer ==
    /\ timer
    /\ timer' = FALSE
    /\ NewUpdater
    /\ UNCHANGED <<answerVars, silenced, rpcVars, running, decay, lastText, content>>

StopPolling ==
    /\ running
    /\ running' = FALSE
    /\ silenced' = silenced \union {updater}
    /\ timer' = FALSE
    /\ UNCHANGED <<requestVars, answerVars, rpcVars, updater, decay, lastText,
                   content>>
-----------------------------------------------------------------------------
Next ==
    \/ BeginCall \/ BeginBadCall
    \/ DeferredLoading \/ Progress
    \/ CompleteCall \/ CompleteUpdate \/ UpdateThrows \/ CompleteSilenced
    \/ StartPolling \/ PollTimer \/ StopPolling

Spec == Init /\ [][Next]_vars

\* A request that was sent ends, be it that the connection is lost, and
\* timers fire
FairSpec ==
    /\ Spec
    /\ WF_vars(Progress) /\ WF_vars(CompleteCall)
    /\ WF_vars(CompleteUpdate \/ UpdateThrows) /\ WF_vars(PollTimer)
-----------------------------------------------------------------------------
(* Properties.                                                             *)

Created == {r \in Requests : kind[r] # "none"}
Failed  == {r \in Created : ~sent[r]}      \* open or send threw, or no JSON
Open    == {r \in Created : sent[r] /\ ~complete[r]}

\* activeRequestCount tells how many requests are under way, and stays too
\* high for ever by those that threw before they were sent and by those whose
\* onComplete threw; nothing makes it too low.
CountsOpenRequests ==
    active = Cardinality(Open)
               + Cardinality({r \in Failed : answers[r] = <<>>})
               + Cardinality({r \in threw : kind[r] = "update"})

\* A call whose request has ended has called back once, with a result or an
\* error, although endCall throws; twice when the callback threw on a result.
AnsweredOnce ==
    \A r \in Requests :
        kind[r] = "rpc" /\ complete[r] =>
            \/ Len(answers[r]) = 1
            \/ r \in threw /\ answers[r] = <<"result", "error">>

\* While it runs and nothing has thrown, the updater has one loop: either its
\* timer is set or the one request that will set it is under way.
Loops == {r \in Open : kind[r] = "update" /\ r \notin silenced}

OneLoop ==
    /\ Cardinality(Loops) + (IF timer THEN 1 ELSE 0) <= 1
    /\ ~running => Loops = {} /\ ~timer
    /\ running => timer \/ Loops = {updater} \/ updater \in threw \union Failed

\* A stopped updater changes nothing, whatever answers come in late.
StoppedStays == ~running => content' = content /\ timer' = timer
StoppedIsQuiet == [][StoppedStays]_vars

\* The container never goes back to the answer of an earlier request.
ContentIsNewer == content' >= content
ContentMovesOn == [][ContentIsNewer]_vars

\* Every call that was sent is answered, if only with an error: there are
\* finitely many, so there comes a time when none waits.
NoCallWaits ==
    \A r \in Requests : kind[r] = "rpc" /\ sent[r] => answers[r] # <<>>
CallsAnswered == []<>NoCallWaits
=============================================================================
