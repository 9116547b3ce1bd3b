----------------------------- MODULE EffectQueue -----------------------------
(***************************************************************************)
(* Effect.ScopedQueue and Effect.Base of effects.js: the effects of one    *)
(* scope, the interval that drives them, and the life of an effect from    *)
(* its constructor to its last callback.                                   *)
(*                                                                         *)
(* The interval calls loop(), which visits the array by index and reads    *)
(* this.effects again for each index, while the visits remove effects and  *)
(* their callbacks cancel and create others.  So one call of loop() is a   *)
(* step per visit here; no other handler of the page runs in between.      *)
(***************************************************************************)
EXTENDS Integers, Sequences, FiniteSets, SequencesExt, FiniteSetsExt, Lists

CONSTANTS
    Effects,     \* the effects the page may create, each once
    Queues,      \* options.queue: "parallel", "front", "with-last", "end", and
                 \* "toggle", the {position: 'end', limit: 1} of Effect.toggle
    Durations,   \* options.duration, in clock units; Effect.Event has 0
    CreateBy     \* bound: the page creates no effect after this time

VARIABLES
    queue,   \* [effects, interval]: the ScopedQueue
    effect,  \* [Effects -> [state, startOn, finishOn, queue, shown]]; shown is
             \* the time into the effect that was rendered last (currentFrame)
    now,     \* the clock
    loop,    \* the call of loop(): [at, len, timePos]; at = 0 between calls
    before,  \* history: the effects in the queue when this one was added
    ended    \* history: how often afterFinish was called

vars == <<queue, effect, now, loop, before, ended>>

NoLoop == [at |-> 0, len |-> 0, timePos |-> 0]

TypeOK ==
    /\ queue.effects \in Seq(Effects) /\ queue.interval \in BOOLEAN
    /\ \A e \in Effects :
        /\ effect[e].state \in {"none", "idle", "running", "finished"}
        /\ effect[e].startOn \in Nat /\ effect[e].finishOn >= effect[e].startOn
        /\ effect[e].shown \in 0 .. Max(Durations)
    /\ now \in Nat \ {0}
    /\ loop.at \in 0 .. Cardinality(Effects) + 1

Init ==
    /\ queue = [effects |-> <<>>, interval |-> FALSE]
    /\ effect = [e \in Effects |-> [state |-> "none", startOn |-> 0,
                                    finishOn |-> 0, queue |-> "parallel",
                                    shown |-> 0]]
    /\ now = 1 /\ loop = NoLoop
    /\ before = [e \in Effects |-> {}]
    /\ ended = [e \in Effects |-> 0]
-----------------------------------------------------------------------------
(* The queue.  A handler may call several of these, so they work on a      *)
(* record s = [queue, effect].                                             *)

Queued(s) == ToSet(s.queue.effects)

Latest(s, field) == Max({s.effect[f][field] : f \in Queued(s)})

\* Faulty: an effect at the end starts with the last one
TimestampOfLastStart(s, q) ==
    IF q \in {"with-last", "end", "toggle"} /\ Queued(s) # {}
    THEN Latest(s, "startOn") ELSE now

\* What the times of a new effect are counted from
Timestamp(s, q) ==
    CASE q = "with-last" /\ Queued(s) # {} -> Latest(s, "startOn")
      [] q \in {"end", "toggle"} /\ Queued(s) # {} -> Latest(s, "finishOn")
      [] OTHER -> now

Delayed(x, d) == [x EXCEPT !.startOn = @ + d, !.finishOn = @ + d]

Add(s, e, q, d) ==
    LET t == Timestamp(s, q)
        moved == [f \in Effects |->
            IF q = "front" /\ f \in Queued(s) /\ s.effect[f].state = "idle"
            THEN Delayed(s.effect[f], d) ELSE s.effect[f]]
        fits == q = "toggle" => s.queue.effects = <<>>      \* limit: 1
    IN [queue |-> [effects |-> IF fits THEN Append(s.queue.effects, e)
                                       ELSE s.queue.effects,
                   interval |-> TRUE],
        effect |-> [moved EXCEPT ![e] = [state |-> "idle", startOn |-> t,
                        finishOn |-> t + d, queue |-> q, shown |-> 0]]]

\* Faulty: the interval is cleared while one effect is left
RemoveEarly(s, e) ==
    LET rest == Without(s.queue.effects, {e})
    IN [s EXCEPT !.queue = [effects |-> rest,
                            interval |-> @.interval /\ Len(rest) > 1]]

RemoveEffect(s, e) ==
    LET rest == Without(s.queue.effects, {e})
    IN [s EXCEPT !.queue = [effects |-> rest,
                            interval |-> @.interval /\ rest # <<>>]]

Cancel(s, e) ==
    LET r == RemoveEffect(s, e)
    IN [r EXCEPT !.effect[e].state = "finished"]

\* render: the first call sets the effect up.  A finished effect is not shown.
Render(s, e, pos) ==
    IF s.effect[e].state = "finished" THEN s
    ELSE [s EXCEPT !.effect[e].state = "running", !.effect[e].shown = pos]
-----------------------------------------------------------------------------
(* Handlers.                                                               *)

This == [queue |-> queue, effect |-> effect]
Become(s) == queue' = s.queue /\ effect' = s.effect

\* Is x new, with every earlier one created?
Fresh(x) == effect[x].state = "none"
NextFresh == {x \in Effects : Fresh(x) /\ \A y \in Effects : Fresh(y) => x <= y}

\* new Effect(...) in a handler of the page
Create ==
    /\ loop.at = 0 /\ now <= CreateBy
    /\ \E e \in NextFresh, q \in Queues, d \in Durations :
        /\ Become(Add(This, e, q, d))
        /\ before' = [before EXCEPT ![e] = Queued(This)]
    /\ UNCHANGED <<now, loop, ended>>

\* effect.cancel() in a handler of the page
CancelByPage ==
    /\ loop.at = 0
    /\ \E e \in Queued(This) : Become(Cancel(This, e))
    /\ UNCHANGED <<now, loop, before, ended>>

\* A handler takes no time
TimePasses ==
    /\ loop.at = 0
    /\ \E e \in Queued(This) : now < effect[e].finishOn
    /\ now' = now + 1
    /\ UNCHANGED <<queue, effect, loop, before, ended>>

Tick ==
    /\ queue.interval /\ loop.at = 0
    /\ loop' = [at |-> 1, len |-> Len(queue.effects), timePos |-> now]
    /\ UNCHANGED <<queue, effect, now, before, ended>>

Leave == loop' = IF loop.at < loop.len THEN [loop EXCEPT !.at = @ + 1] ELSE NoLoop

\* this.effects[i] is undefined, the effect is not due, or its frame is shown
VisitNothing ==
    /\ loop.at > 0
    /\ loop.at <= Len(queue.effects) =>
        LET e == effect[queue.effects[loop.at]]
        IN \/ loop.timePos < e.startOn
           \/ loop.timePos < e.finishOn /\ loop.timePos - e.startOn <= e.shown
    /\ Leave
    /\ UNCHANGED <<queue, effect, now, before, ended>>

\* What afterUpdate may do: cancel an effect, perhaps this one
AfterUpdate(s) == {s} \union {Cancel(s, f) : f \in Queued(s)}

VisitFrame ==
    /\ loop.at \in 1 .. Len(queue.effects)
    /\ LET e == queue.effects[loop.at]
           pos == loop.timePos - effect[e].startOn
       IN /\ loop.timePos < effect[e].finishOn /\ pos > effect[e].shown
          /\ \E s \in AfterUpdate(Render(This, e, pos)) : Become(s)
    /\ Leave
    /\ UNCHANGED <<now, before, ended>>

\* The last frame, cancel, finish and afterFinish, which may create the next
\* effect of a chain; SwitchOff, Shake, Grow and Fold do
VisitLast ==
    /\ loop.at \in 1 .. Len(queue.effects)
    /\ LET e == queue.effects[loop.at]
           last == effect[e].finishOn - effect[e].startOn
       IN /\ loop.timePos >= effect[e].finishOn
          /\ ended' = [ended EXCEPT ![e] = @ + 1]
          /\ \E s \in AfterUpdate(Render(This, e, last)) :
                LET done == Cancel(s, e)
                IN \/ Become(done) /\ UNCHANGED before
                   \/ \E f \in NextFresh, d \in Durations :
                        /\ Become(Add(done, f, "parallel", d))
                        /\ before' = [before EXCEPT ![f] = Queued(done)]
    /\ Leave
    /\ UNCHANGED now

Next ==
    \/ Create \/ CancelByPage \/ TimePasses \/ Tick
    \/ VisitNothing \/ VisitFrame \/ VisitLast

Spec == Init /\ [][Next]_vars

\* Time goes on however often the interval is called in between, the browser
\* calls the interval, and a call of loop() comes to its end
FairSpec ==
    /\ Spec
    /\ SF_vars(TimePasses) /\ WF_vars(Tick)
    /\ WF_vars(VisitNothing \/ VisitFrame \/ VisitLast)
-----------------------------------------------------------------------------
(* Properties.                                                             *)

\* The interval runs as long as there is an effect to drive, and no longer.
IntervalWhileQueued == queue.interval = (queue.effects # <<>>)

\* An effect that has been set up and not finished is in the queue, once, and
\* a finished one is not: nobody else would ever finish it.
RunningIsQueued ==
    /\ IsInjective(queue.effects)
    /\ \A e \in Effects :
        /\ effect[e].state = "running" => e \in Queued(This)
        /\ effect[e].state = "finished" => e \notin Queued(This)

\* However effects are put in front and cancelled later, one that waits at the
\* end is due no earlier than those it was put behind are over.
EndIsDueLast ==
    \A e \in Queued(This) :
        effect[e].queue = "end" /\ effect[e].state = "idle" =>
            \A f \in before[e] \cap Queued(This) :
                effect[e].startOn >= effect[f].finishOn

\* afterFinish is called at most once, also when a callback cancels.
FinishedOnce == \A e \in Effects : ended[e] <= 1

\* Each effect that was put in the queue finishes, though loop() skips some: of
\* finitely many effects there comes a time when none is left.
Drained == queue.effects = <<>>
EffectsFinish == []<>Drained

\* effects.js says of queue: 'end' that it will "start effect after last queued
\* effect has finished".  It need not: an effect that leaves the array during
\* loop() moves the others down, and the visit after it skips one of them.  No
\* configuration lists this one, see README.md.
EndStartsAfterOthers ==
    \A e \in Effects :
        effect[e].queue = "end" /\ effect[e].state = "running" =>
            \A f \in before[e] : effect[f].state = "finished"
=============================================================================
