----------------------------- MODULE EventsProofs -----------------------------
(***************************************************************************)
(* Theorems about the components MCEvents drives: of each, what it promises  *)
(* at every time and in every step, for every value of its constants.        *)
(***************************************************************************)
EXTENDS MCEvents, QueueFacts, FiniteSetTheorems

-----------------------------------------------------------------------------
(* EffectQueue.                                                            *)
(* The instance has the library's operators under names of its own.         *)
LEMMA SameQueue ==
    /\ \A S : Queue!Cardinality(S) = Cardinality(S)
    /\ \A s : Queue!IsInjective(s) <=> IsInjective(s)
    /\ \A S : Queue!Max(S) = Max(S)
    /\ \A s : Queue!ToSet(s) = ToSet(s)
    /\ \A s, W : Queue!Without(s, W) = Without(s, W)
  <1>1. \A S : Queue!Cardinality(S) = Cardinality(S)
    BY DEF Queue!Cardinality, Cardinality
  <1>2. \A s : Queue!IsInjective(s) <=> IsInjective(s)
    BY DEF Queue!IsInjective, IsInjective
  <1>3. \A S : Queue!Max(S) = Max(S)
    BY DEF Queue!Max, Max
  <1>4. \A s : Queue!ToSet(s) = ToSet(s)
    BY DEF Queue!ToSet, ToSet
  <1>5. \A s, W : Queue!Without(s, W) = Without(s, W)
    BY DEF Queue!Without, Without, Queue!Lefts, Lefts
  <1> QED BY <1>1, <1>2, <1>3, <1>4, <1>5

Times == [state : {"none", "idle", "running", "finished"}, startOn : Nat, finishOn : Nat,
          queue : Queues \union {"parallel"}, shown : Nat]
Snapshots == [queue : [effects : Seq(Effects), interval : BOOLEAN],
              effect : [Effects -> Times]]

(* What holds of a queue s and of what its effects were put behind, also while *)
(* a handler is at work.                                                      *)
Orderly(s, b) ==
    /\ s \in Snapshots
    /\ s.queue.interval <=> s.queue.effects # << >>
    /\ IsInjective(s.queue.effects)
    /\ \A e \in Effects :
        /\ s.effect[e].state = "running" => e \in Queue!Queued(s)
        /\ e \in Queue!Queued(s) => s.effect[e].state \in {"idle", "running"}
        /\ s.effect[e].finishOn >= s.effect[e].startOn
        /\ s.effect[e].state # "none" => s.effect[e].finishOn - s.effect[e].startOn \in Durations
        /\ s.effect[e].shown <= Max(Durations)
    /\ \A e \in Effects : \A f \in b[e] : s.effect[f].state # "none"
    /\ \A e \in Queue!Queued(s) : s.effect[e].queue = "end" /\ s.effect[e].state = "idle" =>
            \A f \in b[e] \cap Queue!Queued(s) : s.effect[e].startOn >= s.effect[f].finishOn

LoopBounded ==
    /\ loop \in [at : Nat, len : Nat, timePos : Nat]
    /\ loop.at <= loop.len /\ loop.len <= Cardinality(Effects)

EndedOnce ==
    /\ ended \in [Effects -> {0, 1}]
    /\ \A e \in Effects : ended[e] = 1 => effect[e].state = "finished"

EffectsInv ==
    /\ now \in Nat \ {0}
    /\ before \in [Effects -> SUBSET Effects]
    /\ Orderly(Queue!This, before)
    /\ LoopBounded
    /\ EndedOnce
-----------------------------------------------------------------------------
(* No effect runs longer than the longest duration.                        *)
LEMMA DurationsBound ==
    ASSUME QueueBounds
    PROVE  Max(Durations) \in Nat /\ \A d \in Durations : d <= Max(Durations)
  <1>1. Max(Durations) \in Durations /\ \A d \in Durations : d <= Max(Durations)
    BY GreatestFinite DEF QueueBounds
  <1> QED BY <1>1 DEF QueueBounds

(* What becomes of a queue when an effect is cancelled.                      *)
LEMMA CancelIs ==
    ASSUME NEW s \in Snapshots, NEW e \in Effects
    PROVE  /\ Queue!Cancel(s, e) \in Snapshots
           /\ Queue!Cancel(s, e).queue.effects = Without(s.queue.effects, {e})
           /\ Queue!Cancel(s, e).queue.interval
                <=> s.queue.interval /\ Without(s.queue.effects, {e}) # << >>
           /\ Queue!Queued(Queue!Cancel(s, e)) = Queue!Queued(s) \ {e}
           /\ \A x \in Effects :
                /\ Queue!Cancel(s, e).effect[x].state
                     = IF x = e THEN "finished" ELSE s.effect[x].state
                /\ Queue!Cancel(s, e).effect[x].startOn = s.effect[x].startOn
                /\ Queue!Cancel(s, e).effect[x].finishOn = s.effect[x].finishOn
                /\ Queue!Cancel(s, e).effect[x].queue = s.effect[x].queue
                /\ Queue!Cancel(s, e).effect[x].shown = s.effect[x].shown
  <1> DEFINE rest == Without(s.queue.effects, {e})
             q == [effects |-> rest, interval |-> s.queue.interval /\ rest # << >>]
             f == [s.effect EXCEPT ![e].state = "finished"]
  <1>1. s.queue.effects \in Seq(Effects) /\ s.effect \in [Effects -> Times]
        /\ s.queue.interval \in BOOLEAN
    BY DEF Snapshots
  <1>2. rest \in Seq(Effects) /\ ToSet(rest) = ToSet(s.queue.effects) \ {e}
    BY <1>1, WithoutLeaves
  <1>3. Queue!RemoveEffect(s, e) = [queue |-> q, effect |-> s.effect]
    BY SameQueue DEF Queue!RemoveEffect, Snapshots
  <1>4. Queue!Cancel(s, e) = [queue |-> q, effect |-> f]
    <2> HIDE DEF q
    <2>1. Queue!Cancel(s, e) = [[queue |-> q, effect |-> s.effect]
                            EXCEPT !.effect[e].state = "finished"]
      BY <1>3 DEF Queue!Cancel
    <2> QED BY <2>1
  <1>5. q \in [effects : Seq(Effects), interval : BOOLEAN]
        /\ (q.interval <=> s.queue.interval /\ rest # << >>)
    BY <1>1, <1>2
  <1>6. f \in [Effects -> Times]
    BY <1>1 DEF Times
  <1>7. \A x \in Effects :
          /\ f[x].state = IF x = e THEN "finished" ELSE s.effect[x].state
          /\ f[x].startOn = s.effect[x].startOn
          /\ f[x].finishOn = s.effect[x].finishOn
          /\ f[x].queue = s.effect[x].queue
          /\ f[x].shown = s.effect[x].shown
    BY <1>1 DEF Times
  <1>8. q.effects = rest
    OBVIOUS
  <1> HIDE DEF f, q, rest
  <1>9. Queue!Cancel(s, e) \in Snapshots /\ Queue!Cancel(s, e).queue = q /\ Queue!Cancel(s, e).effect = f
    BY <1>4, <1>5, <1>6 DEF Snapshots
  <1>10. Queue!Queued(Queue!Cancel(s, e)) = Queue!Queued(s) \ {e}
    BY <1>2, <1>8, <1>9, SameQueue DEF Queue!Queued
  <1> QED BY <1>5, <1>7, <1>8, <1>9, <1>10 DEF rest

(* What becomes of a queue when a frame is rendered.                         *)
LEMMA RenderIs ==
    ASSUME NEW s \in Snapshots, NEW e \in Effects, NEW pos \in Nat,
           s.effect[e].state # "finished"
    PROVE  /\ Queue!Render(s, e, pos) \in Snapshots
           /\ Queue!Render(s, e, pos).queue = s.queue
           /\ \A x \in Effects :
                /\ Queue!Render(s, e, pos).effect[x].state
                     = IF x = e THEN "running" ELSE s.effect[x].state
                /\ Queue!Render(s, e, pos).effect[x].startOn = s.effect[x].startOn
                /\ Queue!Render(s, e, pos).effect[x].finishOn = s.effect[x].finishOn
                /\ Queue!Render(s, e, pos).effect[x].queue = s.effect[x].queue
                /\ Queue!Render(s, e, pos).effect[x].shown
                     = IF x = e THEN pos ELSE s.effect[x].shown
  <1> DEFINE f == [s.effect EXCEPT ![e] = [@ EXCEPT !.state = "running", !.shown = pos]]
  <1>1. s.queue \in [effects : Seq(Effects), interval : BOOLEAN] /\ s.effect \in [Effects -> Times]
    BY DEF Snapshots
  <1>2. Queue!Render(s, e, pos) = [queue |-> s.queue, effect |-> f]
    BY DEF Queue!Render, Snapshots
  <1>3. f \in [Effects -> Times]
    BY <1>1 DEF Times
  <1>4. \A x \in Effects :
          /\ f[x].state = IF x = e THEN "running" ELSE s.effect[x].state
          /\ f[x].startOn = s.effect[x].startOn
          /\ f[x].finishOn = s.effect[x].finishOn
          /\ f[x].queue = s.effect[x].queue
          /\ f[x].shown = IF x = e THEN pos ELSE s.effect[x].shown
    BY <1>1 DEF Times
  <1> HIDE DEF f
  <1> QED BY <1>1, <1>2, <1>3, <1>4 DEF Snapshots

(* No queued effect starts or finishes later than the latest one.            *)
LEMMA LatestIs ==
    ASSUME NEW s \in Snapshots, Queue!Queued(s) # {}
    PROVE  /\ Queue!Latest(s, "startOn") \in Nat /\ Queue!Latest(s, "finishOn") \in Nat
           /\ \A f \in Queue!Queued(s) : s.effect[f].finishOn <= Queue!Latest(s, "finishOn")
  <1>1. s.queue.effects \in Seq(Effects) /\ s.effect \in [Effects -> Times]
    BY DEF Snapshots
  <1> DEFINE n == Len(s.queue.effects)
             starts == [i \in 1 .. n |-> s.effect[s.queue.effects[i]].startOn]
             ends == [i \in 1 .. n |-> s.effect[s.queue.effects[i]].finishOn]
             S == {s.effect[f].startOn : f \in Queue!Queued(s)}
             E == {s.effect[f].finishOn : f \in Queue!Queued(s)}
  <1>2. n \in Nat /\ DOMAIN s.queue.effects = 1 .. n
        /\ \A i \in 1 .. n : s.queue.effects[i] \in Effects
    BY <1>1
  <1>3. starts \in Seq(Nat) /\ ends \in Seq(Nat)
    <2>1. starts \in [1 .. n -> Nat] /\ ends \in [1 .. n -> Nat]
      BY <1>1, <1>2 DEF Times
    <2> QED BY <1>2, <2>1
  <1>4. \A f \in Queue!Queued(s) : \E i \in 1 .. n : s.queue.effects[i] = f
    BY <1>2, SameQueue DEF Queue!Queued, ToSet
  <1>5. DOMAIN starts = 1 .. n /\ DOMAIN ends = 1 .. n
        /\ \A i \in 1 .. n : starts[i] = s.effect[s.queue.effects[i]].startOn
                             /\ ends[i] = s.effect[s.queue.effects[i]].finishOn
    OBVIOUS
  <1> HIDE DEF starts, ends, n
  <1>6. S \subseteq ToSet(starts) /\ E \subseteq ToSet(ends)
    BY <1>4, <1>5 DEF ToSet
  <1>7. S # {} /\ E # {}
    OBVIOUS
  <1>8. Queue!Latest(s, "startOn") = Max(S) /\ Queue!Latest(s, "finishOn") = Max(E)
    BY SameQueue DEF Queue!Latest
  <1>9. \A f \in Queue!Queued(s) : s.effect[f].finishOn \in E
    OBVIOUS
  <1> HIDE DEF S, E
  <1>10. Max(S) \in S
    BY <1>3, <1>6, <1>7, GreatestOf
  <1>11. Max(E) \in E /\ \A x \in E : x <= Max(E)
    BY <1>3, <1>6, <1>7, GreatestOf
  <1>12. ToSet(starts) \subseteq Nat /\ ToSet(ends) \subseteq Nat
    BY <1>3, ElementsOf
  <1> QED BY <1>6, <1>8, <1>9, <1>10, <1>11, <1>12

(* An effect that is put at the end starts when the others are over.         *)
LEMMA TimestampIs ==
    ASSUME NEW s \in Snapshots, now \in Nat, NEW q
    PROVE  /\ Queue!Timestamp(s, q) \in Nat
           /\ q = "end" => \A f \in Queue!Queued(s) : Queue!Timestamp(s, q) >= s.effect[f].finishOn
  <1>1. s.effect \in [Effects -> Times] /\ Queue!Queued(s) \subseteq Effects
    <2>1. s.queue.effects \in Seq(Effects) /\ s.effect \in [Effects -> Times]
      BY DEF Snapshots
    <2> QED BY <2>1, ElementsOf, SameQueue DEF Queue!Queued
  <1>2. CASE Queue!Queued(s) = {}
    BY <1>2 DEF Queue!Timestamp
  <1>3. CASE Queue!Queued(s) # {}
    <2>1. /\ Queue!Latest(s, "startOn") \in Nat /\ Queue!Latest(s, "finishOn") \in Nat
          /\ \A f \in Queue!Queued(s) : s.effect[f].finishOn <= Queue!Latest(s, "finishOn")
      BY <1>3, LatestIs
    <2>2. \A f \in Queue!Queued(s) : s.effect[f].finishOn \in Nat
      BY <1>1 DEF Times
    <2>3. \/ Queue!Timestamp(s, q) = Queue!Latest(s, "finishOn")
          \/ q # "end" /\ Queue!Timestamp(s, q) \in {Queue!Latest(s, "startOn"), now}
      BY <1>3 DEF Queue!Timestamp
    <2> QED BY <2>1, <2>2, <2>3
  <1> QED BY <1>2, <1>3

(* What r, the queue to which effect e was added, is to the queue s before.    *)
Added(s, r, e, q, d) ==
    /\ r \in Snapshots
    /\ r.queue.interval
    /\ \/ r.queue.effects = Append(s.queue.effects, e)
       \/ s.queue.effects # << >> /\ r.queue.effects = s.queue.effects
    /\ r.effect[e].state = "idle"
    /\ r.effect[e].startOn \in Nat
    /\ r.effect[e].finishOn = r.effect[e].startOn + d
    /\ r.effect[e].queue = q
    /\ r.effect[e].shown = 0
    /\ q = "end" => \A f \in Queue!Queued(s) : r.effect[e].startOn >= s.effect[f].finishOn
    /\ \A x \in Effects \ {e} :
        /\ r.effect[x].state = s.effect[x].state
        /\ r.effect[x].queue = s.effect[x].queue
        /\ r.effect[x].shown = s.effect[x].shown
        /\ IF q = "front" /\ x \in Queue!Queued(s) /\ s.effect[x].state = "idle"
           THEN r.effect[x].startOn = s.effect[x].startOn + d
                /\ r.effect[x].finishOn = s.effect[x].finishOn + d
           ELSE r.effect[x].startOn = s.effect[x].startOn
                /\ r.effect[x].finishOn = s.effect[x].finishOn

(* What becomes of a queue when an effect is added.                          *)
LEMMA AddIs ==
    ASSUME NEW s \in Snapshots, now \in Nat, NEW e \in Effects,
           NEW q \in Queues \union {"parallel"}, NEW d \in Nat
    PROVE  Added(s, Queue!Add(s, e, q, d), e, q, d)
  <1> DEFINE t == Queue!Timestamp(s, q)
             delays(f) == q = "front" /\ f \in Queue!Queued(s) /\ s.effect[f].state = "idle"
             moved == [f \in Effects |->
                        IF delays(f) THEN Queue!Delayed(s.effect[f], d) ELSE s.effect[f]]
             new == [state |-> "idle", startOn |-> t, finishOn |-> t + d, queue |-> q,
                     shown |-> 0]
             g == [moved EXCEPT ![e] = new]
             r == [effects |-> IF q = "toggle" => s.queue.effects = << >>
                               THEN Append(s.queue.effects, e) ELSE s.queue.effects,
                   interval |-> TRUE]
  <1>1. s.queue.effects \in Seq(Effects) /\ s.effect \in [Effects -> Times]
    BY DEF Snapshots
  <1>2. t \in Nat /\ (q = "end" => \A f \in Queue!Queued(s) : t >= s.effect[f].finishOn)
    BY TimestampIs
  <1>3. Queue!Add(s, e, q, d) = [queue |-> r, effect |-> g]
    BY DEF Queue!Add
  <1>4. r \in [effects : Seq(Effects), interval : BOOLEAN] /\ r.interval
        /\ \/ r.effects = Append(s.queue.effects, e)
           \/ s.queue.effects # << >> /\ r.effects = s.queue.effects
    <2>1. Append(s.queue.effects, e) \in Seq(Effects)
      BY <1>1
    <2> QED BY <1>1, <2>1
  <1> HIDE DEF t
  <1>5. new \in Times
    BY <1>2 DEF Times
  <1>6. \A x \in Effects :
          /\ Queue!Delayed(s.effect[x], d) \in Times
          /\ Queue!Delayed(s.effect[x], d).state = s.effect[x].state
          /\ Queue!Delayed(s.effect[x], d).queue = s.effect[x].queue
          /\ Queue!Delayed(s.effect[x], d).shown = s.effect[x].shown
          /\ Queue!Delayed(s.effect[x], d).startOn = s.effect[x].startOn + d
          /\ Queue!Delayed(s.effect[x], d).finishOn = s.effect[x].finishOn + d
    <2> TAKE x \in Effects
    <2> DEFINE y == s.effect[x]
               z == [y EXCEPT !.startOn = @ + d, !.finishOn = @ + d]
    <2>1. y \in Times
      BY <1>1
    <2>2. y.startOn + d \in Nat /\ y.finishOn + d \in Nat
      BY <2>1 DEF Times
    <2>3. Queue!Delayed(y, d) = z
      BY DEF Queue!Delayed
    <2> HIDE DEF y
    <2>4. /\ z.state = y.state /\ z.queue = y.queue /\ z.shown = y.shown
          /\ z.startOn = y.startOn + d /\ z.finishOn = y.finishOn + d
      BY <2>1 DEF Times
    <2>5. z \in Times
      BY <2>1, <2>2 DEF Times
    <2> QED BY <2>3, <2>4, <2>5 DEF y
  <1>7. \A x \in Effects : moved[x] = IF delays(x) THEN Queue!Delayed(s.effect[x], d) ELSE s.effect[x]
    OBVIOUS
  <1>8. moved \in [Effects -> Times]
    BY <1>1, <1>6
  <1>9. /\ new.state = "idle" /\ new.startOn = t /\ new.finishOn = t + d /\ new.queue = q
        /\ new.shown = 0
    OBVIOUS
  <1> HIDE DEF moved, new, r
  <1>10. g \in [Effects -> Times] /\ g[e] = new /\ \A x \in Effects \ {e} : g[x] = moved[x]
    BY <1>5, <1>8
  <1> HIDE DEF g
  <1>11. /\ Queue!Add(s, e, q, d) \in Snapshots
         /\ Queue!Add(s, e, q, d).queue = r /\ Queue!Add(s, e, q, d).effect = g
    BY <1>3, <1>4, <1>10 DEF Snapshots
  <1>12. ASSUME NEW x \in Effects \ {e}
         PROVE  /\ g[x].state = s.effect[x].state
                /\ g[x].queue = s.effect[x].queue
                /\ g[x].shown = s.effect[x].shown
                /\ IF q = "front" /\ x \in Queue!Queued(s) /\ s.effect[x].state = "idle"
                   THEN g[x].startOn = s.effect[x].startOn + d
                        /\ g[x].finishOn = s.effect[x].finishOn + d
                   ELSE g[x].startOn = s.effect[x].startOn
                        /\ g[x].finishOn = s.effect[x].finishOn
    <2>1. CASE delays(x)
      BY <1>6, <1>7, <1>10, <2>1
    <2>2. CASE ~delays(x)
      BY <1>7, <1>10, <2>2
    <2> QED BY <2>1, <2>2
  <1> DEFINE a == Queue!Add(s, e, q, d)
  <1>13. a \in Snapshots /\ a.queue = r /\ a.effect = g
    BY <1>11
  <1> HIDE DEF a
  <1>14. Added(s, a, e, q, d)
    BY <1>2, <1>4, <1>9, <1>10, <1>12, <1>13 DEF Added
  <1> QED BY <1>14 DEF a

(* No handler brings a finished effect back, or uses one that was not made.   *)
Goes(s, r) ==
    \A x \in Effects :
        /\ s.effect[x].state = "finished" => r.effect[x].state = "finished"
        /\ s.effect[x].state = "none" => r.effect[x].state = "none"

(* Cancelling an effect takes it off its queue and leaves the queue        *)
(* orderly.                                                                *)
LEMMA CancelKeeps ==
    ASSUME NEW s, NEW b \in [Effects -> SUBSET Effects], Orderly(s, b), NEW e \in Effects,
           s.effect[e].state # "none"
    PROVE  Orderly(Queue!Cancel(s, e), b) /\ Goes(s, Queue!Cancel(s, e))
           /\ Queue!Cancel(s, e).effect[e].state = "finished"
  <1> DEFINE r == Queue!Cancel(s, e)
  <1>1. s \in Snapshots /\ IsInjective(s.queue.effects)
        /\ (s.queue.interval <=> s.queue.effects # << >>)
    BY DEF Orderly
  <1>2. /\ r \in Snapshots
        /\ r.queue.effects = Without(s.queue.effects, {e})
        /\ r.queue.interval <=> s.queue.interval /\ Without(s.queue.effects, {e}) # << >>
        /\ Queue!Queued(r) = Queue!Queued(s) \ {e}
        /\ \A x \in Effects :
             /\ r.effect[x].state = IF x = e THEN "finished" ELSE s.effect[x].state
             /\ r.effect[x].startOn = s.effect[x].startOn
             /\ r.effect[x].finishOn = s.effect[x].finishOn
             /\ r.effect[x].queue = s.effect[x].queue
             /\ r.effect[x].shown = s.effect[x].shown
    BY <1>1, CancelIs
  <1> HIDE DEF r
  <1>3. s.queue.effects \in Seq(Effects) /\ Queue!Queued(s) \subseteq Effects
    <2>1. s.queue.effects \in Seq(Effects)
      BY <1>1 DEF Snapshots
    <2> QED BY <2>1, ElementsOf, SameQueue DEF Queue!Queued
  <1>4. IsInjective(r.queue.effects)
    BY <1>1, <1>2, <1>3, WithoutInjective
  <1>5. r.queue.interval <=> r.queue.effects # << >>
    <2>1. s.queue.effects = << >> => Without(s.queue.effects, {e}) = << >>
      BY WithoutNone
    <2> QED BY <1>1, <1>2, <2>1
  <1>6. \A x \in Effects :
          /\ r.effect[x].state = "running" => x \in Queue!Queued(r)
          /\ x \in Queue!Queued(r) => r.effect[x].state \in {"idle", "running"}
          /\ r.effect[x].finishOn >= r.effect[x].startOn
          /\ r.effect[x].state # "none" => r.effect[x].finishOn - r.effect[x].startOn \in Durations
          /\ r.effect[x].shown <= Max(Durations)
    BY <1>2 DEF Orderly
  <1>7. \A x \in Effects : \A f \in b[x] : r.effect[f].state # "none"
    BY <1>2 DEF Orderly
  <1>8. \A x \in Queue!Queued(r) : r.effect[x].queue = "end" /\ r.effect[x].state = "idle" =>
            \A f \in b[x] \cap Queue!Queued(r) : r.effect[x].startOn >= r.effect[f].finishOn
    BY <1>2, <1>3 DEF Orderly
  <1>9. Orderly(r, b)
    BY <1>2, <1>4, <1>5, <1>6, <1>7, <1>8 DEF Orderly
  <1> QED BY <1>2, <1>9 DEF r, Goes

(* So does showing a position of one,                                      *)
LEMMA RenderKeeps ==
    ASSUME NEW s, NEW b \in [Effects -> SUBSET Effects], Orderly(s, b), NEW e \in Queue!Queued(s),
           NEW pos \in Nat, pos <= Max(Durations)
    PROVE  Orderly(Queue!Render(s, e, pos), b) /\ Goes(s, Queue!Render(s, e, pos))
           /\ Queue!Queued(Queue!Render(s, e, pos)) = Queue!Queued(s)
  <1> DEFINE r == Queue!Render(s, e, pos)
  <1>1. s \in Snapshots
    BY DEF Orderly
  <1>2. e \in Effects /\ Queue!Queued(s) \subseteq Effects
    <2>1. s.queue.effects \in Seq(Effects)
      BY <1>1 DEF Snapshots
    <2> QED BY <2>1, ElementsOf, SameQueue DEF Queue!Queued
  <1>3. s.effect[e].state \in {"idle", "running"}
    BY <1>2 DEF Orderly
  <1>4. /\ r \in Snapshots
        /\ r.queue = s.queue
        /\ \A x \in Effects :
             /\ r.effect[x].state = IF x = e THEN "running" ELSE s.effect[x].state
             /\ r.effect[x].startOn = s.effect[x].startOn
             /\ r.effect[x].finishOn = s.effect[x].finishOn
             /\ r.effect[x].queue = s.effect[x].queue
             /\ r.effect[x].shown = IF x = e THEN pos ELSE s.effect[x].shown
    BY <1>1, <1>2, <1>3, RenderIs
  <1> HIDE DEF r
  <1>5. Queue!Queued(r) = Queue!Queued(s)
    BY <1>4, SameQueue DEF Queue!Queued
  <1>6. \A x \in Effects :
          /\ r.effect[x].state = "running" => x \in Queue!Queued(r)
          /\ x \in Queue!Queued(r) => r.effect[x].state \in {"idle", "running"}
          /\ r.effect[x].finishOn >= r.effect[x].startOn
          /\ r.effect[x].state # "none" => r.effect[x].finishOn - r.effect[x].startOn \in Durations
          /\ r.effect[x].shown <= Max(Durations)
    BY <1>3, <1>4, <1>5 DEF Orderly
  <1>7. \A x \in Effects : \A f \in b[x] : r.effect[f].state # "none"
    BY <1>4 DEF Orderly
  <1>8. \A x \in Queue!Queued(r) : r.effect[x].queue = "end" /\ r.effect[x].state = "idle" =>
            \A f \in b[x] \cap Queue!Queued(r) : r.effect[x].startOn >= r.effect[f].finishOn
    BY <1>2, <1>4, <1>5 DEF Orderly
  <1>9. Orderly(r, b)
    BY <1>4, <1>6, <1>7, <1>8 DEF Orderly
  <1>10. Goes(s, r)
    BY <1>3, <1>4 DEF Goes
  <1> QED BY <1>5, <1>9, <1>10 DEF r

(* adding one: behind all that are queued when it goes to the end,         *)
LEMMA AddKeeps ==
    ASSUME QueueBounds, now \in Nat,
           NEW s, NEW b \in [Effects -> SUBSET Effects], Orderly(s, b),
           NEW e \in Effects, s.effect[e].state = "none",
           NEW q \in Queues \union {"parallel"}, NEW d \in Durations
    PROVE  /\ Orderly(Queue!Add(s, e, q, d), [b EXCEPT ![e] = Queue!Queued(s)])
           /\ \A x \in Effects : s.effect[x].state = "finished"
                => Queue!Add(s, e, q, d).effect[x].state = "finished"
  <1> DEFINE r == Queue!Add(s, e, q, d)
             c == [b EXCEPT ![e] = Queue!Queued(s)]
             delays(x) == q = "front" /\ x \in Queue!Queued(s) /\ s.effect[x].state = "idle"
  <1>1. /\ s \in Snapshots /\ d \in Nat
        /\ IsInjective(s.queue.effects) /\ s.queue.effects \in Seq(Effects)
        /\ s.effect \in [Effects -> Times]
    BY DEF Orderly, QueueBounds, Snapshots
  <1>2. Queue!Queued(s) \subseteq Effects /\ e \notin Queue!Queued(s)
    <2>1. Queue!Queued(s) \subseteq Effects
      BY <1>1, ElementsOf, SameQueue DEF Queue!Queued
    <2> QED BY <2>1 DEF Orderly
  <1>a. Added(s, r, e, q, d)
    BY <1>1, AddIs
  <1> HIDE DEF r
  <1>3. /\ r \in Snapshots
        /\ r.queue.interval
        /\ \/ r.queue.effects = Append(s.queue.effects, e)
           \/ s.queue.effects # << >> /\ r.queue.effects = s.queue.effects
        /\ r.effect[e].state = "idle"
        /\ r.effect[e].startOn \in Nat
        /\ r.effect[e].finishOn = r.effect[e].startOn + d
        /\ r.effect[e].queue = q
        /\ r.effect[e].shown = 0
        /\ q = "end" => \A f \in Queue!Queued(s) : r.effect[e].startOn >= s.effect[f].finishOn
        /\ \A x \in Effects \ {e} :
             /\ r.effect[x].state = s.effect[x].state
             /\ r.effect[x].queue = s.effect[x].queue
             /\ r.effect[x].shown = s.effect[x].shown
             /\ IF delays(x)
                THEN r.effect[x].startOn = s.effect[x].startOn + d
                     /\ r.effect[x].finishOn = s.effect[x].finishOn + d
                ELSE r.effect[x].startOn = s.effect[x].startOn
                     /\ r.effect[x].finishOn = s.effect[x].finishOn
    BY <1>a DEF Added
  <1>4. /\ \A x \in Effects : s.effect[x].startOn \in Nat /\ s.effect[x].finishOn \in Nat
        /\ Max(Durations) \in Nat
    BY <1>1, DurationsBound DEF Times
  <1>5. /\ Queue!Queued(s) \subseteq Queue!Queued(r) /\ Queue!Queued(r) \subseteq Queue!Queued(s) \union {e}
        /\ IsInjective(r.queue.effects) /\ r.queue.effects # << >>
    <2>1. CASE r.queue.effects = Append(s.queue.effects, e)
      <3>1. Queue!Queued(r) = Queue!Queued(s) \union {e}
        BY <1>1, <2>1, ElementsOf, SameQueue DEF Queue!Queued
      <3>2. IsInjective(Append(s.queue.effects, e))
        BY <1>1, <1>2, AppendOnce, SameQueue DEF Queue!Queued
      <3>3. Append(s.queue.effects, e) # << >>
        BY <1>1
      <3> QED BY <2>1, <3>1, <3>2, <3>3
    <2>2. CASE s.queue.effects # << >> /\ r.queue.effects = s.queue.effects
      BY <1>1, <2>2, SameQueue DEF Queue!Queued
    <2> QED BY <1>3, <2>1, <2>2
  <1>6. ASSUME NEW x \in Effects
        PROVE  /\ r.effect[x].state = "running" => x \in Queue!Queued(r)
               /\ x \in Queue!Queued(r) => r.effect[x].state \in {"idle", "running"}
               /\ r.effect[x].finishOn >= r.effect[x].startOn
               /\ r.effect[x].state # "none"
                    => r.effect[x].finishOn - r.effect[x].startOn \in Durations
               /\ r.effect[x].shown <= Max(Durations)
    <2>1. CASE x = e
      <3>1. r.effect[e].finishOn - r.effect[e].startOn = d /\ r.effect[e].finishOn >= r.effect[e].startOn
        BY <1>1, <1>3
      <3> QED BY <1>3, <1>4, <2>1, <3>1
    <2>2. CASE x # e
      <3>1. /\ s.effect[x].state = "running" => x \in Queue!Queued(s)
            /\ x \in Queue!Queued(s) => s.effect[x].state \in {"idle", "running"}
            /\ s.effect[x].finishOn >= s.effect[x].startOn
            /\ s.effect[x].state # "none"
                 => s.effect[x].finishOn - s.effect[x].startOn \in Durations
            /\ s.effect[x].shown <= Max(Durations)
        BY DEF Orderly
      <3>2. /\ r.effect[x].state = s.effect[x].state
            /\ r.effect[x].shown = s.effect[x].shown
        BY <1>3, <2>2
      <3>3. /\ r.effect[x].finishOn - r.effect[x].startOn
                 = s.effect[x].finishOn - s.effect[x].startOn
            /\ r.effect[x].finishOn >= r.effect[x].startOn
        <4>1. CASE delays(x)
          BY <1>1, <1>3, <1>4, <2>2, <3>1, <4>1
        <4>2. CASE ~delays(x)
          BY <1>3, <2>2, <3>1, <4>2
        <4> QED BY <4>1, <4>2
      <3> QED BY <1>5, <2>2, <3>1, <3>2, <3>3
    <2> QED BY <2>1, <2>2
  <1>7. ASSUME NEW x \in Effects, NEW f \in c[x]
        PROVE  f \in Effects /\ f # e /\ r.effect[f].state # "none"
    <2>1. f \in Effects /\ s.effect[f].state # "none"
      <3>1. CASE x = e
        <4>1. f \in Queue!Queued(s)
          BY <1>7, <3>1
        <4> QED BY <1>2, <4>1 DEF Orderly
      <3>2. CASE x # e
        <4>1. f \in b[x]
          BY <1>7, <3>2
        <4> QED BY <4>1 DEF Orderly
      <3> QED BY <3>1, <3>2
    <2> QED BY <1>3, <2>1
  <1>8. ASSUME NEW x \in Queue!Queued(r), r.effect[x].queue = "end", r.effect[x].state = "idle",
               NEW f \in c[x] \cap Queue!Queued(r)
        PROVE  r.effect[x].startOn >= r.effect[f].finishOn
    <2>1. x \in Effects /\ f \in Effects /\ f # e /\ f \in Queue!Queued(s)
      BY <1>2, <1>5, <1>7
    <2>2. CASE x = e
      <3>1. q = "end" /\ r.effect[f].finishOn = s.effect[f].finishOn
        BY <1>3, <1>8, <2>1, <2>2
      <3> QED BY <1>3, <2>1, <2>2, <3>1
    <2>3. CASE x # e
      <3>1. x \in Queue!Queued(s) /\ f \in b[x] \cap Queue!Queued(s)
        BY <1>5, <2>1, <2>3
      <3>2. s.effect[x].queue = "end" /\ s.effect[x].state = "idle"
        BY <1>3, <1>8, <2>1, <2>3
      <3>3. s.effect[x].startOn >= s.effect[f].finishOn
        BY <3>1, <3>2 DEF Orderly
      <3>4. CASE q = "front"
        <4>1. r.effect[x].startOn = s.effect[x].startOn + d
          BY <1>3, <2>1, <2>3, <3>1, <3>2, <3>4
        <4>2. r.effect[f].finishOn \in {s.effect[f].finishOn, s.effect[f].finishOn + d}
          BY <1>3, <2>1
        <4> QED BY <1>1, <1>4, <2>1, <3>3, <4>1, <4>2
      <3>5. CASE q # "front"
        BY <1>3, <2>1, <2>3, <3>3, <3>5
      <3> QED BY <3>4, <3>5
    <2> QED BY <2>2, <2>3
  <1>9. Orderly(r, c)
    <2> HIDE DEF c
    <2> QED BY <1>3, <1>5, <1>6, <1>7, <1>8 DEF Orderly
  <1>10. \A x \in Effects : s.effect[x].state = "finished" => r.effect[x].state = "finished"
    BY <1>3
  <1> QED BY <1>9, <1>10 DEF r, c

(* and what the page does in afterUpdate.                                  *)
LEMMA AfterUpdateKeeps ==
    ASSUME NEW s, NEW b \in [Effects -> SUBSET Effects], Orderly(s, b), NEW r \in Queue!AfterUpdate(s)
    PROVE  Orderly(r, b) /\ Goes(s, r)
  <1>1. CASE r = s
    BY <1>1 DEF Goes
  <1>2. CASE r # s
    <2>1. PICK f \in Queue!Queued(s) : r = Queue!Cancel(s, f)
      BY <1>2 DEF Queue!AfterUpdate
    <2>2. f \in Effects
      <3>1. s.queue.effects \in Seq(Effects)
        BY DEF Orderly, Snapshots
      <3> QED BY <3>1, ElementsOf, SameQueue DEF Queue!Queued
    <2>3. s.effect[f].state # "none"
      BY <2>2 DEF Orderly
    <2> QED BY <2>1, <2>2, <2>3, CancelKeeps
  <1> QED BY <1>1, <1>2
-----------------------------------------------------------------------------
(* The variables become a snapshot.                                        *)
LEMMA BecomeIs ==
    ASSUME NEW s \in Snapshots, Queue!Become(s)
    PROVE  Queue!This' = s
  <1>1. queue' = s.queue /\ effect' = s.effect
    BY DEF Queue!Become
  <1>2. s = [queue |-> s.queue, effect |-> s.effect]
    BY DEF Snapshots
  <1> QED BY <1>1, <1>2 DEF Queue!This

(* What is queued is an effect.                                            *)
LEMMA QueuedAre ==
    ASSUME NEW s \in Snapshots
    PROVE  Queue!Queued(s) \subseteq Effects
  <1>1. s.queue.effects \in Seq(Effects)
    BY DEF Snapshots
  <1> QED BY <1>1, ElementsOf, SameQueue DEF Queue!Queued

(* A queue holds no more effects than there are.                              *)
LEMMA QueueFits ==
    ASSUME QueueBounds, NEW q \in Seq(Effects), IsInjective(q)
    PROVE  Len(q) <= Cardinality(Effects) /\ Cardinality(Effects) \in Nat
  <1>1. Len(q) \in Nat /\ q \in [1 .. Len(q) -> Effects]
    OBVIOUS
  <1>2. q \in Injection(1 .. Len(q), Effects)
    BY <1>1 DEF Injection
  <1>3. IsFiniteSet(Effects)
    BY DEF QueueBounds
  <1>4. Cardinality(1 .. Len(q)) <= Cardinality(Effects)
    BY <1>2, <1>3, FS_Injection
  <1>5. Cardinality(1 .. Len(q)) = Len(q)
    BY <1>1, FS_Interval
  <1> QED BY <1>3, <1>4, <1>5, FS_CardinalityType

(* The loop over the queue is left.                                        *)
LEMMA Left ==
    ASSUME QueueBounds, LoopBounded, loop.at > 0, Queue!Leave
    PROVE  LoopBounded'
  <1>1. /\ loop \in [at : Nat, len : Nat, timePos : Nat] /\ loop.len <= Cardinality(Effects)
        /\ loop' = IF loop.at < loop.len THEN [loop EXCEPT !.at = @ + 1] ELSE Queue!NoLoop
    BY DEF LoopBounded, Queue!Leave
  <1>2. CASE loop.at < loop.len
    BY <1>1, <1>2 DEF LoopBounded
  <1>3. CASE ~(loop.at < loop.len)
    <2>1. loop' = Queue!NoLoop
      BY <1>1, <1>3
    <2>2. Cardinality(Effects) \in Nat
      BY FS_CardinalityType DEF QueueBounds
    <2> QED BY <2>1, <2>2 DEF LoopBounded, Queue!NoLoop
  <1> QED BY <1>2, <1>3

(* The effect that is visited.                                               *)
LEMMA Visited ==
    ASSUME EffectsInv, loop.at \in 1 .. Len(queue.effects), NEW e, e = queue.effects[loop.at]
    PROVE  /\ e \in Effects /\ e \in Queue!Queued(Queue!This)
           /\ effect[e].state \in {"idle", "running"} /\ ended[e] = 0
           /\ effect[e].startOn \in Nat /\ effect[e].finishOn \in Nat /\ effect[e].shown \in Nat
           /\ effect[e].finishOn - effect[e].startOn \in Durations
           /\ loop.timePos \in Nat
  <1>1. /\ Queue!This \in Snapshots /\ Queue!This.queue = queue /\ Queue!This.effect = effect
    BY DEF EffectsInv, Orderly, Queue!This
  <1>2. queue.effects \in Seq(Effects) /\ effect \in [Effects -> Times]
    BY <1>1 DEF Snapshots
  <1>3. e \in Effects /\ e \in Queue!Queued(Queue!This)
    BY <1>1, <1>2, SameQueue DEF Queue!Queued, ToSet
  <1>4. effect[e].state \in {"idle", "running"}
        /\ effect[e].finishOn - effect[e].startOn \in Durations
    BY <1>1, <1>3 DEF EffectsInv, Orderly
  <1>5. ended[e] = 0
    BY <1>3, <1>4 DEF EffectsInv, EndedOnce
  <1>6. loop.timePos \in Nat
    BY DEF EffectsInv, LoopBounded
  <1> QED BY <1>2, <1>3, <1>4, <1>5, <1>6 DEF Times

(* Every step keeps the invariant and ends no effect for a second time.    *)
LEMMA EffectsStep ==
    ASSUME QueueBounds, EffectsInv, [Queue!Next]_(Queue!vars)
    PROVE  EffectsInv'
  <1>a. /\ now \in Nat \ {0} /\ before \in [Effects -> SUBSET Effects]
        /\ Orderly(Queue!This, before) /\ LoopBounded /\ EndedOnce
    BY DEF EffectsInv
  <1>b. Queue!This \in Snapshots /\ Queue!This.queue = queue /\ Queue!This.effect = effect
    BY <1>a DEF Orderly, Queue!This
  <1>c. Durations \subseteq Nat
    BY DEF QueueBounds
  <1>d. Queue!Queued(Queue!This) \subseteq Effects
    BY <1>b, QueuedAre
  <1>e. now \in Nat
    BY <1>a
  <1>1. CASE Queue!Create
    <2>1. PICK e \in Queue!NextFresh, q \in Queues, d \in Durations :
            /\ Queue!Become(Queue!Add(Queue!This, e, q, d))
            /\ before' = [before EXCEPT ![e] = Queue!Queued(Queue!This)]
      BY <1>1 DEF Queue!Create
    <2>2. UNCHANGED <<now, loop, ended>>
      BY <1>1 DEF Queue!Create
    <2>3. e \in Effects /\ effect[e].state = "none"
      BY DEF Queue!NextFresh, Queue!Fresh
    <2>4. /\ Orderly(Queue!Add(Queue!This, e, q, d), before')
          /\ \A x \in Effects : effect[x].state = "finished"
                => Queue!Add(Queue!This, e, q, d).effect[x].state = "finished"
      <3>1. q \in Queues \union {"parallel"} /\ Queue!This.effect[e].state = "none"
        BY <1>b, <2>3
      <3>2. /\ Orderly(Queue!Add(Queue!This, e, q, d), [before EXCEPT ![e] = Queue!Queued(Queue!This)])
            /\ \A x \in Effects : Queue!This.effect[x].state = "finished"
                  => Queue!Add(Queue!This, e, q, d).effect[x].state = "finished"
        <4>1. /\ before \in [Effects -> SUBSET Effects] /\ Orderly(Queue!This, before)
              /\ e \in Effects /\ d \in Durations
          BY <1>a, <2>3
        <4> QED BY <1>e, <3>1, <4>1, AddKeeps
      <3> QED BY <1>b, <2>1, <3>2
    <2>5. Queue!This' = Queue!Add(Queue!This, e, q, d) /\ effect' = Queue!Add(Queue!This, e, q, d).effect
      <3>1. Queue!Add(Queue!This, e, q, d) \in Snapshots
        BY <2>4 DEF Orderly
      <3> QED BY <2>1, <3>1, BecomeIs DEF Queue!Become
    <2>6. before' \in [Effects -> SUBSET Effects]
      BY <1>a, <1>d, <2>1
    <2>7. EndedOnce'
      BY <1>a, <2>2, <2>4, <2>5 DEF EndedOnce
    <2>8. Orderly(Queue!This', before')
      BY <2>4, <2>5
    <2> QED BY <1>a, <2>2, <2>6, <2>7, <2>8 DEF EffectsInv, LoopBounded
  <1>2. CASE Queue!CancelByPage
    <2>1. PICK e \in Queue!Queued(Queue!This) : Queue!Become(Queue!Cancel(Queue!This, e))
      BY <1>2 DEF Queue!CancelByPage
    <2>2. UNCHANGED <<now, loop, before, ended>>
      BY <1>2 DEF Queue!CancelByPage
    <2>3. e \in Effects /\ effect[e].state # "none"
      BY <1>a, <1>b, <1>d DEF Orderly
    <2>4. Orderly(Queue!Cancel(Queue!This, e), before) /\ Goes(Queue!This, Queue!Cancel(Queue!This, e))
      BY <1>a, <1>b, <2>3, CancelKeeps
    <2>5. Queue!This' = Queue!Cancel(Queue!This, e) /\ effect' = Queue!Cancel(Queue!This, e).effect
      <3>1. Queue!Cancel(Queue!This, e) \in Snapshots
        BY <2>4 DEF Orderly
      <3> QED BY <2>1, <3>1, BecomeIs DEF Queue!Become
    <2>6. EndedOnce'
      BY <1>a, <1>b, <2>2, <2>4, <2>5 DEF EndedOnce, Goes
    <2>7. Orderly(Queue!This', before')
      BY <2>2, <2>4, <2>5
    <2> QED BY <1>a, <2>2, <2>6, <2>7 DEF EffectsInv, LoopBounded
  <1>3. CASE Queue!TimePasses
    <2>1. now' = now + 1 /\ UNCHANGED <<queue, effect, loop, before, ended>>
      BY <1>3 DEF Queue!TimePasses
    <2>2. Queue!This' = Queue!This
      BY <2>1 DEF Queue!This
    <2>3. now' \in Nat \ {0}
      BY <1>a, <2>1
    <2> QED BY <1>a, <2>1, <2>2, <2>3 DEF EffectsInv, LoopBounded, EndedOnce
  <1>4. CASE Queue!Tick
    <2>1. /\ queue.interval
          /\ loop' = [at |-> 1, len |-> Len(queue.effects), timePos |-> now]
          /\ UNCHANGED <<queue, effect, now, before, ended>>
      BY <1>4 DEF Queue!Tick
    <2>2. Queue!This' = Queue!This
      BY <2>1 DEF Queue!This
    <2>3. queue.effects \in Seq(Effects) /\ queue.effects # << >> /\ IsInjective(queue.effects)
      BY <1>a, <1>b, <2>1 DEF Orderly, Snapshots
    <2>4. Len(queue.effects) \in Nat /\ 1 <= Len(queue.effects)
          /\ Len(queue.effects) <= Cardinality(Effects)
      BY <2>3, QueueFits
    <2>5. LoopBounded'
      BY <1>a, <2>1, <2>4 DEF LoopBounded
    <2> QED BY <1>a, <2>1, <2>2, <2>5 DEF EffectsInv, EndedOnce
  <1>5. CASE Queue!VisitNothing
    <2>1. loop.at > 0 /\ Queue!Leave /\ UNCHANGED <<queue, effect, now, before, ended>>
      BY <1>5 DEF Queue!VisitNothing
    <2>2. Queue!This' = Queue!This
      BY <2>1 DEF Queue!This
    <2>3. LoopBounded'
      BY <1>a, <2>1, Left
    <2> QED BY <1>a, <2>1, <2>2, <2>3 DEF EffectsInv, EndedOnce
  <1>6. CASE Queue!VisitFrame
    <2> DEFINE e == queue.effects[loop.at]
               pos == loop.timePos - effect[e].startOn
    <2>1. /\ loop.at \in 1 .. Len(queue.effects) /\ Queue!Leave /\ UNCHANGED <<now, before, ended>>
          /\ loop.timePos < effect[e].finishOn /\ pos > effect[e].shown
      BY <1>6 DEF Queue!VisitFrame
    <2>2. PICK r \in Queue!AfterUpdate(Queue!Render(Queue!This, e, pos)) : Queue!Become(r)
      BY <1>6 DEF Queue!VisitFrame
    <2> HIDE DEF e
    <2>3. /\ e \in Effects /\ e \in Queue!Queued(Queue!This)
          /\ effect[e].startOn \in Nat /\ effect[e].finishOn \in Nat /\ effect[e].shown \in Nat
          /\ effect[e].finishOn - effect[e].startOn \in Durations
          /\ loop.timePos \in Nat
      BY <2>1, Visited DEF e
    <2>4. pos \in Nat /\ pos <= Max(Durations)
      <3>1. effect[e].finishOn - effect[e].startOn <= Max(Durations) /\ Max(Durations) \in Nat
        BY <2>3, DurationsBound
      <3> QED BY <2>1, <2>3, <3>1
    <2> HIDE DEF pos
    <2>5. Orderly(Queue!Render(Queue!This, e, pos), before) /\ Goes(Queue!This, Queue!Render(Queue!This, e, pos))
      BY <1>a, <2>3, <2>4, RenderKeeps
    <2>6. Orderly(r, before) /\ Goes(Queue!Render(Queue!This, e, pos), r)
      BY <1>a, <2>5, <2>2, AfterUpdateKeeps
    <2>7. Queue!This' = r /\ effect' = r.effect
      <3>1. r \in Snapshots
        BY <2>6 DEF Orderly
      <3> QED BY <2>2, <3>1, BecomeIs DEF Queue!Become
    <2>8. EndedOnce'
      BY <1>a, <1>b, <2>1, <2>5, <2>6, <2>7 DEF EndedOnce, Goes
    <2>9. Orderly(Queue!This', before')
      BY <2>1, <2>6, <2>7
    <2>10. LoopBounded'
      <3>1. loop.at > 0
        BY <1>a, <2>1 DEF LoopBounded
      <3> QED BY <1>a, <2>1, <3>1, Left
    <2> QED BY <1>a, <2>1, <2>8, <2>9, <2>10 DEF EffectsInv
  <1>7. CASE Queue!VisitLast
    <2> DEFINE e == queue.effects[loop.at]
               last == effect[e].finishOn - effect[e].startOn
    <2>1. /\ loop.at \in 1 .. Len(queue.effects) /\ Queue!Leave /\ UNCHANGED now
          /\ ended' = [ended EXCEPT ![e] = @ + 1]
      BY <1>7 DEF Queue!VisitLast
    <2>2. PICK s \in Queue!AfterUpdate(Queue!Render(Queue!This, e, last)) :
            \/ Queue!Become(Queue!Cancel(s, e)) /\ UNCHANGED before
            \/ \E f \in Queue!NextFresh, d \in Durations :
                 /\ Queue!Become(Queue!Add(Queue!Cancel(s, e), f, "parallel", d))
                 /\ before' = [before EXCEPT ![f] = Queue!Queued(Queue!Cancel(s, e))]
      BY <1>7 DEF Queue!VisitLast
    <2> HIDE DEF e
    <2>3. /\ e \in Effects /\ e \in Queue!Queued(Queue!This)
          /\ effect[e].state \in {"idle", "running"} /\ ended[e] = 0
          /\ effect[e].startOn \in Nat /\ effect[e].finishOn \in Nat
          /\ last \in Durations
      BY <2>1, Visited DEF e
    <2>4. last \in Nat /\ last <= Max(Durations)
      BY <1>c, <2>3, DurationsBound
    <2> HIDE DEF last
    <2>5. Orderly(Queue!Render(Queue!This, e, last), before) /\ Goes(Queue!This, Queue!Render(Queue!This, e, last))
          /\ Queue!Queued(Queue!Render(Queue!This, e, last)) = Queue!Queued(Queue!This)
      BY <1>a, <2>3, <2>4, RenderKeeps
    <2>6. Orderly(s, before) /\ Goes(Queue!Render(Queue!This, e, last), s)
      BY <1>a, <2>5, <2>2, AfterUpdateKeeps
    <2>7. s.effect[e].state # "none"
      <3> DEFINE r == Queue!Render(Queue!This, e, last)
      <3>1. r.effect[e].state # "none"
        BY <2>3, <2>5 DEF Orderly
      <3>2. r \in Snapshots /\ e \in Queue!Queued(r)
        BY <2>3, <2>5 DEF Orderly
      <3> HIDE DEF r
      <3>3. CASE s = r
        BY <3>1, <3>3
      <3>4. CASE s # r
        <4>1. PICK f \in Queue!Queued(r) : s = Queue!Cancel(r, f)
          BY <2>2, <3>4 DEF Queue!AfterUpdate, r
        <4>2. f \in Effects
          BY <3>2, QueuedAre
        <4>3. \A x \in Effects : Queue!Cancel(r, f).effect[x].state
                 = IF x = f THEN "finished" ELSE r.effect[x].state
          BY <3>2, <4>2, CancelIs
        <4> QED BY <2>3, <3>1, <4>1, <4>3
      <3> QED BY <3>3, <3>4
    <2> DEFINE done == Queue!Cancel(s, e)
    <2>8. Orderly(done, before) /\ Goes(s, done) /\ done.effect[e].state = "finished"
      BY <1>a, <2>3, <2>6, <2>7, CancelKeeps
    <2> HIDE DEF done
    <2>9. \A x \in Effects :
            /\ effect[x].state = "finished" => done.effect[x].state = "finished"
            /\ effect[x].state = "none" => done.effect[x].state = "none"
      BY <1>b, <2>5, <2>6, <2>8 DEF Goes
    <2>10. /\ before' \in [Effects -> SUBSET Effects]
           /\ Orderly(Queue!This', before')
           /\ \A x \in Effects :
                done.effect[x].state = "finished" => effect'[x].state = "finished"
      <3>1. CASE Queue!Become(done) /\ UNCHANGED before
        <4>1. done \in Snapshots
          BY <2>8 DEF Orderly
        <4>2. Queue!This' = done /\ effect' = done.effect
          BY <3>1, <4>1, BecomeIs DEF Queue!Become
        <4> QED BY <1>a, <2>8, <3>1, <4>2
      <3>2. CASE \E f \in Queue!NextFresh, d \in Durations :
                   /\ Queue!Become(Queue!Add(done, f, "parallel", d))
                   /\ before' = [before EXCEPT ![f] = Queue!Queued(done)]
        <4>1. PICK f \in Queue!NextFresh, d \in Durations :
                     /\ Queue!Become(Queue!Add(done, f, "parallel", d))
                     /\ before' = [before EXCEPT ![f] = Queue!Queued(done)]
          BY <3>2
        <4>2. f \in Effects /\ done.effect[f].state = "none"
          BY <2>9 DEF Queue!NextFresh, Queue!Fresh
        <4>3. /\ Orderly(Queue!Add(done, f, "parallel", d), before')
              /\ \A x \in Effects : done.effect[x].state = "finished"
                    => Queue!Add(done, f, "parallel", d).effect[x].state = "finished"
          <5>1. "parallel" \in Queues \union {"parallel"}
            OBVIOUS
          <5>2. /\ Orderly(Queue!Add(done, f, "parallel", d), [before EXCEPT ![f] = Queue!Queued(done)])
                /\ \A x \in Effects : done.effect[x].state = "finished"
                      => Queue!Add(done, f, "parallel", d).effect[x].state = "finished"
            BY <1>a, <1>e, <2>8, <4>2, <5>1, AddKeeps, ZenonT(40)
          <5> QED BY <4>1, <5>2
        <4>4. Queue!This' = Queue!Add(done, f, "parallel", d)
              /\ effect' = Queue!Add(done, f, "parallel", d).effect
          <5>1. Queue!Add(done, f, "parallel", d) \in Snapshots
            BY <4>3 DEF Orderly
          <5> QED BY <4>1, <5>1, BecomeIs DEF Queue!Become
        <4>5. before' \in [Effects -> SUBSET Effects]
          <5>1. done \in Snapshots
            BY <2>8 DEF Orderly
          <5>2. Queue!Queued(done) \subseteq Effects
            BY <5>1, QueuedAre
          <5> QED BY <1>a, <4>1, <5>2
        <4> QED BY <4>3, <4>4, <4>5
      <3> QED BY <2>2, <3>1, <3>2 DEF done
    <2>11. EndedOnce'
      <3>1. ended' \in [Effects -> {0, 1}]
        BY <1>a, <2>1, <2>3 DEF EndedOnce
      <3>2. \A x \in Effects : ended'[x] = 1 => x = e \/ effect[x].state = "finished"
        BY <1>a, <2>1 DEF EndedOnce
      <3>3. \A x \in Effects : ended'[x] = 1 => effect'[x].state = "finished"
        BY <2>8, <2>9, <2>10, <3>2
      <3> QED BY <3>1, <3>3 DEF EndedOnce
    <2>12. LoopBounded'
      <3>1. loop.at > 0
        BY <1>a, <2>1 DEF LoopBounded
      <3> QED BY <1>a, <2>1, <3>1, Left
    <2> QED BY <1>a, <2>1, <2>10, <2>11, <2>12 DEF EffectsInv
  <1>8. CASE UNCHANGED Queue!vars
    <2>1. UNCHANGED <<queue, effect, now, loop, before, ended>>
      BY <1>8 DEF Queue!vars
    <2>2. Queue!This' = Queue!This
      BY <2>1 DEF Queue!This
    <2> QED BY <1>a, <2>1, <2>2 DEF EffectsInv, LoopBounded, EndedOnce
  <1> QED BY <1>1, <1>2, <1>3, <1>4, <1>5, <1>6, <1>7, <1>8 DEF Queue!Next

(* It holds at the beginning                                               *)
LEMMA EffectsBegin ==
    ASSUME QueueBounds, Queue!Init
    PROVE  EffectsInv
  <1>1. /\ queue = [effects |-> << >>, interval |-> FALSE]
        /\ effect = [e \in Effects |-> [state |-> "none", startOn |-> 0,
                                    finishOn |-> 0, queue |-> "parallel", shown |-> 0]]
        /\ now = 1 /\ loop = Queue!NoLoop
        /\ before = [e \in Effects |-> {}] /\ ended = [e \in Effects |-> 0]
    BY DEF Queue!Init
  <1>2. Queue!This \in Snapshots /\ Queue!This.queue = queue /\ Queue!This.effect = effect
    <2>1. effect \in [Effects -> Times]
      BY <1>1 DEF Times
    <2>2. queue \in [effects : Seq(Effects), interval : BOOLEAN]
      BY <1>1
    <2> QED BY <2>1, <2>2 DEF Queue!This, Snapshots
  <1>3. Queue!Queued(Queue!This) = {} /\ IsInjective(queue.effects) /\ (queue.interval <=> queue.effects # << >>)
    BY <1>1, <1>2, ElementsOf, SameQueue DEF Queue!Queued, IsInjective
  <1>4. Max(Durations) \in Nat /\ Cardinality(Effects) \in Nat
    BY DurationsBound, FS_CardinalityType DEF QueueBounds
  <1>5. \A e \in Effects :
          /\ effect[e].state = "none" /\ effect[e].startOn = 0 /\ effect[e].finishOn = 0
          /\ effect[e].shown = 0 /\ before[e] = {}
    BY <1>1
  <1>6. Orderly(Queue!This, before)
    BY <1>2, <1>3, <1>4, <1>5 DEF Orderly
  <1>7. LoopBounded
    BY <1>1, <1>4 DEF LoopBounded, Queue!NoLoop
  <1>8. EndedOnce
    BY <1>1 DEF EndedOnce
  <1> QED BY <1>1, <1>6, <1>7, <1>8 DEF EffectsInv

(* and implies what is promised.                                           *)
LEMMA EffectsInvImplies ==
    ASSUME QueueBounds, EffectsInv
    PROVE  Queue!TypeOK /\ Queue!IntervalWhileQueued /\ Queue!RunningIsQueued /\ Queue!EndIsDueLast /\ Queue!FinishedOnce
  <1>1. Orderly(Queue!This, before) /\ Queue!This.queue = queue /\ Queue!This.effect = effect
    BY DEF EffectsInv, Queue!This
  <1>2. queue \in [effects : Seq(Effects), interval : BOOLEAN] /\ effect \in [Effects -> Times]
    BY <1>1 DEF Orderly, Snapshots
  <1>3. Queue!Queued(Queue!This) \subseteq Effects
    BY <1>1, QueuedAre DEF Orderly
  <1>4. Queue!TypeOK
    <2>1. queue.effects \in Seq(Effects) /\ queue.interval \in BOOLEAN
      BY <1>2
    <2>2. \A e \in Effects :
            /\ effect[e].state \in {"none", "idle", "running", "finished"}
            /\ effect[e].startOn \in Nat /\ effect[e].finishOn >= effect[e].startOn
            /\ effect[e].shown \in 0 .. Max(Durations)
      <3>1. \A e \in Effects : effect[e].shown \in Nat
        BY <1>2 DEF Times
      <3>2. Max(Durations) \in Nat
        BY DurationsBound
      <3>3. \A e \in Effects : effect[e].finishOn >= effect[e].startOn
                               /\ effect[e].shown <= Max(Durations)
        BY <1>1 DEF Orderly
      <3>4. \A e \in Effects : /\ effect[e].state \in {"none", "idle", "running", "finished"}
                               /\ effect[e].startOn \in Nat
        BY <1>2 DEF Times
      <3>5. \A e \in Effects : effect[e].shown \in 0 .. Max(Durations)
        <4> TAKE e \in Effects
        <4>1. effect[e].shown \in Nat
          BY <3>1
        <4>2. effect[e].shown <= Max(Durations)
          BY <3>3
        <4> QED BY <3>2, <4>1, <4>2
      <3> QED BY <3>3, <3>4, <3>5
    <2>3. loop.at \in 0 .. Cardinality(Effects) + 1
      <3>1. Cardinality(Effects) \in Nat
        BY FS_CardinalityType DEF QueueBounds
      <3> QED BY <3>1 DEF EffectsInv, LoopBounded
    <2> QED BY <2>1, <2>2, <2>3, SameQueue DEF Queue!TypeOK, EffectsInv
  <1>5. Queue!IntervalWhileQueued
    BY <1>1, <1>2 DEF Queue!IntervalWhileQueued, Orderly
  <1>6. Queue!RunningIsQueued
    BY <1>1, SameQueue DEF Queue!RunningIsQueued, Orderly
  <1>7. Queue!EndIsDueLast
    BY <1>1 DEF Queue!EndIsDueLast, Orderly
  <1>8. Queue!FinishedOnce
    <2>1. \A e \in Effects : ended[e] \in {0, 1}
      BY DEF EffectsInv, EndedOnce
    <2>2. \A e \in Effects : ended[e] <= 1
      <3> TAKE e \in Effects
      <3>1. ended[e] = 0 \/ ended[e] = 1
        BY <2>1
      <3> QED BY <3>1
    <2> QED BY <2>2 DEF Queue!FinishedOnce
  <1> QED BY <1>4, <1>5, <1>6, <1>7, <1>8

-----------------------------------------------------------------------------
(* Autocompleter.                                                          *)
(* The instance has the library's operators under names of its own.         *)
LEMMA SameCompleter ==
    /\ \A s, i : Completer!RemoveAt(s, i) = RemoveAt(s, i)
  <1>1. \A s, i : Completer!RemoveAt(s, i) = RemoveAt(s, i)
    BY DEF Completer!RemoveAt, RemoveAt
  <1> QED BY <1>1

(* An autocompleter that is open and races with no hide is not on its way    *)
(* out, and after a choice nothing is under way that may open the list.      *)
AutoInv ==
    /\ Completer!TypeOK
    /\ active \in BOOLEAN /\ hasFocus \in BOOLEAN /\ raced \in BOOLEAN
    /\ display \in BOOLEAN /\ appear \in BOOLEAN
    /\ Completer!ActiveHasFocus
    /\ Completer!IndexInList
    /\ active /\ ~raced => (display \/ appear) /\ fades = 0
    /\ chosen /\ ~reopened => ~active /\ ~observer /\ requests = <<>>

(* An answer takes its request off the list.                               *)
LEMMA Answering ==
    ASSUME Completer!TypeOK, NEW i \in DOMAIN requests
    PROVE  RemoveAt(requests, i) \in Seq(Tokens \union {"short", "chosen"}) /\ requests # <<>>
  <1>1. requests \in Seq(Tokens \union {"short", "chosen"}) /\ i \in 1 .. Len(requests)
    BY DEF Completer!TypeOK
  <1>2. requests # <<>>
    BY <1>1
  <1> HIDE DEF Completer!TypeOK
  <1> QED BY <1>1, <1>2, Removed

(* What render and hide leave of an open list.                              *)
LEMMA Shown ==
    ASSUME AutoInv, Completer!TypeOK', hasFocus' = hasFocus, ~(chosen' /\ ~reopened'),
           \/ UNCHANGED <<active, display, appear, fades, raced, index, entryCount>>
           \/ UNCHANGED <<active, display, appear, fades, raced>> /\ index' < entryCount'
           \/ hasFocus /\ Completer!Show /\ active' = TRUE /\ index' < entryCount'
           \/ active' = FALSE /\ Completer!Hide
    PROVE  AutoInv'
  <1>1. CASE UNCHANGED <<active, display, appear, fades, raced, index, entryCount>>
    BY <1>1 DEF AutoInv, Completer!ActiveHasFocus, Completer!IndexInList
  <1>2. CASE UNCHANGED <<active, display, appear, fades, raced>> /\ index' < entryCount'
    BY <1>2 DEF AutoInv, Completer!ActiveHasFocus, Completer!IndexInList
  <1>3. CASE hasFocus /\ Completer!Show /\ active' = TRUE /\ index' < entryCount'
    <2>1. fades \in Nat /\ fades' = fades
      BY <1>3 DEF AutoInv, Completer!TypeOK, Completer!Show
    <2>2. ~raced' => fades' = 0
      <3>1. fades > 0 \/ fades = 0
        BY <2>1
      <3> QED BY <1>3, <2>1, <3>1 DEF Completer!Show
    <2>3. active' /\ ~raced' => display' \/ appear'
      BY <1>3 DEF Completer!Show
    <2>4. {raced', display', appear'} \subseteq BOOLEAN
      BY <1>3 DEF AutoInv, Completer!Show
    <2> QED BY <1>3, <2>2, <2>3, <2>4
            DEF AutoInv, Completer!ActiveHasFocus, Completer!IndexInList
  <1>4. CASE active' = FALSE /\ Completer!Hide
    BY <1>4 DEF AutoInv, Completer!ActiveHasFocus, Completer!IndexInList, Completer!Hide
  <1> QED BY <1>1, <1>2, <1>3, <1>4

(* Every step keeps the invariant.                                         *)
LEMMA AutoStep ==
    ASSUME EntriesBounded, AutoInv, [Completer!Next]_(Completer!vars)
    PROVE  AutoInv'
  <1> USE DEF AutoInv, Completer!ActiveHasFocus, Completer!IndexInList, EntriesBounded
  <1>t. /\ text \in Tokens \union {"short", "chosen"}
        /\ index \in 0 .. MaxEntries /\ entryCount \in 0 .. MaxEntries
        /\ blurTimers \in Nat /\ requests \in Seq(Tokens \union {"short", "chosen"})
        /\ fades \in Nat
    BY DEF Completer!TypeOK
  <1>f. Completer!FadesAfter \in Nat
    BY <1>t DEF Completer!FadesAfter
  <1>1. CASE UNCHANGED Completer!vars
    BY <1>1 DEF Completer!vars, Completer!TypeOK
  <1>2. CASE Completer!AppearFrame
    BY <1>2 DEF Completer!AppearFrame, Completer!TypeOK, Completer!entryVars
  <1>3. CASE Completer!FadeEnds
    <2>1. /\ fades > 0 /\ fades' = fades - 1 /\ display' = FALSE
          /\ UNCHANGED <<text, changed, hasFocus, active, index, entryCount, observer,
                         blurTimers, requests, appear, keys, chosen, reopened, raced>>
      BY <1>3 DEF Completer!FadeEnds, Completer!entryVars
    <2>2. fades' \in Nat /\ fades # 0
      BY <1>t, <2>1
    <2>3. ~(active' /\ ~raced')
      BY <2>1, <2>2
    <2>4. Completer!TypeOK'
      BY <2>1, <2>2 DEF Completer!TypeOK
    <2> QED BY <2>1, <2>3, <2>4
  <1>4. CASE Completer!KeyTyped
    BY <1>4 DEF Completer!KeyTyped, Completer!TypeOK, Completer!entryVars,
                Completer!listVars
  <1>5. CASE Completer!KeyInactive
    BY <1>5 DEF Completer!KeyInactive, Completer!TypeOK, Completer!entryVars,
                Completer!listVars
  <1>6. CASE Completer!KeySelect
    BY <1>6, <1>f DEF Completer!KeySelect, Completer!SelectEntry, Completer!Hide,
                Completer!TypeOK, Completer!entryVars
  <1>7. CASE Completer!KeyEscape
    BY <1>7, <1>f DEF Completer!KeyEscape, Completer!Hide, Completer!TypeOK, Completer!entryVars
  <1>8. CASE Completer!KeyUpDown
    <2>1. active /\ index' \in {Completer!markPrevious, Completer!markNext} /\ Completer!Render(entryCount)
          /\ UNCHANGED <<text, changed, hasFocus, entryCount, observer, blurTimers,
                         requests, chosen, reopened>>
      BY <1>8 DEF Completer!KeyUpDown
    <2>2. entryCount > 0 /\ index' \in 0 .. MaxEntries /\ index' < entryCount
      BY <1>t, <2>1 DEF Completer!markPrevious, Completer!markNext
    <2>3. Completer!Show /\ active' = TRUE
      BY <1>t, <2>1, <2>2 DEF Completer!Render
    <2> QED BY <1>t, <2>1, <2>2, <2>3 DEF Completer!Show, Completer!TypeOK
  <1>9. CASE Completer!onHover
    <2>1. display /\ Completer!Render(entryCount) /\ reopened' = (reopened \/ chosen)
          /\ UNCHANGED <<text, changed, hasFocus, entryCount, observer, blurTimers,
                         requests, chosen>>
      BY <1>9 DEF Completer!onHover
    <2>2. entryCount > 0 /\ index' \in 0 .. MaxEntries /\ index' < entryCount
      BY <1>9, <1>t DEF Completer!onHover
    <2>3. \/ hasFocus /\ Completer!Show /\ active' = TRUE
          \/ UNCHANGED <<active, display, appear, fades, raced>>
      <3>1. entryCount # 0
        BY <1>t, <2>2
      <3> QED BY <2>1, <3>1 DEF Completer!Render, Completer!listVars
    <2>4. Completer!TypeOK'
      BY <1>t, <2>1, <2>2, <2>3 DEF Completer!TypeOK, Completer!Show
    <2>5. ~(chosen' /\ ~reopened')
      BY <2>1
    <2>6. hasFocus' = hasFocus /\ index' < entryCount'
      BY <2>1, <2>2
    <2> QED BY <2>3, <2>4, <2>5, <2>6, Shown
  <1>10. CASE Completer!onClick
    <2>1. entryCount > 0 /\ index' \in 0 .. MaxEntries
      BY <1>10, <1>t DEF Completer!onClick
    <2> QED BY <1>10, <1>t, <1>f, <2>1 DEF Completer!onClick, Completer!SelectEntry,
                                     Completer!Hide, Completer!TypeOK
  <1>11. CASE Completer!onBlur
    <2>1. /\ active' = FALSE /\ hasFocus' = FALSE /\ blurTimers' = blurTimers + 1
          /\ UNCHANGED <<display, appear, fades, raced, text, index, entryCount, observer, requests, chosen, reopened>>
      BY <1>11 DEF Completer!onBlur, Completer!entryVars, Completer!listVars
    <2>2. Completer!TypeOK'
      BY <1>t, <2>1 DEF Completer!TypeOK
    <2>3. Completer!ActiveHasFocus' /\ Completer!IndexInList' /\ active' \in BOOLEAN /\ hasFocus' \in BOOLEAN
      BY <2>1
    <2>4. raced' \in BOOLEAN /\ display' \in BOOLEAN /\ appear' \in BOOLEAN
      BY <2>1
    <2>5. chosen' /\ ~reopened' => ~active' /\ ~observer' /\ requests' = <<>>
      BY <2>1
    <2>6. ~active'
      BY <2>1
    <2> QED BY <2>2, <2>3, <2>4, <2>5, <2>6
  <1>12. CASE Completer!BlurTimer
    BY <1>12, <1>f DEF Completer!BlurTimer, Completer!TypeOK, Completer!entryVars
  <1>13. CASE Completer!activate
    BY <1>13 DEF Completer!activate, Completer!TypeOK, Completer!entryVars,
                 Completer!listVars
  <1>14. CASE Completer!onObserverEvent
    <2>1. /\ observer /\ observer' = FALSE
          /\ UNCHANGED <<text, hasFocus, index, entryCount, blurTimers, chosen, reopened>>
          /\ \/ requests' = Append(requests, text) /\ UNCHANGED <<active, Completer!listVars>>
             \/ active' = FALSE /\ Completer!Hide /\ UNCHANGED requests
      BY <1>14 DEF Completer!onObserverEvent, Completer!entryVars
    <2>2. Completer!TypeOK'
      BY <1>t, <1>f, <2>1 DEF Completer!TypeOK, Completer!Hide, Completer!listVars
    <2>3. ~(chosen' /\ ~reopened')
      BY <2>1
    <2>4. \/ UNCHANGED <<active, display, appear, fades, raced>>
          \/ active' = FALSE /\ Completer!Hide
      BY <2>1 DEF Completer!listVars
    <2>5. UNCHANGED <<hasFocus, index, entryCount>>
      BY <2>1
    <2> QED BY <2>2, <2>3, <2>4, <2>5, Shown
  <1>15. CASE Completer!onComplete
    <2>1. PICK i \in DOMAIN requests, n \in 0 .. MaxEntries :
            /\ requests' = RemoveAt(requests, i)
            /\ IF changed \/ ~hasFocus
               THEN UNCHANGED <<text, active, Completer!entryVars, Completer!listVars, chosen, reopened>>
               ELSE /\ entryCount' = n /\ index' = 0
                    /\ IF n = 1 /\ AutoSelect
                       THEN Completer!SelectEntry /\ Completer!Hide
                       ELSE Completer!Render(n) /\ UNCHANGED <<text, chosen, reopened>>
      BY <1>15, SameCompleter DEF Completer!onComplete
    <2>2. UNCHANGED <<changed, hasFocus, observer, blurTimers>>
      BY <1>15, SameCompleter DEF Completer!onComplete
    <2>3. requests' \in Seq(Tokens \union {"short", "chosen"}) /\ requests # <<>>
      BY <2>1, Answering
    <2>4. ~(chosen /\ ~reopened)
      BY <2>3
    <2>5. CASE changed \/ ~hasFocus
      <3>1. UNCHANGED <<text, active, index, entryCount, display, appear, fades, raced,
                        chosen, reopened>>
        BY <2>1, <2>5 DEF Completer!entryVars, Completer!listVars
      <3> QED BY <1>t, <2>2, <2>3, <2>4, <3>1 DEF Completer!TypeOK
    <2>6. CASE ~(changed \/ ~hasFocus)
      <3>1. entryCount' = n /\ index' = 0
        BY <2>1, <2>6
      <3>2. CASE Completer!SelectEntry /\ Completer!Hide
        <4>1. text' = "chosen" /\ active' = FALSE /\ reopened' = TRUE
          BY <2>3, <3>2 DEF Completer!SelectEntry
        <4>2. Completer!TypeOK'
          BY <1>t, <1>f, <2>2, <2>3, <3>1, <3>2, <4>1 DEF Completer!TypeOK, Completer!Hide
        <4>3. hasFocus' = hasFocus /\ ~(chosen' /\ ~reopened')
          BY <2>2, <4>1
        <4> QED BY <3>2, <4>1, <4>2, <4>3, Shown
      <3>3. CASE Completer!Render(n) /\ UNCHANGED <<text, chosen, reopened>>
        <4>1. \/ hasFocus /\ Completer!Show /\ active' = TRUE /\ n > 0
              \/ active' = FALSE /\ Completer!Hide
          BY <2>6, <3>3 DEF Completer!Render
        <4>2. Completer!TypeOK'
          BY <1>t, <1>f, <2>2, <2>3, <3>1, <3>3, <4>1 DEF Completer!TypeOK, Completer!Hide, Completer!Show
        <4>3. n > 0 => index' < entryCount'
          BY <3>1
        <4>4. hasFocus' = hasFocus
          BY <2>2
        <4> QED BY <2>4, <3>3, <4>1, <4>2, <4>3, <4>4, Shown
      <3> QED BY <2>1, <2>6, <3>2, <3>3
    <2> QED BY <2>5, <2>6
  <1> QED BY <1>1, <1>2, <1>3, <1>4, <1>5, <1>6, <1>7, <1>8, <1>9, <1>10, <1>11, <1>12,
             <1>13, <1>14, <1>15 DEF Completer!Next

(* It holds at the beginning.                                              *)
LEMMA AutoInit ==
    ASSUME EntriesBounded, Completer!Init
    PROVE  AutoInv
  <1>1. Completer!TypeOK
    BY DEF Completer!Init, Completer!TypeOK, EntriesBounded
  <1> QED BY <1>1 DEF Completer!Init, AutoInv, Completer!ActiveHasFocus,
                      Completer!IndexInList

-----------------------------------------------------------------------------
(* InPlaceEditor.                                                          *)
(* The instance has the library's operators under names of its own.         *)
LEMMA SameEditor ==
    /\ \A s, i : Editor!RemoveAt(s, i) = RemoveAt(s, i)
  <1>1. \A s, i : Editor!RemoveAt(s, i) = RemoveAt(s, i)
    BY DEF Editor!RemoveAt, RemoveAt
  <1> QED BY <1>1

(* The form is open or being saved while editing, and neither once destroyed. *)
EditorModes ==
    /\ editing <=> form \/ saving
    /\ ~(form /\ saving)
    /\ ~listening => ~form /\ ~saving

(* A save is under way only while saving, or after destroy or Escape.        *)
OneSave ==
    ~escaped => Len(saves) <= 1 /\ (listening /\ ~saving => saves = <<>>)

(* A saving text that stays is not kept as the text from before.             *)
TextComesBack ==
    /\ Editor!SavingTextGoes
    /\ oldInnerHTML = Editor!savingText => spoilt
    /\ saving /\ oldInnerHTML = "null" /\ html = Editor!savingText => spoilt

(* What can be submitted is a text.                                          *)
FieldIsText == form /\ ~disabled => formField \in Texts \/ spoilt

(* Loads come one after the other, and none after the user has typed.        *)
OneLoad ==
    /\ ~formReopened => Len(loads) <= 1
    /\ form /\ ~formReopened /\ (typed \/ ~disabled) => loads = <<>>

EditorInv ==
    /\ Editor!TypeOK
    /\ EditorModes
    /\ OneSave
    /\ TextComesBack
    /\ Editor!PlaceholdersNotSaved /\ FieldIsText
    /\ OneLoad

(* A list without one of its elements.                                     *)
LEMMA RemovedOne ==
    ASSUME NEW S, NEW q \in Seq(S), NEW i \in DOMAIN q
    PROVE  /\ RemoveAt(q, i) \in Seq(S) /\ Len(q) \in Nat /\ q # <<>> /\ q[i] \in S
           /\ Len(RemoveAt(q, i)) = Len(q) - 1
           /\ Len(q) <= 1 => RemoveAt(q, i) = <<>>
           /\ \A j \in DOMAIN RemoveAt(q, i) : \E k \in DOMAIN q : RemoveAt(q, i)[j] = q[k]
  <1>1. i \in 1 .. Len(q) /\ DOMAIN q = 1 .. Len(q) /\ q[i] \in S
    OBVIOUS
  <1> DEFINE r == RemoveAt(q, i)
  <1>2. /\ r \in Seq(S) /\ Len(q) \in Nat /\ Len(r) = Len(q) - 1
        /\ \A j \in 1 .. Len(q) - 1 : r[j] = q[IF j < i THEN j ELSE j + 1]
    BY <1>1, Removed
  <1> HIDE DEF r
  <1>3. q # <<>> /\ (Len(q) <= 1 => r = <<>>)
    BY <1>1, <1>2
  <1>4. \A j \in DOMAIN r : \E k \in DOMAIN q : r[j] = q[k]
    <2>1. TAKE j \in DOMAIN r
    <2>2. j \in 1 .. Len(q) - 1
      BY <1>2, <2>1
    <2>3. (IF j < i THEN j ELSE j + 1) \in 1 .. Len(q)
      BY <1>1, <1>2, <2>2
    <2> QED BY <1>1, <1>2, <2>2, <2>3
  <1> QED BY <1>1, <1>2, <1>3, <1>4 DEF r

(* The answer to a save keeps what was entered.                            *)
LEMMA SavedOne ==
    ASSUME EditorInv, NEW i \in DOMAIN saves, saves' = RemoveAt(saves, i),
           UNCHANGED <<stages, isList, ownFailure, htmlResponse, listening, loads, edits, typed, escaped,
                       formReopened>>,
           Editor!Leave, html' \in Texts \union {Editor!savingText},
           html' = Editor!savingText => spoilt'
    PROVE  EditorInv' /\ Editor!EntryKept
  <1>1. saves \in Seq(Texts \union {Editor!savingText, Editor!loadingText, "nothing"})
    BY DEF EditorInv, Editor!TypeOK
  <1>2. /\ saves' \in Seq(Texts \union {Editor!savingText, Editor!loadingText, "nothing"})
        /\ Len(saves') = Len(saves) - 1 /\ Len(saves) \in Nat
        /\ Len(saves) <= 1 => saves' = <<>>
        /\ \A j \in DOMAIN saves' : \E k \in DOMAIN saves : saves'[j] = saves[k]
    BY <1>1, RemovedOne
  <1>3. /\ editing' = FALSE /\ form' = FALSE /\ saving' = FALSE /\ oldInnerHTML' = "null"
        /\ formField' = "nothing" /\ disabled' = FALSE
    BY DEF Editor!Leave
  <1>4. Editor!TypeOK'
    BY <1>2, <1>3 DEF EditorInv, Editor!TypeOK
  <1>5. OneSave'
    BY <1>2, <1>3 DEF EditorInv, OneSave
  <1>6. Editor!PlaceholdersNotSaved'
    <2>1. CASE ~escaped
      BY <1>2, <2>1 DEF EditorInv, OneSave, Editor!PlaceholdersNotSaved
    <2>2. CASE escaped
      BY <2>2 DEF Editor!PlaceholdersNotSaved
    <2> QED BY <2>1, <2>2
  <1>7. OneLoad'
    BY <1>3 DEF EditorInv, OneLoad
  <1>8. TextComesBack'
    BY <1>3 DEF TextComesBack, Editor!SavingTextGoes, Editor!savingText
  <1> QED BY <1>3, <1>4, <1>5, <1>6, <1>7, <1>8
          DEF EditorInv, EditorModes, FieldIsText, Editor!EntryKept

(* Every step keeps the invariant and what was entered.                    *)
LEMMA EditorStep ==
    ASSUME TextsAreEntered, EditorInv, [Editor!Next]_(Editor!vars)
    PROVE  EditorInv' /\ (Editor!Next => Editor!EntryKept)
  <1> USE DEF EditorInv
  <1>t. /\ stages \in Seq({"collection", "text"}) /\ Len(stages) \in Nat
        /\ {isList, ownFailure, htmlResponse} \subseteq BOOLEAN
        /\ {listening, editing, saving, form, disabled} \subseteq BOOLEAN
        /\ formField \in Texts \union {Editor!savingText, Editor!loadingText, "nothing"}
        /\ html \in Texts \union {Editor!savingText}
        /\ oldInnerHTML \in Texts \union {Editor!savingText, "null"}
        /\ loads \in Seq(1 .. Len(stages))
        /\ saves \in Seq(Texts \union {Editor!savingText, Editor!loadingText, "nothing"})
    BY DEF Editor!TypeOK
  <1>1. CASE UNCHANGED Editor!vars
    BY <1>1 DEF Editor!vars, Editor!TypeOK, EditorModes, OneSave, TextComesBack,
                Editor!PlaceholdersNotSaved,
                FieldIsText, OneLoad, Editor!SavingTextGoes, Editor!EntryKept
  <1>2. CASE Editor!enterEditMode
    <2>1. listening /\ ~saving /\ ~editing /\ editing' = TRUE /\ form' = TRUE
          /\ typed' = FALSE
          /\ UNCHANGED <<stages, isList, ownFailure, htmlResponse, listening, saving, html, oldInnerHTML,
                         saves, escaped, spoilt>>
      BY <1>2 DEF Editor!enterEditMode, Editor!MayEnter, Editor!options
    <2>2. ~form
      BY <2>1 DEF EditorModes
    <2>3. \/ formField' = html /\ disabled' = FALSE /\ loads' = loads
          \/ stages # <<>> /\ loads' = Append(loads, 1) /\ formField' = Editor!loadingText
             /\ disabled' = TRUE
      BY <1>2 DEF Editor!enterEditMode, Editor!LoadStage
    <2>4. /\ loads' \in Seq(1 .. Len(stages')) /\ disabled' \in BOOLEAN
          /\ formField' \in Texts \union {Editor!savingText, Editor!loadingText, "nothing"}
          /\ loads = <<>> => Len(loads') <= 1
      <3>1. stages' = stages
        BY <2>1
      <3>2. CASE formField' = html /\ disabled' = FALSE /\ loads' = loads
        <4>1. Len(<<>>) <= 1
          OBVIOUS
        <4> QED BY <1>t, <3>1, <3>2, <4>1
      <3>3. CASE stages # <<>> /\ loads' = Append(loads, 1) /\ formField' = Editor!loadingText
                 /\ disabled' = TRUE
        <4>1. 1 \in 1 .. Len(stages)
          BY <1>t, <3>3
        <4>2. loads' \in Seq(1 .. Len(stages)) /\ Len(loads') = Len(loads) + 1
          BY <1>t, <3>3, <4>1
        <4>3. Len(<<>>) = 0
          OBVIOUS
        <4> QED BY <3>1, <3>3, <4>2, <4>3
      <3> QED BY <2>3, <3>2, <3>3
    <2>5. Editor!TypeOK'
      BY <1>t, <2>1, <2>4 DEF Editor!TypeOK
    <2>6. formReopened' \/ loads = <<>>
      BY <1>2 DEF Editor!enterEditMode
    <2>7. OneLoad'
      BY <2>1, <2>3, <2>4, <2>6 DEF OneLoad
    <2>8. EditorModes'
      BY <2>1 DEF EditorModes
    <2>9. FieldIsText'
      BY <1>t, <2>1, <2>3 DEF FieldIsText, TextComesBack, Editor!SavingTextGoes
    <2>10. OneSave' /\ TextComesBack' /\ Editor!PlaceholdersNotSaved'
      BY <2>1 DEF OneSave, TextComesBack, Editor!SavingTextGoes, Editor!PlaceholdersNotSaved
    <2> QED BY <2>2, <2>5, <2>7, <2>8, <2>9, <2>10 DEF Editor!EntryKept
  <1>3. CASE Editor!Type
    <2>1. form /\ ~disabled /\ formField' \in Texts /\ typed' = TRUE
          /\ UNCHANGED <<stages, isList, ownFailure, htmlResponse, listening, editing, saving, form,
                   disabled, html, oldInnerHTML, loads, saves, escaped, formReopened, spoilt>>
      BY <1>3 DEF Editor!Type, Editor!options
    <2>2. Editor!TypeOK'
      BY <1>t, <2>1 DEF Editor!TypeOK
    <2>3. EditorModes' /\ OneSave' /\ TextComesBack' /\ Editor!PlaceholdersNotSaved'
      BY <2>1 DEF EditorModes, OneSave, TextComesBack, Editor!SavingTextGoes,
                  Editor!PlaceholdersNotSaved
    <2>4. FieldIsText' /\ OneLoad'
      BY <2>1 DEF FieldIsText, OneLoad
    <2> QED BY <1>3, <2>2, <2>3, <2>4 DEF Editor!EntryKept
  <1>4. CASE Editor!handleFormSubmission
    <2>1. form /\ form' = FALSE /\ saves' = Append(saves, Editor!Serialized) /\ saving' = TRUE
          /\ oldInnerHTML' = html /\ html' = Editor!savingText
          /\ formField' = "nothing" /\ disabled' = FALSE
          /\ UNCHANGED <<stages, isList, ownFailure, htmlResponse, listening, editing, loads, typed,
                         escaped, formReopened, spoilt>>
      BY <1>4 DEF Editor!handleFormSubmission, Editor!options, Editor!history
    <2>2. editing /\ ~saving /\ listening
      BY <2>1 DEF EditorModes
    <2>3. Editor!Serialized \in Texts \union {Editor!savingText, Editor!loadingText, "nothing"}
          /\ (Editor!Serialized \in Texts \union {"nothing"} \/ spoilt)
      BY <1>t, <2>1 DEF Editor!Serialized, FieldIsText
    <2>4. /\ saves' \in Seq(Texts \union {Editor!savingText, Editor!loadingText, "nothing"})
          /\ Len(saves') = Len(saves) + 1 /\ Len(saves) \in Nat
          /\ saves = <<>> => Len(saves') = 1
          /\ saves'[Len(saves) + 1] = Editor!Serialized
          /\ \A j \in 1 .. Len(saves) : saves'[j] = saves[j]
      BY <1>t, <2>1, <2>3
    <2>5. Editor!TypeOK'
      BY <1>t, <2>1, <2>4 DEF Editor!TypeOK
    <2>6. EditorModes'
      BY <2>1, <2>2 DEF EditorModes
    <2>7. OneSave'
      BY <2>1, <2>2, <2>4 DEF OneSave
    <2>8. html = Editor!savingText => spoilt
      BY <2>2 DEF TextComesBack, Editor!SavingTextGoes
    <2>9. TextComesBack'
      <3>1. html # "null"
        BY <1>t DEF TextsAreEntered, Editor!savingText
      <3> QED BY <2>1, <2>8, <3>1 DEF TextComesBack, Editor!SavingTextGoes
    <2>10. Editor!PlaceholdersNotSaved'
      <3>1. ASSUME NEW j \in DOMAIN saves'
            PROVE  saves'[j] \in Texts \union {"nothing"} \/ escaped' \/ spoilt'
        <4>1. j \in 1 .. Len(saves) \/ j = Len(saves) + 1
          BY <2>4
        <4>2. CASE j \in 1 .. Len(saves)
          BY <1>t, <2>1, <2>4, <4>2 DEF Editor!PlaceholdersNotSaved
        <4>3. CASE j = Len(saves) + 1
          BY <2>1, <2>3, <2>4, <4>3
        <4> QED BY <4>1, <4>2, <4>3
      <3> QED BY <3>1 DEF Editor!PlaceholdersNotSaved
    <2>11. FieldIsText' /\ OneLoad'
      BY <2>1 DEF FieldIsText, OneLoad
    <2> QED BY <2>1, <2>5, <2>6, <2>7, <2>9, <2>10, <2>11 DEF Editor!EntryKept
  <1>5. CASE Editor!Cancel
    <2>1. /\ editing' = FALSE /\ form' = FALSE /\ saving' = FALSE /\ oldInnerHTML' = "null"
          /\ formField' = "nothing" /\ disabled' = FALSE
      BY <1>5 DEF Editor!Cancel, Editor!Leave
    <2>2. (saving => escaped' /\ spoilt') /\ (escaped => escaped') /\ (spoilt => spoilt')
          /\ UNCHANGED <<stages, isList, ownFailure, htmlResponse, listening, html, loads, saves, typed,
                         formReopened>>
      BY <1>5 DEF Editor!Cancel, Editor!options
    <2>3. Editor!TypeOK'
      BY <1>t, <2>1, <2>2 DEF Editor!TypeOK
    <2>4. EditorModes' /\ FieldIsText' /\ OneLoad'
      BY <2>1, <2>2 DEF EditorModes, FieldIsText, OneLoad
    <2>5. OneSave'
      BY <2>1, <2>2 DEF OneSave
    <2>6. TextComesBack'
      BY <2>1, <2>2 DEF TextComesBack, Editor!SavingTextGoes, Editor!savingText
    <2>7. Editor!PlaceholdersNotSaved'
      BY <2>2 DEF Editor!PlaceholdersNotSaved
    <2> QED BY <2>1, <2>3, <2>4, <2>5, <2>6, <2>7 DEF Editor!EntryKept
  <1>6. CASE Editor!destroy
    <2>1. /\ editing' = FALSE /\ form' = FALSE /\ saving' = FALSE /\ oldInnerHTML' = "null"
          /\ formField' = "nothing" /\ disabled' = FALSE
      BY <1>6 DEF Editor!destroy, Editor!Leave
    <2>2. /\ listening' = FALSE
          /\ html' = (IF Editor!HasOldText THEN oldInnerHTML ELSE html)
          /\ UNCHANGED <<stages, isList, ownFailure, htmlResponse, loads, saves, typed, escaped,
                         formReopened>>
          /\ spoilt' = (spoilt \/ oldInnerHTML = "")
      BY <1>6 DEF Editor!destroy, Editor!options
    <2>3. html' \in Texts \union {Editor!savingText} /\ (html' = Editor!savingText => spoilt')
      BY <1>t, <2>2 DEF Editor!HasOldText, TextComesBack, Editor!SavingTextGoes
    <2>4. Editor!TypeOK'
      BY <1>t, <2>1, <2>2, <2>3 DEF Editor!TypeOK
    <2>5. EditorModes' /\ FieldIsText' /\ OneLoad' /\ OneSave'
      BY <2>1, <2>2 DEF EditorModes, FieldIsText, OneLoad, OneSave
    <2>6. TextComesBack'
      BY <2>1, <2>2, <2>3 DEF TextComesBack, Editor!SavingTextGoes, Editor!savingText
    <2>7. Editor!PlaceholdersNotSaved'
      BY <2>2 DEF Editor!PlaceholdersNotSaved
    <2> QED BY <2>1, <2>4, <2>5, <2>6, <2>7 DEF Editor!EntryKept
  <1>7. CASE Editor!SaveSucceeds
    <2>1. PICK i \in DOMAIN saves : saves' = RemoveAt(saves, i)
      BY <1>7, SameEditor DEF Editor!SaveSucceeds
    <2>2. UNCHANGED <<stages, isList, ownFailure, htmlResponse, listening, loads, edits, typed, escaped,
                      formReopened>>
          /\ Editor!Leave
      BY <1>7, SameEditor DEF Editor!SaveSucceeds, Editor!options
    <2>3. html' \in Texts \union {Editor!savingText} /\ (html' = Editor!savingText => spoilt')
      BY <1>7, <1>t DEF Editor!SaveSucceeds, TextsAreEntered
    <2> QED BY <2>1, <2>2, <2>3, SavedOne
  <1>8. CASE Editor!SaveFails
    <2>1. PICK i \in DOMAIN saves : saves' = RemoveAt(saves, i)
      BY <1>8, SameEditor DEF Editor!SaveFails
    <2>2. /\ UNCHANGED <<stages, isList, ownFailure, htmlResponse, listening, loads, edits, typed, escaped,
                         formReopened>>
          /\ Editor!Leave /\ html' = Editor!AfterFailure /\ (spoilt => spoilt') /\ (~ownFailure \/ oldInnerHTML = "" => spoilt')
      BY <1>8, SameEditor DEF Editor!SaveFails, Editor!options
    <2>3. html' \in Texts \union {Editor!savingText} /\ (html' = Editor!savingText => spoilt')
      BY <1>t, <2>2 DEF Editor!AfterFailure, Editor!HasOldText, TextComesBack,
                        Editor!SavingTextGoes
    <2> QED BY <2>1, <2>2, <2>3, SavedOne
  <1>9. CASE Editor!LoadSucceeds
    <2>1. PICK i \in DOMAIN loads :
            IF ~form THEN loads' = RemoveAt(loads, i) /\ UNCHANGED Editor!fieldVars
            ELSE IF loads[i] = Len(stages)
            THEN loads' = RemoveAt(loads, i) /\ formField' \in Texts /\ disabled' = FALSE
            ELSE /\ loads' = Append(RemoveAt(loads, i), loads[i] + 1)
                 /\ formField' = Editor!loadingText /\ disabled' = TRUE
      BY <1>9, SameEditor DEF Editor!LoadSucceeds
    <2>2. UNCHANGED <<stages, isList, ownFailure, htmlResponse, listening, editing, saving, form, html,
                      oldInnerHTML, saves, typed, escaped, formReopened, spoilt>>
      BY <1>9, SameEditor DEF Editor!LoadSucceeds, Editor!options, Editor!history
    <2> DEFINE left == RemoveAt(loads, i)
    <2>3. /\ left \in Seq(1 .. Len(stages)) /\ loads # <<>> /\ Len(loads) \in Nat
          /\ loads[i] \in 1 .. Len(stages)
          /\ Len(left) = Len(loads) - 1 /\ (Len(loads) <= 1 => left = <<>>)
      BY <1>t, RemovedOne
    <2>4. \/ ~form /\ loads' = left /\ UNCHANGED <<formField, disabled>>
          \/ form /\ loads' = left /\ formField' \in Texts /\ disabled' = FALSE
          \/ /\ form /\ loads[i] # Len(stages) /\ loads' = Append(left, loads[i] + 1)
             /\ formField' = Editor!loadingText /\ disabled' = TRUE
      BY <2>1 DEF Editor!fieldVars
    <2> HIDE DEF left
    <2>5. /\ loads' \in Seq(1 .. Len(stages)) /\ Len(loads') <= Len(loads)
          /\ (Len(loads) <= 1 /\ disabled' # TRUE => loads' = <<>> \/ ~form)
      <3>1. loads[i] # Len(stages) => loads[i] + 1 \in 1 .. Len(stages)
        BY <1>t, <2>3
      <3>2. CASE loads' = left /\ (~form \/ disabled' = FALSE)
        <4>1. loads' \in Seq(1 .. Len(stages)) /\ Len(loads') <= Len(loads)
          BY <2>3, <3>2
        <4>2. Len(loads) <= 1 => loads' = <<>>
          BY <2>3, <3>2
        <4> QED BY <4>1, <4>2
      <3>3. CASE loads[i] # Len(stages) /\ loads' = Append(left, loads[i] + 1)
                 /\ disabled' = TRUE
        <4>1. loads' \in Seq(1 .. Len(stages)) /\ Len(loads') = Len(left) + 1
          BY <2>3, <3>1, <3>3
        <4> QED BY <2>3, <3>3, <4>1
      <3> QED BY <2>4, <3>2, <3>3
    <2>6. Editor!TypeOK'
      BY <1>t, <2>2, <2>4, <2>5 DEF Editor!TypeOK
    <2>7. form /\ ~formReopened => ~typed
      BY <2>3 DEF OneLoad
    <2>8. OneLoad'
      BY <2>2, <2>3, <2>4, <2>5, <2>7 DEF OneLoad
    <2>9. FieldIsText'
      BY <2>2, <2>4 DEF FieldIsText
    <2>10. EditorModes' /\ OneSave' /\ TextComesBack' /\ Editor!PlaceholdersNotSaved'
      BY <2>2 DEF EditorModes, OneSave, TextComesBack, Editor!SavingTextGoes,
                  Editor!PlaceholdersNotSaved
    <2> QED BY <2>6, <2>7, <2>8, <2>9, <2>10 DEF Editor!EntryKept
  <1>10. CASE Editor!LoadFails
    <2>1. PICK i \in DOMAIN loads : loads' = RemoveAt(loads, i)
      BY <1>10, SameEditor DEF Editor!LoadFails
    <2>2. UNCHANGED <<stages, isList, ownFailure, htmlResponse, listening, editing, saving, form, formField,
                      disabled, saves, typed, escaped, formReopened, spoilt>>
      BY <1>10, SameEditor DEF Editor!LoadFails, Editor!options, Editor!history,
                               Editor!fieldVars
    <2>3. \/ UNCHANGED <<html, oldInnerHTML>>
          \/ oldInnerHTML # "null" /\ html' = oldInnerHTML /\ oldInnerHTML' = "null"
      BY <1>10, SameEditor DEF Editor!LoadFails, Editor!HasOldText
    <2>4. /\ loads' \in Seq(1 .. Len(stages)) /\ loads # <<>> /\ Len(loads) \in Nat
          /\ Len(loads') = Len(loads) - 1 /\ (Len(loads) <= 1 => loads' = <<>>)
      BY <1>t, <2>1, RemovedOne
    <2>5. Editor!TypeOK'
      BY <1>t, <2>2, <2>3, <2>4 DEF Editor!TypeOK
    <2>6. OneLoad'
      BY <2>2, <2>4 DEF OneLoad
    <2>7. TextComesBack'
      BY <2>2, <2>3 DEF TextComesBack, Editor!SavingTextGoes, Editor!savingText
    <2>8. EditorModes' /\ OneSave' /\ FieldIsText' /\ Editor!PlaceholdersNotSaved' /\ Editor!EntryKept
      BY <2>2 DEF EditorModes, OneSave, FieldIsText, Editor!PlaceholdersNotSaved,
                  Editor!EntryKept
    <2> QED BY <2>5, <2>6, <2>7, <2>8
  <1> QED BY <1>1, <1>2, <1>3, <1>4, <1>5, <1>6, <1>7, <1>8, <1>9, <1>10 DEF Editor!Next

(* It holds at the beginning.                                              *)
LEMMA EditorInit ==
    ASSUME TextsAreEntered, Editor!Init
    PROVE  EditorInv
  <1>1. loads = <<>> /\ saves = <<>> /\ isList \in BOOLEAN /\ ownFailure \in BOOLEAN
        /\ htmlResponse \in BOOLEAN
    BY DEF Editor!Init
  <1>a. stages \in {<<>>, <<"text">>, <<"collection">>, <<"collection", "text">>}
    BY DEF Editor!Init
  <1>b. stages \in Seq({"collection", "text"})
    <2> DEFINE S == {"collection", "text"}
    <2>1. "collection" \in S /\ "text" \in S
      OBVIOUS
    <2> HIDE DEF S
    <2>2. <<>> \in Seq(S)
      OBVIOUS
    <2>3. <<"text">> \in Seq(S) /\ <<"collection">> \in Seq(S)
      BY <2>1
    <2>4. <<"collection", "text">> \in Seq(S)
      BY <2>1
    <2> QED BY <1>a, <2>2, <2>3, <2>4 DEF S
  <1>c. loads \in Seq(1 .. Len(stages))
        /\ saves \in Seq(Texts \union {Editor!savingText, Editor!loadingText, "nothing"})
    BY <1>1
  <1>d. /\ {isList, ownFailure, htmlResponse} \subseteq BOOLEAN
        /\ {listening, editing, saving, form, disabled} \subseteq BOOLEAN
        /\ formField = "nothing" /\ html \in Texts /\ oldInnerHTML = "null"
    BY <1>1 DEF Editor!Init
  <1>2. Editor!TypeOK
    BY <1>b, <1>c, <1>d DEF Editor!TypeOK
  <1>3. html # Editor!savingText
    BY DEF Editor!Init, TextsAreEntered
  <1>4. TextComesBack
    BY <1>3 DEF Editor!Init, TextComesBack, Editor!SavingTextGoes, Editor!savingText
  <1>5. EditorModes /\ OneSave /\ FieldIsText
    BY <1>1 DEF Editor!Init, EditorModes, OneSave, FieldIsText
  <1>6. OneLoad
    BY <1>1 DEF OneLoad
  <1>7. Editor!PlaceholdersNotSaved
    BY <1>1 DEF Editor!PlaceholdersNotSaved
  <1> QED BY <1>2, <1>4, <1>5, <1>6, <1>7 DEF EditorInv

-----------------------------------------------------------------------------
(* FieldObservers.                                                         *)
(* The instance has the library's operators under names of its own.         *)
LEMMA SameField ==
    /\ \A S : Field!Cardinality(S) = Cardinality(S)
    /\ \A s : Field!Front(s) = Front(s)
    /\ \A s : Field!Last(s) = Last(s)
  <1>1. \A S : Field!Cardinality(S) = Cardinality(S)
    BY DEF Field!Cardinality, Cardinality
  <1>2. \A s : Field!Front(s) = Front(s)
    BY DEF Field!Front, Front
  <1>3. \A s : Field!Last(s) = Last(s)
    BY DEF Field!Last, Last
  <1> QED BY <1>1, <1>2, <1>3

FieldInv ==
    /\ Field!TypeOK
    /\ observing \in BOOLEAN /\ pending \in BOOLEAN /\ delay \in BOOLEAN
    /\ observerKind = "delayed" => callbacks = <<>>
    /\ observerKind # "delayed" => ~delay
    /\ observerKind = "event" /\ pending => callbacks = <<>>
    /\ ~Field!Excused => IF callbacks # <<>> THEN Len(callbacks) = 1 /\ told = callbacks[1]
                   ELSE observerKind # "delayed" => lastValue = told
    /\ observerKind = "delayed" /\ ~Field!Excused /\ ~delay => lastValue = told
    /\ observerKind = "delayed" /\ ~Field!Excused /\ delay /\ ~pending => lastValue = field

(* There are a number of values, at least one.                             *)
LEMMA ManyValues ==
    ASSUME FieldValues
    PROVE  Cardinality(Values) \in Nat /\ Cardinality(Values) >= 1
  <1>1. PICK v : v \in Values
    BY DEF FieldValues
  <1>2. Cardinality({v}) = 1
    BY FS_Singleton
  <1>3. Cardinality({v}) <= Cardinality(Values) /\ Cardinality(Values) \in Nat
    BY <1>1, FS_Subset, FS_CardinalityType DEF FieldValues
  <1> QED BY <1>2, <1>3

(* What excuses a missed change, by the kind of observer.                  *)
LEMMA ExcusedIs ==
    /\ observerKind = "timed" => (Field!Excused <=> "threw" \in mishaps)
    /\ observerKind = "event" => (Field!Excused <=> mishaps \cap {"threw", "nested", "silent"} # {})
    /\ observerKind = "delayed" => (Field!Excused <=> mishaps \cap {"silent", "early"} # {})
  BY DEF Field!Excused

(* A callback begins, and is told the value of the field;                  *)
LEMMA Calling ==
    ASSUME Field!TypeOK, FieldValues, Field!CallBack
    PROVE  /\ callbacks' \in Seq(Values) /\ Len(callbacks') = Len(callbacks) + 1 /\ callbacks' # <<>>
           /\ callbacks = <<>> => Len(callbacks') = 1 /\ told' = callbacks'[1]
           /\ told' = field
  BY SameField DEF Field!TypeOK, Field!CallBack

(* one ends.                                                               *)
LEMMA Returning ==
    ASSUME Field!TypeOK, callbacks # <<>>
    PROVE  /\ Front(callbacks) \in Seq(Values) /\ Len(Front(callbacks)) = Len(callbacks) - 1
           /\ Last(callbacks) \in Values
           /\ Len(callbacks) = 1 => Front(callbacks) = <<>> /\ Last(callbacks) = callbacks[1]
  <1>1. callbacks \in Seq(Values) /\ Len(callbacks) \in Nat /\ Len(callbacks) >= 1
    BY SameField DEF Field!TypeOK
  <1>2. Front(callbacks) = [i \in 1 .. Len(callbacks) - 1 |-> callbacks[i]]
    BY <1>1 DEF Front
  <1>3. Front(callbacks) \in Seq(Values) /\ Len(Front(callbacks)) = Len(callbacks) - 1
    BY <1>1, <1>2
  <1> QED BY <1>1, <1>3 DEF Last

(* Every step keeps the invariant.                                         *)
LEMMA FieldStep ==
    ASSUME FieldValues, FieldInv, [Field!Next]_(Field!vars)
    PROVE  FieldInv'
  <1> USE DEF FieldInv
  <1>c. Len(callbacks) \in Nat /\ Cardinality(Values) \in Nat /\ Cardinality(Values) >= 1
        /\ (callbacks = <<>> <=> Len(callbacks) = 0)
    BY ManyValues, SameField DEF Field!TypeOK
  <1>1. CASE UNCHANGED Field!vars
    BY <1>1, SameField DEF Field!vars, Field!TypeOK, Field!Excused
  <1>2. CASE Field!Edit
    <2>1. UNCHANGED <<observerKind, observing, lastValue, callbacks, delay, told, mishaps>>
          /\ field' \in Values /\ pending' = TRUE /\ callbacks = <<>>
      BY <1>2 DEF Field!Edit
    <2>2. Field!Excused' <=> Field!Excused
      BY <2>1 DEF Field!Excused
    <2> QED BY <2>1, <2>2, SameField DEF Field!TypeOK
  <1>3. CASE Field!SilentEdit
    <2>1. UNCHANGED <<observerKind, observing, lastValue, callbacks, pending, delay, told>>
          /\ field' \in Values /\ mishaps' = mishaps \union {"silent"}
      BY <1>3 DEF Field!SilentEdit
    <2>2. /\ Field!Excused => Field!Excused'
          /\ observerKind # "timed" => Field!Excused'
      BY <2>1, SameField DEF Field!Excused, Field!TypeOK
    <2> QED BY <2>1, <2>2, SameField DEF Field!TypeOK
  <1>4. CASE Field!Tick
    <2>1. observerKind = "timed" /\ callbacks = <<>> /\ Field!CallBack
          /\ UNCHANGED <<observerKind, observing, field, lastValue, pending, delay, changes, mishaps>>
      BY <1>4 DEF Field!Tick, Field!MayExecute
    <2>2. Field!Excused' <=> Field!Excused
      BY <2>1 DEF Field!Excused
    <2>3. callbacks' \in Seq(Values) /\ Len(callbacks') = 1 /\ callbacks' # <<>> /\ told' = callbacks'[1]
          /\ told' = field
      BY <1>c, <2>1, Calling
    <2> QED BY <2>1, <2>2, <2>3, SameField DEF Field!TypeOK
  <1>5. CASE Field!onElementEvent
    <2>1. observerKind = "event" /\ pending /\ pending' = FALSE /\ callbacks = <<>>
          /\ UNCHANGED <<observerKind, observing, field, lastValue, delay, changes, mishaps>>
      BY <1>5 DEF Field!onElementEvent
    <2>2. Field!Excused' <=> Field!Excused
      BY <2>1 DEF Field!Excused
    <2>3. CASE field # lastValue
      <3>1. callbacks' \in Seq(Values) /\ Len(callbacks') = 1 /\ callbacks' # <<>> /\ told' = callbacks'[1]
            /\ told' = field
        BY <1>5, <1>c, <2>1, <2>3, Calling DEF Field!onElementEvent
      <3> QED BY <1>c, <2>1, <2>2, <3>1, SameField DEF Field!TypeOK
    <2>4. CASE field = lastValue
      <3>1. UNCHANGED <<callbacks, told>>
        BY <1>5, <2>4 DEF Field!onElementEvent
      <3> QED BY <2>1, <2>2, <3>1, SameField DEF Field!TypeOK
    <2> QED BY <2>3, <2>4
  <1>6. CASE Field!NestedEvent
    <2>1. observerKind = "event" /\ callbacks # <<>> /\ Len(callbacks) < Cardinality(Values) /\ Field!CallBack
          /\ mishaps' = mishaps \union {"nested"}
          /\ UNCHANGED <<observerKind, observing, field, lastValue, pending, delay, changes>>
      BY <1>6, SameField DEF Field!NestedEvent
    <2>2. Field!Excused'
      BY <2>1 DEF Field!Excused
    <2>3. callbacks' \in Seq(Values) /\ Len(callbacks') = Len(callbacks) + 1 /\ told' = field
      BY <2>1, Calling
    <2> QED BY <1>c, <2>1, <2>2, <2>3, SameField DEF Field!TypeOK
  <1>7. CASE Field!Return
    <2>1. callbacks # <<>> /\ callbacks' = Front(callbacks) /\ lastValue' = Last(callbacks)
          /\ UNCHANGED <<observerKind, observing, field, pending, delay, told, mishaps>>
      BY <1>7, SameField DEF Field!Return, Field!history
    <2>2. Field!Excused' <=> Field!Excused
      BY <2>1 DEF Field!Excused
    <2>3. callbacks' \in Seq(Values) /\ Len(callbacks') = Len(callbacks) - 1 /\ lastValue' \in Values
          /\ (Len(callbacks) = 1 => callbacks' = <<>> /\ lastValue' = callbacks[1])
      BY <2>1, Returning
    <2>4. Field!TypeOK'
      BY <1>c, <2>1, <2>3, SameField DEF Field!TypeOK
    <2> QED BY <2>1, <2>2, <2>3, <2>4
  <1>8. CASE Field!Throw
    <2>1. callbacks # <<>> /\ callbacks' = Front(callbacks) /\ mishaps' = mishaps \union {"threw"}
          /\ UNCHANGED <<observerKind, observing, field, lastValue, pending, delay, told>>
      BY <1>8, SameField DEF Field!Throw
    <2>2. Field!Excused'
      BY <2>1, SameField DEF Field!Excused, Field!TypeOK
    <2>3. callbacks' \in Seq(Values) /\ Len(callbacks') = Len(callbacks) - 1
      BY <2>1, Returning
    <2>4. Field!TypeOK'
      BY <1>c, <2>1, <2>3, SameField DEF Field!TypeOK
    <2> QED BY <2>1, <2>2, <2>3, <2>4, SameField DEF Field!TypeOK
  <1>9. CASE Field!stop
    <2>1. observerKind = "timed" /\ observing' = FALSE
          /\ UNCHANGED <<observerKind, field, lastValue, callbacks, pending, delay, told, mishaps>>
      BY <1>9 DEF Field!stop, Field!history
    <2>2. Field!Excused' <=> Field!Excused
      BY <2>1 DEF Field!Excused
    <2> QED BY <2>1, <2>2, SameField DEF Field!TypeOK
  <1>10. CASE Field!delayedListener
    <2>1. observerKind = "delayed" /\ pending' = FALSE /\ callbacks = <<>>
          /\ UNCHANGED <<observerKind, observing, field, callbacks, told, mishaps>>
          /\ delay' \in BOOLEAN
      BY <1>10 DEF Field!delayedListener, Field!history, Field!TimerSet
    <2>2. Field!Excused' <=> Field!Excused
      BY <2>1 DEF Field!Excused
    <2>3. \/ delay' = TRUE /\ lastValue' = field
          \/ field = lastValue /\ UNCHANGED <<delay, lastValue>>
      BY <1>10 DEF Field!delayedListener, Field!TimerSet
    <2> QED BY <2>1, <2>2, <2>3, SameField DEF Field!TypeOK
  <1>11. CASE Field!onTimerEvent
    <2>1. observerKind = "delayed" /\ delay /\ delay' = FALSE /\ told' = field
          /\ mishaps' = (IF pending THEN mishaps \union {"early"} ELSE mishaps)
          /\ UNCHANGED <<observerKind, observing, field, lastValue, callbacks, pending>>
      BY <1>11 DEF Field!onTimerEvent
    <2>2. (Field!Excused => Field!Excused') /\ (pending => Field!Excused')
      BY <2>1 DEF Field!Excused
    <2> QED BY <2>1, <2>2, SameField DEF Field!TypeOK
  <1> QED BY <1>1, <1>2, <1>3, <1>4, <1>5, <1>6, <1>7, <1>8, <1>9, <1>10, <1>11
    DEF Field!Next

(* It holds at the beginning.                                              *)
LEMMA FieldInit ==
    ASSUME FieldValues, Field!Init
    PROVE  FieldInv
  <1>1. callbacks = <<>> /\ mishaps = {} /\ observerKind \in {"timed", "event", "delayed"}
        /\ Len(callbacks) = 0 /\ callbacks \in Seq(Values)
    BY DEF Field!Init
  <1>2. Len(callbacks) <= IF observerKind = "timed" THEN 1 ELSE Cardinality(Values)
    BY <1>1, ManyValues
  <1>3. field \in Values /\ lastValue = field /\ told = field /\ observing = TRUE
        /\ pending = FALSE /\ delay = FALSE
    BY DEF Field!Init
  <1>4. Field!TypeOK
    BY <1>1, <1>2, <1>3, SameField DEF Field!TypeOK
  <1> QED BY <1>1, <1>3, <1>4 DEF FieldInv

-----------------------------------------------------------------------------
(* EventRegistry.                                                          *)
(* The instance has the library's operators under names of its own.         *)
LEMMA SameRegistry ==
    /\ \A S : Registry!Cardinality(S) = Cardinality(S)
    /\ \A s : Registry!Front(s) = Front(s)
    /\ \A s : Registry!Last(s) = Last(s)
    /\ \A s : Registry!ToSet(s) = ToSet(s)
    /\ \A s, W : Registry!Without(s, W) = Without(s, W)
  <1>1. \A S : Registry!Cardinality(S) = Cardinality(S)
    BY DEF Registry!Cardinality, Cardinality
  <1>2. \A s : Registry!Front(s) = Front(s)
    BY DEF Registry!Front, Front
  <1>3. \A s : Registry!Last(s) = Last(s)
    BY DEF Registry!Last, Last
  <1>4. \A s : Registry!ToSet(s) = ToSet(s)
    BY DEF Registry!ToSet, ToSet
  <1>5. \A s, W : Registry!Without(s, W) = Without(s, W)
    BY DEF Registry!Without, Without, Registry!Lefts, Lefts
  <1> QED BY <1>1, <1>2, <1>3, <1>4, <1>5

Wrappers == [id : Nat, event : Registry!Events, handler : Handlers]
Dispatches == [event : Registry!Events, load : BOOLEAN, due : Seq(Wrappers)]

(* The wrappers of other events than e.                                      *)
OfOthers(e) == {w \in ToSet(listeners) : w.event # e}

(* The page is loaded, or will be when the dispatch that says so is over.    *)
LoadedSoon == loaded \/ \E i \in DOMAIN dispatch : dispatch[i].load

RegistryTypes ==
    /\ cache \in [Registry!Events -> Seq(Wrappers)]
    /\ listeners \in Seq(Wrappers) /\ dispatch \in Seq(Dispatches)
    /\ made \in 0 .. MaxWrappers /\ loadings \in Nat
    /\ loaded \in BOOLEAN /\ poll \in BOOLEAN
    /\ loadEvent \in BOOLEAN /\ reentered \in BOOLEAN
    /\ Len(listeners) <= made /\ Len(dispatch) <= MaxNested

OneOfEach ==
    \A e \in Registry!Events : \A v, w \in ToSet(cache[e]) : v.handler = w.handler => v = w

LoadingsInv ==
    /\ loadings > 0 => LoadedSoon
    /\ loadEvent => ~reentered
    /\ ~reentered => loadings <= 1

RegistryInv ==
    RegistryTypes /\ Registry!RegistryMatches /\ OneOfEach /\ LoadingsInv

(* What is left of the listeners and of the cache when some are forgotten. *)
LEMMA CacheFollows ==
    ASSUME RegistryTypes, NEW found
    PROVE  /\ Without(listeners, found) \in Seq(Wrappers)
           /\ Len(Without(listeners, found)) <= Len(listeners)
           /\ \A e \in Registry!Events : /\ Without(cache[e], found) \in Seq(Wrappers)
                                         /\ ToSet(Without(cache[e], found)) \subseteq ToSet(cache[e])
  BY WithoutLeaves DEF RegistryTypes

(* The cache of an event still matches the listeners when some are         *)
(* forgotten                                                               *)
LEMMA ForgetMatches ==
    ASSUME RegistryTypes, Registry!RegistryMatches, NEW found, NEW e \in Registry!Events
    PROVE  Without(cache[e], found)
            = Without(Without(listeners, found),
                      {w \in ToSet(Without(listeners, found)) : w.event # e})
  <1> DEFINE X == {w \in ToSet(listeners) : w.event # e}
             rest == Without(listeners, found)
             Y == {w \in ToSet(rest) : w.event # e}
  <1>1. listeners \in Seq(Wrappers)
    BY DEF RegistryTypes
  <1>2. rest \in Seq(Wrappers) /\ ToSet(rest) = ToSet(listeners) \ found
    BY <1>1, WithoutLeaves
  <1>3. X \cap ToSet(rest) = Y \cap ToSet(rest)
    BY <1>2
  <1>4. cache[e] = Without(listeners, X)
    BY SameRegistry DEF Registry!RegistryMatches
  <1> HIDE DEF X, Y
  <1>5. Without(Without(listeners, X), found) = Without(listeners, X \union found)
    BY <1>1, WithoutTwice
  <1>6. Without(rest, X) = Without(listeners, found \union X)
    BY <1>1, WithoutTwice
  <1>7. found \union X = X \union found
    OBVIOUS
  <1> HIDE DEF rest
  <1>8. Without(rest, X) = Without(rest, Y)
    BY <1>2, <1>3, WithoutAgrees
  <1> QED BY <1>4, <1>5, <1>6, <1>7, <1>8 DEF rest, Y

(* and when one is added.                                                  *)
LEMMA ObserveMatches ==
    ASSUME RegistryTypes, Registry!RegistryMatches, NEW w \in Wrappers, NEW e \in Registry!Events
    PROVE  Without(Append(listeners, w), {v \in ToSet(Append(listeners, w)) : v.event # e})
            = IF w.event = e THEN Append(cache[e], w) ELSE cache[e]
  <1> DEFINE X == {v \in ToSet(listeners) : v.event # e}
             Y == {v \in ToSet(Append(listeners, w)) : v.event # e}
  <1>1. listeners \in Seq(Wrappers)
    BY DEF RegistryTypes
  <1>2. ToSet(Append(listeners, w)) = ToSet(listeners) \union {w}
    BY <1>1, ElementsOf
  <1>3. X \cap ToSet(listeners) = Y \cap ToSet(listeners)
    BY <1>2
  <1>4. w \in Y <=> w.event # e
    BY <1>2
  <1>5. cache[e] = Without(listeners, X)
    BY SameRegistry DEF Registry!RegistryMatches
  <1> HIDE DEF X, Y
  <1>6. Without(listeners, Y) = cache[e]
    BY <1>1, <1>3, <1>5, WithoutAgrees
  <1>7. Without(Append(listeners, w), Y) =
           IF w \in Y THEN Without(listeners, Y) ELSE Append(Without(listeners, Y), w)
    BY <1>1, WithoutLast
  <1>8. Without(Append(listeners, w), Y) = IF w.event = e THEN Append(cache[e], w) ELSE cache[e]
    BY <1>4, <1>6, <1>7
  <1> QED BY <1>8 DEF Y

(* A dispatch is one level more, and a load under way stays under way.     *)
LEMMA DispatchIs ==
    ASSUME RegistryBounds, RegistryTypes, NEW e \in Registry!Events, NEW load \in BOOLEAN, Registry!Dispatch(e, load)
    PROVE  /\ dispatch' \in Seq(Dispatches) /\ Len(dispatch') <= MaxNested
           /\ load \/ (\E i \in DOMAIN dispatch : dispatch[i].load)
              => \E i \in DOMAIN dispatch' : dispatch'[i].load
  <1> DEFINE W == {w \in ToSet(listeners) : Registry!getDOMEventName(w.event) # Registry!getDOMEventName(e)}
             d == [event |-> e, load |-> load, due |-> Without(listeners, W)]
  <1>1. Len(dispatch) < MaxNested /\ dispatch' = Append(dispatch, d)
    BY SameRegistry DEF Registry!Dispatch
  <1>2. dispatch \in Seq(Dispatches) /\ listeners \in Seq(Wrappers)
    BY DEF RegistryTypes
  <1>3. Without(listeners, W) \in Seq(Wrappers)
    BY <1>2, WithoutLeaves
  <1>4. d \in Dispatches /\ d.load = load
    BY <1>3 DEF Dispatches
  <1> HIDE DEF d
  <1>5. /\ dispatch' \in Seq(Dispatches) /\ Len(dispatch') = Len(dispatch) + 1
        /\ Len(dispatch) \in Nat
        /\ DOMAIN dispatch = 1 .. Len(dispatch) /\ DOMAIN dispatch' = 1 .. Len(dispatch) + 1
        /\ dispatch'[Len(dispatch) + 1] = d
        /\ \A i \in 1 .. Len(dispatch) : dispatch'[i] = dispatch[i]
    BY <1>1, <1>2, <1>4, Appended
  <1>6. Len(dispatch') <= MaxNested
    BY <1>1, <1>5 DEF RegistryBounds
  <1>7. load => \E i \in DOMAIN dispatch' : dispatch'[i].load
    <2>1. Len(dispatch) + 1 \in DOMAIN dispatch'
      BY <1>5
    <2> QED BY <1>4, <1>5, <2>1
  <1>8. (\E i \in DOMAIN dispatch : dispatch[i].load)
           => \E i \in DOMAIN dispatch' : dispatch'[i].load
    <2>1. \A i \in DOMAIN dispatch : i \in DOMAIN dispatch' /\ dispatch'[i] = dispatch[i]
      BY <1>5
    <2> QED BY <2>1
  <1> QED BY <1>5, <1>6, <1>7, <1>8

(* The content has been loaded.                                            *)
LEMMA FiredLoads ==
    ASSUME RegistryBounds, RegistryInv, Registry!fireContentLoadedEvent, reentered' = (dispatch # << >>),
           loadEvent' \in BOOLEAN, loadEvent' => dispatch = << >>
    PROVE  RegistryInv'
  <1>1. ~loaded /\ Registry!Dispatch("dom:loaded", TRUE) /\ poll' = FALSE /\ loadings' = loadings + 1
        /\ UNCHANGED <<cache, listeners, made, called, loaded>>
    BY DEF Registry!fireContentLoadedEvent, Registry!MayFire
  <1>2. "dom:loaded" \in Registry!Events
    BY DEF RegistryBounds, Registry!Events
  <1>3. /\ dispatch' \in Seq(Dispatches) /\ Len(dispatch') <= MaxNested
        /\ \E i \in DOMAIN dispatch' : dispatch'[i].load
    BY <1>1, <1>2, DispatchIs DEF RegistryInv
  <1>4. RegistryTypes'
    <2>1. loadings' \in Nat /\ reentered' \in BOOLEAN
      BY <1>1 DEF RegistryInv, RegistryTypes
    <2> QED BY <1>1, <1>3, <2>1 DEF RegistryInv, RegistryTypes
  <1>5. Registry!RegistryMatches' /\ OneOfEach'
    BY <1>1, SameRegistry DEF RegistryInv, Registry!RegistryMatches, OneOfEach
  <1>6. ~reentered' => loadings' <= 1
    <2> SUFFICES ASSUME dispatch = << >> PROVE loadings' <= 1
      OBVIOUS
    <2>1. ~LoadedSoon
      BY <1>1 DEF LoadedSoon
    <2>2. loadings = 0
      BY <2>1 DEF RegistryInv, LoadingsInv, RegistryTypes
    <2> QED BY <1>1, <2>2
  <1>7. LoadingsInv'
    BY <1>3, <1>6 DEF LoadingsInv, LoadedSoon
  <1> QED BY <1>4, <1>5, <1>7 DEF RegistryInv

(* Every step keeps the invariant.                                         *)
LEMMA RegistryStep ==
    ASSUME RegistryBounds, RegistryInv, [Registry!Next]_(Registry!vars)
    PROVE  RegistryInv' /\ (Registry!Next => Registry!CallIsMeant)
  <1> USE DEF RegistryInv
  <1>t. /\ cache \in [Registry!Events -> Seq(Wrappers)]
        /\ listeners \in Seq(Wrappers) /\ dispatch \in Seq(Dispatches)
        /\ made \in 0 .. MaxWrappers /\ loadings \in Nat /\ MaxWrappers \in Nat
        /\ loaded \in BOOLEAN /\ poll \in BOOLEAN
        /\ loadEvent \in BOOLEAN /\ reentered \in BOOLEAN
        /\ Len(listeners) <= made /\ Len(dispatch) <= MaxNested /\ MaxNested \in Nat
        /\ Len(listeners) \in Nat /\ Len(dispatch) \in Nat
    BY DEF RegistryTypes, RegistryBounds
  <1>1. CASE UNCHANGED Registry!vars
    BY <1>1, SameRegistry DEF Registry!vars, RegistryTypes, Registry!RegistryMatches,
                              OneOfEach, LoadingsInv, LoadedSoon,
                Registry!CallIsMeant
  <1>2. CASE Registry!observe
    <2>1. PICK e \in Registry!Events, h \in Handlers :
            LET w == [id |-> made, event |-> e, handler |-> h]
            IN  /\ ~Registry!Known(e, h)
                /\ made < MaxWrappers /\ made' = made + 1
                /\ cache' = [cache EXCEPT ![e] = Append(@, w)]
                /\ listeners' = Append(listeners, w)
                /\ UNCHANGED <<dispatch, fired, called, Registry!loadVars>>
      BY <1>2 DEF Registry!observe
    <2> DEFINE w == [id |-> made, event |-> e, handler |-> h]
    <2>2. ~Registry!Known(e, h) /\ made < MaxWrappers /\ made' = made + 1
          /\ cache' = [cache EXCEPT ![e] = Append(cache[e], w)]
          /\ listeners' = Append(listeners, w)
          /\ UNCHANGED <<dispatch, called, loaded, poll, loadEvent, loadings, reentered>>
      BY <2>1 DEF Registry!loadVars
    <2>3. w \in Wrappers /\ w.event = e /\ w.handler = h
      BY <1>t DEF Wrappers
    <2> HIDE DEF w
    <2>4. cache[e] \in Seq(Wrappers) /\ Append(cache[e], w) \in Seq(Wrappers)
      BY <1>t, <2>3
    <2>5. cache' \in [Registry!Events -> Seq(Wrappers)] /\ cache'[e] = Append(cache[e], w)
          /\ \A f \in Registry!Events \ {e} : cache'[f] = cache[f]
      BY <1>t, <2>2, <2>4
    <2>6. listeners' \in Seq(Wrappers) /\ Len(listeners') = Len(listeners) + 1
      BY <1>t, <2>2, <2>3
    <2>7. RegistryTypes'
      <3>1. made' \in 0 .. MaxWrappers /\ Len(listeners') <= made'
        BY <1>t, <2>2, <2>6
      <3> QED BY <1>t, <2>2, <2>5, <2>6, <3>1 DEF RegistryTypes
    <2>8. Registry!RegistryMatches'
      <3>1. ASSUME NEW f \in Registry!Events
            PROVE  cache'[f] = Without(listeners', {v \in ToSet(listeners') : v.event # f})
        <4>1. Without(Append(listeners, w), {v \in ToSet(Append(listeners, w)) : v.event # f})
                = IF w.event = f THEN Append(cache[f], w) ELSE cache[f]
          BY <2>3, ObserveMatches
        <4>2. cache'[f] = IF f = e THEN Append(cache[f], w) ELSE cache[f]
          BY <2>5
        <4>3. cache'[f] = Without(Append(listeners, w),
                                  {v \in ToSet(Append(listeners, w)) : v.event # f})
          BY <2>3, <4>1, <4>2
        <4> QED BY <2>2, <4>3
      <3> QED BY <3>1, SameRegistry DEF Registry!RegistryMatches
    <2>9. OneOfEach'
      <3>1. ToSet(Append(cache[e], w)) = ToSet(cache[e]) \union {w}
        BY <2>3, <2>4, ElementsOf
      <3>2. \A v \in ToSet(cache[e]) : v.handler # h
        BY <2>2 DEF Registry!Known, ToSet
      <3>3. ASSUME NEW f \in Registry!Events, NEW u \in ToSet(cache'[f]), NEW v \in ToSet(cache'[f]),
                   u.handler = v.handler
            PROVE  u = v
        <4>1. CASE f = e
          <5>1. u \in ToSet(cache[e]) \union {w} /\ v \in ToSet(cache[e]) \union {w}
            BY <2>5, <3>1, <3>3, <4>1
          <5> QED BY <2>3, <3>2, <3>3, <5>1 DEF OneOfEach
        <4>2. CASE f # e
          BY <2>5, <3>3, <4>2 DEF OneOfEach
        <4> QED BY <4>1, <4>2
      <3> QED BY <3>3 DEF OneOfEach
    <2>10. LoadingsInv' /\ Registry!CallIsMeant
      BY <2>2, SameRegistry DEF LoadingsInv, LoadedSoon, Registry!CallIsMeant
    <2> QED BY <2>7, <2>8, <2>9, <2>10
  <1>3. CASE Registry!stopObserving
    <2>1. PICK found : Registry!Forget(found)
      <3>1. CASE \E e \in Registry!Events, h \in Handlers : Registry!Forget(Registry!findWrapper(e, h))
        BY <3>1
      <3>2. CASE \E e \in Registry!Events : Registry!Forget(UNION {Registry!findWrapper(e, h) : h \in Handlers})
        BY <3>2
      <3>3. CASE Registry!Forget(UNION {Registry!findWrapper(e, h) : e \in Registry!Events, h \in Handlers})
        BY <3>3
      <3> QED BY <1>3, <3>1, <3>2, <3>3 DEF Registry!stopObserving
    <2>2. listeners' = Without(listeners, found)
          /\ cache' = [e \in Registry!Events |-> Without(cache[e], found)]
          /\ UNCHANGED <<dispatch, made, called, loaded, poll, loadEvent, loadings, reentered>>
      BY <2>1, SameRegistry DEF Registry!Forget, Registry!Destroyed, Registry!loadVars
    <2>3. /\ listeners' \in Seq(Wrappers) /\ Len(listeners') <= Len(listeners)
          /\ \A e \in Registry!Events : cache'[e] \in Seq(Wrappers)
                               /\ ToSet(cache'[e]) \subseteq ToSet(cache[e])
      BY <2>2, CacheFollows
    <2>4. RegistryTypes'
      <3>1. cache' \in [Registry!Events -> Seq(Wrappers)]
        BY <2>2, <2>3
      <3>2. Len(listeners') <= made'
        <4>1. Len(listeners') \in Nat
          BY <2>3
        <4> QED BY <1>t, <2>2, <2>3, <4>1
      <3> QED BY <1>t, <2>2, <2>3, <3>1, <3>2 DEF RegistryTypes
    <2>5. Registry!RegistryMatches'
      <3>1. ASSUME NEW e \in Registry!Events
            PROVE  cache'[e] = Without(listeners', {w \in ToSet(listeners') : w.event # e})
        <4>1. Without(cache[e], found)
                = Without(Without(listeners, found),
                          {w \in ToSet(Without(listeners, found)) : w.event # e})
          BY ForgetMatches
        <4> QED BY <2>2, <4>1
      <3> QED BY <3>1, SameRegistry DEF Registry!RegistryMatches
    <2>6. OneOfEach'
      BY <2>3 DEF OneOfEach
    <2>7. LoadingsInv' /\ Registry!CallIsMeant
      BY <2>2, SameRegistry DEF LoadingsInv, LoadedSoon, Registry!CallIsMeant
    <2> QED BY <2>4, <2>5, <2>6, <2>7
  <1>4. CASE Registry!fire
    <2>1. PICK e \in Registry!Events : Registry!Dispatch(e, FALSE)
      BY <1>4 DEF Registry!fire
    <2>2. UNCHANGED <<cache, listeners, made, called, loaded, poll, loadEvent, loadings,
                      reentered>>
      BY <1>4 DEF Registry!fire, Registry!loadVars
    <2>3. /\ dispatch' \in Seq(Dispatches) /\ Len(dispatch') <= MaxNested
          /\ (\E i \in DOMAIN dispatch : dispatch[i].load)
                => \E i \in DOMAIN dispatch' : dispatch'[i].load
      BY <2>1, DispatchIs
    <2>4. RegistryTypes'
      BY <1>t, <2>2, <2>3 DEF RegistryTypes
    <2>5. Registry!RegistryMatches' /\ OneOfEach' /\ Registry!CallIsMeant
      BY <2>2, SameRegistry DEF Registry!RegistryMatches, OneOfEach, Registry!CallIsMeant
    <2>6. LoadingsInv'
      BY <2>2, <2>3 DEF LoadingsInv, LoadedSoon
    <2> QED BY <2>4, <2>5, <2>6
  <1>5. CASE Registry!Call
    <2> DEFINE d == Last(dispatch)
               w == Head(d.due)
               g == [d EXCEPT !.due = Tail(@)]
    <2>1. /\ dispatch # << >> /\ d.due # << >>
          /\ dispatch' = Append(Front(dispatch), g)
          /\ called' = (IF w \in ToSet(listeners) /\ w.event = d.event
                        THEN [wrapper |-> w, event |-> d.event] ELSE called)
      BY <1>5, SameRegistry DEF Registry!Call, Registry!Meant
    <2>2. UNCHANGED <<cache, listeners, made, loaded, poll, loadEvent, loadings, reentered>>
      BY <1>5, SameRegistry DEF Registry!Call, Registry!loadVars
    <2>3. d \in Dispatches /\ Len(dispatch) >= 1 /\ d = dispatch[Len(dispatch)]
      BY <1>t, <2>1 DEF Last
    <2>4. g \in Dispatches /\ g.load = d.load
      <3>1. d.due \in Seq(Wrappers)
        BY <2>3 DEF Dispatches
      <3>2. Tail(d.due) \in Seq(Wrappers)
        BY <2>1, <3>1
      <3> QED BY <2>3, <3>2 DEF Dispatches
    <2>5. Registry!CallIsMeant
      <3>1. CASE w \in ToSet(listeners) /\ w.event = d.event
        <4>1. called' = [wrapper |-> w, event |-> d.event]
          BY <2>1, <3>1
        <4>2. called'.wrapper = w /\ called'.event = d.event
          BY <4>1
        <4> QED BY <3>1, <4>2, SameRegistry DEF Registry!CallIsMeant
      <3>2. CASE ~(w \in ToSet(listeners) /\ w.event = d.event)
        <4>1. called' = called
          BY <2>1, <3>2
        <4> QED BY <4>1, SameRegistry DEF Registry!CallIsMeant
      <3> QED BY <3>1, <3>2
    <2> HIDE DEF d, g
    <2>6. /\ Front(dispatch) \in Seq(Dispatches) /\ Len(Front(dispatch)) = Len(dispatch) - 1
          /\ \A i \in 1 .. Len(dispatch) - 1 : Front(dispatch)[i] = dispatch[i]
      <3>1. Front(dispatch) = [i \in 1 .. Len(dispatch) - 1 |-> dispatch[i]]
        BY <1>t, <2>3 DEF Front
      <3> QED BY <1>t, <2>3, <3>1
    <2>7. /\ dispatch' \in Seq(Dispatches) /\ Len(dispatch') = Len(dispatch)
          /\ \A i \in 1 .. Len(dispatch) : dispatch'[i].load = dispatch[i].load
      <3>1. /\ dispatch' \in Seq(Dispatches) /\ Len(dispatch') = Len(dispatch)
            /\ dispatch'[Len(dispatch)] = g
            /\ \A i \in 1 .. Len(dispatch) - 1 : dispatch'[i] = Front(dispatch)[i]
        BY <1>t, <2>1, <2>3, <2>4, <2>6
      <3>2. ASSUME NEW i \in 1 .. Len(dispatch)
            PROVE  dispatch'[i].load = dispatch[i].load
        <4>1. CASE i = Len(dispatch)
          BY <2>3, <2>4, <3>1, <4>1
        <4>2. CASE i \in 1 .. Len(dispatch) - 1
          BY <2>6, <3>1, <4>2
        <4> QED BY <1>t, <4>1, <4>2
      <3> QED BY <3>1, <3>2
    <2>8. RegistryTypes'
      BY <1>t, <2>2, <2>7 DEF RegistryTypes
    <2>9. Registry!RegistryMatches' /\ OneOfEach'
      BY <2>2, SameRegistry DEF Registry!RegistryMatches, OneOfEach
    <2>10. LoadingsInv'
      <3>1. DOMAIN dispatch = 1 .. Len(dispatch) /\ DOMAIN dispatch' = 1 .. Len(dispatch)
        BY <1>t, <2>7
      <3>2. LoadedSoon => LoadedSoon'
        BY <2>2, <2>7, <3>1 DEF LoadedSoon
      <3> QED BY <2>2, <3>2 DEF LoadingsInv
    <2> QED BY <2>5, <2>8, <2>9, <2>10
  <1>6. CASE Registry!PollTimer
    <2>1. dispatch = << >> /\ Registry!fireContentLoadedEvent /\ UNCHANGED <<loadEvent, reentered>>
      BY <1>6 DEF Registry!PollTimer
    <2>2. CASE reentered
      <3>1. ~loadEvent
        BY <2>2 DEF LoadingsInv
      <3>2. ~loaded /\ Registry!Dispatch("dom:loaded", TRUE) /\ poll' = FALSE
            /\ loadings' = loadings + 1 /\ UNCHANGED <<cache, listeners, made, called, loaded>>
        BY <2>1 DEF Registry!fireContentLoadedEvent, Registry!MayFire
      <3>3. "dom:loaded" \in Registry!Events
        BY DEF RegistryBounds, Registry!Events
      <3>4. /\ dispatch' \in Seq(Dispatches) /\ Len(dispatch') <= MaxNested
            /\ \E i \in DOMAIN dispatch' : dispatch'[i].load
        BY <3>2, <3>3, DispatchIs
      <3>5. RegistryTypes'
        <4>1. loadings' \in Nat
          BY <1>t, <3>2
        <4> QED BY <1>t, <2>1, <3>2, <3>4, <4>1 DEF RegistryTypes
      <3>6. Registry!RegistryMatches' /\ OneOfEach' /\ Registry!CallIsMeant
        BY <3>2, SameRegistry DEF Registry!RegistryMatches, OneOfEach, Registry!CallIsMeant
      <3>7. LoadingsInv'
        BY <2>1, <2>2, <3>1, <3>4 DEF LoadingsInv, LoadedSoon
      <3> QED BY <3>5, <3>6, <3>7
    <2>3. CASE ~reentered
      <3>1. reentered' = (dispatch # << >>)
        BY <1>t, <2>1, <2>3
      <3>2. RegistryInv'
        BY <1>t, <2>1, <3>1, FiredLoads
      <3>3. Registry!CallIsMeant
        BY <2>1, SameRegistry DEF Registry!fireContentLoadedEvent, Registry!CallIsMeant
      <3> QED BY <3>2, <3>3
    <2> QED BY <2>2, <2>3
  <1>7. CASE Registry!LoadEvent
    <2>1. loadEvent /\ loadEvent' = FALSE /\ reentered' = (dispatch # << >>)
      BY <1>7 DEF Registry!LoadEvent
    <2>2. CASE Registry!MayFire
      <3>1. Registry!fireContentLoadedEvent
        BY <1>7, <2>2 DEF Registry!LoadEvent
      <3>2. RegistryInv'
        BY <2>1, <3>1, FiredLoads
      <3>3. Registry!CallIsMeant
        BY <3>1, SameRegistry DEF Registry!fireContentLoadedEvent, Registry!CallIsMeant
      <3> QED BY <3>2, <3>3
    <2>3. CASE ~Registry!MayFire
      <3>1. UNCHANGED <<cache, listeners, dispatch, made, called, loaded, poll, loadings>>
        BY <1>7, <2>3 DEF Registry!LoadEvent
      <3>2. RegistryTypes'
        <4>1. reentered' \in BOOLEAN /\ loadEvent' \in BOOLEAN
          BY <2>1
        <4> QED BY <1>t, <3>1, <4>1 DEF RegistryTypes
      <3>3. Registry!RegistryMatches' /\ OneOfEach' /\ Registry!CallIsMeant
        BY <3>1, SameRegistry DEF Registry!RegistryMatches, OneOfEach, Registry!CallIsMeant
      <3>4. LoadingsInv'
        BY <2>1, <3>1 DEF LoadingsInv, LoadedSoon
      <3> QED BY <3>2, <3>3, <3>4
    <2> QED BY <2>2, <2>3
  <1>8. CASE Registry!Over
    <2>1. /\ dispatch # << >> /\ dispatch' = Front(dispatch)
          /\ loaded' = (loaded \/ Last(dispatch).load)
          /\ UNCHANGED <<cache, listeners, made, called, poll, loadEvent, loadings, reentered>>
      BY <1>8, SameRegistry DEF Registry!Over, Registry!LoadedAfter
    <2>2. Last(dispatch) \in Dispatches /\ Len(dispatch) >= 1
          /\ Last(dispatch) = dispatch[Len(dispatch)]
      BY <1>t, <2>1 DEF Last
    <2>3. /\ dispatch' \in Seq(Dispatches) /\ Len(dispatch') = Len(dispatch) - 1
          /\ \A i \in 1 .. Len(dispatch) - 1 : dispatch'[i] = dispatch[i]
      <3>1. dispatch' = [i \in 1 .. Len(dispatch) - 1 |-> dispatch[i]]
        BY <1>t, <2>1, <2>2 DEF Front
      <3> QED BY <1>t, <2>2, <3>1
    <2>4. loaded' \in BOOLEAN /\ Len(dispatch') <= MaxNested
      <3>1. Last(dispatch).load \in BOOLEAN
        BY <2>2 DEF Dispatches
      <3>2. Len(dispatch') <= MaxNested
        BY <1>t, <2>3
      <3> QED BY <2>1, <3>1, <3>2
    <2>5. RegistryTypes'
      BY <1>t, <2>1, <2>3, <2>4 DEF RegistryTypes
    <2>6. Registry!RegistryMatches' /\ OneOfEach' /\ Registry!CallIsMeant
      BY <2>1, SameRegistry DEF Registry!RegistryMatches, OneOfEach, Registry!CallIsMeant
    <2>7. LoadedSoon => LoadedSoon'
      <3> SUFFICES ASSUME LoadedSoon, ~loaded' PROVE \E i \in DOMAIN dispatch' : dispatch'[i].load
        BY DEF LoadedSoon
      <3>1. ~loaded /\ ~dispatch[Len(dispatch)].load
        BY <2>1, <2>2
      <3>2. PICK i \in DOMAIN dispatch : dispatch[i].load
        BY <3>1 DEF LoadedSoon
      <3>3. i \in 1 .. Len(dispatch) - 1
        BY <1>t, <3>1, <3>2
      <3>4. i \in DOMAIN dispatch'
        BY <2>3, <3>3
      <3> QED BY <2>3, <3>2, <3>3, <3>4
    <2>8. LoadingsInv'
      BY <2>1, <2>7 DEF LoadingsInv
    <2> QED BY <2>5, <2>6, <2>8
  <1> QED BY <1>1, <1>2, <1>3, <1>4, <1>5, <1>6, <1>7, <1>8 DEF Registry!Next

(* It holds at the beginning                                               *)
LEMMA RegistryInit ==
    ASSUME RegistryBounds, Registry!Init
    PROVE  RegistryInv
  <1>1. cache = [e \in Registry!Events |-> << >>] /\ listeners = << >> /\ dispatch = << >>
        /\ made = 0 /\ loadings = 0
    BY DEF Registry!Init
  <1>2. cache \in [Registry!Events -> Seq(Wrappers)] /\ listeners \in Seq(Wrappers)
        /\ dispatch \in Seq(Dispatches) /\ Len(listeners) = 0 /\ Len(dispatch) = 0
    BY <1>1
  <1>3. RegistryTypes
    <2>1. loaded \in BOOLEAN /\ poll \in BOOLEAN /\ loadEvent \in BOOLEAN
          /\ reentered \in BOOLEAN
      BY DEF Registry!Init
    <2>2. made \in 0 .. MaxWrappers /\ loadings \in Nat /\ Len(listeners) <= made
          /\ Len(dispatch) <= MaxNested
      BY <1>1, <1>2 DEF RegistryBounds
    <2> QED BY <1>2, <2>1, <2>2 DEF RegistryTypes
  <1>4. Registry!RegistryMatches
    <2>1. \A W : Without(listeners, W) = << >>
      BY <1>1, WithoutNone
    <2>2. \A e \in Registry!Events : cache[e] = << >>
      BY <1>1
    <2> QED BY <2>1, <2>2, SameRegistry DEF Registry!RegistryMatches
  <1>5. OneOfEach
    <2>1. \A e \in Registry!Events : ToSet(cache[e]) = {}
      BY <1>1, ElementsOf
    <2> QED BY <2>1 DEF OneOfEach
  <1>6. LoadingsInv
    BY <1>1 DEF Registry!Init, LoadingsInv
  <1> QED BY <1>3, <1>4, <1>5, <1>6 DEF RegistryInv

(* and implies what is promised.                                           *)
LEMMA RegistryInvImplies ==
    ASSUME RegistryBounds, RegistryInv
    PROVE  Registry!TypeOK /\ Registry!RegistryMatches /\ Registry!CalledOnce /\ Registry!LoadedOnce
  <1> USE DEF RegistryInv
  <1>1. ASSUME NEW e \in Registry!Events, NEW i \in DOMAIN cache[e]
        PROVE  cache[e][i].event = e /\ cache[e][i].handler \in Handlers
    <2>1. listeners \in Seq(Wrappers) /\ cache[e] \in Seq(Wrappers)
      BY DEF RegistryTypes
    <2>2. cache[e] = Without(listeners, {w \in ToSet(listeners) : w.event # e})
      BY SameRegistry DEF Registry!RegistryMatches
    <2>3. ToSet(cache[e]) = ToSet(listeners) \ {w \in ToSet(listeners) : w.event # e}
      BY <2>1, <2>2, WithoutLeaves
    <2>4. cache[e][i] \in ToSet(cache[e])
      BY DEF ToSet
    <2>5. cache[e][i] \in Wrappers
      BY <2>1
    <2>6. cache[e][i].event = e
      BY <2>3, <2>4
    <2> QED BY <2>5, <2>6 DEF Wrappers
  <1>2. Registry!TypeOK
    <2>1. Len(listeners) <= MaxWrappers
      <3>1. Len(listeners) \in Nat /\ Len(listeners) <= made /\ made \in 0 .. MaxWrappers
        BY DEF RegistryTypes
      <3> QED BY <3>1 DEF RegistryBounds
    <2> QED BY <1>1, <2>1 DEF Registry!TypeOK, RegistryTypes
  <1>3. Registry!CalledOnce
    <2>1. ASSUME NEW e \in Registry!Events, NEW h \in Handlers
          PROVE  Cardinality(Registry!findWrapper(e, h)) <= 1
      <3>1. \A v, w \in Registry!findWrapper(e, h) : v = w
        BY SameRegistry DEF Registry!findWrapper, OneOfEach
      <3>2. CASE Registry!findWrapper(e, h) = {}
        <4>1. Cardinality({}) = 0
          BY FS_EmptySet
        <4> QED BY <3>2, <4>1
      <3>3. CASE Registry!findWrapper(e, h) # {}
        <4>1. PICK w : w \in Registry!findWrapper(e, h)
          BY <3>3
        <4>2. Registry!findWrapper(e, h) = {w}
          BY <3>1, <4>1
        <4>3. Cardinality({w}) = 1
          BY FS_Singleton
        <4> QED BY <4>2, <4>3
      <3> QED BY <3>2, <3>3
    <2> QED BY <2>1, SameRegistry DEF Registry!CalledOnce
  <1>4. Registry!LoadedOnce
    BY DEF LoadingsInv, Registry!LoadedOnce
  <1> QED BY <1>2, <1>3, <1>4

-----------------------------------------------------------------------------
(* TestRunner.                                                             *)
TestRecords == [isWaiting : BOOLEAN, assertions : Nat, failures : Nat, errors : Nat]

RunnerTypes ==
    /\ Runner!TypeOK
    /\ tests \in [Runner!Tests -> TestRecords]
    /\ setups \in [Runner!Tests -> Nat] /\ teardowns \in [Runner!Tests -> Nat]
    /\ log \in [Runner!Tests -> {"none", "passed", "failed", "error"}]

(* A test is set up once it is reached and then waits or is over.            *)
OneSetup ==
    \A t \in Runner!Tests :
        /\ setups[t] = IF t < currentTest \/ (t = currentTest /\ tests[t].isWaiting)
                       THEN 1 ELSE 0
        /\ t > currentTest => ~tests[t].isWaiting

OneTeardown ==
    \A t \in Runner!Tests : t \in waitedAside \/ teardowns[t] = IF t < currentTest THEN 1 ELSE 0

(* Nothing changes what was logged and counted but what comes late.          *)
LogMatches ==
    /\ result # "none" => currentTest = NumTests + 1
    /\ late = {} => \A t \in Runner!Tests : t < currentTest => log[t] = Runner!Status(tests[t])
    /\ result # "none" /\ late = {} => result = Runner!getResult

RunnerInv ==
    RunnerTypes /\ OneSetup /\ OneTeardown /\ Runner!OneLoop /\ LogMatches

(* An assertion counts in one of the counters.                             *)
LEMMA Asserted ==
    ASSUME NEW test \in TestRecords, NEW outcome \in Runner!Outcomes
    PROVE  Runner!Assert(test, outcome) \in TestRecords
           /\ Runner!Assert(test, outcome).isWaiting = test.isWaiting
  <1>1. CASE outcome = "pass"
    BY <1>1 DEF Runner!Assert, TestRecords
  <1>2. CASE outcome = "fail"
    BY <1>2 DEF Runner!Assert, TestRecords
  <1>3. CASE outcome = "error"
    BY <1>3 DEF Runner!Assert, TestRecords
  <1> QED BY <1>1, <1>2, <1>3 DEF Runner!Outcomes

(* The status follows from the counters.                                   *)
LEMMA StatusFollows ==
    ASSUME NEW test \in TestRecords
    PROVE  /\ Runner!Status(test) \in {"passed", "failed", "error"}
           /\ Runner!Status(test) = "passed" <=> test.failures = 0 /\ test.errors = 0
  BY DEF Runner!Status, TestRecords

(* The end of a run of a test.                                             *)
LEMMA EndedIs ==
    ASSUME NEW r \in TestRecords, NEW b \in BOOLEAN, NEW n \in Nat
    PROVE  /\ [r EXCEPT !.isWaiting = b, !.errors = @ + n] \in TestRecords
           /\ [r EXCEPT !.isWaiting = b, !.errors = @ + n].isWaiting = b
  <1>1. r.errors + n \in Nat
    BY DEF TestRecords
  <1> QED BY <1>1 DEF TestRecords

(* What a run of a test, or of its next part, leaves.                        *)
LEMMA RunLeaves ==
    ASSUME RunnerTypes, NEW t \in Runner!Tests,
           NEW setup \in {"returns", "throws", "waitsAndThrows"}, NEW waits_ \in BOOLEAN,
           NEW part \in Runner!Outcomes \union {"throws"},
           NEW teardown \in {"returns", "throws", "waits", "waitsAndThrows"},
           Runner!Run(t, setup, part, waits_, teardown)
    PROVE  /\ tests' \in [Runner!Tests -> TestRecords]
           /\ setups' \in [Runner!Tests -> Nat] /\ teardowns' \in [Runner!Tests -> Nat]
           /\ \A u \in Runner!Tests \ {t} : tests'[u] = tests[u] /\ setups'[u] = setups[u]
                                     /\ teardowns'[u] = teardowns[u]
           /\ setups'[t] = setups[t] + IF tests[t].isWaiting THEN 0 ELSE 1
           /\ \/ /\ tests'[t].isWaiting /\ teardowns'[t] = teardowns[t]
                 /\ waitedAside' = waitedAside
              \/ /\ ~tests'[t].isWaiting /\ teardowns'[t] = teardowns[t] + 1
                 /\ waitedAside' = waitedAside
              \/ tests'[t].isWaiting /\ waitedAside' = waitedAside \union {t}
  <1> DEFINE sets == ~tests[t].isWaiting
             skipped == sets /\ setup # "returns"
             waiting == IF skipped THEN setup = "waitsAndThrows" ELSE waits_
             tears == Runner!NeedsTeardown(waiting)
             tearWaits == tears /\ teardown \in {"waits", "waitsAndThrows"}
             thrown == skipped \/ part = "throws"
                       \/ (tears /\ teardown \in {"throws", "waitsAndThrows"})
             asserted == IF skipped \/ part = "throws" THEN tests[t] ELSE Runner!Assert(tests[t], part)
             left == [asserted EXCEPT !.isWaiting = waiting \/ tearWaits,
                                       !.errors = @ + IF thrown THEN 1 ELSE 0]
  <1>1. tests[t] \in TestRecords /\ tests \in [Runner!Tests -> TestRecords]
        /\ setups \in [Runner!Tests -> Nat] /\ teardowns \in [Runner!Tests -> Nat]
    BY DEF RunnerTypes
  <1>2. asserted \in TestRecords
    BY <1>1, Asserted
  <1>3. /\ setups' = [setups EXCEPT ![t] = @ + IF sets THEN 1 ELSE 0]
        /\ teardowns' = [teardowns EXCEPT ![t] = @ + IF tears THEN 1 ELSE 0]
        /\ tests' = [tests EXCEPT ![t] = left]
        /\ waitedAside' = IF tearWaits THEN waitedAside \union {t} ELSE waitedAside
    BY DEF Runner!Run
  <1>4. tears <=> ~waiting
    BY DEF Runner!NeedsTeardown
  <1>5. (waiting \/ tearWaits) \in BOOLEAN /\ tears \in BOOLEAN /\ sets \in BOOLEAN
    BY <1>1, <1>4 DEF TestRecords, Runner!NeedsTeardown
  <1>14. tearWaits <=> tears /\ teardown \in {"waits", "waitsAndThrows"}
    OBVIOUS
  <1> HIDE DEF tears, thrown, asserted, waiting, tearWaits
  <1>6. left \in TestRecords
        /\ left.isWaiting = (waiting \/ tearWaits)
    <2> DEFINE b == waiting \/ tearWaits
               n == IF thrown THEN 1 ELSE 0
    <2>1. b \in BOOLEAN /\ n \in Nat
      BY <1>5
    <2>2. left = [asserted EXCEPT !.isWaiting = b, !.errors = @ + n]
      OBVIOUS
    <2> HIDE DEF b, n, left
    <2>3. left \in TestRecords /\ left.isWaiting = b
      BY <1>2, <2>1, <2>2, EndedIs
    <2> QED BY <2>3 DEF b
  <1> HIDE DEF left
  <1>7. tests' \in [Runner!Tests -> TestRecords] /\ tests'[t] = left
        /\ \A u \in Runner!Tests \ {t} : tests'[u] = tests[u]
    BY <1>1, <1>3, <1>6
  <1>8. setups' \in [Runner!Tests -> Nat] /\ teardowns' \in [Runner!Tests -> Nat]
        /\ \A u \in Runner!Tests \ {t} : setups'[u] = setups[u] /\ teardowns'[u] = teardowns[u]
    BY <1>1, <1>3
  <1>9. setups'[t] = setups[t] + IF tests[t].isWaiting THEN 0 ELSE 1
    BY <1>1, <1>3
  <1>10. teardowns'[t] = teardowns[t] + IF tears THEN 1 ELSE 0
    BY <1>1, <1>3
  <1>11. CASE waiting
    <2>1. ~tears /\ ~tearWaits
      BY <1>4, <1>11, <1>14
    <2>2. tests'[t].isWaiting /\ waitedAside' = waitedAside
      BY <1>3, <1>6, <1>7, <1>11, <2>1
    <2>3. teardowns'[t] = teardowns[t]
      BY <1>1, <1>10, <2>1
    <2> QED BY <1>7, <1>8, <1>9, <2>2, <2>3
  <1>12. CASE ~waiting /\ teardown \in {"waits", "waitsAndThrows"}
    <2>1. tears /\ tearWaits
      BY <1>4, <1>12, <1>14
    <2>2. tests'[t].isWaiting /\ waitedAside' = waitedAside \union {t}
      BY <1>3, <1>6, <1>7, <1>12, <2>1
    <2> QED BY <1>7, <1>8, <1>9, <2>2
  <1>13. CASE ~waiting /\ teardown \notin {"waits", "waitsAndThrows"}
    <2>1. tears /\ ~tearWaits
      BY <1>4, <1>13, <1>14
    <2>2. ~tests'[t].isWaiting /\ waitedAside' = waitedAside
      BY <1>3, <1>6, <1>7, <1>13, <2>1
    <2>3. teardowns'[t] = teardowns[t] + 1
      BY <1>1, <1>10, <2>1
    <2> QED BY <1>7, <1>8, <1>9, <2>2, <2>3
  <1> QED BY <1>11, <1>12, <1>13

(* Every step keeps the invariant.                                         *)
LEMMA RunnerStep ==
    ASSUME TestsCounted, RunnerInv, [Runner!Next]_(Runner!vars)
    PROVE  RunnerInv'
  <1> USE DEF RunnerInv
  <1>t. /\ currentTest \in 1 .. NumTests + 1 /\ testing \in BOOLEAN /\ timers \in Nat
        /\ result \in {"none", "ERROR", "FAILURE", "SUCCESS"} /\ NumTests \in Nat
        /\ tests \in [Runner!Tests -> TestRecords]
        /\ setups \in [Runner!Tests -> Nat] /\ teardowns \in [Runner!Tests -> Nat]
        /\ log \in [Runner!Tests -> {"none", "passed", "failed", "error"}]
    BY DEF RunnerTypes, Runner!TypeOK, TestsCounted
  <1>1. CASE UNCHANGED Runner!vars
    BY <1>1 DEF Runner!vars, RunnerTypes, Runner!TypeOK, OneSetup, OneTeardown,
                Runner!OneLoop, LogMatches,
                Runner!getResult
  <1>2. CASE Runner!Timer
    <2>1. timers > 0 /\ ~testing /\ timers' = timers - 1 /\ testing' = TRUE
          /\ UNCHANGED <<tests, currentTest, result, log, setups, teardowns, late,
                         waitedAside>>
      BY <1>2 DEF Runner!Timer
    <2>2. RunnerTypes'
      BY <1>t, <2>1 DEF RunnerTypes, Runner!TypeOK
    <2>3. Runner!OneLoop'
      BY <1>t, <2>1 DEF Runner!OneLoop
    <2>4. OneSetup' /\ OneTeardown' /\ LogMatches'
      BY <2>1 DEF OneSetup, OneTeardown, LogMatches, Runner!getResult
    <2> QED BY <2>2, <2>3, <2>4
  <1>3. CASE Runner!RunTest
    <2> DEFINE t == currentTest
    <2>1. testing /\ currentTest <= NumTests /\ UNCHANGED <<result, late, lates>>
      BY <1>3 DEF Runner!RunTest
    <2>2. PICK setup \in {"returns", "throws", "waitsAndThrows"}, waits_ \in BOOLEAN,
               part \in Runner!Outcomes \union {"throws"},
               teardown \in {"returns", "throws", "waits", "waitsAndThrows"} :
            Runner!Run(currentTest, setup, part, waits_, teardown)
      BY <1>3 DEF Runner!RunTest
    <2>3. \/ /\ tests'[t].isWaiting /\ testing' = FALSE /\ timers' = timers + 1
             /\ UNCHANGED <<currentTest, log>>
          \/ /\ ~tests'[t].isWaiting /\ testing' = TRUE /\ timers' = timers
             /\ log' = [log EXCEPT ![t] = Runner!Status(tests'[t])]
             /\ currentTest' = currentTest + 1
      BY <1>3 DEF Runner!RunTest, Runner!GoesOn
    <2>4. t \in Runner!Tests
      BY <1>t, <2>1 DEF Runner!Tests
    <2>5. /\ tests' \in [Runner!Tests -> TestRecords]
          /\ setups' \in [Runner!Tests -> Nat] /\ teardowns' \in [Runner!Tests -> Nat]
          /\ \A u \in Runner!Tests \ {t} : tests'[u] = tests[u] /\ setups'[u] = setups[u]
                                    /\ teardowns'[u] = teardowns[u]
          /\ setups'[t] = setups[t] + IF tests[t].isWaiting THEN 0 ELSE 1
          /\ \/ /\ tests'[t].isWaiting /\ teardowns'[t] = teardowns[t]
                /\ waitedAside' = waitedAside
             \/ /\ ~tests'[t].isWaiting /\ teardowns'[t] = teardowns[t] + 1
                /\ waitedAside' = waitedAside
             \/ tests'[t].isWaiting /\ waitedAside' = waitedAside \union {t}
      BY <2>2, <2>4, RunLeaves
    <2>6. result = "none" /\ timers = 0
      BY <1>t, <2>1 DEF Runner!OneLoop
    <2>7. setups'[t] = 1
      BY <1>t, <2>4, <2>5 DEF OneSetup
    <2>8. tests'[t] \in TestRecords
      BY <2>4, <2>5
    <2>9. Runner!Status(tests'[t]) \in {"passed", "failed", "error"}
      BY <2>8, StatusFollows
    <2> HIDE DEF t
    <2>10. t = currentTest /\ t \in Int
      BY <1>t DEF t
    <2>11. \A u \in Runner!Tests : u \in Int
      BY DEF Runner!Tests
    <2>12. CASE tests'[t].isWaiting
      <3>1. testing' = FALSE /\ timers' = timers + 1 /\ UNCHANGED <<currentTest, log>>
        BY <2>3, <2>12
      <3>2. \/ teardowns'[t] = teardowns[t] /\ waitedAside' = waitedAside
            \/ waitedAside' = waitedAside \union {t}
        BY <2>5, <2>12
      <3>3. Runner!OneLoop'
        BY <1>t, <2>1, <2>6, <3>1 DEF Runner!OneLoop
      <3>4. RunnerTypes'
        <4>0. result' = result
          BY <2>1
        <4>1. /\ timers' \in Nat /\ testing' \in BOOLEAN
              /\ currentTest' = currentTest /\ result' = result /\ log' = log
          <5>1. timers' \in Nat
            BY <1>t, <3>1
          <5>2. testing' \in BOOLEAN
            BY <3>1
          <5> QED BY <3>1, <4>0, <5>1, <5>2
        <4>2. Runner!TypeOK'
          BY <1>t, <2>5, <4>1 DEF Runner!TypeOK, TestRecords
        <4> QED BY <1>t, <2>5, <4>1, <4>2 DEF RunnerTypes
      <3>5. OneSetup'
        <4>1. ASSUME NEW u \in Runner!Tests
              PROVE  /\ setups'[u] = IF u < currentTest' \/ (u = currentTest' /\ tests'[u].isWaiting)
                                     THEN 1 ELSE 0
                     /\ u > currentTest' => ~tests'[u].isWaiting
          <5>1. CASE u = t
            BY <2>7, <2>10, <2>12, <3>1, <5>1
          <5>2. CASE u # t
            <6>1. setups'[u] = setups[u] /\ tests'[u] = tests[u] /\ currentTest' = currentTest
              BY <2>5, <3>1, <5>2
            <6> QED BY <6>1 DEF OneSetup
          <5> QED BY <5>1, <5>2
        <4> QED BY <4>1 DEF OneSetup
      <3>6. OneTeardown'
        <4>1. ASSUME NEW u \in Runner!Tests
              PROVE  u \in waitedAside' \/ teardowns'[u] = IF u < currentTest' THEN 1 ELSE 0
          <5>1. CASE u = t
            BY <2>10, <3>1, <3>2, <5>1 DEF OneTeardown
          <5>2. CASE u # t
            <6>1. teardowns'[u] = teardowns[u] /\ currentTest' = currentTest
                  /\ (u \in waitedAside => u \in waitedAside')
              BY <2>5, <3>1, <3>2, <5>2
            <6> QED BY <6>1 DEF OneTeardown
          <5> QED BY <5>1, <5>2
        <4> QED BY <4>1 DEF OneTeardown
      <3>7. LogMatches'
        <4>1. ASSUME NEW u \in Runner!Tests, u < currentTest', late' = {}
              PROVE  log'[u] = Runner!Status(tests'[u])
          <5>1. u < currentTest /\ u # t /\ late = {} /\ log'[u] = log[u]
            BY <2>1, <2>10, <2>11, <3>1, <4>1
          <5>2. tests'[u] = tests[u]
            BY <2>5, <5>1
          <5> QED BY <5>1, <5>2 DEF LogMatches
        <4> QED BY <2>1, <2>6, <4>1 DEF LogMatches
      <3> QED BY <3>3, <3>4, <3>5, <3>6, <3>7
    <2>13. CASE ~tests'[t].isWaiting
      <3>1. testing' = TRUE /\ timers' = timers /\ currentTest' = currentTest + 1
            /\ log' = [log EXCEPT ![t] = Runner!Status(tests'[t])]
        BY <2>3, <2>13
      <3>2. teardowns'[t] = teardowns[t] + 1 /\ waitedAside' = waitedAside
        BY <2>5, <2>13
      <3>3. Runner!OneLoop'
        BY <1>t, <2>1, <2>6, <3>1 DEF Runner!OneLoop
      <3>4. RunnerTypes'
        <4>1. /\ timers' \in Nat /\ testing' \in BOOLEAN
              /\ currentTest' \in 1 .. NumTests + 1 /\ result' = result
          BY <1>t, <2>1, <3>1
        <4>2. log' \in [Runner!Tests -> {"none", "passed", "failed", "error"}]
          BY <1>t, <2>9, <3>1
        <4>3. Runner!TypeOK'
          BY <1>t, <2>5, <4>1 DEF Runner!TypeOK, TestRecords
        <4> QED BY <1>t, <2>5, <4>2, <4>3 DEF RunnerTypes
      <3>5. OneSetup'
        <4>1. ASSUME NEW u \in Runner!Tests
              PROVE  /\ setups'[u] = IF u < currentTest' \/ (u = currentTest' /\ tests'[u].isWaiting)
                                     THEN 1 ELSE 0
                     /\ u > currentTest' => ~tests'[u].isWaiting
          <5>1. CASE u = t
            BY <2>7, <2>10, <3>1, <5>1
          <5>2. CASE u # t
            <6>1. setups'[u] = setups[u] /\ tests'[u] = tests[u]
              BY <2>5, <5>2
            <6>2. /\ setups[u] = IF u < currentTest \/ (u = currentTest /\ tests[u].isWaiting)
                                 THEN 1 ELSE 0
                  /\ u > currentTest => ~tests[u].isWaiting
              BY DEF OneSetup
            <6>3. CASE u < currentTest
              BY <2>10, <2>11, <3>1, <6>1, <6>2, <6>3
            <6>4. CASE u > currentTest
              BY <2>10, <2>11, <3>1, <6>1, <6>2, <6>4
            <6> QED BY <2>10, <2>11, <5>2, <6>3, <6>4
          <5> QED BY <5>1, <5>2
        <4> QED BY <4>1 DEF OneSetup
      <3>6. OneTeardown'
        <4>1. ASSUME NEW u \in Runner!Tests
              PROVE  u \in waitedAside' \/ teardowns'[u] = IF u < currentTest' THEN 1 ELSE 0
          <5>1. u \in waitedAside \/ teardowns[u] = IF u < currentTest THEN 1 ELSE 0
            BY DEF OneTeardown
          <5>2. CASE u = t
            BY <2>10, <3>1, <3>2, <5>1, <5>2
          <5>3. CASE u # t
            <6>1. teardowns'[u] = teardowns[u]
              BY <2>5, <5>3
            <6> QED BY <2>10, <2>11, <3>1, <3>2, <5>1, <5>3, <6>1
          <5> QED BY <5>2, <5>3
        <4> QED BY <4>1 DEF OneTeardown
      <3>7. LogMatches'
        <4>1. ASSUME NEW u \in Runner!Tests, u < currentTest', late' = {}
              PROVE  log'[u] = Runner!Status(tests'[u])
          <5>1. CASE u = t
            BY <1>t, <3>1, <5>1
          <5>2. CASE u # t
            <6>1. u < currentTest /\ log'[u] = log[u] /\ tests'[u] = tests[u] /\ late = {}
              BY <1>t, <2>1, <2>5, <2>10, <2>11, <3>1, <4>1, <5>2
            <6> QED BY <6>1 DEF LogMatches
          <5> QED BY <5>1, <5>2
        <4> QED BY <2>1, <2>6, <4>1 DEF LogMatches
      <3> QED BY <3>3, <3>4, <3>5, <3>6, <3>7
    <2> QED BY <2>12, <2>13
  <1>4. CASE Runner!Finish
    <2>1. testing /\ currentTest > NumTests /\ result' = Runner!getResult /\ testing' = FALSE
          /\ UNCHANGED <<tests, currentTest, timers, log, setups, teardowns, late,
                         waitedAside>>
      BY <1>4 DEF Runner!Finish
    <2>2. result' \in {"ERROR", "FAILURE", "SUCCESS"} /\ result' # "none"
      BY <2>1 DEF Runner!getResult
    <2>3. RunnerTypes'
      BY <1>t, <2>1, <2>2 DEF RunnerTypes, Runner!TypeOK
    <2>4. Runner!OneLoop'
      BY <1>t, <2>1, <2>2 DEF Runner!OneLoop
    <2>5. OneSetup' /\ OneTeardown'
      BY <2>1 DEF OneSetup, OneTeardown
    <2>6. Runner!getResult' = Runner!getResult /\ currentTest' = NumTests + 1
      BY <1>t, <2>1 DEF Runner!getResult
    <2>7. LogMatches'
      BY <2>1, <2>6 DEF LogMatches
    <2> QED BY <2>3, <2>4, <2>5, <2>7
  <1>5. CASE Runner!LateAssert \/ Runner!LateWait
    <2>1. PICK t \in Runner!Tests : Runner!Late(t) /\
            ((\E outcome \in Runner!Outcomes : tests' = [tests EXCEPT ![t] = Runner!Assert(@, outcome)])
             \/ tests' = [tests EXCEPT ![t].isWaiting = TRUE])
      BY <1>5 DEF Runner!LateAssert, Runner!LateWait
    <2>2. setups[t] > 0 /\ late' = late \union {t} /\ late' # {}
          /\ UNCHANGED <<currentTest, testing, timers, result, log, setups, teardowns,
                         waitedAside>>
      BY <2>1 DEF Runner!Late
    <2>3. tests[t] \in TestRecords
      BY <1>t
    <2>4. PICK r \in TestRecords : tests' = [tests EXCEPT ![t] = r]
                                   /\ (r.isWaiting = tests[t].isWaiting \/ r.isWaiting)
      <3>1. CASE \E outcome \in Runner!Outcomes : tests' = [tests EXCEPT ![t] = Runner!Assert(@, outcome)]
        <4>1. PICK outcome \in Runner!Outcomes : tests' = [tests EXCEPT ![t] = Runner!Assert(tests[t], outcome)]
          BY <3>1
        <4> QED BY <2>3, <4>1, Asserted
      <3>2. CASE tests' = [tests EXCEPT ![t].isWaiting = TRUE]
        <4>1. [tests[t] EXCEPT !.isWaiting = TRUE] \in TestRecords
              /\ [tests[t] EXCEPT !.isWaiting = TRUE].isWaiting
          BY <2>3 DEF TestRecords
        <4>2. tests' = [tests EXCEPT ![t] = [tests[t] EXCEPT !.isWaiting = TRUE]]
          BY <3>2
        <4> QED BY <4>1, <4>2
      <3> QED BY <2>1, <3>1, <3>2
    <2>5. tests' \in [Runner!Tests -> TestRecords] /\ tests'[t] = r
          /\ \A u \in Runner!Tests \ {t} : tests'[u] = tests[u]
      BY <1>t, <2>4
    <2>6. RunnerTypes'
      <3>1. Runner!TypeOK'
        BY <1>t, <2>2, <2>5 DEF Runner!TypeOK, TestRecords
      <3> QED BY <1>t, <2>2, <2>5, <3>1 DEF RunnerTypes
    <2>7. t < currentTest \/ (t = currentTest /\ tests[t].isWaiting)
      BY <2>2 DEF OneSetup
    <2>8. OneSetup'
      <3>1. ASSUME NEW u \in Runner!Tests
            PROVE  /\ setups'[u] = IF u < currentTest' \/ (u = currentTest' /\ tests'[u].isWaiting)
                                   THEN 1 ELSE 0
                   /\ u > currentTest' => ~tests'[u].isWaiting
        <4>1. u \in Int /\ currentTest \in Int
          BY <1>t DEF Runner!Tests
        <4>2. CASE u = t
          <5>1. t < currentTest \/ (t = currentTest /\ tests'[t].isWaiting)
            BY <2>4, <2>5, <2>7
          <5>2. setups[t] = 1
            BY <2>7 DEF OneSetup
          <5> QED BY <2>2, <4>1, <4>2, <5>1, <5>2
        <4>3. CASE u # t
          <5>1. tests'[u] = tests[u]
            BY <2>5, <4>3
          <5> QED BY <2>2, <5>1 DEF OneSetup
        <4> QED BY <4>2, <4>3
      <3> QED BY <3>1 DEF OneSetup
    <2>9. OneTeardown' /\ Runner!OneLoop' /\ LogMatches'
      BY <2>2 DEF OneTeardown, Runner!OneLoop, LogMatches
    <2> QED BY <2>6, <2>8, <2>9
  <1> QED BY <1>1, <1>2, <1>3, <1>4, <1>5 DEF Runner!Next

(* It holds at the beginning                                               *)
LEMMA RunnerInit ==
    ASSUME TestsCounted, Runner!Init
    PROVE  RunnerInv
  <1>1. Runner!Fresh \in TestRecords /\ ~Runner!Fresh.isWaiting
    BY DEF Runner!Fresh, TestRecords
  <1>2. tests \in [Runner!Tests -> TestRecords] /\ \A t \in Runner!Tests : ~tests[t].isWaiting
    BY <1>1 DEF Runner!Init
  <1>3. NumTests \in Nat /\ currentTest = 1 /\ result = "none" /\ timers = 1
        /\ testing = FALSE
    BY DEF Runner!Init, TestsCounted
  <1>4. Runner!TypeOK
    <2>1. \A t \in Runner!Tests : tests[t] \in TestRecords
      BY <1>2
    <2>2. \A t \in Runner!Tests : /\ tests[t].isWaiting \in BOOLEAN /\ tests[t].assertions \in Nat
                                  /\ tests[t].failures \in Nat /\ tests[t].errors \in Nat
      BY <2>1 DEF TestRecords
    <2>3. testing \in BOOLEAN
      BY <1>3
    <2>4. currentTest \in 1 .. NumTests + 1 /\ timers \in Nat
          /\ result \in {"none", "ERROR", "FAILURE", "SUCCESS"}
      BY <1>3
    <2> QED BY <2>2, <2>3, <2>4 DEF Runner!TypeOK
  <1>5. RunnerTypes
    BY <1>2, <1>4 DEF Runner!Init, RunnerTypes
  <1>6. OneSetup /\ OneTeardown
    BY <1>2, <1>3 DEF Runner!Init, OneSetup, OneTeardown, Runner!Tests
  <1>7. Runner!OneLoop
    BY <1>3 DEF Runner!OneLoop
  <1>8. LogMatches
    BY <1>3 DEF LogMatches, Runner!Tests
  <1> QED BY <1>5, <1>6, <1>7, <1>8 DEF RunnerInv

(* and implies what is promised.                                           *)
LEMMA RunnerInvImplies ==
    ASSUME TestsCounted, RunnerInv
    PROVE  Runner!TypeOK /\ Runner!SetupsAndTeardownsPair /\ Runner!OneLoop /\ Runner!ResultMatchesLog
  <1>1. Runner!TypeOK /\ Runner!OneLoop
    BY DEF RunnerInv, RunnerTypes
  <1>2. Runner!SetupsAndTeardownsPair
    <2>1. \A t \in Runner!Tests : setups[t] <= 1
      BY DEF RunnerInv, OneSetup
    <2> QED BY <2>1 DEF RunnerInv, OneTeardown, Runner!SetupsAndTeardownsPair, Runner!Over
  <1>3. Runner!ResultMatchesLog
    <2> SUFFICES ASSUME result # "none", late = {}
                 PROVE  (result = "SUCCESS") <=> (\A t \in Runner!Tests : log[t] = "passed")
      BY DEF Runner!ResultMatchesLog
    <2>1. result = Runner!getResult /\ currentTest = NumTests + 1
          /\ \A t \in Runner!Tests : t < currentTest => log[t] = Runner!Status(tests[t])
      BY DEF RunnerInv, LogMatches
    <2>2. \A t \in Runner!Tests : log[t] = Runner!Status(tests[t])
      BY <2>1 DEF Runner!Tests, TestsCounted
    <2>3. \A t \in Runner!Tests : tests[t].errors \in Nat /\ tests[t].failures \in Nat
                           /\ (log[t] = "passed" <=> tests[t].failures = 0 /\ tests[t].errors = 0)
      <3>1. \A t \in Runner!Tests : tests[t] \in TestRecords
        BY DEF RunnerInv, RunnerTypes
      <3> QED BY <2>2, <3>1, StatusFollows DEF TestRecords
    <2>4. result = "SUCCESS" <=> \A t \in Runner!Tests : ~(tests[t].errors > 0) /\ ~(tests[t].failures > 0)
      BY <2>1 DEF Runner!getResult
    <2> QED BY <2>3, <2>4
  <1> QED BY <1>1, <1>2, <1>3

-----------------------------------------------------------------------------
(* MasterServerGui.                                                        *)
(* While a test is done useNat is what it found, until a game is joined.      *)
GuiInv ==
    /\ Gui!TypeOK
    /\ Gui!ProbesMatch
    /\ doneTesting /\ ~connected /\ network # "broken" => useNat = (network # "public")

(* What is displayed of the network.                                       *)
LEMMA StatusIs ==
    ASSUME KnownNetworks, Gui!TypeOK
    PROVE  /\ Gui!natCapable = "Error" => network = "broken"
           /\ Gui!natCapable = "PublicIPIsConnectable" => network = "public"
           /\ Gui!natCapable \in {"PrivateIPNoNATPunchthrough", "PrivateIPHasNATPunchThrough",
                              "PublicIPPortBlocked"} => network # "public"
  <1>1. network \in {"private", "private, closed", "public", "firewall",
                     "firewall, closed", "broken"}
    BY DEF KnownNetworks, Gui!TypeOK
  <1>2. CASE network = "private"
    BY <1>2 DEF Gui!natCapable
  <1>3. CASE network = "private, closed"
    BY <1>3 DEF Gui!natCapable
  <1>4. CASE network = "public"
    BY <1>4 DEF Gui!natCapable
  <1>5. CASE network = "firewall"
    BY <1>5 DEF Gui!natCapable
  <1>6. CASE network = "firewall, closed"
    BY <1>6 DEF Gui!natCapable
  <1>7. CASE network = "broken"
    BY <1>7 DEF Gui!natCapable
  <1> QED BY <1>1, <1>2, <1>3, <1>4, <1>5, <1>6, <1>7

(* Every step keeps the invariant.                                         *)
LEMMA GuiStep ==
    ASSUME KnownNetworks, GuiInv, [Gui!Next]_(Gui!vars)
    PROVE  GuiInv' /\ (Gui!Next => Gui!StartUsesTest)
  <1> USE DEF GuiInv, Gui!TypeOK, Gui!ProbesMatch, Gui!StartUsesTest, Gui!session, Gui!external
  <1>1. CASE UNCHANGED Gui!vars
    BY <1>1 DEF Gui!vars
  <1>2. CASE Gui!Answer
    BY <1>2 DEF Gui!Answer
  <1>3. CASE Gui!TestsError
    BY <1>3, StatusIs DEF Gui!TestsError, Gui!Poll
  <1>4. CASE Gui!FindsNoPunchthrough
    BY <1>4, StatusIs DEF Gui!FindsNoPunchthrough, Gui!Poll
  <1>5. CASE Gui!FindsPunchthrough
    BY <1>5, StatusIs DEF Gui!FindsPunchthrough, Gui!Poll
  <1>6. CASE Gui!FindsConnectable
    BY <1>6, StatusIs DEF Gui!FindsConnectable, Gui!Poll
  <1>7. CASE Gui!FindsPortBlocked
    BY <1>7, StatusIs DEF Gui!FindsPortBlocked, Gui!Poll
  <1>8. CASE Gui!StillBlocked
    BY <1>8, StatusIs DEF Gui!StillBlocked, Gui!Poll, Gui!GivesUp
  <1>9. CASE Gui!TimePasses
    BY <1>9 DEF Gui!TimePasses
  <1>10. CASE Gui!Retest
    BY <1>10 DEF Gui!Retest, Gui!Reset
  <1>11. CASE Gui!StartServer
    BY <1>11 DEF Gui!StartServer
  <1>12. CASE Gui!Connect
    BY <1>12 DEF Gui!Connect, Gui!Listed
  <1>13. CASE Gui!Disconnect
    BY <1>13 DEF Gui!Disconnect
  <1> QED BY <1>1, <1>2, <1>3, <1>4, <1>5, <1>6, <1>7, <1>8, <1>9, <1>10, <1>11, <1>12,
             <1>13
          DEF Gui!Next, Gui!Update

(* It holds at the beginning.                                              *)
LEMMA GuiInit ==
    ASSUME KnownNetworks, Gui!Init
    PROVE  GuiInv
  BY DEF Gui!Init, GuiInv, Gui!TypeOK, Gui!ProbesMatch

-----------------------------------------------------------------------------
(* Ajax.                                                                   *)
(* The instance has the library's operators under names of its own.         *)
LEMMA SameRequests ==
    /\ \A S : Requests!Cardinality(S) = Cardinality(S)
  <1>1. \A S : Requests!Cardinality(S) = Cardinality(S)
    BY DEF Requests!Cardinality, Cardinality
  <1> QED BY <1>1

(* What is known of a request by how far it has come.                         *)
RequestStates ==
    \A r \in Requests!Requests :
        /\ complete[r] => sent[r]
        /\ sent[r] => kind[r] # "none"
        /\ sent[r] /\ ~complete[r] => ready[r] \in 1 .. 3 /\ answers[r] = <<>>
        /\ complete[r] => ready[r] = 4
        /\ kind[r] # "rpc" => answers[r] = <<>>
        /\ r \in threw => complete[r]

(* Requests are numbered in the order they are created.                       *)
InTurn == \A r, q \in Requests!Requests : kind[r] # "none" /\ q < r => kind[q] # "none"

(* Of the updater's requests only the last one can still be under way and not *)
(* silenced, and the container shows none that is later.                      *)
LastUpdater ==
    /\ polling => updater # 0 /\ updater \notin silenced
    /\ updater # 0 => kind[updater] = "update"
    /\ \A r \in silenced : kind[r] = "update"
    /\ Requests!Loops \subseteq {updater}
    /\ timer => polling /\ Requests!Loops = {}
    /\ polling => timer \/ Requests!Loops = {updater} \/ updater \in threw \union Requests!Failed
    /\ ~polling => Requests!Loops = {}
    /\ content <= updater

RequestInv ==
    /\ Requests!TypeOK /\ RequestStates /\ InTurn /\ LastUpdater
    /\ Requests!CountsOpenRequests /\ Requests!AnsweredOnce

CountedFailed == {r \in Requests!Failed : answers[r] = <<>>}
ThrewUpdates == {r \in threw : kind[r] = "update"}

-----------------------------------------------------------------------------
(* Counting requests: one more, one less.                                  *)
LEMMA RequestSets ==
    ASSUME RequestBounds
    PROVE  \A S \in SUBSET Requests!Requests :
              /\ IsFiniteSet(S) /\ Cardinality(S) \in Nat
              /\ \A r \in Requests!Requests \ S : Cardinality(S \union {r}) = Cardinality(S) + 1
              /\ \A r \in S : Cardinality(S \ {r}) = Cardinality(S) - 1
  <1> SUFFICES ASSUME NEW S \in SUBSET Requests!Requests
      PROVE  /\ IsFiniteSet(S) /\ Cardinality(S) \in Nat
             /\ \A r \in Requests!Requests \ S : Cardinality(S \union {r}) = Cardinality(S) + 1
             /\ \A r \in S : Cardinality(S \ {r}) = Cardinality(S) - 1
    OBVIOUS
  <1>1. IsFiniteSet(Requests!Requests)
    BY FS_Interval DEF RequestBounds, Requests!Requests
  <1>2. IsFiniteSet(S)
    BY <1>1, FS_Subset
  <1>3. Cardinality(S) \in Nat
    BY <1>2, FS_CardinalityType
  <1>4. ASSUME NEW r \in Requests!Requests \ S
        PROVE  Cardinality(S \union {r}) = Cardinality(S) + 1
    BY <1>2, <1>4, FS_AddElement
  <1>5. ASSUME NEW r \in S
        PROVE  Cardinality(S \ {r}) = Cardinality(S) - 1
    BY <1>2, <1>5, FS_RemoveElement
  <1> QED BY <1>2, <1>3, <1>4, <1>5

(* The set of requests each summand of the count stands for.                  *)
LEMMA CountIs ==
    /\ Requests!CountsOpenRequests <=>
        activeRequests = Cardinality(Requests!Open) + Cardinality(CountedFailed) + Cardinality(ThrewUpdates)
    /\ Requests!Open \in SUBSET Requests!Requests /\ CountedFailed \in SUBSET Requests!Requests
    /\ Requests!TypeOK => ThrewUpdates \in SUBSET Requests!Requests
  BY SameRequests DEF Requests!CountsOpenRequests, Requests!Open, CountedFailed,
                      ThrewUpdates, Requests!Created, Requests!Failed, Requests!TypeOK

(* A request that is created is counted, wherever it fails.                   *)
LEMMA CreateKeeps ==
    ASSUME RequestBounds, RequestInv,
           NEW r \in Requests!Requests, NEW k \in {"rpc", "update"}, NEW o \in Requests!Outcomes,
           Requests!CreateRequest(r, k, o),
           UNCHANGED <<Requests!answerVars, silenced>>
    PROVE  /\ kind' \in [Requests!Requests -> {"none", "rpc", "update"}]
           /\ ready' \in [Requests!Requests -> 0 .. 4]
           /\ sent' \in [Requests!Requests -> BOOLEAN] /\ loading' \in [Requests!Requests -> BOOLEAN]
           /\ activeRequests' \in Nat
           /\ RequestStates' /\ InTurn' /\ Requests!CountsOpenRequests' /\ Requests!AnsweredOnce'
           /\ kind[r] = "none" /\ r \notin threw
           /\ \A q \in Requests!Requests : kind'[q] = IF q = r THEN k ELSE kind[q]
           /\ \A q \in Requests!Requests : q >= r => kind[q] = "none"
           /\ Requests!Loops' = IF k = "update" /\ o = "sent" /\ r \notin silenced
                       THEN Requests!Loops \union {r} ELSE Requests!Loops
           /\ Requests!Failed' = IF o = "sent" THEN Requests!Failed ELSE Requests!Failed \union {r}
  <1> USE DEF RequestInv
  <1>1. /\ kind \in [Requests!Requests -> {"none", "rpc", "update"}]
        /\ ready \in [Requests!Requests -> 0 .. 4] /\ sent \in [Requests!Requests -> BOOLEAN]
        /\ complete \in [Requests!Requests -> BOOLEAN] /\ loading \in [Requests!Requests -> BOOLEAN]
        /\ threw \subseteq Requests!Requests /\ activeRequests \in Nat
    BY DEF Requests!TypeOK
  <1>2. /\ kind[r] = "none" /\ \A q \in Requests!Requests : q < r => kind[q] # "none"
        /\ kind' = [kind EXCEPT ![r] = k]
        /\ activeRequests' = activeRequests + 1
        /\ ready' = [ready EXCEPT ![r] = IF o = "not opened" THEN 0 ELSE 1]
        /\ loading' = [loading EXCEPT ![r] = o # "not opened"]
        /\ sent' = [sent EXCEPT ![r] = o = "sent"]
    BY DEF Requests!CreateRequest, Requests!Free
  <1>3. UNCHANGED <<complete, answers, threw, silenced>>
    BY DEF Requests!answerVars
  <1>4. /\ \A q \in Requests!Requests : kind'[q] = IF q = r THEN k ELSE kind[q]
        /\ \A q \in Requests!Requests : sent'[q] = IF q = r THEN o = "sent" ELSE sent[q]
        /\ \A q \in Requests!Requests : ready'[q] = IF q = r THEN (IF o = "not opened" THEN 0 ELSE 1)
                                           ELSE ready[q]
    BY <1>1, <1>2
  <1>5. ~sent[r] /\ ~complete[r] /\ answers[r] = <<>> /\ r \notin threw
    BY <1>1, <1>2 DEF RequestStates
  <1>6. /\ kind' \in [Requests!Requests -> {"none", "rpc", "update"}]
        /\ ready' \in [Requests!Requests -> 0 .. 4]
        /\ sent' \in [Requests!Requests -> BOOLEAN] /\ loading' \in [Requests!Requests -> BOOLEAN]
        /\ activeRequests' \in Nat
    <2>1. sent' = [sent EXCEPT ![r] = o = "sent"]
      BY <1>2
    <2>2. loading' = [loading EXCEPT ![r] = o # "not opened"]
      BY <1>2
    <2>3. kind' = [kind EXCEPT ![r] = k] /\ activeRequests' = activeRequests + 1
      BY <1>2
    <2>4. ready' = [ready EXCEPT ![r] = 0] \/ ready' = [ready EXCEPT ![r] = 1]
      BY <1>2
    <2>5. sent' \in [Requests!Requests -> BOOLEAN]
      BY <1>1, <2>1
    <2>6. loading' \in [Requests!Requests -> BOOLEAN]
      BY <1>1, <2>2
    <2>7. kind' \in [Requests!Requests -> {"none", "rpc", "update"}] /\ activeRequests' \in Nat
      BY <1>1, <2>3
    <2>8. ready' \in [Requests!Requests -> 0 .. 4]
      BY <1>1, <2>4
    <2> QED BY <2>5, <2>6, <2>7, <2>8
  <1>7. RequestStates'
    <2> SUFFICES ASSUME NEW q \in Requests!Requests
        PROVE  /\ complete[q] => sent'[q]
               /\ sent'[q] => kind'[q] # "none"
               /\ sent'[q] /\ ~complete[q] => ready'[q] \in 1 .. 3 /\ answers[q] = <<>>
               /\ complete[q] => ready'[q] = 4
               /\ kind'[q] # "rpc" => answers[q] = <<>>
               /\ q \in threw => complete[q]
      BY <1>3 DEF RequestStates
    <2>1. CASE q = r
      <3>1. kind'[q] # "none" /\ ~complete[q] /\ answers[q] = <<>> /\ q \notin threw
        BY <1>4, <1>5, <2>1
      <3>2. sent'[q] => ready'[q] = 1
        BY <1>4, <2>1
      <3> QED BY <3>1, <3>2
    <2>2. CASE q # r
      BY <1>4, <2>2 DEF RequestStates
    <2> QED BY <2>1, <2>2
  <1>8. \A q \in Requests!Requests : q >= r => kind[q] = "none"
    <2> SUFFICES ASSUME NEW q \in Requests!Requests, q >= r, kind[q] # "none" PROVE FALSE
      OBVIOUS
    <2>1. q \in Int /\ r \in Int
      BY DEF Requests!Requests
    <2>2. kind[r] = "none"
      BY <1>2
    <2>3. r < q
      BY <2>1, <2>2
    <2> QED BY <2>2, <2>3 DEF InTurn
  <1>9. InTurn'
    <2> SUFFICES ASSUME NEW p \in Requests!Requests, NEW q \in Requests!Requests, kind'[p] # "none", q < p
        PROVE  kind'[q] # "none"
      BY DEF InTurn
    <2>1. CASE p = r
      BY <1>2, <1>4, <2>1
    <2>2. CASE p # r
      BY <1>4, <2>2 DEF InTurn
    <2> QED BY <2>1, <2>2
  <1>10. Requests!AnsweredOnce'
    BY <1>3, <1>4, <1>5 DEF Requests!AnsweredOnce
  <1>11. Requests!Open' = IF o = "sent" THEN Requests!Open \union {r} ELSE Requests!Open
    BY <1>1, <1>2, <1>3, <1>4, <1>5 DEF Requests!Open, Requests!Created
  <1>12. Requests!Failed' = IF o = "sent" THEN Requests!Failed ELSE Requests!Failed \union {r}
    BY <1>1, <1>2, <1>3, <1>4, <1>5 DEF Requests!Failed, Requests!Created
  <1>13. CountedFailed' = IF o = "sent" THEN CountedFailed ELSE CountedFailed \union {r}
    BY <1>3, <1>5, <1>12 DEF CountedFailed
  <1>14. ThrewUpdates' = ThrewUpdates
    BY <1>1, <1>3, <1>4, <1>5 DEF ThrewUpdates
  <1>15. r \notin Requests!Open /\ r \notin CountedFailed
    BY <1>2 DEF Requests!Open, CountedFailed, Requests!Failed, Requests!Created
  <1>16. Requests!CountsOpenRequests'
    <2>1. /\ Cardinality(Requests!Open) \in Nat /\ Cardinality(CountedFailed) \in Nat
          /\ Cardinality(ThrewUpdates) \in Nat
          /\ Cardinality(Requests!Open \union {r}) = Cardinality(Requests!Open) + 1
          /\ Cardinality(CountedFailed \union {r}) = Cardinality(CountedFailed) + 1
      BY <1>15, RequestSets, CountIs
    <2>2. activeRequests' = Cardinality(Requests!Open') + Cardinality(CountedFailed') + Cardinality(ThrewUpdates')
      <3>4. activeRequests' = activeRequests + 1
        BY <1>2
      <3>1. activeRequests = Cardinality(Requests!Open) + Cardinality(CountedFailed)
                       + Cardinality(ThrewUpdates)
        BY CountIs
      <3>2. CASE o = "sent"
        <4>1. Requests!Open' = Requests!Open \union {r} /\ CountedFailed' = CountedFailed
          BY <1>11, <1>13, <3>2
        <4> QED BY <1>14, <2>1, <3>1, <3>4, <4>1
      <3>3. CASE o # "sent"
        <4>1. Requests!Open' = Requests!Open /\ CountedFailed' = CountedFailed \union {r}
          BY <1>11, <1>13, <3>3
        <4> QED BY <1>14, <2>1, <3>1, <3>4, <4>1
      <3> QED BY <3>2, <3>3
    <2> QED BY <2>2, SameRequests DEF Requests!CountsOpenRequests, CountedFailed,
                                      ThrewUpdates
  <1>17. Requests!Loops' = IF k = "update" /\ o = "sent" /\ r \notin silenced
                  THEN Requests!Loops \union {r} ELSE Requests!Loops
    BY <1>1, <1>3, <1>4, <1>11, <1>15 DEF Requests!Loops, Requests!Open, Requests!Created
  <1> QED BY <1>2, <1>4, <1>5, <1>6, <1>7, <1>8, <1>9, <1>10, <1>12, <1>16, <1>17

(* A request that reaches state 4 is no longer under way; only an update that *)
(* throws stays in the count.                                                 *)
LEMMA FinishKeeps ==
    ASSUME RequestBounds, RequestInv, NEW r \in Requests!Requests, NEW reply \in Requests!Replies,
           Requests!Finish(r, reply), UNCHANGED <<kind, sent, loading, silenced>>,
           answers' \in [Requests!Requests -> Seq({"result", "error"})],
           \A q \in Requests!Requests : q # r \/ kind[r] # "rpc" => answers'[q] = answers[q],
           \/ /\ activeRequests' = activeRequests - 1
              /\ threw' = threw \/ (threw' = threw \union {r} /\ kind[r] = "rpc")
           \/ activeRequests' = activeRequests /\ threw' = threw \union {r} /\ kind[r] = "update"
    PROVE  /\ ready' \in [Requests!Requests -> 0 .. 4] /\ complete' \in [Requests!Requests -> BOOLEAN]
           /\ activeRequests' \in Nat /\ threw' \subseteq Requests!Requests
           /\ RequestStates' /\ InTurn' /\ Requests!CountsOpenRequests'
           /\ \A q \in Requests!Requests : complete'[q] <=> q = r \/ complete[q]
           /\ ~complete[r] /\ sent[r] /\ kind[r] # "none" /\ answers[r] = <<>>
           /\ Requests!Loops' = Requests!Loops \ {r} /\ Requests!Failed' = Requests!Failed
  <1> USE DEF RequestInv
  <1>1. /\ kind \in [Requests!Requests -> {"none", "rpc", "update"}]
        /\ ready \in [Requests!Requests -> 0 .. 4] /\ sent \in [Requests!Requests -> BOOLEAN]
        /\ complete \in [Requests!Requests -> BOOLEAN]
        /\ threw \subseteq Requests!Requests /\ activeRequests \in Nat
    BY DEF Requests!TypeOK
  <1>2. /\ sent[r] /\ ready[r] \in 1 .. 3
        /\ ready' = [ready EXCEPT ![r] = 4]
        /\ complete' = [complete EXCEPT ![r] = TRUE]
    BY DEF Requests!Finish
  <1>3. ~complete[r] /\ kind[r] # "none" /\ answers[r] = <<>> /\ r \notin threw
    BY <1>2 DEF RequestStates
  <1>4. /\ \A q \in Requests!Requests : complete'[q] <=> q = r \/ complete[q]
        /\ \A q \in Requests!Requests : ready'[q] = IF q = r THEN 4 ELSE ready[q]
    BY <1>1, <1>2
  <1>5. ready' \in [Requests!Requests -> 0 .. 4] /\ complete' \in [Requests!Requests -> BOOLEAN]
    BY <1>1, <1>2
  <1>6. RequestStates'
    <2> SUFFICES ASSUME NEW q \in Requests!Requests
        PROVE  /\ complete'[q] => sent[q]
               /\ sent[q] => kind[q] # "none"
               /\ sent[q] /\ ~complete'[q] => ready'[q] \in 1 .. 3 /\ answers'[q] = <<>>
               /\ complete'[q] => ready'[q] = 4
               /\ kind[q] # "rpc" => answers'[q] = <<>>
               /\ q \in threw' => complete'[q]
      BY DEF RequestStates
    <2>1. CASE q = r
      BY <1>2, <1>3, <1>4, <2>1
    <2>2. CASE q # r
      <3>1. (complete'[q] <=> complete[q]) /\ ready'[q] = ready[q] /\ answers'[q] = answers[q]
        BY <1>4, <2>2
      <3>2. q \in threw' <=> q \in threw
        BY <2>2
      <3> QED BY <3>1, <3>2 DEF RequestStates
    <2> QED BY <2>1, <2>2
  <1>7. InTurn'
    BY DEF InTurn
  <1>8. Requests!Open' = Requests!Open \ {r} /\ r \in Requests!Open
    BY <1>1, <1>2, <1>3, <1>4 DEF Requests!Open, Requests!Created
  <1>9. Requests!Failed' = Requests!Failed /\ r \notin Requests!Failed
    BY <1>2 DEF Requests!Failed, Requests!Created
  <1>10. CountedFailed' = CountedFailed
    BY <1>9 DEF CountedFailed, Requests!Failed, Requests!Created
  <1>11. Requests!CountsOpenRequests'
    <2>1. /\ Cardinality(Requests!Open) \in Nat /\ Cardinality(CountedFailed) \in Nat
          /\ Cardinality(ThrewUpdates) \in Nat
          /\ Cardinality(Requests!Open \ {r}) = Cardinality(Requests!Open) - 1
      BY <1>8, RequestSets, CountIs
    <2>2. activeRequests = Cardinality(Requests!Open) + Cardinality(CountedFailed) + Cardinality(ThrewUpdates)
      BY CountIs
    <2>3. CASE activeRequests' = activeRequests - 1
      <3>1. ThrewUpdates' = ThrewUpdates
        BY <2>3, <1>1 DEF ThrewUpdates
      <3>2. activeRequests' = Cardinality(Requests!Open') + Cardinality(CountedFailed')
                        + Cardinality(ThrewUpdates')
        BY <1>8, <1>10, <2>1, <2>2, <2>3, <3>1
      <3> QED BY <3>2, SameRequests DEF Requests!CountsOpenRequests, CountedFailed,
                                        ThrewUpdates
    <2>4. CASE activeRequests' # activeRequests - 1
      <3>1. ThrewUpdates' = ThrewUpdates \union {r} /\ r \notin ThrewUpdates
        BY <2>4, <1>3 DEF ThrewUpdates
      <3>2. Cardinality(ThrewUpdates \union {r}) = Cardinality(ThrewUpdates) + 1
        BY <3>1, RequestSets, CountIs
      <3>3. activeRequests' = activeRequests
        BY <2>4
      <3>4. activeRequests' = Cardinality(Requests!Open') + Cardinality(CountedFailed')
                        + Cardinality(ThrewUpdates')
        BY <1>8, <1>10, <2>1, <2>2, <3>1, <3>2, <3>3
      <3> QED BY <3>4, SameRequests DEF Requests!CountsOpenRequests, CountedFailed,
                                        ThrewUpdates
    <2> QED BY <2>3, <2>4
  <1>12. activeRequests' \in Nat
    <2>1. Cardinality(Requests!Open) # 0 /\ Cardinality(Requests!Open) \in Nat
      <3>1. IsFiniteSet(Requests!Open)
        BY RequestSets, CountIs
      <3> QED BY <3>1, <1>8, FS_EmptySet, FS_CardinalityType
    <2>2. Cardinality(CountedFailed) \in Nat /\ Cardinality(ThrewUpdates) \in Nat
      BY RequestSets, CountIs
    <2>3. activeRequests = Cardinality(Requests!Open) + Cardinality(CountedFailed) + Cardinality(ThrewUpdates)
      BY CountIs
    <2> QED BY <1>1, <2>1, <2>2, <2>3
  <1>13. Requests!Loops' = Requests!Loops \ {r}
    BY <1>8 DEF Requests!Loops
  <1> QED BY <1>1, <1>2, <1>3, <1>4, <1>5, <1>6, <1>7, <1>9, <1>11, <1>12, <1>13

(* AnsweredOnce holds of what RPCCall passes to its callback.                 *)
LEMMA AnswersAre ==
    ASSUME NEW reply \in Requests!Replies, NEW throws \in BOOLEAN
    PROVE  /\ Requests!RpcAnswers(reply, throws) \in Seq({"result", "error"})
           /\ \/ Len(Requests!RpcAnswers(reply, throws)) = 1
              \/ throws /\ Requests!RpcAnswers(reply, throws) = <<"result", "error">>
  <1>1. /\ <<"result">> \in Seq({"result", "error"}) /\ Len(<<"result">>) = 1
        /\ <<"error">> \in Seq({"result", "error"}) /\ Len(<<"error">>) = 1
        /\ <<"result", "error">> \in Seq({"result", "error"})
    OBVIOUS
  <1>2. \/ Requests!RpcAnswers(reply, throws) = <<"result">> \/ Requests!RpcAnswers(reply, throws) = <<"error">>
        \/ throws /\ Requests!RpcAnswers(reply, throws) = <<"result", "error">>
    BY DEF Requests!RpcAnswers
  <1> QED BY <1>1, <1>2

(* A new request of the updater is later than all there were, and the only    *)
(* one of its loop.                                                           *)
LEMMA NewUpdaterKeeps ==
    ASSUME RequestBounds, RequestInv, Requests!Loops = {}, Requests!NewUpdater,
           UNCHANGED <<Requests!answerVars, silenced, Requests!rpcVars, decay, lastText, content>>,
           polling' = TRUE, timer' = FALSE
    PROVE  RequestInv' /\ Requests!ContentIsNewer
  <1> USE DEF RequestInv
  <1>1. PICK r \in Requests!Requests, o \in Requests!Outcomes : Requests!CreateRequest(r, "update", o) /\ updater' = r
    BY DEF Requests!NewUpdater
  <1>2. /\ kind' \in [Requests!Requests -> {"none", "rpc", "update"}]
        /\ ready' \in [Requests!Requests -> 0 .. 4]
        /\ sent' \in [Requests!Requests -> BOOLEAN] /\ loading' \in [Requests!Requests -> BOOLEAN]
        /\ activeRequests' \in Nat
        /\ RequestStates' /\ InTurn' /\ Requests!CountsOpenRequests' /\ Requests!AnsweredOnce'
        /\ kind[r] = "none" /\ r \notin threw
        /\ \A q \in Requests!Requests : kind'[q] = IF q = r THEN "update" ELSE kind[q]
        /\ \A q \in Requests!Requests : q >= r => kind[q] = "none"
        /\ Requests!Loops' = IF o = "sent" /\ r \notin silenced THEN Requests!Loops \union {r} ELSE Requests!Loops
        /\ Requests!Failed' = IF o = "sent" THEN Requests!Failed ELSE Requests!Failed \union {r}
    BY <1>1, CreateKeeps
  <1>3. /\ UNCHANGED <<complete, answers, threw, silenced, calls, callID, decay, lastText>>
        /\ content' = content
    BY DEF Requests!answerVars, Requests!rpcVars
  <1>4. Requests!TypeOK'
    BY <1>1, <1>2, <1>3 DEF Requests!TypeOK
  <1>5. r \notin silenced /\ silenced \subseteq Requests!Requests
    BY <1>2 DEF LastUpdater, Requests!TypeOK
  <1>6. content <= updater /\ updater < r /\ updater \in Int /\ content \in Int /\ r \in Int
        /\ r # 0
    <2>1. updater = 0 \/ (updater \in Requests!Requests /\ kind[updater] # "none")
      BY DEF LastUpdater, Requests!TypeOK
    <2>2. ~(updater \in Requests!Requests /\ updater >= r)
      <3>1. \A q \in Requests!Requests : q >= r => kind[q] = "none"
        BY <1>2
      <3> QED BY <2>1, <3>1 DEF Requests!Requests
    <2>3. content <= updater /\ content \in Requests!Requests \union {0}
      BY DEF LastUpdater, Requests!TypeOK
    <2> QED BY <2>1, <2>2, <2>3 DEF Requests!Requests
  <1>7. LastUpdater'
    <2>1. Requests!Loops' = {updater'} \/ (Requests!Loops' = {} /\ updater' \in Requests!Failed')
      BY <1>1, <1>2, <1>5
    <2>2. content' <= updater'
      BY <1>1, <1>3, <1>6
    <2>3. updater' # 0 /\ updater' \notin silenced' /\ kind'[updater'] = "update"
      BY <1>1, <1>2, <1>3, <1>5, <1>6
    <2>4. \A q \in silenced' : kind'[q] = "update"
      BY <1>2, <1>3, <1>5 DEF LastUpdater
    <2> QED BY <2>1, <2>2, <2>3, <2>4 DEF LastUpdater
  <1> QED BY <1>2, <1>3, <1>4, <1>6, <1>7 DEF Requests!ContentIsNewer

(* Every step keeps the invariant.                                         *)
LEMMA RequestStep ==
    ASSUME RequestBounds, RequestInv, [Requests!Next]_(Requests!vars)
    PROVE  RequestInv' /\ Requests!StoppedStays /\ Requests!ContentIsNewer
  <1> USE DEF RequestInv
  <1>t. /\ kind \in [Requests!Requests -> {"none", "rpc", "update"}]
        /\ ready \in [Requests!Requests -> 0 .. 4] /\ sent \in [Requests!Requests -> BOOLEAN]
        /\ complete \in [Requests!Requests -> BOOLEAN] /\ loading \in [Requests!Requests -> BOOLEAN]
        /\ answers \in [Requests!Requests -> Seq({"result", "error"})]
        /\ threw \subseteq Requests!Requests /\ silenced \subseteq Requests!Requests /\ activeRequests \in Nat
        /\ updater \in Requests!Requests \union {0} /\ content \in Requests!Requests \union {0}
    BY DEF Requests!TypeOK
  <1>n. content >= content /\ content \in Int /\ updater \in Int
    BY <1>t DEF Requests!Requests
  <1>1. CASE Requests!BeginCall
    <2>1. PICK r \in Requests!Requests, o \in Requests!Outcomes :
            Requests!CreateRequest(r, "rpc", o) /\ calls' = calls \union {r}
      BY <1>1 DEF Requests!BeginCall
    <2>2. /\ callID' = callID + 1
          /\ UNCHANGED <<Requests!answerVars, silenced, Requests!pollVars>>
      BY <1>1 DEF Requests!BeginCall
    <2>3. /\ kind' \in [Requests!Requests -> {"none", "rpc", "update"}]
          /\ ready' \in [Requests!Requests -> 0 .. 4]
          /\ sent' \in [Requests!Requests -> BOOLEAN] /\ loading' \in [Requests!Requests -> BOOLEAN]
          /\ activeRequests' \in Nat
          /\ RequestStates' /\ InTurn' /\ Requests!CountsOpenRequests' /\ Requests!AnsweredOnce'
          /\ kind[r] = "none" /\ r \notin threw
          /\ \A q \in Requests!Requests : kind'[q] = IF q = r THEN "rpc" ELSE kind[q]
          /\ Requests!Loops' = Requests!Loops
          /\ Requests!Failed' = IF o = "sent" THEN Requests!Failed ELSE Requests!Failed \union {r}
      BY <2>1, <2>2, CreateKeeps
    <2>4. UNCHANGED <<complete, answers, threw, silenced, polling, updater, timer, decay,
                      lastText, content>>
      BY <2>2 DEF Requests!answerVars, Requests!pollVars
    <2>5. Requests!TypeOK'
      BY <2>1, <2>2, <2>3, <2>4 DEF Requests!TypeOK
    <2>6. LastUpdater'
      <3>1. updater # 0 => kind'[updater] = "update"
        BY <1>t, <2>3 DEF LastUpdater
      <3>2. \A q \in silenced : kind'[q] = "update"
        BY <1>t, <2>3 DEF LastUpdater
      <3>3. Requests!Failed \subseteq Requests!Failed'
        BY <2>3
      <3> QED BY <2>3, <2>4, <3>1, <3>2, <3>3 DEF LastUpdater
    <2> QED BY <1>n, <2>3, <2>4, <2>5, <2>6 DEF Requests!StoppedStays,
          Requests!ContentIsNewer
  <1>2. CASE Requests!BeginBadCall
    <2>1. PICK r \in Requests!Requests :
            Requests!Free(r) /\ kind' = [kind EXCEPT ![r] = "rpc"]
            /\ answers' = [answers EXCEPT ![r] = <<"error">>]
      BY <1>2 DEF Requests!BeginBadCall
    <2>2. callID' = callID + 1 /\ UNCHANGED <<ready, sent, loading, activeRequests, complete, threw,
                                             silenced, calls, Requests!pollVars>>
      BY <1>2 DEF Requests!BeginBadCall
    <2>3. UNCHANGED <<polling, updater, timer, decay, lastText, content>>
      BY <2>2 DEF Requests!pollVars
    <2>4. kind[r] = "none" /\ ~sent[r] /\ ~complete[r] /\ r \notin threw
      BY <2>1 DEF Requests!Free, RequestStates
    <2>5. /\ \A q \in Requests!Requests : kind'[q] = IF q = r THEN "rpc" ELSE kind[q]
          /\ \A q \in Requests!Requests : answers'[q] = IF q = r THEN <<"error">> ELSE answers[q]
      BY <1>t, <2>1
    <2>6. Requests!TypeOK'
      <3>1. <<"error">> \in Seq({"result", "error"})
        OBVIOUS
      <3>2. /\ kind' \in [Requests!Requests -> {"none", "rpc", "update"}]
            /\ answers' \in [Requests!Requests -> Seq({"result", "error"})]
        BY <1>t, <2>1, <3>1
      <3> QED BY <2>2, <2>3, <3>2 DEF Requests!TypeOK
    <2>7. RequestStates'
      BY <2>2, <2>4, <2>5 DEF RequestStates
    <2>8. InTurn'
      <3> SUFFICES ASSUME NEW p \in Requests!Requests, NEW q \in Requests!Requests, kind'[p] # "none", q < p
          PROVE  kind'[q] # "none"
        BY DEF InTurn
      <3>1. CASE p = r
        BY <2>1, <2>5, <3>1 DEF Requests!Free
      <3>2. CASE p # r
        BY <2>5, <3>2 DEF InTurn
      <3> QED BY <3>1, <3>2
    <2>9. Requests!Open' = Requests!Open /\ Requests!Failed' = Requests!Failed \union {r} /\ r \notin Requests!Failed
      BY <1>t, <2>2, <2>4, <2>5 DEF Requests!Open, Requests!Failed, Requests!Created
    <2>10. CountedFailed' = CountedFailed
      <3>1. <<"error">> # <<>>
        OBVIOUS
      <3> QED BY <2>5, <2>9, <3>1 DEF CountedFailed, Requests!Failed, Requests!Created
    <2>11. ThrewUpdates' = ThrewUpdates
      BY <1>t, <2>2, <2>4, <2>5 DEF ThrewUpdates
    <2>12. Requests!CountsOpenRequests'
      <3>1. activeRequests' = Cardinality(Requests!Open') + Cardinality(CountedFailed')
                        + Cardinality(ThrewUpdates')
        BY <2>2, <2>9, <2>10, <2>11, CountIs
      <3> QED BY <3>1, SameRequests DEF Requests!CountsOpenRequests, CountedFailed,
                                        ThrewUpdates
    <2>13. Requests!AnsweredOnce'
      BY <2>2, <2>4, <2>5 DEF Requests!AnsweredOnce
    <2>14. Requests!Loops' = Requests!Loops
      BY <1>t, <2>2, <2>4, <2>5, <2>9 DEF Requests!Loops, Requests!Open, Requests!Created
    <2>15. LastUpdater'
      <3>1. updater # 0 => kind'[updater] = "update"
        BY <1>t, <2>4, <2>5 DEF LastUpdater
      <3>2. \A q \in silenced : kind'[q] = "update"
        BY <1>t, <2>4, <2>5 DEF LastUpdater
      <3> QED BY <2>2, <2>3, <2>9, <2>14, <3>1, <3>2 DEF LastUpdater
    <2> QED BY <1>n, <2>3, <2>6, <2>7, <2>8, <2>12, <2>13, <2>15 DEF Requests!StoppedStays,
          Requests!ContentIsNewer
  <1>3. CASE Requests!DeferredLoading \/ Requests!Progress \/ UNCHANGED Requests!vars
    <2>1. UNCHANGED <<kind, sent, activeRequests, complete, answers, threw, silenced, calls, callID,
                      polling, updater, timer, decay, lastText, content>>
      BY <1>3 DEF Requests!DeferredLoading, Requests!Progress, Requests!vars,
                  Requests!rpcVars, Requests!pollVars
    <2>2. /\ ready' \in [Requests!Requests -> 0 .. 4] /\ loading' \in [Requests!Requests -> BOOLEAN]
          /\ \A q \in Requests!Requests : \/ ready'[q] = ready[q]
                                          \/ sent[q] /\ ready[q] \in 1 .. 2 /\ ready'[q] = ready[q] + 1
      <3>1. CASE Requests!DeferredLoading
        BY <1>t, <3>1 DEF Requests!DeferredLoading
      <3>2. CASE Requests!Progress
        <4>1. PICK r \in Requests!Requests :
                /\ sent[r] /\ ready[r] \in 1 .. 2 /\ ready' = [ready EXCEPT ![r] = @ + 1]
                /\ loading' = loading
          BY <3>2 DEF Requests!Progress
        <4> QED BY <1>t, <4>1
      <3>3. CASE UNCHANGED Requests!vars
        BY <1>t, <3>3 DEF Requests!vars
      <3> QED BY <1>3, <3>1, <3>2, <3>3
    <2>3. Requests!TypeOK'
      BY <2>1, <2>2 DEF Requests!TypeOK
    <2>4. RequestStates'
      <3> SUFFICES ASSUME NEW q \in Requests!Requests
          PROVE  /\ complete[q] => sent[q]
                 /\ sent[q] => kind[q] # "none"
                 /\ sent[q] /\ ~complete[q] => ready'[q] \in 1 .. 3 /\ answers[q] = <<>>
                 /\ complete[q] => ready'[q] = 4
                 /\ kind[q] # "rpc" => answers[q] = <<>>
                 /\ q \in threw => complete[q]
        BY <2>1 DEF RequestStates
      <3> QED BY <2>2 DEF RequestStates
    <2>5. InTurn' /\ Requests!CountsOpenRequests' /\ Requests!AnsweredOnce'
      BY <2>1, SameRequests DEF InTurn, Requests!CountsOpenRequests, Requests!AnsweredOnce,
                                Requests!Open, Requests!Failed, Requests!Created
    <2>6. LastUpdater'
      BY <2>1 DEF LastUpdater, Requests!Loops, Requests!Open, Requests!Failed,
                  Requests!Created
    <2> QED BY <1>n, <2>1, <2>3, <2>4, <2>5, <2>6 DEF Requests!StoppedStays,
          Requests!ContentIsNewer
  <1>4. CASE Requests!CompleteCall
    <2>1. PICK r \in Requests!Requests, reply \in Requests!Replies, throws \in BOOLEAN :
            /\ kind[r] = "rpc" /\ Requests!Finish(r, reply)
            /\ answers' = [answers EXCEPT ![r] = @ \o Requests!RpcAnswers(reply, throws)]
            /\ threw' = IF throws THEN threw \union {r} ELSE threw
            /\ activeRequests' = activeRequests - 1
            /\ UNCHANGED <<kind, sent, loading, silenced, Requests!rpcVars, Requests!pollVars>>
      BY <1>4 DEF Requests!CompleteCall
    <2>2. UNCHANGED <<calls, callID, polling, updater, timer, decay, lastText, content>>
      BY <2>1 DEF Requests!rpcVars, Requests!pollVars
    <2>3. answers[r] = <<>>
      BY <2>1 DEF Requests!Finish, RequestStates
    <2>4. answers' = [answers EXCEPT ![r] = Requests!RpcAnswers(reply, throws)]
      <3>1. <<>> \o Requests!RpcAnswers(reply, throws) = Requests!RpcAnswers(reply, throws)
        BY AnswersAre
      <3> QED BY <2>1, <2>3, <3>1
    <2>5. /\ answers' \in [Requests!Requests -> Seq({"result", "error"})]
          /\ \A q \in Requests!Requests : q # r \/ kind[r] # "rpc" => answers'[q] = answers[q]
          /\ answers'[r] = Requests!RpcAnswers(reply, throws)
      BY <1>t, <2>1, <2>4, AnswersAre
    <2>6. /\ ready' \in [Requests!Requests -> 0 .. 4] /\ complete' \in [Requests!Requests -> BOOLEAN]
          /\ activeRequests' \in Nat /\ threw' \subseteq Requests!Requests
          /\ RequestStates' /\ InTurn' /\ Requests!CountsOpenRequests'
          /\ \A q \in Requests!Requests : complete'[q] <=> q = r \/ complete[q]
          /\ Requests!Loops' = Requests!Loops \ {r} /\ Requests!Failed' = Requests!Failed
      <3>1. \/ /\ activeRequests' = activeRequests - 1
               /\ threw' = threw \/ (threw' = threw \union {r} /\ kind[r] = "rpc")
            \/ activeRequests' = activeRequests /\ threw' = threw \union {r} /\ kind[r] = "update"
        BY <2>1
      <3> QED BY <2>1, <2>5, <3>1, FinishKeeps
    <2>7. Requests!TypeOK'
      BY <2>1, <2>2, <2>5, <2>6 DEF Requests!TypeOK
    <2>8. Requests!AnsweredOnce'
      <3> SUFFICES ASSUME NEW q \in Requests!Requests, kind[q] = "rpc", complete'[q]
          PROVE  Len(answers'[q]) = 1 \/ (q \in threw' /\ answers'[q] = <<"result", "error">>)
        BY <2>1 DEF Requests!AnsweredOnce
      <3>1. CASE q = r
        <4>1. throws => r \in threw'
          BY <2>1
        <4>2. PICK a : a = Requests!RpcAnswers(reply, throws)
          OBVIOUS
        <4>3. Len(a) = 1 \/ (throws /\ a = <<"result", "error">>)
          BY <4>2, AnswersAre
        <4>4. answers'[q] = a
          BY <2>5, <3>1, <4>2
        <4> QED BY <3>1, <4>1, <4>3, <4>4
      <3>2. CASE q # r
        <4>1. answers'[q] = answers[q] /\ complete[q] /\ (q \in threw => q \in threw')
          BY <2>1, <2>5, <2>6, <3>2
        <4>2. Len(answers[q]) = 1 \/ (q \in threw /\ answers[q] = <<"result", "error">>)
          BY <4>1 DEF Requests!AnsweredOnce
        <4> QED BY <4>1, <4>2
      <3> QED BY <3>1, <3>2
    <2>9. Requests!Loops' = Requests!Loops
      BY <2>1, <2>6 DEF Requests!Loops
    <2>10. LastUpdater'
      <3>1. threw \subseteq threw'
        BY <2>1
      <3> QED BY <2>1, <2>2, <2>6, <2>9, <3>1 DEF LastUpdater
    <2> QED BY <1>n, <2>2, <2>6, <2>7, <2>8, <2>10 DEF Requests!StoppedStays,
          Requests!ContentIsNewer
  <1>5. CASE Requests!CompleteUpdate
    <2>1. PICK r \in Requests!Requests, reply \in Requests!Replies :
            /\ kind[r] = "update" /\ r \notin silenced
            /\ Requests!Finish(r, reply)
            /\ content' = r /\ decay' = Requests!NextDecay(reply) /\ lastText' = reply /\ timer' = TRUE
            /\ activeRequests' = activeRequests - 1
            /\ UNCHANGED <<kind, sent, loading, answers, threw, silenced, Requests!rpcVars,
                           polling, updater>>
      BY <1>5 DEF Requests!CompleteUpdate
    <2>2. UNCHANGED <<calls, callID>>
      BY <2>1 DEF Requests!rpcVars
    <2>3. /\ ready' \in [Requests!Requests -> 0 .. 4] /\ complete' \in [Requests!Requests -> BOOLEAN]
          /\ activeRequests' \in Nat /\ threw' \subseteq Requests!Requests
          /\ RequestStates' /\ InTurn' /\ Requests!CountsOpenRequests'
          /\ \A q \in Requests!Requests : complete'[q] <=> q = r \/ complete[q]
          /\ ~complete[r] /\ sent[r] /\ kind[r] # "none"
          /\ Requests!Loops' = Requests!Loops \ {r} /\ Requests!Failed' = Requests!Failed
      BY <1>t, <2>1, FinishKeeps
    <2>4. r \in Requests!Loops
      BY <2>1, <2>3 DEF Requests!Loops, Requests!Open, Requests!Created
    <2>5. r = updater /\ polling /\ Requests!Loops' = {}
      BY <2>3, <2>4 DEF LastUpdater
    <2>6. Requests!TypeOK'
      <3>1. decay' \in 1 .. MaxDecay * Decay
        <4>1. decay \in 1 .. MaxDecay * Decay /\ Decay \in Nat \ {0} /\ MaxDecay \in Nat \ {0}
          BY DEF Requests!TypeOK, RequestBounds
        <4>2. decay' = 1 \/ decay' = decay \/ (decay <= MaxDecay /\ decay' = decay * Decay)
          BY <2>1, <4>1 DEF Requests!NextDecay
        <4>3. \A a, b, d \in Nat \ {0} : a <= b => a * d \in Nat /\ 1 <= a * d /\ a * d <= b * d
          OBVIOUS
        <4> QED BY <4>1, <4>2, <4>3
      <3> QED BY <2>1, <2>2, <2>3, <3>1 DEF Requests!TypeOK
    <2>7. Requests!AnsweredOnce'
      BY <2>1, <2>3 DEF Requests!AnsweredOnce
    <2>8. LastUpdater'
      BY <1>n, <2>1, <2>3, <2>5 DEF LastUpdater
    <2>9. Requests!ContentIsNewer
      BY <1>n, <2>1, <2>5 DEF LastUpdater, Requests!ContentIsNewer
    <2> QED BY <2>3, <2>5, <2>6, <2>7, <2>8, <2>9 DEF Requests!StoppedStays
  <1>6. CASE Requests!UpdateThrows
    <2>1. PICK r \in Requests!Requests, reply \in Requests!Replies :
            /\ kind[r] = "update" /\ r \notin silenced
            /\ Requests!Finish(r, reply)
            /\ threw' = threw \union {r}
            /\ UNCHANGED <<kind, sent, loading, activeRequests, answers, silenced, Requests!rpcVars, Requests!pollVars>>
      BY <1>6 DEF Requests!UpdateThrows
    <2>2. UNCHANGED <<calls, callID, polling, updater, timer, decay, lastText, content>>
      BY <2>1 DEF Requests!rpcVars, Requests!pollVars
    <2>3. /\ ready' \in [Requests!Requests -> 0 .. 4] /\ complete' \in [Requests!Requests -> BOOLEAN]
          /\ activeRequests' \in Nat /\ threw' \subseteq Requests!Requests
          /\ RequestStates' /\ InTurn' /\ Requests!CountsOpenRequests'
          /\ \A q \in Requests!Requests : complete'[q] <=> q = r \/ complete[q]
          /\ ~complete[r] /\ sent[r] /\ kind[r] # "none"
          /\ Requests!Loops' = Requests!Loops \ {r} /\ Requests!Failed' = Requests!Failed
      BY <1>t, <2>1, FinishKeeps
    <2>4. r \in Requests!Loops
      BY <2>1, <2>3 DEF Requests!Loops, Requests!Open, Requests!Created
    <2>5. r = updater /\ polling /\ Requests!Loops' = {} /\ ~timer
      BY <2>3, <2>4 DEF LastUpdater
    <2>6. Requests!TypeOK'
      BY <2>1, <2>2, <2>3 DEF Requests!TypeOK
    <2>7. Requests!AnsweredOnce'
      BY <2>1, <2>3 DEF Requests!AnsweredOnce
    <2>8. LastUpdater'
      BY <2>1, <2>2, <2>3, <2>5 DEF LastUpdater
    <2> QED BY <1>n, <2>2, <2>3, <2>6, <2>7, <2>8 DEF Requests!StoppedStays,
          Requests!ContentIsNewer
  <1>7. CASE Requests!CompleteSilenced
    <2>1. PICK r \in silenced, reply \in Requests!Replies :
            /\ Requests!Finish(r, reply)
            /\ activeRequests' = activeRequests - 1
            /\ UNCHANGED <<kind, sent, loading, answers, threw, silenced, Requests!rpcVars, Requests!pollVars>>
      BY <1>7 DEF Requests!CompleteSilenced
    <2>2. UNCHANGED <<calls, callID, polling, updater, timer, decay, lastText, content>>
      BY <2>1 DEF Requests!rpcVars, Requests!pollVars
    <2>3. r \in Requests!Requests /\ kind[r] = "update"
      BY <1>t DEF LastUpdater
    <2>4. /\ ready' \in [Requests!Requests -> 0 .. 4] /\ complete' \in [Requests!Requests -> BOOLEAN]
          /\ activeRequests' \in Nat /\ threw' \subseteq Requests!Requests
          /\ RequestStates' /\ InTurn' /\ Requests!CountsOpenRequests'
          /\ \A q \in Requests!Requests : complete'[q] <=> q = r \/ complete[q]
          /\ Requests!Loops' = Requests!Loops \ {r} /\ Requests!Failed' = Requests!Failed
      BY <1>t, <2>1, <2>3, FinishKeeps
    <2>5. Requests!Loops' = Requests!Loops
      BY <2>4 DEF Requests!Loops
    <2>6. Requests!TypeOK'
      BY <2>1, <2>2, <2>4 DEF Requests!TypeOK
    <2>7. Requests!AnsweredOnce'
      BY <2>1, <2>3, <2>4 DEF Requests!AnsweredOnce
    <2>8. LastUpdater'
      BY <2>1, <2>2, <2>4, <2>5 DEF LastUpdater
    <2> QED BY <1>n, <2>2, <2>4, <2>6, <2>7, <2>8 DEF Requests!StoppedStays,
          Requests!ContentIsNewer
  <1>8. CASE Requests!StartPolling
    <2>1. /\ ~polling /\ polling' = TRUE /\ Requests!NewUpdater
          /\ UNCHANGED <<Requests!answerVars, silenced, Requests!rpcVars, timer, decay, lastText, content>>
      BY <1>8 DEF Requests!StartPolling
    <2>2. Requests!Loops = {} /\ timer = FALSE
      <3>1. ~timer /\ timer \in BOOLEAN
        BY <2>1 DEF LastUpdater, Requests!TypeOK
      <3> QED BY <2>1, <3>1 DEF LastUpdater
    <2>3. RequestInv' /\ Requests!ContentIsNewer
      BY <2>1, <2>2, NewUpdaterKeeps
    <2> QED BY <2>1, <2>3 DEF Requests!StoppedStays
  <1>9. CASE Requests!PollTimer
    <2>1. /\ timer /\ timer' = FALSE /\ Requests!NewUpdater
          /\ UNCHANGED <<Requests!answerVars, silenced, Requests!rpcVars, polling, decay, lastText, content>>
      BY <1>9 DEF Requests!PollTimer
    <2>2. Requests!Loops = {} /\ polling = TRUE
      BY <2>1 DEF LastUpdater, Requests!TypeOK
    <2>3. RequestInv' /\ Requests!ContentIsNewer
      BY <2>1, <2>2, NewUpdaterKeeps
    <2> QED BY <2>2, <2>3 DEF Requests!StoppedStays
  <1>10. CASE Requests!StopPolling
    <2>1. /\ polling /\ polling' = FALSE
          /\ silenced' = silenced \union {updater} /\ timer' = FALSE
          /\ UNCHANGED <<Requests!requestVars, Requests!answerVars, Requests!rpcVars, updater, decay, lastText, content>>
      BY <1>10 DEF Requests!StopPolling
    <2>2. UNCHANGED <<kind, ready, sent, loading, activeRequests, complete, answers, threw, calls,
                      callID, updater, decay, lastText, content>>
      BY <2>1 DEF Requests!requestVars, Requests!answerVars, Requests!rpcVars
    <2>3. updater \in Requests!Requests /\ kind[updater] = "update"
      BY <1>t, <2>1 DEF LastUpdater
    <2>4. Requests!TypeOK'
      BY <2>1, <2>2, <2>3 DEF Requests!TypeOK
    <2>5. RequestStates' /\ InTurn' /\ Requests!CountsOpenRequests' /\ Requests!AnsweredOnce'
      BY <2>2, SameRequests DEF RequestStates, InTurn, Requests!CountsOpenRequests,
                                Requests!AnsweredOnce, Requests!Open, Requests!Failed,
         Requests!Created
    <2>6. Requests!Loops' = {}
      BY <2>1, <2>2 DEF LastUpdater, Requests!Loops, Requests!Open, Requests!Created
    <2>7. LastUpdater'
      BY <2>1, <2>2, <2>3, <2>6 DEF LastUpdater
    <2> QED BY <1>n, <2>1, <2>2, <2>4, <2>5, <2>7 DEF Requests!StoppedStays,
          Requests!ContentIsNewer
  <1> QED BY <1>1, <1>2, <1>3, <1>4, <1>5, <1>6, <1>7, <1>8, <1>9, <1>10 DEF Requests!Next

(* It holds at the beginning                                               *)
LEMMA RequestInit ==
    ASSUME RequestBounds, Requests!Init
    PROVE  RequestInv
  <1> USE DEF Requests!Init
  <1>1. Requests!TypeOK
    <2>1. Decay \in 1 .. MaxDecay * Decay
      <3>1. \A a, b \in Nat \ {0} : a \in 1 .. b * a
        OBVIOUS
      <3> QED BY <3>1 DEF RequestBounds
    <2>2. <<>> \in Seq({"result", "error"})
      OBVIOUS
    <2>3. /\ kind \in [Requests!Requests -> {"none", "rpc", "update"}]
          /\ ready \in [Requests!Requests -> 0 .. 4]
          /\ sent \in [Requests!Requests -> BOOLEAN] /\ complete \in [Requests!Requests -> BOOLEAN]
          /\ loading \in [Requests!Requests -> BOOLEAN]
      OBVIOUS
    <2>4. answers \in [Requests!Requests -> Seq({"result", "error"})]
      BY <2>2
    <2> QED BY <2>1, <2>3, <2>4 DEF Requests!TypeOK
  <1>2. Requests!Created = {} /\ Requests!Failed = {} /\ Requests!Open = {} /\ Requests!Loops = {}
    BY DEF Requests!Created, Requests!Failed, Requests!Open, Requests!Loops
  <1>3. RequestStates /\ InTurn /\ Requests!AnsweredOnce
    BY DEF RequestStates, InTurn, Requests!AnsweredOnce
  <1>4. LastUpdater
    BY <1>2 DEF LastUpdater
  <1>5. Requests!CountsOpenRequests
    <2>1. {r \in Requests!Failed : answers[r] = <<>>} = {} /\ {r \in threw : kind[r] = "update"} = {}
      BY <1>2
    <2>2. Cardinality({}) = 0 /\ activeRequests = 0
      BY FS_EmptySet
    <2> QED BY <1>2, <2>1, <2>2, SameRequests DEF Requests!CountsOpenRequests
  <1> QED BY <1>1, <1>3, <1>4, <1>5 DEF RequestInv

(* and implies what is promised.                                           *)
LEMMA RequestInvImplies ==
    ASSUME RequestInv
    PROVE  Requests!TypeOK /\ Requests!CountsOpenRequests /\ Requests!AnsweredOnce /\ Requests!OneLoop
  <1>1. Cardinality(Requests!Loops) + (IF timer THEN 1 ELSE 0) <= 1
    <2>1. Cardinality({}) = 0 /\ Cardinality({updater}) = 1
      BY FS_EmptySet, FS_Singleton
    <2>2. Requests!Loops = {} \/ (Requests!Loops = {updater} /\ ~timer)
      BY DEF RequestInv, LastUpdater
    <2> QED BY <2>1, <2>2
  <1>2. Requests!OneLoop
    BY <1>1, SameRequests DEF RequestInv, LastUpdater, Requests!OneLoop
  <1> QED BY <1>2 DEF RequestInv

-----------------------------------------------------------------------------
(* What MCEvents drives.                                                   *)
(* A step of the whole is a step of the component that is driven.            *)
LEMMA DrivenMoves ==
    ASSUME [Next]_vars
    PROVE  /\ component' = component
           /\ IsQueue => [Queue!Next]_(Queue!vars)
           /\ IsCompleter => [Completer!Next]_(Completer!vars)
           /\ IsEditor => [Editor!Next]_(Editor!vars)
           /\ IsField => [Field!Next]_(Field!vars)
           /\ IsRegistry => [Registry!Next]_(Registry!vars)
           /\ IsRunner => [Runner!Next]_(Runner!vars)
           /\ IsGui => [Gui!Next]_(Gui!vars)
           /\ IsRequests => [Requests!Next]_(Requests!vars)
  <1> USE DEF IsQueue, IsCompleter, IsEditor, IsField, IsRegistry, IsRunner,
              IsGui, IsRequests
  <1>1. CASE UNCHANGED vars
    <2>1. component' = component
      BY <1>1 DEF vars
    <2>2. UNCHANGED Queue!vars
      BY <1>1 DEF vars, queueVars, Queue!vars
    <2>3. UNCHANGED Completer!vars
      BY <1>1 DEF vars, completerVars, Completer!vars
    <2>4. UNCHANGED Editor!vars
      BY <1>1 DEF vars, editorVars, Editor!vars
    <2>5. UNCHANGED Field!vars
      BY <1>1 DEF vars, fieldVars, Field!vars
    <2>6. UNCHANGED Registry!vars
      BY <1>1 DEF vars, registryVars, Registry!vars
    <2>7. UNCHANGED Runner!vars
      BY <1>1 DEF vars, runnerVars, Runner!vars
    <2>8. UNCHANGED Gui!vars
      BY <1>1 DEF vars, guiVars, Gui!vars
    <2>9. UNCHANGED Requests!vars
      BY <1>1 DEF vars, requestVars, Requests!vars
    <2> QED BY <2>1, <2>2, <2>3, <2>4, <2>5, <2>6, <2>7, <2>8, <2>9
  <1>2. CASE IsQueue /\ Queue!Next /\ OnlyQueue
    BY <1>2 DEF OnlyQueue
  <1>3. CASE IsCompleter /\ Completer!Next /\ OnlyCompleter
    BY <1>3 DEF OnlyCompleter
  <1>4. CASE IsEditor /\ Editor!Next /\ OnlyEditor
    BY <1>4 DEF OnlyEditor
  <1>5. CASE IsField /\ Field!Next /\ OnlyField
    BY <1>5 DEF OnlyField
  <1>6. CASE IsRegistry /\ Registry!Next /\ OnlyRegistry
    BY <1>6 DEF OnlyRegistry
  <1>7. CASE IsRunner /\ Runner!Next /\ OnlyRunner
    BY <1>7 DEF OnlyRunner
  <1>8. CASE IsGui /\ Gui!Next /\ OnlyGui
    BY <1>8 DEF OnlyGui
  <1>9. CASE IsRequests /\ Requests!Next /\ OnlyRequests
    BY <1>9 DEF OnlyRequests
  <1> QED BY <1>1, <1>2, <1>3, <1>4, <1>5, <1>6, <1>7, <1>8, <1>9 DEF Next

(* effects.js: a queue's interval runs while it has effects, each of them is in *)
(* it once while it runs, what waits at the end is due after what it was put *)
(* behind, and afterFinish is called at most once.                           *)
THEOREM EffectQueueKeepsPromise == Spec => []EffectQueuePromise
  <1> DEFINE Inv == IsQueue => EffectsInv
  <1>1. Init => Inv
    BY EffectsBegin, BoundsAssumption DEF Init
  <1>2. ASSUME Inv, [Next]_vars PROVE Inv'
    <2>1. component' = component /\ (IsQueue => [Queue!Next]_(Queue!vars))
      BY <1>2, DrivenMoves
    <2>2. IsQueue => EffectsInv'
      BY <1>2, <2>1, EffectsStep, BoundsAssumption
    <2> QED BY <2>1, <2>2 DEF IsQueue
  <1>3. Inv => EffectQueuePromise
    BY EffectsInvImplies, BoundsAssumption DEF EffectQueuePromise
  <1> HIDE DEF Inv
  <1> QED BY <1>1, <1>2, <1>3, PTL DEF Spec

(* controls.js: whatever the order of keys, timers and answers, the list follows *)
(* the field, its mark is one of its entries, and after a choice it stays closed. *)
THEOREM AutocompleterKeepsPromise == Spec => []AutocompleterPromise
  <1> DEFINE Inv == IsCompleter => AutoInv
  <1>1. Init => Inv
    BY AutoInit, BoundsAssumption DEF Init
  <1>2. ASSUME Inv, [Next]_vars PROVE Inv'
    <2>1. component' = component /\ (IsCompleter => [Completer!Next]_(Completer!vars))
      BY <1>2, DrivenMoves
    <2>2. IsCompleter => AutoInv'
      BY <1>2, <2>1, AutoStep, BoundsAssumption
    <2> QED BY <2>1, <2>2 DEF IsCompleter
  <1>3. Inv => AutocompleterPromise
    BY DEF AutocompleterPromise, AutoInv, Completer!ActiveIsShown, Completer!ChoiceIsFinal
  <1> HIDE DEF Inv
  <1> QED BY <1>1, <1>2, <1>3, PTL DEF Spec

(* controls.js: an in-place editor is not opened while it saves, never saves or *)
(* leaves a placeholder, and what was typed is not replaced by a text that is *)
(* loaded late.                                                              *)
THEOREM InPlaceEditorKeepsPromise == Spec => InPlaceEditorPromise
  <1> DEFINE Inv == IsEditor => EditorInv
  <1>1. Init => Inv
    BY EditorInit, BoundsAssumption DEF Init
  <1>2. ASSUME Inv, [Next]_vars PROVE Inv'
    <2>1. component' = component /\ (IsEditor => [Editor!Next]_(Editor!vars))
      BY <1>2, DrivenMoves
    <2>2. IsEditor => EditorInv'
      BY <1>2, <2>1, EditorStep, BoundsAssumption
    <2> QED BY <2>1, <2>2 DEF IsEditor
  <1>3. Inv => (IsEditor => Editor!TypeOK /\ Editor!SavedBeforeReopened /\ Editor!SavingTextGoes
                        /\ Editor!PlaceholdersNotSaved)
    BY DEF EditorInv, TextComesBack, EditorModes, OneSave, Editor!SavedBeforeReopened
  <1>4. ASSUME Inv, [Next]_vars PROVE [IsEditor => Editor!EntryKept]_editorVars
    <2>1. IsEditor => [Editor!Next]_(Editor!vars)
      BY <1>4, DrivenMoves
    <2>2. IsEditor => (Editor!Next => Editor!EntryKept)
      BY <1>4, <2>1, EditorStep, BoundsAssumption
    <2> QED BY <2>1, <2>2 DEF editorVars, Editor!vars
  <1> HIDE DEF Inv
  <1> QED BY <1>1, <1>2, <1>3, <1>4, PTL DEF Spec, InPlaceEditorPromise

(* prototype.js, controls.js: an observer compares with what the page was told *)
(* last, through nested events and callbacks that throw.                     *)
THEOREM FieldObserversKeepPromise == Spec => []FieldObserversPromise
  <1> DEFINE Inv == IsField => FieldInv
  <1>1. Init => Inv
    BY FieldInit, BoundsAssumption DEF Init
  <1>2. ASSUME Inv, [Next]_vars PROVE Inv'
    <2>1. component' = component /\ (IsField => [Field!Next]_(Field!vars))
      BY <1>2, DrivenMoves
    <2>2. IsField => FieldInv'
      BY <1>2, <2>1, FieldStep, BoundsAssumption
    <2> QED BY <2>1, <2>2 DEF IsField
  <1>3. Inv => FieldObserversPromise
    BY DEF FieldObserversPromise, FieldInv, Field!LastIsTold
  <1> HIDE DEF Inv
  <1> QED BY <1>1, <1>2, <1>3, PTL DEF Spec

(* prototype.js: the registry is what the browser calls, a function is there *)
(* once, dom:loaded is fired once, and a handler is called for its own event and *)
(* not after it was stopped.                                                 *)
THEOREM EventRegistryKeepsPromise == Spec => EventRegistryPromise
  <1> DEFINE Inv == IsRegistry => RegistryInv
  <1>1. Init => Inv
    BY RegistryInit, BoundsAssumption DEF Init
  <1>2. ASSUME Inv, [Next]_vars PROVE Inv'
    <2>1. component' = component /\ (IsRegistry => [Registry!Next]_(Registry!vars))
      BY <1>2, DrivenMoves
    <2>2. IsRegistry => RegistryInv'
      BY <1>2, <2>1, RegistryStep, BoundsAssumption
    <2> QED BY <2>1, <2>2 DEF IsRegistry
  <1>3. Inv => (IsRegistry => Registry!TypeOK /\ Registry!RegistryMatches /\ Registry!CalledOnce
                          /\ Registry!LoadedOnce)
    BY RegistryInvImplies, BoundsAssumption
  <1>4. ASSUME Inv, [Next]_vars PROVE [IsRegistry => Registry!CallIsMeant]_registryVars
    <2>1. IsRegistry => [Registry!Next]_(Registry!vars)
      BY <1>4, DrivenMoves
    <2>2. IsRegistry => (Registry!Next => Registry!CallIsMeant)
      BY <1>4, <2>1, RegistryStep, BoundsAssumption
    <2> QED BY <2>1, <2>2 DEF registryVars, Registry!vars
  <1> HIDE DEF Inv
  <1> QED BY <1>1, <1>2, <1>3, <1>4, PTL DEF Spec, EventRegistryPromise

(* unittest.js: every test is set up and torn down once, however often it waits, *)
(* and the result is that of the log.                                        *)
THEOREM TestRunnerKeepsPromise == Spec => []TestRunnerPromise
  <1> DEFINE Inv == IsRunner => RunnerInv
  <1>1. Init => Inv
    BY RunnerInit, BoundsAssumption DEF Init
  <1>2. ASSUME Inv, [Next]_vars PROVE Inv'
    <2>1. component' = component /\ (IsRunner => [Runner!Next]_(Runner!vars))
      BY <1>2, DrivenMoves
    <2>2. IsRunner => RunnerInv'
      BY <1>2, <2>1, RunnerStep, BoundsAssumption
    <2> QED BY <2>1, <2>2 DEF IsRunner
  <1>3. Inv => TestRunnerPromise
    BY RunnerInvImplies, BoundsAssumption DEF TestRunnerPromise
  <1> HIDE DEF Inv
  <1> QED BY <1>1, <1>2, <1>3, PTL DEF Spec

(* ConnectGuiMasterServer.js: an answer belongs to the test that was asked for, *)
(* and a server that is started while no game has been joined since the test ended *)
(* uses NAT as the test found.                                                *)
THEOREM MasterServerGuiKeepsPromise == Spec => MasterServerGuiPromise
  <1> DEFINE Inv == IsGui => GuiInv
  <1>1. Init => Inv
    BY GuiInit, BoundsAssumption DEF Init
  <1>2. ASSUME Inv, [Next]_vars PROVE Inv'
    <2>1. component' = component /\ (IsGui => [Gui!Next]_(Gui!vars))
      BY <1>2, DrivenMoves
    <2>2. IsGui => GuiInv'
      BY <1>2, <2>1, GuiStep, BoundsAssumption
    <2> QED BY <2>1, <2>2 DEF IsGui
  <1>3. Inv => (IsGui => Gui!TypeOK /\ Gui!ProbesMatch)
    BY DEF GuiInv
  <1>4. ASSUME Inv, [Next]_vars PROVE [IsGui => Gui!StartUsesTest]_guiVars
    <2>1. IsGui => [Gui!Next]_(Gui!vars)
      BY <1>4, DrivenMoves
    <2>2. IsGui => (Gui!Next => Gui!StartUsesTest)
      BY <1>4, <2>1, GuiStep, BoundsAssumption
    <2> QED BY <2>1, <2>2 DEF guiVars, Gui!vars
  <1> HIDE DEF Inv
  <1> QED BY <1>1, <1>2, <1>3, <1>4, PTL DEF Spec, MasterServerGuiPromise

(* prototype.js, rpc.js: requests are counted and answered once, an updater has *)
(* one loop, and one that was stopped or has later content changes nothing.  *)
THEOREM AjaxKeepsPromise == Spec => AjaxPromise
  <1> DEFINE Inv == IsRequests => RequestInv
  <1>1. Init => Inv
    BY RequestInit, BoundsAssumption DEF Init
  <1>2. ASSUME Inv, [Next]_vars PROVE Inv'
    <2>1. component' = component /\ (IsRequests => [Requests!Next]_(Requests!vars))
      BY <1>2, DrivenMoves
    <2>2. IsRequests => RequestInv'
      BY <1>2, <2>1, RequestStep, BoundsAssumption
    <2> QED BY <2>1, <2>2 DEF IsRequests
  <1>3. Inv => (IsRequests => Requests!TypeOK /\ Requests!CountsOpenRequests
                          /\ Requests!AnsweredOnce /\ Requests!OneLoop)
    BY RequestInvImplies
  <1>4. ASSUME Inv, [Next]_vars PROVE [IsRequests => Requests!StoppedStays]_requestVars
    <2>1. IsRequests => [Requests!Next]_(Requests!vars)
      BY <1>4, DrivenMoves
    <2>2. IsRequests => (Requests!Next => Requests!StoppedStays)
      BY <1>4, <2>1, RequestStep, BoundsAssumption
    <2> QED BY <2>1, <2>2 DEF requestVars, Requests!vars
  <1>5. ASSUME Inv, [Next]_vars PROVE [IsRequests => Requests!ContentIsNewer]_requestVars
    <2>1. IsRequests => [Requests!Next]_(Requests!vars)
      BY <1>5, DrivenMoves
    <2>2. IsRequests => (Requests!Next => Requests!ContentIsNewer)
      BY <1>5, <2>1, RequestStep, BoundsAssumption
    <2> QED BY <2>1, <2>2 DEF requestVars, Requests!vars
  <1> HIDE DEF Inv
  <1> QED BY <1>1, <1>2, <1>3, <1>4, <1>5, PTL DEF Spec, AjaxPromise
=============================================================================
