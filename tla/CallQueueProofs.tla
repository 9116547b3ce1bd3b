--------------------------- MODULE CallQueueProofs ---------------------------
(***************************************************************************)
(* Theorems about CallQueue, for any set of clients, any mix of calls and   *)
(* any number of them.  Those of the first part are about calls that do not *)
(* wait for pending calls themselves; those of the second hold whatever the *)
(* calls do, with any number of Dispatches open, one inside the other.      *)
(***************************************************************************)
EXTENDS CallQueue, QueueFacts, FiniteSetTheorems, TLAPS

USE DEF Nobody

(* Nobody waits on an event: the sentinel of a client carries the client.   *)
LEMMA NewCallTyped ==
    ASSUME TypeOK, NEW op \in Ops \cup {"work", "signal", "mark"},
           NEW by \in Clients \cup {Nobody}
    PROVE  [id |-> posted + 1, op |-> op, by |-> by] \in Call
  BY DEF TypeOK, Call

LEMMA AppendTyped ==
    ASSUME TypeOK, NEW op \in Ops \cup {"work", "signal", "mark"},
           NEW by \in Clients \cup {Nobody}, Append1(op, by)
    PROVE  /\ queue' \in Seq(Call)
           /\ posted' \in Nat
  <1>1. [id |-> posted + 1, op |-> op, by |-> by] \in Call
    BY NewCallTyped
  <1> HIDE DEF Nobody
  <1> QED BY <1>1 DEF TypeOK, Append1

LEMMA FramesTyped ==
    /\ \A calls \in Seq(Call) : BatchFrame(calls) \in Frame
    /\ \A id \in Nat, b \in BOOLEAN : FlushFrame(id, b) \in Frame
  BY DEF Frame, BatchFrame, FlushFrame

(* What running a call may rely on: the call, and the stack without it.     *)
LEMMA PickTyped ==
    ASSUME TypeOK, NEW op, CanRun(op)
    PROVE  /\ NextCall \in Call
           /\ NextCall.op = op
           /\ AfterPick \in Seq(Frame)
           /\ Len(AfterPick) = Len(stack)
           /\ Append(ran, NextCall.id) \in Seq(Nat)
  <1>1. /\ stack \in Seq(Frame)
        /\ stack # << >>
        /\ Head(stack) \in Frame
        /\ Tail(stack) \in Seq(Frame)
    BY DEF TypeOK, CanRun, InBatch
  <1>2. /\ Head(stack).rest \in Seq(Call)
        /\ Head(stack).rest # << >>
    BY <1>1 DEF CanRun, Frame
  <1>3. /\ NextCall \in Call
        /\ NextCall.op = op
    BY <1>2 DEF NextCall, CanRun
  <1>4. NextCall.id \in Nat
    BY <1>3 DEF Call
  <1>5. Tail(Head(stack).rest) \in Seq(Call)
    BY <1>2
  <1>6. BatchFrame(Tail(Head(stack).rest)) \in Frame
    BY <1>5, FramesTyped
  <1>7. AfterPick \in Seq(Frame) /\ Len(AfterPick) = Len(stack)
    BY <1>1, <1>6 DEF AfterPick
  <1> QED BY <1>3, <1>4, <1>7 DEF TypeOK

(***************************************************************************)
(* Type correctness.                                                       *)
(***************************************************************************)
LEMMA TypeInit == Init => TypeOK
  <1> HAVE Init
  <1>1. << >> \in Seq(Call) /\ << >> \in Seq(Frame) /\ << >> \in Seq(Nat)
    OBVIOUS
  <1>2. /\ queue \in Seq(Call)
        /\ stack \in Seq(Frame)
        /\ ran \in Seq(Nat)
    BY <1>1 DEF Init
  <1>3. /\ wpc \in [Clients -> {"idle", "waiting", "asleep"}]
        /\ event \in [Clients -> BOOLEAN]
        /\ ticket \in [Clients -> Nat]
    BY DEF Init
  <1> QED BY <1>2, <1>3 DEF Init, TypeOK

LEMMA TypeStep == TypeOK /\ [Next]_vars => TypeOK'
  <1> SUFFICES ASSUME TypeOK, [Next]_vars PROVE TypeOK'
    OBVIOUS
  <1>1. ASSUME NEW c \in Clients, NEW op \in Ops, Enqueue(c, op) PROVE TypeOK'
    <2>1. op \in Ops \cup {"work", "signal", "mark"} /\ c \in Clients \cup {Nobody}
      OBVIOUS
    <2>2. queue' \in Seq(Call) /\ posted' \in Nat
      BY <1>1, <2>1, AppendTyped DEF Enqueue
    <2> QED BY <1>1, <2>2 DEF Enqueue, NotifyNotEmpty, clientVars, TypeOK
  <1>2. ASSUME NEW c \in Clients, WaitForPendingCalls(c) PROVE TypeOK'
    <2>1. queue' \in Seq(Call) /\ posted' \in Nat
      BY <1>2, AppendTyped DEF WaitForPendingCalls
    <2>2. posted + 1 \in Nat
      BY DEF TypeOK
    <2>3. /\ wpc' \in [Clients -> {"idle", "waiting", "asleep"}]
          /\ event' \in [Clients -> BOOLEAN]
          /\ ticket' \in [Clients -> Nat]
      BY <1>2, <2>2 DEF WaitForPendingCalls, TypeOK
    <2>4. dpc' \in {"loop", "dispatch", "asleep", "done"}
      BY <1>2 DEF WaitForPendingCalls, NotifyNotEmpty, TypeOK
    <2> QED BY <1>2, <2>1, <2>3, <2>4 DEF WaitForPendingCalls, TypeOK
  <1>3. ASSUME NEW c \in Clients, Wait(c) PROVE TypeOK'
    <2>1. CASE EventSleep(c)
      BY <2>1 DEF EventSleep, historyVars, TypeOK
    <2>2. CASE EventReturn(c)
      <3>1. ticket[c] \in Nat
        BY DEF TypeOK
      <3>2. flushed' \in Nat
        BY <2>2, <3>1 DEF EventReturn, LaterOf, TypeOK
      <3> QED BY <2>2, <3>2 DEF EventReturn, TypeOK
    <2> QED BY <1>3, <2>1, <2>2 DEF Wait
  <1>4. ASSUME NEW c \in Clients, EventSpuriousWakeup(c) PROVE TypeOK'
    BY <1>4 DEF EventSpuriousWakeup, historyVars, TypeOK
  <1>5. CASE LoopTest \/ Poll \/ DispatchEmpty \/ DispatchSleep \/ DispatchCancelled
    BY <1>5 DEF LoopTest, Poll, DispatchEmpty, DispatchSleep, DispatchCancelled,
                BackToCaller, clientVars, historyVars, TypeOK
  <1>6. CASE DispatchTake
    <2>1. BatchFrame(queue) \in Frame
      BY FramesTyped DEF TypeOK
    <2>2. <<BatchFrame(queue)>> \o stack \in Seq(Frame)
      BY <2>1 DEF TypeOK
    <2> QED BY <1>6, <2>2 DEF DispatchTake, BackToCaller, clientVars, historyVars, TypeOK
  <1>7. CASE RunWork
    BY <1>7, PickTyped DEF RunWork, CountRun, clientVars, TypeOK
  <1>8. CASE RunSpawn
    BY <1>8, PickTyped, AppendTyped DEF RunSpawn, CountRun, clientVars, TypeOK
  <1>9. CASE RunSignal
    BY <1>9, PickTyped DEF RunSignal, CountRun, TypeOK
  <1>10. CASE RunMark
    <2>1. AfterPick \in Seq(Frame) /\ Len(AfterPick) = Len(stack)
      BY <1>10, PickTyped DEF RunMark
    <2>2. \A i \in 1 .. Len(stack) : AfterPick[i] \in Frame
      BY <2>1
    <2>3. \A i \in 1 .. Len(stack) :
             [AfterPick[i] EXCEPT
                 !.done = @ \/ (/\ AfterPick[i].kind = "flush"
                                /\ AfterPick[i].mark = NextCall.id)] \in Frame
      BY <2>2 DEF Frame
    <2>4. stack' \in Seq(Frame)
      BY <1>10, <2>1, <2>3 DEF RunMark, TypeOK
    <2> QED BY <1>10, <2>4, PickTyped DEF RunMark, CountRun, clientVars, TypeOK
  <1>11. CASE RunFlush
    <2>1. PICK b \in Garbage : stack' = <<FlushFrame(posted + 1, b)>> \o AfterPick
      BY <1>11 DEF RunFlush
    <2>2. FlushFrame(posted + 1, b) \in Frame
      BY FramesTyped, GarbageAssumption DEF TypeOK
    <2>3. AfterPick \in Seq(Frame)
      BY <1>11, PickTyped DEF RunFlush
    <2>4. stack' \in Seq(Frame)
      BY <2>1, <2>2, <2>3
    <2>5. queue' \in Seq(Call) /\ posted' \in Nat
      BY <1>11, AppendTyped DEF RunFlush
    <2>6. ran' \in Seq(Nat)
      BY <1>11, PickTyped DEF RunFlush, CountRun
    <2> QED BY <1>11, <2>4, <2>5, <2>6 DEF RunFlush, clientVars, TypeOK
  <1>12. CASE DispatchReturn
    BY <1>12 DEF DispatchReturn, InBatch, clientVars, historyVars, TypeOK
  <1>13. CASE FlushReturn
    <2>1. Head(stack) \in Frame /\ Tail(stack) \in Seq(Frame)
      BY <1>13 DEF FlushReturn, TypeOK
    <2>2. Head(stack).mark \in Nat
      BY <2>1 DEF Frame
    <2> QED BY <1>13, <2>1, <2>2 DEF FlushReturn, LaterOf, clientVars, TypeOK
  <1>14. CASE PollerFlush
    <2>1. PICK b \in Garbage : stack' = <<FlushFrame(posted + 1, b)>>
      BY <1>14 DEF PollerFlush
    <2>2. FlushFrame(posted + 1, b) \in Frame
      BY FramesTyped, GarbageAssumption DEF TypeOK
    <2>3. stack' \in Seq(Frame)
      BY <2>1, <2>2
    <2> QED BY <1>14, <2>3, AppendTyped DEF PollerFlush, clientVars, TypeOK
  <1>15. CASE Quit \/ Destructor \/ SpuriousWakeup
    BY <1>15 DEF Quit, Destructor, CancelBlockingCalls, Join, SpuriousWakeup,
                 NotifyNotEmpty, clientVars, historyVars, TypeOK
  <1>16. CASE UNCHANGED vars
    BY <1>16 DEF vars, clientVars, historyVars, TypeOK
  <1> QED
    BY <1>1, <1>2, <1>3, <1>4, <1>5, <1>6, <1>7, <1>8, <1>9, <1>10, <1>11,
       <1>12, <1>13, <1>14, <1>15, <1>16 DEF Next, Dispatcher

(* Every variable of the queue and its threads keeps its type.              *)
THEOREM TypeCorrect == Spec => []TypeOK
  BY TypeInit, TypeStep, PTL DEF Spec

(***************************************************************************)
(* Order.  When no dispatched call waits for pending calls itself, at most   *)
(* one batch is open, and the numbers of the calls run, of those left in     *)
(* the batch and of those in the queue are 1, 2, 3, ... one after the other. *)
(***************************************************************************)
Batch == IF stack = << >> THEN << >> ELSE stack[1].rest

Shape ==
    /\ \/ stack = << >>
       \/ Len(stack) = 1
       \/ Len(stack) = 2 /\ stack[1].kind = "batch" /\ stack[2].kind = "flush"
    /\ \A k \in 1 .. Len(stack) : stack[k].kind = "flush" => stack[k].rest = << >>

NoFlushOps ==
    /\ \A i \in 1 .. Len(Batch) : Batch[i].op # "flush"
    /\ \A i \in 1 .. Len(queue) : queue[i].op # "flush"

Numbered ==
    /\ posted = Len(ran) + Len(Batch) + Len(queue)
    /\ \A i \in 1 .. Len(ran) : ran[i] = i
    /\ \A i \in 1 .. Len(Batch) : Batch[i].id = Len(ran) + i
    /\ \A i \in 1 .. Len(queue) : queue[i].id = Len(ran) + Len(Batch) + i

OrderInv == TypeOK /\ Shape /\ NoFlushOps /\ Numbered

(* What a step does to the calls: nothing, append one, open a batch, pick    *)
(* the next one of the batch, or pick one that appends another.              *)
Stay == UNCHANGED <<ran, posted, queue, Batch>>

PostMove ==
    /\ \E call \in Call :
          /\ call.id = posted + 1
          /\ call.op # "flush"
          /\ queue' = Append(queue, call)
    /\ posted' = posted + 1

TakeMove ==
    /\ Batch = << >>
    /\ Batch' = queue
    /\ queue' = << >>
    /\ UNCHANGED <<ran, posted>>

PickMove ==
    /\ Batch # << >>
    /\ Batch' = Tail(Batch)
    /\ ran' = Append(ran, Head(Batch).id)

Move ==
    \/ Stay
    \/ PostMove /\ UNCHANGED <<ran, Batch>>
    \/ TakeMove
    \/ PickMove /\ UNCHANGED <<posted, queue>>
    \/ PickMove /\ PostMove

LEMMA BatchTyped == TypeOK => Batch \in Seq(Call)
  <1> HAVE TypeOK
  <1>1. CASE stack = << >>
    BY <1>1 DEF Batch
  <1>2. CASE stack # << >>
    <2>1. stack[1] \in Frame
      BY <1>2 DEF TypeOK
    <2> QED BY <1>2, <2>1 DEF Batch, Frame
  <1> QED BY <1>1, <1>2

(* Calls numbered from k + 1 on, none of which waits for pending calls.      *)
From(calls, k) ==
    \A i \in 1 .. Len(calls) : calls[i].id = k + i /\ calls[i].op # "flush"

LEMMA AppendFrom ==
    ASSUME NEW calls \in Seq(Call), NEW k \in Nat, From(calls, k),
           NEW call \in Call, call.id = k + Len(calls) + 1, call.op # "flush"
    PROVE  From(Append(calls, call), k) /\ Len(Append(calls, call)) = Len(calls) + 1
  <1> DEFINE n == Len(calls)
             more == Append(calls, call)
  <1>1. n \in Nat /\ Len(more) = n + 1
    OBVIOUS
  <1>2. SUFFICES ASSUME NEW i \in 1 .. n + 1
                 PROVE  more[i].id = k + i /\ more[i].op # "flush"
    BY <1>1 DEF From
  <1>3. CASE i \in 1 .. n
    <2>1. more[i] = calls[i]
      BY <1>1, <1>3
    <2> QED BY <1>3, <2>1 DEF From
  <1>4. CASE i = n + 1
    <2>1. more[i] = call
      BY <1>1, <1>4
    <2> QED BY <1>1, <1>4, <2>1
  <1> QED BY <1>1, <1>3, <1>4

LEMMA TailFrom ==
    ASSUME NEW calls \in Seq(Call), NEW k \in Nat, From(calls, k), calls # << >>
    PROVE  /\ Head(calls).id = k + 1
           /\ From(Tail(calls), k + 1)
           /\ Len(Tail(calls)) = Len(calls) - 1
           /\ Len(calls) \in Nat \ {0}
  <1> DEFINE n == Len(calls)
             less == Tail(calls)
  <1>1. n \in Nat \ {0} /\ Len(less) = n - 1 /\ Head(calls) = calls[1]
    OBVIOUS
  <1>2. ASSUME NEW i \in 1 .. n - 1
        PROVE  less[i].id = k + 1 + i /\ less[i].op # "flush"
    <2>1. less[i] = calls[i + 1] /\ i + 1 \in 1 .. n
      BY <1>1
    <2> QED BY <1>1, <2>1 DEF From
  <1> QED BY <1>1, <1>2 DEF From

LEMMA AppendCounts ==
    ASSUME NEW s \in Seq(Nat), \A i \in 1 .. Len(s) : s[i] = i
    PROVE  /\ Len(Append(s, Len(s) + 1)) = Len(s) + 1
           /\ \A i \in 1 .. Len(s) + 1 : Append(s, Len(s) + 1)[i] = i
  <1> DEFINE n == Len(s)
             t == Append(s, n + 1)
  <1>1. n \in Nat /\ Len(t) = n + 1
    OBVIOUS
  <1>2. ASSUME NEW i \in 1 .. n + 1 PROVE t[i] = i
    <2>1. CASE i \in 1 .. n
      BY <1>1, <2>1
    <2>2. CASE i = n + 1
      BY <1>1, <2>2
    <2> QED BY <1>1, <2>1, <2>2
  <1> QED BY <1>1, <1>2

(* Every move keeps the numbering, and brings in no flush.                  *)
LEMMA MoveNumbered ==
    ASSUME TypeOK, Numbered, NoFlushOps, Move
    PROVE  Numbered' /\ NoFlushOps'
  <1> DEFINE b == Batch
             nb == Batch'
  <1>1. /\ b \in Seq(Call) /\ queue \in Seq(Call) /\ ran \in Seq(Nat)
        /\ Len(b) \in Nat /\ Len(queue) \in Nat /\ Len(ran) \in Nat
        /\ posted \in Nat
    BY BatchTyped DEF TypeOK
  <1>2. /\ posted = Len(ran) + Len(b) + Len(queue)
        /\ \A i \in 1 .. Len(ran) : ran[i] = i
        /\ From(b, Len(ran))
        /\ From(queue, Len(ran) + Len(b))
    BY <1>1 DEF Numbered, NoFlushOps, From
  <1>3. SUFFICES
           /\ posted' = Len(ran') + Len(nb) + Len(queue')
           /\ \A i \in 1 .. Len(ran') : ran'[i] = i
           /\ From(nb, Len(ran'))
           /\ From(queue', Len(ran') + Len(nb))
    BY DEF Numbered, NoFlushOps, From
  <1>4. ASSUME PostMove
        PROVE  /\ posted' = posted + 1
               /\ Len(queue') = Len(queue) + 1
               /\ From(queue', Len(ran) + Len(b))
    <2>1. PICK call \in Call : /\ call.id = posted + 1
                               /\ call.op # "flush"
                               /\ queue' = Append(queue, call)
      BY <1>4 DEF PostMove
    <2> HIDE DEF b, nb
    <2>2. /\ call.id = (Len(ran) + Len(b)) + Len(queue) + 1
          /\ Len(ran) + Len(b) \in Nat
      BY <1>1, <1>2, <2>1
    <2>3. /\ From(Append(queue, call), Len(ran) + Len(b))
          /\ Len(Append(queue, call)) = Len(queue) + 1
      BY <1>1, <1>2, <2>1, <2>2, AppendFrom
    <2>4. posted' = posted + 1
      BY <1>4 DEF PostMove
    <2> QED BY <2>1, <2>3, <2>4
  <1>5. ASSUME PickMove
        PROVE  /\ Len(nb) = Len(b) - 1
               /\ Len(b) \in Nat \ {0}
               /\ Len(ran') = Len(ran) + 1
               /\ \A i \in 1 .. Len(ran') : ran'[i] = i
               /\ From(nb, Len(ran'))
    <2>1. b # << >> /\ nb = Tail(b) /\ ran' = Append(ran, Head(b).id)
      BY <1>5 DEF PickMove
    <2> HIDE DEF b, nb
    <2>2. /\ Head(b).id = Len(ran) + 1
          /\ From(nb, Len(ran) + 1)
          /\ Len(nb) = Len(b) - 1
          /\ Len(b) \in Nat \ {0}
      BY <1>1, <1>2, <2>1, TailFrom
    <2>3. /\ Len(ran') = Len(ran) + 1
          /\ \A i \in 1 .. Len(ran) + 1 : ran'[i] = i
      BY <1>1, <1>2, <2>1, <2>2, AppendCounts
    <2> QED BY <2>2, <2>3
  <1>6. CASE Stay
    <2>1. ran' = ran /\ posted' = posted /\ queue' = queue /\ nb = b
      BY <1>6 DEF Stay
    <2> HIDE DEF b, nb
    <2> QED BY <1>2, <2>1
  <1>7. CASE PostMove /\ UNCHANGED <<ran, Batch>>
    <2>1. ran' = ran /\ nb = b
      BY <1>7
    <2> HIDE DEF b, nb
    <2> QED BY <1>1, <1>2, <1>4, <1>7, <2>1, SMTT(30)
  <1>8. CASE TakeMove
    <2>1. b = << >> /\ nb = queue /\ queue' = << >> /\ ran' = ran /\ posted' = posted
      BY <1>8 DEF TakeMove
    <2> HIDE DEF b, nb
    <2>2. Len(b) = 0 /\ Len(queue') = 0
      BY <2>1
    <2>3. Len(ran) + Len(b) = Len(ran)
      BY <1>1, <2>2
    <2>4. From(nb, Len(ran'))
      BY <1>2, <2>1, <2>3
    <2>5. From(queue', Len(ran') + Len(nb))
      BY <2>2 DEF From
    <2> QED BY <1>1, <1>2, <2>1, <2>2, <2>4, <2>5
  <1>9. CASE PickMove /\ UNCHANGED <<posted, queue>>
    <2>1. posted' = posted /\ queue' = queue /\ PickMove
      BY <1>9
    <2> HIDE DEF b, nb
    <2>2. /\ Len(nb) = Len(b) - 1
          /\ Len(b) \in Nat \ {0}
          /\ Len(ran') = Len(ran) + 1
          /\ \A i \in 1 .. Len(ran') : ran'[i] = i
          /\ From(nb, Len(ran'))
      BY <1>5, <2>1
    <2>3. Len(ran') + Len(nb) = Len(ran) + Len(b)
      BY <1>1, <2>2
    <2> QED BY <1>1, <1>2, <2>1, <2>2, <2>3
  <1>10. CASE PickMove /\ PostMove
    <2> HIDE DEF b, nb
    <2>2. Len(ran') + Len(nb) = Len(ran) + Len(b)
      BY <1>1, <1>5, <1>10, SMTT(30)
    <2> QED BY <1>1, <1>2, <1>4, <1>5, <1>10, <2>2, SMTT(30)
  <1> QED BY <1>6, <1>7, <1>8, <1>9, <1>10 DEF Move

(* Picking a call takes the head of the one open batch.                     *)
LEMMA PickStack ==
    ASSUME TypeOK, Shape, NEW op, CanRun(op)
    PROVE  /\ Batch # << >>
           /\ Head(Batch) = NextCall
           /\ Len(stack) \in 1 .. 2
           /\ Len(AfterPick) = Len(stack)
           /\ AfterPick[1] = BatchFrame(Tail(Batch))
           /\ Len(stack) = 2 => AfterPick[2] = stack[2]
  <1>1. stack \in Seq(Frame) /\ stack # << >> /\ Head(stack) = stack[1]
    BY DEF TypeOK, CanRun, InBatch
  <1>2. Batch = Head(stack).rest
    BY <1>1 DEF Batch
  <1>3. Len(stack) \in 1 .. 2
    BY <1>1 DEF Shape
  <1>4. /\ Len(AfterPick) = Len(stack)
        /\ AfterPick[1] = BatchFrame(Tail(Batch))
        /\ Len(stack) = 2 => AfterPick[2] = stack[2]
    BY <1>1, <1>2, <1>3 DEF AfterPick
  <1> QED BY <1>2, <1>3, <1>4 DEF CanRun, NextCall

(* The stack after a pick, whatever flush frame below it is completed.      *)
LEMMA PickShape ==
    ASSUME TypeOK, Shape, NEW op, CanRun(op), CountRun,
           stack' \in Seq(Frame), Len(stack') = Len(stack),
           stack'[1].rest = AfterPick[1].rest, stack'[1].kind = AfterPick[1].kind,
           Len(stack) = 2 => /\ stack'[2].rest = AfterPick[2].rest
                             /\ stack'[2].kind = AfterPick[2].kind
    PROVE  PickMove /\ Shape'
  <1>1. /\ Batch # << >>
        /\ Head(Batch) = NextCall
        /\ Len(stack) \in 1 .. 2
        /\ AfterPick[1] = BatchFrame(Tail(Batch))
        /\ Len(stack) = 2 => AfterPick[2] = stack[2]
    BY PickStack
  <1>2. stack # << >> /\ stack' # << >>
    BY <1>1
  <1>3. stack'[1].rest = Tail(Batch) /\ stack'[1].kind = "batch"
    BY <1>1 DEF BatchFrame
  <1>4. Batch' = Tail(Batch)
    BY <1>2, <1>3 DEF Batch
  <1>5. PickMove
    BY <1>1, <1>4 DEF PickMove, CountRun
  <1>6. Shape'
    BY <1>1, <1>3 DEF Shape
  <1> QED BY <1>5, <1>6

LEMMA PickOnly ==
    ASSUME TypeOK, Shape, NEW op, CanRun(op), CountRun, stack' = AfterPick
    PROVE  PickMove /\ Shape'
  <1>1. AfterPick \in Seq(Frame) /\ Len(AfterPick) = Len(stack)
    BY PickTyped
  <1> QED BY <1>1, PickShape

LEMMA PostOnly ==
    ASSUME TypeOK, NEW op \in Ops \cup {"work", "signal", "mark"}, op # "flush",
           NEW by \in Clients \cup {Nobody}, Append1(op, by)
    PROVE  PostMove
  <1>1. [id |-> posted + 1, op |-> op, by |-> by] \in Call
    BY NewCallTyped
  <1> QED BY <1>1 DEF Append1, PostMove

LEMMA StackStays ==
    ASSUME Shape, UNCHANGED stack
    PROVE  Shape' /\ UNCHANGED Batch
  BY DEF Shape, Batch

(* Every step is one of the moves, and keeps the shape of the stack.        *)
LEMMA StepMoves ==
    ASSUME TypeOK, Shape, NoFlushOps, "flush" \notin Ops, [Next]_vars
    PROVE  Move /\ Shape'
  <1>1. ASSUME NEW c \in Clients, NEW op \in Ops, Enqueue(c, op)
        PROVE  Move /\ Shape'
    <2>1. PostMove
      BY <1>1, PostOnly DEF Enqueue
    <2> QED BY <1>1, <2>1, StackStays DEF Enqueue, Move
  <1>2. ASSUME NEW c \in Clients, WaitForPendingCalls(c)
        PROVE  Move /\ Shape'
    <2>1. PostMove
      BY <1>2, PostOnly DEF WaitForPendingCalls
    <2> QED BY <1>2, <2>1, StackStays DEF WaitForPendingCalls, Move
  <1>3. ASSUME NEW c \in Clients, Wait(c) \/ EventSpuriousWakeup(c)
        PROVE  Move /\ Shape'
    BY <1>3, StackStays DEF Wait, EventSleep, EventReturn, EventSpuriousWakeup,
                            historyVars, Move, Stay
  <1>4. CASE LoopTest \/ Poll \/ DispatchEmpty \/ DispatchSleep \/ DispatchCancelled
             \/ Quit \/ Destructor \/ SpuriousWakeup \/ UNCHANGED vars
    BY <1>4, StackStays DEF LoopTest, Poll, DispatchEmpty, DispatchSleep,
                DispatchCancelled, Quit, Destructor, CancelBlockingCalls, Join,
                SpuriousWakeup, vars, historyVars, Move, Stay
  <1>5. CASE DispatchTake
    <2>1. stack \in Seq(Frame) /\ queue \in Seq(Call)
      BY DEF TypeOK
    <2>2. \/ stack = << >>
          \/ Len(stack) = 1 /\ stack[1].kind = "flush" /\ stack[1].rest = << >>
      BY <1>5, <2>1 DEF DispatchTake, InDispatch, Shape
    <2>3. Batch = << >>
      BY <2>2 DEF Batch
    <2>4. /\ stack' # << >>
          /\ stack'[1] = BatchFrame(queue)
          /\ Len(stack') = Len(stack) + 1
          /\ Len(stack) = 1 => stack'[2] = stack[1]
      BY <1>5, <2>1, <2>2 DEF DispatchTake
    <2>5. Batch' = queue
      BY <2>4 DEF Batch, BatchFrame
    <2>6. TakeMove
      BY <1>5, <2>3, <2>5 DEF DispatchTake, TakeMove, historyVars
    <2>7. Shape'
      BY <2>1, <2>2, <2>4 DEF Shape, BatchFrame
    <2> QED BY <2>6, <2>7 DEF Move
  <1>6. CASE RunWork
    <2>1. PickMove /\ Shape'
      BY <1>6, PickOnly DEF RunWork
    <2> QED BY <1>6, <2>1 DEF RunWork, Move
  <1>7. CASE RunSpawn
    <2>1. PickMove /\ Shape'
      BY <1>7, PickOnly DEF RunSpawn
    <2>2. PostMove
      BY <1>7, PostOnly DEF RunSpawn
    <2> QED BY <2>1, <2>2 DEF Move
  <1>8. CASE RunSignal
    <2>1. PickMove /\ Shape'
      BY <1>8, PickOnly DEF RunSignal
    <2> QED BY <1>8, <2>1 DEF RunSignal, Move
  <1>9. CASE RunMark
    <2>1. stack' = [i \in 1 .. Len(stack) |->
                      [AfterPick[i] EXCEPT
                          !.done = @ \/ (/\ AfterPick[i].kind = "flush"
                                         /\ AfterPick[i].mark = NextCall.id)]]
      BY <1>9 DEF RunMark
    <2>2. AfterPick \in Seq(Frame) /\ Len(AfterPick) = Len(stack)
      BY <1>9, PickTyped DEF RunMark
    <2>3. Len(stack) \in 1 .. 2
      BY <1>9, PickStack DEF RunMark
    <2>4. stack' \in Seq(Frame)
      BY TypeStep DEF TypeOK
    <2>5. Len(stack') = Len(stack)
      BY <2>1, <2>2
    <2>6. \A i \in 1 .. Len(stack) : /\ stack'[i].rest = AfterPick[i].rest
                                     /\ stack'[i].kind = AfterPick[i].kind
      <3>1. \A i \in 1 .. Len(stack) : AfterPick[i] \in Frame
        BY <2>2
      <3> QED BY <2>1, <3>1 DEF Frame
    <2>7. PickMove /\ Shape'
      BY <1>9, <2>3, <2>4, <2>5, <2>6, PickShape DEF RunMark
    <2> QED BY <1>9, <2>7 DEF RunMark, Move
  <1>10. CASE RunFlush
    <2>1. Batch # << >> /\ Head(Batch).op = "flush"
      BY <1>10, PickStack DEF RunFlush, CanRun
    <2>2. Head(Batch) = Batch[1] /\ 1 \in 1 .. Len(Batch)
      BY <2>1, BatchTyped
    <2> QED BY <2>1, <2>2 DEF NoFlushOps
  <1>11. CASE DispatchReturn \/ FlushReturn
    <2>1. stack \in Seq(Frame) /\ stack # << >> /\ Head(stack) = stack[1]
      BY <1>11 DEF DispatchReturn, FlushReturn, InBatch, TypeOK
    <2>2. Batch = << >>
      BY <1>11, <2>1 DEF DispatchReturn, FlushReturn, Batch, Shape
    <2>3. stack' = Tail(stack)
      BY <1>11 DEF DispatchReturn, FlushReturn
    <2>4. \/ stack' = << >>
          \/ /\ Len(stack') = 1
             /\ stack'[1] = stack[2]
             /\ Len(stack) = 2
             /\ stack[2].kind = "flush" /\ stack[2].rest = << >>
      BY <2>1, <2>3 DEF Shape
    <2>5. Batch' = << >>
      BY <2>4 DEF Batch
    <2>6. Shape'
      BY <2>4 DEF Shape
    <2> QED BY <1>11, <2>2, <2>5, <2>6
            DEF DispatchReturn, FlushReturn, historyVars, Move, Stay
  <1>12. CASE PollerFlush
    <2>1. PostMove
      BY <1>12, PostOnly DEF PollerFlush
    <2>2. PICK b \in Garbage : stack' = <<FlushFrame(posted + 1, b)>>
      BY <1>12 DEF PollerFlush
    <2>3. Batch = << >> /\ Batch' = << >>
      BY <1>12, <2>2 DEF PollerFlush, Batch, FlushFrame
    <2>4. Shape'
      BY <2>2 DEF Shape, FlushFrame
    <2> QED BY <1>12, <2>1, <2>3, <2>4 DEF PollerFlush, Move
  <1> QED
    BY <1>1, <1>2, <1>3, <1>4, <1>5, <1>6, <1>7, <1>8, <1>9, <1>10, <1>11, <1>12
    DEF Next, Dispatcher

LEMMA OrderInit == Init => OrderInv
  <1> HAVE Init
  <1>1. /\ queue = << >> /\ stack = << >> /\ ran = << >> /\ posted = 0
        /\ Batch = << >>
    BY DEF Init, Batch
  <1> QED BY <1>1, TypeInit DEF OrderInv, Shape, NoFlushOps, Numbered

LEMMA OrderStep ==
    ASSUME "flush" \notin Ops
    PROVE  OrderInv /\ [Next]_vars => OrderInv'
  <1> SUFFICES ASSUME OrderInv, [Next]_vars PROVE OrderInv'
    OBVIOUS
  <1>1. Move /\ Shape'
    BY StepMoves DEF OrderInv
  <1>2. Numbered' /\ NoFlushOps'
    BY <1>1, MoveNumbered DEF OrderInv
  <1>3. TypeOK'
    BY TypeStep DEF OrderInv
  <1> QED BY <1>1, <1>2, <1>3 DEF OrderInv

LEMMA OrderImplies == OrderInv => InOrder
  BY DEF OrderInv, TypeOK, Numbered, InOrder

(* Calls run in the order in which they were accepted, each exactly once, as *)
(* long as no call waits for pending calls on the dispatching thread.        *)
THEOREM RunsInOrder ==
    ASSUME "flush" \notin Ops
    PROVE  Spec => []InOrder
  <1>1. Init => OrderInv
    BY OrderInit
  <1>2. OrderInv /\ [Next]_vars => OrderInv'
    BY OrderStep
  <1>3. OrderInv => InOrder
    BY OrderImplies
  <1> QED BY <1>1, <1>2, <1>3, PTL DEF Spec

(***************************************************************************)
(* Flushing.  A pending sentinel belongs to a client that still waits for    *)
(* it; what an event, a completed flag or a returned wait stands for has     *)
(* run.                                                                    *)
(***************************************************************************)
PendingCalls ==
    {queue[i] : i \in 1 .. Len(queue)} \cup {Batch[i] : i \in 1 .. Len(Batch)}

Due(call) ==
    call.op = "signal" =>
        /\ call.by \in Clients
        /\ wpc[call.by] # "idle"
        /\ ~event[call.by]
        /\ ticket[call.by] = call.id

Promise ==
    /\ flushed <= Len(ran)
    /\ \A c \in Clients : event[c] => ticket[c] <= Len(ran)
    /\ \A call \in PendingCalls : Due(call)
    /\ \A k \in 1 .. Len(stack) :
          stack[k].kind = "flush" /\ stack[k].done => stack[k].mark <= Len(ran)

PromiseInv == OrderInv /\ Promise

(* A step leaves the pending calls, adds at most its own, and only drops     *)
(* those it ran.                                                           *)
LEMMA PendingMoves ==
    ASSUME TypeOK, Move
    PROVE  /\ Len(ran') >= Len(ran)
           /\ \A call \in PendingCalls' :
                 \/ call \in PendingCalls
                 \/ posted' = posted + 1 /\ call = queue'[Len(queue')]
  <1> DEFINE b == Batch
             nb == Batch'
  <1>1. /\ b \in Seq(Call) /\ queue \in Seq(Call) /\ ran \in Seq(Nat)
        /\ posted \in Nat
    BY BatchTyped DEF TypeOK
  <1>2. ASSUME PostMove
        PROVE  /\ posted' = posted + 1
               /\ \A i \in 1 .. Len(queue') :
                     \/ i = Len(queue')
                     \/ i \in 1 .. Len(queue) /\ queue'[i] = queue[i]
    BY <1>1, <1>2 DEF PostMove
  <1>3. ASSUME PickMove
        PROVE  /\ Len(ran') = Len(ran) + 1
               /\ \A i \in 1 .. Len(nb) : i + 1 \in 1 .. Len(b) /\ nb[i] = b[i + 1]
    <2>1. b # << >> /\ nb = Tail(b) /\ ran' = Append(ran, Head(b).id)
      BY <1>3 DEF PickMove
    <2> HIDE DEF b, nb
    <2> QED BY <1>1, <2>1
  <1>4. \/ ran' = ran
        \/ Len(ran') = Len(ran) + 1
    BY <1>3 DEF Move, Stay, TakeMove
  <1>5. Len(ran') >= Len(ran)
    BY <1>1, <1>4
  <1>6. ASSUME NEW call \in PendingCalls', call \notin PendingCalls
        PROVE  posted' = posted + 1 /\ call = queue'[Len(queue')]
    <2>1. CASE Stay
      BY <1>6, <2>1 DEF Stay, PendingCalls
    <2>2. CASE PostMove /\ UNCHANGED <<ran, Batch>>
      BY <1>2, <1>6, <2>2 DEF PendingCalls
    <2>3. CASE TakeMove
      BY <1>6, <2>3 DEF TakeMove, PendingCalls
    <2>4. CASE PickMove /\ UNCHANGED <<posted, queue>>
      BY <1>3, <1>6, <2>4 DEF PendingCalls
    <2>5. CASE PickMove /\ PostMove
      BY <1>2, <1>3, <1>6, <2>5 DEF PendingCalls
    <2> QED BY <2>1, <2>2, <2>3, <2>4, <2>5 DEF Move
  <1> QED BY <1>5, <1>6

(* The call a step adds is the one it appends.                              *)
LEMMA PendingPost ==
    ASSUME TypeOK, Move, NEW op, NEW by, Append1(op, by)
    PROVE  \A call \in PendingCalls' :
              \/ call \in PendingCalls
              \/ call = [id |-> posted + 1, op |-> op, by |-> by]
  <1>1. queue'[Len(queue')] = [id |-> posted + 1, op |-> op, by |-> by]
    BY DEF Append1, TypeOK
  <1> QED BY <1>1, PendingMoves

LEMMA PendingNoPost ==
    ASSUME TypeOK, Move, UNCHANGED posted
    PROVE  PendingCalls' \subseteq PendingCalls
  <1>1. posted' # posted + 1
    BY DEF TypeOK
  <1> QED BY <1>1, PendingMoves

(* The calls that have not run carry later numbers than those that have.     *)
LEMMA PendingLater ==
    ASSUME TypeOK, Numbered
    PROVE  \A call \in PendingCalls : call.id > Len(ran)
  <1>1. Len(Batch) \in Nat /\ Len(ran) \in Nat /\ Len(queue) \in Nat
    BY BatchTyped DEF TypeOK
  <1> QED BY <1>1 DEF Numbered, PendingCalls

LEMMA PickIsNext ==
    ASSUME TypeOK, Shape, Numbered, NEW op, CanRun(op), CountRun
    PROVE  /\ NextCall \in PendingCalls
           /\ NextCall.op = op
           /\ NextCall.id = Len(ran')
           /\ Len(ran') = Len(ran) + 1
  <1>1. Batch \in Seq(Call) /\ Batch # << >> /\ Head(Batch) = NextCall
    BY PickStack, BatchTyped
  <1>2. NextCall = Batch[1] /\ 1 \in 1 .. Len(Batch)
    BY <1>1
  <1>3. NextCall \in PendingCalls
    BY <1>2 DEF PendingCalls
  <1>4. NextCall.id = Len(ran) + 1
    BY <1>2 DEF Numbered, TypeOK
  <1>5. Len(ran') = Len(ran) + 1
    BY DEF CountRun, TypeOK
  <1> QED BY <1>3, <1>4, <1>5 DEF CanRun

(* Steps that touch no client: what was due stays due.                      *)
LEMMA QuietClients ==
    ASSUME PromiseInv, Move, UNCHANGED clientVars,
           \A call \in PendingCalls' : call \in PendingCalls \/ call.op # "signal"
    PROVE  /\ \A c \in Clients : event'[c] => ticket'[c] <= Len(ran')
           /\ \A call \in PendingCalls' : Due(call)'
  <1>1. event' = event /\ ticket' = ticket /\ wpc' = wpc
    BY DEF clientVars
  <1>2. Len(ran') >= Len(ran) /\ Len(ran) \in Nat /\ Len(ran') \in Nat
    <2>1. TypeOK
      BY DEF PromiseInv, OrderInv
    <2>2. ran' \in Seq(Nat)
      <3>1. CASE UNCHANGED ran
        BY <2>1, <3>1 DEF TypeOK
      <3>2. CASE PickMove
        <4>1. Batch \in Seq(Call) /\ Batch # << >>
          BY <2>1, <3>2, BatchTyped DEF PickMove
        <4>2. Head(Batch) \in Call
          BY <4>1
        <4>3. Head(Batch).id \in Nat
          BY <4>2 DEF Call
        <4> QED BY <2>1, <3>2, <4>3 DEF PickMove, TypeOK
      <3> QED BY <3>1, <3>2 DEF Move, Stay, TakeMove
    <2> QED BY <2>1, <2>2, PendingMoves DEF TypeOK
  <1>3. ASSUME NEW c \in Clients, event'[c] PROVE ticket'[c] <= Len(ran')
    BY <1>1, <1>2, <1>3 DEF PromiseInv, Promise, OrderInv, TypeOK
  <1>4. ASSUME NEW call \in PendingCalls' PROVE Due(call)'
    BY <1>1, <1>4 DEF PromiseInv, Promise, Due
  <1> QED BY <1>3, <1>4

LEMMA PromiseInit == Init => PromiseInv
  <1> HAVE Init
  <1>1. /\ queue = << >> /\ stack = << >> /\ ran = << >> /\ flushed = 0
        /\ Batch = << >> /\ event = [c \in Clients |-> FALSE]
    BY DEF Init, Batch
  <1>2. PendingCalls = {} /\ Len(ran) = 0
    BY <1>1 DEF PendingCalls
  <1> QED BY <1>1, <1>2, OrderInit DEF PromiseInv, Promise

(* The frames of a stack keep what they promise when none is completed.     *)
LEMMA FramesKept ==
    ASSUME PromiseInv, Len(ran') >= Len(ran), Len(ran') \in Nat,
           \A k \in 1 .. Len(stack') :
              stack'[k].kind = "flush" /\ stack'[k].done =>
                 \E j \in 1 .. Len(stack) : stack'[k] = stack[j]
    PROVE  \A k \in 1 .. Len(stack') :
              stack'[k].kind = "flush" /\ stack'[k].done => stack'[k].mark <= Len(ran')
  <1> SUFFICES ASSUME NEW k \in 1 .. Len(stack'),
                      stack'[k].kind = "flush" /\ stack'[k].done
               PROVE  stack'[k].mark <= Len(ran')
    OBVIOUS
  <1>1. PICK j \in 1 .. Len(stack) : stack'[k] = stack[j]
    OBVIOUS
  <1>2. stack[j].mark <= Len(ran)
    BY <1>1 DEF PromiseInv, Promise
  <1>3. stack[j].mark \in Nat /\ Len(ran) \in Nat
    <2>1. stack[j] \in Frame
      BY DEF PromiseInv, OrderInv, TypeOK
    <2> QED BY <2>1 DEF Frame, PromiseInv, OrderInv, TypeOK
  <1> QED BY <1>1, <1>2, <1>3

LEMMA PromiseStep ==
    ASSUME "flush" \notin Ops, Garbage = {FALSE}
    PROVE  PromiseInv /\ [Next]_vars => PromiseInv'
  <1> SUFFICES ASSUME PromiseInv, [Next]_vars PROVE Promise'
    BY OrderStep DEF PromiseInv
  <1>1. /\ TypeOK /\ Shape /\ NoFlushOps /\ Numbered
        /\ TypeOK' /\ Shape' /\ Numbered'
        /\ Move
    BY OrderStep, StepMoves DEF PromiseInv, OrderInv
  <1>2. /\ Len(ran) \in Nat /\ Len(ran') \in Nat /\ Len(ran') >= Len(ran)
        /\ flushed \in Nat /\ flushed <= Len(ran)
    BY <1>1, PendingMoves DEF TypeOK, PromiseInv, Promise
  <1>3. ASSUME UNCHANGED stack
        PROVE  \A k \in 1 .. Len(stack') :
                  stack'[k].kind = "flush" /\ stack'[k].done => stack'[k].mark <= Len(ran')
    BY <1>2, <1>3, FramesKept
  <1>4. ASSUME NEW op, CanRun(op), stack' = AfterPick
        PROVE  \A k \in 1 .. Len(stack') :
                  stack'[k].kind = "flush" /\ stack'[k].done => stack'[k].mark <= Len(ran')
    <2>1. /\ Len(stack) \in 1 .. 2
          /\ Len(AfterPick) = Len(stack)
          /\ AfterPick[1] = BatchFrame(Tail(Batch))
          /\ Len(stack) = 2 => AfterPick[2] = stack[2]
      BY <1>1, <1>4, PickStack
    <2>2. AfterPick[1].kind = "batch"
      BY <2>1 DEF BatchFrame
    <2>3. \A k \in 1 .. Len(stack') :
             stack'[k].kind = "flush" => \E j \in 1 .. Len(stack) : stack'[k] = stack[j]
      BY <1>4, <2>1, <2>2
    <2> QED BY <1>2, <2>3, FramesKept
  <1>5. ASSUME NEW c \in Clients, NEW op \in Ops, Enqueue(c, op) PROVE Promise'
    <2>1. \A call \in PendingCalls' : call \in PendingCalls \/ call.op # "signal"
      BY <1>1, <1>5, PendingPost, OpsAssumption DEF Enqueue
    <2>2. /\ \A d \in Clients : event'[d] => ticket'[d] <= Len(ran')
          /\ \A call \in PendingCalls' : Due(call)'
      BY <1>1, <1>5, <2>1, QuietClients DEF Enqueue
    <2> QED BY <1>2, <1>3, <1>5, <2>2 DEF Enqueue, Promise
  <1>6. ASSUME NEW c \in Clients, WaitForPendingCalls(c) PROVE Promise'
    <2>1. /\ wpc[c] = "idle"
          /\ wpc' = [wpc EXCEPT ![c] = "waiting"]
          /\ event' = [event EXCEPT ![c] = FALSE]
          /\ ticket' = [ticket EXCEPT ![c] = posted + 1]
          /\ UNCHANGED <<stack, ran, flushed>>
          /\ Append1("signal", c)
      BY <1>6 DEF WaitForPendingCalls
    <2>2. ASSUME NEW d \in Clients, event'[d] PROVE ticket'[d] <= Len(ran')
      BY <1>1, <2>1, <2>2 DEF TypeOK, PromiseInv, Promise
    <2>3. ASSUME NEW call \in PendingCalls' PROVE Due(call)'
      <3>1. CASE call \in PendingCalls
        <4>1. Due(call)
          BY <3>1 DEF PromiseInv, Promise
        <4>2. call.op = "signal" => call.by # c
          BY <2>1, <4>1 DEF Due
        <4> QED BY <1>1, <2>1, <4>1, <4>2 DEF Due, TypeOK
      <3>2. CASE call = [id |-> posted + 1, op |-> "signal", by |-> c]
        BY <1>1, <2>1, <3>2 DEF Due, TypeOK
      <3> QED BY <1>1, <2>1, <2>3, <3>1, <3>2, PendingPost
    <2> QED BY <1>2, <1>3, <2>1, <2>2, <2>3 DEF Promise
  <1>7. ASSUME NEW c \in Clients, EventSleep(c) \/ EventSpuriousWakeup(c) PROVE Promise'
    <2>1. /\ wpc[c] # "idle"
          /\ \E to \in {"waiting", "asleep"} : wpc' = [wpc EXCEPT ![c] = to]
          /\ UNCHANGED <<stack, event, ticket, posted, ran, flushed>>
      BY <1>7 DEF EventSleep, EventSpuriousWakeup, historyVars
    <2>2. \A d \in Clients : wpc[d] # "idle" => wpc'[d] # "idle"
      BY <1>1, <2>1 DEF TypeOK
    <2>3. \A call \in PendingCalls' : Due(call)'
      <3>1. PendingCalls' \subseteq PendingCalls
        BY <1>1, <2>1, PendingNoPost
      <3> QED BY <2>1, <2>2, <3>1 DEF Due, PromiseInv, Promise
    <2>4. \A d \in Clients : event'[d] => ticket'[d] <= Len(ran')
      BY <2>1 DEF PromiseInv, Promise
    <2> QED BY <1>2, <1>3, <2>1, <2>3, <2>4 DEF Promise
  <1>8. ASSUME NEW c \in Clients, EventReturn(c) PROVE Promise'
    <2>1. /\ event[c]
          /\ wpc' = [wpc EXCEPT ![c] = "idle"]
          /\ event' = [event EXCEPT ![c] = FALSE]
          /\ LaterOf(ticket[c])
          /\ UNCHANGED <<stack, ticket, posted, ran>>
      BY <1>8 DEF EventReturn
    <2>2. ticket[c] <= Len(ran)
      BY <2>1 DEF PromiseInv, Promise
    <2>3. flushed' <= Len(ran')
      BY <1>2, <2>1, <2>2 DEF LaterOf
    <2>4. \A call \in PendingCalls' : Due(call)'
      <3>1. PendingCalls' \subseteq PendingCalls
        BY <1>1, <2>1, PendingNoPost
      <3>2. ASSUME NEW call \in PendingCalls PROVE Due(call)'
        <4>1. Due(call)
          BY DEF PromiseInv, Promise
        <4>2. call.op = "signal" => call.by # c
          BY <2>1, <4>1 DEF Due
        <4> QED BY <1>1, <2>1, <4>1, <4>2 DEF Due, TypeOK
      <3> QED BY <3>1, <3>2
    <2>5. \A d \in Clients : event'[d] => ticket'[d] <= Len(ran')
      BY <1>1, <2>1 DEF PromiseInv, Promise, TypeOK
    <2> QED BY <1>3, <2>1, <2>3, <2>4, <2>5 DEF Promise
  <1>9. CASE LoopTest \/ Poll \/ DispatchEmpty \/ DispatchSleep \/ DispatchCancelled
             \/ Quit \/ Destructor \/ SpuriousWakeup \/ UNCHANGED vars
    <2>1. UNCHANGED <<stack, clientVars, posted, ran, flushed>>
      BY <1>9 DEF LoopTest, Poll, DispatchEmpty, DispatchSleep,
                  DispatchCancelled, Quit, Destructor, CancelBlockingCalls, Join,
                  SpuriousWakeup, vars, historyVars
    <2>2. PendingCalls' \subseteq PendingCalls
      BY <1>1, <2>1, PendingNoPost
    <2> QED BY <1>1, <1>2, <1>3, <2>1, <2>2, QuietClients DEF Promise
  <1>10. CASE DispatchTake
    <2>1. UNCHANGED <<clientVars, posted, ran, flushed>>
      BY <1>10 DEF DispatchTake, historyVars
    <2>2. PendingCalls' \subseteq PendingCalls
      BY <1>1, <2>1, PendingNoPost
    <2>3. /\ stack'[1] = BatchFrame(queue)
          /\ Len(stack') = Len(stack) + 1
          /\ \A k \in 2 .. Len(stack') : stack'[k] = stack[k - 1] /\ k - 1 \in 1 .. Len(stack)
      BY <1>1, <1>10 DEF DispatchTake, TypeOK
    <2>4. stack'[1].kind = "batch"
      BY <2>3 DEF BatchFrame
    <2>5. \A k \in 1 .. Len(stack') :
             stack'[k].kind = "flush" => \E j \in 1 .. Len(stack) : stack'[k] = stack[j]
      <3>1. SUFFICES ASSUME NEW k \in 1 .. Len(stack'), stack'[k].kind = "flush"
                     PROVE  \E j \in 1 .. Len(stack) : stack'[k] = stack[j]
        OBVIOUS
      <3>2. Len(stack) \in Nat
        BY <1>1 DEF TypeOK
      <3>3. k \in 2 .. Len(stack')
        BY <2>3, <2>4, <3>1, <3>2
      <3> QED BY <2>3, <3>3
    <2>6. \A k \in 1 .. Len(stack') :
             stack'[k].kind = "flush" /\ stack'[k].done => stack'[k].mark <= Len(ran')
      BY <1>2, <2>5, FramesKept
    <2> QED BY <1>1, <1>2, <2>1, <2>2, <2>6, QuietClients DEF Promise
  <1>11. CASE RunWork
    <2>1. PendingCalls' \subseteq PendingCalls
      BY <1>1, <1>11, PendingNoPost DEF RunWork
    <2> QED BY <1>1, <1>2, <1>4, <1>11, <2>1, QuietClients DEF RunWork, Promise
  <1>12. CASE RunSpawn
    <2>1. \A call \in PendingCalls' : call \in PendingCalls \/ call.op # "signal"
      BY <1>1, <1>12, PendingPost DEF RunSpawn
    <2> QED BY <1>1, <1>2, <1>4, <1>12, <2>1, QuietClients DEF RunSpawn, Promise
  <1>13. CASE RunSignal
    <2> DEFINE c == NextCall.by
    <2>1. /\ CanRun("signal") /\ CountRun /\ stack' = AfterPick
          /\ event' = [event EXCEPT ![c] = TRUE]
          /\ wpc' = [wpc EXCEPT ![c] = IF @ = "asleep" THEN "waiting" ELSE @]
          /\ UNCHANGED <<ticket, posted, flushed>>
      BY <1>13 DEF RunSignal
    <2>2. /\ NextCall \in PendingCalls
          /\ NextCall.op = "signal"
          /\ NextCall.id = Len(ran')
      BY <1>1, <2>1, PickIsNext
    <2>3. c \in Clients /\ ticket[c] = Len(ran')
      BY <2>2 DEF Due, PromiseInv, Promise
    <2>4. PendingCalls' \subseteq PendingCalls
      BY <1>1, <2>1, PendingNoPost
    <2>5. \A call \in PendingCalls' : call.id > Len(ran')
      <3>1. (TypeOK /\ Numbered => \A call \in PendingCalls : call.id > Len(ran))'
        BY PendingLater, PTL
      <3> QED BY <1>1, <3>1
    <2>6. ASSUME NEW call \in PendingCalls' PROVE Due(call)'
      <3>1. Due(call) /\ call.id > Len(ran')
        BY <2>4, <2>5 DEF PromiseInv, Promise
      <3>2. call.op = "signal" => call.by # c
        BY <1>2, <2>3, <3>1 DEF Due
      <3> HIDE DEF c
      <3> QED BY <1>1, <2>1, <3>1, <3>2 DEF Due, TypeOK
    <2>7. ASSUME NEW d \in Clients, event'[d] PROVE ticket'[d] <= Len(ran')
      <3> HIDE DEF c
      <3>1. CASE d = c
        BY <1>2, <2>1, <2>3, <3>1
      <3>2. CASE d # c
        <4>1. ticket[d] <= Len(ran) /\ ticket[d] \in Nat
          BY <1>1, <2>1, <2>7, <3>2 DEF PromiseInv, Promise, TypeOK
        <4> QED BY <1>2, <2>1, <4>1
      <3> QED BY <3>1, <3>2
    <2> QED BY <1>2, <1>4, <2>1, <2>6, <2>7 DEF Promise
  <1>14. CASE RunMark
    <2>1. /\ CanRun("mark") /\ CountRun
          /\ UNCHANGED <<queue, clientVars, posted, flushed>>
          /\ stack' = [i \in 1 .. Len(stack) |->
                         [AfterPick[i] EXCEPT
                             !.done = @ \/ (/\ AfterPick[i].kind = "flush"
                                            /\ AfterPick[i].mark = NextCall.id)]]
      BY <1>14 DEF RunMark
    <2>2. PendingCalls' \subseteq PendingCalls
      BY <1>1, <2>1, PendingNoPost
    <2>3. NextCall.id = Len(ran')
      BY <1>1, <2>1, PickIsNext
    <2>4. /\ Len(stack) \in 1 .. 2
          /\ Len(AfterPick) = Len(stack)
          /\ AfterPick[1] = BatchFrame(Tail(Batch))
          /\ Len(stack) = 2 => AfterPick[2] = stack[2]
          /\ AfterPick \in Seq(Frame)
      BY <1>1, <2>1, PickStack, PickTyped
    <2>5. ASSUME NEW k \in 1 .. Len(stack'), stack'[k].kind = "flush", stack'[k].done
          PROVE  stack'[k].mark <= Len(ran')
      <3>1. k \in 1 .. Len(stack) /\ AfterPick[k] \in Frame
        BY <2>1, <2>4
      <3>2. stack'[k] = [AfterPick[k] EXCEPT
                             !.done = @ \/ (/\ AfterPick[k].kind = "flush"
                                            /\ AfterPick[k].mark = NextCall.id)]
        BY <2>1, <3>1
      <3>3. /\ stack'[k].mark = AfterPick[k].mark
            /\ AfterPick[k].kind = "flush"
            /\ AfterPick[k].done \/ AfterPick[k].mark = NextCall.id
        BY <2>5, <3>1, <3>2 DEF Frame
      <3>4. CASE AfterPick[k].mark = NextCall.id
        BY <1>2, <2>3, <3>3, <3>4
      <3>5. CASE AfterPick[k].done
        <4>1. k = 2 /\ Len(stack) = 2 /\ AfterPick[k] = stack[2]
          BY <2>4, <3>1, <3>3 DEF BatchFrame
        <4>2. stack[2].mark <= Len(ran) /\ stack[2].mark \in Nat
          BY <3>1, <3>3, <3>5, <4>1 DEF PromiseInv, Promise, Frame
        <4> QED BY <1>2, <3>3, <4>1, <4>2
      <3> QED BY <3>3, <3>4, <3>5
    <2>6. \A k \in 1 .. Len(stack') :
             stack'[k].kind = "flush" /\ stack'[k].done => stack'[k].mark <= Len(ran')
      BY <2>5
    <2>7. /\ \A d \in Clients : event'[d] => ticket'[d] <= Len(ran')
          /\ \A call \in PendingCalls' : Due(call)'
      BY <1>1, <2>1, <2>2, QuietClients
    <2>8. flushed' <= Len(ran')
      BY <1>2, <2>1
    <2> QED BY <2>6, <2>7, <2>8 DEF Promise
  <1>15. CASE RunFlush
    <2>1. Batch # << >> /\ Head(Batch).op = "flush"
      BY <1>1, <1>15, PickStack DEF RunFlush, CanRun
    <2>2. Head(Batch) = Batch[1] /\ 1 \in 1 .. Len(Batch)
      BY <1>1, <2>1, BatchTyped
    <2> QED BY <1>1, <2>1, <2>2 DEF NoFlushOps
  <1>16. CASE DispatchReturn \/ FlushReturn
    <2>1. stack \in Seq(Frame) /\ stack # << >> /\ Head(stack) = stack[1]
      BY <1>1, <1>16 DEF DispatchReturn, FlushReturn, InBatch, TypeOK
    <2>2. stack' = Tail(stack) /\ UNCHANGED <<clientVars, posted, ran>>
      BY <1>16 DEF DispatchReturn, FlushReturn, historyVars
    <2>3. flushed' <= Len(ran')
      <3>1. CASE DispatchReturn
        BY <1>2, <3>1 DEF DispatchReturn, historyVars
      <3>2. CASE FlushReturn
        <4>1. /\ stack[1].kind = "flush" /\ stack[1].done
              /\ LaterOf(stack[1].mark)
              /\ 1 \in 1 .. Len(stack)
          BY <2>1, <3>2 DEF FlushReturn
        <4>2. stack[1].mark <= Len(ran)
          BY <4>1 DEF PromiseInv, Promise
        <4> QED BY <1>2, <2>2, <4>1, <4>2 DEF LaterOf
      <3> QED BY <1>16, <3>1, <3>2
    <2>4. \A k \in 1 .. Len(stack') : k + 1 \in 1 .. Len(stack) /\ stack'[k] = stack[k + 1]
      BY <2>1, <2>2
    <2>5. \A k \in 1 .. Len(stack') :
             stack'[k].kind = "flush" /\ stack'[k].done => stack'[k].mark <= Len(ran')
      BY <1>2, <2>4, FramesKept
    <2>6. PendingCalls' \subseteq PendingCalls
      BY <1>1, <2>2, PendingNoPost
    <2> QED BY <1>1, <2>2, <2>3, <2>5, <2>6, QuietClients DEF Promise
  <1>17. CASE PollerFlush
    <2>1. stack' = <<FlushFrame(posted + 1, FALSE)>>
      BY <1>17 DEF PollerFlush
    <2>2. UNCHANGED <<clientVars, ran, flushed>> /\ Append1("mark", Nobody)
      BY <1>17 DEF PollerFlush
    <2>3. \A k \in 1 .. Len(stack') : ~stack'[k].done
      BY <2>1 DEF FlushFrame
    <2>4. \A call \in PendingCalls' : call \in PendingCalls \/ call.op # "signal"
      BY <1>1, <2>2, PendingPost
    <2> QED BY <1>1, <1>2, <2>2, <2>3, <2>4, QuietClients DEF Promise
  <1> QED
    BY <1>5, <1>6, <1>7, <1>8, <1>9, <1>10, <1>11, <1>12, <1>13, <1>14, <1>15,
       <1>16, <1>17 DEF Next, Dispatcher, Wait

LEMMA PromiseImplies == PromiseInv => FlushKeepsPromise
  <1> SUFFICES ASSUME PromiseInv, NEW id \in 1 .. flushed
               PROVE  RanAt(id) # {}
    BY DEF FlushKeepsPromise
  <1>1. id \in 1 .. Len(ran) /\ ran[id] = id
    BY DEF PromiseInv, Promise, OrderInv, Numbered, TypeOK
  <1> QED BY <1>1 DEF RanAt, PromiseInv, OrderInv, TypeOK

(* A WaitForPendingCalls that returned has flushed what was enqueued before  *)
(* it, if bCompleted starts out false and no dispatched call waits itself.   *)
THEOREM WaitFlushes ==
    ASSUME "flush" \notin Ops, Garbage = {FALSE}
    PROVE  Spec => []FlushKeepsPromise
  <1>1. Init => PromiseInv
    BY PromiseInit
  <1>2. PromiseInv /\ [Next]_vars => PromiseInv'
    BY PromiseStep
  <1>3. PromiseInv => FlushKeepsPromise
    BY PromiseImplies
  <1> QED BY <1>1, <1>2, <1>3, PTL DEF Spec

(***************************************************************************)
(* Refinement: every step is a step of the mailbox or a stutter.            *)
(***************************************************************************)
LEMMA MailboxStep ==
    ASSUME "flush" \notin Ops, Garbage = {FALSE},
           PromiseInv, PromiseInv', [Next]_vars
    PROVE  [Mailbox!Next]_(Mailbox!mailboxVars)
  <1>1. /\ TypeOK /\ Shape /\ NoFlushOps /\ Numbered
        /\ flushed' \in Nat /\ flushed' <= Len(ran') /\ Len(ran') \in Nat
    BY DEF PromiseInv, OrderInv, Promise, TypeOK
  <1> USE DEF Mailbox!Next, Mailbox!mailboxVars
  <1>2. ASSUME posted' = posted + 1, UNCHANGED <<ran, flushed>>
        PROVE  Mailbox!Post
    BY <1>2 DEF Mailbox!Post
  <1>3. ASSUME UNCHANGED <<posted, ran>>, flushed' >= flushed
        PROVE  Mailbox!Flushed
    BY <1>1, <1>3 DEF Mailbox!Flushed, TypeOK
  <1>4. ASSUME NEW op, CanRun(op), CountRun, UNCHANGED flushed,
               posted' \in {posted, posted + 1}
        PROVE  Mailbox!Deliver
    <2>1. NextCall.id = Len(ran) + 1
      BY <1>1, <1>4, PickIsNext
    <2>2. Len(Batch) \in Nat \ {0} /\ Len(queue) \in Nat /\ Len(ran) \in Nat
      BY <1>1, <1>4, PickStack, BatchTyped DEF TypeOK
    <2>3. Len(ran) < posted
      BY <1>1, <2>2 DEF Numbered
    <2> QED BY <1>4, <2>1, <2>3 DEF Mailbox!Deliver, CountRun
  <1>5. CASE \E c \in Clients, op \in Ops : Enqueue(c, op)
    BY <1>2, <1>5 DEF Enqueue, Append1
  <1>6. CASE \E c \in Clients : WaitForPendingCalls(c)
    BY <1>2, <1>6 DEF WaitForPendingCalls, Append1
  <1>7. CASE \E c \in Clients : EventSleep(c) \/ EventSpuriousWakeup(c)
    BY <1>7 DEF EventSleep, EventSpuriousWakeup, historyVars
  <1>8. ASSUME NEW c \in Clients, EventReturn(c) PROVE Mailbox!Flushed
    <2>1. ticket[c] \in Nat /\ flushed \in Nat
      BY <1>1 DEF TypeOK
    <2> QED BY <1>3, <1>8, <2>1 DEF EventReturn, LaterOf
  <1>9. CASE LoopTest \/ Poll \/ DispatchEmpty \/ DispatchSleep \/ DispatchCancelled
             \/ DispatchTake \/ DispatchReturn \/ Quit \/ Destructor
             \/ SpuriousWakeup \/ UNCHANGED vars
    BY <1>9 DEF LoopTest, Poll, DispatchEmpty, DispatchSleep, DispatchCancelled,
                DispatchTake, DispatchReturn, Quit, Destructor,
                CancelBlockingCalls, Join, SpuriousWakeup, vars, historyVars
  <1>10. CASE RunWork
    BY <1>4, <1>10 DEF RunWork
  <1>11. CASE RunSpawn
    BY <1>4, <1>11 DEF RunSpawn, Append1
  <1>12. CASE RunSignal
    BY <1>4, <1>12 DEF RunSignal
  <1>13. CASE RunMark
    BY <1>4, <1>13 DEF RunMark
  <1>14. CASE RunFlush
    BY <1>4, <1>14 DEF RunFlush, Append1
  <1>15. CASE FlushReturn
    <2>1. Head(stack) \in Frame /\ flushed \in Nat
      BY <1>1, <1>15 DEF FlushReturn, TypeOK
    <2>2. Head(stack).mark \in Nat
      BY <2>1 DEF Frame
    <2> QED BY <1>3, <1>15, <2>1, <2>2 DEF FlushReturn, LaterOf
  <1>16. CASE PollerFlush
    BY <1>2, <1>16 DEF PollerFlush, Append1
  <1> QED
    BY <1>5, <1>6, <1>7, <1>8, <1>9, <1>10, <1>11, <1>12, <1>13, <1>14, <1>15,
       <1>16 DEF Next, Dispatcher, Wait

(* The queue, its condition variables, batches and waits implement the      *)
(* mailbox, under the same conditions.                                      *)
THEOREM ImplementsMailbox ==
    ASSUME "flush" \notin Ops, Garbage = {FALSE}
    PROVE  Spec => MailboxSpec
  <1>1. Init => PromiseInv
    BY PromiseInit
  <1>2. PromiseInv /\ [Next]_vars => PromiseInv'
    BY PromiseStep
  <1>3. Init => Mailbox!Init
    BY DEF Init, Mailbox!Init
  <1>4. PromiseInv /\ PromiseInv' /\ [Next]_vars
           => [Mailbox!Next]_(Mailbox!mailboxVars)
    BY MailboxStep
  <1> QED
    BY <1>1, <1>2, <1>3, <1>4, PTL
    DEF Spec, MailboxSpec, Mailbox!Spec, Mailbox!mailboxVars

-----------------------------------------------------------------------------
(* The second part: Dispatches inside Dispatches.                           *)

(* The calls numbered 1 to n that left the queue: r are those that have been *)
(* run, the others are at some place <<k, i>> of the stack st.              *)
At(st, k, i) == k \in 1 .. Len(st) /\ i \in 1 .. Len(st[k].rest)

CallAt(st, k, i) == st[k].rest[i]
IdAt(st, k, i) == CallAt(st, k, i).id

RanOnce(r, n) ==
    /\ \A i \in 1 .. Len(r) : r[i] \in 1 .. n
    /\ \A i, j \in 1 .. Len(r) : r[i] = r[j] => i = j

(* A call is not numbered below its index, as those before it in its batch   *)
(* have smaller numbers.                                                    *)
NotRun(st, r, n) ==
    \A k, i \in Nat : At(st, k, i) =>
        /\ IdAt(st, k, i) \in i .. n
        /\ \A j \in 1 .. Len(r) : r[j] # IdAt(st, k, i)

OnePlace(st) ==
    \A k, i, l, j \in Nat :
        At(st, k, i) /\ At(st, l, j) /\ IdAt(st, k, i) = IdAt(st, l, j) =>
            k = l /\ i = j

Covered(st, r, n) ==
    \A id \in 1 .. n :
        \/ \E i \in 1 .. Len(r) : r[i] = id
        \/ \E k, i \in Nat : At(st, k, i) /\ IdAt(st, k, i) = id

Once(st, r, n) ==
    RanOnce(r, n) /\ NotRun(st, r, n) /\ OnePlace(st) /\ Covered(st, r, n)

LEMMA PlaceTyped ==
    ASSUME NEW st \in Seq(Frame), NEW k, NEW i, At(st, k, i)
    PROVE  /\ k \in Nat \ {0} /\ i \in Nat \ {0}
           /\ st[k] \in Frame
           /\ st[k].rest \in Seq(Call)
           /\ CallAt(st, k, i) \in Call
           /\ IdAt(st, k, i) \in Nat
  <1>1. k \in 1 .. Len(st) /\ Len(st) \in Nat /\ st[k] \in Frame
    BY DEF At
  <1>2. st[k].rest \in Seq(Call)
    BY <1>1 DEF Frame
  <1>3. i \in 1 .. Len(st[k].rest) /\ st[k].rest[i] \in Call
    BY <1>2 DEF At
  <1>4. st[k].rest[i].id \in Nat
    BY <1>3 DEF Call
  <1> QED BY <1>1, <1>2, <1>3, <1>4 DEF CallAt, IdAt

(* The frames of the stack after a call.                                    *)
LEMMA Pushed ==
    ASSUME NEW st \in Seq(Frame), NEW f \in Frame
    PROVE  /\ <<f>> \o st \in Seq(Frame)
           /\ Len(st) \in Nat
           /\ Len(<<f>> \o st) = Len(st) + 1
           /\ (<<f>> \o st)[1] = f
           /\ \A k \in 1 .. Len(st) : (<<f>> \o st)[k + 1] = st[k]
  OBVIOUS

(* Its places: those of the new frame, and the old ones one further down.    *)
LEMMA PushedPlaces ==
    ASSUME NEW st \in Seq(Frame), NEW f \in Frame, NEW k \in Nat, NEW i \in Nat
    PROVE  /\ At(<<f>> \o st, 1, i) <=> i \in 1 .. Len(f.rest)
           /\ CallAt(<<f>> \o st, 1, i) = f.rest[i]
           /\ k > 0 => /\ At(<<f>> \o st, k + 1, i) <=> At(st, k, i)
                       /\ At(st, k, i) => CallAt(<<f>> \o st, k + 1, i) = CallAt(st, k, i)
           /\ ~At(<<f>> \o st, 0, i)
  <1> DEFINE su == <<f>> \o st
  <1>1. /\ Len(st) \in Nat
        /\ Len(su) = Len(st) + 1
        /\ su[1] = f
        /\ \A x \in 1 .. Len(st) : su[x + 1] = st[x]
    BY Pushed
  <1> HIDE DEF su
  <1>2. At(su, 1, i) <=> i \in 1 .. Len(f.rest)
    BY <1>1 DEF At
  <1>3. CallAt(su, 1, i) = f.rest[i]
    BY <1>1 DEF CallAt
  <1>4. ASSUME k > 0
        PROVE  /\ At(su, k + 1, i) <=> At(st, k, i)
               /\ At(st, k, i) => CallAt(su, k + 1, i) = CallAt(st, k, i)
    <2>1. k \in 1 .. Len(st) <=> k + 1 \in 1 .. Len(su)
      BY <1>1, <1>4
    <2>2. k \in 1 .. Len(st) => su[k + 1] = st[k]
      BY <1>1
    <2> QED BY <2>1, <2>2 DEF At, CallAt
  <1>5. ~At(su, 0, i)
    BY <1>1 DEF At
  <1> QED BY <1>2, <1>3, <1>4, <1>5 DEF su

(* Dispatch opens a batch of the calls numbered n + 1 on (or of none: the    *)
(* frame of a WaitForPendingCalls(true) has no calls).                       *)
LEMMA OncePush ==
    ASSUME NEW st \in Seq(Frame), NEW r \in Seq(Nat), NEW n \in Nat,
           Once(st, r, n), NEW f \in Frame, NEW m \in Nat, m = Len(f.rest),
           \A i \in 1 .. m : f.rest[i].id = n + i
    PROVE  Once(<<f>> \o st, r, n + m)
  <1> DEFINE su == <<f>> \o st
  <1>1. \A k, i \in Nat :
           At(su, k, i) =>
              \/ k = 1 /\ i \in 1 .. m /\ IdAt(su, k, i) = n + i
              \/ \E l \in Nat : /\ k = l + 1
                                /\ At(st, l, i) /\ IdAt(su, k, i) = IdAt(st, l, i)
    <2> SUFFICES ASSUME NEW k \in Nat, NEW i \in Nat, At(su, k, i)
                 PROVE  \/ k = 1 /\ i \in 1 .. m /\ IdAt(su, k, i) = n + i
                        \/ \E l \in Nat : /\ k = l + 1
                              /\ At(st, l, i) /\ IdAt(su, k, i) = IdAt(st, l, i)
      BY ZenonT(40)
    <2>1. CASE k = 0
      BY <2>1, PushedPlaces
    <2>2. CASE k = 1
      <3>1. At(su, 1, i) <=> i \in 1 .. m
        BY PushedPlaces
      <3>2. IdAt(su, 1, i) = f.rest[i].id
        BY PushedPlaces DEF IdAt
      <3> QED BY <2>2, <3>1, <3>2
    <2>3. CASE k > 1
      <3>1. k - 1 \in Nat /\ k - 1 > 0 /\ k = (k - 1) + 1
        BY <2>3
      <3>2. PICK l \in Nat : l = k - 1 /\ l > 0 /\ k = l + 1
        BY <3>1
      <3>3. At(st, l, i) /\ CallAt(su, l + 1, i) = CallAt(st, l, i)
        BY <3>2, PushedPlaces
      <3>4. IdAt(su, l + 1, i) = IdAt(st, l, i)
        BY <3>3 DEF IdAt
      <3> QED BY <3>2, <3>3, <3>4
    <2> QED BY <2>1, <2>2, <2>3
  <1>2. \A i \in 1 .. m : At(su, 1, i) /\ IdAt(su, 1, i) = n + i
    <2> SUFFICES ASSUME NEW i \in 1 .. m
                 PROVE  At(su, 1, i) /\ IdAt(su, 1, i) = n + i
      OBVIOUS
    <2>1. i \in Nat /\ 1 \in Nat
      OBVIOUS
    <2>2. At(su, 1, i) /\ IdAt(su, 1, i) = f.rest[i].id
      BY <2>1, PushedPlaces DEF IdAt
    <2> QED BY <2>2
  <1>3. \A k, i \in Nat :
           At(st, k, i) => At(su, k + 1, i) /\ IdAt(su, k + 1, i) = IdAt(st, k, i)
    <2> SUFFICES ASSUME NEW k \in Nat, NEW i \in Nat, At(st, k, i)
                 PROVE  At(su, k + 1, i) /\ IdAt(su, k + 1, i) = IdAt(st, k, i)
      OBVIOUS
    <2>1. k > 0
      BY PlaceTyped
    <2> QED BY <2>1, PushedPlaces DEF IdAt
  <1> HIDE DEF su
  <1>4. Len(r) \in Nat /\ \A j \in 1 .. Len(r) : r[j] \in 1 .. n
    BY DEF Once, RanOnce
  <1>5. RanOnce(r, n + m)
    BY <1>4 DEF Once, RanOnce
  <1>6. \A l, i \in Nat : At(st, l, i) =>
           /\ IdAt(st, l, i) \in i .. n
           /\ \A j \in 1 .. Len(r) : r[j] # IdAt(st, l, i)
    BY DEF Once, NotRun
  <1>7. NotRun(su, r, n + m)
    <2> SUFFICES ASSUME NEW k \in Nat, NEW i \in Nat, At(su, k, i)
                 PROVE  /\ IdAt(su, k, i) \in i .. n + m
                        /\ \A j \in 1 .. Len(r) : r[j] # IdAt(su, k, i)
      BY DEF NotRun
    <2>1. CASE k = 1 /\ i \in 1 .. m /\ IdAt(su, k, i) = n + i
      BY <2>1, <1>4
    <2>2. CASE \E l \in Nat : /\ k = l + 1
                              /\ At(st, l, i) /\ IdAt(su, k, i) = IdAt(st, l, i)
      BY <2>2, <1>6
    <2> QED BY <1>1, <2>1, <2>2
  <1>8. OnePlace(su)
    <2> SUFFICES ASSUME NEW k \in Nat, NEW i \in Nat, NEW l \in Nat, NEW j \in Nat,
                        At(su, k, i), At(su, l, j), IdAt(su, k, i) = IdAt(su, l, j)
                 PROVE  k = l /\ i = j
      BY DEF OnePlace
    <2>1. CASE k = 1 /\ i \in 1 .. m /\ IdAt(su, k, i) = n + i
      <3>1. ASSUME NEW x \in Nat, l = x + 1, At(st, x, j),
                   IdAt(su, l, j) = IdAt(st, x, j)
            PROVE  FALSE
        <4>1. IdAt(st, x, j) \in j .. n
          BY <1>6, <3>1
        <4> QED BY <2>1, <3>1, <4>1
      <3>2. l = 1 /\ IdAt(su, l, j) = n + j
        BY <1>1, <3>1
      <3> QED BY <2>1, <3>2
    <2>2. ASSUME NEW x \in Nat, k = x + 1, At(st, x, i),
                 IdAt(su, k, i) = IdAt(st, x, i)
          PROVE  k = l /\ i = j
      <3>1. CASE l = 1 /\ j \in 1 .. m /\ IdAt(su, l, j) = n + j
        <4>1. IdAt(st, x, i) \in i .. n
          BY <1>6, <2>2
        <4> QED BY <2>2, <3>1, <4>1
      <3>2. ASSUME NEW y \in Nat, l = y + 1, At(st, y, j),
                   IdAt(su, l, j) = IdAt(st, y, j)
            PROVE  k = l /\ i = j
        <4>1. x = y /\ i = j
          BY <2>2, <3>2 DEF Once, OnePlace
        <4> QED BY <2>2, <3>2, <4>1
      <3> QED BY <1>1, <3>1, <3>2
    <2> QED BY <1>1, <2>1, <2>2
  <1>9. Covered(su, r, n + m)
    <2> SUFFICES ASSUME NEW id \in 1 .. n + m
                 PROVE  \/ \E i \in 1 .. Len(r) : r[i] = id
                        \/ \E k, i \in Nat : At(su, k, i) /\ IdAt(su, k, i) = id
      BY DEF Covered
    <2>1. CASE id <= n
      <3>1. CASE \E k, i \in Nat : At(st, k, i) /\ IdAt(st, k, i) = id
        <4>1. PICK k \in Nat, i \in Nat : At(st, k, i) /\ IdAt(st, k, i) = id
          BY <3>1
        <4>2. k + 1 \in Nat /\ At(su, k + 1, i) /\ IdAt(su, k + 1, i) = id
          BY <1>3, <4>1
        <4> QED BY <4>2
      <3>2. id \in 1 .. n
        BY <2>1
      <3> QED BY <3>1, <3>2 DEF Once, Covered
    <2>2. CASE id > n
      <3>1. id - n \in 1 .. m /\ id - n \in Nat /\ n + (id - n) = id
        BY <2>2
      <3> QED BY <1>2, <3>1
    <2> QED BY <2>1, <2>2
  <1> QED BY <1>5, <1>7, <1>8, <1>9 DEF Once, su

(* The same calls at the same places, but for d frames without calls that    *)
(* are gone from the top of the stack.                                      *)
LEMMA OnceShift ==
    ASSUME NEW st \in Seq(Frame), NEW r, NEW n, Once(st, r, n), NEW su,
           NEW d \in Nat,
           \A k, i \in Nat : At(st, k, i) => k > d,
           \A k, i \in Nat : At(su, k, i) <=> k > 0 /\ At(st, k + d, i),
           \A k, i \in Nat : At(su, k, i) => IdAt(su, k, i) = IdAt(st, k + d, i)
    PROVE  Once(su, r, n)
  <1>1. NotRun(su, r, n)
    BY DEF Once, NotRun
  <1>2. OnePlace(su)
    <2> SUFFICES ASSUME NEW k \in Nat, NEW i \in Nat, NEW l \in Nat, NEW j \in Nat,
                        At(su, k, i), At(su, l, j), IdAt(su, k, i) = IdAt(su, l, j)
                 PROVE  k = l /\ i = j
      BY DEF OnePlace
    <2>1. /\ At(st, k + d, i) /\ At(st, l + d, j)
          /\ IdAt(st, k + d, i) = IdAt(st, l + d, j)
          /\ k + d \in Nat /\ l + d \in Nat
      OBVIOUS
    <2>2. k + d = l + d /\ i = j
      BY <2>1 DEF Once, OnePlace
    <2> QED BY <2>2
  <1>3. Covered(su, r, n)
    <2> SUFFICES ASSUME NEW id \in 1 .. n,
                        NEW k \in Nat, NEW i \in Nat, At(st, k, i), IdAt(st, k, i) = id
                 PROVE  \E l, j \in Nat : At(su, l, j) /\ IdAt(su, l, j) = id
      BY DEF Once, Covered
    <2>1. k - d \in Nat /\ k - d > 0 /\ (k - d) + d = k
      OBVIOUS
    <2>2. PICK l \in Nat : l > 0 /\ l + d = k
      BY <2>1
    <2>3. At(su, l, i) /\ IdAt(su, l, i) = id
      BY <2>2
    <2> QED BY <2>3
  <1> QED BY <1>1, <1>2, <1>3 DEF Once

(* The innermost Dispatch, or WaitForPendingCalls(true), returns.           *)
LEMMA OncePop ==
    ASSUME NEW st \in Seq(Frame), NEW r, NEW n, Once(st, r, n),
           st # << >>, Head(st).rest = << >>
    PROVE  Once(Tail(st), r, n)
  <1> DEFINE su == Tail(st)
  <1>1. /\ Len(st) \in Nat \ {0}
        /\ Len(su) = Len(st) - 1
        /\ st[1].rest = << >>
        /\ \A k \in 1 .. Len(st) - 1 : su[k] = st[k + 1]
    BY Dequeued
  <1> HIDE DEF su
  <1>2. \A k, i \in Nat : At(st, k, i) => k > 1
    <2> SUFFICES ASSUME NEW k \in Nat, NEW i \in Nat, At(st, k, i), k = 1
                 PROVE  FALSE
      BY <1>1 DEF At
    <2>1. 1 .. Len(<< >>) = {}
      OBVIOUS
    <2> QED BY <1>1, <2>1 DEF At
  <1>3. \A k, i \in Nat : /\ At(su, k, i) <=> k > 0 /\ At(st, k + 1, i)
                          /\ At(su, k, i) => IdAt(su, k, i) = IdAt(st, k + 1, i)
    <2> SUFFICES ASSUME NEW k \in Nat, NEW i \in Nat
                 PROVE  /\ At(su, k, i) <=> k > 0 /\ At(st, k + 1, i)
                        /\ At(su, k, i) => IdAt(su, k, i) = IdAt(st, k + 1, i)
      OBVIOUS
    <2>1. k \in 1 .. Len(su) <=> k > 0 /\ k + 1 \in 1 .. Len(st)
      BY <1>1
    <2>2. k \in 1 .. Len(su) => su[k] = st[k + 1]
      BY <1>1
    <2> QED BY <2>1, <2>2 DEF At, CallAt, IdAt
  <1>4. Once(su, r, n)
    BY <1>2, <1>3, OnceShift
  <1> QED BY <1>4 DEF su

(* Running a call changes no more than the done flags of flush frames.       *)
LEMMA OnceSame ==
    ASSUME NEW st \in Seq(Frame), NEW r, NEW n, Once(st, r, n), NEW su,
           Len(su) = Len(st), \A k \in 1 .. Len(st) : su[k].rest = st[k].rest
    PROVE  Once(su, r, n)
  <1>1. \A k, i \in Nat : /\ At(su, k, i) <=> At(st, k, i)
                          /\ At(su, k, i) => IdAt(su, k, i) = IdAt(st, k, i)
    BY DEF At, CallAt, IdAt
  <1>2. \A k, i \in Nat : At(st, k, i) => k > 0
    BY PlaceTyped
  <1>3. \A k, i \in Nat : At(su, k, i) <=> k > 0 /\ At(st, k + 0, i)
    BY <1>1, <1>2
  <1>4. \A k, i \in Nat : At(su, k, i) => IdAt(su, k, i) = IdAt(st, k + 0, i)
    BY <1>1
  <1>5. 0 \in Nat
    OBVIOUS
  <1> QED BY <1>2, <1>3, <1>4, <1>5, OnceShift

(* The stack once the next call of its innermost Dispatch was picked.        *)
Picked(st) == <<BatchFrame(Tail(Head(st).rest))>> \o Tail(st)

LEMMA PickedPlaces ==
    ASSUME NEW st \in Seq(Frame), st # << >>, Head(st).rest # << >>
    PROVE  /\ Picked(st) \in Seq(Frame)
           /\ Len(Picked(st)) = Len(st)
           /\ \A k \in 2 .. Len(st) : Picked(st)[k] = st[k]
           /\ At(st, 1, 1) /\ Head(Head(st).rest) = CallAt(st, 1, 1)
           /\ \A k, i \in Nat :
                 k # 1 => /\ At(Picked(st), k, i) <=> At(st, k, i)
                          /\ At(st, k, i) => CallAt(Picked(st), k, i) = CallAt(st, k, i)
           /\ \A i \in Nat :
                 /\ At(Picked(st), 1, i) <=> i > 0 /\ At(st, 1, i + 1)
                 /\ At(Picked(st), 1, i) =>
                       CallAt(Picked(st), 1, i) = CallAt(st, 1, i + 1)
  <1> DEFINE su == Picked(st)
             b == Head(st).rest
             f == BatchFrame(Tail(b))
  <1>1. /\ Len(st) \in Nat \ {0}
        /\ Tail(st) \in Seq(Frame)
        /\ Len(Tail(st)) = Len(st) - 1
        /\ Head(st) = st[1] /\ st[1] \in Frame
        /\ \A k \in 1 .. Len(st) - 1 : Tail(st)[k] = st[k + 1]
    BY Dequeued
  <1>2. b \in Seq(Call) /\ b = st[1].rest
    BY <1>1 DEF Frame
  <1>3. /\ Tail(b) \in Seq(Call)
        /\ Len(b) \in Nat \ {0}
        /\ Len(Tail(b)) = Len(b) - 1
        /\ Head(b) = b[1]
        /\ \A i \in 1 .. Len(b) - 1 : Tail(b)[i] = b[i + 1]
    BY <1>2, Dequeued
  <1>4. f \in Frame
    BY <1>3, FramesTyped
  <1>5. f.rest = Tail(b)
    BY DEF BatchFrame
  <1>6. su = <<f>> \o Tail(st)
    BY DEF Picked
  <1> HIDE DEF su, b, f
  <1>7. /\ su \in Seq(Frame)
        /\ Len(su) = Len(Tail(st)) + 1
        /\ su[1] = f
        /\ \A k \in 1 .. Len(Tail(st)) : su[k + 1] = Tail(st)[k]
    BY <1>1, <1>4, <1>6, Pushed
  <1>8. Len(su) = Len(st)
    BY <1>1, <1>7
  <1>9. ASSUME NEW k \in 2 .. Len(st) PROVE su[k] = st[k]
    <2>1. PICK l \in 1 .. Len(st) - 1 : k = l + 1
      <3>1. k - 1 \in 1 .. Len(st) - 1 /\ k = (k - 1) + 1
        BY <1>1
      <3> QED BY <3>1
    <2>2. su[l + 1] = Tail(st)[l] /\ Tail(st)[l] = st[l + 1]
      BY <1>1, <1>7
    <2> QED BY <2>1, <2>2
  <1>10. At(st, 1, 1) /\ Head(b) = CallAt(st, 1, 1)
    BY <1>1, <1>2, <1>3 DEF At, CallAt
  <1>11. ASSUME NEW k \in Nat, NEW i \in Nat, k # 1
         PROVE  /\ At(su, k, i) <=> At(st, k, i)
                /\ At(st, k, i) => CallAt(su, k, i) = CallAt(st, k, i)
    <2>1. k \in 1 .. Len(st) => k \in 2 .. Len(st)
      BY <1>1, <1>11
    <2> QED BY <1>8, <1>9, <2>1 DEF At, CallAt
  <1>12. ASSUME NEW i \in Nat
         PROVE  /\ At(su, 1, i) <=> i > 0 /\ At(st, 1, i + 1)
                /\ At(su, 1, i) => CallAt(su, 1, i) = CallAt(st, 1, i + 1)
    <2>1. 1 \in 1 .. Len(st) /\ su[1].rest = Tail(b)
      BY <1>1, <1>5, <1>7
    <2>2. i \in 1 .. Len(Tail(b)) <=> i > 0 /\ i + 1 \in 1 .. Len(b)
      BY <1>3
    <2>3. i \in 1 .. Len(Tail(b)) => Tail(b)[i] = b[i + 1]
      BY <1>3
    <2>4. At(su, 1, i) <=> i > 0 /\ At(st, 1, i + 1)
      BY <1>2, <1>8, <2>1, <2>2 DEF At
    <2>5. At(su, 1, i) => CallAt(su, 1, i) = CallAt(st, 1, i + 1)
      BY <1>2, <2>1, <2>3 DEF At, CallAt
    <2> QED BY <2>4, <2>5
  <1> QED BY <1>7, <1>8, <1>9, <1>10, <1>11, <1>12 DEF su, b

(* Dispatch calls the next entry of its batch.                              *)
LEMMA OncePick ==
    ASSUME NEW st \in Seq(Frame), NEW r \in Seq(Nat), NEW n \in Nat,
           Once(st, r, n), st # << >>, Head(st).rest # << >>
    PROVE  Once(Picked(st), Append(r, Head(Head(st).rest).id), n)
  <1> DEFINE su == Picked(st)
             x == Head(Head(st).rest).id
             ru == Append(r, x)
  <1>1. /\ At(st, 1, 1) /\ x = IdAt(st, 1, 1)
        /\ \A k, i \in Nat :
              k # 1 => /\ At(su, k, i) <=> At(st, k, i)
                       /\ At(st, k, i) => IdAt(su, k, i) = IdAt(st, k, i)
        /\ \A i \in Nat :
              /\ At(su, 1, i) <=> i > 0 /\ At(st, 1, i + 1)
              /\ At(su, 1, i) => IdAt(su, 1, i) = IdAt(st, 1, i + 1)
    BY PickedPlaces DEF IdAt
  <1>2. x \in Nat
    BY <1>1, PlaceTyped
  <1>3. /\ Len(r) \in Nat
        /\ Len(ru) = Len(r) + 1
        /\ ru[Len(r) + 1] = x
        /\ \A i \in 1 .. Len(r) : ru[i] = r[i]
    BY <1>2, Appended
  <1>4. \A i \in 1 .. Len(ru) :
           \/ i \in 1 .. Len(r) /\ ru[i] = r[i]
           \/ i = Len(r) + 1 /\ ru[i] = x
    BY <1>3
  <1> HIDE DEF su, x, ru
  <1>5. \A l, i \in Nat : At(st, l, i) =>
           /\ IdAt(st, l, i) \in i .. n
           /\ \A j \in 1 .. Len(r) : r[j] # IdAt(st, l, i)
    BY DEF Once, NotRun
  <1>6. x \in 1 .. n /\ \A j \in 1 .. Len(r) : r[j] # x
    BY <1>1, <1>5
  <1>7. RanOnce(ru, n)
    <2>1. \A i \in 1 .. Len(ru) : ru[i] \in 1 .. n
      BY <1>4, <1>6 DEF Once, RanOnce
    <2>2. ASSUME NEW i \in 1 .. Len(ru), NEW j \in 1 .. Len(ru), ru[i] = ru[j]
          PROVE  i = j
      <3>1. \A a, b \in 1 .. Len(r) : r[a] = r[b] => a = b
        BY DEF Once, RanOnce
      <3> QED BY <1>4, <1>6, <2>2, <3>1
    <2> QED BY <2>1, <2>2 DEF RanOnce
  (* Where the calls of the new stack were.                                *)
  <1>8. ASSUME NEW k \in Nat, NEW i \in Nat, At(su, k, i)
        PROVE  \E j \in Nat : /\ At(st, k, j) /\ IdAt(su, k, i) = IdAt(st, k, j)
                              /\ <<k, j>> # <<1, 1>>
                              /\ j = (IF k = 1 THEN i + 1 ELSE i)
    <2>1. CASE k = 1
      <3>1. i > 0 /\ At(st, 1, i + 1) /\ IdAt(su, 1, i) = IdAt(st, 1, i + 1)
        BY <1>1, <1>8, <2>1
      <3>2. i + 1 \in Nat /\ i + 1 # 1
        BY <3>1
      <3> QED BY <2>1, <3>1, <3>2
    <2>2. CASE k # 1
      BY <1>1, <1>8, <2>2
    <2> QED BY <2>1, <2>2
  <1>9. OnePlace(st)
    BY DEF Once
  <1>10. NotRun(su, ru, n)
    <2> SUFFICES ASSUME NEW k \in Nat, NEW i \in Nat, At(su, k, i)
                 PROVE  /\ IdAt(su, k, i) \in i .. n
                        /\ \A j \in 1 .. Len(ru) : ru[j] # IdAt(su, k, i)
      BY DEF NotRun
    <2>1. PICK j \in Nat : /\ At(st, k, j) /\ IdAt(su, k, i) = IdAt(st, k, j)
                           /\ <<k, j>> # <<1, 1>>
                           /\ j = (IF k = 1 THEN i + 1 ELSE i)
      BY <1>8
    <2>2. IdAt(st, k, j) # x
      BY <1>1, <1>9, <2>1 DEF OnePlace
    <2>3. IdAt(st, k, j) \in j .. n /\ \A a \in 1 .. Len(r) : r[a] # IdAt(st, k, j)
      BY <1>5, <2>1
    <2>4. IdAt(su, k, i) \in i .. n
      BY <2>1, <2>3
    <2> QED BY <1>4, <2>1, <2>2, <2>3, <2>4
  <1>11. OnePlace(su)
    <2> SUFFICES ASSUME NEW k \in Nat, NEW i \in Nat, NEW l \in Nat, NEW j \in Nat,
                        At(su, k, i), At(su, l, j), IdAt(su, k, i) = IdAt(su, l, j)
                 PROVE  k = l /\ i = j
      BY DEF OnePlace
    <2>1. PICK a \in Nat : /\ At(st, k, a) /\ IdAt(su, k, i) = IdAt(st, k, a)
                           /\ a = (IF k = 1 THEN i + 1 ELSE i)
      BY <1>8
    <2>2. PICK b \in Nat : /\ At(st, l, b) /\ IdAt(su, l, j) = IdAt(st, l, b)
                           /\ b = (IF l = 1 THEN j + 1 ELSE j)
      BY <1>8
    <2>3. k = l /\ a = b
      BY <1>9, <2>1, <2>2 DEF OnePlace
    <2> QED BY <2>1, <2>2, <2>3
  <1>12. Covered(su, ru, n)
    <2> SUFFICES ASSUME NEW id \in 1 .. n
                 PROVE  \/ \E i \in 1 .. Len(ru) : ru[i] = id
                        \/ \E k, i \in Nat : At(su, k, i) /\ IdAt(su, k, i) = id
      BY DEF Covered
    <2>1. ASSUME NEW i \in 1 .. Len(r), r[i] = id
          PROVE  \E j \in 1 .. Len(ru) : ru[j] = id
      <3>1. i \in 1 .. Len(ru) /\ ru[i] = id
        BY <1>3, <2>1
      <3> QED BY <3>1
    <2>2. CASE id = x
      BY <1>3, <2>2
    <2>3. ASSUME NEW k \in Nat, NEW i \in Nat, At(st, k, i), IdAt(st, k, i) = id, id # x
          PROVE  \E j \in Nat : At(su, k, j) /\ IdAt(su, k, j) = id
      <3>1. CASE k = 1
        <4>1. i # 1 /\ i > 0
          BY <1>1, <2>3, <3>1, PlaceTyped
        <4>2. PICK j \in Nat : j > 0 /\ i = j + 1
          <5>1. i - 1 \in Nat /\ i - 1 > 0 /\ i = (i - 1) + 1
            BY <4>1
          <5> QED BY <5>1
        <4>3. At(su, 1, j) /\ IdAt(su, 1, j) = IdAt(st, 1, j + 1)
          BY <1>1, <2>3, <3>1, <4>2
        <4> QED BY <2>3, <3>1, <4>2, <4>3
      <3>2. CASE k # 1
        BY <1>1, <2>3, <3>2
      <3> QED BY <3>1, <3>2
    <2>4. \/ \E i \in 1 .. Len(r) : r[i] = id
          \/ \E k, i \in Nat : At(st, k, i) /\ IdAt(st, k, i) = id
      BY DEF Once, Covered
    <2> QED BY <2>1, <2>2, <2>3, <2>4
  <1>13. Once(su, ru, n)
    BY <1>7, <1>10, <1>11, <1>12 DEF Once
  <1> QED BY <1>13 DEF su, ru, x

(* The calls of a queue, and those of a stack.                             *)
InQueue(q) == {q[i] : i \in 1 .. Len(q)}

InStack(st) == {call \in Call : \E k, i \in Nat : At(st, k, i) /\ CallAt(st, k, i) = call}

LEMMA CallsAppended ==
    ASSUME NEW q \in Seq(Call), NEW call \in Call
    PROVE  InQueue(Append(q, call)) = InQueue(q) \cup {call}
  <1> DEFINE n == Len(q)
             p == Append(q, call)
  <1>1. n \in Nat /\ Len(p) = n + 1 /\ p[n + 1] = call /\ \A i \in 1 .. n : p[i] = q[i]
    BY Appended
  <1> HIDE DEF p, n
  <1>2. InQueue(p) = {p[i] : i \in 1 .. n} \cup {p[n + 1]}
    <2>1. 1 .. n + 1 = (1 .. n) \cup {n + 1}
      BY <1>1
    <2> QED BY <1>1, <2>1 DEF InQueue
  <1>3. {p[i] : i \in 1 .. n} = {q[i] : i \in 1 .. n}
    BY <1>1
  <1> QED BY <1>1, <1>2, <1>3 DEF InQueue, p, n

LEMMA CallsPushed ==
    ASSUME NEW st \in Seq(Frame), NEW f \in Frame
    PROVE  InStack(<<f>> \o st) = InQueue(f.rest) \cup InStack(st)
  <1> DEFINE su == <<f>> \o st
  <1>1. f.rest \in Seq(Call) /\ su \in Seq(Frame)
    BY Pushed DEF Frame
  <1>2. ASSUME NEW k \in Nat, NEW i \in Nat, At(su, k, i)
        PROVE  CallAt(su, k, i) \in InQueue(f.rest) \cup InStack(st)
    <2>1. CASE k = 0
      BY <1>2, <2>1, PushedPlaces
    <2>2. CASE k = 1
      <3>1. i \in 1 .. Len(f.rest) /\ CallAt(su, 1, i) = f.rest[i]
        BY <1>2, <2>2, PushedPlaces
      <3> QED BY <2>2, <3>1 DEF InQueue
    <2>3. CASE k > 1
      <3>1. k - 1 \in Nat /\ k - 1 > 0 /\ k = (k - 1) + 1
        BY <2>3
      <3>2. PICK l \in Nat : l > 0 /\ k = l + 1
        BY <3>1
      <3>3. At(st, l, i) /\ CallAt(su, l + 1, i) = CallAt(st, l, i)
        BY <1>2, <3>2, PushedPlaces
      <3>4. CallAt(st, l, i) \in Call
        BY <3>3, PlaceTyped
      <3> QED BY <3>2, <3>3, <3>4 DEF InStack
    <2> QED BY <2>1, <2>2, <2>3
  <1>3. ASSUME NEW i \in 1 .. Len(f.rest) PROVE f.rest[i] \in InStack(su)
    <2>1. i \in Nat /\ 1 \in Nat /\ f.rest[i] \in Call
      BY <1>1
    <2>2. At(su, 1, i) /\ CallAt(su, 1, i) = f.rest[i]
      BY <2>1, PushedPlaces
    <2> QED BY <2>1, <2>2 DEF InStack
  <1>4. ASSUME NEW k \in Nat, NEW i \in Nat, At(st, k, i)
        PROVE  CallAt(st, k, i) \in InStack(su)
    <2>1. k > 0 /\ k + 1 \in Nat /\ CallAt(st, k, i) \in Call
      BY <1>4, PlaceTyped
    <2>2. At(su, k + 1, i) /\ CallAt(su, k + 1, i) = CallAt(st, k, i)
      BY <1>4, <2>1, PushedPlaces
    <2> QED BY <2>1, <2>2 DEF InStack
  <1> HIDE DEF su
  <1>5. InStack(su) \subseteq InQueue(f.rest) \cup InStack(st)
    BY <1>2 DEF InStack
  <1>6. InQueue(f.rest) \subseteq InStack(su)
    BY <1>3 DEF InQueue
  <1>7. InStack(st) \subseteq InStack(su)
    BY <1>4 DEF InStack
  <1> QED BY <1>5, <1>6, <1>7 DEF su

LEMMA CallsPopped ==
    ASSUME NEW st \in Seq(Frame), st # << >>, Head(st).rest = << >>
    PROVE  InStack(Tail(st)) = InStack(st)
  <1>1. Head(st) \in Frame /\ Tail(st) \in Seq(Frame) /\ st = <<Head(st)>> \o Tail(st)
    OBVIOUS
  <1>2. InStack(st) = InQueue(Head(st).rest) \cup InStack(Tail(st))
    BY <1>1, CallsPushed
  <1>3. InQueue(<< >>) = {}
    BY DEF InQueue
  <1> QED BY <1>2, <1>3

LEMMA CallsSame ==
    ASSUME NEW st, NEW su,
           Len(su) = Len(st), \A k \in 1 .. Len(st) : su[k].rest = st[k].rest
    PROVE  InStack(su) = InStack(st)
  <1>1. \A k, i \in Nat : /\ At(su, k, i) <=> At(st, k, i)
                          /\ At(su, k, i) => CallAt(su, k, i) = CallAt(st, k, i)
    BY DEF At, CallAt
  <1> QED BY <1>1 DEF InStack

LEMMA CallsPicked ==
    ASSUME NEW st \in Seq(Frame), OnePlace(st), st # << >>, Head(st).rest # << >>
    PROVE  /\ Head(Head(st).rest) \in InStack(st)
           /\ InStack(Picked(st)) = InStack(st) \ {Head(Head(st).rest)}
           /\ \A call \in InStack(Picked(st)) : call.id # Head(Head(st).rest).id
  <1> DEFINE su == Picked(st)
             x == Head(Head(st).rest)
  <1>1. /\ At(st, 1, 1) /\ x = CallAt(st, 1, 1)
        /\ \A k, i \in Nat :
              k # 1 => /\ At(su, k, i) <=> At(st, k, i)
                       /\ At(st, k, i) => CallAt(su, k, i) = CallAt(st, k, i)
        /\ \A i \in Nat :
              /\ At(su, 1, i) <=> i > 0 /\ At(st, 1, i + 1)
              /\ At(su, 1, i) => CallAt(su, 1, i) = CallAt(st, 1, i + 1)
    BY PickedPlaces
  <1> HIDE DEF su, x
  <1>2. x \in InStack(st)
    BY <1>1, PlaceTyped DEF InStack
  <1>3. ASSUME NEW k \in Nat, NEW i \in Nat, At(su, k, i)
        PROVE  \E j \in Nat : /\ At(st, k, j) /\ CallAt(su, k, i) = CallAt(st, k, j)
                              /\ <<k, j>> # <<1, 1>>
    <2>1. CASE k = 1
      <3>1. i > 0 /\ At(st, 1, i + 1) /\ CallAt(su, 1, i) = CallAt(st, 1, i + 1)
        BY <1>1, <1>3, <2>1
      <3>2. i + 1 \in Nat /\ i + 1 # 1
        BY <3>1
      <3> QED BY <2>1, <3>1, <3>2
    <2>2. CASE k # 1
      BY <1>1, <1>3, <2>2
    <2> QED BY <2>1, <2>2
  <1>4. ASSUME NEW call \in InStack(su)
        PROVE  call \in InStack(st) /\ call.id # x.id
    <2>1. PICK k \in Nat, i \in Nat : At(su, k, i) /\ CallAt(su, k, i) = call
      BY <1>4 DEF InStack
    <2>2. PICK j \in Nat : At(st, k, j) /\ call = CallAt(st, k, j) /\ <<k, j>> # <<1, 1>>
      BY <1>3, <2>1
    <2>3. IdAt(st, k, j) # IdAt(st, 1, 1)
      BY <1>1, <2>2 DEF OnePlace
    <2> QED BY <1>1, <2>2, <2>3, PlaceTyped DEF InStack, IdAt
  <1>5. ASSUME NEW call \in InStack(st), call # x
        PROVE  call \in InStack(su)
    <2>1. PICK k \in Nat, i \in Nat : At(st, k, i) /\ CallAt(st, k, i) = call
      BY DEF InStack
    <2>2. call \in Call
      BY DEF InStack
    <2>3. CASE k = 1
      <3>1. i # 1 /\ i > 0
        BY <1>1, <1>5, <2>1, <2>3, PlaceTyped
      <3>2. PICK j \in Nat : j > 0 /\ i = j + 1
        <4>1. i - 1 \in Nat /\ i - 1 > 0 /\ i = (i - 1) + 1
          BY <3>1
        <4> QED BY <4>1
      <3>3. At(su, 1, j) /\ CallAt(su, 1, j) = call
        BY <1>1, <2>1, <2>3, <3>2
      <3> QED BY <2>2, <3>3 DEF InStack
    <2>4. CASE k # 1
      BY <1>1, <2>1, <2>2, <2>4 DEF InStack
    <2> QED BY <2>3, <2>4
  <1>6. InStack(su) = InStack(st) \ {x}
    BY <1>4, <1>5
  <1> QED BY <1>2, <1>4, <1>6 DEF su, x

-----------------------------------------------------------------------------
(* The invariant: the queue holds the latest calls, in order; those before   *)
(* it were taken, and are in one batch or have run.                         *)
Taken == posted - Len(queue)

QueueNumbered ==
    /\ Len(queue) <= posted
    /\ \A i \in 1 .. Len(queue) : queue[i].id = Taken + i

FlushEmpty(st) ==
    \A k \in 1 .. Len(st) : st[k].kind = "flush" => st[k].rest = << >>

Placed == QueueNumbered /\ Once(stack, ran, Taken) /\ FlushEmpty(stack)

(* The calls that have not run yet.                                        *)
Held == InQueue(queue) \cup InStack(stack)

NewCall(op, by) == [id |-> posted + 1, op |-> op, by |-> by]

LEMMA TakenTyped ==
    ASSUME TypeOK, Placed
    PROVE  /\ queue \in Seq(Call) /\ stack \in Seq(Frame) /\ ran \in Seq(Nat)
           /\ posted \in Nat /\ Len(queue) \in Nat /\ Taken \in Nat
           /\ posted = Taken + Len(queue)
  BY DEF TypeOK, Placed, QueueNumbered, Taken

(* Enqueue appends a call, whatever else the step does to the stack.         *)
LEMMA PostQueue ==
    ASSUME TypeOK, Placed, NEW op \in Ops \cup {"work", "signal", "mark"},
           NEW by \in Clients \cup {Nobody}, Append1(op, by)
    PROVE  /\ QueueNumbered' /\ Taken' = Taken
           /\ InQueue(queue') = InQueue(queue) \cup {NewCall(op, by)}
           /\ NewCall(op, by) \in Call
  <1> DEFINE n == Len(queue)
             x == NewCall(op, by)
  <1>1. queue \in Seq(Call) /\ posted \in Nat /\ n \in Nat /\ Taken \in Nat /\ posted = Taken + n
    BY TakenTyped
  <1>2. x \in Call /\ x.id = posted + 1
    BY NewCallTyped DEF NewCall
  <1>3. queue' = Append(queue, x) /\ posted' = posted + 1
    BY DEF Append1, NewCall
  <1> HIDE DEF x
  <1>4. InQueue(queue') = InQueue(queue) \cup {x}
    BY <1>1, <1>2, <1>3, CallsAppended
  <1>5. /\ Len(queue') = n + 1
        /\ queue'[n + 1] = x
        /\ \A i \in 1 .. n : queue'[i] = queue[i]
    BY <1>1, <1>2, <1>3, Appended
  <1>6. posted' - Len(queue') = Taken /\ Len(queue') <= posted'
    BY <1>1, <1>3, <1>5
  <1>7. Taken' = Taken
    BY <1>6 DEF Taken
  <1>8. \A i \in 1 .. n : queue[i].id = Taken + i
    BY DEF Placed, QueueNumbered
  <1> HIDE DEF n
  <1>9. ASSUME NEW i \in 1 .. Len(queue') PROVE queue'[i].id = Taken + i
    <2>1. CASE i \in 1 .. n
      BY <1>5, <1>8, <2>1
    <2>2. CASE i = n + 1
      BY <1>1, <1>2, <1>5, <2>2
    <2> QED BY <1>1, <1>5, <2>1, <2>2
  <1>10. QueueNumbered'
    BY <1>6, <1>7, <1>9 DEF QueueNumbered
  <1> QED BY <1>2, <1>4, <1>7, <1>10 DEF x

(* What picking the next call does to the stack and the history.            *)
LEMMA PickEffect ==
    ASSUME TypeOK, Placed, NEW op, CanRun(op)
    PROVE  /\ AfterPick \in Seq(Frame)
           /\ Once(AfterPick, Append(ran, NextCall.id), Taken)
           /\ FlushEmpty(AfterPick)
           /\ NextCall \in InStack(stack)
           /\ InStack(AfterPick) = InStack(stack) \ {NextCall}
           /\ \A call \in InQueue(queue) \cup InStack(AfterPick) :
                 call.id # NextCall.id
  <1>1. /\ stack # << >> /\ Head(stack).rest # << >>
        /\ NextCall = Head(Head(stack).rest)
        /\ AfterPick = Picked(stack)
    BY DEF CanRun, InBatch, NextCall, AfterPick, Picked
  <1>2. stack \in Seq(Frame) /\ ran \in Seq(Nat) /\ Taken \in Nat
    BY TakenTyped
  <1>3. Once(stack, ran, Taken)
    BY DEF Placed
  <1>4. Once(Picked(stack), Append(ran, NextCall.id), Taken)
    BY <1>1, <1>2, <1>3, OncePick
  <1>5. /\ NextCall \in InStack(stack)
        /\ InStack(Picked(stack)) = InStack(stack) \ {NextCall}
        /\ \A call \in InStack(Picked(stack)) : call.id # NextCall.id
    BY <1>1, <1>2, <1>3, CallsPicked DEF Once
  <1>6. NextCall.id <= Taken /\ NextCall.id \in Nat
    <2>1. PICK k \in Nat, i \in Nat : At(stack, k, i) /\ CallAt(stack, k, i) = NextCall
      BY <1>5 DEF InStack
    <2>2. IdAt(stack, k, i) \in i .. Taken
      BY <1>3, <2>1 DEF Once, NotRun
    <2>3. IdAt(stack, k, i) = NextCall.id
      BY <2>1 DEF IdAt
    <2> QED BY <1>2, <2>2, <2>3
  <1>7. \A call \in InQueue(queue) : call.id # NextCall.id
    BY <1>2, <1>6 DEF InQueue, Placed, QueueNumbered
  <1>8. /\ Picked(stack) \in Seq(Frame)
        /\ Len(Picked(stack)) = Len(stack)
        /\ \A k \in 2 .. Len(stack) : Picked(stack)[k] = stack[k]
    BY <1>1, <1>2, PickedPlaces
  <1>9. Picked(stack)[1].kind = "batch"
    BY <1>2 DEF Picked, BatchFrame
  <1>10. FlushEmpty(Picked(stack))
    <2> SUFFICES ASSUME NEW k \in 1 .. Len(stack), Picked(stack)[k].kind = "flush"
                 PROVE  Picked(stack)[k].rest = << >>
      BY <1>8 DEF FlushEmpty
    <2>1. k # 1
      BY <1>9
    <2>2. k \in 2 .. Len(stack)
      BY <1>2, <2>1
    <2> QED BY <1>8, <2>2 DEF Placed, FlushEmpty
  <1> QED BY <1>1, <1>4, <1>5, <1>7, <1>8, <1>10

(* A frame of a WaitForPendingCalls(true) holds no calls.                   *)
LEMMA FlushPushed ==
    ASSUME TypeOK, NEW st \in Seq(Frame), NEW r \in Seq(Nat), NEW n \in Nat,
           Once(st, r, n), FlushEmpty(st), NEW b \in BOOLEAN
    PROVE  /\ Once(<<FlushFrame(posted + 1, b)>> \o st, r, n)
           /\ FlushEmpty(<<FlushFrame(posted + 1, b)>> \o st)
           /\ InStack(<<FlushFrame(posted + 1, b)>> \o st) = InStack(st)
  <1> DEFINE f == FlushFrame(posted + 1, b)
             su == <<f>> \o st
  <1>1. f \in Frame
    BY FramesTyped DEF TypeOK
  <1>2. f.rest = << >> /\ Len(<< >>) = 0
    BY DEF FlushFrame
  <1> HIDE DEF f
  <1>3. Once(su, r, n + 0)
    <2>1. 0 = Len(f.rest) /\ 0 \in Nat /\ \A i \in 1 .. 0 : f.rest[i].id = n + i
      BY <1>2
    <2> QED BY <1>1, <2>1, OncePush
  <1>4. InStack(su) = InStack(st)
    <2>1. InStack(su) = InQueue(f.rest) \cup InStack(st)
      BY <1>1, CallsPushed
    <2>2. InQueue(f.rest) = {}
      BY <1>2 DEF InQueue
    <2> QED BY <2>1, <2>2
  <1>5. FlushEmpty(su)
    <2>1. /\ Len(st) \in Nat
          /\ Len(su) = Len(st) + 1
          /\ su[1] = f
          /\ \A k \in 1 .. Len(st) : su[k + 1] = st[k]
      BY <1>1, Pushed
    <2> HIDE DEF su
    <2>2. ASSUME NEW k \in 1 .. Len(su), su[k].kind = "flush" PROVE su[k].rest = << >>
      <3>1. CASE k = 1
        BY <1>2, <2>1, <3>1
      <3>2. CASE k # 1
        <4>1. k - 1 \in 1 .. Len(st) /\ k = (k - 1) + 1
          BY <2>1, <3>2
        <4>2. PICK l \in 1 .. Len(st) : k = l + 1
          BY <4>1
        <4> QED BY <2>1, <2>2, <4>2 DEF FlushEmpty
      <3> QED BY <3>1, <3>2
    <2> QED BY <2>2 DEF FlushEmpty
  <1>6. n + 0 = n
    OBVIOUS
  <1> QED BY <1>3, <1>4, <1>5, <1>6 DEF f

(* What each kind of step does to the calls that have not run.               *)
LEMMA QuietHeld ==
    ASSUME Placed, UNCHANGED <<queue, stack, ran, posted>>
    PROVE  Placed' /\ Held' = Held
  BY DEF Placed, QueueNumbered, Taken, Held

LEMMA PostHeld ==
    ASSUME TypeOK, Placed, NEW op \in Ops \cup {"work", "signal", "mark"},
           NEW by \in Clients \cup {Nobody}, Append1(op, by),
           UNCHANGED <<stack, ran>>
    PROVE  Placed' /\ Held' = Held \cup {NewCall(op, by)}
  <1>1. /\ QueueNumbered' /\ Taken' = Taken
        /\ InQueue(queue') = InQueue(queue) \cup {NewCall(op, by)}
    BY PostQueue
  <1>2. Once(stack', ran', Taken') /\ FlushEmpty(stack')
    BY <1>1 DEF Placed
  <1> QED BY <1>1, <1>2 DEF Placed, Held

LEMMA PollerHeld ==
    ASSUME TypeOK, Placed, PollerFlush
    PROVE  Placed' /\ Held' = Held \cup {NewCall("mark", Nobody)}
  <1>1. /\ QueueNumbered' /\ Taken' = Taken
        /\ InQueue(queue') = InQueue(queue) \cup {NewCall("mark", Nobody)}
    BY PostQueue DEF PollerFlush
  <1>2. PICK b \in BOOLEAN : stack' = <<FlushFrame(posted + 1, b)>>
    BY GarbageAssumption DEF PollerFlush
  <1>3. stack \in Seq(Frame) /\ ran \in Seq(Nat) /\ Taken \in Nat
    BY TakenTyped
  <1>4. stack' = <<FlushFrame(posted + 1, b)>> \o stack
    BY <1>2 DEF PollerFlush
  <1>5. /\ Once(stack', ran, Taken)
        /\ FlushEmpty(stack')
        /\ InStack(stack') = InStack(stack)
    BY <1>3, <1>4, FlushPushed DEF Placed
  <1>6. ran' = ran
    BY DEF PollerFlush
  <1>7. Once(stack', ran', Taken')
    BY <1>1, <1>5, <1>6
  <1> QED BY <1>1, <1>5, <1>7 DEF Placed, Held

LEMMA TakeHeld ==
    ASSUME TypeOK, Placed, DispatchTake
    PROVE  Placed' /\ Held' = Held
  <1> DEFINE f == BatchFrame(queue)
             n == Taken
             m == Len(queue)
  <1>1. /\ stack' = <<f>> \o stack /\ queue' = << >>
        /\ ran' = ran /\ posted' = posted
    BY DEF DispatchTake, historyVars
  <1>2. /\ queue \in Seq(Call) /\ stack \in Seq(Frame) /\ ran \in Seq(Nat)
        /\ posted \in Nat /\ m \in Nat /\ n \in Nat /\ posted = n + m
    BY TakenTyped
  <1>3. f \in Frame /\ f.rest = queue /\ f.kind = "batch"
    BY <1>2, FramesTyped DEF BatchFrame
  <1>4. /\ Once(stack, ran, n) /\ FlushEmpty(stack)
        /\ \A i \in 1 .. m : queue[i].id = n + i
    BY DEF Placed, QueueNumbered
  <1> HIDE DEF f, n, m
  <1>5. m = Len(f.rest) /\ \A i \in 1 .. m : f.rest[i].id = n + i
    BY <1>3, <1>4 DEF m
  <1>6. Once(stack', ran, n + m)
    BY <1>1, <1>2, <1>3, <1>4, <1>5, OncePush
  <1>7. Len(queue') = 0 /\ Taken' = posted /\ QueueNumbered'
    BY <1>1, <1>2 DEF Taken, QueueNumbered
  <1>8. Once(stack', ran', Taken')
    BY <1>1, <1>2, <1>6, <1>7
  <1>9. InStack(stack') = InQueue(queue) \cup InStack(stack)
    BY <1>1, <1>2, <1>3, CallsPushed
  <1>10. InQueue(queue') = {}
    BY <1>7 DEF InQueue
  <1>11. /\ Len(stack') = Len(stack) + 1
         /\ Len(stack) \in Nat
         /\ stack'[1] = f
         /\ \A k \in 1 .. Len(stack) : stack'[k + 1] = stack[k]
    BY <1>1, <1>2, <1>3, Pushed
  <1>12. ASSUME NEW k \in 1 .. Len(stack'), stack'[k].kind = "flush"
         PROVE  stack'[k].rest = << >>
    <2>1. k # 1
      BY <1>3, <1>11, <1>12
    <2>2. k - 1 \in 1 .. Len(stack) /\ k = (k - 1) + 1
      BY <1>11, <2>1
    <2>3. PICK l \in 1 .. Len(stack) : k = l + 1
      BY <2>2
    <2> QED BY <1>4, <1>11, <1>12, <2>3 DEF FlushEmpty
  <1>13. FlushEmpty(stack')
    BY <1>12 DEF FlushEmpty
  <1> QED BY <1>7, <1>8, <1>9, <1>10, <1>13 DEF Placed, Held

LEMMA PopHeld ==
    ASSUME TypeOK, Placed, DispatchReturn \/ FlushReturn
    PROVE  Placed' /\ Held' = Held
  <1>1. /\ stack # << >> /\ stack' = Tail(stack)
        /\ queue' = queue /\ ran' = ran /\ posted' = posted
    BY DEF DispatchReturn, FlushReturn, InBatch, historyVars
  <1>2. stack \in Seq(Frame)
    BY DEF TypeOK
  <1>3. /\ Len(stack) \in Nat \ {0}
        /\ Len(stack') = Len(stack) - 1
        /\ Head(stack) = stack[1]
        /\ \A k \in 1 .. Len(stack) - 1 : stack'[k] = stack[k + 1]
    BY <1>1, <1>2, Dequeued
  <1>4. Head(stack).rest = << >>
    <2>1. CASE DispatchReturn
      BY <2>1 DEF DispatchReturn
    <2>2. CASE FlushReturn
      BY <1>3, <2>2 DEF FlushReturn, Placed, FlushEmpty
    <2> QED BY <2>1, <2>2
  <1>5. Once(stack', ran, Taken)
    BY <1>1, <1>2, <1>4, OncePop DEF Placed
  <1>6. InStack(stack') = InStack(stack)
    BY <1>1, <1>2, <1>4, CallsPopped
  <1>7. FlushEmpty(stack')
    BY <1>3 DEF Placed, FlushEmpty
  <1>8. Taken' = Taken /\ QueueNumbered'
    BY <1>1 DEF Taken, Placed, QueueNumbered
  <1>9. Once(stack', ran', Taken')
    BY <1>1, <1>5, <1>8
  <1> QED BY <1>1, <1>6, <1>7, <1>8, <1>9 DEF Placed, Held

(* The call that runs is none of those that remain, and completes at most    *)
(* flush frames.                                                           *)
LEMMA RunHeld ==
    ASSUME TypeOK, Placed, NEW op, CanRun(op), CountRun, UNCHANGED <<queue, posted>>,
           Len(stack') = Len(AfterPick),
           \A k \in 1 .. Len(AfterPick) : /\ stack'[k].rest = AfterPick[k].rest
                                          /\ stack'[k].kind = AfterPick[k].kind
    PROVE  /\ Placed'
           /\ NextCall \in Held
           /\ Held' = Held \ {NextCall}
           /\ \A call \in Held' : call.id # NextCall.id
  <1>1. /\ AfterPick \in Seq(Frame)
        /\ Once(AfterPick, Append(ran, NextCall.id), Taken)
        /\ FlushEmpty(AfterPick)
        /\ NextCall \in InStack(stack)
        /\ InStack(AfterPick) = InStack(stack) \ {NextCall}
        /\ \A call \in InQueue(queue) \cup InStack(AfterPick) :
              call.id # NextCall.id
    BY PickEffect
  <1>2. ran' = Append(ran, NextCall.id) /\ queue' = queue /\ posted' = posted
    BY DEF CountRun
  <1>3. Taken' = Taken /\ QueueNumbered'
    BY <1>2 DEF Taken, Placed, QueueNumbered
  <1>4. \A k \in 1 .. Len(AfterPick) : stack'[k].rest = AfterPick[k].rest
    OBVIOUS
  <1>5. Once(stack', Append(ran, NextCall.id), Taken)
    BY <1>1, <1>4, OnceSame
  <1>6. InStack(stack') = InStack(AfterPick)
    BY <1>4, CallsSame
  <1>7. FlushEmpty(stack')
    BY <1>1 DEF FlushEmpty
  <1>8. Once(stack', ran', Taken')
    BY <1>2, <1>3, <1>5
  <1>9. InQueue(queue') \cup InStack(stack') = (InQueue(queue) \cup InStack(stack)) \ {NextCall}
    BY <1>1, <1>2, <1>6
  <1> QED BY <1>1, <1>2, <1>3, <1>6, <1>7, <1>8, <1>9 DEF Placed, Held

LEMMA RunOnly ==
    ASSUME TypeOK, Placed, NEW op, CanRun(op), CountRun, UNCHANGED <<queue, posted>>,
           stack' = AfterPick
    PROVE  /\ Placed'
           /\ NextCall \in Held
           /\ Held' = Held \ {NextCall}
           /\ \A call \in Held' : call.id # NextCall.id
  BY RunHeld

(* RunMark only sets done flags.                                           *)
LEMMA MarkSets ==
    ASSUME TypeOK, RunMark
    PROVE  /\ AfterPick \in Seq(Frame)
           /\ Len(stack') = Len(AfterPick)
           /\ \A k \in 1 .. Len(AfterPick) :
                 /\ stack'[k].rest = AfterPick[k].rest
                 /\ stack'[k].kind = AfterPick[k].kind
                 /\ stack'[k].mark = AfterPick[k].mark
                 /\ AfterPick[k].mark # NextCall.id => stack'[k].done = AfterPick[k].done
  <1>1. stack' = [i \in 1 .. Len(stack) |->
                    [AfterPick[i] EXCEPT
                        !.done = @ \/ (/\ AfterPick[i].kind = "flush"
                                       /\ AfterPick[i].mark = NextCall.id)]]
    BY DEF RunMark
  <1>2. AfterPick \in Seq(Frame) /\ Len(AfterPick) = Len(stack)
    BY PickTyped DEF RunMark
  <1>3. Len(stack) \in Nat
    BY DEF TypeOK
  <1>4. Len(stack') = Len(AfterPick)
    BY <1>1, <1>2, <1>3
  <1>5. ASSUME NEW k \in 1 .. Len(AfterPick)
        PROVE  /\ stack'[k].rest = AfterPick[k].rest
               /\ stack'[k].kind = AfterPick[k].kind
               /\ stack'[k].mark = AfterPick[k].mark
               /\ AfterPick[k].mark # NextCall.id => stack'[k].done = AfterPick[k].done
    <2>1. AfterPick[k] \in Frame
      BY <1>2
    <2>2. stack'[k] = [AfterPick[k] EXCEPT
                         !.done = @ \/ (/\ AfterPick[k].kind = "flush"
                                        /\ AfterPick[k].mark = NextCall.id)]
      BY <1>1, <1>2
    <2> QED BY <2>1, <2>2 DEF Frame
  <1> QED BY <1>2, <1>4, <1>5

(* A call that enqueues another one, and may begin a flush.                 *)
LEMMA RunPost ==
    ASSUME TypeOK, Placed, NEW op, CanRun(op), CountRun,
           NEW new \in {"work", "mark"}, Append1(new, Nobody),
           \/ stack' = AfterPick
           \/ \E b \in BOOLEAN : stack' = <<FlushFrame(posted + 1, b)>> \o AfterPick
    PROVE  /\ Placed'
           /\ NextCall \in Held
           /\ Held' = (Held \ {NextCall}) \cup {NewCall(new, Nobody)}
  <1>1. /\ AfterPick \in Seq(Frame)
        /\ Once(AfterPick, Append(ran, NextCall.id), Taken)
        /\ FlushEmpty(AfterPick)
        /\ NextCall \in InStack(stack)
        /\ InStack(AfterPick) = InStack(stack) \ {NextCall}
        /\ \A call \in InQueue(queue) \cup InStack(AfterPick) :
              call.id # NextCall.id
    BY PickEffect
  <1>2. /\ QueueNumbered' /\ Taken' = Taken
        /\ InQueue(queue') = InQueue(queue) \cup {NewCall(new, Nobody)}
    BY PostQueue
  <1>3. /\ Once(stack', Append(ran, NextCall.id), Taken)
        /\ FlushEmpty(stack')
        /\ InStack(stack') = InStack(AfterPick)
    <2>1. CASE stack' = AfterPick
      BY <1>1, <2>1
    <2>2. ASSUME NEW b \in BOOLEAN, stack' = <<FlushFrame(posted + 1, b)>> \o AfterPick
          PROVE  /\ Once(stack', Append(ran, NextCall.id), Taken)
                 /\ FlushEmpty(stack')
                 /\ InStack(stack') = InStack(AfterPick)
      <3>1. Append(ran, NextCall.id) \in Seq(Nat)
        BY PickTyped
      <3>2. Taken \in Nat
        BY TakenTyped
      <3> QED BY <1>1, <2>2, <3>1, <3>2, FlushPushed
    <2> QED BY <2>1, <2>2
  <1>4. ran' = Append(ran, NextCall.id)
    BY DEF CountRun
  <1>5. Once(stack', ran', Taken')
    BY <1>2, <1>3, <1>4
  <1>6. InQueue(queue') \cup InStack(stack')
           = ((InQueue(queue) \cup InStack(stack)) \ {NextCall}) \cup {NewCall(new, Nobody)}
    BY <1>1, <1>2, <1>3
  <1> QED BY <1>1, <1>2, <1>3, <1>5, <1>6 DEF Placed, Held

LEMMA PlacedInit == Init => Placed
  <1> HAVE Init
  <1>1. /\ queue = << >> /\ stack = << >> /\ ran = << >> /\ posted = 0
        /\ Len(queue) = 0 /\ Len(stack) = 0 /\ Len(ran) = 0
    BY DEF Init
  <1>2. Taken = 0
    <2>1. posted = 0 /\ Len(queue) = 0
      BY <1>1
    <2> QED BY <2>1 DEF Taken
  <1>3. \A k, i : ~At(stack, k, i)
    BY <1>1 DEF At
  <1>4. Once(stack, ran, Taken)
    BY <1>1, <1>2, <1>3 DEF Once, RanOnce, NotRun, OnePlace, Covered
  <1> QED BY <1>1, <1>4 DEF Placed, QueueNumbered, FlushEmpty

LEMMA PlacedStep ==
    ASSUME TypeOK, Placed, [Next]_vars
    PROVE  Placed'
  <1>1. ASSUME NEW c \in Clients, NEW op \in Ops, Enqueue(c, op) PROVE Placed'
    BY <1>1, PostHeld DEF Enqueue
  <1>2. ASSUME NEW c \in Clients, WaitForPendingCalls(c) PROVE Placed'
    BY <1>2, PostHeld DEF WaitForPendingCalls
  <1>3. ASSUME NEW c \in Clients, Wait(c) \/ EventSpuriousWakeup(c) PROVE Placed'
    <2>1. UNCHANGED <<queue, stack, ran, posted>>
      BY <1>3 DEF Wait, EventSleep, EventReturn, EventSpuriousWakeup, historyVars
    <2> QED BY <2>1, QuietHeld
  <1>4. CASE LoopTest \/ Poll \/ DispatchEmpty \/ DispatchSleep \/ DispatchCancelled
             \/ Quit \/ Destructor \/ SpuriousWakeup \/ UNCHANGED vars
    <2>1. UNCHANGED <<queue, stack, ran, posted>>
      BY <1>4 DEF LoopTest, Poll, DispatchEmpty, DispatchSleep, DispatchCancelled,
                  Quit, Destructor, CancelBlockingCalls, Join, SpuriousWakeup,
                  vars, historyVars
    <2> QED BY <2>1, QuietHeld
  <1>5. CASE DispatchTake
    BY <1>5, TakeHeld
  <1>6. CASE RunWork
    BY <1>6, RunOnly DEF RunWork
  <1>7. CASE RunSpawn
    BY <1>7, RunPost DEF RunSpawn
  <1>8. CASE RunSignal
    BY <1>8, RunOnly DEF RunSignal
  <1>9. CASE RunMark
    <2>1. CanRun("mark") /\ CountRun /\ UNCHANGED <<queue, posted>>
      BY <1>9 DEF RunMark
    <2> QED BY <1>9, <2>1, MarkSets, RunHeld
  <1>10. CASE RunFlush
    BY <1>10, RunPost, GarbageAssumption DEF RunFlush
  <1>11. CASE DispatchReturn \/ FlushReturn
    BY <1>11, PopHeld
  <1>12. CASE PollerFlush
    BY <1>12, PollerHeld
  <1> QED
    BY <1>1, <1>2, <1>3, <1>4, <1>5, <1>6, <1>7, <1>8, <1>9, <1>10, <1>11, <1>12
    DEF Next, Dispatcher

PlacedInv == TypeOK /\ Placed

LEMMA PlacedInvariant == Spec => []PlacedInv
  <1>1. Init => PlacedInv
    BY TypeInit, PlacedInit DEF PlacedInv
  <1>2. PlacedInv /\ [Next]_vars => PlacedInv'
    BY TypeStep, PlacedStep DEF PlacedInv
  <1> QED BY <1>1, <1>2, PTL DEF Spec

-----------------------------------------------------------------------------
(* Exactly once: a number up to the size of the queue's prefix that was      *)
(* taken is in the history or in a batch, a later one in the queue.          *)
LEMMA OneIn ==
    ASSUME NEW S, NEW x, x \in S, \A y \in S : y = x
    PROVE  Cardinality(S) = 1
  <1>1. S = {x}
    OBVIOUS
  <1> QED BY <1>1, FS_Singleton

LEMMA NoneIn ==
    ASSUME NEW S, \A y \in S : FALSE
    PROVE  Cardinality(S) = 0
  <1>1. S = {}
    OBVIOUS
  <1> QED BY <1>1, FS_EmptySet

LEMMA PlacedOnce == PlacedInv => ExactlyOnce
  <1> SUFFICES ASSUME PlacedInv, NEW id \in 1 .. posted
               PROVE  Cardinality(QueuedAt(id)) + Cardinality(BatchedAt(id))
                         + Cardinality(RanAt(id)) = 1
    BY DEF ExactlyOnce
  <1>1. /\ queue \in Seq(Call) /\ stack \in Seq(Frame) /\ ran \in Seq(Nat)
        /\ posted \in Nat /\ Len(queue) \in Nat /\ Taken \in Nat
        /\ posted = Taken + Len(queue)
    BY TakenTyped DEF PlacedInv
  <1>2. /\ \A i \in 1 .. Len(queue) : queue[i].id = Taken + i
        /\ RanOnce(ran, Taken)
        /\ NotRun(stack, ran, Taken)
        /\ OnePlace(stack)
        /\ Covered(stack, ran, Taken)
    BY DEF PlacedInv, Placed, QueueNumbered, Once
  <1>3. /\ DOMAIN queue = 1 .. Len(queue)
        /\ DOMAIN ran = 1 .. Len(ran) /\ Len(ran) \in Nat
        /\ DOMAIN stack = 1 .. Len(stack) /\ Len(stack) \in Nat
    BY <1>1
  <1>4. ASSUME NEW p \in BatchedAt(id)
        PROVE  /\ p = <<p[1], p[2]>> /\ p[1] \in Nat /\ p[2] \in Nat
               /\ At(stack, p[1], p[2]) /\ IdAt(stack, p[1], p[2]) = id
    <2>1. /\ p \in (DOMAIN stack) \X (1 .. posted)
          /\ p[2] \in DOMAIN stack[p[1]].rest
          /\ stack[p[1]].rest[p[2]].id = id
      BY DEF BatchedAt
    <2>2. p = <<p[1], p[2]>> /\ p[1] \in 1 .. Len(stack) /\ p[2] \in Nat
      BY <1>1, <1>3, <2>1
    <2>3. stack[p[1]].rest \in Seq(Call)
      <3>1. stack[p[1]] \in Frame
        BY <1>1, <2>2
      <3> QED BY <3>1 DEF Frame
    <2>4. DOMAIN stack[p[1]].rest = 1 .. Len(stack[p[1]].rest)
      BY <2>3
    <2> QED BY <1>1, <1>3, <2>1, <2>2, <2>4 DEF At, IdAt, CallAt
  <1>5. ASSUME NEW k \in Nat, NEW i \in Nat, At(stack, k, i), IdAt(stack, k, i) = id
        PROVE  <<k, i>> \in BatchedAt(id)
    <2>1. k \in DOMAIN stack
      BY <1>3, <1>5 DEF At
    <2>2. stack[k].rest \in Seq(Call) /\ i > 0
      BY <1>1, <1>5, PlaceTyped
    <2>3. i \in DOMAIN stack[k].rest
      BY <1>5, <2>2 DEF At
    <2>4. id \in i .. Taken
      BY <1>2, <1>5 DEF NotRun
    <2>5. i \in 1 .. posted
      BY <1>1, <2>2, <2>4
    <2> QED BY <1>5, <2>1, <2>3, <2>5 DEF BatchedAt, IdAt, CallAt
  <1>6. CASE id > Taken
    <2>1. id - Taken \in 1 .. Len(queue) /\ Taken + (id - Taken) = id
      BY <1>1, <1>6
    <2>2. PICK i \in 1 .. Len(queue) : id = Taken + i
      BY <2>1
    <2>3. Cardinality(QueuedAt(id)) = 1
      <3>1. i \in QueuedAt(id)
        BY <1>2, <1>3, <2>2 DEF QueuedAt
      <3>2. ASSUME NEW j \in QueuedAt(id) PROVE j = i
        <4>1. j \in 1 .. Len(queue) /\ queue[j].id = id
          BY <1>3 DEF QueuedAt
        <4> QED BY <1>1, <1>2, <2>2, <4>1
      <3> QED BY <3>1, <3>2, OneIn
    <2>4. Cardinality(RanAt(id)) = 0
      <3>1. \A j \in RanAt(id) : FALSE
        BY <1>1, <1>2, <1>3, <1>6 DEF RanAt, RanOnce
      <3> QED BY <3>1, NoneIn
    <2>5. Cardinality(BatchedAt(id)) = 0
      <3>1. ASSUME NEW p \in BatchedAt(id) PROVE FALSE
        <4>1. /\ p[1] \in Nat /\ p[2] \in Nat
              /\ At(stack, p[1], p[2]) /\ IdAt(stack, p[1], p[2]) = id
          BY <1>4
        <4>2. id \in p[2] .. Taken
          BY <1>2, <4>1 DEF NotRun
        <4> QED BY <1>1, <1>6, <4>1, <4>2
      <3> QED BY <3>1, NoneIn
    <2> QED BY <2>3, <2>4, <2>5
  <1>7. CASE id <= Taken
    <2>1. Cardinality(QueuedAt(id)) = 0
      <3>1. \A j \in QueuedAt(id) : FALSE
        BY <1>1, <1>2, <1>3, <1>7 DEF QueuedAt
      <3> QED BY <3>1, NoneIn
    <2>2. ASSUME NEW i \in 1 .. Len(ran), ran[i] = id
          PROVE  Cardinality(RanAt(id)) = 1 /\ Cardinality(BatchedAt(id)) = 0
      <3>1. i \in RanAt(id) /\ \A j \in RanAt(id) : j = i
        BY <1>2, <1>3, <2>2 DEF RanAt, RanOnce
      <3>2. ASSUME NEW p \in BatchedAt(id) PROVE FALSE
        <4>1. /\ p[1] \in Nat /\ p[2] \in Nat
              /\ At(stack, p[1], p[2]) /\ IdAt(stack, p[1], p[2]) = id
          BY <1>4
        <4> QED BY <1>2, <2>2, <4>1 DEF NotRun
      <3> QED BY <3>1, <3>2, OneIn, NoneIn
    <2>3. ASSUME NEW k \in Nat, NEW i \in Nat, At(stack, k, i), IdAt(stack, k, i) = id
          PROVE  Cardinality(RanAt(id)) = 0 /\ Cardinality(BatchedAt(id)) = 1
      <3>1. <<k, i>> \in BatchedAt(id)
        BY <1>5, <2>3
      <3>2. ASSUME NEW p \in BatchedAt(id) PROVE p = <<k, i>>
        <4>1. /\ p = <<p[1], p[2]>> /\ p[1] \in Nat /\ p[2] \in Nat
              /\ At(stack, p[1], p[2]) /\ IdAt(stack, p[1], p[2]) = id
          BY <1>4
        <4>2. p[1] = k /\ p[2] = i
          BY <1>2, <2>3, <4>1 DEF OnePlace
        <4> QED BY <4>1, <4>2
      <3>3. \A j \in RanAt(id) : FALSE
        BY <1>2, <1>3, <2>3 DEF RanAt, NotRun
      <3>4. Cardinality(BatchedAt(id)) = 1
        BY <3>1, <3>2, OneIn
      <3> QED BY <3>3, <3>4, NoneIn
    <2>4. id \in 1 .. Taken
      BY <1>1, <1>7
    <2> QED BY <1>2, <2>1, <2>2, <2>3, <2>4 DEF Covered
  <1>8. id > Taken \/ id <= Taken
    BY <1>1
  <1> QED BY <1>6, <1>7, <1>8

(* No call is lost or duplicated, however Dispatches are nested, cancelled   *)
(* and cut short by the end of the thread.                                  *)
THEOREM CallsOnce == Spec => []ExactlyOnce
  BY PlacedInvariant, PlacedOnce, PTL

-----------------------------------------------------------------------------
(* Who waits for whom: a signal that has not run belongs to a client that    *)
(* still waits for it, a client that waits for one has it, and the          *)
(* dispatching thread sleeps only when there is nothing for it to do.        *)
SignalsDue == \A call \in Held : Due(call)

SignalOf(c) ==
    \E call \in Held : call.op = "signal" /\ call.by = c /\ call.id = ticket[c]

Awaited == \A c \in Clients : wpc[c] # "idle" /\ ~event[c] => SignalOf(c)

AsleepUnset == \A c \in Clients : wpc[c] = "asleep" => ~event[c]

DispatcherIdle ==
    dpc = "asleep" => Looping /\ stack = << >> /\ queue = << >> /\ ~cancel

Waiting == SignalsDue /\ Awaited /\ AsleepUnset

(* A WaitForPendingCalls(true) with this sentinel is on the stack, and its   *)
(* bCompleted is still false; so it is for each sentinel that has not run.    *)
Open(st, mark) ==
    \E k \in 1 .. Len(st) :
        st[k].kind = "flush" /\ st[k].mark = mark /\ ~st[k].done

Marks == \A call \in Held : call.op = "mark" => Open(stack, call.id)

(* A step that only removes calls other than signals, or adds calls that are *)
(* not, and leaves the clients alone.                                       *)
LEMMA WaitingKept ==
    ASSUME Waiting, UNCHANGED clientVars,
           \A call \in Held' : call.op = "signal" => call \in Held,
           \A call \in Held : call.op = "signal" => call \in Held'
    PROVE  Waiting'
  <1>1. wpc' = wpc /\ event' = event /\ ticket' = ticket
    BY DEF clientVars
  <1>2. SignalsDue'
    BY <1>1 DEF Waiting, SignalsDue, Due
  <1>3. Awaited'
    BY <1>1 DEF Waiting, Awaited, SignalOf
  <1>4. AsleepUnset'
    BY <1>1 DEF Waiting, AsleepUnset
  <1> QED BY <1>2, <1>3, <1>4 DEF Waiting

LEMMA WaitingStep ==
    ASSUME TypeOK, Placed, Waiting, [Next]_vars
    PROVE  Waiting'
  <1> USE DEF Waiting
  <1>0. /\ \A c \in Clients : event[c] \in BOOLEAN
        /\ wpc \in [Clients -> {"idle", "waiting", "asleep"}]
        /\ event \in [Clients -> BOOLEAN]
        /\ ticket \in [Clients -> Nat]
    BY DEF TypeOK
  <1>1. ASSUME NEW c \in Clients, NEW op \in Ops, Enqueue(c, op) PROVE Waiting'
    <2>1. Held' = Held \cup {NewCall(op, c)}
      BY <1>1, PostHeld DEF Enqueue
    <2>2. NewCall(op, c).op # "signal"
      BY OpsAssumption DEF NewCall
    <2>3. UNCHANGED clientVars
      BY <1>1 DEF Enqueue
    <2> QED BY <2>1, <2>2, <2>3, WaitingKept
  <1>2. ASSUME NEW c \in Clients, WaitForPendingCalls(c) PROVE Waiting'
    <2>1. Held' = Held \cup {NewCall("signal", c)}
      BY <1>2, PostHeld DEF WaitForPendingCalls
    <2>2. /\ \A d \in Clients : wpc'[d] = IF d = c THEN "waiting" ELSE wpc[d]
          /\ \A d \in Clients : event'[d] = IF d = c THEN FALSE ELSE event[d]
          /\ \A d \in Clients : ticket'[d] = IF d = c THEN posted + 1 ELSE ticket[d]
          /\ wpc[c] = "idle"
      BY <1>0, <1>2 DEF WaitForPendingCalls
    <2>3. /\ NewCall("signal", c).by = c /\ NewCall("signal", c).id = posted + 1
          /\ NewCall("signal", c).op = "signal"
      BY DEF NewCall
    <2>4. SignalsDue'
      <3> SUFFICES ASSUME NEW call \in Held', call.op = "signal"
                   PROVE  /\ call.by \in Clients
                          /\ wpc'[call.by] # "idle"
                          /\ ~event'[call.by]
                          /\ ticket'[call.by] = call.id
        BY DEF SignalsDue, Due
      <3>1. CASE call \in Held
        <4>1. /\ call.by \in Clients /\ wpc[call.by] # "idle"
              /\ ~event[call.by] /\ ticket[call.by] = call.id
          BY <3>1 DEF SignalsDue, Due
        <4> QED BY <2>2, <4>1
      <3>2. CASE call = NewCall("signal", c)
        BY <2>2, <2>3, <3>2
      <3> QED BY <2>1, <3>1, <3>2
    <2>5. Awaited'
      <3> SUFFICES ASSUME NEW d \in Clients, wpc'[d] # "idle", ~event'[d]
                   PROVE  \E call \in Held' : /\ call.op = "signal" /\ call.by = d
                                             /\ call.id = ticket'[d]
        BY DEF Awaited, SignalOf
      <3>1. CASE d = c
        BY <2>1, <2>2, <2>3, <3>1
      <3>2. CASE d # c
        <4>1. wpc[d] # "idle" /\ ~event[d] /\ ticket'[d] = ticket[d]
          BY <2>2, <3>2
        <4>2. PICK call \in Held : /\ call.op = "signal" /\ call.by = d
                                   /\ call.id = ticket[d]
          BY <4>1 DEF Awaited, SignalOf
        <4> QED BY <2>1, <4>1, <4>2
      <3> QED BY <3>1, <3>2
    <2>6. AsleepUnset'
      BY <2>2 DEF AsleepUnset
    <2> QED BY <2>4, <2>5, <2>6
  <1>3. ASSUME NEW c \in Clients, EventSleep(c) \/ EventSpuriousWakeup(c)
        PROVE  Waiting'
    <2>1. UNCHANGED <<queue, stack, ran, posted>> /\ event' = event /\ ticket' = ticket
      BY <1>3 DEF EventSleep, EventSpuriousWakeup, historyVars
    <2>2. Held' = Held
      BY <2>1, QuietHeld
    <2>3. /\ \A d \in Clients : (wpc'[d] = "idle") = (wpc[d] = "idle")
          /\ \A d \in Clients : wpc'[d] = "asleep" => wpc[d] = "asleep" \/ ~event[d]
      BY <1>0, <1>3 DEF EventSleep, EventSpuriousWakeup
    <2>4. SignalsDue'
      BY <2>1, <2>2, <2>3 DEF SignalsDue, Due
    <2>5. Awaited'
      BY <2>1, <2>2, <2>3 DEF Awaited, SignalOf
    <2>6. AsleepUnset'
      BY <2>1, <2>3 DEF AsleepUnset
    <2> QED BY <2>4, <2>5, <2>6
  <1>4. ASSUME NEW c \in Clients, EventReturn(c) PROVE Waiting'
    <2>1. UNCHANGED <<queue, stack, ran, posted>> /\ ticket' = ticket /\ event[c]
      BY <1>4 DEF EventReturn
    <2>2. Held' = Held
      BY <2>1, QuietHeld
    <2>3. /\ \A d \in Clients : wpc'[d] = IF d = c THEN "idle" ELSE wpc[d]
          /\ \A d \in Clients : event'[d] = IF d = c THEN FALSE ELSE event[d]
      BY <1>0, <1>4 DEF EventReturn
    <2>4. SignalsDue'
      <3> SUFFICES ASSUME NEW call \in Held, call.op = "signal"
                   PROVE  /\ call.by \in Clients
                          /\ wpc'[call.by] # "idle"
                          /\ ~event'[call.by]
                          /\ ticket'[call.by] = call.id
        BY <2>2 DEF SignalsDue, Due
      <3>1. /\ call.by \in Clients /\ wpc[call.by] # "idle"
            /\ ~event[call.by] /\ ticket[call.by] = call.id
        BY DEF SignalsDue, Due
      <3>2. call.by # c
        BY <2>1, <3>1
      <3> QED BY <2>1, <2>3, <3>1, <3>2
    <2>5. Awaited'
      BY <2>1, <2>2, <2>3 DEF Awaited, SignalOf
    <2>6. AsleepUnset'
      BY <2>3 DEF AsleepUnset
    <2> QED BY <2>4, <2>5, <2>6
  <1>5. CASE LoopTest \/ Poll \/ DispatchEmpty \/ DispatchSleep \/ DispatchCancelled
             \/ Quit \/ Destructor \/ SpuriousWakeup \/ UNCHANGED vars
    <2>1. UNCHANGED <<queue, stack, ran, posted>> /\ UNCHANGED clientVars
      BY <1>5 DEF LoopTest, Poll, DispatchEmpty, DispatchSleep, DispatchCancelled,
                  Quit, Destructor, CancelBlockingCalls, Join, SpuriousWakeup,
                  vars, historyVars
    <2>2. Held' = Held
      BY <2>1, QuietHeld
    <2> QED BY <2>1, <2>2, WaitingKept
  <1>6. CASE DispatchTake
    <2>1. UNCHANGED clientVars
      BY <1>6 DEF DispatchTake
    <2>2. Held' = Held
      BY <1>6, TakeHeld
    <2> QED BY <2>1, <2>2, WaitingKept
  <1>7. CASE RunWork
    <2>1. Held' = Held \ {NextCall} /\ UNCHANGED clientVars
      BY <1>7, RunOnly DEF RunWork
    <2>2. NextCall.op # "signal"
      BY <1>7 DEF RunWork, CanRun
    <2> QED BY <2>1, <2>2, WaitingKept
  <1>8. CASE RunSpawn
    <2>1. Held' = (Held \ {NextCall}) \cup {NewCall("work", Nobody)} /\ UNCHANGED clientVars
      BY <1>8, RunPost DEF RunSpawn
    <2>2. NextCall.op # "signal" /\ NewCall("work", Nobody).op # "signal"
      BY <1>8 DEF RunSpawn, CanRun, NewCall
    <2> QED BY <2>1, <2>2, WaitingKept
  <1>9. CASE RunFlush
    <2>1. Held' = (Held \ {NextCall}) \cup {NewCall("mark", Nobody)} /\ UNCHANGED clientVars
      BY <1>9, RunPost, GarbageAssumption DEF RunFlush
    <2>2. NextCall.op # "signal" /\ NewCall("mark", Nobody).op # "signal"
      BY <1>9 DEF RunFlush, CanRun, NewCall
    <2> QED BY <2>1, <2>2, WaitingKept
  <1>10. CASE RunMark
    <2>1. CanRun("mark") /\ CountRun /\ UNCHANGED <<queue, posted>>
      BY <1>10 DEF RunMark
    <2>2. Held' = Held \ {NextCall}
      BY <1>10, <2>1, MarkSets, RunHeld
    <2>3. UNCHANGED clientVars
      BY <1>10 DEF RunMark
    <2>4. NextCall.op # "signal"
      BY <2>1 DEF CanRun
    <2> QED BY <2>2, <2>3, <2>4, WaitingKept
  <1>11. CASE RunSignal
    <2> DEFINE b == NextCall.by
    <2>1. /\ NextCall \in Held /\ Held' = Held \ {NextCall}
          /\ \A call \in Held' : call.id # NextCall.id
      BY <1>11, RunOnly DEF RunSignal
    <2>2. NextCall.op = "signal"
      BY <1>11 DEF RunSignal, CanRun
    <2>3. b \in Clients /\ ticket[b] = NextCall.id
      BY <2>1, <2>2 DEF SignalsDue, Due
    <2> HIDE DEF b
    <2>4. /\ event' = [event EXCEPT ![b] = TRUE]
          /\ wpc' = [wpc EXCEPT ![b] = IF @ = "asleep" THEN "waiting" ELSE @]
          /\ ticket' = ticket
      BY <1>11 DEF RunSignal, b
    <2>5. /\ \A d \in Clients : event'[d] = IF d = b THEN TRUE ELSE event[d]
          /\ \A d \in Clients : d # b => wpc'[d] = wpc[d]
          /\ wpc'[b] # "asleep"
      BY <1>0, <2>3, <2>4
    <2>6. SignalsDue'
      <3> SUFFICES ASSUME NEW call \in Held', call.op = "signal"
                   PROVE  /\ call.by \in Clients
                          /\ wpc'[call.by] # "idle"
                          /\ ~event'[call.by]
                          /\ ticket'[call.by] = call.id
        BY DEF SignalsDue, Due
      <3>1. /\ call.by \in Clients /\ wpc[call.by] # "idle"
            /\ ~event[call.by] /\ ticket[call.by] = call.id
        BY <2>1 DEF SignalsDue, Due
      <3>2. call.by # b
        BY <2>1, <2>3, <3>1
      <3> QED BY <2>4, <2>5, <3>1, <3>2
    <2>7. Awaited'
      <3> SUFFICES ASSUME NEW d \in Clients, wpc'[d] # "idle", ~event'[d]
                   PROVE  \E call \in Held' : /\ call.op = "signal" /\ call.by = d
                                             /\ call.id = ticket'[d]
        BY DEF Awaited, SignalOf
      <3>1. d # b
        BY <2>5
      <3>2. PICK call \in Held : /\ call.op = "signal" /\ call.by = d
                                 /\ call.id = ticket[d]
        BY <2>5, <3>1 DEF Awaited, SignalOf
      <3>3. call # NextCall
        BY <3>1, <3>2 DEF b
      <3> QED BY <2>1, <2>4, <3>2, <3>3
    <2>8. AsleepUnset'
      BY <2>5 DEF AsleepUnset
    <2> QED BY <2>6, <2>7, <2>8
  <1>12. CASE DispatchReturn \/ FlushReturn
    <2>1. UNCHANGED clientVars
      BY <1>12 DEF DispatchReturn, FlushReturn
    <2>2. Held' = Held
      BY <1>12, PopHeld
    <2> QED BY <2>1, <2>2, WaitingKept
  <1>13. CASE PollerFlush
    <2>1. Held' = Held \cup {NewCall("mark", Nobody)} /\ UNCHANGED clientVars
      BY <1>13, PollerHeld DEF PollerFlush
    <2>2. NewCall("mark", Nobody).op # "signal"
      BY DEF NewCall
    <2> QED BY <2>1, <2>2, WaitingKept
  <1> HIDE DEF Waiting
  <1> QED
    BY <1>1, <1>2, <1>3, <1>4, <1>5, <1>6, <1>7, <1>8, <1>9, <1>10, <1>11, <1>12, <1>13
    DEF Next, Dispatcher, Wait

(* Enqueue and CancelBlockingCalls wake the dispatching thread up.           *)
LEMMA IdleStep ==
    ASSUME TypeOK, DispatcherIdle, [Next]_vars
    PROVE  DispatcherIdle'
  <1>1. ASSUME NEW c \in Clients, NEW op \in Ops, Enqueue(c, op) PROVE dpc' # "asleep"
    BY <1>1 DEF Enqueue, NotifyNotEmpty
  <1>2. ASSUME NEW c \in Clients, WaitForPendingCalls(c) PROVE dpc' # "asleep"
    BY <1>2 DEF WaitForPendingCalls, NotifyNotEmpty
  <1>3. ASSUME NEW c \in Clients, Wait(c) \/ EventSpuriousWakeup(c)
        PROVE  UNCHANGED <<dpc, stack, queue, cancel>>
    BY <1>3 DEF Wait, EventSleep, EventReturn, EventSpuriousWakeup
  <1>4. CASE LoopTest \/ Poll \/ DispatchEmpty \/ DispatchCancelled \/ SpuriousWakeup
             \/ CancelBlockingCalls
    <2>1. dpc' # "asleep" \/ UNCHANGED <<dpc, stack, queue, cancel>> \/ (dpc' = dpc /\ stack # << >>)
      BY <1>4 DEF LoopTest, Poll, DispatchEmpty, DispatchCancelled, SpuriousWakeup,
                  CancelBlockingCalls, BackToCaller, NotifyNotEmpty
    <2> QED BY <2>1 DEF DispatcherIdle
  <1>5. CASE DispatchSleep
    BY <1>5 DEF DispatchSleep, Blocking, DispatcherIdle
  <1>6. CASE DispatchTake
    BY <1>6 DEF DispatchTake, BackToCaller, DispatcherIdle
  <1>7. CASE RunWork \/ RunSpawn \/ RunSignal \/ RunMark \/ RunFlush
             \/ DispatchReturn \/ FlushReturn
    <2>1. dpc' = dpc /\ stack # << >>
      BY <1>7 DEF RunWork, RunSpawn, RunSignal, RunMark, RunFlush, DispatchReturn,
                  FlushReturn, CanRun, InBatch
    <2> QED BY <2>1 DEF DispatcherIdle
  <1>8. CASE PollerFlush
    BY <1>8 DEF PollerFlush, DispatcherIdle
  <1>9. CASE Quit \/ Join \/ UNCHANGED vars
    BY <1>9 DEF Quit, Join, vars, DispatcherIdle
  <1>10. (dpc' # "asleep" \/ UNCHANGED <<dpc, stack, queue, cancel>>) => DispatcherIdle'
    BY DEF DispatcherIdle
  <1> QED
    BY <1>1, <1>2, <1>3, <1>4, <1>5, <1>6, <1>7, <1>8, <1>9, <1>10
    DEF Next, Dispatcher, Destructor

WaitInv == PlacedInv /\ Waiting /\ DispatcherIdle

LEMMA WaitInvariant == Spec => []WaitInv
  <1>1. Init => WaitInv
    <2> HAVE Init
    <2>1. PlacedInv
      BY TypeInit, PlacedInit DEF PlacedInv
    <2>2. queue = << >> /\ stack = << >> /\ Len(queue) = 0 /\ Len(stack) = 0
      BY DEF Init
    <2>3. Held = {}
      BY <2>2 DEF Held, InQueue, InStack, At
    <2>4. /\ \A c \in Clients : wpc[c] = "idle"
          /\ dpc = "loop"
      BY DEF Init
    <2> QED BY <2>1, <2>3, <2>4 DEF WaitInv, Waiting, SignalsDue, Awaited,
                                    AsleepUnset, DispatcherIdle
  <1>2. WaitInv /\ [Next]_vars => WaitInv'
    BY TypeStep, PlacedStep, WaitingStep, IdleStep DEF WaitInv, PlacedInv
  <1> QED BY <1>1, <1>2, PTL DEF Spec

(* Held speaks of the same calls as Pending.                               *)
LEMMA HeldPending ==
    ASSUME TypeOK, NEW call \in Held
    PROVE  Pending(call.id, call.op, call.by)
  <1>1. queue \in Seq(Call) /\ stack \in Seq(Frame)
    BY DEF TypeOK
  <1>2. CASE call \in InQueue(queue)
    BY <1>1, <1>2 DEF InQueue, Pending
  <1>3. CASE call \in InStack(stack)
    <2>1. PICK k \in Nat, i \in Nat : At(stack, k, i) /\ CallAt(stack, k, i) = call
      BY <1>3 DEF InStack
    <2>2. stack[k].rest \in Seq(Call)
      BY <1>1, <2>1, PlaceTyped
    <2>3. k \in DOMAIN stack /\ i \in DOMAIN stack[k].rest
      BY <1>1, <2>1, <2>2 DEF At
    <2>4. stack[k].rest[i] = call
      BY <2>1 DEF CallAt
    <2> QED BY <2>3, <2>4 DEF Pending
  <1> QED BY <1>2, <1>3 DEF Held

LEMMA PendingHeld ==
    ASSUME TypeOK, NEW id, NEW op, NEW by, Pending(id, op, by)
    PROVE  \E call \in Held : call.id = id /\ call.op = op /\ call.by = by
  <1>1. queue \in Seq(Call) /\ stack \in Seq(Frame)
    BY DEF TypeOK
  <1>2. ASSUME NEW i \in DOMAIN queue,
               queue[i].id = id /\ queue[i].op = op /\ queue[i].by = by
        PROVE  \E call \in Held : call.id = id /\ call.op = op /\ call.by = by
    BY <1>1, <1>2 DEF Held, InQueue
  <1>3. ASSUME NEW k \in DOMAIN stack, NEW i \in DOMAIN stack[k].rest,
               /\ stack[k].rest[i].id = id /\ stack[k].rest[i].op = op
               /\ stack[k].rest[i].by = by
        PROVE  \E call \in Held : call.id = id /\ call.op = op /\ call.by = by
    <2>1. k \in 1 .. Len(stack) /\ k \in Nat
      BY <1>1
    <2>2. stack[k] \in Frame
      BY <1>1, <2>1
    <2>3. stack[k].rest \in Seq(Call)
      BY <2>2 DEF Frame
    <2>4. i \in 1 .. Len(stack[k].rest) /\ i \in Nat /\ stack[k].rest[i] \in Call
      BY <2>3
    <2>5. stack[k].rest[i] \in InStack(stack)
      BY <2>1, <2>4 DEF InStack, At, CallAt
    <2> QED BY <1>3, <2>5 DEF Held
  <1> QED BY <1>2, <1>3 DEF Pending

(* Neither the dispatching thread nor a client sleeps through what it waits  *)
(* for, whatever the calls do.                                              *)
THEOREM NoNotificationMissed == Spec => []NoMissedNotify
  <1>1. WaitInv => NoMissedNotify
    <2> SUFFICES ASSUME WaitInv, NEW c \in Clients, wpc[c] = "asleep"
                 PROVE  ~event[c] /\ Pending(ticket[c], "signal", c)
      BY DEF NoMissedNotify, WaitInv, DispatcherIdle
    <2>1. ~event[c] /\ SignalOf(c)
      BY DEF WaitInv, Waiting, AsleepUnset, Awaited
    <2>2. PICK call \in Held : /\ call.op = "signal" /\ call.by = c
                               /\ call.id = ticket[c]
      BY <2>1 DEF SignalOf
    <2>3. Pending(call.id, call.op, call.by)
      BY HeldPending DEF WaitInv, PlacedInv
    <2> QED BY <2>1, <2>2, <2>3
  <1> QED BY <1>1, WaitInvariant, PTL

-----------------------------------------------------------------------------
(* The frame of a flush outlives its sentinel: it is popped when it is done, *)
(* and only its own sentinel completes it.                                  *)
LEMMA MarksMoved ==
    ASSUME Marks,
           \A call \in Held' : call.op = "mark" =>
              \/ call \in Held /\ (Open(stack, call.id) => Open(stack', call.id))
              \/ Open(stack', call.id)
    PROVE  Marks'
  BY DEF Marks

LEMMA OpenPushed ==
    ASSUME NEW st \in Seq(Frame), NEW f \in Frame, NEW m,
           \/ Open(st, m)
           \/ f.kind = "flush" /\ f.mark = m /\ ~f.done
    PROVE  Open(<<f>> \o st, m)
  <1> DEFINE su == <<f>> \o st
  <1>1. /\ Len(st) \in Nat /\ Len(su) = Len(st) + 1 /\ su[1] = f
        /\ \A k \in 1 .. Len(st) : su[k + 1] = st[k]
    BY Pushed
  <1> HIDE DEF su
  <1>2. ASSUME NEW k \in 1 .. Len(st), st[k].kind = "flush", st[k].mark = m, ~st[k].done
        PROVE  Open(su, m)
    <2>1. k + 1 \in 1 .. Len(su) /\ su[k + 1] = st[k]
      BY <1>1
    <2> QED BY <1>2, <2>1 DEF Open
  <1>3. ASSUME f.kind = "flush" /\ f.mark = m /\ ~f.done PROVE Open(su, m)
    <2>1. 1 \in 1 .. Len(su)
      BY <1>1
    <2> QED BY <1>1, <1>3, <2>1 DEF Open
  <1>4. Open(st, m) => Open(su, m)
    BY <1>2 DEF Open
  <1>5. Open(su, m)
    BY <1>3, <1>4
  <1> QED BY <1>5 DEF su

LEMMA OpenPopped ==
    ASSUME NEW st \in Seq(Frame), st # << >>, NEW m, Open(st, m),
           Head(st).kind = "flush" => Head(st).done
    PROVE  Open(Tail(st), m)
  <1> DEFINE su == Tail(st)
  <1>1. /\ Len(st) \in Nat \ {0} /\ Len(su) = Len(st) - 1 /\ Head(st) = st[1]
        /\ \A k \in 1 .. Len(st) - 1 : su[k] = st[k + 1]
    BY Dequeued
  <1> HIDE DEF su
  <1>2. PICK k \in 1 .. Len(st) : st[k].kind = "flush" /\ st[k].mark = m /\ ~st[k].done
    BY DEF Open
  <1>3. k # 1
    BY <1>1, <1>2
  <1>4. k - 1 \in 1 .. Len(su) /\ su[k - 1] = st[k]
    <2>1. k - 1 \in 1 .. Len(st) - 1 /\ (k - 1) + 1 = k
      BY <1>1, <1>3
    <2> QED BY <1>1, <2>1
  <1>5. Open(su, m)
    BY <1>2, <1>4 DEF Open
  <1> QED BY <1>5 DEF su

LEMMA OpenPicked ==
    ASSUME TypeOK, NEW op, CanRun(op), NEW m, Open(stack, m)
    PROVE  Open(AfterPick, m)
  <1>1. /\ stack \in Seq(Frame) /\ stack # << >> /\ Head(stack).rest # << >>
        /\ AfterPick = Picked(stack) /\ Head(stack).kind = "batch"
    BY DEF TypeOK, CanRun, InBatch, AfterPick, Picked
  <1>2. /\ Len(Picked(stack)) = Len(stack)
        /\ \A k \in 2 .. Len(stack) : Picked(stack)[k] = stack[k]
    BY <1>1, PickedPlaces
  <1>3. PICK k \in 1 .. Len(stack) :
           stack[k].kind = "flush" /\ stack[k].mark = m /\ ~stack[k].done
    BY DEF Open
  <1>4. Head(stack) = stack[1] /\ Len(stack) \in Nat
    BY <1>1
  <1>5. k \in 2 .. Len(stack)
    BY <1>1, <1>3, <1>4
  <1> QED BY <1>1, <1>2, <1>3, <1>5 DEF Open

LEMMA MarksStep ==
    ASSUME Garbage = {FALSE}, TypeOK, Placed, Marks, [Next]_vars
    PROVE  Marks'
  <1>0. stack \in Seq(Frame) /\ posted + 1 \in Nat
    BY DEF TypeOK
  <1>f. /\ FlushFrame(posted + 1, FALSE) \in Frame
        /\ FlushFrame(posted + 1, FALSE).kind = "flush"
        /\ FlushFrame(posted + 1, FALSE).mark = posted + 1
        /\ ~FlushFrame(posted + 1, FALSE).done
    BY <1>0, FramesTyped DEF FlushFrame
  <1>1. ASSUME NEW c \in Clients, NEW op \in Ops, Enqueue(c, op) PROVE Marks'
    <2>1. Held' = Held \cup {NewCall(op, c)} /\ stack' = stack
      BY <1>1, PostHeld DEF Enqueue
    <2>2. NewCall(op, c).op # "mark"
      BY OpsAssumption DEF NewCall
    <2> QED BY <2>1, <2>2, MarksMoved
  <1>2. ASSUME NEW c \in Clients, WaitForPendingCalls(c) PROVE Marks'
    <2>1. Held' = Held \cup {NewCall("signal", c)} /\ stack' = stack
      BY <1>2, PostHeld DEF WaitForPendingCalls
    <2>2. NewCall("signal", c).op # "mark"
      BY DEF NewCall
    <2> QED BY <2>1, <2>2, MarksMoved
  <1>3. ASSUME NEW c \in Clients, Wait(c) \/ EventSpuriousWakeup(c) PROVE Marks'
    <2>1. UNCHANGED <<queue, stack, ran, posted>>
      BY <1>3 DEF Wait, EventSleep, EventReturn, EventSpuriousWakeup, historyVars
    <2>2. Held' = Held /\ stack' = stack
      BY <2>1, QuietHeld
    <2> QED BY <2>2, MarksMoved
  <1>4. CASE LoopTest \/ Poll \/ DispatchEmpty \/ DispatchSleep \/ DispatchCancelled
             \/ Quit \/ Destructor \/ SpuriousWakeup \/ UNCHANGED vars
    <2>1. UNCHANGED <<queue, stack, ran, posted>>
      BY <1>4 DEF LoopTest, Poll, DispatchEmpty, DispatchSleep, DispatchCancelled,
                  Quit, Destructor, CancelBlockingCalls, Join, SpuriousWakeup,
                  vars, historyVars
    <2>2. Held' = Held /\ stack' = stack
      BY <2>1, QuietHeld
    <2> QED BY <2>2, MarksMoved
  <1>5. CASE DispatchTake
    <2>1. Held' = Held
      BY <1>5, TakeHeld
    <2>2. stack' = <<BatchFrame(queue)>> \o stack /\ BatchFrame(queue) \in Frame
      BY <1>5, FramesTyped DEF DispatchTake, TypeOK
    <2>3. \A m : Open(stack, m) => Open(stack', m)
      BY <1>0, <2>2, OpenPushed
    <2> QED BY <2>1, <2>3, MarksMoved
  <1>6. CASE RunWork
    <2>1. Held' = Held \ {NextCall} /\ stack' = AfterPick /\ CanRun("work")
      BY <1>6, RunOnly DEF RunWork
    <2>2. \A m : Open(stack, m) => Open(stack', m)
      BY <2>1, OpenPicked
    <2> QED BY <2>1, <2>2, MarksMoved
  <1>7. CASE RunSignal
    <2>1. Held' = Held \ {NextCall} /\ stack' = AfterPick /\ CanRun("signal")
      BY <1>7, RunOnly DEF RunSignal
    <2>2. \A m : Open(stack, m) => Open(stack', m)
      BY <2>1, OpenPicked
    <2> QED BY <2>1, <2>2, MarksMoved
  <1>8. CASE RunSpawn
    <2>1. /\ Held' = (Held \ {NextCall}) \cup {NewCall("work", Nobody)}
          /\ stack' = AfterPick /\ CanRun("spawn")
      BY <1>8, RunPost DEF RunSpawn
    <2>2. \A m : Open(stack, m) => Open(stack', m)
      BY <2>1, OpenPicked
    <2>3. NewCall("work", Nobody).op # "mark"
      BY DEF NewCall
    <2> QED BY <2>1, <2>2, <2>3, MarksMoved
  <1>9. CASE RunFlush
    <2>1. /\ Held' = (Held \ {NextCall}) \cup {NewCall("mark", Nobody)}
          /\ stack' = <<FlushFrame(posted + 1, FALSE)>> \o AfterPick /\ CanRun("flush")
      BY <1>9, RunPost DEF RunFlush
    <2>2. AfterPick \in Seq(Frame)
      BY <2>1, PickEffect
    <2>3. \A m : Open(stack, m) => Open(stack', m)
      BY <1>f, <2>1, <2>2, OpenPicked, OpenPushed
    <2>4. Open(stack', posted + 1)
      BY <1>f, <2>1, <2>2, OpenPushed
    <2>5. NewCall("mark", Nobody).id = posted + 1
      BY DEF NewCall
    <2> QED BY <2>1, <2>3, <2>4, <2>5, MarksMoved
  <1>10. CASE RunMark
    <2>1. CanRun("mark") /\ CountRun /\ UNCHANGED <<queue, posted>>
      BY <1>10 DEF RunMark
    <2>2. /\ Len(stack') = Len(AfterPick)
          /\ \A k \in 1 .. Len(AfterPick) :
                /\ stack'[k].rest = AfterPick[k].rest
                /\ stack'[k].kind = AfterPick[k].kind
                /\ stack'[k].mark = AfterPick[k].mark
                /\ AfterPick[k].mark # NextCall.id => stack'[k].done = AfterPick[k].done
      BY <1>10, MarkSets
    <2>3. Held' = Held \ {NextCall} /\ \A call \in Held' : call.id # NextCall.id
      BY <2>1, <2>2, RunHeld
    <2>4. ASSUME NEW m, m # NextCall.id, Open(stack, m) PROVE Open(stack', m)
      <3>1. Open(AfterPick, m)
        BY <2>1, <2>4, OpenPicked
      <3> QED BY <2>2, <2>4, <3>1 DEF Open
    <2> QED BY <2>3, <2>4, MarksMoved
  <1>11. CASE DispatchReturn \/ FlushReturn
    <2>1. Held' = Held
      BY <1>11, PopHeld
    <2>2. /\ stack # << >> /\ stack' = Tail(stack)
          /\ Head(stack).kind = "flush" => Head(stack).done
      BY <1>11 DEF DispatchReturn, FlushReturn, InBatch
    <2>3. \A m : Open(stack, m) => Open(stack', m)
      BY <1>0, <2>2, OpenPopped
    <2> QED BY <2>1, <2>3, MarksMoved
  <1>12. CASE PollerFlush
    <2>1. Held' = Held \cup {NewCall("mark", Nobody)}
      BY <1>12, PollerHeld
    <2>2. stack' = <<FlushFrame(posted + 1, FALSE)>> \o stack
      BY <1>12 DEF PollerFlush
    <2>3. \A m : Open(stack, m) => Open(stack', m)
      BY <1>0, <1>f, <2>2, OpenPushed
    <2>4. Open(stack', posted + 1)
      BY <1>0, <1>f, <2>2, OpenPushed
    <2>5. NewCall("mark", Nobody).id = posted + 1
      BY DEF NewCall
    <2> QED BY <2>1, <2>3, <2>4, <2>5, MarksMoved
  <1> QED
    BY <1>1, <1>2, <1>3, <1>4, <1>5, <1>6, <1>7, <1>8, <1>9, <1>10, <1>11, <1>12
    DEF Next, Dispatcher

(* The event or the flag that a sentinel will write still exists when it     *)
(* runs, if bCompleted starts as false.                                     *)
THEOREM SentinelsStayAlive ==
    ASSUME Garbage = {FALSE}
    PROVE  Spec => []SentinelsAlive
  <1>1. Init => Marks
    <2> HAVE Init
    <2>1. queue = << >> /\ stack = << >> /\ Len(queue) = 0 /\ Len(stack) = 0
      BY DEF Init
    <2>2. Held = {}
      BY <2>1 DEF Held, InQueue, InStack, At
    <2> QED BY <2>2 DEF Marks
  <1>2. WaitInv /\ Marks /\ [Next]_vars => Marks'
    BY MarksStep DEF WaitInv, PlacedInv
  <1>3. WaitInv /\ Marks => SentinelsAlive
    <2> SUFFICES ASSUME WaitInv, Marks PROVE SentinelsAlive
      OBVIOUS
    <2>1. TypeOK /\ stack \in Seq(Frame) /\ DOMAIN stack = 1 .. Len(stack)
      BY DEF WaitInv, PlacedInv, TypeOK
    <2>2. ASSUME NEW id \in 1 .. posted, Pending(id, "mark", Nobody)
          PROVE  \E k \in DOMAIN stack : stack[k].kind = "flush" /\ stack[k].mark = id
      <3>1. PICK call \in Held : call.id = id /\ call.op = "mark"
        BY <2>1, <2>2, PendingHeld
      <3>2. Open(stack, id)
        BY <3>1 DEF Marks
      <3> QED BY <2>1, <3>2 DEF Open
    <2>3. ASSUME NEW id \in 1 .. posted, NEW c \in Clients, Pending(id, "signal", c)
          PROVE  wpc[c] # "idle" /\ ticket[c] = id
      <3>1. PICK call \in Held : call.id = id /\ call.op = "signal" /\ call.by = c
        BY <2>1, <2>3, PendingHeld
      <3> QED BY <3>1 DEF WaitInv, Waiting, SignalsDue, Due
    <2> QED BY <2>2, <2>3 DEF SentinelsAlive
  <1> QED BY <1>1, <1>2, <1>3, WaitInvariant, PTL DEF Spec
=============================================================================
