------------------------------ MODULE CallQueue ------------------------------
(***************************************************************************)
(* CPPNinjaMonkey's CallQueue, with the DispatchThread that drains it and   *)
(* the AutoResetEvent its users wait on.                                   *)
(*                                                                         *)
(* Any client thread may Enqueue a call or wait for the pending ones.  One  *)
(* dispatching thread takes the whole queue under the mutex and runs the    *)
(* calls after it released it: either a DispatchThread, which loops on      *)
(* Dispatch(true) until the destructor stops it (Looping), or a thread that *)
(* polls with Dispatch(false) once a frame, as GameLoop::Run does.          *)
(*                                                                         *)
(* A critical section of m_queueMutex is one step.  Calls are numbered in   *)
(* the order in which Enqueue appended them; what a call does is one of     *)
(* Ops:                                                                    *)
(*   work    touches no queue                                              *)
(*   spawn   enqueues one more call (PeerServer's CreateSession does)       *)
(*   flush   calls WaitForPendingCalls(true) on the dispatching thread      *)
(* and the two sentinels of WaitForPendingCalls:                            *)
(*   signal  AutoResetEvent::Set on the event of the waiting client         *)
(*   mark    SetToTrue on the bCompleted of a WaitForPendingCalls(true)     *)
(***************************************************************************)
EXTENDS Naturals, Sequences, FiniteSets

CONSTANTS
    Clients,     \* threads other than the dispatching one
    Ops,         \* what the clients' calls may do
    Looping,     \* TRUE: DispatchThread; FALSE: polled once a frame
    Garbage,     \* the values the uninitialised bCompleted can read
    MaxCalls     \* bound: calls posted from outside a dispatched call

ASSUME OpsAssumption == Ops \subseteq {"work", "spawn", "flush"}
ASSUME LoopingAssumption == Looping \in BOOLEAN
ASSUME GarbageAssumption == Garbage \subseteq BOOLEAN /\ Garbage # {}
ASSUME MaxCallsAssumption == MaxCalls \in Nat

VARIABLES
    queue,   \* m_queue
    cancel,  \* m_bCancelBlocking
    quit,    \* m_bQuit of the DispatchThread
    stack,   \* the dispatching thread's calls in progress, innermost first
    dpc,     \* where its outermost loop is
    wpc,     \* where each client's WaitForPendingCalls(false) is
    event,   \* m_bSet of each client's completedEvent
    opc,     \* where the destructor of the DispatchThread is
    ticket,  \* history: number of the sentinel each client waits for
    posted,  \* history: calls appended to the queue so far
    ran,     \* history: numbers of the calls run, in order
    flushed  \* history: latest sentinel whose WaitForPendingCalls returned

clientVars == <<wpc, event, ticket>>
historyVars == <<posted, ran, flushed>>
vars == <<queue, cancel, quit, stack, dpc, opc, clientVars, historyVars>>

Nobody == "nobody"

Call == [id : Nat, op : Ops \cup {"work", "signal", "mark"},
         by : Clients \cup {Nobody}]

(* A frame of the dispatching thread: the calls a Dispatch has yet to run,   *)
(* or a WaitForPendingCalls(true) with its bCompleted.                      *)
Frame == [kind : {"batch", "flush"}, rest : Seq(Call), mark : Nat,
          done : BOOLEAN]

BatchFrame(calls) ==
    [kind |-> "batch", rest |-> calls, mark |-> 0, done |-> FALSE]
FlushFrame(id, bCompleted) ==
    [kind |-> "flush", rest |-> << >>, mark |-> id, done |-> bCompleted]

TypeOK ==
    /\ queue \in Seq(Call)
    /\ cancel \in BOOLEAN
    /\ quit \in BOOLEAN
    /\ stack \in Seq(Frame)
    /\ dpc \in {"loop", "dispatch", "asleep", "done"}
    /\ wpc \in [Clients -> {"idle", "waiting", "asleep"}]
    /\ event \in [Clients -> BOOLEAN]
    /\ opc \in {"up", "cancel", "join", "gone"}
    /\ ticket \in [Clients -> Nat]
    /\ posted \in Nat
    /\ ran \in Seq(Nat)
    /\ flushed \in Nat

Init ==
    /\ queue = << >>
    /\ cancel = FALSE
    /\ quit = FALSE
    /\ stack = << >>
    /\ dpc = "loop"
    /\ wpc = [c \in Clients |-> "idle"]
    /\ event = [c \in Clients |-> FALSE]
    /\ opc = "up"
    /\ ticket = [c \in Clients |-> 0]
    /\ posted = 0
    /\ ran = << >>
    /\ flushed = 0

-----------------------------------------------------------------------------
(* Faulty: the new call goes to the front of the queue.                     *)
PushFront1(op, by) ==
    /\ queue' = <<[id |-> posted + 1, op |-> op, by |-> by]>> \o queue
    /\ posted' = posted + 1

(* Enqueue's critical section: append under the lock.                      *)
Append1(op, by) ==
    /\ queue' = Append(queue, [id |-> posted + 1, op |-> op, by |-> by])
    /\ posted' = posted + 1

(* Faulty: the notification is forgotten.                                   *)
NotifyNobody == dpc' = dpc

(* notify_all on m_queueNotEmptyCondition: only the dispatching thread ever *)
(* waits on it.                                                            *)
NotifyNotEmpty ==
    dpc' = IF dpc = "asleep" THEN "dispatch" ELSE dpc

LaterOf(id) == flushed' = IF id > flushed THEN id ELSE flushed

(* A client thread enqueues a call.                                        *)
Enqueue(c, op) ==
    /\ opc # "gone"
    /\ wpc[c] = "idle"
    /\ posted < MaxCalls
    /\ Append1(op, c)
    /\ NotifyNotEmpty
    /\ UNCHANGED <<cancel, quit, stack, opc, clientVars, ran, flushed>>

(* Faulty: the sentinel is not bound to Set.                                *)
WaitUnbound(c) ==
    /\ opc # "gone"
    /\ wpc[c] = "idle"
    /\ posted < MaxCalls
    /\ Append1("wait", c)
    /\ NotifyNotEmpty
    /\ wpc' = [wpc EXCEPT ![c] = "waiting"]
    /\ event' = [event EXCEPT ![c] = FALSE]
    /\ ticket' = [ticket EXCEPT ![c] = posted + 1]
    /\ UNCHANGED <<cancel, quit, stack, opc, ran, flushed>>

(* WaitForPendingCalls(false): a fresh event, and its Set is enqueued.      *)
WaitForPendingCalls(c) ==
    /\ opc # "gone"
    /\ wpc[c] = "idle"
    /\ posted < MaxCalls
    /\ Append1("signal", c)
    /\ NotifyNotEmpty
    /\ wpc' = [wpc EXCEPT ![c] = "waiting"]
    /\ event' = [event EXCEPT ![c] = FALSE]
    /\ ticket' = [ticket EXCEPT ![c] = posted + 1]
    /\ UNCHANGED <<cancel, quit, stack, opc, ran, flushed>>

(* AutoResetEvent::Wait finds the event unset and sleeps on its condition.  *)
EventSleep(c) ==
    /\ wpc[c] = "waiting"
    /\ ~event[c]
    /\ wpc' = [wpc EXCEPT ![c] = "asleep"]
    /\ UNCHANGED <<queue, cancel, quit, stack, dpc, opc, event, ticket,
                   historyVars>>

(* Faulty: a wakeup is taken for the event, which is not tested again.      *)
ReturnUntested(c) ==
    /\ wpc[c] = "waiting"
    /\ wpc' = [wpc EXCEPT ![c] = "idle"]
    /\ event' = [event EXCEPT ![c] = FALSE]
    /\ LaterOf(ticket[c])
    /\ UNCHANGED <<queue, cancel, quit, stack, dpc, opc, ticket, posted, ran>>

(* AutoResetEvent::Wait finds it set, resets it and returns.                *)
EventReturn(c) ==
    /\ wpc[c] = "waiting"
    /\ event[c]
    /\ wpc' = [wpc EXCEPT ![c] = "idle"]
    /\ event' = [event EXCEPT ![c] = FALSE]
    /\ LaterOf(ticket[c])
    /\ UNCHANGED <<queue, cancel, quit, stack, dpc, opc, ticket, posted, ran>>

-----------------------------------------------------------------------------
(* The dispatching thread is inside Dispatch and holds the mutex: called by *)
(* its outermost loop, or by the loop of a WaitForPendingCalls(true).       *)
InDispatch ==
    \/ stack = << >> /\ dpc = "dispatch"
    \/ stack # << >> /\ Head(stack).kind = "flush" /\ ~Head(stack).done

(* bBlock: only DispatchContinuously passes true.                           *)
Blocking == Looping /\ stack = << >>

(* Where a Dispatch that ran nothing returns to.                            *)
BackToCaller == dpc' = IF stack = << >> THEN "loop" ELSE dpc

(* while(!m_bQuit) of DispatchContinuously.                                 *)
LoopTest ==
    /\ Looping
    /\ stack = << >>
    /\ dpc = "loop"
    /\ dpc' = IF quit THEN "done" ELSE "dispatch"
    /\ UNCHANGED <<queue, cancel, quit, stack, opc, clientVars, historyVars>>

(* GameLoop::Run calls Dispatch().                                          *)
Poll ==
    /\ ~Looping
    /\ stack = << >>
    /\ dpc = "loop"
    /\ dpc' = "dispatch"
    /\ UNCHANGED <<queue, cancel, quit, stack, opc, clientVars, historyVars>>

(* Faulty: Dispatch waits before it looks at the queue.                     *)
SleepUntested ==
    /\ InDispatch
    /\ Blocking
    /\ ~cancel
    /\ dpc' = "asleep"
    /\ UNCHANGED <<queue, cancel, quit, stack, opc, clientVars, historyVars>>

(* A non-blocking Dispatch of an empty queue returns at once.               *)
DispatchEmpty ==
    /\ InDispatch
    /\ ~Blocking
    /\ queue = << >>
    /\ BackToCaller
    /\ UNCHANGED <<queue, cancel, quit, stack, opc, clientVars, historyVars>>

(* A blocking one waits on the condition variable, which frees the mutex.   *)
DispatchSleep ==
    /\ InDispatch
    /\ Blocking
    /\ queue = << >>
    /\ ~cancel
    /\ dpc' = "asleep"
    /\ UNCHANGED <<queue, cancel, quit, stack, opc, clientVars, historyVars>>

(* Faulty: cancelling also empties the queue.                               *)
CancelledClears ==
    /\ InDispatch
    /\ cancel
    /\ Blocking \/ queue # << >>
    /\ cancel' = FALSE
    /\ queue' = << >>
    /\ BackToCaller
    /\ UNCHANGED <<quit, stack, opc, clientVars, historyVars>>

(* The cancel flag ends this Dispatch, with the queue left as it is.        *)
DispatchCancelled ==
    /\ InDispatch
    /\ cancel
    /\ Blocking \/ queue # << >>
    /\ cancel' = FALSE
    /\ BackToCaller
    /\ UNCHANGED <<queue, quit, stack, opc, clientVars, historyVars>>

(* Dispatch copies the queue, clears it and releases the mutex.             *)
DispatchTake ==
    /\ InDispatch
    /\ ~cancel
    /\ queue # << >>
    /\ stack' = <<BatchFrame(queue)>> \o stack
    /\ queue' = << >>
    /\ BackToCaller
    /\ UNCHANGED <<cancel, quit, opc, clientVars, historyVars>>

(* The dispatching thread is running the calls of its innermost Dispatch.   *)
InBatch == stack # << >> /\ Head(stack).kind = "batch"

(* The stack once the innermost Dispatch has called its next entry.         *)
AfterPick ==
    <<BatchFrame(Tail(Head(stack).rest))>> \o Tail(stack)

NextCall == Head(Head(stack).rest)

CanRun(op) == InBatch /\ Head(stack).rest # << >> /\ NextCall.op = op

CountRun == ran' = Append(ran, NextCall.id)

RunWork ==
    /\ CanRun("work")
    /\ CountRun
    /\ stack' = AfterPick
    /\ UNCHANGED <<queue, cancel, quit, dpc, opc, clientVars, posted, flushed>>

(* The call enqueues another one, behind everything already queued.         *)
RunSpawn ==
    /\ CanRun("spawn")
    /\ CountRun
    /\ stack' = AfterPick
    /\ Append1("work", Nobody)
    /\ UNCHANGED <<cancel, quit, dpc, opc, clientVars, flushed>>

(* Faulty: Set does not notify.                                             *)
SignalUnnotified ==
    /\ CanRun("signal")
    /\ CountRun
    /\ stack' = AfterPick
    /\ event' = [event EXCEPT ![NextCall.by] = TRUE]
    /\ UNCHANGED <<queue, cancel, quit, dpc, opc, wpc, ticket, posted,
                   flushed>>

(* AutoResetEvent::Set, and notify_one to its only waiter.                  *)
RunSignal ==
    /\ CanRun("signal")
    /\ CountRun
    /\ stack' = AfterPick
    /\ event' = [event EXCEPT ![NextCall.by] = TRUE]
    /\ wpc' = [wpc EXCEPT ![NextCall.by] =
                   IF @ = "asleep" THEN "waiting" ELSE @]
    /\ UNCHANGED <<queue, cancel, quit, dpc, opc, ticket, posted, flushed>>

(* Faulty: SetToTrue gets a copy of bCompleted, not a reference.            *)
MarkCopy ==
    /\ CanRun("mark")
    /\ CountRun
    /\ stack' = AfterPick
    /\ UNCHANGED <<queue, cancel, quit, dpc, opc, clientVars, posted, flushed>>

(* SetToTrue writes the bCompleted of the WaitForPendingCalls(true) that     *)
(* enqueued it, when that one has not returned yet.                         *)
RunMark ==
    /\ CanRun("mark")
    /\ CountRun
    /\ stack' = [i \in 1 .. Len(stack) |->
                    [AfterPick[i] EXCEPT
                        !.done = @ \/ (/\ AfterPick[i].kind = "flush"
                                       /\ AfterPick[i].mark = NextCall.id)]]
    /\ UNCHANGED <<queue, cancel, quit, dpc, opc, clientVars, posted, flushed>>

(* A call runs WaitForPendingCalls(true): bCompleted is not initialised.    *)
RunFlush ==
    /\ CanRun("flush")
    /\ CountRun
    /\ \E bCompleted \in Garbage :
          stack' = <<FlushFrame(posted + 1, bCompleted)>> \o AfterPick
    /\ Append1("mark", Nobody)
    /\ UNCHANGED <<cancel, quit, dpc, opc, clientVars, flushed>>

(* Every call of the batch has run: Dispatch returns.                       *)
DispatchReturn ==
    /\ InBatch
    /\ Head(stack).rest = << >>
    /\ stack' = Tail(stack)
    /\ UNCHANGED <<queue, cancel, quit, dpc, opc, clientVars, historyVars>>

(* The polling thread runs WaitForPendingCalls(true) between two frames.    *)
PollerFlush ==
    /\ ~Looping
    /\ stack = << >>
    /\ dpc = "loop"
    /\ posted < MaxCalls
    /\ \E bCompleted \in Garbage :
          stack' = <<FlushFrame(posted + 1, bCompleted)>>
    /\ Append1("mark", Nobody)
    /\ UNCHANGED <<cancel, quit, dpc, opc, clientVars, ran, flushed>>

(* Faulty: one Dispatch without a loop around it.                           *)
FlushOnce ==
    /\ stack # << >>
    /\ Head(stack).kind = "flush"
    /\ stack' = Tail(stack)
    /\ LaterOf(Head(stack).mark)
    /\ UNCHANGED <<queue, cancel, quit, dpc, opc, clientVars, posted, ran>>

(* while(!bCompleted) ends: WaitForPendingCalls(true) returns.              *)
FlushReturn ==
    /\ stack # << >>
    /\ Head(stack).kind = "flush"
    /\ Head(stack).done
    /\ stack' = Tail(stack)
    /\ LaterOf(Head(stack).mark)
    /\ UNCHANGED <<queue, cancel, quit, dpc, opc, clientVars, posted, ran>>

-----------------------------------------------------------------------------
(* ~DispatchThread: m_bQuit = true ...                                      *)
Quit ==
    /\ Looping
    /\ opc = "up"
    /\ quit' = TRUE
    /\ opc' = "cancel"
    /\ UNCHANGED <<queue, cancel, stack, dpc, clientVars, historyVars>>

(* Faulty: the flag is set, the sleeping thread is not woken.               *)
CancelUnnotified ==
    /\ opc = "cancel"
    /\ cancel' = TRUE
    /\ dpc' = dpc
    /\ opc' = "join"
    /\ UNCHANGED <<queue, quit, stack, clientVars, historyVars>>

(* ... then CancelBlockingCalls() ...                                       *)
CancelBlockingCalls ==
    /\ opc = "cancel"
    /\ cancel' = TRUE
    /\ NotifyNotEmpty
    /\ opc' = "join"
    /\ UNCHANGED <<queue, quit, stack, clientVars, historyVars>>

(* ... then join() the dispatching thread and destroy the queue.            *)
Join ==
    /\ opc = "join"
    /\ dpc = "done"
    /\ opc' = "gone"
    /\ UNCHANGED <<queue, cancel, quit, stack, dpc, clientVars, historyVars>>

(* Condition variables may wake up spontaneously: both waits test again.    *)
SpuriousWakeup ==
    /\ dpc = "asleep"
    /\ dpc' = "dispatch"
    /\ UNCHANGED <<queue, cancel, quit, stack, opc, clientVars, historyVars>>

EventSpuriousWakeup(c) ==
    /\ wpc[c] = "asleep"
    /\ wpc' = [wpc EXCEPT ![c] = "waiting"]
    /\ UNCHANGED <<queue, cancel, quit, stack, dpc, opc, event, ticket,
                   historyVars>>

-----------------------------------------------------------------------------
Dispatcher ==
    \/ LoopTest \/ Poll
    \/ DispatchEmpty \/ DispatchSleep \/ DispatchCancelled \/ DispatchTake
    \/ RunWork \/ RunSpawn \/ RunSignal \/ RunMark \/ RunFlush
    \/ DispatchReturn \/ FlushReturn

Wait(c) == EventSleep(c) \/ EventReturn(c)

Destructor == CancelBlockingCalls \/ Join

Next ==
    \/ \E c \in Clients :
          \/ \E op \in Ops : Enqueue(c, op)
          \/ WaitForPendingCalls(c)
          \/ Wait(c)
          \/ EventSpuriousWakeup(c)
    \/ Dispatcher \/ PollerFlush
    \/ Quit \/ Destructor
    \/ SpuriousWakeup

Spec == Init /\ [][Next]_vars

(* A thread that can run is scheduled, and the calls terminate.  Nothing is  *)
(* assumed of the clients' decisions to enqueue, wait, flush or quit, nor    *)
(* of spurious wakeups.                                                     *)
Fairness ==
    /\ WF_vars(Dispatcher)
    /\ \A c \in Clients : WF_vars(Wait(c))
    /\ WF_vars(Destructor)

FairSpec == Spec /\ Fairness

-----------------------------------------------------------------------------
(* Where the calls that have not run yet are: in the queue, or in a batch.  *)
QueuedAt(id) == {i \in DOMAIN queue : queue[i].id = id}
RanAt(id) == {i \in DOMAIN ran : ran[i] = id}
BatchedAt(id) ==
    {p \in (DOMAIN stack) \X (1 .. posted) :
        /\ p[2] \in DOMAIN stack[p[1]].rest
        /\ stack[p[1]].rest[p[2]].id = id}

(* A call in the queue or in a batch.                                       *)
Pending(id, op, by) ==
    LET isIt(call) == call.id = id /\ call.op = op /\ call.by = by
    IN  \/ \E i \in DOMAIN queue : isIt(queue[i])
        \/ \E k \in DOMAIN stack :
              \E i \in DOMAIN stack[k].rest : isIt(stack[k].rest[i])

(* Calls run in the order in which Enqueue accepted them, whatever threads   *)
(* they came from and however the batches were cut, each once: Enqueue,      *)
(* Dispatch's copy and its loop after the unlock.                           *)
InOrder == \A i \in DOMAIN ran : ran[i] = i

(* No accepted call is ever lost or duplicated, nested and cancelled         *)
(* Dispatches included: it is in the queue, in one batch, or has run.        *)
ExactlyOnce ==
    \A id \in 1 .. posted :
        Cardinality(QueuedAt(id)) + Cardinality(BatchedAt(id))
            + Cardinality(RanAt(id)) = 1

(* When WaitForPendingCalls has returned, every call enqueued before it has  *)
(* run: "ensure that all enqueued dispatch calls have been flushed".         *)
FlushKeepsPromise == \A id \in 1 .. flushed : id < flushed => RanAt(id) # {}

(* A sentinel points to a local variable of the WaitForPendingCalls that     *)
(* enqueued it: as long as it can still run, that call has not returned.     *)
SentinelsAlive ==
    /\ \A id \in 1 .. posted :
          Pending(id, "mark", Nobody) =>
              \E k \in DOMAIN stack :
                  stack[k].kind = "flush" /\ stack[k].mark = id
    /\ \A id \in 1 .. posted, c \in Clients :
          Pending(id, "signal", c) => wpc[c] # "idle" /\ ticket[c] = id

(* No notification is missed: the dispatching thread sleeps only while the   *)
(* queue is empty and uncancelled, a client only while its event is unset    *)
(* and the call that will set it has still to run.                          *)
NoMissedNotify ==
    /\ dpc = "asleep" => queue = << >> /\ ~cancel
    /\ \A c \in Clients :
          wpc[c] = "asleep" => ~event[c] /\ Pending(ticket[c], "signal", c)

(* A call that was accepted is eventually run, unless the DispatchThread is  *)
(* being destroyed (calls that are still queued then are dropped).          *)
CallsRun ==
    \A id \in 1 .. MaxCalls : (posted >= id) ~> (RanAt(id) # {} \/ quit)

(* WaitForPendingCalls(false) returns, unless the thread that would run its  *)
(* sentinel is being destroyed.                                             *)
WaitReturns ==
    \A c \in Clients : (wpc[c] # "idle") ~> (wpc[c] = "idle" \/ quit)

(* WaitForPendingCalls(true) returns, with calls enqueued all the while and  *)
(* with a cancellation that its own loop may consume.                       *)
FlushReturns ==
    \A id \in 1 .. 2 * MaxCalls :
        (\E k \in DOMAIN stack : stack[k].kind = "flush" /\ stack[k].mark = id)
            ~> (flushed >= id)

(* ~DispatchThread terminates wherever the thread is when it starts.         *)
DestructorReturns == quit ~> (opc = "gone")

(* The queue with its threads implements what it promises.                   *)
Mailbox == INSTANCE CallMailbox WITH delivered <- ran
MailboxSpec == Mailbox!Spec
=============================================================================
